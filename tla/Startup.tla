------------------------------- MODULE Startup -------------------------------
(***************************************************************************)
(* What is started with the computer (StartupExplorer.tsx,                 *)
(* StartupActionDialog.tsx, startupItems.ts, useStartupItems.ts) with the  *)
(* controller that enables and disables it (startup.rs), and the           *)
(* measurement of a start (useStartupImpactMeasurement.ts,                 *)
(* startupImpact.ts).  A behaviour is about one of the two.                *)
(***************************************************************************)
EXTENDS Integers, Sequences, FiniteSets, TLC

CONSTANTS
  MaxTurns,  \* bound on what the user, the computer and the clock do
  Limit,     \* samples after which a start is measured no longer
  Quiet,     \* quiet samples in a row after which a start is over
  Kept       \* measurements that are kept

VARIABLE s

\* A start needs three more: another launch and its time.
MayTurn == s.turns < (IF s.of = "items" THEN MaxTurns ELSE MaxTurns + 3)
Turn(t) == [t EXCEPT !.turns = @ + 1]

----------------------------------------------------------------------------
\* The items.  An application is started by a file the user may manage and by a
\* task of the system that it may not; another application has a file too.

Items == {"agent", "task", "other"}
Managed == {"agent", "other"}
SameApplication(a, b) == a = b \/ {a, b} = {"agent", "task"}

\* startupAdvice and filterStartupItems: the files are of the login, the task is
\* started in the background.
Filters == {"review", "login", "background", "disabled"}
Advice(listed, i) ==
  IF ~listed[i] THEN "disabled" ELSE IF i \in Managed THEN "review" ELSE "normal"
Listed(listed, filter) ==
  CASE filter = "review" -> {i \in Items : Advice(listed, i) = "review"}
    [] filter = "login" -> {i \in Managed : listed[i]}
    [] filter = "background" -> {i \in Items \ Managed : listed[i]}
    [] filter = "disabled" -> {i \in Items : ~listed[i]}

NoDialog == [item |-> "none", enabled |-> FALSE, preparing |-> FALSE, submitting |-> FALSE, error |-> FALSE]

\* `done` is kept only to state the properties: what became of the file of a record.
ItemsInit ==
  s = [of |-> "items", turns |-> 0, on |-> [i \in Items |-> TRUE], version |-> [i \in Items |-> 0],
       view |-> TRUE, shown |-> {}, failed |-> FALSE, listing |-> {"asked"}, read |-> {},
       dialog |-> NoDialog, outcome |-> {}, leases |-> {}, asked |-> 0, calls |-> {}, records |-> <<>>,
       done |-> <<>>]

\* refresh without a snapshot: one listing at a time; the hook asks again as
\* long as it has none.
Listing(t) == IF t.listing # {} THEN t ELSE [t EXCEPT !.listing = {"asked"}, !.failed = FALSE]
RefreshItems == s.listing = {} /\ s.shown # {} /\ MayTurn /\ s' = Turn(Listing(s))
ItemsAreRead == s.listing = {"asked"} /\ s' = [s EXCEPT !.listing = {"read"}, !.read = {s.on}]
ItemsArrive ==
  /\ s.listing = {"read"}
  /\ LET t == [s EXCEPT !.listing = {}, !.read = {}]
         again(u) == IF u.view /\ u.shown = {} THEN [u EXCEPT !.listing = {"asked"}] ELSE u
     IN s' \in {[t EXCEPT !.shown = s.read], again([t EXCEPT !.failed = TRUE])}

OpenActionDialog(t, i, enabled) ==
  [t EXCEPT !.dialog = [NoDialog EXCEPT !.item = i, !.enabled = enabled], !.outcome = {}]
Manage(i) ==
  /\ s.view /\ s.dialog = NoDialog /\ MayTurn
  /\ \E listed \in s.shown, filter \in Filters :
       i \in Listed(listed, filter) \cap Managed /\ s' = Turn(OpenActionDialog(s, i, listed[i]))
UndoOutcome ==
  /\ s.view /\ s.dialog = NoDialog /\ MayTurn
  /\ \E o \in s.outcome : o.status # "not_confirmed" /\ s' = Turn(OpenActionDialog(s, o.item, o.enabled))
CloseActionDialog ==
  s.dialog # NoDialog /\ ~s.dialog.submitting /\ MayTurn /\ s' = Turn([s EXCEPT !.dialog = NoDialog])

ConfirmAction ==
  /\ s.dialog # NoDialog /\ ~s.dialog.submitting /\ ~s.dialog.error
  /\ LET record == Len(s.records) + 1
     IN s' = [s EXCEPT !.dialog.submitting = TRUE, !.dialog.preparing = TRUE,
                       !.records = Append(@, "running"), !.done = Append(@, "nothing"),
                       !.calls = @ \cup {[op |-> "lease", item |-> s.dialog.item, enable |-> ~s.dialog.enabled,
                                          record |-> record, own |-> TRUE, lease |-> 0]}]

\* An error of a call: the page forgets its lease and stays with its dialog.
FailAction(c) ==
  [s EXCEPT !.calls = @ \ {c}, !.records[c.record] = "failed",
            !.dialog = IF c.own THEN [@ EXCEPT !.preparing = FALSE, !.submitting = FALSE, !.error = TRUE] ELSE @]

\* create_lease: for the state the item has, bound to the file it is now.
CreateLease(c) ==
  /\ c.op = "lease"
  /\ LET lease == [id |-> s.asked + 1, item |-> c.item, enable |-> c.enable, version |-> s.version[c.item]]
         held == [s EXCEPT !.asked = @ + 1, !.leases = @ \cup {lease}]
     IN \/ s' = FailAction(c)
        \/ /\ c.item \in Managed /\ s.on[c.item] # c.enable
           /\ s' = IF c.own
                   THEN [held EXCEPT !.dialog.preparing = FALSE,
                                     !.calls = (@ \ {c}) \cup {[c EXCEPT !.op = "execute", !.lease = lease.id]}]
                   \* The page was left: the lease is given back.
                   ELSE [held EXCEPT !.calls = (@ \ {c}) \cup {[c EXCEPT !.op = "release", !.lease = lease.id]}]

\* Fault: the sources that could not be read are left out.
IgnoreWarnings(c, seen, unread) ==
  IF seen[c.item] # c.enable THEN "not_confirmed" ELSE "complete"

\* evaluate_startup_management and apply_startup_scan_warnings, of the listing made after the move.
Verification(c, seen, unread) ==
  LET others == {i \in Items \ {c.item} : /\ SameApplication(c.item, i)
                                          /\ IF c.enable THEN ~seen[i] /\ i \notin Managed ELSE seen[i]}
  IN IF seen[c.item] # c.enable THEN "not_confirmed"
     ELSE IF others # {} \/ unread THEN "partial" ELSE "complete"

Recorded(verification) == IF verification = "complete" THEN "succeeded" ELSE "partial"

\* execute: the file is still the one that was confirmed.
SameFile(lease) == s.version[lease.item] = lease.version

\* The move, its check, and the answer: the page shows the outcome and the listing that came with it.
Execute(c) ==
  /\ c.op = "execute"
  /\ LET mine == {l \in s.leases : l.id = c.lease}
         taken(t) == [t EXCEPT !.leases = @ \ mine]
     IN \/ s' = taken(FailAction(c))
        \/ \E l \in mine : \E unread \in BOOLEAN :
             LET moved == [s.on EXCEPT ![l.item] = c.enable]
             IN \E seen \in {moved, s.on} :
                  LET verification == Verification(c, seen, unread)
                      told == [taken(s) EXCEPT
                                 !.on = seen, !.version[l.item] = @ + 1, !.shown = {seen}, !.failed = FALSE,
                                 !.calls = @ \ {c}, !.records[c.record] = Recorded(verification),
                                 !.done[c.record] =
                                   IF seen[l.item] # c.enable \/ s.on[l.item] = c.enable THEN "nothing"
                                   ELSE IF ~unread /\ (\A i \in Items : SameApplication(l.item, i) /\ ~c.enable => ~seen[i])
                                        THEN "all" ELSE "one"]
                  IN /\ SameFile(l)
                     /\ s' = IF c.own THEN [told EXCEPT !.dialog = NoDialog,
                                                        !.outcome = {[item |-> c.item, enabled |-> c.enable,
                                                                      status |-> verification]}]
                             ELSE told

\* A lease that is given back is gone, also when it was about to be used.
ReleaseLease(c) ==
  /\ c.op = "release"
  /\ s' = [s EXCEPT !.calls = @ \ {c}, !.leases = {l \in @ : l.id # c.lease}]

\* The page is left, and its lease given back; another one is opened.
LeaveItems ==
  /\ s.view /\ MayTurn
  /\ LET held == {[c EXCEPT !.op = "release", !.own = FALSE] : c \in {d \in s.calls : d.op = "execute" /\ d.own}}
     IN s' = Turn([s EXCEPT !.view = FALSE, !.dialog = NoDialog, !.outcome = {},
                            !.calls = {[c EXCEPT !.own = FALSE] : c \in @} \cup held])
EnterItems ==
  /\ ~s.view
  /\ LET t == [s EXCEPT !.view = TRUE] IN s' = IF t.shown = {} THEN Listing(t) ELSE t

\* Another program turns an item on or off.
ChangeOutside(i) ==
  /\ MayTurn
  /\ s' = Turn([s EXCEPT !.on[i] = ~@, !.version[i] = @ + 1])
EditOutside(i) == i \in Managed /\ MayTurn /\ s' = Turn([s EXCEPT !.version[i] = @ + 1])

ItemsNext ==
  \/ RefreshItems \/ ItemsAreRead \/ ItemsArrive \/ UndoOutcome \/ CloseActionDialog \/ ConfirmAction
  \/ LeaveItems \/ EnterItems
  \/ \E i \in Managed : Manage(i) \/ EditOutside(i)
  \/ \E i \in Items : ChangeOutside(i)
  \/ \E c \in s.calls : CreateLease(c) \/ Execute(c) \/ ReleaseLease(c)

----------------------------------------------------------------------------
\* The measurement of a start.  Time is counted in samples; a launch is named by
\* its time.  `loads` are the samples of the launch, kept to state the property.

NoLaunch == [at |-> 0, background |-> FALSE]
ImpactInit ==
  s = [of |-> "impact", turns |-> 0, now |-> 1, launch |-> NoLaunch, hydrated |-> FALSE, context |-> FALSE,
       active |-> {}, timer |-> FALSE, stored |-> <<>>, sampled |-> 0, actions |-> {}, loads |-> <<>>]

Launch(background) ==
  /\ MayTurn /\ s.now > s.launch.at
  /\ s' = Turn([s EXCEPT !.launch = [at |-> s.now, background |-> background], !.hydrated = FALSE,
                         !.context = FALSE, !.active = {}, !.timer = FALSE, !.sampled = 0, !.loads = <<>>])
Hydrate ==
  s.launch # NoLaunch /\ ~s.hydrated /\ s' = [s EXCEPT !.hydrated = TRUE, !.context = TRUE]

Measured(launch) == \E k \in 1..Len(s.stored) : s.stored[k].launch = launch
\* createStartupImpactAccumulator, when the program was started in the background a short while ago.
ContextArrives ==
  /\ s.context
  /\ LET t == [s EXCEPT !.context = FALSE]
         begun == [t EXCEPT !.timer = TRUE,
                            !.active = {[launch |-> s.launch.at, count |-> 0, quiet |-> 0, peak |-> 0]}]
     IN s' \in {t, IF /\ s.launch.background /\ ~Measured(s.launch.at)
                      /\ s.now - s.launch.at < Limit
                   THEN begun ELSE t}

\* mergeStartupImpactMeasurement
Merge(list, m) ==
  LET others == SelectSeq(list, LAMBDA o : o.launch # m.launch)
      all == <<m>> \o others
  IN SubSeq(all, 1, IF Len(all) < Kept THEN Len(all) ELSE Kept)

\* completeStartupImpactMeasurement, stored once: the timer and the sample share what is measured.
Complete(t, a, settled) ==
  [t EXCEPT !.active = {}, !.timer = FALSE,
            !.stored = Merge(@, [launch |-> a.launch, after |-> IF settled THEN t.now - a.launch ELSE -1,
                                 samples |-> a.count, peak |-> a.peak, loads |-> t.loads])]

\* addStartupImpactSample: a load of 0 is a quiet one.
QuietAfter(a, cpu) == IF cpu = 0 THEN a.quiet + 1 ELSE 0
Sample(cpu) ==
  /\ s.sampled # s.now
  /\ \E a \in s.active :
       LET b == [a EXCEPT !.count = @ + 1, !.quiet = QuietAfter(a, cpu), !.peak = IF cpu > @ THEN cpu ELSE @]
           t == [s EXCEPT !.sampled = s.now, !.active = {b}, !.loads = Append(@, cpu)]
           settled == b.count >= Quiet /\ b.quiet >= Quiet
       IN s' = IF settled \/ s.now - a.launch >= Limit THEN Complete(t, b, settled) ELSE t
Deadline ==
  /\ s.timer /\ s.now - s.launch.at >= Limit
  /\ \E a \in s.active : s' = Complete(s, a, FALSE)
Tick == MayTurn /\ s' = Turn([s EXCEPT !.now = @ + 1])

\* A start-up action that succeeded; the measurements are cleared.
ActOnStartup == MayTurn /\ s.now \notin s.actions /\ s' = Turn([s EXCEPT !.actions = @ \cup {s.now}])
ClearMeasurements == MayTurn /\ s.stored # <<>> /\ s' = Turn([s EXCEPT !.stored = <<>>])

ImpactNext ==
  \/ \E background \in BOOLEAN : Launch(background)
  \/ \E cpu \in 0..1 : Sample(cpu)
  \/ Hydrate \/ ContextArrives \/ Deadline \/ Tick \/ ActOnStartup \/ ClearMeasurements

\* compareStartupImpact: twice the median of the earlier ones, a tenth of which is similar.
TwiceMedian(values) ==
  LET ordered == SortSeq(values, LAMBDA a, b : a < b)
      n == Len(ordered)
  IN ordered[(n + 1) \div 2] + ordered[n \div 2 + 1]
Direction(list) ==
  LET settled == SelectSeq(Tail(list), LAMBDA m : m.after # -1)
      base == TwiceMedian([k \in 1..Len(settled) |-> settled[k].after])
      delta == 2 * list[1].after - base
  IN IF settled = <<>> \/ list[1].after = -1 \/ base <= 0 THEN "similar"
     ELSE IF 10 * delta < base /\ 10 * delta > -base THEN "similar"
     ELSE IF delta < 0 THEN "improved" ELSE "slower"

\* Fault: the actions before the measurement before count as well.
AnyActionBefore(list) == {a \in s.actions : a < list[1].launch}

\* startupActionsBeforeMeasurement
ActionsBefore(list) ==
  {a \in s.actions : a < list[1].launch /\ (Len(list) > 1 => a > list[2].launch)}

\* StartupImpactPanel: what is told of the latest start.
ImpactPanel(list) ==
  IF list = <<>> THEN {} ELSE {[direction |-> Direction(list), actions |-> ActionsBefore(list)]}

----------------------------------------------------------------------------
Init == ItemsInit \/ ImpactInit
Next ==
  \/ s.of = "items" /\ ItemsNext
  \/ s.of = "impact" /\ ImpactNext

Operations == {"read", "listing", "lease", "execute", "release", "context", "deadline"}
AnswerOf(op) ==
  \/ op = "read" /\ s.of = "items" /\ ItemsAreRead
  \/ op = "listing" /\ s.of = "items" /\ ItemsArrive
  \/ op = "lease" /\ s.of = "items" /\ \E c \in s.calls : CreateLease(c)
  \/ op = "execute" /\ s.of = "items" /\ \E c \in s.calls : Execute(c)
  \/ op = "release" /\ s.of = "items" /\ \E c \in s.calls : ReleaseLease(c)
  \/ op = "context" /\ s.of = "impact" /\ ContextArrives
  \/ op = "deadline" /\ s.of = "impact" /\ Deadline

\* What is shown is asked again in vain as long as it cannot be read, so a first
\* listing is not waited for.
Waiting ==
  IF s.of = "items" THEN s.calls # {} \/ (s.listing # {} /\ s.shown # {})
  ELSE s.context \/ (s.timer /\ s.now - s.launch.at >= Limit)

----------------------------------------------------------------------------
\* What an action is recorded as is what became of the file that was confirmed:
\* a success turned it, and left no other start of its application that could be
\* seen; a failure changed nothing (confirmAction, startup.rs).
RecordedAsHappened ==
  s.of = "items" =>
    \A k \in 1..Len(s.records) :
      /\ s.records[k] = "succeeded" => s.done[k] = "all"
      /\ s.records[k] = "failed" => s.done[k] = "nothing"

\* A start is measured once, however its last sample, its deadline and another
\* start fall together; one that came to rest ended in quiet samples.
MeasuredOnce ==
  s.of = "impact" =>
    /\ Len(s.stored) <= Kept
    /\ \A k \in 1..Len(s.stored) :
         LET m == s.stored[k]
             last == m.samples
         IN /\ k < Len(s.stored) => m.launch > s.stored[k + 1].launch
            /\ last = Len(m.loads)
            /\ m.after # -1 => last >= Quiet /\ \A j \in (last - Quiet + 1)..last : m.loads[j] = 0

\* An action belongs to one start, and a start that is told to be quicker was
\* quicker than half of those before it (StartupImpactPanel).
ComparedFairly ==
  (s.of = "impact" /\ s.stored # <<>>) =>
    LET n == Len(s.stored)
        panels(k) == ImpactPanel(SubSeq(s.stored, k, n))
        slower == {k \in 2..n : s.stored[k].after > s.stored[1].after}
        settled == {k \in 2..n : s.stored[k].after # -1}
    IN /\ \A j \in 1..n : \A k \in 1..(j - 1) :
            \A p \in panels(j), q \in panels(k) : p.actions \cap q.actions = {}
       /\ \A p \in panels(1) :
            p.direction = "improved" => 2 * Cardinality(slower) >= Cardinality(settled)
=============================================================================
