------------------------------ MODULE Incidents ------------------------------
(***************************************************************************)
(* The life of an incident of the daily view (src/dailyIncidents.ts, with  *)
(* the items of src/dailyExperience.ts and src/deviceWellbeing.ts): a      *)
(* condition is pending until it was seen for long enough, active, then    *)
(* recovering until it was calm for long enough, and resolved; a reading   *)
(* between the two thresholds, or none, holds it.  src/healthState.ts      *)
(* publishes the result under a revision, and a window may hear of two     *)
(* revisions in either order.                                              *)
(*                                                                         *)
(* Times are scaled: the ratios and the order of the code's are kept.      *)
(***************************************************************************)
EXTENDS Integers, Sequences, FiniteSets, FiniteSetsExt

CONSTANTS
  Watched,   \* what can go wrong, of All
  MaxEvals,  \* bound of the model: samples evaluated
  MaxReads   \* bound of the model: readings of the published state asked for

VARIABLE s

None == [none |-> TRUE]

Confirmation == 2
UrgentTemperatureConfirmation == 1
Recovery == 3
BatteryRecovery == 1
ResolvedRetention == 4
MaximumGap == 2

----------------------------------------------------------------------------
(* Readings: critical, high (from the threshold on), middle (below it but  *)
(* not yet calm), low, and none.                                           *)

Readings == {"none", "low", "middle", "high", "critical"}

\* A condition that must last is seen by the diagnosis, and one that comes of
\* the number of connections has no duration.  No sleep blocker is urgent; it
\* must last, too, to be an item.
Observed(kind, reading) ==
  CASE reading = "critical" -> IF kind = "sleep" THEN "attention" ELSE "urgent"
    [] reading = "high" -> "attention"
    [] OTHER -> "no"

Item(kind, reading) == [kind |-> kind, level |-> Observed(kind, reading)]
LevelRank(level) == IF level = "urgent" THEN 2 ELSE 1
StrongerItem(current, candidate) ==
  IF LevelRank(candidate.level) > LevelRank(current.level) THEN candidate ELSE current

ConfirmationDurationFor(item) ==
  CASE item.kind \in {"battery", "sleep", "low_storage"} -> 0
    [] item.kind = "temperature" /\ item.level = "urgent" -> UrgentTemperatureConfirmation
    [] item.kind = "memory_pressure" /\ item.level = "urgent" -> 0  \* nearly none left, found at once
    [] OTHER -> Confirmation
RecoveryDurationFor(item) == IF item.kind = "battery" THEN BatteryRecovery ELSE Recovery

\* A measure that is missing never says that it is over.
RecoverySignalFor(kind, reading) == IF reading = "low" THEN "recover" ELSE "hold"

----------------------------------------------------------------------------
(* Trackers.                                                               *)

CreatePendingTracker(item, now) ==
  [phase |-> "pending", item |-> item, peak |-> item, first |-> now, activated |-> now, last |-> now,
   recovery |-> -1, resolved |-> -1]

ActivateIfReady(t, now) ==
  IF t.phase = "pending" /\ now - t.first >= ConfirmationDurationFor(t.item)
  THEN [t EXCEPT !.phase = "active", !.activated = now] ELSE t

\* Fault: a candidate goes on after any pause.
SeenAfterAnyPause(existing, item, now) ==
  IF existing = None \/ existing.phase = "resolved"
  THEN ActivateIfReady(CreatePendingTracker(item, now), now)
  ELSE ActivateIfReady(
         [existing EXCEPT !.phase = IF @ = "pending" THEN "pending" ELSE "active", !.item = item,
                          !.peak = StrongerItem(@, item), !.last = now, !.recovery = -1, !.resolved = -1], now)

\* A condition seen again: a candidate that was not heard of for too long
\* begins anew, and what recovers is active again.
Seen(existing, item, now) ==
  IF \/ existing = None
     \/ existing.phase = "resolved"
     \/ existing.phase = "pending" /\ now - existing.last > MaximumGap
  THEN ActivateIfReady(CreatePendingTracker(item, now), now)
  ELSE ActivateIfReady(
         [existing EXCEPT !.phase = IF @ = "pending" THEN "pending" ELSE "active", !.item = item,
                          !.peak = StrongerItem(@, item), !.last = now, !.recovery = -1, !.resolved = -1], now)

\* A condition not seen: a candidate is dropped, and what was confirmed must
\* be calm for a while.
Unseen(existing, reading, now) ==
  CASE existing = None \/ existing.phase = "pending" -> None
    [] existing # None /\ existing.phase = "resolved" ->
         IF now - existing.resolved >= ResolvedRetention THEN None ELSE existing
    [] existing # None /\ existing.phase \in {"active", "recovering"} ->
         LET since == IF existing.recovery = -1 THEN now ELSE existing.recovery
         IN IF RecoverySignalFor(existing.item.kind, reading) = "hold"
            THEN [existing EXCEPT !.phase = "active", !.recovery = -1]
            ELSE IF now - since < RecoveryDurationFor(existing.item)
            THEN [existing EXCEPT !.phase = "recovering", !.recovery = since]
            ELSE [existing EXCEPT !.phase = "resolved", !.recovery = since, !.resolved = now]

EvaluateDailyIncidents(trackers, readings, now) ==
  [k \in Watched |->
     IF Observed(k, readings[k]) # "no" THEN Seen(trackers[k], Item(k, readings[k]), now)
     ELSE Unseen(trackers[k], readings[k], now)]

ActiveDailyIncidents(trackers) ==
  {k \in Watched : trackers[k] # None /\ trackers[k].phase \in {"active", "recovering"}}
PendingDailyIncidentCount(trackers) ==
  Cardinality({k \in Watched : trackers[k] # None /\ trackers[k].phase = "pending"})

DailyIncidentDisplayLevel(t) == IF t.phase = "active" THEN t.item.level ELSE "attention"
DailyIncidentLevel(trackers, baseline) ==
  LET active == ActiveDailyIncidents(trackers)
  IN CASE \E k \in active : DailyIncidentDisplayLevel(trackers[k]) = "urgent" -> "urgent"
       [] active # {} /\ (\A k \in active : DailyIncidentDisplayLevel(trackers[k]) # "urgent") -> "attention"
       [] active = {} -> IF baseline /\ PendingDailyIncidentCount(trackers) = 0 THEN "normal" ELSE "observing"

\* What is shown first: the active before the recovering, the urgent before the others, the older.
Rank(t) == (IF t.phase = "active" THEN 0 ELSE 2) + 2 - LevelRank(DailyIncidentDisplayLevel(t))
CompareIncidents(t, u) == Rank(t) < Rank(u) \/ (Rank(t) = Rank(u) /\ t.activated <= u.activated)
Primary(trackers) ==
  LET active == ActiveDailyIncidents(trackers)
  IN IF active = {} THEN "none"
     ELSE CHOOSE k \in active : \A q \in active : CompareIncidents(trackers[k], trackers[q])

\* The strip of the daily view has an item for speed, space, temperature and
\* battery; what keeps the machine awake has none.
StatusKinds == {"speed", "space", "temperature", "battery"}
IncidentMatchesStatus(k, kind) ==
  IF k \in {"temperature", "battery"} THEN kind = k
  ELSE k # "sleep" /\ kind = IF k = "low_storage" THEN "space" ELSE "speed"

\* What the sample alone says of an item.
BuildDailyStatusItems(readings, baseline) ==
  [kind \in StatusKinds |->
     LET matching == {k \in Watched : IncidentMatchesStatus(k, kind)}
         levels == {Observed(k, readings[k]) : k \in matching}
     IN CASE "urgent" \in levels -> "urgent"
          [] "urgent" \notin levels /\ "attention" \in levels -> "attention"
          [] levels \cap {"urgent", "attention"} = {} ->
               IF kind = "speed" THEN IF baseline THEN "normal" ELSE "observing"
               ELSE IF \A k \in matching : readings[k] = "none" THEN "unavailable" ELSE "normal"]

\* Fault: an item without a reading shows nothing.
StableWhileRead(trackers, readings, baseline) ==
  [kind \in StatusKinds |->
     LET base == BuildDailyStatusItems(readings, baseline)[kind]
         matching == {k \in ActiveDailyIncidents(trackers) : IncidentMatchesStatus(k, kind)}
         levels == {DailyIncidentDisplayLevel(trackers[k]) : k \in matching}
     IN IF base = "unavailable" THEN base
        ELSE IF matching # {} THEN IF "urgent" \in levels THEN "urgent" ELSE "attention"
        ELSE IF kind = "speed" /\ ~baseline THEN "observing" ELSE "normal"]

\* An item shows its incidents; what a sample says of it counts only for want
\* of a reading.
BuildStableDailyStatusItems(trackers, readings, baseline) ==
  [kind \in StatusKinds |->
     LET base == BuildDailyStatusItems(readings, baseline)[kind]
         matching == {k \in ActiveDailyIncidents(trackers) : IncidentMatchesStatus(k, kind)}
         levels == {DailyIncidentDisplayLevel(trackers[k]) : k \in matching}
     IN IF matching # {} THEN IF "urgent" \in levels THEN "urgent" ELSE "attention"
        ELSE IF base = "unavailable" THEN base
        ELSE IF kind = "speed" /\ ~baseline THEN "observing" ELSE "normal"]

----------------------------------------------------------------------------
(* The state published, and a window that shows it.                        *)

BuildHealthStateUpdate(trackers, now) ==
  [health |-> DailyIncidentLevel(trackers, TRUE), primary |-> Primary(trackers), sampled |-> now]

\* Fault: what arrived last is taken for the newest.
SelectLatestHealthState(current, candidate) == IF candidate = None THEN current ELSE candidate

SelectNewerHealthState(current, candidate) ==
  IF candidate = None THEN current
  ELSE IF current = None THEN candidate
  ELSE IF candidate.revision > current.revision THEN candidate ELSE current

\* The bounds go to the samples of one condition, or to the windows that hear of them all.
Init ==
  \E bounds \in {[watch |-> {k}, evals |-> MaxEvals, reads |-> 0] : k \in Watched}
                 \cup {[watch |-> Watched, evals |-> 2, reads |-> MaxReads]} :
    s = [trackers |-> [k \in Watched |-> None], now |-> 0, log |-> <<>>, published |-> None, calls |-> {},
         shown |-> None, mounted |-> FALSE, evals |-> bounds.evals, reads |-> bounds.reads, watch |-> bounds.watch]

\* A sample is evaluated, and the result published to the windows that listen.
Evaluate(now, readings) ==
  /\ s.evals > 0
  /\ LET trackers == EvaluateDailyIncidents(s.trackers, readings, now)
         next == [revision |-> Len(s.log) + 1, state |-> BuildHealthStateUpdate(trackers, now)]
     IN s' = [s EXCEPT !.trackers = trackers, !.now = now, !.published = next, !.evals = @ - 1,
                       !.log = Append(@, [at |-> now, readings |-> readings]),
                       !.calls = IF s.mounted THEN @ \cup {next} ELSE @]

\* Fault: the window asks for the state once and does not listen from then on.
ConnectUnread ==
  /\ s.reads > 0
  /\ s' = [s EXCEPT !.mounted = TRUE, !.reads = @ - 1]

\* A window listens before it asks for the state that is kept; both answers are taken alike.
Connect ==
  /\ s.reads > 0
  /\ s' = [s EXCEPT !.mounted = TRUE, !.reads = @ - 1, !.calls = @ \cup ({s.published} \ {None})]

Accept(c) == s' = [s EXCEPT !.calls = @ \ {c}, !.shown = SelectNewerHealthState(@, c)]
Close == s.mounted /\ s' = [s EXCEPT !.mounted = FALSE, !.calls = {}, !.shown = None]

Operations == 1..MaxEvals
AnswerOf(revision) == \E c \in s.calls : c.revision = revision /\ Accept(c)

Next ==
  \/ \E d \in 1..3, readings \in [s.watch -> Readings] :
       Evaluate(s.now + d, [k \in Watched |-> IF k \in s.watch THEN readings[k] ELSE "none"])
  \/ \E r \in Operations : AnswerOf(r)
  \/ Connect \/ Close

----------------------------------------------------------------------------
(* Properties.                                                             *)

Revision(state) == IF state = None THEN 0 ELSE state.revision
Samples(from, to) == {i \in DOMAIN s.log : s.log[i].at >= from /\ s.log[i].at <= to}

\* An incident that was confirmed was seen in each sample from the first one
\* to the one that made it active, for as long as its kind asks for, with no
\* pause in which it might have gone.
ActiveIsConfirmed ==
  \A k \in Watched :
    LET t == s.trackers[k]
    IN t # None /\ t.phase # "pending" =>
         /\ \A i \in Samples(t.first, t.activated) : Observed(k, s.log[i].readings[k]) # "no"
         /\ \A i \in Samples(t.first + 1, t.activated) : s.log[i].at - s.log[i - 1].at <= MaximumGap
         /\ \E i \in Samples(t.activated, t.activated) :
              t.activated - t.first >= ConfirmationDurationFor(Item(k, s.log[i].readings[k]))

\* An incident is resolved when every sample since it began to recover was
\* calm, for as long as its kind asks for; it is recovering for less long than
\* that; and its peak is the worst that was seen of it.
ResolvedIsCalm ==
  \A k \in Watched :
    LET t == s.trackers[k]
    IN /\ t # None /\ t.phase = "resolved" =>
            /\ t.resolved - t.recovery >= RecoveryDurationFor(t.item)
            /\ \A i \in Samples(t.recovery, t.resolved) : s.log[i].readings[k] = "low"
       /\ t # None /\ t.phase = "recovering" =>
            \A i \in Samples(t.recovery, s.now) : s.log[i].readings[k] = "low"
       /\ t # None /\ k # "sleep" =>
            (t.peak.level = "urgent") <=>
              (\E i \in Samples(t.first, s.now) : s.log[i].readings[k] = "critical" /\ s.log[i].at <= t.last)

\* The strip tells of what was confirmed, no less and no more: it is urgent
\* where the whole is, an incident is on it even when its reading is gone, a
\* candidate is not, and nothing on it is worse than what is named first.
StripAgrees ==
  LET readings == IF s.log = <<>> THEN [k \in Watched |-> "none"] ELSE s.log[Len(s.log)].readings
      active == ActiveDailyIncidents(s.trackers)
  IN \A baseline \in BOOLEAN :
       LET items == BuildStableDailyStatusItems(s.trackers, readings, baseline)
           Alarming(kind) == items[kind] \in {"attention", "urgent"}
       IN /\ DailyIncidentLevel(s.trackers, baseline) = "urgent" <=> \E kind \in StatusKinds : items[kind] = "urgent"
          /\ \A k \in active \ {"sleep"} : \E kind \in StatusKinds : IncidentMatchesStatus(k, kind) /\ Alarming(kind)
          /\ \A kind \in StatusKinds : Alarming(kind) =>
               /\ \E k \in active : IncidentMatchesStatus(k, kind)
               /\ LevelRank(items[kind]) <= LevelRank(DailyIncidentDisplayLevel(s.trackers[Primary(s.trackers)]))

\* What was confirmed stays an incident until it is resolved, and a resolved
\* one is shown for its time unless it happens again.
NoIncidentIsLost ==
  \A k \in Watched :
    LET t == s.trackers[k] u == s'.trackers[k]
    IN /\ t # None /\ t.phase \in {"active", "recovering"} => u # None /\ u.phase # "pending" /\ u.first = t.first
       /\ t # None /\ t.phase = "resolved" /\ u = None => s'.now - t.resolved >= ResolvedRetention

\* Whatever the order in which the answers come, a window never goes back to
\* an older state.
ShownIsNewest == s.shown # None /\ s'.shown # None => s'.shown.revision >= s.shown.revision

\* A window that listens does not show revision r, which was published last:
\* not for long, as it comes to show it, or a newer one is published.
Behind(r) == s.mounted /\ Revision(s.published) = r /\ Revision(s.shown) # r
=============================================================================
