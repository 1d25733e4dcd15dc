----------------------------- MODULE ToolPages -----------------------------
(***************************************************************************)
(* Pages of single tools (ToolOperation.tsx, FileHashTool.tsx,             *)
(* NetworkAddressesTool.tsx, networkTools.ts): the text tools and the      *)
(* values they share (sharedToolState.ts, useLocalUtilityBridge.ts), the   *)
(* schedules with the scheduler behind them (toolbox_scheduler.rs),        *)
(* the users of a volume and its ejection, the digest of a file, the       *)
(* addresses of this computer.  One of them is looked at in a behaviour.   *)
(***************************************************************************)
EXTENDS Integers, Sequences, FiniteSets

CONSTANTS
  MaxTurns,  \* bound on what the user, the model and the clock do
  Period,    \* a rule is due at the multiples of it
  Grace,     \* how late a due rule is still run
  Receipts,  \* acknowledgements the scheduler retains
  Bits       \* width of an address

VARIABLE s

Turn(t) == [t EXCEPT !.turns = @ + 1]
MayTurn == s.turns < MaxTurns

----------------------------------------------------------------------------
\* The text tools.  An output is the input it was made of, 0 when there is none.
\* `edits` and `clears` are kept only to state what a late result may not do.

Inputs == 1..2
TextTools == {"regex", "text-sha256", "qr-code", "convert"}

TextInit ==
  s = [of |-> "text", tool |-> "none", turns |-> 0, epoch |-> 0, revision |-> 0, input |-> 0,
       output |-> 0, error |-> 0, jobs |-> {}, mounted |-> TRUE, edits |-> 0, clears |-> 0]

\* What a job keeps of the state it began in (captureToolStateVersion, the
\* closure of the page); `own` while its page is there, `live` until its page
\* began another one.
Job(t, of) ==
  [of |-> of, epoch |-> t.epoch, revision |-> t.revision, own |-> TRUE, live |-> TRUE, put |-> FALSE,
   edits |-> t.edits, clears |-> t.clears]

\* setValue of useSharedToolState: nothing of a page drawn before a clear is taken.
SetValues(t, epoch, fields) ==
  IF epoch # t.epoch THEN t
  ELSE [fields EXCEPT !.revision = @ + 1]

OpenTool(tool) == s.tool = "none" /\ s' = [s EXCEPT !.tool = tool]

EditInput(i) ==
  /\ s.tool # "none" /\ s.mounted /\ MayTurn
  /\ s.input # i
  /\ s' = Turn(SetValues(s, s.epoch, [s EXCEPT !.input = i, !.edits = @ + 1]))

\* The tools that answer at once; what cannot be converted leaves the output.
RunNow ==
  /\ s.tool = "convert" /\ s.mounted /\ MayTurn
  /\ \E fine \in BOOLEAN :
       s' = Turn(SetValues(s, s.epoch, IF fine THEN [s EXCEPT !.output = s.input, !.error = 0]
                                       ELSE [s EXCEPT !.error = s.input]))

\* Only one expression runs on a page; a digest or a code replaces the one asked before.
Superseded(jobs) == {[j EXCEPT !.live = @ /\ ~j.own] : j \in jobs}
RunRegex ==
  /\ s.tool = "regex" /\ s.mounted /\ MayTurn
  /\ ~\E j \in s.jobs : j.own
  /\ LET t == SetValues(s, s.epoch, [s EXCEPT !.error = 0])
     IN s' = Turn([t EXCEPT !.jobs = @ \cup {Job(t, s.input)}])
RunDigest ==
  /\ s.tool \in {"text-sha256", "qr-code"} /\ s.mounted /\ MayTurn
  /\ s' = Turn([s EXCEPT !.jobs = Superseded(@) \cup {Job(s, s.input)}])

\* A text tool run for the chat (useLocalUtilityBridge): its result carries its input.
RunForChat(i) ==
  /\ s.tool \in {"regex", "text-sha256"} /\ MayTurn
  /\ s' = Turn([s EXCEPT !.jobs = @ \cup {[Job(s, i) EXCEPT !.own = FALSE, !.put = TRUE]}])

\* publishToolValues
PublishToolValues(t, j) ==
  IF j.epoch # t.epoch \/ j.revision # t.revision THEN t
  ELSE [t EXCEPT !.output = j.of, !.error = 0, !.input = IF j.put THEN j.of ELSE @,
                 !.revision = @ + 1]

JobAnswers(j) ==
  /\ j \in s.jobs
  /\ LET t == [s EXCEPT !.jobs = @ \ {j}]
     IN \/ s' = IF j.live THEN PublishToolValues(t, j) ELSE t
        \/ s' = IF j.live /\ ~j.put THEN SetValues(t, j.epoch, [t EXCEPT !.error = j.of]) ELSE t

ClearPage ==
  /\ s.tool # "none" /\ s.mounted /\ MayTurn
  /\ LET jobs == IF s.tool \in {"text-sha256", "qr-code"} THEN Superseded(s.jobs) ELSE s.jobs
         gone == IF s.tool = "regex" THEN [s EXCEPT !.output = 0]
                 ELSE [s EXCEPT !.input = 0, !.output = 0, !.edits = @ + 1]
     IN s' = Turn(SetValues(s, s.epoch, [gone EXCEPT !.jobs = jobs]))

\* clearSharedToolState, from the settings or from another window.
ClearSharedToolState ==
  /\ s.tool # "none" /\ MayTurn
  /\ s' = Turn([s EXCEPT !.epoch = @ + 1, !.input = 0, !.output = 0, !.error = 0, !.clears = @ + 1])

LeaveText ==
  /\ s.tool # "none" /\ s.mounted /\ MayTurn
  /\ s' = Turn([s EXCEPT !.mounted = FALSE, !.jobs = {[j EXCEPT !.own = FALSE] : j \in @}])
EnterText == s.tool # "none" /\ ~s.mounted /\ s' = [s EXCEPT !.mounted = TRUE]

TextNext ==
  \/ \E tool \in TextTools : OpenTool(tool)
  \/ \E i \in Inputs : EditInput(i) \/ RunForChat(i)
  \/ RunNow \/ RunRegex \/ RunDigest \/ ClearPage \/ ClearSharedToolState \/ LeaveText \/ EnterText
  \/ \E j \in s.jobs : JobAnswers(j)

----------------------------------------------------------------------------
\* The schedules.  A rule is daily or runs once; its revision is that of the
\* scheduler when it was last changed.  `made`, `overlap`, `fired`, `again`
\* and `backward` are kept only to state the properties.

NoRules == [revision |-> 0, rules |-> {}]
Ops == {"create", "update", "pause", "resume", "delete"}

ScheduleInit ==
  s = [of |-> "schedule", turns |-> 0, now |-> 0, mounted |-> TRUE, shown |-> {}, pending |-> {},
       saved |-> {}, calls |-> {}, asked |-> 0, revision |-> 0, epoch |-> 0, stored |-> 0,
       blocked |-> FALSE, up |-> TRUE, rules |-> {}, nextRule |-> 0, receipts |-> <<>>, intents |-> {},
       poll |-> {}, made |-> {}, overlap |-> FALSE, fired |-> {}, again |-> FALSE,
       backward |-> FALSE]

Running == \E c \in s.calls : c.to = "page"
Snapshot(t) == [revision |-> t.revision, rules |-> t.rules]

\* The map of the page and its copy in the storage of the view
\* (persistPendingScheduleMutations); a page that was left keeps its own.
Without(requests, key) == {p \in requests : p.key # key}

\* requestFor: what has not been settled is asked again as it was asked.
AlreadyAsked(t, key) == {p \in t.pending : p.key = key}

Press(key, expected) ==
  /\ s.mounted /\ ~Running /\ MayTurn
  /\ LET kept == AlreadyAsked(s, key)
         request == IF kept # {} THEN CHOOSE p \in kept : TRUE
                    ELSE [key |-> key, id |-> s.asked + 1, expected |-> expected]
         pending == Without(s.pending, key) \cup {request}
     IN s' = Turn([s EXCEPT !.asked = IF kept = {} THEN @ + 1 ELSE @,
                            !.pending = pending, !.saved = pending,
                            !.made = IF kept = {} THEN {m \in @ : m.key # key} ELSE @,
                            !.calls = @ \cup {[request |-> request, to |-> "page", map |-> {},
                                               answer |-> "none", snap |-> NoRules]}])

\* The buttons act on a rule that is shown, at the revision it was shown with.
CreateRule(once) == Press([op |-> "create", rule |-> 0, once |-> once], 0)
ChangeRule(op) ==
  \E n \in s.shown : \E r \in n.rules :
    /\ op # "create"
    /\ op = "pause" => r.on
    /\ op = "resume" => ~r.on
    /\ Press([op |-> op, rule |-> r.id, once |-> FALSE], n.revision)

\* next_for_trigger; a rule that runs once runs at the next of these times too.
NextAfter(now) == (now \div Period + 1) * Period

\* mutation_acknowledged and the check of apply_mutation.
Receipt(t, id) == {t.receipts[k] : k \in {k \in 1..Len(t.receipts) : t.receipts[k].id = id}}

\* create_at, update_at, pause_at, resume_at, delete_at, for a request with no receipt.
Refusal(t, request) ==
  LET named == {r \in t.rules : r.id = request.key.rule}
  IN CASE request.key.op = "create" -> "none"
       [] request.expected # t.revision -> "revision_conflict"
       [] named = {} -> "schedule_not_found"
       [] request.key.op = "resume" /\ \E r \in named : r.on -> "schedule_not_paused"
       [] request.key.op = "resume" /\ \E r \in named : r.once /\ r.at <= t.now -> "schedule_expired"
       [] OTHER -> "none"

Applied(t, request) ==
  LET new == t.revision + 1
      named == {r \in t.rules : r.id = request.key.rule}
      others == t.rules \ named
      changed(r) ==
        CASE request.key.op = "update" -> [r EXCEPT !.revision = new, !.at = NextAfter(t.now), !.once = FALSE]
          [] request.key.op = "pause" -> IF r.on THEN [r EXCEPT !.revision = new, !.on = FALSE] ELSE r
          [] request.key.op = "resume" ->
               [r EXCEPT !.revision = new, !.on = TRUE, !.at = IF r.once THEN r.at ELSE NextAfter(t.now)]
      idle == request.key.op = "pause" /\ \A r \in named : ~r.on
  IN CASE request.key.op = "create" ->
            [t EXCEPT !.revision = new, !.nextRule = @ + 1,
                      !.rules = @ \cup {[id |-> t.nextRule + 1, revision |-> new, on |-> TRUE,
                                         once |-> request.key.once, at |-> NextAfter(t.now)]},
                      !.made = @ \cup {[key |-> request.key, rule |-> t.nextRule + 1]}]
       [] request.key.op = "delete" -> [t EXCEPT !.revision = new, !.rules = others]
       [] OTHER -> [t EXCEPT !.revision = IF idle THEN @ ELSE new,
                             !.rules = others \cup {changed(r) : r \in named}]

Retained(receipts) ==
  IF Len(receipts) <= Receipts THEN receipts ELSE SubSeq(receipts, Len(receipts) - Receipts + 1, Len(receipts))

Answered(t, c, answer, snap) ==
  [t EXCEPT !.calls = (@ \ {c}) \cup {[c EXCEPT !.answer = answer, !.snap = snap]}]

\* A command of the page is served while no due rule is being run
\* (toolbox_scheduler_dispatch_lock).
Serve(c) ==
  /\ c \in s.calls /\ c.answer = "none"
  /\ s.up /\ s.poll = {}
  /\ LET request == c.request
         receipt == Receipt(s, request.id)
         refusal == Refusal(s, request)
         t == Applied(s, request)
         written == [t EXCEPT !.receipts = Retained(Append(@, [id |-> request.id, epoch |-> s.epoch,
                                                              snap |-> Snapshot(t)]))]
     IN IF receipt # {}
        THEN LET r == CHOOSE r \in receipt : TRUE
             IN s' = IF r.epoch = s.epoch THEN Answered(s, c, "ok", r.snap)
                     ELSE Answered(s, c, "stale_schedule_request", NoRules)
        ELSE \/ refusal # "none" /\ s' = Answered(s, c, refusal, NoRules)
             \/ refusal = "none" /\ s' = Answered(written, c, "ok", Snapshot(t))
             \* The state cannot be written, or its writing is not told.
             \/ refusal = "none" /\ s' = Answered(s, c, "schedule_storage_error", NoRules)
             \/ refusal = "none" /\ s' = Answered(written, c, "schedule_storage_error", NoRules)

\* isDeterministicScheduleFailure
Deterministic == {"revision_conflict", "schedule_not_found", "stale_schedule_request"}

\* The answer of a mutation, which is settled when it is known what became of it.
MutationAnswers(c) ==
  /\ c \in s.calls /\ c.answer # "none"
  /\ LET told == [s EXCEPT !.calls = @ \ {c}]
         settles == c.answer \in Deterministic \cup {"ok"}
         pending == Without(s.pending, c.request.key)
         settled == [told EXCEPT !.pending = IF settles THEN pending ELSE @,
                                 !.saved = IF settles THEN pending ELSE @]
     IN s' = CASE c.to = "lost" -> told
               [] c.to = "left" -> [told EXCEPT !.saved = IF settles THEN Without(c.map, c.request.key) ELSE @]
               [] c.to = "page" /\ c.answer = "ok" -> [settled EXCEPT !.shown = {c.snap}]
               [] c.to = "page" /\ c.answer \in {"revision_conflict", "schedule_not_found"} /\ s.up ->
                    [settled EXCEPT !.shown = {Snapshot(s)}]
               [] OTHER -> settled

\* refresh: on mount, by its button, and when a task was run.
RefreshRules ==
  s.mounted /\ s.up /\ s.poll = {} /\ s.shown # {Snapshot(s)} /\ s' = [s EXCEPT !.shown = {Snapshot(s)}]
ForgetShown == s.mounted /\ MayTurn /\ s.shown # {} /\ s' = Turn([s EXCEPT !.shown = {}])

\* The page is left and comes back with what the storage has; the one that was
\* left still settles what it asked.  A view that is loaded anew hears no answer.
Gone(t, to) ==
  [t EXCEPT !.mounted = FALSE, !.shown = {}, !.pending = {},
            !.calls = {IF c.to = "page" THEN [c EXCEPT !.to = to, !.map = t.pending] ELSE c : c \in @}]
LeaveRules == s.mounted /\ MayTurn /\ s' = Turn(Gone(s, "left"))
ReloadView ==
  /\ s.mounted /\ MayTurn
  /\ LET t == Gone(s, "lost") IN s' = Turn([t EXCEPT !.calls = {[c EXCEPT !.to = "lost"] : c \in @}])
EnterRules ==
  /\ ~s.mounted /\ s.up
  /\ s' = [s EXCEPT !.mounted = TRUE, !.pending = s.saved,
                    !.overlap = @ \/ \E c \in s.calls : c.to = "left"]

\* poll_due, advance_persisted_rule_with_trigger.  A rule missed by more than the grace is advanced without running;
\* otherwise the intent is written first, then the rule is advanced, then it runs.
Due(t) == {r \in t.rules : r.on /\ r.at <= t.now}
Advanced(t, r) ==
  LET next == IF r.once THEN [r EXCEPT !.on = FALSE] ELSE [r EXCEPT !.at = NextAfter(t.now)]
  IN [t EXCEPT !.rules = (@ \ {r}) \cup {next}, !.revision = @ + 1]
\* fail_closed_rule
FailClosed(t, r) ==
  [t EXCEPT !.rules = (@ \ {r}) \cup {[r EXCEPT !.on = FALSE]}, !.revision = @ + 1]

CanPoll == s.up /\ ~s.blocked /\ s.poll = {}
SkipMissed ==
  /\ CanPoll
  /\ \E r \in Due(s) : s.now - r.at > Grace /\ s' \in {Advanced(s, r), FailClosed(s, r)}

IntentOf(t, r) == [rule |-> r.id, revision |-> r.revision, at |-> r.at, epoch |-> t.epoch]

\* Fault: the rule is run before anything is written.
RunFirst(t, r) == [t EXCEPT !.poll = {[rule |-> r, stage |-> "polled"]}]

\* record_intent
RecordIntent(t, r) ==
  IF IntentOf(t, r) \in t.intents THEN Advanced(t, r)
  ELSE [t EXCEPT !.intents = @ \cup {IntentOf(t, r)}, !.poll = {[rule |-> r, stage |-> "written"]}]

PollDue ==
  /\ CanPoll
  /\ \E r \in Due(s) : s.now - r.at <= Grace /\ s' \in {RecordIntent(s, r), FailClosed(s, r)}

AdvancePolled ==
  \E p \in s.poll :
    /\ p.stage = "written"
    /\ LET t == Advanced(s, p.rule)
       IN s' \in {[t EXCEPT !.poll = {[p EXCEPT !.stage = "polled"]}],
                  [FailClosed(s, p.rule) EXCEPT !.poll = {}]}

\* dispatch_toolbox_schedule_intent, then mark_intent_outcome.
Dispatch ==
  \E p \in s.poll :
    /\ p.stage = "polled"
    /\ LET occurrence == [rule |-> p.rule.id, at |-> p.rule.at]
       IN s' = [s EXCEPT !.poll = {}, !.again = @ \/ occurrence \in s.fired,
                         !.fired = @ \cup {occurrence}]

\* clear_toolbox_data: blocked, the other stores, then the scheduler's own.
Emptied(t, epoch) == [t EXCEPT !.epoch = epoch, !.rules = {}, !.intents = {}, !.revision = @ + 1]
ClearToolboxData ==
  /\ s.up /\ s.poll = {} /\ MayTurn
  /\ s' \in {Turn([s EXCEPT !.blocked = TRUE]),
             Turn([s EXCEPT !.blocked = TRUE, !.stored = @ + 1]),
             Turn([Emptied(s, s.stored + 1) EXCEPT !.stored = @ + 1, !.blocked = FALSE])}

\* Everything in memory is gone; the scheduler adopts the epoch of the storage.
Stop ==
  /\ s.up /\ MayTurn
  /\ s' = Turn([Gone(s, "lost") EXCEPT !.up = FALSE, !.poll = {}, !.calls = {}, !.saved = {}])
Start ==
  /\ ~s.up
  /\ LET t == [s EXCEPT !.up = TRUE, !.blocked = FALSE]
     IN s' = IF s.stored > s.epoch THEN Emptied(t, s.stored) ELSE t

\* The clock goes on, or is set back.
Tick == MayTurn /\ s' = Turn([s EXCEPT !.now = @ + 1])
ClockIsSetBack == MayTurn /\ s.now > 0 /\ s' = Turn([s EXCEPT !.now = @ - 1, !.backward = TRUE])

ScheduleNext ==
  \/ \E once \in BOOLEAN : CreateRule(once)
  \/ \E op \in Ops \ {"create"} : ChangeRule(op)
  \/ \E c \in s.calls : Serve(c) \/ MutationAnswers(c)
  \/ RefreshRules \/ ForgetShown \/ LeaveRules \/ ReloadView \/ EnterRules
  \/ SkipMissed \/ PollDue \/ AdvancePolled \/ Dispatch \/ ClearToolboxData \/ Stop \/ Start
  \/ Tick \/ ClockIsSetBack

\* What is left of it when daily rules are created, paused and resumed on one page,
\* and nothing stops.
CalmNext ==
  \/ CreateRule(FALSE) \/ ChangeRule("pause") \/ ChangeRule("resume") \/ RefreshRules
  \/ \E c \in s.calls : Serve(c) \/ MutationAnswers(c)
  \/ PollDue \/ AdvancePolled \/ Dispatch \/ Tick \/ ClockIsSetBack

----------------------------------------------------------------------------
\* The users of a file or a volume, and the ejection of a volume.

Targets == 1..2

OccupancyInit ==
  s = [of |-> "occupancy", turns |-> 0, mounted |-> TRUE, target |-> 0, scope |-> "volume", output |-> 0,
       scan |-> {}, prepare |-> {}, lease |-> {}, ejects |-> {}, present |-> Targets]

Ejecting == s.prepare # {} \/ s.ejects # {}

ChooseTarget(v, scope) ==
  /\ s.mounted /\ MayTurn
  /\ s' = Turn([s EXCEPT !.target = v, !.scope = scope, !.lease = {}])
RunScan ==
  /\ s.mounted /\ MayTurn /\ s.scan = {} /\ s.target # 0
  /\ s' = Turn([s EXCEPT !.scan = {s.target}, !.output = 0, !.lease = {}])
ScanAnswers(v) ==
  /\ v \in s.scan
  /\ s' \in {[s EXCEPT !.scan = {}], [s EXCEPT !.scan = {}, !.output = IF s.mounted THEN v ELSE 0]}
PrepareEject ==
  /\ s.mounted /\ MayTurn /\ s.scope = "volume" /\ s.target # 0 /\ s.scan = {} /\ ~Ejecting
  /\ s' = Turn([s EXCEPT !.prepare = {s.target}, !.lease = {}])
\* The volume is leased when nothing uses it (prepare_eject_removable_volume).
EjectIsPrepared(v) ==
  /\ v \in s.prepare
  /\ s' \in {[s EXCEPT !.prepare = {}],
             [s EXCEPT !.prepare = {}, !.lease = IF s.mounted /\ v \in s.present THEN {v} ELSE {}]}
ConfirmEject ==
  /\ s.mounted /\ MayTurn /\ s.scope = "volume" /\ s.target # 0 /\ s.scan = {}
  /\ s.lease # {} /\ ~Ejecting
  /\ s' = Turn([s EXCEPT !.ejects = s.lease])
EjectAnswers(v) ==
  /\ v \in s.ejects
  /\ \/ s' = [s EXCEPT !.ejects = {}]
     \/ /\ v \in s.present
        /\ LET gone == [s EXCEPT !.ejects = {}, !.present = @ \ {v}]
           IN s' = IF s.mounted THEN [gone EXCEPT !.lease = {}, !.target = 0, !.output = 0] ELSE gone
\* The footer of the page; the scan that is stopped answers as stopped.
ClearOccupancy ==
  s.mounted /\ MayTurn /\ s' = Turn([s EXCEPT !.target = 0, !.output = 0, !.lease = {}])
LeaveOccupancy ==
  s.mounted /\ MayTurn /\ s' = Turn([s EXCEPT !.mounted = FALSE, !.target = 0, !.output = 0, !.lease = {}])

OccupancyNext ==
  \/ \E v \in Targets, scope \in {"file", "volume"} : ChooseTarget(v, scope)
  \/ \E v \in Targets : ScanAnswers(v) \/ EjectIsPrepared(v) \/ EjectAnswers(v)
  \/ RunScan \/ PrepareEject \/ ConfirmEject \/ ClearOccupancy \/ LeaveOccupancy

----------------------------------------------------------------------------
\* The digest of a file: one job at a time, released before the next one.

HashInit ==
  s = [of |-> "hash", turns |-> 0, mounted |-> TRUE, active |-> {}, jobs |-> <<>>, output |-> 0, cancels |-> {}]

Over == {"completed", "cancelled", "failed"}
At(o, stage) == [o EXCEPT !.stage = stage]
\* An operation that did not get its job has nothing to release.
Settle(t, o) ==
  [t EXCEPT !.active = IF o.job = 0 THEN {} ELSE {[At(o, "release") EXCEPT !.settled = TRUE]}]
Ended(t, job, status) == [t EXCEPT !.jobs[job] = IF @ \in Over THEN @ ELSE status]

RunHash ==
  /\ s.mounted /\ MayTurn /\ s.active = {}
  /\ s' = Turn([s EXCEPT !.output = 0,
                         !.active = {[stage |-> "start", job |-> 0, aborted |-> FALSE, settled |-> FALSE]}])

\* cancel: of the button, and of the page that is left.
CancelHash(t) ==
  [t EXCEPT !.active = {[o EXCEPT !.aborted = TRUE] : o \in @}, !.output = IF t.active = {} THEN @ ELSE 0,
            !.cancels = @ \cup ({o.job : o \in t.active} \ {0})]
StopHash == s.mounted /\ MayTurn /\ s.active # {} /\ s' = Turn(CancelHash(s))
LeaveHash == s.mounted /\ MayTurn /\ s' = Turn([CancelHash(s) EXCEPT !.mounted = FALSE, !.output = 0])

SessionStarts ==
  \E o \in s.active :
    /\ o.stage = "start"
    /\ LET job == Len(s.jobs) + 1
           owner == [At(o, "input") EXCEPT !.job = job]
           t == [s EXCEPT !.jobs = Append(@, "running"), !.active = {owner}]
       IN \/ s' = Settle(s, o)
          \/ s' = IF o.aborted THEN Settle(t, owner) ELSE t

\* What fails is told to the owner of the job before it is released.
Fails(t, o) == IF o.aborted THEN Settle(t, o) ELSE [t EXCEPT !.active = {At(o, "failed")}]
FileIsChosen ==
  \E o \in s.active :
    /\ o.stage = "input"
    /\ \/ s' = IF o.aborted THEN Settle(s, o) ELSE [s EXCEPT !.active = {At(o, "hash")}]
       \/ s' = Settle(s, [o EXCEPT !.aborted = TRUE])
       \/ s' = Fails(s, o)
FileIsHashed ==
  \E o \in s.active :
    /\ o.stage = "hash"
    /\ s' \in {IF o.aborted THEN Settle(s, o) ELSE [s EXCEPT !.active = {At(o, "finish")}], Fails(s, o)}
HashFinishes ==
  \E o \in s.active :
    /\ o.stage = "finish"
    /\ LET t == Ended(s, o.job, "completed")
       IN \/ s' = Fails(s, o)
          \/ /\ t.jobs[o.job] = "completed"
             /\ s' = Settle([t EXCEPT !.output = IF s.mounted /\ ~o.aborted THEN o.job ELSE @], o)
          \/ t.jobs[o.job] # "completed" /\ s' = Fails(t, o)
FailureIsTold ==
  \E o \in s.active :
    /\ o.stage = "failed"
    /\ s' \in {Settle(s, o), Settle(Ended(s, o.job, "failed"), o)}

\* Fault: the next one may begin although the release was not confirmed.
ReleasedAnyway(t, o, confirmed) == [t EXCEPT !.active = {}]

\* clearActive after releaseNative; otherwise the page waits for another stop.
Released(t, o, confirmed) ==
  IF confirmed THEN [t EXCEPT !.active = {}]
  ELSE [t EXCEPT !.active = {At(o, "unconfirmed")}, !.output = IF t.mounted THEN 0 ELSE @]

ReleaseAnswers ==
  \E o \in s.active :
    /\ o.stage = "release"
    /\ s' \in {Released(Ended(s, o.job, "cancelled"), o, TRUE), Released(s, o, FALSE)}
CancelAnswers(job) ==
  /\ job \in s.cancels
  /\ LET t == [Ended(s, job, "cancelled") EXCEPT !.cancels = @ \ {job}]
         mine == {o \in s.active : o.job = job /\ o.settled}
     IN \/ s' = IF mine = {} THEN t ELSE [t EXCEPT !.active = {}]
        \/ s' = [s EXCEPT !.cancels = @ \ {job}]

HashNext ==
  \/ RunHash \/ StopHash \/ LeaveHash \/ SessionStarts \/ FileIsChosen \/ FileIsHashed \/ HashFinishes
  \/ FailureIsTold \/ ReleaseAnswers
  \/ \E job \in s.cancels : CancelAnswers(job)

----------------------------------------------------------------------------
\* Keeping the computer awake and watching a process: tasks of the computer that
\* go on without their page, which asks in order and is told to read again.

TasksInit ==
  s = [of |-> "tasks", turns |-> 0, mounted |-> TRUE, lease |-> "idle", shown |-> "none", asked |-> <<>>,
       running |-> FALSE, target |-> FALSE, watch |-> "none", watches |-> "none",
       refused |-> FALSE]

Ask(t, commands) == [t EXCEPT !.asked = @ \o commands]
Act(commands) == s.mounted /\ ~s.running /\ MayTurn /\ s' = Turn([Ask(s, commands) EXCEPT !.running = TRUE])

StartKeepAwake == Act(<<"start">>)
StopKeepAwake == Act(<<"cancel">>)
RetryRelease == s.shown = "release_unconfirmed" /\ Act(<<"retry">>)
PickTarget == s.mounted /\ ~s.target /\ MayTurn /\ s' = Turn([s EXCEPT !.target = TRUE])
StartWatch == s.target /\ Act(<<"watch">>)
CancelWatch == s.watches = "running" /\ Act(<<"unwatch">>)

\* Fault: the page goes and leaves its lease.
LeaveQuietly(t) == t
\* The page that goes ends the lease.
LeaveKeepAwake(t) == Ask(t, <<"cancel">>)
LeaveTask ==
  /\ s.mounted /\ MayTurn
  /\ s' = Turn([LeaveKeepAwake(s) EXCEPT !.mounted = FALSE, !.shown = "none", !.watches = "none"])

\* A background end of either task is told to the page, which reads again.
TaskEnds ==
  /\ MayTurn
  /\ LET told(t) == IF t.mounted THEN Ask(t, <<"read", "watches">>) ELSE t
     IN \/ /\ s.lease = "active"
           /\ s' \in {Turn(told([s EXCEPT !.lease = end])) : end \in {"idle", "release_unconfirmed"}}
        \/ s.watch = "running" /\ s' = Turn(told([s EXCEPT !.watch = "ended"]))

\* What becomes of the lease, and whether it is answered with it.
LeaseAfter(command) ==
  CASE command = "start" -> IF s.lease = "release_unconfirmed" THEN {s.lease} ELSE {"active"}
    [] command = "cancel" -> IF s.lease = "active" THEN {"idle", "release_unconfirmed"} ELSE {s.lease}
    [] command = "retry" -> IF s.lease = "release_unconfirmed" THEN {"idle", s.lease} ELSE {s.lease}
    [] OTHER -> {s.lease}

TaskAnswers ==
  /\ s.asked # <<>>
  /\ LET command == Head(s.asked)
         t == [s EXCEPT !.asked = Tail(@), !.running = IF command \in {"read", "watches"} THEN @ ELSE FALSE]
         show(u) == IF u.mounted THEN [u EXCEPT !.shown = u.lease] ELSE u
     IN \/ s' = [t EXCEPT !.refused = @ \/ command = "cancel"]
        \/ /\ command \in {"start", "cancel", "retry", "read"}
           /\ \E lease \in LeaseAfter(command) : s' = show([t EXCEPT !.lease = lease])
        \/ /\ command = "watch"
           /\ s' = [Ask(t, <<"watches">>) EXCEPT !.watch = "running", !.target = FALSE]
        \/ /\ command = "unwatch"
           /\ s' = [Ask(t, <<"watches">>) EXCEPT !.watch = IF @ = "running" THEN "ended" ELSE @]
        \/ /\ command = "watches"
           /\ s' = IF t.mounted THEN [t EXCEPT !.watches = t.watch] ELSE t

TasksNext ==
  \/ StartKeepAwake \/ StopKeepAwake \/ RetryRelease \/ PickTarget \/ StartWatch \/ CancelWatch
  \/ LeaveTask \/ TaskEnds \/ TaskAnswers

----------------------------------------------------------------------------
\* The addresses of this computer, and those of a pasted listing.  An address
\* is a number of `Bits` bits; -1 stands for a prefix that is not given.

Masks == 0..(2 ^ Bits - 1)
Prefixes == -1..(Bits + 1)

AddressesInit ==
  s = [of |-> "addresses", turns |-> 0, view |-> "live", generation |-> 1, loads |-> {1}, shown |-> 0,
       loading |-> TRUE, parsed |-> {}]

\* refresh
Refreshed(t) ==
  [t EXCEPT !.generation = @ + 1, !.loads = @ \cup {t.generation + 1}, !.loading = TRUE]
RefreshAddresses == s.view = "live" /\ ~s.loading /\ MayTurn /\ s' = Turn(Refreshed(s))
SelectView(view) ==
  /\ s.view # view /\ MayTurn
  /\ LET t == [s EXCEPT !.view = view, !.generation = @ + 1]
     IN s' = Turn(IF view = "live" THEN Refreshed(t) ELSE t)
AddressesAnswer(g) ==
  /\ g \in s.loads
  /\ LET t == [s EXCEPT !.loads = @ \ {g}]
     IN IF g # s.generation THEN s' = t
        ELSE s' \in {[t EXCEPT !.shown = g, !.loading = FALSE], [t EXCEPT !.shown = 0, !.loading = FALSE]}

\* ipv4MaskNumber, ipv4NetworkNumber, ipv4BroadcastNumber
MaskNumber(p) == IF p = 0 THEN 0 ELSE 2 ^ Bits - 2 ^ (Bits - p)
Block(p) == 2 ^ (Bits - p)
NetworkNumber(v, p) == (v \div Block(p)) * Block(p)
BroadcastNumber(v, p) == NetworkNumber(v, p) + Block(p) - 1

\* prefixFromMask: the ones from the left; nothing may follow them.
Bit(mask, i) == (mask \div 2 ^ (Bits - i)) % 2
LeadingOnes(mask) ==
  CHOOSE p \in 0..Bits : (\A i \in 1..p : Bit(mask, i) = 1) /\ (p < Bits => Bit(mask, p + 1) = 0)
Contiguous(mask) == mask % Block(LeadingOnes(mask)) = 0

\* parseAddressToken and makeParsedAddress: a prefix of the address, a mask of the
\* listing, or both; none when they disagree or are out of range.
Addressed(v, own, masks) ==
  LET given == {LeadingOnes(mask) : mask \in masks} \cup ({own} \ {-1})
      wrong == own > Bits \/ (\E mask \in masks : ~Contiguous(mask)) \/ Cardinality(given) > 1
  IN IF wrong THEN {}
     ELSE {[value |-> v, masks |-> masks, prefix |-> p, mask |-> MaskNumber(p), network |-> NetworkNumber(v, p),
            last |-> IF p >= Bits - 1 THEN -1 ELSE BroadcastNumber(v, p)] : p \in given}

ParsePastedIfconfig ==
  /\ s.view = "ifconfig" /\ MayTurn
  /\ \E v \in Masks, own \in Prefixes, masks \in {{}} \cup {{mask} : mask \in Masks} :
       s' = Turn([s EXCEPT !.parsed = Addressed(v, own, masks)])

AddressesNext ==
  \/ RefreshAddresses \/ ParsePastedIfconfig
  \/ \E view \in {"live", "ifconfig"} : SelectView(view)
  \/ \E g \in s.loads : AddressesAnswer(g)

----------------------------------------------------------------------------
Init == TextInit \/ ScheduleInit \/ OccupancyInit \/ HashInit \/ TasksInit \/ AddressesInit

Next ==
  \/ s.of = "text" /\ TextNext
  \/ s.of = "schedule" /\ ScheduleNext
  \/ s.of = "occupancy" /\ OccupancyNext
  \/ s.of = "hash" /\ HashNext
  \/ s.of = "tasks" /\ TasksNext
  \/ s.of = "addresses" /\ AddressesNext

Operations == {"text", "serve", "mutation", "poll", "occupancy", "hash", "tasks", "addresses"}
AnswerOf(op) ==
  \/ op = "text" /\ s.of = "text" /\ \E j \in s.jobs : JobAnswers(j)
  \/ op = "serve" /\ s.of = "schedule" /\ ((\E c \in s.calls : Serve(c)) \/ Start)
  \/ op = "mutation" /\ s.of = "schedule" /\ \E c \in s.calls : MutationAnswers(c)
  \/ op = "poll" /\ s.of = "schedule" /\ (AdvancePolled \/ Dispatch)
  \/ op = "occupancy" /\ s.of = "occupancy"
     /\ \E v \in Targets : ScanAnswers(v) \/ EjectIsPrepared(v) \/ EjectAnswers(v)
  \/ op = "hash" /\ s.of = "hash"
     /\ (SessionStarts \/ FileIsChosen \/ FileIsHashed \/ HashFinishes \/ FailureIsTold \/ ReleaseAnswers
         \/ \E job \in s.cancels : CancelAnswers(job))
  \/ op = "tasks" /\ s.of = "tasks" /\ TaskAnswers
  \/ op = "addresses" /\ s.of = "addresses" /\ \E g \in s.loads : AddressesAnswer(g)

Waiting ==
  CASE s.of = "text" -> s.jobs # {}
    [] s.of = "schedule" -> s.calls # {} \/ s.poll # {}
    [] s.of = "occupancy" -> s.scan # {} \/ Ejecting
    [] s.of = "hash" -> s.cancels # {} \/ \E o \in s.active : o.stage # "unconfirmed"
    [] s.of = "tasks" -> s.asked # <<>>
    [] s.of = "addresses" -> s.loads # {}

----------------------------------------------------------------------------
\* The answer of a run changes the page only if nothing was cleared since the run
\* began (the comment of setValue in sharedToolState.ts), and input and output only
\* if nothing was edited either: after an edit it may still tell that it failed.
LateResultFits ==
  s.of = "text" =>
    \A j \in s.jobs :
      (s'.turns = s.turns /\ s'.jobs = s.jobs \ {j} /\ s'.revision # s.revision) =>
        /\ j.clears = s.clears
        /\ j.edits = s.edits \/ (s'.input = s.input /\ s'.output = s.output)

\* However often a creation is asked again until it is settled, it makes one rule
\* (the request ids of ScheduleTool and the receipts of the scheduler).
OncePerRequest ==
  (s.of = "schedule" /\ ~s.overlap) =>
    \A m, other \in s.made : m.key = other.key => m.rule = other.rule

\* An occurrence of a rule is run once, whatever stops between its steps and
\* however often the rule is changed, as long as the clock of the computer was
\* never set back.
OncePerOccurrence == (s.of = "schedule" /\ ~s.backward) => ~s.again

\* The watermark of handled occurrences avoids a repeat when the wall clock goes
\* back too (docs/toolbox-v1.md).  It is written and not asked for: a rule that is
\* paused and resumed after the clock was set back takes its next occurrence by the
\* clock alone, and runs it again.
OccurrenceIsNotRepeated == s.of = "schedule" => ~s.again

\* No digest is begun while a job of the page still holds its file.
HashIsReleased ==
  (s.of = "hash" /\ s.active = {}) => \A k \in 1..Len(s.jobs) : s.jobs[k] \in Over

\* The lease of a page that is gone has ended, or its release was tried, unless
\* the command that ends it could not be given.
LeaseEndsWithPage ==
  (s.of = "tasks" /\ ~s.mounted /\ s.asked = <<>> /\ ~s.refused) => s.lease # "active"

\* An address is in the block between its network and the last of it, and a mask
\* that was given is the mask that is shown.
AddressesAddUp ==
  s.of = "addresses" =>
    \A a \in s.parsed :
      /\ a.network <= a.value /\ (a.last # -1 => a.value <= a.last)
      /\ \A v \in Masks : NetworkNumber(v, a.prefix) = a.network
                           <=> (v >= a.network /\ v < a.network + 2 ^ Bits - a.mask)
      /\ \A mask \in a.masks : mask = a.mask
=============================================================================
