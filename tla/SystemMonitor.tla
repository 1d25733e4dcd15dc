---------------------------- MODULE SystemMonitor ----------------------------
(***************************************************************************)
(* What the window is told of the computer.  Its parts that keep a state   *)
(* of their own: the samples (useSystemMonitor.ts, with the sampler of     *)
(* src-tauri/src/sampler_service.rs), what keeps the computer awake        *)
(* (useExpectedSleep.ts, deviceWellbeing.ts) and how its sensors are       *)
(* called (useSensorReadiness.ts), the energy of the graphics processor    *)
(* (useGpuEnergyMonitor.ts), and the applications installed (api.ts) or in *)
(* the trash (useTrashApplicationWatcher.ts).  A behaviour is about one.   *)
(***************************************************************************)
EXTENDS Integers, Sequences, FiniteSets

CONSTANTS
  MaxTurns,   \* bound on what the user and the window do
  MaxSamples, \* bound on the samples taken
  Window,     \* samples the history holds
  Misses      \* heartbeats in a row that fail before the sampler is told again

VARIABLE s

\* The samples have turns of their own besides.
MayTurn == s.turns < (IF s.of = "monitor" THEN MaxTurns - 1 ELSE MaxTurns)
Turn(t) == [t EXCEPT !.turns = @ + 1]

----------------------------------------------------------------------------
\* The samples.  A sample is the number of its measurement; zero is none.

\* `lost` is kept only to state the properties: the last control did not arrive.
MonitorInit ==
  s = [of |-> "monitor", turns |-> 0, visible |-> TRUE, paused |-> FALSE,
       last |-> 0, snapshot |-> 0, summary |-> 0, history |-> <<>>, error |-> FALSE, loading |-> TRUE,
       request |-> {[stage |-> "asked", hidden |-> TRUE, sample |-> 0]}, beat |-> "asked", failures |-> 0,
       controls |-> <<[active |-> TRUE, paused |-> FALSE, by |-> "page"]>>, lost |-> FALSE,
       measured |-> 0, taking |-> {}, full |-> 0, native |-> [active |-> TRUE, paused |-> FALSE], events |-> {}]

\* The sampler and an action on a process measure one at a time; what was measured
\* is kept and told without that lock, in any order.
Measure(full, by) ==
  /\ s.of = "monitor" /\ s.measured < MaxSamples
  /\ \A m \in s.taking : m.by # by
  /\ by = "sampler" => ~s.native.paused /\ (s.native.active => full)
  /\ s' = [s EXCEPT !.measured = @ + 1, !.taking = @ \cup {[sample |-> s.measured + 1, full |-> full, by |-> by]}]
KeepAndTell(m) ==
  s' = [s EXCEPT !.taking = @ \ {m}, !.full = IF m.full THEN m.sample ELSE @,
                 !.events = @ \cup {[sample |-> m.sample, full |-> m.full]}]
\* A measurement that fails is told by the status.
MeasureFails(m) == s' = [s EXCEPT !.taking = @ \ {m}, !.error = TRUE]

\* appendHistorySample, of a window.
AppendHistorySample(history, sample) ==
  LET all == Append(history, sample)
  IN IF Len(all) > Window THEN SubSeq(all, Len(all) - Window + 1, Len(all)) ELSE all

\* Fault: what was asked for before the pause is shown in it.
EvenPaused(t, sample, hidden) == (t.visible \/ hidden) /\ sample > t.last

MayApply(t, sample, hidden) == ~t.paused /\ (t.visible \/ hidden) /\ sample > t.last

\* applySnapshot and applySummary.
ApplySnapshot(t, sample, hidden) ==
  IF MayApply(t, sample, hidden)
  THEN [t EXCEPT !.last = sample, !.snapshot = sample, !.summary = sample, !.error = FALSE, !.loading = FALSE,
                 !.history = AppendHistorySample(@, sample)]
  ELSE t
ApplySummary(t, sample) ==
  IF t.paused \/ t.visible \/ sample <= t.last THEN t
  ELSE [t EXCEPT !.last = sample, !.summary = sample, !.error = FALSE, !.loading = FALSE,
                 !.history = AppendHistorySample(@, sample)]
HearSample(e) ==
  LET t == [s EXCEPT !.events = @ \ {e}]
  IN s' = IF e.full THEN ApplySnapshot(t, e.sample, TRUE) ELSE ApplySummary(t, e.sample)

\* refreshSnapshot: one request at a time, answered with the last full sample there is.
RefreshSnapshot(t, hidden) ==
  IF t.paused \/ (~t.visible /\ ~hidden) \/ t.request # {} THEN t
  ELSE [t EXCEPT !.request = {[stage |-> "asked", hidden |-> hidden, sample |-> 0]}]
Refresh(hidden) == s.of = "monitor" /\ MayTurn /\ s' = Turn(RefreshSnapshot(s, hidden))
ServeRequest(r) ==
  /\ r.stage = "asked"
  /\ \/ s.full # 0 /\ s' = [s EXCEPT !.request = {[r EXCEPT !.stage = "done", !.sample = s.full]}]
     \/ /\ s.full = 0 /\ s.measured < MaxSamples
        /\ s' = [s EXCEPT !.measured = @ + 1, !.full = s.measured + 1,
                          !.request = {[r EXCEPT !.stage = "done", !.sample = s.measured + 1]}]
     \/ s.full = 0 /\ s' = [s EXCEPT !.request = {[r EXCEPT !.stage = "failed"]}]
RequestArrives(r) ==
  /\ r.stage \in {"done", "failed"}
  /\ LET t == [s EXCEPT !.request = {}]
     IN s' = [(IF r.stage = "done" THEN ApplySnapshot(t, r.sample, r.hidden) ELSE [t EXCEPT !.error = TRUE])
                EXCEPT !.loading = FALSE]

\* setSamplerControl: the window tells the sampler whenever it is shown, hidden,
\* paused or resumed; the commands are served in their order.
Control(t, by) ==
  [t EXCEPT !.controls = Append(@, [active |-> t.visible, paused |-> t.paused, by |-> by])]
SetVisible == s.of = "monitor" /\ MayTurn /\ s' = Control(Turn([s EXCEPT !.visible = ~@]), "page")
SetPaused == s.of = "monitor" /\ MayTurn /\ s' = Control(Turn([s EXCEPT !.paused = ~@]), "page")

\* The answer to a control; the one a lost heartbeat sent asks for a sample too.
ServeControl ==
  /\ s.of = "monitor" /\ s.controls # <<>>
  /\ LET c == Head(s.controls)
         t == [s EXCEPT !.controls = Tail(@)]
         done == [t EXCEPT !.native = [active |-> c.active, paused |-> c.paused], !.lost = FALSE]
         again == IF c.by = "heartbeat" THEN [RefreshSnapshot(done, TRUE) EXCEPT !.failures = 0] ELSE done
         failed == [t EXCEPT !.lost = TRUE, !.error = @ \/ c.by = "page"]
         idle(u) == IF c.by = "heartbeat" THEN [u EXCEPT !.beat = "idle"] ELSE u
     IN s' \in {idle(again), idle(failed)}

\* Fault: what is told again is what was true when the window was made.
TellAgainAsBegun(t) ==
  [t EXCEPT !.controls = Append(@, [active |-> TRUE, paused |-> FALSE, by |-> "heartbeat"])]

TellAgain(t) == Control(t, "heartbeat")

\* heartbeat: the next is sent when the last has ended.
SendHeartbeat == s.of = "monitor" /\ s.beat = "idle" /\ MayTurn /\ s' = Turn([s EXCEPT !.beat = "asked"])
HeartbeatEnds ==
  /\ s.beat = "asked"
  /\ LET missed == s.failures + 1
     IN s' \in {[s EXCEPT !.beat = "idle", !.failures = 0],
                IF missed < Misses THEN [s EXCEPT !.beat = "idle", !.failures = missed]
                ELSE TellAgain([s EXCEPT !.beat = "telling", !.failures = Misses - 1, !.error = TRUE])}

----------------------------------------------------------------------------
\* What keeps the computer awake.  A blocker is a process that may end, and whose
\* number another process may get; one belongs to the system.

Names == {"editor", "daemon"}
Blockers == [name : Names, process : 1..2, kind : {"display", "idle"}]
SleepInit ==
  s = [of |-> "sleep", turns |-> 0, available |-> TRUE, blockers |-> {}, expected |-> {}, read |-> FALSE,
       warming |-> TRUE, present |-> TRUE, celsius |-> FALSE]

\* summarizeSleepBlockers: by the application, whatever its assertions.
Summarized(blockers) == {b.name : b \in blockers}
SystemComponent(name) == name = "daemon"

\* Fault: an expectation outlives what was expected.
KeepExpected(expected, live) == expected

\* The effect on every sample: what is no longer there is no longer expected.
StillExpected(expected, live) == expected \cap live

\* sleepExpectationKey: of the process, its application and what it asserts.
SleepSample ==
  /\ s.of = "sleep" /\ MayTurn
  /\ \E available \in BOOLEAN, b \in SUBSET {x \in Blockers : x.process = 1 \/ x.kind = "idle"} :
       /\ Cardinality(b) <= 2
       /\ s' = Turn([s EXCEPT !.available = available, !.blockers = b,
                              !.expected = IF available THEN StillExpected(@, b) ELSE @])

\* toggle: all of an application's, or none of them.
ToggleExpected(name) ==
  /\ s.of = "sleep" /\ MayTurn /\ ~SystemComponent(name) /\ name \in Summarized(s.blockers)
  /\ LET keys == {b \in s.blockers : b.name = name}
     IN s' = Turn([s EXCEPT !.expected = IF keys \subseteq @ THEN @ \ keys ELSE @ \cup keys])

WithoutExpected(t) == t.blockers \ t.expected
ExpectedNames(t) ==
  {n \in Summarized(t.blockers) : ~SystemComponent(n) /\ n \notin Summarized(WithoutExpected(t))}
\* sleepWellbeingLevel and suppressSleep, of what is left.
SleepLevel(t) ==
  IF ~t.available THEN "unavailable"
  ELSE IF \E n \in Summarized(WithoutExpected(t)) : ~SystemComponent(n) THEN "attention" ELSE "normal"
SuppressSleep(t) == ExpectedNames(t) # {} /\ \A n \in Summarized(WithoutExpected(t)) : SystemComponent(n)

\* A sensor that was read once is not one the computer does not have.
SensorSample ==
  /\ s.of = "sleep" /\ MayTurn
  /\ \E celsius, warming \in BOOLEAN :
       s' = Turn([s EXCEPT !.celsius = celsius, !.warming = warming /\ @, !.read = @ \/ celsius])

Readiness(available, warming, read) ==
  IF available THEN "available"
  ELSE IF warming /\ ~read THEN "waiting"
  ELSE IF ~read THEN "unsupported" ELSE "unavailable"

----------------------------------------------------------------------------
\* The energy of the graphics processor: one read at a time, and a clear that ends it.

EnergyInit == s = [of |-> "energy", turns |-> 0, epoch |-> 0, asked |-> {}, current |-> {}, shown |-> {},
                   loading |-> FALSE, failed |-> FALSE, made |-> 0]
RefreshEnergy ==
  /\ s.of = "energy" /\ MayTurn /\ s.current = {}
  /\ LET c == [epoch |-> s.epoch, id |-> s.made]
     IN s' = Turn([s EXCEPT !.asked = @ \cup {c}, !.current = {c}, !.loading = TRUE, !.made = @ + 1])

SameEpoch(c) == c.epoch = s.epoch
EnergyArrives(c) ==
  LET t == [s EXCEPT !.asked = @ \ {c}]
  IN s' \in IF SameEpoch(c)
            THEN {[t EXCEPT !.shown = {c}, !.failed = FALSE, !.loading = FALSE, !.current = {}],
                  [t EXCEPT !.failed = TRUE, !.loading = FALSE, !.current = {}]}
            ELSE {t}
ClearEnergy ==
  /\ s.of = "energy" /\ MayTurn
  /\ s' = Turn([s EXCEPT !.epoch = @ + 1, !.current = {}, !.shown = {}, !.loading = FALSE, !.failed = FALSE])

----------------------------------------------------------------------------
\* The applications.  `disk` counts what was removed of them; an inventory is the
\* count it was taken at.  A forced read is not content with one that is not.

InventoryInit ==
  s = [of |-> "inventory", turns |-> 0, disk |-> 0, cached |-> {}, flight |-> {}, calls |-> {}, made |-> 0,
       waiting |-> {}, given |-> {}, enabled |-> TRUE, trash |-> {}, watch |-> {}]

RemoveApplication == s.of = "inventory" /\ MayTurn /\ s' = Turn([s EXCEPT !.disk = @ + 1])

Joined(forced) == {f \in s.flight : forced => f.forced}

\* getInstalledApplications.  `since` is kept only to state the properties: what had
\* been removed when the read was begun.
GetInstalledApplications(forced) ==
  /\ s.of = "inventory" /\ MayTurn /\ (~forced => s.cached = {})
  /\ LET call == [id |-> s.made, forced |-> forced, since |-> s.disk, read |-> {}]
         joined == Joined(forced)
         w(f) == [id |-> f.id, forced |-> forced, since |-> f.since]
     IN s' = IF joined # {}
             THEN Turn([s EXCEPT !.waiting = @ \cup {w(f) : f \in joined}])
             ELSE Turn([s EXCEPT !.made = @ + 1, !.calls = @ \cup {call}, !.flight = {call},
                                 !.waiting = @ \cup {w(call)}])
GiveCached ==
  s.of = "inventory" /\ MayTurn /\ s.cached # {} /\ s' = Turn([s EXCEPT !.given = {}])
\* The native side has a cache of its own, a forced read goes past it.
ReadApplications(c) ==
  /\ c.read = {}
  /\ \E at \in (IF c.forced THEN {s.disk} ELSE 0..s.disk) :
       LET read == [c EXCEPT !.read = {at}]
       IN s' = [s EXCEPT !.calls = (@ \ {c}) \cup {read}, !.flight = IF @ = {c} THEN {read} ELSE @]
ApplicationsArrive(c) ==
  LET waiting == {w \in s.waiting : w.id = c.id}
      t == [s EXCEPT !.calls = @ \ {c}, !.flight = IF @ = {c} THEN {} ELSE @, !.waiting = @ \ waiting]
  IN s' \in {u \in {[t EXCEPT !.cached = c.read, !.given = {[forced |-> w.forced, since |-> w.since, at |-> at] :
                                                              w \in waiting, at \in c.read}],
                    [t EXCEPT !.given = {}]} : c.read # {} \/ u.given = {}}
CacheExpires == s.of = "inventory" /\ s.cached # {} /\ MayTurn /\ s' = Turn([s EXCEPT !.cached = {}])

\* The watcher of the trash: one read at a time, and none that is not wanted.
RefreshTrash ==
  s.of = "inventory" /\ s.enabled /\ s.watch = {} /\ MayTurn /\ s' = Turn([s EXCEPT !.watch = {"asked"}])
\* An answer that comes after it was switched off is shown all the same.
TrashArrives == s.of = "inventory" /\ s.watch # {} /\ s' \in {[s EXCEPT !.watch = {}, !.trash = {s.disk}], [s EXCEPT !.watch = {}]}
SetTrashWatcher ==
  /\ s.of = "inventory" /\ MayTurn
  /\ s' = Turn([s EXCEPT !.enabled = ~@, !.trash = IF s.enabled THEN {} ELSE @,
                         !.watch = IF s.enabled THEN @ ELSE {"asked"}])

----------------------------------------------------------------------------

Init == MonitorInit \/ SleepInit \/ EnergyInit \/ InventoryInit

\* The answers, by the operation they end.
Operations == {"sample", "request", "control", "heartbeat", "energy", "inventory", "trash"}
AnswerOf(op) ==
  \/ op = "sample" /\ s.of = "monitor" /\ \/ \E m \in s.taking : KeepAndTell(m) \/ MeasureFails(m)
                                          \/ \E e \in s.events : HearSample(e)
  \/ op = "request" /\ s.of = "monitor" /\ \E r \in s.request : ServeRequest(r) \/ RequestArrives(r)
  \/ op = "control" /\ ServeControl
  \/ op = "heartbeat" /\ s.of = "monitor" /\ HeartbeatEnds
  \/ op = "energy" /\ s.of = "energy" /\ \E c \in s.asked : EnergyArrives(c)
  \/ op = "inventory" /\ s.of = "inventory" /\ \E c \in s.calls : ReadApplications(c) \/ ApplicationsArrive(c)
  \/ op = "trash" /\ TrashArrives

Next ==
  \/ \E full \in BOOLEAN : Measure(full, "sampler")
  \/ Measure(TRUE, "action")
  \/ \E hidden \in BOOLEAN : Refresh(hidden)
  \/ SetVisible \/ SetPaused \/ SendHeartbeat
  \/ SleepSample \/ SensorSample
  \/ \E n \in Names : ToggleExpected(n)
  \/ RefreshEnergy \/ ClearEnergy
  \/ \E forced \in BOOLEAN : GetInstalledApplications(forced)
  \/ RemoveApplication \/ GiveCached \/ CacheExpires \/ RefreshTrash \/ SetTrashWatcher
  \/ \E op \in Operations : AnswerOf(op)

Waiting ==
  CASE s.of = "monitor" -> s.request # {} \/ s.controls # <<>> \/ s.beat # "idle" \/ s.taking # {} \/ s.events # {}
    [] s.of = "sleep" -> FALSE
    [] s.of = "energy" -> s.loading
    [] s.of = "inventory" -> s.calls # {} \/ s.watch # {}

----------------------------------------------------------------------------

\* The samples are told by the sampler, by an action on a process and by the answer
\* to a request, in any order, and the window may be hidden, shown, paused and
\* resumed among them: the history is in the order of the measurements and has
\* each at most once, and what is shown is its newest.
SamplesInOrder ==
  s.of = "monitor" =>
    /\ \A i, j \in 1..Len(s.history) : i < j => s.history[i] < s.history[j]
    /\ s.snapshot <= s.summary
    /\ s.history # <<>> => s.summary = s.history[Len(s.history)]

\* While it is paused nothing is shown that was not shown when it was paused, not
\* even what had been asked for.
PausedStays ==
  s.of = "monitor" /\ s.paused /\ s'.paused =>
    s'.summary = s.summary /\ s'.snapshot = s.snapshot /\ s'.history = s.history

\* When the sampler has answered everything the window told it, and the last of it
\* arrived, it samples as the window wants: also when heartbeats were lost and it
\* was told again while the window was hidden or paused.
SamplerFollows ==
  s.of = "monitor" /\ s.controls = <<>> /\ ~s.lost =>
    s.native = [active |-> s.visible, paused |-> s.paused]

\* What is expected to keep the computer awake is still there, what nobody expects
\* is told, and a warning that is held back is one of nothing but what is expected.
\* A sensor that was read once is never called one the computer does not have.
SleepIsExplained ==
  s.of = "sleep" =>
    /\ s.available => s.expected \subseteq s.blockers
    /\ \A b \in s.blockers : (s.available /\ SleepLevel(s) = "normal" /\ ~SystemComponent(b.name)) => b.name \in ExpectedNames(s)
    /\ SuppressSleep(s) => \A b \in s.blockers : b \in s.expected \/ SystemComponent(b.name)
    /\ s.read => Readiness(s.celsius, s.warming, s.read) \in {"available", "unavailable"}

\* A clear is final: nothing that was asked for before it is shown after it, and no
\* read of before it ends the one after it.
EnergyStaysCleared ==
  s.of = "energy" => /\ \A c \in s.shown : c.epoch = s.epoch
                     /\ s.loading <=> s.current # {}

\* Who forces a read of the applications is answered by a read of the computer, that
\* knows what was removed before it was begun, and not by one of a cache.
ForcedIsFresh ==
  s.of = "inventory" => \A g \in s.given : g.forced => g.at >= g.since
=============================================================================
