------------------------------ MODULE Diagnosis ------------------------------
(***************************************************************************)
(* What CoreRobin finds wrong with the device (src/diagnosis.ts): samples  *)
(* arrive, a condition must hold for some time, the processes are counted  *)
(* as applications, and the application that uses the most is blamed, with *)
(* the process the user is offered to close.                               *)
(*                                                                         *)
(* A tick is five seconds.  Loads are levels: 0 below the threshold, 1     *)
(* from it on, 2 urgent.                                                   *)
(***************************************************************************)
EXTENDS Integers, Sequences, FiniteSets, SequencesExt, FiniteSetsExt

CONSTANT MaxSamples  \* bound of the model: samples taken

VARIABLE s

Sustained == 2  \* DIAGNOSIS_SUSTAINED_MS
MaximumGap == 1
None == [none |-> TRUE]
Metrics == {"cpu", "memory", "disk", "network"}

\* The loads sampled: nothing, all of them, and each extreme alone.
Loads == {[m \in Metrics |-> 0], [m \in Metrics |-> 1], [[m \in Metrics |-> 0] EXCEPT !["cpu"] = 2],
          [[m \in Metrics |-> 2] EXCEPT !["cpu"] = 0]}

\* What is left of the memory and how much was swapped, the largest volume,
\* the connections (0, 500 and more, 1000 and more; -1 when not read).
Measures == {[available |-> "fine", swap |-> 0, volume |-> 0, connections |-> -1],
             [available |-> "tight", swap |-> 1, volume |-> 1, connections |-> 1],
             [available |-> "low", swap |-> 2, volume |-> 2, connections |-> 2],
             [available |-> "critical", swap |-> 2, volume |-> 0, connections |-> 0]}

\* Processes: an application of the user, and two others of any kind.
Row(pid, name, parent, user, protected, token) ==
  [pid |-> pid, name |-> name, parent |-> parent, user |-> user, protected |-> protected, token |-> token]
Names == {"A", "A Helper", "node", "WebKit", "CoreRobin"}
Users == {"me", "root"}
Others(pid, parents, tokens) ==
  {Row(pid, n, p, u, g, t) : n \in Names, p \in parents, u \in Users, g \in BOOLEAN, t \in tokens}
Trees == {{Row(1, "A", 0, "me", FALSE, TRUE), q, r} :
            q \in Others(2, {1, 3}, BOOLEAN), r \in Others(3, {0, 2}, {TRUE})}

----------------------------------------------------------------------------
(* Applications.                                                           *)

IsSystemProcess(p) == p.protected \/ p.user = "root"
ApplicationName(name) == IF name = "A Helper" THEN "A" ELSE name
IsGenericRuntimeName(name) == name = "node"

\* A runtime bears the name of what started it, as far as that is the same
\* user's and no process of the system; six steps up at most.
GroupName(p, rows) ==
  LET path[d \in 0..6] ==
        IF d = 0 THEN <<p>>
        ELSE LET seen == path[d - 1]
                 up == {q \in rows : /\ q.pid = Last(seen).parent /\ q.user = p.user
                                     /\ ~IsSystemProcess(q) /\ \A i \in DOMAIN seen : seen[i].pid # q.pid}
             IN IF IsGenericRuntimeName(ApplicationName(Last(seen).name)) /\ up # {}
                THEN Append(seen, CHOOSE q \in up : TRUE) ELSE seen
  IN ApplicationName(Last(path[6]).name)

\* Processes of WebKit serve applications that are not known: each is one of its own.
GroupKey(p, rows) == <<p.user, GroupName(p, rows), IF p.name = "WebKit" THEN p.pid ELSE 0>>
AggregateApplications(rows) ==
  {{q \in rows : GroupKey(q, rows) = GroupKey(p, rows)} : p \in rows}

\* What is asked to close: a root of the group before its children, and a
\* helper after the others.
ApplicationActionProcess(members) ==
  LET able == {p \in members : p.token /\ ~p.protected /\ ~IsSystemProcess(p)}
      IsRoot(p) == \A q \in members : q.pid # p.parent
      Rank(p) == (IF IsRoot(p) THEN 0 ELSE 20) + (IF p.name = "A Helper" THEN 10 ELSE 0) + p.pid
  IN IF able = {} THEN None ELSE CHOOSE p \in able : \A q \in able : Rank(p) <= Rank(q)

Kind(members) ==
  CASE \E p \in members : p.name = "CoreRobin" -> "self"
    [] \E p \in members : p.name = "WebKit" -> "unknown"
    [] \A p \in members : p.user = "root" -> "system"
    [] \A p \in members : IsSystemProcess(p) -> "protected"
    [] OTHER -> "user"

----------------------------------------------------------------------------
(* Findings.                                                               *)

\* How long the load of a metric has been that of its last sample.
SustainedTailDuration(history, metric, now) ==
  LET high == {i \in DOMAIN history : history[i].load[metric] > 0}
      unbroken == {i \in high : \A j \in i..(Len(history) - 1) :
                                  j + 1 \in high /\ history[j + 1].at - history[j].at <= MaximumGap}
  IN IF history = <<>> \/ unbroken = {} \/ now - Last(history).at > MaximumGap THEN 0
     ELSE Last(history).at - history[Min(unbroken)].at

Level(history, metric) == IF history = <<>> THEN 0 ELSE Last(history).load[metric]
Finding(code, urgent, duration) == [code |-> code, urgent |-> urgent, duration |-> duration]

DiagnoseCpu(t) ==
  LET duration == SustainedTailDuration(t.history, "cpu", t.now)
  IN IF duration < Sustained THEN {} ELSE {Finding("sustained_cpu", Level(t.history, "cpu") = 2, duration)}

\* Nearly none left and much of it swapped is found at once.
DiagnoseMemory(t) ==
  LET duration == SustainedTailDuration(t.history, "memory", t.now)
      immediate == t.measure.available = "critical" /\ t.measure.swap = 2
      pressure == t.measure.available # "fine" /\ t.measure.swap > 0 /\ duration >= Sustained
  IN IF ~immediate /\ ~pressure THEN {}
     ELSE {Finding("memory_pressure", t.measure.available \in {"critical", "low"} /\ t.measure.swap = 2,
                   IF immediate THEN 0 ELSE duration)}

DiagnoseStorage(t) ==
  IF t.measure.volume = 0 THEN {} ELSE {Finding("low_storage", t.measure.volume = 2, 0)}

DiagnoseDisk(t) ==
  LET duration == SustainedTailDuration(t.history, "disk", t.now)
  IN IF duration < Sustained THEN {} ELSE {Finding("busy_disk", Level(t.history, "disk") = 2, duration)}

DiagnoseNetwork(t) ==
  LET duration == SustainedTailDuration(t.history, "network", t.now)
  IN IF duration < Sustained /\ t.measure.connections < 1 THEN {}
     ELSE {Finding("high_network", Level(t.history, "network") = 2 \/ t.measure.connections = 2,
                   IF duration >= Sustained THEN duration ELSE 0)}

AnalyzeSystemHealth(t) ==
  DiagnoseCpu(t) \cup DiagnoseMemory(t) \cup DiagnoseStorage(t) \cup DiagnoseDisk(t) \cup DiagnoseNetwork(t)

\* The baseline is there when the samples span what a condition must hold for.
BaselineReady(t) == t.history # <<>> /\ Last(t.history).at - t.history[1].at >= Sustained
DiagnosisStatus(t) ==
  LET found == AnalyzeSystemHealth(t)
  IN CASE \E f \in found : f.urgent -> "urgent"
       [] found # {} /\ ~(\E f \in found : f.urgent) -> "attention"
       [] found = {} -> IF BaselineReady(t) THEN "healthy" ELSE "observing"

\* The process that uses the most is of the application that is blamed: here it is t.top.
Culprit(t) ==
  LET of == {g \in AggregateApplications(t.rows) : \E p \in g : p.pid = t.top}
  IN IF of = {} THEN {} ELSE CHOOSE g \in of : TRUE

RecommendationFor(f, t) ==
  LET culprit == Culprit(t)
      action == ApplicationActionProcess(culprit)
  IN CASE f.code = "low_storage" -> [kind |-> "open_cleanup", process |-> 0]
       [] f.code = "high_network" -> [kind |-> "open_network", process |-> 0]
       [] f.code \notin {"low_storage", "high_network"} /\ culprit = {} -> [kind |-> "inspect_process", process |-> 0]
       [] f.code \notin {"low_storage", "high_network"} /\ culprit # {} ->
            IF (\E p \in culprit : ~IsSystemProcess(p)) /\ action # None /\ t.requestClose
            THEN [kind |-> "request_close", process |-> action.pid]
            ELSE [kind |-> "inspect_process", process |-> t.top]

----------------------------------------------------------------------------
(* Samples.                                                                *)

Sample(at, load, measure) ==
  /\ s.left > 0
  /\ s' = [s EXCEPT !.history = Append(@, [at |-> at, load |-> load]), !.now = at, !.measure = measure, !.left = @ - 1]

\* Nothing is sampled for a while; the diagnosis is made again.
Silence == s.left > 0 /\ s' = [s EXCEPT !.now = @ + 2, !.left = @ - 1]

Init ==
  \/ \E m \in Measures :
       s = [history |-> <<>>, now |-> 0, measure |-> m, rows |-> {Row(1, "A", 0, "me", FALSE, TRUE)}, top |-> 1,
            requestClose |-> TRUE, left |-> MaxSamples]
  \/ \E rows \in Trees, top \in {0, 2, 3}, enabled \in BOOLEAN :
       /\ s = [history |-> [i \in 1..3 |-> [at |-> i, load |-> [m \in Metrics |-> 1]]], now |-> 3,
               measure |-> CHOOSE m \in Measures : m.available = "tight", rows |-> rows, top |-> top,
               requestClose |-> enabled, left |-> 0]

Next ==
  \/ \E d \in 1..2, load \in Loads, m \in Measures : Sample(s.now + d, load, m)
  \/ Silence

----------------------------------------------------------------------------
(* Properties.                                                             *)

\* The processor and the disk are found busy exactly when each sample of the
\* last ten seconds says so and no gap between two of them could hide that it
\* was not: there is a sample old enough from which on none is low or late.
\* The device is called healthy only when it was watched for that long.
SustainedIsSeen ==
  LET Seen(metric) ==
        \E i \in DOMAIN s.history :
          /\ Last(s.history).at - s.history[i].at >= Sustained
          /\ s.now - Last(s.history).at <= MaximumGap
          /\ \A j \in i..Len(s.history) : s.history[j].load[metric] > 0
          /\ \A j \in (i + 1)..Len(s.history) : s.history[j].at - s.history[j - 1].at <= MaximumGap
      found == {f.code : f \in AnalyzeSystemHealth(s)}
  IN /\ ("sustained_cpu" \in found) <=> Seen("cpu")
     /\ ("busy_disk" \in found) <=> Seen("disk")
     /\ DiagnosisStatus(s) = "healthy" => BaselineReady(s) /\ ~Seen("cpu") /\ ~Seen("disk") /\ ~Seen("network")
     /\ "memory_pressure" \in found /\ s.measure.available # "critical" => Seen("memory")

\* The process offered to be closed belongs to the application that is blamed,
\* is neither protected nor of the system, can be told from a later process of
\* its number, and no other user's process is counted to that application,
\* through however many runtimes in between; an application of WebKit's is
\* one process.
ClosesTheBlamed ==
  \A f \in AnalyzeSystemHealth(s) :
    LET r == RecommendationFor(f, s)
    IN r.kind = "request_close" =>
         \E p \in s.rows : /\ p.pid = r.process /\ ~p.protected /\ p.user # "root" /\ p.token
                           /\ \E q \in s.rows : q.pid = s.top /\ q.user = p.user
                           /\ p \in Culprit(s) /\ Kind(Culprit(s)) \in {"user", "self", "unknown"}
                           /\ \A q \in Culprit(s) : q.user = p.user /\ (q.name = "WebKit" => Culprit(s) = {p})
                           /\ f.code \in {"sustained_cpu", "memory_pressure", "busy_disk"}
=============================================================================
