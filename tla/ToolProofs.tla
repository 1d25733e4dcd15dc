----------------------------- MODULE ToolProofs -----------------------------
(***************************************************************************)
(* Lemmas about three of the pages of ToolsMC that hold something for the  *)
(* user, for every number of operations: the dialogs of the processes, the *)
(* local tools (a file opened for its hash, the lease of a page's task)    *)
(* and the keyboard, for every length of its session.  Each page has an    *)
(* invariant of its own, about its tables: KillGood, SimpleGood, KeysGood. *)
(* HeldProofs joins them with those of the pictures and the patches.       *)
(***************************************************************************)
EXTENDS ToolsMC, SequenceTheorems, TLAPS

(* The dialogs of the processes.                                             *)

KillFields ==
  {"live", "shown", "selected", "detail", "detailFor", "fetch", "pending", "begin", "submit",
   "leases", "next", "confirmed", "signals", "records", "acts", "turns"}

\* The details are asked for of the process that is selected, as long as it is
\* listed; a dialog that is not confirmed yet is of that process.
KillGood(t) ==
  /\ DOMAIN t = KillFields
  /\ "target" \in DOMAIN t.pending /\ "stage" \in DOMAIN t.submit
  /\ t.detailFor = IF t.selected \in t.shown THEN t.selected ELSE 0
  /\ t.pending.target # 0 /\ t.submit.stage = "none" => t.pending.target = t.selected

\* What a step leaves of a state, when it changes neither the process that is
\* selected nor what is listed.
KillFrame(t, u) ==
  /\ DOMAIN u = DOMAIN t /\ u.selected = t.selected /\ u.shown = t.shown
  /\ u.detailFor = t.detailFor

\* A step that leaves the pending dialog alone, closes it, or opens it for what
\* is selected keeps the invariant.
LEMMA KillFramed ==
  ASSUME NEW t, KillGood(t), NEW u, KillFrame(t, u), "target" \in DOMAIN u.pending,
         "stage" \in DOMAIN u.submit,
         \/ u.pending.target = t.pending.target /\ (u.submit.stage = "none" => t.submit.stage = "none")
         \/ u.submit.stage # "none"
         \/ u.pending = Kill!NoPending
         \/ u.pending.target = t.selected
  PROVE  KillGood(u)
BY DEF KillGood, KillFrame, Kill!NoPending, Kill!None

\* The process that is selected, or the list, changes only with its details.
LEMMA KillFollow ==
  ASSUME NEW t, DOMAIN t = KillFields, "target" \in DOMAIN t.pending, "stage" \in DOMAIN t.submit,
         t.pending.target # 0 /\ t.submit.stage = "none" => t.pending.target = t.selected
  PROVE  KillGood(Kill!FollowDetail(t))
<1> DEFINE u == Kill!FollowDetail(t)
<1>1. /\ DOMAIN u = KillFields /\ u.selected = t.selected /\ u.shown = t.shown
      /\ u.pending = t.pending /\ u.submit = t.submit
  BY DEF Kill!FollowDetail, KillFields
<1>2. u.detailFor = IF t.selected \in t.shown THEN t.selected ELSE 0
  BY DEF Kill!FollowDetail, KillFields, Kill!None
<1> QED BY <1>1, <1>2 DEF KillGood

\* Discarding closes the pending dialog and leaves the selection alone.
LEMMA KillDiscard ==
  ASSUME NEW t, DOMAIN t = KillFields
  PROVE  LET u == Kill!DiscardPendingAction(t)
         IN /\ DOMAIN u = KillFields /\ u.pending = Kill!NoPending /\ u.submit = t.submit
            /\ u.selected = t.selected /\ u.shown = t.shown /\ u.detailFor = t.detailFor
BY DEF Kill!DiscardPendingAction, Kill!ReleaseLease, KillFields

\* Selecting a process, a request of the diagnosis and a new sample.
LEMMA KillSelectionSteps ==
  ASSUME KillGood(s),
         \/ \E i \in Kill!Processes : Kill!SelectProcess(i)
         \/ \E i \in Kill!Processes, source \in {"diagnosis", "restart"} :
               Kill!BeginDiagnosisRequestClose(i, source)
         \/ Kill!Sample
  PROVE  KillGood(s)'
<1>1. DOMAIN s = KillFields
  BY DEF KillGood
<1> DEFINE d == Kill!DiscardPendingAction(s)
<1>2. /\ DOMAIN d = KillFields /\ d.pending = Kill!NoPending /\ d.submit = s.submit
      /\ d.selected = s.selected /\ d.shown = s.shown /\ d.detailFor = s.detailFor
  BY <1>1, KillDiscard
<1>3. Kill!NoPending.target = 0 /\ "target" \in DOMAIN Kill!NoPending
  BY DEF Kill!NoPending, Kill!None
<1> HIDE DEF d
<1>4. ASSUME NEW i, Kill!SelectProcess(i) PROVE KillGood(s')
  <2> DEFINE u == [d EXCEPT !.selected = i, !.turns = @ - 1]
  <2>1. DOMAIN u = KillFields /\ u.pending = d.pending /\ u.submit = d.submit
    BY <1>2 DEF KillFields
  <2>2. s' = Kill!FollowDetail(u)
    BY <1>4 DEF Kill!SelectProcess, d
  <2> HIDE DEF u
  <2> QED BY <1>2, <1>3, <2>1, <2>2, KillFollow DEF KillGood
<1>5. ASSUME NEW i, NEW source, Kill!BeginDiagnosisRequestClose(i, source) PROVE KillGood(s')
  <2> DEFINE u == [d EXCEPT !.acts = @ - 1, !.selected = i,
                            !.begin = [stage |-> "detail", source |-> source, target |-> i,
                                       action |-> "request_close"]]
  <2>1. DOMAIN u = KillFields /\ u.pending = d.pending /\ u.submit = d.submit
    BY <1>2 DEF KillFields
  <2>2. s' = Kill!FollowDetail(u)
    BY <1>5 DEF Kill!BeginDiagnosisRequestClose, d
  <2> HIDE DEF u
  <2> QED BY <1>2, <1>3, <2>1, <2>2, KillFollow DEF KillGood
<1>6. CASE Kill!Sample
  <2> DEFINE u == [s EXCEPT !.shown = s.live, !.turns = @ - 1]
  <2>1. DOMAIN u = KillFields /\ u.pending = s.pending /\ u.submit = s.submit /\ u.selected = s.selected
    BY <1>1 DEF KillFields
  <2>2. s' = Kill!FollowDetail(u)
    BY <1>6 DEF Kill!Sample
  <2> HIDE DEF u
  <2> QED BY <2>1, <2>2, KillFollow DEF KillGood
<1> QED BY <1>4, <1>5, <1>6

\* The dialog is opened of what is selected, and closed with its action.
LEMMA KillBeginSteps ==
  ASSUME KillGood(s),
         \/ Kill!DetailRead \/ Kill!RelaunchableRead \/ Kill!BeginLeaseArrives
         \/ \E action \in {"request_close", "force_kill"} : Kill!BeginProcessAction(action)
  PROVE  KillGood(s)'
<1>1. DOMAIN s = KillFields /\ "target" \in DOMAIN s.pending /\ "stage" \in DOMAIN s.submit
  BY DEF KillGood
<1>2. CASE Kill!BeginLeaseArrives
  <2>1. CASE s' = Kill!EndBegin(s)
    <3>1. KillFrame(s, s') /\ s'.pending = s.pending /\ s'.submit = s.submit
      BY <1>1, <2>1 DEF Kill!EndBegin, KillFrame, KillFields
    <3> QED BY <1>1, <3>1, KillFramed
  <2>2. CASE s' = Kill!OpenPending(s) /\ Kill!SameTarget(s)
    <3>1. /\ KillFrame(s, s') /\ s'.submit = s.submit /\ "target" \in DOMAIN s'.pending
          /\ s'.pending.target = s.begin.target
      BY <1>1, <2>2 DEF Kill!OpenPending, Kill!EndBegin, Kill!CreateLease, KillFrame, KillFields
    <3> QED BY <1>1, <2>2, <3>1, KillFramed DEF Kill!SameTarget
  <2> QED BY <1>2, <2>1, <2>2 DEF Kill!BeginLeaseArrives
<1>3. CASE \/ Kill!DetailRead \/ Kill!RelaunchableRead
           \/ \E action \in {"request_close", "force_kill"} : Kill!BeginProcessAction(action)
  <2>1. KillFrame(s, s') /\ s'.pending = s.pending /\ s'.submit = s.submit
    BY <1>1, <1>3 DEF Kill!DetailRead, Kill!RelaunchableRead, Kill!BeginProcessAction, Kill!EndBegin,
                      KillFrame, KillFields
  <2> QED BY <1>1, <2>1, KillFramed
<1> QED BY <1>2, <1>3

\* Cancelling, the detail and what happens to the processes themselves.
LEMMA KillPlainSteps ==
  ASSUME KillGood(s),
         Kill!CancelPendingAction \/ Kill!RetryDetail \/ Kill!DetailArrives \/ Kill!Expire
           \/ \E i \in Kill!Processes : Kill!Exit(i)
  PROVE  KillGood(s)'
<1>1. DOMAIN s = KillFields /\ "target" \in DOMAIN s.pending /\ "stage" \in DOMAIN s.submit
  BY DEF KillGood
<1>2. CASE Kill!CancelPendingAction
  <2>1. KillFrame(s, s') /\ s'.pending = Kill!NoPending /\ s'.submit = s.submit
    BY <1>1, <1>2, KillDiscard DEF Kill!CancelPendingAction, KillFrame
  <2>2. "target" \in DOMAIN Kill!NoPending
    BY DEF Kill!NoPending
  <2> QED BY <1>1, <2>1, <2>2, KillFramed
<1>3. CASE \/ Kill!RetryDetail \/ Kill!DetailArrives \/ Kill!Expire
           \/ \E i \in Kill!Processes : Kill!Exit(i)
  <2>1. KillFrame(s, s') /\ s'.pending = s.pending /\ s'.submit = s.submit
    BY <1>1, <1>3 DEF Kill!RetryDetail, Kill!DetailArrives, Kill!Expire, Kill!ReleaseLease, Kill!Exit,
                      KillFrame, KillFields
  <2> QED BY <1>1, <2>1, KillFramed
<1> QED BY <1>2, <1>3

\* The end of what was submitted.
LEMMA KillEnded ==
  ASSUME KillGood(s), NEW t, KillFrame(s, t), s' = Kill!EndSubmit(t)
  PROVE  KillGood(s)'
<1>1. /\ KillFrame(s, s') /\ s'.pending = Kill!NoPending /\ s'.submit = Kill!Idle
  BY DEF Kill!EndSubmit, KillFrame, KillGood, KillFields
<1>2. "target" \in DOMAIN Kill!NoPending /\ "stage" \in DOMAIN Kill!Idle
  BY DEF Kill!NoPending, Kill!Idle
<1> QED BY <1>1, <1>2, KillFramed

\* A failure is told in the dialog that is open, or to nobody.
LEMMA KillFails ==
  ASSUME NEW t, DOMAIN t = KillFields, KillGood(s), KillFrame(s, t), s' = Kill!ActionFails(t)
  PROVE  KillGood(s)'
<1> DEFINE a == IF t.submit.stage \in {"lease", "release"} THEN t ELSE Kill!Record(t, "failed", FALSE)
           b == Kill!ReleaseLease(a, IF t.submit.lease = Kill!None THEN t.submit.p.lease ELSE t.submit.lease)
<1>1. KillFrame(s, a)
  BY DEF Kill!Record, KillFrame, KillFields
<1> HIDE DEF a
<1>2. KillFrame(s, b)
  BY <1>1 DEF Kill!ReleaseLease, KillFrame, KillGood, KillFields
<1>3. s' = Kill!EndSubmit(b)
  BY DEF Kill!ActionFails, a
<1> HIDE DEF b
<1> QED BY <1>2, <1>3, KillEnded

\* Confirming: the dialog, its lease, and its end when the lease is stale.
LEMMA KillConfirmSteps ==
  ASSUME KillGood(s),
         Kill!HandleAction \/ Kill!StaleIsClosed \/ Kill!ExecutionLeaseArrives \/ Kill!LeaseIsChanged
  PROVE  KillGood(s)'
<1>1. DOMAIN s = KillFields /\ "target" \in DOMAIN s.pending /\ "stage" \in DOMAIN s.submit
  BY DEF KillGood
<1>2. CASE Kill!HandleAction
  <2>1. /\ KillFrame(s, s') /\ s'.pending = s.pending /\ "stage" \in DOMAIN s'.submit
        /\ s'.submit.stage # "none"
    BY <1>1, <1>2 DEF Kill!HandleAction, Kill!ReleaseLease, KillFrame, KillFields
  <2> QED BY <1>1, <2>1, KillFramed
<1>3. CASE Kill!StaleIsClosed
  <2>1. s' = Kill!EndSubmit(s)
    BY <1>3 DEF Kill!StaleIsClosed, Kill!EndSubmit
  <2> QED BY <2>1, KillEnded DEF KillFrame
<1>4. CASE Kill!ExecutionLeaseArrives
  <2>1. CASE s' = Kill!ActionFails(s)
    BY <1>1, <2>1, KillFails DEF KillFrame
  <2>2. CASE s' = Kill!EndSubmit([s EXCEPT !.next = @ + 1])
    <3>1. KillFrame(s, [s EXCEPT !.next = @ + 1])
      BY <1>1 DEF KillFrame, KillFields
    <3> QED BY <2>2, <3>1, KillEnded
  <2>3. CASE s' = [Kill!CreateLease(s, s.submit.p.target, s.submit.p.action) EXCEPT
                     !.submit.stage = "release", !.submit.lease = s.next]
    <3>1. /\ KillFrame(s, s') /\ s'.pending = s.pending /\ "stage" \in DOMAIN s'.submit
          /\ s'.submit.stage = "release"
      BY <1>1, <2>3 DEF Kill!CreateLease, KillFrame, KillFields
    <3> QED BY <1>1, <3>1, KillFramed
  <2> QED BY <1>4, <2>1, <2>2, <2>3 DEF Kill!ExecutionLeaseArrives
<1>5. CASE Kill!LeaseIsChanged
  <2>1. /\ KillFrame(s, s') /\ "target" \in DOMAIN s'.pending /\ s'.pending.target = s.pending.target
        /\ "stage" \in DOMAIN s'.submit /\ s'.submit.stage = "execute"
    BY <1>1, <1>5 DEF Kill!LeaseIsChanged, Kill!ReleaseLease, KillFrame, KillFields
  <2> QED BY <1>1, <2>1, KillFramed
<1> QED BY <1>2, <1>3, <1>4, <1>5

\* The action is carried out; its end is recorded and closes the dialog.
LEMMA KillRecorded ==
  ASSUME KillGood(s), NEW t, KillFrame(s, t), NEW status, NEW restarted,
         s' = Kill!EndSubmit(Kill!Record(t, status, restarted))
  PROVE  KillGood(s)'
<1>1. KillFrame(s, Kill!Record(t, status, restarted))
  BY DEF Kill!Record, KillFrame, KillGood, KillFields
<1> QED BY <1>1, KillEnded

\* The answer to what was confirmed.
LEMMA KillExecutedStep == ASSUME KillGood(s), Kill!Executed PROVE KillGood(s)'
<1> DEFINE t == Kill!ExecuteProcessAction(s)
           p == s.submit.p
           u(exits) == [Kill!Signalled(t) EXCEPT !.live = IF exits THEN @ \ {p.target} ELSE @]
<1>1. DOMAIN s = KillFields /\ "target" \in DOMAIN s.pending /\ "stage" \in DOMAIN s.submit
  BY DEF KillGood
<1>2. DOMAIN t = KillFields /\ KillFrame(s, t) /\ t.submit = s.submit /\ t.pending = s.pending
  BY <1>1 DEF Kill!ExecuteProcessAction, Kill!ReleaseLease, KillFrame, KillFields
<1>3. ASSUME NEW exits \in BOOLEAN
      PROVE  /\ KillFrame(s, u(exits)) /\ u(exits).submit = s.submit
             /\ u(exits).pending = s.pending
  <2> HIDE DEF t
  <2> QED BY <1>1, <1>2 DEF Kill!Signalled, KillFrame, KillFields
<1>4. \/ s' = Kill!ActionFails(t)
      \/ \E exits \in BOOLEAN : \/ s' = [u(exits) EXCEPT !.submit.stage = "exit"]
                                \/ s' = [u(exits) EXCEPT !.submit.stage = "relaunch"]
                                \/ s' = Kill!Succeeded(u(exits))
  BY DEF Kill!Executed
<1> HIDE DEF t, u
<1>5. CASE s' = Kill!ActionFails(t)
  BY <1>2, <1>5, KillFails
<1>6. ASSUME NEW exits \in BOOLEAN, NEW stage \in {"exit", "relaunch"},
             s' = [u(exits) EXCEPT !.submit.stage = stage]
      PROVE  KillGood(s')
  <2>1. /\ KillFrame(s, s') /\ s'.pending = s.pending /\ "stage" \in DOMAIN s'.submit
        /\ s'.submit.stage = stage
    BY <1>1, <1>3, <1>6 DEF KillFrame, KillFields
  <2> QED BY <1>1, <2>1, KillFramed
<1>7. ASSUME NEW exits \in BOOLEAN, s' = Kill!Succeeded(u(exits)) PROVE KillGood(s')
  BY <1>3, <1>7, KillRecorded DEF Kill!Succeeded
<1> QED BY <1>4, <1>5, <1>6, <1>7

\* Waiting for the exit, the relaunch and the replacement.
LEMMA KillWaitSteps ==
  ASSUME KillGood(s),
         Kill!WaitForProcessIdentityExit \/ Kill!RelaunchApplication \/ Kill!WaitForProcessReplacement
  PROVE  KillGood(s)'
<1>1. DOMAIN s = KillFields /\ "target" \in DOMAIN s.pending /\ "stage" \in DOMAIN s.submit
      /\ KillFrame(s, s)
  BY DEF KillGood, KillFrame
<1>2. CASE Kill!WaitForProcessIdentityExit
  <2>1. CASE s' = [s EXCEPT !.submit.stage = "relaunch"]
    <3>1. /\ KillFrame(s, s') /\ s'.pending = s.pending /\ "stage" \in DOMAIN s'.submit
          /\ s'.submit.stage = "relaunch"
      BY <1>1, <2>1 DEF KillFrame, KillFields
    <3> QED BY <1>1, <3>1, KillFramed
  <2>2. CASE \E status : s' = Kill!EndSubmit(Kill!Record(s, status, FALSE))
    BY <1>1, <2>2, KillRecorded
  <2> QED BY <1>2, <2>1, <2>2 DEF Kill!WaitForProcessIdentityExit, Kill!Succeeded
<1>3. CASE Kill!RelaunchApplication
  <2>1. CASE s' = Kill!ActionFails(s)
    BY <1>1, <2>1, KillFails
  <2>2. CASE s' # Kill!ActionFails(s)
    <3> DEFINE live == IF s.submit.p.target = 1 THEN s.live \cup {3} ELSE s.live
    <3>0. s' = [s EXCEPT !.submit.stage = "replacement", !.live = live]
      BY <1>1, <1>3, <2>2 DEF Kill!RelaunchApplication, KillFields
    <3> HIDE DEF live
    <3>1. /\ KillFrame(s, s') /\ s'.pending = s.pending /\ "stage" \in DOMAIN s'.submit
          /\ s'.submit.stage = "replacement"
      BY <1>1, <3>0 DEF KillFrame, KillFields
    <3> QED BY <1>1, <3>1, KillFramed
  <2> QED BY <2>1, <2>2
<1>4. CASE Kill!WaitForProcessReplacement
  BY <1>1, <1>4, KillRecorded DEF Kill!WaitForProcessReplacement
<1> QED BY <1>2, <1>3, <1>4

\* The page of the processes starts so.
LEMMA KillStarts == ASSUME Kill!Init PROVE KillGood(s)
BY DEF Kill!Init, Kill!None, Kill!NoPending, Kill!Idle, KillGood, KillFields

\* Every step of the page of the processes keeps its invariant.
LEMMA KillSteps == ASSUME KillGood(s), Kill!Next PROVE KillGood(s)'
BY KillSelectionSteps, KillBeginSteps, KillPlainSteps, KillConfirmSteps, KillExecutedStep, KillWaitSteps
   DEF Kill!Next, Kill!AnswerOf, Kill!Operations

\* A dialog not yet confirmed is of the process selected, and the details are
\* of what shows.
LEMMA KillHolds == ASSUME KillGood(s) PROVE Kill!DialogsAreLive
BY DEF KillGood, Kill!DialogsAreLive, Kill!ActiveDetail, Kill!None

-------------------------------------------------------------------------------
(* The local tools: the files of the hash, the tasks, the timer.             *)
(* The digest of a file.                                                     *)

HashFields == {"of", "turns", "mounted", "active", "jobs", "output", "cancels"}
HashStages == {"start", "input", "hash", "finish", "failed", "release", "unconfirmed"}
HashOps == [stage : HashStages, job : Nat, aborted : BOOLEAN, settled : BOOLEAN]
HashStatuses == {"running"} \cup Simple!Over

\* One operation at a time, and a job that is not over is the one it has.
HashGood(t) ==
  /\ DOMAIN t = HashFields /\ t.of = "hash"
  /\ t.jobs \in Seq(HashStatuses) /\ t.active \subseteq HashOps
  /\ \A o, p \in t.active : o = p
  /\ \A o \in t.active : o.stage = "start" => o.job = 0
  /\ \A k \in 1 .. Len(t.jobs) : t.jobs[k] \in Simple!Over \/ \E o \in t.active : o.job = k

\* A step that leaves the jobs and the operation.
LEMMA HashFrame ==
  ASSUME NEW t, HashGood(t), NEW u, DOMAIN u = HashFields, u.of = t.of, u.jobs = t.jobs,
         u.active = t.active
  PROVE  HashGood(u)
BY DEF HashGood

\* The operation goes on with the job it has.
LEMMA HashGoesOn ==
  ASSUME NEW t, HashGood(t), NEW o \in t.active, NEW p \in HashOps, p.job = o.job,
         p.stage = "start" => p.job = 0,
         NEW u, DOMAIN u = HashFields, u.of = t.of, u.jobs = t.jobs, u.active = {p}
  PROVE  HashGood(u)
BY DEF HashGood

\* The operation ends when its job is over, or when it has none.
LEMMA HashOver ==
  ASSUME NEW t, HashGood(t), NEW o \in t.active,
         o.job \in 1 .. Len(t.jobs) => t.jobs[o.job] \in Simple!Over,
         NEW u, DOMAIN u = HashFields, u.of = t.of, u.jobs = t.jobs, u.active = {}
  PROVE  HashGood(u)
BY DEF HashGood

\* A job that ends changes nothing but its status.
LEMMA HashEnded ==
  ASSUME NEW t, HashGood(t), NEW job, NEW status \in Simple!Over
  PROVE  LET u == Simple!Ended(t, job, status)
         IN /\ HashGood(u) /\ DOMAIN u = HashFields /\ u.of = t.of /\ u.active = t.active
            /\ u.cancels = t.cancels /\ u.mounted = t.mounted /\ u.output = t.output
            /\ job \in 1 .. Len(u.jobs) => u.jobs[job] \in Simple!Over
<1> DEFINE u == Simple!Ended(t, job, status)
           new == IF t.jobs[job] \in Simple!Over THEN t.jobs[job] ELSE status
<1>1. /\ DOMAIN t = HashFields /\ t.jobs \in Seq(HashStatuses) /\ DOMAIN t.jobs = 1 .. Len(t.jobs)
      /\ new \in Simple!Over /\ new \in HashStatuses
  BY DEF HashGood, HashStatuses
<1>2. /\ DOMAIN u = HashFields /\ u.of = t.of /\ u.active = t.active /\ u.cancels = t.cancels
      /\ u.mounted = t.mounted /\ u.output = t.output /\ u.jobs = [t.jobs EXCEPT ![job] = new]
  BY <1>1 DEF Simple!Ended, HashFields
<1> HIDE DEF u, new
<1>3. u.jobs \in Seq(HashStatuses) /\ Len(u.jobs) = Len(t.jobs)
  <2>1. CASE job \in 1 .. Len(t.jobs)
    BY <1>1, <1>2, <2>1, ExceptSeq
  <2>2. CASE job \notin 1 .. Len(t.jobs)
    <3>1. u.jobs = t.jobs
      BY <1>1, <1>2, <2>2
    <3> QED BY <1>1, <3>1
  <2> QED BY <2>1, <2>2
<1>4. \A k \in 1 .. Len(t.jobs) : u.jobs[k] = IF k = job THEN new ELSE t.jobs[k]
  BY <1>1, <1>2
<1>5. HashGood(u)
  BY <1>1, <1>2, <1>3, <1>4 DEF HashGood
<1>6. job \in 1 .. Len(u.jobs) => u.jobs[job] \in Simple!Over
  BY <1>1, <1>3, <1>4
<1> QED BY <1>2, <1>5, <1>6 DEF u

\* An operation that settles has its job released, if it got one.
LEMMA HashSettle ==
  ASSUME NEW t, HashGood(t), NEW o \in t.active, NEW p \in HashOps, p.job = o.job
  PROVE  HashGood(Simple!Settle(t, p))
<1> DEFINE u == Simple!Settle(t, p)
           q == [Simple!At(p, "release") EXCEPT !.settled = TRUE]
<1>1. q \in HashOps /\ q.job = p.job /\ q.stage = "release"
  BY DEF Simple!At, HashOps, HashStages
<1>2. DOMAIN u = HashFields /\ u.of = t.of /\ u.jobs = t.jobs /\ u.active = IF p.job = 0 THEN {} ELSE {q}
  BY DEF Simple!Settle, HashGood, HashFields
<1> HIDE DEF q, u
<1>3. CASE p.job = 0
  <2>0. o.job \notin 1 .. Len(t.jobs)
    BY <1>3 DEF HashGood
  <2>1. HashGood(u)
    BY <1>2, <1>3, <2>0, HashOver
  <2> QED BY <2>1 DEF u
<1>4. CASE p.job # 0
  <2>1. HashGood(u)
    BY <1>1, <1>2, <1>4, HashGoesOn
  <2> QED BY <2>1 DEF u
<1> QED BY <1>3, <1>4

\* An operation goes on to another stage.
LEMMA HashAt ==
  ASSUME NEW t, HashGood(t), NEW o \in t.active, NEW stage \in HashStages \ {"start"}
  PROVE  /\ HashGood([t EXCEPT !.active = {Simple!At(o, stage)}])
<1> DEFINE u == [t EXCEPT !.active = {Simple!At(o, stage)}]
           q == Simple!At(o, stage)
<1>1. q \in HashOps /\ q.job = o.job /\ q.stage # "start"
  BY DEF Simple!At, HashOps, HashGood
<1>2. DOMAIN u = HashFields /\ u.of = t.of /\ u.jobs = t.jobs /\ u.active = {q}
  BY DEF HashGood, HashFields
<1> HIDE DEF q, u
<1>3. HashGood(u)
  BY <1>1, <1>2, HashGoesOn
<1> QED BY <1>3 DEF u

\* An operation that fails keeps the invariant, cancelled or not.
LEMMA HashFails ==
  ASSUME NEW t, HashGood(t), NEW o \in t.active
  PROVE  HashGood(Simple!Fails(t, o))
<1>1. o \in HashOps
  BY DEF HashGood
<1>2. HashGood(Simple!Settle(t, o)) /\ HashGood([t EXCEPT !.active = {Simple!At(o, "failed")}])
  BY <1>1, HashSettle, HashAt DEF HashStages
<1> QED BY <1>2 DEF Simple!Fails

\* A step that counts a turn of the user.
LEMMA HashTurn ==
  ASSUME NEW t, HashGood(t) PROVE HashGood(Simple!Turn(t))
<1>1. LET u == Simple!Turn(t)
      IN DOMAIN u = HashFields /\ u.of = t.of /\ u.jobs = t.jobs /\ u.active = t.active
  BY DEF Simple!Turn, HashGood, HashFields
<1> QED BY <1>1, HashFrame

\* Cancelling asks the native side to stop what has begun there.
LEMMA HashCancel ==
  ASSUME NEW t, HashGood(t) PROVE HashGood(Simple!CancelHash(t)) /\ DOMAIN Simple!CancelHash(t) = HashFields
<1> DEFINE u == Simple!CancelHash(t)
<1>1. DOMAIN u = HashFields /\ u.of = t.of /\ u.jobs = t.jobs
      /\ u.active = {[o EXCEPT !.aborted = TRUE] : o \in t.active}
  BY DEF Simple!CancelHash, HashGood, HashFields
<1> HIDE DEF u
<1>2. \A o \in t.active : LET p == [o EXCEPT !.aborted = TRUE]
                          IN p \in HashOps /\ p.job = o.job /\ p.stage = o.stage
  <2> TAKE o \in t.active
  <2>1. o \in HashOps
    BY DEF HashGood
  <2> QED BY <2>1 DEF HashOps
<1> DEFINE a == [o \in t.active |-> [o EXCEPT !.aborted = TRUE]]
<1>3. /\ u.active = {a[o] : o \in t.active}
      /\ \A o \in t.active : a[o] \in HashOps /\ a[o].job = o.job /\ a[o].stage = o.stage
  BY <1>1, <1>2
<1> HIDE DEF a
<1>4. HashGood(u)
  <2>1. u.active \subseteq HashOps /\ \A o, p \in u.active : o = p
    BY <1>3 DEF HashGood
  <2>2. \A o \in u.active : o.stage = "start" => o.job = 0
    BY <1>3 DEF HashGood
  <2>3. \A k \in 1 .. Len(u.jobs) : u.jobs[k] \in Simple!Over \/ \E o \in u.active : o.job = k
    BY <1>1, <1>3 DEF HashGood
  <2> QED BY <1>1, <2>1, <2>2, <2>3 DEF HashGood
<1> QED BY <1>1, <1>4 DEF u

\* What the user does on the page: a new hash, the stop, leaving.
LEMMA HashAsked ==
  ASSUME HashGood(s), Simple!RunHash \/ Simple!StopHash \/ Simple!LeaveHash
  PROVE  HashGood(s)'
<1>1. CASE Simple!RunHash
  <2> DEFINE p == [stage |-> "start", job |-> 0, aborted |-> FALSE, settled |-> FALSE]
             t == [s EXCEPT !.output = 0, !.active = {p}]
  <2>1. s.active = {} /\ s' = Simple!Turn(t)
    BY <1>1 DEF Simple!RunHash
  <2>2. DOMAIN t = HashFields /\ t.of = "hash" /\ t.jobs = s.jobs /\ t.active = {p}
    BY DEF HashGood, HashFields
  <2>3. p \in HashOps /\ p.stage = "start" /\ p.job = 0
    BY DEF HashOps, HashStages
  <2> HIDE DEF p, t
  <2>4. HashGood(t)
    BY <2>1, <2>2, <2>3 DEF HashGood
  <2> QED BY <2>1, <2>4, HashTurn
<1>2. CASE Simple!StopHash
  BY <1>2, HashCancel, HashTurn DEF Simple!StopHash
<1>3. CASE Simple!LeaveHash
  <2> DEFINE t == Simple!CancelHash(s)
             u == [t EXCEPT !.mounted = FALSE, !.output = 0]
  <2>1. HashGood(t) /\ DOMAIN t = HashFields /\ s' = Simple!Turn(u)
    BY <1>3, HashCancel DEF Simple!LeaveHash
  <2> HIDE DEF t
  <2>2. DOMAIN u = HashFields /\ u.of = t.of /\ u.jobs = t.jobs /\ u.active = t.active
    BY <2>1 DEF HashFields
  <2> HIDE DEF u
  <2>3. HashGood(u)
    BY <2>1, <2>2, HashFrame
  <2> QED BY <2>1, <2>3, HashTurn
<1> QED BY <1>1, <1>2, <1>3

\* The session of a hash begins, unless the page was left meanwhile.
LEMMA HashBegins == ASSUME HashGood(s), Simple!SessionStarts PROVE HashGood(s)'
<1>1. PICK o \in s.active :
        /\ o.stage = "start"
        /\ LET job == Len(s.jobs) + 1
               owner == [Simple!At(o, "input") EXCEPT !.job = job]
               t == [s EXCEPT !.jobs = Append(@, "running"), !.active = {owner}]
           IN \/ s' = Simple!Settle(s, o)
              \/ s' = IF o.aborted THEN Simple!Settle(t, owner) ELSE t
  BY DEF Simple!SessionStarts
<1> DEFINE job == Len(s.jobs) + 1
           owner == [Simple!At(o, "input") EXCEPT !.job = job]
           t == [s EXCEPT !.jobs = Append(@, "running"), !.active = {owner}]
<1>2. /\ DOMAIN s = HashFields /\ s.of = "hash" /\ s.jobs \in Seq(HashStatuses) /\ o \in HashOps
      /\ s.active = {o} /\ o.job = 0 /\ Len(s.jobs) \in Nat
  BY <1>1 DEF HashGood
<1>3. s' = Simple!Settle(s, o) \/ s' = IF o.aborted THEN Simple!Settle(t, owner) ELSE t
  BY <1>1
<1>4. owner \in HashOps /\ owner.job = job /\ owner.stage = "input"
  <2>1. Simple!At(o, "input") \in HashOps /\ Simple!At(o, "input").stage = "input" /\ job \in Nat
    BY <1>2 DEF Simple!At, HashOps, HashStages
  <2> QED BY <2>1 DEF HashOps
<1>5. DOMAIN t = HashFields /\ t.of = "hash" /\ t.jobs = Append(s.jobs, "running") /\ t.active = {owner}
  BY <1>2 DEF HashFields
<1> HIDE DEF owner, t
<1>6. /\ t.jobs \in Seq(HashStatuses) /\ Len(t.jobs) = job
      /\ \A k \in 1 .. Len(s.jobs) : t.jobs[k] = s.jobs[k]
  BY <1>2, <1>5 DEF HashStatuses
<1>7. \A k \in 1 .. Len(s.jobs) : s.jobs[k] \in Simple!Over
  BY <1>2 DEF HashGood
<1>8. \A k \in 1 .. Len(t.jobs) : k = job \/ k \in 1 .. Len(s.jobs)
  BY <1>2, <1>6
<1>9. HashGood(t)
  BY <1>4, <1>5, <1>6, <1>7, <1>8 DEF HashGood
<1>10. owner \in t.active
  BY <1>5
<1>11. HashGood(Simple!Settle(t, owner))
  BY <1>4, <1>9, <1>10, HashSettle
<1>12. HashGood(Simple!Settle(s, o))
  BY <1>2, HashSettle
<1> QED BY <1>3, <1>9, <1>11, <1>12

\* The file is chosen and read.
LEMMA HashGoesThrough ==
  ASSUME HashGood(s), Simple!FileIsChosen \/ Simple!FileIsHashed PROVE HashGood(s)'
<1>1. CASE Simple!FileIsChosen
  <2>1. PICK o \in s.active :
          \/ s' = IF o.aborted THEN Simple!Settle(s, o) ELSE [s EXCEPT !.active = {Simple!At(o, "hash")}]
          \/ s' = Simple!Settle(s, [o EXCEPT !.aborted = TRUE])
          \/ s' = Simple!Fails(s, o)
    BY <1>1 DEF Simple!FileIsChosen
  <2>2. o \in HashOps
    BY DEF HashGood
  <2>3. [o EXCEPT !.aborted = TRUE] \in HashOps /\ [o EXCEPT !.aborted = TRUE].job = o.job
    BY <2>2 DEF HashOps
  <2>4. HashGood(Simple!Settle(s, o)) /\ HashGood(Simple!Settle(s, [o EXCEPT !.aborted = TRUE]))
    BY <2>2, <2>3, HashSettle
  <2>5. HashGood([s EXCEPT !.active = {Simple!At(o, "hash")}]) /\ HashGood(Simple!Fails(s, o))
    BY HashAt, HashFails DEF HashStages
  <2> QED BY <2>1, <2>4, <2>5
<1>2. CASE Simple!FileIsHashed
  <2>1. PICK o \in s.active :
          s' \in {IF o.aborted THEN Simple!Settle(s, o) ELSE [s EXCEPT !.active = {Simple!At(o, "finish")}],
                  Simple!Fails(s, o)}
    BY <1>2 DEF Simple!FileIsHashed
  <2>2. o \in HashOps
    BY DEF HashGood
  <2>3. HashGood(Simple!Settle(s, o))
    BY <2>2, HashSettle
  <2>4. HashGood([s EXCEPT !.active = {Simple!At(o, "finish")}]) /\ HashGood(Simple!Fails(s, o))
    BY HashAt, HashFails DEF HashStages
  <2> QED BY <2>1, <2>3, <2>4
<1> QED BY <1>1, <1>2

\* The hash is there, and its job is completed or the operation fails.
LEMMA HashCompletes == ASSUME HashGood(s), Simple!HashFinishes PROVE HashGood(s)'
<1> DEFINE t(o) == Simple!Ended(s, o.job, "completed")
           u(o) == [t(o) EXCEPT !.output = IF s.mounted /\ ~o.aborted THEN o.job ELSE @]
<1>1. PICK o \in s.active :
        \/ s' = Simple!Fails(s, o)
        \/ s' = Simple!Settle(u(o), o)
        \/ s' = Simple!Fails(t(o), o)
  BY DEF Simple!HashFinishes
<1>2. o \in HashOps
  BY DEF HashGood
<1>3. "completed" \in Simple!Over
  BY DEF Simple!Over
<1>4. HashGood(t(o)) /\ DOMAIN t(o) = HashFields /\ t(o).active = s.active
  BY <1>3, HashEnded
<1> DEFINE v == t(o)
           out == IF s.mounted /\ ~o.aborted THEN o.job ELSE v.output
<1>5. u(o) = [v EXCEPT !.output = out]
  BY <1>4 DEF HashFields
<1>6. s' = Simple!Fails(s, o) \/ s' = Simple!Settle([v EXCEPT !.output = out], o) \/ s' = Simple!Fails(v, o)
  BY <1>1, <1>5
<1>7. HashGood(v) /\ DOMAIN v = HashFields /\ v.active = s.active
  BY <1>4
<1> HIDE DEF v, out
<1>8. LET w == [v EXCEPT !.output = out]
      IN DOMAIN w = HashFields /\ w.of = v.of /\ w.jobs = v.jobs /\ w.active = v.active
  BY <1>7 DEF HashFields
<1> DEFINE w == [v EXCEPT !.output = out]
<1> HIDE DEF w
<1>9. HashGood(w) /\ w.active = s.active
  BY <1>7, <1>8, HashFrame DEF w
<1>10. HashGood(Simple!Settle(w, o))
  BY <1>2, <1>9, HashSettle
<1>11. HashGood(Simple!Fails(s, o)) /\ HashGood(Simple!Fails(v, o))
  BY <1>7, HashFails
<1> QED BY <1>6, <1>10, <1>11 DEF w

\* A failure is told to the native side.
LEMMA HashFailureIsTold == ASSUME HashGood(s), Simple!FailureIsTold PROVE HashGood(s)'
<1>1. PICK o \in s.active : s' \in {Simple!Settle(s, o), Simple!Settle(Simple!Ended(s, o.job, "failed"), o)}
  BY DEF Simple!FailureIsTold
<1> DEFINE t == Simple!Ended(s, o.job, "failed")
<1>2. o \in HashOps
  BY DEF HashGood
<1>3. HashGood(t) /\ t.active = s.active
  BY HashEnded DEF Simple!Over
<1>4. s' = Simple!Settle(s, o) \/ s' = Simple!Settle(t, o)
  BY <1>1
<1> HIDE DEF t
<1>5. HashGood(Simple!Settle(s, o)) /\ HashGood(Simple!Settle(t, o))
  BY <1>2, <1>3, HashSettle
<1> QED BY <1>4, <1>5

\* The file of an operation that ended is released.
LEMMA HashIsLetGo == ASSUME HashGood(s), Simple!ReleaseAnswers PROVE HashGood(s)'
<1>1. PICK o \in s.active :
        s' \in {Simple!Released(Simple!Ended(s, o.job, "cancelled"), o, TRUE), Simple!Released(s, o, FALSE)}
  BY DEF Simple!ReleaseAnswers
<1> DEFINE t == Simple!Ended(s, o.job, "cancelled")
<1>2. o \in HashOps
  BY DEF HashGood
<1>3. HashGood(t) /\ t.active = s.active /\ (o.job \in 1 .. Len(t.jobs) => t.jobs[o.job] \in Simple!Over)
  BY HashEnded DEF Simple!Over
<1>4. s' = Simple!Released(t, o, TRUE) \/ s' = Simple!Released(s, o, FALSE)
  BY <1>1
<1> HIDE DEF t
<1>5. CASE s' = Simple!Released(t, o, TRUE)
  <2>1. DOMAIN s' = HashFields /\ s'.of = t.of /\ s'.jobs = t.jobs /\ s'.active = {}
    BY <1>3, <1>5 DEF Simple!Released, HashGood, HashFields
  <2> QED BY <1>3, <2>1, HashOver
<1>6. CASE s' = Simple!Released(s, o, FALSE)
  <2> DEFINE p == Simple!At(o, "unconfirmed")
  <2>1. p \in HashOps /\ p.job = o.job /\ p.stage = "unconfirmed"
    BY <1>2 DEF Simple!At, HashOps, HashStages
  <2>2. DOMAIN s' = HashFields /\ s'.of = s.of /\ s'.jobs = s.jobs /\ s'.active = {p}
    BY <1>6 DEF Simple!Released, HashGood, HashFields
  <2> HIDE DEF p
  <2> QED BY <2>1, <2>2, HashGoesOn
<1> QED BY <1>4, <1>5, <1>6

\* The native side answers that it stopped.
LEMMA HashCancelAnswers ==
  ASSUME HashGood(s), NEW job \in s.cancels, Simple!CancelAnswers(job) PROVE HashGood(s)'
<1> DEFINE e == Simple!Ended(s, job, "cancelled")
           t == [e EXCEPT !.cancels = @ \ {job}]
           mine == {o \in s.active : o.job = job /\ o.settled}
<1>1. \/ s' = IF mine = {} THEN t ELSE [t EXCEPT !.active = {}]
      \/ s' = [s EXCEPT !.cancels = @ \ {job}]
  BY DEF Simple!CancelAnswers
<1>2. /\ HashGood(e) /\ DOMAIN e = HashFields /\ e.active = s.active
      /\ job \in 1 .. Len(e.jobs) => e.jobs[job] \in Simple!Over
  BY HashEnded DEF Simple!Over
<1> HIDE DEF e
<1>3. DOMAIN t = HashFields /\ t.of = e.of /\ t.jobs = e.jobs /\ t.active = e.active
  BY <1>2 DEF HashFields
<1> HIDE DEF t
<1>4. HashGood(t)
  BY <1>2, <1>3, HashFrame
<1>5. CASE s' = t
  BY <1>4, <1>5
<1>6. CASE mine # {} /\ s' = [t EXCEPT !.active = {}]
  <2>1. PICK o \in t.active : o.job = job
    BY <1>2, <1>3, <1>6
  <2>2. DOMAIN s' = HashFields /\ s'.of = t.of /\ s'.jobs = t.jobs /\ s'.active = {}
    BY <1>3, <1>6 DEF HashFields
  <2> QED BY <1>2, <1>3, <1>4, <2>1, <2>2, HashOver
<1>7. CASE s' = [s EXCEPT !.cancels = @ \ {job}]
  <2>1. DOMAIN s' = HashFields /\ s'.of = s.of /\ s'.jobs = s.jobs /\ s'.active = s.active
    BY <1>7 DEF HashGood, HashFields
  <2> QED BY <2>1, HashFrame
<1> QED BY <1>1, <1>5, <1>6, <1>7

\* Every step of the hash keeps its invariant.
LEMMA HashSteps == ASSUME HashGood(s), Simple!HashNext PROVE HashGood(s)'
BY HashAsked, HashBegins, HashGoesThrough, HashCompletes, HashFailureIsTold, HashIsLetGo, HashCancelAnswers
   DEF Simple!HashNext

\* When no hash is under way, every job of one is over.
LEMMA HashHolds == ASSUME HashGood(s) PROVE Simple!HashIsReleased
BY DEF HashGood, Simple!HashIsReleased

-------------------------------------------------------------------------------
(* Keeping the computer awake.                                               *)

TaskFields ==
  {"of", "turns", "mounted", "lease", "shown", "asked", "running", "target", "watch", "watches", "refused"}
Commands == {"start", "cancel", "retry", "watch", "unwatch", "read", "watches"}

\* The lease is begun by nothing that is asked from i on.
NoStart(q, i) == \A k \in i .. Len(q) : q[k] # "start"
\* The lease ends, once what is asked is done.
LeaseEnds(t) ==
  \/ t.lease # "active" /\ NoStart(t.asked, 1)
  \/ \E i \in 1 .. Len(t.asked) : t.asked[i] = "cancel" /\ NoStart(t.asked, i + 1)

\* A page that is gone has asked for the end of its lease last.
TasksGood(t) ==
  /\ DOMAIN t = TaskFields /\ t.of = "tasks"
  /\ t.asked \in Seq(Commands)
  /\ ~t.mounted /\ ~t.refused => LeaseEnds(t)

\* A step that leaves what is asked, and begins no lease.
LEMMA TasksFrame ==
  ASSUME NEW t, TasksGood(t), NEW u, DOMAIN u = TaskFields, u.of = t.of, u.asked = t.asked,
         u.mounted = t.mounted, u.refused = t.refused, u.lease = t.lease \/ u.lease # "active"
  PROVE  TasksGood(u)
BY DEF TasksGood, LeaseEnds

\* One more command, of a page that is there or one that begins no lease.
LEMMA TasksAsk ==
  ASSUME NEW t, TasksGood(t), NEW c \in Commands, c # "start" \/ t.mounted,
         NEW u, DOMAIN u = TaskFields, u.of = t.of, u.asked = t.asked \o <<c>>,
         u.mounted = t.mounted, u.refused = t.refused, u.lease = t.lease
  PROVE  TasksGood(u)
<1>1. t.asked \in Seq(Commands) /\ Len(t.asked) \in Nat
  BY DEF TasksGood
<1>2. /\ u.asked \in Seq(Commands) /\ Len(u.asked) = Len(t.asked) + 1
      /\ \A k \in 1 .. Len(t.asked) : u.asked[k] = t.asked[k]
      /\ u.asked[Len(t.asked) + 1] = c
  BY <1>1
<1>3. ASSUME ~t.mounted, LeaseEnds(t) PROVE LeaseEnds(u)
  <2>1. ASSUME NEW i \in Nat \ {0}, NoStart(t.asked, i) PROVE NoStart(u.asked, i)
    <3> SUFFICES ASSUME NEW k \in i .. Len(u.asked) PROVE u.asked[k] # "start"
      BY DEF NoStart
    <3>1. k = Len(t.asked) + 1 \/ k \in i .. Len(t.asked)
      BY <1>1, <1>2
    <3>2. k \in i .. Len(t.asked) => k \in 1 .. Len(t.asked)
      BY <1>1
    <3> QED BY <1>2, <1>3, <2>1, <3>1, <3>2 DEF NoStart
  <2>2. CASE t.lease # "active" /\ NoStart(t.asked, 1)
    BY <2>1, <2>2 DEF LeaseEnds
  <2>3. CASE \E i \in 1 .. Len(t.asked) : t.asked[i] = "cancel" /\ NoStart(t.asked, i + 1)
    <3>1. PICK i \in 1 .. Len(t.asked) : t.asked[i] = "cancel" /\ NoStart(t.asked, i + 1)
      BY <2>3
    <3>2. i + 1 \in Nat \ {0} /\ i \in 1 .. Len(u.asked)
      BY <1>1, <1>2
    <3> QED BY <1>2, <2>1, <3>1, <3>2 DEF LeaseEnds
  <2> QED BY <1>3, <2>2, <2>3 DEF LeaseEnds
<1> QED BY <1>2, <1>3 DEF TasksGood

\* A turn of the user changes no lease.
LEMMA TasksTurn == ASSUME NEW t, TasksGood(t) PROVE TasksGood(Simple!Turn(t))
<1>1. LET u == Simple!Turn(t)
      IN DOMAIN u = TaskFields /\ u.of = t.of /\ u.asked = t.asked
         /\ u.mounted = t.mounted /\ u.refused = t.refused /\ u.lease = t.lease
  BY DEF Simple!Turn, TasksGood, TaskFields
<1> QED BY <1>1, TasksFrame

\* An action asks for one command more.
LEMMA TasksAct ==
  ASSUME TasksGood(s), NEW c \in Commands, Simple!Act(<<c>>) PROVE TasksGood(s)'
<1> DEFINE t == [Simple!Ask(s, <<c>>) EXCEPT !.running = TRUE]
<1>1. s' = Simple!Turn(t) /\ s.mounted
  BY DEF Simple!Act
<1>2. DOMAIN t = TaskFields /\ t.of = s.of /\ t.asked = s.asked \o <<c>>
      /\ t.mounted = s.mounted /\ t.refused = s.refused /\ t.lease = s.lease
  BY DEF Simple!Ask, TasksGood, TaskFields
<1> HIDE DEF t
<1>3. TasksGood(t)
  BY <1>1, <1>2, TasksAsk
<1> QED BY <1>1, <1>3, TasksTurn

\* What the user does on the page of the tasks.
LEMMA TasksUserSteps ==
  ASSUME TasksGood(s),
         \/ Simple!StartKeepAwake \/ Simple!StopKeepAwake \/ Simple!RetryRelease \/ Simple!PickTarget
         \/ Simple!StartWatch \/ Simple!CancelWatch
  PROVE  TasksGood(s)'
<1>1. CASE Simple!PickTarget
  <2> DEFINE t == [s EXCEPT !.target = TRUE]
  <2>1. DOMAIN t = TaskFields /\ t.of = s.of /\ t.asked = s.asked
        /\ t.mounted = s.mounted /\ t.refused = s.refused /\ t.lease = s.lease
    BY DEF TasksGood, TaskFields
  <2>2. s' = Simple!Turn(t)
    BY <1>1 DEF Simple!PickTarget
  <2> HIDE DEF t
  <2>3. TasksGood(t)
    BY <2>1, TasksFrame
  <2> QED BY <2>2, <2>3, TasksTurn
<1>2. CASE \E c \in Commands : Simple!Act(<<c>>)
  BY <1>2, TasksAct
<1> QED
  BY <1>1, <1>2 DEF Simple!StartKeepAwake, Simple!StopKeepAwake, Simple!RetryRelease,
                    Simple!StartWatch, Simple!CancelWatch, Commands

\* Leaving the page ends its leases.
LEMMA TasksLeave == ASSUME TasksGood(s), Simple!LeaveTask PROVE TasksGood(s)'
<1> DEFINE t == Simple!LeaveKeepAwake(s)
           u == [t EXCEPT !.mounted = FALSE, !.shown = "none", !.watches = "none"]
<1>1. s' = Simple!Turn(u)
  BY DEF Simple!LeaveTask
<1>2. DOMAIN t = TaskFields /\ t.of = "tasks" /\ t.asked = s.asked \o <<"cancel">>
  BY DEF Simple!LeaveKeepAwake, Simple!Ask, TasksGood, TaskFields
<1> HIDE DEF t
<1>3. DOMAIN u = TaskFields /\ u.of = "tasks" /\ u.asked = t.asked
  BY <1>2 DEF TaskFields
<1> HIDE DEF u
<1>4. s.asked \in Seq(Commands) /\ Len(s.asked) \in Nat
  BY DEF TasksGood
<1>5. u.asked \in Seq(Commands) /\ Len(u.asked) = Len(s.asked) + 1 /\ u.asked[Len(s.asked) + 1] = "cancel"
  BY <1>2, <1>3, <1>4 DEF Commands
<1>6. NoStart(u.asked, Len(s.asked) + 1 + 1) /\ Len(s.asked) + 1 \in 1 .. Len(u.asked)
  BY <1>4, <1>5 DEF NoStart
<1>7. TasksGood(u)
  BY <1>3, <1>5, <1>6 DEF TasksGood, LeaseEnds
<1> QED BY <1>1, <1>7, TasksTurn

\* A task ends by itself.
LEMMA TasksEnd == ASSUME TasksGood(s), Simple!TaskEnds PROVE TasksGood(s)'
<1> DEFINE told(t) == IF t.mounted THEN Simple!Ask(t, <<"read", "watches">>) ELSE t
<1>1. ASSUME NEW t, TasksGood(t) PROVE TasksGood(Simple!Turn(told(t)))
  <2>1. TasksGood(told(t))
    <3>1. CASE t.mounted
      <4> DEFINE two == <<"read", "watches">>
                 a == Simple!Ask(t, two)
      <4>0. two \in Seq(Commands)
        BY DEF Commands
      <4> HIDE DEF two
      <4>1. /\ DOMAIN a = TaskFields /\ a.of = "tasks" /\ a.mounted = t.mounted
            /\ a.asked = t.asked \o two
        BY <1>1 DEF Simple!Ask, TasksGood, TaskFields
      <4> HIDE DEF a
      <4>2. t.asked \in Seq(Commands)
        BY <1>1 DEF TasksGood
      <4>3. a.asked \in Seq(Commands)
        BY <4>0, <4>1, <4>2, ConcatProperties
      <4>4. TasksGood(a)
        BY <3>1, <4>1, <4>3 DEF TasksGood
      <4> QED BY <3>1, <4>4 DEF a, two
    <3>2. CASE ~t.mounted
      BY <1>1, <3>2
    <3> QED BY <3>1, <3>2
  <2> HIDE DEF told
  <2> QED BY <2>1, TasksTurn
<1>2. \/ \E end \in {"idle", "release_unconfirmed"} : s' = Simple!Turn(told([s EXCEPT !.lease = end]))
      \/ s' = Simple!Turn(told([s EXCEPT !.watch = "ended"]))
  BY DEF Simple!TaskEnds
<1> HIDE DEF told
<1>3. ASSUME NEW end \in {"idle", "release_unconfirmed"} PROVE TasksGood([s EXCEPT !.lease = end])
  <2> DEFINE u == [s EXCEPT !.lease = end]
  <2>1. DOMAIN u = TaskFields /\ u.of = s.of /\ u.asked = s.asked
        /\ u.mounted = s.mounted /\ u.refused = s.refused /\ u.lease # "active"
    BY DEF TasksGood, TaskFields
  <2> HIDE DEF u
  <2>2. TasksGood(u)
    BY <2>1, TasksFrame
  <2> QED BY <2>2 DEF u
<1>4. TasksGood([s EXCEPT !.watch = "ended"])
  <2> DEFINE u == [s EXCEPT !.watch = "ended"]
  <2>1. DOMAIN u = TaskFields /\ u.of = s.of /\ u.asked = s.asked
        /\ u.mounted = s.mounted /\ u.refused = s.refused /\ u.lease = s.lease
    BY DEF TasksGood, TaskFields
  <2> HIDE DEF u
  <2>2. TasksGood(u)
    BY <2>1, TasksFrame
  <2> QED BY <2>2 DEF u
<1> QED BY <1>1, <1>2, <1>3, <1>4

\* The first command is done: the lease is that it leaves.
LEMMA TasksDone ==
  ASSUME TasksGood(s), s.asked # <<>>,
         NEW u, DOMAIN u = TaskFields, u.of = s.of, u.asked = Tail(s.asked), u.mounted = s.mounted,
         \/ u.lease \in Simple!LeaseAfter(Head(s.asked)) /\ u.refused = s.refused
         \/ u.lease = s.lease /\ u.refused = (s.refused \/ Head(s.asked) = "cancel")
  PROVE  TasksGood(u)
<1>1. /\ s.asked \in Seq(Commands) /\ Len(s.asked) \in Nat /\ Len(s.asked) # 0
  BY DEF TasksGood
<1>2. /\ u.asked \in Seq(Commands) /\ Len(u.asked) = Len(s.asked) - 1
      /\ \A k \in 1 .. Len(u.asked) : u.asked[k] = s.asked[k + 1]
      /\ Head(s.asked) = s.asked[1]
  BY <1>1
<1>3. ASSUME ~s.mounted, ~u.refused PROVE LeaseEnds(u)
  <2>1. ~s.refused
    BY <1>3
  <2>2. ASSUME NEW i \in Nat \ {0}, NoStart(s.asked, i + 1) PROVE NoStart(u.asked, i)
    <3> SUFFICES ASSUME NEW k \in i .. Len(u.asked) PROVE u.asked[k] # "start"
      BY DEF NoStart
    <3>1. k \in 1 .. Len(u.asked) /\ k + 1 \in (i + 1) .. Len(s.asked)
      BY <1>1, <1>2
    <3> QED BY <1>2, <2>2, <3>1 DEF NoStart
  <2>3. CASE s.lease # "active" /\ NoStart(s.asked, 1)
    <3>1. Head(s.asked) # "start" /\ NoStart(s.asked, 1 + 1)
      BY <1>1, <1>2, <2>3 DEF NoStart
    <3>2. u.lease # "active"
      BY <2>3, <3>1 DEF Simple!LeaseAfter
    <3>3. NoStart(u.asked, 1)
      BY <2>2, <3>1
    <3> QED BY <3>2, <3>3 DEF LeaseEnds
  <2>4. CASE \E i \in 1 .. Len(s.asked) : s.asked[i] = "cancel" /\ NoStart(s.asked, i + 1)
    <3>1. PICK i \in 1 .. Len(s.asked) : s.asked[i] = "cancel" /\ NoStart(s.asked, i + 1)
      BY <2>4
    <3>2. CASE i = 1
      <4>1. u.lease \in Simple!LeaseAfter("cancel")
        BY <1>2, <1>3, <3>1, <3>2
      <4>2. u.lease # "active"
        BY <4>1 DEF Simple!LeaseAfter
      <4>3. NoStart(u.asked, 1)
        BY <2>2, <3>1, <3>2
      <4> QED BY <4>2, <4>3 DEF LeaseEnds
    <3>3. CASE i # 1
      <4>1. i - 1 \in Nat \ {0} /\ i - 1 \in 1 .. Len(u.asked) /\ (i - 1) + 1 = i
        BY <1>1, <1>2, <3>3
      <4>2. u.asked[i - 1] = "cancel"
        BY <1>2, <3>1, <4>1
      <4>3. NoStart(s.asked, ((i - 1) + 1) + 1)
        BY <3>1, <4>1
      <4>4. NoStart(u.asked, (i - 1) + 1)
        BY <2>2, <4>1, <4>3
      <4> QED BY <4>1, <4>2, <4>4 DEF LeaseEnds
    <3> QED BY <3>2, <3>3
  <2> QED BY <1>3, <2>1, <2>3, <2>4 DEF TasksGood, LeaseEnds
<1> QED BY <1>2, <1>3 DEF TasksGood

\* The native side answers the first command.
LEMMA TasksAnswers == ASSUME TasksGood(s), Simple!TaskAnswers PROVE TasksGood(s)'
<1> DEFINE command == Head(s.asked)
           running == IF command \in {"read", "watches"} THEN s.running ELSE FALSE
           t == [s EXCEPT !.asked = Tail(@), !.running = running]
           show(u) == IF u.mounted THEN [u EXCEPT !.shown = u.lease] ELSE u
<1>0. DOMAIN s = TaskFields /\ s.of = "tasks"
  BY DEF TasksGood
<1>1. s.asked # <<>>
  BY DEF Simple!TaskAnswers
<1>2. \/ s' = [t EXCEPT !.refused = @ \/ command = "cancel"]
      \/ /\ command \in {"start", "cancel", "retry", "read"}
         /\ \E lease \in Simple!LeaseAfter(command) : s' = show([t EXCEPT !.lease = lease])
      \/ /\ command = "watch"
         /\ s' = [Simple!Ask(t, <<"watches">>) EXCEPT !.watch = "running", !.target = FALSE]
      \/ /\ command = "unwatch"
         /\ s' = [Simple!Ask(t, <<"watches">>) EXCEPT !.watch = IF @ = "running" THEN "ended" ELSE @]
      \/ /\ command = "watches"
         /\ s' = IF t.mounted THEN [t EXCEPT !.watches = t.watch] ELSE t
  BY DEF Simple!TaskAnswers
<1> HIDE DEF command, running
<1>3. /\ DOMAIN t = TaskFields /\ t.of = s.of /\ t.asked = Tail(s.asked) /\ t.mounted = s.mounted
      /\ t.refused = s.refused /\ t.lease = s.lease
  BY <1>0 DEF TaskFields
<1> HIDE DEF t
<1>4. CASE s' = [t EXCEPT !.refused = @ \/ command = "cancel"]
  <2>1. /\ DOMAIN s' = TaskFields /\ s'.of = s.of /\ s'.asked = Tail(s.asked) /\ s'.mounted = s.mounted
        /\ s'.refused = (s.refused \/ command = "cancel") /\ s'.lease = s.lease
    BY <1>3, <1>4 DEF TaskFields
  <2> QED BY <1>1, <2>1, TasksDone DEF command
<1>5. ASSUME NEW lease \in Simple!LeaseAfter(command), s' = show([t EXCEPT !.lease = lease])
      PROVE  TasksGood(s')
  <2>1. /\ DOMAIN s' = TaskFields /\ s'.of = s.of /\ s'.asked = Tail(s.asked) /\ s'.mounted = s.mounted
        /\ s'.refused = s.refused /\ s'.lease = lease
    BY <1>3, <1>5 DEF TaskFields
  <2> QED BY <1>1, <2>1, TasksDone DEF command
<1>6. ASSUME command \in {"watch", "unwatch", "watches"} PROVE TasksGood(t)
  <2>1. Simple!LeaseAfter(command) = {s.lease}
    BY <1>6 DEF Simple!LeaseAfter
  <2> QED BY <1>1, <1>3, <2>1, TasksDone DEF command
<1> DEFINE a == Simple!Ask(t, <<"watches">>)
<1>7. /\ DOMAIN a = TaskFields /\ a.of = t.of /\ a.asked = t.asked \o <<"watches">>
      /\ a.mounted = t.mounted /\ a.refused = t.refused /\ a.lease = t.lease
  BY <1>3 DEF Simple!Ask, TaskFields
<1> HIDE DEF a
<1>8. ASSUME command \in {"watch", "unwatch", "watches"} PROVE TasksGood(a)
  BY <1>6, <1>7, <1>8, TasksAsk DEF Commands
<1> DEFINE watch == IF a.watch = "running" THEN "ended" ELSE a.watch
<1>9. CASE command = "watch" /\ s' = [a EXCEPT !.watch = "running", !.target = FALSE]
  <2>1. /\ DOMAIN s' = TaskFields /\ s'.of = a.of /\ s'.asked = a.asked /\ s'.mounted = a.mounted
        /\ s'.refused = a.refused /\ s'.lease = a.lease
    BY <1>7, <1>9 DEF TaskFields
  <2> QED BY <1>8, <1>9, <2>1, TasksFrame
<1>10. CASE command = "unwatch" /\ s' = [a EXCEPT !.watch = watch]
  <2> HIDE DEF watch
  <2>1. /\ DOMAIN s' = TaskFields /\ s'.of = a.of /\ s'.asked = a.asked /\ s'.mounted = a.mounted
        /\ s'.refused = a.refused /\ s'.lease = a.lease
    BY <1>7, <1>10 DEF TaskFields
  <2> QED BY <1>8, <1>10, <2>1, TasksFrame
<1>11. CASE command = "watches" /\ s' = IF t.mounted THEN [t EXCEPT !.watches = t.watch] ELSE t
  <2>1. /\ DOMAIN s' = TaskFields /\ s'.of = t.of /\ s'.asked = t.asked /\ s'.mounted = t.mounted
        /\ s'.refused = t.refused /\ s'.lease = t.lease
    BY <1>3, <1>11 DEF TaskFields
  <2> QED BY <1>6, <1>11, <2>1, TasksFrame
<1>12. [a EXCEPT !.watch = IF @ = "running" THEN "ended" ELSE @] = [a EXCEPT !.watch = watch]
  BY <1>7 DEF TaskFields
<1> HIDE DEF watch, show
<1> QED BY <1>2, <1>4, <1>5, <1>9, <1>10, <1>11, <1>12 DEF a

\* Every step of the tasks keeps their invariant.
LEMMA TasksSteps == ASSUME TasksGood(s), Simple!TasksNext PROVE TasksGood(s)'
BY TasksUserSteps, TasksLeave, TasksEnd, TasksAnswers DEF Simple!TasksNext

\* No lease outlives the page that took it.
LEMMA TasksHold == ASSUME TasksGood(s) PROVE Simple!LeaseEndsWithPage
<1>1. s.asked = <<>> => Len(s.asked) = 0
  OBVIOUS
<1> QED BY <1>1 DEF TasksGood, LeaseEnds, Simple!LeaseEndsWithPage

-------------------------------------------------------------------------------
(* The other tools keep being what they are.                                 *)

Kept(t, u) == DOMAIN u = DOMAIN t /\ u.of = t.of

\* A turn of the user leaves what the other tools do alone.
LEMMA KeptTurn == ASSUME NEW t, "of" \in DOMAIN t PROVE Kept(t, Simple!Turn(t))
BY DEF Simple!Turn, Kept

\* So does a turn that follows another change.
LEMMA KeptTurned ==
  ASSUME NEW t, "of" \in DOMAIN t, NEW u, Kept(t, u) PROVE Kept(t, Simple!Turn(u))
BY KeptTurn DEF Kept

\* Taking values from an answer leaves the other tools alone.
LEMMA KeptValues ==
  ASSUME NEW t, "of" \in DOMAIN t, NEW epoch, NEW u, Kept(t, u)
  PROVE  Kept(t, Simple!SetValues(t, epoch, u))
BY DEF Simple!SetValues, Kept

\* The steps of the text tools leave the other tools alone.
LEMMA TextKept == ASSUME "of" \in DOMAIN s, Simple!TextNext PROVE Kept(s, s')
<1>1. ASSUME NEW tool, Simple!OpenTool(tool) PROVE Kept(s, s')
  BY <1>1 DEF Simple!OpenTool, Kept
<1>2. ASSUME NEW i, Simple!EditInput(i) PROVE Kept(s, s')
  <2>1. Kept(s, [s EXCEPT !.input = i, !.edits = @ + 1])
    BY DEF Kept
  <2>2. Kept(s, Simple!SetValues(s, s.epoch, [s EXCEPT !.input = i, !.edits = @ + 1]))
    BY <2>1, KeptValues
  <2> QED BY <1>2, <2>2, KeptTurned DEF Simple!EditInput
<1>3. ASSUME NEW i, Simple!RunForChat(i) PROVE Kept(s, s')
  <2> DEFINE jobs == s.jobs \cup {[Simple!Job(s, i) EXCEPT !.own = FALSE, !.put = TRUE]}
             u == [s EXCEPT !.jobs = jobs]
  <2>1. s' = Simple!Turn(u)
    BY <1>3 DEF Simple!RunForChat
  <2> HIDE DEF jobs
  <2>2. Kept(s, u)
    BY DEF Kept
  <2> QED BY <2>1, <2>2, KeptTurned
<1>4. CASE Simple!RunNow
  <2>1. PICK fine \in BOOLEAN :
          s' = Simple!Turn(Simple!SetValues(s, s.epoch, IF fine THEN [s EXCEPT !.output = s.input, !.error = 0]
                                                        ELSE [s EXCEPT !.error = s.input]))
    BY <1>4 DEF Simple!RunNow
  <2> DEFINE u == IF fine THEN [s EXCEPT !.output = s.input, !.error = 0] ELSE [s EXCEPT !.error = s.input]
  <2>2. Kept(s, u)
    BY DEF Kept
  <2>3. s' = Simple!Turn(Simple!SetValues(s, s.epoch, u))
    BY <2>1
  <2> HIDE DEF u
  <2>4. Kept(s, Simple!SetValues(s, s.epoch, u))
    BY <2>2, KeptValues
  <2> QED BY <2>3, <2>4, KeptTurned
<1>5. CASE Simple!RunRegex
  <2> DEFINE t == Simple!SetValues(s, s.epoch, [s EXCEPT !.error = 0])
             jobs == t.jobs \cup {Simple!Job(t, s.input)}
             u == [t EXCEPT !.jobs = jobs]
  <2>1. s' = Simple!Turn([t EXCEPT !.jobs = @ \cup {Simple!Job(t, s.input)}])
    BY <1>5 DEF Simple!RunRegex
  <2>2. Kept(s, [s EXCEPT !.error = 0])
    BY DEF Kept
  <2>3. Kept(s, t)
    BY <2>2, KeptValues
  <2> HIDE DEF t
  <2>4. Kept(s, [t EXCEPT !.jobs = @ \cup {Simple!Job(t, s.input)}])
    BY <2>3 DEF Kept
  <2> QED BY <2>1, <2>4, KeptTurned
<1>6. CASE Simple!RunDigest
  <2>1. Kept(s, [s EXCEPT !.jobs = Simple!Superseded(@) \cup {Simple!Job(s, s.input)}])
    BY DEF Kept
  <2> QED BY <1>6, <2>1, KeptTurned DEF Simple!RunDigest
<1>7. CASE Simple!ClearPage
  <2> DEFINE jobs == IF s.tool \in {"text-sha256", "qr-code"} THEN Simple!Superseded(s.jobs) ELSE s.jobs
             gone == IF s.tool = "regex" THEN [s EXCEPT !.output = 0]
                     ELSE [s EXCEPT !.input = 0, !.output = 0, !.edits = @ + 1]
             u == [gone EXCEPT !.jobs = jobs]
  <2>1. s' = Simple!Turn(Simple!SetValues(s, s.epoch, u))
    BY <1>7 DEF Simple!ClearPage
  <2>2. Kept(s, gone)
    BY DEF Kept
  <2> HIDE DEF jobs, gone
  <2>3. Kept(s, u)
    BY <2>2 DEF Kept
  <2> HIDE DEF u
  <2>4. Kept(s, Simple!SetValues(s, s.epoch, u))
    BY <2>3, KeptValues
  <2> QED BY <2>1, <2>4, KeptTurned
<1>8. CASE Simple!ClearSharedToolState
  <2>1. Kept(s, [s EXCEPT !.epoch = @ + 1, !.input = 0, !.output = 0, !.error = 0, !.clears = @ + 1])
    BY DEF Kept
  <2> QED BY <1>8, <2>1, KeptTurned DEF Simple!ClearSharedToolState
<1>9. CASE Simple!LeaveText
  <2>1. Kept(s, [s EXCEPT !.mounted = FALSE, !.jobs = {[j EXCEPT !.own = FALSE] : j \in @}])
    BY DEF Kept
  <2> QED BY <1>9, <2>1, KeptTurned DEF Simple!LeaveText
<1>10. CASE Simple!EnterText
  BY <1>10 DEF Simple!EnterText, Kept
<1>11. ASSUME NEW j \in s.jobs, Simple!JobAnswers(j) PROVE Kept(s, s')
  <2> DEFINE t == [s EXCEPT !.jobs = @ \ {j}]
  <2>1. \/ s' = Simple!PublishToolValues(t, j) \/ s' = t
        \/ s' = Simple!SetValues(t, j.epoch, [t EXCEPT !.error = j.of])
    BY <1>11 DEF Simple!JobAnswers
  <2>2. Kept(s, t)
    BY DEF Kept
  <2> HIDE DEF t
  <2>3. "of" \in DOMAIN t /\ Kept(t, [t EXCEPT !.error = j.of])
    BY <2>2 DEF Kept
  <2>4. Kept(t, Simple!SetValues(t, j.epoch, [t EXCEPT !.error = j.of]))
    BY <2>3, KeptValues
  <2> DEFINE input == IF j.put THEN j.of ELSE t.input
             p == [t EXCEPT !.output = j.of, !.error = 0, !.input = IF j.put THEN j.of ELSE @,
                            !.revision = @ + 1]
  <2>5. DOMAIN p = DOMAIN t /\ p.of = t.of
    BY <2>3
  <2>6. Kept(t, Simple!PublishToolValues(t, j))
    BY <2>5 DEF Simple!PublishToolValues, Kept
  <2> QED BY <2>1, <2>2, <2>4, <2>6 DEF Kept
<1> QED BY <1>1, <1>2, <1>3, <1>4, <1>5, <1>6, <1>7, <1>8, <1>9, <1>10, <1>11 DEF Simple!TextNext

\* A button of the rules leaves the other tools alone.
LEMMA KeptPress ==
  ASSUME "of" \in DOMAIN s, NEW key, NEW expected, Simple!Press(key, expected) PROVE Kept(s, s')
<1> DEFINE kept == Simple!AlreadyAsked(s, key)
           request == IF kept # {} THEN CHOOSE p \in kept : TRUE
                      ELSE [key |-> key, id |-> s.asked + 1, expected |-> expected]
           pending == Simple!Without(s.pending, key) \cup {request}
           asked == IF kept = {} THEN s.asked + 1 ELSE s.asked
           made == IF kept = {} THEN {m \in s.made : m.key # key} ELSE s.made
           calls == s.calls \cup {[request |-> request, to |-> "page", map |-> {},
                                   answer |-> "none", snap |-> Simple!NoRules]}
           u == [s EXCEPT !.asked = IF kept = {} THEN @ + 1 ELSE @,
                          !.pending = pending, !.saved = pending,
                          !.made = IF kept = {} THEN {m \in @ : m.key # key} ELSE @,
                          !.calls = @ \cup {[request |-> request, to |-> "page", map |-> {},
                                             answer |-> "none", snap |-> Simple!NoRules]}]
<1>1. s' = Simple!Turn(u)
  BY DEF Simple!Press
<1> HIDE DEF kept, request, pending
<1>2. DOMAIN u = DOMAIN s /\ u.of = s.of
  OBVIOUS
<1> HIDE DEF u
<1> QED BY <1>1, <1>2, KeptTurned DEF Kept

\* A request that is applied leaves the other tools alone.
LEMMA KeptApplied ==
  ASSUME NEW t, "of" \in DOMAIN t, NEW request PROVE Kept(t, Simple!Applied(t, request))
<1> DEFINE u == Simple!Applied(t, request)
<1>1. CASE request.key.op = "create"
  <2>1. DOMAIN u = DOMAIN t /\ u.of = t.of
    BY <1>1 DEF Simple!Applied
  <2> QED BY <2>1 DEF Kept
<1>2. CASE request.key.op = "delete"
  <2>1. DOMAIN u = DOMAIN t /\ u.of = t.of
    BY <1>2 DEF Simple!Applied
  <2> QED BY <2>1 DEF Kept
<1>3. CASE request.key.op \notin {"create", "delete"}
  <2>1. DOMAIN u = DOMAIN t /\ u.of = t.of
    BY <1>3 DEF Simple!Applied
  <2> QED BY <2>1 DEF Kept
<1> QED BY <1>1, <1>2, <1>3

\* An answer about the rules leaves the other tools alone.
LEMMA KeptAnswered ==
  ASSUME NEW t, "of" \in DOMAIN t, NEW c, NEW answer, NEW snap
  PROVE  Kept(t, Simple!Answered(t, c, answer, snap))
BY DEF Simple!Answered, Kept

\* The native side serves a call about the rules.
LEMMA KeptServe == ASSUME "of" \in DOMAIN s, NEW c, Simple!Serve(c) PROVE Kept(s, s')
<1> DEFINE request == c.request
           t == Simple!Applied(s, request)
           written == [t EXCEPT !.receipts = Simple!Retained(Append(@, [id |-> request.id, epoch |-> s.epoch,
                                                                        snap |-> Simple!Snapshot(t)]))]
<1>1. \E v \in {s, written} : \E answer, snap : s' = Simple!Answered(v, c, answer, snap)
  BY DEF Simple!Serve
<1>2. Kept(s, t)
  BY KeptApplied
<1> HIDE DEF t
<1>3. Kept(s, written)
  BY <1>2 DEF Kept
<1> HIDE DEF written
<1>4. ASSUME NEW v \in {s, written}, NEW answer, NEW snap, s' = Simple!Answered(v, c, answer, snap)
      PROVE  Kept(s, s')
  <2>1. "of" \in DOMAIN v /\ Kept(s, v)
    BY <1>3 DEF Kept
  <2>2. Kept(v, s')
    BY <1>4, <2>1, KeptAnswered
  <2> QED BY <2>1, <2>2 DEF Kept
<1> QED BY <1>1, <1>4

\* The page takes the answer to a change of the rules.
LEMMA KeptMutation == ASSUME "of" \in DOMAIN s, NEW c, Simple!MutationAnswers(c) PROVE Kept(s, s')
<1> DEFINE told == [s EXCEPT !.calls = @ \ {c}]
           settles == c.answer \in Simple!Deterministic \cup {"ok"}
           pending == Simple!Without(s.pending, c.request.key)
           settled == [told EXCEPT !.pending = IF settles THEN pending ELSE @,
                                   !.saved = IF settles THEN pending ELSE @]
           left == [told EXCEPT !.saved = IF settles THEN Simple!Without(c.map, c.request.key) ELSE @]
<1>1. \/ s' \in {told, left, settled}
      \/ \E x : s' = [settled EXCEPT !.shown = x]
      \/ c.to \notin {"lost", "left", "page"}
  BY DEF Simple!MutationAnswers
<1>2. c.to \notin {"lost", "left", "page"} => s' = settled
  BY DEF Simple!MutationAnswers
<1>3. Kept(s, told)
  BY DEF Kept
<1> HIDE DEF told, settles, pending
<1>4. Kept(s, left) /\ Kept(s, settled)
  BY <1>3 DEF Kept
<1> HIDE DEF left, settled
<1> QED BY <1>1, <1>2, <1>3, <1>4 DEF Kept

\* A page of the rules that goes leaves the other tools alone.
LEMMA KeptGone ==
  ASSUME NEW t, "of" \in DOMAIN t, NEW to PROVE Kept(t, Simple!Gone(t, to))
BY DEF Simple!Gone, Kept

\* What becomes of a due rule leaves the other tools alone.
LEMMA KeptAdvanced ==
  ASSUME NEW t, "of" \in DOMAIN t, NEW r
  PROVE  Kept(t, Simple!Advanced(t, r)) /\ Kept(t, Simple!FailClosed(t, r)) /\ Kept(t, Simple!RecordIntent(t, r))
<1>1. Kept(t, Simple!Advanced(t, r))
  BY DEF Simple!Advanced, Kept
<1>2. Kept(t, Simple!FailClosed(t, r))
  BY DEF Simple!FailClosed, Kept
<1>3. Kept(t, Simple!RecordIntent(t, r))
  BY <1>1 DEF Simple!RecordIntent, Kept
<1> QED BY <1>1, <1>2, <1>3

\* The steps of the page of the rules leave the other tools alone.
LEMMA SchedulePageKept ==
  ASSUME "of" \in DOMAIN s,
         Simple!RefreshRules \/ Simple!ForgetShown \/ Simple!LeaveRules \/ Simple!ReloadView
           \/ Simple!EnterRules \/ Simple!Tick \/ Simple!ClockIsSetBack
  PROVE  Kept(s, s')
<1>1. CASE Simple!RefreshRules
  BY <1>1 DEF Simple!RefreshRules, Kept
<1>2. CASE Simple!EnterRules
  BY <1>2 DEF Simple!EnterRules, Kept
<1>3. CASE Simple!ForgetShown
  BY <1>3 DEF Simple!ForgetShown, Simple!Turn, Kept
<1>4. CASE Simple!Tick
  BY <1>4 DEF Simple!Tick, Simple!Turn, Kept
<1>5. CASE Simple!ClockIsSetBack
  BY <1>5 DEF Simple!ClockIsSetBack, Simple!Turn, Kept
<1>6. CASE Simple!LeaveRules
  BY <1>6, KeptGone, KeptTurned DEF Simple!LeaveRules
<1>7. CASE Simple!ReloadView
  <2> DEFINE t == Simple!Gone(s, "lost")
             u == [t EXCEPT !.calls = {[c EXCEPT !.to = "lost"] : c \in @}]
  <2>1. s' = Simple!Turn(u)
    BY <1>7 DEF Simple!ReloadView
  <2>2. Kept(s, t)
    BY KeptGone
  <2> HIDE DEF t
  <2>3. Kept(s, u)
    BY <2>2 DEF Kept
  <2> QED BY <2>1, <2>3, KeptTurned
<1> QED BY <1>1, <1>2, <1>3, <1>4, <1>5, <1>6, <1>7

\* So do those of the scheduler.
LEMMA SchedulerKept ==
  ASSUME "of" \in DOMAIN s,
         Simple!SkipMissed \/ Simple!PollDue \/ Simple!AdvancePolled \/ Simple!Dispatch
           \/ Simple!ClearToolboxData \/ Simple!Stop \/ Simple!Start
  PROVE  Kept(s, s')
<1>1. CASE Simple!SkipMissed
  BY <1>1, KeptAdvanced DEF Simple!SkipMissed
<1>2. CASE Simple!PollDue
  BY <1>2, KeptAdvanced DEF Simple!PollDue
<1>3. CASE Simple!AdvancePolled
  <2>1. PICK p \in s.poll :
          s' \in {[Simple!Advanced(s, p.rule) EXCEPT !.poll = {[p EXCEPT !.stage = "polled"]}],
                  [Simple!FailClosed(s, p.rule) EXCEPT !.poll = {}]}
    BY <1>3 DEF Simple!AdvancePolled
  <2> DEFINE t == Simple!Advanced(s, p.rule)
             u == Simple!FailClosed(s, p.rule)
  <2>2. Kept(s, t) /\ Kept(s, u)
    BY KeptAdvanced
  <2>3. s' = [t EXCEPT !.poll = {[p EXCEPT !.stage = "polled"]}] \/ s' = [u EXCEPT !.poll = {}]
    BY <2>1
  <2> HIDE DEF t, u
  <2> QED BY <2>2, <2>3 DEF Kept
<1>4. CASE Simple!Dispatch
  <2>1. \E a, b : s' = [s EXCEPT !.poll = {}, !.again = a, !.fired = b]
    BY <1>4 DEF Simple!Dispatch
  <2> QED BY <2>1 DEF Kept
<1>5. CASE Simple!ClearToolboxData
  <2>1. \E x, y, z :
          \/ s' = Simple!Turn([s EXCEPT !.blocked = x]) \/ s' = Simple!Turn([s EXCEPT !.blocked = x, !.stored = y])
          \/ s' = Simple!Turn([Simple!Emptied(s, z) EXCEPT !.stored = y, !.blocked = x])
    BY <1>5 DEF Simple!ClearToolboxData
  <2>2. PICK x, y, z :
          \/ s' = Simple!Turn([s EXCEPT !.blocked = x]) \/ s' = Simple!Turn([s EXCEPT !.blocked = x, !.stored = y])
          \/ s' = Simple!Turn([Simple!Emptied(s, z) EXCEPT !.stored = y, !.blocked = x])
    BY <2>1
  <2> DEFINE a == [s EXCEPT !.blocked = x]
             b == [s EXCEPT !.blocked = x, !.stored = y]
             d == [Simple!Emptied(s, z) EXCEPT !.stored = y, !.blocked = x]
  <2>3. Kept(s, a) /\ Kept(s, b) /\ Kept(s, d)
    BY DEF Simple!Emptied, Kept
  <2>4. s' = Simple!Turn(a) \/ s' = Simple!Turn(b) \/ s' = Simple!Turn(d)
    BY <2>2
  <2> HIDE DEF a, b, d
  <2> QED BY <2>3, <2>4, KeptTurned
<1>6. CASE Simple!Stop
  <2> DEFINE t == Simple!Gone(s, "lost")
  <2>1. s' = Simple!Turn([t EXCEPT !.up = FALSE, !.poll = {}, !.calls = {}, !.saved = {}])
    BY <1>6 DEF Simple!Stop
  <2>2. Kept(s, t)
    BY KeptGone
  <2> HIDE DEF t
  <2>3. Kept(s, [t EXCEPT !.up = FALSE, !.poll = {}, !.calls = {}, !.saved = {}])
    BY <2>2 DEF Kept
  <2> QED BY <2>1, <2>3, KeptTurned
<1>7. CASE Simple!Start
  <2> DEFINE t == [s EXCEPT !.up = TRUE, !.blocked = FALSE]
  <2>1. s' = Simple!Emptied(t, s.stored) \/ s' = t
    BY <1>7 DEF Simple!Start
  <2>2. Kept(s, t)
    BY DEF Kept
  <2> HIDE DEF t
  <2>3. Kept(t, Simple!Emptied(t, s.stored))
    BY <2>2 DEF Simple!Emptied, Kept
  <2> QED BY <2>1, <2>2, <2>3 DEF Kept
<1> QED BY <1>1, <1>2, <1>3, <1>4, <1>5, <1>6, <1>7

\* So does every step about the rules.
LEMMA ScheduleKept == ASSUME "of" \in DOMAIN s, Simple!ScheduleNext PROVE Kept(s, s')
BY KeptPress, KeptServe, KeptMutation, SchedulePageKept, SchedulerKept
   DEF Simple!ScheduleNext, Simple!CreateRule, Simple!ChangeRule

\* The occupancy leaves the other tools alone.
LEMMA OccupancyKept == ASSUME "of" \in DOMAIN s, Simple!OccupancyNext PROVE Kept(s, s')
<1>1. ASSUME NEW v \in Simple!Targets, NEW scope \in {"file", "volume"}, Simple!ChooseTarget(v, scope)
      PROVE  Kept(s, s')
  BY <1>1 DEF Simple!ChooseTarget, Simple!Turn, Kept
<1>2. ASSUME NEW v \in Simple!Targets, Simple!ScanAnswers(v) PROVE Kept(s, s')
  <2>1. \E x : s' = [s EXCEPT !.scan = {}] \/ s' = [s EXCEPT !.scan = {}, !.output = x]
    BY <1>2 DEF Simple!ScanAnswers
  <2> QED BY <2>1 DEF Kept
<1>3. ASSUME NEW v \in Simple!Targets, Simple!EjectIsPrepared(v) PROVE Kept(s, s')
  <2>1. \E x : s' = [s EXCEPT !.prepare = {}] \/ s' = [s EXCEPT !.prepare = {}, !.lease = x]
    BY <1>3 DEF Simple!EjectIsPrepared
  <2> QED BY <2>1 DEF Kept
<1>4. ASSUME NEW v \in Simple!Targets, Simple!EjectAnswers(v) PROVE Kept(s, s')
  <2> DEFINE gone == [s EXCEPT !.ejects = {}, !.present = @ \ {v}]
  <2>1. s' = [s EXCEPT !.ejects = {}] \/ s' = gone \/ s' = [gone EXCEPT !.lease = {}, !.target = 0, !.output = 0]
    BY <1>4 DEF Simple!EjectAnswers
  <2>2. Kept(s, gone)
    BY DEF Kept
  <2> HIDE DEF gone
  <2> QED BY <2>1, <2>2 DEF Kept
<1>5. CASE \/ Simple!RunScan \/ Simple!PrepareEject \/ Simple!ConfirmEject \/ Simple!ClearOccupancy
           \/ Simple!LeaveOccupancy
  BY <1>5 DEF Simple!RunScan, Simple!PrepareEject, Simple!ConfirmEject, Simple!ClearOccupancy,
              Simple!LeaveOccupancy, Simple!Turn, Kept
<1> QED BY <1>1, <1>2, <1>3, <1>4, <1>5 DEF Simple!OccupancyNext

\* The addresses leave the other tools alone.
LEMMA AddressesKept == ASSUME "of" \in DOMAIN s, Simple!AddressesNext PROVE Kept(s, s')
<1>1. ASSUME NEW t, "of" \in DOMAIN t PROVE Kept(t, Simple!Refreshed(t))
  BY DEF Simple!Refreshed, Kept
<1>2. CASE Simple!RefreshAddresses
  BY <1>1, <1>2, KeptTurned DEF Simple!RefreshAddresses
<1>3. ASSUME NEW view, Simple!SelectView(view) PROVE Kept(s, s')
  <2> DEFINE t == [s EXCEPT !.view = view, !.generation = @ + 1]
  <2>1. s' = Simple!Turn(IF view = "live" THEN Simple!Refreshed(t) ELSE t)
    BY <1>3 DEF Simple!SelectView
  <2>2. Kept(s, t) /\ "of" \in DOMAIN t
    BY DEF Kept
  <2> HIDE DEF t
  <2>3. Kept(s, Simple!Refreshed(t))
    BY <1>1, <2>2 DEF Kept
  <2> QED BY <2>1, <2>2, <2>3, KeptTurned
<1>4. ASSUME NEW g \in s.loads, Simple!AddressesAnswer(g) PROVE Kept(s, s')
  BY <1>4 DEF Simple!AddressesAnswer, Kept
<1>5. CASE Simple!ParsePastedIfconfig
  <2>1. \E x : s' = Simple!Turn([s EXCEPT !.parsed = x])
    BY <1>5 DEF Simple!ParsePastedIfconfig
  <2> QED BY <2>1 DEF Simple!Turn, Kept
<1> QED BY <1>2, <1>3, <1>4, <1>5 DEF Simple!AddressesNext

SimpleGood(t) ==
  /\ "of" \in DOMAIN t
  /\ t.of \in {"text", "schedule", "occupancy", "hash", "tasks", "addresses"}
  /\ t.of = "hash" => HashGood(t)
  /\ t.of = "tasks" => TasksGood(t)

\* The local tools start so.
LEMMA SimpleStarts == ASSUME Simple!Init PROVE SimpleGood(s)
<1>1. CASE Simple!TextInit
  BY <1>1 DEF Simple!TextInit, SimpleGood
<1>2. CASE Simple!ScheduleInit
  BY <1>2 DEF Simple!ScheduleInit, SimpleGood
<1>3. CASE Simple!OccupancyInit
  BY <1>3 DEF Simple!OccupancyInit, SimpleGood
<1>4. CASE Simple!HashInit
  BY <1>4 DEF Simple!HashInit, SimpleGood, HashGood, HashFields
<1>5. CASE Simple!TasksInit
  BY <1>5 DEF Simple!TasksInit, SimpleGood, TasksGood, TaskFields
<1>6. CASE Simple!AddressesInit
  BY <1>6 DEF Simple!AddressesInit, SimpleGood
<1> QED BY <1>1, <1>2, <1>3, <1>4, <1>5, <1>6 DEF Simple!Init

\* Every step of the local tools keeps their invariant.
LEMMA SimpleSteps == ASSUME SimpleGood(s), Simple!Next PROVE SimpleGood(s)'
<1>1. ASSUME s.of \in {"text", "schedule", "occupancy", "addresses"}, Kept(s, s') PROVE SimpleGood(s')
  BY <1>1 DEF SimpleGood, Kept
<1>2. ASSUME HashGood(s') PROVE SimpleGood(s')
  BY <1>2 DEF HashGood, HashFields, SimpleGood
<1>3. ASSUME TasksGood(s') PROVE SimpleGood(s')
  BY <1>3 DEF TasksGood, TaskFields, SimpleGood
<1> QED
  BY <1>1, <1>2, <1>3, TextKept, ScheduleKept, OccupancyKept, AddressesKept, HashSteps, TasksSteps
     DEF Simple!Next, SimpleGood

\* No file of a hash and no lease of a page stays held.
LEMMA SimpleHolds ==
  ASSUME SimpleGood(s) PROVE Simple!HashIsReleased /\ Simple!LeaseEndsWithPage
BY HashHolds, TasksHold DEF SimpleGood, Simple!HashIsReleased, Simple!LeaseEndsWithPage

-------------------------------------------------------------------------------
(* The cleaning of the keyboard.                                             *)

KeysFields ==
  {"page", "mounted", "bridge", "host", "focused", "child", "calls", "line", "out", "denied", "due",
   "started", "tapped"}
SessionFields == {"status", "req", "hook", "prep", "left", "beat"}
HelperFields == {"req", "stage", "tap", "left", "heard", "alone"}
KeysCommands == [kind : {"start", "heartbeat", "stop", "closed"}, req : Nat]
Signals ==
  [kind : {"heartbeat", "hook_ineffective", "lifecycle"}] \cup [kind : {"ready"}, able : BOOLEAN]
    \cup [kind : {"released"}, confirmed : BOOLEAN]

\* The sessions of the commands of a kind that wait in a pipe.
Of(q, kind) == {q[i].req : i \in {i \in 1 .. Len(q) : q[i].kind = kind}}

MaskOn(t) == t.page.status \in {"preparing", "active", "releasing"}

\* Nobody is shown that the keys are filtered, and the helper hears no more of
\* the page that had begun the session.
Abandoned(t, c) ==
  /\ ~(MaskOn(t) /\ t.page.req = c.req)
  /\ c.req \notin Of(t.calls, "heartbeat") /\ Of(t.line, "heartbeat") = {}

\* A helper that filters keys has polled since it heard too little.
HelperGood(t, c) ==
  /\ DOMAIN c = HelperFields
  /\ c.req \in 1 .. t.started /\ c.heard \in Nat /\ c.alone \in Nat
  /\ c.stage = "spawned" => c.heard = 0 /\ c.alone = 0
  /\ c.stage = "gone" => c.tap = FALSE
  /\ c.stage = "on" => c.heard <= Grace /\ ("poll" \notin t.due => c.heard < Grace)
  /\ c.stage = "on" /\ c.alone > 0 => c.alone <= c.heard /\ Abandoned(t, c)
  /\ c.tap => c.alone <= Grace

KeysGood(t) ==
  /\ DOMAIN t = KeysFields
  /\ t.started \in Nat /\ t.started <= Sessions
  /\ DOMAIN t.page = SessionFields /\ t.page.req \in 0 .. t.started
  /\ t.calls \in Seq(KeysCommands) /\ t.line \in Seq(KeysCommands)
  /\ t.out \in [Keys!Reqs -> Seq(Signals)]
  /\ Of(t.calls, "start") \subseteq 1 .. t.started
  /\ \A c, d \in t.child : c = d
  /\ \A c \in t.child : HelperGood(t, c)

\* The commands of a kind in a line that gets one more.
LEMMA OfAppend ==
  ASSUME NEW q \in Seq(KeysCommands), NEW e \in KeysCommands, NEW kind
  PROVE  /\ Append(q, e) \in Seq(KeysCommands)
         /\ Of(Append(q, e), kind) = Of(q, kind) \cup (IF e.kind = kind THEN {e.req} ELSE {})
<1>1. /\ Append(q, e) \in Seq(KeysCommands) /\ Len(Append(q, e)) = Len(q) + 1
      /\ \A i \in 1 .. Len(q) : Append(q, e)[i] = q[i]
      /\ Append(q, e)[Len(q) + 1] = e /\ Len(q) \in Nat
  BY AppendProperties, LenProperties
<1>2. \A i \in 1 .. (Len(q) + 1) : i \in 1 .. Len(q) \/ i = Len(q) + 1
  BY <1>1
<1>3. 1 .. Len(q) \subseteq 1 .. (Len(q) + 1) /\ Len(q) + 1 \in 1 .. (Len(q) + 1)
  BY <1>1
<1> DEFINE p == Append(q, e)
           n == Len(q) + 1
<1> HIDE DEF p
<1>4. Of(p, kind) \subseteq Of(q, kind) \cup (IF e.kind = kind THEN {e.req} ELSE {})
  BY <1>1, <1>2 DEF Of, p
<1>5. Of(q, kind) \subseteq Of(p, kind)
  BY <1>1, <1>3 DEF Of, p
<1>6. e.kind = kind => e.req \in Of(p, kind)
  BY <1>1, <1>3 DEF Of, p
<1> QED BY <1>1, <1>4, <1>5, <1>6 DEF p

\* The commands of a kind in a line that loses its first.
LEMMA OfTail ==
  ASSUME NEW q \in Seq(KeysCommands), q # <<>>, NEW kind
  PROVE  /\ Tail(q) \in Seq(KeysCommands) /\ Of(Tail(q), kind) \subseteq Of(q, kind)
         /\ Head(q) \in KeysCommands /\ Head(q).req \in Of(q, Head(q).kind)
<1>1. /\ Tail(q) \in Seq(KeysCommands) /\ Len(Tail(q)) = Len(q) - 1 /\ Head(q) = q[1]
      /\ \A i \in 1 .. Len(Tail(q)) : Tail(q)[i] = q[i + 1] /\ i + 1 \in 1 .. Len(q)
      /\ Head(q) \in KeysCommands
  BY HeadTailProperties, LenProperties
<1>2. Len(q) \in Nat /\ 1 \in 1 .. Len(q)
  BY EmptySeq, LenProperties
<1>3. Of(Tail(q), kind) \subseteq Of(q, kind)
  BY <1>1 DEF Of
<1>4. Head(q).req \in Of(q, Head(q).kind)
  BY <1>1, <1>2 DEF Of
<1> QED BY <1>1, <1>3, <1>4

\* An empty line holds no command.
LEMMA OfNothing == <<>> \in Seq(KeysCommands) /\ \A kind : Of(<<>>, kind) = {}
BY DEF Of

\* A command is of its kind and for its session.
LEMMA OfCommand ==
  ASSUME NEW kind \in {"start", "heartbeat", "stop", "closed"}, NEW r \in Nat
  PROVE  /\ Keys!Command(kind, r) \in KeysCommands /\ Keys!Command(kind, r).kind = kind
         /\ Keys!Command(kind, r).req = r
BY DEF Keys!Command, KeysCommands

\* A step that leaves the helpers, and brings no heartbeat for one nobody is shown.
Follows(t, u) ==
  /\ DOMAIN u = KeysFields
  /\ u.started \in Nat /\ u.started <= Sessions /\ t.started <= u.started
  /\ DOMAIN u.page = SessionFields /\ u.page.req \in 0 .. u.started
  /\ MaskOn(u) => (MaskOn(t) /\ u.page.req = t.page.req) \/ u.page.req > t.started
  /\ u.calls \in Seq(KeysCommands) /\ u.line \in Seq(KeysCommands)
  /\ u.out \in [Keys!Reqs -> Seq(Signals)]
  /\ Of(u.calls, "start") \subseteq 1 .. u.started
  /\ Of(u.calls, "heartbeat") \subseteq Of(t.calls, "heartbeat") \cup {r \in {t.page.req} : MaskOn(t)}
  /\ \A r \in Of(u.line, "heartbeat") :
       r \in Of(t.line, "heartbeat") \/ (r \in Of(t.calls, "heartbeat") /\ \E c \in t.child : c.req = r)
  /\ "poll" \in t.due => "poll" \in u.due
  /\ u.child \subseteq t.child

\* Such a step keeps the invariant.
LEMMA KeysFollow == ASSUME NEW t, KeysGood(t), NEW u, Follows(t, u) PROVE KeysGood(u)
<1>1. ASSUME NEW c \in u.child PROVE HelperGood(u, c)
  <2>1. c \in t.child /\ HelperGood(t, c) /\ t.started \in Nat
    BY DEF KeysGood, Follows
  <2>2. c.req \in 1 .. u.started
    BY <2>1 DEF HelperGood, Follows
  <2>3. ASSUME Abandoned(t, c) PROVE Abandoned(u, c)
    <3>1. ~(MaskOn(u) /\ u.page.req = c.req)
      BY <2>1, <2>3 DEF Abandoned, Follows, HelperGood
    <3>2. c.req \notin Of(u.calls, "heartbeat")
      BY <2>3 DEF Abandoned, Follows
    <3>3. \A d \in t.child : d = c
      BY <2>1 DEF KeysGood
    <3>4. Of(u.line, "heartbeat") = {}
      BY <2>3, <3>3 DEF Abandoned, Follows
    <3> QED BY <3>1, <3>2, <3>4 DEF Abandoned
  <2> QED BY <2>1, <2>2, <2>3 DEF HelperGood, Follows
<1> QED BY <1>1 DEF KeysGood, Follows

\* What the page does of itself: it keeps its session, or has none.
PageMoves(t, u) ==
  /\ DOMAIN u = KeysFields
  /\ u.started = t.started /\ u.child = t.child /\ u.line = t.line /\ u.due = t.due /\ u.out = t.out
  /\ DOMAIN u.page = SessionFields /\ u.page.req \in {0, t.page.req}
  /\ MaskOn(u) => MaskOn(t) /\ u.page.req = t.page.req
  /\ u.calls = t.calls \/ u.calls = Append(t.calls, Keys!Command("stop", t.page.req))

\* What the page does of itself keeps the invariant.
LEMMA KeysPage == ASSUME NEW t, KeysGood(t), NEW u, PageMoves(t, u) PROVE KeysGood(u)
<1>1. t.page.req \in Nat /\ t.calls \in Seq(KeysCommands) /\ t.started \in Nat
  BY DEF KeysGood
<1>2. /\ u.calls \in Seq(KeysCommands) /\ Of(u.calls, "start") = Of(t.calls, "start")
      /\ Of(u.calls, "heartbeat") = Of(t.calls, "heartbeat")
  <2>1. Keys!Command("stop", t.page.req) \in KeysCommands /\ Keys!Command("stop", t.page.req).kind = "stop"
    BY <1>1, OfCommand
  <2>2. CASE u.calls = t.calls
    BY <1>1, <2>2
  <2>3. CASE u.calls = Append(t.calls, Keys!Command("stop", t.page.req))
    <3> DEFINE e == Keys!Command("stop", t.page.req)
    <3>1. e \in KeysCommands /\ e.kind = "stop" /\ u.calls = Append(t.calls, e)
      BY <2>1, <2>3
    <3> HIDE DEF e
    <3>2. ASSUME NEW kind \in {"start", "heartbeat"}
          PROVE  u.calls \in Seq(KeysCommands) /\ Of(u.calls, kind) = Of(t.calls, kind)
      <4>1. kind # e.kind
        BY <3>1
      <4>2. /\ Append(t.calls, e) \in Seq(KeysCommands)
            /\ Of(Append(t.calls, e), kind) = Of(t.calls, kind) \cup (IF e.kind = kind THEN {e.req} ELSE {})
        BY <1>1, <3>1, OfAppend
      <4> QED BY <3>1, <4>1, <4>2
    <3> QED BY <3>2
  <2> QED BY <2>2, <2>3 DEF PageMoves
<1>3. Follows(t, u)
  BY <1>1, <1>2 DEF KeysGood, PageMoves, Follows
<1> QED BY <1>3, KeysFollow

\* Two such steps of the page, one after the other, are one.
LEMMA PageTransitive ==
  ASSUME NEW t, NEW u, PageMoves(t, u), u.calls = t.calls, u.page = t.page, NEW v, PageMoves(u, v)
  PROVE  PageMoves(t, v)
BY DEF PageMoves, MaskOn

\* The session of a page that has none.
LEMMA SessionLess ==
  /\ DOMAIN Keys!NoSession = SessionFields /\ Keys!NoSession.req = 0 /\ Keys!NoSession.status = "idle"
BY DEF Keys!NoSession, SessionFields

\* Releasing a session is such a step of the page.
LEMMA KeysRelease ==
  ASSUME NEW t, DOMAIN t = KeysFields, DOMAIN t.page = SessionFields
  PROVE  PageMoves(t, Keys!Release(t))
<1>1. CASE ~Keys!Cleaning(t.page)
  BY <1>1 DEF Keys!Release, PageMoves
<1>2. CASE Keys!Cleaning(t.page)
  <2> DEFINE p == [Keys!NoSession EXCEPT !.status = "releasing", !.req = t.page.req]
             u == Keys!Release(t)
  <2>1. DOMAIN p = SessionFields /\ p.req = t.page.req
    BY SessionLess DEF SessionFields
  <2>2. u = [t EXCEPT !.page = p, !.calls = Append(@, Keys!Command("stop", t.page.req))]
    BY <1>2 DEF Keys!Release
  <2> HIDE DEF p
  <2>3. /\ DOMAIN u = KeysFields /\ u.page = p /\ u.calls = Append(t.calls, Keys!Command("stop", t.page.req))
        /\ u.started = t.started /\ u.child = t.child /\ u.line = t.line /\ u.due = t.due /\ u.out = t.out
    BY <2>2 DEF KeysFields
  <2>4. MaskOn(t)
    BY <1>2 DEF Keys!Cleaning, MaskOn
  <2> QED BY <2>1, <2>3, <2>4 DEF PageMoves
<1> QED BY <1>1, <1>2

\* A change of what the page knows of its session.
LEMMA KeysPageAt ==
  ASSUME NEW t, DOMAIN t = KeysFields, DOMAIN t.page = SessionFields, NEW p, DOMAIN p = SessionFields,
         p.req = t.page.req,
         p.status \in {"preparing", "active", "releasing"} => MaskOn(t)
  PROVE  PageMoves(t, [t EXCEPT !.page = p])
BY DEF PageMoves, KeysFields, MaskOn

\* So is the turn of its clock.
LEMMA KeysAdvance ==
  ASSUME NEW t, DOMAIN t = KeysFields, DOMAIN t.page = SessionFields
  PROVE  PageMoves(t, Keys!Advance(t))
<1> DEFINE p == [t.page EXCEPT !.status = "active"]
<1>1. CASE t.page.status = "preparing" /\ t.page.prep = 0 /\ t.page.hook = "confirmed"
  <2>1. DOMAIN p = SessionFields /\ p.req = t.page.req /\ MaskOn(t)
    BY <1>1 DEF SessionFields, MaskOn
  <2>2. Keys!Advance(t) = [t EXCEPT !.page = p]
    BY <1>1 DEF Keys!Advance, KeysFields
  <2> HIDE DEF p
  <2> QED BY <2>1, <2>2, KeysPageAt
<1>2. CASE ~(t.page.status = "preparing" /\ t.page.prep = 0 /\ t.page.hook = "confirmed")
  <2>1. Keys!Advance(t) = Keys!Release(t) \/ Keys!Advance(t) = t
    BY <1>2 DEF Keys!Advance
  <2> QED BY <2>1, KeysRelease DEF PageMoves
<1> QED BY <1>1, <1>2

\* So is taking a signal of its helper.
LEMMA KeysApplySignal ==
  ASSUME NEW t, DOMAIN t = KeysFields, DOMAIN t.page = SessionFields, NEW r, NEW signal \in Signals
  PROVE  PageMoves(t, Keys!ApplySignal(t, r, signal))
<1> DEFINE u == Keys!ApplySignal(t, r, signal)
           ready == [t.page EXCEPT !.hook = "confirmed", !.beat = 0]
           heard == [t.page EXCEPT !.beat = 0]
           ended == [t.page EXCEPT !.status = "ended"]
<1>1. PageMoves(t, t)
  BY DEF PageMoves
<1>2. PageMoves(t, Keys!Release(t))
  BY KeysRelease
<1>3. \/ u \in {t, Keys!Release(t)}
      \/ Keys!Cleaning(t.page) /\ u = [t EXCEPT !.page = ready]
      \/ Keys!Cleaning(t.page) /\ u = [t EXCEPT !.page = heard]
      \/ u = [t EXCEPT !.page = ended]
  <2>1. signal.kind \in {"heartbeat", "hook_ineffective", "lifecycle", "ready", "released"}
    BY DEF Signals
  <2>2. CASE signal.kind = "ready"
    BY <2>2 DEF Keys!ApplySignal, Keys!HookReady, Keys!Cleaning, KeysFields
  <2>3. CASE signal.kind = "heartbeat"
    BY <2>3 DEF Keys!ApplySignal, KeysFields
  <2>4. CASE signal.kind \in {"hook_ineffective", "lifecycle"}
    BY <2>4 DEF Keys!ApplySignal
  <2>5. CASE signal.kind = "released"
    BY <2>5 DEF Keys!ApplySignal, Keys!ReleaseAcknowledgement, KeysFields
  <2> QED BY <2>1, <2>2, <2>3, <2>4, <2>5
<1>4. /\ DOMAIN ready = SessionFields /\ ready.req = t.page.req
      /\ DOMAIN heard = SessionFields /\ heard.req = t.page.req
      /\ DOMAIN ended = SessionFields /\ ended.req = t.page.req /\ ended.status = "ended"
  BY DEF SessionFields
<1>5. Keys!Cleaning(t.page) => MaskOn(t)
  BY DEF Keys!Cleaning, MaskOn
<1> HIDE DEF u, ready, heard, ended
<1>6. CASE Keys!Cleaning(t.page) /\ u = [t EXCEPT !.page = ready]
  BY <1>4, <1>5, <1>6, KeysPageAt DEF u
<1>7. CASE Keys!Cleaning(t.page) /\ u = [t EXCEPT !.page = heard]
  BY <1>4, <1>5, <1>7, KeysPageAt DEF u
<1>8. CASE u = [t EXCEPT !.page = ended]
  BY <1>4, <1>5, <1>8, KeysPageAt DEF u
<1> QED BY <1>1, <1>2, <1>3, <1>6, <1>7, <1>8 DEF u

\* What the user does and what the window tells the page.
LEMMA KeysPageSteps ==
  ASSUME KeysGood(s),
         \/ Keys!Cancel \/ Keys!Leave \/ Keys!Reload \/ Keys!Enter \/ Keys!Subscribed
         \/ Keys!FocusBack
  PROVE  KeysGood(s)'
<1>1. DOMAIN s = KeysFields /\ DOMAIN s.page = SessionFields
  BY DEF KeysGood
<1>2. PageMoves(s, Keys!Release(s))
  BY <1>1, KeysRelease
<1>3. CASE Keys!Cancel
  BY <1>2, <1>3, KeysPage DEF Keys!Cancel
<1>4. CASE Keys!Leave
  <2> DEFINE t == Keys!Release(s)
  <2>1. s' = [t EXCEPT !.mounted = FALSE, !.bridge = FALSE]
    BY <1>4 DEF Keys!Leave
  <2>2. PageMoves(s, t)
    BY <1>2
  <2> HIDE DEF t
  <2>3. PageMoves(s, s')
    BY <2>1, <2>2 DEF PageMoves, MaskOn, KeysFields
  <2> QED BY <2>3, KeysPage
<1>5. CASE Keys!Reload \/ Keys!Enter
  <2>1. PageMoves(s, s')
    BY <1>1, <1>5, SessionLess DEF Keys!Reload, Keys!Enter, PageMoves, MaskOn, KeysFields
  <2> QED BY <2>1, KeysPage
<1>6. CASE Keys!Subscribed \/ Keys!FocusBack
  <2>1. PageMoves(s, s')
    BY <1>1, <1>6 DEF Keys!Subscribed, Keys!FocusBack, PageMoves, MaskOn, KeysFields
  <2> QED BY <2>1, KeysPage
<1> QED BY <1>3, <1>4, <1>5, <1>6

\* A new session is asked for.
LEMMA KeysStart == ASSUME KeysGood(s), Keys!Start PROVE KeysGood(s)'
<1> DEFINE r == s.started + 1
           e == Keys!Command("start", r)
           page == [Keys!NoSession EXCEPT !.status = "preparing", !.req = r, !.prep = Prep,
                                          !.left = Prep + Dur]
<1>1. /\ DOMAIN s = KeysFields /\ s.started \in Nat /\ s.calls \in Seq(KeysCommands)
      /\ s.line \in Seq(KeysCommands) /\ s.out \in [Keys!Reqs -> Seq(Signals)]
      /\ Of(s.calls, "start") \subseteq 1 .. s.started
  BY DEF KeysGood
<1>2. s.started < Sessions /\ s' = [s EXCEPT !.started = r, !.calls = Append(@, e), !.page = page]
  BY DEF Keys!Start
<1>3. r \in Nat /\ e \in KeysCommands /\ e.kind = "start" /\ e.req = r
  BY <1>1, OfCommand
<1>4. DOMAIN page = SessionFields /\ page.req = r
  BY SessionLess DEF SessionFields
<1> HIDE DEF e, page
<1>5. /\ Append(s.calls, e) \in Seq(KeysCommands)
      /\ Of(Append(s.calls, e), "start") = Of(s.calls, "start") \cup {r}
      /\ Of(Append(s.calls, e), "heartbeat") = Of(s.calls, "heartbeat")
  <2>1. \A kind : Of(Append(s.calls, e), kind) = Of(s.calls, kind) \cup (IF e.kind = kind THEN {e.req} ELSE {})
    BY <1>1, <1>3, OfAppend
  <2>2. Append(s.calls, e) \in Seq(KeysCommands)
    BY <1>1, <1>3, OfAppend
  <2> QED BY <1>3, <2>1, <2>2
<1>6. /\ DOMAIN s' = KeysFields /\ s'.started = r /\ s'.calls = Append(s.calls, e) /\ s'.page = page
      /\ s'.line = s.line /\ s'.out = s.out /\ s'.due = s.due /\ s'.child = s.child
  BY <1>1, <1>2 DEF KeysFields
<1>7. Sessions \in Nat
  BY BoundsAssumption
<1>8. 1 .. s.started \subseteq 1 .. r /\ r \in 1 .. r /\ r \in 0 .. r /\ r > s.started /\ r <= Sessions
  BY <1>1, <1>2, <1>7
<1>9. Follows(s, s')
  BY <1>1, <1>3, <1>4, <1>5, <1>6, <1>8 DEF Follows
<1> QED BY <1>9, KeysFollow

\* The page sends a heartbeat while its session goes on.
LEMMA KeysBeat == ASSUME KeysGood(s), Keys!SendHeartbeat PROVE KeysGood(s)'
<1> DEFINE e == Keys!Command("heartbeat", s.page.req)
<1>1. /\ DOMAIN s = KeysFields /\ s.started \in Nat /\ s.started <= Sessions
      /\ s.calls \in Seq(KeysCommands) /\ DOMAIN s.page = SessionFields /\ s.page.req \in 0 .. s.started
      /\ s.line \in Seq(KeysCommands) /\ s.out \in [Keys!Reqs -> Seq(Signals)]
      /\ Of(s.calls, "start") \subseteq 1 .. s.started
  BY DEF KeysGood
<1>2. MaskOn(s) /\ s' = [s EXCEPT !.calls = Append(@, e), !.due = @ \ {"beat"}]
  BY DEF Keys!SendHeartbeat, Keys!HeartbeatsRun, Keys!Cleaning, MaskOn
<1>3. e \in KeysCommands /\ e.kind = "heartbeat" /\ e.req = s.page.req
  BY <1>1, OfCommand
<1> HIDE DEF e
<1>4. /\ Append(s.calls, e) \in Seq(KeysCommands)
      /\ Of(Append(s.calls, e), "start") = Of(s.calls, "start")
      /\ Of(Append(s.calls, e), "heartbeat") = Of(s.calls, "heartbeat") \cup {s.page.req}
  <2>1. \A kind : Of(Append(s.calls, e), kind) = Of(s.calls, kind) \cup (IF e.kind = kind THEN {e.req} ELSE {})
    BY <1>1, <1>3, OfAppend
  <2>2. Append(s.calls, e) \in Seq(KeysCommands)
    BY <1>1, <1>3, OfAppend
  <2> QED BY <1>3, <2>1, <2>2
<1>5. /\ DOMAIN s' = KeysFields /\ s'.started = s.started /\ s'.calls = Append(s.calls, e)
      /\ s'.page = s.page /\ s'.line = s.line /\ s'.out = s.out /\ s'.child = s.child
      /\ s'.due = s.due \ {"beat"}
  BY <1>1, <1>2 DEF KeysFields
<1>6. s.started <= s.started /\ s.started \in Nat
  BY <1>1
<1>7. Follows(s, s')
  BY <1>1, <1>2, <1>4, <1>5, <1>6 DEF Follows, MaskOn
<1> QED BY <1>7, KeysFollow

\* What only forgets something said or asked.
LEMMA KeysForget ==
  ASSUME NEW t, KeysGood(t), NEW u, DOMAIN u = KeysFields, u.page = t.page, u.started = t.started,
         u.calls \in Seq(KeysCommands), u.line \in Seq(KeysCommands),
         u.out \in [Keys!Reqs -> Seq(Signals)],
         Of(u.calls, "start") \subseteq Of(t.calls, "start"),
         Of(u.calls, "heartbeat") \subseteq Of(t.calls, "heartbeat"),
         Of(u.line, "heartbeat") \subseteq Of(t.line, "heartbeat"),
         "poll" \in t.due => "poll" \in u.due, u.child \subseteq t.child
  PROVE  KeysGood(u)
<1>1. t.started \in Nat /\ t.started <= t.started
  BY DEF KeysGood
<1>2. Follows(t, u)
  BY <1>1 DEF KeysGood, Follows, MaskOn
<1> QED BY <1>2, KeysFollow

\* The page hears the next signal of a session.
LEMMA KeysHear == ASSUME KeysGood(s), NEW r \in Keys!Reqs, Keys!Hear(r) PROVE KeysGood(s)'
<1> DEFINE told == [s EXCEPT !.out[r] = Tail(@)]
           signal == Head(s.out[r])
<1>1. /\ DOMAIN s = KeysFields /\ DOMAIN s.page = SessionFields
      /\ s.out \in [Keys!Reqs -> Seq(Signals)] /\ s.calls \in Seq(KeysCommands) /\ s.line \in Seq(KeysCommands)
  BY DEF KeysGood
<1>2. s.out[r] # <<>> /\ s.out[r] \in Seq(Signals)
  BY <1>1 DEF Keys!Hear
<1>3. signal \in Signals /\ Tail(s.out[r]) \in Seq(Signals)
  BY <1>2, HeadTailProperties
<1>4. s' = Keys!ApplySignal(told, r, signal) \/ s' = told
  BY DEF Keys!Hear
<1>5. /\ DOMAIN told = KeysFields /\ told.page = s.page /\ told.started = s.started /\ told.calls = s.calls
      /\ told.line = s.line /\ told.due = s.due /\ told.child = s.child
      /\ told.out = [s.out EXCEPT ![r] = Tail(s.out[r])]
  BY <1>1 DEF KeysFields
<1> HIDE DEF told, signal
<1>6. told.out \in [Keys!Reqs -> Seq(Signals)]
  BY <1>1, <1>3, <1>5
<1>7. KeysGood(told)
  BY <1>1, <1>5, <1>6, KeysForget
<1>8. PageMoves(told, Keys!ApplySignal(told, r, signal))
  BY <1>1, <1>3, <1>5, KeysApplySignal
<1> QED BY <1>4, <1>7, <1>8, KeysPage

\* The permission is refused.
LEMMA KeysDenied == ASSUME KeysGood(s), NEW r, Keys!PermissionDenied(r) PROVE KeysGood(s)'
<1> DEFINE t == [s EXCEPT !.denied = @ \ {r}]
           v == Keys!Release(t)
           u == [v EXCEPT !.calls = t.calls]
           w == [u EXCEPT !.page.status = "ended"]
<1>1. DOMAIN s = KeysFields /\ DOMAIN s.page = SessionFields
  BY DEF KeysGood
<1>2. s' \in {t, u, w}
  BY DEF Keys!PermissionDenied, Keys!ReleaseAcknowledgement
<1>3. PageMoves(s, t) /\ DOMAIN t = KeysFields /\ DOMAIN t.page = SessionFields
  BY <1>1 DEF PageMoves, KeysFields, MaskOn
<1> HIDE DEF t
<1>4. PageMoves(t, v) /\ KeysGood(t)
  BY <1>3, KeysRelease, KeysPage
<1> HIDE DEF v
<1>5. PageMoves(t, u)
  BY <1>4 DEF PageMoves, KeysFields, MaskOn
<1> HIDE DEF u
<1>6. KeysGood(u) /\ DOMAIN u = KeysFields /\ DOMAIN u.page = SessionFields
  BY <1>4, <1>5, KeysPage DEF PageMoves
<1> DEFINE p == [u.page EXCEPT !.status = "ended"]
<1>7. DOMAIN p = SessionFields /\ p.req = u.page.req /\ p.status = "ended"
  BY <1>6 DEF SessionFields
<1>8. w = [u EXCEPT !.page = p]
  BY <1>6 DEF KeysFields
<1> HIDE DEF p
<1>9. PageMoves(u, [u EXCEPT !.page = p])
  BY <1>6, <1>7, KeysPageAt
<1>10. KeysGood(w)
  BY <1>6, <1>8, <1>9, KeysPage
<1> QED BY <1>2, <1>4, <1>6, <1>10

\* Stopping a session sends the helper its command.
LEMMA KeysStopped == ASSUME NEW t, KeysGood(t), NEW r \in Nat PROVE KeysGood(Keys!Stopped(t, r))
<1> DEFINE e == Keys!Command("stop", r)
           u == Keys!Stopped(t, r)
<1>1. /\ DOMAIN t = KeysFields /\ t.calls \in Seq(KeysCommands) /\ t.line \in Seq(KeysCommands)
      /\ t.out \in [Keys!Reqs -> Seq(Signals)]
  BY DEF KeysGood
<1>2. e \in KeysCommands /\ e.kind = "stop"
  BY OfCommand
<1> HIDE DEF e
<1>3. /\ Append(t.line, e) \in Seq(KeysCommands)
      /\ Of(Append(t.line, e), "heartbeat") = Of(t.line, "heartbeat") \cup
           (IF e.kind = "heartbeat" THEN {e.req} ELSE {})
  BY <1>1, <1>2, OfAppend
<1>4. /\ DOMAIN u = KeysFields /\ u.page = t.page /\ u.started = t.started /\ u.calls = t.calls
      /\ u.out = t.out /\ u.due = t.due /\ u.child = Keys!Reaped(t.child)
      /\ u.line = t.line \/ u.line = Append(t.line, e)
  BY <1>1 DEF Keys!Stopped, KeysFields, e
<1> HIDE DEF u
<1>5. u.child \subseteq t.child
  BY <1>4 DEF Keys!Reaped
<1>6. u.line \in Seq(KeysCommands) /\ Of(u.line, "heartbeat") = Of(t.line, "heartbeat")
  BY <1>1, <1>2, <1>3, <1>4
<1>7. KeysGood(u)
  BY <1>1, <1>4, <1>5, <1>6, KeysForget
<1> QED BY <1>7 DEF u

\* So does a stop for a reason of the host.
LEMMA KeysStopForReason == ASSUME NEW t, KeysGood(t) PROVE KeysGood(Keys!StopForReason(t))
<1>1. CASE t.child = {}
  BY <1>1 DEF Keys!StopForReason
<1>2. CASE t.child # {}
  <2> DEFINE c == CHOOSE c \in t.child : TRUE
  <2>1. c \in t.child
    BY <1>2
  <2>2. c.req \in Nat
    BY <2>1 DEF KeysGood, HelperGood
  <2>3. Keys!StopForReason(t) = Keys!Stopped(t, c.req)
    BY <1>2 DEF Keys!StopForReason
  <2> HIDE DEF c
  <2> QED BY <2>2, <2>3, KeysStopped
<1> QED BY <1>1, <1>2

\* The first call is taken.
LEMMA KeysTaken ==
  ASSUME KeysGood(s), s.calls # <<>>
  PROVE  LET t == [s EXCEPT !.calls = Tail(@)]
         IN /\ KeysGood(t) /\ DOMAIN t = KeysFields /\ t.page = s.page /\ t.started = s.started
            /\ t.child = s.child /\ t.line = s.line /\ t.out = s.out /\ t.due = s.due
            /\ t.calls = Tail(s.calls)
<1> DEFINE t == [s EXCEPT !.calls = Tail(@)]
<1>1. /\ DOMAIN s = KeysFields /\ s.calls \in Seq(KeysCommands) /\ s.line \in Seq(KeysCommands)
      /\ s.out \in [Keys!Reqs -> Seq(Signals)]
  BY DEF KeysGood
<1>2. /\ DOMAIN t = KeysFields /\ t.page = s.page /\ t.started = s.started
      /\ t.child = s.child /\ t.line = s.line /\ t.out = s.out /\ t.due = s.due
      /\ t.calls = Tail(s.calls)
  BY <1>1 DEF KeysFields
<1> HIDE DEF t
<1>3. \A kind : Of(Tail(s.calls), kind) \subseteq Of(s.calls, kind)
  BY <1>1, OfTail
<1>4. Tail(s.calls) \in Seq(KeysCommands)
  BY <1>1, OfTail
<1>5. KeysGood(t)
  BY <1>1, <1>2, <1>3, <1>4, KeysForget
<1> QED BY <1>2, <1>5 DEF t

\* What a helper says is added to what its session has to hear.
LEMMA KeysSay ==
  ASSUME NEW t, DOMAIN t = KeysFields, t.out \in [Keys!Reqs -> Seq(Signals)], NEW r \in Keys!Reqs,
         NEW signals \in Seq(Signals)
  PROVE  LET u == Keys!Say(t, r, signals)
         IN /\ DOMAIN u = KeysFields /\ u.out \in [Keys!Reqs -> Seq(Signals)]
            /\ u.page = t.page /\ u.started = t.started /\ u.child = t.child /\ u.line = t.line
            /\ u.due = t.due /\ u.calls = t.calls
<1> DEFINE q == IF t.host THEN t.out[r] \o signals ELSE t.out[r]
           u == Keys!Say(t, r, signals)
<1>1. q \in Seq(Signals)
  BY ConcatProperties
<1>2. u = [t EXCEPT !.out = [t.out EXCEPT ![r] = q]]
  BY DEF Keys!Say, KeysFields
<1> HIDE DEF q, u
<1>3. [t.out EXCEPT ![r] = q] \in [Keys!Reqs -> Seq(Signals)]
  BY <1>1
<1>4. /\ DOMAIN u = KeysFields /\ u.out = [t.out EXCEPT ![r] = q]
      /\ u.page = t.page /\ u.started = t.started /\ u.child = t.child /\ u.line = t.line
      /\ u.due = t.due /\ u.calls = t.calls
  BY <1>2 DEF KeysFields
<1> QED BY <1>3, <1>4 DEF u

\* The lines a helper writes are signals.
LEMMA SignalsSaid ==
  /\ <<>> \in Seq(Signals)
  /\ \A kind \in {"heartbeat", "hook_ineffective", "lifecycle"} :
       <<Keys!Signal(kind)>> \in Seq(Signals)
  /\ <<Keys!Signal("heartbeat"), Keys!Signal("lifecycle")>> \in Seq(Signals)
  /\ \A ok \in BOOLEAN : Keys!Released(ok) \in Signals
  /\ <<[kind |-> "ready", able |-> TRUE]>> \in Seq(Signals)
  /\ <<[kind |-> "ready", able |-> FALSE], Keys!Released(TRUE)>> \in Seq(Signals)
  /\ <<Keys!Signal("hook_ineffective"), Keys!Released(FALSE)>> \in Seq(Signals)
<1>1. /\ \A kind \in {"heartbeat", "hook_ineffective", "lifecycle"} : Keys!Signal(kind) \in Signals
      /\ \A ok \in BOOLEAN : Keys!Released(ok) \in Signals /\ [kind |-> "ready", able |-> ok] \in Signals
  BY DEF Keys!Signal, Keys!Released, Signals
<1>2. \A a, b \in Signals : <<>> \in Seq(Signals) /\ <<a>> \in Seq(Signals) /\ <<a, b>> \in Seq(Signals)
  OBVIOUS
<1> QED BY <1>1, <1>2

\* A helper is begun for a call of the page.
LEMMA KeysHelperStarts ==
  ASSUME KeysGood(s), s.calls # <<>>, Head(s.calls).kind = "start", Keys!StartHelper(Head(s.calls).req)
  PROVE  KeysGood(s)'
<1> DEFINE r == Head(s.calls).req
           t == [s EXCEPT !.calls = Tail(@)]
           u == [s EXCEPT !.calls = Tail(@), !.child = Keys!Reaped(@)]
           c == Keys!HelperOf(r)
<1>1. r \in Of(s.calls, "start")
  BY OfTail DEF KeysGood
<1>2. r \in 1 .. s.started /\ s.started \in Nat
  BY <1>1 DEF KeysGood
<1>3. /\ KeysGood(t) /\ DOMAIN t = KeysFields /\ t.page = s.page /\ t.started = s.started
      /\ t.child = s.child /\ t.line = s.line /\ t.out = s.out /\ t.due = s.due
      /\ t.calls = Tail(s.calls)
  BY KeysTaken
<1> DEFINE w == [u EXCEPT !.line = <<>>]
<1>4. \/ s' = [u EXCEPT !.child = {c}, !.line = <<>>] \/ s' = u
      \/ \E x : s' = [u EXCEPT !.denied = x]
      \/ s' = Keys!Say(w, r, Keys!Lost)
  BY DEF Keys!StartHelper
<1>5. DOMAIN s = KeysFields
  BY DEF KeysGood
<1>6. /\ DOMAIN u = KeysFields /\ u.page = s.page /\ u.started = s.started
      /\ u.child = Keys!Reaped(s.child) /\ u.line = s.line /\ u.out = s.out /\ u.due = s.due
      /\ u.calls = Tail(s.calls)
  BY <1>5 DEF KeysFields
<1> HIDE DEF u
<1>10. /\ DOMAIN w = KeysFields /\ w.page = u.page /\ w.started = u.started /\ w.child = u.child
       /\ w.line = <<>> /\ w.out = u.out /\ w.due = u.due /\ w.calls = u.calls
  BY <1>6 DEF KeysFields
<1> HIDE DEF r, t, w
<1>7. Keys!Reaped(s.child) \subseteq t.child
  BY <1>3 DEF Keys!Reaped
<1>8. CASE s' = [u EXCEPT !.child = {c}, !.line = <<>>]
  <2>1. /\ DOMAIN c = HelperFields /\ c.req = r /\ c.stage = "spawned" /\ c.tap = FALSE
        /\ c.heard = 0 /\ c.alone = 0
    BY DEF Keys!HelperOf, HelperFields
  <2> HIDE DEF c
  <2>2. /\ DOMAIN s' = KeysFields /\ s'.page = t.page /\ s'.started = t.started /\ s'.child = {c}
        /\ s'.line = <<>> /\ s'.out = t.out /\ s'.due = t.due /\ s'.calls = t.calls
    BY <1>3, <1>6, <1>8 DEF KeysFields
  <2>3. HelperGood(s', c)
    BY <1>2, <1>3, <2>1, <2>2 DEF HelperGood
  <2>4. <<>> \in Seq(KeysCommands)
    BY OfNothing
  <2> QED BY <1>3, <2>2, <2>3, <2>4 DEF KeysGood
<1>9. CASE s' = u \/ \E x : s' = [u EXCEPT !.denied = x]
  <2>1. /\ DOMAIN s' = KeysFields /\ s'.page = t.page /\ s'.started = t.started
        /\ s'.child = Keys!Reaped(s.child) /\ s'.line = t.line /\ s'.out = t.out /\ s'.due = t.due
        /\ s'.calls = t.calls
    BY <1>3, <1>6, <1>9 DEF KeysFields
  <2>2. t.calls \in Seq(KeysCommands) /\ t.line \in Seq(KeysCommands) /\ t.out \in [Keys!Reqs -> Seq(Signals)]
    BY <1>3 DEF KeysGood
  <2> QED BY <1>3, <1>7, <2>1, <2>2, KeysForget
<1>11. CASE s' = Keys!Say(w, r, Keys!Lost)
  <2>1. t.calls \in Seq(KeysCommands) /\ t.out \in [Keys!Reqs -> Seq(Signals)] /\ s.started <= Sessions
    BY <1>3 DEF KeysGood
  <2>2. r \in Keys!Reqs
    BY <1>2, <2>1, BoundsAssumption DEF Keys!Reqs
  <2>3. w.out \in [Keys!Reqs -> Seq(Signals)]
    BY <1>3, <1>6, <1>10, <2>1
  <2>4. Keys!Lost \in Seq(Signals)
    BY SignalsSaid DEF Keys!Lost
  <2>5. /\ DOMAIN s' = KeysFields /\ s'.out \in [Keys!Reqs -> Seq(Signals)]
        /\ s'.page = w.page /\ s'.started = w.started /\ s'.child = w.child /\ s'.line = w.line
        /\ s'.due = w.due /\ s'.calls = w.calls
    BY <1>10, <1>11, <2>2, <2>4, <2>3, KeysSay
  <2>6. <<>> \in Seq(KeysCommands) /\ Of(<<>>, "heartbeat") = {}
    BY OfNothing
  <2> QED BY <1>3, <1>6, <1>7, <1>10, <2>1, <2>5, <2>6, KeysForget
<1> QED BY <1>4, <1>8, <1>9, <1>11

\* A heartbeat of the page reaches the helper of its session or nobody.
LEMMA KeysHeartbeat ==
  ASSUME KeysGood(s), s.calls # <<>>, Head(s.calls).kind = "heartbeat",
         Keys!HelperHeartbeat(Head(s.calls).req)
  PROVE  KeysGood(s)'
<1> DEFINE r == Head(s.calls).req
           t == [s EXCEPT !.calls = Tail(@)]
           e == Keys!Command("heartbeat", r)
           mine == \E c \in Keys!Reaped(t.child) : c.req = r
           line == IF mine THEN Append(t.line, e) ELSE t.line
<1>1. r \in Of(s.calls, "heartbeat") /\ r \in Nat
  BY OfTail DEF KeysGood, KeysCommands
<1>2. /\ KeysGood(t) /\ DOMAIN t = KeysFields /\ t.page = s.page /\ t.started = s.started
      /\ t.child = s.child /\ t.line = s.line /\ t.out = s.out /\ t.due = s.due
      /\ t.calls = Tail(s.calls)
  BY KeysTaken
<1>3. s' = Keys!StopForReason(t) \/ s' = [t EXCEPT !.child = Keys!Reaped(@), !.line = line]
  BY <1>2 DEF Keys!HelperHeartbeat, KeysFields
<1>4. e \in KeysCommands /\ e.kind = "heartbeat" /\ e.req = r
  BY <1>1, OfCommand
<1> HIDE DEF r, t, e, mine
<1>5. KeysGood(Keys!StopForReason(t))
  BY <1>2, KeysStopForReason
<1>6. CASE s' = [t EXCEPT !.child = Keys!Reaped(@), !.line = line]
  <2>1. /\ s.line \in Seq(KeysCommands) /\ s.calls \in Seq(KeysCommands)
        /\ s.out \in [Keys!Reqs -> Seq(Signals)] /\ s.started \in Nat /\ s.started <= Sessions
        /\ s.started <= s.started
    BY DEF KeysGood
  <2>2. line \in Seq(KeysCommands)
    BY <1>2, <1>4, <2>1, OfAppend
  <2>3. Of(Append(t.line, e), "heartbeat") = Of(t.line, "heartbeat") \cup {r}
    <3>1. Of(Append(t.line, e), "heartbeat") =
            Of(t.line, "heartbeat") \cup (IF e.kind = "heartbeat" THEN {e.req} ELSE {})
      BY <1>2, <1>4, <2>1, OfAppend
    <3> QED BY <1>4, <3>1
  <2>4. \A q \in Of(line, "heartbeat") : q \in Of(s.line, "heartbeat") \/ (q = r /\ mine)
    BY <1>2, <2>3
  <2>5. mine => \E c \in s.child : c.req = r
    BY <1>2 DEF mine, Keys!Reaped
  <2> HIDE DEF line
  <2>6. /\ DOMAIN s' = KeysFields /\ s'.page = s.page /\ s'.started = s.started
        /\ s'.child = Keys!Reaped(s.child) /\ s'.line = line /\ s'.out = s.out /\ s'.due = s.due
        /\ s'.calls = Tail(s.calls)
    BY <1>2, <1>6 DEF KeysFields
  <2>7. Tail(s.calls) \in Seq(KeysCommands) /\ \A kind : Of(Tail(s.calls), kind) \subseteq Of(s.calls, kind)
    BY <2>1, OfTail
  <2>8. s'.child \subseteq s.child
    BY <2>6 DEF Keys!Reaped
  <2>9. Follows(s, s')
    BY <1>1, <2>1, <2>2, <2>4, <2>5, <2>6, <2>7, <2>8 DEF KeysGood, Follows, MaskOn
  <2> QED BY <2>9, KeysFollow
<1> QED BY <1>3, <1>5, <1>6

\* The host serves the first command of the page.
LEMMA KeysServe == ASSUME KeysGood(s), Keys!Serve PROVE KeysGood(s)'
<1>1. s.calls # <<>>
  BY DEF Keys!Serve
<1>2. CASE Head(s.calls).kind = "stop" /\ Keys!StopHelper(Head(s.calls).req)
  <2> DEFINE t == [s EXCEPT !.calls = Tail(@)]
             r == Head(s.calls).req
  <2>1. r \in Nat
    BY <1>1, OfTail DEF KeysGood, KeysCommands
  <2>2. KeysGood(t)
    BY <1>1, KeysTaken
  <2>3. s' = Keys!Stopped(t, r)
    BY <1>2 DEF Keys!StopHelper
  <2> HIDE DEF t, r
  <2> QED BY <2>1, <2>2, <2>3, KeysStopped
<1> QED BY <1>1, <1>2, KeysHelperStarts, KeysHeartbeat DEF Keys!Serve

\* The focus is lost, the emergency stop, the end of the host.
LEMMA KeysHostSteps ==
  ASSUME KeysGood(s), Keys!FocusLost \/ Keys!EmergencyStop \/ Keys!HostDies PROVE KeysGood(s)'
<1>1. /\ DOMAIN s = KeysFields /\ s.line \in Seq(KeysCommands) /\ s.calls \in Seq(KeysCommands)
      /\ s.out \in [Keys!Reqs -> Seq(Signals)] /\ s.started \in Nat /\ s.started <= Sessions
      /\ s.started <= s.started
  BY DEF KeysGood
<1>2. CASE Keys!EmergencyStop
  BY <1>2, KeysStopForReason DEF Keys!EmergencyStop
<1>3. CASE Keys!FocusLost
  <2> DEFINE t == Keys!StopForReason(s)
  <2>1. KeysGood(t) /\ s' = [t EXCEPT !.focused = FALSE]
    BY <1>3, KeysStopForReason DEF Keys!FocusLost
  <2> HIDE DEF t
  <2>2. DOMAIN t = KeysFields /\ DOMAIN t.page = SessionFields
    BY <2>1 DEF KeysGood
  <2>3. PageMoves(t, s')
    BY <2>1, <2>2 DEF PageMoves, KeysFields, MaskOn
  <2> QED BY <2>1, <2>3, KeysPage
<1>4. CASE Keys!HostDies
  <2> DEFINE e == Keys!Command("closed", 0)
             none == [r \in Keys!Reqs |-> <<>>]
  <2>1. e \in KeysCommands /\ e.kind = "closed"
    BY OfCommand
  <2>2. s' = [s EXCEPT !.host = FALSE, !.mounted = FALSE, !.bridge = FALSE, !.page = Keys!NoSession,
                       !.calls = <<>>, !.line = Append(@, e), !.denied = {}, !.out = none]
    BY <1>4 DEF Keys!HostDies
  <2>3. none \in [Keys!Reqs -> Seq(Signals)]
    OBVIOUS
  <2> HIDE DEF e, none
  <2>4. /\ DOMAIN s' = KeysFields /\ s'.page = Keys!NoSession /\ s'.started = s.started
        /\ s'.child = s.child /\ s'.line = Append(s.line, e) /\ s'.out = none /\ s'.due = s.due
        /\ s'.calls = <<>>
    BY <1>1, <2>2 DEF KeysFields
  <2>5. /\ Append(s.line, e) \in Seq(KeysCommands)
        /\ Of(Append(s.line, e), "heartbeat") = Of(s.line, "heartbeat") \cup
             (IF e.kind = "heartbeat" THEN {e.req} ELSE {})
    BY <1>1, <2>1, OfAppend
  <2>6. Of(s'.line, "heartbeat") = Of(s.line, "heartbeat")
    BY <2>1, <2>4, <2>5
  <2>7. <<>> \in Seq(KeysCommands) /\ Of(<<>>, "start") = {} /\ Of(<<>>, "heartbeat") = {}
    BY OfNothing
  <2>8. ~MaskOn(s') /\ DOMAIN s'.page = SessionFields /\ s'.page.req \in 0 .. s.started
    BY <1>1, <2>4, SessionLess DEF MaskOn
  <2>9. Follows(s, s')
    BY <1>1, <2>3, <2>4, <2>5, <2>6, <2>7, <2>8 DEF Follows
  <2> QED BY <2>9, KeysFollow
<1> QED BY <1>2, <1>3, <1>4

\* The helper changes; what the page and the adapter keep does not.
LEMMA KeysHelper ==
  ASSUME NEW t, KeysGood(t), NEW u, DOMAIN u = KeysFields, u.started = t.started, u.page = t.page,
         u.calls = t.calls, u.line \in Seq(KeysCommands), u.out \in [Keys!Reqs -> Seq(Signals)],
         NEW d, u.child = {d}, HelperGood(u, d)
  PROVE  KeysGood(u)
BY DEF KeysGood

\* A helper that is not over can have been alone no longer than the grace.
LEMMA KeysAlone ==
  ASSUME NEW t, NEW c, HelperGood(t, c), c.stage \in {"spawned", "on"}
  PROVE  c.alone <= Grace
<1>1. Grace \in Nat
  BY BoundsAssumption
<1> QED BY <1>1 DEF HelperGood

\* A helper that ends lets the keyboard go.
LEMMA KeysEnds ==
  ASSUME KeysGood(s), NEW c \in s.child, c.stage \in {"spawned", "on"},
         NEW t, DOMAIN t = KeysFields, t.started = s.started, t.page = s.page, t.calls = s.calls,
         t.line \in Seq(KeysCommands), t.out = s.out,
         NEW signals \in Seq(Signals), Keys!Ends(t, c, signals)
  PROVE  KeysGood(s)'
<1>1. PICK ok \in BOOLEAN :
        s' = Keys!Say([t EXCEPT !.child = {[c EXCEPT !.stage = "ending", !.tap = ~ok]}, !.due = @ \ {"poll"}],
                      c.req, Append(signals, Keys!Released(ok)))
  BY DEF Keys!Ends
<1> DEFINE d == [c EXCEPT !.stage = "ending", !.tap = ~ok]
           u == [t EXCEPT !.child = {d}, !.due = @ \ {"poll"}]
<1>2. HelperGood(s, c) /\ c.alone <= Grace
  BY KeysAlone DEF KeysGood
<1>3. /\ DOMAIN d = HelperFields /\ d.req = c.req /\ d.stage = "ending" /\ d.heard = c.heard
      /\ d.alone = c.alone
  BY <1>2 DEF HelperGood, HelperFields
<1> HIDE DEF d
<1>4. /\ DOMAIN u = KeysFields /\ u.started = s.started /\ u.page = s.page /\ u.calls = s.calls
      /\ u.line = t.line /\ u.out = s.out /\ u.child = {d}
  BY DEF KeysFields
<1>5. s' = Keys!Say(u, c.req, Append(signals, Keys!Released(ok)))
  BY <1>1 DEF d
<1> HIDE DEF u
<1>6. c.req \in Keys!Reqs /\ s.out \in [Keys!Reqs -> Seq(Signals)]
  <2>1. Sessions \in Nat /\ s.started \in Nat /\ s.started <= Sessions /\ c.req \in 1 .. s.started
    BY <1>2, BoundsAssumption DEF KeysGood, HelperGood
  <2> QED BY <2>1 DEF Keys!Reqs, KeysGood
<1> DEFINE q == Append(signals, Keys!Released(ok))
           v == Keys!Say(u, c.req, q)
<1>7. q \in Seq(Signals)
  BY SignalsSaid, AppendProperties
<1>70. s' = v
  BY <1>5
<1> HIDE DEF q
<1>71. u.out \in [Keys!Reqs -> Seq(Signals)]
  BY <1>4, <1>6
<1>72. /\ DOMAIN v = KeysFields /\ v.out \in [Keys!Reqs -> Seq(Signals)]
       /\ v.page = u.page /\ v.started = u.started /\ v.child = u.child /\ v.line = u.line
       /\ v.calls = u.calls
  <2>1. DOMAIN u = KeysFields /\ c.req \in Keys!Reqs
    BY <1>4, <1>6
  <2> QED BY <2>1, <1>7, <1>71, KeysSay
<1> HIDE DEF v
<1>8. /\ DOMAIN s' = KeysFields /\ s'.out \in [Keys!Reqs -> Seq(Signals)]
      /\ s'.page = s.page /\ s'.started = s.started /\ s'.child = {d} /\ s'.line = t.line
      /\ s'.calls = s.calls
  BY <1>4, <1>70, <1>72
<1>9. HelperGood(s', d)
  BY <1>2, <1>3, <1>8 DEF HelperGood
<1> QED BY <1>8, <1>9, KeysHelper

\* What holds of a helper while it runs.
LEMMA KeysInReqs ==
  ASSUME KeysGood(s), NEW c \in s.child
  PROVE  /\ HelperGood(s, c) /\ c.req \in Keys!Reqs /\ s.out \in [Keys!Reqs -> Seq(Signals)]
         /\ s.line \in Seq(KeysCommands) /\ DOMAIN s = KeysFields
<1>1. Sessions \in Nat /\ s.started \in Nat /\ s.started <= Sessions /\ c.req \in 1 .. s.started
  BY BoundsAssumption DEF KeysGood, HelperGood
<1> QED BY <1>1 DEF Keys!Reqs, KeysGood

\* A helper that says something and is d from then on.
LEMMA KeysSays ==
  ASSUME KeysGood(s), NEW c \in s.child, NEW d, d.req = c.req,
         NEW u, DOMAIN u = KeysFields, u.started = s.started, u.page = s.page, u.calls = s.calls,
         u.line \in Seq(KeysCommands), u.out = s.out, u.child = {d}, HelperGood(u, d),
         NEW signals \in Seq(Signals), s' = Keys!Say(u, c.req, signals)
  PROVE  KeysGood(s)'
<1> DEFINE v == Keys!Say(u, c.req, signals)
<1>1. c.req \in Keys!Reqs /\ u.out \in [Keys!Reqs -> Seq(Signals)]
  BY KeysInReqs
<1>2. /\ DOMAIN v = KeysFields /\ v.out \in [Keys!Reqs -> Seq(Signals)]
      /\ v.page = u.page /\ v.started = u.started /\ v.child = u.child /\ v.line = u.line
      /\ v.calls = u.calls /\ v.due = u.due
  BY <1>1, KeysSay
<1>3. s' = v
  OBVIOUS
<1> HIDE DEF v
<1>4. HelperGood(s', d)
  BY <1>2, <1>3 DEF HelperGood, Abandoned, MaskOn
<1> QED BY <1>2, <1>3, <1>4, KeysHelper

\* The helper installs its tap, or says that it could not.
LEMMA KeysInstall == ASSUME KeysGood(s), Keys!Install PROVE KeysGood(s)'
<1>1. PICK c \in s.child :
        /\ c.stage = "spawned"
        /\ \/ s' = Keys!Say([s EXCEPT !.child = {[c EXCEPT !.stage = "on", !.tap = TRUE]},
                                      !.tapped = @ \cup {c.req}],
                            c.req, <<[kind |-> "ready", able |-> TRUE]>>)
           \/ s' = Keys!Say([s EXCEPT !.child = {[c EXCEPT !.stage = "ending"]}], c.req,
                            <<[kind |-> "ready", able |-> FALSE], Keys!Released(TRUE)>>)
           \/ Keys!Ends(s, c, <<Keys!Signal("hook_ineffective")>>)
  BY DEF Keys!Install
<1>2. HelperGood(s, c) /\ s.line \in Seq(KeysCommands) /\ DOMAIN s = KeysFields /\ c.heard = 0 /\ c.alone = 0
  BY <1>1, KeysInReqs DEF HelperGood
<1>3. Grace \in Nat \ {0}
  BY BoundsAssumption
<1>4. CASE Keys!Ends(s, c, <<Keys!Signal("hook_ineffective")>>)
  <2> DEFINE q == <<Keys!Signal("hook_ineffective")>>
  <2>1. q \in Seq(Signals) /\ Keys!Ends(s, c, q)
    BY <1>4, SignalsSaid
  <2> HIDE DEF q
  <2> QED BY <1>1, <1>2, <2>1, KeysEnds
<1>5. CASE s' = Keys!Say([s EXCEPT !.child = {[c EXCEPT !.stage = "on", !.tap = TRUE]},
                                   !.tapped = @ \cup {c.req}],
                         c.req, <<[kind |-> "ready", able |-> TRUE]>>)
  <2> DEFINE d == [c EXCEPT !.stage = "on", !.tap = TRUE]
             u == [s EXCEPT !.child = {d}, !.tapped = @ \cup {c.req}]
             q == <<[kind |-> "ready", able |-> TRUE]>>
  <2>1. q \in Seq(Signals) /\ s' = Keys!Say(u, c.req, q)
    BY <1>5, SignalsSaid
  <2>2. DOMAIN d = HelperFields /\ d.req = c.req /\ d.stage = "on" /\ d.heard = 0 /\ d.alone = 0
    BY <1>2 DEF HelperGood, HelperFields
  <2> HIDE DEF d, q
  <2>3. /\ DOMAIN u = KeysFields /\ u.started = s.started /\ u.page = s.page /\ u.calls = s.calls
        /\ u.line = s.line /\ u.out = s.out /\ u.child = {d} /\ u.due = s.due
    BY <1>2 DEF KeysFields
  <2> HIDE DEF u
  <2>4. HelperGood(u, d)
    BY <1>2, <1>3, <2>2, <2>3 DEF HelperGood
  <2> QED BY <1>2, <2>1, <2>2, <2>3, <2>4, KeysSays
<1>6. CASE s' = Keys!Say([s EXCEPT !.child = {[c EXCEPT !.stage = "ending"]}], c.req,
                         <<[kind |-> "ready", able |-> FALSE], Keys!Released(TRUE)>>)
  <2> DEFINE d == [c EXCEPT !.stage = "ending"]
             u == [s EXCEPT !.child = {d}]
             q == <<[kind |-> "ready", able |-> FALSE], Keys!Released(TRUE)>>
  <2>1. q \in Seq(Signals) /\ s' = Keys!Say(u, c.req, q)
    BY <1>6, SignalsSaid
  <2>2. DOMAIN d = HelperFields /\ d.req = c.req /\ d.stage = "ending" /\ d.heard = 0 /\ d.alone = 0
    BY <1>2 DEF HelperGood, HelperFields
  <2> HIDE DEF d, q
  <2>3. /\ DOMAIN u = KeysFields /\ u.started = s.started /\ u.page = s.page /\ u.calls = s.calls
        /\ u.line = s.line /\ u.out = s.out /\ u.child = {d} /\ u.due = s.due
    BY <1>2 DEF KeysFields
  <2> HIDE DEF u
  <2>4. HelperGood(u, d)
    BY <1>2, <1>3, <2>2, <2>3 DEF HelperGood
  <2> QED BY <1>2, <2>1, <2>2, <2>3, <2>4, KeysSays
<1> QED BY <1>1, <1>4, <1>5, <1>6

\* The helper's own timer looks at what it waited for.
LEMMA KeysPoll == ASSUME KeysGood(s), Keys!Poll PROVE KeysGood(s)'
<1> DEFINE t == [s EXCEPT !.due = @ \ {"poll"}]
<1>1. PICK c \in s.child :
        /\ c.stage = "on"
        /\ \/ Keys!Ends(t, c, <<Keys!Signal("hook_ineffective")>>)
           \/ Keys!Ends(t, c, <<Keys!Signal("heartbeat"), Keys!Signal("lifecycle")>>)
           \/ c.heard < Grace /\ s' = Keys!Say(t, c.req, <<Keys!Signal("heartbeat")>>)
  <2>1. PICK c \in s.child :
          /\ c.stage = "on"
          /\ \/ Keys!Ends(t, c, <<Keys!Signal("hook_ineffective")>>)
             \/ Keys!Ends(t, c, <<Keys!Signal("heartbeat"), Keys!Signal("lifecycle")>>)
             \/ ~Keys!HostIsSilent(c) /\ s' = Keys!Say(t, c.req, <<Keys!Signal("heartbeat")>>)
    BY DEF Keys!Poll
  <2>2. Grace \in Nat /\ c.heard \in Nat
    BY <2>1, BoundsAssumption, KeysInReqs DEF HelperGood
  <2> QED BY <2>1, <2>2 DEF Keys!HostIsSilent
<1>2. HelperGood(s, c) /\ s.line \in Seq(KeysCommands) /\ DOMAIN s = KeysFields
  BY KeysInReqs
<1>3. /\ DOMAIN t = KeysFields /\ t.started = s.started /\ t.page = s.page /\ t.calls = s.calls
      /\ t.line = s.line /\ t.out = s.out /\ t.child = s.child
  BY <1>2 DEF KeysFields
<1>4. ASSUME NEW q \in Seq(Signals), Keys!Ends(t, c, q) PROVE KeysGood(s')
  <2> HIDE DEF t
  <2> QED BY <1>1, <1>2, <1>3, <1>4, KeysEnds
<1>5. CASE c.heard < Grace /\ s' = Keys!Say(t, c.req, <<Keys!Signal("heartbeat")>>)
  <2> DEFINE q == <<Keys!Signal("heartbeat")>>
  <2>1. q \in Seq(Signals) /\ s' = Keys!Say(t, c.req, q)
    BY <1>5, SignalsSaid
  <2> HIDE DEF t, q
  <2>2. t.child = {c}
    BY <1>3 DEF KeysGood
  <2>3. HelperGood(t, c)
    BY <1>2, <1>3, <1>5 DEF HelperGood, Abandoned, MaskOn
  <2> QED BY <1>2, <1>3, <2>1, <2>2, <2>3, KeysSays
<1>6. /\ <<Keys!Signal("hook_ineffective")>> \in Seq(Signals)
      /\ <<Keys!Signal("heartbeat"), Keys!Signal("lifecycle")>> \in Seq(Signals)
  BY SignalsSaid
<1> HIDE DEF t
<1> QED BY <1>1, <1>4, <1>5, <1>6

\* The pointer moves, or the system takes the tap away.
LEMMA KeysInputSteps == ASSUME KeysGood(s), Keys!MouseMoves \/ Keys!TapStops PROVE KeysGood(s)'
<1>1. PICK c \in s.child, kind \in {"lifecycle", "hook_ineffective"} :
        c.stage = "on" /\ Keys!Ends(s, c, <<Keys!Signal(kind)>>)
  BY DEF Keys!MouseMoves, Keys!TapStops
<1> DEFINE q == <<Keys!Signal(kind)>>
<1>2. q \in Seq(Signals) /\ Keys!Ends(s, c, q)
  BY <1>1, SignalsSaid
<1> HIDE DEF q
<1>3. s.line \in Seq(KeysCommands) /\ DOMAIN s = KeysFields
  BY KeysInReqs
<1> QED BY <1>1, <1>2, <1>3, KeysEnds

\* The helper reads the next command.
LEMMA KeysRead == ASSUME KeysGood(s), Keys!Read PROVE KeysGood(s)'
<1> DEFINE t == [s EXCEPT !.line = Tail(@)]
           command == Head(s.line)
<1>0. s.line # <<>>
  BY DEF Keys!Read
<1>1. PICK c \in s.child :
        /\ c.stage = "on"
        /\ \/ command.kind = "heartbeat" /\ s' = [t EXCEPT !.child = {[c EXCEPT !.heard = 0]}]
           \/ Keys!Ends(t, c, <<>>)
           \/ Keys!Ends(t, c, <<Keys!Signal("lifecycle")>>)
  BY DEF Keys!Read
<1>2. HelperGood(s, c) /\ s.line \in Seq(KeysCommands) /\ DOMAIN s = KeysFields
  BY KeysInReqs
<1>3. /\ DOMAIN t = KeysFields /\ t.started = s.started /\ t.page = s.page /\ t.calls = s.calls
      /\ t.line = Tail(s.line) /\ t.out = s.out /\ t.child = s.child /\ t.due = s.due
  BY <1>2 DEF KeysFields
<1>4. /\ Tail(s.line) \in Seq(KeysCommands) /\ command \in KeysCommands
      /\ command.req \in Of(s.line, command.kind)
  BY <1>0, <1>2, OfTail
<1> HIDE DEF t, command
<1>5. ASSUME NEW q \in Seq(Signals), Keys!Ends(t, c, q) PROVE KeysGood(s')
  BY <1>1, <1>3, <1>4, <1>5, KeysEnds
<1>6. CASE command.kind = "heartbeat" /\ s' = [t EXCEPT !.child = {[c EXCEPT !.heard = 0]}]
  <2> DEFINE d == [c EXCEPT !.heard = 0]
  <2>1. c.alone = 0
    <3>1. Of(s.line, "heartbeat") # {}
      BY <1>4, <1>6
    <3> QED BY <1>1, <1>2, <3>1 DEF HelperGood, Abandoned
  <2>2. /\ DOMAIN d = HelperFields /\ d.req = c.req /\ d.stage = "on" /\ d.heard = 0 /\ d.alone = 0
    BY <1>1, <1>2, <2>1 DEF HelperGood, HelperFields
  <2> HIDE DEF d
  <2>3. /\ DOMAIN s' = KeysFields /\ s'.started = s.started /\ s'.page = s.page /\ s'.calls = s.calls
        /\ s'.line = Tail(s.line) /\ s'.out = s.out /\ s'.child = {d}
    BY <1>3, <1>6 DEF KeysFields, d
  <2>4. Grace \in Nat \ {0}
    BY BoundsAssumption
  <2>5. HelperGood(s', d)
    BY <1>2, <2>2, <2>3, <2>4 DEF HelperGood
  <2>6. s'.line \in Seq(KeysCommands) /\ s'.out \in [Keys!Reqs -> Seq(Signals)]
    BY <1>4, <2>3, KeysInReqs
  <2> QED BY <2>3, <2>5, <2>6, KeysHelper
<1>7. <<>> \in Seq(Signals) /\ <<Keys!Signal("lifecycle")>> \in Seq(Signals)
  BY SignalsSaid
<1> QED BY <1>1, <1>5, <1>6, <1>7

\* The helper exits.
LEMMA KeysExits == ASSUME KeysGood(s), Keys!HelperExits PROVE KeysGood(s)'
<1> DEFINE q(c) == IF c.stage = "ending" THEN <<>>
                   ELSE Keys!Lost
           d(c) == [c EXCEPT !.stage = "gone", !.tap = FALSE]
           u(c) == [s EXCEPT !.child = {d(c)}, !.line = <<>>]
<1>1. PICK c \in s.child : s' = Keys!Say(u(c), c.req, q(c))
  BY DEF Keys!HelperExits
<1>2. HelperGood(s, c) /\ s.line \in Seq(KeysCommands) /\ DOMAIN s = KeysFields
  BY KeysInReqs
<1>3. q(c) \in Seq(Signals)
  BY SignalsSaid DEF Keys!Lost
<1>4. /\ DOMAIN d(c) = HelperFields /\ d(c).req = c.req /\ d(c).stage = "gone" /\ d(c).tap = FALSE
      /\ d(c).heard = c.heard /\ d(c).alone = c.alone
  BY <1>2 DEF HelperGood, HelperFields
<1> DEFINE dd == d(c)
           uu == [s EXCEPT !.child = {dd}, !.line = <<>>]
           qq == q(c)
<1>5. s' = Keys!Say(uu, c.req, qq)
  BY <1>1
<1>6. qq \in Seq(Signals) /\ DOMAIN dd = HelperFields /\ dd.req = c.req /\ dd.stage = "gone"
      /\ dd.tap = FALSE /\ dd.heard = c.heard /\ dd.alone = c.alone
  BY <1>3, <1>4
<1> HIDE DEF dd, qq
<1>7. /\ DOMAIN uu = KeysFields /\ uu.started = s.started /\ uu.page = s.page /\ uu.calls = s.calls
      /\ uu.line = <<>> /\ uu.out = s.out /\ uu.child = {dd}
  BY <1>2 DEF KeysFields
<1> HIDE DEF uu
<1>8. HelperGood(uu, dd)
  BY <1>2, <1>6, <1>7 DEF HelperGood
<1>9. uu.line \in Seq(KeysCommands)
  BY <1>7, OfNothing
<1> QED BY <1>5, <1>6, <1>7, <1>8, <1>9, KeysSays

\* A second makes a helper older.
Aged(c) ==
  [c EXCEPT !.left = Keys!Less(@), !.heard = Keys!More(@), !.alone = Keys!Alone(c)]

\* A helper whose clock goes on stays in order.
LEMMA KeysAged ==
  ASSUME KeysGood(s), NEW c \in s.child, c.stage \in {"on", "gone"},
         c.stage = "on" => "poll" \notin s.due,
         s.calls = <<>>, s.line = <<>>,
         NEW u, u.started = s.started, MaskOn(u) <=> MaskOn(s), u.page.req = s.page.req,
         u.calls = s.calls, u.line = s.line, c.stage = "on" => "poll" \in u.due
  PROVE  HelperGood(u, Aged(c))
<1> DEFINE d == Aged(c)
           left == Keys!Less(c.left)
           heard == Keys!More(c.heard)
           alone == Keys!Alone(c)
<1>1. HelperGood(s, c) /\ Grace \in Nat
  BY KeysInReqs, BoundsAssumption
<1>2. c.heard \in Nat /\ c.alone \in Nat /\ (c.stage = "on" => c.heard < Grace)
  BY <1>1 DEF HelperGood
<1>3. heard \in Nat /\ (c.stage = "on" => heard = c.heard + 1)
  BY <1>1, <1>2 DEF Keys!More
<1>4. alone \in Nat
  BY <1>1, <1>2 DEF Keys!Alone, Keys!More
<1>5. d = [c EXCEPT !.left = left, !.heard = heard, !.alone = alone]
  BY <1>1 DEF Aged, HelperGood, HelperFields
<1>6. alone > 0 => c.tap /\ ~(MaskOn(s) /\ s.page.req = c.req) /\ alone = Keys!More(c.alone)
  BY <1>4 DEF Keys!Alone, Keys!Masked, MaskOn
<1> HIDE DEF d, left, heard, alone
<1>7. /\ DOMAIN d = HelperFields /\ d.req = c.req /\ d.stage = c.stage /\ d.tap = c.tap
      /\ d.heard = heard /\ d.alone = alone
  BY <1>1, <1>5 DEF HelperGood, HelperFields
<1>8. ASSUME c.stage = "on", alone > 0 PROVE alone <= heard /\ Abandoned(u, d)
  <2>1. alone <= heard
    <3>1. c.alone > 0 => c.alone <= c.heard
      BY <1>1, <1>8 DEF HelperGood
    <3> QED BY <1>1, <1>2, <1>3, <1>6, <1>8, <3>1 DEF Keys!More
  <2>2. Abandoned(u, d)
    BY <1>6, <1>7, <1>8, OfNothing DEF Abandoned
  <2> QED BY <2>1, <2>2
<1>9. c.stage = "on" => heard <= Grace
  BY <1>1, <1>2, <1>3
<1>10. d.tap => d.alone <= Grace
  <2>1. c.stage = "gone" => c.tap = FALSE
    BY <1>1 DEF HelperGood
  <2>2. alone = 0 => alone <= Grace
    BY <1>1
  <2>3. alone > 0 /\ c.stage = "on" => alone <= Grace
    BY <1>1, <1>3, <1>4, <1>8, <1>9
  <2> QED BY <1>4, <1>7, <2>1, <2>2, <2>3
<1>11. HelperGood(u, d)
  BY <1>1, <1>3, <1>4, <1>7, <1>8, <1>9, <1>10 DEF HelperGood
<1> QED BY <1>11 DEF d

\* Time passes.
LEMMA KeysPass == ASSUME KeysGood(s), Keys!Pass PROVE KeysGood(s)'
<1> DEFINE page == [s.page EXCEPT !.prep = Keys!Less(@), !.left = Keys!Less(@),
                                  !.beat = IF Keys!Cleaning(s.page) THEN Keys!More(@) ELSE @]
           child == {Aged(c) : c \in s.child}
           t == [s EXCEPT !.page = page, !.child = child]
           v == IF s.mounted THEN Keys!Advance(t) ELSE t
           w == [t EXCEPT !.due = Keys!Due(t)]
<1>1. /\ DOMAIN s = KeysFields /\ DOMAIN s.page = SessionFields
      /\ s.started \in Nat /\ s.started <= Sessions /\ s.page.req \in 0 .. s.started
      /\ s.out \in [Keys!Reqs -> Seq(Signals)] /\ \A c, d \in s.child : c = d
  BY DEF KeysGood
<1>2. s' = [v EXCEPT !.due = Keys!Due(t)]
  <2> DEFINE t0 == [s EXCEPT !.page.prep = Keys!Less(@), !.page.left = Keys!Less(@),
                             !.page.beat = IF Keys!Cleaning(s.page) THEN Keys!More(@) ELSE @,
                             !.child = {[c EXCEPT !.left = Keys!Less(@), !.heard = Keys!More(@),
                                                  !.alone = Keys!Alone(c)] : c \in @}]
  <2>1. s' = [(IF s.mounted THEN Keys!Advance(t0) ELSE t0) EXCEPT !.due = Keys!Due(t0)]
    BY DEF Keys!Pass
  <2>2. t0 = t
    BY <1>1 DEF Aged, KeysFields, SessionFields
  <2> HIDE DEF t0, t
  <2> QED BY <2>1, <2>2
<1>3. DOMAIN page = SessionFields /\ page.req = s.page.req /\ page.status = s.page.status
  BY <1>1 DEF SessionFields
<1>4. /\ s.calls = <<>> /\ (s.child = {} \/ s.line = <<>>)
      /\ \A c \in s.child : c.stage \in {"on", "gone"} /\ (c.stage = "on" => "poll" \notin s.due)
  BY DEF Keys!Pass
<1> HIDE DEF page, child
<1>5. /\ DOMAIN t = KeysFields /\ t.page = page /\ t.child = child /\ t.started = s.started
      /\ t.calls = s.calls /\ t.line = s.line /\ t.out = s.out
  BY <1>1 DEF KeysFields
<1>6. PageMoves(t, v)
  <2> HIDE DEF t
  <2>1. PageMoves(t, t)
    BY <1>3, <1>5 DEF PageMoves
  <2>2. PageMoves(t, Keys!Advance(t))
    BY <1>3, <1>5, KeysAdvance
  <2> QED BY <2>1, <2>2
<1> DEFINE due == Keys!Due(t)
<1>7. \A c \in s.child : c.stage = "on" => "poll" \in due
  <2> SUFFICES ASSUME NEW c \in s.child, c.stage = "on" PROVE "poll" \in due
    OBVIOUS
  <2>1. Aged(c) \in t.child /\ Aged(c).stage = "on"
    <3>1. HelperGood(s, c)
      BY KeysInReqs
    <3> QED BY <1>5, <3>1 DEF child, Aged, HelperGood, HelperFields
  <2> HIDE DEF t
  <2> QED BY <2>1 DEF Keys!Due
<1>8. w = [t EXCEPT !.due = due] /\ s' = [v EXCEPT !.due = due]
  BY <1>2
<1> HIDE DEF t, v, w, due
<1>9. /\ DOMAIN w = KeysFields /\ w.page = page /\ w.child = child /\ w.started = s.started
      /\ w.calls = s.calls /\ w.line = s.line /\ w.out = s.out /\ w.due = due
  BY <1>5, <1>8 DEF KeysFields
<1>10. PageMoves(w, s')
  BY <1>5, <1>6, <1>8, <1>9 DEF PageMoves, MaskOn, KeysFields
<1>11. KeysGood(w)
  <2>1. MaskOn(w) <=> MaskOn(s)
    BY <1>3, <1>9 DEF MaskOn
  <2>2. ASSUME NEW c \in s.child PROVE HelperGood(w, Aged(c))
    BY <1>3, <1>4, <1>7, <1>9, <2>1, <2>2, KeysAged
  <2>3. \A c, d \in w.child : c = d
    BY <1>1, <1>9 DEF child
  <2>4. \A d \in w.child : HelperGood(w, d)
    BY <1>9, <2>2 DEF child
  <2>5. /\ w.calls \in Seq(KeysCommands) /\ w.line \in Seq(KeysCommands)
        /\ Of(w.calls, "start") \subseteq 1 .. w.started
    BY <1>9 DEF KeysGood
  <2> QED BY <1>1, <1>3, <1>9, <2>3, <2>4, <2>5 DEF KeysGood
<1> QED BY <1>10, <1>11, KeysPage

\* The cleaning of the keyboard starts so.
LEMMA KeysStarts == ASSUME Keys!Init PROVE KeysGood(s)
<1>1. /\ DOMAIN s = KeysFields /\ s.page = Keys!NoSession /\ s.child = {} /\ s.calls = <<>> /\ s.line = <<>>
      /\ s.out = [r \in Keys!Reqs |-> <<>>] /\ s.started = 0
  BY DEF Keys!Init, KeysFields
<1>2. s.out \in [Keys!Reqs -> Seq(Signals)]
  BY <1>1
<1>3. Sessions \in Nat
  BY BoundsAssumption
<1> QED BY <1>1, <1>2, <1>3, OfNothing, SessionLess DEF KeysGood

\* Every step of it keeps the invariant.
LEMMA KeysSteps == ASSUME KeysGood(s), Keys!Next PROVE KeysGood(s)'
BY KeysPageSteps, KeysStart, KeysBeat, KeysHear, KeysDenied, KeysServe, KeysHostSteps, KeysInstall,
   KeysPoll, KeysInputSteps, KeysRead, KeysExits, KeysPass
   DEF Keys!Next

\* No tap stays on longer than the grace once nobody is shown its mask.
LEMMA KeysHold == ASSUME KeysGood(s) PROVE Keys!KeysComeBack
BY DEF KeysGood, HelperGood, Keys!KeysComeBack
=============================================================================
