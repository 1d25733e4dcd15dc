----------------------------- MODULE BinaryPatch -----------------------------
(***************************************************************************)
(* The tools for binary patches (src/toolbox/binary-patch) with the native *)
(* jobs they run in (src-tauri/src/toolbox_service.rs).  A run of a tool   *)
(* starts a job, reads its inputs, computes, gives the inputs back and     *)
(* registers its output, which waits to be saved or given up; the user or  *)
(* a deadline may end the run at any point of this.                        *)
(*                                                                         *)
(* The service serves the calls of the window in the order they were made. *)
(* Sizes are in units of which a target has four.  A behaviour is about    *)
(* these runs, or about the archive that the planner writes.               *)
(***************************************************************************)
EXTENDS Integers, Sequences, FiniteSets, Functions, SequencesExt

CONSTANTS
  MaxJobs,   \* bound of the model: runs of the tools
  MaxTurns   \* bound of the model: operations of the user, and lapses of time

VARIABLE s

None == 0
Nothing == [cmd |-> "none"]
Idle == [stage |-> "idle"]

----------------------------------------------------------------------------
(* The planner: patches from several baselines to one target.              *)

Target == 4
Baseline == 1
ArtifactBudget == 5
WorkingSetLimit == 33
CollectionLimit == 10
Failed == 0
Outcomes == {Failed, 1, 3, 4}   \* of a baseline: its patch has this size

EstimatePlannerWorkingSetBytes(current, patch, artifacts) ==
  Target + current + artifacts + 3 * Target + 2 * current + 2 * patch

\* A patch is kept unless it is more than four fifths of the target, or one budget has no room for it.
PlanItem(plan, name, outcome) ==
  LET result(status, patch) == [name |-> name, status |-> status, patch |-> patch]
      size == plan.artifacts + outcome
  IN IF outcome = Failed THEN [plan EXCEPT !.results = Append(@, result("failed", 0))]
     ELSE IF 5 * outcome > 4 * Target THEN [plan EXCEPT !.results = Append(@, result("ratio_exceeded", 0))]
     ELSE IF size > ArtifactBudget \/ EstimatePlannerWorkingSetBytes(Baseline, outcome, size) > WorkingSetLimit
     THEN [plan EXCEPT !.excluded = Append(@, name)]
     ELSE [plan EXCEPT !.artifacts = size, !.results = Append(@, result("verified", outcome))]

NoPlan == [results |-> <<>>, excluded |-> <<>>, artifacts |-> 0]
PlanPatchSources(outcomes) ==
  LET plan[n \in 0..Len(outcomes)] == IF n = 0 THEN NoPlan ELSE PlanItem(plan[n - 1], n, outcomes[n])
  IN plan[Len(outcomes)]

VerifiedOf(plan) == {i \in DOMAIN plan.results : plan.results[i].status = "verified"}

\* The archive has the target and each verified patch, and one unit for its list.
EstimateStoredZipBytes(plan) == Target + plan.artifacts + 1
CreatePatchCollection(plan) ==
  EstimateStoredZipBytes(plan) <= CollectionLimit /\ 3 * EstimateStoredZipBytes(plan) <= WorkingSetLimit

----------------------------------------------------------------------------
(* The native jobs.                                                        *)

Terminal == {"completed", "cancelled", "expired", "failed"}
Held == {"output_ready", "exporting"}

StartTools ==
  [of |-> "tools", jobs |-> <<>>, calls |-> <<>>, reading |-> {}, run |-> Idle, late |-> {}, cleanup |-> Nothing,
       output |-> None, exporting |-> None, told |-> "nothing", plan |-> NoPlan, turns |-> MaxTurns]

Spend == [s EXCEPT !.turns = @ - 1]
Ask(t, cmd, job) == [t EXCEPT !.calls = Append(@, [cmd |-> cmd, job |-> job])]

\* Inputs that are being read are not given up, and the job stops when they are.
Released(t, job, status) == IF job \in t.reading THEN "stopping" ELSE status

Cancel(t, job) ==
  [t EXCEPT !.jobs[job].status = IF @ \in Terminal THEN @ ELSE Released(t, job, "cancelled")]

Finish(t, job, status) ==
  [t EXCEPT !.jobs[job].status = IF @ \in Terminal THEN @ ELSE Released(t, job, status)]

RegisterOutput(t, job) == [t EXCEPT !.jobs[job].status = "output_ready", !.jobs[job].bytes = TRUE]

CancelOutput(t, job) ==
  IF t.jobs[job].status = "output_ready"
  THEN [t EXCEPT !.jobs[job].status = "cancelled", !.jobs[job].bytes = FALSE] ELSE t

\* What has waited too long expires, and a job that was stopping is cancelled once nothing is read.
Reconcile ==
  /\ s.turns > 0
  /\ \/ \E job \in DOMAIN s.jobs :
          /\ s.jobs[job].status \in Held
          /\ s' = [Spend EXCEPT !.jobs[job].status = "expired", !.jobs[job].bytes = FALSE]
     \/ \E job \in DOMAIN s.jobs :
          /\ s.jobs[job].status = "stopping" /\ job \notin s.reading
          /\ s' = [Spend EXCEPT !.jobs[job].status = "cancelled"]

ReadEnds == \E job \in s.reading : s' = [s EXCEPT !.reading = @ \ {job}]

----------------------------------------------------------------------------
(* A run of a tool.                                                        *)

Run(tool) ==
  /\ Len(s.jobs) < MaxJobs /\ s.run = Idle /\ s.cleanup = Nothing /\ s.output = None
  /\ s' = [s EXCEPT !.jobs = Append(@, [status |-> "running", bytes |-> FALSE, claim |-> "none", exact |-> FALSE]),
                    !.run = [stage |-> "read", tool |-> tool, job |-> Len(s.jobs) + 1],
                    !.reading = @ \cup {Len(s.jobs) + 1}, !.told = "nothing", !.plan = NoPlan]

InputsAreRead ==
  /\ s.run.stage = "read" /\ s.run.job \notin s.reading
  /\ s' = [s EXCEPT !.run.stage = "compute"]

\* The run is over for the window, and the job is to be ended with it.
EndRun(t, why) ==
  Ask([t EXCEPT !.run = [stage |-> "ending", why |-> why, job |-> t.run.job], !.output = None],
      IF why = "cancelled" THEN "cancel" ELSE "fail", t.run.job)

Registering(t) == Ask([t EXCEPT !.run.stage = "register"], "register", t.run.job)

\* What applying a patch meets: inputs within the limits, a patch that may be
\* applied, the word of the library, and whether the result is the target.
Trials == [fits : BOOLEAN, supported : BOOLEAN, verifies : BOOLEAN, same : BOOLEAN]

\* Fault: the word of the library is enough.
ApplyPatchAndBelieve(trial, expected) ==
  CASE ~trial.fits \/ ~trial.supported -> "failed"
    [] ~expected -> "unverified"
    [] OTHER -> IF trial.verifies THEN "verified" ELSE "failed"

ApplyPatchAndVerify(trial, expected) ==
  CASE ~trial.fits \/ ~trial.supported -> "failed"
    [] ~expected -> "unverified"
    [] OTHER -> IF trial.verifies /\ trial.same THEN "verified" ELSE "failed"

\* A generated patch is applied and compared with the target before it is anything.
GenerateVerifiedPatch(generated, trial) == IF generated THEN ApplyPatchAndVerify(trial, TRUE) ELSE "failed"

\* The manifest says of its patch what applying it gave.
Manifest(trial) == IF ApplyPatchAndVerify(trial, TRUE) = "verified" THEN "verified" ELSE "unverified"

Claiming(t, claim, same) == [t EXCEPT !.jobs[t.run.job].claim = claim, !.jobs[t.run.job].exact = same]

\* A restored file that nothing is compared with goes on only if the user says so.
Compute ==
  /\ s.run.stage = "compute"
  /\ \/ s' = EndRun(s, "failed")
     \/ /\ s.run.tool = "create"
        /\ \E generated \in BOOLEAN, trial \in Trials :
             LET claim == GenerateVerifiedPatch(generated, trial)
             IN s' = IF claim = "failed" THEN EndRun(s, "failed") ELSE Registering(Claiming(s, claim, trial.same))
     \/ /\ s.run.tool = "apply"
        /\ \E trial \in Trials, expected, confirmed \in BOOLEAN :
             LET claim == ApplyPatchAndVerify(trial, expected)
             IN s' = IF claim = "verified" \/ (claim = "unverified" /\ confirmed)
                     THEN Registering([Claiming(s, claim, trial.same) EXCEPT !.told = "result"])
                     ELSE EndRun(s, "failed")
     \/ /\ s.run.tool = "manifest"
        /\ \E trial \in Trials :
             s' = Registering([Claiming(s, Manifest(trial), trial.same) EXCEPT !.told = "result"])
     \/ /\ s.run.tool = "plan"
        /\ \E outcomes \in [1..3 -> Outcomes] :
             LET plan == PlanPatchSources(outcomes)
             IN s' = IF CreatePatchCollection(plan)
                     THEN Registering([Claiming(s, "verified", TRUE) EXCEPT !.plan = plan, !.told = "result"])
                     ELSE EndRun(s, "failed")
     \/ /\ s.run.tool = "inspect"
        /\ s' = Ask([s EXCEPT !.run.stage = "complete", !.told = "result"], "complete", s.run.job)

\* The user stops the run or its time is over; what it waits for comes later.
Abort(why) ==
  /\ s.turns > 0 /\ s.run.stage \in {"read", "compute", "register", "complete"}
  /\ s' = EndRun([Spend EXCEPT !.late = @ \cup (IF s.run.stage = "register" THEN {s.run.job} ELSE {}),
                               !.told = "nothing", !.plan = NoPlan], why)

RetainNativeCleanup(t, why, job) ==
  [t EXCEPT !.cleanup = [cmd |-> "cleanup", job |-> job, why |-> why], !.told = "stopping"]

\* The end of the job was answered with this status; a job that has not ended stays to be cleaned up.
Ended(t, why, job, status) ==
  IF status \notin Terminal THEN RetainNativeCleanup(t, why, job)
  ELSE [t EXCEPT !.told = IF why = "cancelled" /\ status # "cancelled" THEN "failed" ELSE why]

EndIsAnswered(t, status) == Ended([t EXCEPT !.run = Idle], t.run.why, t.run.job, status)

\* An output that comes after the run was ended is cancelled.
RegisterIsAnswered(t, job, ok) ==
  IF job \in t.late
  THEN IF ok THEN Ask([t EXCEPT !.late = @ \ {job}], "cancel_output", job) ELSE [t EXCEPT !.late = @ \ {job}]
  ELSE IF ok THEN [t EXCEPT !.run = Idle, !.output = job] ELSE EndRun(t, "failed")

CompleteIsAnswered(t, job) ==
  IF t.run.stage # "complete" \/ t.run.job # job THEN t
  ELSE IF t.jobs[job].status \in Terminal THEN [t EXCEPT !.run = Idle] ELSE RetainNativeCleanup([t EXCEPT !.run = Idle], "failed", job)

RetryNativeCancellation ==
  /\ s.turns > 0 /\ s.cleanup # Nothing /\ \A i \in DOMAIN s.calls : s.calls[i].cmd # "retry"
  /\ s' = Ask(Spend, "retry", s.cleanup.job)

\* Fault: the answer to a retry counts as the end.
RetryIsBelieved(t, job) == [t EXCEPT !.cleanup = Nothing, !.told = t.cleanup.why]

RetryIsAnswered(t, job) ==
  LET status == t.jobs[job].status
  IN IF status \notin Terminal THEN t ELSE Ended([t EXCEPT !.cleanup = Nothing], t.cleanup.why, job, status)

----------------------------------------------------------------------------
(* The output that waits.                                                  *)

SaveNativeOutput ==
  /\ s.turns > 0 /\ s.output # None /\ s.exporting = None
  /\ s' = Ask([Spend EXCEPT !.exporting = s.output], "export", s.output)

\* The copy that was begun ends; one that was stopped or failed leaves the output where it is.
CompleteOutputExport ==
  /\ s.exporting # None /\ \A i \in DOMAIN s.calls : s.calls[i].cmd # "export"
  /\ LET job == s.exporting
     IN \E ok \in IF s.jobs[job].status = "exporting" THEN BOOLEAN ELSE {FALSE} :
          s' = [s EXCEPT !.exporting = None, !.output = IF ok /\ @ = job THEN None ELSE @,
                         !.jobs[job].status = IF @ # "exporting" THEN @ ELSE IF ok THEN "completed" ELSE "output_ready",
                         !.jobs[job].bytes = @ /\ ~ok]

CancelNativeOutput ==
  s.turns > 0 /\ s.output # None /\ s' = Ask(Spend, "give_up", s.output)

----------------------------------------------------------------------------
(* The service takes the next call.                                        *)

Serve ==
  /\ s.calls # <<>>
  /\ LET c == Head(s.calls)
         t == [s EXCEPT !.calls = Tail(@)]
         status == t.jobs[c.job].status
         failing == Finish(t, c.job, "failed")
     IN s' = CASE c.cmd = "register" ->
                    IF status = "running" /\ c.job \notin t.reading
                    THEN RegisterIsAnswered(RegisterOutput(t, c.job), c.job, TRUE) ELSE RegisterIsAnswered(t, c.job, FALSE)
               [] c.cmd = "cancel" -> EndIsAnswered(Cancel(t, c.job), Cancel(t, c.job).jobs[c.job].status)
               [] c.cmd = "fail" ->
                    IF status \in Held THEN EndIsAnswered(t, "refused") ELSE EndIsAnswered(failing, failing.jobs[c.job].status)
               [] c.cmd = "complete" -> CompleteIsAnswered(Finish(t, c.job, "completed"), c.job)
               [] c.cmd = "retry" -> RetryIsAnswered(Cancel(t, c.job), c.job)
               [] c.cmd = "cancel_output" -> CancelOutput(t, c.job)
               [] c.cmd = "give_up" -> [CancelOutput(t, c.job) EXCEPT !.output = IF t.jobs[c.job].bytes /\ @ = c.job THEN None ELSE @]
               [] c.cmd = "export" ->
                    IF status = "output_ready" THEN [t EXCEPT !.jobs[c.job].status = "exporting"] ELSE [t EXCEPT !.exporting = None]

----------------------------------------------------------------------------
(* The archive of the planner, written entry by entry and chunk by chunk   *)
(* with a pause after each, and then put together in one buffer.           *)

Entries == <<2, 0, 1>>   \* their sizes in chunks
Contents == FlattenSeq([i \in DOMAIN Entries |-> [k \in 1..Entries[i] |-> <<i, k>>]])
Empty == <<0, 0>>

\* The buffer has the size that was estimated before anything is written.
StartArchive ==
  [of |-> "archive", turns |-> MaxTurns, at |-> "write", entry |-> 1, sent |-> 0, chunks |-> <<>>, offset |-> 0,
   buffer |-> [i \in DOMAIN Contents |-> Empty], settled |-> FALSE, aborted |-> FALSE, outcome |-> "pending"]

\* The promise is settled once; the rest of the writing stops at its next step.
Settle(t, outcome) == IF t.settled THEN [t EXCEPT !.at = "over"] ELSE [t EXCEPT !.settled = TRUE, !.outcome = outcome, !.at = "over"]

\* Fault: an entry is over before its last chunk was sent.
WriteEntryShort(t) ==
  LET last == t.sent + 1 >= Entries[t.entry]
  IN [t EXCEPT !.chunks = IF last THEN @ ELSE Append(@, <<t.entry, t.sent + 1>>),
               !.sent = IF last THEN 0 ELSE @ + 1, !.entry = IF last THEN @ + 1 ELSE @]

\* The next chunk, or the end of an empty entry: an entry is over with its last chunk.
WriteEntry(t) ==
  LET last == t.sent + 1 >= Entries[t.entry]
  IN [t EXCEPT !.chunks = IF Entries[t.entry] = 0 THEN @ ELSE Append(@, <<t.entry, t.sent + 1>>),
               !.sent = IF last THEN 0 ELSE @ + 1, !.entry = IF last THEN @ + 1 ELSE @]

CreateStoredPatchCollection ==
  /\ s.at = "write"
  /\ \/ s' = Settle(s, "failed")
     \/ s.aborted /\ s' = Settle(s, "cancelled")
     \/ ~s.aborted /\ s' = IF s.entry > Len(Entries) THEN [s EXCEPT !.at = "join"] ELSE WriteEntry(s)

\* A chunk that does not fit is refused by the buffer; one that is missing leaves it empty.
JoinZipChunks ==
  /\ s.at = "join"
  /\ s' = CASE s.aborted -> Settle(s, "cancelled")
             [] ~s.aborted /\ s.chunks = <<>> -> Settle(s, "resolved")
             [] OTHER -> IF s.offset = Len(s.buffer) THEN Settle(s, "failed")
                         ELSE [s EXCEPT !.chunks = Tail(@), !.offset = @ + 1, !.buffer[s.offset + 1] = Head(s.chunks)]

\* The run that asked for the archive is stopped, or its time is over.
AbortArchive ==
  /\ s.turns > 0 /\ ~s.aborted
  /\ s' = [s EXCEPT !.turns = @ - 1, !.aborted = TRUE, !.settled = TRUE, !.outcome = IF s.settled THEN @ ELSE "cancelled"]

----------------------------------------------------------------------------
Init == s = StartTools \/ s = StartArchive

Operations == {"read", "input", "compute", "serve", "copy", "stopping", "write", "join"}
AnswerOf(op) ==
  IF s.of = "archive" THEN (op = "write" /\ CreateStoredPatchCollection) \/ (op = "join" /\ JoinZipChunks)
  ELSE CASE op = "read" -> ReadEnds
         [] op = "input" -> InputsAreRead
         [] op = "compute" -> Compute
         [] op = "serve" -> Serve
         [] op = "copy" -> CompleteOutputExport
         [] op = "stopping" -> Reconcile
         [] OTHER -> FALSE

Next ==
  \/ /\ s.of = "tools"
     /\ \/ \E tool \in {"create", "apply", "manifest", "plan", "inspect"} : Run(tool)
        \/ InputsAreRead \/ ReadEnds \/ Compute \/ Serve \/ Reconcile
        \/ \E why \in {"cancelled", "deadline"} : Abort(why)
        \/ RetryNativeCancellation \/ SaveNativeOutput \/ CompleteOutputExport \/ CancelNativeOutput
  \/ s.of = "archive" /\ (CreateStoredPatchCollection \/ JoinZipChunks \/ AbortArchive)

Waiting ==
  \/ s.of = "tools" /\ (s.run # Idle \/ s.exporting # None)
  \/ s.of = "archive" /\ s.at # "over"

----------------------------------------------------------------------------
\* Each baseline has one place in a plan, kept patches are worth keeping, and
\* they are within the budgets they were measured against.
PlanAddsUp ==
  s.of = "tools" =>
  LET plan == s.plan
      kept == VerifiedOf(plan)
  IN plan = NoPlan \/
     /\ {plan.results[i].name : i \in DOMAIN plan.results} \cup Range(plan.excluded) = 1..3
     /\ Len(plan.results) + Len(plan.excluded) = 3
     /\ FoldFunctionOnSet(+, 0, [i \in DOMAIN plan.results |-> plan.results[i].patch], kept) = plan.artifacts
     /\ plan.artifacts <= ArtifactBudget
     /\ \A i \in kept : 5 * plan.results[i].patch <= 4 * Target

\* A run is told as cancelled only when its native job was.
CancelIsTold == (s.of = "tools" /\ s.told = "cancelled") => s.jobs[Len(s.jobs)].status = "cancelled"

\* No native job goes on that the window has lost: it runs, or its end is owed.
JobsAreWatched ==
  s.of = "tools" => \A job \in DOMAIN s.jobs : s.jobs[job].status \in {"running", "stopping"} =>
    \/ s.run # Idle /\ s.run.job = job
    \/ s.cleanup # Nothing /\ s.cleanup.job = job

\* What is called verified is, byte for byte, what the patch gives and was meant
\* to give, whatever the library says of it; and an archive that is handed on
\* has each chunk of each entry at its place and was not stopped before.
ResultsAreWhole ==
  /\ s.of = "tools" => \A job \in DOMAIN s.jobs : s.jobs[job].claim = "verified" => s.jobs[job].exact
  /\ s.of = "archive" => (s.outcome = "resolved" => s.buffer = Contents)

=============================================================================
