-------------------------------- MODULE AiTask --------------------------------
(***************************************************************************)
(* The tool loop of one request: run_task, confirm_tool and                *)
(* resolve_tool_confirmation of src-tauri/src/ai/service.rs, the steps of  *)
(* ai/capability_action_service.rs, and the confirmed actions of           *)
(* ai_task_bridge.rs.  AiRequests models the life of the request around    *)
(* it.                                                                     *)
(*                                                                         *)
(* The task takes the service's mutex for each step and gives it up in     *)
(* between; a window answers a confirmation in two steps, the second one   *)
(* without the mutex; and anything may stop the request at any point.      *)
(* A call is known by its name and arguments, as in the loop's own cache.  *)
(* Steps are numbered in the order the task begins them.  The conversation *)
(* is a stored one: a temporary one behaves as if every write succeeded.   *)
(***************************************************************************)
EXTENDS Integers, Sequences, FiniteSets

CONSTANTS
  Calls,      \* the tool calls a model can make, as "name:arguments"
  Modifying,  \* those of request_process_action and request_cleanup
  MaxRounds,  \* MAX_TOOL_ROUNDS
  MaxCalls,   \* MAX_TOOL_CALLS
  MaxBatch    \* bound of the model: calls in one answer of the model

ASSUME CallsAssumption == Modifying \subseteq Calls
ASSUME LimitAssumption == /\ MaxRounds \in Nat \ {0}
                          /\ MaxCalls \in Nat \ {0}
                          /\ MaxBatch \in Nat \ {0}

Steps == 1 .. MaxCalls
StepState == {"none", "running", "awaiting_confirmation", "complete", "failed",
              "cancelled", "interrupted"}
Unfinished == {"running", "awaiting_confirmation"}
Outcome == {"ok", "failed", "cancelled"}
Results == {"ok", "error", "action_rejected"}

VARIABLES
  slot,       \* whether Inner.active is this request: active, ended, dead
  flag,       \* the shared cancel flag
  fault,      \* Active.run.error is set
  step,       \* the tool steps in memory
  stored,     \* the tool steps in the stored conversation
  approval,   \* Active.pending_approval is set
  decision,   \* what the confirmation channel holds for the waiting task
  resolver,   \* the answer of a window that has left the mutex to send it,
              \* with the step whose channel it holds
  pc,         \* where the task is
  direct,     \* started by a card's button: one call, no model
  rounds, queue, completed, declined,   \* locals of run_task
  total,      \* total_calls; also the number of the current step
  verdict,    \* how the wait for a confirmation ended
  result,     \* the outcome of the current call
  called,     \* history: the call of each step
  dispatched, \* history: the steps whose tool really ran
  approved, rejected,  \* history: the steps whose answer by a window arrived
  late        \* history: tool runs and requests to the model begun after the slot
              \* was lost

vars == <<slot, flag, fault, step, stored, approval, decision, resolver, pc,
          direct, rounds, queue, completed, declined, total, verdict, result,
          called, dispatched, approved, rejected, late>>
service == <<slot, flag, fault, step, stored, approval>>
channel == <<decision, resolver>>
loop    == <<direct, rounds, queue, completed, declined, total, called>>
history == <<dispatched, approved, rejected, late>>

Batches == UNION {[1 .. n -> Calls] : n \in 1 .. MaxBatch}

TypeOK ==
  /\ slot \in {"active", "ended", "dead"}
  /\ flag \in BOOLEAN /\ fault \in BOOLEAN
  /\ step \in [Steps -> StepState] /\ stored \in [Steps -> StepState]
  /\ approval \in BOOLEAN
  /\ decision \in {"none", "approved", "rejected", "dropped"}
  /\ resolver \in [step : 0 .. MaxCalls, answer : {"none", "approved", "rejected"}]
  /\ pc \in Outcome \cup {"round", "asking", "connecting", "modelling", "call",
             "invoke", "leasing", "confirm", "waiting", "closing", "approved",
             "dispatch", "running", "record", "over"}
  /\ direct \in BOOLEAN
  /\ rounds \in 0 .. MaxRounds /\ total \in 0 .. MaxCalls
  /\ queue \in Seq(Calls) /\ Len(queue) <= MaxBatch
  /\ completed \in [Calls -> Results \cup {"none"}]
  /\ declined \in BOOLEAN
  /\ verdict \in {"none", "approved", "rejected", "expired", "cancelled"}
  /\ result \in Results \cup {"none"}
  /\ called \in [Steps -> Calls \cup {"none"}]
  /\ dispatched \subseteq Steps /\ approved \subseteq Steps
  /\ rejected \subseteq Steps
  /\ late \in 0 .. 2

\* No window is about to send an answer.
NoAnswer == [step |-> 0, answer |-> "none"]

\* The receipt of the request is stored and its task spawned, by a message with
\* the model still to be asked or by a card with its one call.
Init ==
  /\ slot = "active" /\ flag = FALSE /\ fault = FALSE
  /\ step = [k \in Steps |-> "none"] /\ stored = step
  /\ approval = FALSE /\ decision = "none" /\ resolver = NoAnswer
  /\ rounds = 0 /\ total = 0
  /\ \/ direct = FALSE /\ pc = "round" /\ queue = <<>>
     \/ direct = TRUE /\ pc = "call" /\ \E c \in Calls : queue = <<c>>
  /\ completed = [c \in Calls |-> "none"]
  /\ declined = FALSE
  /\ verdict = "none" /\ result = "none"
  /\ called = [k \in Steps |-> "none"]
  /\ dispatched = {} /\ approved = {} /\ rejected = {} /\ late = 0

\* check_tool_active: the id and the epoch match and the assistant is enabled
\* exactly while the slot is the request's own (AiRequests, ActiveIsCurrent).
StillActive == slot = "active" /\ ~flag

\* The tail of update_task: the changed steps go to the store; when it refuses
\* them the request cancels itself.
UpdateTask(steps, pending, ok) ==
  /\ step' = steps
  /\ stored' = IF ok THEN steps ELSE stored
  /\ approval' = pending
  /\ flag' = (flag \/ ~ok)
  /\ fault' = (fault \/ ~ok)
  /\ UNCHANGED slot

\* update_task when the steps outgrow MAX_TASK_METADATA_BYTES: they stay in
\* memory, nothing is written and the request goes on, its caller with the
\* error.  An answer or the end of a wait only shortens them.
Overlong(steps, pending) ==
  /\ step' = steps
  /\ approval' = pending
  /\ UNCHANGED <<slot, flag, fault, stored>>

Goto(l) == pc' = l
\* The current call has an outcome; complete_tool_step comes next.
Yield(r) == result' = r /\ Goto("record")

-------------------------------------------------------------------------------
(* The model.                                                              *)

\* Fault: one turn too many.
MayTurnOnceMore == rounds <= MaxRounds

MayTurn == rounds < MaxRounds

\* A turn of the loop: check_tool_active and ready_for_send, which also refuses
\* when the connection has changed.
Round ==
  /\ pc = "round"
  /\ \/ ~MayTurn /\ Goto("failed") /\ UNCHANGED rounds
     \/ /\ MayTurn /\ StillActive
        /\ Goto("asking") /\ rounds' = rounds + 1
     \/ MayTurn /\ ~StillActive /\ Goto("cancelled") /\ UNCHANGED rounds
     \/ Goto("failed") /\ UNCHANGED rounds
  /\ UNCHANGED <<service, channel, direct, queue, completed, declined, total,
                 called, verdict, result, history>>

\* generate begins: cancellable reads the flag, without the mutex, before it
\* polls the request for the first time.
Ask ==
  /\ pc = "asking"
  /\ Goto(IF flag THEN "cancelled" ELSE "connecting")
  /\ UNCHANGED <<service, channel, loop, verdict, result, history>>

\* Transport::new awaits the addresses, then the request goes out.  Meanwhile the
\* flag is only polled, every 25 ms: it may be seen in time or not.
Connect ==
  /\ pc = "connecting"
  /\ \/ /\ Goto("modelling")
        /\ late' = IF slot = "active" THEN late ELSE late + 1
     \/ Goto("failed") /\ UNCHANGED late
     \/ flag /\ Goto("cancelled") /\ UNCHANGED late
  /\ UNCHANGED <<service, channel, loop, verdict, result, dispatched, approved,
                 rejected>>

\* Fault: the calls are taken up though the request was stopped meanwhile.
ModelCallsUnchecked(batch) ==
  /\ pc = "modelling"
  /\ IF total + Len(batch) > MaxCalls THEN Goto("failed") /\ UNCHANGED queue
     ELSE Goto("call") /\ queue' = batch
  /\ UNCHANGED <<service, channel, direct, rounds, completed, declined, total,
                 called, verdict, result, history>>

\* generate returns calls, and the loop takes them up unless there are too many.
ModelCalls(batch) ==
  /\ pc = "modelling"
  /\ IF ~StillActive THEN Goto("cancelled") /\ UNCHANGED queue
     ELSE IF total + Len(batch) > MaxCalls THEN Goto("failed") /\ UNCHANGED queue
     ELSE Goto("call") /\ queue' = batch
  /\ UNCHANGED <<service, channel, direct, rounds, completed, declined, total,
                 called, verdict, result, history>>

\* generate returns text only, or fails, or sees the flag.
ModelEnds ==
  /\ pc = "modelling"
  /\ \/ Goto(IF StillActive THEN "ok" ELSE "cancelled")
     \/ Goto("failed")
     \/ flag /\ Goto("cancelled")
  /\ UNCHANGED <<service, channel, loop, verdict, result, history>>

-------------------------------------------------------------------------------
(* One call.                                                               *)

\* Fault: a repeated call runs again.
ChooseUncached(c) ==
  \/ declined /\ c \in Modifying /\ Yield("action_rejected")
  \/ /\ ~(declined /\ c \in Modifying)
     /\ (Yield("error") \/ (Goto("invoke") /\ UNCHANGED result))

\* Fault: a refusal only counts for the call that was refused.
ChooseUndeclined(c) ==
  \/ completed[c] # "none" /\ Yield(completed[c])
  \/ /\ completed[c] = "none"
     /\ (Yield("error") \/ (Goto("invoke") /\ UNCHANGED result))

\* A call the cache, an earlier refusal of the user or tools::parse answers
\* without running anything; otherwise invoke_tool runs it.
Choose(c) ==
  \/ completed[c] # "none" /\ Yield(completed[c])
  \/ /\ completed[c] = "none" /\ declined /\ c \in Modifying
     /\ Yield("action_rejected")
  \/ /\ completed[c] = "none" /\ ~(declined /\ c \in Modifying)
     /\ (Yield("error") \/ (Goto("invoke") /\ UNCHANGED result))

\* Fault: the step is only stored when it has ended.
BeginStepInMemory(ok) ==
  /\ pc = "call" /\ queue # <<>>
  /\ IF ~StillActive
     THEN Goto("cancelled") /\ UNCHANGED <<service, total, called, result>>
     ELSE /\ total' = total + 1
          /\ called' = [called EXCEPT ![total + 1] = Head(queue)]
          /\ step' = [step EXCEPT ![total + 1] = "running"]
          /\ Choose(Head(queue))
          /\ UNCHANGED <<slot, flag, fault, stored, approval>>
  /\ UNCHANGED <<channel, direct, rounds, queue, completed, declined, verdict,
                 history>>

BeginStep(ok) ==
  /\ pc = "call" /\ queue # <<>>
  /\ IF ~StillActive
     THEN Goto("cancelled") /\ UNCHANGED <<service, total, called, result>>
     ELSE /\ total' = total + 1
          /\ called' = [called EXCEPT ![total + 1] = Head(queue)]
          /\ UpdateTask([step EXCEPT ![total + 1] = "running"], approval, ok)
          /\ IF ok THEN Choose(Head(queue))
             ELSE Goto("failed") /\ UNCHANGED result
  /\ UNCHANGED <<channel, direct, rounds, queue, completed, declined, verdict,
                 history>>

\* begin_tool_step when the new step does not fit any more.
BeginOverlong ==
  /\ pc = "call" /\ queue # <<>> /\ StillActive
  /\ total' = total + 1
  /\ called' = [called EXCEPT ![total + 1] = Head(queue)]
  /\ Overlong([step EXCEPT ![total + 1] = "running"], approval)
  /\ Goto("failed")
  /\ UNCHANGED <<channel, direct, rounds, queue, completed, declined, verdict,
                 result, history>>

NextRound ==
  /\ pc = "call" /\ queue = <<>>
  /\ Goto("round")
  /\ UNCHANGED <<service, channel, loop, verdict, result, history>>

\* invoke_tool checks once more; an inspection then runs, a modifying call
\* first gets a lease of its native target.
Invoke ==
  /\ pc = "invoke"
  /\ IF ~StillActive THEN Yield("error")
     ELSE /\ Goto(IF called[total] \in Modifying THEN "leasing" ELSE "dispatch")
          /\ UNCHANGED result
  /\ UNCHANGED <<service, channel, loop, verdict, history>>

\* process_action and cleanup: the target is missing, protected or changed, or
\* the controller grants a lease.
Lease ==
  /\ pc = "leasing"
  /\ Yield("error") \/ (Goto("confirm") /\ UNCHANGED result)
  /\ UNCHANGED <<service, channel, loop, verdict, history>>

\* confirm_tool up to its wait.
OpenConfirmation(ok) ==
  /\ pc = "confirm"
  /\ IF StillActive /\ ~approval
     THEN /\ UpdateTask([step EXCEPT ![total] = "awaiting_confirmation"], TRUE, ok)
          /\ IF ok THEN Goto("waiting") /\ UNCHANGED result ELSE Yield("error")
          /\ decision' = "none"
     ELSE Yield("error") /\ UNCHANGED <<service, decision>>
  /\ UNCHANGED <<resolver, loop, verdict, history>>

\* confirm_tool when the prompt does not fit: its sender stays pending, and
\* nobody waits for it.
OpenOverlong ==
  /\ pc = "confirm" /\ StillActive /\ ~approval
  /\ Overlong([step EXCEPT ![total] = "awaiting_confirmation"], TRUE)
  /\ decision' = "none"
  /\ Yield("error")
  /\ UNCHANGED <<resolver, loop, verdict, history>>

\* Fault: the wait for the user has no deadline.
WaitForAnswer ==
  /\ pc = "waiting"
  /\ \/ decision \in {"approved", "rejected"} /\ verdict' = decision
     \/ (decision = "dropped" \/ flag) /\ verdict' = "cancelled"
  /\ Goto("closing")
  /\ UNCHANGED <<service, channel, loop, result, history>>

\* The wait ends.  The clock only wins while the channel is empty, and the
\* flag, polled every 25 ms, may lose against an answer.
WaitEnds ==
  /\ pc = "waiting"
  /\ \/ decision \in {"approved", "rejected"} /\ verdict' = decision
     \/ decision = "dropped" /\ verdict' = "cancelled"
     \/ flag /\ verdict' = "cancelled"
     \/ decision = "none" /\ verdict' = "expired"
  /\ Goto("closing")
  /\ UNCHANGED <<service, channel, loop, result, history>>

\* Fault: only an explicit refusal stops the action.
GrantedUnlessRejected == verdict # "rejected"

Granted == verdict = "approved"

\* confirm_tool after its wait.
CloseConfirmation(ok) ==
  /\ pc = "closing"
  /\ IF StillActive
     THEN /\ UpdateTask([step EXCEPT ![total] = "running"], FALSE, ok)
          /\ IF ok /\ Granted THEN Goto("approved") /\ UNCHANGED result
             ELSE Yield(IF ok /\ verdict = "rejected"
                        THEN "action_rejected" ELSE "error")
     ELSE Yield("error") /\ UNCHANGED service
  /\ verdict' = "none"
  /\ UNCHANGED <<channel, loop, history>>

\* check_active, inside the controller for a process, before the coordinator
\* begins for a cleanup.
CheckApproved ==
  /\ pc = "approved"
  /\ IF StillActive THEN Goto("dispatch") /\ UNCHANGED result ELSE Yield("error")
  /\ UNCHANGED <<service, channel, loop, verdict, history>>

\* The tool runs.  The mutex was given up after the check.
Dispatch ==
  /\ pc = "dispatch"
  /\ dispatched' = dispatched \cup {total}
  /\ late' = IF slot = "active" THEN late ELSE late + 1
  /\ Goto("running")
  /\ UNCHANGED <<service, channel, loop, verdict, result, approved, rejected>>

ToolEnds ==
  /\ pc = "running"
  /\ \E r \in {"ok", "error"} : Yield(r)
  /\ UNCHANGED <<service, channel, loop, verdict, history>>

\* Fault: a refused step is reported like one that was carried out.
StepEndUnlessError(r) == IF r = "error" THEN "failed" ELSE "complete"

StepEnd(r) == IF r = "ok" THEN "complete" ELSE "failed"

\* check_tool_active and complete_tool_step; then the loop's own bookkeeping,
\* or the end of a direct action.  A prompt that did not fit is still there and
\* the end of its step makes it longer: RecordOverlong.
Record(ok) ==
  /\ pc = "record"
  /\ IF ~StillActive
     THEN Goto("cancelled") /\ UNCHANGED <<service, queue, completed, declined>>
     ELSE /\ ~approval
          /\ UpdateTask([step EXCEPT ![total] = StepEnd(result)], approval, ok)
          /\ completed' = [completed EXCEPT ![called[total]] = result]
          /\ declined' = (declined \/ result = "action_rejected")
          /\ queue' = Tail(queue)
          /\ Goto(IF ~ok THEN "failed"
                  ELSE IF ~direct THEN "call"
                  ELSE IF result = "ok" THEN "ok" ELSE "failed")
  /\ result' = "none"
  /\ UNCHANGED <<channel, direct, rounds, total, called, verdict, history>>

\* complete_tool_step when the outcome does not fit any more.
RecordOverlong ==
  /\ pc = "record" /\ StillActive
  /\ Overlong([step EXCEPT ![total] = StepEnd(result)], approval)
  /\ declined' = (declined \/ result = "action_rejected")
  /\ Goto("failed")
  /\ result' = "none"
  /\ UNCHANGED <<channel, direct, rounds, queue, completed, total, called, verdict,
                 history>>

\* What finish and stop_active do to the steps.
Settled(st) ==
  [k \in Steps |-> IF step[k] \in Unfinished THEN st ELSE step[k]]

\* finish: the steps of a request that reports `cancelled` are cancelled, those
\* of any other are interrupted.
Finish(ok) ==
  /\ pc \in Outcome
  /\ IF slot = "active"
     THEN LET steps == Settled(IF pc = "cancelled" /\ ~fault
                               THEN "cancelled" ELSE "interrupted")
          IN /\ slot' = "ended"
             /\ step' = steps
             /\ stored' = IF ok THEN steps ELSE stored
             /\ approval' = FALSE
     ELSE UNCHANGED <<slot, step, stored, approval>>
  /\ Goto("over")
  /\ UNCHANGED <<flag, fault, channel, loop, verdict, result, history>>

-------------------------------------------------------------------------------
(* The windows, and the rest of the application.                           *)

\* Fault: the answered approval stays pending.
ResolveAgain(k, answer, ok) ==
  /\ StillActive /\ approval
  /\ k = total /\ step[k] = "awaiting_confirmation"
  /\ UpdateTask([step EXCEPT ![total] = "running"], TRUE, ok)
  /\ resolver' = [step |-> k, answer |-> answer]
  /\ UNCHANGED <<pc, decision, loop, verdict, result, history>>

\* resolve_tool_confirmation under the mutex: k is the step a window shows.  It
\* takes the pending approval; if the store refuses the write the sender is
\* dropped with the error.
Resolve(k, answer, ok) ==
  /\ StillActive /\ approval
  /\ k = total /\ step[k] = "awaiting_confirmation"
  /\ UpdateTask([step EXCEPT ![total] = "running"], FALSE, ok)
  /\ IF ok
     THEN resolver' = [step |-> k, answer |-> answer] /\ UNCHANGED decision
     ELSE decision' = "dropped" /\ UNCHANGED resolver
  /\ UNCHANGED <<pc, loop, verdict, result, history>>

\* The send after the mutex.  Each confirmation has a channel of its own; when
\* its receiver is gone the window is told that the request was cancelled.
SendAnswer ==
  LET k == resolver.step
      heard == pc = "waiting" /\ k = total
  IN /\ k # 0
     /\ resolver' = NoAnswer
     /\ decision' = IF heard THEN resolver.answer ELSE decision
     /\ approved' = IF heard /\ resolver.answer = "approved"
                    THEN approved \cup {k} ELSE approved
     /\ rejected' = IF heard /\ resolver.answer = "rejected"
                    THEN rejected \cup {k} ELSE rejected
     /\ UNCHANGED <<service, pc, loop, verdict, result, dispatched, late>>

\* stop_active from any handler.  The sender goes with the active request.
Stop(st, ok) ==
  /\ slot = "active"
  /\ slot' = "ended" /\ flag' = TRUE
  /\ step' = Settled(st)
  /\ stored' = IF ok THEN step' ELSE stored
  /\ approval' = FALSE
  /\ decision' = IF approval THEN "dropped" ELSE decision
  /\ UNCHANGED <<fault, resolver, pc, loop, verdict, result, history>>

\* The process dies; recover interrupts what the store shows as unfinished.
Crash ==
  /\ slot # "dead"
  /\ slot' = "dead" /\ flag' = TRUE /\ pc' = "over" /\ approval' = FALSE
  /\ step' = [k \in Steps |-> IF stored[k] \in Unfinished
                              THEN "interrupted" ELSE stored[k]]
  /\ stored' = step'
  /\ decision' = "none" /\ resolver' = NoAnswer
  /\ UNCHANGED <<fault, loop, verdict, result, history>>

-------------------------------------------------------------------------------
TaskStep ==
  \/ Round \/ Ask \/ Connect \/ ModelEnds
  \/ \E batch \in Batches : ModelCalls(batch)
  \/ NextRound \/ Invoke \/ Lease \/ WaitEnds \/ CheckApproved \/ Dispatch
  \/ ToolEnds
  \/ BeginOverlong \/ OpenOverlong \/ RecordOverlong
  \/ \E ok \in BOOLEAN :
       \/ BeginStep(ok) \/ OpenConfirmation(ok) \/ CloseConfirmation(ok)
       \/ Record(ok) \/ Finish(ok)

Next ==
  \/ TaskStep
  \/ \E k \in Steps, answer \in {"approved", "rejected"}, ok \in BOOLEAN :
       Resolve(k, answer, ok)
  \/ SendAnswer
  \/ \E st \in {"cancelled", "interrupted"}, ok \in BOOLEAN : Stop(st, ok)
  \/ Crash

Spec == Init /\ [][Next]_vars

\* The runtime polls the task; its waits for the model, the user and the tools
\* all have timeouts (WaitEnds needs no answer).
FairSpec == Spec /\ WF_vars(TaskStep)

-------------------------------------------------------------------------------
(* Properties.                                                             *)

\* "An unconfirmed or twice confirmed action cannot modify the system": a
\* modifying step that ran was approved by the user on that very step, and not
\* refused, whichever window answered and whenever.
OnlyApprovedRun ==
  \A k \in dispatched :
    called[k] \in Modifying => k \in approved /\ k \notin rejected

\* "Repeated calls have a receipt": the tool runs at most once for the same
\* call, however often the model repeats it, and the model gets no turn beyond
\* the limit to repeat it in.
RunAtMostOnce ==
  /\ \A j, k \in dispatched : called[j] = called[k] => j = k
  /\ rounds <= MaxRounds

\* A refusal holds for the rest of the task: no later modifying step runs, not
\* even one for another target.
RefusalHolds ==
  \A j \in rejected, k \in dispatched :
    called[k] \in Modifying => k < j

\* After a stop, of whatever kind, at most one thing more begins: the one tool
\* run or the one request to the model whose last check had passed before.  Its
\* outcome leads to nothing else; the task only winds down.
AtMostOneLateStart ==
  /\ late <= 1
  /\ late = 1 => pc \in {"running", "record", "modelling", "cancelled", "failed", "over"}

\* "After a cancel, a configuration change, a source clear and an exit there are
\* no further tools or outbound requests" (docs/ai-task-execution-design.md).
NothingStartsAfterStop == late = 0

\* A prompt on the screen can be answered or is being withdrawn: an approval is
\* pending exactly for the current step, and its task is in the wait.  Only a
\* prompt too long for the record has nobody waiting, while the task fails over
\* it.
PromptIsLive ==
  StillActive =>
    /\ approval => \/ /\ pc \in {"waiting", "closing", "record"}
                      /\ step[total] = "awaiting_confirmation"
                   \/ pc = "failed"
    /\ \A k \in Steps : step[k] = "awaiting_confirmation" => k = total /\ approval

\* A step is only reported complete when its call ran in this task: a failure,
\* a refusal or a repetition of either never turns into a success.
CompleteMeansRan ==
  \A k \in Steps :
    stored[k] = "complete" =>
      \E j \in dispatched : j <= k /\ called[j] = called[k]

\* What ran left its trace in the store first, so that a crash in the middle of
\* it shows an interrupted step instead of nothing.
TraceBeforeRun == \A k \in dispatched : stored[k] # "none"

\* The task comes to its end whatever the model and the user do.
TaskEnds == <>(pc = "over")
===============================================================================
