----------------------------- MODULE AiTaskProofs -----------------------------
(***************************************************************************)
(* Proofs about AiTask, for any calls, limits and length of a batch.  The  *)
(* type invariant is not enough for any of the properties: whether a step  *)
(* may run is decided over several critical sections of the task, between  *)
(* which windows answer, the store refuses writes and the request is       *)
(* stopped.  TaskInv says what the task may rely on at each place in       *)
(* between; it is inductive, and the theorems follow from it.              *)
(***************************************************************************)
EXTENDS AiTask, SequenceTheorems, TLAPS

(* The parts of the inductive invariant.                                   *)

\* The places of the task between choosing a call for the tool and running it.
BeforeRun == {"invoke", "leasing", "confirm", "waiting", "closing", "approved", "dispatch"}

\* The places in which a step is under way.
InStep == BeforeRun \cup {"running", "record"}

\* The steps whose answer by a window arrived.
Answered == approved \cup rejected

\* A request that lost its place is told so: its flag is up, or its task is
\* over.
SlotInv ==
  /\ slot # "active" => flag \/ pc = "over"
  /\ slot = "dead" => pc = "over"

\* Steps are numbered in the order they begin, up to MAX_TOOL_CALLS; the
\* current step is the call at the head of the queue; nothing is kept of a step
\* that has not begun.
NumberInv ==
  /\ pc = "call" => total + Len(queue) <= MaxCalls
  /\ pc \in InStep => /\ total >= 1 /\ queue # <<>>
                      /\ total + Len(queue) <= MaxCalls + 1
                      /\ called[total] = Head(queue)
  /\ \A k \in 1 .. total : called[k] \in Calls
  /\ \A k \in Steps : step[k] # "none" \/ stored[k] # "none" => k <= total
  /\ dispatched \subseteq 1 .. total
  /\ Answered \subseteq 1 .. total
  /\ resolver.step <= total

\* A step is answered once.  While it still awaits an answer none has arrived
\* and none is on its way; a window that has left the mutex carries the answer
\* of a step nobody else has answered.
AnswerInv ==
  /\ approved \cap rejected = {}
  /\ resolver.step \notin Answered
  /\ resolver.step # 0 => resolver.answer # "none"
  /\ \A k \in Steps : step[k] = "awaiting_confirmation" => k \notin Answered \cup {resolver.step}
  /\ pc \in {"invoke", "leasing", "confirm"} => total \notin Answered \cup {resolver.step}
  /\ pc = "waiting" /\ approval => total \notin Answered \cup {resolver.step}

\* What the task believes of the answer is what a window said on this very
\* step: through the channel, through the verdict of the wait, and until the
\* tool runs.
VerdictInv ==
  /\ pc = "waiting" => /\ decision = "approved" => total \in approved
                       /\ total \in rejected => decision = "rejected"
                       /\ decision = "rejected" => total \in rejected
  /\ pc = "closing" => /\ verdict = "approved" => total \in approved
                       /\ verdict = "rejected" => total \in rejected
  /\ pc = "approved" => total \in approved
  /\ pc = "dispatch" /\ called[total] \in Modifying => total \in approved
  /\ pc \in {"leasing", "confirm", "waiting", "closing", "approved"} => called[total] \in Modifying

\* A refusal reached the loop (declined), or the request was stopped, or the
\* refusal is that of the current step and on its way there.  A modifying step
\* is only on its way to the tool when no earlier step was refused.
RefusalInv ==
  /\ \A j \in rejected :
       \/ declined \/ flag
       \/ /\ j = total
          /\ \/ pc = "waiting"
             \/ pc = "closing" /\ verdict = "rejected"
             \/ pc = "record" /\ result = "action_rejected"
  /\ pc \in BeforeRun /\ called[total] \in Modifying => rejected \subseteq {total}

\* What ran is in the cache of the loop, unless it is the current step and not
\* recorded yet, or the loop is over; a call on its way to the tool is not in
\* the cache.
CacheInv ==
  /\ pc = "record" => result # "none"
  /\ pc \in BeforeRun => completed[called[total]] = "none" /\ total \notin dispatched
  /\ pc = "running" => total \in dispatched
  /\ \A k \in dispatched :
       \/ completed[called[k]] # "none"
       \/ k = total /\ pc \in {"running", "record"}
       \/ pc \in Outcome \cup {"over"}

\* Only a task that lost its slot begins anything late.
LateInv == late >= 1 => slot # "active"

\* The call ran in this task, at step k or before it.
Ran(c, k) == \E j \in dispatched : j <= k /\ called[j] = c

\* What says "complete", in memory, in the store or in the cache, is a call
\* that ran.
CompleteInv ==
  /\ \A k \in Steps : "complete" \in {step[k], stored[k]} => Ran(called[k], k)
  /\ \A c \in Calls : completed[c] = "ok" => Ran(c, total)
  /\ pc = "record" /\ result = "ok" => Ran(called[total], total)

\* Unless the process died every step that began is known in memory; the
\* current one is in the store.
TraceInv ==
  /\ slot # "dead" => \A k \in 1 .. total : step[k] # "none"
  /\ pc \in InStep => stored[total] # "none"

-------------------------------------------------------------------------------
(* Lemmas about sequences.                                                 *)

\* An answer of the model is a sequence of calls that is not empty.
LEMMA BatchType ==
  ASSUME NEW batch \in Batches
  PROVE  batch \in Seq(Calls) /\ Len(batch) <= MaxBatch /\ batch # <<>>
<1>1. PICK n \in 1 .. MaxBatch : batch \in [1 .. n -> Calls]
  BY DEF Batches
<1>2. n \in Nat /\ n >= 1
  OBVIOUS
<1> QED BY <1>1, <1>2

\* Taking the first call leaves a shorter sequence of calls.
LEMMA QueueType ==
  ASSUME NEW q \in Seq(Calls), q # <<>>
  PROVE  Head(q) \in Calls /\ Tail(q) \in Seq(Calls) /\ Len(Tail(q)) = Len(q) - 1 /\ Len(q) >= 1
OBVIOUS

-------------------------------------------------------------------------------
(* Types.                                                                  *)

\* The type invariant in two halves: what update_task changes, and the rest.
ServiceType ==
  /\ slot \in {"active", "ended", "dead"}
  /\ flag \in BOOLEAN /\ fault \in BOOLEAN /\ approval \in BOOLEAN
  /\ step \in [Steps -> StepState] /\ stored \in [Steps -> StepState]

\* The other half: the loop, the channel and the history.
TaskType ==
  /\ decision \in {"none", "approved", "rejected", "dropped"}
  /\ resolver \in [step : 0 .. MaxCalls, answer : {"none", "approved", "rejected"}]
  /\ pc \in Outcome \cup InStep \cup {"round", "asking", "connecting", "modelling", "call", "over"}
  /\ direct \in BOOLEAN
  /\ rounds \in 0 .. MaxRounds /\ total \in 0 .. MaxCalls
  /\ queue \in Seq(Calls) /\ Len(queue) <= MaxBatch
  /\ completed \in [Calls -> Results \cup {"none"}]
  /\ declined \in BOOLEAN
  /\ verdict \in {"none", "approved", "rejected", "expired", "cancelled"}
  /\ result \in Results \cup {"none"}
  /\ called \in [Steps -> Calls \cup {"none"}]
  /\ dispatched \subseteq Steps /\ approved \subseteq Steps
  /\ rejected \subseteq Steps
  /\ late \in 0 .. 2

\* The type invariant is its two halves,
LEMMA TypeSplit == TypeOK <=> ServiceType /\ TaskType
BY DEF TypeOK, ServiceType, TaskType, InStep, BeforeRun

\* and so it is after a step.
LEMMA TypeSplitNext == TypeOK' <=> ServiceType' /\ TaskType'
BY DEF TypeOK, ServiceType, TaskType, InStep, BeforeRun

\* update_task keeps its half of the type, whether or not the store takes the
\* write.
LEMMA UpdateTaskType ==
  ASSUME ServiceType, NEW steps \in [Steps -> StepState], NEW pending \in BOOLEAN,
         NEW ok \in BOOLEAN, UpdateTask(steps, pending, ok)
  PROVE  ServiceType'
BY DEF ServiceType, UpdateTask

\* So does settling the unfinished steps.
LEMMA SettledType ==
  ASSUME ServiceType, NEW st \in StepState
  PROVE  Settled(st) \in [Steps -> StepState]
BY DEF ServiceType, Settled

\* So does a changed state of one step.
LEMMA StepWithType ==
  ASSUME ServiceType, NEW k, NEW st \in StepState
  PROVE  [step EXCEPT ![k] = st] \in [Steps -> StepState]
BY DEF ServiceType

\* Every step keeps the first half of the type.
LEMMA ServiceStep ==
  ASSUME ServiceType, TaskType, [Next]_vars PROVE ServiceType'
<1>1. CASE UNCHANGED service
  BY <1>1 DEF service, ServiceType
<1>2. CASE \/ Round \/ Ask \/ Connect \/ ModelEnds \/ NextRound \/ Invoke \/ Lease
           \/ WaitEnds \/ CheckApproved \/ Dispatch \/ ToolEnds \/ SendAnswer \/ UNCHANGED vars
           \/ \E batch \in Batches : ModelCalls(batch)
  BY <1>1, <1>2 DEF Round, Ask, Connect, ModelEnds, NextRound, Invoke, Lease, WaitEnds,
     CheckApproved, Dispatch, ToolEnds, SendAnswer, ModelCalls, vars, service
<1>3. ASSUME NEW ok \in BOOLEAN,
             \/ BeginStep(ok) \/ OpenConfirmation(ok) \/ CloseConfirmation(ok)
             \/ Record(ok)
      PROVE  ServiceType'
  <2>1. approval \in BOOLEAN
        /\ {"running", "awaiting_confirmation", StepEnd(result)} \subseteq StepState
    BY DEF ServiceType, StepEnd, StepState
  <2>2. CASE BeginStep(ok)
    <3>1. \/ UNCHANGED service
          \/ UpdateTask([step EXCEPT ![total + 1] = "running"], approval, ok)
      BY <2>2 DEF BeginStep
    <3> QED BY <1>1, <2>1, <3>1, StepWithType, UpdateTaskType
  <2>3. CASE OpenConfirmation(ok)
    <3>1. \/ UNCHANGED service
          \/ UpdateTask([step EXCEPT ![total] = "awaiting_confirmation"], TRUE, ok)
      BY <2>3 DEF OpenConfirmation
    <3> QED BY <1>1, <2>1, <3>1, StepWithType, UpdateTaskType
  <2>4. CASE CloseConfirmation(ok)
    <3>1. \/ UNCHANGED service
          \/ UpdateTask([step EXCEPT ![total] = "running"], FALSE, ok)
      BY <2>4 DEF CloseConfirmation
    <3> QED BY <1>1, <2>1, <3>1, StepWithType, UpdateTaskType
  <2>5. CASE Record(ok)
    <3>1. \/ UNCHANGED service
          \/ UpdateTask([step EXCEPT ![total] = StepEnd(result)], approval, ok)
      BY <2>5 DEF Record
    <3> QED BY <1>1, <2>1, <3>1, StepWithType, UpdateTaskType
  <2> QED BY <1>3, <2>2, <2>3, <2>4, <2>5
<1>4. ASSUME NEW ok \in BOOLEAN, Finish(ok) PROVE ServiceType'
  <2>1. {"cancelled", "interrupted"} \subseteq StepState
    BY DEF StepState
  <2> QED BY <1>4, <2>1, SettledType DEF Finish, ServiceType
<1>5. ASSUME NEW k \in Steps, NEW answer, NEW ok \in BOOLEAN, Resolve(k, answer, ok)
      PROVE  ServiceType'
  <2>1. "running" \in StepState
    BY DEF StepState
  <2>2. UpdateTask([step EXCEPT ![total] = "running"], FALSE, ok)
    BY <1>5 DEF Resolve
  <2> QED BY <2>1, <2>2, StepWithType, UpdateTaskType
<1>6. ASSUME NEW st \in {"cancelled", "interrupted"}, NEW ok \in BOOLEAN, Stop(st, ok)
      PROVE  ServiceType'
  <2>1. st \in StepState
    BY DEF StepState
  <2> QED BY <1>6, <2>1, SettledType DEF Stop, ServiceType
<1>7. CASE Crash
  <2>1. "interrupted" \in StepState
    BY DEF StepState
  <2> QED BY <1>7, <2>1 DEF Crash, ServiceType
<1>8. CASE BeginOverlong \/ OpenOverlong \/ RecordOverlong
  <2>1. /\ approval \in BOOLEAN
        /\ {"running", "awaiting_confirmation", StepEnd(result)} \subseteq StepState
    BY DEF ServiceType, StepEnd, StepState
  <2>2. \/ Overlong([step EXCEPT ![total + 1] = "running"], approval)
        \/ Overlong([step EXCEPT ![total] = "awaiting_confirmation"], TRUE)
        \/ Overlong([step EXCEPT ![total] = StepEnd(result)], approval)
    BY <1>8 DEF BeginOverlong, OpenOverlong, RecordOverlong
  <2>3. \A k, st : st \in StepState => [step EXCEPT ![k] = st] \in [Steps -> StepState]
    BY StepWithType
  <2>4. step' \in [Steps -> StepState] /\ approval' \in BOOLEAN
    <3>1. CASE Overlong([step EXCEPT ![total + 1] = "running"], approval)
      BY <2>1, <2>3, <3>1 DEF Overlong
    <3>2. CASE Overlong([step EXCEPT ![total] = "awaiting_confirmation"], TRUE)
      BY <2>1, <2>3, <3>2 DEF Overlong
    <3>3. CASE Overlong([step EXCEPT ![total] = StepEnd(result)], approval)
      BY <2>1, <2>3, <3>3 DEF Overlong
    <3> QED BY <2>2, <3>1, <3>2, <3>3
  <2> QED BY <2>2, <2>4 DEF Overlong, ServiceType
<1> QED BY <1>2, <1>3, <1>4, <1>5, <1>6, <1>7, <1>8 DEF Next, TaskStep

\* Every step keeps the second half.
LEMMA TaskTypeStep ==
  ASSUME TaskType, ServiceType, SlotInv, NumberInv, LateInv, AtMostOneLateStart, [Next]_vars PROVE TaskType'
<1> USE LimitAssumption, CallsAssumption
<1>1. CASE Round
  BY <1>1 DEF Round, MayTurn, Goto, channel, history, TaskType, Outcome
<1>2. CASE Ask
  BY <1>2 DEF Ask, Goto, channel, loop, history, TaskType, Outcome
<1>3. CASE ModelEnds
  BY <1>3 DEF ModelEnds, Goto, channel, loop, history, TaskType, Outcome
<1>4. ASSUME NEW batch \in Batches, ModelCalls(batch)
      PROVE  TaskType'
  BY <1>4, BatchType DEF ModelCalls, Goto, channel, history, TaskType, Outcome
<1>5. ASSUME NEW ok \in BOOLEAN, BeginStep(ok)
      PROVE  TaskType'
  <2>1. CASE ~StillActive
    BY <1>5, <2>1 DEF BeginStep, Goto, channel, history, TaskType, Outcome
  <2>2. CASE StillActive
    <3>1. /\ pc = "call" /\ queue # <<>> /\ total' = total + 1
          /\ called' = [called EXCEPT ![total + 1] = Head(queue)]
          /\ UNCHANGED <<channel, direct, rounds, queue, completed, declined, verdict, history>>
      BY <1>5, <2>2 DEF BeginStep
    <3>2. Choose(Head(queue)) \/ (Goto("failed") /\ UNCHANGED result)
      BY <1>5, <2>2 DEF BeginStep
    <3>3. queue \in Seq(Calls) /\ Head(queue) \in Calls /\ Len(queue) \in Nat /\ Len(queue) >= 1
      BY <3>1 DEF TaskType
    <3>4. total' \in 0 .. MaxCalls
      BY <3>1, <3>3 DEF TaskType, NumberInv
    <3>5. called' \in [Steps -> Calls \cup {"none"}]
      BY <3>1, <3>3 DEF TaskType
    <3>6. pc' \in Outcome \cup InStep
      BY <3>2 DEF Choose, Yield, Goto, Outcome, InStep, BeforeRun
    <3>7. result' \in Results \cup {"none"}
      BY <3>2, <3>3 DEF Choose, Yield, Goto, Results, TaskType
    <3>8. /\ decision' = decision /\ resolver' = resolver /\ direct' = direct /\ rounds' = rounds
          /\ queue' = queue /\ completed' = completed /\ declined' = declined /\ verdict' = verdict
          /\ dispatched' = dispatched /\ approved' = approved /\ rejected' = rejected
          /\ late' = late
      BY <3>1 DEF channel, history
    <3>9. InStep' = InStep /\ Outcome' = Outcome
      BY DEF InStep, BeforeRun, Outcome
    <3> QED BY <3>4, <3>5, <3>6, <3>7, <3>8, <3>9 DEF TaskType
  <2> QED BY <2>1, <2>2
<1>6. CASE NextRound
  BY <1>6 DEF NextRound, Goto, channel, loop, history, TaskType
<1>7. CASE Invoke
  BY <1>7 DEF Invoke, Yield, Goto, channel, loop, history, TaskType, Results, BeforeRun,
     InStep
<1>8. CASE Lease
  BY <1>8 DEF Lease, Yield, Goto, channel, loop, history, TaskType, Results, BeforeRun,
     InStep
<1>9. ASSUME NEW ok \in BOOLEAN, OpenConfirmation(ok)
      PROVE  TaskType'
  BY <1>9 DEF OpenConfirmation, UpdateTask, Yield, Goto, loop, history, TaskType, Results,
     BeforeRun, InStep
<1>10. CASE WaitEnds
  BY <1>10 DEF WaitEnds, Goto, channel, loop, history, TaskType, BeforeRun, InStep
<1>11. ASSUME NEW ok \in BOOLEAN, CloseConfirmation(ok)
       PROVE  TaskType'
  BY <1>11 DEF CloseConfirmation, UpdateTask, Yield, Goto, channel, loop, history,
     TaskType, Results, BeforeRun, InStep
<1>12. CASE CheckApproved
  BY <1>12 DEF CheckApproved, Yield, Goto, channel, loop, history, TaskType, Results,
     BeforeRun, InStep
<1>13. CASE Dispatch
  BY <1>13 DEF Dispatch, Goto, channel, loop, TaskType, NumberInv, AtMostOneLateStart,
     Steps, InStep, Outcome
<1>14. CASE ToolEnds
  BY <1>14 DEF ToolEnds, Yield, Goto, channel, loop, history, TaskType, Results, InStep
<1>15. ASSUME NEW ok \in BOOLEAN, Record(ok)
       PROVE  TaskType'
  <2>1. pc = "record" /\ queue # <<>>
    BY <1>15 DEF Record, NumberInv, InStep
  <2>2. queue' \in {queue, Tail(queue)} /\ result' = "none"
        /\ declined' \in BOOLEAN
        /\ completed' \in {completed, [completed EXCEPT ![called[total]] = result]}
    BY <1>15 DEF Record, TaskType
  <2>3. queue' \in Seq(Calls) /\ Len(queue') <= MaxBatch
    <3>1. queue \in Seq(Calls) /\ Len(queue) \in Nat /\ Len(queue) <= MaxBatch /\ MaxBatch \in Nat
      BY DEF TaskType
    <3>2. Tail(queue) \in Seq(Calls) /\ Len(Tail(queue)) = Len(queue) - 1
      BY <2>1, <3>1
    <3>3. CASE queue' = queue
      BY <3>1, <3>3
    <3>4. CASE queue' = Tail(queue)
      BY <3>1, <3>2, <3>4
    <3> QED BY <2>2, <3>3, <3>4
  <2>5. completed' \in [Calls -> Results \cup {"none"}]
    BY <2>2 DEF TaskType
  <2>4. pc' \in Outcome \cup {"call"}
    BY <1>15 DEF Record, Goto, Outcome
  <2> QED BY <1>15, <2>2, <2>3, <2>4 DEF Record, TaskType, channel, history
<1>16. ASSUME NEW ok \in BOOLEAN, Finish(ok)
       PROVE  TaskType'
  BY <1>16 DEF Finish, Goto, channel, loop, history, TaskType
<1>17. ASSUME NEW k \in Steps, NEW answer \in {"approved", "rejected"}, NEW ok \in
              BOOLEAN, Resolve(k, answer, ok)
       PROVE  TaskType'
  BY <1>17 DEF Resolve, loop, history, TaskType
<1>18. CASE SendAnswer
  <2>1. resolver.step \in Steps
    BY <1>18 DEF SendAnswer, TaskType, Steps
  <2>2. resolver.answer \in {"none", "approved", "rejected"}
    BY DEF TaskType
  <2>3. approved' \subseteq Steps /\ rejected' \subseteq Steps
    BY <1>18, <2>1 DEF SendAnswer, TaskType
  <2>4. /\ decision' \in {"none", "approved", "rejected", "dropped"}
        /\ resolver' \in [step : 0 .. MaxCalls, answer : {"none", "approved", "rejected"}]
    BY <1>18 DEF SendAnswer, NoAnswer, TaskType
  <2> QED BY <1>18, <2>3, <2>4 DEF SendAnswer, TaskType, loop
<1>19. ASSUME NEW st \in {"cancelled", "interrupted"}, NEW ok \in BOOLEAN, Stop(st,
              ok)
       PROVE  TaskType'
  BY <1>19 DEF Stop, loop, history, TaskType
<1>20. CASE Crash
  BY <1>20 DEF Crash, NoAnswer, loop, history, TaskType
<1>21. CASE UNCHANGED vars
  BY <1>21 DEF vars, TaskType
<1>22. CASE Connect
  BY <1>22 DEF Connect, Goto, channel, loop, TaskType, AtMostOneLateStart, Outcome,
     service
<1>23. CASE BeginOverlong
  <2>1. /\ pc = "call" /\ queue # <<>> /\ total' = total + 1
        /\ called' = [called EXCEPT ![total + 1] = Head(queue)]
        /\ pc' = "failed"
        /\ UNCHANGED <<channel, direct, rounds, queue, completed, declined, verdict, result,
                       history>>
    BY <1>23 DEF BeginOverlong, Goto
  <2>2. Head(queue) \in Calls /\ Len(queue) \in Nat /\ Len(queue) >= 1
    BY <2>1 DEF TaskType
  <2>3. total' \in 0 .. MaxCalls
    BY <2>1, <2>2 DEF TaskType, NumberInv
  <2>4. called' \in [Steps -> Calls \cup {"none"}]
    BY <2>1, <2>2 DEF TaskType
  <2> QED BY <2>1, <2>3, <2>4 DEF TaskType, channel, history, Outcome
<1>24. CASE OpenOverlong
  BY <1>24 DEF OpenOverlong, Overlong, Yield, Goto, loop, history, TaskType, Results,
     BeforeRun, InStep
<1>25. CASE RecordOverlong
  BY <1>25 DEF RecordOverlong, Goto, channel, history, TaskType, Outcome
<1> QED
  BY <1>1, <1>2, <1>3, <1>4, <1>5, <1>6, <1>7, <1>8, <1>9, <1>10, <1>11, <1>12, <1>13,
     <1>14, <1>15, <1>16, <1>17, <1>18, <1>19, <1>20, <1>21, <1>22, <1>23, <1>24,
     <1>25 DEF Next, TaskStep

-------------------------------------------------------------------------------
(* The parts of the invariant, step by step.                               *)

\* A request only loses its place with its flag raised, in finish or with the
\* process.
LEMMA SlotInvStep ==
  ASSUME TypeOK, SlotInv, [Next]_vars PROVE SlotInv'
<1> USE LimitAssumption, CallsAssumption
<1>1. CASE Round \/ Ask \/ ModelEnds \/ NextRound
  BY <1>1 DEF Round, service, Ask, ModelEnds, NextRound, SlotInv
<1>2. ASSUME NEW batch \in Batches, ModelCalls(batch)
      PROVE  SlotInv'
  BY <1>2 DEF ModelCalls, service, SlotInv
<1>3. ASSUME NEW ok \in BOOLEAN, BeginStep(ok)
      PROVE  SlotInv'
  BY <1>3 DEF BeginStep, UpdateTask, service, SlotInv, TypeOK
<1>4. CASE Invoke \/ Lease \/ CheckApproved \/ ToolEnds
  BY <1>4 DEF Invoke, service, Lease, CheckApproved, ToolEnds, SlotInv
<1>5. ASSUME NEW ok \in BOOLEAN, OpenConfirmation(ok)
      PROVE  SlotInv'
  BY <1>5 DEF OpenConfirmation, UpdateTask, service, SlotInv, TypeOK
<1>6. CASE WaitEnds
  BY <1>6 DEF WaitEnds, service, SlotInv
<1>7. ASSUME NEW ok \in BOOLEAN, CloseConfirmation(ok)
      PROVE  SlotInv'
  BY <1>7 DEF CloseConfirmation, UpdateTask, service, SlotInv, TypeOK
<1>8. CASE Dispatch
  BY <1>8 DEF Dispatch, service, SlotInv
<1>9. ASSUME NEW ok \in BOOLEAN, Record(ok)
      PROVE  SlotInv'
  BY <1>9 DEF Record, UpdateTask, service, SlotInv, TypeOK
<1>10. ASSUME NEW ok \in BOOLEAN, Finish(ok)
       PROVE  SlotInv'
  BY <1>10 DEF Finish, Goto, SlotInv
<1>11. ASSUME NEW k \in Steps, NEW answer \in {"approved", "rejected"}, NEW ok \in
              BOOLEAN, Resolve(k, answer, ok)
       PROVE  SlotInv'
  BY <1>11 DEF Resolve, UpdateTask, SlotInv, TypeOK
<1>12. CASE SendAnswer
  BY <1>12 DEF SendAnswer, service, SlotInv
<1>13. ASSUME NEW st \in {"cancelled", "interrupted"}, NEW ok \in BOOLEAN, Stop(st,
              ok)
       PROVE  SlotInv'
  BY <1>13 DEF Stop, SlotInv
<1>14. CASE Crash
  BY <1>14 DEF Crash, SlotInv
<1>15. CASE UNCHANGED vars
  BY <1>15 DEF vars, SlotInv
<1>16. CASE Connect
  BY <1>16 DEF service, Goto, Connect, SlotInv, channel, loop
<1>17. CASE BeginOverlong
  BY <1>17 DEF BeginOverlong, Overlong, service, SlotInv, TypeOK
<1>18. CASE OpenOverlong
  BY <1>18 DEF OpenOverlong, Overlong, service, SlotInv, TypeOK
<1>19. CASE RecordOverlong
  BY <1>19 DEF RecordOverlong, Overlong, service, SlotInv, TypeOK
<1> QED
  BY <1>1, <1>2, <1>3, <1>4, <1>5, <1>6, <1>7, <1>8, <1>9, <1>10, <1>11, <1>12, <1>13,
     <1>14, <1>15, <1>16, <1>17, <1>18, <1>19 DEF Next, TaskStep

\* Only BeginStep begins a step, with the number after the last one; everything
\* else changes steps that exist.
LEMMA NumberInvStep ==
  ASSUME TypeOK, SlotInv, NumberInv, [Next]_vars PROVE NumberInv'
<1> USE LimitAssumption, CallsAssumption
<1>1. CASE Round
  BY <1>1 DEF Round, Goto, service, channel, history, NumberInv, BeforeRun, InStep,
     Answered
<1>2. CASE Ask
  BY <1>2 DEF Ask, Goto, service, channel, loop, history, NumberInv, BeforeRun, InStep,
     Answered
<1>3. CASE ModelEnds
  BY <1>3 DEF ModelEnds, Goto, service, channel, loop, history, NumberInv, BeforeRun,
     InStep, Answered
<1>4. ASSUME NEW batch \in Batches, ModelCalls(batch)
      PROVE  NumberInv'
  BY <1>4 DEF ModelCalls, Goto, service, channel, history, NumberInv, BeforeRun, InStep,
     Answered, TypeOK
<1>5. ASSUME NEW ok \in BOOLEAN, BeginStep(ok)
      PROVE  NumberInv'
  <2>1. CASE ~StillActive
    BY <1>5, <2>1 DEF BeginStep, Goto, service, channel, history, NumberInv, InStep,
       BeforeRun, Answered
  <2>2. CASE StillActive
    <3>1. /\ pc = "call" /\ queue # <<>> /\ total' = total + 1
          /\ called' = [called EXCEPT ![total + 1] = Head(queue)]
          /\ UNCHANGED <<channel, queue, dispatched, approved, rejected>>
      BY <1>5, <2>2 DEF BeginStep, history
    <3>2. total \in 0 .. MaxCalls /\ total + Len(queue) <= MaxCalls
      BY <3>1 DEF NumberInv, TypeOK
    <3>3. Head(queue) \in Calls /\ Len(queue) \in Nat /\ Len(queue) >= 1
      BY <3>1 DEF TypeOK
    <3>4. total + 1 \in Steps
      BY <3>2, <3>3 DEF Steps
    <3>5. pc' # "call"
      BY <1>5 DEF BeginStep, Choose, Yield, Goto
    <3>6. /\ called'[total'] = Head(queue')
          /\ \A k \in 1 .. total' : called'[k] \in Calls
      BY <3>1 DEF NumberInv, TypeOK, Steps
    <3>7. \A k \in Steps : step'[k] # "none" \/ stored'[k] # "none" => k <= total'
      BY <1>5, <3>1 DEF BeginStep, UpdateTask, NumberInv, TypeOK
    <3>8. /\ dispatched' \subseteq 1 .. total' /\ Answered' \subseteq 1 .. total'
          /\ resolver'.step <= total'
      BY <3>1 DEF NumberInv, Answered, channel, TypeOK
    <3> QED BY <3>1, <3>2, <3>5, <3>6, <3>7, <3>8 DEF NumberInv
  <2> QED BY <2>1, <2>2
<1>6. CASE NextRound
  BY <1>6 DEF NextRound, Goto, service, channel, loop, history, NumberInv, BeforeRun,
     InStep, Answered
<1>7. CASE Invoke
  BY <1>7 DEF Invoke, Yield, Goto, service, channel, loop, history, NumberInv, BeforeRun,
     InStep, Answered
<1>8. CASE Lease
  BY <1>8 DEF Lease, Yield, Goto, service, channel, loop, history, NumberInv, BeforeRun,
     InStep, Answered
<1>9. ASSUME NEW ok \in BOOLEAN, OpenConfirmation(ok)
      PROVE  NumberInv'
  BY <1>9 DEF OpenConfirmation, UpdateTask, Yield, Goto, service, loop, history,
     NumberInv, BeforeRun, InStep, Answered, TypeOK
<1>10. CASE WaitEnds
  BY <1>10 DEF WaitEnds, Goto, service, channel, loop, history, NumberInv, BeforeRun,
     InStep, Answered
<1>11. ASSUME NEW ok \in BOOLEAN, CloseConfirmation(ok)
       PROVE  NumberInv'
  BY <1>11 DEF CloseConfirmation, UpdateTask, Yield, Goto, service, channel, loop,
     history, NumberInv, BeforeRun, InStep, Answered, TypeOK
<1>12. CASE CheckApproved
  BY <1>12 DEF CheckApproved, Yield, Goto, service, channel, loop, history, NumberInv,
     BeforeRun, InStep, Answered
<1>13. CASE Dispatch
  BY <1>13 DEF Dispatch, Goto, service, channel, loop, NumberInv, BeforeRun, InStep,
     Answered, TypeOK
<1>14. CASE ToolEnds
  BY <1>14 DEF ToolEnds, Yield, Goto, service, channel, loop, history, NumberInv, InStep,
     Answered
<1>15. ASSUME NEW ok \in BOOLEAN, Record(ok)
       PROVE  NumberInv'
  <2>1. pc = "record" /\ queue # <<>> /\ total \in Steps /\ total + Len(queue) <= MaxCalls + 1
    BY <1>15 DEF Record, NumberInv, InStep, TypeOK, Steps
  <2>2. pc' = "call" => total' + Len(queue') <= MaxCalls
    <3>1. SUFFICES ASSUME pc' = "call" PROVE total' + Len(queue') <= MaxCalls
      OBVIOUS
    <3>2. queue' = Tail(queue) /\ total' = total
      BY <1>15, <3>1 DEF Record, Goto
    <3>3. Len(Tail(queue)) = Len(queue) - 1 /\ Len(queue) \in Nat
      BY <2>1
    <3> QED BY <2>1, <3>2 DEF Steps
  <2>3. pc' \notin InStep
    BY <1>15 DEF Record, Goto, InStep, BeforeRun
  <2>4. \A k \in Steps : step'[k] # "none" \/ stored'[k] # "none" => k <= total'
    BY <1>15 DEF Record, service, UpdateTask, NumberInv, TypeOK
  <2> QED BY <1>15, <2>2, <2>3, <2>4 DEF Record, channel, history, NumberInv, Answered
<1>16. ASSUME NEW ok \in BOOLEAN, Finish(ok)
       PROVE  NumberInv'
  BY <1>16 DEF Finish, Settled, Goto, channel, loop, history, NumberInv, BeforeRun,
     InStep, Answered, Unfinished
<1>17. ASSUME NEW k \in Steps, NEW answer \in {"approved", "rejected"}, NEW ok \in
              BOOLEAN, Resolve(k, answer, ok)
       PROVE  NumberInv'
  BY <1>17 DEF Resolve, UpdateTask, loop, history, NumberInv, Answered
<1>18. CASE SendAnswer
  <2>1. resolver.step \in 1 .. total /\ total \in Nat
    BY <1>18 DEF SendAnswer, NumberInv, TypeOK
  <2>2. Answered' \subseteq Answered \cup {resolver.step}
    BY <1>18 DEF SendAnswer, Answered
  <2>3. resolver'.step = 0
    BY <1>18 DEF SendAnswer, NoAnswer
  <2> QED BY <1>18, <2>1, <2>2, <2>3 DEF SendAnswer, service, loop, NumberInv
<1>19. ASSUME NEW st \in {"cancelled", "interrupted"}, NEW ok \in BOOLEAN, Stop(st,
              ok)
       PROVE  NumberInv'
  BY <1>19 DEF Stop, Settled, loop, history, NumberInv, Answered, Unfinished
<1>20. CASE Crash
  BY <1>20 DEF Crash, NoAnswer, loop, history, NumberInv, BeforeRun, InStep, Answered,
     Unfinished, TypeOK
<1>21. CASE UNCHANGED vars
  BY <1>21 DEF vars, NumberInv, Answered
<1>22. CASE Connect
  BY <1>22 DEF Connect, Goto, service, channel, loop, NumberInv, BeforeRun, InStep,
     Answered
<1>23. CASE BeginOverlong
  <2>1. /\ pc = "call" /\ queue # <<>> /\ total' = total + 1
        /\ called' = [called EXCEPT ![total + 1] = Head(queue)]
        /\ pc' = "failed"
        /\ UNCHANGED <<channel, queue, dispatched, approved, rejected>>
    BY <1>23 DEF BeginOverlong, Goto, history
  <2>2. /\ total \in 0 .. MaxCalls /\ total + Len(queue) <= MaxCalls
        /\ Head(queue) \in Calls /\ Len(queue) \in Nat /\ Len(queue) >= 1
    BY <2>1 DEF NumberInv, TypeOK
  <2>3. \A k \in 1 .. total' : called'[k] \in Calls
    BY <2>1, <2>2 DEF NumberInv, TypeOK, Steps
  <2>4. \A k \in Steps : step'[k] # "none" \/ stored'[k] # "none" => k <= total'
    BY <1>23, <2>1 DEF BeginOverlong, Overlong, NumberInv, TypeOK
  <2>5. /\ dispatched' \subseteq 1 .. total' /\ Answered' \subseteq 1 .. total'
        /\ resolver'.step <= total'
    BY <2>1 DEF NumberInv, Answered, channel, TypeOK
  <2>6. pc' \notin InStep' /\ pc' # "call"
    BY <2>1 DEF InStep, BeforeRun
  <2> QED BY <2>3, <2>4, <2>5, <2>6 DEF NumberInv
<1>24. CASE OpenOverlong
  BY <1>24 DEF OpenOverlong, Overlong, Yield, Goto, service, loop, history, NumberInv,
     BeforeRun, InStep, Answered, TypeOK
<1>25. CASE RecordOverlong
  <2>1. pc' \notin InStep' /\ pc' # "call"
    BY <1>25 DEF RecordOverlong, Goto, InStep, BeforeRun
  <2>2. total \in Steps
    BY <1>25 DEF RecordOverlong, NumberInv, InStep, TypeOK, Steps
  <2>3. \A k \in Steps : step'[k] # "none" \/ stored'[k] # "none" => k <= total'
    BY <1>25, <2>2 DEF RecordOverlong, Overlong, NumberInv, TypeOK
  <2> QED BY <1>25, <2>1, <2>3 DEF RecordOverlong, channel, history, NumberInv, Answered
<1> QED
  BY <1>1, <1>2, <1>3, <1>4, <1>5, <1>6, <1>7, <1>8, <1>9, <1>10, <1>11, <1>12, <1>13,
     <1>14, <1>15, <1>16, <1>17, <1>18, <1>19, <1>20, <1>21, <1>22, <1>23, <1>24,
     <1>25 DEF Next, TaskStep

\* resolve_tool_confirmation takes the pending approval and the awaited state
\* away together, so no second window finds them, and a new confirmation is
\* opened on an unanswered step.
LEMMA AnswerInvStep ==
  ASSUME TypeOK, NumberInv, AnswerInv, PromptIsLive, [Next]_vars PROVE AnswerInv'
<1> USE LimitAssumption, CallsAssumption
<1>1. CASE Round
  BY <1>1 DEF Round, Goto, service, channel, history, AnswerInv, Answered
<1>2. CASE Ask
  BY <1>2 DEF Ask, Goto, service, channel, loop, history, AnswerInv, Answered
<1>3. CASE ModelEnds
  BY <1>3 DEF ModelEnds, Goto, service, channel, history, AnswerInv, Answered
<1>4. ASSUME NEW batch \in Batches, ModelCalls(batch)
      PROVE  AnswerInv'
  BY <1>4 DEF ModelCalls, Goto, service, channel, history, AnswerInv, Answered
<1>5. ASSUME NEW ok \in BOOLEAN, BeginStep(ok)
      PROVE  AnswerInv'
  BY <1>5 DEF BeginStep, UpdateTask, Goto, service, channel, history, NumberInv,
     AnswerInv, Answered, TypeOK
<1>6. CASE NextRound
  BY <1>6 DEF NextRound, Goto, service, channel, history, AnswerInv, Answered
<1>7. CASE Invoke
  BY <1>7 DEF Invoke, service, channel, loop, history, AnswerInv, Answered
<1>8. CASE Lease
  BY <1>8 DEF Lease, service, channel, loop, history, AnswerInv, Answered
<1>9. ASSUME NEW ok \in BOOLEAN, OpenConfirmation(ok)
      PROVE  AnswerInv'
  BY <1>9 DEF OpenConfirmation, UpdateTask, service, loop, history, AnswerInv, Answered,
     TypeOK
<1>10. CASE WaitEnds
  BY <1>10 DEF WaitEnds, Goto, service, channel, history, AnswerInv, Answered
<1>11. ASSUME NEW ok \in BOOLEAN, CloseConfirmation(ok)
       PROVE  AnswerInv'
  BY <1>11 DEF CloseConfirmation, UpdateTask, Yield, Goto, service, channel, history,
     AnswerInv, Answered, TypeOK
<1>12. CASE CheckApproved
  BY <1>12 DEF CheckApproved, Yield, Goto, service, channel, history, AnswerInv, Answered
<1>13. CASE Dispatch
  BY <1>13 DEF Dispatch, Goto, service, channel, AnswerInv, Answered
<1>14. CASE ToolEnds
  BY <1>14 DEF ToolEnds, Yield, Goto, service, channel, history, AnswerInv, Answered
<1>15. ASSUME NEW ok \in BOOLEAN, Record(ok)
       PROVE  AnswerInv'
  BY <1>15 DEF Record, UpdateTask, StepEnd, Goto, service, channel, history, AnswerInv,
     Answered, TypeOK
<1>16. ASSUME NEW ok \in BOOLEAN, Finish(ok)
       PROVE  AnswerInv'
  BY <1>16 DEF Finish, Settled, Goto, channel, history, NumberInv, AnswerInv, Answered
<1>17. ASSUME NEW k \in Steps, NEW answer \in {"approved", "rejected"}, NEW ok \in
              BOOLEAN, Resolve(k, answer, ok)
       PROVE  AnswerInv'
  <2>1. /\ approval /\ k = total /\ step[k] = "awaiting_confirmation"
        /\ step' = [step EXCEPT ![total] = "running"] /\ approval' = FALSE
        /\ UNCHANGED <<pc, total, approved, rejected>>
    BY <1>17 DEF Resolve, UpdateTask, loop, history
  <2>2. \/ resolver' = resolver
        \/ resolver' = [step |-> k, answer |-> answer]
    BY <1>17 DEF Resolve
  <2>3. k \notin Answered \cup {resolver.step} /\ k # 0
    BY <2>1 DEF AnswerInv, Steps
  <2>4. pc \notin {"invoke", "leasing", "confirm"}
    BY <1>17 DEF Resolve, PromptIsLive
  <2> QED BY <1>17, <2>1, <2>2, <2>4 DEF AnswerInv, Answered, TypeOK
<1>18. CASE SendAnswer
  <2> DEFINE k == resolver.step
  <2>1. k # 0 /\ resolver' = NoAnswer /\ UNCHANGED <<step, approval, pc, total>>
    BY <1>18 DEF SendAnswer, service, loop
  <2>2. resolver'.step = 0
    BY <2>1 DEF NoAnswer
  <2>3. /\ approved' \subseteq approved \cup {k} /\ rejected' \subseteq rejected \cup {k}
        /\ approved' = approved \/ rejected' = rejected
    BY <1>18 DEF SendAnswer
  <2>4. Answered' \subseteq Answered \cup {k} /\ approved' \cap rejected' = {}
    BY <2>3 DEF AnswerInv, Answered
  <2>5. 0 \notin Answered'
    BY <1>18, <2>1, <2>4 DEF TypeOK, Answered, Steps
  <2>6. pc = "waiting" \/ Answered' = Answered
    BY <1>18 DEF SendAnswer, Answered
  <2>7. total # 0 \/ pc \notin InStep
    BY DEF NumberInv
  <2> QED BY <2>1, <2>2, <2>4, <2>5, <2>7 DEF AnswerInv, InStep, BeforeRun, Steps
<1>19. ASSUME NEW st \in {"cancelled", "interrupted"}, NEW ok \in BOOLEAN, Stop(st,
              ok)
       PROVE  AnswerInv'
  BY <1>19 DEF Stop, Settled, loop, history, AnswerInv, Answered
<1>20. CASE Crash
  <2>1. /\ pc' = "over" /\ resolver'.step = 0 /\ UNCHANGED <<approved, rejected>>
        /\ \A k \in Steps : step'[k] # "awaiting_confirmation"
    BY <1>20 DEF Crash, NoAnswer, history, Unfinished
  <2>2. 0 \notin Answered
    BY DEF Answered, TypeOK, Steps
  <2> QED BY <2>1, <2>2 DEF AnswerInv, Answered
<1>21. CASE UNCHANGED vars
  BY <1>21 DEF vars, AnswerInv, Answered
<1>22. CASE Connect
  BY <1>22 DEF Connect, Goto, service, channel, AnswerInv, Answered, loop
<1>23. CASE BeginOverlong
  BY <1>23 DEF BeginOverlong, Overlong, Goto, service, channel, history, NumberInv,
     AnswerInv, Answered, TypeOK
<1>24. CASE OpenOverlong
  BY <1>24 DEF OpenOverlong, Overlong, service, loop, history, AnswerInv, Answered,
     TypeOK
<1>25. CASE RecordOverlong
  BY <1>25 DEF RecordOverlong, Overlong, StepEnd, Goto, service, channel, history,
     AnswerInv, Answered, TypeOK
<1> QED
  BY <1>1, <1>2, <1>3, <1>4, <1>5, <1>6, <1>7, <1>8, <1>9, <1>10, <1>11, <1>12, <1>13,
     <1>14, <1>15, <1>16, <1>17, <1>18, <1>19, <1>20, <1>21, <1>22, <1>23, <1>24,
     <1>25 DEF Next, TaskStep

\* An answer goes from the window to the channel, to the verdict, to the tool:
\* at each of them it is still that of the current step.
LEMMA VerdictInvStep ==
  ASSUME TypeOK, NumberInv, AnswerInv, VerdictInv, [Next]_vars PROVE VerdictInv'
<1> USE LimitAssumption, CallsAssumption
<1>1. CASE Round \/ Ask \/ ModelEnds \/ NextRound
  BY <1>1 DEF Round, Goto, Ask, ModelEnds, NextRound, VerdictInv
<1>2. ASSUME NEW batch \in Batches, ModelCalls(batch)
      PROVE  VerdictInv'
  BY <1>2 DEF ModelCalls, Goto, VerdictInv
<1>3. ASSUME NEW ok \in BOOLEAN, BeginStep(ok)
      PROVE  VerdictInv'
  BY <1>3 DEF BeginStep, Choose, Yield, Goto, VerdictInv
<1>4. CASE Invoke \/ Lease \/ CheckApproved \/ ToolEnds
  BY <1>4 DEF Invoke, Yield, Goto, loop, history, Lease, CheckApproved, ToolEnds,
     VerdictInv
<1>5. ASSUME NEW ok \in BOOLEAN, OpenConfirmation(ok)
      PROVE  VerdictInv'
  BY <1>5 DEF OpenConfirmation, UpdateTask, Yield, Goto, loop, history, AnswerInv,
     VerdictInv, Answered
<1>6. CASE WaitEnds
  BY <1>6 DEF WaitEnds, Goto, loop, history, VerdictInv
<1>7. ASSUME NEW ok \in BOOLEAN, CloseConfirmation(ok)
      PROVE  VerdictInv'
  BY <1>7 DEF CloseConfirmation, Granted, UpdateTask, Yield, Goto, loop, history,
     VerdictInv
<1>8. CASE Dispatch
  BY <1>8 DEF Dispatch, Goto, VerdictInv
<1>9. ASSUME NEW ok \in BOOLEAN, Record(ok)
      PROVE  VerdictInv'
  BY <1>9 DEF Record, Goto, VerdictInv
<1>10. ASSUME NEW ok \in BOOLEAN, Finish(ok)
       PROVE  VerdictInv'
  BY <1>10 DEF Finish, Goto, VerdictInv
<1>11. ASSUME NEW k \in Steps, NEW answer \in {"approved", "rejected"}, NEW ok \in
              BOOLEAN, Resolve(k, answer, ok)
       PROVE  VerdictInv'
  BY <1>11 DEF Resolve, loop, history, AnswerInv, VerdictInv, Answered
<1>12. CASE SendAnswer
  BY <1>12 DEF SendAnswer, loop, AnswerInv, VerdictInv, Answered
<1>13. ASSUME NEW st \in {"cancelled", "interrupted"}, NEW ok \in BOOLEAN, Stop(st,
              ok)
       PROVE  VerdictInv'
  BY <1>13 DEF Stop, loop, history, AnswerInv, VerdictInv, Answered
<1>14. CASE Crash
  BY <1>14 DEF Crash, VerdictInv
<1>15. CASE UNCHANGED vars
  BY <1>15 DEF vars, VerdictInv
<1>16. CASE Connect
  BY <1>16 DEF Goto, Connect, VerdictInv, service, channel, loop
<1>17. CASE BeginOverlong
  BY <1>17 DEF BeginOverlong, Overlong, Choose, Yield, Goto, VerdictInv
<1>18. CASE OpenOverlong
  BY <1>18 DEF OpenOverlong, Overlong, Yield, Goto, loop, history, AnswerInv,
     VerdictInv, Answered
<1>19. CASE RecordOverlong
  BY <1>19 DEF RecordOverlong, Overlong, Goto, VerdictInv
<1> QED
  BY <1>1, <1>2, <1>3, <1>4, <1>5, <1>6, <1>7, <1>8, <1>9, <1>10, <1>11, <1>12, <1>13,
     <1>14, <1>15, <1>16, <1>17, <1>18, <1>19 DEF Next, TaskStep

\* A refusal becomes declined before the next call is chosen, and a declined
\* loop chooses no modifying call.
LEMMA RefusalInvStep ==
  ASSUME TypeOK, SlotInv, NumberInv, AnswerInv, VerdictInv, RefusalInv, [Next]_vars PROVE RefusalInv'
<1> USE LimitAssumption, CallsAssumption
<1>1. CASE Round \/ Ask \/ ModelEnds \/ NextRound
  BY <1>1 DEF Round, MayTurn, Goto, service, channel, history, Ask, loop, ModelEnds,
     NextRound, SlotInv, NumberInv, AnswerInv, VerdictInv, RefusalInv, StillActive, Steps,
     BeforeRun, InStep, Answered, Outcome, Unfinished, TypeOK
<1>2. ASSUME NEW batch \in Batches, ModelCalls(batch)
      PROVE  RefusalInv'
  BY <1>2 DEF ModelCalls, Goto, service, history, RefusalInv, BeforeRun
<1>3. ASSUME NEW ok \in BOOLEAN, BeginStep(ok)
      PROVE  RefusalInv'
  BY <1>3 DEF BeginStep, Choose, Yield, Goto, service, history, NumberInv, RefusalInv,
     StillActive, Steps, BeforeRun, TypeOK
<1>4. CASE Invoke \/ Lease \/ CheckApproved \/ ToolEnds
  BY <1>4 DEF Invoke, Yield, Goto, service, channel, loop, history, Lease, CheckApproved,
     ToolEnds, SlotInv, NumberInv, AnswerInv, VerdictInv, RefusalInv, StillActive, Steps,
     BeforeRun, InStep, Answered, Outcome, Unfinished, TypeOK
<1>5. ASSUME NEW ok \in BOOLEAN, OpenConfirmation(ok)
      PROVE  RefusalInv'
  BY <1>5 DEF OpenConfirmation, history, AnswerInv, VerdictInv, RefusalInv, BeforeRun,
     Answered
<1>6. CASE WaitEnds
  BY <1>6 DEF WaitEnds, Goto, service, loop, history, VerdictInv, RefusalInv, BeforeRun
<1>7. ASSUME NEW ok \in BOOLEAN, CloseConfirmation(ok)
      PROVE  RefusalInv'
  BY <1>7 DEF CloseConfirmation, Granted, UpdateTask, Yield, Goto, service, channel, loop,
     history, SlotInv, NumberInv, AnswerInv, VerdictInv, RefusalInv, StillActive, Steps,
     BeforeRun, InStep, Answered, Outcome, Unfinished, TypeOK
<1>8. CASE Dispatch
  BY <1>8 DEF Dispatch, service, loop, RefusalInv, BeforeRun
<1>9. ASSUME NEW ok \in BOOLEAN, Record(ok)
      PROVE  RefusalInv'
  BY <1>9, QueueType DEF Record, UpdateTask, StepEnd, Goto, service, channel, history,
     SlotInv, NumberInv, AnswerInv, VerdictInv, RefusalInv, StillActive, Steps, BeforeRun,
     InStep, Answered, Outcome, Unfinished, TypeOK
<1>10. ASSUME NEW ok \in BOOLEAN, Finish(ok)
       PROVE  RefusalInv'
  BY <1>10 DEF Finish, Goto, loop, history, RefusalInv, BeforeRun, Outcome
<1>11. ASSUME NEW k \in Steps, NEW answer \in {"approved", "rejected"}, NEW ok \in
              BOOLEAN, Resolve(k, answer, ok)
       PROVE  RefusalInv'
  BY <1>11 DEF Resolve, loop, history, RefusalInv, StillActive
<1>12. CASE SendAnswer
  BY <1>12 DEF SendAnswer, NoAnswer, service, loop, SlotInv, NumberInv, AnswerInv,
     VerdictInv, RefusalInv, StillActive, Steps, BeforeRun, InStep, Answered, Outcome,
     Unfinished, TypeOK
<1>13. ASSUME NEW st \in {"cancelled", "interrupted"}, NEW ok \in BOOLEAN, Stop(st,
              ok)
       PROVE  RefusalInv'
  BY <1>13 DEF Stop, loop, history, RefusalInv
<1>14. CASE Crash
  BY <1>14 DEF Crash, RefusalInv, BeforeRun
<1>15. CASE UNCHANGED vars
  BY <1>15 DEF vars, RefusalInv
<1>16. CASE Connect
  BY <1>16 DEF Goto, service, channel, history, Connect, loop, SlotInv, NumberInv,
     AnswerInv, VerdictInv, RefusalInv, StillActive, Steps, BeforeRun, InStep,
     Answered, Outcome, Unfinished, TypeOK
<1>17. CASE BeginOverlong
  BY <1>17 DEF BeginOverlong, Overlong, Choose, Yield, Goto, service, history,
     NumberInv, RefusalInv, StillActive, Steps, BeforeRun, TypeOK
<1>18. CASE OpenOverlong
  BY <1>18 DEF OpenOverlong, Overlong, history, AnswerInv, VerdictInv, RefusalInv,
     BeforeRun, Answered
<1>19. CASE RecordOverlong
  BY <1>19, QueueType DEF RecordOverlong, Overlong, StepEnd, Goto, service, channel,
     history, SlotInv, NumberInv, AnswerInv, VerdictInv, RefusalInv, StillActive,
     Steps, BeforeRun, InStep, Answered, Outcome, Unfinished, TypeOK
<1> QED
  BY <1>1, <1>2, <1>3, <1>4, <1>5, <1>6, <1>7, <1>8, <1>9, <1>10, <1>11, <1>12, <1>13,
     <1>14, <1>15, <1>16, <1>17, <1>18, <1>19 DEF Next, TaskStep

\* Record writes the cache before the next call is chosen.
LEMMA CacheInvStep ==
  ASSUME TypeOK, NumberInv, CacheInv, [Next]_vars PROVE CacheInv'
<1> USE LimitAssumption, CallsAssumption
<1>1. CASE Round \/ Ask \/ ModelEnds \/ NextRound
  <2>1. /\ pc \notin BeforeRun \cup {"running", "record", "over"} \cup Outcome
        /\ pc' \notin BeforeRun \cup {"running", "record", "over"}
    <3>1. CASE Round
      BY <3>1 DEF Round, Goto, BeforeRun, Outcome
    <3>2. CASE Ask
      BY <3>2 DEF Ask, Goto, BeforeRun, Outcome
    <3>3. CASE ModelEnds
      BY <3>3 DEF ModelEnds, Goto, BeforeRun, Outcome
    <3>4. CASE NextRound
      BY <3>4 DEF NextRound, Goto, BeforeRun, Outcome
    <3> QED BY <1>1, <3>1, <3>2, <3>3, <3>4
  <2>2. UNCHANGED <<completed, called, dispatched>>
    <3>1. CASE Round
      BY <3>1 DEF Round, history
    <3>2. CASE Ask
      BY <3>2 DEF Ask, loop, history
    <3>3. CASE ModelEnds
      BY <3>3 DEF ModelEnds, loop, history
    <3>4. CASE NextRound
      BY <3>4 DEF NextRound, loop, history
    <3> QED BY <1>1, <3>1, <3>2, <3>3, <3>4
  <2>3. \A k \in dispatched : completed[called[k]] # "none"
    BY <2>1 DEF CacheInv
  <2>4. \A k \in dispatched' : completed'[called'[k]] # "none"
    BY <2>2, <2>3
  <2>5. /\ ~(pc' \in BeforeRun) /\ pc' # "running" /\ pc' # "record"
    BY <2>1
  <2>6. BeforeRun' = BeforeRun
    BY DEF BeforeRun
  <2> QED BY <2>4, <2>5, <2>6 DEF CacheInv
<1>2. ASSUME NEW batch \in Batches, ModelCalls(batch)
      PROVE  CacheInv'
  BY <1>2 DEF ModelCalls, Goto, history, CacheInv, BeforeRun, Outcome
<1>3. ASSUME NEW ok \in BOOLEAN, BeginStep(ok)
      PROVE  CacheInv'
  BY <1>3 DEF BeginStep, Choose, Yield, Goto, history, NumberInv, CacheInv, Steps,
     BeforeRun, Outcome, TypeOK
<1>4. CASE Invoke \/ Lease \/ CheckApproved \/ ToolEnds
  <2>1. CASE Invoke
    BY <2>1 DEF Invoke, Yield, Goto, loop, history, CacheInv, BeforeRun, Outcome
  <2>2. CASE Lease
    BY <2>2 DEF Lease, Yield, Goto, loop, history, CacheInv, BeforeRun, Outcome
  <2>3. CASE CheckApproved
    BY <2>3 DEF CheckApproved, Yield, Goto, loop, history, CacheInv, BeforeRun, Outcome
  <2>4. CASE ToolEnds
    BY <2>4 DEF ToolEnds, Yield, Goto, loop, history, CacheInv, BeforeRun, Outcome
  <2> QED BY <1>4, <2>1, <2>2, <2>3, <2>4
<1>5. ASSUME NEW ok \in BOOLEAN, OpenConfirmation(ok)
      PROVE  CacheInv'
  BY <1>5 DEF OpenConfirmation, UpdateTask, Yield, Goto, loop, history, CacheInv,
     BeforeRun, Outcome
<1>6. CASE WaitEnds
  BY <1>6 DEF WaitEnds, Goto, loop, history, CacheInv, BeforeRun, Outcome
<1>7. ASSUME NEW ok \in BOOLEAN, CloseConfirmation(ok)
      PROVE  CacheInv'
  BY <1>7 DEF CloseConfirmation, UpdateTask, Yield, Goto, loop, history, CacheInv,
     BeforeRun, Outcome
<1>8. CASE Dispatch
  BY <1>8 DEF Dispatch, Goto, loop, CacheInv, BeforeRun, Outcome
<1>9. ASSUME NEW ok \in BOOLEAN, Record(ok)
      PROVE  CacheInv'
  BY <1>9 DEF Record, Goto, history, NumberInv, CacheInv, BeforeRun, Outcome, TypeOK
<1>10. ASSUME NEW ok \in BOOLEAN, Finish(ok)
       PROVE  CacheInv'
  BY <1>10 DEF Finish, Goto, CacheInv, BeforeRun
<1>11. ASSUME NEW k \in Steps, NEW answer \in {"approved", "rejected"}, NEW ok \in
              BOOLEAN, Resolve(k, answer, ok)
       PROVE  CacheInv'
  BY <1>11 DEF Resolve, loop, history, CacheInv
<1>12. CASE SendAnswer
  BY <1>12 DEF SendAnswer, loop, CacheInv
<1>13. ASSUME NEW st \in {"cancelled", "interrupted"}, NEW ok \in BOOLEAN, Stop(st,
              ok)
       PROVE  CacheInv'
  BY <1>13 DEF Stop, loop, history, CacheInv
<1>14. CASE Crash
  BY <1>14 DEF Crash, CacheInv, BeforeRun
<1>15. CASE UNCHANGED vars
  BY <1>15 DEF vars, CacheInv
<1>16. CASE Connect
  <2>1. /\ pc = "connecting" /\ pc' \notin BeforeRun \cup {"running", "record"}
        /\ UNCHANGED <<completed, called, dispatched>>
    BY <1>16 DEF Connect, Goto, loop, BeforeRun
  <2>2. \A k \in dispatched' : completed'[called'[k]] # "none"
    BY <2>1 DEF CacheInv, Outcome
  <2> QED BY <2>1, <2>2 DEF CacheInv, BeforeRun
<1>17. CASE BeginOverlong
  BY <1>17 DEF BeginOverlong, Overlong, Choose, Yield, Goto, history, NumberInv,
     CacheInv, Steps, BeforeRun, Outcome, TypeOK
<1>18. CASE OpenOverlong
  BY <1>18 DEF OpenOverlong, Overlong, Yield, Goto, loop, history, CacheInv,
     BeforeRun, Outcome
<1>19. CASE RecordOverlong
  BY <1>19 DEF RecordOverlong, Overlong, Goto, history, NumberInv, CacheInv,
     BeforeRun, Outcome, TypeOK
<1> QED
  BY <1>1, <1>2, <1>3, <1>4, <1>5, <1>6, <1>7, <1>8, <1>9, <1>10, <1>11, <1>12, <1>13,
     <1>14, <1>15, <1>16, <1>17, <1>18, <1>19 DEF Next, TaskStep

\* The slot is never regained.
LEMMA LateInvStep ==
  ASSUME TypeOK, SlotInv, LateInv, AtMostOneLateStart, [Next]_vars PROVE LateInv'
<1> USE LimitAssumption, CallsAssumption
<1>1. CASE Round \/ Ask \/ ModelEnds \/ NextRound
  BY <1>1 DEF Round, service, history, Ask, ModelEnds, NextRound, LateInv
<1>2. ASSUME NEW batch \in Batches, ModelCalls(batch)
      PROVE  LateInv'
  BY <1>2 DEF ModelCalls, service, history, LateInv
<1>3. ASSUME NEW ok \in BOOLEAN, BeginStep(ok)
      PROVE  LateInv'
  BY <1>3 DEF BeginStep, service, history, LateInv, StillActive
<1>4. CASE Invoke \/ Lease \/ CheckApproved \/ ToolEnds
  BY <1>4 DEF Invoke, service, history, Lease, CheckApproved, ToolEnds, LateInv
<1>5. ASSUME NEW ok \in BOOLEAN, OpenConfirmation(ok)
      PROVE  LateInv'
  BY <1>5 DEF OpenConfirmation, service, history, LateInv, StillActive
<1>6. CASE WaitEnds
  BY <1>6 DEF WaitEnds, service, history, LateInv
<1>7. ASSUME NEW ok \in BOOLEAN, CloseConfirmation(ok)
      PROVE  LateInv'
  BY <1>7 DEF CloseConfirmation, service, history, LateInv, StillActive
<1>8. CASE Dispatch
  BY <1>8 DEF Dispatch, service, LateInv
<1>9. ASSUME NEW ok \in BOOLEAN, Record(ok)
      PROVE  LateInv'
  BY <1>9 DEF Record, service, history, LateInv, StillActive
<1>10. ASSUME NEW ok \in BOOLEAN, Finish(ok)
       PROVE  LateInv'
  BY <1>10 DEF Finish, LateInv
<1>11. ASSUME NEW k \in Steps, NEW answer \in {"approved", "rejected"}, NEW ok \in
              BOOLEAN, Resolve(k, answer, ok)
       PROVE  LateInv'
  BY <1>11 DEF Resolve, history, LateInv, StillActive
<1>12. CASE SendAnswer
  BY <1>12 DEF SendAnswer, service, LateInv
<1>13. ASSUME NEW st \in {"cancelled", "interrupted"}, NEW ok \in BOOLEAN, Stop(st,
              ok)
       PROVE  LateInv'
  BY <1>13 DEF Stop, LateInv
<1>14. CASE Crash
  BY <1>14 DEF Crash, LateInv
<1>15. CASE UNCHANGED vars
  BY <1>15 DEF vars, LateInv
<1>16. CASE Connect
  BY <1>16 DEF service, Goto, history, Connect, LateInv, channel, loop
<1>17. CASE BeginOverlong
  BY <1>17 DEF BeginOverlong, Overlong, service, history, LateInv, StillActive
<1>18. CASE OpenOverlong
  BY <1>18 DEF OpenOverlong, Overlong, service, history, LateInv, StillActive
<1>19. CASE RecordOverlong
  BY <1>19 DEF RecordOverlong, Overlong, service, history, LateInv, StillActive
<1> QED
  BY <1>1, <1>2, <1>3, <1>4, <1>5, <1>6, <1>7, <1>8, <1>9, <1>10, <1>11, <1>12, <1>13,
     <1>14, <1>15, <1>16, <1>17, <1>18, <1>19 DEF Next, TaskStep

\* Only Record reports a step as complete, and only with an outcome that the
\* tool or the cache gave.
LEMMA CompleteInvStep ==
  ASSUME TypeOK, SlotInv, NumberInv, CacheInv, CompleteInv, [Next]_vars PROVE CompleteInv'
<1> USE LimitAssumption, CallsAssumption
<1>1. CASE Round
  BY <1>1 DEF Round, Goto, service, history, CompleteInv, Ran
<1>2. CASE Ask
  BY <1>2 DEF Ask, Goto, service, loop, history, CompleteInv, Ran
<1>3. CASE ModelEnds
  BY <1>3 DEF ModelEnds, Goto, service, loop, history, CompleteInv, Ran
<1>4. ASSUME NEW batch \in Batches, ModelCalls(batch)
      PROVE  CompleteInv'
  BY <1>4 DEF ModelCalls, Goto, service, history, CompleteInv, Ran
<1>5. ASSUME NEW ok \in BOOLEAN, BeginStep(ok)
      PROVE  CompleteInv'
  <2>1. pc = "call" /\ total \in Nat
    BY <1>5 DEF BeginStep, TypeOK
  <2>2. CASE ~StillActive
    BY <1>5, <2>2 DEF BeginStep, Goto, service, history, CompleteInv, Ran
  <2>3. CASE StillActive
    <3>1. /\ total' = total + 1 /\ UNCHANGED <<dispatched, completed>>
          /\ step' = [step EXCEPT ![total + 1] = "running"]
          /\ called' = [called EXCEPT ![total + 1] = Head(queue)]
      BY <1>5, <2>3 DEF BeginStep, UpdateTask, history
    <3>2. \A k : k \in dispatched => k \in Steps /\ k <= total /\ k # total + 1 /\ k <= total + 1
      BY DEF NumberInv, TypeOK
    <3>3. \A j \in dispatched : called'[j] = called[j] /\ j <= total /\ j <= total'
      BY <3>1, <3>2
    <3>4. ASSUME NEW k \in Steps, "complete" \in {step'[k], stored'[k]}
          PROVE  "complete" \in {step[k], stored[k]} /\ k <= total
      BY <1>5, <3>1, <3>4 DEF BeginStep, UpdateTask, NumberInv, TypeOK
    <3>5. ASSUME NEW k \in Steps, "complete" \in {step'[k], stored'[k]}
          PROVE  \E j \in dispatched' : j <= k /\ called'[j] = called'[k]
      <4>1. called'[k] = called[k]
        BY <3>1, <3>4, <3>5 DEF TypeOK
      <4> QED BY <3>1, <3>3, <3>4, <3>5, <4>1 DEF CompleteInv, Ran
    <3>6. \A k \in Steps : "complete" \in {step'[k], stored'[k]} => Ran(called[k], k)'
      BY <3>5 DEF Ran
    <3>7. \A c \in Calls : completed'[c] = "ok" => Ran(c, total)'
      BY <3>1, <3>3 DEF CompleteInv, Ran
    <3>8. pc' = "record" /\ result' = "ok" => completed'[Head(queue)] = "ok"
      BY <1>5 DEF BeginStep, Choose, Yield, Goto
    <3>9. Head(queue) \in Calls /\ called'[total'] = Head(queue)
      BY <1>5, <3>1 DEF BeginStep, NumberInv, TypeOK, Steps
    <3> QED BY <3>6, <3>7, <3>8, <3>9 DEF CompleteInv
  <2> QED BY <2>2, <2>3
<1>6. CASE NextRound
  BY <1>6 DEF NextRound, Goto, service, loop, history, CompleteInv, Ran
<1>7. CASE Invoke
  BY <1>7 DEF Invoke, Yield, Goto, service, loop, history, CompleteInv, Ran
<1>8. CASE Lease
  BY <1>8 DEF Lease, Yield, Goto, service, loop, history, CompleteInv, Ran
<1>9. ASSUME NEW ok \in BOOLEAN, OpenConfirmation(ok)
      PROVE  CompleteInv'
  BY <1>9 DEF OpenConfirmation, UpdateTask, Yield, Goto, service, loop, history,
     CompleteInv, Ran, TypeOK
<1>10. CASE WaitEnds
  BY <1>10 DEF WaitEnds, Goto, service, loop, history, CompleteInv, Ran
<1>11. ASSUME NEW ok \in BOOLEAN, CloseConfirmation(ok)
       PROVE  CompleteInv'
  BY <1>11 DEF CloseConfirmation, UpdateTask, Yield, Goto, service, loop, history,
     CompleteInv, Ran, TypeOK
<1>12. CASE CheckApproved
  BY <1>12 DEF CheckApproved, Yield, Goto, service, loop, history, CompleteInv, Ran
<1>13. CASE Dispatch
  BY <1>13 DEF Dispatch, service, loop, CompleteInv, Ran, TypeOK
<1>14. CASE ToolEnds
  BY <1>14 DEF ToolEnds, service, loop, history, CacheInv, CompleteInv, Ran, TypeOK
<1>15. ASSUME NEW ok \in BOOLEAN, Record(ok)
       PROVE  CompleteInv'
  <2>1. pc = "record" /\ total \in Steps /\ called[total] \in Calls
    BY <1>15 DEF Record, NumberInv, InStep, TypeOK, Steps
  <2>2. UNCHANGED <<total, called, dispatched>> /\ pc' # "record"
    BY <1>15 DEF Record, Goto, history
  <2>3. \A c, k : Ran(c, k)' <=> Ran(c, k)
    BY <2>2 DEF Ran
  <2>4. CASE StillActive
    <3>1. /\ step' = [step EXCEPT ![total] = StepEnd(result)]
          /\ completed' = [completed EXCEPT ![called[total]] = result]
      BY <1>15, <2>4 DEF Record, UpdateTask
    <3>2. \A k \in Steps : "complete" \in {step'[k], stored'[k]} => Ran(called[k], k)
      BY <1>15, <2>4 DEF Record, UpdateTask, CompleteInv, StepEnd, TypeOK
    <3>3. \A c \in Calls : completed'[c] = "ok" => Ran(c, total)
      BY <2>1, <3>1 DEF CompleteInv
    <3> QED BY <2>2, <2>3, <3>2, <3>3 DEF CompleteInv
  <2>5. CASE ~StillActive
    BY <1>15, <2>3, <2>5 DEF Record, service, CompleteInv
  <2> QED BY <2>4, <2>5
<1>16. ASSUME NEW ok \in BOOLEAN, Finish(ok)
       PROVE  CompleteInv'
  <2>1. \A c, k : Ran(c, k)' <=> Ran(c, k)
    BY <1>16 DEF Finish, loop, history, Ran
  <2>2. \A k \in Steps : "complete" \in {step'[k], stored'[k]}
                         => "complete" \in {step[k], stored[k]}
    BY <1>16 DEF Finish, Settled
  <2>3. UNCHANGED <<total, called, completed>> /\ pc' = "over"
    BY <1>16 DEF Finish, Goto, loop
  <2> QED BY <2>1, <2>2, <2>3 DEF CompleteInv
<1>17. ASSUME NEW k \in Steps, NEW answer \in {"approved", "rejected"}, NEW ok \in
              BOOLEAN, Resolve(k, answer, ok)
       PROVE  CompleteInv'
  BY <1>17 DEF Resolve, UpdateTask, loop, history, CompleteInv, Ran
<1>18. CASE SendAnswer
  BY <1>18 DEF SendAnswer, service, loop, CompleteInv, Ran
<1>19. ASSUME NEW st \in {"cancelled", "interrupted"}, NEW ok \in BOOLEAN, Stop(st,
              ok)
       PROVE  CompleteInv'
  BY <1>19 DEF Stop, Settled, loop, history, CompleteInv, Ran
<1>20. CASE Crash
  BY <1>20 DEF Crash, loop, history, CompleteInv, Ran
<1>21. CASE UNCHANGED vars
  BY <1>21 DEF vars, CompleteInv, Ran
<1>22. CASE Connect
  BY <1>22 DEF Connect, Goto, service, loop, CompleteInv, Ran, channel
<1>23. CASE BeginOverlong
  <2>1. /\ total' = total + 1 /\ total \in Nat /\ pc' = "failed"
        /\ UNCHANGED <<dispatched, completed, stored>>
        /\ step' = [step EXCEPT ![total + 1] = "running"]
        /\ called' = [called EXCEPT ![total + 1] = Head(queue)]
    BY <1>23 DEF BeginOverlong, Overlong, Goto, history, TypeOK
  <2>2. \A j \in dispatched : called'[j] = called[j] /\ j <= total /\ j <= total'
    BY <2>1 DEF NumberInv, TypeOK
  <2>3. ASSUME NEW k \in Steps, "complete" \in {step'[k], stored'[k]}
        PROVE  Ran(called[k], k)'
    <3>1. "complete" \in {step[k], stored[k]} /\ k <= total
      BY <2>1, <2>3 DEF NumberInv, TypeOK
    <3>2. called'[k] = called[k]
      BY <2>1, <3>1 DEF TypeOK
    <3> QED BY <2>1, <2>2, <3>1, <3>2 DEF CompleteInv, Ran
  <2>4. \A c \in Calls : completed'[c] = "ok" => Ran(c, total)'
    BY <2>1, <2>2 DEF CompleteInv, Ran
  <2> QED BY <2>1, <2>3, <2>4 DEF CompleteInv
<1>24. CASE OpenOverlong
  BY <1>24 DEF OpenOverlong, Overlong, Yield, Goto, service, loop, history,
     CompleteInv, Ran, TypeOK
<1>25. CASE RecordOverlong
  <2>1. /\ step' = [step EXCEPT ![total] = StepEnd(result)] /\ pc = "record"
        /\ UNCHANGED <<stored, completed, total, called, dispatched>> /\ pc' = "failed"
    BY <1>25 DEF RecordOverlong, Overlong, Goto, history
  <2>2. \A c, k : Ran(c, k)' <=> Ran(c, k)
    BY <2>1 DEF Ran
  <2>3. \A k \in Steps : "complete" \in {step'[k], stored'[k]} => Ran(called[k], k)
    BY <2>1 DEF CompleteInv, StepEnd, TypeOK
  <2> QED BY <2>1, <2>2, <2>3 DEF CompleteInv
<1> QED
  BY <1>1, <1>2, <1>3, <1>4, <1>5, <1>6, <1>7, <1>8, <1>9, <1>10, <1>11, <1>12, <1>13,
     <1>14, <1>15, <1>16, <1>17, <1>18, <1>19, <1>20, <1>21, <1>22, <1>23, <1>24,
     <1>25 DEF Next, TaskStep

\* A step whose write was refused goes no further.
LEMMA TraceInvStep ==
  ASSUME TypeOK, SlotInv, NumberInv, TraceInv, [Next]_vars PROVE TraceInv'
<1> USE LimitAssumption, CallsAssumption
<1>1. CASE Round \/ Ask \/ ModelEnds \/ NextRound
  BY <1>1 DEF Round, Goto, service, channel, Ask, loop, ModelEnds, NextRound, TraceInv,
     BeforeRun, InStep
<1>2. ASSUME NEW batch \in Batches, ModelCalls(batch)
      PROVE  TraceInv'
  BY <1>2 DEF ModelCalls, Goto, service, TraceInv, BeforeRun, InStep
<1>3. ASSUME NEW ok \in BOOLEAN, BeginStep(ok)
      PROVE  TraceInv'
  BY <1>3 DEF BeginStep, UpdateTask, Goto, service, NumberInv, TraceInv, Steps, BeforeRun,
     InStep, TypeOK
<1>4. CASE Invoke \/ Lease \/ CheckApproved \/ ToolEnds
  BY <1>4 DEF Invoke, service, loop, Lease, CheckApproved, ToolEnds, TraceInv, BeforeRun,
     InStep
<1>5. ASSUME NEW ok \in BOOLEAN, OpenConfirmation(ok)
      PROVE  TraceInv'
  BY <1>5 DEF OpenConfirmation, UpdateTask, service, loop, NumberInv, TraceInv, Steps,
     BeforeRun, InStep, TypeOK
<1>6. CASE WaitEnds
  BY <1>6 DEF WaitEnds, service, loop, TraceInv, BeforeRun, InStep
<1>7. ASSUME NEW ok \in BOOLEAN, CloseConfirmation(ok)
      PROVE  TraceInv'
  BY <1>7 DEF CloseConfirmation, UpdateTask, service, loop, NumberInv, TraceInv, Steps,
     BeforeRun, InStep, TypeOK
<1>8. CASE Dispatch
  BY <1>8 DEF Dispatch, service, loop, TraceInv, BeforeRun, InStep
<1>9. ASSUME NEW ok \in BOOLEAN, Record(ok)
      PROVE  TraceInv'
  BY <1>9 DEF Record, UpdateTask, StepEnd, service, NumberInv, TraceInv, Steps, InStep,
     TypeOK
<1>10. ASSUME NEW ok \in BOOLEAN, Finish(ok)
       PROVE  TraceInv'
  BY <1>10 DEF Finish, Settled, Goto, loop, TraceInv, Steps, BeforeRun, InStep, TypeOK
<1>11. ASSUME NEW k \in Steps, NEW answer \in {"approved", "rejected"}, NEW ok \in
              BOOLEAN, Resolve(k, answer, ok)
       PROVE  TraceInv'
  BY <1>11 DEF Resolve, UpdateTask, loop, TraceInv
<1>12. CASE SendAnswer
  BY <1>12 DEF SendAnswer, service, loop, TraceInv
<1>13. ASSUME NEW st \in {"cancelled", "interrupted"}, NEW ok \in BOOLEAN, Stop(st,
              ok)
       PROVE  TraceInv'
  BY <1>13 DEF Stop, Settled, loop, NumberInv, TraceInv, Steps, TypeOK
<1>14. CASE Crash
  BY <1>14 DEF Crash, TraceInv, BeforeRun, InStep
<1>15. CASE UNCHANGED vars
  BY <1>15 DEF vars, TraceInv
<1>16. CASE Connect
  BY <1>16 DEF Goto, service, channel, Connect, loop, TraceInv, BeforeRun, InStep
<1>17. CASE BeginOverlong
  BY <1>17 DEF BeginOverlong, Overlong, Goto, service, NumberInv, TraceInv, Steps,
     BeforeRun, InStep, TypeOK
<1>18. CASE OpenOverlong
  BY <1>18 DEF OpenOverlong, Overlong, service, loop, NumberInv, TraceInv, Steps,
     BeforeRun, InStep, TypeOK
<1>19. CASE RecordOverlong
  BY <1>19 DEF RecordOverlong, Overlong, StepEnd, service, NumberInv, TraceInv, Steps,
     InStep, TypeOK
<1> QED
  BY <1>1, <1>2, <1>3, <1>4, <1>5, <1>6, <1>7, <1>8, <1>9, <1>10, <1>11, <1>12, <1>13,
     <1>14, <1>15, <1>16, <1>17, <1>18, <1>19 DEF Next, TaskStep

-------------------------------------------------------------------------------
(* The properties, step by step.                                           *)

\* The slot can only be lost with the flag raised, and every check but the last
\* one before a run or a request to the model sees the flag.
LEMMA AtMostOneLateStartStep ==
  ASSUME TypeOK, SlotInv, LateInv, AtMostOneLateStart, [Next]_vars PROVE AtMostOneLateStart'
<1> USE LimitAssumption, CallsAssumption
<1>1. CASE Round \/ Ask \/ ModelEnds \/ NextRound
  BY <1>1 DEF Round, Goto, history, Ask, ModelEnds, NextRound, LateInv, StillActive,
     AtMostOneLateStart
<1>2. ASSUME NEW batch \in Batches, ModelCalls(batch)
      PROVE  AtMostOneLateStart'
  BY <1>2 DEF ModelCalls, Goto, history, LateInv, StillActive, AtMostOneLateStart
<1>3. ASSUME NEW ok \in BOOLEAN, BeginStep(ok)
      PROVE  AtMostOneLateStart'
  BY <1>3 DEF BeginStep, history, AtMostOneLateStart
<1>4. CASE Invoke \/ Lease \/ CheckApproved \/ ToolEnds
  BY <1>4 DEF Invoke, Yield, Goto, history, Lease, CheckApproved, ToolEnds,
     AtMostOneLateStart
<1>5. ASSUME NEW ok \in BOOLEAN, OpenConfirmation(ok)
      PROVE  AtMostOneLateStart'
  BY <1>5 DEF OpenConfirmation, history, AtMostOneLateStart
<1>6. CASE WaitEnds
  BY <1>6 DEF WaitEnds, history, AtMostOneLateStart
<1>7. ASSUME NEW ok \in BOOLEAN, CloseConfirmation(ok)
      PROVE  AtMostOneLateStart'
  BY <1>7 DEF CloseConfirmation, history, AtMostOneLateStart
<1>8. CASE Dispatch
  BY <1>8 DEF Dispatch, Goto, AtMostOneLateStart, TypeOK
<1>9. ASSUME NEW ok \in BOOLEAN, Record(ok)
      PROVE  AtMostOneLateStart'
  BY <1>9 DEF Record, Goto, history, LateInv, AtMostOneLateStart, StillActive
<1>10. ASSUME NEW ok \in BOOLEAN, Finish(ok)
       PROVE  AtMostOneLateStart'
  BY <1>10 DEF Finish, Goto, history, AtMostOneLateStart
<1>11. ASSUME NEW k \in Steps, NEW answer \in {"approved", "rejected"}, NEW ok \in
              BOOLEAN, Resolve(k, answer, ok)
       PROVE  AtMostOneLateStart'
  BY <1>11 DEF Resolve, history, AtMostOneLateStart
<1>12. CASE SendAnswer
  BY <1>12 DEF SendAnswer, AtMostOneLateStart
<1>13. ASSUME NEW st \in {"cancelled", "interrupted"}, NEW ok \in BOOLEAN, Stop(st,
              ok)
       PROVE  AtMostOneLateStart'
  BY <1>13 DEF Stop, history, AtMostOneLateStart
<1>14. CASE Crash
  BY <1>14 DEF Crash, history, AtMostOneLateStart
<1>15. CASE UNCHANGED vars
  BY <1>15 DEF vars, AtMostOneLateStart
<1>16. CASE Connect
  BY <1>16 DEF Goto, Connect, AtMostOneLateStart, TypeOK
<1>17. CASE BeginOverlong
  BY <1>17 DEF BeginOverlong, Overlong, history, AtMostOneLateStart
<1>18. CASE OpenOverlong
  BY <1>18 DEF OpenOverlong, Overlong, history, AtMostOneLateStart
<1>19. CASE RecordOverlong
  BY <1>19 DEF RecordOverlong, Overlong, Goto, history, LateInv, AtMostOneLateStart,
     StillActive
<1> QED
  BY <1>1, <1>2, <1>3, <1>4, <1>5, <1>6, <1>7, <1>8, <1>9, <1>10, <1>11, <1>12, <1>13,
     <1>14, <1>15, <1>16, <1>17, <1>18, <1>19 DEF Next, TaskStep

\* A prompt is opened for the current step and closed by the answer, by the end
\* of the wait or with the request.
LEMMA PromptIsLiveStep ==
  ASSUME TypeOK, SlotInv, NumberInv, PromptIsLive, [Next]_vars PROVE PromptIsLive'
<1> USE LimitAssumption, CallsAssumption
<1>1. CASE Round \/ Ask \/ ModelEnds \/ NextRound
  BY <1>1 DEF Round, service, Ask, ModelEnds, NextRound, PromptIsLive, StillActive
<1>2. ASSUME NEW batch \in Batches, ModelCalls(batch)
      PROVE  PromptIsLive'
  BY <1>2 DEF ModelCalls, service, PromptIsLive, StillActive
<1>3. ASSUME NEW ok \in BOOLEAN, BeginStep(ok)
      PROVE  PromptIsLive'
  BY <1>3 DEF BeginStep, UpdateTask, service, PromptIsLive, StillActive, TypeOK
<1>4. CASE Invoke \/ Lease \/ CheckApproved \/ ToolEnds
  BY <1>4 DEF Invoke, service, Lease, CheckApproved, ToolEnds, PromptIsLive, StillActive
<1>5. ASSUME NEW ok \in BOOLEAN, OpenConfirmation(ok)
      PROVE  PromptIsLive'
  <2>1. pc = "confirm" /\ total \in Steps
    BY <1>5 DEF OpenConfirmation, NumberInv, InStep, BeforeRun, TypeOK, Steps
  <2>2. CASE StillActive /\ ~approval
    <3>1. /\ step' = [step EXCEPT ![total] = "awaiting_confirmation"] /\ approval' = TRUE
          /\ flag' = ~ok /\ total' = total /\ (ok => pc' = "waiting")
      BY <1>5, <2>2 DEF OpenConfirmation, UpdateTask, Goto, loop, StillActive
    <3>2. \A k \in Steps : step'[k] = "awaiting_confirmation" => k = total
      BY <2>2, <3>1 DEF PromptIsLive
    <3> QED BY <2>1, <3>1, <3>2 DEF PromptIsLive, StillActive, TypeOK
  <2>3. CASE ~(StillActive /\ ~approval)
    BY <1>5, <2>1, <2>3 DEF OpenConfirmation, service, loop, PromptIsLive, StillActive,
       TypeOK
  <2> QED BY <2>2, <2>3
<1>6. CASE WaitEnds
  BY <1>6 DEF WaitEnds, Goto, service, loop, PromptIsLive, StillActive
<1>7. ASSUME NEW ok \in BOOLEAN, CloseConfirmation(ok)
      PROVE  PromptIsLive'
  BY <1>7 DEF CloseConfirmation, UpdateTask, service, PromptIsLive, StillActive, TypeOK
<1>8. CASE Dispatch
  BY <1>8 DEF Dispatch, service, PromptIsLive, StillActive
<1>9. ASSUME NEW ok \in BOOLEAN, Record(ok)
      PROVE  PromptIsLive'
  BY <1>9 DEF Record, UpdateTask, StepEnd, service, PromptIsLive, StillActive, TypeOK
<1>10. ASSUME NEW ok \in BOOLEAN, Finish(ok)
       PROVE  PromptIsLive'
  BY <1>10 DEF Finish, PromptIsLive, StillActive
<1>11. ASSUME NEW k \in Steps, NEW answer \in {"approved", "rejected"}, NEW ok \in
              BOOLEAN, Resolve(k, answer, ok)
       PROVE  PromptIsLive'
  BY <1>11 DEF Resolve, UpdateTask, PromptIsLive, TypeOK
<1>12. CASE SendAnswer
  BY <1>12 DEF SendAnswer, service, loop, PromptIsLive, StillActive
<1>13. ASSUME NEW st \in {"cancelled", "interrupted"}, NEW ok \in BOOLEAN, Stop(st,
              ok)
       PROVE  PromptIsLive'
  BY <1>13 DEF Stop, PromptIsLive, StillActive
<1>14. CASE Crash
  BY <1>14 DEF Crash, PromptIsLive, Unfinished
<1>15. CASE UNCHANGED vars
  BY <1>15 DEF vars, PromptIsLive, StillActive
<1>16. CASE Connect
  BY <1>16 DEF service, Goto, Connect, PromptIsLive, StillActive, channel, loop
<1>17. CASE BeginOverlong
  BY <1>17 DEF BeginOverlong, Overlong, service, PromptIsLive, StillActive, TypeOK
<1>18. CASE OpenOverlong
  <2>1. /\ step' = [step EXCEPT ![total] = "awaiting_confirmation"] /\ approval' = TRUE
        /\ total' = total /\ pc' = "record" /\ StillActive /\ ~approval
    BY <1>18 DEF OpenOverlong, Overlong, Yield, Goto, loop
  <2>2. total \in Steps
    BY <1>18 DEF OpenOverlong, NumberInv, InStep, BeforeRun, TypeOK, Steps
  <2>3. \A k \in Steps : step'[k] = "awaiting_confirmation" => k = total
    BY <2>1 DEF PromptIsLive
  <2> QED BY <2>1, <2>2, <2>3 DEF PromptIsLive, TypeOK
<1>19. CASE RecordOverlong
  <2>1. /\ step' = [step EXCEPT ![total] = StepEnd(result)] /\ approval' = approval
        /\ total' = total /\ pc' = "failed" /\ StillActive
    BY <1>19 DEF RecordOverlong, Overlong, Goto
  <2>2. \A k \in Steps : step'[k] = "awaiting_confirmation"
                         => step[k] = "awaiting_confirmation" /\ k # total
    BY <2>1 DEF StepEnd, TypeOK
  <2> QED BY <2>1, <2>2 DEF PromptIsLive
<1> QED
  BY <1>1, <1>2, <1>3, <1>4, <1>5, <1>6, <1>7, <1>8, <1>9, <1>10, <1>11, <1>12, <1>13,
     <1>14, <1>15, <1>16, <1>17, <1>18, <1>19 DEF Next, TaskStep

\* The tool runs a modifying call from the place where the answer is known to
\* be that of this step; later answers are those of other steps.
LEMMA OnlyApprovedRunStep ==
  ASSUME TypeOK, NumberInv, AnswerInv, VerdictInv, CacheInv, OnlyApprovedRun, [Next]_vars PROVE OnlyApprovedRun'
<1> USE LimitAssumption, CallsAssumption
<1>1. CASE Round \/ Ask \/ ModelEnds \/ NextRound
  BY <1>1 DEF Round, MayTurn, Goto, service, channel, history, Ask, loop, ModelEnds,
     NextRound, NumberInv, AnswerInv, VerdictInv, CacheInv, OnlyApprovedRun, StillActive,
     Steps, BeforeRun, InStep, Answered, Outcome, Unfinished, TypeOK
<1>2. ASSUME NEW batch \in Batches, ModelCalls(batch)
      PROVE  OnlyApprovedRun'
  BY <1>2 DEF ModelCalls, history, OnlyApprovedRun
<1>3. ASSUME NEW ok \in BOOLEAN, BeginStep(ok)
      PROVE  OnlyApprovedRun'
  BY <1>3 DEF BeginStep, history, NumberInv, OnlyApprovedRun, TypeOK
<1>4. CASE Invoke \/ Lease \/ CheckApproved \/ ToolEnds
  BY <1>4 DEF Invoke, Yield, Goto, service, channel, loop, history, Lease, CheckApproved,
     ToolEnds, NumberInv, AnswerInv, VerdictInv, CacheInv, OnlyApprovedRun, StillActive,
     Steps, BeforeRun, InStep, Answered, Outcome, Unfinished, TypeOK
<1>5. ASSUME NEW ok \in BOOLEAN, OpenConfirmation(ok)
      PROVE  OnlyApprovedRun'
  BY <1>5 DEF OpenConfirmation, loop, history, OnlyApprovedRun
<1>6. CASE WaitEnds
  BY <1>6 DEF WaitEnds, loop, history, OnlyApprovedRun
<1>7. ASSUME NEW ok \in BOOLEAN, CloseConfirmation(ok)
      PROVE  OnlyApprovedRun'
  BY <1>7 DEF CloseConfirmation, loop, history, OnlyApprovedRun
<1>8. CASE Dispatch
  BY <1>8 DEF Dispatch, loop, AnswerInv, VerdictInv, OnlyApprovedRun
<1>9. ASSUME NEW ok \in BOOLEAN, Record(ok)
      PROVE  OnlyApprovedRun'
  BY <1>9 DEF Record, history, OnlyApprovedRun
<1>10. ASSUME NEW ok \in BOOLEAN, Finish(ok)
       PROVE  OnlyApprovedRun'
  BY <1>10 DEF Finish, loop, history, OnlyApprovedRun
<1>11. ASSUME NEW k \in Steps, NEW answer \in {"approved", "rejected"}, NEW ok \in
              BOOLEAN, Resolve(k, answer, ok)
       PROVE  OnlyApprovedRun'
  BY <1>11 DEF Resolve, loop, history, OnlyApprovedRun
<1>12. CASE SendAnswer
  BY <1>12 DEF SendAnswer, loop, CacheInv, OnlyApprovedRun, BeforeRun
<1>13. ASSUME NEW st \in {"cancelled", "interrupted"}, NEW ok \in BOOLEAN, Stop(st,
              ok)
       PROVE  OnlyApprovedRun'
  BY <1>13 DEF Stop, loop, history, OnlyApprovedRun
<1>14. CASE Crash
  BY <1>14 DEF Crash, loop, history, OnlyApprovedRun
<1>15. CASE UNCHANGED vars
  BY <1>15 DEF vars, OnlyApprovedRun
<1>16. CASE Connect
  BY <1>16 DEF Goto, service, channel, history, Connect, loop, NumberInv, AnswerInv,
     VerdictInv, CacheInv, OnlyApprovedRun, StillActive, Steps, BeforeRun, InStep,
     Answered, Outcome, Unfinished, TypeOK
<1>17. CASE BeginOverlong
  BY <1>17 DEF BeginOverlong, Overlong, history, NumberInv, OnlyApprovedRun, TypeOK
<1>18. CASE OpenOverlong
  BY <1>18 DEF OpenOverlong, Overlong, loop, history, OnlyApprovedRun
<1>19. CASE RecordOverlong
  BY <1>19 DEF RecordOverlong, Overlong, history, OnlyApprovedRun
<1> QED
  BY <1>1, <1>2, <1>3, <1>4, <1>5, <1>6, <1>7, <1>8, <1>9, <1>10, <1>11, <1>12, <1>13,
     <1>14, <1>15, <1>16, <1>17, <1>18, <1>19 DEF Next, TaskStep

\* A call on its way to the tool is not in the cache, and what ran is.
LEMMA RunAtMostOnceStep ==
  ASSUME TypeOK, NumberInv, CacheInv, RunAtMostOnce, [Next]_vars PROVE RunAtMostOnce'
<1> USE LimitAssumption, CallsAssumption
<1>1. CASE Round
  BY <1>1 DEF Round, MayTurn, history, RunAtMostOnce, TypeOK
<1>2. CASE Ask
  BY <1>2 DEF Ask, loop, history, RunAtMostOnce
<1>3. CASE ModelEnds
  BY <1>3 DEF ModelEnds, loop, history, RunAtMostOnce
<1>4. ASSUME NEW batch \in Batches, ModelCalls(batch)
      PROVE  RunAtMostOnce'
  BY <1>4 DEF ModelCalls, history, RunAtMostOnce
<1>5. ASSUME NEW ok \in BOOLEAN, BeginStep(ok)
      PROVE  RunAtMostOnce'
  BY <1>5 DEF BeginStep, history, NumberInv, RunAtMostOnce, TypeOK
<1>6. CASE NextRound
  BY <1>6 DEF NextRound, loop, history, RunAtMostOnce
<1>7. CASE Invoke
  BY <1>7 DEF Invoke, loop, history, RunAtMostOnce
<1>8. CASE Lease
  BY <1>8 DEF Lease, loop, history, RunAtMostOnce
<1>9. ASSUME NEW ok \in BOOLEAN, OpenConfirmation(ok)
      PROVE  RunAtMostOnce'
  BY <1>9 DEF OpenConfirmation, loop, history, RunAtMostOnce
<1>10. CASE WaitEnds
  BY <1>10 DEF WaitEnds, loop, history, RunAtMostOnce
<1>11. ASSUME NEW ok \in BOOLEAN, CloseConfirmation(ok)
       PROVE  RunAtMostOnce'
  BY <1>11 DEF CloseConfirmation, loop, history, RunAtMostOnce
<1>12. CASE CheckApproved
  BY <1>12 DEF CheckApproved, loop, history, RunAtMostOnce
<1>13. CASE Dispatch
  BY <1>13 DEF Dispatch, loop, CacheInv, RunAtMostOnce, BeforeRun, Outcome
<1>14. CASE ToolEnds
  BY <1>14 DEF ToolEnds, loop, history, RunAtMostOnce
<1>15. ASSUME NEW ok \in BOOLEAN, Record(ok)
       PROVE  RunAtMostOnce'
  BY <1>15 DEF Record, history, RunAtMostOnce
<1>16. ASSUME NEW ok \in BOOLEAN, Finish(ok)
       PROVE  RunAtMostOnce'
  BY <1>16 DEF Finish, loop, history, RunAtMostOnce
<1>17. ASSUME NEW k \in Steps, NEW answer \in {"approved", "rejected"}, NEW ok \in
              BOOLEAN, Resolve(k, answer, ok)
       PROVE  RunAtMostOnce'
  BY <1>17 DEF Resolve, loop, history, RunAtMostOnce
<1>18. CASE SendAnswer
  BY <1>18 DEF SendAnswer, loop, RunAtMostOnce
<1>19. ASSUME NEW st \in {"cancelled", "interrupted"}, NEW ok \in BOOLEAN, Stop(st,
              ok)
       PROVE  RunAtMostOnce'
  BY <1>19 DEF Stop, loop, history, RunAtMostOnce
<1>20. CASE Crash
  BY <1>20 DEF Crash, loop, history, RunAtMostOnce
<1>21. CASE UNCHANGED vars
  BY <1>21 DEF vars, RunAtMostOnce
<1>22. CASE Connect
  BY <1>22 DEF Connect, Goto, loop, RunAtMostOnce, service, channel
<1>23. CASE BeginOverlong
  BY <1>23 DEF BeginOverlong, Overlong, history, NumberInv, RunAtMostOnce, TypeOK
<1>24. CASE OpenOverlong
  BY <1>24 DEF OpenOverlong, Overlong, loop, history, RunAtMostOnce
<1>25. CASE RecordOverlong
  BY <1>25 DEF RecordOverlong, Overlong, history, RunAtMostOnce
<1> QED
  BY <1>1, <1>2, <1>3, <1>4, <1>5, <1>6, <1>7, <1>8, <1>9, <1>10, <1>11, <1>12, <1>13,
     <1>14, <1>15, <1>16, <1>17, <1>18, <1>19, <1>20, <1>21, <1>22, <1>23, <1>24,
     <1>25 DEF Next, TaskStep

\* A modifying call on its way to the tool has seen no refusal, and later
\* refusals have larger numbers.
LEMMA RefusalHoldsStep ==
  ASSUME TypeOK, NumberInv, AnswerInv, VerdictInv, RefusalInv, CacheInv, RefusalHolds, [Next]_vars PROVE RefusalHolds'
<1> USE LimitAssumption, CallsAssumption
<1>1. CASE Round \/ Ask \/ ModelEnds \/ NextRound
  BY <1>1 DEF Round, MayTurn, Goto, service, channel, history, Ask, loop, ModelEnds,
     NextRound, NumberInv, AnswerInv, VerdictInv, RefusalInv, CacheInv, RefusalHolds,
     StillActive, Steps, BeforeRun, InStep, Answered, Outcome, Unfinished, TypeOK
<1>2. ASSUME NEW batch \in Batches, ModelCalls(batch)
      PROVE  RefusalHolds'
  BY <1>2 DEF ModelCalls, history, RefusalHolds
<1>3. ASSUME NEW ok \in BOOLEAN, BeginStep(ok)
      PROVE  RefusalHolds'
  BY <1>3 DEF BeginStep, history, NumberInv, RefusalHolds, TypeOK
<1>4. CASE Invoke \/ Lease \/ CheckApproved \/ ToolEnds
  BY <1>4 DEF Invoke, Yield, Goto, service, channel, loop, history, Lease, CheckApproved,
     ToolEnds, NumberInv, AnswerInv, VerdictInv, RefusalInv, CacheInv, RefusalHolds,
     StillActive, Steps, BeforeRun, InStep, Answered, Outcome, Unfinished, TypeOK
<1>5. ASSUME NEW ok \in BOOLEAN, OpenConfirmation(ok)
      PROVE  RefusalHolds'
  BY <1>5 DEF OpenConfirmation, history, AnswerInv, VerdictInv, RefusalInv, RefusalHolds,
     BeforeRun, Answered
<1>6. CASE WaitEnds
  BY <1>6 DEF WaitEnds, history, NumberInv, VerdictInv, RefusalInv, RefusalHolds,
     BeforeRun, TypeOK
<1>7. ASSUME NEW ok \in BOOLEAN, CloseConfirmation(ok)
      PROVE  RefusalHolds'
  BY <1>7 DEF CloseConfirmation, history, NumberInv, VerdictInv, RefusalInv, RefusalHolds,
     BeforeRun, TypeOK
<1>8. CASE Dispatch
  BY <1>8 DEF Dispatch, loop, AnswerInv, VerdictInv, RefusalInv, RefusalHolds, BeforeRun
<1>9. ASSUME NEW ok \in BOOLEAN, Record(ok)
      PROVE  RefusalHolds'
  BY <1>9 DEF Record, history, RefusalHolds
<1>10. ASSUME NEW ok \in BOOLEAN, Finish(ok)
       PROVE  RefusalHolds'
  BY <1>10 DEF Finish, loop, history, RefusalHolds
<1>11. ASSUME NEW k \in Steps, NEW answer \in {"approved", "rejected"}, NEW ok \in
              BOOLEAN, Resolve(k, answer, ok)
       PROVE  RefusalHolds'
  BY <1>11 DEF Resolve, loop, history, RefusalHolds
<1>12. CASE SendAnswer
  BY <1>12 DEF SendAnswer, loop, NumberInv, CacheInv, RefusalHolds, BeforeRun, TypeOK
<1>13. ASSUME NEW st \in {"cancelled", "interrupted"}, NEW ok \in BOOLEAN, Stop(st,
              ok)
       PROVE  RefusalHolds'
  BY <1>13 DEF Stop, loop, history, RefusalHolds
<1>14. CASE Crash
  BY <1>14 DEF Crash, loop, history, RefusalHolds
<1>15. CASE UNCHANGED vars
  BY <1>15 DEF vars, RefusalHolds
<1>16. CASE Connect
  BY <1>16 DEF Goto, service, channel, history, Connect, loop, NumberInv, AnswerInv,
     VerdictInv, RefusalInv, CacheInv, RefusalHolds, StillActive, Steps, BeforeRun,
     InStep, Answered, Outcome, Unfinished, TypeOK
<1>17. CASE BeginOverlong
  BY <1>17 DEF BeginOverlong, Overlong, history, NumberInv, RefusalHolds, TypeOK
<1>18. CASE OpenOverlong
  BY <1>18 DEF OpenOverlong, Overlong, history, AnswerInv, VerdictInv, RefusalInv,
     RefusalHolds, BeforeRun, Answered
<1>19. CASE RecordOverlong
  BY <1>19 DEF RecordOverlong, Overlong, history, RefusalHolds
<1> QED
  BY <1>1, <1>2, <1>3, <1>4, <1>5, <1>6, <1>7, <1>8, <1>9, <1>10, <1>11, <1>12, <1>13,
     <1>14, <1>15, <1>16, <1>17, <1>18, <1>19 DEF Next, TaskStep

\* The running step is in the store, and nothing removes a step from there.
LEMMA TraceBeforeRunStep ==
  ASSUME TypeOK, NumberInv, TraceInv, TraceBeforeRun, [Next]_vars PROVE TraceBeforeRun'
<1> USE LimitAssumption, CallsAssumption
<1>1. CASE Round \/ Ask \/ ModelEnds \/ NextRound
  BY <1>1 DEF Round, MayTurn, Goto, service, channel, history, Ask, loop, ModelEnds,
     NextRound, NumberInv, TraceInv, TraceBeforeRun, StillActive, Steps, BeforeRun,
     InStep, Answered, Outcome, Unfinished, TypeOK
<1>2. ASSUME NEW batch \in Batches, ModelCalls(batch)
      PROVE  TraceBeforeRun'
  BY <1>2 DEF ModelCalls, service, history, TraceBeforeRun
<1>3. ASSUME NEW ok \in BOOLEAN, BeginStep(ok)
      PROVE  TraceBeforeRun'
  BY <1>3 DEF BeginStep, UpdateTask, service, history, NumberInv, TraceInv,
     TraceBeforeRun, StillActive, TypeOK
<1>4. CASE Invoke \/ Lease \/ CheckApproved \/ ToolEnds
  BY <1>4 DEF Invoke, Yield, Goto, service, channel, loop, history, Lease, CheckApproved,
     ToolEnds, NumberInv, TraceInv, TraceBeforeRun, StillActive, Steps, BeforeRun, InStep,
     Answered, Outcome, Unfinished, TypeOK
<1>5. ASSUME NEW ok \in BOOLEAN, OpenConfirmation(ok)
      PROVE  TraceBeforeRun'
  BY <1>5 DEF OpenConfirmation, UpdateTask, service, history, NumberInv, TraceInv,
     TraceBeforeRun, StillActive, TypeOK
<1>6. CASE WaitEnds
  BY <1>6 DEF WaitEnds, service, history, TraceBeforeRun
<1>7. ASSUME NEW ok \in BOOLEAN, CloseConfirmation(ok)
      PROVE  TraceBeforeRun'
  BY <1>7 DEF CloseConfirmation, UpdateTask, service, history, NumberInv, TraceInv,
     TraceBeforeRun, StillActive, TypeOK
<1>8. CASE Dispatch
  BY <1>8 DEF Dispatch, service, TraceInv, TraceBeforeRun, BeforeRun, InStep
<1>9. ASSUME NEW ok \in BOOLEAN, Record(ok)
      PROVE  TraceBeforeRun'
  BY <1>9 DEF Record, UpdateTask, StepEnd, service, history, NumberInv, TraceInv,
     TraceBeforeRun, StillActive, TypeOK
<1>10. ASSUME NEW ok \in BOOLEAN, Finish(ok)
       PROVE  TraceBeforeRun'
  BY <1>10 DEF Finish, Settled, history, NumberInv, TraceInv, TraceBeforeRun, TypeOK
<1>11. ASSUME NEW k \in Steps, NEW answer \in {"approved", "rejected"}, NEW ok \in
              BOOLEAN, Resolve(k, answer, ok)
       PROVE  TraceBeforeRun'
  BY <1>11 DEF Resolve, UpdateTask, history, NumberInv, TraceInv, TraceBeforeRun,
     StillActive
<1>12. CASE SendAnswer
  BY <1>12 DEF SendAnswer, service, TraceBeforeRun
<1>13. ASSUME NEW st \in {"cancelled", "interrupted"}, NEW ok \in BOOLEAN, Stop(st,
              ok)
       PROVE  TraceBeforeRun'
  BY <1>13 DEF Stop, Settled, history, NumberInv, TraceInv, TraceBeforeRun, TypeOK
<1>14. CASE Crash
  BY <1>14 DEF Crash, history, TraceBeforeRun, TypeOK
<1>15. CASE UNCHANGED vars
  BY <1>15 DEF vars, TraceBeforeRun
<1>16. CASE Connect
  BY <1>16 DEF Goto, service, channel, history, Connect, loop, NumberInv, TraceInv,
     TraceBeforeRun, StillActive, Steps, BeforeRun, InStep, Answered, Outcome,
     Unfinished, TypeOK
<1>17. CASE BeginOverlong
  BY <1>17 DEF BeginOverlong, Overlong, service, history, NumberInv, TraceInv,
     TraceBeforeRun, StillActive, TypeOK
<1>18. CASE OpenOverlong
  BY <1>18 DEF OpenOverlong, Overlong, service, history, NumberInv, TraceInv,
     TraceBeforeRun, StillActive, TypeOK
<1>19. CASE RecordOverlong
  BY <1>19 DEF RecordOverlong, Overlong, StepEnd, service, history, NumberInv,
     TraceInv, TraceBeforeRun, StillActive, TypeOK
<1> QED
  BY <1>1, <1>2, <1>3, <1>4, <1>5, <1>6, <1>7, <1>8, <1>9, <1>10, <1>11, <1>12, <1>13,
     <1>14, <1>15, <1>16, <1>17, <1>18, <1>19 DEF Next, TaskStep

-------------------------------------------------------------------------------
(* The theorems.                                                           *)

\* The inductive invariant.
TaskInv ==
  /\ TypeOK
  /\ SlotInv /\ NumberInv /\ AnswerInv /\ VerdictInv /\ RefusalInv
  /\ CacheInv /\ LateInv /\ CompleteInv /\ TraceInv
  /\ OnlyApprovedRun /\ RunAtMostOnce /\ RefusalHolds
  /\ AtMostOneLateStart /\ PromptIsLive /\ TraceBeforeRun

\* The part of Init that does not say who starts the task.
Fresh ==
  /\ slot = "active" /\ flag = FALSE /\ fault = FALSE
  /\ step = [k \in Steps |-> "none"] /\ stored = step
  /\ approval = FALSE /\ decision = "none" /\ resolver = NoAnswer
  /\ rounds = 0 /\ total = 0
  /\ completed = [c \in Calls |-> "none"]
  /\ declined = FALSE
  /\ verdict = "none" /\ result = "none"
  /\ called = [k \in Steps |-> "none"]
  /\ dispatched = {} /\ approved = {} /\ rejected = {} /\ late = 0
  /\ direct \in BOOLEAN /\ pc \in {"round", "call"}
  /\ queue \in Seq(Calls) /\ Len(queue) <= 1

\* A task is started by a message, with no calls yet, or by a card, with one.
LEMMA InitFresh == Init => Fresh
<1>1. <<>> \in Seq(Calls) /\ Len(<<>>) <= 1
  OBVIOUS
<1>2. \A c \in Calls : <<c>> \in Seq(Calls) /\ Len(<<c>>) <= 1
  OBVIOUS
<1>3. Init => \/ direct = FALSE /\ pc = "round" /\ queue = <<>>
              \/ direct = TRUE /\ pc = "call" /\ \E c \in Calls : queue = <<c>>
  BY DEF Init
<1>4. Init => /\ direct \in BOOLEAN /\ pc \in {"round", "call"}
              /\ queue \in Seq(Calls) /\ Len(queue) <= 1
  BY <1>1, <1>2, <1>3
<1> QED BY <1>4 DEF Init, Fresh

\* It begins in the invariant.
LEMMA FreshInv == ASSUME Fresh PROVE TaskInv
<1> USE LimitAssumption DEF Fresh
<1>1. TypeOK
  <2>1. ServiceType
    BY DEF ServiceType, StepState
  <2>2. TaskType
    <3>1. resolver \in [step : 0 .. MaxCalls, answer : {"none", "approved", "rejected"}]
      BY DEF NoAnswer
    <3>2. /\ rounds \in 0 .. MaxRounds /\ total \in 0 .. MaxCalls /\ late \in 0 .. 2
          /\ Len(queue) <= MaxBatch
      OBVIOUS
    <3>3. /\ completed \in [Calls -> Results \cup {"none"}]
          /\ called \in [Steps -> Calls \cup {"none"}]
      OBVIOUS
    <3> QED BY <3>1, <3>2, <3>3 DEF TaskType
  <2> QED BY <2>1, <2>2, TypeSplit
<1>2. pc \notin InStep
  BY DEF InStep, BeforeRun
<1>3. SlotInv /\ LateInv /\ AtMostOneLateStart
  BY DEF SlotInv, LateInv, AtMostOneLateStart
<1>4. NumberInv
  <2>1. total = 0 /\ resolver.step = 0 /\ dispatched = {} /\ Answered = {}
    BY DEF Answered, NoAnswer
  <2>2. \A k \in Steps : step[k] = "none" /\ stored[k] = "none"
    OBVIOUS
  <2>3. total + Len(queue) <= MaxCalls
    <3>1. Len(queue) \in Nat
      OBVIOUS
    <3> QED OBVIOUS
  <2>4. \A k \in 1 .. total : called[k] \in Calls
    OBVIOUS
  <2> QED BY <1>2, <2>1 DEF NumberInv
<1>5. AnswerInv /\ VerdictInv /\ RefusalInv
  BY <1>2 DEF AnswerInv, VerdictInv, RefusalInv, Answered, NoAnswer
<1>6. CacheInv /\ CompleteInv /\ TraceInv
  BY <1>2 DEF CacheInv, CompleteInv, TraceInv, BeforeRun
<1>7. OnlyApprovedRun /\ RunAtMostOnce /\ RefusalHolds /\ PromptIsLive /\ TraceBeforeRun
  BY DEF OnlyApprovedRun, RunAtMostOnce, RefusalHolds, PromptIsLive, TraceBeforeRun
<1> QED BY <1>1, <1>3, <1>4, <1>5, <1>6, <1>7 DEF TaskInv

\* Every step keeps the invariant.
LEMMA TaskInvariant == Spec => []TaskInv
<1>1. ASSUME TaskInv, [Next]_vars PROVE TaskInv'
  <2> USE <1>1 DEF TaskInv
  <2>1. ServiceType /\ TaskType
    BY TypeSplit
  <2>2. TypeOK'
    BY <2>1, ServiceStep, TaskTypeStep, TypeSplitNext
  <2>3. SlotInv' /\ NumberInv' /\ AnswerInv' /\ VerdictInv' /\ RefusalInv'
    BY SlotInvStep, NumberInvStep, AnswerInvStep, VerdictInvStep, RefusalInvStep
  <2>4. CacheInv' /\ LateInv' /\ CompleteInv' /\ TraceInv'
    BY CacheInvStep, LateInvStep, CompleteInvStep, TraceInvStep
  <2>5. OnlyApprovedRun' /\ RunAtMostOnce' /\ RefusalHolds'
    BY OnlyApprovedRunStep, RunAtMostOnceStep, RefusalHoldsStep
  <2>6. AtMostOneLateStart' /\ PromptIsLive' /\ TraceBeforeRun'
    BY AtMostOneLateStartStep, PromptIsLiveStep, TraceBeforeRunStep
  <2> QED BY <2>2, <2>3, <2>4, <2>5, <2>6
<1>2. Init => TaskInv
  BY InitFresh, FreshInv
<1> QED BY <1>1, <1>2, PTL DEF Spec

\* Every variable keeps its type: in particular the numbers of steps and rounds
\* stay within MAX_TOOL_CALLS and MAX_TOOL_ROUNDS.
THEOREM TaskTypeCorrect == Spec => []TypeOK
<1>1. TaskInv => TypeOK
  BY DEF TaskInv
<1> QED BY <1>1, TaskInvariant, PTL

\* confirm_tool and resolve_tool_confirmation: no modifying step runs that the
\* user did not approve on this very step, or refused.
THEOREM ApprovalCorrect == Spec => []OnlyApprovedRun
<1>1. TaskInv => OnlyApprovedRun
  BY DEF TaskInv
<1> QED BY <1>1, TaskInvariant, PTL

\* run_task's cache and its limits: no call runs twice in one task, and there
\* is no turn beyond the limit.
THEOREM RunOnceCorrect == Spec => []RunAtMostOnce
<1>1. TaskInv => RunAtMostOnce
  BY DEF TaskInv
<1> QED BY <1>1, TaskInvariant, PTL

\* declined: after a refusal no later modifying step runs.
THEOREM RefusalCorrect == Spec => []RefusalHolds
<1>1. TaskInv => RefusalHolds
  BY DEF TaskInv
<1> QED BY <1>1, TaskInvariant, PTL

\* stop_active against the last checks of the task: after its slot is lost at
\* most one thing more begins, the tool run or the request to the model whose
\* check had passed, and its outcome leads to nothing else.
THEOREM LateStartCorrect == Spec => []AtMostOneLateStart
<1>1. TaskInv => AtMostOneLateStart
  BY DEF TaskInv
<1> QED BY <1>1, TaskInvariant, PTL

\* What a window shows for approval is the current step of a task that waits
\* for it.
THEOREM PromptCorrect == Spec => []PromptIsLive
<1>1. TaskInv => PromptIsLive
  BY DEF TaskInv
<1> QED BY <1>1, TaskInvariant, PTL

\* complete_tool_step: what the store calls complete ran in this task.
THEOREM CompleteCorrect == Spec => []CompleteMeansRan
<1>1. TaskInv => CompleteMeansRan
  <2>1. ASSUME TaskInv, NEW k \in Steps, stored[k] = "complete"
        PROVE  \E j \in dispatched : j <= k /\ called[j] = called[k]
    BY <2>1 DEF TaskInv, CompleteInv, Ran
  <2> QED BY <2>1 DEF CompleteMeansRan
<1> QED BY <1>1, TaskInvariant, PTL

\* update_task before the tool: what ran is in the store, so that a restart
\* shows it.
THEOREM TraceCorrect == Spec => []TraceBeforeRun
<1>1. TaskInv => TraceBeforeRun
  BY DEF TaskInv
<1> QED BY <1>1, TaskInvariant, PTL
===============================================================================
