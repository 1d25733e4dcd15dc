--------------------------------- MODULE AiMC ---------------------------------
(***************************************************************************)
(* The work of one request, for TLC: a behaviour is either the tool loop   *)
(* of AiTask or, with few conversations, the life of AiRequests around it, *)
(* named by part.  The other one rests in its initial state.  What is safe *)
(* about requests is checked on AiRequests itself, with more of them; here *)
(* it is asked that both kinds of work end.                                *)
(***************************************************************************)
EXTENDS AiTask

CONSTANTS Sessions, TempSessions, Requests, Submissions, Preparations,
          NoRequest, NoOrigin, NoPreparation, MaxEpoch, MaxPrepared

VARIABLES
  part,          \* which of the two a behaviour runs: loop or life
  requestFault,  \* fault of AiRequests
  enabled, epoch, row, flagged, minted, prepared, origin, active, activeEpoch,
  cancelled, message, kept, receipt, unsaved, task, sent, stopped, lost

Life == INSTANCE AiRequests WITH fault <- requestFault

lifeVars == <<requestFault, enabled, epoch, row, flagged, minted, prepared, origin,
              active, activeEpoch, cancelled, message, kept, receipt, unsaved, task,
              sent, stopped, lost>>

both == <<part, vars, lifeVars>>

BothInit ==
  /\ Init /\ Life!Init
  /\ part \in {"loop", "life"}
  /\ part = "life" => ~direct

LoopMoves == part = "loop" /\ Next /\ UNCHANGED <<part, lifeVars>>
LifeMoves == part = "life" /\ Life!Next /\ UNCHANGED <<part, vars>>

\* The runtime keeps polling the spawned task of a request, every wait in it
\* has a timeout, and finish is its last statement.
BothSpec ==
  /\ BothInit /\ [][LoopMoves \/ LifeMoves]_both
  /\ WF_both(part = "loop" /\ TaskStep /\ UNCHANGED <<part, lifeVars>>)
  /\ \A r \in Requests :
       WF_both(part = "life" /\ Life!TaskStep(r) /\ UNCHANGED <<part, vars>>)

-------------------------------------------------------------------------------
\* The tool loop of a request comes to its end whatever the model and the user
\* do, and nobody answers.
LoopEnds == part = "loop" => TaskEnds

\* No request stays active for ever, whatever the model, the store and the user
\* do: another one can always be started at last.
SlotComesFree == part = "life" => Life!EveryRequestEnds
===============================================================================
