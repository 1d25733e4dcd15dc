------------------------------- MODULE AiReply --------------------------------
(***************************************************************************)
(* What AiService promises about the answer to a question, without saying  *)
(* how: questions are answered one at a time, an answer is given once, and *)
(* the next question waits until the last answer is safely kept.  An       *)
(* answer is secured when its conversation keeps it; only one that is not  *)
(* can still be lost, and only to the end of the process, which leaves     *)
(* "interrupted" in its place.  AiRequests implements this module.         *)
(***************************************************************************)
CONSTANT Requests

VARIABLES
  phase,    \* what the conversation shows for each request
  secured   \* the requests whose answer cannot be lost any more

vars == <<phase, secured>>

Answers == {"complete", "failed", "cancelled", "interrupted"}
Phases  == {"new", "open", "forgotten"} \cup Answers

Pending   == {r \in Requests : phase[r] = "open"}
Unsecured == {r \in Requests : phase[r] \in Answers /\ r \notin secured}

Init ==
  /\ phase = [r \in Requests |-> "new"]
  /\ secured = {}

Ask(r) ==
  /\ phase[r] = "new"
  /\ Pending = {} /\ Unsecured = {}
  /\ phase' = [phase EXCEPT ![r] = "open"]
  /\ UNCHANGED secured

\* The pending question is answered with st; conversations may be deleted in
\* the same breath, and F are the requests that go with them.
Answer(r, st, F) ==
  /\ phase[r] = "open"
  /\ phase' = [q \in Requests |-> IF q \in F THEN "forgotten"
                                  ELSE IF q = r THEN st ELSE phase[q]]
  /\ secured' \in {secured \ F, (secured \cup {r}) \ F}

\* The user saves an answer the store refused before.
Secure(r) ==
  /\ r \in Unsecured
  /\ secured' = secured \cup {r}
  /\ UNCHANGED phase

\* Conversations are deleted while the pending question, if any, goes on.
Forget(F) ==
  /\ phase' = [q \in Requests |-> IF q \in F THEN "forgotten" ELSE phase[q]]
  /\ secured' = secured \ F

\* The process ends and starts again; F went with the conversations that lived
\* in memory only.
Restart(F) ==
  /\ phase' = [q \in Requests |->
                 IF q \in F THEN "forgotten"
                 ELSE IF q \in Pending \cup Unsecured THEN "interrupted"
                 ELSE phase[q]]
  /\ secured' = (secured \cup Pending \cup Unsecured) \ F

Asked == {r \in Requests : phase[r] # "new"}

Next ==
  \/ \E r \in Requests : Ask(r) \/ Secure(r)
  \/ \E F \in SUBSET Asked :
       \/ Forget(F) \/ Restart(F)
       \/ \E r \in Requests, st \in Answers : Answer(r, st, F)

Spec == Init /\ [][Next]_vars
===============================================================================
