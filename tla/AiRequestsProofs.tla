--------------------------- MODULE AiRequestsProofs ---------------------------
(***************************************************************************)
(* Proofs about AiRequests for every number of conversations, requests,    *)
(* submissions and preparations, and for every bound: the types, the slot  *)
(* of the active request, the preparations, the copies of a reply, what is *)
(* kept of a request, and that AiRequests implements AiReply.              *)
(***************************************************************************)
EXTENDS AiRequests, TLAPS

\* The request in the slot was started, so it has a conversation.
ActiveStarted == active # NoRequest => Started(active)

TypeInv == TypeOK /\ ActiveStarted

-------------------------------------------------------------------------------
(* What the helpers return.                                                *)

Prepareds == [Preparations -> Frozen \cup {NoPreparation}]

LEMMA RestampedType ==
  ASSUME TypeOK, NEW s PROVE Restamped(s) \in Prepareds
<1>1. ASSUME NEW p \in Preparations
      PROVE  Restamped(s)[p] \in Frozen \cup {NoPreparation}
  <2>1. prepared[p] \in Frozen \cup {NoPreparation}
    BY DEF TypeOK
  <2>2. CASE prepared[p] = NoPreparation
    BY <2>2 DEF Restamped, Held
  <2>3. CASE prepared[p] \in Frozen
    <3>1. [prepared[p] EXCEPT !.fresh = FALSE] \in Frozen
      BY <2>3 DEF Frozen
    <3> QED BY <2>3, <3>1 DEF Restamped
  <2> QED BY <2>1, <2>2, <2>3
<1> QED BY <1>1 DEF Restamped, Prepareds

LEMMA WithoutSessionType ==
  ASSUME TypeOK, NEW s PROVE WithoutSession(s) \in Prepareds
BY DEF TypeOK, WithoutSession, Prepareds

LEMMA NothingPreparedType == NothingPrepared \in Prepareds
BY DEF NothingPrepared, Prepareds

LEMMA SessionOfType ==
  ASSUME TypeOK, NEW r \in Requests, Started(r) PROVE SessionOf(r) \in Sessions
BY DEF TypeOK, Started, SessionOf, Origins

LEMMA FinalStatusType ==
  ASSUME NEW r \in Requests, task[r] \in Outcome PROVE FinalStatus(r) \in Ended
BY DEF FinalStatus, Outcome, Ended

LEMMA RecoveredType ==
  ASSUME NEW st \in Status PROVE Recovered(st) \in Status
BY DEF Recovered, Status, Ended

\* The variables EndReply changes keep their types when it ends no request or
\* one that was started.
LEMMA EndReplyType ==
  ASSUME TypeOK, NEW r \in Requests \cup {NoRequest}, r # NoRequest => Started(r),
         NEW st \in Status, NEW ok, NEW wiped, NEW unlisted, NEW released,
         EndReply(r, st, ok, wiped, unlisted, released)
  PROVE  /\ active' \in Requests \cup {NoRequest}
         /\ active' \in {active, NoRequest}
         /\ activeEpoch' \in Nat
         /\ fault' \in BOOLEAN
         /\ message' \in [Requests -> Status]
         /\ kept' \in [Requests -> Status]
         /\ receipt' \in [Requests -> Status]
         /\ unsaved' \subseteq Requests
         /\ lost' \in [Requests -> BOOLEAN]
         /\ flagged' \subseteq Sessions
<1> USE NullAssumption
<1>1. r # NoRequest => r \in Requests /\ SessionOf(r) \in Sessions
  BY SessionOfType
<1>2. Refused(r, ok) \subseteq Requests
  BY DEF Refused
<1>3. flagged' \subseteq Sessions
  BY <1>1 DEF EndReply, Refused, TypeOK
<1>4. unsaved' \subseteq Requests
  BY <1>2 DEF EndReply, TypeOK
<1>5. /\ message' \in [Requests -> Status]
      /\ kept' \in [Requests -> Status]
      /\ receipt' \in [Requests -> Status]
  BY DEF EndReply, TypeOK, Status
<1>6. /\ activeEpoch' \in Nat
      /\ active' \in Requests \cup {NoRequest}
      /\ active' \in {active, NoRequest}
  BY DEF EndReply, TypeOK
<1>7. fault' \in BOOLEAN
  BY DEF EndReply, TypeOK
<1>8. lost' \in [Requests -> BOOLEAN]
  BY DEF EndReply, TypeOK
<1> QED BY <1>3, <1>4, <1>5, <1>6, <1>7, <1>8

-------------------------------------------------------------------------------
(* Types.                                                                  *)

\* A step that changes only what EndReply and its callers change keeps the
\* types, once the other variables are known to keep theirs.
LEMMA StopActiveType ==
  ASSUME TypeInv, NEW r \in {active, NoRequest}, NEW st \in Status,
         NEW ok, NEW wiped, NEW unlisted, NEW released,
         StopActive(r, st, ok, wiped, unlisted, released),
         enabled' \in BOOLEAN, epoch' \in 1 .. MaxEpoch,
         row' \in [Sessions -> {"new", "live", "tombstone", "gone"}],
         prepared' \in Prepareds
  PROVE  TypeInv'
<1>1. r \in Requests \cup {NoRequest} /\ (r # NoRequest => Started(r))
  BY DEF TypeInv, TypeOK, ActiveStarted
<1>2. EndReply(r, st, ok, wiped, unlisted, released) /\ TypeOK
  BY DEF StopActive, TypeInv
<1>3. /\ active' \in Requests \cup {NoRequest}
      /\ active' \in {active, NoRequest}
      /\ activeEpoch' \in Nat
      /\ fault' \in BOOLEAN
      /\ message' \in [Requests -> Status]
      /\ kept' \in [Requests -> Status]
      /\ receipt' \in [Requests -> Status]
      /\ unsaved' \subseteq Requests
      /\ lost' \in [Requests -> BOOLEAN]
      /\ flagged' \subseteq Sessions
  BY <1>1, <1>2, EndReplyType
<1>4. cancelled' \in [Requests -> BOOLEAN] /\ stopped' \in [Requests -> BOOLEAN]
  BY DEF StopActive, Raised, TypeInv, TypeOK
<1>5. UNCHANGED <<minted, origin, task, sent>>
  BY DEF StopActive
<1>6. TypeOK'
  BY <1>2, <1>3, <1>4, <1>5 DEF TypeOK, Prepareds
<1>7. ActiveStarted'
  BY <1>3, <1>5 DEF TypeInv, ActiveStarted, Started
<1> QED BY <1>6, <1>7 DEF TypeInv

LEMMA BeginType ==
  ASSUME TypeInv, NEW r \in Requests, NEW o \in Origins, Begin(r, o),
         NEW pc \in Running, task' = [task EXCEPT ![r] = pc]
  PROVE  TypeInv'
<1>1. WithoutSession(o.session) \in Prepareds
  BY WithoutSessionType DEF TypeInv
<1>2. TypeOK'
  <2>1. epoch \in Nat /\ activeEpoch' \in Nat
    BY BoundAssumption DEF TypeInv, TypeOK, Begin
  <2>2. /\ origin' \in [Requests -> Origins \cup {NoOrigin}]
        /\ active' \in Requests \cup {NoRequest} /\ fault' \in BOOLEAN
        /\ task' \in [Requests -> Running \cup {"none", "over"}]
    BY DEF TypeInv, TypeOK, Begin
  <2>3. /\ message' \in [Requests -> Status] /\ kept' \in [Requests -> Status]
        /\ receipt' \in [Requests -> Status]
    BY DEF TypeInv, TypeOK, Begin, Status, Open
  <2>4. /\ prepared' \in Prepareds
        /\ UNCHANGED <<setup, flagged, cancelled, unsaved, history>>
    BY <1>1 DEF Begin
  <2> QED BY <2>1, <2>2, <2>3, <2>4 DEF TypeInv, TypeOK, setup, history, Prepareds
<1>3. ActiveStarted'
  BY RecordAssumption DEF TypeInv, TypeOK, Begin, ActiveStarted, Started
<1> QED BY <1>2, <1>3 DEF TypeInv

LEMMA BecomesType ==
  ASSUME TypeInv, NEW r \in Requests, NEW pc \in Running, Becomes(r, pc),
         sent' \in [Requests -> BOOLEAN]
  PROVE  TypeInv'
BY DEF TypeInv, TypeOK, ActiveStarted, Started, Becomes, setup

LEMMA TypeStep ==
  ASSUME TypeInv, [Next]_vars
  PROVE  TypeInv'
<1> USE DEF TypeInv
<1>1. ASSUME NEW s \in Sessions, NEW old \in Sessions, CreateSession(s, old)
      PROVE  TypeInv'
  <2>1. prepared' \in Prepareds
    BY <1>1, WithoutSessionType DEF CreateSession
  <2> QED BY <1>1, <2>1
        DEF TypeOK, ActiveStarted, Started, CreateSession, history, Prepareds
<1>2. ASSUME NEW s \in Sessions, SaveSession(s) \/ ConfigureSession(s) PROVE TypeInv'
  <2>1. Saved(s)
    BY <1>2 DEF SaveSession, ConfigureSession
  <2>2. prepared' \in Prepareds
    BY <1>2, WithoutSessionType DEF SaveSession, ConfigureSession, TypeOK, Prepareds
  <2> QED BY <2>1, <2>2
        DEF TypeOK, ActiveStarted, Started, Saved, setup, history, Status, Prepareds
<1>3. ASSUME NEW p \in Preparations, Expire(p) PROVE TypeInv'
  BY <1>3 DEF TypeOK, ActiveStarted, Started, Expire, setup, history
<1>4. ASSUME NEW p \in Preparations, NEW s \in Sessions, Prepare(p, s)
      PROVE  TypeInv'
  <2>1. NothingPrepared \in Prepareds
    BY NothingPreparedType
  <2>2. [session |-> s, epoch |-> epoch, fresh |-> TRUE] \in Frozen
    BY BoundAssumption DEF TypeOK, Frozen
  <2>3. prepared' \in Prepareds
    BY <1>4, <2>1, <2>2 DEF TypeOK, Prepare, Prepareds
  <2> QED BY <1>4, <2>3 DEF TypeOK, ActiveStarted, Started, Prepare, Prepareds, history
<1>5. ASSUME NEW r \in Requests, NEW u \in Submissions, NEW p \in Preparations,
             Start(r, u, p)
      PROVE  TypeInv'
  <2> DEFINE o == [session |-> prepared[p].session, submission |-> u,
                   preparation |-> p]
  <2>1. o \in Origins
    BY <1>5 DEF Start, Held, TypeOK, Frozen, Origins
  <2>2. Begin(r, o) /\ task' = [task EXCEPT ![r] = "credentials"]
    BY <1>5 DEF Start
  <2> QED BY <2>1, <2>2, BeginType DEF Running
<1>6. ASSUME NEW r \in Requests, NEW u \in Submissions, NEW s \in Sessions,
             StartAction(r, u, s)
      PROVE  TypeInv'
  <2> DEFINE o == [session |-> s, submission |-> u, preparation |-> NoPreparation]
  <2>1. o \in Origins
    BY DEF Origins
  <2>2. Begin(r, o) /\ task' = [task EXCEPT ![r] = "working"]
    BY <1>6 DEF StartAction
  <2> QED BY <2>1, <2>2, BeginType DEF Running
<1>7. ASSUME NEW r \in Requests, ResolveCredentials(r) PROVE TypeInv'
  <2>1. PICK pc \in Running : Becomes(r, pc)
    BY <1>7 DEF ResolveCredentials, Running
  <2>2. sent' \in [Requests -> BOOLEAN]
    BY <1>7 DEF ResolveCredentials, TypeOK
  <2> QED BY <2>1, <2>2, BecomesType
<1>8. ASSUME NEW r \in Requests, OpenRequest(r) PROVE TypeInv'
  <2>1. PICK pc \in Running : Becomes(r, pc)
    BY <1>8 DEF OpenRequest, Running
  <2>2. sent' \in [Requests -> BOOLEAN]
    BY <1>8 DEF OpenRequest, TypeOK
  <2> QED BY <2>1, <2>2, BecomesType
<1>22. ASSUME NEW r \in Requests, Connect(r) PROVE TypeInv'
  <2>1. PICK pc \in Running : Becomes(r, pc)
    BY <1>22 DEF Connect, Running
  <2>2. sent' \in [Requests -> BOOLEAN]
    BY <1>22 DEF Connect, TypeOK
  <2> QED BY <2>1, <2>2, BecomesType
<1>9. ASSUME NEW r \in Requests, WorkEnds(r) PROVE TypeInv'
  <2>1. PICK pc \in Running : Becomes(r, pc)
    BY <1>9 DEF WorkEnds, Running
  <2>2. sent' \in [Requests -> BOOLEAN]
    BY <1>9 DEF WorkEnds, TypeOK
  <2> QED BY <2>1, <2>2, BecomesType
<1>10. ASSUME NEW r \in Requests, NEW ok \in BOOLEAN, Finish(r, ok) PROVE TypeInv'
  <2>1. cancelled' \in [Requests -> BOOLEAN]
        /\ task' \in [Requests -> Running \cup {"none", "over"}]
    BY <1>10 DEF Finish, TypeOK
  <2>2. CASE Owns(r)
    <3>1. Started(r) /\ FinalStatus(r) \in Status
      BY <1>10, <2>2, NullAssumption, FinalStatusType
         DEF Finish, Owns, ActiveStarted, Status
    <3>2. EndReply(r, FinalStatus(r), ok, {}, {}, {}) /\ prepared' = Restamped(SessionOf(r))
      BY <1>10, <2>2 DEF Finish
    <3>3. prepared' \in Prepareds
      BY <3>2, RestampedType
    <3> HIDE DEF TypeInv
    <3>4. TypeOK
      BY DEF TypeInv
    <3>5. /\ active' \in Requests \cup {NoRequest}
          /\ active' \in {active, NoRequest}
          /\ activeEpoch' \in Nat
          /\ fault' \in BOOLEAN
          /\ message' \in [Requests -> Status]
          /\ kept' \in [Requests -> Status]
          /\ receipt' \in [Requests -> Status]
          /\ unsaved' \subseteq Requests
          /\ lost' \in [Requests -> BOOLEAN]
          /\ flagged' \subseteq Sessions
      BY <3>1, <3>2, <3>4, EndReplyType
    <3>6. UNCHANGED <<setup, origin, sent, stopped>>
      BY <1>10 DEF Finish
    <3> QED BY <2>1, <3>3, <3>4, <3>5, <3>6
            DEF TypeInv, TypeOK, ActiveStarted, Started, setup, Prepareds
  <2>3. CASE ~Owns(r)
    BY <1>10, <2>1, <2>3 DEF Finish, TypeOK, ActiveStarted, Started, setup
  <2> QED BY <2>2, <2>3
<1>11. ASSUME NEW r \in Requests, NEW saved \in BOOLEAN, Stream(r, saved)
       PROVE  TypeInv'
  <2>1. Restamped(SessionOf(r)) \in Prepareds
    BY RestampedType
  <2> QED BY <1>11, <2>1 DEF Stream, TypeOK, ActiveStarted, Started, setup, history,
                             Prepareds, Status, Open
<1>12. ASSUME NEW r \in Requests, StreamUnsaved(r) PROVE TypeInv'
  <2>1. Restamped(SessionOf(r)) \in Prepareds
    BY RestampedType
  <2>2. SessionOf(r) \in Sessions
    BY <1>12, NullAssumption, SessionOfType DEF StreamUnsaved, Streaming, ActiveStarted
  <2> QED BY <1>12, <2>1, <2>2 DEF StreamUnsaved, TypeOK, ActiveStarted, Started, setup,
                                   history, Prepareds, Status, Open
<1>13. ASSUME NEW r \in Requests, NEW write, StreamTooLarge(r, write)
       PROVE  TypeInv'
  <2>1. SessionOf(r) \in Sessions
    BY <1>13, NullAssumption, SessionOfType
       DEF StreamTooLarge, Streaming, ActiveStarted
  <2>2. flagged' \subseteq Sessions /\ kept' \in [Requests -> Status]
    BY <1>13, <2>1 DEF StreamTooLarge, TypeOK
  <2> QED BY <1>13, <2>2
          DEF StreamTooLarge, TypeOK, ActiveStarted, Started, setup, history
<1>14. ASSUME NEW r \in Requests, NEW ok \in BOOLEAN, Cancel(r, ok) PROVE TypeInv'
  <2>1. /\ r \in {active, NoRequest}
        /\ StopActive(r, "cancelled", ok, {}, {}, {})
        /\ prepared' = Restamped(SessionOf(r))
        /\ UNCHANGED <<enabled, epoch, row>>
    BY <1>14 DEF Cancel
  <2>2. prepared' \in Prepareds
    BY <2>1, RestampedType
  <2>3. /\ enabled' \in BOOLEAN /\ epoch' \in 1 .. MaxEpoch
        /\ row' \in [Sessions -> {"new", "live", "tombstone", "gone"}]
    BY <2>1 DEF TypeOK
  <2>4. "cancelled" \in Status
    BY DEF Status, Ended
  <2> HIDE DEF TypeInv
  <2> QED BY <2>1, <2>2, <2>3, <2>4, StopActiveType
<1>15. ASSUME NEW on \in BOOLEAN, NEW ok \in BOOLEAN,
              NEW st \in {"cancelled", "interrupted"}, Invalidate(on, st, ok)
       PROVE  TypeInv'
  <2>1. StopActive(active, st, ok, {}, {}, {}) /\ prepared' \in Prepareds
    BY <1>15, NothingPreparedType DEF Invalidate
  <2>2. /\ enabled' \in BOOLEAN /\ epoch' \in 1 .. MaxEpoch
        /\ row' \in [Sessions -> {"new", "live", "tombstone", "gone"}]
    BY <1>15, BoundAssumption DEF Invalidate, TypeOK
  <2>3. st \in Status
    BY DEF Status, Ended
  <2> HIDE DEF TypeInv
  <2> QED BY <2>1, <2>2, <2>3, StopActiveType
<1>16. CASE Enable
  BY <1>16 DEF Enable, TypeOK, ActiveStarted, Started, history
<1>17. ASSUME NEW r \in {active, NoRequest}, NEW S, NEW listed, NEW extent, NEW ok,
              Forget(r, S, listed, extent, ok), enabled' \in BOOLEAN,
              epoch' \in 1 .. MaxEpoch, prepared' \in Prepareds
       PROVE  TypeInv'
  <2>1. row' \in [Sessions -> {"new", "live", "tombstone", "gone"}]
    BY <1>17 DEF Forget, TypeOK
  <2>2. PICK wiped, unlisted, released :
          StopActive(r, "cancelled", ok, wiped, unlisted, released)
    BY <1>17 DEF Forget
  <2>3. "cancelled" \in Status
    BY DEF Status, Ended
  <2> HIDE DEF TypeInv
  <2> QED BY <1>17, <2>1, <2>2, <2>3, StopActiveType
<1>18. ASSUME NEW s \in Sessions, NEW extent \in Extent, NEW ok \in BOOLEAN,
              DeleteSession(s, extent, ok)
       PROVE  TypeInv'
  <2>1. PICK r \in {active, NoRequest} : Forget(r, {s}, {}, extent, ok)
    BY <1>18 DEF DeleteSession
  <2>2. prepared' \in Prepareds
    BY <1>18, WithoutSessionType DEF DeleteSession
  <2>3. enabled' \in BOOLEAN /\ epoch' \in 1 .. MaxEpoch
    BY <1>18 DEF DeleteSession, TypeOK
  <2> QED BY <1>17, <2>1, <2>2, <2>3
<1>19. ASSUME NEW S, NEW listed, NEW extent \in Extent, NEW ok \in BOOLEAN,
              ClearSessions(S, listed, extent, ok)
       PROVE  TypeInv'
  <2>1. Forget(active, S, listed, extent, ok) /\ prepared' \in Prepareds
    BY <1>19, NothingPreparedType DEF ClearSessions
  <2>2. enabled' \in BOOLEAN /\ epoch' \in 1 .. MaxEpoch
    BY <1>19, BoundAssumption DEF ClearSessions, TypeOK
  <2> QED BY <1>17, <2>1, <2>2
<1>20. CASE Restart
  <2>1. prepared' \in Prepareds
    BY <1>20, NothingPreparedType DEF Restart
  <2>2. kept' \in [Requests -> Status] /\ receipt' \in [Requests -> Status]
    BY <1>20, RecoveredType DEF Restart, TypeOK, Status
  <2>3. epoch' \in 1 .. MaxEpoch /\ activeEpoch' \in Nat
    BY <1>20, BoundAssumption DEF Restart
  <2>4. row' \in [Sessions -> {"new", "live", "tombstone", "gone"}]
    BY <1>20 DEF Restart, TypeOK
  <2>5. /\ flagged' \subseteq Sessions /\ unsaved' \subseteq Requests
        /\ message' \in [Requests -> Status]
        /\ cancelled' \in [Requests -> BOOLEAN]
        /\ task' \in [Requests -> Running \cup {"none", "over"}]
        /\ active' = NoRequest /\ fault' \in BOOLEAN
    BY <1>20 DEF Restart, TypeOK, Status
  <2>6. UNCHANGED <<enabled, minted, origin, sent, stopped, lost>>
    BY <1>20 DEF Restart, history
  <2>7. TypeOK'
    BY <2>1, <2>2, <2>3, <2>4, <2>5, <2>6 DEF TypeOK, Prepareds
  <2> QED BY <2>5, <2>7 DEF ActiveStarted
<1>21. CASE UNCHANGED vars
  BY <1>21 DEF vars, TypeOK, ActiveStarted, Started
<1> QED
  BY <1>1, <1>2, <1>3, <1>4, <1>5, <1>6, <1>7, <1>8, <1>9, <1>10, <1>11, <1>12,
     <1>13, <1>14, <1>15, <1>16, <1>18, <1>19, <1>20, <1>21, <1>22
     DEF Next, TaskStep, InvalidateSource, ClearConversations

LEMMA TypeInit == Init => TypeInv
<1>1. ASSUME Init PROVE 1 \in 1 .. MaxEpoch /\ 0 \in Nat
  BY BoundAssumption
<1>2. ASSUME Init PROVE ActiveStarted
  BY <1>2 DEF Init, ActiveStarted
<1>3. ASSUME Init PROVE TypeOK
  BY <1>1, <1>3 DEF Init, TypeOK, Status
<1> QED BY <1>2, <1>3 DEF TypeInv

\* Every variable of AiService keeps to the values the code can give it.
THEOREM TypeCorrect == Spec => []TypeOK
<1>1. Init => TypeInv
  BY TypeInit
<1>2. TypeInv /\ [Next]_vars => TypeInv'
  BY TypeStep
<1>3. TypeInv => TypeOK
  BY DEF TypeInv
<1> QED BY <1>1, <1>2, <1>3, PTL DEF Spec

-------------------------------------------------------------------------------
(* The slot and the cancel flag.                                           *)

\* Whoever stops a request takes its slot and raises its flag.
LEMMA StopActiveFlags ==
  ASSUME TypeInv, FlagFollowsSlot, NEW r \in {active, NoRequest},
         NEW st, NEW ok, NEW wiped, NEW unlisted, NEW released,
         StopActive(r, st, ok, wiped, unlisted, released)
  PROVE  FlagFollowsSlot'
<1>1. CASE r = NoRequest
  <2>1. active' = active /\ UNCHANGED task
    BY <1>1 DEF StopActive, EndReply
  <2>2. \A q \in Requests : cancelled[q] => cancelled'[q]
    BY DEF StopActive, Raised
  <2> QED BY <2>1, <2>2 DEF FlagFollowsSlot
<1>2. CASE r = active
  <2>1. UNCHANGED task
    BY DEF StopActive
  <2>2. \A q \in Requests : cancelled[q] \/ q = active => cancelled'[q]
    BY <1>2 DEF StopActive, Raised
  <2> QED BY <2>1, <2>2 DEF FlagFollowsSlot
<1> QED BY <1>1, <1>2

LEMMA FlagStep ==
  ASSUME TypeInv, FlagFollowsSlot, [Next]_vars
  PROVE  FlagFollowsSlot'
<1>0. /\ cancelled \in [Requests -> BOOLEAN]
      /\ task \in [Requests -> Running \cup {"none", "over"}]
  BY DEF TypeInv, TypeOK
<1>1. CASE UNCHANGED <<active, cancelled, task>>
  BY <1>1 DEF FlagFollowsSlot
<1>2. ASSUME NEW s \in Sessions,
             \/ SaveSession(s) \/ ConfigureSession(s)
             \/ \E old \in Sessions : CreateSession(s, old)
      PROVE  FlagFollowsSlot'
  BY <1>1, <1>2 DEF CreateSession, SaveSession, ConfigureSession, Saved
<1>3. ASSUME NEW p \in Preparations, Expire(p) \/ \E s \in Sessions : Prepare(p, s)
      PROVE  FlagFollowsSlot'
  BY <1>1, <1>3 DEF Expire, Prepare
<1>4. ASSUME NEW r \in Requests, NEW u, NEW s, NEW o, NEW pc, MayBegin(u, s), Begin(r, o),
             task' = [task EXCEPT ![r] = pc]
      PROVE  FlagFollowsSlot'
  BY <1>0, <1>4, NullAssumption DEF MayBegin, Begin, FlagFollowsSlot
<1>5. ASSUME NEW r \in Requests, NEW u \in Submissions,
             \/ \E p \in Preparations : Start(r, u, p)
             \/ \E s \in Sessions : StartAction(r, u, s)
      PROVE  FlagFollowsSlot'
  BY <1>4, <1>5 DEF Start, StartAction
<1>6. ASSUME NEW r \in Requests, NEW pc, Becomes(r, pc), task[r] \in Running
      PROVE  FlagFollowsSlot'
  BY <1>0, <1>6 DEF Becomes, FlagFollowsSlot
<1>7. ASSUME NEW r \in Requests,
             ResolveCredentials(r) \/ OpenRequest(r) \/ Connect(r) \/ WorkEnds(r)
      PROVE  FlagFollowsSlot'
  BY <1>6, <1>7 DEF ResolveCredentials, OpenRequest, Connect, WorkEnds, Running
<1>8. ASSUME NEW r \in Requests, NEW ok \in BOOLEAN, Finish(r, ok)
      PROVE  FlagFollowsSlot'
  <2>1. \A q \in Requests \ {r} : task'[q] = task[q] /\ cancelled'[q] = cancelled[q]
    BY <1>0, <1>8 DEF Finish
  <2>2. task'[r] \notin Running
    BY <1>0, <1>8 DEF Finish, Running
  <2>3. active' = active \/ active = r
    BY <1>8 DEF Finish, Owns
  <2> QED BY <2>1, <2>2, <2>3 DEF FlagFollowsSlot
<1>9. ASSUME NEW r \in Requests, NEW saved \in BOOLEAN, Stream(r, saved)
      PROVE  FlagFollowsSlot'
  BY <1>1, <1>9 DEF Stream
<1>10. ASSUME NEW r \in Requests,
              StreamUnsaved(r) \/ \E write : StreamTooLarge(r, write)
       PROVE  FlagFollowsSlot'
  BY <1>0, <1>10 DEF StreamUnsaved, StreamTooLarge, FlagFollowsSlot
<1>11. ASSUME NEW r \in Requests, NEW ok \in BOOLEAN, Cancel(r, ok)
       PROVE  FlagFollowsSlot'
  BY <1>11, StopActiveFlags DEF Cancel
<1>12. ASSUME NEW on \in BOOLEAN, NEW ok \in BOOLEAN,
              NEW st \in {"cancelled", "interrupted"}, Invalidate(on, st, ok)
       PROVE  FlagFollowsSlot'
  BY <1>12, StopActiveFlags DEF Invalidate
<1>13. CASE Enable
  BY <1>1, <1>13 DEF Enable
<1>14. ASSUME NEW s \in Sessions, NEW extent \in Extent, NEW ok \in BOOLEAN,
              DeleteSession(s, extent, ok)
       PROVE  FlagFollowsSlot'
  <2>1. PICK r \in {active, NoRequest} : Forget(r, {s}, {}, extent, ok)
    BY <1>14 DEF DeleteSession
  <2> QED BY <2>1, StopActiveFlags DEF Forget
<1>15. ASSUME NEW S, NEW listed, NEW extent \in Extent, NEW ok \in BOOLEAN,
              ClearSessions(S, listed, extent, ok)
       PROVE  FlagFollowsSlot'
  BY <1>15, StopActiveFlags DEF ClearSessions, Forget
<1>16. CASE Restart
  BY <1>16 DEF Restart, FlagFollowsSlot, Running
<1>17. CASE UNCHANGED vars
  BY <1>1, <1>17 DEF vars
<1> QED
  BY <1>2, <1>3, <1>5, <1>7, <1>8, <1>9, <1>10, <1>11, <1>12, <1>13, <1>14, <1>15,
     <1>16, <1>17 DEF Next, TaskStep, InvalidateSource, ClearConversations

\* A task whose flag is down still owns the slot, however many requests,
\* windows and invalidations interleave.
THEOREM FlagCorrect == Spec => []FlagFollowsSlot
<1>1. Init => TypeInv /\ FlagFollowsSlot
  BY TypeInit DEF Init, FlagFollowsSlot, Running
<1>2. TypeInv /\ FlagFollowsSlot /\ [Next]_vars => (TypeInv /\ FlagFollowsSlot)'
  BY TypeStep, FlagStep
<1> QED BY <1>1, <1>2, PTL DEF Spec

-------------------------------------------------------------------------------
(* The active request is current.                                          *)

\* Stopping the active request leaves the slot empty.
LEMMA StopEmptiesSlot ==
  ASSUME NEW st, NEW ok, NEW wiped, NEW unlisted, NEW released,
         StopActive(active, st, ok, wiped, unlisted, released)
  PROVE  active' = NoRequest
BY DEF StopActive, EndReply

LEMMA BeginCurrent ==
  ASSUME TypeInv, NEW r \in Requests, NEW u, NEW o \in Origins,
         MayBegin(u, o.session), Begin(r, o)
  PROVE  ActiveIsCurrent'
<1>1. active' = r /\ SessionOf(r)' = o.session /\ Live(o.session)'
  BY DEF TypeInv, TypeOK, Begin, MayBegin, SessionOf, Live, setup
<1>2. enabled' /\ activeEpoch' = epoch' /\ unsaved' = {}
  BY DEF Begin, MayBegin, setup
<1>3. {message'[r], kept'[r], receipt'[r]} \subseteq Open
  BY DEF TypeInv, TypeOK, Begin, Open
<1> QED BY <1>1, <1>2, <1>3 DEF ActiveIsCurrent

LEMMA ActiveStep ==
  ASSUME TypeInv, ActiveIsCurrent, [Next]_vars
  PROVE  ActiveIsCurrent'
<1>0. /\ active # NoRequest => active \in Requests /\ Started(active)
      /\ message \in [Requests -> Status] /\ kept \in [Requests -> Status]
      /\ receipt \in [Requests -> Status]
  BY DEF TypeInv, TypeOK, ActiveStarted
<1>1. CASE UNCHANGED <<enabled, epoch, row, origin, active, activeEpoch, message, kept,
                       receipt, unsaved>>
  BY <1>1 DEF ActiveIsCurrent, Live, SessionOf
<1>2. CASE active' = NoRequest
  BY <1>2 DEF ActiveIsCurrent
<1>3. ASSUME NEW s \in Sessions, NEW old \in Sessions, CreateSession(s, old)
      PROVE  ActiveIsCurrent'
  <2>1. UNCHANGED <<enabled, epoch, origin, active, activeEpoch, message, kept,
                    receipt, unsaved>>
    BY <1>3 DEF CreateSession
  <2>2. \A t : row[t] = "live" => row'[t] = "live"
    BY <1>3 DEF CreateSession, TypeInv, TypeOK
  <2> QED BY <2>1, <2>2 DEF ActiveIsCurrent, Live, SessionOf
<1>4. ASSUME NEW s \in Sessions, SaveSession(s) \/ ConfigureSession(s)
      PROVE  ActiveIsCurrent'
  <2>0. Saved(s)
    BY <1>4 DEF SaveSession, ConfigureSession
  <2>1. UNCHANGED <<enabled, epoch, row, origin, active, activeEpoch, receipt>>
    BY <2>0 DEF Saved, setup
  <2>2. unsaved' \subseteq unsaved
    BY <2>0 DEF Saved
  <2>3. ASSUME active # NoRequest
        PROVE  message'[active] = message[active]
               /\ kept'[active] \in {message[active], kept[active]}
    BY <1>0, <2>0, <2>3 DEF Saved
  <2> QED BY <2>1, <2>2, <2>3 DEF ActiveIsCurrent, Live, SessionOf
<1>5. ASSUME NEW p \in Preparations, Expire(p) \/ \E s \in Sessions : Prepare(p, s)
      PROVE  ActiveIsCurrent'
  BY <1>1, <1>5 DEF Expire, Prepare, setup
<1>6. ASSUME NEW r \in Requests, NEW u \in Submissions, NEW p \in Preparations,
             Start(r, u, p)
      PROVE  ActiveIsCurrent'
  <2> DEFINE o == [session |-> prepared[p].session, submission |-> u,
                   preparation |-> p]
  <2>1. o \in Origins
    BY <1>6 DEF Start, Held, TypeInv, TypeOK, Frozen, Origins
  <2>2. MayBegin(u, o.session) /\ Begin(r, o)
    BY <1>6 DEF Start
  <2> QED BY <2>1, <2>2, BeginCurrent
<1>7. ASSUME NEW r \in Requests, NEW u \in Submissions, NEW s \in Sessions,
             StartAction(r, u, s)
      PROVE  ActiveIsCurrent'
  <2> DEFINE o == [session |-> s, submission |-> u, preparation |-> NoPreparation]
  <2>1. o \in Origins
    BY DEF Origins
  <2>2. MayBegin(u, o.session) /\ Begin(r, o)
    BY <1>7 DEF StartAction
  <2> QED BY <2>1, <2>2, BeginCurrent
<1>8. ASSUME NEW r \in Requests,
             ResolveCredentials(r) \/ OpenRequest(r) \/ Connect(r) \/ WorkEnds(r)
      PROVE  ActiveIsCurrent'
  BY <1>1, <1>8 DEF ResolveCredentials, OpenRequest, Connect, WorkEnds, Becomes, setup
<1>9. ASSUME NEW r \in Requests, NEW ok \in BOOLEAN, Finish(r, ok)
      PROVE  ActiveIsCurrent'
  <2>1. CASE Owns(r)
    <3>1. r # NoRequest /\ EndReply(r, FinalStatus(r), ok, {}, {}, {})
      BY <1>9, <2>1, NullAssumption DEF Finish
    <3> QED BY <1>2, <3>1 DEF EndReply
  <2>2. CASE ~Owns(r)
    BY <1>1, <1>9, <2>2 DEF Finish, setup
  <2> QED BY <2>1, <2>2
<1>10. ASSUME NEW r \in Requests,
              \/ StreamUnsaved(r)
              \/ \E saved \in BOOLEAN : Stream(r, saved)
             \/ \E write : StreamTooLarge(r, write)
       PROVE  ActiveIsCurrent'
  <2>1. UNCHANGED <<enabled, epoch, row, origin, active, activeEpoch, receipt, unsaved>>
    BY <1>10 DEF StreamUnsaved, Stream, StreamTooLarge, setup
  <2>2. active = r
    BY <1>10 DEF StreamUnsaved, Stream, StreamTooLarge, Streaming
  <2>3. message'[r] \in {message[r], "streaming"}
        /\ kept'[r] \in {kept[r], message[r], "streaming"}
    BY <1>0, <1>10 DEF StreamUnsaved, Stream, StreamTooLarge
  <2> QED BY <2>1, <2>2, <2>3 DEF ActiveIsCurrent, Live, SessionOf, Open
<1>11. ASSUME NEW r \in Requests, NEW ok \in BOOLEAN, Cancel(r, ok)
       PROVE  ActiveIsCurrent'
  BY <1>2, <1>11, StopEmptiesSlot DEF Cancel
<1>12. ASSUME NEW on \in BOOLEAN, NEW ok \in BOOLEAN,
              NEW st \in {"cancelled", "interrupted"}, Invalidate(on, st, ok)
       PROVE  ActiveIsCurrent'
  BY <1>2, <1>12, StopEmptiesSlot DEF Invalidate
<1>13. CASE Enable
  BY <1>13 DEF Enable, ActiveIsCurrent, Live, SessionOf
<1>14. ASSUME NEW s \in Sessions, NEW extent \in Extent, NEW ok \in BOOLEAN,
              DeleteSession(s, extent, ok)
       PROVE  ActiveIsCurrent'
  <2>1. CASE active \in Of({s})
    BY <1>2, <1>14, <2>1, StopEmptiesSlot DEF DeleteSession, Forget
  <2>2. CASE active = NoRequest
    BY <1>2, <1>14, <2>2, StopEmptiesSlot DEF DeleteSession, Forget, StopActive, EndReply
  <2>3. CASE active # NoRequest /\ active \notin Of({s})
    <3>1. SessionOf(active) # s /\ active \notin Of({s})
      BY <1>0, <2>3 DEF Of
    <3>2. UNCHANGED <<enabled, epoch, origin>>
      BY <1>14 DEF DeleteSession, Forget, StopActive
    <3>3. PICK wiped, unlisted, released :
            /\ EndReply(NoRequest, "cancelled", ok, wiped, unlisted, released)
            /\ active \notin wiped \cup unlisted \cup released
      BY <1>14, <2>3, <3>1 DEF DeleteSession, Forget, StopActive, Of
    <3>5. /\ active' = active /\ activeEpoch' = activeEpoch
          /\ unsaved' \subseteq unsaved
      BY <3>3 DEF EndReply, Refused
    <3>6. /\ message'[active] = message[active] /\ kept'[active] = kept[active]
          /\ receipt'[active] = receipt[active]
      BY <1>0, <2>3, <3>3 DEF EndReply, Refused
    <3>7. row'[SessionOf(active)] = row[SessionOf(active)]
      <4>1. SessionOf(active) \in Sessions
        BY <1>0, <2>3, SessionOfType DEF TypeInv
      <4> QED BY <1>14, <3>1, <4>1 DEF DeleteSession, Forget
    <3> QED BY <3>2, <3>5, <3>6, <3>7 DEF ActiveIsCurrent, Live, SessionOf
  <2> QED BY <2>1, <2>2, <2>3
<1>15. ASSUME NEW S, NEW listed, NEW extent \in Extent, NEW ok \in BOOLEAN,
              ClearSessions(S, listed, extent, ok)
       PROVE  ActiveIsCurrent'
  BY <1>2, <1>15, StopEmptiesSlot DEF ClearSessions, Forget
<1>16. CASE Restart
  BY <1>2, <1>16 DEF Restart
<1>17. CASE UNCHANGED vars
  BY <1>1, <1>17 DEF vars
<1> QED
  BY <1>3, <1>4, <1>5, <1>6, <1>7, <1>8, <1>9, <1>10, <1>11, <1>12, <1>13, <1>14,
     <1>15, <1>16, <1>17 
     DEF Next, TaskStep, InvalidateSource, ClearConversations

\* What every gate before a tool or a model call relies on: the request in the
\* slot is current, open in both copies, and alone.
THEOREM ActiveCorrect == Spec => []ActiveIsCurrent
<1>1. Init => TypeInv /\ ActiveIsCurrent
  BY TypeInit DEF Init, ActiveIsCurrent
<1>2. TypeInv /\ ActiveIsCurrent /\ [Next]_vars => (TypeInv /\ ActiveIsCurrent)'
  BY TypeStep, ActiveStep
<1> QED BY <1>1, <1>2, PTL DEF Spec

\* A call is opened for the active request only, and only while that is current:
\* the flag that transport::cancellable reads last tells as much as the slot would.
THEOREM SendCorrect == Spec => SendIsChecked
<1> DEFINE Opens(r) ==
             task[r] # "connecting" /\ task'[r] = "connecting" =>
               active = r /\ enabled /\ activeEpoch = epoch /\ Live(SessionOf(r))
           Sends(r) ==
             sent'[r] # sent[r] =>
               /\ task[r] = "connecting" /\ task'[r] = "working" /\ sent'[r]
               /\ active = r \/ cancelled[r]
           SInv == TypeInv /\ FlagFollowsSlot /\ ActiveIsCurrent
<1>1. Init => SInv
  BY TypeInit DEF Init, FlagFollowsSlot, Running, ActiveIsCurrent
<1>2. SInv /\ [Next]_vars => SInv'
  BY TypeStep, FlagStep, ActiveStep
<1>3. ASSUME SInv, [Next]_vars, NEW r \in Requests
      PROVE  Opens(r) /\ Sends(r)
  <2>0. /\ task \in [Requests -> Running \cup {"none", "over"}]
        /\ sent \in [Requests -> BOOLEAN]
    BY <1>3 DEF TypeInv, TypeOK
  <2>a. CASE UNCHANGED sent /\ task'[r] # "connecting"
    BY <2>a
  <2>b. CASE UNCHANGED <<sent, task>>
    BY <2>b
  <2>1. ASSUME NEW q \in Requests, OpenRequest(q) PROVE Opens(r) /\ Sends(r)
    <3>1. UNCHANGED sent /\ task[q] \in Running
      BY <2>1 DEF OpenRequest, Running
    <3>2. CASE r = q /\ ~cancelled[q]
      <4>1. active = r
        BY <1>3, <3>1, <3>2 DEF FlagFollowsSlot
      <4> QED BY <1>3, <3>1, <4>1, NullAssumption DEF ActiveIsCurrent
    <3>3. CASE r # q \/ cancelled[q]
      <4>1. task'[r] = "connecting" => task[r] = "connecting"
        BY <2>0, <2>1, <3>3 DEF OpenRequest, Becomes
      <4> QED BY <3>1, <4>1
    <3> QED BY <3>2, <3>3
  <2>2. ASSUME NEW q \in Requests, Connect(q) PROVE Opens(r) /\ Sends(r)
    <3>1. task'[r] = "connecting" => task[r] = "connecting"
      BY <2>0, <2>2 DEF Connect, Becomes
    <3>2. CASE r = q /\ task'[q] = "working"
      <4>1. active = q \/ cancelled[q]
        BY <1>3, <2>2 DEF FlagFollowsSlot, Connect, Running
      <4>2. task[q] = "connecting" /\ (sent'[q] # sent[q] => sent'[q])
        BY <2>0, <2>2 DEF Connect
      <4> QED BY <3>1, <3>2, <4>1, <4>2
    <3>3. CASE ~(r = q /\ task'[q] = "working")
      <4>1. sent'[r] = sent[r]
        BY <2>0, <2>2, <3>3 DEF Connect, Becomes
      <4> QED BY <3>1, <4>1
    <3> QED BY <3>2, <3>3
  <2>3. ASSUME NEW q \in Requests, NEW pc, Becomes(q, pc), pc # "connecting",
               UNCHANGED sent
        PROVE  Opens(r) /\ Sends(r)
    BY <2>0, <2>3 DEF Becomes
  <2>4. CASE \E s \in Sessions :
               \/ SaveSession(s) \/ ConfigureSession(s)
               \/ \E old \in Sessions : CreateSession(s, old)
    BY <2>b, <2>4 DEF CreateSession, SaveSession, ConfigureSession, Saved, history
  <2>5. CASE \E p \in Preparations : Expire(p) \/ \E s \in Sessions : Prepare(p, s)
    BY <2>b, <2>5 DEF Expire, Prepare, history
  <2>6. ASSUME NEW q \in Requests, NEW u \in Submissions,
               \/ \E p \in Preparations : Start(q, u, p)
               \/ \E s \in Sessions : StartAction(q, u, s)
        PROVE  Opens(r) /\ Sends(r)
    <3>1. UNCHANGED sent
      BY <2>6 DEF Start, StartAction, Begin, history
    <3>2. task'[r] \in {task[r], "credentials", "working"}
      BY <2>0, <2>6 DEF Start, StartAction
    <3> QED BY <3>1, <3>2
  <2>7. ASSUME NEW q \in Requests, TaskStep(q)
        PROVE  Opens(r) /\ Sends(r)
    <3>1. CASE ResolveCredentials(q)
      <4>1. PICK pc \in {"opening", "cancelled", "failed"} : Becomes(q, pc)
        BY <3>1 DEF ResolveCredentials
      <4> QED BY <2>3, <3>1, <4>1 DEF ResolveCredentials
    <3>2. CASE WorkEnds(q)
      <4>1. PICK pc \in {"ok", "cancelled", "failed"} : Becomes(q, pc)
        BY <3>2 DEF WorkEnds
      <4> QED BY <2>3, <3>2, <4>1 DEF WorkEnds
    <3>3. ASSUME NEW ok \in BOOLEAN, Finish(q, ok)
          PROVE  Opens(r) /\ Sends(r)
      <4>1. UNCHANGED sent /\ task'[r] \in {task[r], "over"}
        BY <2>0, <3>3 DEF Finish
      <4> QED BY <4>1
    <3> QED BY <2>1, <2>2, <2>7, <3>1, <3>2, <3>3 DEF TaskStep
  <2>8. CASE \E q \in Requests :
               \/ StreamUnsaved(q)
               \/ \E saved \in BOOLEAN : Stream(q, saved)
               \/ \E write : StreamTooLarge(q, write)
    BY <2>b, <2>8 DEF StreamUnsaved, Stream, StreamTooLarge, history
  <2>9. CASE \E q \in Requests, ok \in BOOLEAN : Cancel(q, ok)
    BY <2>b, <2>9 DEF Cancel, StopActive
  <2>10. CASE \E on, ok \in BOOLEAN, st \in {"cancelled", "interrupted"} :
                Invalidate(on, st, ok)
    BY <2>b, <2>10 DEF Invalidate, StopActive
  <2>11. ASSUME NEW s, NEW S, NEW listed, NEW extent, NEW ok,
                \/ DeleteSession(s, extent, ok)
                \/ ClearSessions(S, listed, extent, ok)
         PROVE  Opens(r) /\ Sends(r)
    <3>1. UNCHANGED <<sent, task>>
      BY <2>11 DEF DeleteSession, ClearSessions, Forget, StopActive
    <3> QED BY <2>b, <3>1
  <2>12. CASE Restart
    <3>1. UNCHANGED sent /\ task'[r] \in {"none", "over"}
      BY <2>12 DEF Restart, history
    <3> QED BY <2>a, <3>1
  <2>13. CASE Enable \/ UNCHANGED vars
    BY <2>b, <2>13 DEF Enable, vars, history
  <2> QED
    BY <1>3, <2>4, <2>5, <2>6, <2>7, <2>8, <2>9, <2>10, <2>11, <2>12, <2>13
       DEF Next, InvalidateSource, ClearConversations
<1>4. SInv /\ [Next]_vars
        => [\A r \in Requests :
              /\ task[r] # "connecting" /\ task'[r] = "connecting" =>
                   /\ active = r /\ enabled /\ activeEpoch = epoch
                   /\ Live(SessionOf(r))
              /\ sent'[r] # sent[r] =>
                   /\ task[r] = "connecting" /\ task'[r] = "working" /\ sent'[r]
                   /\ active = r \/ cancelled[r]]_vars
  BY <1>3
<1> QED BY <1>1, <1>2, <1>4, PTL DEF Spec, SendIsChecked

-------------------------------------------------------------------------------
(* A stop wins against a late answer, and a deleted conversation stays     *)
(* deleted.  Both rest on the active request being current.                *)

Inv == TypeInv /\ ActiveIsCurrent

LEMMA InvInit == Init => Inv
BY TypeInit DEF Init, ActiveIsCurrent, Inv

LEMMA InvStep == Inv /\ [Next]_vars => Inv'
BY TypeStep, ActiveStep DEF Inv

\* What a request that has started looks like to the lemmas below.
LEMMA ActiveFacts ==
  ASSUME Inv
  PROVE  /\ message \in [Requests -> Status] /\ kept \in [Requests -> Status]
         /\ receipt \in [Requests -> Status] /\ stopped \in [Requests -> BOOLEAN]
         /\ origin \in [Requests -> Origins \cup {NoOrigin}]
         /\ active # NoRequest =>
              /\ active \in Requests /\ Started(active) /\ Live(SessionOf(active))
              /\ {message[active], kept[active], receipt[active]} \subseteq Open
BY DEF Inv, TypeInv, TypeOK, ActiveStarted, ActiveIsCurrent

\* persist_completed writes its status to the copies of the request it ends,
\* and leaves or drops those of every other.
LEMMA EndReplyCopies ==
  ASSUME Inv, NEW r, NEW st, NEW ok, NEW wiped, NEW unlisted, NEW released,
         EndReply(r, st, ok, wiped, unlisted, released), NEW q \in Requests
  PROVE  /\ message'[q] \in {message[q], "none", st}
         /\ kept'[q] \in {kept[q], "none", st}
         /\ receipt'[q] \in {receipt[q], "none", st}
         /\ q # r => /\ message'[q] \in {message[q], "none"}
                     /\ kept'[q] \in {kept[q], "none"}
                     /\ receipt'[q] \in {receipt[q], "none"}
         /\ q \in wiped => kept'[q] = "none"
<1>1. Refused(r, ok) \subseteq {r}
  BY DEF Refused
<1> QED BY <1>1 DEF EndReply

-------------------------------------------------------------------------------
(* A stop wins.                                                            *)

\* A stopped request was started, has lost its slot, and no copy of its reply
\* reads complete.
StopInv ==
  \A r \in Requests :
    stopped[r] => /\ Started(r) /\ r # active
                  /\ "complete" \notin {message[r], kept[r], receipt[r]}

\* The request that is stopped was open, so nothing had completed it.
LEMMA StopActiveStops ==
  ASSUME Inv, StopInv, NEW r \in {active, NoRequest}, NEW st, st # "complete",
         NEW ok, NEW wiped, NEW unlisted, NEW released,
         StopActive(r, st, ok, wiped, unlisted, released)
  PROVE  StopInv'
<1>1. ASSUME NEW q \in Requests, stopped'[q]
      PROVE  /\ Started(q)' /\ q # active'
             /\ "complete" \notin {message'[q], kept'[q], receipt'[q]}
  <2>1. EndReply(r, st, ok, wiped, unlisted, released) /\ origin' = origin
    BY DEF StopActive
  <2>2. active' = IF r = NoRequest THEN active ELSE NoRequest
    BY <2>1 DEF EndReply
  <2>3. stopped[q] \/ q = r
    BY <1>1 DEF StopActive
  <2>4. CASE q = r
    <3>1. q = active /\ active # NoRequest
      BY <2>4, NullAssumption
    <3>2. active' = NoRequest /\ q # NoRequest
      BY <2>2, <2>4, <3>1
    <3> QED BY <2>1, <3>1, <3>2, ActiveFacts, EndReplyCopies DEF Started, Open
  <2>5. CASE q # r /\ stopped[q]
    <3>1. q # active' /\ Started(q)'
      BY <2>1, <2>2, <2>5, NullAssumption DEF StopInv, Started
    <3> QED BY <2>1, <2>5, <3>1, EndReplyCopies DEF StopInv
  <2> QED BY <2>3, <2>4, <2>5
<1> QED BY <1>1 DEF StopInv

LEMMA StopStep ==
  ASSUME Inv, StopInv, [Next]_vars
  PROVE  StopInv'
<1>0. /\ message \in [Requests -> Status] /\ kept \in [Requests -> Status]
      /\ receipt \in [Requests -> Status] /\ stopped \in [Requests -> BOOLEAN]
      /\ origin \in [Requests -> Origins \cup {NoOrigin}]
  BY ActiveFacts
<1>1. CASE UNCHANGED <<origin, active, message, kept, receipt, stopped>>
  BY <1>1 DEF StopInv, Started
<1>2. ASSUME NEW s \in Sessions,
             \/ SaveSession(s) \/ ConfigureSession(s)
             \/ \E old \in Sessions : CreateSession(s, old)
      PROVE  StopInv'
  <2>1. CASE \E old \in Sessions : CreateSession(s, old)
    BY <1>1, <2>1 DEF CreateSession, history
  <2>2. CASE Saved(s)
    <3>1. UNCHANGED <<origin, active, receipt, stopped>>
      BY <2>2 DEF Saved, history
    <3>2. \A q \in Requests : /\ message'[q] \in {message[q], "none"}
                              /\ kept'[q] \in {kept[q], message[q]}
      BY <2>2 DEF Saved
    <3> QED BY <3>1, <3>2 DEF StopInv, Started
  <2> QED BY <1>2, <2>1, <2>2 DEF SaveSession, ConfigureSession
<1>3. ASSUME NEW p \in Preparations, Expire(p) \/ \E s \in Sessions : Prepare(p, s)
      PROVE  StopInv'
  BY <1>1, <1>3 DEF Expire, Prepare, history
<1>4. ASSUME NEW r \in Requests, NEW o, Begin(r, o)
      PROVE  StopInv'
  <2>1. ~stopped[r]
    BY <1>4 DEF Begin, StopInv
  <2>2. UNCHANGED stopped /\ active' = r
    BY <1>4 DEF Begin, history
  <2>3. \A q \in Requests \ {r} :
          /\ origin'[q] = origin[q] /\ message'[q] = message[q]
          /\ kept'[q] = kept[q] /\ receipt'[q] = receipt[q]
    BY <1>0, <1>4 DEF Begin
  <2> QED BY <2>1, <2>2, <2>3 DEF StopInv, Started
<1>5. ASSUME NEW r \in Requests, NEW u \in Submissions,
             \/ \E p \in Preparations : Start(r, u, p)
             \/ \E s \in Sessions : StartAction(r, u, s)
      PROVE  StopInv'
  BY <1>4, <1>5 DEF Start, StartAction
<1>6. ASSUME NEW r \in Requests,
             ResolveCredentials(r) \/ OpenRequest(r) \/ Connect(r) \/ WorkEnds(r)
      PROVE  StopInv'
  BY <1>1, <1>6 DEF ResolveCredentials, OpenRequest, Connect, WorkEnds, Becomes
<1>7. ASSUME NEW r \in Requests, NEW ok \in BOOLEAN, Finish(r, ok)
      PROVE  StopInv'
  <2>1. UNCHANGED <<origin, stopped>>
    BY <1>7 DEF Finish
  <2>2. CASE Owns(r)
    <3>1. EndReply(r, FinalStatus(r), ok, {}, {}, {}) /\ active = r
      BY <1>7, <2>2 DEF Finish, Owns
    <3>2. active' = NoRequest
      BY <3>1, NullAssumption DEF EndReply
    <3>3. \A q \in Requests : stopped[q] => q # r
      BY <3>1 DEF StopInv
    <3> QED BY <2>1, <3>1, <3>2, <3>3, EndReplyCopies, NullAssumption
          DEF StopInv, Started
  <2>3. CASE ~Owns(r)
    BY <1>1, <1>7, <2>1, <2>3 DEF Finish
  <2> QED BY <2>2, <2>3
<1>8. ASSUME NEW r \in Requests,
             \/ StreamUnsaved(r)
             \/ \E saved \in BOOLEAN : Stream(r, saved)
             \/ \E write : StreamTooLarge(r, write)
      PROVE  StopInv'
  <2>1. UNCHANGED <<origin, active, receipt, stopped>> /\ active = r
    BY <1>8 DEF StreamUnsaved, Stream, StreamTooLarge, Streaming, setup, history
  <2>2. \A q \in Requests \ {r} : message'[q] = message[q] /\ kept'[q] = kept[q]
    BY <1>0, <1>8 DEF StreamUnsaved, Stream, StreamTooLarge
  <2> QED BY <2>1, <2>2 DEF StopInv, Started
<1>9. ASSUME NEW r \in Requests, NEW ok \in BOOLEAN, Cancel(r, ok)
      PROVE  StopInv'
  BY <1>9, StopActiveStops DEF Cancel
<1>10. ASSUME NEW on \in BOOLEAN, NEW ok \in BOOLEAN,
              NEW st \in {"cancelled", "interrupted"}, Invalidate(on, st, ok)
       PROVE  StopInv'
  BY <1>10, StopActiveStops DEF Invalidate
<1>11. CASE Enable
  BY <1>1, <1>11 DEF Enable, history
<1>12. ASSUME NEW s \in Sessions, NEW extent \in Extent, NEW ok \in BOOLEAN,
              DeleteSession(s, extent, ok)
       PROVE  StopInv'
  <2>1. PICK r \in {active, NoRequest} : Forget(r, {s}, {}, extent, ok)
    BY <1>12 DEF DeleteSession
  <2> QED BY <2>1, StopActiveStops DEF Forget
<1>13. ASSUME NEW S, NEW listed, NEW extent \in Extent, NEW ok \in BOOLEAN,
              ClearSessions(S, listed, extent, ok)
       PROVE  StopInv'
  BY <1>13, StopActiveStops DEF ClearSessions, Forget
<1>14. CASE Restart
  <2>1. UNCHANGED <<origin, stopped>> /\ active' = NoRequest
    BY <1>14 DEF Restart, history
  <2>2. \A q \in Requests :
          /\ message'[q] = "none"
          /\ kept'[q] \in {"none", "interrupted", kept[q]}
          /\ receipt'[q] \in {"none", "interrupted", receipt[q]}
    BY <1>14 DEF Restart, Recovered
  <2> QED BY <2>1, <2>2, NullAssumption DEF StopInv, Started
<1>15. CASE UNCHANGED vars
  BY <1>1, <1>15 DEF vars
<1> QED
  BY <1>2, <1>3, <1>5, <1>6, <1>7, <1>8, <1>9, <1>10, <1>11, <1>12, <1>13, <1>14,
     <1>15 DEF Next, TaskStep, InvalidateSource, ClearConversations

\* However late the answer of the model comes, no copy of a reply that was
\* stopped says that it is complete.
THEOREM StopCorrect == Spec => []StopWins
<1>1. Init => StopInv
  BY DEF Init, StopInv
<1>2. Inv /\ StopInv /\ [Next]_vars => StopInv'
  BY StopStep
<1>3. StopInv => StopWins
  BY DEF StopInv, StopWins
<1> QED BY <1>1, <1>2, <1>3, InvInit, InvStep, PTL DEF Spec

-------------------------------------------------------------------------------
(* What is kept of a request: its copies exist as long as its conversation  *)
(* does and no longer, an open one is accounted for, and what was sent once  *)
(* is not sent again.  The steps are first sorted by what they do to these   *)
(* copies (StepKinds); the invariant Records is then proved once for each    *)
(* kind, and so is that AiRequests implements AiReply.                       *)

Deleted == {"tombstone", "gone"}

\* A request that has started has both copies while its conversation is live,
\* and none in its conversation afterwards; before it starts it has neither.
KeptWithRow ==
  \A r \in Requests :
    /\ Started(r) =>
         /\ row[SessionOf(r)] # "new"
         /\ Live(SessionOf(r)) => kept[r] # "none" /\ receipt[r] # "none"
         /\ ~Live(SessionOf(r)) => kept[r] = "none"
    /\ ~Started(r) => receipt[r] = "none"

\* Only an ended reply waits to be saved.
UnsavedEnded == \A r \in unsaved : Started(r) /\ message[r] \in Ended

Records == KeptWithRow /\ UnsavedEnded /\ NoAbandonedReply

-------------------------------------------------------------------------------
(* The kinds of steps.                                                     *)

\* The step leaves the conversations and the copies alone.
Aside == UNCHANGED <<row, origin, active, message, kept, receipt, unsaved, lost>>

Makes(s) ==
  /\ row[s] = "new" /\ row' = [row EXCEPT ![s] = "live"]
  /\ UNCHANGED <<origin, active, message, kept, receipt, unsaved, lost>>

Begins(r, o) == MayBegin(o.submission, o.session) /\ Begin(r, o)

\* The active request gets on; its copies stay open.
Writes(r) ==
  /\ active = r
  /\ UNCHANGED <<row, origin, active, receipt, unsaved, lost>>
  /\ message'[r] \in Open /\ kept'[r] \in Open
  /\ \A q \in Requests \ {r} : message'[q] = message[q] /\ kept'[q] = kept[q]

\* A request ends, or none, and conversations S are deleted.
EndsWith(r, S, st, ok, unlisted, released) ==
  /\ EndReply(r, st, ok, Of(S), unlisted, released)
  /\ unlisted \subseteq Of(S) /\ released \subseteq Of(S)
  /\ origin' = origin
  /\ \A s \in Sessions :
       IF s \in S /\ row[s] \notin {"new", "gone"}
       THEN row'[s] \in Deleted ELSE row'[s] = row[s]

Ends(r, S) ==
  \E st \in Ended, ok \in BOOLEAN, unlisted, released \in SUBSET Requests :
    EndsWith(r, S, st, ok, unlisted, released)

StepKind ==
  \/ Aside
  \/ \E s \in Sessions : Makes(s) \/ Saved(s)
  \/ \E r \in Requests, o \in Origins : Begins(r, o)
  \/ \E r \in Requests : Writes(r)
  \/ \E r \in {active, NoRequest}, S \in SUBSET Sessions : Ends(r, S)
  \/ Restart

LEMMA OfType == ASSUME NEW S PROVE Of(S) \in SUBSET Requests
BY DEF Of

\* What Forget deletes is what EndsWith says.
LEMMA ForgetEnds ==
  ASSUME Inv, NEW r \in {active, NoRequest}, NEW S \in SUBSET Sessions,
         NEW listed, NEW extent \in Extent, NEW ok \in BOOLEAN,
         Forget(r, S, listed, extent, ok)
  PROVE  \E T \in SUBSET Sessions : Ends(r, T)
<1> DEFINE gone == IF extent = "done" THEN S
                   ELSE IF extent = "refused" THEN {} ELSE S \ TempSessions
           unlisted == IF extent = "tombstoned" THEN {} ELSE Of(gone \ listed)
           released == IF extent = "done" THEN Of(S) ELSE {}
<1>1. gone \in SUBSET Sessions
  OBVIOUS
<1>2. /\ unlisted \subseteq Of(gone) /\ released \subseteq Of(gone)
      /\ Of(gone) \in SUBSET Requests
  BY DEF Of
<1>3. EndReply(r, "cancelled", ok, Of(gone), unlisted, released) /\ origin' = origin
  BY DEF Forget, StopActive
<1>4. row' = [s \in Sessions |->
                IF s \notin gone \/ row[s] \in {"new", "gone"} THEN row[s]
                ELSE IF extent \in {"tombstoned", "unlisted"}
                THEN "tombstone" ELSE "gone"]
  BY DEF Forget
<1> HIDE DEF gone, unlisted, released
<1>5. EndsWith(r, gone, "cancelled", ok, unlisted, released)
  BY <1>2, <1>3, <1>4 DEF EndsWith, Deleted
<1>6. "cancelled" \in Ended /\ unlisted \in SUBSET Requests
                            /\ released \in SUBSET Requests
  BY <1>2 DEF Ended
<1> QED BY <1>1, <1>5, <1>6 DEF Ends

\* A step that ends a request and deletes nothing.
LEMMA StopEnds ==
  ASSUME NEW r, NEW st \in Ended, NEW ok \in BOOLEAN,
         EndReply(r, st, ok, {}, {}, {}), UNCHANGED <<row, origin>>
  PROVE  Ends(r, {})
<1>1. Of({}) = {}
  BY DEF Of
<1>2. EndsWith(r, {}, st, ok, {}, {})
  BY <1>1 DEF EndsWith
<1> QED BY <1>2 DEF Ends

LEMMA StepKinds ==
  ASSUME Inv, [Next]_vars
  PROVE  StepKind
<1>0. /\ message \in [Requests -> Status] /\ kept \in [Requests -> Status]
      /\ active # NoRequest => {message[active], kept[active]} \subseteq Open
  BY ActiveFacts
<1>1. ASSUME NEW s \in Sessions,
             \/ SaveSession(s) \/ ConfigureSession(s)
             \/ \E old \in Sessions : CreateSession(s, old)
      PROVE  StepKind
  <2>1. CASE \E old \in Sessions : CreateSession(s, old)
    <3>1. Makes(s)
      BY <2>1 DEF CreateSession, Makes, history
    <3> QED BY <3>1 DEF StepKind
  <2>2. CASE Saved(s)
    BY <2>2 DEF StepKind
  <2> QED BY <1>1, <2>1, <2>2 DEF SaveSession, ConfigureSession
<1>2. ASSUME NEW p \in Preparations, Expire(p) \/ \E s \in Sessions : Prepare(p, s)
      PROVE  StepKind
  BY <1>2 DEF Expire, Prepare, StepKind, Aside, setup, history
<1>3. ASSUME NEW r \in Requests, NEW u \in Submissions,
             NEW p \in Preparations, Start(r, u, p)
      PROVE  StepKind
  <2> DEFINE o == [session |-> prepared[p].session, submission |-> u,
                   preparation |-> p]
  <2>1. o \in Origins
    BY <1>3 DEF Start, Held, Inv, TypeInv, TypeOK, Frozen, Origins
  <2>2. Begins(r, o)
    BY <1>3 DEF Start, Begins
  <2> QED BY <2>1, <2>2 DEF StepKind
<1>4. ASSUME NEW r \in Requests, NEW u \in Submissions,
             NEW s \in Sessions, StartAction(r, u, s)
      PROVE  StepKind
  <2> DEFINE o == [session |-> s, submission |-> u, preparation |-> NoPreparation]
  <2>1. o \in Origins
    BY DEF Origins
  <2>2. Begins(r, o)
    BY <1>4 DEF StartAction, Begins
  <2> QED BY <2>1, <2>2 DEF StepKind
<1>5. ASSUME NEW r \in Requests,
             ResolveCredentials(r) \/ OpenRequest(r) \/ Connect(r) \/ WorkEnds(r)
      PROVE  StepKind
  BY <1>5 DEF ResolveCredentials, OpenRequest, Connect, WorkEnds, Becomes, StepKind, Aside,
              setup
<1>6. ASSUME NEW r \in Requests, NEW ok \in BOOLEAN, Finish(r, ok)
      PROVE  StepKind
  <2>1. UNCHANGED <<row, origin>>
    BY <1>6 DEF Finish, setup
  <2>2. CASE Owns(r)
    <3>1. EndReply(r, FinalStatus(r), ok, {}, {}, {}) /\ active = r
      BY <1>6, <2>2 DEF Finish, Owns
    <3>2. FinalStatus(r) \in Ended
      BY <1>6, FinalStatusType DEF Finish
    <3>3. Ends(r, {})
      BY <2>1, <3>1, <3>2, StopEnds
    <3> QED BY <3>1, <3>3 DEF StepKind
  <2>3. CASE ~Owns(r)
    BY <1>6, <2>1, <2>3 DEF Finish, StepKind, Aside
  <2> QED BY <2>2, <2>3
<1>7. ASSUME NEW r \in Requests,
             \/ StreamUnsaved(r)
             \/ \E saved \in BOOLEAN : Stream(r, saved)
             \/ \E write : StreamTooLarge(r, write)
      PROVE  StepKind
  <2>1. /\ UNCHANGED <<row, origin, active, receipt, unsaved, lost>>
        /\ active = r /\ active # NoRequest
    BY <1>7, NullAssumption
       DEF StreamUnsaved, Stream, StreamTooLarge, Streaming, setup, history
  <2>2. \A q \in Requests \ {r} : message'[q] = message[q] /\ kept'[q] = kept[q]
    BY <1>0, <1>7 DEF StreamUnsaved, Stream, StreamTooLarge
  <2>3. message'[r] \in Open /\ kept'[r] \in Open
    BY <1>0, <1>7, <2>1 DEF StreamUnsaved, Stream, StreamTooLarge, Open
  <2> QED BY <2>1, <2>2, <2>3 DEF StepKind, Writes
<1>8. ASSUME NEW r \in Requests, NEW ok \in BOOLEAN, Cancel(r, ok)
      PROVE  StepKind
  <2>1. /\ EndReply(r, "cancelled", ok, {}, {}, {}) /\ UNCHANGED <<row, origin>>
        /\ active = r
    BY <1>8 DEF Cancel, StopActive
  <2>2. Ends(r, {})
    BY <2>1, StopEnds DEF Ended
  <2> QED BY <2>1, <2>2 DEF StepKind
<1>9. ASSUME NEW on \in BOOLEAN, NEW ok \in BOOLEAN,
             NEW st \in {"cancelled", "interrupted"}, Invalidate(on, st, ok)
      PROVE  StepKind
  <2>1. EndReply(active, st, ok, {}, {}, {}) /\ UNCHANGED <<row, origin>>
    BY <1>9 DEF Invalidate, StopActive
  <2>2. Ends(active, {})
    BY <2>1, StopEnds DEF Ended
  <2> QED BY <2>2 DEF StepKind
<1>10. CASE Enable
  BY <1>10 DEF Enable, StepKind, Aside, history
<1>11. ASSUME NEW s \in Sessions, NEW extent \in Extent, NEW ok \in BOOLEAN,
              DeleteSession(s, extent, ok)
       PROVE  StepKind
  <2>1. PICK r \in {active, NoRequest} : Forget(r, {s}, {}, extent, ok)
    BY <1>11 DEF DeleteSession
  <2> QED BY <2>1, ForgetEnds DEF StepKind
<1>12. ASSUME NEW S \in SUBSET Sessions, NEW listed, NEW extent \in Extent,
              NEW ok \in BOOLEAN, ClearSessions(S, listed, extent, ok)
       PROVE  StepKind
  <2>1. Forget(active, S, listed, extent, ok)
    BY <1>12 DEF ClearSessions
  <2> QED BY <2>1, ForgetEnds DEF StepKind
<1>13. CASE Restart
  BY <1>13 DEF StepKind
<1>14. CASE UNCHANGED vars
  BY <1>14 DEF vars, StepKind, Aside
<1> QED
  BY <1>1, <1>2, <1>3, <1>4, <1>5, <1>6, <1>7, <1>8, <1>9, <1>10, <1>11, <1>12,
     <1>13, <1>14 DEF Next, TaskStep, InvalidateSource, ClearConversations

-------------------------------------------------------------------------------
(* Records is inductive.                                                   *)

\* The parts of the type that the lemmas below use.
RecordTypes ==
  /\ message \in [Requests -> Status] /\ kept \in [Requests -> Status]
  /\ receipt \in [Requests -> Status] /\ lost \in [Requests -> BOOLEAN]
  /\ origin \in [Requests -> Origins \cup {NoOrigin}]
  /\ row \in [Sessions -> {"new", "live", "tombstone", "gone"}]
  /\ unsaved \subseteq Requests
  /\ \A r \in Requests : Started(r) => SessionOf(r) \in Sessions

LEMMA RecordTyped == Inv => RecordTypes
BY SessionOfType DEF Inv, TypeInv, TypeOK, RecordTypes

LEMMA MakesRecords ==
  ASSUME Inv, Records, NEW s \in Sessions, Makes(s)
  PROVE  Records'
<1>1. RecordTypes
  BY RecordTyped
<1>2. \A r \in Requests : Started(r) => row'[SessionOf(r)] = row[SessionOf(r)]
  BY <1>1 DEF Makes, Records, KeptWithRow, RecordTypes
<1> QED BY <1>1, <1>2
      DEF Makes, Records, KeptWithRow, UnsavedEnded, NoAbandonedReply, Started,
          SessionOf, Live

\* What a save writes is open for the active request and ended for an unsaved
\* reply, so it never leaves a copy that nobody will end.
LEMMA SavedRecords ==
  ASSUME Inv, Records, NEW s \in Sessions, Saved(s)
  PROVE  Records'
<1>1. RecordTypes
  BY RecordTyped
<1>2. /\ UNCHANGED <<row, origin, active, receipt, lost>>
      /\ unsaved' = unsaved \ Of({s}) /\ Live(s)
  BY DEF Saved, MayInsert, setup, history
<1>3. ASSUME NEW r \in Requests
      PROVE  IF r \in Of({s}) /\ (r = active \/ r \in unsaved)
             THEN kept'[r] = message[r]
             ELSE kept'[r] = kept[r] /\ message'[r] = message[r]
  BY DEF Saved
<1>4. \A r \in Requests : r = active \/ r \in unsaved => message[r] # "none"
  BY ActiveFacts, NullAssumption DEF Records, UnsavedEnded, Open, Ended
<1>5. KeptWithRow'
  <2>1. ASSUME NEW r \in Requests, Started(r)
        PROVE  /\ kept[r] # "none" => kept'[r] # "none"
               /\ ~Live(SessionOf(r)) => kept'[r] = kept[r]
    BY <1>2, <1>3, <1>4, <2>1 DEF Of
  <2> QED BY <1>2, <2>1 DEF Records, KeptWithRow, Started, SessionOf, Live
<1>6. UnsavedEnded'
  BY <1>1, <1>2, <1>3 DEF Records, UnsavedEnded, Started, RecordTypes
<1>7. NoAbandonedReply'
  <2>1. ASSUME NEW r \in Requests, Started(r), Live(SessionOf(r)), kept'[r] \in Open
        PROVE  r = active \/ r \in unsaved'
    <3>1. CASE r \in Of({s}) /\ (r = active \/ r \in unsaved)
      BY <1>3, <2>1, <3>1 DEF Records, UnsavedEnded, Open, Ended
    <3>2. CASE ~(r \in Of({s}) /\ (r = active \/ r \in unsaved))
      BY <1>2, <1>3, <2>1, <3>2 DEF Records, NoAbandonedReply
    <3> QED BY <3>1, <3>2
  <2> QED BY <1>2, <2>1 DEF Records, NoAbandonedReply, Started, SessionOf, Live
<1> QED BY <1>5, <1>6, <1>7 DEF Records

LEMMA BeginsRecords ==
  ASSUME Inv, Records, NEW r \in Requests, NEW o \in Origins, Begins(r, o)
  PROVE  Records'
<1>1. RecordTypes
  BY RecordTyped
<1>2. /\ ~Started(r) /\ unsaved = {} /\ Live(o.session) /\ active = NoRequest
      /\ UNCHANGED <<row, unsaved, lost>> /\ active' = r
  BY DEF Begins, MayBegin, Begin, setup, history
<1>3. /\ origin'[r] = o /\ kept'[r] = "pending" /\ receipt'[r] = "pending"
      /\ \A q \in Requests \ {r} :
           /\ origin'[q] = origin[q] /\ message'[q] = message[q]
           /\ kept'[q] = kept[q] /\ receipt'[q] = receipt[q]
  BY <1>1 DEF Begins, Begin, RecordTypes
<1>4. o # NoOrigin /\ row[o.session] # "new"
  BY <1>2, RecordAssumption DEF Live
<1>5. KeptWithRow'
  BY <1>2, <1>3, <1>4 DEF Records, KeptWithRow, Started, SessionOf, Live
<1>6. UnsavedEnded'
  BY <1>2 DEF UnsavedEnded
<1>7. NoAbandonedReply'
  BY <1>2, <1>3, NullAssumption
     DEF Records, NoAbandonedReply, Started, SessionOf, Live
<1> QED BY <1>5, <1>6, <1>7 DEF Records

LEMMA WritesRecords ==
  ASSUME Inv, Records, NEW r \in Requests, Writes(r)
  PROVE  Records'
<1>1. Live(SessionOf(r)) /\ kept[r] # "none" /\ r \notin unsaved
  BY ActiveFacts, NullAssumption DEF Writes, Inv, ActiveIsCurrent, Open
<1>2. KeptWithRow'
  BY <1>1 DEF Writes, Records, KeptWithRow, Started, SessionOf, Live, Open
<1>3. UnsavedEnded'
  BY <1>1, RecordTyped DEF Writes, Records, UnsavedEnded, Started, RecordTypes
<1>4. NoAbandonedReply'
  BY <1>1 DEF Writes, Records, NoAbandonedReply, Started, SessionOf, Live
<1> QED BY <1>2, <1>3, <1>4 DEF Records

\* Deletion: the copies of a conversation that stops being live are wiped in the
\* same step; end of a reply: it is recorded, or kept in memory and marked lost.
LEMMA EndsRecords ==
  ASSUME Inv, Records, NEW r \in {active, NoRequest}, NEW S \in SUBSET Sessions,
         Ends(r, S)
  PROVE  Records'
<1>1. RecordTypes
  BY RecordTyped
<1>2. PICK st \in Ended, ok \in BOOLEAN, unlisted \in SUBSET Requests,
           released \in SUBSET Requests :
           EndsWith(r, S, st, ok, unlisted, released)
  BY DEF Ends
<1> DEFINE refused == Refused(r, ok)
           held    == {q \in {r} : q # NoRequest /\ (ok \/ IsTemp(q))}
<1>3. /\ EndReply(r, st, ok, Of(S), unlisted, released) /\ origin' = origin
      /\ unlisted \subseteq Of(S) /\ released \subseteq Of(S)
  BY <1>2 DEF EndsWith
<1>4. /\ active' = IF r = NoRequest THEN active ELSE NoRequest
      /\ unsaved' = (unsaved \cup refused) \ released
      /\ \A q \in Requests :
           /\ message'[q] = IF q \in refused \ released THEN st
                            ELSE IF q = r \/ q \in released THEN "none"
                            ELSE message[q]
           /\ kept'[q] = IF q \in Of(S) THEN "none"
                         ELSE IF q \in held THEN st ELSE kept[q]
           /\ receipt'[q] = IF q \in unlisted THEN "none"
                            ELSE IF q \in held THEN st ELSE receipt[q]
           /\ lost'[q] = (lost[q] \/ q \in refused)
  BY <1>3 DEF EndReply
<1>5. r # NoRequest =>
        /\ r = active /\ r \in Requests /\ Started(r) /\ Live(SessionOf(r))
        /\ unsaved = {} /\ (r \in held \/ r \in refused)
  BY ActiveFacts DEF Inv, ActiveIsCurrent, Refused
<1>6. /\ refused \subseteq {r} \ {NoRequest} /\ held \subseteq {r} \ {NoRequest}
      /\ st \notin Open /\ st # "none" /\ "none" \notin Ended
  BY DEF Refused, Open, Ended
<1>7. ASSUME NEW s \in Sessions
      PROVE  IF s \in S /\ row[s] \notin {"new", "gone"}
             THEN row'[s] \in Deleted ELSE row'[s] = row[s]
  BY <1>2 DEF EndsWith
<1> HIDE DEF refused, held
<1>8. ASSUME NEW q \in Requests, Started(q)
      PROVE  /\ SessionOf(q) \in Sessions /\ row[SessionOf(q)] # "new"
             /\ row'[SessionOf(q)] # "new"
             /\ q \in Of(S) => row'[SessionOf(q)] # "live" /\ kept'[q] = "none"
             /\ q \notin Of(S) => row'[SessionOf(q)] = row[SessionOf(q)]
  <2>1. SessionOf(q) \in Sessions /\ row[SessionOf(q)] # "new"
    BY <1>1, <1>8 DEF RecordTypes, Records, KeptWithRow
  <2>2. q \in Of(S) <=> SessionOf(q) \in S
    BY <1>8 DEF Of
  <2> QED BY <1>4, <1>7, <2>1, <2>2 DEF Deleted
<1>9. KeptWithRow'
  <2>1. ASSUME NEW q \in Requests, Started(q)
        PROVE  /\ row'[SessionOf(q)] # "new"
               /\ row'[SessionOf(q)] = "live" =>
                    kept'[q] # "none" /\ receipt'[q] # "none"
               /\ row'[SessionOf(q)] # "live" => kept'[q] = "none"
    <3>1. CASE q \in Of(S)
      BY <1>8, <2>1, <3>1
    <3>2. CASE q \notin Of(S)
      <4>1. row'[SessionOf(q)] = row[SessionOf(q)] /\ q \notin unlisted
        BY <1>3, <1>8, <2>1, <3>2
      <4>2. q \in held => row[SessionOf(q)] = "live"
        BY <1>5, <1>6 DEF Live
      <4> QED BY <1>4, <1>6, <1>8, <2>1, <3>2, <4>1, <4>2
            DEF Records, KeptWithRow, Live
    <3> QED BY <3>1, <3>2
  <2>2. ASSUME NEW q \in Requests, ~Started(q)
        PROVE  receipt'[q] = "none"
    <3>1. q \notin held
      BY <1>5, <1>6, <2>2
    <3> QED BY <1>4, <2>2, <3>1 DEF Records, KeptWithRow
  <2> QED BY <1>3, <2>1, <2>2 DEF KeptWithRow, Started, SessionOf, Live
<1>10. UnsavedEnded'
  <2>1. ASSUME NEW q \in unsaved'
        PROVE  q \in Requests /\ Started(q) /\ message'[q] \in Ended
    <3>1. CASE q \in refused
      BY <1>4, <1>5, <1>6, <2>1, <3>1
    <3>2. CASE q \notin refused
      <4>1. q \in unsaved /\ q \in Requests /\ q # r /\ q \notin released
        BY <1>1, <1>4, <1>5, <2>1, <3>2, NullAssumption DEF RecordTypes
      <4> QED BY <1>4, <3>2, <4>1 DEF Records, UnsavedEnded
    <3> QED BY <3>1, <3>2
  <2> QED BY <1>3, <2>1 DEF UnsavedEnded, Started
<1>11. NoAbandonedReply'
  <2>1. ASSUME NEW q \in Requests, Started(q), row'[SessionOf(q)] = "live",
               kept'[q] \in Open
        PROVE  q = active' \/ q \in unsaved'
    <3>1. q \notin Of(S) /\ row[SessionOf(q)] = "live" /\ q \notin released
      BY <1>3, <1>8, <2>1
    <3>2. q \notin held /\ kept[q] \in Open
      BY <1>4, <1>6, <2>1, <3>1
    <3>3. q = active \/ q \in unsaved
      BY <2>1, <3>1, <3>2 DEF Records, NoAbandonedReply, Live
    <3> QED BY <1>4, <1>5, <3>1, <3>2, <3>3
  <2>2. ASSUME NEW q \in Requests, receipt'[q] \in Open
        PROVE  q = active' \/ lost'[q]
    <3>1. q \notin held /\ receipt[q] \in Open
      BY <1>4, <1>6, <2>2 DEF Open
    <3>2. q = active \/ lost[q]
      BY <3>1 DEF Records, NoAbandonedReply
    <3> QED BY <1>4, <1>5, <3>1, <3>2
  <2> QED BY <1>3, <2>1, <2>2 DEF NoAbandonedReply, Started, SessionOf, Live
<1> QED BY <1>9, <1>10, <1>11 DEF Records

LEMMA RestartRecords ==
  ASSUME Inv, Records, Restart
  PROVE  Records'
<1>1. RecordTypes
  BY RecordTyped
<1> DEFINE gone == {s \in Sessions : row[s] = "tombstone"
                                     \/ (s \in TempSessions /\ row[s] = "live")}
<1>2. /\ UNCHANGED <<origin, lost>> /\ unsaved' = {}
      /\ row' = [s \in Sessions |-> IF s \in gone THEN "gone" ELSE row[s]]
      /\ \A r \in Requests :
           /\ kept'[r] = IF r \in Of(gone) THEN "none" ELSE Recovered(kept[r])
           /\ receipt'[r] = IF r \in Of(gone \cup TempSessions) THEN "none"
                            ELSE Recovered(receipt[r])
  BY DEF Restart, history
<1>3. \A st \in Status : /\ Recovered(st) \notin Open
                         /\ Recovered(st) = "none" <=> st = "none"
  BY DEF Recovered, Open, Ended, Status
<1>4. KeptWithRow'
  <2>1. ASSUME NEW r \in Requests, Started(r)
        PROVE  /\ row'[SessionOf(r)] # "new"
               /\ row'[SessionOf(r)] = "live" =>
                    kept'[r] # "none" /\ receipt'[r] # "none"
               /\ row'[SessionOf(r)] # "live" => kept'[r] = "none"
    <3>1. SessionOf(r) \in Sessions /\ row[SessionOf(r)] # "new"
      BY <1>1, <2>1 DEF RecordTypes, Records, KeptWithRow
    <3>2. /\ r \in Of(gone) <=> SessionOf(r) \in gone
          /\ r \in Of(gone \cup TempSessions) <=>
               SessionOf(r) \in gone \cup TempSessions
      BY <2>1 DEF Of
    <3>3. kept[r] \in Status /\ receipt[r] \in Status
      BY <1>1 DEF RecordTypes
    <3>4. CASE SessionOf(r) \in gone
      BY <1>2, <3>1, <3>2, <3>4
    <3>5. CASE SessionOf(r) \notin gone
      <4>1. row'[SessionOf(r)] = row[SessionOf(r)]
        BY <1>2, <3>1, <3>5
      <4>2. row[SessionOf(r)] = "live" => SessionOf(r) \notin TempSessions
        BY <3>1, <3>5
      <4> QED BY <1>2, <1>3, <2>1, <3>1, <3>2, <3>3, <3>5, <4>1, <4>2
            DEF Records, KeptWithRow, Live
    <3> QED BY <3>4, <3>5
  <2>2. ASSUME NEW r \in Requests, ~Started(r)
        PROVE  receipt'[r] = "none"
    BY <1>2, <2>2 DEF Records, KeptWithRow, Recovered, Open
  <2> QED BY <1>2, <2>1, <2>2 DEF KeptWithRow, Started, SessionOf, Live
<1>5. UnsavedEnded'
  BY <1>2 DEF UnsavedEnded
<1>6. NoAbandonedReply'
  <2>1. \A r \in Requests : kept'[r] \notin Open /\ receipt'[r] \notin Open
    BY <1>1, <1>2, <1>3 DEF RecordTypes, Open
  <2> QED BY <2>1 DEF NoAbandonedReply
<1> QED BY <1>4, <1>5, <1>6 DEF Records

LEMMA RecordsStep ==
  ASSUME Inv, Records, [Next]_vars
  PROVE  Records'
<1>1. CASE Aside
  BY <1>1 DEF Aside, Records, KeptWithRow, UnsavedEnded, NoAbandonedReply,
              Started, SessionOf, Live
<1> QED BY <1>1, StepKinds, MakesRecords, SavedRecords, BeginsRecords,
          WritesRecords, EndsRecords, RestartRecords DEF StepKind

LEMMA RecordsInit == Init => Records
BY DEF Init, Records, KeptWithRow, UnsavedEnded, NoAbandonedReply, Started, Open

LEMMA RecordsAlways == Spec => [](Inv /\ Records)
<1>1. Inv /\ Records /\ [Next]_vars => (Inv /\ Records)'
  BY RecordsStep, InvStep
<1> QED BY <1>1, RecordsInit, InvInit, PTL DEF Spec

-------------------------------------------------------------------------------
(* What follows from Records.                                              *)

\* What was sent to the model is on record as long as its conversation is.
THEOREM RecordedCorrect == Spec => []SentIsRecorded
<1>1. Records => SentIsRecorded
  BY DEF Records, KeptWithRow, SentIsRecorded
<1> QED BY <1>1, RecordsAlways, PTL

\* No copy of a reply stays open when nobody is going to end it.
THEOREM AbandonedCorrect == Spec => []NoAbandonedReply
<1>1. Records => NoAbandonedReply
  BY DEF Records
<1> QED BY <1>1, RecordsAlways, PTL

\* What a request was started from is fixed, and conversations do not come back.
LEMMA RowsOnlyEnd ==
  ASSUME Inv, [Next]_vars
  PROVE  /\ \A r \in Requests : Started(r) => origin'[r] = origin[r]
         /\ \A s \in Sessions : row[s] \in Deleted => row'[s] \in Deleted
         /\ \A s \in Sessions : row[s] # "new" /\ row'[s] = "live" => row[s] = "live"
<1>1. StepKind /\ RecordTypes
  BY StepKinds, RecordTyped
<1>2. CASE Aside
  BY <1>2 DEF Aside
<1>3. ASSUME NEW s \in Sessions, Makes(s) \/ Saved(s)
      PROVE  /\ origin' = origin
             /\ \A t \in Sessions : row[t] # "new" => row'[t] = row[t]
  BY <1>1, <1>3 DEF Makes, Saved, setup, RecordTypes
<1>4. ASSUME NEW r \in Requests, NEW o \in Origins, Begins(r, o)
      PROVE  /\ row' = row
             /\ \A q \in Requests : Started(q) => origin'[q] = origin[q]
  BY <1>1, <1>4 DEF Begins, Begin, setup, RecordTypes
<1>5. ASSUME NEW r \in Requests, Writes(r)
      PROVE  UNCHANGED <<row, origin>>
  BY <1>5 DEF Writes
<1>6. ASSUME NEW r, NEW S, Ends(r, S)
      PROVE  /\ origin' = origin
             /\ \A s \in Sessions : row'[s] = row[s] \/ row'[s] \in Deleted
             /\ \A s \in Sessions : row[s] = "gone" => row'[s] = row[s]
  BY <1>6 DEF Ends, EndsWith
<1>7. CASE Restart
  <2>1. /\ origin' = origin
        /\ \A s \in Sessions : row'[s] \in {row[s], "gone"}
    BY <1>7 DEF Restart
  <2> QED BY <2>1 DEF Deleted
<1> QED BY <1>1, <1>2, <1>3, <1>4, <1>5, <1>6, <1>7 DEF StepKind, Deleted

\* A receipt that was deleted is not written again: only the reply of the active
\* request gets one, and the conversation of that is live.
LEMMA ReceiptsStayDeleted ==
  ASSUME Inv, Records, [Next]_vars, NEW r \in Requests, Started(r),
         ~Live(SessionOf(r)), receipt[r] = "none"
  PROVE  receipt'[r] = "none"
<1>1. StepKind /\ RecordTypes
  BY StepKinds, RecordTyped
<1>2. CASE Aside \/ Restart
  BY <1>2 DEF Aside, Restart, Recovered, Open
<1>3. ASSUME NEW s \in Sessions, Makes(s) \/ Saved(s)
      PROVE  receipt' = receipt
  BY <1>3 DEF Makes, Saved
<1>4. ASSUME NEW q \in Requests, NEW o \in Origins, Begins(q, o)
      PROVE  receipt'[r] = receipt[r]
  BY <1>1, <1>4 DEF Begins, Begin, RecordTypes
<1>5. ASSUME NEW q \in Requests, Writes(q)
      PROVE  receipt' = receipt
  BY <1>5 DEF Writes
<1>6. ASSUME NEW q \in {active, NoRequest}, NEW S \in SUBSET Sessions, Ends(q, S)
      PROVE  receipt'[r] = "none"
  <2>1. q # NoRequest => Live(SessionOf(q))
    BY <1>6 DEF Inv, ActiveIsCurrent
  <2>2. q = NoRequest \/ q # r
    BY <2>1
  <2> QED BY <1>6, <2>2 DEF Ends, EndsWith, EndReply
<1> QED BY <1>1, <1>2, <1>3, <1>4, <1>5, <1>6 DEF StepKind

\* No write, however late, brings back a conversation that was deleted, a reply of
\* it, or a receipt that was deleted with it.
THEOREM DeletedCorrect == Spec => DeletedStaysDeleted
<1>1. ASSUME Inv, Records, Records', [Next]_vars
      PROVE  [\A s \in Sessions :
                row[s] \in {"tombstone", "gone"} =>
                  /\ row'[s] \in {"tombstone", "gone"}
                  /\ \A r \in Of({s}) :
                       /\ kept'[r] = "none"
                       /\ receipt[r] = "none" => receipt'[r] = "none"]_vars
  <2>1. ASSUME NEW s \in Sessions, row[s] \in Deleted
        PROVE  /\ row'[s] \in Deleted
               /\ \A r \in Of({s}) :
                    /\ kept'[r] = "none"
                    /\ receipt[r] = "none" => receipt'[r] = "none"
    <3>1. row'[s] \in Deleted
      BY <1>1, <2>1, RowsOnlyEnd
    <3>2. ASSUME NEW r \in Of({s})
          PROVE  /\ kept'[r] = "none"
                 /\ receipt[r] = "none" => receipt'[r] = "none"
      <4>1. r \in Requests /\ Started(r) /\ SessionOf(r) = s
        BY DEF Of
      <4>2. origin'[r] = origin[r]
        BY <1>1, <4>1, RowsOnlyEnd
      <4>3. kept'[r] = "none"
        BY <1>1, <3>1, <4>1, <4>2
           DEF Records, KeptWithRow, Started, SessionOf, Live, Deleted
      <4>4. receipt[r] = "none" => receipt'[r] = "none"
        BY <1>1, <2>1, <4>1, ReceiptsStayDeleted DEF Live, Deleted
      <4> QED BY <4>3, <4>4
    <3> QED BY <3>1, <3>2
  <2> QED BY <2>1 DEF Deleted
<1> QED BY <1>1, RecordsAlways, PTL DEF Spec, DeletedStaysDeleted

-------------------------------------------------------------------------------
(* Nothing is sent twice.                                                  *)

\* A preparation that a request was started from is not held any more, and an id
\* given out once is not given out again.
Spent ==
  /\ Held \subseteq minted
  /\ \A r \in Requests :
       Started(r) /\ origin[r].preparation # NoPreparation =>
         origin[r].preparation \in minted \ Held

\* Every step but Prepare only drops preparations.
LEMMA HeldShrinks ==
  ASSUME NEW s, prepared' \in {prepared, NothingPrepared, Restamped(s),
                               WithoutSession(s)}
  PROVE  Held' \subseteq Held
BY DEF Held, NothingPrepared, Restamped, WithoutSession

\* The step starts no request and prepares nothing.
Drops == Held' \subseteq Held /\ UNCHANGED <<minted, origin>>

LEMMA PreparationKinds ==
  ASSUME [Next]_vars
  PROVE  \/ Drops
         \/ \E p \in Preparations, s \in Sessions : Prepare(p, s)
         \/ \E r \in Requests, u \in Submissions, p \in Preparations : Start(r, u, p)
         \/ \E r \in Requests, u \in Submissions, s \in Sessions : StartAction(r, u, s)
<1>1. ASSUME NEW s \in Sessions,
             \/ SaveSession(s) \/ ConfigureSession(s)
             \/ \E old \in Sessions : CreateSession(s, old)
      PROVE  Drops
  <2>1. CASE SaveSession(s) \/ ConfigureSession(s)
    <3>1. /\ UNCHANGED <<minted, origin>>
          /\ prepared' \in {prepared, WithoutSession(s)}
      BY <2>1 DEF SaveSession, ConfigureSession, Saved, setup
    <3> QED BY <3>1, HeldShrinks DEF Drops
  <2>2. ASSUME NEW old \in Sessions, CreateSession(s, old)
        PROVE  Drops
    BY <2>2, HeldShrinks DEF CreateSession, Drops
  <2> QED BY <1>1, <2>1, <2>2
<1>2. ASSUME NEW p \in Preparations, Expire(p)
      PROVE  Drops
  BY <1>2 DEF Expire, Drops, Held, setup
<1>3. ASSUME NEW r \in Requests,
             ResolveCredentials(r) \/ OpenRequest(r) \/ Connect(r) \/ WorkEnds(r)
      PROVE  Drops
  BY <1>3, HeldShrinks
     DEF ResolveCredentials, OpenRequest, Connect, WorkEnds, Becomes, Drops, setup
<1>4. ASSUME NEW r \in Requests, NEW ok \in BOOLEAN, Finish(r, ok) \/ Cancel(r, ok)
      PROVE  Drops
  <2>1. UNCHANGED <<minted, origin>> /\ prepared' \in {prepared, Restamped(SessionOf(r))}
    BY <1>4 DEF Finish, Cancel, StopActive, setup
  <2> QED BY <2>1, HeldShrinks DEF Drops
<1>5. ASSUME NEW r \in Requests,
             \/ StreamUnsaved(r)
             \/ \E saved \in BOOLEAN : Stream(r, saved)
             \/ \E write : StreamTooLarge(r, write)
      PROVE  Drops
  BY <1>5, HeldShrinks DEF StreamUnsaved, Stream, StreamTooLarge, Drops, setup
<1>6. ASSUME NEW on \in BOOLEAN, NEW ok \in BOOLEAN,
             NEW st \in {"cancelled", "interrupted"}, Invalidate(on, st, ok)
      PROVE  Drops
  BY <1>6, HeldShrinks DEF Invalidate, StopActive, Drops
<1>7. CASE Enable
  BY <1>7, HeldShrinks DEF Enable, Drops
<1>8. ASSUME NEW s \in Sessions, NEW extent \in Extent, NEW ok \in BOOLEAN,
             DeleteSession(s, extent, ok)
      PROVE  Drops
  BY <1>8, HeldShrinks DEF DeleteSession, Forget, StopActive, Drops
<1>9. ASSUME NEW S, NEW listed, NEW extent, NEW ok, ClearSessions(S, listed, extent, ok)
      PROVE  Drops
  BY <1>9, HeldShrinks DEF ClearSessions, Forget, StopActive, Drops
<1>10. CASE Restart
  BY <1>10, HeldShrinks DEF Restart, Drops
<1>11. CASE UNCHANGED vars
  BY <1>11, HeldShrinks DEF vars, Drops
<1> QED
  BY <1>1, <1>2, <1>3, <1>4, <1>5, <1>6, <1>7, <1>8, <1>9, <1>10, <1>11
     DEF Next, TaskStep, InvalidateSource, ClearConversations

\* The request that starts: nothing live was started from its submission, and
\* its preparation, if it has one, was still held and is dropped.
LEMMA BeginsAnew ==
  ASSUME Inv, Records, Spent, NoReplay, NEW r \in Requests, NEW o \in Origins,
         Begins(r, o),
         o.preparation # NoPreparation =>
           o.preparation \in Held /\ prepared[o.preparation].session = o.session
  PROVE  Spent' /\ NoReplay'
<1>1. RecordTypes
  BY RecordTyped
<1>2. /\ ~Started(r) /\ ~ReceiptHeld(o.submission)
      /\ row' = row /\ minted' = minted /\ origin'[r] = o
      /\ \A q \in Requests \ {r} : origin'[q] = origin[q]
      /\ prepared' = WithoutSession(o.session)
  BY <1>1 DEF Begins, MayBegin, Begin, setup, RecordTypes
<1>3. Held' \subseteq Held
  BY <1>2, HeldShrinks
<1>4. o.preparation # NoPreparation => o.preparation \in minted \ Held'
  BY <1>2 DEF Spent, Held, WithoutSession
<1>5. Spent'
  BY <1>2, <1>3, <1>4 DEF Spent, Started
<1>6. ASSUME NEW q \in Requests, q # r, Started(q)
      PROVE  /\ origin[q].submission = o.submission => ~Live(SessionOf(q))
             /\ o.preparation # NoPreparation => origin[q].preparation # o.preparation
  BY <1>2, <1>6 DEF ReceiptHeld, Records, KeptWithRow, Spent
<1> QED BY <1>2, <1>5, <1>6 DEF NoReplay, Started, SessionOf, Live

LEMMA ReplayStep ==
  ASSUME Inv, Records, Spent, NoReplay, [Next]_vars
  PROVE  Spent' /\ NoReplay'
<1>1. ASSUME UNCHANGED origin
      PROVE  NoReplay'
  <2>1. ASSUME NEW r \in Requests, Started(r), row'[SessionOf(r)] = "live"
        PROVE  row[SessionOf(r)] = "live"
    <3>1. SessionOf(r) \in Sessions /\ row[SessionOf(r)] # "new"
      BY <2>1, RecordTyped DEF RecordTypes, Records, KeptWithRow
    <3> QED BY <2>1, <3>1, RowsOnlyEnd
  <2> QED BY <1>1, <2>1 DEF NoReplay, Started, SessionOf, Live
<1>2. CASE Drops
  <2>1. Spent'
    BY <1>2 DEF Drops, Spent, Started
  <2> QED BY <1>1, <1>2, <2>1 DEF Drops
<1>3. ASSUME NEW p \in Preparations, NEW s \in Sessions, Prepare(p, s)
      PROVE  Spent' /\ NoReplay'
  <2>1. /\ p \notin minted /\ minted' = minted \cup {p} /\ origin' = origin
    BY <1>3 DEF Prepare
  <2>2. Held' \subseteq Held \cup {p}
    BY <1>3 DEF Prepare, Held, NothingPrepared
  <2>3. Spent'
    BY <2>1, <2>2 DEF Spent, Started
  <2> QED BY <1>1, <2>1, <2>3
<1>4. ASSUME NEW r \in Requests, NEW u \in Submissions, NEW p \in Preparations,
             Start(r, u, p)
      PROVE  Spent' /\ NoReplay'
  <2> DEFINE o == [session |-> prepared[p].session, submission |-> u,
                   preparation |-> p]
  <2>1. o \in Origins
    BY <1>4 DEF Start, Held, Inv, TypeInv, TypeOK, Frozen, Origins
  <2>2. Begins(r, o) /\ p \in Held
    BY <1>4 DEF Start, Begins
  <2> QED BY <2>1, <2>2, BeginsAnew
<1>5. ASSUME NEW r \in Requests, NEW u \in Submissions, NEW s \in Sessions,
             StartAction(r, u, s)
      PROVE  Spent' /\ NoReplay'
  <2> DEFINE o == [session |-> s, submission |-> u, preparation |-> NoPreparation]
  <2>1. o \in Origins
    BY DEF Origins
  <2>2. Begins(r, o)
    BY <1>5 DEF StartAction, Begins
  <2> QED BY <2>1, <2>2, BeginsAnew
<1> QED BY <1>2, <1>3, <1>4, <1>5, PreparationKinds

\* Whatever is repeated, and across crashes: while the first request's
\* conversation exists its submission starts no second one, and a preparation
\* that was confirmed is sent once.
THEOREM ReplayCorrect == Spec => []NoReplay
<1>1. Init => Spent /\ NoReplay
  BY DEF Init, Spent, NoReplay, Held, Started
<1>2. Inv /\ Records /\ Spent /\ NoReplay /\ [Next]_vars => Spent' /\ NoReplay'
  BY ReplayStep
<1> QED BY <1>1, <1>2, RecordsAlways, PTL DEF Spec

-------------------------------------------------------------------------------
(* AiRequests implements AiReply, for every value of the constants: each   *)
(* kind of step is a step of AiReply or leaves what it shows alone.        *)

\* What memory holds beside the stored copies: the active request's reply, or
\* one that is ended and whose stored copy is still open.
MemoryInv ==
  /\ \A r \in Requests : message[r] # "none" => r = active \/ r \in unsaved
  /\ \A q, r \in unsaved : q = r
  /\ \A r \in unsaved : Live(SessionOf(r)) => kept[r] \in Open

LEMMA MemoryInit == Init => MemoryInv
BY DEF Init, MemoryInv

LEMMA SavedMemory ==
  ASSUME Inv, Records, MemoryInv, NEW s \in Sessions, Saved(s)
  PROVE  MemoryInv'
<1>1. /\ UNCHANGED <<row, origin, active>>
      /\ unsaved' = unsaved \ Of({s})
  BY DEF Saved, setup, history
<1>2. ASSUME NEW r \in Requests
      PROVE  /\ message'[r] = IF r \in Of({s}) /\ r \in unsaved /\ r # active
                              THEN "none" ELSE message[r]
             /\ r \notin Of({s}) => kept'[r] = kept[r]
  BY DEF Saved
<1>3. unsaved \subseteq Requests
  BY RecordTyped DEF RecordTypes
<1> QED BY <1>1, <1>2, <1>3 DEF MemoryInv, Live, SessionOf

LEMMA EndsMemory ==
  ASSUME Inv, Records, MemoryInv, NEW r \in {active, NoRequest},
         NEW S \in SUBSET Sessions, Ends(r, S)
  PROVE  MemoryInv'
<1>1. RecordTypes
  BY RecordTyped
<1>2. PICK st \in Ended, ok \in BOOLEAN, unlisted \in SUBSET Requests,
           released \in SUBSET Requests :
           EndsWith(r, S, st, ok, unlisted, released)
  BY DEF Ends
<1> DEFINE refused == Refused(r, ok)
           held    == {q \in {r} : q # NoRequest /\ (ok \/ IsTemp(q))}
<1>3. /\ active' = IF r = NoRequest THEN active ELSE NoRequest
      /\ unsaved' = (unsaved \cup refused) \ released
      /\ \A q \in Requests :
           /\ message'[q] = IF q \in refused \ released THEN st
                            ELSE IF q = r \/ q \in released THEN "none"
                            ELSE message[q]
           /\ kept'[q] = IF q \in Of(S) THEN "none"
                         ELSE IF q \in held THEN st ELSE kept[q]
  BY <1>2 DEF EndsWith, EndReply
<1>4. refused \subseteq {r} \ {NoRequest} /\ held \cap refused = {}
      /\ held \subseteq {r} \ {NoRequest}
  BY DEF Refused
<1>5. r # NoRequest => r \in Requests /\ unsaved = {} /\ kept[r] \in Open
  BY ActiveFacts DEF Inv, ActiveIsCurrent
<1> HIDE DEF refused, held
<1>6. ASSUME NEW q \in Requests, message'[q] # "none"
      PROVE  q = active' \/ q \in unsaved'
  BY <1>3, <1>4, <1>5, <1>6 DEF MemoryInv
<1>7. \A p, q \in unsaved' : p = q
  BY <1>3, <1>4, <1>5 DEF MemoryInv
<1>8. ASSUME NEW q \in unsaved', row'[SessionOf(q)] = "live"
      PROVE  kept'[q] \in Open
  <2>1. q \in Requests /\ Started(q) /\ SessionOf(q) \in Sessions
        /\ row[SessionOf(q)] # "new"
    <3>1. q \in Requests /\ Started(q)
      BY <1>1, <1>3, <1>4, <1>8, ActiveFacts DEF RecordTypes, Records, UnsavedEnded
    <3> QED BY <1>1, <3>1 DEF RecordTypes, Records, KeptWithRow
  <2>2. q \notin Of(S) /\ row'[SessionOf(q)] = row[SessionOf(q)]
    BY <1>2, <1>8, <2>1 DEF EndsWith, Of, Deleted
  <2>3. q \notin held
    BY <1>3, <1>4, <1>5, <1>8
  <2>4. kept[q] \in Open
    BY <1>3, <1>4, <1>5, <1>8, <2>1, <2>2 DEF MemoryInv, Live
  <2> QED BY <1>3, <2>1, <2>2, <2>3, <2>4
<1>9. origin' = origin
  BY <1>2 DEF EndsWith
<1> QED BY <1>6, <1>7, <1>8, <1>9 DEF MemoryInv, Live, SessionOf

LEMMA MemoryStep ==
  ASSUME Inv, Records, MemoryInv, [Next]_vars
  PROVE  MemoryInv'
<1>0. RecordTypes
  BY RecordTyped
<1>1. CASE Aside
  BY <1>1 DEF Aside, MemoryInv, Live, SessionOf
<1>2. ASSUME NEW s \in Sessions, Makes(s)
      PROVE  MemoryInv'
  <2>1. \A r \in unsaved : row'[SessionOf(r)] = row[SessionOf(r)]
    BY <1>0, <1>2 DEF Makes, RecordTypes, Records, UnsavedEnded, KeptWithRow
  <2> QED BY <1>2, <2>1 DEF Makes, MemoryInv, Live, SessionOf
<1>3. ASSUME NEW r \in Requests, NEW o \in Origins, Begins(r, o)
      PROVE  MemoryInv'
  <2>1. /\ unsaved' = {} /\ active' = r /\ unsaved = {} /\ active = NoRequest
        /\ \A q \in Requests \ {r} : message'[q] = message[q]
    BY <1>0, <1>3 DEF Begins, MayBegin, Begin, RecordTypes
  <2> QED BY <2>1, NullAssumption DEF MemoryInv
<1>4. ASSUME NEW r \in Requests, Writes(r)
      PROVE  MemoryInv'
  <2>1. unsaved = {}
    BY <1>4, NullAssumption DEF Writes, Inv, ActiveIsCurrent
  <2> QED BY <1>4, <2>1 DEF Writes, MemoryInv
<1>5. CASE Restart
  BY <1>5 DEF Restart, MemoryInv
<1> QED BY <1>1, <1>2, <1>3, <1>4, <1>5, StepKinds, SavedMemory, EndsMemory
        DEF StepKind

-------------------------------------------------------------------------------
(* The step simulation.                                                    *)

Known == Inv /\ Records /\ MemoryInv

\* What the mapping shows of request r in a reachable state.
Shows(r) ==
  /\ ~Started(r) => ReplyPhase[r] = "new" /\ r \notin ReplySecured
  /\ Started(r) /\ ~Live(SessionOf(r)) =>
       ReplyPhase[r] = "forgotten" /\ r \notin ReplySecured
  /\ Started(r) /\ Live(SessionOf(r)) =>
       /\ r = active => ReplyPhase[r] = "open" /\ r \notin ReplySecured
       /\ r \in unsaved => /\ ReplyPhase[r] = message[r] /\ message[r] \in Ended
                           /\ r \notin ReplySecured
       /\ r # active /\ r \notin unsaved =>
            ReplyPhase[r] = kept[r] /\ kept[r] \in Ended /\ r \in ReplySecured

LEMMA Shown == Known => \A r \in Requests : Shows(r)
<1> SUFFICES ASSUME Known, NEW r \in Requests
             PROVE  Shows(r)
  OBVIOUS
<1>1. RecordTypes /\ (r = active => r \notin unsaved)
  BY RecordTyped, NullAssumption DEF Known, Inv, ActiveIsCurrent
<1>2. ReplyPhase[r] = IF ~Started(r) THEN "new"
                      ELSE IF ~Live(SessionOf(r)) THEN "forgotten"
                      ELSE LET st == IF message[r] # "none" THEN message[r] ELSE kept[r]
                           IN  IF st \in Open THEN "open" ELSE st
  BY DEF ReplyPhase
<1>3. r \in ReplySecured <=> /\ Started(r) /\ Live(SessionOf(r))
                             /\ r # active /\ r \notin unsaved
  BY DEF ReplySecured
<1>4. r = active => message[r] \in Open
  BY NullAssumption DEF Known, Inv, ActiveIsCurrent
<1>5. r \in unsaved => message[r] \in Ended
  BY DEF Known, Records, UnsavedEnded
<1>6. r # active /\ r \notin unsaved => message[r] = "none"
  BY DEF Known, MemoryInv
<1>7. Started(r) /\ Live(SessionOf(r)) /\ r # active /\ r \notin unsaved =>
        kept[r] \in Ended
  BY <1>1 DEF Known, Records, KeptWithRow, NoAbandonedReply, RecordTypes, Status
<1>8. Ended \cap Open = {} /\ "none" \notin Ended \cup Open
  BY DEF Ended, Open
<1> QED BY <1>1, <1>2, <1>3, <1>4, <1>5, <1>6, <1>7, <1>8 DEF Shows

LEMMA ShownPrime == Known' => (\A r \in Requests : Shows(r))'
BY Shown, PTL

LEMMA ShownShape ==
  /\ ReplyPhase = [r \in Requests |-> ReplyPhase[r]] /\ ReplySecured \subseteq Requests
  /\ ReplyPhase' = [r \in Requests |-> ReplyPhase'[r]] /\ ReplySecured' \subseteq Requests
BY DEF ReplyPhase, ReplySecured

LEMMA Stutters ==
  ASSUME \A r \in Requests : /\ ReplyPhase'[r] = ReplyPhase[r]
                             /\ r \in ReplySecured' <=> r \in ReplySecured
  PROVE  UNCHANGED Reply!vars
<1>1. ReplyPhase' = ReplyPhase
  BY ShownShape
<1>2. ReplySecured' = ReplySecured
  BY ShownShape
<1> QED BY <1>1, <1>2 DEF Reply!vars

LEMMA AnswersEnded == Reply!Answers = Ended
BY DEF Reply!Answers, Ended

LEMMA PlainStutters ==
  ASSUME Known, Known', NEW r, Aside \/ (r \in Sessions /\ Makes(r))
                               \/ (r \in Requests /\ Writes(r))
  PROVE  UNCHANGED Reply!vars
<1> USE DEF Shows, Started, SessionOf, Live
<1>1. RecordTypes /\ (\A q \in Requests : Shows(q) /\ Shows(q)')
  BY Shown, ShownPrime, RecordTyped DEF Known
<1>2. UNCHANGED <<origin, active, unsaved>>
  BY DEF Aside, Makes, Writes
<1>3. ASSUME NEW q \in Requests, Started(q)
      PROVE  row'[SessionOf(q)] = row[SessionOf(q)]
  BY <1>1, <1>3 DEF Aside, Makes, Writes, Known, Records, KeptWithRow, RecordTypes
<1>4. ASSUME NEW q \in Requests, q # active
      PROVE  message'[q] = message[q] /\ kept'[q] = kept[q]
  BY <1>4 DEF Aside, Makes, Writes
<1>5. active \notin unsaved
  BY NullAssumption, <1>1 DEF Known, Inv, ActiveIsCurrent, RecordTypes
<1>6. ASSUME NEW q \in Requests
      PROVE  ReplyPhase'[q] = ReplyPhase[q] /\ (q \in ReplySecured' <=> q \in ReplySecured)
  BY <1>1, <1>2, <1>3, <1>4, <1>5
<1> QED BY <1>6, Stutters

\* A save either writes what is shown already, or secures the unsaved reply.
LEMMA SavedSecures ==
  ASSUME Known, Known', NEW s \in Sessions, Saved(s)
  PROVE  (\E r \in Requests : Reply!Secure(r)) \/ UNCHANGED Reply!vars
<1> USE DEF Shows, Started, SessionOf, Live
<1>1. RecordTypes /\ (\A q \in Requests : Shows(q) /\ Shows(q)')
  BY Shown, ShownPrime, RecordTyped DEF Known
<1>2. /\ UNCHANGED <<row, origin, active>> /\ Live(s)
      /\ unsaved' = unsaved \ Of({s})
  BY DEF Saved, MayInsert, setup, history
<1>3. ASSUME NEW q \in Requests
      PROVE  IF q \in Of({s}) /\ (q = active \/ q \in unsaved)
             THEN kept'[q] = message[q]
             ELSE kept'[q] = kept[q] /\ message'[q] = message[q]
  BY DEF Saved
<1>4. \A q \in Requests : q \in Of({s}) <=> Started(q) /\ SessionOf(q) = s
  BY DEF Of
<1>5. ASSUME NEW q \in Requests
      PROVE  /\ ReplyPhase'[q] = ReplyPhase[q]
             /\ q \in ReplySecured' <=>
                  q \in ReplySecured \/ q \in unsaved \cap Of({s})
  <2>1. q = active => q \notin unsaved
    BY NullAssumption DEF Known, Inv, ActiveIsCurrent
  <2>2. Shows(q) /\ Shows(q)' /\ origin'[q] = origin[q]
    BY <1>1, <1>2
  <2>3. CASE ~Started(q) \/ ~Live(SessionOf(q))
    BY <1>2, <1>4, <2>2, <2>3
  <2>4. CASE Started(q) /\ Live(SessionOf(q)) /\ q = active
    BY <1>2, <2>1, <2>2, <2>4
  <2>5. CASE Started(q) /\ Live(SessionOf(q)) /\ q # active /\ q \notin Of({s})
    BY <1>2, <1>3, <2>2, <2>5
  <2>6. CASE Started(q) /\ Live(SessionOf(q)) /\ q # active /\ q \in Of({s})
    BY <1>2, <1>3, <2>2, <2>6
  <2> QED BY <2>3, <2>4, <2>5, <2>6
<1>6. CASE unsaved \cap Of({s}) = {}
  BY <1>5, <1>6, Stutters
<1>7. CASE unsaved \cap Of({s}) # {}
  <2>1. PICK r \in unsaved \cap Of({s}) : TRUE
    BY <1>7
  <2>2. r \in Requests /\ unsaved \cap Of({s}) = {r}
    BY <1>1, <2>1 DEF Known, MemoryInv, RecordTypes
  <2>3. r \in Reply!Unsecured
    <3>1. Started(r) /\ Live(SessionOf(r))
      BY <1>2, <1>4, <2>1, <2>2
    <3>2. r # active
      BY <2>1, <2>2, NullAssumption DEF Known, Inv, ActiveIsCurrent
    <3>3. ReplyPhase[r] \in Ended /\ r \notin ReplySecured
      <4>1. Shows(r) /\ r \in unsaved
        BY <1>1, <2>1, <2>2
      <4>2. ReplyPhase[r] = message[r] /\ message[r] \in Ended /\ r \notin ReplySecured
        BY <3>1, <4>1
      <4> QED BY <4>2
    <3> QED BY <2>2, <3>3, AnswersEnded DEF Reply!Unsecured
  <2>4. ReplySecured' = ReplySecured \cup {r} /\ ReplyPhase' = ReplyPhase
    BY <1>5, <2>2, ShownShape
  <2>5. Reply!Secure(r)
    BY <2>3, <2>4 DEF Reply!Secure
  <2> QED BY <2>2, <2>5
<1> QED BY <1>6, <1>7

\* A request may only begin when every reply that is shown is secured.
LEMMA BeginsAsks ==
  ASSUME Known, Known', NEW r \in Requests, NEW o \in Origins, Begins(r, o)
  PROVE  Reply!Ask(r)
<1> USE DEF Shows, Started, SessionOf, Live
<1>1. RecordTypes /\ (\A q \in Requests : Shows(q) /\ Shows(q)')
  BY Shown, ShownPrime, RecordTyped DEF Known
<1>2. /\ ~Started(r) /\ unsaved = {} /\ Live(o.session) /\ active = NoRequest
      /\ UNCHANGED <<row, unsaved>> /\ active' = r /\ origin'[r] = o
      /\ \A q \in Requests \ {r} :
           /\ origin'[q] = origin[q] /\ message'[q] = message[q]
           /\ kept'[q] = kept[q]
  BY <1>1 DEF Begins, MayBegin, Begin, setup, RecordTypes
<1>3. Started(r)' /\ Live(SessionOf(r))'
  BY <1>2, RecordAssumption
<1>4. ReplyPhase[r] = "new" /\ ReplyPhase'[r] = "open"
      /\ r \notin ReplySecured /\ r \notin ReplySecured'
  BY <1>1, <1>2, <1>3
<1>5. ASSUME NEW q \in Requests
      PROVE  ReplyPhase[q] # "open" /\ q \notin Reply!Unsecured
  BY <1>1, <1>2, NullAssumption, AnswersEnded DEF Reply!Unsecured, Ended
<1>6. ASSUME NEW q \in Requests \ {r}
      PROVE  ReplyPhase'[q] = ReplyPhase[q] /\ (q \in ReplySecured' <=> q \in ReplySecured)
  BY <1>1, <1>2, NullAssumption
<1>7. ReplyPhase' = [ReplyPhase EXCEPT ![r] = "open"]
  BY <1>4, <1>6, ShownShape
<1>8. ReplySecured' = ReplySecured
  BY <1>4, <1>6, ShownShape
<1> QED BY <1>4, <1>5, <1>7, <1>8 DEF Reply!Ask, Reply!Pending, Reply!Unsecured

\* The end of a request answers its question; whether the answer is secured
\* depends on the write.  What is deleted in the same step is forgotten.
LEMMA EndsAnswers ==
  ASSUME Known, Known', NEW r \in {active, NoRequest}, NEW S \in SUBSET Sessions,
         Ends(r, S)
  PROVE  \E F \in SUBSET Reply!Asked :
           \/ Reply!Forget(F)
           \/ \E a \in Requests, st \in Reply!Answers : Reply!Answer(a, st, F)
<1> USE DEF Shows, Started, SessionOf, Live
<1>1. RecordTypes /\ (\A q \in Requests : Shows(q) /\ Shows(q)')
  BY Shown, ShownPrime, RecordTyped DEF Known
<1>2. PICK st \in Ended, ok \in BOOLEAN, unlisted \in SUBSET Requests,
           released \in SUBSET Requests :
           EndsWith(r, S, st, ok, unlisted, released)
  BY DEF Ends
<1> DEFINE refused == Refused(r, ok)
           held    == {q \in {r} : q # NoRequest /\ (ok \/ IsTemp(q))}
<1>3. /\ released \subseteq Of(S) /\ origin' = origin
      /\ active' = IF r = NoRequest THEN active ELSE NoRequest
      /\ unsaved' = (unsaved \cup refused) \ released
      /\ \A q \in Requests :
           /\ message'[q] = IF q \in refused \ released THEN st
                            ELSE IF q = r \/ q \in released THEN "none"
                            ELSE message[q]
           /\ kept'[q] = IF q \in Of(S) THEN "none"
                         ELSE IF q \in held THEN st ELSE kept[q]
  BY <1>2 DEF EndsWith, EndReply
<1>4. /\ refused \subseteq {r} \ {NoRequest} /\ held \subseteq {r} \ {NoRequest}
      /\ r # NoRequest => (r \in held <=> r \notin refused)
  BY DEF Refused
<1>5. r # NoRequest => /\ r \in Requests /\ Started(r) /\ Live(SessionOf(r))
                       /\ unsaved = {} /\ r = active
  BY ActiveFacts DEF Known, Inv, ActiveIsCurrent
<1> HIDE DEF refused, held
<1>6. ASSUME NEW q \in Requests, Started(q)
      PROVE  IF q \in Of(S) THEN row'[SessionOf(q)] # "live"
             ELSE row'[SessionOf(q)] = row[SessionOf(q)]
  <2>1. SessionOf(q) \in Sessions /\ row[SessionOf(q)] # "new"
    BY <1>1, <1>6 DEF RecordTypes, Known, Records, KeptWithRow
  <2> QED BY <1>2, <1>6, <2>1 DEF EndsWith, Of, Deleted
<1>7. ASSUME NEW q \in Of(S)
      PROVE  /\ q \in Reply!Asked /\ ReplyPhase'[q] = "forgotten"
             /\ q \notin ReplySecured'
  <2>1. q \in Requests /\ Started(q) /\ ~Live(SessionOf(q))' /\ Started(q)'
    BY <1>3, <1>6, <1>7 DEF Of
  <2>2. ReplyPhase[q] # "new"
    BY <1>1, <2>1 DEF Ended
  <2> QED BY <1>1, <2>1, <2>2 DEF Reply!Asked
<1>8. ASSUME NEW q \in Requests \ Of(S), q # r
      PROVE  ReplyPhase'[q] = ReplyPhase[q] /\ (q \in ReplySecured' <=> q \in ReplySecured)
  <2>1. q \notin refused /\ q \notin held /\ q \notin released
    BY <1>3, <1>4, <1>8
  <2>2. /\ message'[q] = message[q] /\ kept'[q] = kept[q]
        /\ q \in unsaved' <=> q \in unsaved
    BY <1>3, <1>8, <2>1
  <2>3. q = active' <=> q = active
    BY <1>3, <1>5, <1>8, NullAssumption
  <2>4. Started(q) => row'[SessionOf(q)] = row[SessionOf(q)]
    BY <1>6, <1>8
  <2>5. q = active => q \notin unsaved
    BY NullAssumption DEF Known, Inv, ActiveIsCurrent
  <2>6. Shows(q) /\ Shows(q)'
    BY <1>1, <1>8
  <2> QED BY <1>3, <2>2, <2>3, <2>4, <2>5, <2>6
<1>9. ASSUME r # NoRequest, r \notin Of(S)
      PROVE  ReplyPhase[r] = "open" /\ ReplyPhase'[r] = st
  <2>1. /\ Started(r)' /\ Live(SessionOf(r))' /\ r # active' /\ r \in Requests
        /\ r \in unsaved' <=> r \in refused
    BY <1>3, <1>5, <1>6, <1>9
  <2>2. message'[r] = IF r \in refused THEN st ELSE "none"
    BY <1>3, <1>9, <2>1
  <2>3. r \in held => kept'[r] = st
    BY <1>3, <1>9, <2>1
  <2>4. Shows(r) /\ Shows(r)'
    BY <1>1, <2>1
  <2> QED BY <1>4, <1>5, <1>9, <2>1, <2>2, <2>3, <2>4
<1>10. Of(S) \in SUBSET Reply!Asked
  BY <1>7
<1>11. CASE r = NoRequest \/ r \in Of(S)
  <2>1. ReplyPhase' = [q \in Requests |-> IF q \in Of(S) THEN "forgotten"
                                          ELSE ReplyPhase[q]]
    BY <1>7, <1>8, <1>11, NullAssumption, ShownShape
  <2>2. ReplySecured' = ReplySecured \ Of(S)
    BY <1>7, <1>8, <1>11, NullAssumption, ShownShape
  <2>3. Reply!Forget(Of(S))
    BY <2>1, <2>2 DEF Reply!Forget
  <2> QED BY <1>10, <2>3
<1>12. CASE r # NoRequest /\ r \notin Of(S)
  <2>1. ReplyPhase[r] = "open" /\ ReplyPhase'[r] = st /\ r \in Requests
    BY <1>5, <1>9, <1>12
  <2>2. ReplyPhase' = [q \in Requests |-> IF q \in Of(S) THEN "forgotten"
                                          ELSE IF q = r THEN st ELSE ReplyPhase[q]]
    BY <1>7, <1>8, <1>12, <2>1, ShownShape
  <2>3. r \notin ReplySecured
    BY <1>1, <1>5, <1>12
  <2>4. ReplySecured' \in {ReplySecured \ Of(S), (ReplySecured \cup {r}) \ Of(S)}
    BY <1>7, <1>8, <1>12, <2>1, <2>3, ShownShape
  <2>5. Reply!Answer(r, st, Of(S))
    BY <2>1, <2>2, <2>4 DEF Reply!Answer
  <2>6. st \in Reply!Answers
    BY AnswersEnded
  <2> QED BY <1>10, <2>1, <2>5, <2>6
<1> QED BY <1>11, <1>12

\* A crash interrupts what was open or held in memory only.
LEMMA RestartRestarts ==
  ASSUME Known, Known', Restart
  PROVE  \E F \in SUBSET Reply!Asked : Reply!Restart(F)
<1> USE DEF Shows, Started, SessionOf, Live
<1>1. RecordTypes /\ (\A q \in Requests : Shows(q) /\ Shows(q)')
  BY Shown, ShownPrime, RecordTyped DEF Known
<1> DEFINE gone == {s \in Sessions : row[s] = "tombstone"
                                     \/ (s \in TempSessions /\ row[s] = "live")}
           F == Of(gone)
<1>2. /\ origin' = origin /\ unsaved' = {} /\ active' = NoRequest
      /\ \A s \in Sessions : row'[s] = IF s \in gone THEN "gone" ELSE row[s]
      /\ \A q \in Requests : kept'[q] = IF q \in F THEN "none" ELSE Recovered(kept[q])
  BY DEF Restart
<1>3. ASSUME NEW q \in Requests, Started(q)
      PROVE  /\ q \in F <=> SessionOf(q) \in gone
             /\ SessionOf(q) \in Sessions
  BY <1>1, <1>3 DEF Of, RecordTypes
<1> HIDE DEF gone
<1>4. ASSUME NEW q \in F
      PROVE  /\ q \in Reply!Asked /\ ReplyPhase'[q] = "forgotten"
             /\ q \notin ReplySecured'
  <2>1. q \in Requests /\ Started(q) /\ ~Live(SessionOf(q))' /\ Started(q)'
    BY <1>2, <1>3, <1>4 DEF Of
  <2>2. ReplyPhase[q] # "new"
    BY <1>1, <2>1 DEF Ended
  <2> QED BY <1>1, <2>1, <2>2 DEF Reply!Asked
<1>5. ASSUME NEW q \in Requests \ F
      PROVE  LET left == q \in Reply!Pending \cup Reply!Unsecured
             IN  /\ ReplyPhase'[q] = IF left THEN "interrupted" ELSE ReplyPhase[q]
                 /\ q \in ReplySecured' <=> q \in ReplySecured \/ left
  <2>1. /\ q # active' /\ q \notin unsaved' /\ kept'[q] = Recovered(kept[q])
        /\ Started(q) => row'[SessionOf(q)] = row[SessionOf(q)]
    BY <1>2, <1>3, <1>5, NullAssumption
  <2>3. "open" \notin Ended /\ "new" \notin Ended /\ "forgotten" \notin Ended
    BY DEF Ended
  <2>4. CASE ~Started(q) \/ ~Live(SessionOf(q))
    BY <1>1, <1>2, <2>1, <2>3, <2>4, AnswersEnded
       DEF Reply!Pending, Reply!Unsecured
  <2>5. CASE Started(q) /\ Live(SessionOf(q)) /\ (q = active \/ q \in unsaved)
    <3>1. kept[q] \in Open
      BY <2>5, NullAssumption DEF Known, Inv, ActiveIsCurrent, MemoryInv
    <3>2. kept'[q] = "interrupted"
      BY <2>1, <3>1 DEF Recovered
    <3>3. q \in Reply!Pending \cup Reply!Unsecured
      BY <1>1, <2>5, AnswersEnded DEF Reply!Pending, Reply!Unsecured
    <3>4. Started(q)' /\ Live(SessionOf(q))'
      BY <1>2, <2>1, <2>5
    <3> QED BY <1>1, <2>1, <3>2, <3>3, <3>4
  <2>6. CASE Started(q) /\ Live(SessionOf(q)) /\ q # active /\ q \notin unsaved
    <3>1. ReplyPhase[q] = kept[q] /\ kept[q] \in Ended /\ q \in ReplySecured
      BY <1>1, <2>6
    <3>2. kept'[q] = kept[q]
      BY <2>1, <3>1 DEF Recovered, Open, Ended
    <3>3. q \notin Reply!Pending \cup Reply!Unsecured
      BY <2>3, <3>1 DEF Reply!Pending, Reply!Unsecured
    <3>4. Started(q)' /\ Live(SessionOf(q))'
      BY <1>2, <2>1, <2>6
    <3> QED BY <1>1, <2>1, <3>1, <3>2, <3>3, <3>4
  <2> QED BY <2>4, <2>5, <2>6
<1>6. F \in SUBSET Reply!Asked
  BY <1>4
<1>7. ReplyPhase' = [q \in Requests |->
                       IF q \in F THEN "forgotten"
                       ELSE IF q \in Reply!Pending \cup Reply!Unsecured
                       THEN "interrupted" ELSE ReplyPhase[q]]
  BY <1>4, <1>5, ShownShape
<1>8. ReplySecured' = (ReplySecured \cup Reply!Pending \cup Reply!Unsecured) \ F
  <2>1. Reply!Pending \subseteq Requests /\ Reply!Unsecured \subseteq Requests
    BY DEF Reply!Pending, Reply!Unsecured
  <2> QED BY <1>4, <1>5, <2>1, ShownShape
<1>9. Reply!Restart(F)
  BY <1>7, <1>8 DEF Reply!Restart
<1> QED BY <1>6, <1>9

LEMMA ReplyStep ==
  ASSUME Known, Known', [Next]_vars
  PROVE  [Reply!Next]_(Reply!vars)
<1>1. StepKind
  BY StepKinds DEF Known
<1>2. CASE Aside
  BY <1>2, PlainStutters
<1>3. ASSUME NEW s \in Sessions, Makes(s) \/ Saved(s)
      PROVE  [Reply!Next]_(Reply!vars)
  BY <1>3, PlainStutters, SavedSecures DEF Reply!Next
<1>4. ASSUME NEW r \in Requests, NEW o \in Origins, Begins(r, o)
      PROVE  [Reply!Next]_(Reply!vars)
  BY <1>4, BeginsAsks DEF Reply!Next
<1>5. ASSUME NEW r \in Requests, Writes(r)
      PROVE  [Reply!Next]_(Reply!vars)
  BY <1>5, PlainStutters
<1>6. ASSUME NEW r \in {active, NoRequest}, NEW S \in SUBSET Sessions, Ends(r, S)
      PROVE  [Reply!Next]_(Reply!vars)
  BY <1>6, EndsAnswers DEF Reply!Next
<1>7. CASE Restart
  BY <1>7, RestartRestarts DEF Reply!Next
<1> QED BY <1>1, <1>2, <1>3, <1>4, <1>5, <1>6, <1>7 DEF StepKind

\* Seen from a window, the service keeps the promise of AiReply: one question at
\* a time, each answered once, no answer lost while the process lives.
THEOREM ReplyImplemented == Spec => ImplementsReply
<1>1. Init => Reply!Init
  BY DEF Init, Reply!Init, ReplyPhase, ReplySecured, Started
<1>2. Spec => []Known
  <2>1. Inv /\ Records /\ MemoryInv /\ [Next]_vars => MemoryInv'
    BY MemoryStep
  <2> QED BY <2>1, MemoryInit, RecordsAlways, PTL DEF Spec, Known
<1>3. Known /\ Known' /\ [Next]_vars => [Reply!Next]_(Reply!vars)
  BY ReplyStep
<1> QED BY <1>1, <1>2, <1>3, PTL DEF Spec, ImplementsReply, Reply!Spec
===============================================================================
