------------------------------ MODULE AiRequests ------------------------------
(***************************************************************************)
(* The life of an assistant request in AiService (src-tauri/src/ai/        *)
(* service.rs) and its copies in ConversationStore (ai/conversations.rs):  *)
(* prepare, start, the spawned task that asks the model, the streamed      *)
(* writes, finish, and everything that can stop it from another thread     *)
(* (cancel, settings, source clearing, deletion, shutdown, a crash).       *)
(*                                                                         *)
(* Every handler that runs under the service's one mutex is one action.    *)
(* The task gives the mutex up between its steps, so each of its steps is  *)
(* an action too.  A write to the store may fail at every place where the  *)
(* code handles the failure: the parameter ok of an action says which.     *)
(*                                                                         *)
(* A conversation is kept in one of two places, told apart by              *)
(* TempSessions: the row of ai_sessions, or the `temporary` map.  kept[r]  *)
(* is the status that copy gives the assistant message of request r, and   *)
(* receipt[r] the state of r's run in ai_runs or `volatile_submissions`.   *)
(* message[r] is the status in memory, in Active.session or in `unsaved`.  *)
(* The other text of a message never decides anything here.                *)
(***************************************************************************)
EXTENDS Integers, FiniteSets, TLC

CONSTANTS
  Sessions,       \* conversation ids
  TempSessions,   \* those created with temporary = true
  Requests,       \* request ids; each is given out once by new_id
  Submissions,    \* submission ids, chosen by the windows
  Preparations,   \* preparation ids; each is given out once by new_id
  NoRequest,      \* active = None
  NoOrigin,       \* a request id not given out yet
  NoPreparation,  \* no frozen preparation / a request that needed none
  MaxEpoch,       \* bound of the model: request_epoch stays at or below it
  MaxPrepared     \* the limit of the prepared map (32 in the code)

ASSUME TempAssumption == TempSessions \subseteq Sessions
ASSUME NullAssumption == /\ NoRequest \notin Requests
                         /\ NoPreparation \notin Preparations
ASSUME BoundAssumption == MaxEpoch \in Nat \ {0} /\ MaxPrepared \in Nat

Open   == {"pending", "streaming"}
Ended  == {"complete", "failed", "cancelled", "interrupted"}
Status == {"none"} \cup Open \cup Ended

\* Where the spawned task of a request is.  The last three hold its outcome
\* until finish records it.
Running == {"credentials", "opening", "connecting", "working", "ok", "failed",
            "cancelled"}
Outcome == {"ok", "failed", "cancelled"}

Origins == [session : Sessions, submission : Submissions,
            preparation : Preparations \cup {NoPreparation}]
Frozen  == [session : Sessions, epoch : Nat, fresh : BOOLEAN]
ASSUME RecordAssumption == NoOrigin \notin Origins /\ NoPreparation \notin Frozen

VARIABLES
  enabled,      \* config.settings.enabled
  epoch,        \* request_epoch
  row,          \* where a conversation stands: new, live, tombstone or gone
  flagged,      \* conversations whose storage_status reads "error"
  minted,       \* preparation ids given out
  prepared,     \* the prepared map; fresh: the session revision still matches
  origin,       \* what a request was started from
  active,       \* the id in Inner.active
  activeEpoch,  \* Active.request_epoch
  fault,        \* Active.run.error is set
  cancelled,    \* the cancel flag of each request; it is dropped with the task
  message, kept, receipt,
  unsaved,      \* requests whose ended reply is in the unsaved map
  task,         \* the spawned task of each request
  sent,         \* history: the model service was contacted for the request
  stopped,      \* history: stop_active ended the request
  lost          \* history: the final write of the request failed

vars == <<enabled, epoch, row, flagged, minted, prepared, origin, active,
          activeEpoch, fault, cancelled, message, kept, receipt, unsaved,
          task, sent, stopped, lost>>
\* What only the bookkeeping of conversations and preparations changes.
setup   == <<enabled, epoch, row, minted>>
history == <<sent, stopped, lost>>

Started(r)    == origin[r] # NoOrigin
SessionOf(r)  == origin[r].session
IsTemp(r)     == SessionOf(r) \in TempSessions
Of(S)         == {r \in Requests : Started(r) /\ SessionOf(r) \in S}
Live(s)       == row[s] = "live"

TypeOK ==
  /\ enabled \in BOOLEAN
  /\ epoch \in 1 .. MaxEpoch
  /\ row \in [Sessions -> {"new", "live", "tombstone", "gone"}]
  /\ flagged \subseteq Sessions
  /\ minted \subseteq Preparations
  /\ prepared \in [Preparations -> Frozen \cup {NoPreparation}]
  /\ origin \in [Requests -> Origins \cup {NoOrigin}]
  /\ active \in Requests \cup {NoRequest}
  /\ activeEpoch \in Nat
  /\ fault \in BOOLEAN
  /\ cancelled \in [Requests -> BOOLEAN]
  /\ message \in [Requests -> Status]
  /\ kept \in [Requests -> Status]
  /\ receipt \in [Requests -> Status]
  /\ unsaved \subseteq Requests
  /\ task \in [Requests -> Running \cup {"none", "over"}]
  /\ sent \in [Requests -> BOOLEAN]
  /\ stopped \in [Requests -> BOOLEAN]
  /\ lost \in [Requests -> BOOLEAN]

Init ==
  /\ enabled = TRUE
  /\ epoch = 1
  /\ row = [s \in Sessions |-> "new"]
  /\ flagged = {}
  /\ minted = {}
  /\ prepared = [p \in Preparations |-> NoPreparation]
  /\ origin = [r \in Requests |-> NoOrigin]
  /\ active = NoRequest
  /\ activeEpoch = 0
  /\ fault = FALSE
  /\ cancelled = [r \in Requests |-> FALSE]
  /\ message = [r \in Requests |-> "none"]
  /\ kept = [r \in Requests |-> "none"]
  /\ receipt = [r \in Requests |-> "none"]
  /\ unsaved = {}
  /\ task = [r \in Requests |-> "none"]
  /\ sent = [r \in Requests |-> FALSE]
  /\ stopped = [r \in Requests |-> FALSE]
  /\ lost = [r \in Requests |-> FALSE]

-------------------------------------------------------------------------------
(* Conversations and preparations.                                         *)

Held == {p \in Preparations : prepared[p] # NoPreparation}

\* A new revision of conversation s makes what was prepared from it stale.
Restamped(s) ==
  [p \in Preparations |->
     IF p \in Held /\ prepared[p].session = s
     THEN [prepared[p] EXCEPT !.fresh = FALSE] ELSE prepared[p]]

\* prepared.retain(|_, value| value.public.session_id != s)
WithoutSession(s) ==
  [p \in Preparations |->
     IF p \in Held /\ prepared[p].session = s THEN NoPreparation ELSE prepared[p]]

NothingPrepared == [p \in Preparations |-> NoPreparation]

\* create_session, and the fresh conversation select_session_model makes instead
\* of showing another model the messages of conversation old, whose preparations
\* it drops (old is s itself when nothing is replaced).
CreateSession(s, old) ==
  /\ row[s] = "new"
  /\ old # s => /\ Live(old) /\ active \notin Of({old}) /\ Of({old}) # {}
                /\ old \in TempSessions <=> s \in TempSessions
  /\ row' = [row EXCEPT ![s] = "live"]
  /\ prepared' = WithoutSession(old)
  /\ UNCHANGED <<enabled, epoch, flagged, minted, origin, active, activeEpoch,
                 fault, cancelled, message, kept, receipt, unsaved, task,
                 history>>

Prepare(p, s) ==
  /\ enabled /\ Live(s) /\ p \notin minted
  /\ minted' = minted \cup {p}
  /\ LET room == IF Cardinality(Held) >= MaxPrepared
                 THEN NothingPrepared ELSE prepared
     IN  prepared' = [room EXCEPT ![p] =
                        [session |-> s, epoch |-> epoch, fresh |-> TRUE]]
  /\ UNCHANGED <<enabled, epoch, row, flagged, origin, active, activeEpoch,
                 fault, cancelled, message, kept, receipt, unsaved, task,
                 history>>

\* Five minutes pass: start refuses the entry and prepare drops it.
Expire(p) ==
  /\ p \in Held
  /\ prepared' = [prepared EXCEPT ![p] = NoPreparation]
  /\ UNCHANGED <<setup, flagged, origin, active, activeEpoch, fault, cancelled,
                 message, kept, receipt, unsaved, task, history>>

\* Fault: the insert does not ask whether the conversation was deleted.
MayInsertAny(s) == row[s] # "new"

\* ConversationStore::insert refuses a conversation that has a tombstone.
MayInsert(s) == Live(s)

\* save_session: the copy that session() returns is written, and an unsaved
\* reply is written with it.
Saved(s) ==
  LET here == {r \in Of({s}) : r = active \/ r \in unsaved}
  IN /\ MayInsert(s)
     /\ kept' = [r \in Requests |-> IF r \in here THEN message[r] ELSE kept[r]]
     /\ unsaved' = unsaved \ Of({s})
     /\ message' = [r \in Requests |->
                      IF r \in here /\ r # active THEN "none" ELSE message[r]]
     /\ flagged' = flagged \ {s}
     /\ UNCHANGED <<setup, origin, active, activeEpoch, fault, cancelled, receipt,
                    task, history>>

\* save_draft and rename_session.
SaveSession(s) == Saved(s) /\ UNCHANGED prepared

\* set_session_context, and select_session_model while there are no messages:
\* another revision, so what was prepared is dropped.
ConfigureSession(s) ==
  /\ active \notin Of({s})
  /\ Saved(s)
  /\ prepared' = WithoutSession(s)

-------------------------------------------------------------------------------
(* Starting a request.                                                     *)

\* Fault: only a request that is still open blocks its submission.
ReceiptOpen(u) ==
  \E r \in Requests : /\ Started(r) /\ origin[r].submission = u
                      /\ receipt[r] \in Open

ReceiptHeld(u) ==
  \E r \in Requests : /\ Started(r) /\ origin[r].submission = u
                      /\ receipt[r] # "none"

\* Fault: an unsaved reply of another conversation does not hold a start back.
MayBeginOverUnsaved(u, s) ==
  /\ ~ReceiptHeld(u)
  /\ active = NoRequest
  /\ enabled
  /\ Live(s) /\ s \notin flagged

\* The gates start and start_capability_action share.  A submission whose
\* receipt is held is answered with that receipt and changes nothing.
MayBegin(u, s) ==
  /\ ~ReceiptHeld(u)
  /\ active = NoRequest
  /\ unsaved = {}
  /\ enabled
  /\ Live(s) /\ s \notin flagged

\* begin_run, the new Active and the cleared preparations.  The user message,
\* the empty reply and the receipt are one transaction; when it fails the
\* handler returns and nothing has changed.
Begin(r, o) ==
  /\ ~Started(r)
  /\ origin' = [origin EXCEPT ![r] = o]
  /\ active' = r
  /\ activeEpoch' = epoch
  /\ fault' = FALSE
  /\ message' = [message EXCEPT ![r] = "pending"]
  /\ kept' = [kept EXCEPT ![r] = "pending"]
  /\ receipt' = [receipt EXCEPT ![r] = "pending"]
  /\ prepared' = WithoutSession(o.session)
  /\ UNCHANGED <<setup, flagged, cancelled, unsaved, history>>

\* start: a message to the model, from a preparation that is still current.
Start(r, u, p) ==
  /\ p \in Held
  /\ prepared[p].fresh /\ prepared[p].epoch = epoch
  /\ MayBegin(u, prepared[p].session)
  /\ Begin(r, [session |-> prepared[p].session, submission |-> u,
               preparation |-> p])
  /\ task' = [task EXCEPT ![r] = "credentials"]

\* start_capability_action: a button of a result card runs one tool, and no
\* model is asked.
StartAction(r, u, s) ==
  /\ MayBegin(u, s)
  /\ Begin(r, [session |-> s, submission |-> u, preparation |-> NoPreparation])
  /\ task' = [task EXCEPT ![r] = "working"]

-------------------------------------------------------------------------------
(* The spawned task.                                                       *)

\* check_tool_active, and the part of ready_for_send that is not about the
\* connection (AiConnections models that part).
StillActive(r) ==
  /\ active = r /\ activeEpoch = epoch /\ ~cancelled[r] /\ enabled

Becomes(r, pc) ==
  /\ task' = [task EXCEPT ![r] = pc]
  /\ UNCHANGED <<setup, flagged, prepared, origin, active, activeEpoch, fault,
                 cancelled, message, kept, receipt, unsaved, stopped, lost>>

\* resolve_credentials, then ready_for_send.  The lookup can fail, and the
\* connection can have changed.
ResolveCredentials(r) ==
  /\ task[r] = "credentials"
  /\ \/ Becomes(r, IF StillActive(r) THEN "opening" ELSE "cancelled")
     \/ Becomes(r, "failed")
  /\ UNCHANGED sent

\* Fault: the call is opened without a look at the flag.
OpenUnchecked(r) ==
  /\ task[r] = "opening"
  /\ Becomes(r, "connecting")
  /\ UNCHANGED sent

\* transport::cancellable reads the flag once more, outside the mutex, before it
\* polls the request for the first time.
OpenRequest(r) ==
  /\ task[r] = "opening"
  /\ Becomes(r, IF cancelled[r] THEN "cancelled" ELSE "connecting")
  /\ UNCHANGED sent

\* Transport::new awaits the addresses, and only then does the request go out.
\* Meanwhile the flag is polled every 25 ms: a stop may be seen in time or not.
Connect(r) ==
  /\ task[r] = "connecting"
  /\ \/ Becomes(r, "working") /\ sent' = [sent EXCEPT ![r] = TRUE]
     \/ Becomes(r, "failed") /\ UNCHANGED sent
     \/ cancelled[r] /\ Becomes(r, "cancelled") /\ UNCHANGED sent

\* A delta, or the update_task of a tool step, on the request that is active.
\* The reply of a temporary conversation is not copied until it ends.
Streaming(r) == task[r] = "working" /\ active = r /\ ~cancelled[r]

Stream(r, saved) ==
  /\ Streaming(r)
  /\ saved => ~IsTemp(r)
  /\ message' = [message EXCEPT ![r] = "streaming"]
  /\ kept' = IF saved THEN [kept EXCEPT ![r] = "streaming"] ELSE kept
  /\ prepared' = Restamped(SessionOf(r))
  /\ UNCHANGED <<setup, flagged, origin, active, activeEpoch, fault, cancelled,
                 receipt, unsaved, task, history>>

\* The write of a delta or of a step failed: the request cancels itself and
\* remembers why.
StreamUnsaved(r) ==
  /\ Streaming(r) /\ ~IsTemp(r)
  /\ message' = [message EXCEPT ![r] = "streaming"]
  /\ cancelled' = [cancelled EXCEPT ![r] = TRUE]
  /\ fault' = TRUE
  /\ flagged' = flagged \cup {SessionOf(r)}
  /\ prepared' = Restamped(SessionOf(r))
  /\ UNCHANGED <<setup, origin, active, activeEpoch, kept, receipt, unsaved,
                 task, history>>

\* The reply outgrew MAX_OUTPUT_BYTES: the text is refused, the request cancels
\* itself, and what there is may be written, if the store takes it.
StreamTooLarge(r, write) ==
  /\ Streaming(r)
  /\ write # "none" => ~IsTemp(r)
  /\ kept' = IF write = "saved" THEN [kept EXCEPT ![r] = message[r]] ELSE kept
  /\ flagged' = IF write = "refused" THEN flagged \cup {SessionOf(r)} ELSE flagged
  /\ cancelled' = [cancelled EXCEPT ![r] = TRUE]
  /\ fault' = TRUE
  /\ UNCHANGED <<setup, prepared, origin, active, activeEpoch, message, receipt,
                 unsaved, task, history>>

\* run_task or execute_single_tool returns.  A reply is only a success after
\* check_tool_active; `cancelled` is reported once the flag is seen; any other
\* failure, an empty or a too large reply among them, is `failed`.  A success
\* may win against a cancel that cancellable has not polled yet.
WorkEnds(r) ==
  /\ task[r] = "working"
  /\ \/ Becomes(r, IF StillActive(r) THEN "ok" ELSE "cancelled")
     \/ cancelled[r] /\ Becomes(r, "cancelled")
     \/ Becomes(r, "failed")
  /\ UNCHANGED sent

\* Fault: a reply the store refuses is not kept for the user to save.
RefusedForgotten(r, ok) == {}

\* Temporary replies go to memory, which refuses nothing.
Refused(r, ok) == {q \in {r} : q # NoRequest /\ ~ok /\ ~IsTemp(q)}

\* persist_completed for request r (NoRequest when none ends): its reply, with
\* status st, goes to the kept copy and the receipt, or to `unsaved` when the
\* store refuses it.  wiped and unlisted are the requests whose copies and
\* receipts the same handler deletes afterwards, released those whose unsaved
\* reply it lets go.
EndReply(r, st, ok, wiped, unlisted, released) ==
  LET refused == Refused(r, ok)
      held    == {q \in {r} : q # NoRequest /\ (ok \/ IsTemp(q))}
  IN /\ active' = IF r = NoRequest THEN active ELSE NoRequest
     /\ activeEpoch' = IF r = NoRequest THEN activeEpoch ELSE 0
     /\ fault' = (r = NoRequest /\ fault)
     /\ message' = [q \in Requests |->
                      IF q \in refused \ released THEN st
                      ELSE IF q = r \/ q \in released THEN "none"
                      ELSE message[q]]
     /\ kept' = [q \in Requests |-> IF q \in wiped THEN "none"
                                    ELSE IF q \in held THEN st ELSE kept[q]]
     /\ receipt' = [q \in Requests |-> IF q \in unlisted THEN "none"
                                       ELSE IF q \in held THEN st ELSE receipt[q]]
     /\ unsaved' = (unsaved \cup refused) \ released
     /\ lost' = [q \in Requests |-> lost[q] \/ q \in refused]
     /\ flagged' = flagged \cup {SessionOf(q) : q \in refused}

\* Fault: the outcome of the task is stored as the status of the reply.
FinalStatusRaw(r) == IF fault THEN "failed" ELSE task[r]

\* The status finish gives the reply.
FinalStatus(r) ==
  IF fault THEN "failed"
  ELSE IF task[r] = "ok" THEN (IF cancelled[r] THEN "failed" ELSE "complete")
  ELSE task[r]

\* Fault: the handler returns early when a write had failed before.
OwnsUnlessFault(r) == active = r /\ ~fault

\* finish does nothing for a request that lost its slot.
Owns(r) == active = r

\* Fault: a late end is recorded although the request was stopped.
FinishLate(r, ok) ==
  /\ task[r] \in Outcome
  /\ task' = [task EXCEPT ![r] = "over"]
  /\ EndReply(r, IF task[r] = "ok" THEN "complete" ELSE task[r], ok, {}, {}, {})
  /\ prepared' = Restamped(SessionOf(r))
  /\ cancelled' = [cancelled EXCEPT ![r] = FALSE]
  /\ UNCHANGED <<setup, origin, sent, stopped>>

Finish(r, ok) ==
  /\ task[r] \in Outcome
  /\ task' = [task EXCEPT ![r] = "over"]
  /\ IF Owns(r)
     THEN /\ EndReply(r, FinalStatus(r), ok, {}, {}, {})
          /\ prepared' = Restamped(SessionOf(r))
     ELSE UNCHANGED <<active, activeEpoch, fault, message, kept, receipt,
                      unsaved, lost, flagged, prepared>>
  /\ cancelled' = [cancelled EXCEPT ![r] = FALSE]
  /\ UNCHANGED <<setup, origin, sent, stopped>>

-------------------------------------------------------------------------------
(* What stops a request from outside.                                      *)

\* Fault: the request loses its slot, but its task is not told.
RaisedNothing(r) == cancelled

Raised(r) == [q \in Requests |-> cancelled[q] \/ q = r]

\* stop_active on request r: the flag, then persist_completed.
StopActive(r, st, ok, wiped, unlisted, released) ==
  /\ EndReply(r, st, ok, wiped, unlisted, released)
  /\ cancelled' = Raised(r)
  /\ stopped' = [q \in Requests |-> stopped[q] \/ q = r]
  /\ UNCHANGED <<minted, origin, task, sent>>

Cancel(r, ok) ==
  /\ active = r
  /\ StopActive(r, "cancelled", ok, {}, {}, {})
  /\ prepared' = Restamped(SessionOf(r))
  /\ UNCHANGED <<enabled, epoch, row>>

\* invalidate: a new epoch, no preparations, no active request.  Reached from
\* update_settings (the assistant is disabled or the network policy changes),
\* save_connection, the credential handlers, list_models and a source clear
\* that keeps conversations; shutdown does the same with "interrupted".
Invalidate(on, st, ok) ==
  /\ epoch < MaxEpoch
  /\ st = "interrupted" => on = enabled
  /\ epoch' = epoch + 1
  /\ enabled' = on
  /\ prepared' = NothingPrepared
  /\ StopActive(active, st, ok, {}, {}, {})
  /\ UNCHANGED row

Enable ==
  /\ ~enabled
  /\ enabled' = TRUE
  /\ UNCHANGED <<epoch, row, flagged, minted, prepared, origin, active,
                 activeEpoch, fault, cancelled, message, kept, receipt,
                 unsaved, task, history>>

\* How far the deletion of conversations got before an error ended it: not at
\* all, up to the committed tombstones, up to the deleted receipts, up to the
\* purged rows (compacting failed), or to its end.
Extent == {"refused", "tombstoned", "unlisted", "purged", "done"}

\* The store deletes conversations S and the handler then forgets what it holds
\* of them in memory, where temporary conversations live; r is the request it
\* stops first.  The receipts of conversations in listed stay.
Forget(r, S, listed, extent, ok) ==
  LET gone == IF extent = "done" THEN S
              ELSE IF extent = "refused" THEN {} ELSE S \ TempSessions
  IN /\ StopActive(r, "cancelled", ok, Of(gone),
                   IF extent = "tombstoned" THEN {} ELSE Of(gone \ listed),
                   IF extent = "done" THEN Of(S) ELSE {})
     /\ row' = [s \in Sessions |->
                  IF s \notin gone \/ row[s] \in {"new", "gone"} THEN row[s]
                  ELSE IF extent \in {"tombstoned", "unlisted"}
                  THEN "tombstone" ELSE "gone"]

\* delete_session stops the active request only if it is of that conversation.
\* It can be asked again after an error; delete_many deletes the receipts and
\* the rows in one transaction.
DeleteSession(s, extent, ok) ==
  /\ Live(s) \/ row[s] = "tombstone" \/ Of({s}) \cap unsaved # {}
  /\ extent # "unlisted"
  /\ Forget(IF active \in Of({s}) THEN active ELSE NoRequest, {s}, {}, extent, ok)
  /\ prepared' = WithoutSession(s)
  /\ UNCHANGED <<enabled, epoch>>

ClearSessions(S, listed, extent, ok) ==
  /\ epoch < MaxEpoch
  /\ epoch' = epoch + 1
  /\ prepared' = NothingPrepared
  /\ Forget(active, S, listed, extent, ok)
  /\ UNCHANGED enabled

\* clear_conversations; clear_all does the same when it has deleted the keys.
ClearConversations(extent, ok) == ClearSessions(Sessions, {}, extent, ok)

\* invalidate_source with delete_related: S are the conversations that used the
\* source.  It leaves `volatile_submissions` alone.
InvalidateSource(S, extent, ok) ==
  /\ \A s \in S : Live(s)
  /\ extent # "unlisted"
  /\ ClearSessions(S, TempSessions, extent, ok)

\* Fault: a reply that never got its first delta is forgotten.
RecoveredStreaming(st) == IF st = "streaming" THEN "interrupted" ELSE st

\* Fault: what did not end before the crash is removed instead of interrupted.
RecoveredAway(st) == IF st \in Open THEN "none" ELSE st

Recovered(st) == IF st \in Open THEN "interrupted" ELSE st

\* The process dies and AiService::open runs ConversationStore::recover: every
\* task and every map in memory is gone, tombstoned rows are purged, and what
\* was pending or streaming is interrupted.
Restart ==
  LET gone == {s \in Sessions : row[s] = "tombstone"
                                \/ (s \in TempSessions /\ row[s] = "live")}
      memory == {SessionOf(r) : r \in {q \in Requests : q = active \/ q \in unsaved}}
  IN /\ row' = [s \in Sessions |-> IF s \in gone THEN "gone" ELSE row[s]]
     /\ kept' = [r \in Requests |->
                   IF r \in Of(gone) THEN "none" ELSE Recovered(kept[r])]
     /\ receipt' = [r \in Requests |->
                      IF r \in Of(gone \cup TempSessions) THEN "none"
                      ELSE Recovered(receipt[r])]
     /\ epoch' = 1
     /\ prepared' = NothingPrepared
     /\ active' = NoRequest
     /\ activeEpoch' = 0
     /\ fault' = FALSE
     /\ cancelled' = [r \in Requests |-> FALSE]
     /\ message' = [r \in Requests |-> "none"]
     /\ unsaved' = {}
     /\ flagged' = flagged \ (memory \cup gone)
     /\ task' = [r \in Requests |-> IF Started(r) THEN "over" ELSE "none"]
     /\ UNCHANGED <<enabled, minted, origin, history>>

-------------------------------------------------------------------------------
TaskStep(r) ==
  \/ ResolveCredentials(r)
  \/ OpenRequest(r)
  \/ Connect(r)
  \/ WorkEnds(r)
  \/ \E ok \in BOOLEAN : Finish(r, ok)

Next ==
  \/ \E s \in Sessions :
       \/ SaveSession(s)
       \/ ConfigureSession(s)
       \/ \E old \in Sessions : CreateSession(s, old)
  \/ \E p \in Preparations : Expire(p) \/ \E s \in Sessions : Prepare(p, s)
  \/ \E r \in Requests, u \in Submissions :
       \/ \E p \in Preparations : Start(r, u, p)
       \/ \E s \in Sessions : StartAction(r, u, s)
  \/ \E r \in Requests :
       \/ TaskStep(r)
       \/ StreamUnsaved(r)
       \/ \E saved \in BOOLEAN : Stream(r, saved)
       \/ \E write \in {"none", "saved", "refused"} : StreamTooLarge(r, write)
       \/ \E ok \in BOOLEAN : Cancel(r, ok)
  \/ \E on, ok \in BOOLEAN, st \in {"cancelled", "interrupted"} :
       Invalidate(on, st, ok)
  \/ Enable
  \/ \E extent \in Extent, ok \in BOOLEAN :
       \/ \E s \in Sessions : DeleteSession(s, extent, ok)
       \/ \E S \in SUBSET Sessions : InvalidateSource(S, extent, ok)
       \/ ClearConversations(extent, ok)
  \/ Restart

Spec == Init /\ [][Next]_vars

\* The runtime keeps polling a spawned task, every wait in it has a timeout,
\* and finish is its last statement.
Fairness == \A r \in Requests : WF_vars(TaskStep(r))
FairSpec == Spec /\ Fairness
-------------------------------------------------------------------------------
(* Properties.                                                             *)

\* The request in Inner.active is the one the service may still work for: its
\* conversation exists, the assistant is enabled, nothing invalidated it, both
\* copies of its reply are open, and no earlier reply waits to be saved.  Every
\* gate before a tool or a model call relies on it.
ActiveIsCurrent ==
  active # NoRequest =>
    /\ enabled /\ activeEpoch = epoch
    /\ Live(SessionOf(active))
    /\ {message[active], kept[active], receipt[active]} \subseteq Open
    /\ unsaved = {}

\* A spawned task whose flag is down still owns the active slot: whoever takes
\* the slot away from a task raises its flag, so the task can trust the flag
\* alone, as the waits inside a model call do.
FlagFollowsSlot ==
  \A r \in Requests :
    task[r] \in Running => (active = r \/ cancelled[r])

\* "Write the user message, the empty reply and the receipt, and only then go
\* out": as long as the conversation of a request that contacted the model
\* exists, its message and its receipt do.
SentIsRecorded ==
  \A r \in Requests :
    Started(r) /\ sent[r] /\ Live(SessionOf(r)) =>
      kept[r] # "none" /\ receipt[r] # "none"

\* Sending the same submission again never starts a second request while the
\* conversation of the first exists, across failed writes and restarts; and a
\* preparation the user confirmed is sent at most once, whatever happens.
NoReplay ==
  \A q, r \in Requests :
    q # r /\ Started(q) /\ Started(r) =>
      /\ origin[q].submission = origin[r].submission =>
           ~(Live(SessionOf(q)) /\ Live(SessionOf(r)))
      /\ origin[q].preparation = origin[r].preparation =>
           origin[q].preparation = NoPreparation

\* A stop wins against a late answer: no copy of a stopped reply ever says that
\* it is complete.
StopWins ==
  \A r \in Requests :
    stopped[r] => "complete" \notin {message[r], kept[r], receipt[r]}

\* A reply that a conversation shows as pending or streaming is being worked
\* on, or its end is held in memory for the user to save; and a receipt that
\* says so belongs to the active request, or its final write failed.
NoAbandonedReply ==
  \A r \in Requests :
    /\ Started(r) /\ Live(SessionOf(r)) /\ kept[r] \in Open =>
         r = active \/ r \in unsaved
    /\ receipt[r] \in Open => r = active \/ lost[r]

\* A late write never brings a deleted conversation back: neither its replies
\* nor a receipt that the deletion removed.
DeletedStaysDeleted ==
  [][\A s \in Sessions :
       row[s] \in {"tombstone", "gone"} =>
         /\ row'[s] \in {"tombstone", "gone"}
         /\ \A r \in Of({s}) : /\ kept'[r] = "none"
                               /\ receipt[r] = "none" => receipt'[r] = "none"]_vars

\* A call to the model is opened for the active request only, and while nothing
\* has invalidated it.  The addresses are awaited after that check, so what goes
\* out later may belong to a request that was stopped meanwhile; but then its flag
\* is up.
SendIsChecked ==
  [][\A r \in Requests :
       /\ task[r] # "connecting" /\ task'[r] = "connecting" =>
            /\ active = r /\ enabled /\ activeEpoch = epoch
            /\ Live(SessionOf(r))
       /\ sent'[r] # sent[r] =>
            /\ task[r] = "connecting" /\ task'[r] = "working" /\ sent'[r]
            /\ active = r \/ cancelled[r]]_vars

\* No request stays active for ever, whatever the model, the store and the user
\* do: another one can always be started at last.
EveryRequestEnds == \A r \in Requests : active = r ~> active # r

\* What the user sees of a request: the copy in memory if there is one, else
\* the kept one, and nothing once the conversation is gone.
ReplyPhase ==
  [r \in Requests |->
     IF ~Started(r) THEN "new"
     ELSE IF ~Live(SessionOf(r)) THEN "forgotten"
     ELSE LET st == IF message[r] # "none" THEN message[r] ELSE kept[r]
          IN  IF st \in Open THEN "open" ELSE st]
ReplySecured ==
  {r \in Requests : /\ Started(r) /\ Live(SessionOf(r))
                    /\ r # active /\ r \notin unsaved}

Reply == INSTANCE AiReply WITH phase <- ReplyPhase, secured <- ReplySecured

\* Seen from a window the service is AiReply: one question at a time, each
\* answered once, no answer lost while the process lives, and none asked again.
ImplementsReply == Reply!Spec
-------------------------------------------------------------------------------
\* For TLC: requests, submissions and preparations are told apart by nothing else
\* than what was done with them.
Symmetry == Permutations(Requests) \cup Permutations(Submissions) \cup Permutations(Preparations)
===============================================================================
