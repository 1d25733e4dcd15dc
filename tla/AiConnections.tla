----------------------------- MODULE AiConnections ----------------------------
(***************************************************************************)
(* Connections and their credentials in AiService (src-tauri/src/ai/       *)
(* service.rs, ai/credentials.rs), together with the three kinds of work   *)
(* that use a connection: a chat request, a model discovery and a          *)
(* connection test.                                                        *)
(*                                                                         *)
(* A handler that needs the system keyring takes the keyring_io guard,     *)
(* changes the service under the mutex, gives the mutex up for the keyring *)
(* and takes it again to finish.  edit is that handler while it has given  *)
(* the mutex up; everything else may happen there.                         *)
(*                                                                         *)
(* The configuration in memory and the one in the store are changed by the *)
(* same critical sections, so conn stands for both.  Conversations and     *)
(* tool rounds are in AiRequests and AiTask.                               *)
(***************************************************************************)
EXTENDS Integers, FiniteSets

CONSTANTS
  Connections,   \* connection ids
  Slots,         \* credential slots of a connection: "auth", and "proxy"
  Tasks,         \* the work that can be under way at the same time
  NoConnection,  \* not in config.connections
  NoTask, NoEdit,
  MaxRevision,   \* bound of the model: revisions stay at or below it
  MaxEpoch       \* bound of the model: request_epoch stays at or below it

ASSUME SlotsAssumption == "auth" \in Slots /\ Slots \subseteq {"auth", "proxy"}
ASSUME NullAssumption == NoTask \notin Tasks
ASSUME BoundAssumption == MaxRevision \in Nat \ {0} /\ MaxEpoch \in Nat \ {0}

VARIABLES
  conn,      \* config.connections: revision and credential status of each slot
  known,     \* connection ids given out by new_id
  memory,    \* Credentials.temporary: the slots whose secret is in memory
  keyring,   \* the system store: the slots that have an entry
  guard,     \* keyring_io is held
  edit,      \* the handler between its two critical sections
  clearing,  \* clearing_all
  epoch,     \* request_epoch
  active, discovery, test,  \* the work that holds each of the three places
  work,      \* each piece of work: its kind, connection and captured values
  at,        \* where it is
  flag,      \* its cancel flag
  looking,   \* the work whose keyring lookup runs on a blocking thread
  stale      \* history: work under way that went on after its connection changed

vars == <<conn, known, memory, keyring, guard, edit, clearing, epoch, active,
          discovery, test, work, at, flag, looking, stale>>
tasks == <<active, discovery, test, work, at, flag, looking, stale>>

Entries  == Connections \X Slots
Statuses == {"not_required", "missing", "temporary", "saved"}
Profiles == [revision : 1 .. MaxRevision, status : [Slots -> Statuses]]
Edits    == [kind : {"save", "delete", "set", "set_temporary", "unset", "clear"},
             conn : Connections \cup {NoConnection},
             slots : SUBSET Slots, left : SUBSET Entries, failed : BOOLEAN]
Work     == [kind : {"chat", "discovery", "test"}, conn : Connections,
             revision : 1 .. MaxRevision, epoch : Nat, persistent : BOOLEAN]

ASSUME RecordAssumption == /\ NoConnection \notin Profiles \cup Connections
                           /\ NoEdit \notin Edits
                           /\ NoTask \notin Work

TypeOK ==
  /\ conn \in [Connections -> Profiles \cup {NoConnection}]
  /\ known \subseteq Connections
  /\ memory \subseteq Entries /\ keyring \subseteq Entries
  /\ guard \in BOOLEAN /\ clearing \in BOOLEAN
  /\ edit \in Edits \cup {NoEdit}
  /\ epoch \in 1 .. MaxEpoch
  /\ {active, discovery, test} \subseteq Tasks \cup {NoTask}
  /\ work \in [Tasks -> Work \cup {NoTask}]
  /\ at \in [Tasks -> {"none", "credentials", "lookup", "ready", "asking",
                       "working", "ending"}]
  /\ flag \in [Tasks -> BOOLEAN]
  /\ looking \in Tasks \cup {NoTask}
  /\ stale \subseteq Tasks

Init ==
  /\ conn = [c \in Connections |-> NoConnection]
  /\ known = {} /\ memory = {} /\ keyring = {}
  /\ guard = FALSE /\ edit = NoEdit /\ clearing = FALSE
  /\ epoch = 1
  /\ active = NoTask /\ discovery = NoTask /\ test = NoTask
  /\ work = [t \in Tasks |-> NoTask]
  /\ at = [t \in Tasks |-> "none"]
  /\ flag = [t \in Tasks |-> FALSE]
  /\ looking = NoTask
  /\ stale = {}

Exists(c) == conn[c] # NoConnection
Saved(c)  == {e \in Entries : e[1] = c /\ Exists(c) /\ conn[c].status[e[2]] = "saved"}

-------------------------------------------------------------------------------
(* Editing connections and credentials.                                    *)

\* invalidate: a new epoch; whatever holds a place loses it and is flagged.
Invalidate ==
  /\ epoch < MaxEpoch
  /\ epoch' = epoch + 1
  /\ flag' = [t \in Tasks |-> flag[t] \/ t \in {active, discovery, test}]
  /\ active' = NoTask /\ discovery' = NoTask /\ test' = NoTask
  /\ UNCHANGED <<work, at, looking, stale>>

Undisturbed == UNCHANGED <<epoch, active, discovery, test, work, at, flag,
                           looking, stale>>

\* The first critical section ends with the guard held.
Suspend(kind, c, slots, left) ==
  /\ ~guard /\ guard' = TRUE
  /\ edit' = [kind |-> kind, conn |-> c, slots |-> slots, left |-> left,
              failed |-> FALSE]

\* A handler that returns from its first critical section, or one that needs
\* no keyring, releases the guard it took.
Resting == ~guard /\ UNCHANGED <<guard, edit>>

\* save_connection for a new connection, or without a change of its target.
\* needed are the slots the new settings ask a credential for.  When the record
\* of the check cannot be written (~noted) the handler returns with the new
\* configuration in force and nothing invalidated.
SaveConnection(c, needed, noted) ==
  /\ Resting
  /\ conn' = [conn EXCEPT ![c] =
       IF Exists(c) THEN [conn[c] EXCEPT !.revision = @ + 1]
       ELSE [revision |-> 1,
             status |-> [s \in Slots |-> IF s \in needed THEN "missing"
                                         ELSE "not_required"]]]
  /\ IF Exists(c) THEN needed = {} /\ conn[c].revision < MaxRevision
     ELSE c \notin known
  /\ known' = known \cup {c}
  /\ IF noted THEN Invalidate ELSE Undisturbed
  /\ UNCHANGED <<memory, keyring, clearing>>

\* save_connection with a changed target: the old secrets have to go first.  At
\* the bound of the epoch only the ends that invalidate nothing are left to it.
RetargetConnection(c, needed) ==
  /\ Exists(c) /\ conn[c].revision < MaxRevision
  /\ Suspend("save", c, needed, Saved(c))
  /\ Invalidate
  /\ UNCHANGED <<conn, known, memory, keyring, clearing>>

DeleteConnection(c) ==
  /\ Exists(c)
  /\ Suspend("delete", c, {}, Saved(c))
  /\ Invalidate
  /\ UNCHANGED <<conn, known, memory, keyring, clearing>>

Restatus(c, s, st) ==
  [conn EXCEPT ![c] = [revision |-> conn[c].revision + 1,
                       status |-> [conn[c].status EXCEPT ![s] = st]]]

\* Fault: the reference is written when the entry exists already.
SetSecretUnreserved(c, s, ok) ==
  /\ Exists(c) /\ conn[c].status[s] # "not_required"
  /\ ok /\ Suspend("set", c, {s}, {<<c, s>>})
  /\ Invalidate
  /\ UNCHANGED <<conn, known, memory, keyring, clearing>>

\* set_secret for the system store: the reference is saved before the entry is
\* created.  ok is the write of the configuration.
SetSecret(c, s, ok) ==
  /\ Exists(c) /\ conn[c].status[s] # "not_required"
  /\ conn[c].revision < MaxRevision
  /\ IF ok
     THEN /\ Suspend("set", c, {s}, {<<c, s>>})
          /\ conn' = Restatus(c, s, "saved")
          /\ memory' = memory \ {<<c, s>>}
     ELSE Resting /\ UNCHANGED <<conn, memory>>
  /\ Invalidate
  /\ UNCHANGED <<known, keyring, clearing>>

\* set_secret with temporary, and delete_secret: an entry in the system store
\* goes first.
SetTemporary(c, s) ==
  /\ Exists(c) /\ conn[c].status[s] # "not_required"
  /\ conn[c].revision < MaxRevision
  /\ Suspend("set_temporary", c, {s}, Saved(c) \cap {<<c, s>>})
  /\ Invalidate
  /\ UNCHANGED <<conn, known, memory, keyring, clearing>>

DeleteSecret(c, s) ==
  /\ Exists(c) /\ conn[c].revision < MaxRevision
  /\ Suspend("unset", c, {s}, Saved(c) \cap {<<c, s>>})
  /\ Invalidate
  /\ UNCHANGED <<conn, known, memory, keyring, clearing>>

\* clear_all up to the deletion of the keys.
ClearAll ==
  /\ Suspend("clear", NoConnection, {}, UNION {Saved(c) : c \in Connections})
  /\ clearing' = TRUE
  /\ Invalidate
  /\ UNCHANGED <<conn, known, memory, keyring>>

\* One call of the system store outside the mutex.  When it fails the handler
\* returns, except that clear_all still takes its gate down.
KeyringCall(e, ok) ==
  /\ edit # NoEdit /\ e \in edit.left /\ ~edit.failed
  /\ keyring' = IF ~ok THEN keyring
                ELSE IF edit.kind = "set" THEN keyring \cup {e} ELSE keyring \ {e}
  /\ IF ok THEN edit' = [edit EXCEPT !.left = @ \ {e}] /\ UNCHANGED guard
     ELSE IF edit.kind = "clear"
     THEN edit' = [edit EXCEPT !.failed = TRUE] /\ UNCHANGED guard
     ELSE edit' = NoEdit /\ guard' = FALSE
  /\ Undisturbed /\ UNCHANGED <<conn, known, memory, clearing>>

\* The second critical section; ok is its write of the configuration, and noted
\* the record that follows it in save_connection.
Ready(kind) == /\ edit # NoEdit /\ edit.kind = kind
               /\ edit.left = {} /\ guard' = FALSE /\ edit' = NoEdit

\* Fault: the secrets in memory outlive the change of the target.
KeptInMemory(c) == memory

\* forget_temporary for both slots.
WithoutSecrets(c) == {e \in memory : e[1] # c}

FinishSave(ok, noted) ==
  LET c == edit.conn
  IN /\ Ready("save")
     /\ memory' = WithoutSecrets(c)
     /\ conn' = IF ok
                THEN [conn EXCEPT ![c] =
                        [revision |-> conn[c].revision + 1,
                         status |-> [s \in Slots |-> IF s \in edit.slots
                                       THEN "missing" ELSE "not_required"]]]
                ELSE conn
     /\ IF ok /\ noted THEN Invalidate ELSE Undisturbed
     /\ UNCHANGED <<known, keyring, clearing>>

FinishDelete(ok) ==
  /\ Ready("delete")
  /\ memory' = WithoutSecrets(edit.conn)
  /\ conn' = IF ok THEN [conn EXCEPT ![edit.conn] = NoConnection] ELSE conn
  /\ Undisturbed /\ UNCHANGED <<known, keyring, clearing>>

FinishSet ==
  /\ Ready("set")
  /\ Undisturbed /\ UNCHANGED <<conn, known, memory, keyring, clearing>>

FinishSetTemporary(ok) ==
  LET c == edit.conn
  IN /\ Ready("set_temporary")
     /\ memory' = memory \cup {<<c, s>> : s \in edit.slots}
     /\ \E s \in edit.slots : conn' = IF ok THEN Restatus(c, s, "temporary") ELSE conn
     /\ Undisturbed /\ UNCHANGED <<known, keyring, clearing>>

FinishUnset(ok) ==
  LET c == edit.conn
  IN /\ Ready("unset")
     /\ memory' = memory \ {<<c, s>> : s \in edit.slots}
     /\ \E s \in edit.slots :
          conn' = IF ok
                  THEN Restatus(c, s, IF conn[c].status[s] = "not_required"
                                      THEN "not_required" ELSE "missing")
                  ELSE conn
     /\ Undisturbed /\ UNCHANGED <<known, keyring, clearing>>

FinishClear(ok) ==
  /\ edit # NoEdit /\ edit.kind = "clear" /\ (edit.left = {} \/ edit.failed)
  /\ guard' = FALSE /\ edit' = NoEdit /\ clearing' = FALSE
  /\ IF ok /\ ~edit.failed
     THEN conn' = [c \in Connections |-> NoConnection] /\ memory' = {}
     ELSE UNCHANGED <<conn, memory>>
  /\ Undisturbed /\ UNCHANGED <<known, keyring>>

-------------------------------------------------------------------------------
(* Work that uses a connection.                                            *)

\* credential_plan: a secret in memory, or a reference to a keyring entry.
InMemory(c, s)  == <<c, s>> \in memory
Planned(c)      == \/ conn[c].status["auth"] \in {"not_required", "saved"}
                   \/ InMemory(c, "auth")
Persistent(c)   == \E s \in Slots : conn[c].status[s] = "saved" /\ ~InMemory(c, s)

Launch(t, kind, c) ==
  /\ work[t] = NoTask
  /\ Exists(c) /\ Planned(c)
  /\ work' = [work EXCEPT ![t] =
       [kind |-> kind, conn |-> c, revision |-> conn[c].revision,
        epoch |-> epoch, persistent |-> Persistent(c)]]
  /\ at' = [at EXCEPT ![t] = "credentials"]
  /\ UNCHANGED <<conn, known, memory, keyring, guard, edit, clearing, epoch, flag,
                 looking, stale>>

\* Fault: a chat does not wait for a test of the model.
StartChatBesideTest(t, c) ==
  /\ ~clearing /\ active = NoTask
  /\ Launch(t, "chat", c) /\ active' = t /\ UNCHANGED <<discovery, test>>

StartChat(t, c) ==
  /\ ~clearing /\ active = NoTask /\ test = NoTask
  /\ Launch(t, "chat", c) /\ active' = t /\ UNCHANGED <<discovery, test>>

StartDiscovery(t, c) ==
  /\ ~clearing /\ discovery = NoTask
  /\ Launch(t, "discovery", c) /\ discovery' = t /\ UNCHANGED <<active, test>>

\* Fault: a test may begin while the keys are being deleted.
StartTestWhileClearing(t, c) ==
  /\ active = NoTask /\ test = NoTask
  /\ Launch(t, "test", c) /\ test' = t /\ UNCHANGED <<active, discovery>>

StartTest(t, c) ==
  /\ ~clearing /\ active = NoTask /\ test = NoTask
  /\ Launch(t, "test", c) /\ test' = t /\ UNCHANGED <<active, discovery>>

Kind(t) == work[t].kind
\* The connection is still there with the revision the work captured.
Current(t) ==
  /\ Exists(work[t].conn)
  /\ conn[work[t].conn].revision = work[t].revision

\* The check before anything goes out; chat requests also hold their place.
ReadyForSend(t) ==
  /\ Current(t) /\ work[t].epoch = epoch /\ ~flag[t]
  /\ Kind(t) = "chat" => active = t

Moves(t, l) == at' = [at EXCEPT ![t] = l]
StoreSide == UNCHANGED <<conn, known, memory, keyring, edit, clearing, epoch>>
Places    == UNCHANGED <<active, discovery, test>>

\* resolve_credentials: a lookup in the system store needs the guard and runs
\* on a thread of its own.
ResolveCredentials(t) ==
  /\ at[t] = "credentials"
  /\ IF ~work[t].persistent THEN Moves(t, "ready") /\ UNCHANGED <<guard, looking>>
     ELSE IF guard THEN Moves(t, "ending") /\ UNCHANGED <<guard, looking>>
     ELSE Moves(t, "lookup") /\ guard' = TRUE /\ looking' = t
  /\ StoreSide /\ Places /\ UNCHANGED <<work, flag, stale>>

\* The lookup returns and releases the guard, whether or not the work that
\* asked for it still waits.
LookupReturns ==
  /\ looking # NoTask
  /\ guard' = FALSE /\ looking' = NoTask
  /\ \E l \in {"ready", "ending"} :
       at' = IF at[looking] = "lookup" THEN [at EXCEPT ![looking] = l] ELSE at
  /\ StoreSide /\ Places /\ UNCHANGED <<work, flag, stale>>

\* Fault: the guard goes with the work that waits, not with the lookup.
AbandonAndRelease(t) ==
  /\ at[t] = "lookup"
  /\ Moves(t, "ending")
  /\ guard' = FALSE
  /\ StoreSide /\ Places /\ UNCHANGED <<work, flag, looking, stale>>

\* Fault: the lookup has no deadline.
AbandonWhenCancelled(t) ==
  /\ at[t] = "lookup" /\ flag[t]
  /\ Moves(t, "ending")
  /\ StoreSide /\ Places /\ UNCHANGED <<guard, work, flag, looking, stale>>

\* cancellable gives the lookup up: the flag, or the timeout.
AbandonLookup(t) ==
  /\ at[t] = "lookup"
  /\ Moves(t, "ending")
  /\ StoreSide /\ Places /\ UNCHANGED <<guard, work, flag, looking, stale>>

CheckReady(t) ==
  /\ at[t] = "ready"
  /\ Moves(t, IF ReadyForSend(t) THEN "asking" ELSE "ending")
  /\ StoreSide /\ Places /\ UNCHANGED <<guard, work, flag, looking, stale>>

\* The call begins unless the flag is up; "working" covers it from the wait for
\* the addresses on, which AiTask takes apart.
Ask(t) ==
  /\ at[t] = "asking"
  /\ Moves(t, IF flag[t] THEN "ending" ELSE "working")
  /\ stale' = IF flag[t] \/ Current(t) THEN stale ELSE stale \cup {t}
  /\ StoreSide /\ Places /\ UNCHANGED <<guard, work, flag, looking>>

\* The model answers a chat with a tool call: check_tool_active, then the tool
\* runs and the next round begins with ready_for_send.
RunTool(t) ==
  /\ at[t] = "working" /\ Kind(t) = "chat"
  /\ IF active = t /\ work[t].epoch = epoch /\ ~flag[t]
     THEN /\ Moves(t, "ready")
          /\ stale' = IF Current(t) THEN stale ELSE stale \cup {t}
     ELSE Moves(t, "ending") /\ UNCHANGED stale
  /\ StoreSide /\ Places /\ UNCHANGED <<guard, work, flag, looking>>

\* The work is done, or failed, or saw its flag.
WorkEnds(t) ==
  /\ at[t] = "working"
  /\ Moves(t, "ending")
  /\ StoreSide /\ Places /\ UNCHANGED <<guard, work, flag, looking, stale>>

\* Work t is gone; flags are the cancel flags of the others.
Over(t, flags) ==
  /\ Moves(t, "none")
  /\ work' = [work EXCEPT ![t] = NoTask]
  /\ flag' = [flags EXCEPT ![t] = FALSE]
  /\ stale' = stale \ {t}

\* Fault: a failed test returns before it frees its place.
EndWorkEarly(t) ==
  /\ at[t] = "ending"
  /\ Over(t, flag)
  /\ active' = IF active = t THEN NoTask ELSE active
  /\ discovery' = IF discovery = t THEN NoTask ELSE discovery
  /\ StoreSide /\ UNCHANGED <<test, guard, looking>>

\* The last critical section of each kind of work frees its place if it still
\* holds it.  A discovery that learned something new about the models
\* invalidates what was prepared with the old knowledge.
EndWork(t) ==
  /\ at[t] = "ending"
  /\ Over(t, flag)
  /\ active' = IF active = t THEN NoTask ELSE active
  /\ discovery' = IF discovery = t THEN NoTask ELSE discovery
  /\ test' = IF test = t THEN NoTask ELSE test
  /\ StoreSide /\ UNCHANGED <<guard, looking>>

EndDiscoveryWithNews(t) ==
  /\ at[t] = "ending" /\ Kind(t) = "discovery" /\ ~flag[t] /\ Current(t)
  /\ epoch < MaxEpoch /\ epoch' = epoch + 1
  /\ Over(t, [u \in Tasks |-> flag[u] \/ u \in {active, discovery, test}])
  /\ active' = NoTask /\ discovery' = NoTask /\ test' = NoTask
  /\ UNCHANGED <<conn, known, memory, keyring, guard, edit, clearing, looking>>

CancelChat ==
  /\ active # NoTask
  /\ flag' = [flag EXCEPT ![active] = TRUE]
  /\ active' = NoTask
  /\ StoreSide /\ UNCHANGED <<guard, discovery, test, work, at, looking, stale>>

\* The process dies and opens again: temporary secrets are gone and read as
\* missing.
Restart ==
  /\ memory' = {} /\ guard' = FALSE /\ edit' = NoEdit /\ clearing' = FALSE
  /\ epoch' = 1
  /\ conn' = [c \in Connections |->
       IF ~Exists(c) THEN NoConnection
       ELSE [conn[c] EXCEPT !.status =
               [s \in Slots |-> IF @[s] = "temporary" THEN "missing" ELSE @[s]]]]
  /\ active' = NoTask /\ discovery' = NoTask /\ test' = NoTask
  /\ work' = [t \in Tasks |-> NoTask]
  /\ at' = [t \in Tasks |-> "none"]
  /\ flag' = [t \in Tasks |-> FALSE]
  /\ looking' = NoTask /\ stale' = {}
  /\ UNCHANGED <<known, keyring>>

-------------------------------------------------------------------------------
TaskStep(t) ==
  \/ ResolveCredentials(t) \/ AbandonLookup(t) \/ CheckReady(t) \/ Ask(t)
  \/ RunTool(t) \/ WorkEnds(t) \/ EndWork(t) \/ EndDiscoveryWithNews(t)

EditStep ==
  \/ \E e \in Entries, ok \in BOOLEAN : KeyringCall(e, ok)
  \/ FinishSet
  \/ \E ok \in BOOLEAN :
       \/ \E noted \in BOOLEAN : FinishSave(ok, noted)
       \/ FinishDelete(ok) \/ FinishSetTemporary(ok)
       \/ FinishUnset(ok) \/ FinishClear(ok)

Next ==
  \/ \E c \in Connections :
       \/ \E needed \in SUBSET Slots :
            \/ RetargetConnection(c, needed)
            \/ \E noted \in BOOLEAN : SaveConnection(c, needed, noted)
       \/ DeleteConnection(c)
       \/ \E s \in Slots :
            \/ SetTemporary(c, s) \/ DeleteSecret(c, s)
            \/ \E ok \in BOOLEAN : SetSecret(c, s, ok)
  \/ ClearAll
  \/ EditStep
  \/ \E t \in Tasks :
       \/ TaskStep(t)
       \/ \E c \in Connections :
            StartChat(t, c) \/ StartDiscovery(t, c) \/ StartTest(t, c)
  \/ LookupReturns
  \/ CancelChat
  \/ Restart

Spec == Init /\ [][Next]_vars

\* Each task is polled until it ends; its loop is bounded (AiTask), so it does
\* not call tools for ever.  Nothing is assumed of the system keyring.
FairSpec == Spec /\ \A t \in Tasks : WF_vars(TaskStep(t)) /\ SF_vars(WorkEnds(t))

-------------------------------------------------------------------------------
(* Properties.                                                             *)

\* Every entry of the system keyring is one the saved configuration still
\* refers to, so that it can be deleted later: whatever call fails and wherever
\* the process dies, no credential is orphaned.  No secret in memory outlives
\* its connection either.
NoOrphanSecret ==
  /\ keyring \subseteq UNION {Saved(c) : c \in Connections}
  /\ \A e \in memory : Exists(e[1])

\* The guard is held by exactly one: a handler between its critical sections or
\* a lookup on its blocking thread.  It is never left held by nobody.
GuardIsOwned ==
  /\ guard <=> edit # NoEdit \/ looking # NoTask
  /\ edit = NoEdit \/ looking = NoTask

\* A place is held by unfinished work of its kind that was not cancelled, so the
\* service never stays busy for work that is gone.
PlacesAreOwned ==
  \A t \in {active, discovery, test} \ {NoTask} :
    /\ at[t] # "none" /\ ~flag[t]
    /\ Kind(t) = "chat" <=> t = active
    /\ Kind(t) = "discovery" <=> t = discovery

\* However invalidations and late ends interleave, the work that was not
\* cancelled never uses the model twice at a time: a chat excludes a test, and
\* a discovery another discovery.
ModelUseIsExclusive ==
  \A t, u \in Tasks :
    /\ t # u
    /\ at[t] # "none" /\ at[u] # "none"
    /\ ~flag[t] /\ ~flag[u]
    => (Kind(t) = "discovery") # (Kind(u) = "discovery")

\* While clear_all deletes the keys no chat and no test is running.
ClearingIsQuiet == clearing => active = NoTask /\ test = NoTask

\* When a changed target takes effect, no secret of the old target is left to
\* be sent to the new one.
SecretsStayWithTarget ==
  [][edit # NoEdit /\ edit.kind = "save"
     /\ conn'[edit.conn].revision # conn[edit.conn].revision =>
       \A e \in memory' \cup keyring' : e[1] # edit.conn]_vars

\* Work ends even if the system keyring never answers.
WorkFinishes == \A t \in Tasks : at[t] = "credentials" ~> at[t] = "none"

\* "After a cancel, a change of configuration, a source clear or an exit there
\* are no further tools or outbound requests": no work goes on once its
\* connection was deleted or changed.
NoWorkAfterChange == stale = {}
===============================================================================
