-------------------------- MODULE AiConnectionsProofs -------------------------
(***************************************************************************)
(* Proofs about AiConnections, for any connections, slots and work.  A     *)
(* handler that edits gives the mutex up while it calls the system         *)
(* keyring, and all the rest of the service may move in between; so        *)
(* ConnInv says what holds of a suspended edit and of the work that goes   *)
(* on beside it: who holds the guard, what still exists, and which entries *)
(* of the keyring the edit will yet remove or refer to.  It is inductive,  *)
(* and the theorems follow from it.                                        *)
(***************************************************************************)
EXTENDS AiConnections, TLAPS

(* The parts of the inductive invariant.                                   *)

\* Work that is under way and not flagged holds one of the three places; what
\* ended has no flag.
LiveInv ==
  \A t \in Tasks :
    /\ at[t] = "none" <=> work[t] = NoTask
    /\ work[t] = NoTask => ~flag[t]
    /\ at[t] # "none" /\ ~flag[t] => t \in {active, discovery, test}

\* A test of a connection is not begun beside a chat, nor a chat beside a test.
ExclusiveInv == active = NoTask \/ test = NoTask

\* A suspended edit is of a connection that exists, and its revision can be
\* raised.
RoomInv ==
  edit # NoEdit =>
    /\ edit.kind # "clear" => edit.conn \in Connections /\ Exists(edit.conn)
    /\ edit.kind \in {"save", "set_temporary", "unset"}
       => conn[edit.conn].revision < MaxRevision
    /\ edit.kind \in {"set_temporary", "unset"} => \E s \in Slots : edit.slots = {s}

\* The entries of the keyring that the suspended edit is there to remove.
Doomed(e) ==
  \/ edit.kind \in {"save", "delete"} /\ e[1] = edit.conn
  \/ edit.kind \in {"set_temporary", "unset"} /\ e[1] = edit.conn /\ e[2] \in edit.slots
  \/ edit.kind = "clear"

\* An entry that is to go is still among those left to remove; a secret that is
\* written replaces one that is referred to.
LeftInv ==
  edit # NoEdit =>
    /\ \A e \in keyring : Doomed(e) => e \in edit.left
    /\ edit.kind = "set" => edit.left \subseteq Saved(edit.conn)

-------------------------------------------------------------------------------
(* Types.                                                                  *)

\* The type invariant in three parts: what the configuration and the stores
\* hold,
ConnType ==
  /\ conn \in [Connections -> Profiles \cup {NoConnection}]
  /\ known \subseteq Connections
  /\ memory \subseteq Entries /\ keyring \subseteq Entries

\* the suspended edit,
EditType ==
  /\ guard \in BOOLEAN /\ clearing \in BOOLEAN
  /\ edit \in Edits \cup {NoEdit}

\* and the work.
TaskType ==
  /\ epoch \in 1 .. MaxEpoch
  /\ {active, discovery, test} \subseteq Tasks \cup {NoTask}
  /\ work \in [Tasks -> Work \cup {NoTask}]
  /\ at \in [Tasks -> {"none", "credentials", "lookup", "ready", "asking",
                       "working", "ending"}]
  /\ flag \in [Tasks -> BOOLEAN]
  /\ looking \in Tasks \cup {NoTask}
  /\ stale \subseteq Tasks

\* The type invariant is its three parts,
LEMMA TypeSplit == TypeOK <=> ConnType /\ EditType /\ TaskType
BY DEF TypeOK, ConnType, EditType, TaskType

\* and so it is after a step.
LEMMA TypeSplitNext == TypeOK' <=> ConnType' /\ EditType' /\ TaskType'
BY DEF TypeOK, ConnType, EditType, TaskType

\* What a connection has saved are entries of the keyring.
LEMMA SavedType == ASSUME NEW c PROVE Saved(c) \subseteq Entries
BY DEF Saved

\* A connection that exists has a profile.
LEMMA ProfileType ==
  ASSUME ConnType, NEW c \in Connections, Exists(c) PROVE conn[c] \in Profiles
BY DEF ConnType, Exists

\* A changed profile is still one.
LEMMA RestatusType ==
  ASSUME ConnType, NEW c \in Connections, NEW s \in Slots, NEW st \in Statuses,
         Exists(c), conn[c].revision < MaxRevision
  PROVE  Restatus(c, s, st) \in [Connections -> Profiles \cup {NoConnection}]
<1>1. conn[c] \in Profiles
  BY ProfileType
<1>2. conn[c].revision + 1 \in 1 .. MaxRevision
  BY <1>1, BoundAssumption DEF Profiles
<1>3. [conn[c].status EXCEPT ![s] = st] \in [Slots -> Statuses]
  BY <1>1 DEF Profiles
<1>4. [revision |-> conn[c].revision + 1, status |-> [conn[c].status EXCEPT ![s] = st]]
        \in Profiles
  BY <1>2, <1>3 DEF Profiles
<1> QED BY <1>4 DEF Restatus, ConnType

\* A handler that gives the mutex up holds the guard, and the edit is what it
\* was given.
LEMMA SuspendType ==
  ASSUME NEW kind \in {"save", "delete", "set", "set_temporary", "unset", "clear"},
         NEW c \in Connections \cup {NoConnection}, NEW slots \in SUBSET Slots,
         NEW left \in SUBSET Entries, Suspend(kind, c, slots, left)
  PROVE  /\ ~guard /\ guard' = TRUE /\ edit' \in Edits /\ edit' # NoEdit
         /\ edit'.kind = kind /\ edit'.conn = c /\ edit'.slots = slots
         /\ edit'.left = left
<1>1. /\ ~guard /\ guard' = TRUE
      /\ edit' = [kind |-> kind, conn |-> c, slots |-> slots, left |-> left,
                  failed |-> FALSE]
  BY DEF Suspend
<1>2. edit' \in Edits
  BY <1>1 DEF Edits
<1> QED BY <1>1, <1>2, RecordAssumption

\* The handlers that go on outside the mutex.
BeginsEdit ==
  \/ ClearAll
  \/ \E c \in Connections :
       \/ DeleteConnection(c)
       \/ \E needed \in SUBSET Slots : RetargetConnection(c, needed)
       \/ \E s \in Slots : SetTemporary(c, s) \/ DeleteSecret(c, s) \/ SetSecret(c, s, TRUE)

\* Each of them begins one edit, and invalidates what is under way.
LEMMA BeginEdit ==
  ASSUME BeginsEdit
  PROVE  /\ ~guard /\ guard' = TRUE /\ edit' \in Edits /\ edit' # NoEdit
         /\ looking' = looking /\ clearing' \in {clearing, TRUE} /\ Invalidate
<1>1. CASE ClearAll
  <2>1. UNION {Saved(d) : d \in Connections} \in SUBSET Entries
    BY SavedType
  <2> QED BY <1>1, <2>1, SuspendType DEF ClearAll, Invalidate
<1>2. ASSUME NEW c \in Connections,
             \/ DeleteConnection(c)
             \/ \E needed \in SUBSET Slots : RetargetConnection(c, needed)
             \/ \E s \in Slots : SetTemporary(c, s) \/ DeleteSecret(c, s)
                                 \/ SetSecret(c, s, TRUE)
      PROVE  \E kind \in {"save", "delete", "set", "set_temporary", "unset", "clear"},
                slots \in SUBSET Slots, left \in SUBSET Entries :
               Suspend(kind, c, slots, left) /\ Invalidate /\ clearing' = clearing
  <2>1. \A s \in Slots : {<<c, s>>} \in SUBSET Entries /\ {s} \in SUBSET Slots
    BY DEF Entries
  <2>2. {} \in SUBSET Slots /\ Saved(c) \in SUBSET Entries
        /\ \A S : Saved(c) \cap S \in SUBSET Entries
    BY SavedType
  <2>3. CASE DeleteConnection(c)
    BY <2>2, <2>3 DEF DeleteConnection
  <2>4. CASE \E needed \in SUBSET Slots : RetargetConnection(c, needed)
    BY <2>2, <2>4 DEF RetargetConnection
  <2>5. ASSUME NEW s \in Slots, SetTemporary(c, s)
        PROVE  \E slots \in SUBSET Slots, left \in SUBSET Entries :
                 Suspend("set_temporary", c, slots, left) /\ Invalidate /\ clearing' = clearing
    BY <2>2, <2>5 DEF SetTemporary
  <2>6. ASSUME NEW s \in Slots, DeleteSecret(c, s)
        PROVE  \E slots \in SUBSET Slots, left \in SUBSET Entries :
                 Suspend("unset", c, slots, left) /\ Invalidate /\ clearing' = clearing
    BY <2>2, <2>6 DEF DeleteSecret
  <2>7. ASSUME NEW s \in Slots, SetSecret(c, s, TRUE)
        PROVE  \E slots \in SUBSET Slots, left \in SUBSET Entries :
                 Suspend("set", c, slots, left) /\ Invalidate /\ clearing' = clearing
    BY <2>1, <2>7 DEF SetSecret
  <2> QED BY <1>2, <2>3, <2>4, <2>5, <2>6, <2>7
<1>3. CASE ~ClearAll
  <2>1. PICK c \in Connections,
             kind \in {"save", "delete", "set", "set_temporary", "unset", "clear"},
             slots \in SUBSET Slots, left \in SUBSET Entries :
               Suspend(kind, c, slots, left) /\ Invalidate /\ clearing' = clearing
    BY <1>2, <1>3 DEF BeginsEdit
  <2> QED BY <2>1, SuspendType DEF Invalidate
<1> QED BY <1>1, <1>3

\* A call of the system store keeps the edit, or gives it up with the guard.
LEMMA KeyringCallEdit ==
  ASSUME EditType, NEW e, NEW ok, KeyringCall(e, ok)
  PROVE  /\ edit \in Edits /\ edit # NoEdit
         /\ UNCHANGED <<looking, clearing, conn, memory>>
         /\ \/ /\ edit' \in Edits /\ edit' # NoEdit /\ UNCHANGED guard
               /\ edit'.kind = edit.kind /\ edit'.conn = edit.conn
               /\ edit'.slots = edit.slots
               /\ edit'.left = IF ok THEN edit.left \ {e} ELSE edit.left
            \/ edit' = NoEdit /\ guard' = FALSE
<1>1. edit \in Edits /\ edit # NoEdit
  BY DEF EditType, KeyringCall
<1>2. UNCHANGED <<looking, clearing, conn, memory>>
  BY DEF KeyringCall, Undisturbed
<1>3. CASE ok
  <2>1. edit' = [edit EXCEPT !.left = @ \ {e}] /\ UNCHANGED guard
    BY <1>3 DEF KeyringCall
  <2>2. edit' \in Edits
    BY <1>1, <2>1 DEF Edits
  <2> QED BY <1>1, <1>3, <2>1, RecordAssumption, <1>2 DEF Edits
<1>4. CASE ~ok /\ edit.kind = "clear"
  <2>1. edit' = [edit EXCEPT !.failed = TRUE] /\ UNCHANGED guard
    BY <1>4 DEF KeyringCall
  <2>2. edit' \in Edits
    BY <1>1, <2>1 DEF Edits
  <2> QED BY <1>1, <1>4, <2>1, <2>2, RecordAssumption, <1>2 DEF Edits
<1>5. CASE ~ok /\ edit.kind # "clear"
  BY <1>1, <1>5, <1>2 DEF KeyringCall
<1> QED BY <1>3, <1>4, <1>5

\* Nothing that loses its place loses its type.
LEMMA InvalidateType ==
  ASSUME TaskType, Invalidate PROVE TaskType'
BY BoundAssumption DEF TaskType, Invalidate

-------------------------------------------------------------------------------
(* The two sides of the next-state relation.                               *)

\* The next-state relation has two sides: what edits,
EditSide ==
  \/ BeginsEdit \/ EditStep
  \/ \E c \in Connections :
       \/ \E needed \in SUBSET Slots, noted \in BOOLEAN : SaveConnection(c, needed, noted)
       \/ \E s \in Slots : SetSecret(c, s, FALSE)

\* and what works with what there is.
TaskSide ==
  \/ \E t \in Tasks :
       \/ TaskStep(t)
       \/ \E c \in Connections : StartChat(t, c) \/ StartDiscovery(t, c) \/ StartTest(t, c)
  \/ LookupReturns \/ CancelChat

\* Beside a restart, there is nothing else.
LEMMA NextSides == Next <=> EditSide \/ TaskSide \/ Restart
<1>1. ASSUME NEW c \in Connections
      PROVE  (\E s \in Slots : \E ok \in BOOLEAN : SetSecret(c, s, ok))
             <=> \E s \in Slots : SetSecret(c, s, TRUE) \/ SetSecret(c, s, FALSE)
  OBVIOUS
<1> QED BY <1>1, Zenon DEF Next, EditSide, TaskSide, BeginsEdit

\* Whatever is edited, the work under way is untouched or loses its places.
LEMMA EditSideTasks ==
  ASSUME EditSide PROVE Undisturbed \/ Invalidate
<1>1. CASE BeginsEdit
  BY <1>1, BeginEdit
<1>2. CASE EditStep
  BY <1>2 DEF EditStep, KeyringCall, FinishSet, FinishSave, FinishDelete,
     FinishSetTemporary, FinishUnset, FinishClear
<1>3. CASE \E c \in Connections :
             \/ \E needed \in SUBSET Slots, noted \in BOOLEAN :
                  SaveConnection(c, needed, noted)
             \/ \E s \in Slots : SetSecret(c, s, FALSE)
  BY <1>3 DEF SaveConnection, SetSecret
<1> QED BY <1>1, <1>2, <1>3 DEF EditSide

\* Work changes neither the connections nor an edit.
LEMMA TaskSideEdits ==
  ASSUME TaskSide PROVE UNCHANGED <<conn, known, memory, keyring, edit, clearing>>
<1>1. CASE LookupReturns \/ CancelChat
  BY <1>1 DEF LookupReturns, CancelChat, StoreSide
<1>2. ASSUME NEW t \in Tasks, NEW c \in Connections,
             StartChat(t, c) \/ StartDiscovery(t, c) \/ StartTest(t, c)
      PROVE  UNCHANGED <<conn, known, memory, keyring, edit, clearing>>
  BY <1>2 DEF StartChat, StartDiscovery, StartTest, Launch
<1>3. ASSUME NEW t \in Tasks, TaskStep(t)
      PROVE  UNCHANGED <<conn, known, memory, keyring, edit, clearing>>
  BY <1>3 DEF TaskStep, ResolveCredentials, AbandonLookup, CheckReady, Ask, RunTool,
     WorkEnds, EndWork, EndDiscoveryWithNews, StoreSide
<1> QED BY <1>1, <1>2, <1>3 DEF TaskSide

\* What a handler captures when it starts a piece of work.
LEMMA LaunchWork ==
  ASSUME ConnType, TaskType, NEW t \in Tasks, NEW c \in Connections,
         NEW kind \in {"chat", "discovery", "test"}, Launch(t, kind, c)
  PROVE  /\ work' \in [Tasks -> Work \cup {NoTask}]
         /\ work'[t] # NoTask /\ work'[t].kind = kind
         /\ \A u \in Tasks \ {t} : work'[u] = work[u]
<1> DEFINE w == [kind |-> kind, conn |-> c, revision |-> conn[c].revision,
                 epoch |-> epoch, persistent |-> Persistent(c)]
<1>1. conn[c].revision \in 1 .. MaxRevision
  BY ProfileType DEF Launch, Profiles
<1>2. Persistent(c) \in BOOLEAN
  BY DEF Persistent
<1>3. epoch \in Nat
  BY DEF TaskType
<1>4. w \in Work
  BY <1>1, <1>2, <1>3 DEF Work
<1>5. work' = [work EXCEPT ![t] = w]
  BY DEF Launch
<1> QED BY <1>4, <1>5, RecordAssumption DEF TaskType

-------------------------------------------------------------------------------
(* References to secrets.                                                  *)

\* The saved configuration refers to this entry of the system keyring.
Referred(e) == Exists(e[1]) /\ conn[e[1]].status[e[2]] = "saved"

\* No secret is an orphan when each entry is referred to, and each secret in
\* memory is of a connection that exists.
LEMMA OrphanSplit ==
  /\ TypeOK => (NoOrphanSecret <=> /\ \A e \in keyring : Referred(e)
                                   /\ \A e \in memory : Exists(e[1]))
  /\ TypeOK' => (NoOrphanSecret' <=> /\ \A e \in keyring' : Referred(e)'
                                     /\ \A e \in memory' : Exists(e[1])')
<1>1. TypeOK => \A e \in keyring : e \in Entries /\ e[1] \in Connections
  BY DEF TypeOK, Entries
<1>2. TypeOK' => \A e \in keyring' : e \in Entries /\ e[1] \in Connections
  BY DEF TypeOK, Entries
<1>3. TypeOK => (NoOrphanSecret <=> /\ \A e \in keyring : Referred(e)
                                    /\ \A e \in memory : Exists(e[1]))
  BY <1>1 DEF NoOrphanSecret, Saved, Referred
<1>4. TypeOK' => (NoOrphanSecret' <=> /\ \A e \in keyring' : Referred(e)'
                                      /\ \A e \in memory' : Exists(e[1])')
  BY <1>2 DEF NoOrphanSecret, Saved, Referred
<1> QED BY <1>3, <1>4

\* A changed status concerns one slot of one connection.
LEMMA RestatusEffect ==
  ASSUME ConnType, NEW c \in Connections, NEW s \in Slots, NEW st \in Statuses,
         Exists(c), conn[c].revision < MaxRevision, conn' = Restatus(c, s, st)
  PROVE  /\ \A d \in Connections : Exists(d)' <=> Exists(d)
         /\ \A e \in Entries : e # <<c, s>> => (Referred(e)' <=> Referred(e))
         /\ Referred(<<c, s>>)' <=> st = "saved"
<1> DEFINE p == [revision |-> conn[c].revision + 1,
                 status |-> [conn[c].status EXCEPT ![s] = st]]
<1>1. conn[c] \in Profiles /\ conn[c] # NoConnection
  BY ProfileType DEF Exists
<1>2. conn' \in [Connections -> Profiles \cup {NoConnection}]
  BY RestatusType
<1>3. conn' = [conn EXCEPT ![c] = p]
  BY DEF Restatus
<1>4. conn'[c] = p /\ \A d \in Connections \ {c} : conn'[d] = conn[d]
  BY <1>3 DEF ConnType
<1>5. p \in Profiles
  <2>1. conn[c].revision + 1 \in 1 .. MaxRevision
    BY <1>1, BoundAssumption DEF Profiles
  <2> QED BY <1>1, <2>1 DEF Profiles
<1>6. conn'[c] # NoConnection
  BY <1>4, <1>5, RecordAssumption
<1>7. p.status[s] = st /\ \A z \in Slots \ {s} : p.status[z] = conn[c].status[z]
  BY <1>1 DEF Profiles
<1>8. ASSUME NEW e \in Entries, e # <<c, s>> PROVE Referred(e)' <=> Referred(e)
  <2>1. PICK d \in Connections, z \in Slots : e = <<d, z>>
    BY DEF Entries
  <2>2. CASE d = c
    <3>1. z # s
      BY <1>8, <2>1, <2>2
    <3>2. conn'[c].status[z] = conn[c].status[z]
      BY <1>4, <1>7, <3>1
    <3>3. e[1] = c /\ e[2] = z
      BY <2>1, <2>2
    <3> QED BY <1>1, <1>6, <3>2, <3>3 DEF Referred, Exists
  <2>3. CASE d # c
    BY <1>4, <2>1, <2>3 DEF Referred, Exists
  <2> QED BY <2>2, <2>3
<1>9. Referred(<<c, s>>)' <=> st = "saved"
  BY <1>4, <1>6, <1>7 DEF Referred, Exists
<1> QED BY <1>1, <1>4, <1>6, <1>8, <1>9 DEF Exists

-------------------------------------------------------------------------------
(* The parts of the invariant, step by step.                               *)

\* Every step keeps the type of the work.
LEMMA TaskTypeStep ==
  ASSUME TaskType, ConnType, [Next]_vars PROVE TaskType'
<1> USE NullAssumption, RecordAssumption
<1>1. CASE Undisturbed
  BY <1>1 DEF Undisturbed, TaskType
<1>2. CASE Invalidate
  BY <1>2, InvalidateType
<1>3. ASSUME NEW t \in Tasks, NEW c \in Connections, StartChat(t, c) \/
             StartDiscovery(t, c) \/ StartTest(t, c)
      PROVE  TaskType'
  <2>1. PICK kind \in {"chat", "discovery", "test"} : Launch(t, kind, c)
    BY <1>3 DEF StartChat, StartDiscovery, StartTest
  <2>2. {active', discovery', test'} \subseteq Tasks \cup {NoTask}
    BY <1>3 DEF StartChat, StartDiscovery, StartTest, TaskType
  <2> QED BY <2>1, <2>2, LaunchWork DEF Launch, TaskType
<1>4. ASSUME NEW t \in Tasks, ResolveCredentials(t)
      PROVE  TaskType'
  BY <1>4 DEF ResolveCredentials, Moves, StoreSide, Places, TaskType
<1>5. CASE LookupReturns
  BY <1>5 DEF LookupReturns, StoreSide, Places, TaskType
<1>6. ASSUME NEW t \in Tasks, AbandonLookup(t) \/ CheckReady(t) \/ Ask(t) \/
             RunTool(t) \/ WorkEnds(t)
      PROVE  TaskType'
  BY <1>6 DEF AbandonLookup, CheckReady, Ask, RunTool, WorkEnds, Moves, StoreSide, Places,
     TaskType
<1>7. ASSUME NEW t \in Tasks, EndWork(t)
      PROVE  TaskType'
  BY <1>7 DEF EndWork, Over, Moves, StoreSide, TaskType
<1>8. ASSUME NEW t \in Tasks, EndDiscoveryWithNews(t)
      PROVE  TaskType'
  <2>1. epoch' \in 1 .. MaxEpoch
    BY <1>8, BoundAssumption DEF EndDiscoveryWithNews, TaskType
  <2>2. flag' \in [Tasks -> BOOLEAN]
    BY <1>8 DEF EndDiscoveryWithNews, Over, TaskType
  <2> QED BY <1>8, <2>1, <2>2 DEF EndDiscoveryWithNews, Over, Moves, TaskType
<1>9. CASE CancelChat
  BY <1>9 DEF CancelChat, StoreSide, TaskType
<1>10. CASE Restart
  BY <1>10, BoundAssumption DEF Restart, TaskType
<1>11. CASE UNCHANGED vars
  BY <1>11 DEF vars, TaskType
<1> QED
  BY <1>1, <1>2, <1>3, <1>4, <1>5, <1>6, <1>7, <1>8, <1>9, <1>10, <1>11, NextSides,
     EditSideTasks DEF TaskSide, TaskStep

\* A place is only lost with the flag raised, or by the work itself as it ends.
LEMMA LiveInvStep ==
  ASSUME TypeOK, PlacesAreOwned, LiveInv, [Next]_vars PROVE LiveInv'
<1> USE NullAssumption, RecordAssumption
<1>1. CASE Undisturbed
  BY <1>1 DEF Undisturbed, LiveInv
<1>2. CASE Invalidate
  BY <1>2 DEF Invalidate, LiveInv, PlacesAreOwned, TypeOK, Kind
<1>3. ASSUME NEW t \in Tasks, NEW c \in Connections, StartChat(t, c) \/
             StartDiscovery(t, c) \/ StartTest(t, c)
      PROVE  LiveInv'
  <2>1. PICK kind \in {"chat", "discovery", "test"} : Launch(t, kind, c)
    BY <1>3 DEF StartChat, StartDiscovery, StartTest
  <2>2. /\ t \in {active', discovery', test'}
        /\ {active, discovery, test} \ {NoTask} \subseteq {active', discovery', test'}
    BY <1>3 DEF StartChat, StartDiscovery, StartTest
  <2>3. /\ at' = [at EXCEPT ![t] = "credentials"] /\ flag' = flag
        /\ work'[t] # NoTask /\ \A u \in Tasks \ {t} : work'[u] = work[u]
    BY <2>1, TypeSplit, LaunchWork DEF Launch, TypeOK
  <2>4. work[t] = NoTask
    BY <2>1 DEF Launch
  <2> QED BY <2>2, <2>3 DEF LiveInv, TypeOK
<1>4. ASSUME NEW t \in Tasks, ResolveCredentials(t)
      PROVE  LiveInv'
  BY <1>4 DEF ResolveCredentials, Moves, Places, LiveInv, TypeOK
<1>5. CASE LookupReturns
  BY <1>5 DEF LookupReturns, Places, LiveInv
<1>6. ASSUME NEW t \in Tasks, AbandonLookup(t) \/ CheckReady(t) \/ Ask(t) \/
             RunTool(t) \/ WorkEnds(t)
      PROVE  LiveInv'
  BY <1>6 DEF AbandonLookup, CheckReady, Ask, RunTool, WorkEnds, Moves, Places, LiveInv,
     TypeOK
<1>7. ASSUME NEW t \in Tasks, EndWork(t)
      PROVE  LiveInv'
  BY <1>7 DEF EndWork, Over, Moves, LiveInv, TypeOK
<1>8. ASSUME NEW t \in Tasks, EndDiscoveryWithNews(t)
      PROVE  LiveInv'
  BY <1>8 DEF EndDiscoveryWithNews, Over, Moves, LiveInv, PlacesAreOwned, TypeOK, Kind
<1>9. CASE CancelChat
  BY <1>9 DEF CancelChat, LiveInv, PlacesAreOwned, TypeOK
<1>10. CASE Restart
  BY <1>10 DEF Restart, LiveInv
<1>11. CASE UNCHANGED vars
  BY <1>11 DEF vars, LiveInv
<1> QED
  BY <1>1, <1>2, <1>3, <1>4, <1>5, <1>6, <1>7, <1>8, <1>9, <1>10, <1>11, NextSides,
     EditSideTasks DEF TaskSide, TaskStep

\* A place is taken by work of its kind, and given up by the work that holds
\* it.
LEMMA PlacesAreOwnedStep ==
  ASSUME TypeOK, LiveInv, ExclusiveInv, PlacesAreOwned, [Next]_vars PROVE PlacesAreOwned'
<1> USE NullAssumption, RecordAssumption
<1>1. CASE Undisturbed
  BY <1>1 DEF Undisturbed, PlacesAreOwned, Kind
<1>2. CASE Invalidate
  BY <1>2 DEF Invalidate, PlacesAreOwned
<1>3. ASSUME NEW t \in Tasks, NEW c \in Connections, StartChat(t, c) \/
             StartDiscovery(t, c) \/ StartTest(t, c)
      PROVE  PlacesAreOwned'
  BY <1>3 DEF StartChat, StartDiscovery, StartTest, Launch, LiveInv, PlacesAreOwned,
     TypeOK, Kind
<1>4. ASSUME NEW t \in Tasks, ResolveCredentials(t)
      PROVE  PlacesAreOwned'
  BY <1>4 DEF ResolveCredentials, Moves, Places, PlacesAreOwned, TypeOK, Kind
<1>5. CASE LookupReturns
  BY <1>5 DEF LookupReturns, Places, PlacesAreOwned, Kind
<1>6. ASSUME NEW t \in Tasks, AbandonLookup(t) \/ CheckReady(t) \/ Ask(t) \/
             RunTool(t) \/ WorkEnds(t)
      PROVE  PlacesAreOwned'
  BY <1>6 DEF AbandonLookup, CheckReady, Ask, RunTool, WorkEnds, Moves, Places,
     PlacesAreOwned, TypeOK, Kind
<1>7. ASSUME NEW t \in Tasks, EndWork(t)
      PROVE  PlacesAreOwned'
  BY <1>7 DEF EndWork, Over, Moves, PlacesAreOwned, Kind
<1>8. ASSUME NEW t \in Tasks, EndDiscoveryWithNews(t)
      PROVE  PlacesAreOwned'
  BY <1>8 DEF EndDiscoveryWithNews, PlacesAreOwned
<1>9. CASE CancelChat
  BY <1>9 DEF CancelChat, ExclusiveInv, PlacesAreOwned, Kind
<1>10. CASE Restart
  BY <1>10 DEF Restart, PlacesAreOwned
<1>11. CASE UNCHANGED vars
  BY <1>11 DEF vars, PlacesAreOwned, Kind
<1> QED
  BY <1>1, <1>2, <1>3, <1>4, <1>5, <1>6, <1>7, <1>8, <1>9, <1>10, <1>11, NextSides,
     EditSideTasks DEF TaskSide, TaskStep

\* A chat and a test each look for the other before they begin.
LEMMA ExclusiveInvStep ==
  ASSUME TypeOK, ExclusiveInv, [Next]_vars PROVE ExclusiveInv'
<1> USE NullAssumption, RecordAssumption
<1>1. CASE Undisturbed
  BY <1>1 DEF Undisturbed, ExclusiveInv
<1>2. CASE Invalidate
  BY <1>2 DEF Invalidate, ExclusiveInv
<1>3. ASSUME NEW t \in Tasks, NEW c \in Connections, StartChat(t, c) \/
             StartDiscovery(t, c) \/ StartTest(t, c)
      PROVE  ExclusiveInv'
  BY <1>3 DEF StartChat, StartDiscovery, StartTest, ExclusiveInv
<1>4. ASSUME NEW t \in Tasks, ResolveCredentials(t)
      PROVE  ExclusiveInv'
  BY <1>4 DEF ResolveCredentials, Places, ExclusiveInv
<1>5. CASE LookupReturns
  BY <1>5 DEF LookupReturns, Places, ExclusiveInv
<1>6. ASSUME NEW t \in Tasks, AbandonLookup(t) \/ CheckReady(t) \/ Ask(t) \/
             RunTool(t) \/ WorkEnds(t)
      PROVE  ExclusiveInv'
  BY <1>6 DEF AbandonLookup, CheckReady, Ask, RunTool, WorkEnds, Places, ExclusiveInv
<1>7. ASSUME NEW t \in Tasks, EndWork(t)
      PROVE  ExclusiveInv'
  BY <1>7 DEF EndWork, ExclusiveInv
<1>8. ASSUME NEW t \in Tasks, EndDiscoveryWithNews(t)
      PROVE  ExclusiveInv'
  BY <1>8 DEF EndDiscoveryWithNews, ExclusiveInv
<1>9. CASE CancelChat
  BY <1>9 DEF CancelChat, ExclusiveInv
<1>10. CASE Restart
  BY <1>10 DEF Restart, ExclusiveInv
<1>11. CASE UNCHANGED vars
  BY <1>11 DEF vars, ExclusiveInv
<1> QED
  BY <1>1, <1>2, <1>3, <1>4, <1>5, <1>6, <1>7, <1>8, <1>9, <1>10, <1>11, NextSides,
     EditSideTasks DEF TaskSide, TaskStep

\* Every step keeps the type of the configuration and of the two stores.
LEMMA ConnTypeStep ==
  ASSUME ConnType, EditType, RoomInv, [Next]_vars PROVE ConnType'
<1> USE NullAssumption, RecordAssumption
<1>1. ASSUME NEW c \in Connections, NEW needed \in SUBSET Slots, NEW noted \in
             BOOLEAN, SaveConnection(c, needed, noted)
      PROVE  ConnType'
  <2>1. conn' \in [Connections -> Profiles \cup {NoConnection}]
    <3>1. CASE Exists(c)
      <4>1. conn[c] \in Profiles /\ conn[c].revision + 1 \in 1 .. MaxRevision
        BY <1>1, <3>1, ProfileType, BoundAssumption DEF SaveConnection, Profiles
      <4>2. [conn[c] EXCEPT !.revision = @ + 1] \in Profiles
        BY <4>1 DEF Profiles
      <4> QED BY <1>1, <3>1, <4>2 DEF SaveConnection, ConnType
    <3>2. CASE ~Exists(c)
      <4> DEFINE p == [revision |-> 1,
                       status |-> [s \in Slots |-> IF s \in needed THEN "missing"
                                                  ELSE "not_required"]]
      <4>1. p \in Profiles
        BY BoundAssumption DEF Profiles, Statuses
      <4> QED BY <1>1, <3>2, <4>1 DEF SaveConnection, ConnType
    <3> QED BY <3>1, <3>2
  <2> QED BY <1>1, <2>1 DEF SaveConnection, ConnType
<1>2. ASSUME NEW c \in Connections, NEW needed \in SUBSET Slots,
             RetargetConnection(c, needed)
      PROVE  ConnType'
  BY <1>2 DEF RetargetConnection, ConnType
<1>3. ASSUME NEW c \in Connections, DeleteConnection(c)
      PROVE  ConnType'
  BY <1>3 DEF DeleteConnection, ConnType
<1>4. ASSUME NEW c \in Connections, NEW s \in Slots, SetTemporary(c, s)
      PROVE  ConnType'
  BY <1>4 DEF SetTemporary, ConnType
<1>5. ASSUME NEW c \in Connections, NEW s \in Slots, DeleteSecret(c, s)
      PROVE  ConnType'
  BY <1>5 DEF DeleteSecret, ConnType
<1>6. ASSUME NEW c \in Connections, NEW s \in Slots, SetSecret(c, s, TRUE)
      PROVE  ConnType'
  <2>1. conn' = Restatus(c, s, "saved") /\ Exists(c) /\ conn[c].revision < MaxRevision
    BY <1>6 DEF SetSecret
  <2>2. conn' \in [Connections -> Profiles \cup {NoConnection}]
    BY <2>1, RestatusType DEF Statuses
  <2> QED BY <1>6, <2>2 DEF SetSecret, ConnType
<1>7. ASSUME NEW c \in Connections, NEW s \in Slots, SetSecret(c, s, FALSE)
      PROVE  ConnType'
  BY <1>7 DEF SetSecret, ConnType
<1>8. CASE ClearAll
  BY <1>8 DEF ClearAll, ConnType
<1>9. ASSUME NEW e \in Entries, NEW ok \in BOOLEAN, KeyringCall(e, ok)
      PROVE  ConnType'
  BY <1>9 DEF KeyringCall, ConnType
<1>10. CASE FinishSet
  BY <1>10 DEF FinishSet, ConnType
<1>11. ASSUME NEW ok \in BOOLEAN, NEW noted \in BOOLEAN, FinishSave(ok, noted)
       PROVE  ConnType'
  <2>1. /\ edit # NoEdit /\ edit.kind = "save"
    BY <1>11 DEF FinishSave, Ready
  <2>2. conn[edit.conn].revision + 1 \in 1 .. MaxRevision /\ edit.conn \in Connections
    BY <2>1, ProfileType, BoundAssumption DEF RoomInv, Profiles
  <2> DEFINE p == [revision |-> conn[edit.conn].revision + 1,
                   status |-> [s \in Slots |-> IF s \in edit.slots
                                 THEN "missing" ELSE "not_required"]]
  <2>3. p \in Profiles
    BY <2>2 DEF Profiles, Statuses
  <2>4. conn' \in {conn, [conn EXCEPT ![edit.conn] = p]}
    BY <1>11 DEF FinishSave
  <2> QED BY <1>11, <2>3, <2>4 DEF FinishSave, WithoutSecrets, ConnType
<1>12. ASSUME NEW ok \in BOOLEAN, FinishDelete(ok)
       PROVE  ConnType'
  BY <1>12 DEF FinishDelete, Ready, WithoutSecrets, ConnType
<1>13. ASSUME NEW ok \in BOOLEAN, FinishSetTemporary(ok)
       PROVE  ConnType'
  <2>1. /\ edit # NoEdit /\ edit.kind = "set_temporary"
    BY <1>13 DEF FinishSetTemporary, Ready
  <2>2. PICK s \in Slots : /\ edit.slots = {s}
                           /\ conn' \in {conn, Restatus(edit.conn, s, "temporary")}
    BY <1>13, <2>1 DEF FinishSetTemporary, RoomInv
  <2>3. conn' \in [Connections -> Profiles \cup {NoConnection}]
    BY <2>1, <2>2, RestatusType DEF RoomInv, Statuses, ConnType
  <2>4. memory' \subseteq Entries
    BY <1>13, <2>1 DEF FinishSetTemporary, RoomInv, ConnType, Entries
  <2> QED BY <1>13, <2>3, <2>4 DEF FinishSetTemporary, ConnType
<1>14. ASSUME NEW ok \in BOOLEAN, FinishUnset(ok)
       PROVE  ConnType'
  <2>1. /\ edit # NoEdit /\ edit.kind = "unset"
    BY <1>14 DEF FinishUnset, Ready
  <2>2. PICK s \in Slots, st \in {"not_required", "missing"} :
          conn' \in {conn, Restatus(edit.conn, s, st)}
    BY <1>14, <2>1 DEF FinishUnset, RoomInv
  <2>3. conn' \in [Connections -> Profiles \cup {NoConnection}]
    BY <2>1, <2>2, RestatusType DEF RoomInv, Statuses, ConnType
  <2> QED BY <1>14, <2>3 DEF FinishUnset, ConnType
<1>15. ASSUME NEW ok \in BOOLEAN, FinishClear(ok)
       PROVE  ConnType'
  BY <1>15 DEF FinishClear, ConnType
<1>16. CASE TaskSide
  BY <1>16, TaskSideEdits DEF ConnType
<1>17. CASE Restart
  <2>1. ASSUME NEW c \in Connections, Exists(c)
        PROVE  [conn[c] EXCEPT !.status =
                  [s \in Slots |-> IF @[s] = "temporary" THEN "missing" ELSE @[s]]]
                 \in Profiles
    <3>1. conn[c] \in Profiles
      BY <2>1, ProfileType
    <3>2. [s \in Slots |-> IF conn[c].status[s] = "temporary" THEN "missing"
                          ELSE conn[c].status[s]] \in [Slots -> Statuses]
      BY <3>1 DEF Profiles, Statuses
    <3> QED BY <3>1, <3>2 DEF Profiles
  <2>2. conn' \in [Connections -> Profiles \cup {NoConnection}]
    BY <1>17, <2>1 DEF Restart
  <2> QED BY <1>17, <2>2 DEF Restart, ConnType
<1>18. CASE UNCHANGED vars
  BY <1>18 DEF vars, ConnType
<1> QED
  BY <1>1, <1>2, <1>3, <1>4, <1>5, <1>6, <1>7, <1>8, <1>9, <1>10, <1>11, <1>12, <1>13,
     <1>14, <1>15, <1>16, <1>17, <1>18, NextSides DEF EditSide, BeginsEdit, EditStep

\* While the guard is held no other handler deletes the connection or raises
\* its revision to the bound.
LEMMA RoomInvStep ==
  ASSUME TypeOK, GuardIsOwned, RoomInv, [Next]_vars PROVE RoomInv'
<1> USE NullAssumption, RecordAssumption
<1>1. ASSUME NEW c \in Connections, NEW needed \in SUBSET Slots, NEW noted \in
             BOOLEAN, SaveConnection(c, needed, noted)
      PROVE  RoomInv'
  BY <1>1 DEF SaveConnection, Resting, GuardIsOwned, RoomInv
<1>2. ASSUME NEW c \in Connections, NEW needed \in SUBSET Slots,
             RetargetConnection(c, needed)
      PROVE  RoomInv'
  BY <1>2 DEF RetargetConnection, Suspend, RoomInv, Exists
<1>3. ASSUME NEW c \in Connections, DeleteConnection(c)
      PROVE  RoomInv'
  BY <1>3 DEF DeleteConnection, Suspend, RoomInv, Exists
<1>4. ASSUME NEW c \in Connections, NEW s \in Slots, SetTemporary(c, s)
      PROVE  RoomInv'
  BY <1>4 DEF SetTemporary, Suspend, RoomInv, Exists
<1>5. ASSUME NEW c \in Connections, NEW s \in Slots, DeleteSecret(c, s)
      PROVE  RoomInv'
  BY <1>5 DEF DeleteSecret, Suspend, RoomInv, Exists
<1>6. ASSUME NEW c \in Connections, NEW s \in Slots, SetSecret(c, s, TRUE)
      PROVE  RoomInv'
  <2>1. /\ edit' = [kind |-> "set", conn |-> c, slots |-> {s}, left |-> {<<c, s>>},
                    failed |-> FALSE]
        /\ conn' = Restatus(c, s, "saved") /\ Exists(c) /\ conn[c].revision < MaxRevision
    BY <1>6 DEF SetSecret, Suspend
  <2>2. Exists(c)'
    BY <2>1, TypeSplit, RestatusEffect DEF Statuses
  <2> QED BY <2>1, <2>2 DEF RoomInv
<1>7. ASSUME NEW c \in Connections, NEW s \in Slots, SetSecret(c, s, FALSE)
      PROVE  RoomInv'
  BY <1>7 DEF SetSecret, Resting, RoomInv, Exists
<1>8. CASE ClearAll
  BY <1>8 DEF ClearAll, Suspend, RoomInv
<1>9. ASSUME NEW e \in Entries, NEW ok \in BOOLEAN, KeyringCall(e, ok)
      PROVE  RoomInv'
  <2>1. /\ edit # NoEdit /\ conn' = conn
        /\ \/ edit' = NoEdit
           \/ /\ edit'.kind = edit.kind /\ edit'.conn = edit.conn
              /\ edit'.slots = edit.slots
    BY <1>9, TypeSplit, KeyringCallEdit
  <2> QED BY <2>1 DEF RoomInv, Exists
<1>10. CASE FinishSet
  BY <1>10 DEF FinishSet, Ready, RoomInv
<1>11. ASSUME NEW ok \in BOOLEAN, NEW noted \in BOOLEAN, FinishSave(ok, noted)
       PROVE  RoomInv'
  BY <1>11 DEF FinishSave, Ready, RoomInv
<1>12. ASSUME NEW ok \in BOOLEAN, FinishDelete(ok)
       PROVE  RoomInv'
  BY <1>12 DEF FinishDelete, Ready, RoomInv
<1>13. ASSUME NEW ok \in BOOLEAN, FinishSetTemporary(ok)
       PROVE  RoomInv'
  BY <1>13 DEF FinishSetTemporary, Ready, RoomInv
<1>14. ASSUME NEW ok \in BOOLEAN, FinishUnset(ok)
       PROVE  RoomInv'
  BY <1>14 DEF FinishUnset, Ready, RoomInv
<1>15. ASSUME NEW ok \in BOOLEAN, FinishClear(ok)
       PROVE  RoomInv'
  BY <1>15 DEF FinishClear, RoomInv
<1>16. CASE TaskSide
  BY <1>16, TaskSideEdits DEF RoomInv, Exists
<1>17. CASE Restart
  BY <1>17 DEF Restart, RoomInv
<1>18. CASE UNCHANGED vars
  BY <1>18 DEF vars, RoomInv, Exists
<1> QED
  BY <1>1, <1>2, <1>3, <1>4, <1>5, <1>6, <1>7, <1>8, <1>9, <1>10, <1>11, <1>12, <1>13,
     <1>14, <1>15, <1>16, <1>17, <1>18, NextSides DEF EditSide, BeginsEdit, EditStep

\* An entry is struck off the list when the keyring has removed it, and the one
\* handler that writes entries holds the guard itself.
LEMMA LeftInvStep ==
  ASSUME TypeOK, GuardIsOwned, RoomInv, NoOrphanSecret, LeftInv, [Next]_vars PROVE LeftInv'
<1> USE NullAssumption, RecordAssumption
<1>1. ASSUME NEW c \in Connections, NEW needed \in SUBSET Slots, NEW noted \in
             BOOLEAN, SaveConnection(c, needed, noted)
      PROVE  LeftInv'
  BY <1>1 DEF SaveConnection, Resting, GuardIsOwned, LeftInv
<1>2. ASSUME NEW c \in Connections, NEW needed \in SUBSET Slots,
             RetargetConnection(c, needed)
      PROVE  LeftInv'
  BY <1>2 DEF RetargetConnection, Suspend, NoOrphanSecret, LeftInv, Doomed, Saved
<1>3. ASSUME NEW c \in Connections, DeleteConnection(c)
      PROVE  LeftInv'
  BY <1>3 DEF DeleteConnection, Suspend, NoOrphanSecret, LeftInv, Doomed, Saved
<1>4. ASSUME NEW c \in Connections, NEW s \in Slots, SetTemporary(c, s)
      PROVE  LeftInv'
  BY <1>4 DEF SetTemporary, Suspend, NoOrphanSecret, LeftInv, Doomed, Saved, Entries
<1>5. ASSUME NEW c \in Connections, NEW s \in Slots, DeleteSecret(c, s)
      PROVE  LeftInv'
  BY <1>5 DEF DeleteSecret, Suspend, NoOrphanSecret, LeftInv, Doomed, Saved, Entries
<1>6. ASSUME NEW c \in Connections, NEW s \in Slots, SetSecret(c, s, TRUE)
      PROVE  LeftInv'
  <2>1. /\ edit' = [kind |-> "set", conn |-> c, slots |-> {s}, left |-> {<<c, s>>},
                    failed |-> FALSE]
        /\ conn' = Restatus(c, s, "saved") /\ Exists(c) /\ conn[c].revision < MaxRevision
    BY <1>6 DEF SetSecret, Suspend
  <2>2. Referred(<<c, s>>)'
    BY <2>1, TypeSplit, RestatusEffect DEF Statuses
  <2>3. edit'.left \subseteq Saved(c)'
    BY <2>1, <2>2 DEF Saved, Referred, Entries
  <2> QED BY <2>1, <2>3 DEF LeftInv, Doomed
<1>7. ASSUME NEW c \in Connections, NEW s \in Slots, SetSecret(c, s, FALSE)
      PROVE  LeftInv'
  BY <1>7 DEF SetSecret, Resting, LeftInv, Doomed, Saved, Exists
<1>8. CASE ClearAll
  BY <1>8 DEF ClearAll, Suspend, NoOrphanSecret, LeftInv
<1>9. ASSUME NEW e \in Entries, NEW ok \in BOOLEAN, KeyringCall(e, ok)
      PROVE  LeftInv'
  <2>1. /\ edit # NoEdit /\ conn' = conn
        /\ \/ edit' = NoEdit
           \/ /\ edit'.kind = edit.kind /\ edit'.conn = edit.conn
              /\ edit'.slots = edit.slots
              /\ edit'.left = IF ok THEN edit.left \ {e} ELSE edit.left
    BY <1>9, TypeSplit, KeyringCallEdit
  <2>2. keyring' = IF ~ok THEN keyring
                   ELSE IF edit.kind = "set" THEN keyring \cup {e} ELSE keyring \ {e}
    BY <1>9 DEF KeyringCall
  <2>3. edit.kind = "set" => edit'.kind # "set" \/ \A d : ~Doomed(d)'
    BY DEF Doomed
  <2>4. CASE edit' # NoEdit /\ edit.kind = "set"
    BY <2>1, <2>4 DEF LeftInv, Doomed, Saved, Exists
  <2>5. CASE edit' # NoEdit /\ edit.kind # "set"
    <3>1. \A d : Doomed(d)' <=> Doomed(d)
      BY <2>1, <2>5 DEF Doomed
    <3> QED BY <2>1, <2>2, <2>5, <3>1 DEF LeftInv
  <2> QED BY <2>4, <2>5 DEF LeftInv
<1>10. CASE FinishSet
  BY <1>10 DEF FinishSet, Ready, LeftInv
<1>11. ASSUME NEW ok \in BOOLEAN, NEW noted \in BOOLEAN, FinishSave(ok, noted)
       PROVE  LeftInv'
  BY <1>11 DEF FinishSave, Ready, LeftInv
<1>12. ASSUME NEW ok \in BOOLEAN, FinishDelete(ok)
       PROVE  LeftInv'
  BY <1>12 DEF FinishDelete, Ready, LeftInv
<1>13. ASSUME NEW ok \in BOOLEAN, FinishSetTemporary(ok)
       PROVE  LeftInv'
  BY <1>13 DEF FinishSetTemporary, Ready, LeftInv
<1>14. ASSUME NEW ok \in BOOLEAN, FinishUnset(ok)
       PROVE  LeftInv'
  BY <1>14 DEF FinishUnset, Ready, LeftInv
<1>15. ASSUME NEW ok \in BOOLEAN, FinishClear(ok)
       PROVE  LeftInv'
  BY <1>15 DEF FinishClear, LeftInv
<1>16. CASE TaskSide
  BY <1>16, TaskSideEdits DEF LeftInv, Doomed, Saved, Exists
<1>17. CASE Restart
  BY <1>17 DEF Restart, LeftInv
<1>18. CASE UNCHANGED vars
  BY <1>18 DEF vars, LeftInv, Doomed, Saved, Exists
<1> QED
  BY <1>1, <1>2, <1>3, <1>4, <1>5, <1>6, <1>7, <1>8, <1>9, <1>10, <1>11, <1>12, <1>13,
     <1>14, <1>15, <1>16, <1>17, <1>18, NextSides DEF EditSide, BeginsEdit, EditStep

\* A finished edit refers to what it wrote, and drops its references only when
\* nothing is left to remove.
LEMMA NoOrphanSecretStep ==
  ASSUME TypeOK, TypeOK', GuardIsOwned, RoomInv, LeftInv, NoOrphanSecret, [Next]_vars PROVE NoOrphanSecret'
<1> USE NullAssumption, RecordAssumption
<1>1. ASSUME NEW c \in Connections, NEW needed \in SUBSET Slots, NEW noted \in
             BOOLEAN, SaveConnection(c, needed, noted)
      PROVE  NoOrphanSecret'
  <2>1. UNCHANGED <<memory, keyring>>
    BY <1>1 DEF SaveConnection
  <2>2. ASSUME NEW d \in Connections, Exists(d)
        PROVE  Exists(d)' /\ conn'[d].status = conn[d].status
    <3>1. CASE d # c
      BY <1>1, <2>2, <3>1 DEF SaveConnection, Exists
    <3>2. CASE d = c
      <4>1. conn'[c] = [conn[c] EXCEPT !.revision = @ + 1] /\ conn[c] \in Profiles
        BY <1>1, <2>2, <3>2, TypeSplit, ProfileType DEF SaveConnection, ConnType
      <4>2. conn[c].revision + 1 \in 1 .. MaxRevision
        BY <1>1, <4>1, BoundAssumption DEF SaveConnection, Profiles
      <4>3. conn'[c] \in Profiles /\ conn'[c].status = conn[c].status
        BY <4>1, <4>2 DEF Profiles
      <4> QED BY <3>2, <4>3 DEF Exists
    <3> QED BY <3>1, <3>2
  <2>3. \A e \in Entries : Referred(e) => Referred(e)'
    BY <2>2 DEF Referred, Entries
  <2> QED BY <2>1, <2>2, <2>3, OrphanSplit DEF TypeOK, Entries
<1>2. ASSUME NEW c \in Connections, NEW needed \in SUBSET Slots,
             RetargetConnection(c, needed)
      PROVE  NoOrphanSecret'
  BY <1>2 DEF RetargetConnection, NoOrphanSecret, Saved, Exists
<1>3. ASSUME NEW c \in Connections, DeleteConnection(c)
      PROVE  NoOrphanSecret'
  BY <1>3 DEF DeleteConnection, NoOrphanSecret, Saved, Exists
<1>4. ASSUME NEW c \in Connections, NEW s \in Slots, SetTemporary(c, s)
      PROVE  NoOrphanSecret'
  BY <1>4 DEF SetTemporary, NoOrphanSecret, Saved, Exists
<1>5. ASSUME NEW c \in Connections, NEW s \in Slots, DeleteSecret(c, s)
      PROVE  NoOrphanSecret'
  BY <1>5 DEF DeleteSecret, NoOrphanSecret, Saved, Exists
<1>6. ASSUME NEW c \in Connections, NEW s \in Slots, SetSecret(c, s, TRUE)
      PROVE  NoOrphanSecret'
  <2>1. /\ conn' = Restatus(c, s, "saved") /\ Exists(c) /\ conn[c].revision < MaxRevision
        /\ keyring' = keyring /\ memory' \subseteq memory
    BY <1>6 DEF SetSecret
  <2>2. /\ \A d \in Connections : Exists(d)' <=> Exists(d)
        /\ \A e \in Entries : Referred(e) => Referred(e)'
    BY <2>1, TypeSplit, RestatusEffect DEF Statuses
  <2> QED BY <2>1, <2>2, OrphanSplit DEF TypeOK, Entries
<1>7. ASSUME NEW c \in Connections, NEW s \in Slots, SetSecret(c, s, FALSE)
      PROVE  NoOrphanSecret'
  BY <1>7 DEF SetSecret, NoOrphanSecret, Saved, Exists
<1>8. CASE ClearAll
  BY <1>8 DEF ClearAll, NoOrphanSecret, Saved, Exists
<1>9. ASSUME NEW e \in Entries, NEW ok \in BOOLEAN, KeyringCall(e, ok)
      PROVE  NoOrphanSecret'
  BY <1>9 DEF KeyringCall, LeftInv, NoOrphanSecret, Saved, Exists, Entries
<1>10. CASE FinishSet
  BY <1>10 DEF FinishSet, NoOrphanSecret, Saved, Exists
<1>11. ASSUME NEW ok \in BOOLEAN, NEW noted \in BOOLEAN, FinishSave(ok, noted)
       PROVE  NoOrphanSecret'
  BY <1>11 DEF FinishSave, Ready, WithoutSecrets, LeftInv, Doomed, NoOrphanSecret, Saved,
     Exists, Entries
<1>12. ASSUME NEW ok \in BOOLEAN, FinishDelete(ok)
       PROVE  NoOrphanSecret'
  BY <1>12 DEF FinishDelete, Ready, WithoutSecrets, LeftInv, Doomed, NoOrphanSecret,
     Saved, Exists
<1>13. ASSUME NEW ok \in BOOLEAN, FinishSetTemporary(ok)
       PROVE  NoOrphanSecret'
  <2>1. edit # NoEdit /\ edit.kind = "set_temporary" /\ edit.left = {} /\ keyring' = keyring
    BY <1>13 DEF FinishSetTemporary, Ready
  <2>2. PICK s \in Slots :
          /\ edit.slots = {s}
          /\ conn' \in {conn, Restatus(edit.conn, s, "temporary")}
    BY <1>13, <2>1 DEF FinishSetTemporary, RoomInv
  <2>3. /\ edit.conn \in Connections /\ Exists(edit.conn)
        /\ conn[edit.conn].revision < MaxRevision
    BY <2>1 DEF RoomInv
  <2>4. /\ \A d \in Connections : Exists(d)' <=> Exists(d)
        /\ \A e \in Entries : e # <<edit.conn, s>> => (Referred(e)' <=> Referred(e))
    <3>1. CASE conn' = conn
      BY <3>1 DEF Exists, Referred
    <3>2. CASE conn' = Restatus(edit.conn, s, "temporary")
      BY <2>3, <3>2, TypeSplit, RestatusEffect DEF Statuses
    <3> QED BY <2>2, <3>1, <3>2
  <2>5. <<edit.conn, s>> \notin keyring
    BY <2>1, <2>2 DEF LeftInv, Doomed
  <2>6. \A e \in memory' : e \in memory \/ e[1] = edit.conn
    BY <1>13 DEF FinishSetTemporary
  <2> QED BY <2>1, <2>3, <2>4, <2>5, <2>6, OrphanSplit DEF TypeOK, Entries
<1>14. ASSUME NEW ok \in BOOLEAN, FinishUnset(ok)
       PROVE  NoOrphanSecret'
  <2>1. edit # NoEdit /\ edit.kind = "unset" /\ edit.left = {} /\ keyring' = keyring
    BY <1>14 DEF FinishUnset, Ready
  <2>2. PICK s \in Slots, st \in {"not_required", "missing"} :
          /\ edit.slots = {s}
          /\ conn' \in {conn, Restatus(edit.conn, s, st)}
    BY <1>14, <2>1 DEF FinishUnset, RoomInv
  <2>3. /\ edit.conn \in Connections /\ Exists(edit.conn)
        /\ conn[edit.conn].revision < MaxRevision
    BY <2>1 DEF RoomInv
  <2>4. /\ \A d \in Connections : Exists(d)' <=> Exists(d)
        /\ \A e \in Entries : e # <<edit.conn, s>> => (Referred(e)' <=> Referred(e))
    <3>1. CASE conn' = conn
      BY <3>1 DEF Exists, Referred
    <3>2. CASE conn' = Restatus(edit.conn, s, st)
      BY <2>3, <3>2, TypeSplit, RestatusEffect DEF Statuses
    <3> QED BY <2>2, <3>1, <3>2
  <2>5. <<edit.conn, s>> \notin keyring
    BY <2>1, <2>2 DEF LeftInv, Doomed
  <2>6. \A e \in memory' : e \in memory \/ e[1] = edit.conn
    BY <1>14 DEF FinishUnset
  <2> QED BY <2>1, <2>3, <2>4, <2>5, <2>6, OrphanSplit DEF TypeOK, Entries
<1>15. ASSUME NEW ok \in BOOLEAN, FinishClear(ok)
       PROVE  NoOrphanSecret'
  BY <1>15 DEF FinishClear, LeftInv, Doomed, NoOrphanSecret, Saved, Exists
<1>16. CASE TaskSide
  BY <1>16, TaskSideEdits DEF NoOrphanSecret, Saved, Exists
<1>17. CASE Restart
  <2>1. memory' = {} /\ keyring' = keyring
    BY <1>17 DEF Restart
  <2>2. ASSUME NEW c \in Connections, NEW s \in Slots, Referred(<<c, s>>)
        PROVE  Referred(<<c, s>>)'
    <3>1. conn[c] \in Profiles /\ conn[c] # NoConnection /\ conn[c].status[s] = "saved"
      BY <2>2, TypeSplit, ProfileType DEF Referred
    <3> DEFINE p == [conn[c] EXCEPT !.status =
                      [z \in Slots |-> IF @[z] = "temporary" THEN "missing" ELSE @[z]]]
    <3>2. conn'[c] = p
      BY <1>17, <3>1 DEF Restart, Exists
    <3>3. p.status[s] = "saved" /\ p \in Profiles
      BY <3>1 DEF Profiles, Statuses
    <3> QED BY <3>2, <3>3, RecordAssumption DEF Referred, Exists
  <2>3. \A e \in Entries : Referred(e) => Referred(e)'
    BY <2>2 DEF Entries
  <2> QED BY <2>1, <2>3, OrphanSplit DEF TypeOK
<1>18. CASE UNCHANGED vars
  BY <1>18 DEF vars, NoOrphanSecret, Saved, Exists
<1> QED
  BY <1>1, <1>2, <1>3, <1>4, <1>5, <1>6, <1>7, <1>8, <1>9, <1>10, <1>11, <1>12, <1>13,
     <1>14, <1>15, <1>16, <1>17, <1>18, NextSides DEF EditSide, BeginsEdit, EditStep

\* An edit takes the guard with it and gives it back.
LEMMA EditSideGuard ==
  ASSUME EditType, EditSide
  PROVE  /\ looking' = looking
         /\ \/ ~guard /\ guard' = TRUE /\ edit' \in Edits /\ edit' # NoEdit
            \/ edit # NoEdit /\ edit' \in Edits /\ edit' # NoEdit /\ guard' = guard
            \/ edit # NoEdit /\ edit' = NoEdit /\ guard' = FALSE
            \/ edit' = edit /\ guard' = guard
         /\ \/ Invalidate /\ clearing' \in {clearing, TRUE}
            \/ UNCHANGED <<active, test>> /\ clearing' \in {clearing, FALSE}
<1>1. CASE BeginsEdit
  BY <1>1, BeginEdit
<1>2. ASSUME NEW e \in Entries, NEW ok \in BOOLEAN, KeyringCall(e, ok)
      PROVE  /\ edit # NoEdit /\ UNCHANGED <<looking, clearing, active, test>>
             /\ \/ edit' \in Edits /\ edit' # NoEdit /\ guard' = guard
                \/ edit' = NoEdit /\ guard' = FALSE
  <2>1. UNCHANGED <<active, test>>
    BY <1>2 DEF KeyringCall, Undisturbed
  <2> QED BY <1>2, <2>1, KeyringCallEdit
<1>3. CASE EditStep /\ ~(\E e \in Entries, ok \in BOOLEAN : KeyringCall(e, ok))
  <2>1. CASE \E ok \in BOOLEAN : FinishClear(ok)
    BY <2>1 DEF FinishClear, Undisturbed
  <2>2. CASE FinishSet
    BY <2>2 DEF FinishSet, Ready, Undisturbed
  <2>3. CASE \E ok \in BOOLEAN : FinishDelete(ok) \/ FinishSetTemporary(ok) \/ FinishUnset(ok)
    BY <2>3 DEF FinishDelete, FinishSetTemporary, FinishUnset, Ready, Undisturbed
  <2>4. CASE \E ok \in BOOLEAN, noted \in BOOLEAN : FinishSave(ok, noted)
    BY <2>4 DEF FinishSave, Ready, Undisturbed, Invalidate
  <2> QED BY <1>3, <2>1, <2>2, <2>3, <2>4 DEF EditStep
<1>4. CASE \E c \in Connections :
             \/ \E needed \in SUBSET Slots, noted \in BOOLEAN :
                  SaveConnection(c, needed, noted)
             \/ \E s \in Slots : SetSecret(c, s, FALSE)
  BY <1>4 DEF SaveConnection, SetSecret, Resting, Undisturbed, Invalidate
<1> QED BY <1>1, <1>2, <1>3, <1>4 DEF EditSide

\* Work leaves the guard, or takes and returns it for its own lookup.
LEMMA TaskSideGuard ==
  ASSUME TaskType, TaskSide
  PROVE  \/ UNCHANGED <<guard, looking>>
         \/ ~guard /\ guard' = TRUE /\ looking' \in Tasks
         \/ looking # NoTask /\ guard' = FALSE /\ looking' = NoTask
<1>1. CASE LookupReturns \/ CancelChat
  BY <1>1 DEF LookupReturns, CancelChat
<1>2. ASSUME NEW t \in Tasks, NEW c \in Connections,
             StartChat(t, c) \/ StartDiscovery(t, c) \/ StartTest(t, c)
      PROVE  UNCHANGED <<guard, looking>>
  BY <1>2 DEF StartChat, StartDiscovery, StartTest, Launch
<1>3. ASSUME NEW t \in Tasks, TaskStep(t), ~ResolveCredentials(t)
      PROVE  UNCHANGED <<guard, looking>>
  BY <1>3 DEF TaskStep, AbandonLookup, CheckReady, Ask, RunTool, WorkEnds, EndWork,
     EndDiscoveryWithNews
<1>4. ASSUME NEW t \in Tasks, ResolveCredentials(t)
      PROVE  \/ UNCHANGED <<guard, looking>>
             \/ ~guard /\ guard' = TRUE /\ looking' \in Tasks
  BY <1>4 DEF ResolveCredentials
<1> QED BY <1>1, <1>2, <1>3, <1>4 DEF TaskSide

\* Every step keeps the type of the edit.
LEMMA EditTypeStep ==
  ASSUME EditType, TaskType, [Next]_vars PROVE EditType'
<1>1. CASE EditSide
  BY <1>1, EditSideGuard DEF EditType
<1>2. CASE TaskSide
  BY <1>2, TaskSideGuard, TaskSideEdits DEF EditType
<1>3. CASE Restart \/ UNCHANGED vars
  BY <1>3 DEF Restart, vars, EditType
<1> QED BY <1>1, <1>2, <1>3, NextSides

\* The guard is held by an edit or by a lookup, and by one of them.
LEMMA GuardIsOwnedStep ==
  ASSUME EditType, TaskType, GuardIsOwned, [Next]_vars PROVE GuardIsOwned'
<1> USE NullAssumption, RecordAssumption
<1>1. CASE EditSide
  <2>1. /\ looking' = looking
        /\ \/ ~guard /\ guard' /\ edit' # NoEdit
           \/ edit # NoEdit /\ edit' # NoEdit /\ (guard' <=> guard)
           \/ edit # NoEdit /\ edit' = NoEdit /\ ~guard'
           \/ edit' = edit /\ (guard' <=> guard)
    <3>1. /\ looking' = looking
          /\ \/ ~guard /\ guard' = TRUE /\ edit' # NoEdit
             \/ edit # NoEdit /\ edit' # NoEdit /\ guard' = guard
             \/ edit # NoEdit /\ edit' = NoEdit /\ guard' = FALSE
             \/ edit' = edit /\ guard' = guard
      BY <1>1, EditSideGuard
    <3>2. /\ guard' = TRUE => guard'
          /\ guard' = FALSE => ~guard'
          /\ guard' = guard => (guard' <=> guard)
      OBVIOUS
    <3> QED BY <3>1, <3>2
  <2> QED BY <2>1 DEF GuardIsOwned
<1>2. CASE TaskSide
  <2>1. edit' = edit
    BY <1>2, TaskSideEdits
  <2>2. \/ (guard' <=> guard) /\ looking' = looking
        \/ ~guard /\ guard' /\ looking' # NoTask
        \/ looking # NoTask /\ ~guard' /\ looking' = NoTask
    BY <1>2, TaskSideGuard, Zenon
  <2> QED BY <2>1, <2>2 DEF GuardIsOwned
<1>3. CASE Restart \/ UNCHANGED vars
  BY <1>3 DEF Restart, vars, GuardIsOwned
<1> QED BY <1>1, <1>2, <1>3, NextSides

\* While clear_all has given the mutex up no chat and no test can be begun, and
\* those that were under way lost their places when it began.
LEMMA ClearingIsQuietStep ==
  ASSUME EditType, ClearingIsQuiet, [Next]_vars PROVE ClearingIsQuiet'
<1> USE DEF ClearingIsQuiet
<1>1. CASE EditSide
  BY <1>1, EditSideGuard DEF EditType, Invalidate
<1>2. CASE TaskSide
  <2>1. clearing' = clearing
    BY <1>2, TaskSideEdits
  <2>2. CASE LookupReturns \/ CancelChat
    BY <2>1, <2>2 DEF LookupReturns, CancelChat, Places
  <2>3. ASSUME NEW t \in Tasks, NEW c \in Connections,
               StartChat(t, c) \/ StartDiscovery(t, c) \/ StartTest(t, c)
        PROVE  ~clearing \/ UNCHANGED <<active, test>>
    BY <2>3 DEF StartChat, StartDiscovery, StartTest
  <2>4. ASSUME NEW t \in Tasks, TaskStep(t)
        PROVE  active' \in {active, NoTask} /\ test' \in {test, NoTask}
    BY <2>4 DEF TaskStep, ResolveCredentials, AbandonLookup, CheckReady, Ask, RunTool,
       WorkEnds, EndWork, EndDiscoveryWithNews, Places
  <2> QED BY <1>2, <2>1, <2>2, <2>3, <2>4 DEF TaskSide
<1>3. CASE Restart \/ UNCHANGED vars
  BY <1>3 DEF Restart, vars
<1> QED BY <1>1, <1>2, <1>3, NextSides

-------------------------------------------------------------------------------
(* The theorems.                                                           *)

\* The inductive invariant.
ConnInv ==
  /\ TypeOK
  /\ LiveInv /\ ExclusiveInv /\ PlacesAreOwned
  /\ GuardIsOwned /\ ClearingIsQuiet
  /\ RoomInv /\ LeftInv /\ NoOrphanSecret

\* It holds from the start and through every step.
LEMMA ConnInvariant == Spec => []ConnInv
<1>1. Init => ConnInv
  <2> SUFFICES ASSUME Init PROVE ConnInv
    OBVIOUS
  <2> USE NullAssumption, RecordAssumption, BoundAssumption DEF Init
  <2>1. TypeOK
    <3>1. 1 \in 1 .. MaxEpoch
      OBVIOUS
    <3> QED BY <3>1 DEF TypeOK
  <2>2. LiveInv /\ ExclusiveInv /\ PlacesAreOwned
    BY DEF LiveInv, ExclusiveInv, PlacesAreOwned
  <2>3. GuardIsOwned /\ ClearingIsQuiet /\ RoomInv /\ LeftInv
    BY DEF GuardIsOwned, ClearingIsQuiet, RoomInv, LeftInv
  <2>4. NoOrphanSecret
    BY DEF NoOrphanSecret
  <2> QED BY <2>1, <2>2, <2>3, <2>4 DEF ConnInv
<1>2. ASSUME ConnInv, [Next]_vars PROVE ConnInv'
  <2> USE <1>2 DEF ConnInv
  <2>1. ConnType /\ EditType /\ TaskType
    BY TypeSplit
  <2>2. TypeOK'
    BY <2>1, ConnTypeStep, EditTypeStep, TaskTypeStep, TypeSplitNext
  <2>3. LiveInv' /\ ExclusiveInv' /\ PlacesAreOwned'
    BY LiveInvStep, ExclusiveInvStep, PlacesAreOwnedStep
  <2>4. GuardIsOwned' /\ ClearingIsQuiet'
    BY <2>1, GuardIsOwnedStep, ClearingIsQuietStep
  <2>5. RoomInv' /\ LeftInv' /\ NoOrphanSecret'
    BY <2>2, RoomInvStep, LeftInvStep, NoOrphanSecretStep
  <2> QED BY <2>2, <2>3, <2>4, <2>5
<1> QED BY <1>1, <1>2, PTL DEF Spec

\* Every variable keeps its type, the record of a suspended edit included.
THEOREM ConnectionsTypeCorrect == Spec => []TypeOK
<1>1. ConnInv => TypeOK
  BY DEF ConnInv
<1> QED BY <1>1, ConnInvariant, PTL

\* keyring_io: the guard is held exactly while an edit is suspended or a lookup
\* is running, so it is neither leaked by a handler that returns early nor
\* released by one that does not hold it.
THEOREM GuardCorrect == Spec => []GuardIsOwned
<1>1. ConnInv => GuardIsOwned
  BY DEF ConnInv
<1> QED BY <1>1, ConnInvariant, PTL

\* Each of the three places is held by live work of its own kind.
THEOREM PlacesCorrect == Spec => []PlacesAreOwned
<1>1. ConnInv => PlacesAreOwned
  BY DEF ConnInv
<1> QED BY <1>1, ConnInvariant, PTL

\* start_chat, test_connection and discovery: of the work that was not
\* cancelled, only a discovery is beside a chat or a test.
THEOREM ExclusiveCorrect == Spec => []ModelUseIsExclusive
<1>1. ASSUME ConnInv PROVE ModelUseIsExclusive
  <2> SUFFICES ASSUME NEW t \in Tasks, NEW u \in Tasks, t # u,
                      at[t] # "none", at[u] # "none", ~flag[t], ~flag[u]
               PROVE  (Kind(t) = "discovery") # (Kind(u) = "discovery")
    BY DEF ModelUseIsExclusive
  <2>1. t \in {active, discovery, test} /\ u \in {active, discovery, test}
    BY <1>1 DEF ConnInv, LiveInv
  <2>2. /\ Kind(t) = "discovery" <=> t = discovery
        /\ Kind(u) = "discovery" <=> u = discovery
    BY <1>1, <2>1, NullAssumption DEF ConnInv, PlacesAreOwned
  <2>3. {t, u} # {active, test}
    BY <1>1, NullAssumption DEF ConnInv, ExclusiveInv
  <2> QED BY <2>1, <2>2, <2>3
<1> QED BY <1>1, ConnInvariant, PTL

\* clear_all: from the invalidation to the end of the keys no chat and no test
\* holds a place.
THEOREM ClearingCorrect == Spec => []ClearingIsQuiet
<1>1. ConnInv => ClearingIsQuiet
  BY DEF ConnInv
<1> QED BY <1>1, ConnInvariant, PTL

\* save_connection, delete_connection, the handlers of secrets and clear_all:
\* whatever the system store refuses or grants on the way, no secret stays in
\* it without a reference, and none in memory of a connection that is gone.
THEOREM NoOrphanCorrect == Spec => []NoOrphanSecret
<1>1. ConnInv => NoOrphanSecret
  BY DEF ConnInv
<1> QED BY <1>1, ConnInvariant, PTL

\* A step that changes the target of a connection never leaves it with a secret
\* entered for the old one.
THEOREM TargetCorrect == Spec => SecretsStayWithTarget
<1>1. ConnInv /\ [Next]_vars =>
        (edit # NoEdit /\ edit.kind = "save"
         /\ conn'[edit.conn].revision # conn[edit.conn].revision =>
           \A e \in memory' \cup keyring' : e[1] # edit.conn)
  <2> SUFFICES ASSUME ConnInv, [Next]_vars, edit # NoEdit, edit.kind = "save",
                      conn'[edit.conn].revision # conn[edit.conn].revision
               PROVE  \A e \in memory' \cup keyring' : e[1] # edit.conn
    OBVIOUS
  <2> USE DEF ConnInv
  <2>1. edit.conn \in Connections /\ Exists(edit.conn) /\ guard
    BY DEF RoomInv, GuardIsOwned
  <2>2. conn[edit.conn] \in Profiles
    BY <2>1, TypeSplit, ProfileType
  <2>3. ASSUME NEW ok \in BOOLEAN, NEW noted \in BOOLEAN, FinishSave(ok, noted)
        PROVE  \A e \in memory' \cup keyring' : e[1] # edit.conn
    <3>1. edit.left = {} /\ keyring' = keyring /\ memory' = WithoutSecrets(edit.conn)
      BY <2>3 DEF FinishSave, Ready
    <3>2. \A e \in keyring : e[1] # edit.conn
      BY <3>1 DEF LeftInv, Doomed
    <3> QED BY <3>1, <3>2 DEF WithoutSecrets
  <2>4. CASE EditSide
    <3>1. ~BeginsEdit
      BY <2>1, BeginEdit
    <3>2. ASSUME NEW e \in Entries, NEW ok \in BOOLEAN, KeyringCall(e, ok) PROVE FALSE
      BY <3>2 DEF KeyringCall
    <3>3. ASSUME FinishSet PROVE FALSE
      BY <3>3 DEF FinishSet
    <3>4. ASSUME NEW ok \in BOOLEAN,
                 FinishDelete(ok) \/ FinishSetTemporary(ok) \/ FinishUnset(ok) \/ FinishClear(ok)
          PROVE  FALSE
      BY <3>4 DEF FinishDelete, FinishSetTemporary, FinishUnset, FinishClear, Ready
    <3>5. ASSUME NEW c \in Connections,
                 \/ \E needed \in SUBSET Slots, noted \in BOOLEAN :
                      SaveConnection(c, needed, noted)
                 \/ \E s \in Slots : SetSecret(c, s, FALSE)
          PROVE  FALSE
      BY <2>1, <3>5 DEF SaveConnection, SetSecret, Resting
    <3> QED BY <2>3, <2>4, <3>1, <3>2, <3>3, <3>4, <3>5 DEF EditSide, EditStep
  <2>5. CASE TaskSide
    BY <2>5, TaskSideEdits
  <2>6. CASE Restart
    <3>1. conn'[edit.conn] = [conn[edit.conn] EXCEPT !.status =
            [s \in Slots |-> IF @[s] = "temporary" THEN "missing" ELSE @[s]]]
      BY <2>1, <2>6 DEF Restart
    <3>2. conn'[edit.conn].revision = conn[edit.conn].revision
      BY <3>1
    <3> QED BY <3>2
  <2>7. CASE UNCHANGED vars
    BY <2>7 DEF vars
  <2> QED BY <2>4, <2>5, <2>6, <2>7, NextSides
<1> QED BY <1>1, ConnInvariant, PTL DEF Spec, SecretsStayWithTarget
===============================================================================
