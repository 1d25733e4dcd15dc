---------------------------- MODULE NativeHistory ----------------------------
(***************************************************************************)
(* One history kept in a file of the application                           *)
(* (src/hooks/useNativeHistoryStorage.ts, as used by                       *)
(* src/hooks/usePersistentHistory.ts) and the generations with which the   *)
(* native side admits its writes (src-tauri/src/history_storage.rs).       *)
(* A point is a number; a history is a set of points.                      *)
(***************************************************************************)
EXTENDS Integers, FiniteSets

CONSTANT MaxActs  \* bound of the model: points sampled and operations begun

VARIABLE s

NoFile == {0}            \* the file of the history does not exist
Old == {1}               \* the history a former version left in the web view
Unknown == -1            \* a generation that was never learnt
Points(file) == file \ {0}

Init ==
  \E file \in {NoFile, {2}}, legacy \in {{}, Old} :
    s = [value |-> legacy, hydrated |-> FALSE, pending |-> {}, last |-> NoFile,
         generation |-> Unknown, epoch |-> 0, clearing |-> FALSE, blocked |-> FALSE,
         waiting |-> FALSE, enabled |-> TRUE, reset |-> FALSE, failed |-> FALSE, legacy |-> legacy,
         file |-> file, written |-> 0, next |-> 3, cleared |-> {}, acts |-> MaxActs,
         calls |-> {[op |-> "load", epoch |-> 0]}]

Spend == [s EXCEPT !.acts = @ - 1]
Without(c) == s.calls \ {c}
InFlight(ops) == \E c \in s.calls : c.op \in ops
SlotTaken == InFlight({"save", "saved", "save_failed", "migrate", "migrated", "migrate_failed"})

----------------------------------------------------------------------------
(* The native side: a write is admitted in the generation it was made for. *)

Serve(c) ==
  \/ /\ c.op = "load"
     /\ s' \in {[s EXCEPT !.calls = Without(c) \cup
                  {[op |-> "loaded", epoch |-> c.epoch, file |-> s.file, generation |-> s.written]}],
                [s EXCEPT !.calls = Without(c) \cup {[op |-> "load_failed", epoch |-> c.epoch]}]}
  \/ /\ c.op \in {"save", "migrate"}
     /\ LET done == IF c.op = "save" THEN "saved" ELSE "migrated"
            failed == IF c.op = "save" THEN "save_failed" ELSE "migrate_failed"
        IN s' \in {[s EXCEPT !.calls = Without(c) \cup {[c EXCEPT !.op = failed]}]}
                  \cup (IF c.generation # s.written THEN {}
                        ELSE {[s EXCEPT !.file = c.points, !.written = @ + 1,
                                        !.calls = Without(c) \cup
                                          {[c EXCEPT !.op = done, !.generation = s.written + 1]}]})
  \/ /\ c.op = "clear"
     /\ LET t == [s EXCEPT !.written = @ + 1]
        IN s' \in {[t EXCEPT !.calls = Without(c) \cup {[op |-> "clear_failed"]}],
                   [t EXCEPT !.file = NoFile,
                             !.calls = Without(c) \cup {[op |-> "cleared", generation |-> t.written]}]}

----------------------------------------------------------------------------
(* Points of the program, and the load of the file.                        *)

\* Fault: samples are taken in while the history is being cleared.
UpdateWhileClearing ==
  /\ s.enabled /\ s.acts > 0
  /\ s' = IF s.blocked /\ ~s.clearing THEN Spend
          ELSE [Spend EXCEPT !.value = @ \cup {s.next}, !.next = @ + 1,
                             !.pending = IF s.hydrated THEN @ ELSE @ \cup {s.next}]

\* A sample is dropped while the history is being cleared, or after a clear
\* that failed; before the file was read it is kept to be applied again.
UpdateValue ==
  /\ s.enabled /\ s.acts > 0
  /\ s' = IF s.clearing \/ s.blocked THEN Spend
          ELSE [Spend EXCEPT !.value = @ \cup {s.next}, !.next = @ + 1,
                             !.pending = IF s.hydrated THEN @ ELSE @ \cup {s.next}]

IsCurrent(c) == c.epoch = s.epoch /\ ~s.clearing

\* What was stored, or else the history of a former version, with the points
\* sampled meanwhile.  A history that had no file is stored at once.
HydrationArrives(c) ==
  /\ c.op = "loaded"
  /\ LET next == (IF c.file = NoFile THEN s.legacy ELSE c.file) \cup s.pending
         t == [s EXCEPT !.calls = Without(c), !.generation = c.generation, !.value = next,
                        !.pending = {}, !.hydrated = TRUE, !.last = c.file, !.failed = FALSE]
     IN s' = IF ~IsCurrent(c) THEN [s EXCEPT !.calls = Without(c)]
             ELSE IF c.file # NoFile \/ next = {} THEN t
             ELSE [t EXCEPT !.calls = @ \cup
                     {[op |-> "migrate", epoch |-> c.epoch, points |-> next, generation |-> c.generation]}]

HydrationFails(c) ==
  /\ c.op \in {"load_failed", "migrate_failed"}
  /\ LET t == [s EXCEPT !.calls = Without(c), !.waiting = @ /\ c.op = "load_failed"]
     IN s' = IF ~IsCurrent(c) THEN t
             ELSE [t EXCEPT !.hydrated = TRUE, !.pending = {}, !.failed = TRUE]

----------------------------------------------------------------------------
(* Writing.                                                                *)

MayWrite ==
  s.enabled /\ s.hydrated /\ s.generation # Unknown /\ ~s.reset /\ ~s.clearing /\ ~s.blocked

Saving(t) ==
  IF t.value = t.last THEN t
  ELSE [t EXCEPT !.calls = @ \cup
          {[op |-> "save", epoch |-> t.epoch, points |-> t.value, generation |-> t.generation]}]

\* The timer, and the page being hidden or left, write what changed, one
\* write at a time.
PersistNow ==
  /\ s.hydrated /\ s.enabled /\ MayWrite
  /\ IF SlotTaken THEN ~s.waiting /\ s' = [s EXCEPT !.waiting = TRUE]
     ELSE Saving(s) # s /\ s.acts > 0 /\ s' = Saving(Spend)

\* A writer that waited for the slot writes what is there when its turn comes.
NextWriter ==
  /\ s.waiting /\ ~SlotTaken
  /\ s' = LET t == [s EXCEPT !.waiting = FALSE] IN IF MayWrite THEN Saving(t) ELSE t

\* Fault: what is there when the write ends is taken for what it wrote.
SaveArrivesAsShown(c) ==
  /\ c.op = "saved"
  /\ LET t == [s EXCEPT !.calls = Without(c), !.generation = c.generation]
     IN s' = IF MayWrite /\ c.epoch = s.epoch THEN [t EXCEPT !.last = s.value, !.failed = FALSE]
             ELSE t

SaveArrives(c) ==
  /\ c.op = "saved"
  /\ LET t == [s EXCEPT !.calls = Without(c), !.generation = c.generation]
     IN s' = IF MayWrite /\ c.epoch = s.epoch THEN [t EXCEPT !.last = c.points, !.failed = FALSE]
             ELSE t

\* The writers that wait for a write that fails fail with it.
SaveFails(c) ==
  /\ c.op = "save_failed"
  /\ s' = [s EXCEPT !.calls = Without(c), !.waiting = FALSE,
                    !.failed = @ \/ (MayWrite /\ c.epoch = s.epoch)]

\* The former history is given up only when the file has it.
MigrationArrives(c) ==
  /\ c.op = "migrated"
  /\ LET t == [s EXCEPT !.calls = Without(c), !.generation = c.generation]
     IN s' = IF IsCurrent(c) THEN [t EXCEPT !.legacy = {}, !.last = c.points, !.failed = FALSE] ELSE t

----------------------------------------------------------------------------
(* Clearing: no write begins any more, those under way end first.          *)

Clear ==
  /\ ~s.clearing /\ s.acts > 0
  /\ s' = [Spend EXCEPT !.clearing = TRUE, !.blocked = TRUE, !.epoch = @ + 1, !.pending = {},
                        !.waiting = FALSE]

Settled == ~SlotTaken /\ ~InFlight({"load", "loaded", "load_failed"})

ClearStorage ==
  /\ s.clearing /\ Settled /\ ~InFlight({"clear", "cleared", "clear_failed"})
  /\ s' = [s EXCEPT !.legacy = {}, !.calls = @ \cup {[op |-> "clear"]}]

ClearArrives(c) ==
  \/ /\ c.op = "cleared"
     /\ s' = [s EXCEPT !.calls = Without(c), !.generation = c.generation, !.value = {}, !.last = {},
                       !.hydrated = TRUE, !.failed = FALSE, !.blocked = FALSE, !.clearing = FALSE,
                       !.cleared = 1 .. s.next - 1]
  \/ /\ c.op = "clear_failed"
     /\ s' = [s EXCEPT !.calls = Without(c), !.failed = TRUE, !.clearing = FALSE]

----------------------------------------------------------------------------
(* The setting, and the reset of all data (src/productSupport.ts), which   *)
(* never ends in this process.                                             *)

SetEnabled == s.acts > 0 /\ s' = [Spend EXCEPT !.enabled = ~@]
BeginProductDataReset == ~s.reset /\ s.acts > 0 /\ s' = [Spend EXCEPT !.reset = TRUE]

AnswerOf(op) ==
  \E c \in s.calls :
    /\ c.op = op
    /\ (Serve(c) \/ HydrationArrives(c) \/ HydrationFails(c) \/ SaveArrives(c) \/ SaveFails(c)
        \/ MigrationArrives(c) \/ ClearArrives(c))

Operations == {"load", "loaded", "load_failed", "save", "saved", "save_failed", "migrate",
               "migrated", "migrate_failed", "clear", "cleared", "clear_failed"}

Next ==
  \/ UpdateValue \/ PersistNow \/ NextWriter \/ Clear \/ ClearStorage \/ SetEnabled
  \/ BeginProductDataReset \/ \E op \in Operations : AnswerOf(op)

----------------------------------------------------------------------------
(* Properties.                                                             *)

\* Once a clear has succeeded nothing that was sampled, stored, loading or
\* being written before it is shown or stored again.
ClearedIsGone == s.cleared \cap (s.value \cup Points(s.file) \cup s.legacy \cup s.pending) = {}

\* A write is skipped when the history equals what was written last: that
\* must really be what the file has, and the generation of the next write the
\* one that the native side admits.
WrittenIsStored ==
  MayWrite /\ ~SlotTaken
    => /\ s.generation = s.written
       /\ s.value = s.last => Points(s.file) = s.value

\* A clear ends, whatever is under way when it is asked for.
Waiting == s.clearing
=============================================================================
