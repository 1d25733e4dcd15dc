---------------------------- MODULE DeleteDialog ----------------------------
(***************************************************************************)
(* The deletion dialog of the pages that remove files, and the native      *)
(* leases it works with (CleanupSpaceMap.tsx, FileInsightsExplorer.tsx,    *)
(* ApplicationUninstallAssistant.tsx over CleanupDeleteDialog.tsx and      *)
(* src-tauri/src/cleanup.rs).  The three pages keep this state alike; each *)
(* page's module adds what the page does around it.                        *)
(*                                                                         *)
(* A dialog is a record; an operator returns the dialog, or the set of     *)
(* dialogs, that follows.  Releasing a lease is sent without waiting and   *)
(* is taken to arrive at once: an identifier is never used again.          *)
(***************************************************************************)
EXTENDS Integers, FiniteSets

Modes == {"trash", "permanent"}
NoLease == [id |-> 0, mode |-> "trash", items |-> {}, executable |-> FALSE]
Quiet == [submitting |-> FALSE, cancelling |-> FALSE, preparing |-> FALSE, switching |-> FALSE]

ClosedDialog ==
  [open |-> FALSE, items |-> {}, mode |-> "trash", lease |-> NoLease, shown |-> NoLease,
   busy |-> Quiet, acknowledged |-> FALSE, seq |-> 0, native |-> {}, made |-> 0, calls |-> {},
   done |-> {}]

\* A lease is given up when the page still refers to it.
Released(d) == {l \in d.native : l.id # d.lease.id}

\* closeDeleteDialog()
Closed(d) ==
  [d EXCEPT !.seq = @ + 1, !.native = Released(d), !.lease = NoLease, !.open = FALSE,
            !.items = {}, !.shown = NoLease, !.busy = Quiet, !.acknowledged = FALSE]

\* What the native side is told of the items, as the page knows them.
LeaseRequest(seq, items, mode) == [op |-> "prepare", seq |-> seq, items |-> items, mode |-> mode]

\* prepareDeleteLease(): the former lease goes, a new one is asked for.
Preparing(d, items, mode) ==
  [d EXCEPT !.seq = @ + 1, !.native = Released(d), !.lease = NoLease, !.shown = NoLease,
            !.busy = [@ EXCEPT !.preparing = TRUE, !.switching = FALSE], !.acknowledged = FALSE,
            !.calls = @ \cup {LeaseRequest(d.seq + 1, items, mode)}]

Opened(d, items, mode) ==
  Preparing([d EXCEPT !.open = TRUE, !.items = items, !.mode = mode, !.lease = NoLease,
                      !.shown = NoLease, !.busy = Quiet, !.acknowledged = FALSE], items, mode)

\* Fault: an item the answer does not name is left out.
RefreshedPartly(items, named) == items \cap named

\* The items as they are on disk now; none when one is named neither as
\* refreshed nor as missing nor as unavailable.
ApplyRefreshedCleanupTargets(items, named) == IF items \subseteq named THEN items ELSE {}

\* The lease arrives, not executable when a target changed; or an error, or an
\* answer that does not name every item, whose lease is released again.  An
\* answer to an older request is released too.
Prepared(d, c) ==
  LET t == [d EXCEPT !.calls = @ \ {c}, !.made = @ + 1]
      new == [id |-> d.made + 1, mode |-> c.mode, items |-> c.items, executable |-> TRUE]
  IN IF c.seq # d.seq THEN {t}
     ELSE {[t EXCEPT !.busy.preparing = FALSE]} \cup UNION {
            LET items == ApplyRefreshedCleanupTargets(c.items, named)
                u == [t EXCEPT !.busy.preparing = FALSE, !.items = items]
            IN IF items = {} THEN {[t EXCEPT !.busy.preparing = FALSE]}
               ELSE {[u EXCEPT !.lease = new, !.shown = new, !.native = @ \cup {new}],
                     [u EXCEPT !.shown = [new EXCEPT !.executable = FALSE]]} : named \in SUBSET c.items}

\* The button that replaces the confirmation of a lease that cannot be executed.
Rechecked(d) == Preparing(d, d.items, d.mode)
MayRecheck(d) == d.open /\ ~d.busy.submitting /\ d.shown.id # 0 /\ ~d.shown.executable /\ ~d.busy.preparing

MaySwitch(d) == d.open /\ ~d.busy.submitting /\ ~d.busy.preparing /\ ~d.busy.switching

\* changeDeleteMode(): the mode is shown at once, the lease follows.
Switching(d, mode) ==
  LET t == [d EXCEPT !.mode = mode, !.acknowledged = FALSE]
  IN IF d.lease.id = 0 THEN t
     ELSE [t EXCEPT !.seq = @ + 1, !.busy.switching = TRUE,
                    !.calls = @ \cup {[op |-> "switch", seq |-> d.seq + 1, id |-> d.lease.id,
                                       mode |-> mode, previous |-> d.mode]}]

\* The native lease takes the mode or refuses it; a lease that is gone refuses.
Switched(d, c) ==
  LET t == [d EXCEPT !.calls = @ \ {c}]
      current == c.seq = d.seq
      taken == [id |-> c.id, mode |-> c.mode, executable |-> TRUE,
                items |-> UNION {l.items : l \in {n \in d.native : n.id = c.id}}]
      refused == IF current THEN [t EXCEPT !.busy.switching = FALSE, !.mode = c.previous] ELSE t
  IN {refused} \cup
     IF ~\E l \in d.native : l.id = c.id THEN {}
     ELSE LET changed == [t EXCEPT !.native = {l \in @ : l.id # c.id} \cup {taken}]
          IN {IF current THEN [changed EXCEPT !.busy.switching = FALSE, !.lease = taken, !.shown = taken]
              ELSE changed}

\* The check box of a permanent deletion.
MayAcknowledge(d) ==
  /\ d.open /\ d.busy = Quiet /\ d.mode = "permanent"
  /\ d.shown.mode = d.mode /\ d.shown.executable

Acknowledged(d) == [d EXCEPT !.acknowledged = ~@]

\* Fault: the box is not asked for.
MayConfirmUnticked(d) ==
  /\ d.open /\ d.lease.id # 0 /\ d.lease.mode = d.mode /\ d.lease.executable
  /\ d.busy = Quiet

\* canConfirm of the dialog and the guards of the handler.
MayConfirm(d) ==
  /\ d.open /\ d.lease.id # 0 /\ d.lease.mode = d.mode /\ d.lease.executable
  /\ d.busy = Quiet /\ (d.mode = "permanent" => d.acknowledged)

\* The deletion is sent; what the user confirmed is remembered with it.
Confirmed(d) ==
  [d EXCEPT !.busy = [@ EXCEPT !.submitting = TRUE, !.cancelling = FALSE],
            !.calls = @ \cup {[op |-> "execute", id |-> d.lease.id, items |-> d.items, mode |-> d.mode,
                               acknowledged |-> d.acknowledged]}]

\* The native side takes the lease out before it does anything with it.
Taken(d, c) ==
  LET l == CHOOSE n \in d.native : n.id = c.id
  IN [d EXCEPT !.calls = @ \ {c}, !.native = @ \ {l},
               !.done = @ \cup {[items |-> l.items, mode |-> l.mode, confirmed |-> c]}]

Executable(d, c) == \E l \in d.native : l.id = c.id

\* After an answer, and after an error, the page no longer refers to the lease.
Forgotten(d) == [d EXCEPT !.lease = NoLease, !.shown = NoLease]

\* The error leaves the dialog open without a lease.
Failed(d) == [Forgotten(d) EXCEPT !.busy.submitting = FALSE, !.busy.cancelling = FALSE]

MayCancel(d) == d.open /\ d.busy.submitting /\ ~d.busy.cancelling
Cancelling(d) == [d EXCEPT !.busy.cancelling = TRUE, !.calls = @ \cup {[op |-> "stop"]}]
CancelAnswered(d, c) == {[d EXCEPT !.calls = @ \ {c}], [d EXCEPT !.calls = @ \ {c}, !.busy.cancelling = FALSE]}

----------------------------------------------------------------------------
\* What the native side deleted is what the user confirmed: the same items, in
\* the mode the dialog showed, and permanently only with the box ticked for
\* that mode.
DeletesAsConfirmed(d) ==
  \A r \in d.done :
    /\ r.items = r.confirmed.items /\ r.mode = r.confirmed.mode
    /\ r.mode = "permanent" => r.confirmed.acknowledged

\* With the dialog closed and nothing under way no lease is left behind.
LeasesAreReturned(d) == ~d.open /\ d.calls = {} => d.native = {}
=============================================================================
