----------------------------- MODULE CleanupMap -----------------------------
(***************************************************************************)
(* The cleanup map (src/components/CleanupSpaceMap.tsx): the snapshot it   *)
(* holds while it is browsed, the basket, the drag into the basket and the *)
(* deletion of the basket.                                                 *)
(***************************************************************************)
EXTENDS DeleteDialog

CONSTANT MaxActs  \* bound of the model: operations begun by the user or the scan

VARIABLE s

\* A folder with a file below it, and a file inside the trash.
Nodes == {"folder", "file", "trashed"}
ParentOf == [n \in Nodes |-> IF n = "file" THEN "folder" ELSE "none"]
Guarded == "protected"                \* a node that may not be collected
InsideTrash == {"trashed"}
NoDrag == [node |-> "none", dragging |-> FALSE, over |-> FALSE]

Snapshot(scan, sample, partial) == [scan |-> scan, sample |-> sample, partial |-> partial]

Init ==
  s = [snap |-> Snapshot(0, 0, FALSE), incoming |-> Snapshot(0, 0, FALSE), browsing |-> FALSE,
       plan |-> {}, changed |-> {}, outcome |-> FALSE, settlement |-> FALSE, drag |-> NoDrag,
       loaded |-> FALSE, blocked |-> FALSE, dialog |-> ClosedDialog, gone |-> {}, started |-> 0, recorded |-> 0,
       applying |-> FALSE, acts |-> MaxActs]

Spend == [s EXCEPT !.acts = @ - 1]

Pending == s.snap # s.incoming
DeletionAvailable == ~s.snap.partial /\ ~s.incoming.partial /\ ~Pending

\* Only what has been loaded below a folder is known to lie in it.
IsAncestor(a, n) == s.loaded /\ ParentOf[n] = a
Covered(plan, n) == n \in plan \/ \E p \in plan : IsAncestor(p, n)
CollectInto(plan, n) == IF Covered(plan, n) THEN plan ELSE {p \in plan : ~IsAncestor(n, p)} \cup {n}

----------------------------------------------------------------------------
(* The snapshot.                                                           *)

\* The map follows another scan with everything it held for the last one; the
\* deletion dialog stays as it is.
Followed(t, snap) ==
  IF t.snap.scan = snap.scan THEN [t EXCEPT !.snap = snap]
  ELSE [t EXCEPT !.snap = snap, !.plan = {}, !.changed = {}, !.outcome = FALSE, !.settlement = FALSE,
                 !.drag = NoDrag, !.loaded = FALSE, !.blocked = FALSE, !.dialog.busy.cancelling = FALSE]

\* A checkpoint of the same scan is held back while a running map is browsed.
Adopt(t) ==
  IF t.snap.scan # t.incoming.scan \/ ~t.browsing \/ (~t.incoming.partial /\ ~t.snap.partial)
  THEN Followed(t, t.incoming) ELSE t

Arrive ==
  /\ s.acts > 0
  /\ \E snap \in {Snapshot(s.incoming.scan + 1, 0, TRUE), Snapshot(s.incoming.scan, s.incoming.sample + 1, FALSE)} :
       s' = Adopt([Spend EXCEPT !.incoming = snap])

Browse == s.acts > 0 /\ s' = Adopt([Spend EXCEPT !.browsing = ~@])

ShowUpdate == Pending /\ s' = Followed(s, s.incoming)

----------------------------------------------------------------------------
(* The basket.                                                             *)

Planned(t, n) == [t EXCEPT !.outcome = FALSE, !.plan = CollectInto(@, n)]

LoadFolder ==
  ~s.loaded /\ ~s.dialog.open /\ s.acts > 0 /\ s' = [Spend EXCEPT !.loaded = TRUE]

AddToPlan(n) == s.acts > 0 /\ ~s.dialog.open /\ ~Covered(s.plan, n) /\ s' = Planned(Spend, n)

\* The page's command adds the path as it is, covered or not.
AddPath ==
  s.acts > 0 /\ ~s.dialog.open /\ s' = [Spend EXCEPT !.outcome = FALSE, !.plan = @ \cup {"trashed"}]

RemoveFromPlan(n) ==
  n \in s.plan /\ s.acts > 0 /\ ~s.dialog.open /\ s' = [Spend EXCEPT !.plan = @ \ {n}]

EmptyPlan == s.plan # {} /\ s.acts > 0 /\ ~s.dialog.open /\ s' = [Spend EXCEPT !.plan = {}]

BeginDrag(n) ==
  /\ ~s.dialog.open /\ s.acts > 0 /\ s.drag = NoDrag /\ (n # Guarded => ~Covered(s.plan, n))
  /\ s' = [Spend EXCEPT !.drag = [NoDrag EXCEPT !.node = n], !.blocked = FALSE]

MoveDrag ==
  /\ s.drag # NoDrag
  /\ \E over \in BOOLEAN : s' = [s EXCEPT !.drag = [@ EXCEPT !.dragging = TRUE, !.over = over]]

FinishDrag ==
  /\ s.drag # NoDrag
  /\ s' = [(IF ~s.drag.over THEN s
            ELSE IF s.drag.node = Guarded THEN [s EXCEPT !.blocked = TRUE]
            ELSE Planned(s, s.drag.node)) EXCEPT !.drag = NoDrag]

CancelDrag == s.drag # NoDrag /\ s' = [s EXCEPT !.drag = NoDrag]

BlockedEnds == s.blocked /\ s' = [s EXCEPT !.blocked = FALSE]

\* The path of the focus changed on disk since the snapshot was taken.
PathChanged(n) == n \notin s.changed /\ s.acts > 0 /\ s' = [Spend EXCEPT !.changed = @ \cup {n}]

----------------------------------------------------------------------------
(* The deletion.                                                           *)

Dialog(d) == s' = [s EXCEPT !.dialog = d]

OpenDeleteDialog ==
  /\ s.acts > 0 /\ ~s.dialog.open /\ s.plan # {} /\ DeletionAvailable
  /\ s' = [Spend EXCEPT !.settlement = FALSE, !.outcome = FALSE,
             !.dialog = Opened(@, s.plan, IF s.plan \cap InsideTrash # {} THEN "permanent" ELSE "trash")]

PrepareDeleteLease(c) == c.op = "prepare" /\ \E d \in Prepared(s.dialog, c) : Dialog(d)

Recheck ==
  s.acts > 0 /\ MayRecheck(s.dialog) /\ s' = [Spend EXCEPT !.dialog = Rechecked(@)]

ChangeDeleteMode(mode) ==
  /\ s.acts > 0 /\ MaySwitch(s.dialog) /\ mode # s.dialog.mode
  /\ s' = [Spend EXCEPT !.dialog = Switching(@, mode)]

ModeChanged(c) == c.op = "switch" /\ \E d \in Switched(s.dialog, c) : Dialog(d)

Acknowledge == MayAcknowledge(s.dialog) /\ Dialog(Acknowledged(s.dialog))

CloseDeleteDialog == s.dialog.open /\ ~s.dialog.busy.submitting /\ Dialog(Closed(s.dialog))

ConfirmCleanup ==
  /\ MayConfirm(s.dialog)
  /\ s' = [s EXCEPT !.started = @ + 1, !.dialog = Confirmed(@)]

\* Items deleted leave the basket, items that failed or were interrupted and
\* the folders above them are marked; then the page applies the deletion.
CleanupExecuted(c) ==
  /\ c.op = "execute" /\ Executable(s.dialog, c)
  /\ \E deleted \in SUBSET s.dialog.items :
       LET failed == s.dialog.items \ deleted
       IN s' = [s EXCEPT !.dialog = Forgotten(Taken(@, c)), !.gone = @ \cup deleted,
                         !.plan = @ \ deleted, !.outcome = TRUE,
                         !.changed = @ \cup failed \cup {p \in Nodes : \E n \in failed : IsAncestor(p, n)},
                         !.recorded = @ + 1, !.applying = TRUE]

\* The command fails: with the lease unused when another deletion is running,
\* or after it was taken.
CleanupFailed(c) ==
  /\ c.op = "execute"
  /\ \E used \in BOOLEAN :
       LET d == IF used /\ Executable(s.dialog, c) THEN Taken(s.dialog, c)
                ELSE [s.dialog EXCEPT !.calls = @ \ {c}]
       IN s' = [s EXCEPT !.dialog = Failed(d), !.recorded = @ + 1]

\* onDeletionApplied() of the page has returned.
DeletionApplied ==
  /\ s.applying
  /\ \E ok \in BOOLEAN :
       s' = [s EXCEPT !.applying = FALSE, !.settlement = ok \/ @,
                      !.dialog = IF ok THEN Closed(@) ELSE Failed(@)]

CancelCleanup == MayCancel(s.dialog) /\ Dialog(Cancelling(s.dialog))

CleanupCancelled(c) == c.op = "stop" /\ \E d \in CancelAnswered(s.dialog, c) : Dialog(d)

Settle(open) ==
  s.acts > 0 /\ s.settlement # open /\ s.outcome /\ ~s.dialog.open /\ s' = [Spend EXCEPT !.settlement = open]

Operations == {"prepare", "switch", "execute", "stop"}

AnswerOf(op) ==
  \E c \in s.dialog.calls :
    /\ c.op = op
    /\ \/ PrepareDeleteLease(c) \/ ModeChanged(c) \/ CleanupExecuted(c)
       \/ CleanupFailed(c) \/ CleanupCancelled(c)

Next ==
  \/ Arrive \/ Browse \/ ShowUpdate \/ AddPath \/ EmptyPlan
  \/ \E n \in Nodes : AddToPlan(n) \/ RemoveFromPlan(n) \/ PathChanged(n)
  \/ \E n \in Nodes \cup {Guarded} : BeginDrag(n)
  \/ MoveDrag \/ FinishDrag \/ CancelDrag \/ BlockedEnds
  \/ OpenDeleteDialog \/ Recheck \/ Acknowledge \/ CloseDeleteDialog \/ ConfirmCleanup \/ CancelCleanup
  \/ \E mode \in Modes : ChangeDeleteMode(mode)
  \/ \E open \in BOOLEAN : Settle(open)
  \/ \E op \in Operations : AnswerOf(op)
  \/ DeletionApplied \/ LoadFolder

----------------------------------------------------------------------------
\* What is deleted is what the user confirmed, whatever became of the basket,
\* the snapshot and the mode in between, and a protected node never is.
DeletedAsConfirmed == DeletesAsConfirmed(s.dialog) /\ Guarded \notin s.gone

\* A deletion under way ends with its record in the action history.
Waiting == s.started # s.recorded \/ s.dialog.busy.submitting
=============================================================================
