------------------------------ MODULE Uninstall ------------------------------
(***************************************************************************)
(* The application uninstall page                                          *)
(* (src/components/ApplicationUninstallAssistant.tsx) with the watch of    *)
(* the trash (src/hooks/useTrashApplicationWatcher.ts): the inventory, the *)
(* plan of the selected application, the deletion of its items and the     *)
(* system's own uninstaller.                                               *)
(***************************************************************************)
EXTENDS DeleteDialog

CONSTANT MaxActs  \* bound of the model: operations begun by the user

VARIABLE s

None == "none"
Bundle == "bundle"      \* an application the page removes item by item
Managed == "managed"    \* one that the system's uninstaller removes
Fixed == "fixed"        \* one that cannot be removed
Trashed == "trashed"    \* one found in the trash, for its residual items
Installed == {Bundle, Managed, Fixed}

Item(app, part) == [app |-> app, part |-> part]
Artifacts(app) ==
  CASE app = Bundle -> {Item(app, "application"), Item(app, "cache")}
    [] app = Trashed -> {Item(app, "cache")}
    [] OTHER -> {}
Required == {Item(Bundle, "application")}

NoPlan == [app |-> None, residual |-> FALSE]

Init ==
  s = [inventory |-> {}, loading |-> TRUE, inventorySeq |-> 1, selected |-> None, planSeq |-> 0,
       plan |-> NoPlan, planning |-> FALSE, chosen |-> {}, residual |-> FALSE, outcome |-> FALSE,
       removed |-> {}, native |-> [open |-> FALSE, submitting |-> FALSE], watched |-> FALSE,
       trashed |-> FALSE, dialog |-> ClosedDialog, leases |-> {}, acts |-> MaxActs,
       calls |-> {[op |-> "inventory", seq |-> 1, forced |-> FALSE]}]

Spend == [s EXCEPT !.acts = @ - 1]
Without(c) == s.calls \ {c}
Modal == s.dialog.open \/ s.native.open

----------------------------------------------------------------------------
(* The inventory.                                                          *)

Refreshing(t) ==
  [t EXCEPT !.inventorySeq = @ + 1, !.loading = TRUE,
            !.calls = @ \cup {[op |-> "inventory", seq |-> t.inventorySeq + 1, forced |-> TRUE]}]

Refresh == ~s.loading /\ ~Modal /\ s.acts > 0 /\ s' = Refreshing(Spend)

\* The inventory arrives; a first one may recommend a fresh one at once.  A
\* selection that is not in it is dropped, and with a fresh one the marks of
\* what this session removed.
InventoryArrives(c) ==
  /\ c.op = "inventory"
  /\ LET t == [s EXCEPT !.calls = Without(c)]
     IN s' \in IF c.seq # s.inventorySeq THEN {t}
               ELSE LET shown == [t EXCEPT !.loading = FALSE, !.inventory = Installed,
                                           !.removed = IF c.forced THEN {} ELSE @,
                                           !.selected = IF @ \in Installed THEN @ ELSE None]
                    IN {[t EXCEPT !.loading = FALSE], shown}
                       \cup (IF c.forced THEN {} ELSE {Refreshing(shown)})

\* The watch lists the applications of the trash while it is enabled.
Watch ==
  /\ s.acts > 0 /\ ~Modal
  /\ s' = [Spend EXCEPT !.watched = ~@, !.trashed = FALSE,
                        !.calls = IF s.watched THEN @ ELSE @ \cup {[op |-> "trash"]}]

TrashListed(c) ==
  /\ c.op = "trash"
  /\ \E found \in {TRUE, FALSE, s.trashed} :
       s' = [s EXCEPT !.calls = Without(c), !.trashed = found]

----------------------------------------------------------------------------
(* The plan.                                                               *)

Planning(t, app, residual) ==
  [t EXCEPT !.planSeq = @ + 1, !.selected = app, !.plan = NoPlan, !.outcome = FALSE,
            !.residual = residual, !.planning = TRUE,
            !.calls = @ \cup {[op |-> "plan", seq |-> t.planSeq + 1, app |-> app, residual |-> residual]}]

SelectApplication(app) ==
  /\ app \in s.inventory \ s.removed /\ ~Modal /\ s.acts > 0
  /\ LET t == Planning(Spend, app, FALSE)
     IN s' = IF app = Fixed THEN [t EXCEPT !.planning = FALSE, !.calls = s.calls] ELSE t

InspectTrashed ==
  /\ s.watched /\ s.trashed /\ ~Modal /\ s.acts > 0
  /\ s' = Planning(Spend, Trashed, TRUE)

\* The plan is shown with everything selected, unless another was asked for.
PlanArrives(c) ==
  /\ c.op = "plan"
  /\ LET t == [s EXCEPT !.calls = Without(c)]
     IN s' \in IF c.seq # s.planSeq THEN {t}
               ELSE {[t EXCEPT !.planning = FALSE],
                     [t EXCEPT !.planning = FALSE, !.plan = [app |-> c.app, residual |-> c.residual],
                               !.chosen = Artifacts(c.app)]}

ToggleArtifact(item) ==
  /\ item \in Artifacts(s.plan.app) \ Required /\ ~Modal /\ s.acts > 0
  /\ s' = [Spend EXCEPT !.chosen = IF item \in @ THEN @ \ {item} ELSE @ \cup {item}]

----------------------------------------------------------------------------
(* The deletion of the items.                                              *)

Current == s.plan.app # None /\ s.plan.app = s.selected

\* The request of a lease says whether it is an uninstall; it is kept here.
Asked(t) == [t EXCEPT !.leases = @ \cup {[seq |-> t.dialog.seq, residual |-> t.residual]}]

OpenDeleteDialog ==
  LET items == s.chosen \cap Artifacts(s.plan.app)
  IN /\ Current /\ items # {} /\ s.plan.app # Managed /\ ~Modal /\ s.acts > 0
     /\ s' = Asked([Spend EXCEPT !.dialog = Opened(@, items, "trash")])

Dialog(d) == s' = [s EXCEPT !.dialog = d]

\* Without a plan no lease is asked for.
Recheck ==
  /\ s.acts > 0 /\ MayRecheck(s.dialog) /\ s.plan.app # None
  /\ s' = Asked([Spend EXCEPT !.dialog = Rechecked(@)])

PrepareDeleteLease(c) == c.op = "prepare" /\ \E d \in Prepared(s.dialog, c) : Dialog(d)

ChangeDeleteMode(mode) ==
  /\ s.acts > 0 /\ MaySwitch(s.dialog) /\ mode # s.dialog.mode
  /\ s' = [Spend EXCEPT !.dialog = Switching(@, mode)]

ModeChanged(c) == c.op = "switch" /\ \E d \in Switched(s.dialog, c) : Dialog(d)

Acknowledge == MayAcknowledge(s.dialog) /\ Dialog(Acknowledged(s.dialog))

CloseDeleteDialog == s.dialog.open /\ ~s.dialog.busy.submitting /\ Dialog(Closed(s.dialog))

ConfirmUninstall == Current /\ MayConfirm(s.dialog) /\ Dialog(Confirmed(s.dialog))

\* What was removed is marked, the dialog closes and the plan goes.
Uninstalled(c) ==
  /\ c.op = "execute" /\ Executable(s.dialog, c)
  /\ \E deleted \in SUBSET s.dialog.items :
       LET app == {i.app : i \in deleted \cap Required}
       IN s' = [s EXCEPT !.dialog = Closed(Forgotten(Taken(@, c))), !.outcome = TRUE, !.plan = NoPlan,
                         !.removed = @ \cup app,
                         !.selected = IF app = {} THEN None ELSE s.plan.app]

UninstallFails(c) ==
  /\ c.op = "execute"
  /\ \E used \in BOOLEAN :
       Dialog(Failed(IF used /\ Executable(s.dialog, c) THEN Taken(s.dialog, c)
                     ELSE [s.dialog EXCEPT !.calls = @ \ {c}]))

CancelUninstall == MayCancel(s.dialog) /\ Dialog(Cancelling(s.dialog))

UninstallCancelled(c) == c.op = "stop" /\ \E d \in CancelAnswered(s.dialog, c) : Dialog(d)

----------------------------------------------------------------------------
(* The system's uninstaller.                                               *)

ReviewNative ==
  /\ s.plan.app = Managed /\ ~Modal /\ s.acts > 0
  /\ s' = [Spend EXCEPT !.native.open = TRUE]

CloseNative == s.native.open /\ ~s.native.submitting /\ s' = [s EXCEPT !.native.open = FALSE]

ConfirmNativeUninstall ==
  /\ s.native.open /\ ~s.native.submitting /\ Current /\ s.plan.app = Managed
  /\ s' = [s EXCEPT !.native.submitting = TRUE, !.calls = @ \cup {[op |-> "native", app |-> s.plan.app]}]

NativeEnds(c) ==
  /\ c.op = "native"
  /\ LET t == [s EXCEPT !.calls = Without(c), !.native.submitting = FALSE]
     IN s' \in {t, [t EXCEPT !.native.open = FALSE],
                [t EXCEPT !.native.open = FALSE, !.removed = @ \cup {c.app}, !.plan = NoPlan]}

Operations == {"inventory", "trash", "plan", "prepare", "switch", "execute", "stop", "native"}

AnswerOf(op) ==
  \/ \E c \in s.calls :
       c.op = op /\ (InventoryArrives(c) \/ TrashListed(c) \/ PlanArrives(c) \/ NativeEnds(c))
  \/ \E c \in s.dialog.calls :
       /\ c.op = op
       /\ \/ PrepareDeleteLease(c) \/ ModeChanged(c) \/ Uninstalled(c)
          \/ UninstallFails(c) \/ UninstallCancelled(c)

Next ==
  \/ Refresh \/ Watch \/ InspectTrashed \/ OpenDeleteDialog \/ Recheck \/ Acknowledge
  \/ CloseDeleteDialog \/ ConfirmUninstall \/ CancelUninstall
  \/ ReviewNative \/ CloseNative \/ ConfirmNativeUninstall
  \/ \E app \in Installed : SelectApplication(app)
  \/ \E item \in Artifacts(Bundle) \cup Artifacts(Trashed) : ToggleArtifact(item)
  \/ \E mode \in Modes : ChangeDeleteMode(mode)
  \/ \E op \in Operations : AnswerOf(op)

----------------------------------------------------------------------------
\* What is removed is what was confirmed, items of one application only, and
\* the lease was asked for as an uninstall exactly when that application is
\* installed: plans, refreshes and dialogs of others never mix in.
RemovedAsConfirmed ==
  /\ DeletesAsConfirmed(s.dialog)
  /\ \A r \in s.dialog.done : \E app \in {Bundle, Trashed} : r.items \subseteq Artifacts(app)
  /\ s.dialog.lease.id # 0 => \A l \in s.leases :
       l.seq = s.dialog.seq => l.residual = (\E i \in s.dialog.items : i.app = Trashed)

\* A plan that is being prepared, and an uninstall under way, end.
Waiting == s.planning \/ s.dialog.busy.submitting \/ s.native.submitting
=============================================================================
