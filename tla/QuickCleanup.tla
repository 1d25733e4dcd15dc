---------------------------- MODULE QuickCleanup ----------------------------
(***************************************************************************)
(* Quick cleanup: the page's hook and controls                             *)
(* (src/capabilities/useQuickCleanup.ts, QuickCleanupOperation.tsx) over   *)
(* the native coordinator they share with the assistant                    *)
(* (src-tauri/src/quick_cleanup_capability.rs, cleanup/quick.rs).          *)
(*                                                                         *)
(* The native view has a revision; the page adopts it by reading it again  *)
(* (reload), which its own actions outdate through a counter (mutation).   *)
(* An analysis is known by the revision that published its summaries.      *)
(***************************************************************************)
EXTENDS Integers, FiniteSets

CONSTANT MaxActs  \* bound of the model: operations begun by the user or the assistant

VARIABLE s

Categories == {"caches", "trash"}
Preselected == {"caches"}   \* every category that is available but the trash
NoSlot == "free"
Busy == {"analyzing", "cleaning"}

View(rev, phase, found) == [rev |-> rev, phase |-> phase, found |-> found]
Start == View(0, "idle", 0)

Init ==
  s = [view |-> Start, slot |-> NoSlot, suppressed |-> FALSE, cancelled |-> FALSE,
       phase |-> "idle", rev |-> -1, found |-> 0, selected |-> Preselected,
       excluded |-> FALSE, confirmation |-> <<>>, running |-> FALSE, mutation |-> 0,
       wanted |-> {}, removed |-> {}, acts |-> MaxActs,
       calls |-> {[op |-> "reload", seq |-> 0, seen |-> Start]}]

Without(c) == s.calls \ {c}

SelectionKey == <<s.found, s.selected, s.excluded>>

----------------------------------------------------------------------------
(* The page.                                                               *)

Reload(t) == [t EXCEPT !.calls = @ \cup {[op |-> "reload", seq |-> t.mutation, seen |-> t.view]}]

\* A change event, a focus or the 30 s timer: the page reads the view again.
Refresh ==
  /\ ~\E c \in s.calls : c.op = "reload"
  /\ <<s.view.phase, s.view.found>> # <<s.phase, s.found>> /\ s' = Reload(s)

\* The view is adopted, new summaries with the preselected categories.
Reloaded(c) ==
  /\ c.op = "reload"
  /\ \E v \in {c.seen, s.view} :
       s' = IF s.mutation # c.seq \/ v.rev < s.rev
            THEN [s EXCEPT !.calls = Without(c)]
            ELSE LET t == [s EXCEPT !.calls = Without(c), !.rev = v.rev, !.phase = v.phase]
                 IN IF v.found = s.found THEN t
                    ELSE [t EXCEPT !.found = v.found, !.selected = Preselected,
                                   !.excluded = FALSE, !.wanted = {}]

ToggleCategory(category) ==
  /\ s.phase = "selection"
  /\ s' = [s EXCEPT !.selected = IF category \in @ THEN @ \ {category} ELSE @ \cup {category},
                    !.wanted = IF category \in s.selected THEN @ \ {category}
                               ELSE @ \cup {category}]

TogglePath ==
  /\ s.phase = "selection" /\ "caches" \in s.selected
  /\ s' = [s EXCEPT !.excluded = ~@]

Analyze ==
  /\ s.phase \in {"idle", "selection", "done"} /\ ~s.running /\ s.acts > 0
  /\ s' = [s EXCEPT !.acts = @ - 1, !.running = TRUE, !.mutation = @ + 1, !.phase = "analyzing",
                    !.calls = @ \cup {[op |-> "analyze"]}]

\* The dialog is shown for the selection it was opened for, and for no other.
OpenConfirmation ==
  /\ s.phase = "selection" /\ s.selected # {}
  /\ s' = [s EXCEPT !.confirmation = SelectionKey]

Dismiss ==
  /\ s.confirmation # <<>> /\ s' = [s EXCEPT !.confirmation = <<>>]

Clean ==
  /\ s.phase = "selection" /\ s.confirmation = SelectionKey
  /\ s.acts > 0
  /\ s' = IF s.running THEN [s EXCEPT !.confirmation = <<>>]
          ELSE [s EXCEPT !.acts = @ - 1, !.confirmation = <<>>, !.running = TRUE, !.mutation = @ + 1,
                         !.phase = "cleaning",
                         !.calls = @ \cup {[op |-> "clean", found |-> s.found,
                                            selected |-> s.selected, wanted |-> s.wanted]}]

\* reset(), the Close of the result: only the page forgets.
Reset ==
  /\ s.phase = "done" /\ s.acts > 0
  /\ s' = [s EXCEPT !.acts = @ - 1, !.mutation = @ + 1, !.found = 0, !.excluded = FALSE,
                    !.wanted = {}, !.phase = "idle"]

CancelWork ==
  /\ s.phase = "cleaning" /\ s.acts > 0
  /\ s' = Reload([s EXCEPT !.acts = @ - 1, !.cancelled = s.slot # NoSlot])

----------------------------------------------------------------------------
(* The coordinator and its worker.                                         *)

\* update(): refused once a privacy clear has suppressed the worker.
Published(t, phase, found) ==
  IF t.suppressed THEN t ELSE [t EXCEPT !.view = View(@.rev + 1, phase, found)]

Begun(t, kind) ==
  Published([t EXCEPT !.slot = kind, !.suppressed = FALSE, !.cancelled = FALSE],
            IF kind = "cleaning" THEN "cleaning" ELSE "analyzing", t.view.found)

\* The command takes the slot or is refused; a refused one ends with a reload.
Dispatch(c) ==
  /\ c.op \in {"analyze", "clean"}
  /\ s' = IF s.slot # NoSlot
          THEN Reload([s EXCEPT !.calls = Without(c), !.running = FALSE])
          ELSE IF c.op = "analyze"
          THEN Begun([s EXCEPT !.calls = Without(c) \cup {[op |-> "worked"]}], "analyzing")
          ELSE Begun([s EXCEPT !.calls = Without(c) \cup {[op |-> "worked"]},
                               !.removed = @ \cup {c}], "cleaning")

\* The assistant analyses through the same coordinator.
AnalyzeElsewhere ==
  /\ s.slot = NoSlot /\ s.acts > 0
  /\ s' = Begun([s EXCEPT !.acts = @ - 1], "elsewhere")

\* The worker publishes its end and gives up the slot, in one drop.
WorkerEnds ==
  /\ s.slot # NoSlot
  /\ \E ok \in BOOLEAN :
       s' = [(IF s.slot = "cleaning" THEN Published(s, "done", s.view.found)
              ELSE IF ok /\ ~s.cancelled THEN Published(s, "selection", s.view.rev + 1)
              ELSE Published(s, "idle", s.view.found))
             EXCEPT !.slot = NoSlot]

\* The invoked command has returned: the page reads the view and is idle again.
Worked(c) ==
  /\ c.op = "worked" /\ s.slot \notin Busy
  /\ s' = Reload([s EXCEPT !.calls = Without(c), !.running = FALSE])

ClearView ==
  /\ s.acts > 0
  /\ s' = [s EXCEPT !.acts = @ - 1, !.suppressed = TRUE, !.cancelled = TRUE, !.view = View(@.rev + 1, "idle", 0)]

Answer == \E c \in s.calls : Reloaded(c) \/ Dispatch(c) \/ Worked(c)

Next ==
  \/ Refresh \/ Analyze \/ OpenConfirmation \/ Dismiss \/ Clean \/ Reset \/ CancelWork
  \/ \E category \in Categories : ToggleCategory(category)
  \/ TogglePath \/ AnalyzeElsewhere \/ WorkerEnds \/ ClearView \/ Answer

----------------------------------------------------------------------------
\* The trash is emptied only when the user chose it after the summaries on the
\* page were published: no adopted view, however late, carries a choice over.
TrashIsChosen ==
  \A c \in s.removed : "trash" \in c.selected => "trash" \in c.wanted

\* A page that shows work as under way stops showing it.
Waiting == s.phase \in Busy
=============================================================================
