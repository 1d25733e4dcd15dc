----------------------------- MODULE DataPrivacy -----------------------------
(***************************************************************************)
(* Clearing product data: one category of it                               *)
(* (src/hooks/useProductDataPrivacy.ts, behind the confirmation of         *)
(* src/components/SourceDataClearAction.tsx), the assistant kept from      *)
(* reading it meanwhile (src/aiSourcePrivacy.ts), and all of it at once    *)
(* (App.tsx, behind src/components/ClearProductDataAction.tsx).            *)
(* A store is a file or a group of files with the same owner.              *)
(***************************************************************************)
EXTENDS FiniteSets, Naturals

CONSTANTS
  Categories,  \* the categories of product data, of those below
  MaxActs      \* bound of the model: operations of the user and stores written again

VARIABLE s

\* The stores that the removals of a category remove.
Own(cat) ==
  CASE cat = "resourceHistory" -> {"resources", "applications"}
    [] cat = "connectionHistory" -> {"connections"}
    [] cat = "applicationInventory" -> {"inventory"}
    [] cat = "scanCaches" -> {"index", "insights"}

\* The native summary counts the histories of every owner together; those of
\* the startup measurements and of the scan comparisons belong to no category.
Segments == {"resources", "connections", "startup"}
Stores == UNION {Own(cat) : cat \in Categories} \cup Segments

Counted(cat) ==
  CASE cat = "resourceHistory" -> Segments \cup {"applications"}
    [] cat = "connectionHistory" -> {}
    [] cat = "applicationInventory" -> {"inventory"}
    [] cat = "scanCaches" -> {"index", "insights"}

ClosedAction == [open |-> FALSE, failed |-> FALSE]

Init ==
  \E disk \in {{}, {"resources", "connections"}, Stores} :
    s = [disk |-> disk, shown |-> disk, receipts |-> [cat \in Categories |-> "idle"], runs |-> {},
         rows |-> [cat \in Categories |-> ClosedAction],
         all |-> [open |-> FALSE, clearing |-> FALSE, failed |-> FALSE, failures |-> {}, todo |-> {}],
         reset |-> FALSE, preferences |-> TRUE, acts |-> MaxActs]

Spend == [s EXCEPT !.acts = @ - 1]
Run(cat, whole) ==
  [cat |-> cat, whole |-> whole, at |-> "invalidate", left |-> Own(cat), failed |-> FALSE, why |-> "none",
   seen |-> {}]
With(t, run, next) == [t EXCEPT !.runs = (@ \ {run}) \cup {next}]

----------------------------------------------------------------------------
(* One category.                                                           *)

\* Nothing to clear when the summary counts nothing and nothing is in memory.
Empty(cat) == s.shown \cap Counted(cat) = {} /\ s.disk \cap Own(cat) = {}
Busy(cat) == \E run \in s.runs : run.cat = cat /\ ~run.whole

OpenRow(cat) ==
  /\ ~Empty(cat) /\ s.receipts[cat] # "clearing" /\ ~Busy(cat) /\ ~s.rows[cat].open /\ s.acts > 0
  /\ s' = [Spend EXCEPT !.rows[cat] = [open |-> TRUE, failed |-> FALSE]]

CloseRow(cat) == s.rows[cat].open /\ ~Busy(cat) /\ s' = [s EXCEPT !.rows[cat].open = FALSE]

ClearCategory(t, cat, whole) ==
  [t EXCEPT !.receipts[cat] = "clearing", !.runs = @ \cup {Run(cat, whole)}]

ConfirmRow(cat) ==
  /\ s.rows[cat].open /\ ~Busy(cat) /\ s.acts > 0
  /\ s' = ClearCategory([Spend EXCEPT !.rows[cat].failed = FALSE], cat, FALSE)

Ended(run, ok) ==
  LET t == [s EXCEPT !.runs = @ \ {run}, !.receipts[run.cat] = IF ok THEN "succeeded" ELSE "failed"]
  IN IF run.whole THEN [t EXCEPT !.all.todo = @ \ {run.cat},
                                 !.all.failures = IF ok THEN @ ELSE @ \cup {run.cat}]
     ELSE [t EXCEPT !.rows[run.cat] = [open |-> @.open /\ ~ok, failed |-> ~ok]]

\* The assistant is told first that the source is being cleared; when it
\* cannot be, nothing is removed.
SourceInvalidated(run) ==
  /\ run.at = "invalidate"
  /\ s' \in {Ended(run, FALSE), With(s, run, [run EXCEPT !.at = "remove"])}

\* Removals run side by side and are all waited for.
RemovalEnds(run, store) ==
  /\ run.at = "remove" /\ store \in run.left
  /\ \E ok \in BOOLEAN :
       LET failed == run.failed \/ ~ok
           left == run.left \ {store}
           next == [run EXCEPT !.left = left, !.failed = failed,
                               !.why = IF failed THEN "removal" ELSE @,
                               !.at = CASE left # {} -> "remove"
                                        [] failed -> "finish"
                                        [] OTHER -> "read"]
       IN s' = With([s EXCEPT !.disk = IF ok THEN @ \ {store} ELSE @], run, next)

\* The summary is read again and must agree.
SummaryArrives(run) ==
  /\ run.at = "read"
  /\ LET verified == s.disk \cap Counted(run.cat) = {}
     IN s' \in {With(s, run, [run EXCEPT !.at = "finish", !.failed = TRUE, !.why = "summary"]),
                With([s EXCEPT !.shown = s.disk], run,
                     [run EXCEPT !.at = "finish", !.seen = s.disk, !.failed = ~verified,
                                 !.why = IF verified THEN "none" ELSE "not_verified"])}

\* Whatever happened, the assistant may read the source again.
SourceClearFinished(run) ==
  run.at = "finish" /\ \E finished \in BOOLEAN : s' = Ended(run, finished /\ ~run.failed)

----------------------------------------------------------------------------
(* All categories, the toolbox and the assistant.                          *)

OpenAll ==
  ~s.all.open /\ ~s.reset /\ s.acts > 0 /\ s' = [Spend EXCEPT !.all.open = TRUE, !.all.failed = FALSE]
CloseAll == s.all.open /\ ~s.all.clearing /\ s' = [s EXCEPT !.all.open = FALSE]

ClearAllProductData ==
  /\ s.all.open /\ ~s.all.clearing /\ s.acts > 0
  /\ s' = [Spend EXCEPT !.all = [open |-> TRUE, clearing |-> TRUE, failed |-> FALSE, failures |-> {},
                                 todo |-> Categories \cup {"toolbox", "ai"}],
                        !.receipts = [cat \in Categories |-> "clearing"],
                        !.runs = @ \cup {Run(cat, TRUE) : cat \in Categories}]

ScopeCleared(scope) ==
  /\ scope \in s.all.todo \cap {"toolbox", "ai"}
  /\ \E ok \in BOOLEAN :
       s' = [s EXCEPT !.all.todo = @ \ {scope}, !.all.failures = IF ok THEN @ ELSE @ \cup {scope}]

\* Preferences go last, and only when nothing failed; then the page reloads.
AllCleared ==
  /\ s.all.clearing /\ s.all.todo = {}
  /\ LET failed == s.all.failures # {}
         t == [s EXCEPT !.all.clearing = FALSE, !.all.failed = failed, !.all.open = failed]
     IN s' = IF failed THEN t ELSE [t EXCEPT !.reset = TRUE, !.preferences = FALSE]

\* The program goes on sampling: a store may be written again, until the reset.
Write(store) ==
  store \notin s.disk /\ ~s.reset /\ s.acts > 0 /\ s' = [Spend EXCEPT !.disk = @ \cup {store}]

----------------------------------------------------------------------------

RunStep(run) ==
  \/ SourceInvalidated(run) \/ SummaryArrives(run) \/ SourceClearFinished(run)
  \/ \E store \in Stores : RemovalEnds(run, store)

AnswerOf(op) ==
  \/ op \in {"toolbox", "ai"} /\ ScopeCleared(op)
  \/ op = "all" /\ AllCleared
  \/ \E run \in s.runs : run.cat = op /\ RunStep(run)

Operations == Categories \cup {"toolbox", "ai", "all"}

Next ==
  \/ \E cat \in Categories : OpenRow(cat) \/ CloseRow(cat) \/ ConfirmRow(cat)
  \/ \E op \in Operations : AnswerOf(op)
  \/ OpenAll \/ CloseAll \/ ClearAllProductData
  \/ \E store \in {"resources", "connections"} : Write(store)

----------------------------------------------------------------------------
(* Properties.                                                             *)

\* A category is reported cleared only when all its removals ended well and
\* the summary read after them counts none of its stores.
ClearedIsVerified ==
  \A run \in s.runs :
    run.at = "finish" /\ ~run.failed => run.left = {} /\ run.seen \cap Counted(run.cat) = {}

\* Preferences are given up only when every part was cleared: a part that
\* failed can be tried again with the settings that are still there.
PreferencesGoLast == ~s.preferences => s.reset /\ s.all.failures = {} /\ s.all.todo = {}

\* Clearing everything ends, and with it the wait of its dialog.
Waiting == s.all.clearing
=============================================================================
