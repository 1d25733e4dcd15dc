----------------------------- MODULE AppUpdate -----------------------------
(***************************************************************************)
(* Updates of the application: the checks, the prompt and its reminder,    *)
(* and the installation, which is a task of the native side that a window  *)
(* starts, follows, loses and finds again (src/hooks/useAppUpdater.ts,     *)
(* src/appUpdater.ts, src-tauri/src/app_update.rs); and the help that      *)
(* stands beside it on the page: a report of a problem and the first-run   *)
(* guide (src/components/AboutSupport.tsx, FirstRunGuide.tsx).             *)
(***************************************************************************)
EXTENDS Integers, FiniteSets

CONSTANTS
  MaxTurns,  \* bound of the model: steps of the user, of time and of the releases
  Releases,  \* the latest release there may be; 0 is the one that runs
  Retries    \* queries of the task that may fail in a row

VARIABLE s

Spend == [s EXCEPT !.turns = @ - 1]
May(part) == s.of = part /\ s.turns > 0

NoQuery == [stage |-> "none", phase |-> "idle"]
NoPrompt == [version |-> 0, due |-> FALSE]
FreshWindow(running, available) ==
  [checking |-> "no", action |-> "idle", result |-> "none", available |-> available, installable |-> 0, prompt |-> FALSE,
   poll |-> [of |-> 0, stage |-> "none", failures |-> 0], query |-> NoQuery, active |-> FALSE, receipt |-> 0,
   operation |-> 0]

\* What is stored outlives the window: the version last found, the one that is
\* skipped, the reminder; `records` are the operations in the history of actions.
Start ==
  [of |-> "update", turns |-> MaxTurns, running |-> 0, published |-> 1, window |-> FreshWindow(0, 0),
   native |-> [version |-> 0, phase |-> "idle"], installed |-> 0, found |-> 0, skipped |-> 0, reminder |-> NoPrompt,
   records |-> {}]

W == s.window
Busy == W.action \in {"installing", "restarting"}

----------------------------------------------------------------------------
(* Checking.                                                               *)

\* A check that the user asked for does not prompt; a failed installation is forgotten.
Check(t, manual) ==
  [t EXCEPT !.window.checking = IF manual THEN "manual" ELSE "auto",
            !.window.result = IF manual THEN "none" ELSE @,
            !.window.action = IF @ = "installError" THEN "idle" ELSE @]
CheckNow ==
  /\ May("update") /\ W.checking = "no" /\ ~Busy
  /\ s' = Check(Spend, TRUE)
\* By the clock, at a reminder, to have the update of an earlier window at hand,
\* or online again after a failure.
CheckByItself ==
  /\ May("update") /\ W.checking = "no" /\ ~Busy
  /\ s' = Check(Spend, FALSE)

\* The reminder is read when the check ends.
Offered(t, version) ==
  /\ version # t.skipped
  /\ t.reminder.version = version => t.reminder.due
CheckEnds ==
  /\ s.of = "update" /\ W.checking # "no"
  /\ LET found == IF s.published > s.running THEN s.published ELSE 0
         visible == IF found = s.skipped THEN 0 ELSE found
     IN s' = [s EXCEPT !.found = visible,
                       !.window = [W EXCEPT !.checking = "no", !.installable = found, !.available = visible,
                                            !.result = IF found = 0 THEN "current" ELSE "available",
                                            !.prompt = W.checking = "auto" /\ visible # 0 /\ Offered(s, visible)]]
CheckFails ==
  /\ s.of = "update" /\ W.checking # "no"
  /\ s' = [s EXCEPT !.window.checking = "no", !.window.result = "error"]

RemindLater ==
  /\ May("update") /\ W.prompt /\ W.action = "idle" /\ W.available # 0
  /\ s' = [Spend EXCEPT !.reminder = [version |-> W.available, due |-> FALSE], !.window.prompt = FALSE]

SkipAvailableVersion ==
  /\ May("update") /\ W.available # 0 /\ W.action = "idle"
  /\ s' = [Spend EXCEPT !.skipped = W.available, !.reminder = NoPrompt, !.found = 0, !.window.available = 0,
                        !.window.prompt = FALSE]

----------------------------------------------------------------------------
(* Installing.  The native task downloads and installs the release that is *)
(* published when it runs, if it is still the one that was asked for.      *)

Install ==
  /\ May("update") /\ W.installable # 0 /\ W.action \in {"idle", "installError"}
  /\ LET id == Cardinality(s.records) + 1 IN
       s' = [Spend EXCEPT !.records = @ \cup {[id |-> id, version |-> W.installable, status |-> "running"]},
                          !.window = [W EXCEPT !.action = "installing", !.prompt = FALSE, !.operation = id,
                                               !.poll = [of |-> W.installable, stage |-> "starting", failures |-> 0]]]

\* The operation that is told of is the one of the last installation.
Complete(t, status) ==
  [t EXCEPT !.records = {IF r.id = t.window.operation THEN [r EXCEPT !.status = status] ELSE r : r \in @},
            !.window.operation = 0, !.window.poll = [of |-> 0, stage |-> "none", failures |-> 0],
            !.window.action = IF status = "succeeded" THEN "ready" ELSE "installError"]

\* Fault: a task that installs is taken for done.
FollowInstalling(t, task) ==
  CASE task.version # t.window.poll.of -> Complete(t, "failed")
    [] task.phase \in {"installing", "ready"} -> Complete(t, "succeeded")
    [] task.phase \in {"failed", "idle"} -> Complete(t, "failed")
    [] OTHER -> [t EXCEPT !.window.poll.stage = "polling", !.window.poll.failures = 0]
\* Fault: a task that failed is still waited for.
FollowFailed(t, task) ==
  CASE task.version # t.window.poll.of -> Complete(t, "failed")
    [] task.phase = "ready" -> Complete(t, "succeeded")
    [] task.phase = "idle" -> Complete(t, "failed")
    [] OTHER -> [t EXCEPT !.window.poll.stage = "polling", !.window.poll.failures = 0]
Follow(t, task) ==
  CASE task.version # t.window.poll.of -> Complete(t, "failed")
    [] task.phase = "ready" -> Complete(t, "succeeded")
    [] task.phase \in {"failed", "idle"} -> Complete(t, "failed")
    [] OTHER -> [t EXCEPT !.window.poll.stage = "polling", !.window.poll.failures = 0]

\* One task at a time; the same one is joined.
StartTask ==
  /\ s.of = "update" /\ W.poll.stage = "starting"
  /\ LET n == s.native
         task == [version |-> W.poll.of, phase |-> "downloading"]
     IN s' = CASE n.phase \in {"downloading", "installing"} /\ n.version # W.poll.of -> Complete(s, "failed")
               [] n.phase \in {"downloading", "installing", "ready"} /\ n.version = W.poll.of -> Follow(s, n)
               [] OTHER -> Follow([s EXCEPT !.native = task], task)

PollTask ==
  /\ s.of = "update" /\ W.poll.stage = "polling"
  /\ \/ s' = Follow(s, s.native)
     \/ s' = IF W.poll.failures = Retries THEN Complete(s, "failed") ELSE [s EXCEPT !.window.poll.failures = @ + 1]

RunUpdate ==
  /\ s.of = "update" /\ s.native.phase = "downloading"
  /\ \/ s' = [s EXCEPT !.native.phase = IF s.published = s.native.version THEN "installing" ELSE "failed"]
     \/ s' = [s EXCEPT !.native.phase = "failed"]

InstallEnds ==
  /\ s.of = "update" /\ s.native.phase = "installing"
  /\ \/ s' = [s EXCEPT !.native.phase = "ready", !.installed = s.native.version]
     \/ s' = [s EXCEPT !.native.phase = "failed"]

\* A window that starts or is shown again asks for the task, and follows it while it is active.
Query(t) == [t EXCEPT !.window.query = [stage |-> "asked", phase |-> "idle"]]
ShowWindow ==
  /\ May("update") /\ W.query.stage = "none"
  /\ s' = Query(Spend)

TaskIsRead ==
  /\ s.of = "update" /\ W.query.stage = "asked"
  /\ s' = [s EXCEPT !.window.query = [stage |-> "answered", phase |-> s.native.phase]]
ReconcileNativeTask(t, phase) ==
  CASE phase \in {"downloading", "installing"} -> [t EXCEPT !.window.action = "installing", !.window.prompt = FALSE]
    [] phase = "ready" -> [t EXCEPT !.window.action = "ready", !.window.prompt = FALSE]
    [] phase = "failed" -> [t EXCEPT !.window.action = "installError", !.window.prompt = FALSE]
    [] OTHER -> t
\* By then the task may have gone on.
Reconcile ==
  /\ s.of = "update" /\ W.query.stage = "answered"
  /\ LET active == W.query.phase \in {"downloading", "installing"}
         told == [ReconcileNativeTask(s, W.query.phase) EXCEPT !.window.active = active, !.window.query = NoQuery]
     IN s' = IF active THEN Query(told) ELSE told
\* Only a task that was seen to be active is asked for again.
QueryFails ==
  /\ s.of = "update" /\ W.query.stage = "asked" /\ ~W.active
  /\ s' = [s EXCEPT !.window.query = NoQuery]

----------------------------------------------------------------------------
(* Restarting, and a window that is lost.                                  *)

LoadAvailable(t) == IF t.found > t.running THEN t.found ELSE 0
Reopened(t) == Query([t EXCEPT !.window = FreshWindow(t.running, LoadAvailable(t))])

Restart ==
  /\ May("update") /\ W.action \in {"ready", "restartError"}
  /\ s' = [Spend EXCEPT !.window.action = "restarting"]
\* What was installed runs, and tells what it was updated from.
Restarts ==
  /\ s.of = "update" /\ W.action = "restarting"
  /\ LET updated == [s EXCEPT !.running = s.installed, !.native = [version |-> 0, phase |-> "idle"],
                              !.records = {IF r.version = s.installed /\ r.status = "succeeded"
                                           THEN [r EXCEPT !.status = "verified"] ELSE r : r \in @}]
     IN s' = [Reopened(updated) EXCEPT !.window.receipt = s.running]
RestartFails ==
  /\ s.of = "update" /\ W.action = "restarting"
  /\ s' = [s EXCEPT !.window.action = "restartError"]
DismissReceipt ==
  /\ May("update") /\ s.running # 0
  /\ s' = [Spend EXCEPT !.window.receipt = 0]

\* The page is loaded anew; operations that were running are told as interrupted.
ReloadWindow ==
  /\ May("update")
  /\ s' = [Reopened(Spend) EXCEPT !.records = {IF r.status = "running" THEN [r EXCEPT !.status = "interrupted"] ELSE r : r \in @}]

Publish ==
  /\ May("update") /\ s.published < Releases
  /\ s' = [Spend EXCEPT !.published = @ + 1]
ReminderIsDue ==
  /\ May("update") /\ s.reminder.version # 0
  /\ s' = [Spend EXCEPT !.reminder.due = TRUE]

----------------------------------------------------------------------------
(* A report of a problem: what it says of the system is copied first.  And *)
(* the first-run guide, which is left when it was gone through or skipped. *)

StartSupport ==
  [of |-> "support", turns |-> MaxTurns, open |-> FALSE, state |-> "idle", copied |-> "idle", issues |-> 0, guide |-> TRUE,
   step |-> 0, completed |-> FALSE]

OpenSupportFlow ==
  /\ May("support") /\ ~s.guide /\ ~s.open
  /\ s' = [Spend EXCEPT !.open = TRUE, !.state = "idle"]
CloseSupportFlow ==
  /\ s.of = "support" /\ s.open /\ s.state # "opening"
  /\ s' = [s EXCEPT !.open = FALSE]
OpenGuidedIssue ==
  /\ May("support") /\ s.open /\ s.state # "opening"
  /\ s' = [Spend EXCEPT !.state = "opening"]
IssueIsOpened ==
  /\ s.of = "support" /\ s.state = "opening"
  /\ \/ s' = [s EXCEPT !.issues = @ + 1, !.copied = "copied", !.open = FALSE, !.state = "idle"]
     \/ s' = [s EXCEPT !.state = "error"]
CopyDiagnostic ==
  /\ May("support") /\ ~s.guide /\ ~s.open
  /\ \E copied \in {"copied", "error"} : s' = [Spend EXCEPT !.copied = copied]
GuideStep ==
  /\ May("support") /\ s.guide
  /\ \E step \in {s.step - 1, s.step + 1} \cap (0..2) : s' = [Spend EXCEPT !.step = step]
CloseGuide ==
  /\ s.of = "support" /\ s.guide
  /\ s' = [s EXCEPT !.guide = FALSE, !.completed = TRUE]
OpenGuide ==
  /\ May("support") /\ ~s.guide /\ ~s.open
  /\ s' = [Spend EXCEPT !.guide = TRUE, !.step = 0]

----------------------------------------------------------------------------
Init == s = Start \/ s = StartSupport

CheckSteps == CheckNow \/ CheckByItself \/ CheckEnds \/ CheckFails \/ RemindLater \/ SkipAvailableVersion
InstallSteps ==
  \/ Install \/ StartTask \/ PollTask \/ RunUpdate \/ InstallEnds \/ ShowWindow \/ TaskIsRead \/ Reconcile \/ QueryFails
RestartSteps ==
  Restart \/ Restarts \/ RestartFails \/ DismissReceipt \/ ReloadWindow \/ Publish \/ ReminderIsDue
SupportSteps ==
  \/ OpenSupportFlow \/ CloseSupportFlow \/ OpenGuidedIssue \/ IssueIsOpened \/ CopyDiagnostic
  \/ GuideStep \/ CloseGuide \/ OpenGuide
Next == CheckSteps \/ InstallSteps \/ RestartSteps \/ SupportSteps

\* The answers that a window waits for.
Operations == {"check", "start", "poll", "task", "query", "restart", "issue"}
AnswerOf(op) ==
  CASE op = "check" -> CheckEnds \/ CheckFails
    [] op = "start" -> StartTask
    [] op = "poll" -> PollTask
    [] op = "task" -> RunUpdate \/ InstallEnds
    [] op = "query" -> TaskIsRead \/ Reconcile
    [] op = "restart" -> Restarts \/ RestartFails
    [] op = "issue" -> IssueIsOpened
Waiting ==
  \/ s.of = "update" /\ (W.checking # "no" \/ Busy)
  \/ s.of = "support" /\ s.state = "opening"

----------------------------------------------------------------------------
\* A window says that an update is ready, offers the restart and records the
\* operation as done only when it was installed (src/hooks/useAppUpdater.ts, install).
ReadyIsInstalled ==
  s.of = "update" =>
    /\ W.action \in {"ready", "restarting", "restartError"} => s.installed > s.running
    /\ \A r \in s.records : r.status \in {"succeeded", "verified"} => r.version <= s.installed

\* What was skipped is not offered again, and what the user wants to be reminded
\* of is not offered before that; test "reminds after 24 hours and skips only the
\* selected version" (src/hooks/useAppUpdater.test.tsx).
OfferedWhenWanted(t, u) ==
  (~t.window.prompt /\ u.window.prompt) =>
    /\ u.window.available # u.skipped
    /\ u.reminder.version = u.window.available => u.reminder.due
OfferedStep == s.of = "update" => OfferedWhenWanted(s, s')
=============================================================================
