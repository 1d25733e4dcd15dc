----------------------------- MODULE ImageTools -----------------------------
(***************************************************************************)
(* The page of the image tools (src/toolbox/image/ImageToolbox.tsx): one   *)
(* run at a time over a native job with its inputs, what it leaves to be   *)
(* seen, saved and delivered, and the end of it all when it fails, is      *)
(* stopped at any point, or the page is left.  In a browser there is no    *)
(* native job, and what can be downloaded hangs on a URL.                  *)
(***************************************************************************)
EXTENDS Naturals, Sequences, FiniteSets

CONSTANTS
  MaxJobs,     \* bound of the model: native jobs
  MaxTurns,    \* bound of the model: operations of the user, and deadlines
  Recipients   \* bound of the model: most recipients of one delivery

VARIABLE s

None == 0
Idle == [stage |-> "idle"]
NoDelivery == [status |-> "none", requested |-> 0, delivered |-> 0]
Tools == {"mark", "batch", "write", "check", "recipe", "recipient", "robustness", "manifest"}

Init ==
  \E desktop \in BOOLEAN, tool \in Tools :
    s = [desktop |-> desktop, tool |-> tool, mounted |-> TRUE, files |-> 0, picking |-> {}, jobs |-> <<>>, run |-> Idle, stopped |-> FALSE,
         result |-> FALSE, report |-> <<>>, urls |-> {}, delivery |-> NoDelivery, told |-> "nothing",
         output |-> None, reportOutput |-> None, handing |-> {}, saving |-> {}, unsure |-> {}, turns |-> MaxTurns]

Spend == [s EXCEPT !.turns = @ - 1]

----------------------------------------------------------------------------
(* The native side: jobs, the inputs they hold and the outputs they keep.  *)

StartSession(t) == [t EXCEPT !.jobs = Append(@, [status |-> "running", held |-> FALSE])]
EndJob(t, job, status) == [t EXCEPT !.jobs[job] = [status |-> status, held |-> FALSE]]

CancelOutput(t, job) ==
  IF job # None /\ t.jobs[job].status = "output_ready" THEN EndJob(t, job, "cancelled") ELSE t

\* A job whose inputs were still read when it was ended ends once they are not.
JobStops ==
  \E job \in DOMAIN s.jobs : s.jobs[job].status = "stopping" /\ s' = EndJob(s, job, "cancelled")

----------------------------------------------------------------------------
(* What the page shows.                                                    *)

ClearOperationReport(t) == [t EXCEPT !.report = <<>>, !.urls = @ \ {"report"}]
ReleaseOutputs(t) == [ClearOperationReport(t) EXCEPT !.result = FALSE, !.urls = @ \ {"zip"}]
PublishReport(t, report) == [t EXCEPT !.report = report, !.urls = @ \cup {"report"}]

\* Files are measured one after the other before they are taken, in a browser.
SelectFiles(set) ==
  /\ s.turns > 0 /\ ~s.desktop /\ s.mounted /\ set \notin s.picking
  /\ s' = [Spend EXCEPT !.picking = @ \cup {set}]

FilesAreInspected ==
  \E set \in s.picking, fits \in BOOLEAN :
    s' = [s EXCEPT !.picking = @ \ {set}, !.files = IF fits THEN set ELSE 0]

----------------------------------------------------------------------------
(* A run.                                                                  *)

Run ==
  /\ s.mounted /\ s.run = Idle /\ s.output = None /\ s.reportOutput = None /\ s.turns > 0
  /\ IF s.desktop THEN Len(s.jobs) < MaxJobs ELSE s.files # 0
  /\ \E count \in 1..(IF s.tool = "recipient" THEN Recipients ELSE 1) :
       LET clean == IF s.tool = "manifest" THEN [Spend EXCEPT !.urls = @ \ {"manifest"}]
                    ELSE [ReleaseOutputs(Spend) EXCEPT !.delivery = NoDelivery]
       IN s' = [clean EXCEPT !.run = [stage |-> IF s.desktop THEN "session" ELSE "task", job |-> None,
                                      count |-> count, list |-> <<>>, abort |-> FALSE, unsure |-> FALSE],
                             !.stopped = FALSE, !.told = "nothing"]

At(stage) == s.run.stage = stage
To(t, stage) == [t EXCEPT !.run.stage = stage]

SessionStarts ==
  /\ At("session")
  /\ LET t == StartSession(s)
     IN s' \in {To([t EXCEPT !.run.job = Len(t.jobs)], "inputs"), [s EXCEPT !.run = Idle, !.told = "failed"]}

\* An error, or an end that was asked for: the job is ended with it, before anything is told.
Caught(t, aborted) ==
  LET abort == [t EXCEPT !.run.abort = t.stopped \/ (aborted /\ t.tool # "manifest")]
  IN IF t.run.job # None THEN To(abort, "lifecycle") ELSE To(abort, "told")

\* The user chooses files, a mark or a font of his own with them, in a dialog of the system.
InputsArePrepared ==
  /\ At("inputs")
  /\ LET held == [s EXCEPT !.jobs[s.run.job].held = TRUE]
     IN s' \in {To(held, "task"), Caught(held, FALSE), Caught(s, FALSE)}

\* Recipients get one copy each, in order, and are counted when their copy is in the archive.
RecipientIsDelivered ==
  /\ At("task") /\ s.tool = "recipient" /\ ~s.stopped /\ Len(s.run.list) < s.run.count
  /\ LET list == Append(s.run.list, Len(s.run.list) + 1)
     IN s' = [s EXCEPT !.run.list = list,
                       !.delivery = [status |-> "preparing", requested |-> s.run.count, delivered |-> Len(list)]]

\* What each tool leaves on the page when its task has done what it is for.
WithZip(t) == [t EXCEPT !.urls = @ \cup (IF t.desktop THEN {} ELSE {"zip"})]
RunVisible(t) == IF t.tool = "batch" THEN WithZip(t) ELSE [t EXCEPT !.result = TRUE]
RunInvisibleWrite(t) == PublishReport([t EXCEPT !.result = TRUE], <<1>>)
RunInvisibleCheck(t) == PublishReport(t, <<1>>)
RunRecipeEditor(t) == [t EXCEPT !.result = TRUE]
RunRobustness(t) == PublishReport([t EXCEPT !.result = TRUE], <<1>>)
RunManifest(t) == [t EXCEPT !.urls = @ \cup {"manifest"}]
RunRecipient(t) == PublishReport([WithZip(t) EXCEPT !.delivery.status = "ready"], t.run.list)

RunTool(t) ==
  CASE t.tool \in {"mark", "batch"} -> RunVisible(t)
    [] t.tool = "write" -> RunInvisibleWrite(t)
    [] t.tool = "check" -> RunInvisibleCheck(t)
    [] t.tool = "recipe" -> RunRecipeEditor(t)
    [] t.tool = "robustness" -> RunRobustness(t)
    [] t.tool = "manifest" -> RunManifest(t)
    [] t.tool = "recipient" -> RunRecipient(t)

\* The files of a task that succeeded may still prove to have changed.
TaskSucceeds ==
  /\ At("task") /\ ~s.stopped /\ (s.tool = "recipient" => Len(s.run.list) = s.run.count)
  /\ s' = IF s.desktop THEN To(RunTool(s), "revalidate") ELSE [RunTool(s) EXCEPT !.run = Idle, !.told = "done"]

\* It may fail, be given up by the user in a prompt, or be stopped where it waits.
TaskFails ==
  /\ At("task")
  /\ \E aborted \in IF s.stopped THEN {TRUE} ELSE BOOLEAN :
       LET delivered == IF s.tool = "recipient" /\ s.delivery # NoDelivery
                        THEN [ReleaseOutputs(s) EXCEPT !.delivery.status = IF aborted THEN "cancelled" ELSE "failed"] ELSE s
       IN s' = Caught(delivered, aborted)

InputsAreRevalidated == At("revalidate") /\ s' \in {To(s, "release"), Caught(s, FALSE)}

InputsAreReleased ==
  /\ At("release")
  /\ LET free == [s EXCEPT !.jobs[s.run.job].held = FALSE]
     IN s' \in {To(free, IF s.tool = "check" THEN "finish" ELSE "register"), Caught(s, FALSE)}

\* The output waits to be saved; a run that was stopped meanwhile has it all the same.
OutputIsRegistered ==
  /\ At("register")
  /\ LET ready == [s EXCEPT !.jobs[s.run.job].status = "output_ready"]
     IN s' \in {[ready EXCEPT !.run = Idle, !.output = s.run.job, !.told = "done"], Caught(s, FALSE)}

JobIsFinished ==
  /\ At("finish")
  /\ s' \in {[EndJob(s, s.run.job, "completed") EXCEPT !.run = Idle, !.told = "done"], Caught(s, FALSE)}

\* The job is cancelled or failed; it ends with its inputs, unless they are still being read.
EndIsAnswered(t) ==
  LET job == t.run.job
  IN {To(EndJob(t, job, IF t.run.abort THEN "cancelled" ELSE "failed"), "told"),
      To([t EXCEPT !.jobs[job].status = "stopping"], "told"),
      To([t EXCEPT !.run.unsure = TRUE], "told")}
LifecycleIsAnswered == At("lifecycle") /\ s' \in EndIsAnswered(s)

\* Fault: what a stopped run has made so far stays.
TellOnly(t) == [t EXCEPT !.told = "cancelled"]

\* A run that was stopped leaves nothing to be seen, and only then is told to be.
TellCancelled(t) == [IF t.tool = "manifest" THEN t ELSE ReleaseOutputs(t) EXCEPT !.told = "cancelled"]

\* Inputs that are still held at the end of a run are given back.
RunIsTold ==
  /\ At("told")
  /\ LET t == IF s.stopped \/ s.run.abort THEN TellCancelled(s) ELSE [s EXCEPT !.told = "failed"]
         job == s.run.job
         unsure == IF s.run.unsure THEN [t EXCEPT !.unsure = @ \cup {job}] ELSE t
     IN s' = IF job # None /\ s.jobs[job].held THEN To(unsure, "return") ELSE [unsure EXCEPT !.run = Idle]

InputsAreReturned ==
  /\ At("return")
  /\ s' \in {[s EXCEPT !.run = Idle, !.jobs[s.run.job].held = FALSE],
             [s EXCEPT !.run = Idle, !.unsure = @ \cup {s.run.job}]}

Stop == s.run # Idle /\ s.mounted /\ ~s.stopped /\ s.turns > 0 /\ s' = [Spend EXCEPT !.stopped = TRUE]
Deadline == s.run # Idle /\ s.tool # "manifest" /\ ~s.stopped /\ s.turns > 0 /\ s' = [Spend EXCEPT !.stopped = TRUE]

\* The page is left: the run is stopped, URLs are revoked, what waits is given up.
Leave ==
  /\ s.mounted /\ s.turns > 0
  /\ LET t == CancelOutput(CancelOutput(Spend, s.output), s.reportOutput)
     IN s' = [t EXCEPT !.mounted = FALSE, !.urls = {}, !.stopped = s.run # Idle]

----------------------------------------------------------------------------
(* Outputs that wait, of the run and of its report.                        *)

Busy(kind) == \E h \in s.handing : h.kind = kind
RefOf(t, kind) == IF kind = "report" THEN t.reportOutput ELSE t.output
SetRef(t, kind, job) == IF kind = "report" THEN [t EXCEPT !.reportOutput = job] ELSE [t EXCEPT !.output = job]

\* A result, or the report of it, is handed to a native job of its own to be saved.
Hand(kind, content) ==
  /\ s.desktop /\ s.mounted /\ s.turns > 0 /\ ~Busy(kind) /\ Len(s.jobs) < MaxJobs
  /\ content /\ RefOf(s, kind) = None
  /\ LET t == StartSession(Spend)
     IN s' \in {[t EXCEPT !.handing = @ \cup {[kind |-> kind, job |-> Len(t.jobs), stage |-> "register"]}], Spend}

DeliverFormalOutput == Hand("output", s.result)
PrepareNativeReport == Hand("report", s.report # <<>>)

HandingIsAnswered ==
  \E h \in s.handing :
    LET t == [s EXCEPT !.handing = @ \ {h}]
        failing == [t EXCEPT !.handing = @ \cup {[h EXCEPT !.stage = "fail"]}]
    IN IF h.stage = "register"
       THEN s' \in {SetRef([t EXCEPT !.jobs[h.job].status = "output_ready"], h.kind, h.job), failing}
       ELSE s' \in {EndJob(t, h.job, "failed"), [t EXCEPT !.unsure = @ \cup {h.job}]}

Save(kind) ==
  /\ s.mounted /\ s.turns > 0 /\ RefOf(s, kind) # None /\ \A x \in s.saving : x.kind # kind
  /\ s' = [Spend EXCEPT !.saving = @ \cup {[kind |-> kind, job |-> RefOf(s, kind)]}]

SaveNativeOutput == Save("output")
SaveNativeReport == Save("report")

ExportEnds ==
  \E x \in s.saving :
    LET t == [s EXCEPT !.saving = @ \ {x}]
    IN \E ok \in IF s.jobs[x.job].status = "output_ready" THEN BOOLEAN ELSE {FALSE} :
         s' = IF ok THEN SetRef(EndJob(t, x.job, "completed"), x.kind, None) ELSE t

GiveUp(kind) == SetRef(CancelOutput(Spend, RefOf(s, kind)), kind, None)
CancelNativeOutput == s.mounted /\ s.turns > 0 /\ s.output # None /\ s' = ReleaseOutputs(GiveUp("output"))
CancelNativeReport == s.mounted /\ s.turns > 0 /\ s.reportOutput # None /\ s' = GiveUp("report")

\* Clearing gives up both outputs, and the files.
Clear ==
  /\ s.mounted /\ s.turns > 0 /\ s.run = Idle
  /\ LET t == CancelOutput(CancelOutput(Spend, s.output), s.reportOutput)
     IN s' = [ReleaseOutputs(t) EXCEPT !.output = None, !.reportOutput = None, !.files = 0, !.delivery = NoDelivery,
                                       !.urls = @ \ {"manifest"}, !.told = "nothing"]

----------------------------------------------------------------------------
Operations == {"inspect", "session", "inputs", "task", "job", "end", "handing", "export"}
AnswerOf(op) ==
  CASE op = "inspect" -> FilesAreInspected
    [] op = "session" -> SessionStarts
    [] op = "inputs" -> InputsArePrepared
    [] op = "task" -> RecipientIsDelivered \/ TaskSucceeds \/ TaskFails
    [] op = "job" -> InputsAreRevalidated \/ InputsAreReleased \/ OutputIsRegistered \/ JobIsFinished
    [] op = "end" -> LifecycleIsAnswered \/ RunIsTold \/ InputsAreReturned
    [] op = "handing" -> HandingIsAnswered
    [] op = "export" -> ExportEnds

Next ==
  \/ \E set \in 1..2 : SelectFiles(set)
  \/ FilesAreInspected \/ JobStops
  \/ Run
  \/ SessionStarts \/ InputsArePrepared \/ RecipientIsDelivered \/ TaskSucceeds \/ TaskFails
  \/ InputsAreRevalidated \/ InputsAreReleased \/ OutputIsRegistered \/ JobIsFinished
  \/ LifecycleIsAnswered \/ RunIsTold \/ InputsAreReturned
  \/ Stop \/ Deadline \/ Leave \/ Clear
  \/ DeliverFormalOutput \/ PrepareNativeReport \/ SaveNativeOutput \/ SaveNativeReport
  \/ CancelNativeOutput \/ CancelNativeReport
  \/ HandingIsAnswered \/ ExportEnds

Waiting == s.run # Idle \/ s.handing # {} \/ s.saving # {}

----------------------------------------------------------------------------
\* No native job goes on, and no input is held, that the page has no more to do
\* with, unless it told that it could not be sure of that.
NothingIsLeftBehind ==
  \A job \in DOMAIN s.jobs : s.jobs[job].status = "running" \/ (s.jobs[job].held /\ s.jobs[job].status # "stopping") =>
    \/ s.run # Idle /\ s.run.job = job
    \/ \E h \in s.handing : h.job = job
    \/ job \in s.unsure

\* A run that was stopped left nothing that could be taken for its result.
StoppedShowsNothing ==
  s.told = "cancelled" /\ s.run = Idle /\ s.tool # "manifest" => ~s.result /\ s.report = <<>> /\ "zip" \notin s.urls

\* The list of recipients names those, and all those, whose copies are in the archive.
ListedIsDelivered ==
  /\ s.delivery.status = "ready" => s.delivery.delivered = s.delivery.requested
  /\ s.delivery # NoDelivery /\ s.report # <<>> => s.report = [n \in 1..s.delivery.delivered |-> n]
  /\ s.delivery.status \in {"cancelled", "failed"} => s.report = <<>>

\* A page that was left keeps no URL alive.
UrlsAreRevoked == ~s.mounted => s.urls = {}
=============================================================================
