--------------------------- MODULE ImageExecution ---------------------------
(***************************************************************************)
(* What the image tools run beside the page (src/toolbox/image): a task in *)
(* a worker, a picture a worker loads, an archive a worker packs and a     *)
(* reader of manifests.  Each can be stopped or run out of time while its  *)
(* answer is on the way, and what answers late must find nobody waiting.   *)
(* A behaviour is of one of them, named by s.of.                           *)
(***************************************************************************)
EXTENDS Naturals, Sequences, FiniteSets, SequencesExt

CONSTANTS
  MaxItems,   \* bound of the model: files given to an archive
  MaxLoads    \* bound of the model: sources given to one picture

VARIABLE s

None == 0
Open(settling) == settling = "none"

----------------------------------------------------------------------------
(* A task: the SDK's (execute) or a transformation (transform).            *)

MinWidth == 3
Widths == {2, 3, 4, 8}
Modes == {"execute", "quality", "scale", "crop"}

\* A quarter is cropped on each side; what is left may be too small to be read.
CroppedWidth(width) == width - 2 * (width \div 4)
ExecuteTransform(mode, width) ==
  CASE mode = "crop" -> IF CroppedWidth(width) < MinWidth THEN None ELSE CroppedWidth(width)
    [] mode = "scale" -> IF width > 1 THEN width - 1 ELSE 1
    [] OTHER -> width

NewTask(mode, width) ==
  [of |-> "task", mode |-> mode, width |-> width, out |-> None, posted |-> "none",
   settled |-> "none", released |-> FALSE, disposed |-> FALSE]

\* An input that is not local, too large or not to be sent is refused before there is a worker.
Refused == [NewTask("execute", 2) EXCEPT !.settled = "error", !.released = TRUE]

ReleaseWorker(t) == [t EXCEPT !.released = TRUE]
Fail(t, why) == IF Open(t.settled) THEN [ReleaseWorker(t) EXCEPT !.settled = why] ELSE t

\* The worker is gone before anybody is told that the task ended.
Terminate(t, why) == Fail(ReleaseWorker(t), why)

WorkerPosts ==
  /\ s.of = "task" /\ s.posted = "none" /\ ~s.released
  /\ \/ /\ ExecuteTransform(s.mode, s.width) # None
        /\ s' = [s EXCEPT !.posted = "result"]
     \/ s' = [s EXCEPT !.posted = "error"]

\* The listener is removed with the end of the task, and does not hear what is late.
Heard(t) ==
  LET rest == [t EXCEPT !.posted = "heard"]
      result == [rest EXCEPT !.settled = "result", !.out = ExecuteTransform(t.mode, t.width)]
  IN IF ~Open(t.settled) THEN rest
     ELSE IF t.posted = "error" THEN Fail(rest, "error")
     ELSE IF t.mode = "execute" THEN result ELSE ReleaseWorker(result)

MessageArrives == s.of = "task" /\ s.posted \in {"result", "error"} /\ s' = Heard(s)
WorkerExits == s.of = "task" /\ Open(s.settled) /\ s' = Fail(s, "error")

StopTask == s.of = "task" /\ Open(s.settled) /\ s' = Terminate(s, "stopped")
TaskDeadline == s.of = "task" /\ Open(s.settled) /\ s' = Terminate(s, "timeout")

\* Fault: a task that has its result is left as it is.
DisposeRunning(t) == [IF Open(t.settled) THEN Terminate(t, "stopped") ELSE t EXCEPT !.disposed = TRUE]

\* The marker is given up, after its task or in the middle of it.
DisposeTask(t) ==
  [IF Open(t.settled) THEN Terminate(t, "stopped") ELSE ReleaseWorker(t) EXCEPT !.disposed = TRUE]
TaskIsDisposed == s.of = "task" /\ ~s.disposed /\ s' = DisposeTask(s)

----------------------------------------------------------------------------
(* A picture in the worker, whose source may change while it loads.        *)

NewPicture == [of |-> "picture", generation |-> 0, loading |-> {}, source |-> None, shown |-> None]

SetSource(source) ==
  /\ s.of = "picture" /\ s.generation < MaxLoads
  /\ s' = [s EXCEPT !.generation = @ + 1, !.source = source, !.shown = None,
                    !.loading = @ \cup (IF source = None THEN {} ELSE {<<s.generation + 1, source>>})]

\* A load that has been overtaken is closed and not drawn.
Loaded(t, load) == IF load[1] = t.generation THEN [t EXCEPT !.shown = load[2]] ELSE t

LoadEnds ==
  /\ s.of = "picture"
  /\ \E load \in s.loading, ok \in BOOLEAN :
       LET t == [s EXCEPT !.loading = @ \ {load}] IN s' = IF ok THEN Loaded(t, load) ELSE t

----------------------------------------------------------------------------
(* An archive, packed by a worker of its own from what the page appends.   *)

MaxInput == 3
MaxExport == 4
MaxFiles == 2

NewArchive ==
  [of |-> "archive", budget |-> [inputs |-> 0, files |-> 0, output |-> 0], pending |-> "none", settled |-> "none",
   aborted |-> FALSE, appended |-> <<>>, requests |-> <<>>, replies |-> <<>>, got |-> <<>>,
   job |-> [items |-> <<>>, inputs |-> 0, source |-> 0, over |-> FALSE]]

\* The page counts before it sends: the input as it is read, the output as it is made.
AppendBatchInput(budget, size) == [budget EXCEPT !.inputs = @ + size]
AppendBatchZipOutput(budget, size) == [budget EXCEPT !.files = @ + 1, !.output = @ + size]
AssertBatchZipBudget(budget) == budget.inputs <= MaxInput /\ budget.files <= MaxFiles /\ budget.output <= MaxExport

\* The writer closes once: its worker is terminated, and what was on the way is not heard.
CloseWriter(t, why) ==
  IF Open(t.settled) THEN [t EXCEPT !.settled = why, !.pending = "none", !.requests = <<>>, !.replies = <<>>] ELSE t

AppendItem ==
  /\ s.of = "archive" /\ Open(s.settled) /\ s.pending = "none" /\ Len(s.appended) < MaxItems
  /\ \E input \in 1..2, output \in 1..3 :
       LET budget == AppendBatchZipOutput(AppendBatchInput(s.budget, input), output)
       IN s' = IF AssertBatchZipBudget(budget)
               THEN [s EXCEPT !.budget = budget, !.pending = "append", !.appended = Append(@, output),
                              !.requests = Append(@, [type |-> "append", size |-> output, inputs |-> budget.inputs])]
               ELSE CloseWriter(s, "failed")

FinishArchive ==
  /\ s.of = "archive" /\ Open(s.settled) /\ s.pending = "none" /\ s.appended # <<>>
  /\ s' = [s EXCEPT !.pending = "finish", !.requests = Append(@, [type |-> "finish", size |-> 0, inputs |-> 0])]

AbortArchive == s.of = "archive" /\ Open(s.settled) /\ s' = [CloseWriter(s, "stopped") EXCEPT !.aborted = TRUE]
DisposeWriter == s.of = "archive" /\ Open(s.settled) /\ s.pending = "none" /\ s' = CloseWriter(s, "failed")

\* The worker measures again, and the archive is one larger than what is in it.
AppendZipItem(job, request) ==
  LET next == [job EXCEPT !.items = Append(@, request.size), !.inputs = request.inputs, !.source = @ + request.size]
  IN IF job.over \/ request.inputs \notin job.inputs..MaxInput \/ Len(next.items) > MaxFiles \/ next.source > MaxExport
     THEN [job EXCEPT !.over = TRUE] ELSE next
FinishZip(job) == IF job.source + 1 > MaxExport THEN [job EXCEPT !.over = TRUE] ELSE job

ZipWorkerServes ==
  /\ s.of = "archive" /\ s.requests # <<>>
  /\ LET request == Head(s.requests)
         job == IF request.type = "append" THEN AppendZipItem(s.job, request) ELSE FinishZip(s.job)
         answer == IF request.type = "append" THEN "appended" ELSE "complete"
     IN s' = [s EXCEPT !.requests = Tail(@), !.job = job,
                       !.replies = Append(@, IF job.over THEN "error" ELSE answer)]

ZipReply(t, reply) ==
  IF reply = "error" THEN CloseWriter(t, "failed")
  ELSE IF reply = "appended" THEN IF t.pending = "append" THEN [t EXCEPT !.pending = "none"] ELSE CloseWriter(t, "failed")
  ELSE IF t.pending = "finish" THEN [CloseWriter(t, "complete") EXCEPT !.got = t.job.items] ELSE CloseWriter(t, "failed")

ZipWorkerAnswers ==
  s.of = "archive" /\ s.replies # <<>> /\ s' = ZipReply([s EXCEPT !.replies = Tail(@)], Head(s.replies))

----------------------------------------------------------------------------
(* The reader of manifests, each step of which is waited for until it is   *)
(* given up.                                                               *)

NewReader == [of |-> "reader", step |-> "runtime", late |-> {}, settled |-> "none", sdk |-> "none", disposals |-> 0,
              cached |-> "loading", failed |-> FALSE]

\* The SDK is given up once, with what it has open.
Dispose(t) == IF t.sdk = "open" THEN [t EXCEPT !.sdk = "disposed", !.disposals = @ + 1] ELSE t
Inspected(t, what) == [Dispose(t) EXCEPT !.settled = what, !.step = "done"]

LoadC2paRuntime ==
  /\ s.of = "reader" /\ s.cached = "loading"
  /\ \E ok, supported \in BOOLEAN :
       LET t == [s EXCEPT !.cached = IF ok THEN "ready" ELSE "none"]
       IN s' = IF s.step # "runtime" THEN t
               ELSE IF ~ok THEN Inspected(t, "failed")
               ELSE IF ~supported THEN Inspected(t, "unsupported") ELSE [t EXCEPT !.step = "sdk", !.late = {"sdk"}]

\* An SDK that comes when nobody waits for it is disposed of at once.
SdkIsCreated(t, ok) ==
  LET rest == [t EXCEPT !.late = {}]
      open == [rest EXCEPT !.sdk = "open"]
  IN IF t.step = "sdk" THEN IF ok THEN [open EXCEPT !.step = "reader"] ELSE Inspected(rest, "failed")
     ELSE IF ok THEN Dispose(open) ELSE rest

CreateC2pa == s.of = "reader" /\ "sdk" \in s.late /\ \E ok \in BOOLEAN : s' = SdkIsCreated(s, ok)

ReadManifest ==
  /\ s.of = "reader"
  /\ \/ /\ s.step = "reader"
        /\ \/ \E what \in {"malformed", "not_found"} : s' = Inspected(s, what)
           \/ s' = [s EXCEPT !.step = "store"]
     \/ /\ s.step = "store"
        /\ \E ok \in BOOLEAN : s' = [s EXCEPT !.step = "free", !.failed = ~ok]
     \/ /\ s.step = "free"
        /\ \E ok \in BOOLEAN : s' = Inspected(s, IF s.failed \/ ~ok THEN "failed" ELSE "parsed")

\* Stopped by the user, or out of time: the SDK goes with the step that was waited for.
StopReader == s.of = "reader" /\ s.step # "done" /\ s' = Inspected(s, "stopped")

----------------------------------------------------------------------------
Init ==
  \/ \E mode \in Modes, width \in Widths : s = NewTask(mode, width)
  \/ s \in {Refused, NewPicture, NewArchive, NewReader}

Operations == {"task", "message", "dispose", "load", "zip", "reply", "page", "runtime", "sdk", "reader"}
AnswerOf(op) ==
  CASE op = "task" -> WorkerPosts \/ TaskDeadline
    [] op = "message" -> MessageArrives
    [] op = "dispose" -> TaskIsDisposed
    [] op = "load" -> LoadEnds
    [] op = "zip" -> ZipWorkerServes
    [] op = "reply" -> ZipWorkerAnswers
    [] op = "page" -> FinishArchive \/ DisposeWriter
    [] op = "runtime" -> LoadC2paRuntime
    [] op = "sdk" -> CreateC2pa
    [] op = "reader" -> ReadManifest

Next ==
  \/ WorkerPosts \/ MessageArrives \/ WorkerExits \/ StopTask \/ TaskDeadline \/ TaskIsDisposed
  \/ \E source \in {None, 1, 2} : SetSource(source)
  \/ LoadEnds
  \/ AppendItem \/ FinishArchive \/ AbortArchive \/ DisposeWriter \/ ZipWorkerServes \/ ZipWorkerAnswers
  \/ LoadC2paRuntime \/ CreateC2pa \/ ReadManifest \/ StopReader

Waiting ==
  CASE s.of = "task" -> Open(s.settled) \/ ~s.released
    [] s.of = "picture" -> s.loading # {}
    [] s.of = "archive" -> Open(s.settled)
    [] s.of = "reader" -> Open(s.settled) \/ s.sdk = "open"

----------------------------------------------------------------------------
\* A worker is gone when its task is said to have failed or been stopped, and
\* when the marker is given up; an SDK is disposed of once, however late it came.
NothingRunsUnseen ==
  /\ s.of = "task" => (s.settled \notin {"none", "result"} \/ s.disposed => s.released)
  /\ s.of = "reader" => (~Open(s.settled) => s.sdk # "open" /\ s.disposals <= 1)

\* What is handed on is what was asked for: the picture of the last source, all
\* appended files in an archive within its budgets, a crop that is large enough.
HandedOnAsAsked ==
  /\ s.of = "task" /\ s.settled = "result" => s.out \in 1..s.width /\ (s.mode = "crop" => s.out >= MinWidth)
  /\ s.of = "picture" => s.shown \in {None, s.source}
  /\ s.of = "archive" /\ s.settled = "complete" => s.got = s.appended /\ ~s.aborted /\ FoldSeq(+, 1, s.got) <= MaxExport

\* What a task, an archive or an inspection ended with stays what it ended with.
EndsOnce == s.of \in {"task", "archive", "reader"} /\ s.settled # "none" => s'.settled = s.settled
=============================================================================
