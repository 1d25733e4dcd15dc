----------------------------- MODULE HeldProofs -----------------------------
(***************************************************************************)
(* Proofs about the pages of ToolsMC that hold something for the user: a   *)
(* native job at work and its inputs, the address of a picture, a file     *)
(* opened for its hash, the lease of a dialog and the keyboard do not stay *)
(* held for nobody, for every number of operations.                        *)
(*                                                                         *)
(* Here are the invariants of the pictures (ImagesGood) and of the binary  *)
(* patches (PatchGood); those of the other pages are in ToolProofs.        *)
(* HeldGood joins them.                                                    *)
(***************************************************************************)
EXTENDS ToolProofs

-------------------------------------------------------------------------------
(* The pictures.                                                             *)

ImagesFields ==
  {"desktop", "tool", "mounted", "files", "picking", "jobs", "run", "stopped", "result", "report",
   "urls", "delivery", "told", "output", "reportOutput", "handing", "saving", "unsure", "turns"}
RunFields == {"stage", "job", "count", "list", "abort", "unsure"}
HandFields == {"kind", "job", "stage"}
JobStates == {"running", "stopping", "output_ready", "completed", "cancelled", "failed"}
ImageJobSet == [status : JobStates, held : BOOLEAN]

\* Somebody must still see to this job.
Needed(j) == j.status = "running" \/ (j.held /\ j.status # "stopping")

RunGood(t) ==
  /\ DOMAIN t.run = RunFields /\ t.run.job \in 0 .. Len(t.jobs)
  /\ t.run.stage = "session" => t.desktop /\ t.run.job = 0
  /\ ~t.desktop => t.run.job = 0
  /\ t.run.stage \in {"register", "finish"} /\ t.run.job # 0 => t.jobs[t.run.job].held = FALSE
  /\ t.run.stage = "told" /\ t.run.job # 0 => t.jobs[t.run.job].status # "running" \/ t.run.unsure
  /\ t.run.stage = "return" /\ t.run.job # 0 =>
       t.jobs[t.run.job].status # "running" \/ t.run.job \in t.unsure

\* A page that was left shows nothing and has stopped its run.
LeftGood(t) == ~t.mounted => t.urls = {} /\ (t.run # Images!Idle => t.stopped)

HandingGood(t) ==
  \A h \in t.handing :
    /\ DOMAIN h = HandFields /\ h.job \in 1 .. Len(t.jobs) /\ t.jobs[h.job].held = FALSE
    /\ t.run # Images!Idle => t.run.job # h.job

SeenTo(t) ==
  \A k \in 1 .. Len(t.jobs) : Needed(t.jobs[k]) =>
    \/ t.run # Images!Idle /\ t.run.job = k
    \/ \E h \in t.handing : h.job = k
    \/ k \in t.unsure

ImagesGood(t) ==
  /\ DOMAIN t = ImagesFields /\ t.jobs \in Seq(ImageJobSet) /\ t.tool \in Images!Tools
  /\ t.run # Images!Idle => RunGood(t)
  /\ LeftGood(t) /\ HandingGood(t) /\ SeenTo(t)

\* A run at work is not the idle one.
LEMMA ImagesAtWork == ASSUME NEW x, DOMAIN x = RunFields PROVE x # Images!Idle
BY DEF RunFields, Images!Idle

\* The idle run is at the idle stage.
LEMMA ImagesIdle == Images!Idle.stage = "idle"
BY DEF Images!Idle

\* Changing one job leaves the others as they are.
LEMMA ImageJobChanged ==
  ASSUME NEW jobs \in Seq(ImageJobSet), NEW job, NEW new, job \in 1 .. Len(jobs) => new \in ImageJobSet
  PROVE  LET u == [jobs EXCEPT ![job] = new]
         IN /\ u \in Seq(ImageJobSet) /\ Len(u) = Len(jobs) /\ DOMAIN u = 1 .. Len(jobs)
            /\ \A k \in 1 .. Len(jobs) : u[k] = IF k = job THEN new ELSE jobs[k]
<1> DEFINE u == [jobs EXCEPT ![job] = new]
<1>1. DOMAIN jobs = 1 .. Len(jobs)
  BY LenProperties
<1>2. CASE job \in 1 .. Len(jobs)
  <2>1. u \in Seq(ImageJobSet) /\ Len(u) = Len(jobs)
    BY <1>2, ExceptSeq
  <2> QED BY <1>1, <2>1
<1>3. CASE job \notin 1 .. Len(jobs)
  <2>1. u = jobs
    BY <1>1, <1>3
  <2> QED BY <1>1, <1>3, <2>1
<1> QED BY <1>2, <1>3

\* The jobs go on as they are, or are over.
Eased(p, q) ==
  /\ q \in Seq(ImageJobSet) /\ Len(q) = Len(p)
  /\ \A k \in 1 .. Len(p) : q[k] = p[k] \/ (q[k].held = FALSE /\ q[k].status # "running")

\* Jobs that do not change are eased.
LEMMA EasedSame == ASSUME NEW p \in Seq(ImageJobSet) PROVE Eased(p, p)
BY DEF Eased

\* Jobs that are eased twice are eased.
LEMMA EasedTwice == ASSUME NEW p, NEW q, NEW r, Eased(p, q), Eased(q, r) PROVE Eased(p, r)
BY DEF Eased

\* A step that only ends jobs and gives up outputs keeps the invariant.
LEMMA ImagesEase ==
  ASSUME NEW t, ImagesGood(t), NEW u, DOMAIN u = ImagesFields, u.desktop = t.desktop /\ u.tool = t.tool,
         Eased(t.jobs, u.jobs), u.run = t.run, u.handing = t.handing, t.unsure \subseteq u.unsure,
         LeftGood(u)
  PROVE  ImagesGood(u)
<1>1. /\ t.jobs \in Seq(ImageJobSet) /\ u.jobs \in Seq(ImageJobSet) /\ Len(u.jobs) = Len(t.jobs)
      /\ \A k \in 1 .. Len(t.jobs) :
           u.jobs[k] = t.jobs[k] \/ (u.jobs[k].held = FALSE /\ u.jobs[k].status # "running")
  BY DEF ImagesGood, Eased
<1>2. ASSUME t.run # Images!Idle PROVE RunGood(u)
  <2>1. RunGood(t)
    BY <1>2 DEF ImagesGood
  <2>2. t.run.job # 0 => t.run.job \in 1 .. Len(t.jobs)
    BY <1>1, <2>1 DEF RunGood
  <2> QED BY <1>1, <2>1, <2>2 DEF RunGood
<1>3. HandingGood(u)
  BY <1>1 DEF ImagesGood, HandingGood
<1>4. SeenTo(u)
  <2>1. \A k \in 1 .. Len(t.jobs) : Needed(u.jobs[k]) => Needed(t.jobs[k])
    BY <1>1 DEF Needed
  <2> QED BY <1>1, <2>1 DEF ImagesGood, SeenTo
<1> QED BY <1>1, <1>2, <1>3, <1>4 DEF ImagesGood

\* The run goes on, or ends with its job.
LEMMA ImagesRun ==
  ASSUME NEW t, ImagesGood(t), t.run # Images!Idle, NEW u, DOMAIN u = ImagesFields,
         u.desktop = t.desktop /\ u.tool = t.tool, u.jobs \in Seq(ImageJobSet), Len(u.jobs) = Len(t.jobs),
         \A k \in 1 .. Len(t.jobs) : k # t.run.job => u.jobs[k] = t.jobs[k],
         u.handing = t.handing, t.unsure \subseteq u.unsure,
         \/ RunGood(u) /\ u.run.job = t.run.job
         \/ /\ u.run = Images!Idle
            /\ t.run.job # 0 => ~Needed(u.jobs[t.run.job]) \/ t.run.job \in u.unsure,
         LeftGood(u)
  PROVE  ImagesGood(u)
<1>1. RunGood(u) => u.run # Images!Idle
  BY ImagesAtWork DEF RunGood
<1>2. HandingGood(u)
  <2> SUFFICES ASSUME NEW h \in u.handing
               PROVE  /\ DOMAIN h = HandFields /\ h.job \in 1 .. Len(u.jobs) /\ u.jobs[h.job].held = FALSE
                      /\ u.run # Images!Idle => u.run.job # h.job
    BY DEF HandingGood
  <2>1. /\ DOMAIN h = HandFields /\ h.job \in 1 .. Len(t.jobs) /\ t.jobs[h.job].held = FALSE
        /\ t.run.job # h.job
    BY DEF ImagesGood, HandingGood
  <2> QED BY <1>1, <2>1
<1>3. SeenTo(u)
  <2> SUFFICES ASSUME NEW k \in 1 .. Len(u.jobs), Needed(u.jobs[k])
               PROVE  \/ u.run # Images!Idle /\ u.run.job = k
                      \/ \E h \in u.handing : h.job = k
                      \/ k \in u.unsure
    BY DEF SeenTo
  <2>1. CASE k = t.run.job
    <3>1. k # 0
      OBVIOUS
    <3> QED BY <1>1, <2>1, <3>1
  <2>2. CASE k # t.run.job
    BY <2>2 DEF ImagesGood, SeenTo
  <2> QED BY <2>1, <2>2
<1> QED BY <1>2, <1>3 DEF ImagesGood

\* The page, the jobs and what is handed over, of two states that differ in the run only.
Beside(t, u) ==
  /\ DOMAIN u = ImagesFields /\ u.desktop = t.desktop /\ u.tool = t.tool /\ u.jobs = t.jobs /\ u.handing = t.handing
  /\ u.unsure = t.unsure /\ u.mounted = t.mounted /\ u.stopped = t.stopped /\ u.urls = t.urls

\* A run that goes to another stage stays the run of its job.
LEMMA ImagesTo ==
  ASSUME NEW t, DOMAIN t = ImagesFields, DOMAIN t.run = RunFields, NEW stage
  PROVE  LET u == Images!To(t, stage)
         IN /\ Beside(t, u) /\ DOMAIN u.run = RunFields /\ u.run.stage = stage /\ u.run.job = t.run.job
            /\ u.run.unsure = t.run.unsure /\ u.run # Images!Idle
<1> DEFINE r == [t.run EXCEPT !.stage = stage]
<1>1. Images!To(t, stage) = [t EXCEPT !.run = r]
  BY DEF Images!To, ImagesFields
<1>2. DOMAIN r = RunFields /\ r.stage = stage /\ r.job = t.run.job /\ r.unsure = t.run.unsure
  BY DEF RunFields
<1> HIDE DEF r
<1>3. r # Images!Idle
  BY <1>2, ImagesAtWork
<1> QED BY <1>1, <1>2, <1>3 DEF Beside, ImagesFields

\* A run that was interrupted goes on to tell its end.
LEMMA ImagesCaught ==
  ASSUME NEW t, DOMAIN t = ImagesFields, DOMAIN t.run = RunFields, NEW aborted
  PROVE  LET u == Images!Caught(t, aborted)
         IN /\ Beside(t, u) /\ DOMAIN u.run = RunFields /\ u.run.job = t.run.job
            /\ u.run.stage = IF t.run.job # 0 THEN "lifecycle" ELSE "told"
            /\ u.run # Images!Idle
<1> DEFINE abort == t.stopped \/ (aborted /\ t.tool # "manifest")
           r == [t.run EXCEPT !.abort = abort]
           v == [t EXCEPT !.run = r]
<1>1. Images!Caught(t, aborted) = IF v.run.job # 0 THEN Images!To(v, "lifecycle") ELSE Images!To(v, "told")
  <2>1. [t EXCEPT !.run.abort = t.stopped \/ (aborted /\ t.tool # "manifest")] = v
    BY DEF ImagesFields
  <2> HIDE DEF v
  <2>2. v.run.job = t.run.job
    BY DEF v, ImagesFields, RunFields
  <2> QED BY <2>1, <2>2 DEF Images!Caught, Images!None
<1>2. DOMAIN r = RunFields /\ r.job = t.run.job
  BY DEF RunFields
<1> HIDE DEF r
<1>3. Beside(t, v) /\ v.run = r /\ DOMAIN v = ImagesFields
  BY DEF Beside, ImagesFields
<1> HIDE DEF v
<1>4. \A stage :
        LET u == Images!To(v, stage)
        IN /\ Beside(v, u) /\ DOMAIN u.run = RunFields /\ u.run.stage = stage /\ u.run.job = v.run.job
           /\ u.run # Images!Idle
  BY <1>2, <1>3, ImagesTo
<1> DEFINE a == Images!To(v, "lifecycle")
           b == Images!To(v, "told")
<1>5. /\ Beside(v, a) /\ DOMAIN a.run = RunFields /\ a.run.stage = "lifecycle" /\ a.run.job = v.run.job
      /\ a.run # Images!Idle
      /\ Beside(v, b) /\ DOMAIN b.run = RunFields /\ b.run.stage = "told" /\ b.run.job = v.run.job
      /\ b.run # Images!Idle
  BY <1>4
<1> HIDE DEF a, b
<1>6. Images!Caught(t, aborted) = IF t.run.job # 0 THEN a ELSE b
  BY <1>1, <1>2, <1>3 DEF a, b
<1> QED BY <1>2, <1>3, <1>5, <1>6 DEF Beside

\* A step of what the page shows.
Shows(t, u) ==
  /\ DOMAIN u = ImagesFields /\ u.desktop = t.desktop /\ u.tool = t.tool /\ u.jobs = t.jobs /\ u.run = t.run
  /\ u.handing = t.handing /\ u.unsure = t.unsure /\ u.mounted = t.mounted /\ u.stopped = t.stopped

\* Releasing the outputs takes addresses away and changes no job.
LEMMA ImagesReleaseOutputs ==
  ASSUME NEW t, DOMAIN t = ImagesFields
  PROVE  LET u == Images!ReleaseOutputs(t)
         IN Shows(t, u) /\ u.urls \subseteq t.urls /\ u.output = t.output /\ u.reportOutput = t.reportOutput
<1> DEFINE c == Images!ClearOperationReport(t)
<1>1. Shows(t, c) /\ c.urls \subseteq t.urls /\ c.output = t.output /\ c.reportOutput = t.reportOutput
  BY DEF Images!ClearOperationReport, Shows, ImagesFields
<1> HIDE DEF c
<1>2. Images!ReleaseOutputs(t) = [c EXCEPT !.result = FALSE, !.urls = @ \ {"zip"}]
  BY DEF Images!ReleaseOutputs, c
<1> QED BY <1>1, <1>2 DEF Shows, ImagesFields

\* A report is shown, and no job changes.
LEMMA ImagesPublish ==
  ASSUME NEW t, DOMAIN t = ImagesFields, NEW report PROVE Shows(t, Images!PublishReport(t, report))
BY DEF Images!PublishReport, Shows, ImagesFields

\* An archive of the results is shown, and no job changes.
LEMMA ImagesZip == ASSUME NEW t, DOMAIN t = ImagesFields PROVE Shows(t, Images!WithZip(t))
BY DEF Images!WithZip, Shows, ImagesFields

\* So are the results of every tool.
LEMMA ImagesTool ==
  ASSUME NEW t, DOMAIN t = ImagesFields,
         t.tool \in Images!Tools
  PROVE  Shows(t, Images!RunTool(t))
<1> DEFINE r == [t EXCEPT !.result = TRUE]
           m == [t EXCEPT !.urls = @ \cup {"manifest"}]
           z == Images!WithZip(t)
           y == [z EXCEPT !.delivery.status = "ready"]
<1>1. Shows(t, r) /\ Shows(t, m)
  BY DEF Shows, ImagesFields
<1>2. Shows(t, z)
  BY ImagesZip
<1> HIDE DEF z
<1>3. Shows(t, y)
  BY <1>2 DEF Shows, ImagesFields
<1> HIDE DEF r, m, y
<1>4. /\ Shows(r, Images!PublishReport(r, <<1>>)) /\ Shows(t, Images!PublishReport(t, <<1>>))
      /\ Shows(y, Images!PublishReport(y, t.run.list))
  BY <1>1, <1>3, ImagesPublish DEF Shows
<1>5. Shows(t, Images!PublishReport(r, <<1>>)) /\ Shows(t, Images!PublishReport(y, t.run.list))
  BY <1>1, <1>3, <1>4 DEF Shows
<1>6. CASE t.tool \in {"mark", "batch"}
  BY <1>1, <1>2, <1>6 DEF Images!RunTool, Images!RunVisible, r, z
<1>7. CASE t.tool = "write"
  BY <1>5, <1>7 DEF Images!RunTool, Images!RunInvisibleWrite, r
<1>8. CASE t.tool = "check"
  BY <1>4, <1>8 DEF Images!RunTool, Images!RunInvisibleCheck
<1>9. CASE t.tool = "recipe"
  BY <1>1, <1>9 DEF Images!RunTool, Images!RunRecipeEditor, r
<1>10. CASE t.tool = "robustness"
  BY <1>5, <1>10 DEF Images!RunTool, Images!RunRobustness, r
<1>11. CASE t.tool = "manifest"
  BY <1>1, <1>11 DEF Images!RunTool, Images!RunManifest, m
<1>12. CASE t.tool = "recipient"
  BY <1>5, <1>12 DEF Images!RunTool, Images!RunRecipient, y, z
<1> QED BY <1>6, <1>7, <1>8, <1>9, <1>10, <1>11, <1>12 DEF Images!Tools

\* A job ends once, and the others stay as they are.
LEMMA ImagesEndJob ==
  ASSUME NEW t, DOMAIN t = ImagesFields, t.jobs \in Seq(ImageJobSet), NEW job,
         NEW status \in JobStates \ {"running"}
  PROVE  LET u == Images!EndJob(t, job, status)
         IN /\ DOMAIN u = ImagesFields /\ u.desktop = t.desktop /\ u.tool = t.tool /\ u.run = t.run /\ u.handing = t.handing
            /\ u.unsure = t.unsure /\ u.mounted = t.mounted /\ u.stopped = t.stopped /\ u.urls = t.urls
            /\ Eased(t.jobs, u.jobs)
            /\ \A k \in 1 .. Len(t.jobs) : k # job => u.jobs[k] = t.jobs[k]
            /\ job \in 1 .. Len(t.jobs) => ~Needed(u.jobs[job]) /\ u.jobs[job].status # "running"
<1> DEFINE new == [status |-> status, held |-> FALSE]
           jobs == [t.jobs EXCEPT ![job] = new]
           u == Images!EndJob(t, job, status)
<1>1. new \in ImageJobSet /\ new.held = FALSE /\ new.status = status
  BY DEF ImageJobSet
<1>2. u = [t EXCEPT !.jobs = jobs]
  BY DEF Images!EndJob, ImagesFields
<1> HIDE DEF new
<1>3. /\ jobs \in Seq(ImageJobSet) /\ Len(jobs) = Len(t.jobs)
      /\ \A k \in 1 .. Len(t.jobs) : jobs[k] = IF k = job THEN new ELSE t.jobs[k]
  BY <1>1, ImageJobChanged
<1> HIDE DEF jobs
<1>4. Eased(t.jobs, jobs)
  BY <1>1, <1>3 DEF Eased
<1>5. /\ DOMAIN u = ImagesFields /\ u.desktop = t.desktop /\ u.tool = t.tool /\ u.run = t.run /\ u.handing = t.handing
      /\ u.unsure = t.unsure /\ u.mounted = t.mounted /\ u.stopped = t.stopped /\ u.urls = t.urls
      /\ u.jobs = jobs
  BY <1>2 DEF ImagesFields
<1> QED BY <1>1, <1>3, <1>4, <1>5 DEF Needed

\* An output that is given up ends its job only.
LEMMA ImagesCancelOutput ==
  ASSUME NEW t, DOMAIN t = ImagesFields, t.jobs \in Seq(ImageJobSet), NEW job
  PROVE  LET u == Images!CancelOutput(t, job)
         IN /\ DOMAIN u = ImagesFields /\ u.desktop = t.desktop /\ u.tool = t.tool /\ u.run = t.run /\ u.handing = t.handing
            /\ u.unsure = t.unsure /\ u.mounted = t.mounted /\ u.stopped = t.stopped /\ u.urls = t.urls
            /\ Eased(t.jobs, u.jobs) /\ u.jobs \in Seq(ImageJobSet)
<1>1. "cancelled" \in JobStates \ {"running"}
  BY DEF JobStates
<1> DEFINE e == Images!EndJob(t, job, "cancelled")
           u == Images!CancelOutput(t, job)
<1>2. /\ DOMAIN e = ImagesFields /\ e.desktop = t.desktop /\ e.tool = t.tool /\ e.run = t.run /\ e.handing = t.handing
      /\ e.unsure = t.unsure /\ e.mounted = t.mounted /\ e.stopped = t.stopped /\ e.urls = t.urls
      /\ Eased(t.jobs, e.jobs)
  BY <1>1, ImagesEndJob
<1>3. u = e \/ u = t
  BY DEF Images!CancelOutput
<1> HIDE DEF e, u
<1>4. CASE u = e
  BY <1>2, <1>4 DEF Eased, u
<1>5. CASE u = t
  BY <1>5, EasedSame DEF u
<1> QED BY <1>3, <1>4, <1>5

\* A turn of the user changes nothing but its count.
LEMMA ImagesSpend ==
  ASSUME DOMAIN s = ImagesFields
  PROVE  Shows(s, Images!Spend) /\ Images!Spend.urls = s.urls /\ Images!Spend.output = s.output
         /\ Images!Spend.reportOutput = s.reportOutput
BY DEF Images!Spend, Shows, ImagesFields

\* A step that leaves the run, the jobs and what is handed over.
LEMMA ImagesShows ==
  ASSUME NEW t, ImagesGood(t), NEW u, Shows(t, u), u.urls \subseteq t.urls PROVE ImagesGood(u)
<1>1. Eased(t.jobs, u.jobs)
  BY EasedSame DEF ImagesGood, Shows
<1>2. LeftGood(u)
  BY DEF ImagesGood, Shows, LeftGood
<1> QED BY <1>1, <1>2, ImagesEase DEF Shows

\* Choosing files, saving, stopping and the deadline.
LEMMA ImagesPlainSteps ==
  ASSUME ImagesGood(s),
         \/ \E set \in 1..2 : Images!SelectFiles(set)
         \/ Images!FilesAreInspected \/ Images!SaveNativeOutput \/ Images!SaveNativeReport
         \/ Images!Stop \/ Images!Deadline
  PROVE  ImagesGood(s)'
<1>1. DOMAIN s = ImagesFields
  BY DEF ImagesGood
<1> DEFINE t == Images!Spend
<1>2. Shows(s, t) /\ t.urls = s.urls
  BY <1>1, ImagesSpend
<1>3. CASE \E set \in 1..2 : Images!SelectFiles(set)
  <2>1. \E x : s' = [t EXCEPT !.picking = x]
    BY <1>2, <1>3 DEF Images!SelectFiles, Shows, ImagesFields
  <2> HIDE DEF t
  <2>2. Shows(s, s') /\ s'.urls = s.urls
    BY <1>2, <2>1 DEF Shows, ImagesFields
  <2> QED BY <2>2, ImagesShows
<1>4. CASE Images!FilesAreInspected
  <2>1. \E x, y : s' = [s EXCEPT !.picking = x, !.files = y]
    BY <1>1, <1>4 DEF Images!FilesAreInspected, ImagesFields
  <2>2. Shows(s, s') /\ s'.urls = s.urls
    BY <1>1, <2>1 DEF Shows, ImagesFields
  <2> QED BY <2>2, ImagesShows
<1>5. CASE Images!SaveNativeOutput \/ Images!SaveNativeReport
  <2>1. \E x : s' = [t EXCEPT !.saving = x]
    BY <1>2, <1>5 DEF Images!SaveNativeOutput, Images!SaveNativeReport, Images!Save, Shows, ImagesFields
  <2> HIDE DEF t
  <2>2. Shows(s, s') /\ s'.urls = s.urls
    BY <1>2, <2>1 DEF Shows, ImagesFields
  <2> QED BY <2>2, ImagesShows
<1>6. CASE Images!Stop \/ Images!Deadline
  <2>1. s' = [t EXCEPT !.stopped = TRUE]
    BY <1>6 DEF Images!Stop, Images!Deadline
  <2> HIDE DEF t
  <2>2. /\ DOMAIN s' = ImagesFields /\ s'.desktop = s.desktop /\ s'.tool = s.tool /\ s'.jobs = s.jobs /\ s'.run = s.run
        /\ s'.handing = s.handing /\ s'.unsure = s.unsure /\ s'.mounted = s.mounted /\ s'.stopped = TRUE
        /\ s'.urls = s.urls
    BY <1>2, <2>1 DEF Shows, ImagesFields
  <2>3. Eased(s.jobs, s'.jobs)
    BY <2>2, EasedSame DEF ImagesGood
  <2>4. LeftGood(s')
    BY <2>2 DEF ImagesGood, LeftGood
  <2> QED BY <2>2, <2>3, <2>4, ImagesEase
<1> QED BY <1>3, <1>4, <1>5, <1>6

\* Both outputs are given up, or one of them.
LEMMA ImagesGivenUp ==
  ASSUME ImagesGood(s), NEW a, NEW b
  PROVE  LET u == Images!CancelOutput(Images!CancelOutput(Images!Spend, a), b)
             v == Images!CancelOutput(Images!Spend, a)
         IN /\ DOMAIN u = ImagesFields /\ u.desktop = s.desktop /\ u.tool = s.tool /\ u.run = s.run /\ u.handing = s.handing
            /\ u.unsure = s.unsure /\ u.mounted = s.mounted /\ u.stopped = s.stopped /\ u.urls = s.urls
            /\ Eased(s.jobs, u.jobs)
            /\ DOMAIN v = ImagesFields /\ v.desktop = s.desktop /\ v.tool = s.tool /\ v.run = s.run /\ v.handing = s.handing
            /\ v.unsure = s.unsure /\ v.mounted = s.mounted /\ v.stopped = s.stopped /\ v.urls = s.urls
            /\ Eased(s.jobs, v.jobs)
<1> DEFINE t == Images!Spend
           v == Images!CancelOutput(t, a)
           u == Images!CancelOutput(v, b)
<1>1. Shows(s, t) /\ t.urls = s.urls /\ s.jobs \in Seq(ImageJobSet)
  BY ImagesSpend DEF ImagesGood
<1> HIDE DEF t
<1>2. /\ DOMAIN v = ImagesFields /\ v.desktop = t.desktop /\ v.tool = t.tool /\ v.run = t.run /\ v.handing = t.handing
      /\ v.unsure = t.unsure /\ v.mounted = t.mounted /\ v.stopped = t.stopped /\ v.urls = t.urls
      /\ Eased(t.jobs, v.jobs) /\ v.jobs \in Seq(ImageJobSet)
  BY <1>1, ImagesCancelOutput DEF Shows
<1> HIDE DEF v
<1>3. /\ DOMAIN u = ImagesFields /\ u.desktop = v.desktop /\ u.tool = v.tool /\ u.run = v.run /\ u.handing = v.handing
      /\ u.unsure = v.unsure /\ u.mounted = v.mounted /\ u.stopped = v.stopped /\ u.urls = v.urls
      /\ Eased(v.jobs, u.jobs)
  BY <1>2, ImagesCancelOutput
<1> HIDE DEF u
<1>4. Eased(s.jobs, v.jobs) /\ Eased(s.jobs, u.jobs)
  BY <1>1, <1>2, <1>3, EasedTwice DEF Shows
<1> QED BY <1>1, <1>2, <1>3, <1>4 DEF Shows, t, u, v

\* Leaving, clearing, giving up an output and the end of its export.
LEMMA ImagesGivingUpSteps ==
  ASSUME ImagesGood(s),
         \/ Images!JobStops \/ Images!Leave \/ Images!Clear \/ Images!CancelNativeOutput
         \/ Images!CancelNativeReport \/ Images!ExportEnds
  PROVE  ImagesGood(s)'
<1>1. DOMAIN s = ImagesFields /\ s.jobs \in Seq(ImageJobSet) /\ LeftGood(s)
  BY DEF ImagesGood
<1>2. CASE Images!JobStops
  <2>1. PICK job : s' = Images!EndJob(s, job, "cancelled")
    BY <1>2 DEF Images!JobStops
  <2> DEFINE u == Images!EndJob(s, job, "cancelled")
  <2>2. /\ DOMAIN u = ImagesFields /\ u.desktop = s.desktop /\ u.tool = s.tool /\ u.run = s.run /\ u.handing = s.handing
        /\ u.unsure = s.unsure /\ u.mounted = s.mounted /\ u.stopped = s.stopped /\ u.urls = s.urls
        /\ Eased(s.jobs, u.jobs)
    BY <1>1, ImagesEndJob DEF JobStates
  <2>3. s' = u
    BY <2>1
  <2> HIDE DEF u
  <2>4. LeftGood(s')
    BY <1>1, <2>2, <2>3 DEF LeftGood
  <2> QED BY <2>2, <2>3, <2>4, ImagesEase
<1>3. CASE Images!Leave
  <2> DEFINE t == Images!CancelOutput(Images!CancelOutput(Images!Spend, s.output), s.reportOutput)
  <2>1. /\ DOMAIN t = ImagesFields /\ t.desktop = s.desktop /\ t.tool = s.tool /\ t.run = s.run /\ t.handing = s.handing
        /\ t.unsure = s.unsure /\ Eased(s.jobs, t.jobs)
    BY ImagesGivenUp
  <2>2. s' = [t EXCEPT !.mounted = FALSE, !.urls = {}, !.stopped = s.run # Images!Idle]
    BY <1>3 DEF Images!Leave
  <2> HIDE DEF t
  <2>3. /\ DOMAIN s' = ImagesFields /\ s'.desktop = s.desktop /\ s'.tool = s.tool /\ s'.run = s.run /\ s'.handing = s.handing
        /\ s'.unsure = s.unsure /\ Eased(s.jobs, s'.jobs) /\ s'.urls = {} /\ s'.stopped = (s.run # Images!Idle)
    BY <2>1, <2>2 DEF ImagesFields
  <2>4. LeftGood(s')
    BY <2>3 DEF LeftGood
  <2> QED BY <2>3, <2>4, ImagesEase
<1>4. CASE Images!Clear
  <2> DEFINE t == Images!CancelOutput(Images!CancelOutput(Images!Spend, s.output), s.reportOutput)
             u == Images!ReleaseOutputs(t)
  <2>1. /\ DOMAIN t = ImagesFields /\ t.desktop = s.desktop /\ t.tool = s.tool /\ t.run = s.run /\ t.handing = s.handing
        /\ t.unsure = s.unsure /\ t.mounted = s.mounted /\ t.stopped = s.stopped /\ t.urls = s.urls
        /\ Eased(s.jobs, t.jobs)
    BY ImagesGivenUp
  <2>2. s' = [u EXCEPT !.output = Images!None, !.reportOutput = Images!None, !.files = 0,
                       !.delivery = Images!NoDelivery, !.urls = @ \ {"manifest"}, !.told = "nothing"]
    BY <1>4 DEF Images!Clear
  <2> HIDE DEF t
  <2>3. Shows(t, u) /\ u.urls \subseteq t.urls
    BY <2>1, ImagesReleaseOutputs
  <2> HIDE DEF u
  <2>4. /\ DOMAIN s' = ImagesFields /\ s'.desktop = s.desktop /\ s'.tool = s.tool /\ s'.run = s.run /\ s'.handing = s.handing
        /\ s'.unsure = s.unsure /\ Eased(s.jobs, s'.jobs) /\ s'.urls \subseteq s.urls
        /\ s'.mounted = s.mounted /\ s'.stopped = s.stopped
    BY <2>1, <2>2, <2>3 DEF Shows, ImagesFields
  <2>5. LeftGood(s')
    BY <1>1, <2>4 DEF LeftGood
  <2> QED BY <2>4, <2>5, ImagesEase
<1>5. ASSUME NEW kind, NEW u, u = Images!GiveUp(kind)
      PROVE  /\ DOMAIN u = ImagesFields /\ u.desktop = s.desktop /\ u.tool = s.tool /\ u.run = s.run /\ u.handing = s.handing
             /\ u.unsure = s.unsure /\ u.mounted = s.mounted /\ u.stopped = s.stopped /\ u.urls = s.urls
             /\ Eased(s.jobs, u.jobs)
  <2> DEFINE ref == Images!RefOf(s, kind)
             t == Images!CancelOutput(Images!Spend, ref)
  <2>1. /\ DOMAIN t = ImagesFields /\ t.desktop = s.desktop /\ t.tool = s.tool /\ t.run = s.run /\ t.handing = s.handing
        /\ t.unsure = s.unsure /\ t.mounted = s.mounted /\ t.stopped = s.stopped /\ t.urls = s.urls
        /\ Eased(s.jobs, t.jobs)
    BY ImagesGivenUp
  <2>2. u = [t EXCEPT !.reportOutput = Images!None] \/ u = [t EXCEPT !.output = Images!None]
    BY <1>5 DEF Images!GiveUp, Images!SetRef
  <2> HIDE DEF t
  <2> QED BY <2>1, <2>2 DEF ImagesFields
<1>6. CASE Images!CancelNativeOutput
  <2> DEFINE g == Images!GiveUp("output")
             u == Images!ReleaseOutputs(g)
  <2>1. /\ DOMAIN g = ImagesFields /\ g.desktop = s.desktop /\ g.tool = s.tool /\ g.run = s.run /\ g.handing = s.handing
        /\ g.unsure = s.unsure /\ g.mounted = s.mounted /\ g.stopped = s.stopped /\ g.urls = s.urls
        /\ Eased(s.jobs, g.jobs)
    BY <1>5
  <2>2. s' = u
    BY <1>6 DEF Images!CancelNativeOutput
  <2> HIDE DEF g
  <2>3. Shows(g, u) /\ u.urls \subseteq g.urls
    BY <2>1, ImagesReleaseOutputs
  <2> HIDE DEF u
  <2>4. LeftGood(s')
    BY <1>1, <2>1, <2>2, <2>3 DEF LeftGood, Shows
  <2> QED BY <2>1, <2>2, <2>3, <2>4, ImagesEase DEF Shows
<1>7. CASE Images!CancelNativeReport
  <2> DEFINE g == Images!GiveUp("report")
  <2>1. /\ DOMAIN g = ImagesFields /\ g.desktop = s.desktop /\ g.tool = s.tool /\ g.run = s.run /\ g.handing = s.handing
        /\ g.unsure = s.unsure /\ g.mounted = s.mounted /\ g.stopped = s.stopped /\ g.urls = s.urls
        /\ Eased(s.jobs, g.jobs)
    BY <1>5
  <2>2. s' = g
    BY <1>7 DEF Images!CancelNativeReport
  <2> HIDE DEF g
  <2>3. LeftGood(s')
    BY <1>1, <2>1, <2>2 DEF LeftGood
  <2> QED BY <2>1, <2>2, <2>3, ImagesEase
<1>8. CASE Images!ExportEnds
  <2>1. PICK x \in s.saving :
          LET t == [s EXCEPT !.saving = @ \ {x}]
          IN s' = t \/ s' = Images!SetRef(Images!EndJob(t, x.job, "completed"), x.kind, Images!None)
    BY <1>8 DEF Images!ExportEnds
  <2> DEFINE t == [s EXCEPT !.saving = @ \ {x}]
             u == Images!EndJob(t, x.job, "completed")
  <2>2. Shows(s, t) /\ t.urls = s.urls
    BY <1>1 DEF Shows, ImagesFields
  <2>3. s' = t \/ s' = Images!SetRef(u, x.kind, Images!None)
    BY <2>1
  <2> HIDE DEF t
  <2>4. /\ DOMAIN u = ImagesFields /\ u.desktop = t.desktop /\ u.tool = t.tool /\ u.run = t.run /\ u.handing = t.handing
        /\ u.unsure = t.unsure /\ u.mounted = t.mounted /\ u.stopped = t.stopped /\ u.urls = t.urls
        /\ Eased(t.jobs, u.jobs)
    BY <1>1, <2>2, ImagesEndJob DEF JobStates, Shows
  <2> HIDE DEF u
  <2>5. CASE s' = t
    BY <2>2, <2>5, ImagesShows
  <2>6. CASE s' = Images!SetRef(u, x.kind, Images!None)
    <3>1. s' = [u EXCEPT !.reportOutput = Images!None] \/ s' = [u EXCEPT !.output = Images!None]
      BY <2>6 DEF Images!SetRef
    <3>2. /\ DOMAIN s' = ImagesFields /\ s'.desktop = s.desktop /\ s'.tool = s.tool /\ s'.run = s.run /\ s'.handing = s.handing
          /\ s'.unsure = s.unsure /\ Eased(s.jobs, s'.jobs) /\ s'.urls = s.urls
          /\ s'.mounted = s.mounted /\ s'.stopped = s.stopped
      BY <2>2, <2>4, <3>1 DEF Shows, ImagesFields
    <3>3. LeftGood(s')
      BY <1>1, <3>2 DEF LeftGood
    <3> QED BY <3>2, <3>3, ImagesEase
  <2> QED BY <2>3, <2>5, <2>6
<1> QED BY <1>2, <1>3, <1>4, <1>6, <1>7, <1>8

\* The page of the pictures starts so.
LEMMA ImagesStarts == ASSUME Images!Init PROVE ImagesGood(s)
<1> DEFINE new(desktop, tool) ==
      [desktop |-> desktop, tool |-> tool, mounted |-> TRUE, files |-> 0, picking |-> {}, jobs |-> <<>>,
       run |-> Images!Idle, stopped |-> FALSE, result |-> FALSE, report |-> <<>>, urls |-> {},
       delivery |-> Images!NoDelivery, told |-> "nothing", output |-> Images!None,
       reportOutput |-> Images!None, handing |-> {}, saving |-> {}, unsure |-> {}, turns |-> ImageTurns]
<1>1. PICK desktop \in BOOLEAN, tool \in Images!Tools : s = new(desktop, tool)
  BY DEF Images!Init
<1>2. /\ DOMAIN s = ImagesFields /\ s.jobs = <<>> /\ s.tool \in Images!Tools /\ s.run = Images!Idle
      /\ s.mounted = TRUE /\ s.handing = {}
  BY <1>1 DEF ImagesFields
<1>3. s.jobs \in Seq(ImageJobSet) /\ Len(s.jobs) = 0
  BY <1>2, EmptySeq
<1> QED BY <1>2, <1>3 DEF ImagesGood, LeftGood, HandingGood, SeenTo

\* A run begins, and what was shown is released.
LEMMA ImagesBegin == ASSUME ImagesGood(s), Images!Run PROVE ImagesGood(s)'
<1>1. DOMAIN s = ImagesFields /\ s.mounted /\ s.run = Images!Idle
  BY DEF ImagesGood, Images!Run
<1> DEFINE t == Images!Spend
           a == [t EXCEPT !.urls = @ \ {"manifest"}]
           r == Images!ReleaseOutputs(t)
           b == [r EXCEPT !.delivery = Images!NoDelivery]
<1>2. Shows(s, t)
  BY <1>1, ImagesSpend
<1> HIDE DEF t
<1>3. Shows(t, a) /\ Shows(t, r)
  <2>1. DOMAIN t = ImagesFields
    BY <1>2 DEF Shows
  <2> QED BY <2>1, ImagesReleaseOutputs DEF Shows, ImagesFields
<1> HIDE DEF r
<1>4. Shows(s, a) /\ Shows(s, b)
  BY <1>2, <1>3 DEF Shows, ImagesFields
<1> HIDE DEF a, b
<1> DEFINE clean == IF s.tool = "manifest" THEN a ELSE b
<1>5. PICK count :
        s' = [clean EXCEPT !.run = [stage |-> IF s.desktop THEN "session" ELSE "task", job |-> 0,
                                    count |-> count, list |-> <<>>, abort |-> FALSE, unsure |-> FALSE],
                           !.stopped = FALSE, !.told = "nothing"]
  BY DEF Images!Run, Images!None, a, b, r, t
<1> DEFINE run == [stage |-> IF s.desktop THEN "session" ELSE "task", job |-> 0,
                   count |-> count, list |-> <<>>, abort |-> FALSE, unsure |-> FALSE]
<1>6. DOMAIN run = RunFields /\ run.job = 0 /\ (run.stage = "session" => s.desktop)
  BY DEF RunFields
<1> HIDE DEF run
<1>7. Shows(s, clean) /\ s' = [clean EXCEPT !.run = run, !.stopped = FALSE, !.told = "nothing"]
  BY <1>4, <1>5 DEF run
<1>8. /\ DOMAIN s' = ImagesFields /\ s'.desktop = s.desktop /\ s'.tool = s.tool /\ s'.jobs = s.jobs
      /\ s'.handing = s.handing /\ s'.unsure = s.unsure /\ s'.mounted /\ s'.run = run
  BY <1>1, <1>7 DEF Shows, ImagesFields
<1>9. s.jobs \in Seq(ImageJobSet) /\ Len(s.jobs) \in Nat /\ s.tool \in Images!Tools
  BY LenProperties DEF ImagesGood
<1>10. RunGood(s')
  BY <1>6, <1>8, <1>9 DEF RunGood
<1>11. HandingGood(s')
  BY <1>6, <1>8, <1>9 DEF ImagesGood, HandingGood
<1>12. SeenTo(s')
  BY <1>1, <1>8 DEF ImagesGood, SeenTo
<1> QED BY <1>8, <1>9, <1>10, <1>11, <1>12 DEF ImagesGood, LeftGood

\* A native job is begun: for the run, or for what is handed over.
LEMMA ImagesJobBegins ==
  ASSUME NEW t, ImagesGood(t), NEW u, DOMAIN u = ImagesFields, u.desktop = t.desktop /\ u.tool = t.tool,
         u.jobs = Append(t.jobs, [status |-> "running", held |-> FALSE]),
         u.unsure = t.unsure, u.mounted = t.mounted, u.stopped = t.stopped, u.urls = t.urls,
         \/ /\ u.run = t.run /\ t.mounted
            /\ \E h : u.handing = t.handing \cup {h} /\ DOMAIN h = HandFields /\ h.job = Len(t.jobs) + 1
         \/ /\ t.run # Images!Idle /\ t.run.job = 0 /\ t.desktop /\ u.handing = t.handing
            /\ DOMAIN u.run = RunFields /\ u.run.job = Len(t.jobs) + 1 /\ u.run.stage = "inputs"
  PROVE  ImagesGood(u)
<1> DEFINE new == [status |-> "running", held |-> FALSE]
           n == Len(t.jobs)
<1>1. new \in ImageJobSet /\ new.held = FALSE
  BY DEF ImageJobSet, JobStates
<1> HIDE DEF new
<1>2. /\ t.jobs \in Seq(ImageJobSet) /\ n \in Nat /\ u.jobs \in Seq(ImageJobSet) /\ Len(u.jobs) = n + 1
      /\ u.jobs[n + 1] = new /\ \A k \in 1 .. n : u.jobs[k] = t.jobs[k]
  BY <1>1, AppendProperties, LenProperties DEF ImagesGood, new
<1> HIDE DEF n
<1>3. /\ t.tool \in Images!Tools /\ LeftGood(t) /\ HandingGood(t) /\ SeenTo(t)
      /\ t.run # Images!Idle => RunGood(t)
  BY DEF ImagesGood
<1>4. n + 1 = Len(t.jobs) + 1 /\ Len(t.jobs) = n
  BY DEF n
<1>5. CASE /\ u.run = t.run /\ t.mounted
           /\ \E h : u.handing = t.handing \cup {h} /\ DOMAIN h = HandFields /\ h.job = Len(t.jobs) + 1
  <2>1. PICK h : u.handing = t.handing \cup {h} /\ DOMAIN h = HandFields /\ h.job = n + 1
    BY <1>4, <1>5
  <2>2. u.run # Images!Idle => RunGood(u)
    <3> SUFFICES ASSUME t.run # Images!Idle PROVE RunGood(u)
      BY <1>5
    <3>1. RunGood(t)
      BY <1>3
    <3>2. t.run.job \in 0 .. n /\ (t.run.job # 0 => t.run.job \in 1 .. n)
      BY <1>2, <1>4, <3>1 DEF RunGood
    <3> QED BY <1>2, <1>5, <3>1, <3>2 DEF RunGood
  <2>3. HandingGood(u)
    <3> SUFFICES ASSUME NEW g \in u.handing
                 PROVE  /\ DOMAIN g = HandFields /\ g.job \in 1 .. Len(u.jobs) /\ u.jobs[g.job].held = FALSE
                        /\ u.run # Images!Idle => u.run.job # g.job
      BY DEF HandingGood
    <3>1. CASE g \in t.handing
      <4>1. /\ DOMAIN g = HandFields /\ g.job \in 1 .. n /\ t.jobs[g.job].held = FALSE
            /\ t.run # Images!Idle => t.run.job # g.job
        BY <1>3, <1>4, <3>1 DEF HandingGood
      <4> QED BY <1>2, <1>5, <4>1
    <3>2. CASE g = h
      <4>1. t.run # Images!Idle => t.run.job \in 0 .. n
        BY <1>3, <1>4 DEF RunGood
      <4> QED BY <1>1, <1>2, <1>5, <2>1, <3>2, <4>1
    <3> QED BY <2>1, <3>1, <3>2
  <2>4. SeenTo(u)
    <3> SUFFICES ASSUME NEW k \in 1 .. Len(u.jobs), Needed(u.jobs[k])
                 PROVE  \/ u.run # Images!Idle /\ u.run.job = k
                        \/ \E g \in u.handing : g.job = k
                        \/ k \in u.unsure
      BY DEF SeenTo
    <3>1. CASE k = n + 1
      BY <2>1, <3>1
    <3>2. CASE k # n + 1
      <4>1. k \in 1 .. n /\ u.jobs[k] = t.jobs[k]
        BY <1>2, <3>2
      <4>2. \/ t.run # Images!Idle /\ t.run.job = k
            \/ \E g \in t.handing : g.job = k
            \/ k \in t.unsure
        BY <1>3, <1>4, <4>1 DEF SeenTo
      <4> QED BY <1>5, <2>1, <4>2
    <3> QED BY <3>1, <3>2
  <2> QED BY <1>2, <1>3, <1>5, <2>2, <2>3, <2>4 DEF ImagesGood, LeftGood
<1>6. CASE /\ t.run # Images!Idle /\ t.run.job = 0 /\ t.desktop /\ u.handing = t.handing
           /\ DOMAIN u.run = RunFields /\ u.run.job = Len(t.jobs) + 1 /\ u.run.stage = "inputs"
  <2>1. RunGood(u)
    BY <1>2, <1>4, <1>6 DEF RunGood
  <2>2. HandingGood(u)
    <3> SUFFICES ASSUME NEW g \in u.handing
                 PROVE  /\ DOMAIN g = HandFields /\ g.job \in 1 .. Len(u.jobs) /\ u.jobs[g.job].held = FALSE
                        /\ u.run # Images!Idle => u.run.job # g.job
      BY DEF HandingGood
    <3>1. DOMAIN g = HandFields /\ g.job \in 1 .. n /\ t.jobs[g.job].held = FALSE
      BY <1>3, <1>4, <1>6 DEF HandingGood
    <3> QED BY <1>2, <1>4, <1>6, <3>1
  <2>3. SeenTo(u)
    <3> SUFFICES ASSUME NEW k \in 1 .. Len(u.jobs), Needed(u.jobs[k])
                 PROVE  \/ u.run # Images!Idle /\ u.run.job = k
                        \/ \E g \in u.handing : g.job = k
                        \/ k \in u.unsure
      BY DEF SeenTo
    <3>1. CASE k = n + 1
      BY <1>4, <1>6, <3>1, ImagesAtWork
    <3>2. CASE k # n + 1
      <4>1. k \in 1 .. n /\ u.jobs[k] = t.jobs[k] /\ k # 0
        BY <1>2, <3>2
      <4>2. \/ t.run # Images!Idle /\ t.run.job = k
            \/ \E g \in t.handing : g.job = k
            \/ k \in t.unsure
        BY <1>3, <1>4, <4>1 DEF SeenTo
      <4> QED BY <1>6, <4>1, <4>2
    <3> QED BY <3>1, <3>2
  <2> QED BY <1>2, <1>3, <1>6, <2>1, <2>2, <2>3 DEF ImagesGood, LeftGood
<1> QED BY <1>5, <1>6

\* The session of a run begins and hands over its results.
LEMMA ImagesJobSteps ==
  ASSUME ImagesGood(s), Images!SessionStarts \/ Images!DeliverFormalOutput \/ Images!PrepareNativeReport
  PROVE  ImagesGood(s)'
<1>1. DOMAIN s = ImagesFields
  BY DEF ImagesGood
<1>2. CASE Images!SessionStarts
  <2> DEFINE t == Images!StartSession(s)
             r == [s.run EXCEPT !.job = Len(t.jobs)]
             v == [t EXCEPT !.run = r]
             u == Images!To(v, "inputs")
             w == [s EXCEPT !.run = Images!Idle, !.told = "failed"]
  <2>1. s.run.stage = "session" /\ s.run # Images!Idle /\ RunGood(s)
    BY <1>2, ImagesIdle DEF Images!SessionStarts, Images!At, ImagesGood
  <2>2. DOMAIN s.run = RunFields /\ s.run.job = 0 /\ s.desktop
    BY <2>1 DEF RunGood
  <2>3. t = [s EXCEPT !.jobs = Append(s.jobs, [status |-> "running", held |-> FALSE])]
    BY <1>1 DEF Images!StartSession, ImagesFields
  <2>4. s' = u \/ s' = w
    <3>1. DOMAIN t = ImagesFields /\ t.run = s.run
      BY <1>1, <2>3 DEF ImagesFields
    <3> HIDE DEF t
    <3>2. [t EXCEPT !.run.job = Len(t.jobs)] = v
      BY <3>1 DEF ImagesFields
    <3> QED BY <1>2, <3>2 DEF Images!SessionStarts, t
  <2>5. CASE s' = u
    <3>1. t.jobs = Append(s.jobs, [status |-> "running", held |-> FALSE]) /\ DOMAIN t = ImagesFields
          /\ Len(t.jobs) = Len(s.jobs) + 1
      <4>1. t.jobs = Append(s.jobs, [status |-> "running", held |-> FALSE]) /\ DOMAIN t = ImagesFields
        BY <1>1, <2>3 DEF ImagesFields
      <4>2. s.jobs \in Seq(ImageJobSet) /\ [status |-> "running", held |-> FALSE] \in ImageJobSet
        BY DEF ImagesGood, ImageJobSet, JobStates
      <4> QED BY <4>1, <4>2, AppendProperties
    <3>2. /\ t.desktop = s.desktop /\ t.tool = s.tool /\ t.handing = s.handing /\ t.unsure = s.unsure
          /\ t.mounted = s.mounted /\ t.stopped = s.stopped /\ t.urls = s.urls
      BY <1>1, <2>3 DEF ImagesFields
    <3> HIDE DEF t
    <3>3. DOMAIN r = RunFields /\ r.job = Len(s.jobs) + 1
      BY <2>2, <3>1 DEF RunFields
    <3> HIDE DEF r
    <3>4. Beside(t, v) /\ v.run = r
      BY <3>1 DEF Beside, ImagesFields
    <3> HIDE DEF v
    <3>5. DOMAIN v = ImagesFields /\ DOMAIN v.run = RunFields
      BY <3>3, <3>4 DEF Beside
    <3>6. Beside(v, u) /\ DOMAIN u.run = RunFields /\ u.run.stage = "inputs" /\ u.run.job = v.run.job
      BY <3>5, ImagesTo
    <3> HIDE DEF u
    <3>7. /\ DOMAIN s' = ImagesFields /\ s'.desktop = s.desktop /\ s'.tool = s.tool /\ s'.handing = s.handing
          /\ s'.jobs = Append(s.jobs, [status |-> "running", held |-> FALSE])
          /\ s'.unsure = s.unsure /\ s'.mounted = s.mounted /\ s'.stopped = s.stopped /\ s'.urls = s.urls
          /\ DOMAIN s'.run = RunFields /\ s'.run.stage = "inputs" /\ s'.run.job = Len(s.jobs) + 1
      BY <2>5, <3>1, <3>2, <3>3, <3>4, <3>6 DEF Beside
    <3> QED BY <2>1, <2>2, <3>7, ImagesJobBegins
  <2>6. CASE s' = w
    <3>1. /\ DOMAIN s' = ImagesFields /\ s'.desktop = s.desktop /\ s'.tool = s.tool /\ s'.handing = s.handing
          /\ s'.jobs = s.jobs /\ s'.unsure = s.unsure /\ s'.mounted = s.mounted /\ s'.stopped = s.stopped
          /\ s'.urls = s.urls /\ s'.run = Images!Idle
      BY <1>1, <2>6 DEF ImagesFields
    <3>2. LeftGood(s') /\ s.jobs \in Seq(ImageJobSet)
      BY <3>1 DEF ImagesGood, LeftGood
    <3> QED BY <2>1, <2>2, <3>1, <3>2, ImagesRun
  <2> QED BY <2>4, <2>5, <2>6
<1>3. CASE Images!DeliverFormalOutput \/ Images!PrepareNativeReport
  <2> DEFINE p == Images!Spend
             t == Images!StartSession(p)
             h(kind) == [kind |-> kind, job |-> Len(t.jobs), stage |-> "register"]
  <2>1. PICK kind, content : Images!Hand(kind, content)
    BY <1>3 DEF Images!DeliverFormalOutput, Images!PrepareNativeReport
  <2>2. s.mounted /\ (s' = [t EXCEPT !.handing = @ \cup {h(kind)}] \/ s' = p)
    BY <2>1 DEF Images!Hand
  <2>3. Shows(s, p) /\ p.urls = s.urls
    BY <1>1, ImagesSpend
  <2> HIDE DEF p
  <2>4. CASE s' = p
    BY <2>3, <2>4, ImagesShows
  <2>5. CASE s' = [t EXCEPT !.handing = @ \cup {h(kind)}]
    <3>1. t = [p EXCEPT !.jobs = Append(p.jobs, [status |-> "running", held |-> FALSE])]
      BY <2>3 DEF Images!StartSession, Shows, ImagesFields
    <3>2. t.jobs = Append(s.jobs, [status |-> "running", held |-> FALSE]) /\ DOMAIN t = ImagesFields
          /\ Len(t.jobs) = Len(s.jobs) + 1
      <4>1. t.jobs = Append(s.jobs, [status |-> "running", held |-> FALSE]) /\ DOMAIN t = ImagesFields
        BY <2>3, <3>1 DEF Shows, ImagesFields
      <4>2. s.jobs \in Seq(ImageJobSet) /\ [status |-> "running", held |-> FALSE] \in ImageJobSet
        BY DEF ImagesGood, ImageJobSet, JobStates
      <4> QED BY <4>1, <4>2, AppendProperties
    <3>3. /\ t.desktop = s.desktop /\ t.tool = s.tool /\ t.handing = s.handing /\ t.unsure = s.unsure
          /\ t.mounted = s.mounted /\ t.stopped = s.stopped /\ t.urls = s.urls /\ t.run = s.run
      BY <2>3, <3>1 DEF Shows, ImagesFields
    <3>4. DOMAIN h(kind) = HandFields /\ h(kind).job = Len(s.jobs) + 1
      BY <3>2 DEF HandFields
    <3>5. PICK g : s' = [t EXCEPT !.handing = @ \cup {g}] /\ DOMAIN g = HandFields /\ g.job = Len(s.jobs) + 1
      BY <2>5, <3>4
    <3> HIDE DEF t
    <3>6. /\ DOMAIN s' = ImagesFields /\ s'.desktop = s.desktop /\ s'.tool = s.tool
          /\ s'.handing = s.handing \cup {g}
          /\ s'.jobs = Append(s.jobs, [status |-> "running", held |-> FALSE]) /\ s'.run = s.run
          /\ s'.unsure = s.unsure /\ s'.mounted = s.mounted /\ s'.stopped = s.stopped /\ s'.urls = s.urls
      BY <3>2, <3>3, <3>5 DEF ImagesFields
    <3> QED BY <2>2, <3>5, <3>6, ImagesJobBegins
  <2> QED BY <2>2, <2>4, <2>5
<1> QED BY <1>2, <1>3

\* What is handed over is registered, or given up.
LEMMA ImagesHands ==
  ASSUME NEW t, ImagesGood(t), NEW u, DOMAIN u = ImagesFields, u.desktop = t.desktop /\ u.tool = t.tool,
         u.run = t.run, u.jobs \in Seq(ImageJobSet), Len(u.jobs) = Len(t.jobs),
         NEW h \in t.handing, \A k \in 1 .. Len(t.jobs) : k # h.job => u.jobs[k] = t.jobs[k],
         u.jobs[h.job].held = FALSE, t.handing \ {h} \subseteq u.handing,
         \A g \in u.handing : g \in t.handing \/ (DOMAIN g = HandFields /\ g.job = h.job),
         t.unsure \subseteq u.unsure,
         ~Needed(u.jobs[h.job]) \/ h.job \in u.unsure \/ \E g \in u.handing : g.job = h.job,
         LeftGood(u)
  PROVE  ImagesGood(u)
<1>1. /\ DOMAIN h = HandFields /\ h.job \in 1 .. Len(t.jobs) /\ t.run # Images!Idle => t.run.job # h.job
      /\ HandingGood(t) /\ SeenTo(t) /\ (t.run # Images!Idle => RunGood(t)) /\ t.tool \in Images!Tools
  BY DEF ImagesGood, HandingGood
<1>2. u.run # Images!Idle => RunGood(u)
  <2> SUFFICES ASSUME t.run # Images!Idle PROVE RunGood(u)
    OBVIOUS
  <2>1. RunGood(t) /\ t.run.job # h.job
    BY <1>1 DEF ImagesGood, HandingGood
  <2>2. t.run.job # 0 => t.run.job \in 1 .. Len(t.jobs)
    BY <2>1 DEF RunGood
  <2>3. t.run.job # 0 => u.jobs[t.run.job] = t.jobs[t.run.job]
    BY <2>1, <2>2
  <2> QED BY <2>1, <2>2, <2>3 DEF RunGood
<1>3. HandingGood(u)
  <2> SUFFICES ASSUME NEW g \in u.handing
               PROVE  /\ DOMAIN g = HandFields /\ g.job \in 1 .. Len(u.jobs) /\ u.jobs[g.job].held = FALSE
                      /\ u.run # Images!Idle => u.run.job # g.job
    BY DEF HandingGood
  <2>1. CASE g \in t.handing
    <3>1. /\ DOMAIN g = HandFields /\ g.job \in 1 .. Len(t.jobs) /\ t.jobs[g.job].held = FALSE
          /\ t.run # Images!Idle => t.run.job # g.job
      BY <2>1 DEF ImagesGood, HandingGood
    <3> QED BY <3>1
  <2>2. CASE DOMAIN g = HandFields /\ g.job = h.job
    <3>1. h.job \in 1 .. Len(t.jobs) /\ (t.run # Images!Idle => t.run.job # h.job)
      BY DEF ImagesGood, HandingGood
    <3> QED BY <2>2, <3>1
  <2> QED BY <2>1, <2>2
<1>4. SeenTo(u)
  <2> SUFFICES ASSUME NEW k \in 1 .. Len(u.jobs), Needed(u.jobs[k])
               PROVE  \/ u.run # Images!Idle /\ u.run.job = k
                      \/ \E g \in u.handing : g.job = k
                      \/ k \in u.unsure
    BY DEF SeenTo
  <2>1. CASE k = h.job
    BY <2>1
  <2>2. CASE k # h.job
    BY <2>2 DEF ImagesGood, SeenTo
  <2> QED BY <2>1, <2>2
<1> QED BY <1>1, <1>2, <1>3, <1>4 DEF ImagesGood

\* What was handed over is answered.
LEMMA ImagesHandSteps == ASSUME ImagesGood(s), Images!HandingIsAnswered PROVE ImagesGood(s)'
<1>1. DOMAIN s = ImagesFields /\ s.jobs \in Seq(ImageJobSet) /\ LeftGood(s)
  BY DEF ImagesGood
<1>2. PICK h \in s.handing :
        LET t == [s EXCEPT !.handing = @ \ {h}]
        IN \/ s' = Images!SetRef([t EXCEPT !.jobs[h.job].status = "output_ready"], h.kind, h.job)
           \/ s' = [t EXCEPT !.handing = @ \cup {[h EXCEPT !.stage = "fail"]}]
           \/ s' = Images!EndJob(t, h.job, "failed")
           \/ s' = [t EXCEPT !.unsure = @ \cup {h.job}]
  BY DEF Images!HandingIsAnswered
<1>3. DOMAIN h = HandFields /\ h.job \in 1 .. Len(s.jobs) /\ s.jobs[h.job].held = FALSE
  BY DEF ImagesGood, HandingGood
<1> DEFINE job == h.job
           t == [s EXCEPT !.handing = @ \ {h}]
           old == s.jobs[job]
           new == [old EXCEPT !.status = "output_ready"]
           jobs == [s.jobs EXCEPT ![job] = new]
           r == [t EXCEPT !.jobs = jobs]
           g == [h EXCEPT !.stage = "fail"]
           e == Images!EndJob(t, job, "failed")
<1>4. /\ DOMAIN t = ImagesFields /\ t.desktop = s.desktop /\ t.tool = s.tool /\ t.jobs = s.jobs
      /\ t.run = s.run /\ t.handing = s.handing \ {h} /\ t.unsure = s.unsure /\ t.mounted = s.mounted
      /\ t.stopped = s.stopped /\ t.urls = s.urls
  BY <1>1 DEF ImagesFields
<1>5. [t EXCEPT !.jobs[h.job].status = "output_ready"] = r
  BY <1>4 DEF ImagesFields
<1> HIDE DEF t
<1>6. old \in ImageJobSet
  BY <1>1, <1>3, ElementOfSeq
<1>7. new \in ImageJobSet /\ new.held = FALSE /\ ~Needed(new)
  BY <1>3, <1>6 DEF ImageJobSet, JobStates, Needed
<1> HIDE DEF new
<1>8. /\ jobs \in Seq(ImageJobSet) /\ Len(jobs) = Len(s.jobs) /\ jobs[job] = new
      /\ \A k \in 1 .. Len(s.jobs) : k # job => jobs[k] = s.jobs[k]
  BY <1>1, <1>3, <1>7, ImageJobChanged
<1> HIDE DEF jobs
<1>9. DOMAIN g = HandFields /\ g.job = job
  BY <1>3 DEF HandFields
<1> HIDE DEF g
<1>10. \/ s' = [r EXCEPT !.reportOutput = job] \/ s' = [r EXCEPT !.output = job]
       \/ s' = [t EXCEPT !.handing = @ \cup {g}]
       \/ s' = e
       \/ s' = [t EXCEPT !.unsure = @ \cup {job}]
  BY <1>2, <1>5 DEF Images!SetRef, t, g
<1>11. CASE s' = [r EXCEPT !.reportOutput = job] \/ s' = [r EXCEPT !.output = job]
  <2>1. /\ DOMAIN s' = ImagesFields /\ s'.desktop = s.desktop /\ s'.tool = s.tool /\ s'.jobs = jobs
        /\ s'.run = s.run /\ s'.handing = s.handing \ {h} /\ s'.unsure = s.unsure /\ s'.mounted = s.mounted
        /\ s'.stopped = s.stopped /\ s'.urls = s.urls
    BY <1>4, <1>11 DEF ImagesFields
  <2>2. LeftGood(s')
    BY <1>1, <2>1 DEF LeftGood
  <2> QED BY <1>3, <1>7, <1>8, <2>1, <2>2, ImagesHands
<1>12. CASE s' = [t EXCEPT !.handing = @ \cup {g}]
  <2>1. /\ DOMAIN s' = ImagesFields /\ s'.desktop = s.desktop /\ s'.tool = s.tool /\ s'.jobs = s.jobs
        /\ s'.run = s.run /\ s'.handing = (s.handing \ {h}) \cup {g} /\ s'.unsure = s.unsure
        /\ s'.mounted = s.mounted /\ s'.stopped = s.stopped /\ s'.urls = s.urls
    BY <1>4, <1>12 DEF ImagesFields
  <2>2. LeftGood(s')
    BY <1>1, <2>1 DEF LeftGood
  <2> QED BY <1>1, <1>3, <1>9, <2>1, <2>2, ImagesHands
<1>13. CASE s' = e
  <2>1. /\ DOMAIN e = ImagesFields /\ e.desktop = t.desktop /\ e.tool = t.tool /\ e.run = t.run
        /\ e.handing = t.handing /\ e.unsure = t.unsure /\ e.mounted = t.mounted
        /\ e.stopped = t.stopped /\ e.urls = t.urls /\ Eased(t.jobs, e.jobs)
        /\ (\A k \in 1 .. Len(t.jobs) : k # job => e.jobs[k] = t.jobs[k])
        /\ (job \in 1 .. Len(t.jobs) => ~Needed(e.jobs[job]) /\ e.jobs[job].status # "running")
    BY <1>1, <1>4, ImagesEndJob DEF JobStates
  <2> HIDE DEF e
  <2>2. /\ e.jobs \in Seq(ImageJobSet) /\ Len(e.jobs) = Len(s.jobs) /\ ~Needed(e.jobs[job])
        /\ (e.jobs[job] = s.jobs[job] \/ e.jobs[job].held = FALSE)
    BY <1>3, <1>4, <2>1 DEF Eased
  <2>3. LeftGood(s')
    BY <1>1, <1>4, <1>13, <2>1 DEF LeftGood
  <2>4. /\ e.desktop = s.desktop /\ e.tool = s.tool /\ e.run = s.run /\ e.unsure = s.unsure
        /\ e.handing = s.handing \ {h} /\ LeftGood(e)
        /\ \A k \in 1 .. Len(s.jobs) : k # job => e.jobs[k] = s.jobs[k]
    BY <1>4, <1>13, <2>1, <2>3
  <2>5. e.jobs[job].held = FALSE
    BY <1>3, <2>2
  <2> HIDE DEF job
  <2>6. ImagesGood(e)
    BY <2>1, <2>2, <2>4, <2>5, ImagesHands DEF job
  <2> QED BY <1>13, <2>6
<1>14. CASE s' = [t EXCEPT !.unsure = @ \cup {job}]
  <2>1. /\ DOMAIN s' = ImagesFields /\ s'.desktop = s.desktop /\ s'.tool = s.tool /\ s'.jobs = s.jobs
        /\ s'.run = s.run /\ s'.handing = s.handing \ {h} /\ s'.unsure = s.unsure \cup {job}
        /\ s'.mounted = s.mounted /\ s'.stopped = s.stopped /\ s'.urls = s.urls
    BY <1>4, <1>14 DEF ImagesFields
  <2>2. LeftGood(s')
    BY <1>1, <2>1 DEF LeftGood
  <2> QED BY <1>1, <1>3, <2>1, <2>2, ImagesHands
<1> QED BY <1>10, <1>11, <1>12, <1>13, <1>14

-------------------------------------------------------------------------------

\* What holds of a run at work.
LEMMA ImagesAtStage ==
  ASSUME ImagesGood(s), s.run.stage # "idle"
  PROVE  /\ DOMAIN s = ImagesFields /\ s.jobs \in Seq(ImageJobSet) /\ s.tool \in Images!Tools /\ LeftGood(s)
         /\ s.run # Images!Idle /\ RunGood(s) /\ DOMAIN s.run = RunFields
         /\ ~s.mounted => s.stopped /\ s.urls = {}
BY ImagesIdle DEF ImagesGood, RunGood, LeftGood

\* An error, whatever the run was at.
LEMMA ImagesCaughtStep ==
  ASSUME ImagesGood(s), s.run.stage # "idle", NEW t, DOMAIN t = ImagesFields, t.desktop = s.desktop,
         t.tool = s.tool, t.run = s.run, t.handing = s.handing, t.unsure = s.unsure, t.mounted = s.mounted,
         t.stopped = s.stopped, t.urls \subseteq s.urls, t.jobs \in Seq(ImageJobSet),
         Len(t.jobs) = Len(s.jobs), \A k \in 1 .. Len(s.jobs) : k # s.run.job => t.jobs[k] = s.jobs[k],
         NEW aborted, s' = Images!Caught(t, aborted)
  PROVE  ImagesGood(s)'
<1>1. /\ RunGood(s) /\ LeftGood(s) /\ s.run # Images!Idle /\ DOMAIN s.run = RunFields
  BY ImagesAtStage
<1> DEFINE u == Images!Caught(t, aborted)
<1>2. /\ Beside(t, u) /\ DOMAIN u.run = RunFields /\ u.run.job = s.run.job
      /\ u.run.stage = IF s.run.job # 0 THEN "lifecycle" ELSE "told"
      /\ u.run # Images!Idle
  BY <1>1, ImagesCaught
<1>3. s' = u
  OBVIOUS
<1> HIDE DEF u
<1>4. RunGood(u) /\ u.run.job = s.run.job
  BY <1>1, <1>2 DEF RunGood, Beside
<1>5. LeftGood(u)
  BY <1>1, <1>2 DEF LeftGood, Beside
<1> QED BY <1>1, <1>2, <1>3, <1>4, <1>5, ImagesRun DEF Beside

\* The run goes to another stage.
LEMMA ImagesOn ==
  ASSUME ImagesGood(s), s.run.stage # "idle", NEW t, DOMAIN t = ImagesFields, t.desktop = s.desktop,
         t.tool = s.tool, DOMAIN t.run = RunFields, t.run.job = s.run.job, t.handing = s.handing,
         s.unsure \subseteq t.unsure, t.mounted = s.mounted,
         t.stopped = s.stopped, ~t.mounted => t.urls = {}, t.jobs \in Seq(ImageJobSet),
         Len(t.jobs) = Len(s.jobs), \A k \in 1 .. Len(s.jobs) : k # s.run.job => t.jobs[k] = s.jobs[k],
         NEW stage, stage # "session",
         stage \in {"register", "finish"} /\ s.run.job # 0 => t.jobs[s.run.job].held = FALSE,
         stage = "told" /\ s.run.job # 0 => t.jobs[s.run.job].status # "running" \/ t.run.unsure,
         stage = "return" /\ s.run.job # 0 =>
           t.jobs[s.run.job].status # "running" \/ s.run.job \in t.unsure,
         s' = Images!To(t, stage)
  PROVE  ImagesGood(s)'
<1>1. /\ RunGood(s) /\ LeftGood(s) /\ s.run # Images!Idle
  BY ImagesAtStage
<1> DEFINE u == Images!To(t, stage)
<1>2. /\ Beside(t, u) /\ DOMAIN u.run = RunFields /\ u.run.stage = stage /\ u.run.job = s.run.job
      /\ u.run.unsure = t.run.unsure /\ u.run # Images!Idle
  BY ImagesTo
<1>3. s' = u
  OBVIOUS
<1> HIDE DEF u
<1>4. RunGood(u)
  BY <1>1, <1>2 DEF RunGood, Beside
<1>5. LeftGood(u)
  BY <1>1, <1>2 DEF LeftGood, Beside
<1> QED BY <1>1, <1>2, <1>3, <1>4, <1>5, ImagesRun DEF Beside

\* The run is over.
LEMMA ImagesOver ==
  ASSUME ImagesGood(s), s.run.stage # "idle", DOMAIN s' = ImagesFields, s'.desktop = s.desktop,
         s'.tool = s.tool, s'.run = Images!Idle, s'.handing = s.handing, s.unsure \subseteq s'.unsure,
         s'.mounted = s.mounted, ~s.mounted => s'.urls = {}, s'.jobs \in Seq(ImageJobSet),
         Len(s'.jobs) = Len(s.jobs), \A k \in 1 .. Len(s.jobs) : k # s.run.job => s'.jobs[k] = s.jobs[k],
         s.run.job # 0 => ~Needed(s'.jobs[s.run.job]) \/ s.run.job \in s'.unsure
  PROVE  ImagesGood(s)'
<1>1. s.run # Images!Idle
  BY ImagesAtStage
<1>2. LeftGood(s')
  BY DEF LeftGood
<1> QED BY <1>1, <1>2, ImagesRun

\* The job of the run, changed in one field.
LEMMA ImagesJobOf ==
  ASSUME ImagesGood(s), s.run.stage # "idle", NEW new, s.run.job # 0 => new \in ImageJobSet
  PROVE  LET t == [s EXCEPT !.jobs = [s.jobs EXCEPT ![s.run.job] = new]]
         IN /\ DOMAIN t = ImagesFields /\ t.desktop = s.desktop /\ t.tool = s.tool /\ t.run = s.run
            /\ t.handing = s.handing /\ t.unsure = s.unsure /\ t.mounted = s.mounted /\ t.stopped = s.stopped
            /\ t.urls = s.urls /\ t.jobs \in Seq(ImageJobSet) /\ Len(t.jobs) = Len(s.jobs)
            /\ (\A k \in 1 .. Len(s.jobs) : k # s.run.job => t.jobs[k] = s.jobs[k])
            /\ (s.run.job # 0 => t.jobs[s.run.job] = new)
<1>1. DOMAIN s = ImagesFields /\ s.jobs \in Seq(ImageJobSet) /\ RunGood(s)
  BY ImagesAtStage
<1>2. s.run.job # 0 => s.run.job \in 1 .. Len(s.jobs)
  BY <1>1 DEF RunGood
<1> DEFINE jobs == [s.jobs EXCEPT ![s.run.job] = new]
<1>3. /\ jobs \in Seq(ImageJobSet) /\ Len(jobs) = Len(s.jobs)
      /\ (\A k \in 1 .. Len(s.jobs) : jobs[k] = IF k = s.run.job THEN new ELSE s.jobs[k])
  <2>1. s.run.job \in 1 .. Len(s.jobs) => new \in ImageJobSet
    OBVIOUS
  <2> QED BY <1>1, <2>1, ImageJobChanged
<1> HIDE DEF jobs
<1>4. \A k \in 1 .. Len(s.jobs) : k # s.run.job => jobs[k] = s.jobs[k]
  BY <1>3
<1>5. s.run.job # 0 => jobs[s.run.job] = new
  BY <1>2, <1>3
<1> DEFINE t == [s EXCEPT !.jobs = jobs]
<1>6. /\ DOMAIN t = ImagesFields /\ t.desktop = s.desktop /\ t.tool = s.tool /\ t.run = s.run
      /\ t.handing = s.handing /\ t.unsure = s.unsure /\ t.mounted = s.mounted /\ t.stopped = s.stopped
      /\ t.urls = s.urls /\ t.jobs = jobs
  BY <1>1 DEF ImagesFields
<1>7. t = [s EXCEPT !.jobs = [s.jobs EXCEPT ![s.run.job] = new]]
  BY DEF jobs
<1> HIDE DEF t
<1> QED BY <1>3, <1>4, <1>5, <1>6, <1>7

\* A field of the job of a run.
LEMMA ImagesHeld ==
  ASSUME ImagesGood(s), s.run.stage # "idle", NEW held \in BOOLEAN
  PROVE  LET t == [s EXCEPT !.jobs[s.run.job].held = held]
         IN /\ DOMAIN t = ImagesFields /\ t.desktop = s.desktop /\ t.tool = s.tool /\ t.run = s.run
            /\ t.handing = s.handing /\ t.unsure = s.unsure /\ t.mounted = s.mounted /\ t.stopped = s.stopped
            /\ t.urls = s.urls /\ t.jobs \in Seq(ImageJobSet) /\ Len(t.jobs) = Len(s.jobs)
            /\ (\A k \in 1 .. Len(s.jobs) : k # s.run.job => t.jobs[k] = s.jobs[k])
            /\ (s.run.job # 0 => /\ t.jobs[s.run.job].held = held
                                 /\ t.jobs[s.run.job].status = s.jobs[s.run.job].status)
<1>1. DOMAIN s = ImagesFields /\ s.jobs \in Seq(ImageJobSet) /\ RunGood(s)
  BY ImagesAtStage
<1>2. s.run.job # 0 => s.jobs[s.run.job] \in ImageJobSet
  BY <1>1, ElementOfSeq DEF RunGood
<1> DEFINE old == s.jobs[s.run.job]
           new == [old EXCEPT !.held = held]
<1>3. s.run.job # 0 => new \in ImageJobSet /\ new.held = held /\ new.status = old.status
  BY <1>2 DEF ImageJobSet
<1>4. [s EXCEPT !.jobs[s.run.job].held = held] = [s EXCEPT !.jobs = [s.jobs EXCEPT ![s.run.job] = new]]
  OBVIOUS
<1> HIDE DEF new
<1>5. LET t == [s EXCEPT !.jobs = [s.jobs EXCEPT ![s.run.job] = new]]
      IN /\ DOMAIN t = ImagesFields /\ t.desktop = s.desktop /\ t.tool = s.tool /\ t.run = s.run
         /\ t.handing = s.handing /\ t.unsure = s.unsure /\ t.mounted = s.mounted /\ t.stopped = s.stopped
         /\ t.urls = s.urls /\ t.jobs \in Seq(ImageJobSet) /\ Len(t.jobs) = Len(s.jobs)
         /\ (\A k \in 1 .. Len(s.jobs) : k # s.run.job => t.jobs[k] = s.jobs[k])
         /\ (s.run.job # 0 => t.jobs[s.run.job] = new)
  BY <1>3, ImagesJobOf
<1> DEFINE t == [s EXCEPT !.jobs[s.run.job].held = held]
<1> HIDE DEF t
<1>6. t = [s EXCEPT !.jobs = [s.jobs EXCEPT ![s.run.job] = new]]
  BY <1>4 DEF t
<1> QED BY <1>3, <1>5, <1>6 DEF t

\* The job of a run at work gets another status.
LEMMA ImagesStatus ==
  ASSUME ImagesGood(s), s.run.stage # "idle", NEW status \in JobStates
  PROVE  LET t == [s EXCEPT !.jobs[s.run.job].status = status]
         IN /\ DOMAIN t = ImagesFields /\ t.desktop = s.desktop /\ t.tool = s.tool /\ t.run = s.run
            /\ t.handing = s.handing /\ t.unsure = s.unsure /\ t.mounted = s.mounted /\ t.stopped = s.stopped
            /\ t.urls = s.urls /\ t.jobs \in Seq(ImageJobSet) /\ Len(t.jobs) = Len(s.jobs)
            /\ (\A k \in 1 .. Len(s.jobs) : k # s.run.job => t.jobs[k] = s.jobs[k])
            /\ (s.run.job # 0 => /\ t.jobs[s.run.job].held = s.jobs[s.run.job].held
                                 /\ t.jobs[s.run.job].status = status)
<1>1. DOMAIN s = ImagesFields /\ s.jobs \in Seq(ImageJobSet) /\ RunGood(s)
  BY ImagesAtStage
<1>2. s.run.job # 0 => s.jobs[s.run.job] \in ImageJobSet
  BY <1>1, ElementOfSeq DEF RunGood
<1> DEFINE old == s.jobs[s.run.job]
           new == [old EXCEPT !.status = status]
<1>3. s.run.job # 0 => new \in ImageJobSet /\ new.held = old.held /\ new.status = status
  BY <1>2 DEF ImageJobSet
<1>4. [s EXCEPT !.jobs[s.run.job].status = status] = [s EXCEPT !.jobs = [s.jobs EXCEPT ![s.run.job] = new]]
  OBVIOUS
<1> HIDE DEF new
<1>5. LET t == [s EXCEPT !.jobs = [s.jobs EXCEPT ![s.run.job] = new]]
      IN /\ DOMAIN t = ImagesFields /\ t.desktop = s.desktop /\ t.tool = s.tool /\ t.run = s.run
         /\ t.handing = s.handing /\ t.unsure = s.unsure /\ t.mounted = s.mounted /\ t.stopped = s.stopped
         /\ t.urls = s.urls /\ t.jobs \in Seq(ImageJobSet) /\ Len(t.jobs) = Len(s.jobs)
         /\ (\A k \in 1 .. Len(s.jobs) : k # s.run.job => t.jobs[k] = s.jobs[k])
         /\ (s.run.job # 0 => t.jobs[s.run.job] = new)
  BY <1>3, ImagesJobOf
<1> DEFINE t == [s EXCEPT !.jobs[s.run.job].status = status]
<1> HIDE DEF t
<1>6. t = [s EXCEPT !.jobs = [s.jobs EXCEPT ![s.run.job] = new]]
  BY <1>4 DEF t
<1> QED BY <1>3, <1>5, <1>6 DEF t

\* A run that is interrupted keeps the invariant.
LEMMA ImagesCaughtAsIs ==
  ASSUME ImagesGood(s), s.run.stage # "idle", NEW aborted, s' = Images!Caught(s, aborted)
  PROVE  ImagesGood(s)'
BY ImagesAtStage, ImagesCaughtStep

\* The inputs of a run: prepared, delivered, checked again, released.
LEMMA ImagesInputSteps ==
  ASSUME ImagesGood(s), Images!InputsArePrepared \/ Images!RecipientIsDelivered \/ Images!TaskFails
                        \/ Images!InputsAreRevalidated \/ Images!InputsAreReleased
  PROVE  ImagesGood(s)'
<1>1. s.run.stage # "idle"
  BY DEF Images!InputsArePrepared, Images!RecipientIsDelivered, Images!TaskFails,
         Images!InputsAreRevalidated, Images!InputsAreReleased, Images!At
<1>2. /\ DOMAIN s = ImagesFields /\ s.jobs \in Seq(ImageJobSet) /\ s.tool \in Images!Tools /\ LeftGood(s)
      /\ s.run # Images!Idle /\ RunGood(s) /\ DOMAIN s.run = RunFields
      /\ (~s.mounted => s.stopped /\ s.urls = {})
  BY <1>1, ImagesAtStage
<1>3. CASE Images!InputsArePrepared
  <2> DEFINE t == [s EXCEPT !.jobs[s.run.job].held = TRUE]
  <2>1. s' = Images!To(t, "task") \/ s' = Images!Caught(t, FALSE) \/ s' = Images!Caught(s, FALSE)
    BY <1>3 DEF Images!InputsArePrepared
  <2>2. /\ DOMAIN t = ImagesFields /\ t.desktop = s.desktop /\ t.tool = s.tool /\ t.run = s.run
        /\ t.handing = s.handing /\ t.unsure = s.unsure /\ t.mounted = s.mounted /\ t.stopped = s.stopped
        /\ t.urls = s.urls /\ t.jobs \in Seq(ImageJobSet) /\ Len(t.jobs) = Len(s.jobs)
        /\ (\A k \in 1 .. Len(s.jobs) : k # s.run.job => t.jobs[k] = s.jobs[k])
    BY <1>1, ImagesHeld
  <2> HIDE DEF t
  <2>3. CASE s' = Images!To(t, "task")
    BY <1>1, <1>2, <2>2, <2>3, ImagesOn
  <2>4. CASE s' = Images!Caught(t, FALSE)
    BY <1>1, <1>2, <2>2, <2>4, ImagesCaughtStep
  <2>5. CASE s' = Images!Caught(s, FALSE)
    BY <1>1, <2>5, ImagesCaughtAsIs
  <2> QED BY <2>1, <2>3, <2>4, <2>5
<1>4. CASE Images!RecipientIsDelivered
  <2> DEFINE list == Append(s.run.list, Len(s.run.list) + 1)
             r == [s.run EXCEPT !.list = list]
             d == [status |-> "preparing", requested |-> s.run.count, delivered |-> Len(list)]
  <2>1. s' = [s EXCEPT !.run = r, !.delivery = d] /\ s.run.stage = "task"
    BY <1>4 DEF Images!RecipientIsDelivered, Images!At
  <2>2. DOMAIN r = RunFields /\ r.job = s.run.job /\ r.stage = "task"
    BY <1>2, <2>1 DEF RunFields
  <2> HIDE DEF r, d
  <2>3. /\ DOMAIN s' = ImagesFields /\ s'.desktop = s.desktop /\ s'.tool = s.tool /\ s'.jobs = s.jobs
        /\ s'.run = r /\ s'.handing = s.handing /\ s'.unsure = s.unsure
        /\ s'.mounted = s.mounted /\ s'.stopped = s.stopped /\ s'.urls = s.urls
    BY <1>2, <2>1 DEF ImagesFields
  <2>4. RunGood(s') /\ LeftGood(s')
    BY <1>2, <2>2, <2>3 DEF RunGood, LeftGood
  <2> QED BY <1>2, <2>2, <2>3, <2>4, ImagesRun
<1>5. CASE Images!TaskFails
  <2> DEFINE r == Images!ReleaseOutputs(s)
             v(aborted) == [r EXCEPT !.delivery.status = IF aborted THEN "cancelled" ELSE "failed"]
  <2>1. PICK aborted : s' = Images!Caught(v(aborted), aborted) \/ s' = Images!Caught(s, aborted)
    <3>1. PICK aborted : s' = Images!Caught(IF s.tool = "recipient" /\ s.delivery # Images!NoDelivery
                                            THEN v(aborted) ELSE s, aborted)
      BY <1>5 DEF Images!TaskFails
    <3> QED BY <3>1
  <2>2. Shows(s, r) /\ r.urls \subseteq s.urls
    BY <1>2, ImagesReleaseOutputs
  <2> HIDE DEF r
  <2> DEFINE t == v(aborted)
  <2>3. /\ DOMAIN t = ImagesFields /\ t.desktop = s.desktop /\ t.tool = s.tool /\ t.run = s.run
        /\ t.handing = s.handing /\ t.unsure = s.unsure /\ t.mounted = s.mounted /\ t.stopped = s.stopped
        /\ t.urls \subseteq s.urls /\ t.jobs = s.jobs
    BY <2>2 DEF Shows, ImagesFields
  <2>4. s' = Images!Caught(t, aborted) \/ s' = Images!Caught(s, aborted)
    BY <2>1
  <2> HIDE DEF t
  <2>5. CASE s' = Images!Caught(t, aborted)
    BY <1>1, <1>2, <2>3, <2>5, ImagesCaughtStep
  <2>6. CASE s' = Images!Caught(s, aborted)
    BY <1>1, <2>6, ImagesCaughtAsIs
  <2> QED BY <2>4, <2>5, <2>6
<1>6. CASE Images!InputsAreRevalidated
  <2>1. s' = Images!To(s, "release") \/ s' = Images!Caught(s, FALSE)
    BY <1>6 DEF Images!InputsAreRevalidated
  <2>2. CASE s' = Images!To(s, "release")
    BY <1>1, <1>2, <2>2, ImagesOn
  <2>3. CASE s' = Images!Caught(s, FALSE)
    BY <1>1, <2>3, ImagesCaughtAsIs
  <2> QED BY <2>1, <2>2, <2>3
<1>7. CASE Images!InputsAreReleased
  <2> DEFINE t == [s EXCEPT !.jobs[s.run.job].held = FALSE]
             stage == IF s.tool = "check" THEN "finish" ELSE "register"
  <2>1. s' = Images!To(t, stage) \/ s' = Images!Caught(s, FALSE)
    BY <1>7 DEF Images!InputsAreReleased
  <2>2. /\ DOMAIN t = ImagesFields /\ t.desktop = s.desktop /\ t.tool = s.tool /\ t.run = s.run
        /\ t.handing = s.handing /\ t.unsure = s.unsure /\ t.mounted = s.mounted /\ t.stopped = s.stopped
        /\ t.urls = s.urls /\ t.jobs \in Seq(ImageJobSet) /\ Len(t.jobs) = Len(s.jobs)
        /\ (\A k \in 1 .. Len(s.jobs) : k # s.run.job => t.jobs[k] = s.jobs[k])
        /\ (s.run.job # 0 => t.jobs[s.run.job].held = FALSE)
    BY <1>1, ImagesHeld
  <2> HIDE DEF t
  <2>3. stage # "session" /\ stage # "told" /\ stage # "return"
    OBVIOUS
  <2> HIDE DEF stage
  <2>4. CASE s' = Images!To(t, stage)
    BY <1>1, <1>2, <2>2, <2>3, <2>4, ImagesOn
  <2>5. CASE s' = Images!Caught(s, FALSE)
    BY <1>1, <2>5, ImagesCaughtAsIs
  <2> QED BY <2>1, <2>4, <2>5
<1> QED BY <1>3, <1>4, <1>5, <1>6, <1>7

\* The end of a run, and of what it waits for.
LEMMA ImagesEndSteps ==
  ASSUME ImagesGood(s), Images!TaskSucceeds \/ Images!OutputIsRegistered \/ Images!JobIsFinished
                        \/ Images!LifecycleIsAnswered \/ Images!RunIsTold \/ Images!InputsAreReturned
  PROVE  ImagesGood(s)'
<1>1. s.run.stage # "idle"
  BY DEF Images!TaskSucceeds, Images!OutputIsRegistered, Images!JobIsFinished,
         Images!LifecycleIsAnswered, Images!RunIsTold, Images!InputsAreReturned, Images!At
<1>2. /\ DOMAIN s = ImagesFields /\ s.jobs \in Seq(ImageJobSet) /\ s.tool \in Images!Tools /\ LeftGood(s)
      /\ s.run # Images!Idle /\ RunGood(s) /\ DOMAIN s.run = RunFields
      /\ (~s.mounted => s.stopped /\ s.urls = {})
  BY <1>1, ImagesAtStage
<1> DEFINE job == s.run.job
<1>3. CASE Images!TaskSucceeds
  <2> DEFINE t == Images!RunTool(s)
  <2>1. ~s.stopped /\ IF s.desktop THEN s' = Images!To(t, "revalidate")
                      ELSE s' = [t EXCEPT !.run = Images!Idle, !.told = "done"]
    BY <1>3 DEF Images!TaskSucceeds
  <2>2. Shows(s, t) /\ s.mounted
    BY <1>2, <2>1, ImagesTool
  <2> HIDE DEF t
  <2>3. CASE s.desktop /\ s' = Images!To(t, "revalidate")
    BY <1>1, <1>2, <2>2, <2>3, ImagesOn DEF Shows
  <2>4. CASE ~s.desktop /\ s' = [t EXCEPT !.run = Images!Idle, !.told = "done"]
    <3>1. /\ DOMAIN s' = ImagesFields /\ s'.desktop = s.desktop /\ s'.tool = s.tool /\ s'.jobs = s.jobs
          /\ s'.run = Images!Idle /\ s'.handing = s.handing /\ s'.unsure = s.unsure
          /\ s'.mounted = s.mounted
      BY <2>2, <2>4 DEF Shows, ImagesFields
    <3>2. s.run.job = 0
      BY <1>2, <2>4 DEF RunGood
    <3> QED BY <1>1, <1>2, <2>2, <3>1, <3>2, ImagesOver
  <2> QED BY <2>1, <2>3, <2>4
<1>4. CASE Images!OutputIsRegistered
  <2> DEFINE t == [s EXCEPT !.jobs[s.run.job].status = "output_ready"]
  <2>1. /\ s.run.stage = "register"
        /\ s' = [t EXCEPT !.run = Images!Idle, !.output = job, !.told = "done"] \/ s' = Images!Caught(s, FALSE)
    BY <1>4 DEF Images!OutputIsRegistered, Images!At
  <2>2. /\ DOMAIN t = ImagesFields /\ t.desktop = s.desktop /\ t.tool = s.tool /\ t.run = s.run
        /\ t.handing = s.handing /\ t.unsure = s.unsure /\ t.mounted = s.mounted /\ t.stopped = s.stopped
        /\ t.urls = s.urls /\ t.jobs \in Seq(ImageJobSet) /\ Len(t.jobs) = Len(s.jobs)
        /\ (\A k \in 1 .. Len(s.jobs) : k # s.run.job => t.jobs[k] = s.jobs[k])
        /\ (s.run.job # 0 => /\ t.jobs[s.run.job].held = s.jobs[s.run.job].held
                             /\ t.jobs[s.run.job].status = "output_ready")
    BY <1>1, ImagesStatus DEF JobStates
  <2>3. s.run.job # 0 => ~Needed(t.jobs[job])
    BY <1>2, <2>1, <2>2 DEF RunGood, Needed
  <2> HIDE DEF t
  <2>4. CASE s' = [t EXCEPT !.run = Images!Idle, !.output = job, !.told = "done"]
    <3>1. /\ DOMAIN s' = ImagesFields /\ s'.desktop = s.desktop /\ s'.tool = s.tool /\ s'.jobs = t.jobs
          /\ s'.run = Images!Idle /\ s'.handing = s.handing /\ s'.unsure = s.unsure
          /\ s'.mounted = s.mounted /\ s'.urls = s.urls
      BY <2>2, <2>4 DEF ImagesFields
    <3> QED BY <1>1, <1>2, <2>2, <2>3, <3>1, ImagesOver
  <2>5. CASE s' = Images!Caught(s, FALSE)
    BY <1>1, <2>5, ImagesCaughtAsIs
  <2> QED BY <2>1, <2>4, <2>5
<1>5. CASE Images!JobIsFinished
  <2> DEFINE t == Images!EndJob(s, job, "completed")
  <2>1. s' = [t EXCEPT !.run = Images!Idle, !.told = "done"] \/ s' = Images!Caught(s, FALSE)
    BY <1>5 DEF Images!JobIsFinished
  <2>2. /\ DOMAIN t = ImagesFields /\ t.desktop = s.desktop /\ t.tool = s.tool /\ t.run = s.run
        /\ t.handing = s.handing /\ t.unsure = s.unsure /\ t.mounted = s.mounted /\ t.stopped = s.stopped
        /\ t.urls = s.urls /\ Eased(s.jobs, t.jobs)
        /\ (\A k \in 1 .. Len(s.jobs) : k # job => t.jobs[k] = s.jobs[k])
        /\ (job \in 1 .. Len(s.jobs) => ~Needed(t.jobs[job]) /\ t.jobs[job].status # "running")
    BY <1>2, ImagesEndJob DEF JobStates
  <2> HIDE DEF t
  <2>3. CASE s' = [t EXCEPT !.run = Images!Idle, !.told = "done"]
    <3>1. /\ DOMAIN s' = ImagesFields /\ s'.desktop = s.desktop /\ s'.tool = s.tool /\ s'.jobs = t.jobs
          /\ s'.run = Images!Idle /\ s'.handing = s.handing /\ s'.unsure = s.unsure
          /\ s'.mounted = s.mounted /\ s'.urls = s.urls
      BY <2>2, <2>3 DEF ImagesFields
    <3>2. t.jobs \in Seq(ImageJobSet) /\ Len(t.jobs) = Len(s.jobs) /\ (job # 0 => ~Needed(t.jobs[job]))
      BY <1>2, <2>2 DEF Eased, RunGood
    <3> QED BY <1>1, <1>2, <2>2, <3>1, <3>2, ImagesOver
  <2>4. CASE s' = Images!Caught(s, FALSE)
    BY <1>1, <2>4, ImagesCaughtAsIs
  <2> QED BY <2>1, <2>3, <2>4
<1>6. CASE Images!LifecycleIsAnswered
  <2> DEFINE status == IF s.run.abort THEN "cancelled" ELSE "failed"
             a == Images!EndJob(s, job, status)
             b == [s EXCEPT !.jobs[s.run.job].status = "stopping"]
             r == [s.run EXCEPT !.unsure = TRUE]
             c == [s EXCEPT !.run = r]
  <2>1. s' = Images!To(a, "told") \/ s' = Images!To(b, "told") \/ s' = Images!To(c, "told")
    BY <1>6 DEF Images!LifecycleIsAnswered, Images!EndIsAnswered
  <2>2. status \in JobStates \ {"running"}
    BY DEF JobStates
  <2> HIDE DEF status
  <2>3. /\ DOMAIN a = ImagesFields /\ a.desktop = s.desktop /\ a.tool = s.tool /\ a.run = s.run
        /\ a.handing = s.handing /\ a.unsure = s.unsure /\ a.mounted = s.mounted /\ a.stopped = s.stopped
        /\ a.urls = s.urls /\ Eased(s.jobs, a.jobs)
        /\ (\A k \in 1 .. Len(s.jobs) : k # job => a.jobs[k] = s.jobs[k])
        /\ (job \in 1 .. Len(s.jobs) => ~Needed(a.jobs[job]) /\ a.jobs[job].status # "running")
    BY <1>2, <2>2, ImagesEndJob
  <2>4. /\ DOMAIN b = ImagesFields /\ b.desktop = s.desktop /\ b.tool = s.tool /\ b.run = s.run
        /\ b.handing = s.handing /\ b.unsure = s.unsure /\ b.mounted = s.mounted /\ b.stopped = s.stopped
        /\ b.urls = s.urls /\ b.jobs \in Seq(ImageJobSet) /\ Len(b.jobs) = Len(s.jobs)
        /\ (\A k \in 1 .. Len(s.jobs) : k # s.run.job => b.jobs[k] = s.jobs[k])
        /\ (s.run.job # 0 => /\ b.jobs[s.run.job].held = s.jobs[s.run.job].held
                             /\ b.jobs[s.run.job].status = "stopping")
    BY <1>1, ImagesStatus DEF JobStates
  <2>5. DOMAIN r = RunFields /\ r.job = job /\ r.unsure = TRUE
    BY <1>2 DEF RunFields
  <2> HIDE DEF r
  <2>6. /\ DOMAIN c = ImagesFields /\ c.desktop = s.desktop /\ c.tool = s.tool /\ c.run = r
        /\ c.handing = s.handing /\ c.unsure = s.unsure /\ c.mounted = s.mounted /\ c.stopped = s.stopped
        /\ c.urls = s.urls /\ c.jobs = s.jobs
    BY <1>2 DEF ImagesFields
  <2> HIDE DEF a, b, c
  <2>7. CASE s' = Images!To(a, "told")
    <3>1. a.jobs \in Seq(ImageJobSet) /\ Len(a.jobs) = Len(s.jobs) /\ (job # 0 => a.jobs[job].status # "running")
      BY <1>2, <2>3 DEF Eased, RunGood
    <3> QED BY <1>1, <1>2, <2>3, <2>7, <3>1, ImagesOn
  <2>8. CASE s' = Images!To(b, "told")
    BY <1>1, <1>2, <2>4, <2>8, ImagesOn
  <2>9. CASE s' = Images!To(c, "told")
    BY <1>1, <1>2, <2>5, <2>6, <2>9, ImagesOn
  <2> QED BY <2>1, <2>7, <2>8, <2>9
<1>7. CASE Images!RunIsTold
  <2> DEFINE r == Images!ReleaseOutputs(s)
             x == [s EXCEPT !.told = "cancelled"]
             y == [r EXCEPT !.told = "cancelled"]
             z == [s EXCEPT !.told = "failed"]
             t == IF s.stopped \/ s.run.abort THEN Images!TellCancelled(s) ELSE z
             v == [t EXCEPT !.unsure = @ \cup {job}]
             w == IF s.run.unsure THEN v ELSE t
  <2>1. /\ s.run.stage = "told"
        /\ s' = IF job # 0 /\ s.jobs[job].held THEN Images!To(w, "return") ELSE [w EXCEPT !.run = Images!Idle]
    BY <1>7 DEF Images!RunIsTold, Images!At, Images!None
  <2>2. t = x \/ t = y \/ t = z
    BY DEF Images!TellCancelled
  <2>3. Shows(s, r) /\ r.urls \subseteq s.urls
    BY <1>2, ImagesReleaseOutputs
  <2> HIDE DEF r
  <2>4. /\ DOMAIN t = ImagesFields /\ t.desktop = s.desktop /\ t.tool = s.tool /\ t.run = s.run
        /\ t.handing = s.handing /\ t.unsure = s.unsure /\ t.mounted = s.mounted /\ t.stopped = s.stopped
        /\ t.urls \subseteq s.urls /\ t.jobs = s.jobs
    <3>1. Shows(s, x) /\ x.urls = s.urls /\ Shows(s, y) /\ y.urls = r.urls /\ Shows(s, z) /\ z.urls = s.urls
      BY <1>2, <2>3 DEF Shows, ImagesFields
    <3> HIDE DEF x, y, z, t
    <3> QED BY <2>2, <2>3, <3>1 DEF Shows
  <2> HIDE DEF t
  <2>5. /\ DOMAIN w = ImagesFields /\ w.desktop = s.desktop /\ w.tool = s.tool /\ w.run = s.run
        /\ w.handing = s.handing /\ s.unsure \subseteq w.unsure /\ w.mounted = s.mounted
        /\ w.stopped = s.stopped /\ w.urls \subseteq s.urls /\ w.jobs = s.jobs
        /\ (s.run.unsure => job \in w.unsure)
    BY <2>4 DEF ImagesFields
  <2> HIDE DEF w
  <2>6. job # 0 => s.jobs[job].status # "running" \/ job \in w.unsure
    BY <1>2, <2>1, <2>5 DEF RunGood
  <2>7. CASE (job # 0 /\ s.jobs[job].held) /\ s' = Images!To(w, "return")
    BY <1>1, <1>2, <2>5, <2>6, <2>7, ImagesOn
  <2>8. CASE ~(job # 0 /\ s.jobs[job].held) /\ s' = [w EXCEPT !.run = Images!Idle]
    <3>1. /\ DOMAIN s' = ImagesFields /\ s'.desktop = s.desktop /\ s'.tool = s.tool /\ s'.jobs = s.jobs
          /\ s'.run = Images!Idle /\ s'.handing = s.handing /\ s'.unsure = w.unsure
          /\ s'.mounted = s.mounted /\ s'.urls = w.urls
      BY <2>5, <2>8 DEF ImagesFields
    <3>2. job # 0 => ~Needed(s.jobs[job]) \/ job \in w.unsure
      BY <2>6, <2>8 DEF Needed
    <3> QED BY <1>1, <1>2, <2>5, <3>1, <3>2, ImagesOver
  <2> QED BY <2>1, <2>7, <2>8
<1>8. CASE Images!InputsAreReturned
  <2> DEFINE t == [s EXCEPT !.jobs[s.run.job].held = FALSE]
             u == [t EXCEPT !.run = Images!Idle]
             v == [s EXCEPT !.run = Images!Idle, !.unsure = @ \cup {job}]
  <2>1. s.run.stage = "return" /\ (s' = u \/ s' = v)
    <3>1. [s EXCEPT !.run = Images!Idle, !.jobs[s.run.job].held = FALSE] = u
      BY <1>2 DEF ImagesFields
    <3> QED BY <1>8, <3>1 DEF Images!InputsAreReturned, Images!At
  <2>2. /\ DOMAIN t = ImagesFields /\ t.desktop = s.desktop /\ t.tool = s.tool /\ t.run = s.run
        /\ t.handing = s.handing /\ t.unsure = s.unsure /\ t.mounted = s.mounted /\ t.stopped = s.stopped
        /\ t.urls = s.urls /\ t.jobs \in Seq(ImageJobSet) /\ Len(t.jobs) = Len(s.jobs)
        /\ (\A k \in 1 .. Len(s.jobs) : k # s.run.job => t.jobs[k] = s.jobs[k])
        /\ (s.run.job # 0 => t.jobs[s.run.job].held = FALSE /\ t.jobs[job].status = s.jobs[job].status)
    BY <1>1, ImagesHeld
  <2> HIDE DEF t
  <2>3. CASE s' = u
    <3>1. /\ DOMAIN s' = ImagesFields /\ s'.desktop = s.desktop /\ s'.tool = s.tool /\ s'.jobs = t.jobs
          /\ s'.run = Images!Idle /\ s'.handing = s.handing /\ s'.unsure = s.unsure
          /\ s'.mounted = s.mounted /\ s'.urls = s.urls
      BY <2>2, <2>3 DEF ImagesFields
    <3>2. job # 0 => ~Needed(t.jobs[job]) \/ job \in s.unsure
      BY <1>2, <2>1, <2>2 DEF Needed, RunGood
    <3> QED BY <1>1, <1>2, <2>2, <3>1, <3>2, ImagesOver
  <2>4. CASE s' = v
    <3>1. /\ DOMAIN s' = ImagesFields /\ s'.desktop = s.desktop /\ s'.tool = s.tool /\ s'.jobs = s.jobs
          /\ s'.run = Images!Idle /\ s'.handing = s.handing /\ s'.unsure = s.unsure \cup {job}
          /\ s'.mounted = s.mounted /\ s'.urls = s.urls
      BY <1>2, <2>4 DEF ImagesFields
    <3> QED BY <1>1, <1>2, <3>1, ImagesOver
  <2> QED BY <2>1, <2>3, <2>4
<1> QED BY <1>3, <1>4, <1>5, <1>6, <1>7, <1>8

\* Every step of the pictures keeps the invariant.
LEMMA ImagesSteps == ASSUME ImagesGood(s), Images!Next PROVE ImagesGood(s)'
BY ImagesPlainSteps, ImagesGivingUpSteps, ImagesBegin, ImagesJobSteps, ImagesHandSteps,
   ImagesInputSteps, ImagesEndSteps DEF Images!Next

\* No job and no held output is left behind, and a page that was left has no
\* address.
LEMMA ImagesHold ==
  ASSUME ImagesGood(s) PROVE Images!NothingIsLeftBehind /\ Images!UrlsAreRevoked
<1>1. DOMAIN s.jobs = 1 .. Len(s.jobs)
  BY LenProperties DEF ImagesGood
<1> QED BY <1>1 DEF ImagesGood, SeenTo, Needed, LeftGood, Images!NothingIsLeftBehind, Images!UrlsAreRevoked

-------------------------------------------------------------------------------
(* The binary patches.                                                       *)

PatchFields ==
  {"of", "jobs", "calls", "reading", "run", "late", "cleanup", "output", "exporting", "told", "plan", "turns"}
PatchStates == {"running", "stopping", "output_ready", "exporting", "completed", "cancelled", "expired", "failed"}
PatchClaims == {"none", "failed", "unverified", "verified"}
PatchJobSet == [status : PatchStates, bytes : BOOLEAN, claim : PatchClaims, exact : BOOLEAN]
PatchCommands == {"register", "cancel", "fail", "complete", "retry", "cancel_output", "give_up", "export"}
CallSet == [cmd : PatchCommands, job : Nat]

Ends == {"cancel", "fail"}
Undone(j) == j.status \in {"running", "stopping"}

\* What is asked once: the end of a run, the registration of a job, another try.
Once(c, d) ==
  \/ c.cmd \in Ends /\ d.cmd \in Ends
  \/ c.cmd = "register" /\ d.cmd = "register" /\ c.job = d.job
  \/ c.cmd = "retry" /\ d.cmd = "retry"
Unique(calls) == \A i, j \in 1 .. Len(calls) : Once(calls[i], calls[j]) => i = j

CallGood(t, c) ==
  /\ c.job \in 1 .. Len(t.jobs)
  /\ c.cmd = "register" => c.job \in t.late \/ (t.run.stage = "register" /\ t.run.job = c.job)
  /\ c.cmd \in Ends => t.run.stage = "ending" /\ t.run.job = c.job
  /\ c.cmd = "complete" => c.job \notin t.reading
  /\ c.cmd = "retry" => t.cleanup # Patch!Nothing /\ t.cleanup.job = c.job

QueueGood(t) ==
  /\ t.calls \in Seq(CallSet) /\ Unique(t.calls)
  /\ \A i \in 1 .. Len(t.calls) : CallGood(t, t.calls[i])

PatchTyped(t) ==
  /\ DOMAIN t = PatchFields /\ t.of = "tools" /\ t.jobs \in Seq(PatchJobSet)
  /\ t.output \in 0 .. Len(t.jobs)

\* One run or one end that is owed, and it is about the last job.
PatchRunGood(t) ==
  /\ t.run # Patch!Idle =>
       /\ {"stage", "job"} \subseteq DOMAIN t.run /\ t.run.job = Len(t.jobs) /\ Len(t.jobs) # 0
       /\ t.run.stage \in {"compute", "register", "complete"} => t.run.job \notin t.reading
       /\ t.run.job \in t.late => t.run.stage = "ending"
  /\ t.cleanup # Patch!Nothing => t.run = Patch!Idle /\ t.cleanup.job = Len(t.jobs) /\ Len(t.jobs) # 0
  /\ t.late \subseteq 1 .. Len(t.jobs)

Watched(t) ==
  \A k \in 1 .. Len(t.jobs) : Undone(t.jobs[k]) =>
    \/ t.run # Patch!Idle /\ t.run.job = k
    \/ t.cleanup # Patch!Nothing /\ t.cleanup.job = k

ToldGood(t) == t.told = "cancelled" => Len(t.jobs) # 0 /\ t.jobs[Len(t.jobs)].status = "cancelled"

PatchGood(t) ==
  IF t.of = "archive" THEN "of" \in DOMAIN t
  ELSE PatchTyped(t) /\ PatchRunGood(t) /\ QueueGood(t) /\ Watched(t) /\ ToldGood(t)

\* A run at work is not the idle one.
LEMMA PatchAtWork == ASSUME NEW x, "job" \in DOMAIN x PROVE x # Patch!Idle
BY DEF Patch!Idle

\* The idle run is at the idle stage.
LEMMA PatchIdle == Patch!Idle.stage = "idle"
BY DEF Patch!Idle

\* The invariant of the tools, part by part.
LEMMA PatchGoodIs ==
  ASSUME NEW t, t.of = "tools"
  PROVE  PatchGood(t) <=> PatchTyped(t) /\ PatchRunGood(t) /\ QueueGood(t) /\ Watched(t) /\ ToldGood(t)
BY DEF PatchGood

\* Changing one job leaves the others as they are.
LEMMA PatchJobChanged ==
  ASSUME NEW jobs \in Seq(PatchJobSet), NEW job, NEW new, job \in 1 .. Len(jobs) => new \in PatchJobSet
  PROVE  LET u == [jobs EXCEPT ![job] = new]
         IN /\ u \in Seq(PatchJobSet) /\ Len(u) = Len(jobs)
            /\ \A k \in 1 .. Len(jobs) : u[k] = IF k = job THEN new ELSE jobs[k]
<1> DEFINE u == [jobs EXCEPT ![job] = new]
<1>1. DOMAIN jobs = 1 .. Len(jobs)
  BY LenProperties
<1>2. CASE job \in 1 .. Len(jobs)
  <2>1. u \in Seq(PatchJobSet) /\ Len(u) = Len(jobs)
    BY <1>2, ExceptSeq
  <2> QED BY <1>1, <2>1
<1>3. CASE job \notin 1 .. Len(jobs)
  <2>1. u = jobs
    BY <1>1, <1>3
  <2> QED BY <1>1, <1>3, <2>1
<1> QED BY <1>2, <1>3

\* Two states that differ in one job only.
Elsewhere(t, u, job) ==
  /\ DOMAIN u = PatchFields /\ u.of = t.of /\ u.calls = t.calls /\ u.reading = t.reading /\ u.run = t.run
  /\ u.late = t.late /\ u.cleanup = t.cleanup /\ u.output = t.output /\ u.exporting = t.exporting
  /\ u.told = t.told /\ u.jobs \in Seq(PatchJobSet) /\ Len(u.jobs) = Len(t.jobs)
  /\ \A k \in 1 .. Len(t.jobs) : k # job => u.jobs[k] = t.jobs[k]

\* Nothing changes elsewhere when nothing changes.
LEMMA ElsewhereSame ==
  ASSUME NEW t, DOMAIN t = PatchFields, t.jobs \in Seq(PatchJobSet), NEW job PROVE Elsewhere(t, t, job)
BY DEF Elsewhere

\* A job that is replaced leaves everything else alone.
LEMMA PatchNewJob ==
  ASSUME NEW t, DOMAIN t = PatchFields, t.jobs \in Seq(PatchJobSet), NEW job \in 1 .. Len(t.jobs),
         NEW new \in PatchJobSet
  PROVE  LET u == [t EXCEPT !.jobs = [t.jobs EXCEPT ![job] = new]]
         IN Elsewhere(t, u, job) /\ u.jobs[job] = new
<1> DEFINE jobs == [t.jobs EXCEPT ![job] = new]
           u == [t EXCEPT !.jobs = jobs]
<1>1. /\ jobs \in Seq(PatchJobSet) /\ Len(jobs) = Len(t.jobs)
      /\ \A k \in 1 .. Len(t.jobs) : jobs[k] = IF k = job THEN new ELSE t.jobs[k]
  BY PatchJobChanged
<1>2. u = [t EXCEPT !.jobs = [t.jobs EXCEPT ![job] = new]]
  OBVIOUS
<1> HIDE DEF jobs
<1>3. jobs[job] = new /\ \A k \in 1 .. Len(t.jobs) : k # job => jobs[k] = t.jobs[k]
  BY <1>1
<1>4. Elsewhere(t, u, job) /\ u.jobs[job] = new
  BY <1>1, <1>3 DEF Elsewhere, PatchFields
<1> HIDE DEF u
<1> QED BY <1>2, <1>4

\* So does a job that gets another status.
LEMMA PatchStatus ==
  ASSUME NEW t, DOMAIN t = PatchFields, t.jobs \in Seq(PatchJobSet), NEW job \in 1 .. Len(t.jobs),
         NEW status \in PatchStates
  PROVE  LET u == [t EXCEPT !.jobs[job].status = status]
         IN Elsewhere(t, u, job) /\ u.jobs[job].status = status
<1> DEFINE old == t.jobs[job]
           new == [old EXCEPT !.status = status]
           u == [t EXCEPT !.jobs[job].status = status]
           v == [t EXCEPT !.jobs = [t.jobs EXCEPT ![job] = new]]
<1>1. old \in PatchJobSet
  BY ElementOfSeq
<1>2. new \in PatchJobSet /\ new.status = status
  BY <1>1 DEF PatchJobSet
<1>3. u = v
  OBVIOUS
<1> HIDE DEF new, u
<1>4. Elsewhere(t, v, job) /\ v.jobs[job] = new
  BY <1>2, PatchNewJob
<1> HIDE DEF v
<1>5. Elsewhere(t, u, job) /\ u.jobs[job].status = status
  BY <1>2, <1>3, <1>4
<1> QED BY <1>5 DEF u

\* The commands of the service on one job.
LEMMA PatchCancel ==
  ASSUME NEW t, DOMAIN t = PatchFields, t.jobs \in Seq(PatchJobSet), NEW job \in 1 .. Len(t.jobs)
  PROVE  LET u == Patch!Cancel(t, job)
             old == t.jobs[job].status
         IN /\ Elsewhere(t, u, job)
            /\ u.jobs[job].status = IF old \in Patch!Terminal THEN old
                                    ELSE IF job \in t.reading THEN "stopping" ELSE "cancelled"
<1> DEFINE old == t.jobs[job].status
           new == IF old \in Patch!Terminal THEN old ELSE IF job \in t.reading THEN "stopping" ELSE "cancelled"
           u == Patch!Cancel(t, job)
<1>1. old \in PatchStates
  <2>1. t.jobs[job] \in PatchJobSet
    BY ElementOfSeq
  <2> QED BY <2>1 DEF PatchJobSet
<1>2. new \in PatchStates
  BY <1>1 DEF PatchStates
<1>3. u = [t EXCEPT !.jobs[job].status = new]
  BY DEF Patch!Cancel, Patch!Released
<1> HIDE DEF new, u
<1>4. Elsewhere(t, u, job) /\ u.jobs[job].status = new
  BY <1>2, <1>3, PatchStatus
<1> QED BY <1>4 DEF new, u

\* A job that is over stays so; one whose files are read is to stop first.
LEMMA PatchFinish ==
  ASSUME NEW t, DOMAIN t = PatchFields, t.jobs \in Seq(PatchJobSet), NEW job \in 1 .. Len(t.jobs),
         NEW status \in PatchStates
  PROVE  LET u == Patch!Finish(t, job, status)
             old == t.jobs[job].status
         IN /\ Elsewhere(t, u, job)
            /\ u.jobs[job].status = IF old \in Patch!Terminal THEN old
                                    ELSE IF job \in t.reading THEN "stopping" ELSE status
<1> DEFINE old == t.jobs[job].status
           new == IF old \in Patch!Terminal THEN old ELSE IF job \in t.reading THEN "stopping" ELSE status
           u == Patch!Finish(t, job, status)
<1>1. old \in PatchStates
  <2>1. t.jobs[job] \in PatchJobSet
    BY ElementOfSeq
  <2> QED BY <2>1 DEF PatchJobSet
<1>2. new \in PatchStates
  BY <1>1 DEF PatchStates
<1>3. u = [t EXCEPT !.jobs[job].status = new]
  BY DEF Patch!Finish, Patch!Released
<1> HIDE DEF new, u
<1>4. Elsewhere(t, u, job) /\ u.jobs[job].status = new
  BY <1>2, <1>3, PatchStatus
<1> QED BY <1>4 DEF new, u

\* An output that is registered is ready, and nothing else changes.
LEMMA PatchRegister ==
  ASSUME NEW t, DOMAIN t = PatchFields, t.jobs \in Seq(PatchJobSet), NEW job \in 1 .. Len(t.jobs)
  PROVE  LET u == Patch!RegisterOutput(t, job)
         IN Elsewhere(t, u, job) /\ u.jobs[job].status = "output_ready"
<1> DEFINE old == t.jobs[job]
           new == [old EXCEPT !.status = "output_ready", !.bytes = TRUE]
           u == Patch!RegisterOutput(t, job)
           v == [t EXCEPT !.jobs = [t.jobs EXCEPT ![job] = new]]
<1>1. old \in PatchJobSet /\ job \in DOMAIN t.jobs
  BY ElementOfSeq, LenProperties
<1>2. new \in PatchJobSet /\ new.status = "output_ready"
  BY <1>1 DEF PatchJobSet, PatchStates
<1>3. u = v
  BY <1>1 DEF Patch!RegisterOutput, PatchFields
<1> HIDE DEF new, u
<1>4. Elsewhere(t, v, job) /\ v.jobs[job] = new
  BY <1>2, PatchNewJob
<1> HIDE DEF v
<1>5. Elsewhere(t, u, job) /\ u.jobs[job].status = "output_ready"
  BY <1>2, <1>3, <1>4
<1> QED BY <1>5 DEF u

\* An output that is given up was ready; nothing else changes.
LEMMA PatchGiveUp ==
  ASSUME NEW t, DOMAIN t = PatchFields, t.jobs \in Seq(PatchJobSet), NEW job \in 1 .. Len(t.jobs)
  PROVE  LET u == Patch!CancelOutput(t, job)
         IN /\ Elsewhere(t, u, job)
            /\ u.jobs[job] = t.jobs[job] \/ (t.jobs[job].status = "output_ready" /\ u.jobs[job].status = "cancelled")
<1>1. CASE t.jobs[job].status = "output_ready"
  <2> DEFINE old == t.jobs[job]
             new == [old EXCEPT !.status = "cancelled", !.bytes = FALSE]
             u == Patch!CancelOutput(t, job)
             v == [t EXCEPT !.jobs = [t.jobs EXCEPT ![job] = new]]
  <2>1. old \in PatchJobSet /\ job \in DOMAIN t.jobs
    BY ElementOfSeq, LenProperties
  <2>2. new \in PatchJobSet /\ new.status = "cancelled"
    BY <2>1 DEF PatchJobSet, PatchStates
  <2>3. u = v
    BY <1>1, <2>1 DEF Patch!CancelOutput, PatchFields
  <2> HIDE DEF new, u
  <2>4. Elsewhere(t, v, job) /\ v.jobs[job] = new
    BY <2>2, PatchNewJob
  <2> HIDE DEF v
  <2>5. Elsewhere(t, u, job) /\ u.jobs[job].status = "cancelled"
    BY <2>2, <2>3, <2>4
  <2> QED BY <1>1, <2>5 DEF u
<1>2. CASE t.jobs[job].status # "output_ready"
  <2>1. Patch!CancelOutput(t, job) = t
    BY <1>2 DEF Patch!CancelOutput
  <2> QED BY <2>1, ElsewhereSame
<1> QED BY <1>1, <1>2

\* The queue.
LEMMA PatchHead ==
  ASSUME NEW t, QueueGood(t), t.calls # <<>>
  PROVE  LET c == Head(t.calls)
             rest == Tail(t.calls)
         IN /\ c \in CallSet /\ CallGood(t, c) /\ rest \in Seq(CallSet) /\ Unique(rest)
            /\ \A i \in 1 .. Len(rest) : CallGood(t, rest[i]) /\ ~Once(c, rest[i])
<1> DEFINE calls == t.calls
           rest == Tail(calls)
<1>1. /\ calls \in Seq(CallSet) /\ Unique(calls) /\ (\A i \in 1 .. Len(calls) : CallGood(t, calls[i]))
      /\ calls # <<>>
  BY DEF QueueGood
<1> HIDE DEF calls
<1>2. /\ Len(calls) \in Nat /\ 1 \in 1 .. Len(calls) /\ Head(calls) = calls[1] /\ rest \in Seq(CallSet)
      /\ Len(rest) = Len(calls) - 1 /\ \A i \in 1 .. Len(rest) : rest[i] = calls[i + 1]
  <2>1. Len(calls) \in Nat /\ Len(calls) # 0
    BY <1>1, LenProperties, EmptySeq
  <2> QED BY <1>1, <2>1, HeadTailProperties
<1> HIDE DEF rest
<1>3. \A i \in 1 .. Len(rest) : i + 1 \in 1 .. Len(calls) /\ i + 1 # 1
  BY <1>2
<1>4. Unique(rest)
  <2> SUFFICES ASSUME NEW i \in 1 .. Len(rest), NEW j \in 1 .. Len(rest), Once(rest[i], rest[j])
               PROVE  i = j
    BY DEF Unique
  <2>1. Once(calls[i + 1], calls[j + 1])
    BY <1>2
  <2>2. i + 1 = j + 1
    BY <1>1, <1>3, <2>1 DEF Unique
  <2> QED BY <2>2
<1>5. \A i \in 1 .. Len(rest) : CallGood(t, rest[i]) /\ ~Once(calls[1], rest[i])
  <2> TAKE i \in 1 .. Len(rest)
  <2>1. rest[i] = calls[i + 1] /\ i + 1 \in 1 .. Len(calls) /\ i + 1 # 1
    BY <1>2, <1>3
  <2>2. Once(calls[1], calls[i + 1]) => 1 = i + 1
    BY <1>1, <1>2, <2>1 DEF Unique
  <2> QED BY <1>1, <2>1, <2>2
<1>6. calls[1] \in CallSet /\ CallGood(t, calls[1])
  BY <1>1, <1>2, ElementOfSeq
<1> QED BY <1>2, <1>4, <1>5, <1>6 DEF calls, rest

\* A call that is asked once stays the only one of its kind.
LEMMA PatchAsk ==
  ASSUME NEW calls \in Seq(CallSet), Unique(calls), NEW c \in CallSet,
         \A i \in 1 .. Len(calls) : ~Once(calls[i], c) /\ ~Once(c, calls[i])
  PROVE  LET more == Append(calls, c)
         IN /\ more \in Seq(CallSet) /\ Unique(more) /\ Len(more) = Len(calls) + 1
            /\ \A i \in 1 .. Len(more) : more[i] = c \/ \E j \in 1 .. Len(calls) : more[i] = calls[j]
<1> DEFINE more == Append(calls, c)
           n == Len(calls)
<1>1. /\ n \in Nat /\ more \in Seq(CallSet) /\ Len(more) = n + 1 /\ more[n + 1] = c
      /\ \A i \in 1 .. n : more[i] = calls[i]
  BY AppendProperties, LenProperties
<1>2. \A i \in 1 .. n + 1 : i \in 1 .. n \/ i = n + 1
  BY <1>1
<1> HIDE DEF more
<1>3. Unique(more)
  <2> SUFFICES ASSUME NEW i \in 1 .. Len(more), NEW j \in 1 .. Len(more), Once(more[i], more[j]) PROVE i = j
    BY DEF Unique
  <2>1. CASE i \in 1 .. n /\ j \in 1 .. n
    BY <1>1, <2>1 DEF Unique
  <2>2. CASE i \in 1 .. n /\ j = n + 1
    BY <1>1, <2>2
  <2>3. CASE i = n + 1 /\ j \in 1 .. n
    BY <1>1, <2>3
  <2> QED BY <1>1, <1>2, <2>1, <2>2, <2>3
<1>4. \A i \in 1 .. Len(more) : more[i] = c \/ \E j \in 1 .. n : more[i] = calls[j]
  <2> TAKE i \in 1 .. Len(more)
  <2> QED BY <1>1, <1>2
<1> QED BY <1>1, <1>3, <1>4 DEF more

WatchedBy(t, k) ==
  \/ t.run # Patch!Idle /\ t.run.job = k
  \/ t.cleanup # Patch!Nothing /\ t.cleanup.job = k

\* What is so of the tools, in parts.
LEMMA PatchParts ==
  ASSUME PatchGood(s), s.of = "tools"
  PROVE  /\ DOMAIN s = PatchFields /\ s.jobs \in Seq(PatchJobSet) /\ Len(s.jobs) \in Nat
         /\ s.output \in 0 .. Len(s.jobs) /\ DOMAIN s.jobs = 1 .. Len(s.jobs)
         /\ PatchRunGood(s) /\ QueueGood(s) /\ Watched(s) /\ ToldGood(s)
BY PatchGoodIs, LenProperties DEF PatchTyped

\* A step that leaves the run and loses no job that goes on keeps the
\* invariant.
LEMMA PatchKeeps ==
  ASSUME PatchGood(s), s.of = "tools", NEW u, DOMAIN u = PatchFields, u.of = "tools",
         u.jobs \in Seq(PatchJobSet), Len(u.jobs) = Len(s.jobs), u.run = s.run, u.late = s.late,
         u.output \in 0 .. Len(s.jobs),
         u.cleanup = s.cleanup, u.reading \subseteq s.reading, u.calls \in Seq(CallSet), Unique(u.calls),
         \A i \in 1 .. Len(u.calls) : CallGood(s, u.calls[i]),
         u.told = s.told \/ u.told # "cancelled",
         \A k \in 1 .. Len(s.jobs) : Undone(u.jobs[k]) => Undone(s.jobs[k]) \/ WatchedBy(s, k),
         \A k \in 1 .. Len(s.jobs) : s.jobs[k].status = "cancelled" => u.jobs[k].status = "cancelled"
  PROVE  PatchGood(u)
<1>1. /\ Len(s.jobs) \in Nat /\ PatchRunGood(s) /\ Watched(s) /\ ToldGood(s)
  BY PatchParts
<1>2. PatchRunGood(u)
  BY <1>1 DEF PatchRunGood
<1>3. QueueGood(u)
  BY <1>1 DEF QueueGood, CallGood
<1>4. Watched(u)
  BY <1>1 DEF Watched, WatchedBy
<1>5. ToldGood(u)
  <2> SUFFICES ASSUME u.told = "cancelled" PROVE Len(u.jobs) # 0 /\ u.jobs[Len(u.jobs)].status = "cancelled"
    BY DEF ToldGood
  <2>1. Len(s.jobs) # 0 /\ s.jobs[Len(s.jobs)].status = "cancelled"
    BY <1>1 DEF ToldGood
  <2>2. Len(s.jobs) \in 1 .. Len(s.jobs)
    BY <1>1, <2>1
  <2> QED BY <2>1, <2>2
<1> QED BY <1>2, <1>3, <1>4, <1>5, PatchGoodIs DEF PatchTyped

\* The calls of a state, and one more.
LEMMA PatchAsking ==
  ASSUME PatchGood(s), s.of = "tools", NEW c \in CallSet, CallGood(s, c),
         c.cmd \in {"give_up", "export"} \/ (c.cmd = "retry" /\ \A i \in DOMAIN s.calls : s.calls[i].cmd # "retry")
  PROVE  LET more == Append(s.calls, c)
         IN /\ more \in Seq(CallSet) /\ Unique(more)
            /\ \A i \in 1 .. Len(more) : CallGood(s, more[i])
<1>1. QueueGood(s)
  BY PatchParts
<1>2. /\ s.calls \in Seq(CallSet) /\ Unique(s.calls) /\ DOMAIN s.calls = 1 .. Len(s.calls)
      /\ \A i \in 1 .. Len(s.calls) : CallGood(s, s.calls[i])
  BY <1>1, LenProperties DEF QueueGood
<1>3. \A i \in 1 .. Len(s.calls) : ~Once(s.calls[i], c) /\ ~Once(c, s.calls[i])
  BY <1>2 DEF Once, Ends
<1> DEFINE more == Append(s.calls, c)
<1>4. /\ more \in Seq(CallSet) /\ Unique(more)
      /\ \A i \in 1 .. Len(more) : more[i] = c \/ \E j \in 1 .. Len(s.calls) : more[i] = s.calls[j]
  BY <1>2, <1>3, PatchAsk
<1> HIDE DEF more
<1>5. \A i \in 1 .. Len(more) : CallGood(s, more[i])
  BY <1>2, <1>4
<1> QED BY <1>4, <1>5 DEF more

\* A run is ended: nothing that is asked already waits for it.
LEMMA PatchEnding ==
  ASSUME NEW t, DOMAIN t = PatchFields, t.of = "tools", t.jobs \in Seq(PatchJobSet),
         t.late \subseteq 1 .. Len(t.jobs), t.cleanup = Patch!Nothing, t.run.job = Len(t.jobs),
         Len(t.jobs) # 0, t.calls \in Seq(CallSet), Unique(t.calls),
         \A i \in 1 .. Len(t.calls) :
           /\ t.calls[i].job \in 1 .. Len(t.jobs) /\ t.calls[i].cmd \notin Ends /\ t.calls[i].cmd # "retry"
           /\ t.calls[i].cmd = "register" => t.calls[i].job \in t.late
           /\ t.calls[i].cmd = "complete" => t.calls[i].job \notin t.reading,
         \A k \in 1 .. Len(t.jobs) : Undone(t.jobs[k]) => k = Len(t.jobs), ToldGood(t), NEW why
  PROVE  PatchGood(Patch!EndRun(t, why))
<1> DEFINE cmd == IF why = "cancelled" THEN "cancel" ELSE "fail"
           c == [cmd |-> cmd, job |-> t.run.job]
           run == [stage |-> "ending", why |-> why, job |-> t.run.job]
           calls == Append(t.calls, c)
           v == [t EXCEPT !.run = run, !.output = Patch!None]
           u == Patch!EndRun(t, why)
<1>1. u = [v EXCEPT !.calls = calls]
  <2>1. v.calls = t.calls /\ DOMAIN v = PatchFields
    BY DEF PatchFields
  <2> HIDE DEF v
  <2>2. u = Patch!Ask(v, cmd, t.run.job)
    BY DEF Patch!EndRun, v
  <2> HIDE DEF u, cmd
  <2> QED BY <2>1, <2>2 DEF Patch!Ask, PatchFields
<1>2. Len(t.jobs) \in Nat /\ Len(t.jobs) \in 1 .. Len(t.jobs)
  BY LenProperties
<1>3. c \in CallSet /\ c.cmd \in Ends /\ c.job = Len(t.jobs) /\ c.cmd # "register" /\ c.cmd # "complete" /\ c.cmd # "retry"
  BY <1>2 DEF CallSet, PatchCommands, Ends
<1>4. {"stage", "job"} \subseteq DOMAIN run /\ run.stage = "ending" /\ run.job = Len(t.jobs) /\ run # Patch!Idle
  <2>1. {"stage", "job"} \subseteq DOMAIN run /\ run.stage = "ending" /\ run.job = Len(t.jobs)
    OBVIOUS
  <2> HIDE DEF run
  <2> QED BY <2>1, PatchAtWork
<1> HIDE DEF c, run
<1>5. \A i \in 1 .. Len(t.calls) : ~Once(t.calls[i], c) /\ ~Once(c, t.calls[i])
  BY <1>3 DEF Once
<1>6. /\ calls \in Seq(CallSet) /\ Unique(calls)
      /\ \A i \in 1 .. Len(calls) : calls[i] = c \/ \E j \in 1 .. Len(t.calls) : calls[i] = t.calls[j]
  BY <1>3, <1>5, PatchAsk
<1> HIDE DEF calls
<1>7. /\ DOMAIN u = PatchFields /\ u.of = "tools" /\ u.jobs = t.jobs /\ u.late = t.late
      /\ u.cleanup = Patch!Nothing /\ u.run = run /\ u.calls = calls /\ u.reading = t.reading
      /\ u.told = t.told /\ u.output = 0
  BY <1>1 DEF PatchFields, Patch!None
<1> HIDE DEF u
<1>8. PatchRunGood(u)
  BY <1>2, <1>4, <1>7 DEF PatchRunGood
<1>9. QueueGood(u)
  <2> SUFFICES ASSUME NEW i \in 1 .. Len(calls) PROVE CallGood(u, calls[i])
    BY <1>6, <1>7 DEF QueueGood
  <2>1. CASE calls[i] = c
    BY <1>2, <1>3, <1>4, <1>7, <2>1 DEF CallGood
  <2>2. ASSUME NEW j \in 1 .. Len(t.calls), calls[i] = t.calls[j] PROVE CallGood(u, calls[i])
    BY <1>7, <2>2 DEF CallGood
  <2> QED BY <1>6, <2>1, <2>2
<1>10. Watched(u)
  BY <1>4, <1>7 DEF Watched
<1>11. ToldGood(u)
  BY <1>7 DEF ToldGood
<1> QED BY <1>2, <1>7, <1>8, <1>9, <1>10, <1>11, PatchGoodIs DEF PatchTyped, u

\* The page of the patches starts so.
LEMMA PatchStarts == ASSUME Patch!Init PROVE PatchGood(s)
<1>1. CASE s = Patch!StartArchive
  BY <1>1 DEF Patch!StartArchive, PatchGood
<1>2. CASE s = Patch!StartTools
  <2>1. /\ DOMAIN s = PatchFields /\ s.of = "tools" /\ s.jobs = <<>> /\ s.calls = <<>> /\ s.run = Patch!Idle
        /\ s.late = {} /\ s.cleanup = Patch!Nothing /\ s.told = "nothing" /\ s.output = 0
    BY <1>2 DEF Patch!StartTools, PatchFields, Patch!None
  <2>2. /\ s.jobs \in Seq(PatchJobSet) /\ Len(s.jobs) = 0
        /\ s.calls \in Seq(CallSet) /\ Len(s.calls) = 0
    BY <2>1, EmptySeq
  <2> QED BY <2>1, <2>2 DEF PatchGood, PatchTyped, PatchRunGood, QueueGood, Unique, Watched, ToldGood
<1> QED BY <1>1, <1>2 DEF Patch!Init

\* The steps of an archive are about the archive only.
LEMMA PatchArchiveSteps ==
  ASSUME s.of = "archive", "of" \in DOMAIN s,
         Patch!CreateStoredPatchCollection \/ Patch!JoinZipChunks \/ Patch!AbortArchive
  PROVE  s'.of = "archive" /\ "of" \in DOMAIN s'
BY DEF Patch!CreateStoredPatchCollection, Patch!JoinZipChunks, Patch!AbortArchive, Patch!Settle, Patch!WriteEntry

\* A run begins, after the one before it was left.
LEMMA PatchBegins ==
  ASSUME PatchGood(s), s.of = "tools", NEW tool, Patch!Run(tool) PROVE PatchGood(s)'
<1>1. /\ DOMAIN s = PatchFields /\ s.jobs \in Seq(PatchJobSet) /\ Len(s.jobs) \in Nat
      /\ PatchRunGood(s) /\ QueueGood(s) /\ Watched(s)
  BY PatchParts
<1> DEFINE n == Len(s.jobs)
           new == [status |-> "running", bytes |-> FALSE, claim |-> "none", exact |-> FALSE]
           run == [stage |-> "read", tool |-> tool, job |-> n + 1]
           jobs == Append(s.jobs, new)
<1>2. s.run = Patch!Idle /\ s.cleanup = Patch!Nothing
  BY DEF Patch!Run
<1>3. /\ DOMAIN s' = PatchFields /\ s'.of = "tools" /\ s'.jobs = jobs /\ s'.run = run /\ s'.cleanup = Patch!Nothing
      /\ s'.calls = s.calls /\ s'.late = s.late /\ s'.reading = s.reading \cup {n + 1} /\ s'.told = "nothing"
      /\ s'.output = s.output /\ s.output \in 0 .. n
  BY <1>1, <1>2, PatchParts DEF Patch!Run, PatchFields
<1>4. new \in PatchJobSet
  BY DEF PatchJobSet, PatchStates, PatchClaims
<1> HIDE DEF new
<1>5. /\ jobs \in Seq(PatchJobSet) /\ Len(jobs) = n + 1 /\ \A k \in 1 .. n : jobs[k] = s.jobs[k]
  BY <1>1, <1>4, AppendProperties
<1>6. {"stage", "job"} \subseteq DOMAIN run /\ run.stage = "read" /\ run.job = n + 1
  OBVIOUS
<1> HIDE DEF jobs, run
<1>7. run # Patch!Idle
  BY <1>6, PatchAtWork
<1>8. PatchRunGood(s')
  BY <1>1, <1>3, <1>5, <1>6 DEF PatchRunGood
<1>9. QueueGood(s')
  <2> SUFFICES ASSUME NEW i \in 1 .. Len(s.calls) PROVE CallGood(s', s.calls[i])
    BY <1>1, <1>3 DEF QueueGood
  <2>1. CallGood(s, s.calls[i])
    BY <1>1 DEF QueueGood
  <2> QED BY <1>1, <1>2, <1>3, <1>5, <2>1, PatchIdle DEF CallGood
<1>10. Watched(s')
  <2> SUFFICES ASSUME NEW k \in 1 .. n + 1, Undone(jobs[k]) PROVE k = n + 1
    BY <1>3, <1>5, <1>6, <1>7 DEF Watched
  <2>1. k \in 1 .. n => FALSE
    BY <1>1, <1>2, <1>5 DEF Watched
  <2> QED BY <1>1, <2>1
<1>11. ToldGood(s')
  BY <1>3 DEF ToldGood
<1> QED BY <1>1, <1>3, <1>5, <1>8, <1>9, <1>10, <1>11, PatchGoodIs DEF PatchTyped

\* A turn of the user changes nothing but its count.
LEMMA PatchSpend ==
  ASSUME DOMAIN s = PatchFields
  PROVE  LET t == Patch!Spend
         IN /\ DOMAIN t = PatchFields /\ t.of = s.of /\ t.calls = s.calls /\ t.reading = s.reading /\ t.run = s.run
            /\ t.late = s.late /\ t.cleanup = s.cleanup /\ t.output = s.output /\ t.exporting = s.exporting
            /\ t.told = s.told /\ t.jobs = s.jobs
BY DEF Patch!Spend, PatchFields

\* A step of one job that is not undone by it, with the run and the calls as they are.
LEMMA PatchJobStep ==
  ASSUME PatchGood(s), s.of = "tools", NEW t, DOMAIN t = PatchFields, t.of = s.of, t.calls = s.calls,
         t.reading = s.reading, t.run = s.run, t.late = s.late, t.cleanup = s.cleanup, t.told = s.told,
         t.output = s.output, t.jobs = s.jobs, NEW job, Elsewhere(t, s', job),
         job \in 1 .. Len(s.jobs) =>
           /\ ~Undone(s'.jobs[job])
           /\ s.jobs[job].status = "cancelled" => s'.jobs[job].status = "cancelled"
  PROVE  PatchGood(s)'
<1>1. QueueGood(s) /\ s.output \in 0 .. Len(s.jobs)
  BY PatchParts
<1>2. /\ s'.output = s.output /\ DOMAIN s' = PatchFields /\ s'.of = "tools" /\ s'.calls = s.calls /\ s'.reading = s.reading
      /\ s'.run = s.run /\ s'.late = s.late /\ s'.cleanup = s.cleanup /\ s'.told = s.told
      /\ s'.jobs \in Seq(PatchJobSet) /\ Len(s'.jobs) = Len(s.jobs)
      /\ \A k \in 1 .. Len(s.jobs) : k # job => s'.jobs[k] = s.jobs[k]
  BY DEF Elsewhere
<1>3. \A k \in 1 .. Len(s.jobs) : Undone(s'.jobs[k]) => Undone(s.jobs[k]) \/ WatchedBy(s, k)
  BY <1>2
<1>4. \A k \in 1 .. Len(s.jobs) : s.jobs[k].status = "cancelled" => s'.jobs[k].status = "cancelled"
  BY <1>2
<1> QED BY <1>1, <1>2, <1>3, <1>4, PatchKeeps DEF QueueGood

\* Reading the inputs, saving, giving up an output and asking again.
LEMMA PatchPlainSteps ==
  ASSUME PatchGood(s), s.of = "tools",
         \/ Patch!InputsAreRead \/ Patch!ReadEnds \/ Patch!Reconcile \/ Patch!RetryNativeCancellation
         \/ Patch!SaveNativeOutput \/ Patch!CancelNativeOutput
  PROVE  PatchGood(s)'
<1>1. /\ DOMAIN s = PatchFields /\ s.jobs \in Seq(PatchJobSet) /\ Len(s.jobs) \in Nat
      /\ DOMAIN s.jobs = 1 .. Len(s.jobs)
      /\ PatchRunGood(s) /\ QueueGood(s) /\ Watched(s) /\ ToldGood(s)
      /\ s.output \in 0 .. Len(s.jobs)
  BY PatchParts
<1> DEFINE t == Patch!Spend
<1>2. /\ DOMAIN t = PatchFields /\ t.of = s.of /\ t.calls = s.calls /\ t.reading = s.reading /\ t.run = s.run
      /\ t.late = s.late /\ t.cleanup = s.cleanup /\ t.output = s.output /\ t.exporting = s.exporting
      /\ t.told = s.told /\ t.jobs = s.jobs
  BY <1>1, PatchSpend
<1>3. CASE Patch!InputsAreRead
  <2> DEFINE run == [s.run EXCEPT !.stage = "compute"]
  <2>1. s.run.stage = "read" /\ s.run.job \notin s.reading /\ s' = [s EXCEPT !.run = run]
    BY <1>3 DEF Patch!InputsAreRead
  <2>2. s.run # Patch!Idle
    BY <2>1, PatchIdle
  <2>3. {"stage", "job"} \subseteq DOMAIN run /\ run.stage = "compute" /\ run.job = s.run.job
    BY <1>1, <2>2 DEF PatchRunGood
  <2> HIDE DEF run
  <2>4. run # Patch!Idle
    BY <2>3, PatchAtWork
  <2>5. /\ DOMAIN s' = PatchFields /\ s'.of = "tools" /\ s'.calls = s.calls /\ s'.reading = s.reading
        /\ s'.run = run /\ s'.late = s.late /\ s'.cleanup = s.cleanup /\ s'.told = s.told
        /\ s'.jobs = s.jobs /\ s'.output = s.output
    BY <1>1, <2>1 DEF PatchFields
  <2>6. PatchRunGood(s')
    BY <1>1, <2>1, <2>2, <2>3, <2>5 DEF PatchRunGood
  <2>7. QueueGood(s')
    BY <1>1, <2>1, <2>3, <2>5 DEF QueueGood, CallGood
  <2>8. Watched(s') /\ ToldGood(s')
    BY <1>1, <2>2, <2>3, <2>4, <2>5 DEF Watched, ToldGood
  <2> QED BY <1>1, <2>5, <2>6, <2>7, <2>8, PatchGoodIs DEF PatchTyped
<1>4. CASE Patch!ReadEnds
  <2>1. PICK job : s' = [s EXCEPT !.reading = @ \ {job}]
    BY <1>4 DEF Patch!ReadEnds
  <2>2. /\ DOMAIN s' = PatchFields /\ s'.of = "tools" /\ s'.calls = s.calls /\ s'.reading \subseteq s.reading
        /\ s'.run = s.run /\ s'.late = s.late /\ s'.cleanup = s.cleanup /\ s'.told = s.told
        /\ s'.jobs = s.jobs /\ s'.output = s.output
    BY <1>1, <2>1 DEF PatchFields
  <2> QED BY <1>1, <2>2, PatchKeeps DEF QueueGood
<1>5. CASE Patch!Reconcile
  <2> HIDE DEF t
  <2>1. \/ \E job \in 1 .. Len(s.jobs) :
             /\ s.jobs[job].status \in Patch!Held
             /\ s' = [t EXCEPT !.jobs[job].status = "expired", !.jobs[job].bytes = FALSE]
        \/ \E job \in 1 .. Len(s.jobs) :
             /\ s.jobs[job].status = "stopping" /\ s' = [t EXCEPT !.jobs[job].status = "cancelled"]
    BY <1>1, <1>5 DEF Patch!Reconcile, t
  <2>2. ASSUME NEW job \in 1 .. Len(s.jobs), s.jobs[job].status \in Patch!Held,
               s' = [t EXCEPT !.jobs[job].status = "expired", !.jobs[job].bytes = FALSE]
        PROVE  PatchGood(s)'
    <3> DEFINE old == t.jobs[job]
               new == [old EXCEPT !.status = "expired", !.bytes = FALSE]
               v == [t EXCEPT !.jobs = [t.jobs EXCEPT ![job] = new]]
    <3>1. old \in PatchJobSet /\ job \in DOMAIN t.jobs
      BY <1>1, <1>2, ElementOfSeq
    <3>2. new \in PatchJobSet /\ new.status = "expired"
      BY <3>1 DEF PatchJobSet, PatchStates
    <3>3. s' = v
      BY <1>2, <2>2, <3>1 DEF PatchFields
    <3> HIDE DEF new
    <3>4. Elsewhere(t, v, job) /\ v.jobs[job] = new
      BY <1>1, <1>2, <3>2, PatchNewJob
    <3> HIDE DEF v
    <3>5. ~Undone(s'.jobs[job]) /\ s.jobs[job].status # "cancelled"
      BY <2>2, <3>2, <3>3, <3>4 DEF Undone, Patch!Held
    <3> QED BY <1>2, <3>3, <3>4, <3>5, PatchJobStep
  <2>3. ASSUME NEW job \in 1 .. Len(s.jobs), s.jobs[job].status = "stopping",
               s' = [t EXCEPT !.jobs[job].status = "cancelled"]
        PROVE  PatchGood(s)'
    <3>1. Elsewhere(t, s', job) /\ s'.jobs[job].status = "cancelled"
      <4>1. "cancelled" \in PatchStates
        BY DEF PatchStates
      <4> QED BY <1>1, <1>2, <2>3, <4>1, PatchStatus
    <3>2. ~Undone(s'.jobs[job])
      BY <3>1 DEF Undone
    <3> QED BY <1>2, <3>1, <3>2, PatchJobStep
  <2> QED BY <2>1, <2>2, <2>3
<1>6. ASSUME NEW cmd, NEW job, NEW u, DOMAIN u = PatchFields, u.of = s.of, u.calls = s.calls,
             u.reading = s.reading, u.run = s.run, u.late = s.late, u.cleanup = s.cleanup, u.told = s.told,
             u.jobs = s.jobs, u.output = s.output, s' = Patch!Ask(u, cmd, job), job \in 1 .. Len(s.jobs),
             \/ cmd \in {"give_up", "export"}
             \/ /\ cmd = "retry" /\ \A i \in DOMAIN s.calls : s.calls[i].cmd # "retry"
                /\ s.cleanup # Patch!Nothing /\ s.cleanup.job = job
      PROVE  PatchGood(s)'
  <2> DEFINE c == [cmd |-> cmd, job |-> job]
             more == Append(s.calls, c)
  <2>1. c.cmd = cmd /\ c.job = job /\ c \in CallSet
    BY <1>1, <1>6 DEF CallSet, PatchCommands
  <2>2. s' = [u EXCEPT !.calls = more]
    BY <1>6 DEF Patch!Ask, PatchFields
  <2> HIDE DEF c
  <2>3. CallGood(s, c)
    BY <1>6, <2>1 DEF CallGood, Ends
  <2>4. more \in Seq(CallSet) /\ Unique(more) /\ \A i \in 1 .. Len(more) : CallGood(s, more[i])
    BY <1>6, <2>1, <2>3, PatchAsking
  <2> HIDE DEF more
  <2>5. /\ DOMAIN s' = PatchFields /\ s'.of = "tools" /\ s'.calls = more /\ s'.reading = s.reading
        /\ s'.run = s.run /\ s'.late = s.late /\ s'.cleanup = s.cleanup /\ s'.told = s.told
        /\ s'.jobs = s.jobs /\ s'.output = s.output
    BY <1>6, <2>2 DEF PatchFields
  <2> QED BY <1>1, <2>4, <2>5, PatchKeeps
<1>7. CASE Patch!RetryNativeCancellation
  <2>1. /\ s.cleanup # Patch!Nothing /\ (\A i \in DOMAIN s.calls : s.calls[i].cmd # "retry")
        /\ s' = Patch!Ask(t, "retry", s.cleanup.job)
    BY <1>7 DEF Patch!RetryNativeCancellation
  <2>2. s.cleanup.job \in 1 .. Len(s.jobs)
    BY <1>1, <2>1 DEF PatchRunGood
  <2> HIDE DEF t
  <2> QED BY <1>2, <1>6, <2>1, <2>2
<1>8. CASE Patch!SaveNativeOutput
  <2> DEFINE u == [t EXCEPT !.exporting = s.output]
  <2>1. s.output # 0 /\ s' = Patch!Ask(u, "export", s.output)
    BY <1>8 DEF Patch!SaveNativeOutput, Patch!None
  <2> HIDE DEF t
  <2>2. /\ DOMAIN u = PatchFields /\ u.of = s.of /\ u.calls = s.calls
        /\ u.reading = s.reading /\ u.run = s.run /\ u.late = s.late /\ u.cleanup = s.cleanup
        /\ u.told = s.told /\ u.jobs = s.jobs /\ u.output = s.output
    BY <1>2 DEF PatchFields
  <2> HIDE DEF u
  <2>3. s.output \in 1 .. Len(s.jobs)
    BY <1>1, <2>1
  <2> QED BY <1>6, <2>1, <2>2, <2>3
<1>9. CASE Patch!CancelNativeOutput
  <2>1. s.output # 0 /\ s' = Patch!Ask(t, "give_up", s.output)
    BY <1>9 DEF Patch!CancelNativeOutput, Patch!None
  <2> HIDE DEF t
  <2>2. s.output \in 1 .. Len(s.jobs)
    BY <1>1, <2>1
  <2> QED BY <1>2, <1>6, <2>1, <2>2
<1> QED BY <1>3, <1>4, <1>5, <1>7, <1>8, <1>9

\* The copy that was begun ends.
LEMMA PatchExports == ASSUME PatchGood(s), s.of = "tools", Patch!CompleteOutputExport PROVE PatchGood(s)'
<1>1. /\ DOMAIN s = PatchFields /\ s.jobs \in Seq(PatchJobSet) /\ Len(s.jobs) \in Nat
      /\ DOMAIN s.jobs = 1 .. Len(s.jobs)
      /\ PatchRunGood(s) /\ QueueGood(s) /\ Watched(s) /\ ToldGood(s)
      /\ s.output \in 0 .. Len(s.jobs)
  BY PatchParts
<1> DEFINE job == s.exporting
           old == s.jobs[job]
<1>2. PICK ok \in BOOLEAN :
        s' = [s EXCEPT !.exporting = Patch!None, !.output = IF ok /\ @ = job THEN Patch!None ELSE @,
                       !.jobs[job].status = IF @ # "exporting" THEN @ ELSE IF ok THEN "completed" ELSE "output_ready",
                       !.jobs[job].bytes = @ /\ ~ok]
  BY DEF Patch!CompleteOutputExport
<1> DEFINE status == IF old.status # "exporting" THEN old.status ELSE IF ok THEN "completed" ELSE "output_ready"
           bytes == old.bytes /\ ~ok
           output == IF ok /\ s.output = job THEN 0 ELSE s.output
           new == [old EXCEPT !.status = status, !.bytes = bytes]
           jobs == [s.jobs EXCEPT ![job] = new]
<1>3. job \in 1 .. Len(s.jobs) => old \in PatchJobSet
  BY <1>1, ElementOfSeq
<1>4. job \in 1 .. Len(s.jobs) =>
        /\ new \in PatchJobSet
        /\ new.status = old.status \/ (old.status = "exporting" /\ new.status \in {"completed", "output_ready"})
  BY <1>3 DEF PatchJobSet, PatchStates
<1> DEFINE a == [s.jobs EXCEPT ![job].status = status]
           b == [a EXCEPT ![job].bytes = bytes]
<1>5. s' = [s EXCEPT !.exporting = Patch!None, !.output = output, !.jobs = jobs]
  <2>1. s' = [s EXCEPT !.exporting = Patch!None, !.output = output, !.jobs = b]
    <3> DEFINE p == [s EXCEPT !.exporting = Patch!None]
               q == [p EXCEPT !.output = output]
               r == [q EXCEPT !.jobs[job].status = status]
               v == [r EXCEPT !.jobs[job].bytes = bytes]
    <3>1. s' = v
      BY <1>2 DEF Patch!None
    <3>2. DOMAIN p = PatchFields /\ p.output = s.output /\ p.jobs = s.jobs
      BY <1>1 DEF PatchFields
    <3>4. DOMAIN q = PatchFields /\ q.jobs = s.jobs
      BY <3>2 DEF PatchFields
    <3>5. r = [q EXCEPT !.jobs = a]
      BY <3>4
    <3>6. DOMAIN r = PatchFields /\ r.jobs = a
      BY <3>4, <3>5 DEF PatchFields
    <3> HIDE DEF r, a
    <3>7. v = [r EXCEPT !.jobs = b]
      BY <3>6
    <3> HIDE DEF v, b
    <3> QED BY <1>1, <3>1, <3>5, <3>7 DEF PatchFields
  <2>2. b = jobs
    <3>1. CASE job \in DOMAIN s.jobs
      <4>2. DOMAIN a = DOMAIN s.jobs /\ a[job] = [old EXCEPT !.status = status]
        BY <3>1
      <4> QED BY <3>1, <4>2
    <3>2. CASE job \notin DOMAIN s.jobs
      <4>1. a = s.jobs /\ jobs = s.jobs
        BY <1>1, <3>2
      <4>2. \A y : [a EXCEPT ![job] = y] = a
        BY <1>1, <3>2, <4>1
      <4> QED BY <4>1, <4>2
    <3> QED BY <3>1, <3>2
  <2> QED BY <2>1, <2>2
<1>6. output \in 0 .. Len(s.jobs)
  BY <1>1
<1> HIDE DEF new, output
<1>7. /\ jobs \in Seq(PatchJobSet) /\ Len(jobs) = Len(s.jobs)
      /\ \A k \in 1 .. Len(s.jobs) : jobs[k] = IF k = job THEN new ELSE s.jobs[k]
  BY <1>1, <1>4, PatchJobChanged
<1> HIDE DEF jobs
<1>8. /\ DOMAIN s' = PatchFields /\ s'.of = "tools" /\ s'.calls = s.calls /\ s'.reading = s.reading
      /\ s'.run = s.run /\ s'.late = s.late /\ s'.cleanup = s.cleanup /\ s'.told = s.told
      /\ s'.jobs = jobs /\ s'.output = output
  BY <1>1, <1>5 DEF PatchFields
<1>9. \A k \in 1 .. Len(s.jobs) :
        /\ Undone(jobs[k]) => Undone(s.jobs[k])
        /\ s.jobs[k].status = "cancelled" => jobs[k].status = "cancelled"
  BY <1>4, <1>7 DEF Undone
<1> QED BY <1>1, <1>6, <1>7, <1>8, <1>9, PatchKeeps DEF QueueGood

\* A run that ends with its job watched keeps the invariant.
LEMMA PatchStage ==
  ASSUME PatchGood(s), s.of = "tools", s.run # Patch!Idle, s.run.stage # "ending", NEW v,
         DOMAIN v = PatchFields, v.of = "tools", v.jobs = s.jobs, s.late \subseteq v.late,
         v.late \subseteq 1 .. Len(s.jobs), s.run.stage = "register" => s.run.job \in v.late,
         v.cleanup = s.cleanup, v.run = s.run, v.calls = s.calls, v.reading = s.reading,
         v.told = s.told \/ v.told # "cancelled", NEW why, s' = Patch!EndRun(v, why)
  PROVE  PatchGood(s)'
<1>1. /\ DOMAIN s = PatchFields /\ s.jobs \in Seq(PatchJobSet) /\ Len(s.jobs) \in Nat
      /\ PatchRunGood(s) /\ QueueGood(s) /\ Watched(s) /\ ToldGood(s)
  BY PatchParts
<1>2. s.run.job = Len(s.jobs) /\ Len(s.jobs) # 0 /\ s.cleanup = Patch!Nothing
  BY <1>1 DEF PatchRunGood
<1>3. \A i \in 1 .. Len(v.calls) :
        /\ v.calls[i].job \in 1 .. Len(v.jobs) /\ v.calls[i].cmd \notin Ends /\ v.calls[i].cmd # "retry"
        /\ v.calls[i].cmd = "register" => v.calls[i].job \in v.late
        /\ v.calls[i].cmd = "complete" => v.calls[i].job \notin v.reading
  BY <1>1, <1>2 DEF QueueGood, CallGood
<1>4. \A k \in 1 .. Len(v.jobs) : Undone(v.jobs[k]) => k = Len(v.jobs)
  BY <1>1, <1>2 DEF Watched
<1>5. ToldGood(v)
  BY <1>1 DEF ToldGood
<1>6. v.calls \in Seq(CallSet) /\ Unique(v.calls)
  BY <1>1 DEF QueueGood
<1>7. PatchGood(Patch!EndRun(v, why))
  BY <1>1, <1>2, <1>3, <1>4, <1>5, <1>6, PatchEnding
<1> QED BY <1>7

\* A run is aborted at the stage it reached.
LEMMA PatchAborts == ASSUME PatchGood(s), s.of = "tools", NEW why, Patch!Abort(why) PROVE PatchGood(s)'
<1>1. /\ DOMAIN s = PatchFields /\ s.jobs \in Seq(PatchJobSet) /\ Len(s.jobs) \in Nat /\ PatchRunGood(s)
  BY PatchParts
<1> DEFINE t == Patch!Spend
           more == IF s.run.stage = "register" THEN {s.run.job} ELSE {}
           late == s.late \cup more
           v == [t EXCEPT !.late = @ \cup more, !.told = "nothing", !.plan = Patch!NoPlan]
<1>2. s.run.stage \in {"read", "compute", "register", "complete"} /\ s' = Patch!EndRun(v, why)
  BY DEF Patch!Abort
<1>3. s.run # Patch!Idle /\ s.run.stage # "ending"
  BY <1>2, PatchIdle
<1>4. /\ DOMAIN t = PatchFields /\ t.of = s.of /\ t.calls = s.calls /\ t.reading = s.reading /\ t.run = s.run
      /\ t.late = s.late /\ t.cleanup = s.cleanup /\ t.jobs = s.jobs
  BY <1>1, PatchSpend
<1>5. late \subseteq 1 .. Len(s.jobs) /\ (s.run.stage = "register" => s.run.job \in late)
  BY <1>1, <1>3 DEF PatchRunGood
<1> HIDE DEF t, more
<1>6. /\ DOMAIN v = PatchFields /\ v.of = "tools" /\ v.jobs = s.jobs /\ v.late = late
      /\ v.cleanup = s.cleanup /\ v.run = s.run /\ v.calls = s.calls /\ v.reading = s.reading
      /\ v.told = "nothing"
  BY <1>4 DEF PatchFields
<1> HIDE DEF v
<1>7. s.late \subseteq late
  OBVIOUS
<1> HIDE DEF late
<1> QED BY <1>2, <1>3, <1>5, <1>6, <1>7, PatchStage

\* What was computed is registered, or the job is completed.
LEMMA PatchGoesOn ==
  ASSUME PatchGood(s), s.of = "tools", s.run.stage = "compute", NEW v,
         DOMAIN v = PatchFields, v.of = "tools", v.jobs \in Seq(PatchJobSet), Len(v.jobs) = Len(s.jobs),
         \A k \in 1 .. Len(s.jobs) : v.jobs[k].status = s.jobs[k].status, v.late = s.late,
         v.cleanup = s.cleanup, v.run = s.run, v.calls = s.calls, v.reading = s.reading, v.output = s.output,
         v.told = s.told \/ v.told # "cancelled", NEW stage, stage \in {"register", "complete"},
         s' = Patch!Ask([v EXCEPT !.run.stage = stage], stage, s.run.job)
  PROVE  PatchGood(s)'
<1>1. /\ DOMAIN s = PatchFields /\ s.jobs \in Seq(PatchJobSet) /\ Len(s.jobs) \in Nat
      /\ PatchRunGood(s) /\ QueueGood(s) /\ Watched(s) /\ ToldGood(s) /\ s.output \in 0 .. Len(s.jobs)
  BY PatchParts
<1>2. s.run # Patch!Idle
  BY PatchIdle
<1>3. /\ s.run.job = Len(s.jobs) /\ Len(s.jobs) # 0 /\ s.cleanup = Patch!Nothing
      /\ {"stage", "job"} \subseteq DOMAIN s.run /\ s.run.job \notin s.late /\ s.run.job \notin s.reading
  BY <1>1, <1>2 DEF PatchRunGood
<1> DEFINE run == [s.run EXCEPT !.stage = stage]
           c == [cmd |-> stage, job |-> s.run.job]
           calls == Append(s.calls, c)
<1>4. s' = [v EXCEPT !.run = run, !.calls = calls]
  BY DEF Patch!Ask, PatchFields
<1>5. {"stage", "job"} \subseteq DOMAIN run /\ run.stage = stage /\ run.job = s.run.job
  BY <1>3
<1> HIDE DEF run
<1>6. run # Patch!Idle
  BY <1>5, PatchAtWork
<1>7. c \in CallSet /\ c.cmd = stage /\ c.job = s.run.job
  BY <1>1, <1>3 DEF CallSet, PatchCommands
<1> HIDE DEF c
<1>8. \A i \in 1 .. Len(s.calls) : CallGood(s, s.calls[i]) /\ ~Once(s.calls[i], c) /\ ~Once(c, s.calls[i])
  BY <1>1, <1>3, <1>7 DEF QueueGood, CallGood, Once, Ends
<1>9. /\ calls \in Seq(CallSet) /\ Unique(calls)
      /\ \A i \in 1 .. Len(calls) : calls[i] = c \/ \E j \in 1 .. Len(s.calls) : calls[i] = s.calls[j]
  BY <1>1, <1>7, <1>8, PatchAsk DEF QueueGood
<1> HIDE DEF calls
<1>10. /\ DOMAIN s' = PatchFields /\ s'.of = "tools" /\ s'.jobs = v.jobs /\ s'.run = run /\ s'.late = s.late
       /\ s'.cleanup = s.cleanup /\ s'.calls = calls /\ s'.reading = s.reading /\ s'.output = s.output
       /\ s'.told = v.told
  BY <1>4 DEF PatchFields
<1>11. PatchRunGood(s')
  BY <1>1, <1>3, <1>5, <1>10 DEF PatchRunGood
<1>12. QueueGood(s')
  <2> SUFFICES ASSUME NEW i \in 1 .. Len(calls) PROVE CallGood(s', calls[i])
    BY <1>9, <1>10 DEF QueueGood
  <2>1. CASE calls[i] = c
    BY <1>1, <1>3, <1>5, <1>7, <1>10, <2>1 DEF CallGood, Ends
  <2>2. ASSUME NEW j \in 1 .. Len(s.calls), calls[i] = s.calls[j] PROVE CallGood(s', calls[i])
    BY <1>5, <1>8, <1>10, <2>2 DEF CallGood
  <2> QED BY <1>9, <2>1, <2>2
<1>13. Watched(s')
  BY <1>1, <1>3, <1>5, <1>6, <1>10 DEF Watched, Undone
<1>14. ToldGood(s')
  BY <1>1, <1>10 DEF ToldGood
<1> QED BY <1>1, <1>10, <1>11, <1>12, <1>13, <1>14, PatchGoodIs DEF PatchTyped

\* What the algorithms return is one of the claims.
LEMMA PatchVerified ==
  ASSUME NEW trial, NEW expected \in BOOLEAN, NEW generated \in BOOLEAN
  PROVE  /\ Patch!ApplyPatchAndVerify(trial, expected) \in PatchClaims
         /\ Patch!GenerateVerifiedPatch(generated, trial) \in PatchClaims
         /\ Patch!Manifest(trial) \in PatchClaims
BY DEF Patch!ApplyPatchAndVerify, Patch!GenerateVerifiedPatch, Patch!Manifest, PatchClaims

\* Making a claim changes no status.
LEMMA PatchClaiming ==
  ASSUME PatchGood(s), s.of = "tools", s.run.stage = "compute", NEW claim \in PatchClaims, NEW same \in BOOLEAN
  PROVE  LET v == Patch!Claiming(s, claim, same)
         IN /\ Elsewhere(s, v, s.run.job)
            /\ \A k \in 1 .. Len(s.jobs) : v.jobs[k].status = s.jobs[k].status
<1>1. /\ DOMAIN s = PatchFields /\ s.jobs \in Seq(PatchJobSet) /\ Len(s.jobs) \in Nat /\ PatchRunGood(s)
  BY PatchParts
<1>2. s.run # Patch!Idle
  BY PatchIdle
<1>3. s.run.job \in 1 .. Len(s.jobs)
  BY <1>1, <1>2 DEF PatchRunGood
<1> DEFINE job == s.run.job
           old == s.jobs[job]
           new == [old EXCEPT !.claim = claim, !.exact = same]
           u == Patch!Claiming(s, claim, same)
           v == [s EXCEPT !.jobs = [s.jobs EXCEPT ![job] = new]]
<1>4. old \in PatchJobSet /\ job \in DOMAIN s.jobs
  BY <1>1, <1>3, ElementOfSeq, LenProperties
<1>5. new \in PatchJobSet /\ new.status = old.status
  BY <1>4 DEF PatchJobSet
<1>6. u = v
  BY <1>1, <1>4 DEF Patch!Claiming, PatchFields
<1> HIDE DEF new, u
<1>7. Elsewhere(s, v, job) /\ v.jobs[job] = new
  BY <1>1, <1>3, <1>5, PatchNewJob
<1> HIDE DEF v
<1>8. \A k \in 1 .. Len(s.jobs) : v.jobs[k].status = s.jobs[k].status
  BY <1>5, <1>7 DEF Elsewhere
<1> QED BY <1>6, <1>7, <1>8 DEF u

\* The computation ends with a result, a failure or neither.
LEMMA PatchComputes == ASSUME PatchGood(s), s.of = "tools", Patch!Compute PROVE PatchGood(s)'
<1>1. /\ DOMAIN s = PatchFields /\ s.jobs \in Seq(PatchJobSet) /\ Len(s.jobs) \in Nat /\ PatchRunGood(s)
  BY PatchParts
<1>2. s.run.stage = "compute" /\ s.run # Patch!Idle
  BY PatchIdle DEF Patch!Compute
<1> DEFINE Claimed(v) ==
      \E claim \in PatchClaims, same \in BOOLEAN : \E plan :
        \/ v = Patch!Claiming(s, claim, same)
        \/ v = [Patch!Claiming(s, claim, same) EXCEPT !.told = "result"]
        \/ v = [Patch!Claiming(s, claim, same) EXCEPT !.plan = plan, !.told = "result"]
<1>3. \/ s' = Patch!EndRun(s, "failed")
      \/ \E v : Claimed(v) /\ s' = Patch!Registering(v)
      \/ s' = Patch!Ask([s EXCEPT !.run.stage = "complete", !.told = "result"], "complete", s.run.job)
  <2>1. \/ s' = Patch!EndRun(s, "failed")
        \/ \E generated \in BOOLEAN, trial \in Patch!Trials :
             LET claim == Patch!GenerateVerifiedPatch(generated, trial)
             IN s' = IF claim = "failed" THEN Patch!EndRun(s, "failed")
                     ELSE Patch!Registering(Patch!Claiming(s, claim, trial.same))
        \/ \E trial \in Patch!Trials, expected, confirmed \in BOOLEAN :
             LET claim == Patch!ApplyPatchAndVerify(trial, expected)
             IN s' = IF claim = "verified" \/ (claim = "unverified" /\ confirmed)
                     THEN Patch!Registering([Patch!Claiming(s, claim, trial.same) EXCEPT !.told = "result"])
                     ELSE Patch!EndRun(s, "failed")
        \/ \E trial \in Patch!Trials :
             s' = Patch!Registering([Patch!Claiming(s, Patch!Manifest(trial), trial.same) EXCEPT !.told = "result"])
        \/ \E plan :
             \/ s' = Patch!Registering([Patch!Claiming(s, "verified", TRUE) EXCEPT !.plan = plan, !.told = "result"])
             \/ s' = Patch!EndRun(s, "failed")
        \/ s' = Patch!Ask([s EXCEPT !.run.stage = "complete", !.told = "result"], "complete", s.run.job)
    BY DEF Patch!Compute
  <2>2. \A trial \in Patch!Trials : trial.same \in BOOLEAN
    BY DEF Patch!Trials
  <2>3. "verified" \in PatchClaims /\ TRUE \in BOOLEAN
    BY DEF PatchClaims
  <2>4. CASE \E generated \in BOOLEAN, trial \in Patch!Trials :
               LET claim == Patch!GenerateVerifiedPatch(generated, trial)
               IN s' = IF claim = "failed" THEN Patch!EndRun(s, "failed")
                       ELSE Patch!Registering(Patch!Claiming(s, claim, trial.same))
    <3>1. PICK generated \in BOOLEAN, trial \in Patch!Trials :
            \/ s' = Patch!EndRun(s, "failed")
            \/ s' = Patch!Registering(Patch!Claiming(s, Patch!GenerateVerifiedPatch(generated, trial), trial.same))
      BY <2>4
    <3>2. Patch!GenerateVerifiedPatch(generated, trial) \in PatchClaims
      BY PatchVerified
    <3>3. Claimed(Patch!Claiming(s, Patch!GenerateVerifiedPatch(generated, trial), trial.same))
      BY <2>2, <3>2
    <3> HIDE DEF Claimed
    <3> QED BY <3>1, <3>3
  <2>5. CASE \E trial \in Patch!Trials, expected, confirmed \in BOOLEAN :
               LET claim == Patch!ApplyPatchAndVerify(trial, expected)
               IN s' = IF claim = "verified" \/ (claim = "unverified" /\ confirmed)
                       THEN Patch!Registering([Patch!Claiming(s, claim, trial.same) EXCEPT !.told = "result"])
                       ELSE Patch!EndRun(s, "failed")
    <3>1. PICK expected \in BOOLEAN, trial \in Patch!Trials :
            \/ s' = Patch!EndRun(s, "failed")
            \/ s' = Patch!Registering([Patch!Claiming(s, Patch!ApplyPatchAndVerify(trial, expected), trial.same)
                                         EXCEPT !.told = "result"])
      BY <2>5
    <3>2. Patch!ApplyPatchAndVerify(trial, expected) \in PatchClaims
      BY PatchVerified
    <3>3. Claimed([Patch!Claiming(s, Patch!ApplyPatchAndVerify(trial, expected), trial.same) EXCEPT !.told = "result"])
      BY <2>2, <3>2
    <3> HIDE DEF Claimed
    <3> QED BY <3>1, <3>3
  <2>6. CASE \E trial \in Patch!Trials :
               s' = Patch!Registering([Patch!Claiming(s, Patch!Manifest(trial), trial.same) EXCEPT !.told = "result"])
    <3>1. PICK trial \in Patch!Trials :
            s' = Patch!Registering([Patch!Claiming(s, Patch!Manifest(trial), trial.same) EXCEPT !.told = "result"])
      BY <2>6
    <3>2. Patch!Manifest(trial) \in PatchClaims
      BY PatchVerified
    <3>3. Claimed([Patch!Claiming(s, Patch!Manifest(trial), trial.same) EXCEPT !.told = "result"])
      BY <2>2, <3>2
    <3> HIDE DEF Claimed
    <3> QED BY <3>1, <3>3
  <2>7. CASE \E plan :
               \/ s' = Patch!Registering([Patch!Claiming(s, "verified", TRUE) EXCEPT !.plan = plan, !.told = "result"])
               \/ s' = Patch!EndRun(s, "failed")
    <3>1. PICK plan :
            \/ s' = Patch!EndRun(s, "failed")
            \/ s' = Patch!Registering([Patch!Claiming(s, "verified", TRUE) EXCEPT !.plan = plan, !.told = "result"])
      BY <2>7
    <3>2. Claimed([Patch!Claiming(s, "verified", TRUE) EXCEPT !.plan = plan, !.told = "result"])
      BY <2>3
    <3> HIDE DEF Claimed
    <3> QED BY <3>1, <3>2
  <2> HIDE DEF Claimed
  <2> QED BY <2>1, <2>4, <2>5, <2>6, <2>7
<1>4. CASE s' = Patch!EndRun(s, "failed")
  BY <1>1, <1>2, <1>4, PatchStage DEF PatchRunGood
<1>5. CASE \E v : Claimed(v) /\ s' = Patch!Registering(v)
  <2>1. PICK v : Claimed(v) /\ s' = Patch!Registering(v)
    BY <1>5
  <2>2. PICK claim \in PatchClaims, same \in BOOLEAN : \E plan :
          \/ v = Patch!Claiming(s, claim, same)
          \/ v = [Patch!Claiming(s, claim, same) EXCEPT !.told = "result"]
          \/ v = [Patch!Claiming(s, claim, same) EXCEPT !.plan = plan, !.told = "result"]
    BY <2>1
  <2> DEFINE w == Patch!Claiming(s, claim, same)
  <2>3. /\ Elsewhere(s, w, s.run.job)
        /\ \A k \in 1 .. Len(s.jobs) : w.jobs[k].status = s.jobs[k].status
    BY <1>2, PatchClaiming
  <2> HIDE DEF w, Claimed
  <2>4. /\ DOMAIN v = PatchFields /\ v.of = "tools" /\ v.jobs = w.jobs /\ v.late = s.late
        /\ v.cleanup = s.cleanup /\ v.run = s.run /\ v.calls = s.calls /\ v.reading = s.reading
        /\ v.output = s.output /\ (v.told = s.told \/ v.told # "cancelled")
    BY <2>2, <2>3 DEF w, Elsewhere, PatchFields
  <2>5. s' = Patch!Ask([v EXCEPT !.run.stage = "register"], "register", s.run.job)
    BY <2>1, <2>4 DEF Patch!Registering
  <2> QED BY <1>2, <2>3, <2>4, <2>5, PatchGoesOn DEF Elsewhere
<1>6. CASE s' = Patch!Ask([s EXCEPT !.run.stage = "complete", !.told = "result"], "complete", s.run.job)
  <2> DEFINE v == [s EXCEPT !.told = "result"]
  <2>1. s' = Patch!Ask([v EXCEPT !.run.stage = "complete"], "complete", s.run.job)
    <3>1. [s EXCEPT !.run.stage = "complete", !.told = "result"] = [v EXCEPT !.run.stage = "complete"]
      BY <1>1 DEF PatchFields
    <3> QED BY <1>6, <3>1
  <2>2. /\ DOMAIN v = PatchFields /\ v.of = "tools" /\ v.jobs = s.jobs /\ v.late = s.late
        /\ v.cleanup = s.cleanup /\ v.run = s.run /\ v.calls = s.calls /\ v.reading = s.reading
        /\ v.output = s.output /\ v.told # "cancelled"
    BY <1>1 DEF PatchFields
  <2> HIDE DEF v
  <2> QED BY <1>1, <1>2, <2>1, <2>2, PatchGoesOn
<1> HIDE DEF Claimed
<1> QED BY <1>3, <1>4, <1>5, <1>6

\* The first call is taken, and the others go on waiting.
Served(t, c) ==
  /\ DOMAIN t = PatchFields /\ t.of = "tools" /\ t.jobs = s.jobs /\ t.reading = s.reading /\ t.run = s.run
  /\ t.late = s.late /\ t.cleanup = s.cleanup /\ t.output = s.output /\ t.exporting = s.exporting
  /\ t.told = s.told /\ t.calls \in Seq(CallSet) /\ Unique(t.calls) /\ c \in CallSet /\ CallGood(s, c)
  /\ \A i \in 1 .. Len(t.calls) : CallGood(s, t.calls[i]) /\ ~Once(c, t.calls[i])

\* The first call is taken, and the others go on waiting.
LEMMA PatchServed ==
  ASSUME PatchGood(s), s.of = "tools", s.calls # <<>>
  PROVE  Served([s EXCEPT !.calls = Tail(@)], Head(s.calls))
<1>1. DOMAIN s = PatchFields /\ QueueGood(s)
  BY PatchParts
<1> DEFINE c == Head(s.calls)
           rest == Tail(s.calls)
           t == [s EXCEPT !.calls = rest]
<1>2. /\ c \in CallSet /\ CallGood(s, c) /\ rest \in Seq(CallSet) /\ Unique(rest)
      /\ \A i \in 1 .. Len(rest) : CallGood(s, rest[i]) /\ ~Once(c, rest[i])
  BY <1>1, PatchHead
<1> HIDE DEF c, rest
<1>3. Served(t, c)
  BY <1>1, <1>2 DEF Served, PatchFields
<1> QED BY <1>3 DEF c, rest

\* A call that leaves the run as it is.
LEMMA PatchServedPlain ==
  ASSUME PatchGood(s), s.of = "tools", NEW t, NEW c, Served(t, c), NEW w, Elsewhere(t, w, c.job),
         Undone(w.jobs[c.job]) => Undone(s.jobs[c.job]) \/ WatchedBy(s, c.job),
         s.jobs[c.job].status = "cancelled" => w.jobs[c.job].status = "cancelled",
         DOMAIN s' = PatchFields, s'.of = "tools", s'.jobs = w.jobs, s'.reading = s.reading, s'.run = s.run,
         s'.late = s.late, s'.cleanup = s.cleanup, s'.calls = t.calls, s'.told = s.told,
         s'.output \in 0 .. Len(s.jobs)
  PROVE  PatchGood(s)'
<1>1. \A k \in 1 .. Len(s.jobs) : Undone(s'.jobs[k]) => Undone(s.jobs[k]) \/ WatchedBy(s, k)
  BY DEF Elsewhere, Served
<1>2. \A k \in 1 .. Len(s.jobs) : s.jobs[k].status = "cancelled" => s'.jobs[k].status = "cancelled"
  BY DEF Elsewhere, Served
<1> QED BY <1>1, <1>2, PatchKeeps DEF Elsewhere, Served

\* The run is over, or its end is owed.
LEMMA PatchServedOver ==
  ASSUME PatchGood(s), s.of = "tools", NEW t, NEW c, Served(t, c), s.run # Patch!Idle, s.run.job = c.job,
         c.cmd = "register" => c.job \notin s.late, s.run.stage = "register" => c.cmd = "register",
         s.run.stage = "ending" => c.cmd \in Ends,
         NEW w, Elsewhere(t, w, c.job),
         s.jobs[c.job].status = "cancelled" => w.jobs[c.job].status = "cancelled",
         DOMAIN s' = PatchFields, s'.of = "tools", s'.jobs = w.jobs, s'.reading = s.reading,
         s'.run = Patch!Idle, s'.late = s.late, s'.calls = t.calls, s'.output \in 0 .. Len(s.jobs),
         \/ s'.cleanup = s.cleanup /\ ~Undone(w.jobs[c.job])
         \/ s'.cleanup # Patch!Nothing /\ s'.cleanup.job = c.job,
         s'.told = "cancelled" => s.told = "cancelled" \/ w.jobs[c.job].status = "cancelled"
  PROVE  PatchGood(s)'
<1>1. /\ DOMAIN s = PatchFields /\ s.jobs \in Seq(PatchJobSet) /\ Len(s.jobs) \in Nat
      /\ PatchRunGood(s) /\ QueueGood(s) /\ Watched(s) /\ ToldGood(s)
  BY PatchParts
<1>2. c.job = Len(s.jobs) /\ Len(s.jobs) # 0 /\ s.cleanup = Patch!Nothing /\ c.job \in 1 .. Len(s.jobs)
  BY <1>1 DEF PatchRunGood
<1>3. /\ s'.jobs \in Seq(PatchJobSet) /\ Len(s'.jobs) = Len(s.jobs)
      /\ \A k \in 1 .. Len(s.jobs) : k # c.job => s'.jobs[k] = s.jobs[k]
  BY DEF Elsewhere, Served
<1>4. PatchRunGood(s')
  BY <1>1, <1>2, <1>3 DEF PatchRunGood
<1>5. QueueGood(s')
  <2> SUFFICES ASSUME NEW i \in 1 .. Len(t.calls) PROVE CallGood(s', t.calls[i])
    BY DEF QueueGood, Served
  <2>1. CallGood(s, t.calls[i]) /\ ~Once(c, t.calls[i])
    BY DEF Served
  <2>2. t.calls[i].cmd = "register" => t.calls[i].job \in s.late
    BY <2>1 DEF CallGood, Once
  <2>3. t.calls[i].cmd \notin Ends /\ t.calls[i].cmd # "retry"
    BY <1>2, <2>1 DEF CallGood, Once
  <2> QED BY <1>3, <2>1, <2>2, <2>3 DEF CallGood
<1>6. Watched(s')
  <2> SUFFICES ASSUME NEW k \in 1 .. Len(s.jobs), Undone(s'.jobs[k])
               PROVE  s'.cleanup # Patch!Nothing /\ s'.cleanup.job = k
    BY <1>3 DEF Watched
  <2>1. k = c.job
    BY <1>1, <1>2, <1>3 DEF Watched
  <2> QED BY <2>1
<1>7. ToldGood(s')
  <2> SUFFICES ASSUME s'.told = "cancelled" PROVE s'.jobs[c.job].status = "cancelled"
    BY <1>2, <1>3 DEF ToldGood
  <2> QED BY <1>1, <1>2 DEF ToldGood
<1> QED BY <1>3, <1>4, <1>5, <1>6, <1>7, PatchGoodIs DEF PatchTyped

\* The end of the run was answered.
LEMMA PatchServedEnd ==
  ASSUME PatchGood(s), s.of = "tools", NEW t, NEW c, Served(t, c), c.cmd \in Ends, NEW w, Elsewhere(t, w, c.job),
         s.jobs[c.job].status = "cancelled" => w.jobs[c.job].status = "cancelled",
         NEW status, status = w.jobs[c.job].status \/ status = "refused", s' = Patch!EndIsAnswered(w, status)
  PROVE  PatchGood(s)'
<1>1. s.run.stage = "ending" /\ s.run.job = c.job /\ c.cmd # "register"
  BY DEF Served, CallGood, Ends
<1>2. s.run # Patch!Idle /\ s.output \in 0 .. Len(s.jobs)
  BY <1>1, PatchIdle, PatchParts
<1>3. DOMAIN w = PatchFields /\ w.run = s.run
  BY DEF Elsewhere, Served
<1> DEFINE v == [w EXCEPT !.run = Patch!Idle]
           cleanup == [cmd |-> "cleanup", job |-> w.run.job, why |-> w.run.why]
           told == IF w.run.why = "cancelled" /\ status # "cancelled" THEN "failed" ELSE w.run.why
<1>4. cleanup # Patch!Nothing /\ cleanup.job = c.job
  BY <1>1, <1>3 DEF Patch!Nothing
<1>5. told = "cancelled" => status = "cancelled"
  OBVIOUS
<1>6. \/ status \notin Patch!Terminal /\ s' = [v EXCEPT !.cleanup = cleanup, !.told = "stopping"]
      \/ status \in Patch!Terminal /\ s' = [v EXCEPT !.told = told]
  BY DEF Patch!EndIsAnswered, Patch!Ended, Patch!RetainNativeCleanup
<1> HIDE DEF cleanup, told
<1>7. CASE status \notin Patch!Terminal /\ s' = [v EXCEPT !.cleanup = cleanup, !.told = "stopping"]
  <2>1. /\ DOMAIN s' = PatchFields /\ s'.of = "tools" /\ s'.jobs = w.jobs /\ s'.reading = s.reading
        /\ s'.run = Patch!Idle /\ s'.late = s.late /\ s'.calls = t.calls /\ s'.output = s.output
        /\ s'.cleanup = cleanup /\ s'.told = "stopping"
    BY <1>7 DEF Elsewhere, Served, PatchFields
  <2> QED BY <1>1, <1>2, <1>4, <2>1, PatchServedOver
<1>8. CASE status \in Patch!Terminal /\ s' = [v EXCEPT !.told = told]
  <2>1. /\ DOMAIN s' = PatchFields /\ s'.of = "tools" /\ s'.jobs = w.jobs /\ s'.reading = s.reading
        /\ s'.run = Patch!Idle /\ s'.late = s.late /\ s'.calls = t.calls /\ s'.output = s.output
        /\ s'.cleanup = s.cleanup /\ s'.told = told
    BY <1>8 DEF Elsewhere, Served, PatchFields
  <2>2. status = w.jobs[c.job].status /\ ~Undone(w.jobs[c.job])
    BY <1>8 DEF Patch!Terminal, Undone
  <2> QED BY <1>1, <1>2, <1>5, <2>1, <2>2, PatchServedOver
<1> QED BY <1>6, <1>7, <1>8

\* The registration of an output was answered.
LEMMA PatchServedRegister ==
  ASSUME PatchGood(s), s.of = "tools", NEW t, NEW c, Served(t, c), c.cmd = "register", NEW w,
         Elsewhere(t, w, c.job), NEW ok,
         \/ w = t /\ ok = FALSE
         \/ ok = TRUE /\ w.jobs[c.job].status = "output_ready" /\ s.jobs[c.job].status = "running",
         s' = Patch!RegisterIsAnswered(w, c.job, ok)
  PROVE  PatchGood(s)'
<1>1. /\ DOMAIN s = PatchFields /\ s.jobs \in Seq(PatchJobSet) /\ Len(s.jobs) \in Nat
      /\ PatchRunGood(s) /\ QueueGood(s) /\ Watched(s) /\ ToldGood(s) /\ s.output \in 0 .. Len(s.jobs)
  BY PatchParts
<1>2. c.job \in 1 .. Len(s.jobs) /\ (c.job \in s.late \/ (s.run.stage = "register" /\ s.run.job = c.job))
  BY DEF Served, CallGood
<1>3. /\ DOMAIN w = PatchFields /\ w.run = s.run /\ w.late = s.late /\ w.calls = t.calls /\ w.of = "tools"
      /\ w.cleanup = s.cleanup /\ w.reading = s.reading /\ w.told = s.told /\ w.output = s.output
      /\ w.jobs \in Seq(PatchJobSet) /\ Len(w.jobs) = Len(s.jobs)
      /\ \A k \in 1 .. Len(s.jobs) : k # c.job => w.jobs[k] = s.jobs[k]
  BY DEF Elsewhere, Served
<1>4. /\ s.jobs[c.job].status = "cancelled" => w.jobs[c.job].status = "cancelled"
      /\ Undone(w.jobs[c.job]) => Undone(s.jobs[c.job])
      /\ ok = TRUE => ~Undone(w.jobs[c.job])
  BY DEF Undone, Served
<1>5. CASE c.job \in s.late
  <2> DEFINE late == s.late \ {c.job}
             x == [cmd |-> "cancel_output", job |-> c.job]
             calls == Append(t.calls, x)
  <2>1. s' = [w EXCEPT !.late = late] \/ s' = [w EXCEPT !.late = late, !.calls = calls]
    <3> DEFINE v == [w EXCEPT !.late = @ \ {c.job}]
    <3>1. s' = v \/ s' = Patch!Ask(v, "cancel_output", c.job)
      BY <1>3, <1>5 DEF Patch!RegisterIsAnswered
    <3>2. v = [w EXCEPT !.late = late] /\ DOMAIN v = PatchFields /\ v.calls = t.calls
      BY <1>3 DEF PatchFields
    <3> HIDE DEF v
    <3>3. Patch!Ask(v, "cancel_output", c.job) = [v EXCEPT !.calls = calls]
      BY <3>2 DEF Patch!Ask
    <3> QED BY <1>3, <3>1, <3>2, <3>3 DEF PatchFields
  <2>2. x \in CallSet /\ x.cmd = "cancel_output" /\ x.job = c.job
    BY <1>2 DEF CallSet, PatchCommands
  <2> HIDE DEF x
  <2>3. \A i \in 1 .. Len(t.calls) : ~Once(t.calls[i], x) /\ ~Once(x, t.calls[i])
    BY <2>2 DEF Once, Ends
  <2>4. /\ t.calls \in Seq(CallSet) /\ Unique(t.calls)
        /\ \A i \in 1 .. Len(t.calls) : CallGood(s, t.calls[i]) /\ ~Once(c, t.calls[i])
    BY DEF Served
  <2>5. /\ calls \in Seq(CallSet) /\ Unique(calls)
        /\ \A i \in 1 .. Len(calls) : calls[i] = x \/ \E j \in 1 .. Len(t.calls) : calls[i] = t.calls[j]
    BY <2>2, <2>3, <2>4, PatchAsk
  <2> HIDE DEF calls
  <2>6. /\ DOMAIN s' = PatchFields /\ s'.of = "tools" /\ s'.jobs = w.jobs /\ s'.run = s.run /\ s'.late = late
        /\ s'.cleanup = s.cleanup /\ s'.reading = s.reading /\ s'.told = s.told /\ s'.output = s.output
        /\ s'.calls = t.calls \/ s'.calls = calls
    <3>1. CASE s' = [w EXCEPT !.late = late]
      BY <1>3, <3>1 DEF PatchFields
    <3>2. CASE s' = [w EXCEPT !.late = late, !.calls = calls]
      BY <1>3, <3>2 DEF PatchFields
    <3> QED BY <2>1, <3>1, <3>2
  <2>7. PatchRunGood(s')
    BY <1>1, <1>3, <2>6 DEF PatchRunGood
  <2>8. \A i \in 1 .. Len(t.calls) : CallGood(s', t.calls[i])
    BY <1>3, <2>4, <2>6 DEF CallGood, Once
  <2>9. CallGood(s', x)
    BY <1>2, <1>3, <2>2, <2>6 DEF CallGood, Ends
  <2>10. QueueGood(s')
    <3>1. \A i \in 1 .. Len(calls) : CallGood(s', calls[i])
      BY <2>5, <2>8, <2>9
    <3> QED BY <2>4, <2>5, <2>6, <2>8, <3>1 DEF QueueGood
  <2>11. Watched(s')
    BY <1>1, <1>3, <1>4, <2>6 DEF Watched
  <2>12. ToldGood(s')
    <3> SUFFICES ASSUME s.told = "cancelled" PROVE w.jobs[Len(s.jobs)].status = "cancelled" /\ Len(s.jobs) # 0
      BY <1>3, <2>6 DEF ToldGood
    <3>1. Len(s.jobs) # 0 /\ s.jobs[Len(s.jobs)].status = "cancelled" /\ Len(s.jobs) \in 1 .. Len(s.jobs)
      BY <1>1 DEF ToldGood
    <3> QED BY <1>3, <1>4, <3>1
  <2> QED BY <1>1, <1>3, <2>6, <2>7, <2>10, <2>11, <2>12, PatchGoodIs DEF PatchTyped
<1>6. CASE c.job \notin s.late
  <2>1. s.run.stage = "register" /\ s.run.job = c.job /\ s.run # Patch!Idle
    BY <1>2, <1>6, PatchIdle
  <2>2. CASE ok = TRUE
    <3>1. s' = [w EXCEPT !.run = Patch!Idle, !.output = c.job]
      BY <1>3, <1>6, <2>2 DEF Patch!RegisterIsAnswered
    <3>2. /\ DOMAIN s' = PatchFields /\ s'.of = "tools" /\ s'.jobs = w.jobs /\ s'.reading = s.reading
          /\ s'.run = Patch!Idle /\ s'.late = s.late /\ s'.calls = t.calls /\ s'.output = c.job
          /\ s'.cleanup = s.cleanup /\ s'.told = s.told
      BY <1>3, <3>1 DEF PatchFields
    <3>3. c.job \in 0 .. Len(s.jobs)
      BY <1>1, <1>2
    <3> QED BY <1>4, <1>6, <2>1, <2>2, <3>2, <3>3, PatchServedOver
  <2>3. CASE ok = FALSE /\ w = t
    <3>1. s' = Patch!EndRun(t, "failed")
      BY <1>3, <1>6, <2>3 DEF Patch!RegisterIsAnswered
    <3>2. s.run.job = Len(s.jobs) /\ Len(s.jobs) # 0 /\ s.cleanup = Patch!Nothing /\ s.late \subseteq 1 .. Len(s.jobs)
      BY <1>1, <2>1 DEF PatchRunGood
    <3>3. /\ t.calls \in Seq(CallSet) /\ Unique(t.calls)
          /\ \A i \in 1 .. Len(t.calls) :
               /\ t.calls[i].job \in 1 .. Len(t.jobs) /\ t.calls[i].cmd \notin Ends /\ t.calls[i].cmd # "retry"
               /\ t.calls[i].cmd = "register" => t.calls[i].job \in t.late
               /\ t.calls[i].cmd = "complete" => t.calls[i].job \notin t.reading
      BY <2>1, <3>2 DEF Served, CallGood, Once
    <3>4. /\ \A k \in 1 .. Len(t.jobs) : Undone(t.jobs[k]) => k = Len(t.jobs)
          /\ ToldGood(t)
      BY <1>1, <3>2 DEF Served, Watched, ToldGood
    <3>5. /\ DOMAIN t = PatchFields /\ t.of = "tools" /\ t.jobs = s.jobs /\ t.late = s.late
          /\ t.cleanup = s.cleanup /\ t.run = s.run
      BY DEF Served
    <3>6. PatchGood(Patch!EndRun(t, "failed"))
      BY <1>1, <3>2, <3>3, <3>4, <3>5, PatchEnding
    <3> QED BY <3>1, <3>6
  <2> QED BY <2>2, <2>3
<1> QED BY <1>5, <1>6

\* The job of a run that gives nothing to be saved was ended.
LEMMA PatchServedComplete ==
  ASSUME PatchGood(s), s.of = "tools", NEW t, NEW c, Served(t, c), c.cmd = "complete",
         s' = Patch!CompleteIsAnswered(Patch!Finish(t, c.job, "completed"), c.job)
  PROVE  PatchGood(s)'
<1>1. /\ DOMAIN s = PatchFields /\ s.jobs \in Seq(PatchJobSet) /\ PatchRunGood(s) /\ s.output \in 0 .. Len(s.jobs)
  BY PatchParts
<1>2. c.job \in 1 .. Len(t.jobs) /\ c.job \notin t.reading /\ DOMAIN t = PatchFields /\ t.jobs = s.jobs
  BY DEF Served, CallGood
<1> DEFINE w == Patch!Finish(t, c.job, "completed")
<1>3. /\ Elsewhere(t, w, c.job)
      /\ w.jobs[c.job].status = IF s.jobs[c.job].status \in Patch!Terminal THEN s.jobs[c.job].status ELSE "completed"
  <2>1. "completed" \in PatchStates
    BY DEF PatchStates
  <2> QED BY <1>1, <1>2, <2>1, PatchFinish
<1>4. s' = Patch!CompleteIsAnswered(w, c.job)
  OBVIOUS
<1> HIDE DEF w
<1>5. /\ w.jobs[c.job].status \in Patch!Terminal /\ ~Undone(w.jobs[c.job])
      /\ s.jobs[c.job].status = "cancelled" => w.jobs[c.job].status = "cancelled"
  BY <1>3 DEF Patch!Terminal, Undone
<1>6. /\ DOMAIN w = PatchFields /\ w.run = s.run /\ w.late = s.late /\ w.calls = t.calls /\ w.of = "tools"
      /\ w.cleanup = s.cleanup /\ w.reading = s.reading /\ w.told = s.told /\ w.output = s.output
  BY <1>3 DEF Elsewhere, Served
<1>7. \/ s' = w
      \/ s.run.stage = "complete" /\ s.run.job = c.job /\ s' = [w EXCEPT !.run = Patch!Idle]
  BY <1>4, <1>5, <1>6 DEF Patch!CompleteIsAnswered
<1>8. CASE s' = w
  BY <1>1, <1>3, <1>5, <1>6, <1>8, PatchServedPlain
<1>9. CASE s.run.stage = "complete" /\ s.run.job = c.job /\ s' = [w EXCEPT !.run = Patch!Idle]
  <2>1. s.run # Patch!Idle
    BY <1>9, PatchIdle
  <2>2. /\ DOMAIN s' = PatchFields /\ s'.of = "tools" /\ s'.jobs = w.jobs /\ s'.reading = s.reading
        /\ s'.run = Patch!Idle /\ s'.late = s.late /\ s'.calls = t.calls /\ s'.output = s.output
        /\ s'.cleanup = s.cleanup /\ s'.told = s.told
    BY <1>6, <1>9 DEF PatchFields
  <2> QED BY <1>1, <1>3, <1>5, <1>9, <2>1, <2>2, PatchServedOver
<1> QED BY <1>7, <1>8, <1>9

\* The end that was owed is tried again.
LEMMA PatchServedRetry ==
  ASSUME PatchGood(s), s.of = "tools", NEW t, NEW c, Served(t, c), c.cmd = "retry",
         s' = Patch!RetryIsAnswered(Patch!Cancel(t, c.job), c.job)
  PROVE  PatchGood(s)'
<1>1. /\ DOMAIN s = PatchFields /\ s.jobs \in Seq(PatchJobSet) /\ Len(s.jobs) \in Nat
      /\ PatchRunGood(s) /\ QueueGood(s) /\ Watched(s) /\ ToldGood(s) /\ s.output \in 0 .. Len(s.jobs)
  BY PatchParts
<1>2. /\ c.job \in 1 .. Len(t.jobs) /\ DOMAIN t = PatchFields /\ t.jobs = s.jobs
      /\ s.cleanup # Patch!Nothing /\ s.cleanup.job = c.job
  BY DEF Served, CallGood
<1>3. c.job = Len(s.jobs) /\ s.run = Patch!Idle /\ WatchedBy(s, c.job)
  BY <1>1, <1>2 DEF PatchRunGood, WatchedBy
<1> DEFINE w == Patch!Cancel(t, c.job)
<1>4. /\ Elsewhere(t, w, c.job)
      /\ w.jobs[c.job].status = IF s.jobs[c.job].status \in Patch!Terminal THEN s.jobs[c.job].status
                                ELSE IF c.job \in t.reading THEN "stopping" ELSE "cancelled"
  BY <1>1, <1>2, PatchCancel
<1>5. s' = Patch!RetryIsAnswered(w, c.job)
  OBVIOUS
<1> HIDE DEF w
<1>6. s.jobs[c.job].status = "cancelled" => w.jobs[c.job].status = "cancelled"
  BY <1>4 DEF Patch!Terminal
<1>7. /\ DOMAIN w = PatchFields /\ w.run = s.run /\ w.late = s.late /\ w.calls = t.calls /\ w.of = "tools"
      /\ w.cleanup = s.cleanup /\ w.reading = s.reading /\ w.told = s.told /\ w.output = s.output
      /\ w.jobs \in Seq(PatchJobSet) /\ Len(w.jobs) = Len(s.jobs)
      /\ \A k \in 1 .. Len(s.jobs) : k # c.job => w.jobs[k] = s.jobs[k]
  BY <1>4 DEF Elsewhere, Served
<1> DEFINE status == w.jobs[c.job].status
           told == IF w.cleanup.why = "cancelled" /\ status # "cancelled" THEN "failed" ELSE w.cleanup.why
<1>8. \/ status \notin Patch!Terminal /\ s' = w
      \/ /\ status \in Patch!Terminal
         /\ s' = [w EXCEPT !.cleanup = Patch!Nothing, !.told = told]
  <2> DEFINE v == [w EXCEPT !.cleanup = Patch!Nothing]
  <2>1. s' = IF status \notin Patch!Terminal THEN w ELSE Patch!Ended(v, w.cleanup.why, c.job, status)
    BY <1>5 DEF Patch!RetryIsAnswered
  <2>2. CASE status \in Patch!Terminal
    <3>1. Patch!Ended(v, w.cleanup.why, c.job, status) = [v EXCEPT !.told = told]
      BY <2>2 DEF Patch!Ended
    <3>2. [v EXCEPT !.told = told] = [w EXCEPT !.cleanup = Patch!Nothing, !.told = told]
      OBVIOUS
    <3> HIDE DEF v, told
    <3> QED BY <2>1, <2>2, <3>1, <3>2
  <2> QED BY <2>1, <2>2
<1>9. CASE s' = w
  BY <1>1, <1>3, <1>4, <1>6, <1>7, <1>9, PatchServedPlain
<1>10. CASE /\ status \in Patch!Terminal
            /\ s' = [w EXCEPT !.cleanup = Patch!Nothing, !.told = told]
  <2>1. told = "cancelled" => status = "cancelled"
    OBVIOUS
  <2> HIDE DEF told
  <2>2. /\ DOMAIN s' = PatchFields /\ s'.of = "tools" /\ s'.jobs = w.jobs /\ s'.reading = s.reading
        /\ s'.run = Patch!Idle /\ s'.late = s.late /\ s'.calls = t.calls /\ s'.output = s.output
        /\ s'.cleanup = Patch!Nothing /\ s'.told = told
    BY <1>3, <1>7, <1>10 DEF PatchFields
  <2>3. PatchRunGood(s')
    BY <1>1, <1>7, <2>2 DEF PatchRunGood
  <2>4. QueueGood(s')
    <3> SUFFICES ASSUME NEW i \in 1 .. Len(t.calls) PROVE CallGood(s', t.calls[i])
      BY <2>2 DEF QueueGood, Served
    <3>1. CallGood(s, t.calls[i]) /\ ~Once(c, t.calls[i])
      BY DEF Served
    <3>2. t.calls[i].cmd # "retry"
      BY <3>1 DEF Once
    <3> QED BY <1>3, <1>7, <2>2, <3>1, <3>2 DEF CallGood
  <2>5. Watched(s')
    <3> SUFFICES ASSUME NEW k \in 1 .. Len(s.jobs), Undone(w.jobs[k]) PROVE FALSE
      BY <1>7, <2>2 DEF Watched
    <3>1. k # c.job
      BY <1>10 DEF Undone, Patch!Terminal
    <3> QED BY <1>1, <1>2, <1>3, <1>7, <3>1 DEF Watched
  <2>6. ToldGood(s')
    BY <1>1, <1>2, <1>3, <1>7, <2>1, <2>2 DEF ToldGood
  <2> QED BY <1>1, <1>7, <2>2, <2>3, <2>4, <2>5, <2>6, PatchGoodIs DEF PatchTyped
<1> QED BY <1>8, <1>9, <1>10

\* The native side serves the first call.
LEMMA PatchServes == ASSUME PatchGood(s), s.of = "tools", Patch!Serve PROVE PatchGood(s)'
<1>1. /\ DOMAIN s = PatchFields /\ s.jobs \in Seq(PatchJobSet) /\ s.output \in 0 .. Len(s.jobs)
  BY PatchParts
<1> DEFINE c == Head(s.calls)
           t == [s EXCEPT !.calls = Tail(@)]
           status == t.jobs[c.job].status
           failing == Patch!Finish(t, c.job, "failed")
           cancelling == Patch!Cancel(t, c.job)
<1>2. s.calls # <<>>
  BY DEF Patch!Serve
<1>3. Served(t, c)
  BY <1>2, PatchServed
<1>4. /\ c.cmd = "register" =>
           s' = IF status = "running" /\ c.job \notin t.reading
                THEN Patch!RegisterIsAnswered(Patch!RegisterOutput(t, c.job), c.job, TRUE)
                ELSE Patch!RegisterIsAnswered(t, c.job, FALSE)
      /\ c.cmd = "cancel" => s' = Patch!EndIsAnswered(cancelling, cancelling.jobs[c.job].status)
      /\ c.cmd = "fail" => s' = IF status \in Patch!Held THEN Patch!EndIsAnswered(t, "refused")
                                ELSE Patch!EndIsAnswered(failing, failing.jobs[c.job].status)
      /\ c.cmd = "complete" => s' = Patch!CompleteIsAnswered(Patch!Finish(t, c.job, "completed"), c.job)
      /\ c.cmd = "retry" => s' = Patch!RetryIsAnswered(cancelling, c.job)
      /\ c.cmd = "cancel_output" => s' = Patch!CancelOutput(t, c.job)
      /\ c.cmd = "give_up" =>
           s' = [Patch!CancelOutput(t, c.job) EXCEPT
                   !.output = IF t.jobs[c.job].bytes /\ @ = c.job THEN Patch!None ELSE @]
      /\ c.cmd = "export" => s' = IF status = "output_ready" THEN [t EXCEPT !.jobs[c.job].status = "exporting"]
                                  ELSE [t EXCEPT !.exporting = Patch!None]
  BY DEF Patch!Serve
<1> HIDE DEF c, t
<1>5. /\ DOMAIN t = PatchFields /\ t.jobs = s.jobs /\ c.job \in 1 .. Len(s.jobs) /\ c \in CallSet
      /\ t.of = "tools" /\ t.reading = s.reading /\ t.run = s.run
      /\ t.late = s.late /\ t.cleanup = s.cleanup /\ t.output = s.output /\ t.told = s.told
  BY <1>3 DEF Served, CallGood
<1>6. c.cmd \in PatchCommands
  BY <1>5 DEF CallSet
<1>7. Elsewhere(t, t, c.job)
  BY <1>1, <1>5, ElsewhereSame
<1>8. CASE c.cmd = "register"
  <2> DEFINE w == Patch!RegisterOutput(t, c.job)
  <2>1. Elsewhere(t, w, c.job) /\ w.jobs[c.job].status = "output_ready"
    BY <1>1, <1>5, PatchRegister
  <2>2. \/ status = "running" /\ s' = Patch!RegisterIsAnswered(w, c.job, TRUE)
        \/ s' = Patch!RegisterIsAnswered(t, c.job, FALSE)
    BY <1>4, <1>8
  <2> HIDE DEF w
  <2>3. CASE status = "running" /\ s' = Patch!RegisterIsAnswered(w, c.job, TRUE)
    <3> DEFINE ok == TRUE
    <3>1. ok = TRUE /\ s' = Patch!RegisterIsAnswered(w, c.job, ok)
      BY <2>3
    <3> HIDE DEF ok
    <3> QED BY <1>3, <1>5, <1>8, <2>1, <2>3, <3>1, PatchServedRegister
  <2>4. CASE s' = Patch!RegisterIsAnswered(t, c.job, FALSE)
    <3> DEFINE ok == FALSE
    <3>1. ok = FALSE /\ s' = Patch!RegisterIsAnswered(t, c.job, ok)
      BY <2>4
    <3> HIDE DEF ok
    <3> QED BY <1>3, <1>7, <1>8, <3>1, PatchServedRegister
  <2> QED BY <2>2, <2>3, <2>4
<1>9. CASE c.cmd = "cancel"
  <2>1. /\ Elsewhere(t, cancelling, c.job)
        /\ s.jobs[c.job].status = "cancelled" => cancelling.jobs[c.job].status = "cancelled"
    <3>1. /\ Elsewhere(t, cancelling, c.job)
          /\ cancelling.jobs[c.job].status = IF t.jobs[c.job].status \in Patch!Terminal THEN t.jobs[c.job].status
                                             ELSE IF c.job \in t.reading THEN "stopping" ELSE "cancelled"
      BY <1>1, <1>5, PatchCancel
    <3> HIDE DEF cancelling
    <3> QED BY <1>5, <3>1 DEF Patch!Terminal
  <2>2. s' = Patch!EndIsAnswered(cancelling, cancelling.jobs[c.job].status) /\ c.cmd \in Ends
    BY <1>4, <1>9 DEF Ends
  <2> HIDE DEF cancelling
  <2> QED BY <1>3, <2>1, <2>2, PatchServedEnd
<1>10. CASE c.cmd = "fail"
  <2>1. /\ Elsewhere(t, failing, c.job)
        /\ s.jobs[c.job].status = "cancelled" => failing.jobs[c.job].status = "cancelled"
    <3>1. "failed" \in PatchStates
      BY DEF PatchStates
    <3>2. /\ Elsewhere(t, failing, c.job)
          /\ failing.jobs[c.job].status = IF t.jobs[c.job].status \in Patch!Terminal THEN t.jobs[c.job].status
                                          ELSE IF c.job \in t.reading THEN "stopping" ELSE "failed"
      BY <1>1, <1>5, <3>1, PatchFinish
    <3> HIDE DEF failing
    <3> QED BY <1>5, <3>2 DEF Patch!Terminal
  <2>2. /\ c.cmd \in Ends
        /\ \/ s' = Patch!EndIsAnswered(t, "refused")
           \/ s' = Patch!EndIsAnswered(failing, failing.jobs[c.job].status)
    BY <1>4, <1>10 DEF Ends
  <2> HIDE DEF failing
  <2>3. CASE s' = Patch!EndIsAnswered(t, "refused")
    BY <1>3, <1>5, <1>7, <2>2, <2>3, PatchServedEnd
  <2>4. CASE s' = Patch!EndIsAnswered(failing, failing.jobs[c.job].status)
    BY <1>3, <2>1, <2>2, <2>4, PatchServedEnd
  <2> QED BY <2>2, <2>3, <2>4
<1>11. CASE c.cmd = "complete"
  BY <1>3, <1>4, <1>11, PatchServedComplete
<1>12. CASE c.cmd = "retry"
  BY <1>3, <1>4, <1>12, PatchServedRetry
<1>13. CASE c.cmd \in {"cancel_output", "give_up"}
  <2> DEFINE w == Patch!CancelOutput(t, c.job)
             output == IF t.jobs[c.job].bytes /\ s.output = c.job THEN 0 ELSE s.output
  <2>1. /\ Elsewhere(t, w, c.job)
        /\ w.jobs[c.job] = s.jobs[c.job] \/ (s.jobs[c.job].status = "output_ready" /\ w.jobs[c.job].status = "cancelled")
    BY <1>1, <1>5, PatchGiveUp
  <2>2. DOMAIN w = PatchFields /\ w.output = s.output
    BY <1>5, <2>1 DEF Elsewhere
  <2>3. s' = w \/ s' = [w EXCEPT !.output = output]
    BY <1>4, <1>13, <2>2 DEF Patch!None
  <2>4. output \in 0 .. Len(s.jobs)
    BY <1>1
  <2> HIDE DEF w, output
  <2>5. /\ DOMAIN s' = PatchFields /\ s'.of = "tools" /\ s'.jobs = w.jobs /\ s'.reading = s.reading /\ s'.run = s.run
        /\ s'.late = s.late /\ s'.cleanup = s.cleanup /\ s'.calls = t.calls /\ s'.told = s.told
        /\ s'.output \in 0 .. Len(s.jobs)
    BY <1>1, <1>5, <2>1, <2>3, <2>4 DEF Elsewhere, PatchFields
  <2>6. /\ Undone(w.jobs[c.job]) => Undone(s.jobs[c.job])
        /\ s.jobs[c.job].status = "cancelled" => w.jobs[c.job].status = "cancelled"
    BY <2>1 DEF Undone
  <2> QED BY <1>3, <2>1, <2>5, <2>6, PatchServedPlain
<1>14. CASE c.cmd = "export"
  <2> DEFINE w == [t EXCEPT !.jobs[c.job].status = "exporting"]
  <2>1. Elsewhere(t, w, c.job) /\ w.jobs[c.job].status = "exporting"
    <3>1. "exporting" \in PatchStates
      BY DEF PatchStates
    <3> QED BY <1>1, <1>5, <3>1, PatchStatus
  <2>2. \/ s.jobs[c.job].status = "output_ready" /\ s' = w
        \/ s' = [t EXCEPT !.exporting = Patch!None]
    BY <1>4, <1>5, <1>14
  <2> HIDE DEF w
  <2>3. CASE s.jobs[c.job].status = "output_ready" /\ s' = w
    <3>1. /\ DOMAIN s' = PatchFields /\ s'.of = "tools" /\ s'.jobs = w.jobs /\ s'.reading = s.reading /\ s'.run = s.run
          /\ s'.late = s.late /\ s'.cleanup = s.cleanup /\ s'.calls = t.calls /\ s'.told = s.told
          /\ s'.output \in 0 .. Len(s.jobs)
      BY <1>1, <1>5, <2>1, <2>3 DEF Elsewhere
    <3>2. ~Undone(w.jobs[c.job]) /\ s.jobs[c.job].status # "cancelled"
      BY <2>1, <2>3 DEF Undone
    <3> QED BY <1>3, <2>1, <3>1, <3>2, PatchServedPlain
  <2>4. CASE s' = [t EXCEPT !.exporting = Patch!None]
    <3>1. /\ DOMAIN s' = PatchFields /\ s'.of = "tools" /\ s'.jobs = t.jobs /\ s'.reading = s.reading /\ s'.run = s.run
          /\ s'.late = s.late /\ s'.cleanup = s.cleanup /\ s'.calls = t.calls /\ s'.told = s.told
          /\ s'.output \in 0 .. Len(s.jobs)
      BY <1>1, <1>5, <2>4 DEF PatchFields
    <3> QED BY <1>3, <1>5, <1>7, <3>1, PatchServedPlain
  <2> QED BY <2>2, <2>3, <2>4
<1> QED BY <1>6, <1>8, <1>9, <1>10, <1>11, <1>12, <1>13, <1>14 DEF PatchCommands

\* Every step of the patches keeps the invariant.
LEMMA PatchSteps == ASSUME PatchGood(s), Patch!Next PROVE PatchGood(s)'
<1>1. CASE s.of = "tools"
  BY <1>1, PatchBegins, PatchPlainSteps, PatchExports, PatchAborts, PatchComputes, PatchServes DEF Patch!Next
<1>2. CASE s.of = "archive"
  BY <1>2, PatchArchiveSteps DEF Patch!Next, PatchGood
<1> QED BY <1>1, <1>2 DEF Patch!Next

\* No job goes on that the window lost, and what is told to be cancelled is.
LEMMA PatchHolds == ASSUME PatchGood(s) PROVE Patch!JobsAreWatched /\ Patch!CancelIsTold
<1>1. CASE s.of = "tools"
  BY <1>1, PatchParts DEF Watched, ToldGood, Undone, Patch!JobsAreWatched, Patch!CancelIsTold
<1>2. CASE s.of # "tools"
  BY <1>2 DEF Patch!JobsAreWatched, Patch!CancelIsTold
<1> QED BY <1>1, <1>2

-------------------------------------------------------------------------------
(* The pages together.                                                       *)

HeldGood ==
  /\ focus = "kill" => KillGood(s)
  /\ focus = "simple" => SimpleGood(s)
  /\ focus = "keys" => KeysGood(s)
  /\ focus = "images" => ImagesGood(s)
  /\ focus = "patch" => PatchGood(s)

\* Every page starts with what its invariant says.
LEMMA HeldStart == Init => HeldGood
BY KillStarts, SimpleStarts, KeysStarts, ImagesStarts, PatchStarts DEF Init, HeldGood

\* A step of one page keeps its invariant and leaves the others alone.
LEMMA HeldStep == HeldGood /\ [Next]_vars => HeldGood'
<1> SUFFICES ASSUME HeldGood, [Next]_vars PROVE HeldGood'
  OBVIOUS
<1>1. CASE UNCHANGED vars
  BY <1>1 DEF vars, HeldGood
<1>2. ASSUME NEW page, On(page), page \notin {"kill", "simple", "keys", "images", "patch"}
      PROVE  HeldGood'
  BY <1>2 DEF On, HeldGood
<1>3. CASE On("kill") /\ Kill!Next
  BY <1>3, KillSteps DEF On, HeldGood
<1>4. CASE On("simple") /\ Simple!Next
  BY <1>4, SimpleSteps DEF On, HeldGood
<1>5. CASE On("keys") /\ Keys!Next
  BY <1>5, KeysSteps DEF On, HeldGood
<1>6. CASE On("images") /\ Images!Next
  BY <1>6, ImagesSteps DEF On, HeldGood
<1>7. CASE On("patch") /\ Patch!Next
  BY <1>7, PatchSteps DEF On, HeldGood
<1> QED BY <1>1, <1>2, <1>3, <1>4, <1>5, <1>6, <1>7 DEF Next

\* Whatever is given up, left, cancelled or refused, no native job goes on for
\* nobody, and no input, address, file, lease or keyboard is held for nobody.  (It
\* does not speak of the bytes of an output that nobody saved.)
THEOREM HeldCorrect == Spec => []NothingIsHeld
<1>1. Init => HeldGood
  BY HeldStart
<1>2. HeldGood /\ [Next]_vars => HeldGood'
  BY HeldStep
<1>3. HeldGood => NothingIsHeld
  BY KillHolds, SimpleHolds, KeysHold, ImagesHold, PatchHolds DEF HeldGood, NothingIsHeld
<1> QED BY <1>1, <1>2, <1>3, PTL DEF Spec
=============================================================================
