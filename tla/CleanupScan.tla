---------------------------- MODULE CleanupScan ----------------------------
(***************************************************************************)
(* The disk scan of the cleanup page: the hook useCleanupScan of           *)
(* src/hooks/useCleanupScan.ts, the controls that start a scan             *)
(* (components/CleanupAssistant.tsx) and the native job it follows         *)
(* (src-tauri/src/cleanup_scan_job.rs).                                    *)
(*                                                                         *)
(* The hook polls one native job, shows previews of its index, and on its  *)
(* end shows the finished scan or what it showed before.  A scan is a      *)
(* number, its preview the same number marked partial.  Calls under way    *)
(* are the elements of s.calls and are answered in any order; an answer is *)
(* what the native side held at the call or at the answer.                 *)
(***************************************************************************)
EXTENDS Integers, FiniteSets

CONSTANT MaxBegun  \* bound of the model: scans, refreshes, deletions and clears ever begun

VARIABLE s

None == [id |-> 0, partial |-> FALSE]
Complete(n) == [id |-> n, partial |-> FALSE]
Preview(n) == [id |-> n, partial |-> TRUE]

NoJob == [id |-> 0, phase |-> "none"]

Active == {"scanning", "cancelling"}

Init ==
  \E kept \in {0, 1} :
    s = [snapshot |-> None, status |-> "current", preStatus |-> "current",
         previous |-> None, loading |-> FALSE, cancelling |-> FALSE,
         activeJob |-> 0, tracker |-> 1, touched |-> FALSE,
         checking |-> FALSE, guide |-> FALSE,
         refreshTracker |-> 0, refreshing |-> FALSE, refreshJob |-> "none",
         job |-> NoJob, stored |-> kept, begun |-> 0,
         calls |-> {[op |-> "initial", seen |-> kept], [op |-> "mounted", tracker |-> 1]}]

Without(c) == s.calls \ {c}

\* restorePrevious, applied to a state t
Restored(t) ==
  [t EXCEPT !.activeJob = 0, !.loading = FALSE, !.cancelling = FALSE,
            !.status = t.preStatus,
            !.snapshot = IF t.previous # None THEN t.previous ELSE @]

----------------------------------------------------------------------------
(* The stored scan, read when the page opens and on a changed revision.    *)

InitialRead(c) ==
  /\ c.op = "initial"
  /\ \E n \in {c.seen, s.stored} :
       s' = [s EXCEPT !.calls = Without(c),
                      !.previous = IF n # 0 THEN Complete(n) ELSE @,
                      !.snapshot = IF n # 0 /\ ~s.touched THEN Complete(n) ELSE @,
                      !.status = IF n # 0 /\ ~s.touched THEN "current" ELSE @]

ReloadLatest ==
  /\ ~\E c \in s.calls : c.op \in {"reload", "initial"}
  /\ s.job.phase \notin Active
  /\ s' = [s EXCEPT !.calls = @ \cup {[op |-> "reload", tracker |-> s.tracker, seen |-> s.stored]}]

Reloaded(c) ==
  /\ c.op = "reload"
  /\ \E n \in {c.seen, s.stored} :
       s' = IF c.tracker # s.tracker
            THEN [s EXCEPT !.calls = Without(c)]
            ELSE [s EXCEPT !.calls = Without(c), !.touched = TRUE,
                           !.snapshot = Complete(n), !.previous = Complete(n),
                           !.status = "current"]

----------------------------------------------------------------------------
(* Scanning.                                                               *)

\* scan(target), called on a state t
ScanFrom(t) ==
  [t EXCEPT !.tracker = @ + 1, !.touched = TRUE,
            !.previous = IF t.snapshot # None /\ ~t.snapshot.partial THEN t.snapshot ELSE @,
            !.preStatus = t.status,
            !.status = IF t.snapshot # None THEN "updating" ELSE @,
            !.loading = TRUE, !.cancelling = FALSE,
            !.calls = @ \cup {[op |-> "start", tracker |-> t.tracker + 1]}]

\* A folder or a volume is scanned at once, also from the offer of a complete scan.
ScanTarget ==
  /\ ~s.loading /\ s.begun < MaxBegun
  /\ s' = ScanFrom([s EXCEPT !.begun = @ + 1])

\* The system disk is scanned once the access to it has been checked; a window that
\* waits for the access checks again when it becomes visible.
CheckAccess ==
  /\ ~s.loading /\ ~s.checking /\ s.begun < MaxBegun
  /\ s' = [s EXCEPT !.checking = TRUE, !.begun = @ + 1]

AccessChecked ==
  /\ s.checking
  /\ LET t == [s EXCEPT !.checking = FALSE]
     IN \/ s' = ScanFrom([t EXCEPT !.guide = FALSE])    \* granted, or not needed
        \/ s' = [t EXCEPT !.guide = TRUE]

\* "Continue with the accessible areas", which a check under way does not disable.
ScanAccessible ==
  /\ s.guide /\ ~s.loading
  /\ s' = ScanFrom([s EXCEPT !.guide = FALSE])

CloseGuide == s.guide /\ ~s.loading /\ s' = [s EXCEPT !.guide = FALSE]

Followed(t, tracker, job) ==
  [t EXCEPT !.activeJob = job, !.loading = TRUE,
            !.calls = @ \cup {[op |-> "poll", tracker |-> tracker, job |-> job]}]

\* The native job starts in place of the one before it, or cannot start.
Started(c) ==
  /\ c.op = "start"
  /\ LET begun == [s EXCEPT !.calls = Without(c),
                            !.job = [id |-> c.tracker, phase |-> "scanning"]]
         refused == [s EXCEPT !.calls = Without(c)]
     IN \/ s' = IF c.tracker = s.tracker THEN Followed(begun, c.tracker, c.tracker) ELSE begun
        \/ s' = IF c.tracker = s.tracker
                THEN [refused EXCEPT !.loading = FALSE, !.cancelling = FALSE,
                                     !.status = s.preStatus]
                ELSE refused

\* The page asks on opening for a job that already runs.
Mounted(c) ==
  /\ c.op = "mounted"
  /\ LET t == [s EXCEPT !.calls = Without(c)]
     IN s' = IF s.job.phase \in Active /\ c.tracker = s.tracker
             THEN Followed([t EXCEPT !.touched = TRUE], c.tracker, s.job.id)
             ELSE t

\* followJob waits, unless it is of an older tracker, and asks for the status.
Ask(c) ==
  /\ c.op = "poll"
  /\ s' = IF c.tracker # s.tracker
          THEN [s EXCEPT !.calls = Without(c)]
          ELSE [s EXCEPT !.calls = Without(c) \cup {[op |-> "status", tracker |-> c.tracker,
                                                     job |-> c.job, seen |-> s.job]}]

\* One turn of the loop on the status that came.  A job that is not the one the
\* loop follows restores the page without a look at the tracker.
Status(c) ==
  /\ c.op = "status"
  /\ \E job \in {c.seen, s.job} :
       LET t == [s EXCEPT !.calls = Without(c)]
           on(op) == [op |-> op, tracker |-> c.tracker, job |-> c.job]
       IN \/ s' = IF c.tracker = s.tracker THEN Restored(t) ELSE t    \* the call failed
          \/ job.id # c.job /\ s' = Restored(t)
          \/ /\ job.id = c.job /\ (c.tracker # s.tracker \/ s.activeJob # c.job)
             /\ s' = t
          \/ /\ job.id = c.job /\ c.tracker = s.tracker /\ s.activeJob = c.job
             /\ \/ job.phase = "completed" /\ s' = [t EXCEPT !.calls = @ \cup {on("result")}]
                \/ /\ job.phase = "cancelled"
                   /\ s' = IF s.snapshot.partial
                           THEN [t EXCEPT !.activeJob = 0, !.loading = FALSE,
                                          !.cancelling = FALSE, !.status = "current"]
                           ELSE Restored(t)
                \/ job.phase = "failed" /\ s' = Restored(t)
                \/ /\ job.phase \in Active
                   /\ \E op \in {"poll"} \cup IF job.phase = "scanning" THEN {"preview"} ELSE {} :
                        s' = [t EXCEPT !.cancelling = job.phase = "cancelling",
                                       !.calls = @ \cup {on(op)}]

Previewed(c) ==
  /\ c.op = "preview"
  /\ LET t == [s EXCEPT !.calls = Without(c)]
         again == [t EXCEPT !.calls = @ \cup {[c EXCEPT !.op = "poll"]}]
     IN IF c.tracker # s.tracker \/ s.activeJob # c.job THEN s' = t
        ELSE \/ s' = again
             \/ s' = [again EXCEPT !.snapshot = Preview(c.job), !.status = "updating"]

Result(c) ==
  /\ c.op = "result"
  /\ LET t == [s EXCEPT !.calls = Without(c)]
     IN IF c.tracker # s.tracker THEN s' = t
        ELSE \/ /\ s.job.id = c.job
                /\ s' = [t EXCEPT !.snapshot = Complete(c.job), !.previous = Complete(c.job),
                                  !.status = "current", !.activeJob = 0, !.loading = FALSE,
                                  !.cancelling = FALSE]
             \/ s' = Restored(t)

\* Fault: a cancelled scan is no longer followed.
CancelUnfollowed ==
  /\ s.activeJob # 0 /\ ~s.cancelling /\ s.loading
  /\ s' = [s EXCEPT !.cancelling = TRUE, !.tracker = @ + 1,
                    !.job.phase = IF @ = "scanning" THEN "cancelling" ELSE @]

\* cancel(): the native command raises the flag of a job that still runs.
Cancel ==
  /\ s.activeJob # 0 /\ ~s.cancelling /\ s.loading
  /\ s' = [s EXCEPT !.cancelling = TRUE,
                    !.job.phase = IF @ = "scanning" THEN "cancelling" ELSE @]

Forgotten(t) ==
  [t EXCEPT !.activeJob = 0, !.snapshot = None, !.previous = None, !.status = "current",
            !.loading = FALSE, !.cancelling = FALSE,
            !.refreshTracker = @ + 1, !.refreshing = FALSE,
            !.calls = @ \cup {[op |-> "clear"]}]

----------------------------------------------------------------------------
(* The refresh of one folder of the map, a job of its own.                 *)

RefreshDirectory ==
  /\ s.snapshot # None /\ ~s.snapshot.partial /\ ~s.loading /\ s.begun < MaxBegun
  /\ s' = [s EXCEPT !.refreshTracker = @ + 1, !.begun = @ + 1,
                    !.calls = @ \cup {[op |-> "refresh", tracker |-> s.refreshTracker + 1,
                                       scan |-> s.snapshot.id]}]

RefreshStarted(c) ==
  /\ c.op = "refresh"
  /\ LET t == [s EXCEPT !.calls = Without(c)]
     IN \/ s' = t                                          \* refused
        \/ /\ s.stored = c.scan
           /\ s' = IF c.tracker = s.refreshTracker
                   THEN [t EXCEPT !.refreshJob = "scanning", !.refreshing = TRUE,
                                  !.calls = @ \cup {[c EXCEPT !.op = "refreshPoll"]}]
                   ELSE [t EXCEPT !.refreshJob = "scanning"]

\* The loop ends with its tracker; the job's end brings the refreshed map.
RefreshPoll(c) ==
  /\ c.op = "refreshPoll"
  /\ LET t == [s EXCEPT !.calls = Without(c)]
     IN IF c.tracker # s.refreshTracker THEN s' = t
        ELSE \/ s.refreshJob = "scanning" /\ UNCHANGED s
             \/ s.refreshJob # "completed" /\ s' = [t EXCEPT !.refreshing = FALSE]
             \/ /\ s.refreshJob = "completed"
                /\ s' = [t EXCEPT !.calls = @ \cup {[op |-> "refreshResult", tracker |-> c.tracker,
                                                     scan |-> c.scan, found |-> s.stored = c.scan]}]

RefreshResult(c) ==
  /\ c.op = "refreshResult"
  /\ LET t == [s EXCEPT !.calls = Without(c)]
     IN s' = IF c.tracker # s.refreshTracker THEN t
             ELSE IF c.found
                  THEN [t EXCEPT !.snapshot = Complete(c.scan), !.status = "current",
                                 !.refreshing = FALSE]
                  ELSE [t EXCEPT !.refreshing = FALSE]

CancelRefresh ==
  /\ s.refreshing /\ s.refreshJob = "scanning"
  /\ s' = [s EXCEPT !.refreshJob = "cancelled"]

----------------------------------------------------------------------------
(* Deletions made on the map, and the clear of the product data.           *)

ApplyDeletion ==
  /\ s.snapshot # None /\ ~s.snapshot.partial /\ ~s.loading
  /\ s.begun < MaxBegun /\ ~\E c \in s.calls : c.op = "deletion"
  /\ s' = [s EXCEPT !.begun = @ + 1,
                    !.calls = @ \cup {[op |-> "deletion", scan |-> s.snapshot.id,
                                       found |-> s.stored = s.snapshot.id]}]

\* The index answers with the reduced scan, or no longer holds it.
DeletionApplied(c) ==
  /\ c.op = "deletion"
  /\ LET t == [s EXCEPT !.calls = Without(c)]
     IN s' = IF c.found THEN [t EXCEPT !.snapshot = Complete(c.scan)] ELSE t

\* clear(): a job known to the page is cancelled first; then the page forgets and
\* asks the native side to end its jobs and remove the index.
Clear ==
  /\ s.begun < MaxBegun /\ ~\E c \in s.calls : c.op \in {"clearing", "clear"}
  /\ LET t == [s EXCEPT !.touched = TRUE, !.tracker = @ + 1, !.begun = @ + 1]
     IN s' = IF s.activeJob # 0
             THEN [t EXCEPT !.job.phase = IF @ = "scanning" THEN "cancelling" ELSE @,
                            !.calls = @ \cup {[op |-> "clearing"]}]
             ELSE Forgotten(t)

CancelledForClear(c) ==
  c.op = "clearing" /\ s' = Forgotten([s EXCEPT !.calls = Without(c)])

Cleared(c) ==
  /\ c.op = "clear"
  /\ s' = [s EXCEPT !.calls = Without(c), !.stored = 0, !.refreshJob = "none",
                    !.job = NoJob]

----------------------------------------------------------------------------
(* The worker process of the job.                                          *)

JobEnds ==
  \/ /\ s.job.phase = "scanning"
     /\ s' = [s EXCEPT !.job.phase = "completed", !.stored = s.job.id]
  \/ /\ s.job.phase \in Active
     /\ s' = [s EXCEPT !.job.phase = "failed"]
  \/ /\ s.job.phase = "cancelling"
     /\ s' = [s EXCEPT !.job.phase = "cancelled"]
  \/ /\ s.refreshJob = "scanning"
     /\ \E end \in {"completed", "failed"} : s' = [s EXCEPT !.refreshJob = end]

Answered(c) ==
  \/ InitialRead(c) \/ Reloaded(c) \/ Started(c) \/ Mounted(c) \/ Ask(c) \/ Status(c)
  \/ Previewed(c) \/ Result(c) \/ DeletionApplied(c) \/ CancelledForClear(c)
  \/ Cleared(c) \/ RefreshStarted(c) \/ RefreshPoll(c) \/ RefreshResult(c)

Answer == \E c \in s.calls : Answered(c)

Next == \/ ReloadLatest \/ ScanTarget \/ CheckAccess \/ AccessChecked \/ ScanAccessible
        \/ CloseGuide \/ Cancel \/ RefreshDirectory \/ CancelRefresh \/ ApplyDeletion
        \/ Clear \/ JobEnds \/ Answer

Operations == {"start", "mounted", "poll", "status", "preview", "result", "clearing", "clear"}

\* A call is answered in the end, whatever the others do, and a worker's watchdog
\* ends every job.
AnswerOf(op) == \E c \in s.calls : c.op = op /\ Answered(c)

----------------------------------------------------------------------------
\* A preview is never what a later scan falls back to, and at most one loop of the
\* newest scan is live: an older one, or a doubled start, changes neither.  (A map
\* that was cleared may come back: the first read keeps it as what a scan falls back
\* to, and the answer to a deletion shows it, without a look at the tracker.)
PreviewIsNotKept ==
  /\ ~s.previous.partial
  /\ Cardinality({c \in s.calls : /\ c.op \in {"start", "poll", "status", "preview", "result"}
                                  /\ c.tracker = s.tracker}) <= 1

\* The page leaves its busy state whatever the job does.
Waiting == s.loading
=============================================================================
