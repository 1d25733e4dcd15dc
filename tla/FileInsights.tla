---------------------------- MODULE FileInsights ----------------------------
(***************************************************************************)
(* The file insights: the scan with its cached result                      *)
(* (src/hooks/useFileInsightsScan.ts, fileInsightsPersistence.ts,          *)
(* fileInsightsStore.ts), and the page that processes duplicates and old   *)
(* files (src/components/FileInsightsExplorer.tsx).                        *)
(*                                                                         *)
(* One group of three equal files; each of them is also an old file.       *)
(***************************************************************************)
EXTENDS DeleteDialog, Sequences

CONSTANT MaxActs  \* bound of the model: operations begun by the user

VARIABLE s

Files == 1..3
NoScan == [at |-> 0, group |-> {}, old |-> {}]
FoundBy(n) == [at |-> n, group |-> Files, old |-> Files]
Kinds == {"duplicates", "old"}
Nothing == 0

Least(files) == CHOOSE f \in files : \A g \in files : f <= g

\* The pages before now, and the one that loads: what a former session left.
Init ==
  \E stored \in {NoScan, FoundBy(1)} :
    s = [disk |-> stored, writes |-> <<>>, shown |-> NoScan, scanning |-> FALSE, loading |-> FALSE,
         touched |-> FALSE, epoch |-> 0, clears |-> 0, latest |-> 1, 
         grouped |-> FALSE, kept |-> Nothing, chosen |-> {}, outcome |-> FALSE, kind |-> "duplicates",
         dialog |-> ClosedDialog, removed |-> {}, applying |-> FALSE, acts |-> MaxActs,
         calls |-> {[op |-> "load"]}]

Spend == [s EXCEPT !.acts = @ - 1]
Without(c) == s.calls \ {c}

----------------------------------------------------------------------------
(* The result on disk: saves and clears run one after another.             *)

Write(t, value) == [t EXCEPT !.writes = Append(@, [value |-> value, upto |-> 0])]
WriteClear(t, upto) == [t EXCEPT !.writes = Append(@, [value |-> NoScan, upto |-> upto])]

\* A write ends, and may have failed.
WriteEnds ==
  /\ s.writes # <<>>
  /\ \E done \in BOOLEAN :
       LET w == Head(s.writes)
       IN s' = [s EXCEPT !.writes = Tail(@), !.disk = IF done THEN w.value ELSE @,
                         !.clears = IF done /\ w.upto > @ THEN w.upto ELSE @]

\* The page's selection starts over with another result.
Show(t, scan) ==
  IF t.shown.at = scan.at THEN [t EXCEPT !.shown = scan]
  ELSE [t EXCEPT !.shown = scan, !.grouped = FALSE, !.chosen = {}, !.outcome = FALSE,
                 !.kept = IF scan.group = {} THEN Nothing ELSE Least(scan.group)]

\* The first read waits for the writes before it.
Load(c) ==
  /\ c.op = "load" /\ s.writes = <<>>
  /\ s' = IF s.touched \/ s.disk = NoScan THEN [s EXCEPT !.calls = Without(c)]
          ELSE [s EXCEPT !.calls = Without(c) \cup {[op |-> "verify", scan |-> s.disk]}]

\* The cached result is verified against the files, saved and then shown; it
\* is shown as it was when that fails.
Verify(c) ==
  /\ c.op = "verify"
  /\ \E verified \in BOOLEAN :
       s' = IF s.touched THEN [s EXCEPT !.calls = Without(c)]
            ELSE IF verified
            THEN Write([s EXCEPT !.calls = Without(c) \cup {[op |-> "adopt", scan |-> c.scan]}], c.scan)
            ELSE Show([s EXCEPT !.calls = Without(c)], c.scan)

AdoptCached(c) ==
  /\ c.op = "adopt" /\ s.writes = <<>>
  /\ s' = IF s.touched THEN [s EXCEPT !.calls = Without(c)]
          ELSE Show([s EXCEPT !.calls = Without(c)], c.scan)

Scan ==
  /\ s.acts > 0 /\ ~s.loading
  /\ s' = IF s.scanning THEN Spend
          ELSE [Spend EXCEPT !.scanning = TRUE, !.loading = TRUE, !.touched = TRUE, !.latest = @ + 1,
                             !.calls = @ \cup {[op |-> "scan", epoch |-> s.epoch, scan |-> FoundBy(s.latest + 1)]}]

\* A result is shown and saved unless the data was cleared meanwhile.
ScanEnds(c) ==
  /\ c.op = "scan"
  /\ \E found \in BOOLEAN :
       LET t == [s EXCEPT !.calls = Without(c), !.scanning = FALSE,
                          !.loading = IF c.epoch = s.epoch THEN FALSE ELSE @]
       IN s' = IF found /\ c.epoch = s.epoch THEN Write(Show(t, c.scan), c.scan) ELSE t

Cancel == s.loading /\ s.acts > 0 /\ s' = Spend

\* Everything is forgotten; the cancellation is awaited, then the cache cleared.
Clear ==
  /\ s.acts > 0
  /\ LET t == Show([Spend EXCEPT !.touched = TRUE, !.epoch = @ + 1, !.loading = FALSE], NoScan)
     IN s' = IF s.scanning THEN [t EXCEPT !.calls = @ \cup {[op |-> "stopped", latest |-> s.latest]}]
             ELSE WriteClear(t, s.latest)

Stopped(c) ==
  /\ c.op = "stopped"
  /\ s' = WriteClear([s EXCEPT !.calls = Without(c)], c.latest)

\* What was deleted leaves the result; a group of one is no group.
RemovePaths(t, paths) ==
  IF t.shown.at = 0 \/ paths = {} THEN t
  ELSE LET rest == t.shown.group \ paths
           updated == [t.shown EXCEPT !.group = IF Cardinality(rest) < 2 THEN {} ELSE rest, !.old = @ \ paths]
       IN Write([t EXCEPT !.shown = updated], updated)

----------------------------------------------------------------------------
(* The page.                                                               *)

SelectedDuplicates == IF s.grouped THEN s.shown.group \ {s.kept} ELSE {}
SelectedOld == s.chosen \cap s.shown.old

MayChoose == s.acts > 0 /\ s.shown.at # 0 /\ ~s.loading /\ ~s.dialog.open

ToggleGroup ==
  /\ MayChoose /\ s.shown.group # {}
  /\ s' = [Spend EXCEPT !.outcome = FALSE, !.grouped = ~@]

KeepFile(f) ==
  /\ MayChoose /\ f \in s.shown.group
  /\ s' = [Spend EXCEPT !.outcome = FALSE, !.kept = f]

ToggleOldFile(f) ==
  /\ MayChoose /\ f \in s.shown.old
  /\ s' = [Spend EXCEPT !.outcome = FALSE, !.chosen = IF f \in @ THEN @ \ {f} ELSE @ \cup {f}]

OpenProcessingDialog(kind) ==
  LET files == IF kind = "old" THEN SelectedOld ELSE SelectedDuplicates
  IN /\ MayChoose /\ files # {}
     /\ s' = [Spend EXCEPT !.kind = kind, !.outcome = FALSE, !.dialog = Opened(@, files, "trash")]

Dialog(d) == s' = [s EXCEPT !.dialog = d]

PrepareDeleteLease(c) == c.op = "prepare" /\ \E d \in Prepared(s.dialog, c) : Dialog(d)

Recheck == s.acts > 0 /\ MayRecheck(s.dialog) /\ s' = [Spend EXCEPT !.dialog = Rechecked(@)]

ChangeDeleteMode(mode) ==
  /\ s.acts > 0 /\ MaySwitch(s.dialog) /\ mode # s.dialog.mode
  /\ s' = [Spend EXCEPT !.dialog = Switching(@, mode)]

ModeChanged(c) == c.op = "switch" /\ \E d \in Switched(s.dialog, c) : Dialog(d)

Acknowledge == MayAcknowledge(s.dialog) /\ Dialog(Acknowledged(s.dialog))

CloseDeleteDialog == s.dialog.open /\ ~s.dialog.busy.submitting /\ Dialog(Closed(s.dialog))

ConfirmProcessing == MayConfirm(s.dialog) /\ Dialog(Confirmed(s.dialog))

\* The deleted files leave the result before the page applies the deletion.
Processed(c) ==
  /\ c.op = "execute" /\ Executable(s.dialog, c)
  /\ \E deleted \in SUBSET s.dialog.items :
       s' = RemovePaths([s EXCEPT !.dialog = Forgotten(Taken(@, c)), !.outcome = TRUE,
                                  !.removed = @ \cup {[kind |-> s.kind, files |-> deleted,
                                                       rest |-> s.shown.group \ deleted,
                                                       of |-> s.shown.group]},
                                  !.applying = TRUE], deleted)

ProcessingFails(c) ==
  /\ c.op = "execute"
  /\ \E used \in BOOLEAN :
       Dialog(Failed(IF used /\ Executable(s.dialog, c) THEN Taken(s.dialog, c)
                     ELSE [s.dialog EXCEPT !.calls = @ \ {c}]))

DeletionApplied ==
  /\ s.applying
  /\ \E ok \in BOOLEAN :
       s' = [s EXCEPT !.applying = FALSE, !.dialog = IF ok THEN Closed(@) ELSE Failed(@)]

CancelProcessing == MayCancel(s.dialog) /\ Dialog(Cancelling(s.dialog))

ProcessingCancelled(c) == c.op = "stop" /\ \E d \in CancelAnswered(s.dialog, c) : Dialog(d)

Operations == {"load", "verify", "adopt", "scan", "stopped", "prepare", "switch", "execute", "stop"}

AnswerOf(op) ==
  \/ \E c \in s.calls :
       c.op = op /\ (Load(c) \/ Verify(c) \/ AdoptCached(c) \/ ScanEnds(c) \/ Stopped(c))
  \/ \E c \in s.dialog.calls :
       /\ c.op = op
       /\ \/ PrepareDeleteLease(c) \/ ModeChanged(c) \/ Processed(c)
          \/ ProcessingFails(c) \/ ProcessingCancelled(c)

Next ==
  \/ Scan \/ Cancel \/ Clear \/ ToggleGroup \/ WriteEnds
  \/ \E f \in Files : KeepFile(f) \/ ToggleOldFile(f)
  \/ \E kind \in Kinds : OpenProcessingDialog(kind)
  \/ \E mode \in Modes : ChangeDeleteMode(mode)
  \/ Recheck \/ Acknowledge \/ CloseDeleteDialog \/ ConfirmProcessing \/ CancelProcessing
  \/ \E op \in Operations : AnswerOf(op)
  \/ DeletionApplied

----------------------------------------------------------------------------
\* After a clear neither the disk nor the page holds a result of a scan begun
\* before it, whatever was being saved, verified, scanned or deleted.
ClearedIsGone ==
  /\ s.disk.at = 0 \/ s.disk.at > s.clears
  /\ s.shown.at = 0 \/ s.shown.at > s.clears

\* Processing duplicates keeps one file of the group (cleanup.json:404, "Every
\* selected group explicitly keeps one file").
OneCopyIsKept == \A r \in s.removed : r.kind = "duplicates" /\ r.of # {} => r.rest # {}

DeletedAsConfirmed == DeletesAsConfirmed(s.dialog)

\* A page that shows a scan as running stops showing it.
Waiting == s.loading
=============================================================================
