---------------------------- MODULE CleanupPage ----------------------------
(***************************************************************************)
(* The page of the disk scan around the scan itself (module CleanupScan):  *)
(* what is to be scanned and with what access                              *)
(* (src/components/CleanupAssistant.tsx, src/cleanupScanTargets.ts), what  *)
(* finished scans are compared with (src/cleanupScanHistory.ts), and what  *)
(* a scan shows after files were removed (src/cleanupScanStore.ts).  The   *)
(* three do not meet, so that a behaviour is about one of them.            *)
(***************************************************************************)
EXTENDS Integers, Sequences, FiniteSets, FiniteSetsExt, SequencesExt

CONSTANTS
  MaxTurns,   \* bound of the model: operations of the user, scans, and removals
  PerTarget,  \* the scans of one target that are kept
  Kept        \* the scans that are kept

VARIABLE s

Spend == [s EXCEPT !.turns = @ - 1]
May(part) == s.of = part /\ s.turns > 0
Take(seq, n) == SubSeq(seq, 1, Min({n, Len(seq)}))
Larger(a, b) == IF a >= b THEN a ELSE b

----------------------------------------------------------------------------
(* The target of the next scan, and the access that it needs.              *)

SystemDisk(profile) == [kind |-> "system_disk", path |-> "none", profile |-> profile]
Folder(path) == [kind |-> "folder", path |-> path, profile |-> "complete"]
Volume == [kind |-> "volume", path |-> "v", profile |-> "complete"]
NoTarget == [kind |-> "none", path |-> "none", profile |-> "none"]
Profiles == {"common_locations", "complete"}
Targets == {SystemDisk(p) : p \in Profiles} \cup {Folder("f"), Volume}

StartTarget(snapshot, prefer) ==
  [of |-> "target", snapshot |-> snapshot, scan |-> 0, configured |-> 0,
   target |-> IF snapshot = NoTarget THEN SystemDisk("common_locations") ELSE snapshot,
   profile |-> IF snapshot.kind = "system_disk" THEN snapshot.profile ELSE "common_locations",
   recent |-> <<>>, expanded |-> FALSE, picking |-> FALSE, checks |-> {}, guide |-> FALSE, waiting |-> FALSE,
   opening |-> FALSE, error |-> FALSE, prefer |-> prefer, granted |-> FALSE, loading |-> FALSE,
   scanned |-> NoTarget, turns |-> MaxTurns]

TargetControlsBusy == s.loading \/ s.checks # {} \/ s.picking
TargetsShown == s.snapshot = NoTarget \/ s.expanded

\* The most recent first, each path once; the system disk is not one of them.
SaveRecentCleanupTarget(recent, target) ==
  IF target.kind = "system_disk" THEN recent
  ELSE Take(<<target>> \o SelectSeq(recent, LAMBDA r : r.path # target.path), 5)

StartScan(t, target) ==
  [t EXCEPT !.recent = SaveRecentCleanupTarget(@, target), !.loading = TRUE, !.scanned = target]

\* The target of the scan is the one selected when access began to be checked.
CheckScanAccess(t, start, fallback) ==
  IF t.checks # {} \/ t.loading THEN t
  ELSE [t EXCEPT !.checks = {[start |-> start, fallback |-> fallback, target |-> t.target]}, !.error = FALSE]

RequestScan ==
  /\ May("target") /\ ~TargetControlsBusy
  /\ s' = IF s.target.kind = "system_disk" THEN CheckScanAccess(Spend, TRUE, s.prefer) ELSE StartScan(Spend, s.target)

\* Access is there, is not needed, is missing, or cannot be told.
ScanAccessIsAnswered ==
  /\ s.of = "target"
  /\ \E c \in s.checks, access \in {"ready", "missing", "failed"} :
       /\ s.granted => access # "missing"
       /\ ~s.granted => access # "ready"
       /\ LET known == [s EXCEPT !.checks = {}]
              free == [known EXCEPT !.guide = FALSE, !.waiting = FALSE]
          IN s' = CASE access = "ready" ->
                        LET full == [free EXCEPT !.prefer = FALSE] IN IF c.start THEN StartScan(full, c.target) ELSE full
                    [] access # "ready" /\ c.start /\ c.fallback -> StartScan(free, c.target)
                    [] OTHER -> [known EXCEPT !.guide = TRUE, !.error = (access = "failed")]

OpenAccessSettings ==
  /\ May("target") /\ ~s.opening /\ ~s.loading
  /\ s.guide \/ (s.snapshot # NoTarget /\ s.prefer)
  /\ s' = [Spend EXCEPT !.opening = TRUE, !.error = FALSE]

SettingsAreOpened ==
  /\ s.of = "target" /\ s.opening
  /\ s' \in {[s EXCEPT !.opening = FALSE, !.waiting = TRUE], [s EXCEPT !.opening = FALSE, !.error = TRUE]}

\* The user grants access where he was led to, and comes back to the window.
AccessIsGranted == May("target") /\ ~s.granted /\ s' = [Spend EXCEPT !.granted = TRUE]
RecheckWhenVisible == May("target") /\ s.waiting /\ s' = CheckScanAccess(Spend, TRUE, FALSE)

ScanAccessibleAreas ==
  /\ May("target") /\ s.guide /\ ~s.loading
  /\ s' = StartScan([Spend EXCEPT !.prefer = TRUE, !.guide = FALSE, !.waiting = FALSE, !.error = FALSE], s.target)

CloseGuide == May("target") /\ s.guide /\ ~s.loading /\ s' = [Spend EXCEPT !.guide = FALSE, !.waiting = FALSE]

\* The profile of the system disk is remembered while something else is selected.
SystemProfile(t) == IF t.target.kind = "system_disk" THEN t.target.profile ELSE t.profile

SelectTarget(target) ==
  /\ May("target") /\ ~TargetControlsBusy /\ TargetsShown
  /\ target.kind = "volume" \/ target = SystemDisk(SystemProfile(s)) \/ target \in ToSet(s.recent)
  /\ s' = [Spend EXCEPT !.profile = SystemProfile(s), !.target = target,
                        !.guide = FALSE, !.waiting = FALSE, !.error = FALSE]

SelectProfile(profile) ==
  /\ May("target") /\ ~TargetControlsBusy /\ TargetsShown /\ s.target.kind = "system_disk"
  /\ s' = [Spend EXCEPT !.target.profile = profile]

ChooseFolder ==
  May("target") /\ ~TargetControlsBusy /\ TargetsShown /\ s' = [Spend EXCEPT !.picking = TRUE, !.waiting = FALSE]

FolderIsChosen ==
  /\ s.of = "target" /\ s.picking
  /\ LET done == [s EXCEPT !.picking = FALSE]
     IN s' \in {done, [done EXCEPT !.profile = SystemProfile(s), !.target = Folder("f"),
                                   !.guide = FALSE, !.error = FALSE, !.recent = SaveRecentCleanupTarget(@, Folder("f"))]}

\* What is shown is also what the next scan is about, once for each scan that comes to be shown.
Configured(t) ==
  IF t.scan = t.configured THEN t
  ELSE [t EXCEPT !.configured = t.scan, !.target = t.snapshot, !.profile = SystemProfile([t EXCEPT !.target = t.snapshot]),
                 !.expanded = FALSE]

ScanEnds ==
  /\ s.of = "target" /\ s.loading
  /\ s' \in {[s EXCEPT !.loading = FALSE], Configured([s EXCEPT !.loading = FALSE, !.snapshot = s.scanned, !.scan = @ + 1])}

\* A scan that was begun elsewhere is found, on opening the page or when it is announced.
ReloadLatestSnapshot ==
  /\ May("target") /\ ~s.loading
  /\ \E target \in Targets : s' = Configured([Spend EXCEPT !.snapshot = target, !.scan = @ + 1])

ContinueWithCompleteScan ==
  /\ May("target") /\ ~s.loading /\ s.snapshot.profile = "common_locations"
  /\ s' = [Spend EXCEPT !.target = SystemDisk("complete"), !.scanned = SystemDisk("complete"), !.loading = TRUE]

EditTargets == May("target") /\ ~TargetControlsBusy /\ s.snapshot # NoTarget /\ s' = [Spend EXCEPT !.expanded = ~@]

----------------------------------------------------------------------------
(* The scans that are kept to tell what grew: some of each target.  A scan *)
(* has a time and the size of what it found; the log of all of them is     *)
(* kept here to compare with.                                              *)

StartHistory == [of |-> "history", kept |-> <<>>, log |-> {}, turns |-> MaxTurns]
Newer(a, b) == a.at > b.at \/ (a.at = b.at /\ a.key < b.key)
ByTime(set) == SetToSortSeq(set, Newer)

AppendCleanupScanSnapshot(kept, next) ==
  LET all == ToSet(kept)
      same == {x \in all : x.key = next.key /\ x.at # next.at}
      others == {x \in all : x.key # next.key}
  IN Take(ByTime(others \cup {next} \cup ToSet(Take(ByTime(same), PerTarget - 1))), Kept)

\* The nearest earlier scan of the same target.
CleanupScanGrowthComparison(kept, scan) ==
  LET before == SelectSeq(kept, LAMBDA x : x.key = scan.key /\ x.at < scan.at)
  IN IF before = <<>> THEN [since |-> 0, growth |-> 0]
     ELSE [since |-> before[1].at, growth |-> scan.size - before[1].size]

\* Scans end one after the other, and the last one is found again when the page is opened.
ScanIsKept ==
  /\ May("history")
  /\ \E key \in {1, 2}, at \in 1..MaxTurns, size \in {1, 3} :
       LET scan == [key |-> key, at |-> at, size |-> size]
       IN /\ (\A x \in s.log : x.at < at) \/ (scan \in s.log /\ \A x \in s.log : x.at <= at)
          /\ s' = [Spend EXCEPT !.kept = AppendCleanupScanSnapshot(@, scan), !.log = @ \cup {scan}]

----------------------------------------------------------------------------
(* What a scan shows after a removal.  A path is a sequence of names; some *)
(* of what a folder holds is not listed, and counts all the same.          *)

Files == {<<1, 1, 1>>, <<1, 1, 2>>, <<1, 2>>, <<2, 1>>, <<2, 2>>}
Listed == {<<>>, <<1>>, <<1, 1>>, <<1, 1, 1>>, <<2>>, <<2, 2>>}
SizeOf(file) == Len(file) + file[1]
Within(path, ancestor) == IsPrefix(ancestor, path)
Size(disk, path) == MapThenSumSet(SizeOf, {f \in disk : Within(f, path)})
Count(disk, path) == Cardinality({f \in disk : Within(f, path)})

StartTree == [of |-> "tree", disk |-> Files, tree |-> [p \in Listed |-> [size |-> Size(Files, p), items |-> Count(Files, p)]],
              largest |-> {f \in Files : SizeOf(f) >= 4}, turns |-> MaxTurns]

\* A folder that held a target lost what the target was said to hold; the target itself is gone.
ReconcileCleanupNodeAfterDeletion(node, path, targets) ==
  LET nested == {t \in targets : Within(t.path, path)}
  IN [size |-> Larger(0, node.size - MapThenSumSet(LAMBDA t : t.size, nested)),
      items |-> Larger(0, node.items - MapThenSumSet(LAMBDA t : t.items, nested))]

\* Fault: only what was listed is taken off the folders that held it.
ReconcileListed(t, targets) ==
  LET left == {p \in DOMAIN t.tree : \A d \in targets : ~Within(p, d.path)}
      listed == {d \in targets : d.path \in DOMAIN t.tree}
  IN [t EXCEPT !.tree = [p \in left |-> ReconcileCleanupNodeAfterDeletion(@[p], p, listed)],
               !.largest = {f \in @ : \A d \in targets : ~Within(f, d.path)}]

ReconcileCleanupScanAfterDeletion(t, targets) ==
  LET left == {p \in DOMAIN t.tree : \A d \in targets : ~Within(p, d.path)}
  IN [t EXCEPT !.tree = [p \in left |-> ReconcileCleanupNodeAfterDeletion(@[p], p, targets)],
               !.largest = {f \in @ : \A d \in targets : ~Within(f, d.path)}]

\* Files and folders are removed that are not part of one another, as they were on the disk.
FilesAreRemoved ==
  /\ May("tree")
  /\ \E paths \in SUBSET ((Files \cup Listed) \ {<<>>}) :
       /\ Cardinality(paths) \in 1..2
       /\ \A p, q \in paths : p # q => ~Within(p, q)
       /\ \A p \in paths : Count(s.disk, p) > 0
       /\ LET targets == {[path |-> p, size |-> Size(s.disk, p), items |-> Count(s.disk, p)] : p \in paths}
          IN s' = [ReconcileCleanupScanAfterDeletion(Spend, targets) EXCEPT
                     !.disk = {f \in @ : \A p \in paths : ~Within(f, p)}]

----------------------------------------------------------------------------
Init ==
  \/ \E prefer \in BOOLEAN, snapshot \in {NoTarget, SystemDisk("common_locations")} : s = StartTarget(snapshot, prefer)
  \/ s = StartHistory
  \/ s = StartTree

Next ==
  \/ RequestScan \/ ScanAccessIsAnswered \/ OpenAccessSettings \/ SettingsAreOpened \/ AccessIsGranted \/ RecheckWhenVisible
  \/ ScanAccessibleAreas \/ CloseGuide \/ ChooseFolder \/ FolderIsChosen \/ ScanEnds \/ ReloadLatestSnapshot
  \/ ContinueWithCompleteScan \/ EditTargets
  \/ (\E target \in Targets : SelectTarget(target)) \/ (\E profile \in Profiles : SelectProfile(profile))
  \/ ScanIsKept \/ FilesAreRemoved

----------------------------------------------------------------------------
Waiting == s.of = "target" /\ (s.checks # {} \/ s.picking \/ s.opening)
Operations == {"access", "folder", "settings"}
AnswerOf(op) ==
  CASE op = "access" -> ScanAccessIsAnswered
    [] op = "folder" -> FolderIsChosen
    [] op = "settings" -> SettingsAreOpened

\* What grew since the last scan is told against the nearest earlier scan of the same target, however
\* the scans of several targets come in and are dropped, and it is told as long as there is room.
GrowthIsSinceTheLast ==
  s.of = "history" =>
    \A scan \in ToSet(s.kept) :
      LET c == CleanupScanGrowthComparison(s.kept, scan)
          earlier == {x.at : x \in {y \in s.log : y.key = scan.key /\ y.at < scan.at}}
          last == \A x \in s.log : x.key = scan.key => x.at <= scan.at
      IN /\ c.since # 0 => c.since = Max(earlier) /\ \E x \in s.log : x.at = c.since /\ c.growth = scan.size - x.size
         /\ (c.since = 0 /\ last /\ Len(s.kept) < Kept) => earlier = {}

\* After any removals, each folder shown has the size and the number of what it still holds on the
\* disk, and nothing shown is gone.
TreeMatchesDisk ==
  s.of = "tree" =>
    /\ \A p \in DOMAIN s.tree : s.tree[p] = [size |-> Size(s.disk, p), items |-> Count(s.disk, p)]
    /\ s.largest \subseteq s.disk
============================================================================
