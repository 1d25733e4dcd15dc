---------------------------- MODULE MaintenanceMC ----------------------------
(***************************************************************************)
(* The pages that remove things, for TLC: each has a state of its own, so  *)
(* a behaviour runs one of them, named by focus, and the bounds are those  *)
(* of that page alone.  The properties are the promises the pages share.   *)
(* The pages around them, where a scan is chosen, histories are read and   *)
(* the preferences are kept, belong to the same promises.                  *)
(***************************************************************************)
EXTENDS Naturals

\* bounds of the model: operations begun by the user or a scan, on each of the
\* pages that delete or clear
CONSTANTS MapActs, QuickActs, FileActs, AppActs, ScanActs, NativeActs, PrefTurns

ASSUME ActsAssumption ==
  {MapActs, QuickActs, FileActs, AppActs, ScanActs, NativeActs, PrefTurns} \subseteq Nat

VARIABLES focus, s

vars == <<focus, s>>

Scan == INSTANCE CleanupScan WITH MaxBegun <- ScanActs
Map == INSTANCE CleanupMap WITH MaxActs <- MapActs
Quick == INSTANCE QuickCleanup WITH MaxActs <- QuickActs
Files == INSTANCE FileInsights WITH MaxActs <- FileActs
Apps == INSTANCE Uninstall WITH MaxActs <- AppActs
Native == INSTANCE NativeHistory WITH MaxActs <- NativeActs
Privacy == INSTANCE DataPrivacy WITH MaxActs <- 3, Categories <- {"resourceHistory", "scanCaches"}
Start == INSTANCE CleanupPage WITH MaxTurns <- 4, PerTarget <- 2, Kept <- 4
Pages == INSTANCE HistoryPage WITH MaxTurns <- 3, Retention <- 3, Shown <- 2
Prefs == INSTANCE Settings WITH MaxTurns <- PrefTurns, MaxRules <- 1

Init ==
  \/ focus = "scan" /\ Scan!Init
  \/ focus = "map" /\ Map!Init
  \/ focus = "quick" /\ Quick!Init
  \/ focus = "files" /\ Files!Init
  \/ focus = "apps" /\ Apps!Init
  \/ focus = "native" /\ Native!Init
  \/ focus = "privacy" /\ Privacy!Init
  \/ focus = "start" /\ Start!Init
  \/ focus = "pages" /\ Pages!Init
  \/ focus = "prefs" /\ Prefs!Init

On(page) == focus = page /\ UNCHANGED focus

Next ==
  \/ On("scan") /\ Scan!Next
  \/ On("map") /\ Map!Next
  \/ On("quick") /\ Quick!Next
  \/ On("files") /\ Files!Next
  \/ On("apps") /\ Apps!Next
  \/ On("native") /\ Native!Next
  \/ On("privacy") /\ Privacy!Next
  \/ On("start") /\ Start!Next
  \/ On("pages") /\ Pages!Next
  \/ On("prefs") /\ Prefs!Next

\* The native side answers, a worker ends, a timer fires: what the pages wait for.
Answering ==
  /\ WF_vars(On("scan") /\ Scan!JobEnds)
  /\ \A op \in Scan!Operations : WF_vars(On("scan") /\ Scan!AnswerOf(op))
  /\ \A op \in Map!Operations : WF_vars(On("map") /\ Map!AnswerOf(op))
  /\ WF_vars(On("map") /\ Map!DeletionApplied)
  /\ WF_vars(On("quick") /\ Quick!WorkerEnds) /\ WF_vars(On("quick") /\ Quick!Refresh)
  /\ WF_vars(On("quick") /\ Quick!Answer)
  /\ \A op \in Files!Operations : WF_vars(On("files") /\ Files!AnswerOf(op))
  /\ \A op \in Apps!Operations : WF_vars(On("apps") /\ Apps!AnswerOf(op))
  /\ \A op \in Native!Operations : WF_vars(On("native") /\ Native!AnswerOf(op))
  /\ WF_vars(On("native") /\ Native!ClearStorage)
  /\ \A op \in Privacy!Operations : WF_vars(On("privacy") /\ Privacy!AnswerOf(op))
  /\ \A op \in Start!Operations : WF_vars(On("start") /\ Start!AnswerOf(op))
  /\ \A op \in Pages!Operations : WF_vars(On("pages") /\ Pages!AnswerOf(op))
  /\ \A op \in Prefs!Operations : WF_vars(On("prefs") /\ Prefs!AnswerOf(op))

Spec == Init /\ [][Next]_vars /\ Answering

----------------------------------------------------------------------------
\* What a page removes is what the user confirmed, in the way confirmed: the
\* map's basket, the copies and old files, the items of an application and the
\* categories of the quick cleanup, whatever else happened in between.
RemovedAsConfirmed ==
  /\ focus = "map" => Map!DeletedAsConfirmed
  /\ focus = "files" => Files!DeletedAsConfirmed
  /\ focus = "apps" => Apps!RemovedAsConfirmed
  /\ focus = "quick" => Quick!TrashIsChosen

\* A result of the file insights, a history of the native files or a preference
\* that the user cleared does not come back from an answer, a file or a timer that
\* was under way.  Of the disk scan it is only said that no preview becomes what a
\* later scan falls back to, and that one loop at most follows the newest scan: a
\* cleared map does come back from a read or a deletion that was under way.
ClearedIsGone ==
  /\ focus = "files" => Files!ClearedIsGone
  /\ focus = "native" => Native!ClearedIsGone
  /\ focus = "scan" => Scan!PreviewIsNotKept
  /\ focus = "prefs" => Prefs!ClearedIsForgotten

\* What the pages say of the stores is so: a part told as cleared is empty, the
\* settings outlive the parts that failed, a skipped write has been made before.
\* The switches show what the system does, a preference that forbids histories
\* reaches the store unless an older change was still queued, the growth since a
\* scan is that of its target, the tree of what is left agrees with the disk, and
\* what is drawn and exported of the history is what was stored and asked for.
StoredAsTold ==
  /\ focus = "native" => Native!WrittenIsStored
  /\ focus = "privacy" => Privacy!ClearedIsVerified /\ Privacy!PreferencesGoLast
  /\ focus = "prefs" => Prefs!SwitchesAreTrue /\ Prefs!HistoryOffReachesStore /\ Prefs!PreferencesMakeSense
  /\ focus = "pages" => Pages!HistorySurvives /\ Pages!ExportedAsAsked /\ Pages!NewestAreShown /\ Pages!StoryIsShown
  /\ focus = "start" => Start!GrowthIsSinceTheLast /\ Start!TreeMatchesDisk

Waiting ==
  \/ focus = "scan" /\ Scan!Waiting
  \/ focus = "map" /\ Map!Waiting
  \/ focus = "quick" /\ Quick!Waiting
  \/ focus = "files" /\ Files!Waiting
  \/ focus = "apps" /\ Apps!Waiting
  \/ focus = "native" /\ Native!Waiting
  \/ focus = "privacy" /\ Privacy!Waiting
  \/ focus = "start" /\ Start!Waiting
  \/ focus = "pages" /\ Pages!Waiting
  \/ focus = "prefs" /\ Prefs!Waiting

\* No page stays busy: scans, deletions, uninstalls and clears end, cancelled
\* or not, when what they wait for answers.
WorkEnds == Waiting ~> ~Waiting
=============================================================================
