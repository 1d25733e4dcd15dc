------------------------------- MODULE ToolsMC -------------------------------
(***************************************************************************)
(* The pages and windows that carry out what the user asks for, for TLC:   *)
(* processes, tools, images, the keyboard, updates, the chat with its      *)
(* settings, and the companion.  Each has a state of its own, so a         *)
(* behaviour runs one of them, named by focus, with the bounds given here. *)
(***************************************************************************)
EXTENDS Naturals

\* bounds of the model: what is begun and done on the pages that hold something,
\* and the times of the keyboard's session in seconds
CONSTANTS KillActs, KillTurns, PatchJobs, PatchTurns, ImageJobs, ImageTurns, SimpleTurns,
          Prep, Grace, Dur, Sessions, Late

\* Either side of the keyboard's session waits some time for the other (three
\* seconds in the code).
ASSUME BoundsAssumption ==
  /\ {KillActs, KillTurns, PatchJobs, PatchTurns, ImageJobs, ImageTurns, SimpleTurns} \subseteq Nat
  /\ {Prep, Dur, Sessions, Late} \subseteq Nat /\ Grace \in Nat \ {0}

VARIABLES focus, s

vars == <<focus, s>>

Folders == INSTANCE CleanupView WITH MaxTurns <- 3, MaxArcs <- 5
Kill == INSTANCE ProcessControl WITH MaxActs <- KillActs, MaxTurns <- KillTurns
Patch == INSTANCE BinaryPatch WITH MaxJobs <- PatchJobs, MaxTurns <- PatchTurns
Engine == INSTANCE ImageExecution WITH MaxItems <- 2, MaxLoads <- 3
Images == INSTANCE ImageTools WITH MaxJobs <- ImageJobs, MaxTurns <- ImageTurns, Recipients <- 2
Simple == INSTANCE ToolPages WITH MaxTurns <- SimpleTurns, Period <- 1, Grace <- 0, Receipts <- 8, Bits <- 3
Keys == INSTANCE KeyboardCleaning WITH MaxSessions <- Sessions, MaxLate <- Late, Platform <- BOOLEAN
Update == INSTANCE AppUpdate WITH MaxTurns <- 4, Releases <- 2, Retries <- 1
Chat == INSTANCE AiChat WITH MaxTurns <- 3
Places == INSTANCE AiSettings WITH MaxTurns <- 3, MaxHeard <- 1, Models <- {1}
Robin == INSTANCE Companion WITH MaxTurns <- 3

Init ==
  \/ focus = "folders" /\ Folders!Init
  \/ focus = "kill" /\ Kill!Init
  \/ focus = "patch" /\ Patch!Init
  \/ focus = "engine" /\ Engine!Init
  \/ focus = "images" /\ Images!Init
  \/ focus = "simple" /\ Simple!Init
  \/ focus = "keys" /\ Keys!Init
  \/ focus = "update" /\ Update!Init
  \/ focus = "chat" /\ Chat!Init
  \/ focus = "places" /\ Places!Init
  \/ focus = "robin" /\ Robin!Init

On(page) == focus = page /\ UNCHANGED focus

Next ==
  \/ On("folders") /\ Folders!Next
  \/ On("kill") /\ Kill!Next
  \/ On("patch") /\ Patch!Next
  \/ On("engine") /\ Engine!Next
  \/ On("images") /\ Images!Next
  \/ On("simple") /\ Simple!Next
  \/ On("keys") /\ Keys!Next
  \/ On("update") /\ Update!Next
  \/ On("chat") /\ Chat!Next
  \/ On("places") /\ Places!Next
  \/ On("robin") /\ Robin!Next

\* The native side and the workers answer, windows hear what is sent, timers
\* fire: a page goes on while something can answer it, whichever that is.  An
\* update that is asked for again and again, and a draft whose saves may fail
\* forever, do not keep the other answers away.
Answering ==
  /\ WF_vars(On("folders") /\ \E op \in Folders!Operations : Folders!AnswerOf(op))
  /\ WF_vars(On("kill") /\ \E op \in Kill!Operations : Kill!AnswerOf(op))
  /\ WF_vars(On("patch") /\ \E op \in Patch!Operations : Patch!AnswerOf(op))
  /\ WF_vars(On("engine") /\ \E op \in Engine!Operations : Engine!AnswerOf(op))
  /\ WF_vars(On("images") /\ \E op \in Images!Operations : Images!AnswerOf(op))
  /\ WF_vars(On("simple") /\ \E op \in Simple!Operations : Simple!AnswerOf(op))
  /\ WF_vars(On("keys") /\ \E op \in Keys!Operations : Keys!AnswerOf(op))
  /\ \A op \in Update!Operations : WF_vars(On("update") /\ Update!AnswerOf(op))
  /\ \A op \in Chat!Operations : WF_vars(On("chat") /\ Chat!AnswerOf(op))
  /\ WF_vars(On("places") /\ \E op \in Places!Operations : Places!AnswerOf(op))
  /\ WF_vars(On("robin") /\ \E op \in Robin!Operations : Robin!AnswerOf(op))

Spec == Init /\ [][Next]_vars /\ Answering

----------------------------------------------------------------------------
\* What is carried out is what was confirmed, with what was shown when it was,
\* once, and recorded as it happened: a signal to a process, a picture run, a
\* cleaning of the keyboard, an installed update, a key saved for a place; a
\* scheduled occurrence, as long as the clock was not set back; and a draft is
\* saved over another only where the window had shown that one.  The volume that
\* is ejected may be one chosen before, and a question that is sent empties the
\* draft of the other window: nothing is said of these two.
DoneAsAsked ==
  /\ focus = "kill" => Kill!ActsAsConfirmed /\ Kill!RecordedAsHappened
  /\ focus = "simple" => Simple!OncePerRequest /\ Simple!OncePerOccurrence
  /\ focus = "engine" => Engine!NothingRunsUnseen /\ Engine!HandedOnAsAsked
  /\ focus = "keys" => Keys!ActiveWasConfirmed
  /\ focus = "update" => Update!ReadyIsInstalled
  /\ focus = "places" => Places!KeysAreTheirOwn /\ Places!FormMayBeSaved
  /\ focus = "chat" => Chat!NothingIsReplacedUnseen

\* Whatever is given up, left, cancelled or refused: no native job goes on that
\* its page neither waits for nor sees to again, unless the page told that it
\* could not be sure; no input is held without such a job; and neither the address
\* of a picture, a file opened for its hash, the lease of a dialog nor the keyboard
\* stays with nobody.  A patch job is told as cancelled only when it is.  Nothing is
\* said of outputs that nobody saved: a job cancelled as a whole while its output
\* waits keeps the bytes, and one of a picture page that was left keeps them until
\* they expire.
NothingIsHeld ==
  /\ focus = "images" => Images!NothingIsLeftBehind /\ Images!UrlsAreRevoked
  /\ focus = "simple" => Simple!HashIsReleased /\ Simple!LeaseEndsWithPage
  /\ focus = "patch" => Patch!JobsAreWatched /\ Patch!CancelIsTold
  /\ focus = "kill" => Kill!DialogsAreLive
  /\ focus = "keys" => Keys!KeysComeBack

\* What a page shows is so: the mask while keys are filtered, a result of the
\* inputs it names, a stopped job without a result, a list of the folder above
\* it, a check of the settings that are saved, a window that is open.
ShownIsSo ==
  /\ focus = "keys" => Keys!BlockedIsMasked
  /\ focus = "images" => Images!StoppedShowsNothing /\ Images!ListedIsDelivered
  /\ focus = "folders" => Folders!ListIsOfTheFocus /\ Folders!ChartIsWhole
  /\ focus = "robin" => Robin!ShownAsAsked /\ Robin!ChatIsKnown
  /\ focus = "places" => Places!TriedAsShown /\ Places!ChecksAreOfTheSaved
  /\ focus = "patch" => Patch!PlanAddsUp /\ Patch!ResultsAreWhole
  /\ focus = "simple" => Simple!AddressesAddUp

\* A step that takes an answer never undoes what the user did since it was asked: a
\* folder is shown where the user last asked to go; a text tool publishes no result
\* for other inputs (that a run failed it may tell) and nothing from before a clear;
\* an assessment ends once; a draft that is being written is dropped only as
\* TypedIsKept says; and no release is offered that was put off.
LateAnswersFit ==
  [][/\ focus = "folders" => Folders!LandsWhereLastAsked
     /\ focus = "simple" => Simple!LateResultFits
     /\ focus = "engine" => Engine!EndsOnce
     /\ focus = "chat" => Chat!TypedIsKept
     /\ focus = "update" => Update!OfferedStep]_vars

Waiting ==
  \/ focus = "folders" /\ Folders!Waiting
  \/ focus = "kill" /\ Kill!Waiting
  \/ focus = "patch" /\ Patch!Waiting
  \/ focus = "engine" /\ Engine!Waiting
  \/ focus = "images" /\ Images!Waiting
  \/ focus = "simple" /\ Simple!Waiting
  \/ focus = "keys" /\ Keys!Waiting
  \/ focus = "update" /\ Update!Waiting
  \/ focus = "chat" /\ Chat!Waiting
  \/ focus = "places" /\ Places!Waiting
  \/ focus = "robin" /\ Robin!Waiting

\* Nothing stays busy: every run, dialog, session and window that waits for an
\* answer, a worker or a timer goes on when it comes, with it or without it.
ToolsEnd == Waiting ~> ~Waiting
=============================================================================
