---------------------------- MODULE MonitoringMC ----------------------------
(***************************************************************************)
(* What the program makes of its samples, for TLC: the sampler itself, the *)
(* list of processes and the network page, findings, incidents, alerts,    *)
(* histories, reviews, starts and the record of actions.  Each has a state *)
(* of its own, so a behaviour runs one of them, named by focus.            *)
(***************************************************************************)
EXTENDS Naturals

VARIABLES focus, s

vars == <<focus, s>>

Findings == INSTANCE Diagnosis WITH MaxSamples <- 3
Trouble == INSTANCE Incidents WITH Watched <- {"temperature", "battery"}, MaxEvals <- 4, MaxReads <- 1
Bells == INSTANCE Alerts WITH MaxEvals <- 6, MaxActs <- 1, MaxTurns <- 3
Past == INSTANCE Histories WITH
          Bucket <- 3, Retention <- 7, Limit <- 2, MaxSamples <- 3, RecordRetention <- 3, MaxActs <- 3
Weeks == INSTANCE Reviews WITH MaxPoints <- 4
Monitor == INSTANCE SystemMonitor WITH MaxTurns <- 3, MaxSamples <- 2, Window <- 2, Misses <- 2
List == INSTANCE ProcessList WITH MaxSamples <- 2, MaxActs <- 2
Network == INSTANCE NetworkPage WITH MaxSamples <- 3, MaxTurns <- 3, Page <- 2
Starts == INSTANCE Startup WITH MaxTurns <- 3, Limit <- 3, Quiet <- 2, Kept <- 2

Init ==
  \/ focus = "findings" /\ Findings!Init
  \/ focus = "trouble" /\ Trouble!Init
  \/ focus = "bells" /\ Bells!Init
  \/ focus = "past" /\ Past!Init
  \/ focus = "weeks" /\ Weeks!Init
  \/ focus = "monitor" /\ Monitor!Init
  \/ focus = "list" /\ List!Init
  \/ focus = "network" /\ Network!Init
  \/ focus = "starts" /\ Starts!Init

On(part) == focus = part /\ UNCHANGED focus

Next ==
  \/ On("findings") /\ Findings!Next
  \/ On("trouble") /\ Trouble!Next
  \/ On("bells") /\ Bells!Next
  \/ On("past") /\ Past!Next
  \/ On("weeks") /\ Weeks!Next
  \/ On("monitor") /\ Monitor!Next
  \/ On("list") /\ List!Next
  \/ On("network") /\ Network!Next
  \/ On("starts") /\ Starts!Next

\* The native side answers what it is asked for, and delivers what it sends; of
\* what a page waits for, something comes.
Answering ==
  /\ \A r \in Trouble!Operations : WF_vars(On("trouble") /\ Trouble!AnswerOf(r))
  /\ WF_vars(On("monitor") /\ \E op \in Monitor!Operations : Monitor!AnswerOf(op))
  /\ WF_vars(On("network") /\ \E op \in Network!Operations : Network!AnswerOf(op))
  /\ WF_vars(On("starts") /\ \E op \in Starts!Operations : Starts!AnswerOf(op))

Spec == Init /\ [][Next]_vars /\ Answering

----------------------------------------------------------------------------
\* What the program claims was seen: a load is called sustained, an incident
\* active or resolved and a value unusual only on samples that say so, without
\* a gap, the strip of the day tells of the incidents there are, and what is
\* offered to be closed is part of what is blamed.  Sleep is called kept away,
\* a start changed and a reading fresh only on what was read for it.
ClaimsAreEarned ==
  /\ focus = "findings" => Findings!SustainedIsSeen /\ Findings!ClosesTheBlamed
  /\ focus = "trouble" => Trouble!ActiveIsConfirmed /\ Trouble!ResolvedIsCalm /\ Trouble!StripAgrees
  /\ focus = "weeks" => Weeks!UnusualIsEarned
  /\ focus = "monitor" => Monitor!SleepIsExplained /\ Monitor!ForcedIsFresh
  /\ focus = "starts" => Starts!ComparedFairly

\* The histories and what is told of them agree with what was sampled and
\* done: what the main history, the energy sessions and the reviews hold adds up
\* to their samples, what was written can be read again, no process has the
\* history or the row of another, and a page that knows of a clear shows nothing
\* from before it, but for samples of the network it keeps when it learns of a
\* newer result first.  Of the connections, the newest sample is counted or
\* being looked up unless a change of the retention cut that short, one before
\* it may be dropped, and each counts once for each time the history was on or
\* was turned on while it was the newest.
NothingIsMiscounted ==
  /\ focus = "past" => Past!KeptAsSampled /\ Past!ShownAsKept /\ Past!WrittenIsReadable /\ Past!RunningIsOfSession
                     /\ Past!OneOutcome
  /\ focus = "weeks" => Weeks!PeriodsAddUp /\ Weeks!SessionsAreOnBattery
  /\ focus = "monitor" => Monitor!SamplesInOrder /\ Monitor!EnergyStaysCleared
  /\ focus = "list" => List!EachIsListedOnce /\ List!HistoryIsItsOwn
  /\ focus = "network" => Network!ClearedStaysCleared /\ Network!CountedOnce /\ Network!NothingIsMiscounted
  /\ focus = "starts" => Starts!MeasuredOnce

\* An alert ends before it begins again, is kept as it was, the review of the
\* week is announced once, no name is kept that may not be, and notices are off
\* when they were turned off.  The sampler is told what the window wants, and a
\* change at the start as it happened.
ToldOnce ==
  /\ focus = "bells" => Bells!EventsAlternate /\ Bells!EventsAreKept /\ Bells!StillHappening /\ Bells!NoticesAreSettled
  /\ focus = "weeks" => Weeks!AnnouncedOnce
  /\ focus = "past" => Past!NamesAreRedacted
  /\ focus = "monitor" => Monitor!SamplerFollows
  /\ focus = "starts" => Starts!RecordedAsHappened

\* A step never loses an incident that is not over, never shows a window an
\* older state than it had, never repeats a reminder within its cooldown, takes
\* no sample while sampling is paused, and moves no process that is listed.
NeverStepsBack ==
  [][/\ focus = "trouble" => Trouble!NoIncidentIsLost /\ Trouble!ShownIsNewest
     /\ focus = "bells" => Bells!RemindersAreRare
     /\ focus = "monitor" => Monitor!PausedStays
     /\ focus = "list" => List!PlacesAreKept]_vars

Waiting ==
  \/ focus = "monitor" /\ Monitor!Waiting
  \/ focus = "network" /\ Network!Waiting
  \/ focus = "starts" /\ Starts!Waiting

\* A window that listens comes to show the state published last, whatever the
\* order of what it hears and reads, and no page waits forever for what it asked.
ShownFollows ==
  /\ \A r \in Trouble!Operations :
       (focus = "trouble" /\ Trouble!Behind(r)) ~> ~(focus = "trouble" /\ Trouble!Behind(r))
  /\ Waiting ~> ~Waiting
=============================================================================
