----------------------------- MODULE HistoryPage -----------------------------
(***************************************************************************)
(* The page of the histories.  Its parts that keep a state of their own:   *)
(* the applications' history and its storage                               *)
(* (useApplicationImpactHistory.ts), the export (HistoryExportPanel.tsx,   *)
(* historyExport.ts), and what is looked at (HistoryExplorer.tsx,          *)
(* ApplicationImpactHistoryPanel.tsx, TimeSeriesChart.tsx,                 *)
(* SystemEventReplay.tsx).  A behaviour is about one of the three.  How    *)
(* points are merged and thinned out is in Histories.                      *)
(***************************************************************************)
EXTENDS Integers, FiniteSets, FiniteSetsExt

CONSTANTS
  MaxTurns,  \* bound on what the user, the clock and the system do
  Retention, \* age after which a point is dropped
  Shown      \* events of a list that are shown

VARIABLE s

MayTurn == s.turns < MaxTurns
Turn(t) == [t EXCEPT !.turns = @ + 1]

----------------------------------------------------------------------------
\* The applications' history.  A point is the time of its sample.

\* `base` and `removed` are kept only to state the properties: what was read at the
\* start, and whether somebody removed it.
ImpactInit ==
  \E native \in {{}, {1}}, legacy \in {{}, {2}} :
    s = [of |-> "impact", turns |-> 0, now |-> 2, names |-> TRUE, wanted |-> TRUE, reset |-> FALSE,
         points |-> {}, native |-> native, legacy |-> legacy, hydrated |-> FALSE, failed |-> FALSE,
         load |-> "asked", read |-> {}, calls |-> {}, slot |-> FALSE, forced |-> FALSE, asked |-> 0, base |-> {}, removed |-> FALSE]

Enabled == s.names /\ s.wanted
Call(t, op, points, own) ==
  [t EXCEPT !.asked = @ + 1,
            !.calls = @ \cup {[id |-> s.asked, op |-> op, points |-> points, own |-> own, stage |-> "asked"]}]

\* The stored history is read, and the one of a former version moved.
StoreIsRead == s.load = "asked" /\ s' = [s EXCEPT !.load = "read", !.read = s.native]
StoreArrives ==
  /\ s.load = "read"
  /\ LET next == IF s.read # {} THEN s.read ELSE s.legacy
         t == [s EXCEPT !.load = "done", !.points = next, !.hydrated = TRUE, !.base = next]
     IN s' = IF s.read = {} /\ s.legacy # {} THEN Call(t, "migrate", s.legacy, FALSE) ELSE t
ReadFails(t) == [t EXCEPT !.points = t.legacy, !.hydrated = TRUE, !.failed = TRUE]
StoreIsUnreadable ==
  s.load \in {"asked", "read"} /\ s' = ReadFails([s EXCEPT !.load = "done"])

MergeSample(t) ==
  IF Enabled /\ t.hydrated
  THEN [t EXCEPT !.points = {p \in @ \cup {t.now} : p >= t.now - Retention}, !.base = {p \in @ : p >= t.now - Retention}]
  ELSE t
Sample == s.of = "impact" /\ MayTurn /\ s' = Turn(MergeSample([s EXCEPT !.now = @ + 1]))

\* Without the names nothing is kept, and what was is removed; an empty history asks for nothing.
SetNames ==
  /\ s.of = "impact" /\ MayTurn
  /\ s' = LET t == Turn([s EXCEPT !.names = ~@])
          IN IF ~t.names /\ s.points # {}
             THEN Call([t EXCEPT !.points = {}, !.legacy = {}, !.removed = TRUE], "forget", {}, FALSE) ELSE t
SetWanted == s.of = "impact" /\ MayTurn /\ s' = Turn([s EXCEPT !.wanted = ~@])

\* Fault: the history is saved before it was read.
SaveAnyway(force) == ~s.reset /\ Enabled /\ (force => ~s.forced)

\* flush: one save at a time; a forced one waits for it.
MaySave(force) == ~s.reset /\ Enabled /\ s.hydrated /\ (s.slot => force /\ ~s.forced)
Flush(force) ==
  /\ s.of = "impact" /\ MayTurn /\ MaySave(force)
  /\ s' = IF s.slot THEN Turn([s EXCEPT !.forced = TRUE])
          ELSE Turn(Call([s EXCEPT !.slot = TRUE], "save", s.points, TRUE))

Clear ==
  s.of = "impact" /\ MayTurn /\ s' = Turn(Call([s EXCEPT !.legacy = {}, !.removed = TRUE], "clear", {}, FALSE))
ResetBegins == s.of = "impact" /\ ~s.reset /\ MayTurn /\ s' = Turn([s EXCEPT !.reset = TRUE])

\* The commands run on threads of their own, in any order.
Serve(c) ==
  /\ c.stage = "asked"
  /\ LET done(stage) == [s EXCEPT !.calls = (@ \ {c}) \cup {[c EXCEPT !.stage = stage]}]
     IN s' \in {[done("done") EXCEPT !.native = c.points], done("failed")}

Migrated(t, c) == IF c.stage = "done" THEN [t EXCEPT !.legacy = {}] ELSE ReadFails(t)

\* The forced save that waited is made when the one before it has ended, whatever became of it.
Answered(c) ==
  /\ c.stage \in {"done", "failed"}
  /\ LET t == [s EXCEPT !.calls = @ \ {c}, !.failed = IF c.op = "forget" THEN @ ELSE c.stage = "failed"]
         freed == IF c.own THEN [t EXCEPT !.slot = FALSE, !.forced = FALSE] ELSE t
     IN s' = CASE c.op = "migrate" -> Migrated(t, c)
               [] c.op = "clear" -> IF c.stage = "done" THEN [t EXCEPT !.points = {}] ELSE t
               [] c.op = "save" /\ c.own /\ s.forced -> Call(freed, "save", s.points, FALSE)
               [] OTHER -> freed

----------------------------------------------------------------------------
\* The export.  A record has a time and, an action's or an application's, the
\* application it names.

Metrics == {"resource", "events", "actions", "applications"}
Ranges == {1, 2, 99}          \* the last day, the last week, everything
ExportSources ==
  {[at |-> 1, metric |-> "resource", app |-> 0], [at |-> 2, metric |-> "events", app |-> 0],
   [at |-> 2, metric |-> "actions", app |-> 2], [at |-> 2, metric |-> "applications", app |-> 2],
   [at |-> 3, metric |-> "applications", app |-> 1], [at |-> 3, metric |-> "applications", app |-> 2]}

ExportInit ==
  s = [of |-> "export", turns |-> 0, now |-> 3, sources |-> ExportSources, range |-> 2,
       metrics |-> Metrics \ {"applications"}, names |-> FALSE, saving |-> {}, files |-> {}, notice |-> "none"]

Selection == [range |-> s.range, metrics |-> s.metrics, names |-> s.names]

\* An application is called by its name or, not to be named, by a number of its own.
First(records, app) == Min({r.at : r \in {q \in records : q.app = app}})
Before(records, a, b) ==
  First(records, a) < First(records, b) \/ (First(records, a) = First(records, b) /\ a < b)

Number(records, r) ==
  Cardinality({a \in {q.app : q \in records} : a # r.app /\ Before(records, a, r.app)}) + 1

Named(record, names) == record.app # 0 /\ names

\* exportRows: the records of the metrics chosen, up to when the page was opened.  `of`
\* is kept only to state the properties.
InRange(r, range) == r.at >= s.now - range /\ r.at <= s.now
ExportRows(sources, chosen) ==
  LET records == {r \in sources : r.metric \in chosen.metrics /\ InRange(r, chosen.range)}
      applications == {r \in records : r.metric = "applications"}
      who(r) ==
        IF Named(r, chosen.names) THEN [named |-> TRUE, id |-> r.app]
        ELSE [named |-> FALSE, id |-> IF r.metric = "applications" THEN Number(applications, r) ELSE 0]
  IN {[of |-> r, who |-> who(r)] : r \in records}

ChooseRange(r) == s.of = "export" /\ s.range # r /\ MayTurn /\ s' = Turn([s EXCEPT !.range = r])
ToggleMetric(m) ==
  /\ s.of = "export" /\ MayTurn
  /\ s' = Turn([s EXCEPT !.metrics = IF m \in @ THEN @ \ {m} ELSE @ \cup {m}])
ToggleNames == s.of = "export" /\ MayTurn /\ s' = Turn([s EXCEPT !.names = ~@])
\* What is recorded meanwhile is newer than the page; a history may be cleared.
Recording ==
  /\ s.of = "export" /\ MayTurn
  /\ \E r \in {[at |-> 4, metric |-> "applications", app |-> 1]} : s' = Turn([s EXCEPT !.sources = @ \cup {r}])
SourcesAreCleared == s.of = "export" /\ MayTurn /\ s' = Turn([s EXCEPT !.sources = {}])

\* saveExport: the file is chosen first, and what is written is of the press.
SaveExport ==
  /\ s.of = "export" /\ s.metrics # {} /\ s.saving = {} /\ MayTurn
  /\ s' = Turn([s EXCEPT !.notice = "none",
                         !.saving = {[stage |-> "dialog", asked |-> Selection, sources |-> s.sources]}])

BuildExport(c) == ExportRows(c.sources, c.asked)
FileIsChosen(c) ==
  /\ c.stage = "dialog"
  /\ s' \in {[s EXCEPT !.saving = {}],
             [s EXCEPT !.saving = {[stage |-> "write", asked |-> c.asked, rows |-> BuildExport(c)]}]}
ExportIsWritten(c) ==
  /\ c.stage = "write"
  /\ s' \in {[s EXCEPT !.saving = {}, !.notice = "saved", !.files = {[asked |-> c.asked, rows |-> c.rows]}],
             [s EXCEPT !.saving = {}, !.notice = "error"]}

----------------------------------------------------------------------------
\* What is looked at.  A point has the activity of its applications; the chart shows
\* the points of a range in buckets that are larger in a longer range.

ChartRanges == {2, 5}
Bucket(range, at) == IF range = 2 THEN at ELSE at - (at % 2)
ViewInit ==
  s = [of |-> "view", turns |-> 0, now |-> 4,
       points |-> {[at |-> 0, score |-> 1], [at |-> 1, score |-> 2], [at |-> 3, score |-> 1], [at |-> 4, score |-> 3]},
       range |-> 2, focus |-> {}, selected |-> {}, hovered |-> 0, held |-> FALSE,
       events |-> {[at |-> 1, metric |-> "cpu"], [at |-> 3, metric |-> "memory"], [at |-> 4, metric |-> "cpu"]},
       from |-> 2, to |-> 4, filter |-> "all"]

\* applicationImpactHistoryInRange and its buckets; the highest peak of a bucket is its score.
Buckets(t) == {Bucket(t.range, p.at) : p \in {q \in t.points : q.at >= t.now - t.range}}
Score(t, b) == Max({p.score : p \in {q \in t.points : q.at >= t.now - t.range /\ Bucket(t.range, q.at) = b}})
SampledAt(t, b) == Max({p.at : p \in {q \in t.points : q.at >= t.now - t.range /\ Bucket(t.range, q.at) = b}})
Far(a, b) == IF a < b THEN b - a ELSE a - b

\* The point chosen, or else the one with the highest activity, the first of them.
SelectedPoint(t) ==
  LET chosen == t.selected \cap Buckets(t)
      best == {b \in Buckets(t) : \A c \in Buckets(t) : Score(t, c) <= Score(t, b)}
  IN IF chosen # {} \/ Buckets(t) = {} THEN chosen ELSE {Min(best)}

Closest(t, at) ==
  {Min({b \in Buckets(t) : \A c \in Buckets(t) : Far(SampledAt(t, b), at) <= Far(SampledAt(t, c), at)})}

\* Fault: the point is looked for once, in the range there was.
FocusOnce(old, new) ==
  IF new.focus # old.focus /\ Buckets(old) # {}
  THEN [new EXCEPT !.selected = Closest(old, CHOOSE f \in new.focus : TRUE)] ELSE new

\* The effect on the focus and on the points displayed: whenever they change the
\* point closest to the focus is chosen, whatever the user had chosen.
FollowFocus(old, new) ==
  IF new.focus # {} /\ Buckets(new) # {}
     /\ (new.focus # old.focus \/ new.range # old.range \/ new.points # old.points)
  THEN [new EXCEPT !.selected = Closest(new, CHOOSE f \in new.focus : TRUE)] ELSE new

\* A story is followed to its applications: the range is the shortest its peak is in.
\* One that is followed already changes nothing.
InspectApplications(at) ==
  /\ s.of = "view" /\ MayTurn
  /\ s' = IF s.focus = {at} THEN Turn(s)
          ELSE Turn([FollowFocus(s, [s EXCEPT !.focus = {at}, !.range = IF s.now - at <= 2 THEN 2 ELSE 5])
                       EXCEPT !.held = TRUE])
ChooseChartRange(r) ==
  s.of = "view" /\ r # s.range /\ MayTurn /\ s' = Turn([FollowFocus(s, [s EXCEPT !.range = r]) EXCEPT !.held = FALSE])

\* handlePointer: the index of the closest point, kept while the points change.
Nth(set, n) == {b \in set : Cardinality({c \in set : c < b}) = n - 1}
HandlePointer ==
  /\ s.of = "view" /\ MayTurn
  /\ \E i \in 1..Cardinality(Buckets(s)) : s.hovered # i /\ s' = Turn([s EXCEPT !.hovered = i])
PointerLeaves == s.of = "view" /\ s.hovered # 0 /\ s' = [s EXCEPT !.hovered = 0]
SelectPoint ==
  /\ s.of = "view" /\ MayTurn /\ s.hovered # 0
  /\ \E b \in Nth(Buckets(s), s.hovered) : s' = Turn([s EXCEPT !.selected = {b}, !.held = FALSE])

NewPoint ==
  /\ s.of = "view" /\ MayTurn
  /\ LET at == s.now + 1
     IN \E score \in {1, 4} :
          s' = Turn(FollowFocus(s, [s EXCEPT !.now = at, !.points = @ \cup {[at |-> at, score |-> score]},
                                             !.events = @ \cup {[at |-> at, metric |-> "memory"]}]))

\* The replay: of a range that stays where it was put.
ApplyPreset(hours) == s.of = "view" /\ MayTurn /\ s' = Turn([s EXCEPT !.from = s.now - hours, !.to = s.now])
SetReplayRange(at) ==
  s.of = "view" /\ MayTurn /\ s' \in {Turn([s EXCEPT !.from = at]), Turn([s EXCEPT !.to = at])}
FilterAlerts(f) == s.of = "view" /\ f # s.filter /\ MayTurn /\ s' = Turn([s EXCEPT !.filter = f])

Newest(events) == {e \in events : Cardinality({f \in events : f.at > e.at}) < Shown}
ReplayEvents(t) == Newest({e \in t.events : e.at >= t.from /\ e.at <= t.to})
VisibleAlerts(t) == Newest({e \in t.events : t.filter \in {"all", e.metric}})

----------------------------------------------------------------------------

Init == ImpactInit \/ ExportInit \/ ViewInit

\* The answers, by the operation they end.
Operations == {"load", "call", "dialog", "write"}
AnswerOf(op) ==
  \/ op = "load" /\ s.of = "impact" /\ (StoreIsRead \/ StoreArrives \/ StoreIsUnreadable)
  \/ op = "call" /\ s.of = "impact" /\ \E c \in s.calls : Serve(c) \/ Answered(c)
  \/ op = "dialog" /\ s.of = "export" /\ \E c \in s.saving : FileIsChosen(c)
  \/ op = "write" /\ s.of = "export" /\ \E c \in s.saving : ExportIsWritten(c)

Next ==
  \/ Sample \/ SetNames \/ SetWanted \/ Clear \/ ResetBegins
  \/ \E force \in BOOLEAN : Flush(force)
  \/ ToggleNames \/ Recording \/ SourcesAreCleared \/ SaveExport
  \/ \E r \in Ranges : ChooseRange(r)
  \/ \E m \in Metrics : ToggleMetric(m)
  \/ HandlePointer \/ PointerLeaves \/ SelectPoint \/ NewPoint
  \/ \E at \in 1..4 : InspectApplications(at) \/ SetReplayRange(at)
  \/ \E r \in ChartRanges : ChooseChartRange(r) \/ ApplyPreset(r)
  \/ \E f \in {"all", "cpu", "memory"} : FilterAlerts(f)
  \/ \E op \in Operations : AnswerOf(op)

Waiting ==
  CASE s.of = "impact" -> s.load # "done" \/ s.calls # {}
    [] s.of = "export" -> s.saving # {}
    [] s.of = "view" -> FALSE

----------------------------------------------------------------------------

\* The history of the applications that was read when the application started
\* stays stored somewhere, in the file or where the former version left it, as
\* long as nobody removes it and it is not too old: a save made before it was
\* read, or a move that failed, would lose a week of it.
HistorySurvives ==
  s.of = "impact" /\ ~s.removed => s.base \subseteq s.native \cup s.legacy

\* What is exported is what was chosen when it was asked for, whatever is chosen
\* or recorded while its file is looked for: nothing else, no name that was not
\* asked for, and an application that is not named is one number throughout.
ExportedAsAsked ==
  s.of = "export" =>
    \A f \in s.files : \A r \in f.rows :
      /\ r.of.metric \in f.asked.metrics /\ r.of.at >= s.now - f.asked.range
      /\ r.who.named => f.asked.names
      /\ \A q \in f.rows :
           (r.of.metric = "applications" /\ q.of.metric = "applications") => ((r.who = q.who) <=> (r.of.app = q.of.app))

\* A story that is followed shows the point of its time in the range it is in,
\* also when points arrive meanwhile, until the user chooses something else.
StoryIsShown ==
  s.of = "view" /\ s.held =>
    \A f \in s.focus :
      /\ Buckets(s) # {} => SelectedPoint(s) = Closest(s, f)
      /\ \A p \in s.points : (p.at = f /\ s.now = 4) => Bucket(s.range, f) \in Buckets(s)

\* The lists that are cut are cut at their old end.
NewestAreShown ==
  s.of = "view" =>
    /\ \A e \in ReplayEvents(s), f \in s.events :
         (f.at > e.at /\ f.at >= s.from /\ f.at <= s.to) => f \in ReplayEvents(s)
    /\ \A e \in VisibleAlerts(s), f \in s.events :
         (f.at > e.at /\ s.filter \in {"all", f.metric}) => f \in VisibleAlerts(s)
=============================================================================
