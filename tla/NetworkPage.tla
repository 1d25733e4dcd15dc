---------------------------- MODULE NetworkPage ----------------------------
(***************************************************************************)
(* The network page (src/components/NetworkExplorer.tsx) and the hooks     *)
(* that feed it: the polling of connections                                *)
(* (src/hooks/useNetworkConnections.ts) with the history made of them      *)
(* (src/hooks/useConnectionHistory.ts), the checks of the quality of the   *)
(* network, shared with other surfaces                                     *)
(* (src/hooks/useNetworkQualityMonitor.ts), and what the page makes of     *)
(* its data (src/networkExplorer.ts).  The three do not meet, so that a    *)
(* behaviour is about one of them.                                         *)
(***************************************************************************)
EXTENDS Integers, Sequences, FiniteSets, FiniteSetsExt, SequencesExt

CONSTANTS
  MaxSamples,  \* bound of the model: samples and checks that are taken
  MaxTurns,    \* bound of the model: operations of the user, and events
  Page         \* the rows that one page of connections adds

VARIABLE s

None == 0
Spend == [s EXCEPT !.turns = @ - 1]
May(part) == s.of = part /\ s.turns > 0
Larger(a, b) == IF a >= b THEN a ELSE b
Add(a, b) == a + b

----------------------------------------------------------------------------
(* The polling of connections.  A sample is known by its number; counts    *)
(* are kept of how often each was added to the history and how often the   *)
(* history was on, or turned on, while the sample was the newest.  The     *)
(* newest is short when its lookup was cut short.                          *)

Sampling(t) == t.enabled /\ ~t.paused /\ (t.visible \/ t.history)

StartConnections ==
  [of |-> "connections", enabled |-> FALSE, paused |-> FALSE, visible |-> TRUE, history |-> FALSE, taken |-> 0,
   inFlight |-> FALSE, ticker |-> "off", loading |-> FALSE, snapshot |-> None, failed |-> FALSE,
   last |-> None, lookups |-> {}, counted |-> [n \in 1..MaxSamples |-> 0],
   wanted |-> [n \in 1..MaxSamples |-> 0], short |-> FALSE, turns |-> MaxTurns]

RefreshNow(t) ==
  IF ~t.enabled \/ t.inFlight THEN t ELSE [t EXCEPT !.inFlight = TRUE, !.loading = TRUE]

\* A tick waits for the request that it started, and for none that it did not.
Tick(t) == [RefreshNow(t) EXCEPT !.ticker = IF t.inFlight THEN "waiting" ELSE "asking"]

\* A change of what polling depends on: the old ticker ends, a new one may begin.
Polling(t) == IF Sampling(t) THEN Tick(t) ELSE [t EXCEPT !.ticker = "off", !.loading = FALSE]

\* A snapshot is looked up once; the lookup of the one before it is dropped.
Observe(t) ==
  LET dropped == [t EXCEPT !.lookups = {[l EXCEPT !.cancelled = TRUE] : l \in @}]
  IN IF ~t.history \/ t.snapshot = None \/ t.snapshot = t.last THEN dropped
     ELSE [dropped EXCEPT !.last = t.snapshot, !.lookups = @ \cup {[of |-> t.snapshot, cancelled |-> FALSE]}]

Leave == May("connections") /\ s.enabled /\ ~s.history /\ s' = Polling([Spend EXCEPT !.enabled = FALSE])
Visit == May("connections") /\ ~s.enabled /\ s' = Polling([Spend EXCEPT !.enabled = TRUE])
Pause == May("connections") /\ s' = Polling([Spend EXCEPT !.paused = ~@])
Hide == May("connections") /\ s' = Polling([Spend EXCEPT !.visible = ~@])

\* A history that is on keeps the connections polled, on every page.
SetConnectionHistory ==
  /\ May("connections")
  /\ LET on == [Spend EXCEPT !.history = ~@, !.enabled = TRUE]
         newest == s.snapshot
     IN s' = Polling(IF s.history THEN Observe([on EXCEPT !.last = None])
                     ELSE Observe(IF newest = None THEN on ELSE [on EXCEPT !.wanted[newest] = @ + 1, !.short = FALSE]))

\* A lookup that is under way is dropped, and not begun again.
SetRetention ==
  /\ May("connections") /\ s.history
  /\ s' = Observe([Spend EXCEPT !.short = @ \/ \E l \in s.lookups : ~l.cancelled])

RefreshConnections == May("connections") /\ ~s.loading /\ s' = RefreshNow(Spend)

TimerFires == s.of = "connections" /\ s.ticker = "waiting" /\ ~s.inFlight /\ s.taken < MaxSamples /\ s' = Tick(s)

\* The answer is shown only where connections are still wanted.
ConnectionsAreAnswered ==
  /\ s.of = "connections" /\ s.inFlight
  /\ \E ok \in BOOLEAN :
       /\ ok => s.taken < MaxSamples
       /\ LET done == [s EXCEPT !.inFlight = FALSE, !.ticker = IF @ = "asking" THEN "waiting" ELSE @]
              shown == [done EXCEPT !.loading = FALSE, !.failed = ~ok]
              sampled == [shown EXCEPT !.taken = @ + 1, !.snapshot = s.taken + 1, !.short = FALSE,
                                       !.wanted[s.taken + 1] = IF s.history THEN 1 ELSE 0]
          IN s' = IF ~s.enabled THEN done ELSE IF ok THEN Observe(sampled) ELSE shown

\* Names are found or not: the connections are added to the history either way.
HostsAreResolved ==
  /\ s.of = "connections"
  /\ \E l \in s.lookups :
       s' = IF l.cancelled THEN [s EXCEPT !.lookups = @ \ {l}]
            ELSE [s EXCEPT !.lookups = @ \ {l}, !.counted[l.of] = @ + 1]

----------------------------------------------------------------------------
(* Checks of the network.  Natively the last result is shared, with a      *)
(* revision that grows when it is replaced or cleared; a check that was    *)
(* begun before a clear publishes nothing.                                 *)

NoCheck == [stage |-> "none"]

StartQuality ==
  [of |-> "quality", shared |-> [revision |-> 0, result |-> None], clears |-> 0, sampled |-> 0, foreign |-> NoCheck,
   check |-> NoCheck, reads |-> {}, known |-> -1, latest |-> None, result |-> None, samples |-> <<>>,
   loading |-> FALSE, error |-> FALSE, clearedAt |-> 0, clearedSample |-> 0, mounted |-> TRUE, turns |-> MaxTurns]

\* The samples of a window, each once, in order.
AppendNetworkQualitySample(samples, sample) ==
  LET kept == {n \in ToSet(samples) : n >= sample - 2 /\ n # sample} \cup {sample}
      ordered == SetToSortSeq(kept, LAMBDA a, b : a < b)
  IN SubSeq(ordered, Larger(1, Len(ordered) - 2), Len(ordered))

AdoptResult(t, sample) ==
  IF ~t.mounted \/ sample <= t.latest THEN t
  ELSE [t EXCEPT !.latest = sample, !.result = sample, !.error = FALSE,
                 !.samples = AppendNetworkQualitySample(@, sample)]

\* A read is answered with what was shared when it was served.
ReloadSharedResult(t, from) == [t EXCEPT !.reads = @ \cup {[from |-> from, got |-> t.shared]}]

\* Fault: whatever is read is taken, in the order of the answers.
AdoptAnyRead(t, shared) ==
  IF ~t.mounted THEN t
  ELSE LET known == [t EXCEPT !.known = Larger(@, shared.revision)]
       IN IF shared.result # None THEN AdoptResult(known, shared.result)
          ELSE [known EXCEPT !.latest = None, !.result = None, !.samples = <<>>]

AdoptShared(t, shared) ==
  IF ~t.mounted \/ shared.revision < t.known THEN t
  ELSE LET known == [t EXCEPT !.known = shared.revision]
       IN IF shared.result # None THEN AdoptResult(known, shared.result)
          ELSE [known EXCEPT !.latest = None, !.result = None, !.samples = <<>>]

RunCheck(t) ==
  IF t.check # NoCheck THEN t
  ELSE [t EXCEPT !.check = [stage |-> "native", sample |-> t.sampled + 1, clears |-> t.clears], !.sampled = @ + 1,
                 !.loading = TRUE, !.error = FALSE]

\* The page is opened, an interval passes, or the user asks.
CheckIsAsked == May("quality") /\ s.mounted /\ s.sampled < MaxSamples /\ s' = RunCheck(Spend)

\* Another surface checks as well.
ForeignCheck ==
  /\ May("quality") /\ s.foreign = NoCheck /\ s.sampled < MaxSamples
  /\ s' = [Spend EXCEPT !.sampled = @ + 1, !.foreign = [stage |-> "native", sample |-> s.sampled + 1, clears |-> s.clears]]

PublishNetwork(t, check) ==
  IF t.shared.result # None /\ t.shared.result >= check.sample THEN t
  ELSE [t EXCEPT !.shared = [revision |-> @.revision + 1, result |-> check.sample]]

ForeignCheckEnds ==
  /\ s.of = "quality" /\ s.foreign # NoCheck
  /\ s' \in {[s EXCEPT !.foreign = NoCheck],
             [IF s.foreign.clears = s.clears THEN PublishNetwork(s, s.foreign) ELSE s EXCEPT !.foreign = NoCheck]}

CheckFails(t) == [t EXCEPT !.check = NoCheck, !.error = t.mounted, !.loading = IF t.mounted THEN FALSE ELSE @]

CheckEnds ==
  /\ s.of = "quality" /\ s.check.stage = "native"
  /\ \E ok \in BOOLEAN :
       s' = IF ~ok \/ s.check.clears # s.clears THEN CheckFails(s)
            ELSE LET published == PublishNetwork(s, s.check)
                 IN IF s.mounted THEN ReloadSharedResult([published EXCEPT !.check.stage = "reading"], "check")
                    ELSE [published EXCEPT !.check = NoCheck]

ClearNetwork ==
  /\ May("quality")
  /\ s' = [Spend EXCEPT !.shared = [revision |-> @.revision + 1, result |-> None], !.clears = @ + 1,
                        !.clearedAt = s.shared.revision + 1, !.clearedSample = s.sampled]

\* A change is announced, the page gets focus, or it looks again by itself.
CapabilityChanges == May("quality") /\ s.mounted /\ s' = ReloadSharedResult(Spend, "change")

SharedIsRead ==
  /\ s.of = "quality"
  /\ \E r \in s.reads :
       LET read == [s EXCEPT !.reads = @ \ {r}]
           adopted == AdoptShared(read, r.got)
           done == IF r.from = "check" THEN [adopted EXCEPT !.check = NoCheck, !.loading = IF s.mounted THEN FALSE ELSE @] ELSE adopted
       IN s' \in {done, IF r.from = "check" THEN CheckFails(read) ELSE read}

LeaveQuality == May("quality") /\ s.mounted /\ s' = [Spend EXCEPT !.mounted = FALSE]

----------------------------------------------------------------------------
(* What the page makes of its data.  An interface has a rate (-1 when it   *)
(* has none) and what it has moved; a connection its owners.               *)

Filters == {"all", "established", "listen", "tcp", "udp"}
Sections == {"quality", "connections", "history", "interfaces"}

Interfaces == {[name |-> 1, rate |-> -1, up |-> TRUE, moved |-> 0], [name |-> 2, rate |-> 0, up |-> FALSE, moved |-> 0],
               [name |-> 3, rate |-> 2, up |-> TRUE, moved |-> 5], [name |-> 4, rate |-> 0, up |-> FALSE, moved |-> 3]}

Connections == <<[protocol |-> "tcp", state |-> "established", pids |-> {1, 2}], [protocol |-> "tcp", state |-> "listen", pids |-> {3}],
                 [protocol |-> "udp", state |-> "none", pids |-> {}], [protocol |-> "tcp", state |-> "established", pids |-> {2, 3}]>>

Entries == {[app |-> "a", host |-> "x", addr |-> "1", port |-> 1, n |-> 2], [app |-> "a", host |-> "none", addr |-> "2", port |-> 1, n |-> 1],
            [app |-> "b", host |-> "x", addr |-> "3", port |-> 2, n |-> 3], [app |-> "a", host |-> "x", addr |-> "1", port |-> 2, n |-> 1]}

Histories == {<<>>, <<[at |-> 1, value |-> 4], [at |-> 2, value |-> -1], [at |-> 4, value |-> 1]>>,
              <<[at |-> 1, value |-> 2], [at |-> 2, value |-> 3], [at |-> 6, value |-> 1], [at |-> 7, value |-> 0]>>}

StartPage ==
  [of |-> "page", section |-> "quality", interfaces |-> {}, showAll |-> FALSE, connections |-> <<>>, processes |-> {1, 2},
   filter |-> "all", limit |-> Page, entries |-> {}, groupBy |-> "app", selected |-> "nothing", window |-> "15m",
   historyOn |-> FALSE, hours |-> 24, history |-> <<>>, turns |-> MaxTurns]

\* The busiest first: by rate, then those that are up, then by what they moved, then by name.
Busier(i, j) ==
  \/ i.rate > j.rate
  \/ i.rate = j.rate /\ i.up /\ ~j.up
  \/ i.rate = j.rate /\ i.up = j.up /\ i.moved > j.moved
  \/ i.rate = j.rate /\ i.up = j.up /\ i.moved = j.moved /\ i.name < j.name

SortNetworkInterfaces(set) == SetToSortSeq(set, Busier)
HasSessionActivity(i) == i.moved > 0

VisibleNetworkInterfaces(set, all) ==
  LET sorted == SortNetworkInterfaces(set)
      active == SelectSeq(sorted, HasSessionActivity)
      up == SelectSeq(sorted, LAMBDA i : i.up)
      visible == IF all THEN sorted ELSE IF active # <<>> THEN active
                 ELSE SubSeq(up, 1, IF Len(up) < 3 THEN Len(up) ELSE 3)
  IN [interfaces |-> visible, hidden |-> Len(sorted) - Len(visible)]

FilterNetworkConnections(connections, filter) ==
  SelectSeq(connections, LAMBDA c : filter = "all" \/ filter \in {c.protocol, c.state})

ResolveNetworkConnectionOwners(c, processes) ==
  [known |-> c.pids \cap processes, gone |-> c.pids \ processes]

\* The first owner is named, the others are a number.
ConnectionOwnersCell(c, processes) ==
  LET owners == ResolveNetworkConnectionOwners(c, processes)
      named == IF owners.known # {} THEN owners.known ELSE owners.gone
  IN [pid |-> IF named = {} THEN None ELSE Min(named),
      opens |-> owners.known # {},
      more |-> IF named = {} THEN 0 ELSE Cardinality(owners.known) + Cardinality(owners.gone) - 1]

ConnectionsShown ==
  LET matching == FilterNetworkConnections(s.connections, s.filter)
  IN [rows |-> SubSeq(matching, 1, Min({s.limit, Len(matching)})), hasMore |-> s.limit < Len(matching)]

Label(e, groupBy) == IF groupBy = "app" THEN e.app ELSE IF e.host # "none" THEN e.host ELSE e.addr
Counted(set) == MapThenSumSet(LAMBDA e : e.n, set)
Labels(groupBy) == {Label(e, groupBy) : e \in s.entries}
SelectedEntries == {e \in s.entries : Label(e, s.groupBy) = s.selected}

\* What is known of the selected group: what it met, and over which ports.
Drilldown ==
  LET other == IF s.groupBy = "app" THEN "host" ELSE "app"
      met == {Label(e, other) : e \in SelectedEntries}
      ports == {e.port : e \in SelectedEntries}
  IN [counterparts |-> [l \in met |-> Counted({e \in SelectedEntries : Label(e, other) = l})],
      endpoints |-> [q \in ports |-> Counted({e \in SelectedEntries : e.port = q})]]

\* A line is broken where a value is missing, and where samples are.
NetworkHistorySegments(points, gap) ==
  FoldLeft(LAMBDA segments, p :
             IF p.value < 0 THEN Append(segments, <<>>)
             ELSE LET last == segments[Len(segments)]
                  IN IF last # <<>> /\ p.at - last[Len(last)].at > gap THEN Append(segments, <<p>>)
                     ELSE [segments EXCEPT ![Len(segments)] = Append(@, p)],
           << <<>> >>, points)

NetworkHistoryWindow(points, window) ==
  IF points = <<>> THEN points ELSE SelectSeq(points, LAMBDA p : p.at >= points[Len(points)].at - window)

NetworkThroughput ==
  LET shown == NetworkHistoryWindow(s.history, 5)
      values == {p.value : p \in ToSet(shown)} \cup {0}
  IN [points |-> shown, segments |-> SelectSeq(NetworkHistorySegments(shown, 2), LAMBDA seg : seg # <<>>), peak |-> Max(values)]

\* A sample is an anomaly when it is not online, lost probes, or was slow.
IsNetworkQualityAnomaly(p) == p.value < 0 \/ p.value >= 3

NetworkQualityTrend ==
  LET samples == NetworkHistoryWindow(s.history, IF s.window = "15m" THEN 3 ELSE 6)
      measured == SelectSeq(samples, LAMBDA p : p.value >= 0)
  IN [segments |-> SelectSeq(NetworkHistorySegments(samples, 99), LAMBDA seg : seg # <<>>),
      anomalies |-> Len(SelectSeq(samples, IsNetworkQualityAnomaly)),
      peak |-> IF measured = <<>> THEN -1 ELSE Max({p.value : p \in ToSet(measured)}),
      total |-> FoldLeft(Add, 0, [n \in DOMAIN measured |-> measured[n].value])]

DataArrives ==
  /\ May("page")
  /\ \/ \E set \in SUBSET Interfaces : s' = [Spend EXCEPT !.interfaces = set]
     \/ \E n \in 0..Len(Connections) : s' = [Spend EXCEPT !.connections = SubSeq(Connections, 1, n)]
     \/ \E set \in SUBSET {1, 2, 3} : s' = [Spend EXCEPT !.processes = set]
     \/ \E set \in SUBSET Entries : s' = [Spend EXCEPT !.entries = set]
     \/ \E points \in Histories : s' = [Spend EXCEPT !.history = points]

OpenSection(section) == May("page") /\ s.section # section /\ s' = [Spend EXCEPT !.section = section, !.filter = "all", !.limit = Page,
                                                                           !.groupBy = "app", !.selected = "nothing",
                                                                           !.window = IF s.historyOn THEN "history" ELSE "15m"]
ShowAllInterfaces == May("page") /\ s.section = "interfaces" /\ s' = [Spend EXCEPT !.showAll = ~@]
SetFilter(filter) == May("page") /\ s.section = "connections" /\ s' = [Spend EXCEPT !.filter = filter, !.limit = Page]
ShowMore == May("page") /\ s.section = "connections" /\ ConnectionsShown.hasMore /\ s' = [Spend EXCEPT !.limit = @ + Page]
SetGroupBy(by) == May("page") /\ s.section = "history" /\ s' = [Spend EXCEPT !.groupBy = by, !.selected = "nothing"]

SelectGroup(label) ==
  /\ May("page") /\ s.section = "history" /\ label \in Labels(s.groupBy)
  /\ s' = [Spend EXCEPT !.selected = IF @ = label THEN "nothing" ELSE label]

\* A longer window needs the history, which is turned on for it.
SelectWindow(hours) ==
  /\ May("page") /\ s.section = "quality"
  /\ s' = IF hours = 0 THEN [Spend EXCEPT !.window = "15m"]
          ELSE [Spend EXCEPT !.window = "history", !.historyOn = TRUE, !.hours = hours]

----------------------------------------------------------------------------
Init == s \in {StartConnections, StartQuality, StartPage}

Next ==
  \/ Leave \/ Visit \/ Pause \/ Hide \/ SetConnectionHistory \/ SetRetention \/ RefreshConnections
  \/ TimerFires \/ ConnectionsAreAnswered \/ HostsAreResolved
  \/ CheckIsAsked \/ ForeignCheck \/ ForeignCheckEnds \/ CheckEnds \/ ClearNetwork \/ CapabilityChanges \/ SharedIsRead \/ LeaveQuality
  \/ DataArrives \/ ShowAllInterfaces \/ ShowMore
  \/ (\E section \in Sections : OpenSection(section)) \/ (\E filter \in Filters : SetFilter(filter))
  \/ (\E by \in {"app", "host"} : SetGroupBy(by)) \/ (\E label \in {"a", "b", "x", "1", "2"} : SelectGroup(label))
  \/ (\E hours \in {0, 1, 24} : SelectWindow(hours))

----------------------------------------------------------------------------
Waiting == IF s.of = "connections" THEN s.inFlight ELSE s.of = "quality" /\ s.check # NoCheck
Operations == {"connections", "check", "read"}
AnswerOf(op) ==
  CASE op = "connections" -> ConnectionsAreAnswered
    [] op = "check" -> CheckEnds
    [] op = "read" -> SharedIsRead

\* A page that has read a state as new as the clear shows no result from before it: not by a read that
\* was served before the clear and answered after one served later, nor by a check begun before it.  Its
\* samples are empty while the clear is the last it knows; a page that learns of a newer result first
\* keeps the samples it has, and one that has read nothing since shows what it showed.
ClearedStaysCleared ==
  s.of = "quality" =>
    /\ (s.known >= s.clearedAt /\ s.result # None) => s.result > s.clearedSample
    /\ s.known = s.clearedAt /\ s.clears > 0 => s.samples = <<>>

\* While the history is on, the newest sample is in it or its names are being looked up, unless a
\* change of the retention cut that short; and a sample is added once for each time that the history
\* was on, or was turned on, while it was the newest, and never more often, whatever changes meanwhile.
\* Turning the history off and on counts the sample again.  Samples before the newest may be missing:
\* the next one drops their lookup.
CountedOnce ==
  s.of = "connections" =>
    /\ \A n \in DOMAIN s.counted : s.counted[n] <= s.wanted[n]
    /\ s.history /\ s.snapshot # None /\ ~s.short =>
         s.counted[s.snapshot] > 0 \/ \E l \in s.lookups : l.of = s.snapshot /\ ~l.cancelled

\* What is counted is not lost between what is listed and what is not: the hosts of an application
\* and its ports both add up to its observations, and each connection's owners are named or numbered.
NothingIsMiscounted ==
  s.of = "page" =>
    /\ LET met == Drilldown.counterparts IN MapThenSumSet(LAMBDA l : met[l], DOMAIN met) = Counted(SelectedEntries)
    /\ LET ports == Drilldown.endpoints IN MapThenSumSet(LAMBDA q : ports[q], DOMAIN ports) = Counted(SelectedEntries)
    /\ MapThenSumSet(LAMBDA l : Counted({e \in s.entries : Label(e, s.groupBy) = l}), Labels(s.groupBy)) = Counted(s.entries)
    /\ \A n \in DOMAIN s.connections :
         LET cell == ConnectionOwnersCell(s.connections[n], s.processes)
         IN Cardinality(s.connections[n].pids) = (IF cell.pid = None THEN 0 ELSE 1) + cell.more
    /\ LET visible == VisibleNetworkInterfaces(s.interfaces, s.showAll)
       IN Cardinality(s.interfaces) = Cardinality(ToSet(visible.interfaces)) + visible.hidden
    /\ LET parts == NetworkThroughput.segments
       IN FlattenSeq(parts) = SelectSeq(NetworkThroughput.points, LAMBDA p : p.value >= 0)
    /\ LET drawn == FlattenSeq(NetworkQualityTrend.segments)
       IN FoldLeft(Add, 0, [n \in DOMAIN drawn |-> drawn[n].value]) = NetworkQualityTrend.total

============================================================================
