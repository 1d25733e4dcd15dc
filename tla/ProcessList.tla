---------------------------- MODULE ProcessList ----------------------------
(***************************************************************************)
(* The list of processes: what it shows, in which order                    *)
(* (src/processExplorer.ts, src/components/ProcessTable.tsx), and what the *)
(* program keeps with it from sample to sample (src/App.tsx and            *)
(* src/hooks/useSelectedProcessHistory.ts).                                *)
(*                                                                         *)
(* An identity stands for a process number with its birth.  Identities 3   *)
(* and 4 have one number: the second process was born after the first.     *)
(***************************************************************************)
EXTENDS Integers, Sequences, FiniteSets, FiniteSetsExt, SequencesExt

CONSTANTS
  MaxSamples,  \* bound of the model: samples taken
  MaxActs      \* bound of the model: operations of the user

VARIABLE s

Identities == 1..4
None == 0
PidOf == <<1, 2, 3, 3>>
StartTime == <<1, 1, 1, 2>>
Residual == {2, 4}
Matching == {3, 4}     \* what the query finds
Protected == {1}
RowsInView == 2
NoHistory == [identity |-> None, missing |-> FALSE, points |-> <<>>]

\* Two processes that name each other; three; one that names a number of two.
ParentPids == {<<2, 1, 2, 1>>, <<2, 3, 1, 2>>, <<0, 3, 1, 3>>}

Init ==
  \E parent \in ParentPids, tree \in BOOLEAN :
    s = [parent |-> parent, live |-> {}, load |-> "level", sequence |-> 0,
         pref |-> [tree |-> tree, query |-> FALSE, residual |-> FALSE, key |-> "cpu", descending |-> TRUE,
                   live |-> FALSE, follow |-> TRUE, expanded |-> IF tree THEN {1} ELSE {}],
         order |-> <<>>, selected |-> None, focus |-> None, top |-> 0,
         history |-> NoHistory,
         samples |-> MaxSamples, acts |-> MaxActs, seen |-> <<>>]

Spend == [s EXCEPT !.acts = @ - 1]

----------------------------------------------------------------------------
(* The tree.                                                               *)

\* The parent that the numbers name: alone in having its number, and born no later.
NamedParent(parent, live, i) ==
  LET named == {j \in live : PidOf[j] = parent[i]}
  IN IF parent[i] # PidOf[i] /\ Cardinality(named) = 1 /\ (\A j \in named : StartTime[j] <= StartTime[i])
     THEN CHOOSE j \in named : TRUE ELSE None

\* The identities above i when each is below up[i].
Above(up, i) ==
  LET steps[n \in Nat] == IF n = 0 THEN {i} ELSE {up[j] : j \in steps[n - 1]} \ {None}
  IN UNION {steps[n] : n \in 1..Cardinality(Identities)}

\* Of processes that name each other in a circle the least is a root.
BreakParentCycles(live, named) ==
  LET circle(i) == {j \in Above(named, i) : i \in Above(named, j)}
  IN [i \in live |-> IF i \in Above(named, i) /\ i = Min(circle(i)) THEN None ELSE named[i]]

Trees ==
  [parent \in ParentPids |-> [live \in SUBSET Identities |->
     BreakParentCycles(live, [i \in live |-> NamedParent(parent, live, i)])]]
ParentByIdentity(t) == Trees[t.parent][t.live]

AllAbove == [parent \in ParentPids |-> [live \in SUBSET Identities |->
               [i \in live |-> Above(Trees[parent][live], i)]]]
Ancestors(t, i) == AllAbove[t.parent][t.live][i]

ExpandableRoots(t) ==
  LET up == ParentByIdentity(t) IN {i \in t.live : up[i] = None /\ \E j \in t.live : up[j] = i}

----------------------------------------------------------------------------
(* The order.                                                              *)

\* The load is that of the sample; equal ones are in the order of their names.
Load(t, i) == CASE t.load = "level" -> 0 [] t.load = "rising" -> i
Before(t, i, j) ==
  LET a == IF t.pref.key = "cpu" THEN Load(t, i) ELSE i
      b == IF t.pref.key = "cpu" THEN Load(t, j) ELSE j
  IN IF a = b THEN i < j ELSE IF t.pref.descending THEN a > b ELSE a < b

SortProcesses(t, set) == SetToSortSeq(set, LAMBDA i, j : Before(t, i, j))

\* The processes that were listed keep their places, and new ones follow.
ReconcileStableProcessOrder(t, previous, resort) ==
  IF resort \/ previous = <<>> THEN SortProcesses(t, t.live)
  ELSE LET retained == SelectSeq(previous, LAMBDA i : i \in t.live)
       IN retained \o SortProcesses(t, t.live \ ToSet(retained))

Reordered(t, resort) == [t EXCEPT !.order = ReconcileStableProcessOrder(t, @, resort \/ t.pref.live)]

InOrder(t, set) == SelectSeq(t.order, LAMBDA i : i \in set)

----------------------------------------------------------------------------
(* The rows.                                                               *)

QueryMatches(t) == IF t.pref.query THEN t.live \cap Matching ELSE t.live

\* Rows that are included with those above them.
Included(t) ==
  LET hits == QueryMatches(t) \cap (IF t.pref.residual THEN Residual ELSE t.live)
  IN IF ~t.pref.query /\ ~t.pref.residual THEN t.live
     ELSE hits \cup UNION {Ancestors(t, i) : i \in hits}

ForcedExpanded(t) ==
  UNION ({Ancestors(t, i) : i \in IF t.pref.query THEN QueryMatches(t) ELSE {}}
         \cup {Ancestors(t, i) : i \in IF t.pref.follow THEN {t.selected} \cap Included(t) ELSE {}})

Children(t, i) == {j \in Included(t) : ParentByIdentity(t)[j] = i}
Expanded(t) ==
  LET parents == {ParentByIdentity(t)[j] : j \in Included(t)} IN parents \cap (ForcedExpanded(t) \cup t.pref.expanded)

TreeRows(t) ==
  LET included == Included(t)
      expanded == Expanded(t)
      up == ParentByIdentity(t)
      below[i \in {None} \cup t.live] ==
        LET under == InOrder(t, {j \in included : up[j] = i})
        IN (IF i = None THEN <<>> ELSE <<i>>)
           \o (IF i \in expanded \cup {None} THEN FlattenSeq([n \in DOMAIN under |-> below[under[n]]]) ELSE <<>>)
  IN below[None]

FlatRows(t) == InOrder(t, QueryMatches(t) \cap (IF t.pref.residual THEN Residual ELSE t.live))
Rows(t) == IF t.pref.tree THEN TreeRows(t) ELSE FlatRows(t)

\* The rows that are drawn when the list is scrolled to a row.
ComputeVirtualRange(count, top) ==
  LET first == Min({top, Max({0, count - RowsInView})})
  IN first + 1 .. Min({count, first + RowsInView})

----------------------------------------------------------------------------
(* What follows on a change.                                               *)

IndexOf(rows, i) == CHOOSE n \in DOMAIN rows : rows[n] = i
Scrolled(t, row) ==
  [t EXCEPT !.top = IF row - 1 < @ THEN row - 1 ELSE IF row > @ + RowsInView THEN row - RowsInView ELSE @]

\* The list scrolls to the row with the focus, or else to the selected one.
FollowSelection(t) ==
  LET rows == Rows(t)
      target == IF t.focus \in ToSet(rows) THEN t.focus ELSE t.selected
      u == [t EXCEPT !.focus = IF @ \in ToSet(rows) THEN @ ELSE None]
  IN IF ~t.pref.follow \/ t.pref.query \/ target \notin ToSet(rows) THEN u
     ELSE Scrolled(u, IndexOf(rows, target))

UpdateSelectedProcessHistory(t) ==
  LET h == t.history
      continuing == h.identity = t.selected
  IN CASE t.selected = None -> NoHistory
       [] t.selected # None /\ t.selected \notin t.live ->
            IF continuing THEN [h EXCEPT !.missing = TRUE]
            ELSE NoHistory
       [] t.selected \in t.live ->
            IF continuing /\ h.points # <<>> /\ t.sequence <= Last(h.points) THEN h
            ELSE [identity |-> t.selected, missing |-> FALSE,
                  points |-> Append(IF continuing THEN h.points ELSE <<>>, t.sequence)]

Settled(t) == FollowSelection([t EXCEPT !.history = UpdateSelectedProcessHistory(t)])

\* The busiest process that may be controlled, while none is selected.
SelectDefaultInspectorProcess(t) ==
  LET candidates == IF t.live \ Protected # {} THEN t.live \ Protected ELSE t.live
  IN IF t.selected # None \/ candidates = {} THEN t
     ELSE [t EXCEPT !.selected = CHOOSE i \in candidates : \A j \in candidates :
             Load(t, i) > Load(t, j) \/ (Load(t, i) = Load(t, j) /\ PidOf[i] <= PidOf[j])]

\* Fault: an expanded identity is forgotten only with its number.
PruneByNumber(t) == [t EXCEPT !.pref.expanded = {i \in @ : \E j \in t.live : PidOf[i] = PidOf[j]}]

PruneExpandedIdentities(t) == [t EXCEPT !.pref.expanded = @ \cap t.live]

\* A sample.
Sample(live, load) ==
  /\ s.samples > 0
  /\ LET t == Reordered([s EXCEPT !.live = live, !.load = load, !.sequence = @ + 1, !.samples = @ - 1,
                                  !.seen = Append(@, live)], FALSE)
     IN s' = Settled(SelectDefaultInspectorProcess(PruneExpandedIdentities(t)))

----------------------------------------------------------------------------
(* Operations of the user.                                                 *)

\* Sorting again turns the order, and opens the roots of the tree.
RequestSort(key) ==
  /\ s.acts > 0
  /\ LET t == [Spend EXCEPT !.pref.key = key, !.pref.descending = ~(key = s.pref.key /\ @),
                            !.pref.expanded = IF s.pref.tree THEN @ \cup ExpandableRoots(s) ELSE @]
     IN s' = Settled(Reordered(t, TRUE))

ShowTreeView ==
  s.acts > 0 /\ s' = Settled([Spend EXCEPT !.pref.tree = TRUE, !.pref.expanded = @ \cup ExpandableRoots(s)])

ToggleExpanded(i) ==
  /\ s.acts > 0 /\ s.pref.tree /\ i \in ToSet(Rows(s)) /\ Children(s, i) # {}
  /\ s' = Settled([Spend EXCEPT !.pref.expanded = IF i \in Expanded(s) THEN @ \ {i} ELSE @ \cup {i}])

SelectProcess(i) ==
  s.acts > 0 /\ i \in ToSet(Rows(s)) /\ s' = Settled([Spend EXCEPT !.selected = i, !.focus = i])

FocusRow(row) == s' = Scrolled([Spend EXCEPT !.focus = Rows(s)[row]], row)

\* The arrow keys move the focus; in the tree those to the sides open and close rows.
HandleRowKeyDown(key) ==
  LET rows == Rows(s)
      row == IndexOf(rows, s.focus)
      up == ParentByIdentity(s)[s.focus]
      open == s.focus \in Expanded(s)
  IN /\ s.acts > 0 /\ s.focus \in ToSet(rows)
     /\ \/ key = "down" /\ FocusRow(Min({Len(rows), row + 1}))
        \/ key = "up" /\ FocusRow(Max({1, row - 1}))
        \/ key = "left" /\ s.pref.tree /\ open /\ ToggleExpanded(s.focus)
        \/ key = "left" /\ s.pref.tree /\ ~open /\ up # None /\ FocusRow(IndexOf(rows, up))
        \/ key = "right" /\ s.pref.tree /\ ~open /\ ToggleExpanded(s.focus)
        \/ key = "right" /\ s.pref.tree /\ open /\ FocusRow(row + 1)

SetPreference(t) == s.acts > 0 /\ s' = Settled(Reordered(t, FALSE))
ChangePreference ==
  \/ SetPreference([Spend EXCEPT !.pref.query = ~@])
  \/ SetPreference([Spend EXCEPT !.pref.residual = ~@])
  \/ SetPreference([Spend EXCEPT !.pref.live = ~@])
  \/ SetPreference([Spend EXCEPT !.pref.follow = ~@])

\* The preferences are stored at each change and read at the next start.
Restart ==
  /\ s.acts > 0 /\ s.sequence > 0
  /\ s' = [Spend EXCEPT !.live = {}, !.sequence = 0, !.order = <<>>, !.selected = None, !.focus = None, !.top = 0,
                        !.history = NoHistory, !.seen = <<>>]

Lives == {{1, 2, 3}, {1, 3, 4}, {2, 4}}

Next ==
  \/ \E live \in Lives, load \in {"level", "rising"} : Sample(live, load)
  \/ \E key \in {"cpu", "name"} : RequestSort(key)
  \/ \E i \in Identities : ToggleExpanded(i) \/ SelectProcess(i)
  \/ \E key \in {"down", "up", "left", "right"} : HandleRowKeyDown(key)
  \/ ShowTreeView \/ ChangePreference \/ Restart

----------------------------------------------------------------------------
(* Properties.                                                             *)

\* Whatever parents the processes name, each that is included has at most one
\* row, below its parent's; with everything above it open it has one, so a
\* match of the query is always shown, and a followed selection that is
\* included is too, within the rows that are drawn.
EachIsListedOnce ==
  LET rows == Rows(s)
      up == ParentByIdentity(s)
      included == Included(s)
      expanded == Expanded(s)
  IN /\ \A m, n \in DOMAIN rows : rows[m] = rows[n] => m = n
     /\ ToSet(rows) \subseteq included
     /\ ~s.pref.tree => ToSet(rows) = QueryMatches(s) \cap (IF s.pref.residual THEN Residual ELSE s.live)
     /\ s.pref.tree =>
          /\ \A i \in included : Ancestors(s, i) \subseteq expanded <=> i \in ToSet(rows)
          /\ \A n \in DOMAIN rows : up[rows[n]] # None => \E m \in 1..(n - 1) : rows[m] = up[rows[n]]
          /\ s.pref.query => QueryMatches(s) \cap included \subseteq ToSet(rows)
     /\ s.pref.follow /\ s.selected \in included /\ (~s.pref.tree => ~s.pref.query /\ ~s.pref.residual) =>
          /\ s.selected \in ToSet(rows)
          /\ ~s.pref.query /\ s.focus = None => IndexOf(rows, s.selected) \in ComputeVirtualRange(Len(rows), s.top)

\* While nothing is sorted anew two processes never change places under the
\* pointer, and with live sorting they are in the order of the last sample.
PlacesAreKept ==
  /\ s'.pref.live /\ s'.sequence # s.sequence => s'.order = SortProcesses(s', s'.live)
  /\ ~s'.pref.live /\ s'.pref.key = s.pref.key /\ s'.pref.descending = s.pref.descending =>
       LET kept == SelectSeq(s.order, LAMBDA i : i \in s'.live)
       IN SelectSeq(s'.order, LAMBDA i : i \in ToSet(kept)) = kept

\* The history shown for the selected process is that of its own samples, each
\* once and in their order, however it and others were selected in between;
\* a later process of its number has none of it.
HistoryIsItsOwn ==
  LET h == s.history
  IN /\ h.identity \in {None, s.selected}
     /\ \A n \in DOMAIN h.points : h.identity \in s.seen[h.points[n]]
     /\ \A m, n \in DOMAIN h.points : m < n => h.points[m] < h.points[n]
     /\ h.identity # None => (h.missing <=> h.identity \notin s.live)
     /\ s.live # {} => s.pref.expanded \subseteq s.live
=============================================================================
