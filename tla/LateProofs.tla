------------------------------ MODULE LateProofs ------------------------------
(***************************************************************************)
(* What a late answer may do to what was done since it was asked           *)
(* (LateAnswersFit of ToolsMC): for every step of the map and its chart,   *)
(* the local text tools, the engine of the picture tools, the update and   *)
(* the chat, whatever the bounds.  Each page has an invariant, the lemmas  *)
(* of its steps say what a step may not do, and the last section puts the  *)
(* pages together.                                                         *)
(***************************************************************************)
EXTENDS ToolsMC, Integers, Sequences, FiniteSets, TLAPS

(* The cleanup map.                                                          *)

MapFields ==
  {"part", "scan", "sample", "partial", "indexed", "preferred", "mode", "scope", "requested", "focus", "selected", "asked",
   "history", "details", "error", "loaded", "paged", "drills", "reload", "refreshing", "refresh", "asList", "query",
   "list", "turns"}
DrillFields == {"node", "from", "live", "op"}

\* A folder that is still waited for is the one asked for last.
MapGood(t) ==
  /\ t.part = "browse" /\ DOMAIN t = MapFields /\ t.turns \in Int
  /\ \A c \in t.drills : DOMAIN c = DrillFields /\ (c.live => c.node = t.asked)

\* Nothing is waited for.
Stopped(t) ==
  /\ t.part = "browse" /\ DOMAIN t = MapFields /\ t.turns \in Int
  /\ \A c \in t.drills : DOMAIN c = DrillFields /\ ~c.live

\* The places and what is waited for stay.
SamePlace(t, u) ==
  /\ u.part = t.part /\ DOMAIN u = DOMAIN t /\ u.turns = t.turns
  /\ u.focus = t.focus /\ u.asked = t.asked /\ u.drills = t.drills

\* A map that waits for nothing has no folder it no longer asks for.
LEMMA MapStopped == ASSUME NEW t, Stopped(t) PROVE MapGood(t)
BY DEF Stopped, MapGood

\* What leaves the places and what is waited for alone keeps the invariant.
LEMMA MapSame ==
  ASSUME NEW t, NEW u, SamePlace(t, u)
  PROVE  (MapGood(t) => MapGood(u)) /\ (Stopped(t) => Stopped(u))
BY DEF SamePlace, MapGood, Stopped

\* The map opens at the root and waits for nothing.
LEMMA MapStarts == ASSUME Folders!OpenMap PROVE MapGood(s)
<1>1. \E partial \in BOOLEAN : \E list :
        s = [part |-> "browse", scan |-> 0, sample |-> 0, partial |-> partial, indexed |-> TRUE, preferred |-> "path",
             mode |-> "path", scope |-> "category", requested |-> Folders!NoPlace, focus |-> "root", selected |-> "root",
             asked |-> "root", history |-> <<>>, details |-> FALSE, error |-> FALSE, loaded |-> {}, paged |-> {},
             drills |-> {}, reload |-> {}, refreshing |-> Folders!NoPlace, refresh |-> {}, asList |-> FALSE,
             query |-> FALSE, list |-> list, turns |-> 3]
  BY DEF Folders!OpenMap
<1> QED BY <1>1 DEF MapGood, MapFields

\* What is shown after a change waits for the same and stays where it was.
LEMMA MapTo == ASSUME NEW u, DOMAIN u = MapFields, Folders!To(u) PROVE SamePlace(u, s')
<1> DEFINE v == Folders!Tree(u)
<1>1. SamePlace(u, v) /\ DOMAIN v = MapFields
  BY DEF SamePlace, MapFields, Folders!Tree
<1>2. s' = Folders!List(v)
  BY DEF Folders!To
<1> HIDE DEF v
<1>3. SamePlace(v, v)
  BY DEF SamePlace
<1>4. SamePlace(v, Folders!Relist(v))
  BY <1>1 DEF SamePlace, MapFields, Folders!Relist
<1>5. SamePlace(v, [v EXCEPT !.list.timer = FALSE, !.list.calls = Folders!Supersede(@)])
  BY <1>1 DEF SamePlace, MapFields
<1>6. SamePlace(v, s')
  BY <1>2, <1>3, <1>4, <1>5 DEF Folders!List
<1> QED BY <1>1, <1>6 DEF SamePlace

\* A step of the user or of the scan may lead anywhere.
LEMMA MapTurned ==
  ASSUME MapGood(s), NEW u, MapGood(u), u.turns = s.turns - 1, Folders!To(u) \/ s' = u
  PROVE  MapGood(s)' /\ Folders!LandsWhereLastAsked
<1>1. MapGood(s') /\ s'.turns = u.turns
  BY MapTo, MapSame DEF SamePlace, MapGood
<1> QED BY <1>1 DEF MapGood, Folders!LandsWhereLastAsked

\* Another step stays, or leads where was asked last.
LEMMA MapLands ==
  ASSUME MapGood(s), NEW u, MapGood(u), u.focus = s.focus \/ u.focus = s.asked, Folders!To(u) \/ s' = u
  PROVE  MapGood(s)' /\ Folders!LandsWhereLastAsked
<1>1. MapGood(s') /\ s'.focus = u.focus
  BY MapTo, MapSame DEF SamePlace, MapGood
<1> QED BY <1>1 DEF Folders!LandsWhereLastAsked

\* Whoever goes elsewhere waits for no folder any more.
LEMMA MapDropped ==
  ASSUME NEW t, MapGood(t)
  PROVE  /\ Stopped(Folders!Dropped(t)) /\ Folders!Dropped(t).turns = t.turns
         /\ Folders!Dropped(t).focus = t.focus
<1> DEFINE u == Folders!Dropped(t)
           drills == Folders!Supersede(t.drills)
<1>1. u = [t EXCEPT !.drills = drills]
  BY DEF Folders!Dropped
<1>2. ASSUME NEW d \in drills PROVE DOMAIN d = DrillFields /\ ~d.live
  <2>1. PICK c \in t.drills : d = [c EXCEPT !.live = FALSE]
    BY DEF Folders!Supersede
  <2>2. DOMAIN c = DrillFields
    BY DEF MapGood
  <2> QED BY <2>1, <2>2 DEF DrillFields
<1> HIDE DEF drills, u
<1>3. /\ DOMAIN u = MapFields /\ u.part = "browse" /\ u.turns = t.turns /\ u.focus = t.focus /\ u.drills = drills
  BY <1>1 DEF MapGood, MapFields
<1>4. Stopped(u)
  BY <1>2, <1>3 DEF Stopped, MapGood
<1> QED BY <1>3, <1>4 DEF u

\* A turn leaves the map where it is.
LEMMA MapTurn ==
  ASSUME MapGood(s)
  PROVE  MapGood(Folders!Turn) /\ Folders!Turn.turns = s.turns - 1 /\ Folders!Turn.focus = s.focus
<1> DEFINE u == Folders!Turn
<1>1. /\ DOMAIN u = MapFields /\ u.part = "browse" /\ u.turns = s.turns - 1 /\ u.asked = s.asked /\ u.drills = s.drills
      /\ u.focus = s.focus
  BY DEF Folders!Turn, MapGood, MapFields
<1> HIDE DEF u
<1>2. MapGood(u)
  BY <1>1 DEF MapGood
<1> QED BY <1>1, <1>2 DEF u

\* Another root waits for nothing.
LEMMA MapSwitched ==
  ASSUME NEW t, MapGood(t)
  PROVE  MapGood(Folders!Switched(t)) /\ Folders!Switched(t).turns = t.turns
<1> DEFINE mode == Folders!ModeOf(t)
           u == [t EXCEPT !.mode = mode]
           d == Folders!Dropped(u)
           place == IF u.requested = Folders!NoPlace THEN Folders!RootOf(u) ELSE u.requested
           r == [d EXCEPT !.requested = Folders!NoPlace, !.focus = place, !.selected = place, !.history = <<>>,
                          !.details = FALSE, !.error = FALSE]
           w == Folders!Switched(t)
<1>1. w = [r EXCEPT !.asked = r.focus] \/ w = u
  BY DEF Folders!Switched, Folders!Reset
<1> HIDE DEF mode
<1>2. SamePlace(t, u)
  BY DEF SamePlace, MapGood, MapFields
<1>3. MapGood(u) /\ u.turns = t.turns
  BY <1>2, MapSame DEF SamePlace
<1> HIDE DEF u
<1>4. Stopped(d) /\ d.turns = t.turns
  BY <1>3, MapDropped
<1> HIDE DEF d, place
<1>5. Stopped(r) /\ r.turns = t.turns
  BY <1>4 DEF Stopped, MapFields
<1> HIDE DEF r, w
<1>6. ASSUME w = [r EXCEPT !.asked = r.focus] PROVE Stopped(w) /\ w.turns = t.turns
  BY <1>5, <1>6 DEF Stopped, MapFields
<1>7. MapGood(w) /\ w.turns = t.turns
  BY <1>1, <1>3, <1>6, MapStopped
<1> QED BY <1>7 DEF w

\* Going to a place ends what was waited for, and leads there.
LEMMA MapNavigates ==
  ASSUME NEW t, MapGood(t), NEW n
  PROVE  /\ Stopped(Folders!NavigateTo(t, n)) /\ Folders!NavigateTo(t, n).turns = t.turns
         /\ Folders!NavigateTo(t, n).focus \in {t.focus, n}
<1> DEFINE d == Folders!Dropped(t)
           here == [d EXCEPT !.error = FALSE, !.details = FALSE, !.asked = n, !.selected = n]
           history == Append(IF Len(here.history) < Folders!LastHistory THEN here.history ELSE Tail(here.history),
                             Folders!Focus(t))
           w == Folders!NavigateTo(t, n)
<1>1. w = here \/ w = [here EXCEPT !.history = history, !.query = FALSE, !.focus = n]
  BY DEF Folders!NavigateTo
<1>2. Stopped(d) /\ d.turns = t.turns /\ d.focus = t.focus
  BY MapDropped
<1> HIDE DEF d
<1>3. Stopped(here) /\ here.turns = t.turns /\ here.focus = t.focus
  BY <1>2 DEF Stopped, MapFields
<1> HIDE DEF here, history, w
<1>4. Stopped(w) /\ w.turns = t.turns /\ w.focus \in {t.focus, n}
  BY <1>1, <1>3 DEF Stopped, MapFields
<1> QED BY <1>4 DEF w

\* A later sample ends what was waited for.
LEMMA MapResampled == ASSUME MapGood(s) PROVE Stopped(Folders!Resampled) /\ Folders!Resampled.turns = s.turns - 1
<1> DEFINE d == Folders!Dropped(Folders!Turn)
           u == Folders!Resampled
<1>1. \E reload : u = [d EXCEPT !.sample = @ + 1, !.paged = {}, !.reload = reload]
  BY DEF Folders!Resampled
<1>2. Stopped(d) /\ d.turns = s.turns - 1
  BY MapTurn, MapDropped
<1> HIDE DEF d, u
<1>3. Stopped(u) /\ u.turns = s.turns - 1
  BY <1>1, <1>2 DEF Stopped, MapFields
<1> QED BY <1>3 DEF u

\* The steps of the scan.
LEMMA MapScanSteps ==
  ASSUME MapGood(s), Folders!CheckpointArrives \/ Folders!ScanCompletes \/ Folders!FollowAnotherScan
  PROVE  MapGood(s)' /\ Folders!LandsWhereLastAsked
<1> DEFINE t == Folders!Turn
           d == Folders!Dropped(t)
           r == Folders!Resampled
<1>1. Stopped(d) /\ d.turns = s.turns - 1 /\ Stopped(r) /\ r.turns = s.turns - 1
  BY MapTurn, MapDropped, MapResampled
<1>2. CASE Folders!CheckpointArrives
  BY <1>1, <1>2, MapStopped, MapTurned DEF Folders!CheckpointArrives
<1>3. CASE Folders!ScanCompletes
  <2> DEFINE u == [r EXCEPT !.partial = FALSE, !.asList = FALSE]
             w == Folders!Switched(u)
  <2>1. Folders!To(w)
    BY <1>3 DEF Folders!ScanCompletes
  <2> HIDE DEF r
  <2>2. Stopped(u) /\ u.turns = s.turns - 1
    BY <1>1 DEF Stopped, MapFields
  <2> HIDE DEF u
  <2>3. MapGood(w) /\ w.turns = s.turns - 1
    BY <2>2, MapStopped, MapSwitched
  <2> HIDE DEF w
  <2> QED BY <2>1, <2>3, MapTurned
<1>4. CASE Folders!FollowAnotherScan
  <2>1. PICK indexed, list :
          Folders!To([d EXCEPT !.scan = 1, !.sample = @ + 1, !.partial = TRUE, !.indexed = indexed,
             !.loaded = {}, !.paged = {}, !.preferred = "path", !.mode = "path", !.details = FALSE,
             !.history = <<>>, !.focus = "root", !.selected = "root", !.requested = Folders!NoPlace,
             !.asked = "root", !.error = FALSE, !.reload = {}, !.asList = FALSE, !.list = list])
    BY <1>4 DEF Folders!FollowAnotherScan
  <2> DEFINE u == [d EXCEPT !.scan = 1, !.sample = @ + 1, !.partial = TRUE, !.indexed = indexed,
             !.loaded = {}, !.paged = {}, !.preferred = "path", !.mode = "path", !.details = FALSE,
             !.history = <<>>, !.focus = "root", !.selected = "root", !.requested = Folders!NoPlace,
             !.asked = "root", !.error = FALSE, !.reload = {}, !.asList = FALSE, !.list = list]
  <2> HIDE DEF d
  <2>2. /\ DOMAIN u = MapFields /\ u.part = "browse" /\ u.turns = d.turns /\ u.drills = d.drills
    BY <1>1 DEF Stopped, MapFields
  <2>3. Folders!To(u)
    BY <2>1
  <2> HIDE DEF u
  <2>4. Stopped(u) /\ u.turns = s.turns - 1
    BY <1>1, <2>2 DEF Stopped
  <2> QED BY <2>3, <2>4, MapStopped, MapTurned
<1> QED BY <1>2, <1>3, <1>4

\* The folders that are read and the refresh leave the place alone.
LEMMA MapReads ==
  ASSUME MapGood(s),
         \/ \E ids : Folders!AncestryIsRead(ids) \/ Folders!RefreshedIsRead(ids)
         \/ Folders!RefreshCompletes \/ Folders!ListTimer
         \/ \E c : Folders!ListAnswers(c) \/ Folders!MoreAnswers(c)
  PROVE  MapGood(s)' /\ Folders!LandsWhereLastAsked
<1>1. \E u : SamePlace(s, u) /\ (Folders!To(u) \/ s' = u)
  <2>1. ASSUME NEW ids, Folders!AncestryIsRead(ids) PROVE \E u : SamePlace(s, u) /\ Folders!To(u)
    <3>1. PICK loaded : Folders!To([s EXCEPT !.reload = {}, !.loaded = loaded])
      BY <2>1 DEF Folders!AncestryIsRead
    <3>2. SamePlace(s, [s EXCEPT !.reload = {}, !.loaded = loaded])
      BY DEF MapGood, MapFields, SamePlace
    <3> QED BY <3>1, <3>2
  <2>2. ASSUME NEW ids, Folders!RefreshedIsRead(ids) PROVE \E u : SamePlace(s, u) /\ Folders!To(u)
    <3>1. PICK loaded, error : Folders!To([s EXCEPT !.refresh = {}, !.loaded = loaded, !.error = error])
      BY <2>2 DEF Folders!RefreshedIsRead
    <3>2. SamePlace(s, [s EXCEPT !.refresh = {}, !.loaded = loaded, !.error = error])
      BY DEF MapGood, MapFields, SamePlace
    <3> QED BY <3>1, <3>2
  <2>3. CASE Folders!RefreshCompletes
    BY <2>3 DEF Folders!RefreshCompletes, MapGood, MapFields, SamePlace
  <2>4. ASSUME NEW list, s' = [s EXCEPT !.list = list] PROVE SamePlace(s, s')
    BY <2>4 DEF MapGood, MapFields, SamePlace
  <2>5. CASE Folders!ListTimer
    <3>1. CASE Folders!Local(s)
      <4>1. \E list : s' = [s EXCEPT !.list = list]
        BY <2>5, <3>1 DEF Folders!ListTimer
      <4> QED BY <2>4, <4>1
    <3>2. CASE ~Folders!Local(s)
      <4> DEFINE call == [key |-> Folders!ListRequestKey(s), live |-> TRUE, op |-> "first"]
      <4>1. s' = [s EXCEPT !.list.timer = FALSE, !.list.calls = @ \cup {call}]
        BY <2>5, <3>2 DEF Folders!ListTimer
      <4> HIDE DEF call
      <4>2. SamePlace(s, s')
        BY <4>1 DEF MapGood, MapFields, SamePlace
      <4> QED BY <4>2
    <3> QED BY <3>1, <3>2
  <2>6. ASSUME NEW c, Folders!ListAnswers(c) \/ Folders!MoreAnswers(c) PROVE SamePlace(s, s')
    <3> DEFINE calls == s.list.calls \ {c}
    <3>1. [s EXCEPT !.list.calls = calls] = [s EXCEPT !.list = [s.list EXCEPT !.calls = calls]]
      BY DEF MapGood, MapFields
    <3>2. \E list : s' = [s EXCEPT !.list = list]
      BY <2>6, <3>1 DEF Folders!ListAnswers, Folders!MoreAnswers
    <3> QED BY <2>4, <3>2
  <2> QED BY <2>1, <2>2, <2>3, <2>5, <2>6
<1>2. PICK u : SamePlace(s, u) /\ (Folders!To(u) \/ s' = u)
  BY <1>1
<1>3. MapGood(u) /\ u.focus = s.focus
  BY <1>2, MapSame DEF SamePlace
<1> QED BY <1>2, <1>3, MapLands

\* Steps that only spend a turn, or ask for another view.
LEMMA MapViews ==
  ASSUME MapGood(s),
         \/ \E mode : Folders!SetMode(mode)
         \/ Folders!ShowAllCategories \/ Folders!FocusLocation \/ Folders!ShowReclaimable
  PROVE  MapGood(s)' /\ Folders!LandsWhereLastAsked
<1> DEFINE t == Folders!Turn
<1>1. MapGood(t) /\ t.turns = s.turns - 1
  BY MapTurn
<1>2. \E u : MapGood(u) /\ u.turns = s.turns - 1 /\ Folders!To(Folders!Switched(u))
  <2>1. ASSUME NEW mode, Folders!SetMode(mode)
        PROVE  \E u : MapGood(u) /\ u.turns = s.turns - 1 /\ Folders!To(Folders!Switched(u))
    <3>1. PICK scope : Folders!To(Folders!Switched([t EXCEPT !.preferred = mode, !.scope = scope]))
      BY <2>1 DEF Folders!SetMode
    <3> DEFINE u == [t EXCEPT !.preferred = mode, !.scope = scope]
    <3> HIDE DEF t
    <3>2. MapGood(u) /\ u.turns = s.turns - 1
      BY <1>1 DEF MapGood, MapFields
    <3> QED BY <3>1, <3>2 DEF t
  <2>2. CASE Folders!ShowAllCategories
    <3> DEFINE u == [t EXCEPT !.scope = "category"]
    <3>1. Folders!To(Folders!Switched(u))
      BY <2>2 DEF Folders!ShowAllCategories
    <3> HIDE DEF t
    <3>2. MapGood(u) /\ u.turns = s.turns - 1
      BY <1>1 DEF MapGood, MapFields
    <3> QED BY <3>1, <3>2
  <2>3. CASE Folders!FocusLocation
    <3> DEFINE u == [t EXCEPT !.requested = "loc", !.scope = "category", !.preferred = "category",
                              !.focus = "loc", !.selected = "loc"]
    <3>1. Folders!To(Folders!Switched(u))
      BY <2>3 DEF Folders!FocusLocation
    <3> HIDE DEF t
    <3>2. MapGood(u) /\ u.turns = s.turns - 1
      BY <1>1 DEF MapGood, MapFields
    <3> QED BY <3>1, <3>2
  <2>4. CASE Folders!ShowReclaimable
    <3> DEFINE u == [t EXCEPT !.requested = "reclaimable", !.scope = "reclaimable", !.preferred = "category",
                              !.asList = FALSE]
    <3>1. Folders!To(Folders!Switched(u))
      BY <2>4 DEF Folders!ShowReclaimable
    <3> HIDE DEF t
    <3>2. MapGood(u) /\ u.turns = s.turns - 1
      BY <1>1 DEF MapGood, MapFields
    <3> QED BY <3>1, <3>2
  <2> QED BY <2>1, <2>2, <2>3, <2>4
<1>3. PICK u : MapGood(u) /\ u.turns = s.turns - 1 /\ Folders!To(Folders!Switched(u))
  BY <1>2
<1>4. MapGood(Folders!Switched(u)) /\ Folders!Switched(u).turns = s.turns - 1
  BY <1>3, MapSwitched
<1> QED BY <1>3, <1>4, MapTurned

\* The steps that spend a turn without leading anywhere.
LEMMA MapPlain ==
  ASSUME MapGood(s),
         \/ Folders!RefreshFocusedFolder \/ Folders!SetDetailsOpen \/ Folders!SetPresentation \/ Folders!SetListQuery
         \/ Folders!RetryList \/ Folders!LoadMoreListItems
         \/ \E n : Folders!SelectMapNode(n)
  PROVE  MapGood(s)' /\ Folders!LandsWhereLastAsked
<1> DEFINE t == Folders!Turn
<1>1. MapGood(t) /\ t.turns = s.turns - 1
  BY MapTurn
<1>2. \A u : SamePlace(t, u) => MapGood(u) /\ u.turns = s.turns - 1
  BY <1>1, MapSame DEF SamePlace
<1>3. CASE Folders!RefreshFocusedFolder \/ Folders!SetDetailsOpen \/ \E n : Folders!SelectMapNode(n)
  <2>1. \/ s' = [t EXCEPT !.refreshing = Folders!Focus(s), !.error = FALSE]
        \/ s' = [t EXCEPT !.details = ~@]
        \/ \E n : s' = [t EXCEPT !.selected = n]
    BY <1>3 DEF Folders!RefreshFocusedFolder, Folders!SetDetailsOpen, Folders!SelectMapNode
  <2> HIDE DEF t
  <2>2. SamePlace(t, s')
    BY <1>1, <2>1 DEF SamePlace, MapGood, MapFields
  <2> QED BY <1>2, <2>2, MapTurned
<1>4. CASE Folders!SetPresentation \/ Folders!SetListQuery
  <2>1. PICK asList, query : Folders!To([t EXCEPT !.asList = asList, !.query = query])
    <3>1. CASE Folders!SetPresentation
      BY <3>1 DEF Folders!SetPresentation
    <3>2. CASE Folders!SetListQuery
      <4> DEFINE query == ~t.query
                 asList == IF s.partial THEN TRUE ELSE [t EXCEPT !.query = query].asList
      <4>1. Folders!To([t EXCEPT !.query = query, !.asList = asList])
        BY <3>2 DEF Folders!SetListQuery
      <4> HIDE DEF t, query, asList
      <4>2. [t EXCEPT !.query = query, !.asList = asList] = [t EXCEPT !.asList = asList, !.query = query]
        BY <1>1 DEF MapGood, MapFields
      <4> QED BY <4>1, <4>2 DEF t
    <3> QED BY <1>4, <3>1, <3>2
  <2> DEFINE u == [t EXCEPT !.asList = asList, !.query = query]
  <2> HIDE DEF t
  <2>2. SamePlace(t, u)
    BY <1>1 DEF SamePlace, MapGood, MapFields
  <2>3. Folders!To(u)
    BY <2>1 DEF t
  <2> HIDE DEF u
  <2> QED BY <1>2, <2>2, <2>3, MapTurned
<1>5. CASE Folders!RetryList
  <2>1. s' = Folders!Relist(t)
    BY <1>5 DEF Folders!RetryList
  <2> HIDE DEF t
  <2>2. SamePlace(t, s')
    BY <1>1, <2>1 DEF SamePlace, MapGood, MapFields, Folders!Relist
  <2> QED BY <1>2, <2>2, MapTurned
<1>6. CASE Folders!LoadMoreListItems
  <2> DEFINE call == [key |-> Folders!ListRequestKey(s), live |-> TRUE, op |-> "more"]
  <2>1. s' = [t EXCEPT !.list.more = TRUE, !.list.error = FALSE, !.list.calls = @ \cup {call}]
    BY <1>6 DEF Folders!LoadMoreListItems
  <2> HIDE DEF t, call
  <2>2. SamePlace(t, s')
    BY <1>1, <2>1 DEF SamePlace, MapGood, MapFields
  <2> QED BY <1>2, <2>2, MapTurned
<1> QED BY <1>3, <1>4, <1>5, <1>6

\* The steps up and back.
LEMMA MapMoves ==
  ASSUME MapGood(s), Folders!NavigateUp \/ Folders!NavigateBack
  PROVE  MapGood(s)' /\ Folders!LandsWhereLastAsked
<1> DEFINE t == Folders!Turn
           d == Folders!Dropped(t)
<1>1. MapGood(t) /\ t.turns = s.turns - 1 /\ Stopped(d) /\ d.turns = s.turns - 1
  BY MapTurn, MapDropped
<1>2. CASE Folders!NavigateUp
  <2>1. PICK n : Folders!To(Folders!NavigateTo(t, n))
    BY <1>2 DEF Folders!NavigateUp
  <2>2. Stopped(Folders!NavigateTo(t, n)) /\ Folders!NavigateTo(t, n).turns = s.turns - 1
    BY <1>1, MapNavigates
  <2> QED BY <2>1, <2>2, MapStopped, MapTurned
<1>3. CASE Folders!NavigateBack
  <2>1. \E history, place :
          \/ Folders!To([d EXCEPT !.history = <<>>])
          \/ Folders!To([d EXCEPT !.history = history, !.error = FALSE, !.query = FALSE,
                                  !.focus = place, !.selected = place, !.asked = place])
    BY <1>3 DEF Folders!NavigateBack
  <2>2. PICK history, place :
          \/ Folders!To([d EXCEPT !.history = <<>>])
          \/ Folders!To([d EXCEPT !.history = history, !.error = FALSE, !.query = FALSE,
                                  !.focus = place, !.selected = place, !.asked = place])
    BY <2>1
  <2> DEFINE u == [d EXCEPT !.history = <<>>]
             v == [d EXCEPT !.history = history, !.error = FALSE, !.query = FALSE,
                            !.focus = place, !.selected = place, !.asked = place]
  <2>3. Folders!To(u) \/ Folders!To(v)
    BY <2>2
  <2> HIDE DEF d
  <2>4. /\ Stopped(u) /\ u.turns = s.turns - 1
        /\ Stopped(v) /\ v.turns = s.turns - 1
    BY <1>1 DEF Stopped, MapFields
  <2> HIDE DEF u, v
  <2> QED BY <2>3, <2>4, MapStopped, MapTurned
<1> QED BY <1>2, <1>3

\* A folder that is entered is the one asked for last.
LEMMA MapDrills == ASSUME MapGood(s), NEW n, Folders!DrillInto(n) PROVE MapGood(s)' /\ Folders!LandsWhereLastAsked
<1> DEFINE t == Folders!Turn
           d == Folders!Dropped(t)
           p == Folders!Paged(t, n)
           drill == [node |-> n, from |-> Folders!Focus(s), live |-> TRUE, op |-> "read"]
<1>1. MapGood(t) /\ t.turns = s.turns - 1 /\ Stopped(d) /\ d.turns = s.turns - 1
  BY MapTurn, MapDropped
<1>2. \/ Folders!To(Folders!NavigateTo(p, n))
      \/ s' = [t EXCEPT !.error = FALSE, !.selected = n]
      \/ s' = [d EXCEPT !.error = FALSE, !.selected = n, !.asked = n, !.drills = @ \cup {drill}]
  BY DEF Folders!DrillInto
<1>3. CASE Folders!To(Folders!NavigateTo(p, n))
  <2>1. MapGood(p) /\ p.turns = s.turns - 1
    <3> HIDE DEF t
    <3> QED BY <1>1 DEF Folders!Paged, MapGood, MapFields
  <2> HIDE DEF p
  <2>2. Stopped(Folders!NavigateTo(p, n)) /\ Folders!NavigateTo(p, n).turns = s.turns - 1
    BY <2>1, MapNavigates
  <2> QED BY <1>3, <2>2, MapStopped, MapTurned
<1>4. CASE s' = [t EXCEPT !.error = FALSE, !.selected = n]
  <2> HIDE DEF t
  <2>1. MapGood(s') /\ s'.turns = s.turns - 1
    BY <1>1, <1>4 DEF MapGood, MapFields
  <2> QED BY <2>1, MapTurned
<1>5. CASE s' = [d EXCEPT !.error = FALSE, !.selected = n, !.asked = n, !.drills = @ \cup {drill}]
  <2>1. DOMAIN drill = DrillFields /\ drill.node = n
    BY DEF DrillFields
  <2> HIDE DEF d, drill
  <2>2. /\ DOMAIN s' = MapFields /\ s'.part = "browse" /\ s'.turns = s.turns - 1 /\ s'.asked = n
        /\ s'.drills = d.drills \cup {drill} /\ s'.turns \in Int
    BY <1>1, <1>5 DEF Stopped, MapFields
  <2>3. MapGood(s')
    BY <1>1, <2>1, <2>2 DEF Stopped, MapGood
  <2> QED BY <2>2, <2>3, MapTurned
<1> QED BY <1>2, <1>3, <1>4, <1>5

\* A folder that was read is entered while it is the one asked for last.
LEMMA MapAnswers ==
  ASSUME MapGood(s), NEW c, Folders!DrillAnswers(c) \/ Folders!LatestIsRead(c)
  PROVE  MapGood(s)' /\ Folders!LandsWhereLastAsked
<1> DEFINE t == Folders!Without(s, c)
           next == [c EXCEPT !.op = "latest"]
<1>1. /\ c \in s.drills /\ DOMAIN c = DrillFields /\ (c.live => c.node = s.asked)
  BY DEF MapGood, Folders!DrillAnswers, Folders!LatestIsRead
<1>2. /\ DOMAIN t = MapFields /\ t.part = "browse" /\ t.turns = s.turns /\ t.focus = s.focus /\ t.asked = s.asked
      /\ t.drills = s.drills \ {c}
  BY DEF MapGood, MapFields, Folders!Without
<1>3. DOMAIN next = DrillFields /\ next.live = c.live /\ next.node = c.node
  BY <1>1 DEF DrillFields
<1>4. \/ s' = t \/ \E error : s' = [t EXCEPT !.error = error]
      \/ s' = [t EXCEPT !.drills = @ \cup {next}]
      \/ /\ c.live
         /\ LET asked == s.asked IN Folders!To([Folders!Entered(t, c) EXCEPT !.asked = asked])
  BY DEF Folders!DrillAnswers, Folders!LatestIsRead, Folders!Counts
<1>5. MapGood(t)
  <2> HIDE DEF t
  <2> QED BY <1>2 DEF MapGood
<1> HIDE DEF t, next
<1>6. CASE s' = t \/ \E error : s' = [t EXCEPT !.error = error]
  <2>1. SamePlace(t, s')
    BY <1>2, <1>6 DEF SamePlace, MapFields
  <2>2. MapGood(s') /\ s'.focus = s.focus
    BY <1>2, <1>5, <2>1, MapSame DEF SamePlace
  <2> QED BY <2>2, MapLands
<1>7. CASE s' = [t EXCEPT !.drills = @ \cup {next}]
  <2>1. /\ DOMAIN s' = MapFields /\ s'.part = "browse" /\ s'.turns = s.turns /\ s'.focus = s.focus /\ s'.asked = s.asked
        /\ s'.drills = t.drills \cup {next}
    BY <1>2, <1>7 DEF MapFields
  <2>2. MapGood(s')
    BY <1>1, <1>2, <1>3, <1>5, <2>1 DEF MapGood
  <2> QED BY <2>1, <2>2, MapLands
<1>8. CASE c.live /\ LET asked == s.asked IN Folders!To([Folders!Entered(t, c) EXCEPT !.asked = asked])
  <2> DEFINE e == Folders!Entered(t, c)
             asked == s.asked
             u == [e EXCEPT !.asked = asked]
  <2>1. Folders!To(u) /\ c.node = s.asked
    BY <1>1, <1>8
  <2>2. Stopped(e) /\ e.turns = s.turns /\ e.focus \in {s.focus, c.node}
    <3> DEFINE kept == [t EXCEPT !.loaded = @ \cup {c.node}]
               v == IF c.node \in Folders!IndexTree(t) THEN kept ELSE [kept EXCEPT !.paged = @ \cup {c.node}]
    <3>1. e = Folders!NavigateTo(v, c.node)
      BY DEF Folders!Entered
    <3>2. SamePlace(t, v)
      BY <1>2 DEF SamePlace, MapFields
    <3> HIDE DEF v
    <3>3. MapGood(v) /\ v.turns = s.turns /\ v.focus = s.focus
      BY <1>2, <1>5, <3>2, MapSame DEF SamePlace
    <3> QED BY <3>1, <3>3, MapNavigates
  <2> HIDE DEF e, asked
  <2>3. Stopped(u) /\ u.focus = e.focus
    BY <2>2 DEF Stopped, MapFields
  <2> HIDE DEF u
  <2> QED BY <2>1, <2>2, <2>3, MapStopped, MapLands
<1> QED BY <1>4, <1>6, <1>7, <1>8

\* The cleanup map or the chart of it.
FoldersGood(t) == t.part \in {"browse", "chart"} /\ (t.part = "browse" => MapGood(t))

\* The map and the chart start with their invariant.
LEMMA FoldersStarts == ASSUME Folders!Init PROVE FoldersGood(s)
BY MapStarts DEF Folders!Init, Folders!DrawChart, Folders!Drawn, MapGood, FoldersGood

\* No answer leads the map to another folder than the one asked for last.
LEMMA FoldersSteps == ASSUME FoldersGood(s), Folders!Next PROVE FoldersGood(s)' /\ Folders!LandsWhereLastAsked
<1>1. CASE s.part = "chart" /\ Folders!EnterArc
  <2>1. s'.part = "chart"
    BY <1>1 DEF Folders!EnterArc, Folders!Drawn
  <2> QED BY <1>1, <2>1 DEF FoldersGood, Folders!LandsWhereLastAsked
<1>2. CASE s.part = "browse" /\ Folders!Browsing
  <2>1. MapGood(s)
    BY <1>2 DEF FoldersGood
  <2>2. ASSUME NEW op \in Folders!Operations, Folders!Answers(op) PROVE MapGood(s') /\ Folders!LandsWhereLastAsked
    BY <2>1, <2>2, MapReads, MapAnswers DEF Folders!Answers, Folders!Operations
  <2>3. MapGood(s') /\ Folders!LandsWhereLastAsked
    BY <1>2, <2>1, <2>2, MapScanSteps, MapViews, MapPlain, MapMoves, MapDrills DEF Folders!Browsing
  <2> QED BY <2>3 DEF FoldersGood, MapGood
<1> QED BY <1>1, <1>2 DEF Folders!Next

-------------------------------------------------------------------------------
(* The results of the text tools.                                            *)

TextFields == {"of", "tool", "turns", "epoch", "revision", "input", "output", "error", "jobs", "mounted", "edits", "clears"}
JobFields == {"of", "epoch", "revision", "own", "live", "put", "edits", "clears"}

\* What a job began with: of the values as they are, nothing was edited since.
JobFits(j, t) ==
  /\ DOMAIN j = JobFields /\ j.epoch \in Int /\ j.revision \in Int /\ j.clears = j.epoch
  /\ j.epoch <= t.epoch /\ j.revision <= t.revision
  /\ j.epoch = t.epoch /\ j.revision = t.revision => j.edits = t.edits

TextGood(t) ==
  /\ t.of = "text" /\ DOMAIN t = TextFields
  /\ t.turns \in Int /\ t.epoch \in Int /\ t.revision \in Int /\ t.clears = t.epoch
  /\ \A j \in t.jobs : JobFits(j, t)

Began(j, k) ==
  /\ DOMAIN j = JobFields /\ j.epoch = k.epoch /\ j.revision = k.revision /\ j.edits = k.edits /\ j.clears = k.clears

\* An edit makes a revision; a job goes on or begins.
TextMoves(t, u) ==
  /\ u.of = "text" /\ DOMAIN u = TextFields /\ u.turns = t.turns
  /\ u.epoch \in Int /\ u.revision \in Int /\ t.epoch <= u.epoch /\ t.revision <= u.revision /\ u.clears = u.epoch
  /\ u.edits = t.edits \/ t.revision < u.revision
  /\ \A j \in u.jobs : JobFits(j, u) \/ \E k \in t.jobs : Began(j, k)

\* A move of the text tools keeps the invariant.
LEMMA TextOn == ASSUME NEW t, TextGood(t), NEW u, TextMoves(t, u) PROVE TextGood(u)
<1>1. ASSUME NEW j, NEW k, JobFits(k, t), Began(j, k) PROVE JobFits(j, u)
  BY <1>1 DEF JobFits, Began, TextGood, TextMoves
<1> QED BY <1>1 DEF TextGood, TextMoves

\* A turn of the user keeps it too, and is counted.
LEMMA TextTurn ==
  ASSUME NEW t, TextGood(t) PROVE TextGood(Simple!Turn(t)) /\ Simple!Turn(t).turns = t.turns + 1
<1> DEFINE u == Simple!Turn(t)
<1>1. /\ DOMAIN u = TextFields /\ u.of = "text" /\ u.turns = t.turns + 1 /\ u.epoch = t.epoch /\ u.revision = t.revision
      /\ u.clears = t.clears /\ u.edits = t.edits /\ u.jobs = t.jobs
  BY DEF Simple!Turn, TextGood, TextFields
<1> HIDE DEF u
<1>2. TextGood(u)
  BY <1>1 DEF TextGood, JobFits
<1> QED BY <1>1, <1>2 DEF u

\* A turn takes no late result.
LEMMA TextTurned ==
  ASSUME TextGood(s), NEW u, TextMoves(s, u), s' = Simple!Turn(u) PROVE TextGood(s)' /\ Simple!LateResultFits
<1>1. TextGood(u) /\ u.turns = s.turns /\ s.turns \in Int
  BY TextOn DEF TextMoves, TextGood
<1>2. TextGood(s') /\ s'.turns = u.turns + 1
  BY <1>1, TextTurn
<1> QED BY <1>1, <1>2 DEF Simple!LateResultFits

\* Nor does a step that makes no revision.
LEMMA TextStill ==
  ASSUME TextGood(s), TextMoves(s, s'), s'.revision = s.revision PROVE TextGood(s)' /\ Simple!LateResultFits
<1>1. TextGood(s')
  BY TextOn
<1> QED BY <1>1 DEF Simple!LateResultFits

\* No job runs in the beginning.
LEMMA TextStarts == ASSUME Simple!TextInit PROVE TextGood(s)
BY DEF Simple!TextInit, TextGood, TextFields

\* A job that begins fits what it begins with.
LEMMA TextJob ==
  ASSUME NEW t, NEW u, u.epoch = t.epoch, u.revision = t.revision, u.edits = t.edits,
         t.epoch \in Int, t.revision \in Int, t.clears = t.epoch, NEW of
  PROVE  JobFits(Simple!Job(t, of), u) /\ JobFits([Simple!Job(t, of) EXCEPT !.own = FALSE, !.put = TRUE], u)
BY DEF JobFits, JobFields, Simple!Job

\* A job that is superseded or left began as it did.
LEMMA TextJobs ==
  ASSUME TextGood(s)
  PROVE  /\ \A j \in s.jobs : Began(j, j)
         /\ \A j \in Simple!Superseded(s.jobs) : \E k \in s.jobs : Began(j, k)
         /\ \A j \in {[j EXCEPT !.own = FALSE] : j \in s.jobs} : \E k \in s.jobs : Began(j, k)
<1>1. \A j \in s.jobs : DOMAIN j = JobFields
  BY DEF TextGood, JobFits
<1>2. ASSUME NEW k \in s.jobs, NEW x, NEW f \in {"own", "live"} PROVE Began([k EXCEPT ![f] = x], k) /\ Began(k, k)
  BY <1>1, <1>2 DEF Began, JobFields
<1>3. ASSUME NEW j \in Simple!Superseded(s.jobs) PROVE \E k \in s.jobs : Began(j, k)
  <2>1. PICK k \in s.jobs : j = [k EXCEPT !.live = @ /\ ~k.own]
    BY DEF Simple!Superseded
  <2>2. Began(j, k)
    BY <1>1, <2>1 DEF Began, JobFields
  <2> QED BY <2>2
<1>4. ASSUME NEW j \in {[j EXCEPT !.own = FALSE] : j \in s.jobs} PROVE \E k \in s.jobs : Began(j, k)
  <2>1. PICK k \in s.jobs : j = [k EXCEPT !.own = FALSE]
    OBVIOUS
  <2>2. Began(j, k)
    BY <1>1, <2>1 DEF Began, JobFields
  <2> QED BY <2>2
<1>5. \A j \in s.jobs : Began(j, j)
  BY <1>1 DEF Began
<1> QED BY <1>3, <1>4, <1>5

\* The edits, the tools that answer at once, and the clears.
LEMMA TextEdits ==
  ASSUME TextGood(s), (\E i : Simple!EditInput(i)) \/ Simple!RunNow \/ Simple!ClearPage \/ Simple!ClearSharedToolState
  PROVE  TextGood(s)' /\ Simple!LateResultFits
<1>1. ASSUME NEW i, Simple!EditInput(i) PROVE TextGood(s)' /\ Simple!LateResultFits
  <2> DEFINE u == [[s EXCEPT !.input = i, !.edits = @ + 1] EXCEPT !.revision = @ + 1]
  <2>1. s' = Simple!Turn(u)
    BY <1>1 DEF Simple!EditInput, Simple!SetValues
  <2>2. TextMoves(s, u)
    BY TextJobs DEF TextGood, TextMoves, TextFields
  <2> HIDE DEF u
  <2> QED BY <2>1, <2>2, TextTurned
<1>2. CASE Simple!RunNow
  <2> DEFINE u == [[s EXCEPT !.output = s.input, !.error = 0] EXCEPT !.revision = @ + 1]
             v == [[s EXCEPT !.error = s.input] EXCEPT !.revision = @ + 1]
  <2>1. s' = Simple!Turn(u) \/ s' = Simple!Turn(v)
    BY <1>2 DEF Simple!RunNow, Simple!SetValues
  <2>2. TextMoves(s, u) /\ TextMoves(s, v)
    BY TextJobs DEF TextGood, TextMoves, TextFields
  <2> HIDE DEF u, v
  <2> QED BY <2>1, <2>2, TextTurned
<1>3. CASE Simple!ClearPage
  <2> DEFINE jobs == IF s.tool \in {"text-sha256", "qr-code"} THEN Simple!Superseded(s.jobs) ELSE s.jobs
             u == [[[s EXCEPT !.output = 0] EXCEPT !.jobs = jobs] EXCEPT !.revision = @ + 1]
             v == [[[s EXCEPT !.input = 0, !.output = 0, !.edits = @ + 1] EXCEPT !.jobs = jobs] EXCEPT !.revision = @ + 1]
  <2>1. s' = Simple!Turn(u) \/ s' = Simple!Turn(v)
    BY <1>3 DEF Simple!ClearPage, Simple!SetValues
  <2>2. \A j \in jobs : \E k \in s.jobs : Began(j, k)
    BY TextJobs
  <2> HIDE DEF jobs
  <2>3. TextMoves(s, u) /\ TextMoves(s, v)
    BY <2>2 DEF TextGood, TextMoves, TextFields
  <2> HIDE DEF u, v
  <2> QED BY <2>1, <2>3, TextTurned
<1>4. CASE Simple!ClearSharedToolState
  <2> DEFINE u == [s EXCEPT !.epoch = @ + 1, !.input = 0, !.output = 0, !.error = 0, !.clears = @ + 1]
  <2>1. s' = Simple!Turn(u)
    BY <1>4 DEF Simple!ClearSharedToolState
  <2>2. TextMoves(s, u)
    BY TextJobs DEF TextGood, TextMoves, TextFields
  <2> HIDE DEF u
  <2> QED BY <2>1, <2>2, TextTurned
<1> QED BY <1>1, <1>2, <1>3, <1>4

\* The jobs that begin.
LEMMA TextRuns ==
  ASSUME TextGood(s), Simple!RunRegex \/ Simple!RunDigest \/ \E i : Simple!RunForChat(i)
  PROVE  TextGood(s)' /\ Simple!LateResultFits
<1>1. CASE Simple!RunRegex
  <2> DEFINE t == [[s EXCEPT !.error = 0] EXCEPT !.revision = @ + 1]
             job == Simple!Job(t, s.input)
             u == [t EXCEPT !.jobs = @ \cup {job}]
  <2>1. s' = Simple!Turn(u)
    BY <1>1 DEF Simple!RunRegex, Simple!SetValues
  <2>2. /\ DOMAIN t = TextFields /\ t.of = "text" /\ t.turns = s.turns /\ t.epoch = s.epoch /\ t.revision = s.revision + 1
        /\ t.clears = s.clears /\ t.edits = s.edits /\ t.jobs = s.jobs
    BY DEF TextGood, TextFields
  <2> HIDE DEF t, job
  <2>3. /\ DOMAIN u = TextFields /\ u.of = "text" /\ u.turns = t.turns /\ u.epoch = t.epoch /\ u.revision = t.revision
        /\ u.clears = t.clears /\ u.edits = t.edits /\ u.jobs = t.jobs \cup {job}
    BY <2>2 DEF TextFields
  <2> HIDE DEF u
  <2>4. t.epoch \in Int /\ t.revision \in Int /\ t.clears = t.epoch
    BY <2>2 DEF TextGood
  <2>5. JobFits(job, u)
    BY <2>3, <2>4, TextJob DEF job
  <2>6. TextMoves(s, u)
    BY <2>2, <2>3, <2>5, TextJobs DEF TextMoves, TextGood
  <2> QED BY <2>1, <2>6, TextTurned
<1>2. CASE Simple!RunDigest
  <2> DEFINE job == Simple!Job(s, s.input)
             u == [s EXCEPT !.jobs = Simple!Superseded(@) \cup {job}]
  <2>1. s' = Simple!Turn(u)
    BY <1>2 DEF Simple!RunDigest
  <2> HIDE DEF job
  <2>2. /\ DOMAIN u = TextFields /\ u.of = "text" /\ u.turns = s.turns /\ u.epoch = s.epoch /\ u.revision = s.revision
        /\ u.clears = s.clears /\ u.edits = s.edits /\ u.jobs = Simple!Superseded(s.jobs) \cup {job}
    BY DEF TextGood, TextFields
  <2> HIDE DEF u
  <2>3. JobFits(job, u)
    BY <2>2, TextJob DEF job, TextGood
  <2>4. TextMoves(s, u)
    BY <2>2, <2>3, TextJobs DEF TextMoves, TextGood
  <2> QED BY <2>1, <2>4, TextTurned
<1>3. ASSUME NEW i, Simple!RunForChat(i) PROVE TextGood(s)' /\ Simple!LateResultFits
  <2> DEFINE job == [Simple!Job(s, i) EXCEPT !.own = FALSE, !.put = TRUE]
             u == [s EXCEPT !.jobs = @ \cup {job}]
  <2>1. s' = Simple!Turn(u)
    BY <1>3 DEF Simple!RunForChat
  <2> HIDE DEF job
  <2>2. /\ DOMAIN u = TextFields /\ u.of = "text" /\ u.turns = s.turns /\ u.epoch = s.epoch /\ u.revision = s.revision
        /\ u.clears = s.clears /\ u.edits = s.edits /\ u.jobs = s.jobs \cup {job}
    BY DEF TextGood, TextFields
  <2> HIDE DEF u
  <2>3. JobFits(job, u)
    BY <2>2, TextJob DEF job, TextGood
  <2>4. TextMoves(s, u)
    BY <2>2, <2>3, TextJobs DEF TextMoves, TextGood
  <2> QED BY <2>1, <2>4, TextTurned
<1> QED BY <1>1, <1>2, <1>3

\* A result is shown of the values it was made of, or tells that it failed.
LEMMA TextAnswers ==
  ASSUME TextGood(s), NEW j, Simple!JobAnswers(j) PROVE TextGood(s)' /\ Simple!LateResultFits
<1> DEFINE t == [s EXCEPT !.jobs = @ \ {j}]
<1>1. /\ DOMAIN t = TextFields /\ t.of = "text" /\ t.turns = s.turns /\ t.epoch = s.epoch /\ t.revision = s.revision
      /\ t.clears = s.clears /\ t.edits = s.edits /\ t.jobs = s.jobs \ {j} /\ t.input = s.input /\ t.output = s.output
  BY DEF TextGood, TextFields
<1>2. j \in s.jobs /\ JobFits(j, s) /\ s.epoch \in Int /\ s.revision \in Int /\ s.clears = s.epoch
  BY DEF TextGood, Simple!JobAnswers
<1>3. \/ s' = t
      \/ s' = Simple!PublishToolValues(t, j)
      \/ s' = Simple!SetValues(t, j.epoch, [t EXCEPT !.error = j.of])
  BY DEF Simple!JobAnswers
<1> HIDE DEF t
<1>4. TextMoves(s, t)
  BY <1>1, <1>2, TextJobs DEF TextMoves
<1>5. CASE s' = t
  BY <1>1, <1>4, <1>5, TextStill
<1>6. CASE s' # t
  <2>1. \/ /\ j.epoch = t.epoch /\ j.revision = t.revision
           /\ s' = [t EXCEPT !.output = j.of, !.error = 0, !.input = IF j.put THEN j.of ELSE @, !.revision = @ + 1]
        \/ j.epoch = t.epoch /\ s' = [[t EXCEPT !.error = j.of] EXCEPT !.revision = @ + 1]
    BY <1>3, <1>6 DEF Simple!PublishToolValues, Simple!SetValues
  <2>2. /\ DOMAIN s' = TextFields /\ s'.of = "text" /\ s'.turns = t.turns /\ s'.epoch = t.epoch
        /\ s'.revision = t.revision + 1 /\ s'.clears = t.clears /\ s'.edits = t.edits /\ s'.jobs = t.jobs
        /\ j.epoch = s.epoch
        /\ j.revision = s.revision \/ (s'.input = s.input /\ s'.output = s.output)
    BY <1>1, <2>1 DEF TextFields, TextGood
  <2>3. TextMoves(s, s')
    BY <1>1, <1>2, <2>2, TextJobs DEF TextMoves
  <2>4. ASSUME NEW k \in s.jobs, s'.jobs = s.jobs \ {k} PROVE k = j
    BY <1>1, <1>2, <2>2, <2>4
  <2>5. j.clears = s.clears /\ (j.edits = s.edits \/ (s'.input = s.input /\ s'.output = s.output))
    BY <1>2, <2>2 DEF JobFits
  <2>6. Simple!LateResultFits
    BY <2>4, <2>5 DEF Simple!LateResultFits
  <2>7. TextGood(s')
    BY <2>3, TextOn
  <2> QED BY <2>6, <2>7
<1> QED BY <1>5, <1>6

\* No late result replaces what was edited or cleared since.
LEMMA TextSteps == ASSUME TextGood(s), Simple!TextNext PROVE TextGood(s)' /\ Simple!LateResultFits
<1>1. ASSUME NEW tool, Simple!OpenTool(tool) PROVE TextMoves(s, s') /\ s'.revision = s.revision
  BY <1>1, TextJobs DEF Simple!OpenTool, TextMoves, TextGood, TextFields
<1>2. CASE Simple!EnterText
  <2>1. TextMoves(s, s') /\ s'.revision = s.revision
    BY <1>2, TextJobs DEF Simple!EnterText, TextMoves, TextGood, TextFields
  <2> QED BY <2>1, TextStill
<1>3. CASE Simple!LeaveText
  <2> DEFINE jobs == {[j EXCEPT !.own = FALSE] : j \in s.jobs}
             u == [s EXCEPT !.mounted = FALSE, !.jobs = jobs]
  <2>1. s' = Simple!Turn(u)
    BY <1>3 DEF Simple!LeaveText
  <2>2. \A j \in jobs : \E k \in s.jobs : Began(j, k)
    BY TextJobs
  <2> HIDE DEF jobs
  <2>3. TextMoves(s, u)
    BY <2>2 DEF TextMoves, TextGood, TextFields
  <2> HIDE DEF u
  <2> QED BY <2>1, <2>3, TextTurned
<1> QED BY <1>1, <1>2, <1>3, TextStill, TextEdits, TextRuns, TextAnswers DEF Simple!TextNext

-------------------------------------------------------------------------------
(* What runs beside the page of the image tools.                             *)

EngineFields ==
  [of \in {"task", "picture", "archive", "reader"} |->
     CASE of = "task" -> {"of", "mode", "width", "out", "posted", "settled", "released", "disposed"}
       [] of = "picture" -> {"of", "generation", "loading", "source", "shown"}
       [] of = "archive" ->
            {"of", "budget", "pending", "settled", "aborted", "appended", "requests", "replies", "got", "job"}
       [] of = "reader" -> {"of", "step", "late", "settled", "sdk", "disposals", "cached", "failed"}]

\* What an inspection waits for is not known yet.
EngineGood(t) ==
  /\ t.of \in {"task", "picture", "archive", "reader"} /\ DOMAIN t = EngineFields[t.of]
  /\ t.of = "reader" /\ t.step # "done" => t.settled = "none"

\* A step of a task or of an archive that stands by what it ended with.
Stands(t, u) ==
  /\ u.of = t.of /\ DOMAIN u = DOMAIN t
  /\ t.of = "reader" /\ u.step # "done" => u.settled = "none"
  /\ t.of # "picture" /\ t.settled # "none" => u.settled = t.settled

\* What stands by what it ended with ends once.
LEMMA EngineStands ==
  ASSUME EngineGood(s), Stands(s, s') PROVE EngineGood(s)' /\ Engine!EndsOnce
BY DEF EngineGood, Stands, Engine!EndsOnce

\* Nothing that starts has ended, unless it was refused.
LEMMA EngineStarts == ASSUME Engine!Init PROVE EngineGood(s)
<1>1. ASSUME NEW mode, NEW width, NEW t, t = Engine!NewTask(mode, width) PROVE t.of = "task" /\ DOMAIN t = EngineFields["task"]
  BY <1>1 DEF Engine!NewTask, EngineFields
<1>2. CASE \E mode \in Engine!Modes, width \in Engine!Widths : s = Engine!NewTask(mode, width)
  BY <1>1, <1>2 DEF EngineGood
<1>3. CASE s = Engine!Refused
  <2> DEFINE t == Engine!NewTask("execute", 2)
  <2>1. t.of = "task" /\ DOMAIN t = EngineFields["task"]
    BY <1>1
  <2>2. s = [t EXCEPT !.settled = "error", !.released = TRUE]
    BY <1>3 DEF Engine!Refused
  <2> HIDE DEF t
  <2>3. s.of = "task" /\ DOMAIN s = EngineFields["task"]
    BY <2>1, <2>2 DEF EngineFields
  <2> QED BY <2>3 DEF EngineGood
<1>4. CASE s = Engine!NewPicture
  BY <1>4 DEF Engine!NewPicture, EngineGood, EngineFields
<1>5. CASE s = Engine!NewArchive
  BY <1>5 DEF Engine!NewArchive, EngineGood, EngineFields
<1>6. CASE s = Engine!NewReader
  BY <1>6 DEF Engine!NewReader, EngineGood, EngineFields
<1> QED BY <1>2, <1>3, <1>4, <1>5, <1>6 DEF Engine!Init

\* A task that fails or lets its worker go ends once.
LEMMA EngineFails ==
  ASSUME NEW t, t.of = "task", DOMAIN t = EngineFields["task"], NEW why
  PROVE  Stands(t, Engine!Fail(t, why)) /\ Stands(t, Engine!ReleaseWorker(t)) /\ Stands(t, Engine!Terminate(t, why))
<1>1. Stands(t, Engine!ReleaseWorker(t))
  BY DEF Stands, Engine!ReleaseWorker, EngineFields
<1>2. ASSUME NEW x, x.of = "task", DOMAIN x = EngineFields["task"] PROVE Stands(x, Engine!Fail(x, why))
  BY <1>2 DEF Stands, Engine!ReleaseWorker, Engine!Fail, Engine!Open, EngineFields
<1> DEFINE u == Engine!ReleaseWorker(t)
<1>3. u.of = "task" /\ DOMAIN u = EngineFields["task"] /\ Stands(u, Engine!Fail(u, why))
  BY <1>1, <1>2 DEF Stands
<1>4. Stands(t, Engine!Fail(u, why))
  <2> HIDE DEF u
  <2>1. Stands(t, u)
    BY <1>1 DEF u
  <2> QED BY <1>3, <2>1 DEF Stands
<1> QED BY <1>1, <1>2, <1>4 DEF Engine!Terminate

\* The steps of a task.
LEMMA EngineTaskSteps ==
  ASSUME EngineGood(s),
         \/ Engine!WorkerPosts \/ Engine!MessageArrives \/ Engine!WorkerExits \/ Engine!StopTask \/ Engine!TaskDeadline
         \/ Engine!TaskIsDisposed
  PROVE  Stands(s, s')
<1>0. s.of = "task" /\ DOMAIN s = EngineFields["task"]
  BY DEF EngineGood, Engine!WorkerPosts, Engine!MessageArrives, Engine!WorkerExits, Engine!StopTask, Engine!TaskDeadline,
         Engine!TaskIsDisposed
<1>1. CASE Engine!WorkerPosts
  BY <1>0, <1>1 DEF Engine!WorkerPosts, Stands, EngineFields
<1>2. CASE Engine!WorkerExits \/ Engine!StopTask \/ Engine!TaskDeadline
  BY <1>0, <1>2, EngineFails DEF Engine!WorkerExits, Engine!StopTask, Engine!TaskDeadline
<1>3. CASE Engine!TaskIsDisposed
  <2> DEFINE u == IF Engine!Open(s.settled) THEN Engine!Terminate(s, "stopped") ELSE Engine!ReleaseWorker(s)
  <2>1. Stands(s, u)
    BY <1>0, EngineFails
  <2>2. s' = [u EXCEPT !.disposed = TRUE]
    BY <1>3 DEF Engine!TaskIsDisposed, Engine!DisposeTask
  <2> HIDE DEF u
  <2> QED BY <1>0, <2>1, <2>2 DEF Stands, EngineFields
<1>4. CASE Engine!MessageArrives
  <2> DEFINE out == Engine!ExecuteTransform(s.mode, s.width)
             rest == [s EXCEPT !.posted = "heard"]
             result == [rest EXCEPT !.settled = "result", !.out = out]
  <2>1. \/ s' = rest
        \/ Engine!Open(s.settled) /\ s' \in {Engine!Fail(rest, "error"), result, Engine!ReleaseWorker(result)}
    BY <1>4 DEF Engine!MessageArrives, Engine!Heard
  <2> HIDE DEF out
  <2>2. Stands(s, rest) /\ rest.of = "task" /\ DOMAIN rest = EngineFields["task"] /\ rest.settled = s.settled
    BY <1>0 DEF Stands, EngineFields
  <2>3. result.of = "task" /\ DOMAIN result = EngineFields["task"]
    BY <1>0 DEF EngineFields
  <2> HIDE DEF rest, result
  <2>4. Stands(rest, Engine!Fail(rest, "error"))
    BY <2>2, EngineFails
  <2>5. Stands(result, Engine!ReleaseWorker(result))
    BY <2>3, EngineFails
  <2> QED BY <1>0, <2>1, <2>2, <2>3, <2>4, <2>5 DEF Stands, Engine!Open
<1> QED BY <1>1, <1>2, <1>3, <1>4

\* The steps of a picture.
LEMMA EnginePictureSteps ==
  ASSUME EngineGood(s), Engine!LoadEnds \/ \E source : Engine!SetSource(source)
  PROVE  Stands(s, s')
<1>0. s.of = "picture" /\ DOMAIN s = EngineFields["picture"]
  BY DEF EngineGood, Engine!LoadEnds, Engine!SetSource
<1>1. CASE \E source : Engine!SetSource(source)
  BY <1>0, <1>1 DEF Engine!SetSource, Stands, EngineFields
<1>2. CASE Engine!LoadEnds
  BY <1>0, <1>2 DEF Engine!LoadEnds, Engine!Loaded, Stands, EngineFields
<1> QED BY <1>1, <1>2

\* An archive that is closed ends once.
LEMMA EngineCloses ==
  ASSUME NEW t, t.of = "archive", DOMAIN t = EngineFields["archive"], NEW why
  PROVE  Stands(t, Engine!CloseWriter(t, why))
BY DEF Engine!CloseWriter, Engine!Open, Stands, EngineFields

\* The steps of an archive.
LEMMA EngineArchiveSteps ==
  ASSUME EngineGood(s),
         \/ Engine!AppendItem \/ Engine!FinishArchive \/ Engine!AbortArchive \/ Engine!DisposeWriter
         \/ Engine!ZipWorkerServes \/ Engine!ZipWorkerAnswers
  PROVE  Stands(s, s')
<1>0. s.of = "archive" /\ DOMAIN s = EngineFields["archive"]
  BY DEF EngineGood, Engine!AppendItem, Engine!FinishArchive, Engine!AbortArchive, Engine!DisposeWriter,
         Engine!ZipWorkerServes, Engine!ZipWorkerAnswers
<1> DEFINE Mine(t) == t.of = "archive" /\ DOMAIN t = EngineFields["archive"]
<1>1. CASE Engine!AppendItem
  <2>1. PICK budget, size :
          s' \in {[s EXCEPT !.budget = budget, !.pending = "append", !.appended = Append(@, size),
                            !.requests = Append(@, [type |-> "append", size |-> size, inputs |-> budget.inputs])],
                  Engine!CloseWriter(s, "failed")}
    BY <1>1 DEF Engine!AppendItem
  <2>2. CASE s' = Engine!CloseWriter(s, "failed")
    BY <1>0, <2>2, EngineCloses
  <2>3. CASE s' = [s EXCEPT !.budget = budget, !.pending = "append", !.appended = Append(@, size),
                            !.requests = Append(@, [type |-> "append", size |-> size, inputs |-> budget.inputs])]
    BY <1>0, <2>3 DEF Stands, EngineFields
  <2> QED BY <2>1, <2>2, <2>3
<1>2. CASE Engine!FinishArchive
  BY <1>0, <1>2 DEF Engine!FinishArchive, Stands, EngineFields
<1>3. CASE Engine!AbortArchive
  <2> DEFINE u == Engine!CloseWriter(s, "stopped")
  <2>1. Stands(s, u) /\ s' = [u EXCEPT !.aborted = TRUE]
    BY <1>0, <1>3, EngineCloses DEF Engine!AbortArchive
  <2> HIDE DEF u
  <2> QED BY <1>0, <2>1 DEF Stands, EngineFields
<1>4. CASE Engine!DisposeWriter
  BY <1>0, <1>4, EngineCloses DEF Engine!DisposeWriter
<1>5. CASE Engine!ZipWorkerServes
  <2>1. PICK job, replies : s' = [s EXCEPT !.requests = Tail(@), !.job = job, !.replies = replies]
    BY <1>5 DEF Engine!ZipWorkerServes
  <2> QED BY <1>0, <2>1 DEF Stands, EngineFields
<1>6. CASE Engine!ZipWorkerAnswers
  <2> DEFINE t == [s EXCEPT !.replies = Tail(@)]
             failed == Engine!CloseWriter(t, "failed")
             over == Engine!CloseWriter(t, "complete")
  <2>1. s' \in {failed, [t EXCEPT !.pending = "none"], [over EXCEPT !.got = t.job.items]}
    BY <1>6 DEF Engine!ZipWorkerAnswers, Engine!ZipReply
  <2>2. Mine(t) /\ Stands(s, t)
    BY <1>0 DEF Stands, EngineFields
  <2> HIDE DEF t
  <2>3. Stands(t, failed) /\ Stands(t, over)
    BY <2>2, EngineCloses
  <2> HIDE DEF failed, over
  <2>4. CASE s' = failed
    BY <2>2, <2>3, <2>4 DEF Stands
  <2>5. CASE s' = [t EXCEPT !.pending = "none"]
    BY <2>2, <2>5 DEF Stands, EngineFields
  <2>6. CASE s' = [over EXCEPT !.got = t.job.items]
    BY <2>2, <2>3, <2>6 DEF Stands, EngineFields
  <2> QED BY <2>1, <2>4, <2>5, <2>6
<1> QED BY <1>1, <1>2, <1>3, <1>4, <1>5, <1>6

\* An inspection ends, with the SDK it has open.
LEMMA EngineInspected ==
  ASSUME NEW t, t.of = "reader", DOMAIN t = EngineFields["reader"], NEW what
  PROVE  LET d == Engine!Dispose(t)
             u == Engine!Inspected(t, what)
         IN /\ d.of = "reader" /\ DOMAIN d = EngineFields["reader"] /\ d.settled = t.settled /\ d.step = t.step
            /\ u.of = "reader" /\ DOMAIN u = EngineFields["reader"] /\ u.step = "done"
<1> DEFINE d == Engine!Dispose(t)
           u == Engine!Inspected(t, what)
<1>1. d.of = "reader" /\ DOMAIN d = EngineFields["reader"] /\ d.settled = t.settled /\ d.step = t.step
  BY DEF Engine!Dispose, EngineFields
<1>2. u = [d EXCEPT !.settled = what, !.step = "done"]
  BY DEF Engine!Inspected
<1> HIDE DEF d, u
<1>3. u.of = "reader" /\ DOMAIN u = EngineFields["reader"] /\ u.step = "done"
  BY <1>1, <1>2 DEF EngineFields
<1> QED BY <1>1, <1>3 DEF d, u

\* The steps of a reader.
LEMMA EngineReaderSteps ==
  ASSUME EngineGood(s), Engine!LoadC2paRuntime \/ Engine!CreateC2pa \/ Engine!ReadManifest \/ Engine!StopReader
  PROVE  Stands(s, s')
<1>0. s.of = "reader" /\ DOMAIN s = EngineFields["reader"] /\ (s.step # "done" => s.settled = "none")
  BY DEF EngineGood, Engine!LoadC2paRuntime, Engine!CreateC2pa, Engine!ReadManifest, Engine!StopReader
<1> DEFINE Mine(t) == t.of = "reader" /\ DOMAIN t = EngineFields["reader"]
<1>1. ASSUME NEW t, Mine(t), NEW what, s' = Engine!Inspected(t, what), s.step # "done" PROVE Stands(s, s')
  BY <1>0, <1>1, EngineInspected DEF Stands
<1>2. ASSUME NEW t, Mine(t), t.settled = s.settled, t.step = s.step, s' = t PROVE Stands(s, s')
  BY <1>0, <1>2 DEF Stands
<1>3. CASE Engine!LoadC2paRuntime
  <2>1. PICK cached, what :
          LET t == [s EXCEPT !.cached = cached]
          IN \/ s' = t
             \/ s.step = "runtime" /\ s' = Engine!Inspected(t, what)
             \/ s.step = "runtime" /\ s' = [t EXCEPT !.step = "sdk", !.late = {"sdk"}]
    <3>1. PICK ok \in BOOLEAN, supported \in BOOLEAN :
             LET t == [s EXCEPT !.cached = IF ok THEN "ready" ELSE "none"]
             IN s' = IF s.step # "runtime" THEN t
                     ELSE IF ~ok THEN Engine!Inspected(t, "failed")
                     ELSE IF ~supported THEN Engine!Inspected(t, "unsupported")
                     ELSE [t EXCEPT !.step = "sdk", !.late = {"sdk"}]
      BY <1>3 DEF Engine!LoadC2paRuntime
    <3> QED BY <3>1
  <2> DEFINE t == [s EXCEPT !.cached = cached]
  <2>2. Mine(t) /\ t.settled = s.settled /\ t.step = s.step
    BY <1>0 DEF EngineFields
  <2>3. \/ s' = t
        \/ s.step = "runtime" /\ s' = Engine!Inspected(t, what)
        \/ s.step = "runtime" /\ s' = [t EXCEPT !.step = "sdk", !.late = {"sdk"}]
    BY <2>1
  <2> HIDE DEF t
  <2>4. CASE s.step = "runtime" /\ s' = [t EXCEPT !.step = "sdk", !.late = {"sdk"}]
    BY <1>0, <2>2, <2>4 DEF Stands, EngineFields
  <2> QED BY <1>1, <1>2, <2>2, <2>3, <2>4
<1>4. CASE Engine!CreateC2pa
  <2> DEFINE rest == [s EXCEPT !.late = {}]
             open == [rest EXCEPT !.sdk = "open"]
  <2>1. \/ s.step = "sdk" /\ s' \in {[open EXCEPT !.step = "reader"], Engine!Inspected(rest, "failed")}
        \/ s' \in {Engine!Dispose(open), rest}
    BY <1>0, <1>4 DEF Engine!CreateC2pa, Engine!SdkIsCreated
  <2>2. /\ Mine(rest) /\ rest.settled = s.settled /\ rest.step = s.step
        /\ Mine(open) /\ open.settled = s.settled /\ open.step = s.step
    BY <1>0 DEF EngineFields
  <2> HIDE DEF rest, open
  <2>3. CASE s.step = "sdk" /\ s' = [open EXCEPT !.step = "reader"]
    BY <1>0, <2>2, <2>3 DEF Stands, EngineFields
  <2>4. CASE s' = Engine!Dispose(open)
    BY <1>2, <2>2, <2>4, EngineInspected
  <2> QED BY <1>1, <1>2, <2>1, <2>2, <2>3, <2>4
<1>5. CASE Engine!ReadManifest
  <2>1. /\ s.step # "done"
        /\ \/ \E what : s' = Engine!Inspected(s, what)
           \/ s' = [s EXCEPT !.step = "store"]
           \/ \E failed : s' = [s EXCEPT !.step = "free", !.failed = failed]
    BY <1>5 DEF Engine!ReadManifest
  <2>2. CASE \E what : s' = Engine!Inspected(s, what)
    BY <1>0, <1>1, <2>1, <2>2
  <2>3. CASE s' = [s EXCEPT !.step = "store"]
    BY <1>0, <2>1, <2>3 DEF Stands, EngineFields
  <2>4. CASE \E failed : s' = [s EXCEPT !.step = "free", !.failed = failed]
    BY <1>0, <2>1, <2>4 DEF Stands, EngineFields
  <2> QED BY <2>1, <2>2, <2>3, <2>4
<1>6. CASE Engine!StopReader
  BY <1>0, <1>1, <1>6 DEF Engine!StopReader
<1> QED BY <1>3, <1>4, <1>5, <1>6

\* Nothing that ended ends again with something else.
LEMMA EngineSteps == ASSUME EngineGood(s), Engine!Next PROVE EngineGood(s)' /\ Engine!EndsOnce
BY EngineStands, EngineTaskSteps, EnginePictureSteps, EngineArchiveSteps, EngineReaderSteps DEF Engine!Next

-------------------------------------------------------------------------------
(* Updates.                                                                  *)

UpdateFields == {"of", "turns", "running", "published", "window", "native", "installed", "found", "skipped", "reminder",
                 "records"}
PromptFields == {"checking", "action", "result", "available", "installable", "prompt", "poll", "query", "active", "receipt",
                 "operation"}

UpdateGood(t) ==
  \/ t.of = "support" /\ "of" \in DOMAIN t
  \/ t.of = "update" /\ DOMAIN t = UpdateFields /\ DOMAIN t.window = PromptFields

\* A step that offers no release that was not offered before it.
Quiet(t, u) ==
  /\ u.of = "update" /\ DOMAIN u = UpdateFields /\ DOMAIN u.window = PromptFields
  /\ u.window.prompt => t.window.prompt

\* No release is offered in the beginning.
LEMMA UpdateStarts == ASSUME Update!Init PROVE UpdateGood(s)
BY DEF Update!Init, Update!Start, Update!StartSupport, Update!FreshWindow, UpdateGood, UpdateFields, PromptFields

\* A step without an offer is a step that offers what may be offered.
LEMMA QuietFits == ASSUME s.of = "update", Quiet(s, s') PROVE UpdateGood(s)' /\ Update!OfferedStep
BY DEF Quiet, UpdateGood, Update!OfferedStep, Update!OfferedWhenWanted

\* Two of them make one.
LEMMA QuietOn == ASSUME NEW t, NEW u, NEW v, Quiet(t, u), Quiet(u, v) PROVE Quiet(t, v)
BY DEF Quiet

\* The task that ends, is followed or found again offers nothing.
LEMMA QuietSteps ==
  ASSUME NEW t, Quiet(t, t)
  PROVE  /\ \A status : Quiet(t, Update!Complete(t, status))
         /\ \A task : Quiet(t, Update!Follow(t, task))
         /\ \A phase : Quiet(t, Update!ReconcileNativeTask(t, phase))
         /\ Quiet(t, Update!Query(t)) /\ Quiet(t, Update!Reopened(t))
<1>1. \A status : Quiet(t, Update!Complete(t, status))
  BY DEF Quiet, UpdateFields, PromptFields, Update!Complete
<1>2. \A task : Quiet(t, Update!Follow(t, task))
  <2> TAKE task
  <2>1. Quiet(t, [t EXCEPT !.window.poll.stage = "polling", !.window.poll.failures = 0])
    BY DEF Quiet, UpdateFields, PromptFields
  <2> QED BY <1>1, <2>1 DEF Update!Follow
<1>3. \A phase : Quiet(t, Update!ReconcileNativeTask(t, phase))
  BY DEF Quiet, UpdateFields, PromptFields, Update!ReconcileNativeTask
<1>4. Quiet(t, Update!Query(t))
  BY DEF Quiet, UpdateFields, PromptFields, Update!Query
<1>5. Quiet(t, Update!Reopened(t))
  <2> DEFINE w == Update!FreshWindow(t.running, Update!LoadAvailable(t))
             u == [t EXCEPT !.window = w]
  <2>1. DOMAIN w = PromptFields /\ w.prompt = FALSE
    BY DEF Update!FreshWindow, PromptFields
  <2>2. Update!Reopened(t) = Update!Query(u)
    BY DEF Update!Reopened
  <2> HIDE DEF w
  <2> QED BY <2>1, <2>2 DEF Quiet, UpdateFields, PromptFields, Update!Query
<1> QED BY <1>1, <1>2, <1>3, <1>4, <1>5

\* Nor does a check that begins.
LEMMA QuietCheck ==
  ASSUME NEW t, Quiet(t, t), NEW manual PROVE Quiet(t, Update!Check(t, manual))
BY DEF Quiet, UpdateFields, PromptFields, Update!Check

\* Only a check that ends offers a release, and none that was put off.
LEMMA UpdateSteps == ASSUME UpdateGood(s), Update!Next PROVE UpdateGood(s)' /\ Update!OfferedStep
<1> USE DEF Update!May, Update!W, Update!Busy
<1> DEFINE spent == [s EXCEPT !.turns = @ - 1]
<1>1. CASE s.of = "support"
  <2>0. "of" \in DOMAIN s
    BY <1>1 DEF UpdateGood
  <2>1. s'.of = "support" /\ "of" \in DOMAIN s'
    <3>1. \/ Update!OpenSupportFlow \/ Update!CloseSupportFlow \/ Update!OpenGuidedIssue \/ Update!IssueIsOpened
          \/ Update!CopyDiagnostic \/ Update!GuideStep \/ Update!CloseGuide \/ Update!OpenGuide
      BY <1>1 DEF Update!Next, Update!CheckSteps, Update!InstallSteps, Update!RestartSteps, Update!SupportSteps,
        Update!CheckNow, Update!CheckByItself, Update!CheckEnds, Update!CheckFails, Update!RemindLater,
        Update!SkipAvailableVersion, Update!Install, Update!StartTask, Update!PollTask, Update!RunUpdate,
        Update!InstallEnds, Update!ShowWindow, Update!TaskIsRead, Update!Reconcile, Update!QueryFails, Update!Restart,
        Update!Restarts, Update!RestartFails, Update!DismissReceipt, Update!ReloadWindow, Update!Publish,
        Update!ReminderIsDue
    <3>2. Update!Spend.of = "support" /\ "of" \in DOMAIN Update!Spend
      BY <1>1, <2>0 DEF Update!Spend
    <3>3. CASE Update!OpenSupportFlow \/ Update!OpenGuidedIssue \/ Update!CopyDiagnostic \/ Update!GuideStep \/ Update!OpenGuide
      <4> DEFINE u == Update!Spend
      <4>1. \/ s' = [u EXCEPT !.open = TRUE, !.state = "idle"]
            \/ s' = [u EXCEPT !.state = "opening"]
            \/ \E copied : s' = [u EXCEPT !.copied = copied]
            \/ \E step : s' = [u EXCEPT !.step = step]
            \/ s' = [u EXCEPT !.guide = TRUE, !.step = 0]
        BY <3>3 DEF Update!OpenSupportFlow, Update!OpenGuidedIssue, Update!CopyDiagnostic, Update!GuideStep, Update!OpenGuide
      <4>2. u.of = "support" /\ "of" \in DOMAIN u
        BY <3>2
      <4> HIDE DEF u
      <4> QED BY <4>1, <4>2
    <3>4. CASE Update!CloseSupportFlow \/ Update!IssueIsOpened \/ Update!CloseGuide
      BY <1>1, <2>0, <3>4 DEF Update!CloseSupportFlow, Update!IssueIsOpened, Update!CloseGuide
    <3> QED BY <3>1, <3>3, <3>4
  <2> QED BY <1>1, <2>1 DEF UpdateGood, Update!OfferedStep
<1>2. CASE s.of = "update"
  <2>1. Quiet(s, s) /\ DOMAIN s = UpdateFields /\ DOMAIN s.window = PromptFields
    BY <1>2 DEF UpdateGood, Quiet
  <2>2. Quiet(s, spent) /\ Quiet(spent, spent) /\ Update!Spend = spent
    BY <2>1 DEF Quiet, UpdateFields, Update!Spend
  <2>3. CASE Update!CheckNow \/ Update!CheckByItself
    <3>0. \E manual \in BOOLEAN : s' = Update!Check(spent, manual)
      BY <2>2, <2>3 DEF Update!CheckNow, Update!CheckByItself
    <3>1. Quiet(s, s')
      <4> HIDE DEF spent
      <4>1. Quiet(spent, s')
        BY <2>2, <3>0, QuietCheck
      <4> QED BY <2>2, <4>1, QuietOn
    <3> QED BY <1>2, <3>1, QuietFits
  <2>4. CASE Update!CheckEnds
    <3> DEFINE found == IF s.published > s.running THEN s.published ELSE 0
               visible == IF found = s.skipped THEN 0 ELSE found
               prompt == s.window.checking = "auto" /\ visible # 0 /\ Update!Offered(s, visible)
    <3>1. s' = [s EXCEPT !.found = visible,
                         !.window = [s.window EXCEPT !.checking = "no", !.installable = found, !.available = visible,
                                                     !.result = IF found = 0 THEN "current" ELSE "available",
                                                     !.prompt = prompt]]
      BY <2>4 DEF Update!CheckEnds
    <3>2. prompt => visible # s.skipped /\ (s.reminder.version = visible => s.reminder.due)
      BY DEF Update!Offered
    <3> HIDE DEF found, visible, prompt
    <3>3. /\ DOMAIN s' = UpdateFields /\ s'.of = "update" /\ DOMAIN s'.window = PromptFields
          /\ s'.window.prompt = prompt /\ s'.window.available = visible
          /\ s'.skipped = s.skipped /\ s'.reminder = s.reminder
      BY <1>2, <2>1, <3>1 DEF UpdateFields, PromptFields
    <3> QED BY <3>2, <3>3 DEF UpdateGood, Update!OfferedStep, Update!OfferedWhenWanted
  <2>5. CASE Update!CheckFails \/ Update!RemindLater \/ Update!SkipAvailableVersion
    <3>1. CASE Update!CheckFails
      <4>1. Quiet(s, s')
        BY <1>2, <2>1, <3>1 DEF Update!CheckFails, Quiet, UpdateFields, PromptFields
      <4> QED BY <1>2, <4>1, QuietFits
    <3>2. CASE Update!RemindLater \/ Update!SkipAvailableVersion
      <4>1. \/ s' = [spent EXCEPT !.reminder = [version |-> s.window.available, due |-> FALSE], !.window.prompt = FALSE]
            \/ s' = [spent EXCEPT !.skipped = s.window.available, !.reminder = Update!NoPrompt, !.found = 0,
                                   !.window.available = 0, !.window.prompt = FALSE]
        BY <2>2, <3>2 DEF Update!RemindLater, Update!SkipAvailableVersion
      <4> HIDE DEF spent
      <4>2. DOMAIN s' = UpdateFields /\ s'.of = "update" /\ DOMAIN s'.window = PromptFields
        BY <2>2, <4>1 DEF Quiet, UpdateFields, PromptFields
      <4>3. s'.window.prompt = FALSE
        <5>1. CASE s' = [spent EXCEPT !.reminder = [version |-> s.window.available, due |-> FALSE], !.window.prompt = FALSE]
          BY <2>2, <5>1 DEF Quiet, UpdateFields, PromptFields
        <5>2. CASE s' = [spent EXCEPT !.skipped = s.window.available, !.reminder = Update!NoPrompt, !.found = 0,
                                      !.window.available = 0, !.window.prompt = FALSE]
          BY <2>2, <5>2 DEF Quiet, UpdateFields, PromptFields
        <5> QED BY <4>1, <5>1, <5>2
      <4>4. Quiet(spent, s')
        BY <4>2, <4>3 DEF Quiet
      <4> QED BY <1>2, <2>2, <4>4, QuietOn, QuietFits
    <3> QED BY <2>5, <3>1, <3>2
  <2>6. CASE Update!Install
    <3>1. Quiet(s, s')
      BY <1>2, <2>1, <2>6 DEF Update!Install, Update!Spend, Quiet, UpdateFields, PromptFields
    <3> QED BY <1>2, <3>1, QuietFits
  <2>7. CASE Update!StartTask
    <3> DEFINE task == [version |-> s.window.poll.of, phase |-> "downloading"]
               u == [s EXCEPT !.native = task]
    <3>1. Quiet(s, u) /\ Quiet(u, u)
      BY <1>2, <2>1 DEF Quiet, UpdateFields
    <3>2. s' = Update!Complete(s, "failed") \/ s' = Update!Follow(s, s.native) \/ s' = Update!Follow(u, task)
      BY <2>7 DEF Update!StartTask
    <3> HIDE DEF task, u
    <3>3. Quiet(s, s')
      BY <2>1, <3>1, <3>2, QuietSteps, QuietOn
    <3> QED BY <1>2, <3>3, QuietFits
  <2>8. CASE Update!PollTask
    <3>1. Quiet(s, [s EXCEPT !.window.poll.failures = @ + 1])
      BY <1>2, <2>1 DEF Quiet, UpdateFields, PromptFields
    <3>2. Quiet(s, s')
      BY <2>1, <2>8, <3>1, QuietSteps DEF Update!PollTask
    <3> QED BY <1>2, <3>2, QuietFits
  <2>9. CASE Update!RunUpdate \/ Update!InstallEnds \/ Update!TaskIsRead \/ Update!QueryFails
    <3>1. Quiet(s, s')
      BY <1>2, <2>1, <2>9 DEF Update!RunUpdate, Update!InstallEnds, Update!TaskIsRead, Update!QueryFails, Quiet,
         UpdateFields, PromptFields
    <3> QED BY <1>2, <3>1, QuietFits
  <2>10. CASE Update!ShowWindow
    <3>1. Quiet(s, s')
      <4> HIDE DEF spent
      <4> QED BY <2>2, <2>10, QuietSteps, QuietOn DEF Update!ShowWindow
    <3> QED BY <1>2, <3>1, QuietFits
  <2>11. CASE Update!Reconcile
    <3> DEFINE active == s.window.query.phase \in {"downloading", "installing"}
               u == Update!ReconcileNativeTask(s, s.window.query.phase)
               told == [u EXCEPT !.window.active = active, !.window.query = Update!NoQuery]
    <3>1. s' = told \/ s' = Update!Query(told)
      BY <2>11 DEF Update!Reconcile
    <3>2. Quiet(s, u)
      BY <2>1, QuietSteps
    <3> HIDE DEF u, active
    <3>3. Quiet(s, told) /\ Quiet(told, told)
      BY <3>2 DEF Quiet, UpdateFields, PromptFields
    <3> HIDE DEF told
    <3>4. Quiet(s, s')
      BY <3>1, <3>3, QuietSteps, QuietOn
    <3> QED BY <1>2, <3>4, QuietFits
  <2>12. CASE Update!Restart \/ Update!RestartFails \/ Update!DismissReceipt
    <3>1. CASE Update!RestartFails
      <4>1. Quiet(s, s')
        BY <1>2, <2>1, <3>1 DEF Update!RestartFails, Quiet, UpdateFields, PromptFields
      <4> QED BY <1>2, <4>1, QuietFits
    <3>2. CASE Update!Restart \/ Update!DismissReceipt
      <4>1. s' = [spent EXCEPT !.window.action = "restarting"] \/ s' = [spent EXCEPT !.window.receipt = 0]
        BY <2>2, <3>2 DEF Update!Restart, Update!DismissReceipt
      <4> HIDE DEF spent
      <4>2. Quiet(spent, s')
        BY <2>2, <4>1 DEF Quiet, UpdateFields, PromptFields
      <4> QED BY <1>2, <2>2, <4>2, QuietOn, QuietFits
    <3> QED BY <2>12, <3>1, <3>2
  <2>13. CASE Update!Restarts
    <3> DEFINE records == {IF r.version = s.installed /\ r.status = "succeeded"
                           THEN [r EXCEPT !.status = "verified"] ELSE r : r \in s.records}
               u == [s EXCEPT !.running = s.installed, !.native = [version |-> 0, phase |-> "idle"], !.records = records]
               v == Update!Reopened(u)
    <3>1. s' = [v EXCEPT !.window.receipt = s.running]
      BY <2>13 DEF Update!Restarts
    <3> HIDE DEF records
    <3>2. Quiet(s, u) /\ Quiet(u, u)
      BY <1>2, <2>1 DEF Quiet, UpdateFields
    <3> HIDE DEF u
    <3>3. Quiet(s, v)
      BY <3>2, QuietSteps, QuietOn
    <3> HIDE DEF v
    <3>4. Quiet(s, s')
      BY <3>1, <3>3 DEF Quiet, UpdateFields, PromptFields
    <3> QED BY <1>2, <3>4, QuietFits
  <2>14. CASE Update!ReloadWindow
    <3> DEFINE records == {IF r.status = "running" THEN [r EXCEPT !.status = "interrupted"] ELSE r :
                             r \in Update!Reopened(spent).records}
               v == Update!Reopened(spent)
    <3>1. s' = [v EXCEPT !.records = records]
      BY <2>2, <2>14 DEF Update!ReloadWindow
    <3> HIDE DEF records, spent
    <3>2. Quiet(s, v)
      BY <2>2, QuietSteps, QuietOn
    <3> HIDE DEF v
    <3>3. Quiet(s, s')
      BY <3>1, <3>2 DEF Quiet, UpdateFields
    <3> QED BY <1>2, <3>3, QuietFits
  <2>15. CASE Update!Publish \/ Update!ReminderIsDue
    <3>1. Quiet(s, s')
      BY <1>2, <2>1, <2>15 DEF Update!Publish, Update!ReminderIsDue, Update!Spend, Quiet, UpdateFields, PromptFields
    <3> QED BY <1>2, <3>1, QuietFits
  <2>16. ~Update!SupportSteps
    BY <1>2 DEF Update!SupportSteps, Update!OpenSupportFlow, Update!CloseSupportFlow, Update!OpenGuidedIssue,
      Update!IssueIsOpened, Update!CopyDiagnostic, Update!GuideStep, Update!CloseGuide, Update!OpenGuide
  <2> QED BY <2>3, <2>4, <2>5, <2>6, <2>7, <2>8, <2>9, <2>10, <2>11, <2>12, <2>13, <2>14, <2>15, <2>16
          DEF Update!Next, Update!CheckSteps, Update!InstallSteps, Update!RestartSteps
<1> QED BY <1>1, <1>2 DEF UpdateGood

-------------------------------------------------------------------------------
(* The chat.                                                                 *)

ChatFields == {"ses", "win", "texts", "turns", "stored", "active", "blind"}
SesFields == {"id", "rev", "dr", "draft", "alive"}
WinFields ==
  {"view", "draft", "dirty", "base", "conflict", "save", "load", "op", "prepared", "refresh", "changed", "shown"}

LoadGood(v) ==
  /\ DOMAIN v.load = {"do", "at", "id", "prompt", "snap", "typed"} /\ v.load.id \in Chat!Conversations
  /\ v.load.prompt => v.load.id = 2
  /\ v.load.at = "served" => v.load.snap.id = v.load.id
  /\ v.load.at = "served" /\ (v.dirty \/ v.save # Chat!Nothing) => v.load.typed

OpGood(v) ==
  /\ {"do", "at"} \subseteq DOMAIN v.op
  /\ v.op.do = "open" => v.op.at \in {"flush", "got"}
  /\ v.op.at = "flush" => v.op.do \in {"send", "review", "open", "scenario", "keep", "delete"}
  /\ v.op.at \in {"start", "started"} => v.op.do = "send"
  /\ v.op.at = "get" => v.op.do \in {"keep", "saved"}
  /\ v.op.at = "got" => v.op.do \in {"open", "keep", "saved"}
  /\ v.op.do = "open" /\ v.op.at = "flush" => v.op.id \in Chat!Conversations
  /\ v.op.at = "got" => "snap" \in DOMAIN v.op /\ "alive" \in DOMAIN v.op.snap /\ v.op.snap.id \in Chat!Conversations
  /\ v.op.do = "open" /\ v.op.at = "got" /\ v.op.snap.alive => v.load = Chat!Nothing /\ v.save = Chat!Nothing /\ ~v.dirty

\* What a window shows, waits for and has been answered is of a conversation; a
\* save that succeeded left its text among those stored; and a window to which a
\* conversation is being brought that it opened has nothing unsaved meanwhile.
WinGood(stored, v) ==
  /\ DOMAIN v = WinFields
  /\ v.view.id \in Chat!Conversations \cup {Chat!None} /\ (v.dirty => v.view.id # Chat!None)
  /\ \A snap \in v.refresh : snap.id \in Chat!Conversations
  /\ v.save # Chat!Nothing =>
       /\ DOMAIN v.save = {"do", "id", "base", "text", "at", "snap"} /\ v.save.id \in Chat!Conversations
       /\ v.save.at = "saved" => v.save.text \in stored /\ v.save.snap.id \in Chat!Conversations
  /\ v.load # Chat!Nothing => LoadGood(v)
  /\ v.op # Chat!Nothing => OpGood(v)

SesGood(ses) ==
  /\ DOMAIN ses = Chat!Conversations
  /\ \A i \in Chat!Conversations : DOMAIN ses[i] = SesFields /\ ses[i].id = i

ChatGood(t) ==
  /\ DOMAIN t = ChatFields /\ SesGood(t.ses) /\ DOMAIN t.win = Chat!Windows /\ t.turns \in Int
  /\ \A w \in Chat!Windows : WinGood(t.stored, t.win[w])

\* A window that is only told that something changed.
Told(v, u) == DOMAIN u = WinFields /\ \A f \in WinFields \ {"changed"} : u[f] = v[f]

\* What a window waits for stays.
Same(v, u) == u.save = v.save /\ u.load = v.load /\ u.op = v.op

\* What the property says of a window.
Keeps(v, u, stored) ==
  (v.dirty /\ (~u.dirty \/ u.draft # v.draft)) =>
    \/ v.draft \in stored
    \/ u.view.id = Chat!None
    \/ v.load # Chat!Nothing /\ v.load.typed /\ u.load = Chat!Nothing
    \/ v.op # Chat!Nothing /\ (v.op.do \in {"saved", "delete"} \/ v.op.at = "started")

\* A window that is told of a change loses nothing.
LEMMA ToldStays ==
  ASSUME NEW stored, NEW more, stored \subseteq more, NEW v, WinGood(stored, v), NEW u, Told(v, u)
  PROVE  WinGood(more, u) /\ Keeps(v, u, more)
<1>1. /\ u.view = v.view /\ u.refresh = v.refresh /\ u.save = v.save /\ u.load = v.load /\ u.op = v.op
      /\ u.dirty = v.dirty /\ u.draft = v.draft /\ DOMAIN u = WinFields
  BY DEF Told, WinFields
<1>2. Keeps(v, u, more)
  BY <1>1 DEF Keeps
<1>3. WinGood(more, u)
  BY <1>1 DEF WinGood, LoadGood, OpGood
<1> QED BY <1>2, <1>3

\* A step moves one window; the other is told of it at most.
Moves(w, v) ==
  /\ DOMAIN s' = ChatFields /\ s'.turns \in Int /\ SesGood(s'.ses) /\ s.stored \subseteq s'.stored
  /\ DOMAIN s'.win = Chat!Windows
  /\ \A x \in Chat!Windows \ {w} : Told(s.win[x], s'.win[x])
  /\ Told(v, s'.win[w])
  /\ WinGood(s'.stored, v) /\ (s'.turns # s.turns \/ Keeps(s.win[w], v, s'.stored))

\* Nor does one that moves while nothing stored is lost.
LEMMA ChatMoves ==
  ASSUME ChatGood(s), NEW w \in Chat!Windows, NEW v, Moves(w, v)
  PROVE  ChatGood(s)' /\ Chat!TypedIsKept
<1>1. \A x \in Chat!Windows \ {w} : WinGood(s'.stored, s'.win[x]) /\ Keeps(s.win[x], s'.win[x], s'.stored)
  BY ToldStays DEF ChatGood, Moves
<1>2. WinGood(s'.stored, s'.win[w])
  BY ToldStays DEF Moves
<1>3. /\ s'.win[w].dirty = v.dirty /\ s'.win[w].view = v.view /\ s'.win[w].load = v.load
      /\ s'.win[w].draft = v.draft
  BY DEF Moves, Told, WinFields
<1>4. s'.turns # s.turns \/ Keeps(s.win[w], s'.win[w], s'.stored)
  BY <1>3 DEF Moves, Keeps
<1>5. Chat!TypedIsKept
  BY <1>1, <1>4 DEF Chat!TypedIsKept, Keeps
<1>6. ChatGood(s')
  BY <1>1, <1>2 DEF ChatGood, Moves
<1> QED BY <1>5, <1>6

\* What a state becomes when one window does, and when both are told of it.
LEMMA ChatWindow ==
  ASSUME ChatGood(s), NEW w \in Chat!Windows, NEW v, DOMAIN v = WinFields,
         DOMAIN s' = ChatFields /\ s'.turns \in Int, SesGood(s'.ses), s.stored \subseteq s'.stored, s'.win = [s.win EXCEPT ![w] = v],
         WinGood(s'.stored, v), s'.turns # s.turns \/ Keeps(s.win[w], v, s'.stored)
  PROVE  ChatGood(s)' /\ Chat!TypedIsKept
<1>1. Moves(w, v)
  BY DEF Moves, Told, ChatGood, WinGood
<1> QED BY <1>1, ChatMoves

\* Every window has its fields.
LEMMA ChatAll ==
  ASSUME ChatGood(s) PROVE \A x \in Chat!Windows : DOMAIN s.win[x] = WinFields
BY DEF ChatGood, WinGood

\* A change that both windows are told of.
ChatTold(t, u) ==
  /\ DOMAIN u = ChatFields /\ u.ses = t.ses /\ u.stored = t.stored /\ u.turns = t.turns /\ DOMAIN u.win = Chat!Windows
  /\ \A x \in Chat!Windows : DOMAIN t.win[x] = WinFields => Told(t.win[x], u.win[x])

\* To tell of a change changes nothing else.
LEMMA ChatNotifies ==
  ASSUME NEW t, DOMAIN t = ChatFields PROVE ChatTold(t, Chat!Notify(t))
<1> DEFINE u == Chat!Notify(t)
<1>1. u.win = [x \in Chat!Windows |-> [t.win[x] EXCEPT !.changed = TRUE]]
  BY DEF Chat!Notify, ChatFields
<1>2. u.ses = t.ses /\ u.stored = t.stored /\ u.turns = t.turns /\ DOMAIN u = ChatFields
  BY DEF Chat!Notify, ChatFields
<1> HIDE DEF u
<1>3. \A x \in Chat!Windows : DOMAIN t.win[x] = WinFields => Told(t.win[x], u.win[x])
  BY <1>1 DEF Told
<1> QED BY <1>1, <1>2, <1>3 DEF ChatTold, u

\* A window may go on and the others be told.
LEMMA ChatNotified ==
  ASSUME ChatGood(s), NEW w \in Chat!Windows, NEW v, DOMAIN v = WinFields, NEW t,
         DOMAIN t = ChatFields /\ t.turns \in Int, SesGood(t.ses), s.stored \subseteq t.stored, t.win = [s.win EXCEPT ![w] = v],
         s' = Chat!Notify(t),
         WinGood(t.stored, v), Keeps(s.win[w], v, t.stored)
  PROVE  ChatGood(s)' /\ Chat!TypedIsKept
<1>1. ChatTold(t, s')
  BY ChatNotifies
<1>2. t.win[w] = v /\ \A x \in Chat!Windows \ {w} : t.win[x] = s.win[x] /\ DOMAIN t.win[x] = WinFields
  BY ChatAll DEF ChatGood
<1>3. Moves(w, v)
  BY <1>1, <1>2 DEF Moves, ChatTold
<1> QED BY <1>3, ChatMoves

\* Adopting a conversation.
LEMMA ChatAdopts ==
  ASSUME NEW stored, NEW v, WinGood(stored, v), NEW snap, snap.id \in Chat!Conversations, NEW switch \in BOOLEAN,
         NEW u, u = Chat!AdoptSession(v, snap, switch)
  PROVE  /\ WinGood(stored, u) /\ DOMAIN u = WinFields
         /\ Same(v, u)
         /\ ~v.dirty => ~u.dirty
         /\ v.dirty /\ ~switch => u.dirty /\ u.draft = v.draft
         /\ switch => u.view.id = snap.id
         /\ v.view.id \in Chat!Conversations => u.view.id \in Chat!Conversations
<1>1. Chat!ViewOf(snap).id = snap.id
  BY DEF Chat!ViewOf
<1> DEFINE view == Chat!ViewOf(snap)
<1> HIDE DEF view
<1>2. /\ DOMAIN u = WinFields /\ u.save = v.save /\ u.load = v.load /\ u.op = v.op
      /\ u.refresh \in {v.refresh, {}} /\ u.view \in {v.view, view} /\ u.dirty \in {v.dirty, FALSE}
      /\ v.dirty /\ ~switch => u.dirty /\ u.draft = v.draft
      /\ u.dirty => v.dirty
      /\ switch => u.view = view
  BY DEF Chat!AdoptSession, WinGood, WinFields, view
<1>3. /\ u.view.id \in Chat!Conversations \cup {Chat!None} /\ (switch => u.view.id = snap.id)
      /\ v.view.id \in Chat!Conversations => u.view.id \in Chat!Conversations
      /\ u.dirty => u.view.id # Chat!None
  <2>1. v.view.id \in Chat!Conversations \cup {Chat!None} /\ (v.dirty => v.view.id # Chat!None)
    BY DEF WinGood
  <2>2. view.id # Chat!None
    BY <1>1 DEF Chat!Conversations, Chat!None, view
  <2> QED BY <1>1, <1>2, <2>1, <2>2 DEF view
<1>4. WinGood(stored, u)
  BY <1>2, <1>3 DEF WinGood, LoadGood, OpGood
<1> QED BY <1>2, <1>3, <1>4 DEF Same

\* A window that forgets its conversation shows none.
LEMMA ChatForgets ==
  ASSUME NEW stored, NEW v, WinGood(stored, v)
  PROVE  /\ WinGood(stored, Chat!Forget(v)) /\ DOMAIN Chat!Forget(v) = WinFields
         /\ Chat!Forget(v).view.id = Chat!None
<1>1. Chat!Closed.id = Chat!None
  BY DEF Chat!Closed
<1> DEFINE closed == Chat!Closed
           u == Chat!Forget(v)
<1> HIDE DEF closed
<1>2. /\ DOMAIN u = WinFields /\ u.save = v.save /\ u.load = v.load /\ u.op = v.op /\ u.refresh = v.refresh
      /\ u.view = closed /\ u.dirty = FALSE
  BY DEF Chat!Forget, WinGood, WinFields, closed
<1> HIDE DEF u
<1>3. u.view.id = Chat!None
  BY <1>1, <1>2 DEF closed
<1>4. WinGood(stored, u)
  BY <1>2, <1>3 DEF WinGood, LoadGood, OpGood
<1> QED BY <1>2, <1>3, <1>4 DEF u

\* A save begins in a window that shows a conversation.
LEMMA ChatSaves ==
  ASSUME NEW stored, NEW v, WinGood(stored, v), v.dirty, v.view.id # Chat!None
  PROVE  /\ WinGood(stored, Chat!BeginSave(v)) /\ DOMAIN Chat!BeginSave(v) = WinFields
         /\ Chat!BeginSave(v).dirty = v.dirty /\ Chat!BeginSave(v).draft = v.draft
<1> DEFINE u == Chat!BeginSave(v)
<1>1. DOMAIN u.save = {"do", "id", "base", "text", "at", "snap"} /\ u.save.id = v.view.id /\ u.save.at = "asked"
  BY DEF Chat!BeginSave, WinGood, WinFields
<1>2. /\ DOMAIN u = WinFields /\ u.load = v.load /\ u.op = v.op /\ u.refresh = v.refresh /\ u.view = v.view
      /\ u.dirty = v.dirty /\ u.draft = v.draft
  BY DEF Chat!BeginSave, WinGood, WinFields
<1> HIDE DEF u
<1>3. WinGood(stored, u)
  BY <1>1, <1>2 DEF WinGood, LoadGood, OpGood
<1> QED BY <1>2, <1>3 DEF u

\* The types of a window and of what it shows.
LEMMA ChatType ==
  ASSUME ChatGood(s), NEW w \in Chat!Windows
  PROVE  /\ WinGood(s.stored, s.win[w]) /\ DOMAIN s.win[w] = WinFields /\ SesGood(s.ses) /\ DOMAIN s = ChatFields /\ s.turns \in Int
         /\ s.win[w].view.id # Chat!None => Chat!Session(s.win[w].view.id).id = s.win[w].view.id
         /\ \A i \in Chat!Conversations : Chat!Session(i).id = i /\ DOMAIN Chat!Session(i) = SesFields
BY DEF ChatGood, WinGood, SesGood, Chat!Session

\* A step of one window that leaves the rest of the state.
Stays == DOMAIN s' = ChatFields /\ s'.turns \in Int /\ s'.ses = s.ses /\ s'.stored = s.stored

\* A window may go on while the rest stays.
LEMMA ChatStays ==
  ASSUME ChatGood(s), NEW w \in Chat!Windows, NEW v, Stays, s'.win = [s.win EXCEPT ![w] = v],
         WinGood(s.stored, v), Keeps(s.win[w], v, s.stored)
  PROVE  ChatGood(s)' /\ Chat!TypedIsKept
BY ChatWindow DEF Stays, ChatGood, WinGood

\* Typing, and the saves of a draft.
LEMMA ChatTypes ==
  ASSUME ChatGood(s), NEW w \in Chat!Windows, Chat!ChangeDraft(w) \/ Chat!AutoSave(w) \/ Chat!Hide(w)
  PROVE  ChatGood(s)' /\ Chat!TypedIsKept
<1>0. /\ WinGood(s.stored, s.win[w]) /\ DOMAIN s.win[w] = WinFields /\ DOMAIN s = ChatFields /\ s.turns \in Int
      /\ SesGood(s.ses)
  BY ChatType
<1>1. CASE Chat!ChangeDraft(w)
  <2> DEFINE win == s.win[w]
             v == [win EXCEPT !.base = IF win.dirty THEN @ ELSE win.view.dr, !.draft = s.texts + 1, !.dirty = TRUE,
                              !.prepared = Chat!Nothing, !.shown = @ \cup {s.texts + 1},
                              !.load = IF @ = Chat!Nothing THEN @ ELSE [@ EXCEPT !.typed = @ \/ win.load.at = "served"]]
  <2>0. s' = [s EXCEPT !.turns = @ - 1, !.texts = s.texts + 1, !.win[w] = v]
    BY <1>1 DEF Chat!ChangeDraft
  <2>1. /\ DOMAIN v = WinFields /\ v.save = s.win[w].save /\ v.op = s.win[w].op
        /\ v.refresh = s.win[w].refresh /\ v.view = s.win[w].view /\ v.dirty = TRUE
        /\ v.load # Chat!Nothing => LoadGood(v)
    BY <1>0 DEF WinFields, WinGood, LoadGood
  <2> HIDE DEF v
  <2>2. s.win[w].op = Chat!Nothing /\ s.win[w].view.id # Chat!None
    BY <1>1 DEF Chat!ChangeDraft
  <2>3. Stays /\ s'.win = [s.win EXCEPT ![w] = v]
    BY <2>0, <1>0 DEF Stays, ChatFields
  <2>4. WinGood(s.stored, v)
    BY <2>1, <2>2, <1>0 DEF WinGood, OpGood
  <2>5. s'.turns # s.turns
    BY <2>0, <1>0, <1>1 DEF Chat!ChangeDraft, ChatFields
  <2>6. SesGood(s'.ses) /\ s.stored = s'.stored /\ DOMAIN s' = ChatFields /\ s'.turns \in Int /\ WinGood(s'.stored, v)
    BY <2>3, <2>4, <1>0 DEF Stays
  <2> QED BY <2>1, <2>3, <2>5, <2>6, ChatWindow
<1>2. CASE Chat!AutoSave(w) \/ Chat!Hide(w)
  <2>1. s.win[w].view.id # Chat!None /\ s.win[w].dirty
    BY <1>2 DEF Chat!AutoSave, Chat!Hide, Chat!CanFlush
  <2> DEFINE v == Chat!BeginSave(s.win[w])
  <2>2. WinGood(s.stored, v) /\ v.dirty = s.win[w].dirty /\ v.draft = s.win[w].draft
    BY <2>1, <1>0, ChatSaves
  <2> HIDE DEF v
  <2>3. Stays /\ s'.win = [s.win EXCEPT ![w] = v]
    <3>1. s' = [s EXCEPT !.win[w] = v] \/ s' = [s EXCEPT !.turns = @ - 1, !.win[w] = v]
      BY <1>2 DEF Chat!AutoSave, Chat!Hide, v
    <3>2. CASE s' = [s EXCEPT !.win[w] = v]
      BY <3>2, <1>0 DEF Stays, ChatFields
    <3>3. CASE s' = [s EXCEPT !.turns = @ - 1, !.win[w] = v]
      BY <3>3, <1>0 DEF Stays, ChatFields
    <3> QED BY <3>1, <3>2, <3>3
  <2>4. Keeps(s.win[w], v, s.stored)
    BY <2>2 DEF Keeps
  <2> QED BY <2>2, <2>3, <2>4, ChatStays
<1> QED BY <1>1, <1>2

\* A save that is served has stored its text.
LEMMA ChatSaveServed ==
  ASSUME ChatGood(s), NEW w \in Chat!Windows, Chat!SaveIsServed(w)
  PROVE  ChatGood(s)' /\ Chat!TypedIsKept
<1> DEFINE save == s.win[w].save
           id == save.id
<1>0. /\ WinGood(s.stored, s.win[w]) /\ DOMAIN s.win[w] = WinFields /\ DOMAIN s = ChatFields /\ s.turns \in Int /\ SesGood(s.ses)
      /\ save # Chat!Nothing /\ DOMAIN save = {"do", "id", "base", "text", "at", "snap"} /\ id \in Chat!Conversations
      /\ DOMAIN s.win = Chat!Windows /\ s.win[w].save # Chat!Nothing
  BY ChatType DEF Chat!SaveIsServed, WinGood, ChatGood
<1> DEFINE answered(t, how) == [t EXCEPT !.win[w].save = [save EXCEPT !.at = how, !.snap = t.ses[id]]]
           written == [s EXCEPT !.ses[id].dr = @ + 1, !.ses[id].draft = save.text,
                                       !.stored = @ \cup {save.text}, !.blind = @ \/ s.ses[id].draft \notin s.win[w].shown]
<1>1. \/ s' = answered(Chat!Notify(written), "saved")
      \/ \E how \in {"conflict", "failed"} : s' = answered(s, how)
  BY DEF Chat!SaveIsServed
<1> HIDE DEF save
<1>2. ASSUME NEW t, NEW how \in {"saved", "conflict", "failed"}, s' = answered(t, how), DOMAIN t = ChatFields /\ t.turns \in Int,
             SesGood(t.ses), DOMAIN t.win = Chat!Windows, \A x \in Chat!Windows : Told(s.win[x], t.win[x]),
             s.stored \subseteq t.stored, how = "saved" => save.text \in t.stored
      PROVE  ChatGood(s)' /\ Chat!TypedIsKept
  <2> DEFINE mine == [save EXCEPT !.at = how, !.snap = t.ses[id]]
             v == [t.win[w] EXCEPT !.save = mine]
  <2>1. /\ DOMAIN mine = {"do", "id", "base", "text", "at", "snap"} /\ mine.id = id /\ mine.text = save.text
        /\ mine.at = how /\ mine.snap = t.ses[id]
    BY <1>0
  <2>2. t.ses[id].id = id
    BY <1>0, <1>2 DEF SesGood
  <2> HIDE DEF mine
  <2>3. /\ DOMAIN v = WinFields /\ v.save = mine /\ v.load = s.win[w].load /\ v.op = s.win[w].op
        /\ v.refresh = s.win[w].refresh /\ v.view = s.win[w].view /\ v.dirty = s.win[w].dirty /\ v.draft = s.win[w].draft
    BY <1>0, <1>2 DEF WinFields, Told
  <2>4. /\ s'.win = [t.win EXCEPT ![w] = v] /\ DOMAIN s' = ChatFields /\ s'.turns \in Int /\ s'.ses = t.ses /\ s'.stored = t.stored
    BY <1>0, <1>2 DEF ChatFields, mine
  <2> HIDE DEF v
  <2>5. WinGood(t.stored, v)
    BY <1>0, <1>2, <2>1, <2>2, <2>3 DEF WinGood, LoadGood, OpGood
  <2>6. Keeps(s.win[w], v, t.stored)
    BY <2>3 DEF Keeps
  <2>7. Told(v, s'.win[w]) /\ \A x \in Chat!Windows \ {w} : Told(s.win[x], s'.win[x])
    BY <1>2, <2>3, <2>4 DEF Told
  <2> QED BY <1>2, <2>4, <2>5, <2>6, <2>7, ChatMoves DEF Moves
<1>3. CASE s' = answered(Chat!Notify(written), "saved")
  <2> DEFINE t == written
             u == Chat!Notify(t)
  <2>1. /\ DOMAIN t = ChatFields /\ t.turns \in Int /\ t.win = s.win /\ s.stored \subseteq t.stored /\ save.text \in t.stored
        /\ SesGood(t.ses)
    BY <1>0 DEF ChatFields, SesGood, SesFields
  <2> HIDE DEF t
  <2>2. ChatTold(t, u)
    BY <2>1, <1>0, ChatNotifies
  <2>3. \A x \in Chat!Windows : Told(s.win[x], u.win[x])
    BY <2>1, <2>2, ChatAll DEF ChatTold
  <2>4. s' = answered(u, "saved")
    BY <1>3 DEF t
  <2> HIDE DEF u
  <2> QED BY <1>2, <2>1, <2>2, <2>3, <2>4 DEF ChatTold
<1>4. CASE \E how \in {"conflict", "failed"} : s' = answered(s, how)
  <2>1. PICK how \in {"conflict", "failed"} : s' = answered(s, how)
    BY <1>4
  <2>2. \A x \in Chat!Windows : Told(s.win[x], s.win[x])
    BY ChatAll DEF Told
  <2> QED BY <1>0, <1>2, <2>1, <2>2
<1> QED BY <1>1, <1>3, <1>4

\* The answer to a save: the text stays unsaved unless it is what was stored.
LEMMA ChatSaveEnds ==
  ASSUME NEW stored, NEW v, WinGood(stored, v), v.save # Chat!Nothing
  PROVE  WinGood(stored, Chat!SaveEnds(v)) /\ Keeps(v, Chat!SaveEnds(v), stored)
<1> DEFINE save == v.save
           snap == save.snap
           free == [v EXCEPT !.save = Chat!Nothing]
           dirty == v.draft # save.text
           done == [free EXCEPT !.dirty = dirty, !.base = IF v.draft = save.text THEN Chat!None ELSE snap.dr]
           shown == Chat!AdoptSession(done, snap, FALSE)
           ahead == [id |-> shown.view.id, rev |-> shown.view.rev, dr |-> shown.view.dr, draft |-> shown.view.text]
           failed == [free EXCEPT !.conflict = @ \/ save.at = "conflict",
                             !.op = IF v.op # Chat!Nothing /\ v.op.at = "flush" /\ v.op.do # "delete" THEN Chat!Nothing ELSE @,
                             !.load = IF v.load # Chat!Nothing /\ v.load.at = "flush" THEN Chat!Nothing ELSE @]
           u == Chat!SaveEnds(v)
<1>1. u = IF save.at # "saved" THEN failed
          ELSE IF v.view.id # save.id THEN free
          ELSE IF Chat!CanFlush(shown) THEN Chat!BeginSave(shown)
          ELSE IF ~shown.dirty /\ shown.view.dr > snap.dr THEN Chat!AdoptSession(shown, ahead, FALSE) ELSE shown
  BY DEF Chat!SaveEnds
<1> HIDE DEF u
<1>2. /\ DOMAIN free = WinFields /\ free.save = Chat!Nothing /\ free.load = v.load /\ free.op = v.op
      /\ free.refresh = v.refresh /\ free.view = v.view /\ free.dirty = v.dirty /\ free.draft = v.draft
  BY DEF WinGood, LoadGood, OpGood, WinFields
<1>3. WinGood(stored, free) /\ Keeps(v, free, stored)
  BY <1>2 DEF WinGood, LoadGood, OpGood, Keeps
<1>4. WinGood(stored, failed) /\ Keeps(v, failed, stored)
  <2> HIDE DEF free
  <2>1. /\ DOMAIN failed = WinFields /\ failed.save = Chat!Nothing
        /\ failed.load \in {v.load, Chat!Nothing} /\ failed.op \in {v.op, Chat!Nothing}
        /\ failed.refresh = v.refresh /\ failed.view = v.view /\ failed.dirty = v.dirty /\ failed.draft = v.draft
    BY <1>2 DEF WinFields
  <2> HIDE DEF failed
  <2> QED BY <2>1 DEF WinGood, LoadGood, OpGood, Keeps
<1>5. ASSUME save.at = "saved", v.view.id = save.id
      PROVE  WinGood(stored, u) /\ Keeps(v, u, stored)
  <2>1. /\ save.text \in stored /\ snap.id \in Chat!Conversations /\ v.view.id \in Chat!Conversations
        /\ v.view.id # Chat!None
    BY <1>5 DEF WinGood, LoadGood, OpGood, Chat!Conversations, Chat!None
  <2>2. /\ DOMAIN done = WinFields /\ done.save = Chat!Nothing /\ done.load = v.load /\ done.op = v.op
        /\ done.refresh = v.refresh /\ done.view = v.view /\ done.dirty = dirty /\ done.draft = v.draft
    BY <1>2 DEF WinFields
  <2>3. WinGood(stored, done)
    BY <2>1, <2>2 DEF WinGood, LoadGood, OpGood
  <2> HIDE DEF done, dirty, snap
  <2>4. /\ WinGood(stored, shown) /\ DOMAIN shown = WinFields
        /\ ~dirty => ~shown.dirty
        /\ dirty => shown.dirty /\ shown.draft = v.draft
        /\ shown.view.id \in Chat!Conversations
    <3>1. done.view.id \in Chat!Conversations
      BY <2>1, <2>2
    <3>2. FALSE \in BOOLEAN
      OBVIOUS
    <3> QED BY <3>1, <3>2, <2>1, <2>2, <2>3, ChatAdopts
  <2> USE DEF dirty, snap
  <2> HIDE DEF shown
  <2>5. ASSUME NEW x, WinGood(stored, x), shown.dirty => x.dirty /\ x.draft = shown.draft PROVE Keeps(v, x, stored)
    BY <2>1, <2>4, <2>5 DEF Keeps
  <2>6. CASE Chat!CanFlush(shown)
    <3>1. u = Chat!BeginSave(shown) /\ shown.view.id # Chat!None /\ shown.dirty
      BY <1>1, <1>5, <2>6 DEF Chat!CanFlush
    <3> QED BY <3>1, <2>4, <2>5, ChatSaves
  <2>7. CASE ~Chat!CanFlush(shown) /\ ~shown.dirty /\ shown.view.dr > snap.dr
    <3>1. u = Chat!AdoptSession(shown, ahead, FALSE)
      BY <1>1, <1>5, <2>7
    <3>2. ahead.id \in Chat!Conversations
      BY <2>4
    <3> HIDE DEF ahead
    <3> QED BY <3>1, <3>2, <2>4, <2>5, <2>7, ChatAdopts
  <2>8. CASE ~Chat!CanFlush(shown) /\ ~(~shown.dirty /\ shown.view.dr > snap.dr)
    <3>1. u = shown
      BY <1>1, <1>5, <2>8
    <3> QED BY <3>1, <2>4, <2>5
  <2> QED BY <2>6, <2>7, <2>8
<1>6. u \in {failed, free} \/ (save.at = "saved" /\ v.view.id = save.id)
  BY <1>1
<1> HIDE DEF failed, free
<1> QED BY <1>3, <1>4, <1>5, <1>6 DEF u

\* The answer of a save.
LEMMA ChatSaveAnswered ==
  ASSUME ChatGood(s), NEW w \in Chat!Windows, Chat!SaveIsAnswered(w)
  PROVE  ChatGood(s)' /\ Chat!TypedIsKept
<1> DEFINE v == Chat!SaveEnds(s.win[w])
<1>1. WinGood(s.stored, s.win[w]) /\ DOMAIN s = ChatFields /\ s.turns \in Int /\ s.win[w].save # Chat!Nothing
  BY ChatType DEF Chat!SaveIsAnswered
<1>2. WinGood(s.stored, v) /\ Keeps(s.win[w], v, s.stored)
  BY <1>1, ChatSaveEnds
<1> HIDE DEF v
<1>3. Stays /\ s'.win = [s.win EXCEPT ![w] = v]
  BY <1>1 DEF Chat!SaveIsAnswered, Stays, ChatFields, v
<1> QED BY <1>2, <1>3, ChatStays

\* Changes of the other window are read and arrive.
LEMMA ChatRefreshes ==
  ASSUME ChatGood(s), NEW w \in Chat!Windows, Chat!Refresh(w) \/ Chat!RefreshArrives(w)
  PROVE  ChatGood(s)' /\ Chat!TypedIsKept
<1> DEFINE win == s.win[w]
<1>0. /\ WinGood(s.stored, win) /\ DOMAIN win = WinFields /\ DOMAIN s = ChatFields /\ s.turns \in Int /\ DOMAIN s.win = Chat!Windows
  BY ChatType DEF ChatGood
<1>1. CASE Chat!Refresh(w)
  <2> DEFINE snap == Chat!Session(win.view.id)
             v == [win EXCEPT !.changed = FALSE, !.refresh = @ \cup {snap}]
  <2>1. snap.id \in Chat!Conversations
    BY <1>0, <1>1, ChatType DEF Chat!Refresh, WinGood
  <2> HIDE DEF snap
  <2>2. /\ DOMAIN v = WinFields /\ v.save = win.save /\ v.load = win.load /\ v.op = win.op
        /\ v.refresh = win.refresh \cup {snap} /\ v.view = win.view /\ v.dirty = win.dirty /\ v.draft = win.draft
    BY <1>0 DEF WinFields
  <2>3. s' = [s EXCEPT !.win[w] = v]
    <3>1. s' = [s EXCEPT !.win[w].changed = FALSE, !.win[w].refresh = @ \cup {snap}]
      BY <1>1 DEF Chat!Refresh, snap
    <3> QED BY <3>1, <1>0 DEF WinFields, ChatFields
  <2> HIDE DEF v
  <2>4. Stays /\ s'.win = [s.win EXCEPT ![w] = v]
    BY <2>3, <1>0 DEF Stays, ChatFields
  <2>5. WinGood(s.stored, v) /\ Keeps(win, v, s.stored)
    BY <2>1, <2>2, <1>0 DEF WinGood, LoadGood, OpGood, Keeps
  <2> QED BY <2>4, <2>5, ChatStays
<1>2. CASE Chat!RefreshArrives(w)
  <2>1. PICK snap \in win.refresh :
          LET u == [win EXCEPT !.refresh = @ \ {snap}]
          IN s' = [s EXCEPT !.win[w] = IF u.view.id # snap.id THEN u
                                       ELSE IF snap.alive THEN Chat!AdoptSession(u, snap, FALSE) ELSE Chat!Forget(u)]
    BY <1>2 DEF Chat!RefreshArrives
  <2> DEFINE u == [win EXCEPT !.refresh = @ \ {snap}]
             v == IF u.view.id # snap.id THEN u
                  ELSE IF snap.alive THEN Chat!AdoptSession(u, snap, FALSE) ELSE Chat!Forget(u)
  <2>2. /\ DOMAIN u = WinFields /\ u.save = win.save /\ u.load = win.load /\ u.op = win.op
        /\ u.refresh \subseteq win.refresh /\ u.view = win.view /\ u.dirty = win.dirty /\ u.draft = win.draft
    BY <1>0 DEF WinFields
  <2>3. s' = [s EXCEPT !.win[w] = v]
    BY <2>1
  <2> HIDE DEF u
  <2>4. WinGood(s.stored, u) /\ snap.id \in Chat!Conversations
    BY <2>1, <2>2, <1>0 DEF WinGood, LoadGood, OpGood
  <2>5. CASE u.view.id # snap.id
    <3>1. v = u
      BY <2>5
    <3> HIDE DEF v
    <3>2. Keeps(win, v, s.stored)
      BY <2>2, <3>1 DEF Keeps
    <3>3. Stays /\ s'.win = [s.win EXCEPT ![w] = v]
      BY <2>3, <1>0 DEF Stays, ChatFields
    <3> QED BY <2>4, <3>1, <3>2, <3>3, ChatStays
  <2>6. CASE u.view.id = snap.id /\ snap.alive
    <3>1. v = Chat!AdoptSession(u, snap, FALSE)
      BY <2>6
    <3> HIDE DEF v
    <3>2. FALSE \in BOOLEAN
      OBVIOUS
    <3>3. WinGood(s.stored, v) /\ (u.dirty => v.dirty /\ v.draft = u.draft)
      BY <2>4, <3>1, <3>2, ChatAdopts
    <3>4. Keeps(win, v, s.stored)
      BY <2>2, <3>3 DEF Keeps
    <3>5. Stays /\ s'.win = [s.win EXCEPT ![w] = v]
      BY <2>3, <1>0 DEF Stays, ChatFields
    <3> QED BY <3>3, <3>4, <3>5, ChatStays
  <2>7. CASE u.view.id = snap.id /\ ~snap.alive
    <3>1. v = Chat!Forget(u)
      BY <2>7
    <3> HIDE DEF v
    <3>2. WinGood(s.stored, v) /\ v.view.id = Chat!None
      BY <2>4, <3>1, ChatForgets
    <3>3. win.view.id # Chat!None
      BY <2>2, <2>4, <2>7 DEF Chat!Conversations, Chat!None
    <3>4. Keeps(win, v, s.stored)
      BY <3>2, <3>3 DEF Keeps
    <3>5. Stays /\ s'.win = [s.win EXCEPT ![w] = v]
      BY <2>3, <1>0 DEF Stays, ChatFields
    <3> QED BY <3>2, <3>4, <3>5, ChatStays
  <2> QED BY <2>5, <2>6, <2>7
<1> QED BY <1>1, <1>2

\* A window that waits for something else now, or for nothing, and holds its text.
LEMMA ChatWaits ==
  ASSUME NEW stored, NEW v, WinGood(stored, v), NEW u, DOMAIN u = WinFields,
         u.view = v.view, u.refresh = v.refresh, u.save = v.save, u.dirty = v.dirty /\ u.draft = v.draft,
         u.load \in {v.load, Chat!Nothing} \/ LoadGood(u), u.op # Chat!Nothing => OpGood(u)
  PROVE  WinGood(stored, u) /\ Keeps(v, u, stored)
BY DEF WinGood, Keeps, LoadGood, OpGood

\* A window is led to a conversation.
LEMMA ChatLeads ==
  ASSUME ChatGood(s), NEW w \in Chat!Windows,
         Chat!LeadWithPrompt(w) \/ \E id \in Chat!Conversations : Chat!Lead(w, id)
  PROVE  ChatGood(s)' /\ Chat!TypedIsKept
<1> DEFINE win == s.win[w]
           op == Chat!Overtaken(win.op)
<1>0. /\ WinGood(s.stored, win) /\ DOMAIN win = WinFields /\ DOMAIN s = ChatFields /\ s.turns \in Int /\ DOMAIN s.win = Chat!Windows
  BY ChatType DEF ChatGood
<1>1. PICK id \in Chat!Conversations, prompt \in BOOLEAN :
        /\ prompt => id = 2
        /\ s' = [s EXCEPT !.turns = @ - 1, !.win[w].op = op, !.win[w].load = Chat!Load(id, prompt)]
  BY DEF Chat!LeadWithPrompt, Chat!Lead, Chat!Conversations
<1> DEFINE load == Chat!Load(id, prompt)
           v == [win EXCEPT !.op = op, !.load = load]
<1>2. load.id = id /\ load.prompt = prompt /\ load.at = "flush" /\ DOMAIN load = {"do", "at", "id", "prompt", "snap", "typed"}
  BY DEF Chat!Load
<1>3. /\ op = win.op \/ (win.op # Chat!Nothing /\ DOMAIN op = DOMAIN win.op)
      /\ op # Chat!Nothing => win.op # Chat!Nothing
      /\ win.op # Chat!Nothing =>
           /\ {"do", "at"} \subseteq DOMAIN op /\ op.do = win.op.do /\ op.at = win.op.at /\ ("id" \in DOMAIN win.op => op.id = win.op.id)
           /\ op.at # "got" \/ op.do # "open" => op = win.op
           /\ op.at = "got" => "snap" \in DOMAIN op /\ "alive" \in DOMAIN op.snap /\ op.snap.id \in Chat!Conversations
           /\ op.at = "got" /\ op.do = "open" => ~op.snap.alive
  BY <1>0 DEF Chat!Overtaken, WinGood, OpGood
<1> HIDE DEF op, load
<1>4. /\ DOMAIN v = WinFields /\ v.save = win.save /\ v.load = load /\ v.op = op
      /\ v.refresh = win.refresh /\ v.view = win.view /\ v.dirty = win.dirty /\ v.draft = win.draft
  BY <1>0 DEF WinFields
<1>5. s' = [s EXCEPT !.turns = @ - 1, !.win[w] = v]
  BY <1>1, <1>0 DEF load, WinFields, ChatFields
<1> HIDE DEF v
<1>6. Stays /\ s'.win = [s.win EXCEPT ![w] = v]
  BY <1>5, <1>0 DEF Stays, ChatFields
<1>7. LoadGood(v)
  BY <1>1, <1>2, <1>4 DEF LoadGood
<1>8. v.op # Chat!Nothing => OpGood(v)
  BY <1>0, <1>3, <1>4 DEF WinGood, OpGood
<1>9. WinGood(s.stored, v) /\ Keeps(win, v, s.stored)
  BY <1>0, <1>4, <1>7, <1>8, ChatWaits
<1> QED BY <1>6, <1>9, ChatStays

\* What makes a window busy.
LEMMA ChatBusy ==
  ASSUME ChatGood(s), NEW w \in Chat!Windows, NEW op, {"do", "at"} \subseteq DOMAIN op,
         op.at # "got",
         op.at = "flush" => op.do \in {"send", "review", "open", "scenario", "keep", "delete"}, op.at = "get" => op.do \in {"keep", "saved"},
         op.at \in {"start", "started"} => op.do = "send", op.do = "open" => op.at = "flush" /\ op.id \in Chat!Conversations,
         NEW turns \in Int, s' = [s EXCEPT !.turns = turns, !.win[w].op = op]
  PROVE  ChatGood(s)' /\ Chat!TypedIsKept
<1> DEFINE win == s.win[w]
           v == [win EXCEPT !.op = op]
<1>0. /\ WinGood(s.stored, win) /\ DOMAIN win = WinFields /\ DOMAIN s = ChatFields /\ s.turns \in Int /\ DOMAIN s.win = Chat!Windows
  BY ChatType DEF ChatGood
<1>1. /\ DOMAIN v = WinFields /\ v.save = win.save /\ v.load = win.load /\ v.op = op
      /\ v.refresh = win.refresh /\ v.view = win.view /\ v.dirty = win.dirty /\ v.draft = win.draft
  BY <1>0 DEF WinFields
<1>2. Stays /\ s'.win = [s.win EXCEPT ![w] = v]
  BY <1>0 DEF Stays, ChatFields
<1> HIDE DEF v
<1>3. OpGood(v)
  BY <1>1 DEF OpGood
<1>4. WinGood(s.stored, v) /\ Keeps(win, v, s.stored)
  BY <1>0, <1>1, <1>3, ChatWaits
<1> QED BY <1>2, <1>4, ChatStays

\* What a window was busy with ends.
LEMMA ChatIdle ==
  ASSUME ChatGood(s), NEW w \in Chat!Windows, s' = Chat!EndOp(s, w)
  PROVE  ChatGood(s)' /\ Chat!TypedIsKept
<1> DEFINE win == s.win[w]
           v == [win EXCEPT !.op = Chat!Nothing]
<1>0. /\ WinGood(s.stored, win) /\ DOMAIN win = WinFields /\ DOMAIN s = ChatFields /\ s.turns \in Int /\ DOMAIN s.win = Chat!Windows
  BY ChatType DEF ChatGood
<1>1. /\ DOMAIN v = WinFields /\ v.save = win.save /\ v.load = win.load /\ v.op = Chat!Nothing
      /\ v.refresh = win.refresh /\ v.view = win.view /\ v.dirty = win.dirty /\ v.draft = win.draft
  BY <1>0 DEF WinFields
<1>2. Stays /\ s'.win = [s.win EXCEPT ![w] = v]
  BY <1>0 DEF Stays, ChatFields, Chat!EndOp
<1> HIDE DEF v
<1>4. WinGood(s.stored, v) /\ Keeps(win, v, s.stored)
  BY <1>0, <1>1, ChatWaits
<1> QED BY <1>2, <1>4, ChatStays

\* The operations that begin.
LEMMA ChatBegins ==
  ASSUME ChatGood(s), NEW w \in Chat!Windows,
         \/ \E review \in BOOLEAN : Chat!PrepareMessage(w, review)
         \/ Chat!StartPrepared(w) \/ \E id \in Chat!Conversations : Chat!OpenSession(w, id)
         \/ Chat!ChangeScenario(w) \/ Chat!DeleteSession(w) \/ Chat!KeepMyDraft(w) \/ Chat!UseSavedDraft(w)
  PROVE  ChatGood(s)' /\ Chat!TypedIsKept
<1>1. ASSUME NEW op, Chat!Perform(w, op), {"do", "at"} \subseteq DOMAIN op, op.at # "got",
             op.at = "flush" => op.do \in {"send", "review", "open", "scenario", "keep", "delete"}, op.at = "get" => op.do \in {"keep", "saved"},
             op.at \in {"start", "started"} => op.do = "send", op.do = "open" => op.at = "flush" /\ op.id \in Chat!Conversations
      PROVE  ChatGood(s)' /\ Chat!TypedIsKept
  <2>1. s.turns - 1 \in Int
    BY ChatType
  <2> QED BY <1>1, <2>1, ChatBusy DEF Chat!Perform
<1>2. ASSUME NEW review \in BOOLEAN, Chat!PrepareMessage(w, review) PROVE ChatGood(s)' /\ Chat!TypedIsKept
  BY <1>1, <1>2 DEF Chat!PrepareMessage
<1>3. CASE Chat!StartPrepared(w)
  <2> DEFINE op == [do |-> "send", at |-> "start", prep |-> s.win[w].prepared]
  <2>1. s' = [s EXCEPT !.turns = s.turns, !.win[w].op = op]
    BY <1>3, ChatType DEF Chat!StartPrepared, ChatFields
  <2>2. {"do", "at"} \subseteq DOMAIN op /\ op.at \notin {"got", "get", "flush"} /\ op.do = "send"
    OBVIOUS
  <2> HIDE DEF op
  <2>3. s.turns \in Int
    BY ChatType
  <2> QED BY <2>1, <2>2, <2>3, ChatBusy
<1>4. ASSUME NEW id \in Chat!Conversations, Chat!OpenSession(w, id) PROVE ChatGood(s)' /\ Chat!TypedIsKept
  BY <1>1, <1>4 DEF Chat!OpenSession
<1>5. CASE Chat!ChangeScenario(w) \/ Chat!DeleteSession(w) \/ Chat!KeepMyDraft(w) \/ Chat!UseSavedDraft(w)
  BY <1>1, <1>5 DEF Chat!ChangeScenario, Chat!DeleteSession, Chat!KeepMyDraft, Chat!UseSavedDraft
<1> QED BY <1>2, <1>3, <1>4, <1>5

\* What a led window waits for: its draft, the conversation, and adopting it.
LEMMA ChatLoads ==
  ASSUME ChatGood(s), NEW w \in Chat!Windows, Chat!LoadSteps(w)
  PROVE  ChatGood(s)' /\ Chat!TypedIsKept
<1> DEFINE win == s.win[w]
           load == win.load
<1>0. /\ WinGood(s.stored, win) /\ DOMAIN win = WinFields /\ DOMAIN s = ChatFields /\ s.turns \in Int /\ DOMAIN s.win = Chat!Windows
      /\ SesGood(s.ses) /\ load # Chat!Nothing /\ LoadGood(win)
  BY ChatType DEF ChatGood, Chat!LoadSteps, WinGood
<1>1. ASSUME NEW v, DOMAIN v = WinFields, v.load = Chat!Nothing, v.view = win.view, v.save = win.save, v.op = win.op,
             v.refresh = win.refresh, v.dirty = win.dirty /\ v.draft = win.draft
      PROVE  WinGood(s.stored, v) /\ Keeps(win, v, s.stored)
  <2>1. v.op # Chat!Nothing => OpGood(v)
    BY <1>0, <1>1 DEF WinGood, OpGood
  <2> QED BY <1>0, <1>1, <2>1, ChatWaits
<1> DEFINE free == [win EXCEPT !.load = Chat!Nothing]
<1>2. /\ DOMAIN free = WinFields /\ free.load = Chat!Nothing /\ free.view = win.view /\ free.save = win.save
      /\ free.op = win.op /\ free.refresh = win.refresh /\ free.dirty = win.dirty /\ free.draft = win.draft
  BY <1>0 DEF WinFields
<1> DEFINE waits ==
             /\ load.at = "flush" /\ win.save = Chat!Nothing /\ ~Chat!Flushed(win)
             /\ s' = [s EXCEPT !.win[w] = IF win.conflict THEN [win EXCEPT !.load = Chat!Nothing] ELSE Chat!BeginSave(win)]
           made ==
             s' = Chat!Notify([s EXCEPT !.ses[2] = Chat!Fresh(2),
                                        !.win[w].load = [load EXCEPT !.at = "served", !.snap = Chat!Fresh(2)]])
           read == s' = [s EXCEPT !.win[w].load = [load EXCEPT !.at = "served", !.snap = Chat!Session(load.id)]]
           switch == load.prompt \/ win.view.id # load.id
           taken == Chat!AdoptSession(free, load.snap, switch)
           text == s.texts + 1
           gone == s' = [s EXCEPT !.win[w].load = Chat!Nothing]
           prompted ==
             s' = [s EXCEPT !.texts = text,
                            !.win[w] = [taken EXCEPT !.draft = text, !.dirty = TRUE, !.base = load.snap.dr,
                                                     !.shown = @ \cup {text}]]
           shown == s' = [s EXCEPT !.win[w] = taken]
<1>3. \/ waits
      \/ load.at = "flush" /\ Chat!Flushed(win) /\ load.prompt /\ ~s.ses[2].alive /\ made
      \/ load.at = "flush" /\ Chat!Flushed(win) /\ read
      \/ load.at = "served" /\ gone
      \/ load.at = "served" /\ load.prompt /\ prompted
      \/ load.at = "served" /\ ~load.prompt /\ shown
  BY DEF Chat!LoadSteps
<1>4. CASE waits
  <2>1. CASE win.conflict
    <3>1. s' = [s EXCEPT !.win[w] = free]
      BY <1>4, <2>1
    <3> HIDE DEF free
    <3>2. Stays /\ s'.win = [s.win EXCEPT ![w] = free]
      BY <3>1, <1>0 DEF Stays, ChatFields
    <3> QED BY <3>2, <1>1, <1>2, ChatStays
  <2>2. CASE ~win.conflict
    <3> DEFINE v == Chat!BeginSave(win)
    <3>1. win.dirty /\ win.view.id # Chat!None
      BY <1>4 DEF Chat!Flushed
    <3>2. s' = [s EXCEPT !.win[w] = v]
      BY <1>4, <2>2
    <3>3. WinGood(s.stored, v) /\ v.dirty = win.dirty /\ v.draft = win.draft
      BY <3>1, <1>0, ChatSaves
    <3> HIDE DEF v
    <3>4. Stays /\ s'.win = [s.win EXCEPT ![w] = v] /\ Keeps(win, v, s.stored)
      BY <3>2, <3>3, <1>0 DEF Stays, ChatFields, Keeps
    <3> QED BY <3>3, <3>4, ChatStays
  <2> QED BY <2>1, <2>2
<1>5. CASE load.at = "flush" /\ Chat!Flushed(win) /\ load.prompt /\ ~s.ses[2].alive /\ made
  <2> DEFINE next == [load EXCEPT !.at = "served", !.snap = Chat!Fresh(2)]
             v == [win EXCEPT !.load = next]
             t == [s EXCEPT !.ses[2] = Chat!Fresh(2), !.win[w].load = next]
  <2>1. DOMAIN Chat!Fresh(2) = SesFields /\ Chat!Fresh(2).id = 2
    BY DEF Chat!Fresh, SesFields
  <2>2. /\ DOMAIN next = {"do", "at", "id", "prompt", "snap", "typed"} /\ next.id = load.id /\ next.snap.id = 2
        /\ next.prompt = load.prompt
    BY <2>1, <1>0 DEF LoadGood
  <2>3. s' = Chat!Notify(t)
    BY <1>5
  <2> DEFINE first == Chat!Fresh(2)
  <2> HIDE DEF next, first
  <2>4. /\ DOMAIN t = ChatFields /\ t.turns \in Int /\ t.win = [s.win EXCEPT ![w] = v] /\ t.ses = [s.ses EXCEPT ![2] = first]
        /\ t.stored = s.stored
    BY <1>0 DEF ChatFields, first
  <2>5. SesGood(t.ses)
    BY <2>1, <2>4, <1>0 DEF SesGood, first
  <2>6. /\ DOMAIN v = WinFields /\ v.load = next /\ v.view = win.view /\ v.save = win.save
        /\ v.op = win.op /\ v.refresh = win.refresh /\ v.dirty = win.dirty /\ v.draft = win.draft
    BY <1>0 DEF WinFields
  <2> HIDE DEF v, t
  <2>7. LoadGood(v)
    BY <2>2, <2>6, <1>0, <1>5 DEF LoadGood, Chat!Flushed, WinGood
  <2>8. v.op # Chat!Nothing => OpGood(v)
    BY <2>6, <1>0 DEF WinGood, OpGood
  <2>9. WinGood(s.stored, v) /\ Keeps(win, v, s.stored)
    BY <2>6, <2>7, <2>8, <1>0, ChatWaits
  <2> QED BY <2>3, <2>4, <2>5, <2>6, <2>9, ChatNotified
<1>6. CASE load.at = "flush" /\ Chat!Flushed(win) /\ read
  <2> DEFINE next == [load EXCEPT !.at = "served", !.snap = Chat!Session(load.id)]
             v == [win EXCEPT !.load = next]
  <2>1. /\ DOMAIN next = {"do", "at", "id", "prompt", "snap", "typed"} /\ next.id = load.id /\ next.snap.id = load.id
        /\ next.prompt = load.prompt
    BY <1>0, ChatType DEF LoadGood
  <2> HIDE DEF next
  <2>2. /\ DOMAIN v = WinFields /\ v.load = next /\ v.view = win.view /\ v.save = win.save
        /\ v.op = win.op /\ v.refresh = win.refresh /\ v.dirty = win.dirty /\ v.draft = win.draft
    BY <1>0 DEF WinFields
  <2>3. s' = [s EXCEPT !.win[w].load = next]
    BY <1>6 DEF next
  <2>4. Stays /\ s'.win = [s.win EXCEPT ![w] = v]
    BY <2>3, <1>0 DEF Stays, ChatFields
  <2> HIDE DEF v
  <2>5. LoadGood(v)
    BY <2>1, <2>2, <1>0, <1>6 DEF LoadGood, Chat!Flushed, WinGood
  <2>6. v.op # Chat!Nothing => OpGood(v)
    BY <2>2, <1>0 DEF WinGood, OpGood
  <2> QED BY <2>2, <2>4, <2>5, <2>6, <1>0, ChatWaits, ChatStays
<1>7. CASE load.at = "served" /\ gone
  <2>1. Stays /\ s'.win = [s.win EXCEPT ![w] = free]
    BY <1>7, <1>0 DEF Stays, ChatFields
  <2> HIDE DEF free
  <2> QED BY <2>1, <1>1, <1>2, ChatStays
<1>8. ASSUME load.at = "served"
      PROVE  /\ WinGood(s.stored, taken) /\ DOMAIN taken = WinFields /\ taken.op = win.op /\ taken.load = Chat!Nothing
             /\ switch \/ (win.dirty => taken.dirty /\ taken.draft = win.draft)
             /\ switch => taken.view.id = load.id
  <2> DEFINE snap == load.snap
  <2>1. load.snap.id = load.id /\ load.id \in Chat!Conversations /\ switch \in BOOLEAN
    BY <1>0, <1>8 DEF LoadGood
  <2>2. WinGood(s.stored, free)
    BY <1>1, <1>2
  <2> HIDE DEF free, load, switch
  <2> QED BY <2>1, <2>2, <1>2, ChatAdopts DEF Same
<1>9. CASE load.at = "served" /\ ~load.prompt /\ shown
  <2> DEFINE v == taken
  <2>1. WinGood(s.stored, v) /\ v.load = Chat!Nothing /\ (win.dirty => win.load.typed)
    BY <1>0, <1>8, <1>9 DEF LoadGood
  <2>2. s' = [s EXCEPT !.win[w] = v]
    BY <1>9
  <2> HIDE DEF v
  <2>3. Stays /\ s'.win = [s.win EXCEPT ![w] = v]
    BY <2>2, <1>0 DEF Stays, ChatFields
  <2>4. Keeps(win, v, s.stored)
    BY <2>1, <1>0 DEF Keeps
  <2>5. WinGood(s.stored, v)
    BY <1>8, <1>9 DEF v
  <2> QED BY <2>3, <2>4, <2>5, ChatStays
<1>10. CASE load.at = "served" /\ load.prompt /\ prompted
  <2> DEFINE have == taken
             v == [have EXCEPT !.draft = text, !.dirty = TRUE, !.base = load.snap.dr, !.shown = @ \cup {text}]
  <2>1. /\ WinGood(s.stored, have) /\ DOMAIN have = WinFields /\ have.load = Chat!Nothing /\ have.op = win.op
        /\ have.view.id # Chat!None
    BY <1>0, <1>8, <1>10 DEF LoadGood, Chat!Conversations, Chat!None
  <2>2. s' = [s EXCEPT !.texts = text, !.win[w] = v]
    BY <1>10
  <2> HIDE DEF have
  <2>3. /\ DOMAIN v = WinFields /\ v.load = have.load /\ v.view = have.view /\ v.save = have.save
        /\ v.op = have.op /\ v.refresh = have.refresh /\ v.dirty = TRUE
    BY <2>1 DEF WinFields
  <2> HIDE DEF v
  <2>4. Stays /\ s'.win = [s.win EXCEPT ![w] = v]
    BY <2>2, <1>0 DEF Stays, ChatFields
  <2>5. Keeps(win, v, s.stored)
    <3>1. win.dirty => win.load.typed
      BY <1>0, <1>10 DEF LoadGood
    <3> QED BY <2>1, <2>3, <3>1, <1>0 DEF Keeps
  <2>6. WinGood(s.stored, v)
    BY <2>1, <2>3, <1>0 DEF WinGood, OpGood
  <2> QED BY <2>4, <2>5, <2>6, ChatStays
<1> HIDE DEF waits, made, read, gone, prompted, shown
<1> QED BY <1>3, <1>4, <1>5, <1>6, <1>7, <1>9, <1>10

\* Adopting what another window changed takes nothing unsaved away.
LEMMA ChatTakes ==
  ASSUME NEW stored, NEW v, WinGood(stored, v), NEW snap, snap.id \in Chat!Conversations,
         NEW u, u = Chat!AdoptSession(v, snap, FALSE)
  PROVE  WinGood(stored, u) /\ DOMAIN u = WinFields /\ Same(v, u) /\ (v.dirty => u.dirty /\ u.draft = v.draft)
<1>1. FALSE \in BOOLEAN
  OBVIOUS
<1>2. WinGood(stored, u) /\ DOMAIN u = WinFields /\ Same(v, u)
  BY <1>1, ChatAdopts
<1>3. v.dirty => u.dirty /\ u.draft = v.draft
  BY <1>1, ChatAdopts
<1> QED BY <1>2, <1>3

\* The conversation a window shows is given another context, and shown so.
LEMMA ChatContext ==
  ASSUME ChatGood(s), NEW w \in Chat!Windows, Chat!Current(s, w), NEW t, t = Chat!SetSessionContext(s, w)
  PROVE  /\ DOMAIN t = ChatFields /\ t.turns \in Int /\ SesGood(t.ses) /\ t.stored = s.stored /\ DOMAIN t.win = Chat!Windows
         /\ \A x \in Chat!Windows \ {w} : Told(s.win[x], t.win[x])
         /\ WinGood(s.stored, t.win[w]) /\ DOMAIN t.win[w] = WinFields
         /\ t.win[w].op = s.win[w].op /\ t.win[w].load = s.win[w].load /\ t.win[w].save = s.win[w].save
         /\ s.win[w].dirty => t.win[w].dirty /\ t.win[w].draft = s.win[w].draft
<1> DEFINE win == s.win[w]
           id == win.view.id
           ses == [s.ses[id] EXCEPT !.rev = @ + 1]
           with == [s EXCEPT !.ses[id] = ses]
           next == Chat!Notify(with)
<1>0. /\ WinGood(s.stored, win) /\ DOMAIN win = WinFields /\ DOMAIN s = ChatFields /\ s.turns \in Int /\ DOMAIN s.win = Chat!Windows
      /\ SesGood(s.ses) /\ id \in Chat!Conversations
  BY ChatType DEF ChatGood, WinGood, Chat!Current
<1>1. DOMAIN ses = SesFields /\ ses.id = id
  BY <1>0 DEF SesGood, SesFields
<1>2. t = [next EXCEPT !.win[w] = Chat!AdoptSession(@, ses, FALSE)]
  BY DEF Chat!SetSessionContext
<1> HIDE DEF ses
<1>3. /\ DOMAIN with = ChatFields /\ with.stored = s.stored /\ with.win = s.win /\ with.ses = [s.ses EXCEPT ![id] = ses]
      /\ with.turns = s.turns
  BY <1>0 DEF ChatFields
<1>4. SesGood(with.ses)
  BY <1>0, <1>1, <1>3 DEF SesGood
<1> HIDE DEF with
<1>5. ChatTold(with, next)
  BY <1>3, ChatNotifies
<1> HIDE DEF next
<1>6. \A x \in Chat!Windows : Told(s.win[x], next.win[x])
  BY <1>3, <1>5, ChatAll DEF ChatTold
<1> DEFINE told == next.win[w]
           v == Chat!AdoptSession(told, ses, FALSE)
<1>7. /\ DOMAIN told = WinFields /\ told.op = win.op /\ told.load = win.load /\ told.save = win.save /\ told.dirty = win.dirty /\ told.draft = win.draft
  BY <1>6 DEF Told, WinFields
<1>8. WinGood(s.stored, told)
  BY <1>6, <1>0, ToldStays
<1>9. /\ DOMAIN next = ChatFields /\ DOMAIN next.win = Chat!Windows /\ next.ses = with.ses /\ next.stored = with.stored
      /\ next.turns = with.turns
  BY <1>5 DEF ChatTold
<1> HIDE DEF told
<1>10. /\ WinGood(s.stored, v) /\ DOMAIN v = WinFields /\ v.save = told.save /\ v.load = told.load /\ v.op = told.op
       /\ told.dirty => v.dirty /\ v.draft = told.draft
  <2>1. ses.id \in Chat!Conversations
    BY <1>0, <1>1
  <2> DEFINE u == v
  <2>2. u = Chat!AdoptSession(told, ses, FALSE)
    OBVIOUS
  <2> HIDE DEF u
  <2>3. WinGood(s.stored, u) /\ DOMAIN u = WinFields /\ Same(told, u) /\ (told.dirty => u.dirty /\ u.draft = told.draft)
    BY <2>1, <2>2, <1>8, ChatTakes
  <2> QED BY <2>3 DEF u, Same
<1> HIDE DEF v
<1>11. t = [next EXCEPT !.win[w] = v]
  BY <1>2 DEF v, told
<1>12. /\ DOMAIN t = ChatFields /\ t.turns \in Int /\ t.ses = next.ses /\ t.stored = next.stored /\ t.win = [next.win EXCEPT ![w] = v]
  BY <1>0, <1>3, <1>9, <1>11 DEF ChatFields
<1>13. t.win[w] = v /\ (\A x \in Chat!Windows \ {w} : t.win[x] = next.win[x]) /\ DOMAIN t.win = Chat!Windows
  BY <1>9, <1>12
<1> QED BY <1>3, <1>4, <1>6, <1>7, <1>9, <1>10, <1>12, <1>13

\* What a window that is busy does to a state in which it stays so or not.
Carries(w, t) ==
  /\ DOMAIN t = ChatFields /\ t.turns \in Int /\ SesGood(t.ses) /\ t.stored = s.stored /\ DOMAIN t.win = Chat!Windows
  /\ \A x \in Chat!Windows \ {w} : Told(s.win[x], t.win[x])
  /\ WinGood(s.stored, t.win[w]) /\ DOMAIN t.win[w] = WinFields
  /\ s.win[w].dirty => t.win[w].dirty /\ t.win[w].draft = s.win[w].draft

\* What an operation carries with it loses nothing.
LEMMA ChatCarries ==
  ASSUME ChatGood(s), NEW w \in Chat!Windows, Carries(w, s') PROVE ChatGood(s)' /\ Chat!TypedIsKept
<1> DEFINE v == s'.win[w]
<1> HIDE DEF v
<1>1. Moves(w, v)
  BY DEF Moves, Carries, Keeps, Told, v
<1> QED BY <1>1, ChatMoves

\* Nor does standing still.
LEMMA ChatSame ==
  ASSUME ChatGood(s), NEW w \in Chat!Windows PROVE Carries(w, s)
BY ChatType, ChatAll DEF Carries, ChatGood, Told

\* An operation may go on.
LEMMA ChatOpSet ==
  ASSUME NEW w \in Chat!Windows, NEW t, Carries(w, t), NEW op,
         op = Chat!Nothing \/ ({"do", "at"} \subseteq DOMAIN op /\ op.do = "send" /\ op.at \notin {"got", "get", "flush"}),
         NEW u, u = [t EXCEPT !.win[w].op = op]
  PROVE  Carries(w, u) /\ u.win[w].op = op
<1> DEFINE win == t.win[w]
           v == [win EXCEPT !.op = op]
<1>1. /\ DOMAIN v = WinFields /\ v.save = win.save /\ v.load = win.load /\ v.op = op
      /\ v.refresh = win.refresh /\ v.view = win.view /\ v.dirty = win.dirty /\ v.draft = win.draft
  BY DEF WinFields, Carries
<1>2. /\ DOMAIN u = ChatFields /\ u.ses = t.ses /\ u.stored = t.stored /\ u.win = [t.win EXCEPT ![w] = v]
  BY DEF ChatFields, Carries
<1> HIDE DEF v
<1>3. v.op # Chat!Nothing => OpGood(v)
  BY <1>1 DEF OpGood
<1>4. WinGood(s.stored, v)
  BY <1>1, <1>3, ChatWaits DEF Carries
<1>5. u.win[w] = v /\ (\A x \in Chat!Windows \ {w} : u.win[x] = t.win[x]) /\ DOMAIN u.win = Chat!Windows
  BY <1>2 DEF Carries
<1> QED BY <1>1, <1>2, <1>4, <1>5 DEF Carries

\* A message may be prepared.
LEMMA ChatPrepSet ==
  ASSUME NEW w \in Chat!Windows, NEW t, Carries(w, t), NEW prep, NEW u, u = [t EXCEPT !.win[w].prepared = prep]
  PROVE  Carries(w, u)
<1> DEFINE win == t.win[w]
           v == [win EXCEPT !.prepared = prep]
<1>1. /\ DOMAIN v = WinFields /\ v.save = win.save /\ v.load = win.load /\ v.op = win.op
      /\ v.refresh = win.refresh /\ v.view = win.view /\ v.dirty = win.dirty /\ v.draft = win.draft
  BY DEF WinFields, Carries
<1>2. /\ DOMAIN u = ChatFields /\ u.ses = t.ses /\ u.stored = t.stored /\ u.win = [t.win EXCEPT ![w] = v]
  BY DEF ChatFields, Carries
<1> HIDE DEF v
<1>4. WinGood(s.stored, v)
  BY <1>1 DEF Carries, WinGood, LoadGood, OpGood
<1>5. u.win[w] = v /\ (\A x \in Chat!Windows \ {w} : u.win[x] = t.win[x]) /\ DOMAIN u.win = Chat!Windows
  BY <1>2 DEF Carries
<1> QED BY <1>1, <1>2, <1>4, <1>5 DEF Carries

\* A message is prepared to be reviewed or sent.
LEMMA ChatPrepares ==
  ASSUME NEW w \in Chat!Windows, NEW t, Carries(w, t) PROVE Carries(w, Chat!Prepared(t, w))
<1> DEFINE win == t.win[w]
           prep == [do |-> "prepared", id |-> win.view.id, rev |-> win.view.rev, text |-> win.draft]
           start == [do |-> "send", at |-> "start", prep |-> prep]
           ended == Chat!EndOp(t, w)
           reviewed == [ended EXCEPT !.win[w].prepared = prep]
           sent == [t EXCEPT !.win[w].op = start]
           u == Chat!Prepared(t, w)
<1>1. u \in {ended, reviewed, sent}
  BY DEF Chat!Prepared
<1>2. {"do", "at"} \subseteq DOMAIN start /\ start.do = "send" /\ start.at \notin {"got", "get", "flush"}
  OBVIOUS
<1> HIDE DEF u, prep
<1>3. Carries(w, ended)
  BY ChatOpSet DEF Chat!EndOp
<1> HIDE DEF ended
<1>4. Carries(w, reviewed)
  BY <1>3, ChatPrepSet
<1> HIDE DEF start
<1>5. Carries(w, sent)
  BY <1>2, ChatOpSet
<1> HIDE DEF reviewed, sent
<1> QED BY <1>1, <1>3, <1>4, <1>5 DEF u

\* A step from a state that was carried, of an operation whose window is its own.
LEMMA ChatEnded ==
  ASSUME NEW w \in Chat!Windows, NEW t, Carries(w, t) PROVE Carries(w, Chat!EndOp(t, w))
BY ChatOpSet DEF Chat!EndOp

\* The context of a conversation is set before its message.
LEMMA ChatContextIsSet ==
  ASSUME ChatGood(s), NEW w \in Chat!Windows, Chat!ContextIsSet(w) PROVE ChatGood(s)' /\ Chat!TypedIsKept
<1>0. Carries(w, s)
  BY ChatSame
<1>1. CASE s' = Chat!EndOp(s, w)
  BY <1>1, ChatIdle
<1>2. CASE Chat!Current(s, w) /\ s' = Chat!Prepared(Chat!SetSessionContext(s, w), w)
  <2> DEFINE t == Chat!SetSessionContext(s, w)
  <2>1. Carries(w, t)
    BY <1>2, ChatContext DEF Carries
  <2> HIDE DEF t
  <2>2. Carries(w, s')
    BY <1>2, <2>1, ChatPrepares DEF t
  <2> QED BY <2>2, ChatCarries
<1> QED BY <1>1, <1>2 DEF Chat!ContextIsSet

\* What waits with a draft goes on once it is saved.
LEMMA ChatOpFlushes ==
  ASSUME ChatGood(s), NEW w \in Chat!Windows, Chat!OpFlushes(w) PROVE ChatGood(s)' /\ Chat!TypedIsKept
<1> DEFINE win == s.win[w]
           op == win.op
<1>0. /\ WinGood(s.stored, win) /\ DOMAIN win = WinFields /\ DOMAIN s = ChatFields /\ s.turns \in Int /\ DOMAIN s.win = Chat!Windows
      /\ op # Chat!Nothing /\ op.at = "flush" /\ OpGood(win) /\ win.save = Chat!Nothing
  BY ChatType DEF ChatGood, WinGood, Chat!OpFlushes
<1>1. Carries(w, s)
  BY ChatSame
<1> DEFINE read == [do |-> "open", at |-> "got", snap |-> Chat!Session(op.id)]
           opened == op.do = "open" /\ s' = [s EXCEPT !.win[w].load = Chat!Nothing, !.win[w].op = read]
           asked == s' = [s EXCEPT !.win[w].op.at = "context"]
           prepared == s' = Chat!Prepared(s, w)
           set == Chat!Current(s, w) /\ s' = Chat!EndOp(Chat!SetSessionContext(s, w), w)
           ended == s' = Chat!EndOp(s, w)
           given == s' = [s EXCEPT !.win[w] = [win EXCEPT !.op = Chat!Nothing]]
           saves == ~Chat!Flushed(win) /\ s' = [s EXCEPT !.win[w] = Chat!BeginSave(win)]
<1>2. \/ Chat!Flushed(win) /\ opened
      \/ op.do # "open" /\ asked
      \/ prepared \/ set \/ ended \/ given \/ saves
  <2>1. CASE Chat!Flushed(win)
    <3>1. s' \in Chat!FlushedOp(w) /\ op.do \in {"send", "review", "open", "scenario", "keep"}
      BY <1>0, <2>1 DEF Chat!OpFlushes, OpGood
    <3>2. CASE op.do \in {"send", "review"}
      BY <3>1, <3>2 DEF Chat!FlushedOp
    <3>3. CASE op.do = "open"
      BY <2>1, <3>1, <3>3 DEF Chat!FlushedOp
    <3>4. CASE op.do = "scenario"
      BY <3>1, <3>4 DEF Chat!FlushedOp
    <3>5. CASE op.do = "keep"
      BY <3>1, <3>5 DEF Chat!FlushedOp
    <3> HIDE DEF opened, asked, prepared, set, ended, given, saves
    <3> QED BY <3>1, <3>2, <3>3, <3>4, <3>5
  <2>2. CASE ~Chat!Flushed(win)
    BY <2>2 DEF Chat!OpFlushes
  <2> QED BY <2>1, <2>2
<1>3. CASE prepared
  <2>1. Carries(w, s')
    BY <1>1, <1>3, ChatPrepares
  <2> QED BY <2>1, ChatCarries
<1>4. CASE set
  <2> DEFINE t == Chat!SetSessionContext(s, w)
  <2>1. Carries(w, t)
    BY <1>4, ChatContext DEF Carries
  <2> HIDE DEF t
  <2>2. Carries(w, s')
    BY <1>4, <2>1, ChatEnded DEF t
  <2> QED BY <2>2, ChatCarries
<1>5. CASE ended
  BY <1>5, ChatIdle
<1>6. CASE given
  <2> DEFINE v == [win EXCEPT !.op = Chat!Nothing]
  <2>1. /\ DOMAIN v = WinFields /\ v.save = win.save /\ v.load = win.load /\ v.op = Chat!Nothing
        /\ v.refresh = win.refresh /\ v.view = win.view /\ v.dirty = win.dirty /\ v.draft = win.draft
    BY <1>0 DEF WinFields
  <2> HIDE DEF v
  <2>2. Stays /\ s'.win = [s.win EXCEPT ![w] = v]
    BY <1>6, <1>0 DEF Stays, ChatFields, v
  <2> QED BY <2>1, <2>2, <1>0, ChatWaits, ChatStays
<1>7. CASE saves
  <2> DEFINE v == Chat!BeginSave(win)
  <2>1. WinGood(s.stored, v) /\ v.dirty = win.dirty /\ v.draft = win.draft
    BY <1>0, <1>7, ChatSaves DEF Chat!Flushed
  <2> HIDE DEF v
  <2>2. Stays /\ s'.win = [s.win EXCEPT ![w] = v] /\ Keeps(win, v, s.stored)
    BY <1>7, <2>1, <1>0 DEF Stays, ChatFields, Keeps, v
  <2> QED BY <2>1, <2>2, ChatStays
<1>8. CASE op.do # "open" /\ asked
  <2> DEFINE next == [op EXCEPT !.at = "context"]
  <2>1. {"do", "at"} \subseteq DOMAIN next /\ next.do = op.do /\ next.at = "context"
    BY <1>0 DEF OpGood
  <2>2. s' = [s EXCEPT !.turns = s.turns, !.win[w].op = next]
    BY <1>8, <1>0 DEF ChatFields
  <2> HIDE DEF next
  <2> QED BY <1>0, <1>8, <2>1, <2>2, ChatBusy
<1>9. CASE Chat!Flushed(win) /\ opened
  <2> DEFINE v == [win EXCEPT !.load = Chat!Nothing, !.op = read]
  <2>1. op.id \in Chat!Conversations
    BY <1>0, <1>9 DEF OpGood
  <2>2. Chat!Session(op.id).id = op.id /\ "alive" \in DOMAIN Chat!Session(op.id)
    BY <2>1, ChatType DEF SesFields
  <2>3. /\ DOMAIN read = {"do", "at", "snap"} /\ read.do = "open" /\ read.at = "got" /\ read.snap.id \in Chat!Conversations
        /\ "alive" \in DOMAIN read.snap
    BY <2>1, <2>2
  <2> HIDE DEF read
  <2>4. /\ DOMAIN v = WinFields /\ v.save = win.save /\ v.load = Chat!Nothing /\ v.op = read
        /\ v.refresh = win.refresh /\ v.view = win.view /\ v.dirty = win.dirty /\ v.draft = win.draft
    BY <1>0 DEF WinFields
  <2>5. s' = [s EXCEPT !.win[w] = v]
    BY <1>9, <1>0 DEF ChatFields, WinFields
  <2> HIDE DEF v
  <2>6. Stays /\ s'.win = [s.win EXCEPT ![w] = v]
    BY <2>5, <1>0 DEF Stays, ChatFields
  <2>7. ~v.dirty
    BY <1>0, <1>9, <2>4 DEF WinGood, Chat!Flushed
  <2>8. OpGood(v)
    BY <2>3, <2>4, <2>7, <1>0 DEF OpGood
  <2> QED BY <2>4, <2>6, <2>8, <1>0, ChatWaits, ChatStays
<1> HIDE DEF opened, asked, prepared, set, ended, given, saves
<1> QED BY <1>2, <1>3, <1>4, <1>5, <1>6, <1>7, <1>8, <1>9

\* An answer of what a window opened, kept or takes.
LEMMA ChatGets ==
  ASSUME ChatGood(s), NEW w \in Chat!Windows, Chat!Get(w) PROVE ChatGood(s)' /\ Chat!TypedIsKept
<1> DEFINE win == s.win[w]
           op == win.op
           got == [do |-> op.do, at |-> "got", snap |-> Chat!Session(win.view.id)]
           v == [win EXCEPT !.op = got]
<1>0. /\ WinGood(s.stored, win) /\ DOMAIN win = WinFields /\ DOMAIN s = ChatFields /\ s.turns \in Int /\ DOMAIN s.win = Chat!Windows
      /\ op # Chat!Nothing /\ op.at = "get" /\ OpGood(win)
  BY ChatType DEF ChatGood, WinGood, Chat!Get
<1>1. CASE s' = Chat!EndOp(s, w)
  BY <1>1, ChatIdle
<1>2. CASE win.view.id # Chat!None /\ s' = [s EXCEPT !.win[w] = v]
  <2>1. op.do \in {"keep", "saved"}
    BY <1>0 DEF OpGood
  <2>2. Chat!Session(win.view.id).id \in Chat!Conversations /\ "alive" \in DOMAIN Chat!Session(win.view.id)
    BY <1>0, <1>2, ChatType DEF WinGood, SesFields
  <2>3. /\ {"do", "at"} \subseteq DOMAIN got /\ "snap" \in DOMAIN got /\ got.do \in {"keep", "saved"} /\ got.at = "got"
        /\ got.snap.id \in Chat!Conversations /\ "alive" \in DOMAIN got.snap
    BY <2>1, <2>2
  <2> HIDE DEF got
  <2>4. /\ DOMAIN v = WinFields /\ v.save = win.save /\ v.load = win.load /\ v.op = got
        /\ v.refresh = win.refresh /\ v.view = win.view /\ v.dirty = win.dirty /\ v.draft = win.draft
    BY <1>0 DEF WinFields
  <2> HIDE DEF v
  <2>5. Stays /\ s'.win = [s.win EXCEPT ![w] = v]
    BY <1>2, <1>0 DEF Stays, ChatFields
  <2>6. OpGood(v)
    BY <2>3, <2>4 DEF OpGood
  <2> QED BY <2>4, <2>5, <2>6, <1>0, ChatWaits, ChatStays
<1>3. s' = Chat!EndOp(s, w) \/ (win.view.id # Chat!None /\ s' = [s EXCEPT !.win[w] = v])
  <2>1. CASE win.view.id = Chat!None
    BY <2>1 DEF Chat!Get
  <2>2. CASE win.view.id # Chat!None
    <3>1. s' = [s EXCEPT !.win[w].op = [do |-> @.do, at |-> "got", snap |-> Chat!Session(win.view.id)]]
      BY <2>2 DEF Chat!Get
    <3>2. s' = [s EXCEPT !.win[w].op = got]
      BY <3>1, <1>0 DEF WinFields, ChatFields
    <3> QED BY <2>2, <3>2, <1>0 DEF WinFields, ChatFields
  <2> QED BY <2>1, <2>2
<1> QED BY <1>1, <1>2, <1>3

\* The answer of an operation that reads a conversation.
LEMMA ChatGot ==
  ASSUME ChatGood(s), NEW w \in Chat!Windows, Chat!GotIt(w) PROVE ChatGood(s)' /\ Chat!TypedIsKept
<1> DEFINE win == s.win[w]
           op == win.op
           kept == Chat!AdoptSession(win, op.snap, FALSE)
           asked == [do |-> "keep", at |-> "flush"]
           keep == [kept EXCEPT !.base = op.snap.dr, !.conflict = FALSE, !.shown = @ \cup {op.snap.draft}, !.op = asked]
           took == Chat!AdoptSession(win, op.snap, TRUE)
           over == [took EXCEPT !.op = Chat!Nothing]
<1>0. /\ WinGood(s.stored, win) /\ DOMAIN win = WinFields /\ DOMAIN s = ChatFields /\ s.turns \in Int /\ DOMAIN s.win = Chat!Windows
      /\ op # Chat!Nothing /\ op.at = "got" /\ OpGood(win)
  BY ChatType DEF ChatGood, WinGood, Chat!GotIt
<1>1. CASE s' = Chat!EndOp(s, w)
  BY <1>1, ChatIdle
<1>2. CASE op.snap.alive /\ op.do = "keep" /\ s' = [s EXCEPT !.win[w] = keep]
  <2>1. op.snap.id \in Chat!Conversations
    BY <1>0 DEF OpGood
  <2>2. /\ WinGood(s.stored, kept) /\ DOMAIN kept = WinFields /\ (win.dirty => kept.dirty /\ kept.draft = win.draft)
    <3> DEFINE snap == op.snap
    <3>1. kept = Chat!AdoptSession(win, snap, FALSE) /\ snap.id \in Chat!Conversations
      BY <2>1
    <3> HIDE DEF kept, snap, win
    <3>2. WinGood(s.stored, win)
      BY <1>0
    <3>3. /\ WinGood(s.stored, kept) /\ DOMAIN kept = WinFields /\ Same(win, kept)
          /\ (win.dirty => kept.dirty /\ kept.draft = win.draft)
      BY <3>1, <3>2, ChatTakes
    <3> QED BY <3>3
  <2> HIDE DEF kept, asked
  <2>3. /\ DOMAIN keep = WinFields /\ keep.save = kept.save /\ keep.load = kept.load /\ keep.op = asked
        /\ keep.refresh = kept.refresh /\ keep.view = kept.view /\ keep.dirty = kept.dirty /\ keep.draft = kept.draft
    BY <2>2 DEF WinFields
  <2> HIDE DEF keep
  <2>4. Stays /\ s'.win = [s.win EXCEPT ![w] = keep]
    BY <1>2, <1>0 DEF Stays, ChatFields
  <2>5. OpGood(keep)
    BY <2>3 DEF OpGood, asked
  <2>6. WinGood(s.stored, keep)
    BY <2>2, <2>3, <2>5, ChatWaits
  <2>7. Keeps(win, keep, s.stored)
    BY <2>2, <2>3 DEF Keeps
  <2> QED BY <2>4, <2>6, <2>7, ChatStays
<1>3. CASE op.snap.alive /\ op.do # "keep" /\ s' = Chat!EndOp([s EXCEPT !.win[w] = took], w)
  <2>1. op.snap.id \in Chat!Conversations /\ TRUE \in BOOLEAN
    BY <1>0 DEF OpGood
  <2>2. WinGood(s.stored, took) /\ DOMAIN took = WinFields
    <3> DEFINE snap == op.snap
               u == took
    <3>1. u = Chat!AdoptSession(win, snap, TRUE) /\ snap.id \in Chat!Conversations
      BY <2>1
    <3> HIDE DEF u, snap, win
    <3>2. WinGood(s.stored, u) /\ DOMAIN u = WinFields
      BY <2>1, <3>1, <1>0, ChatAdopts
    <3> QED BY <3>2 DEF u
  <2>3. s' = [s EXCEPT !.win[w] = over]
    BY <1>0, <1>3, <2>2 DEF Chat!EndOp, ChatFields, WinFields
  <2> HIDE DEF took
  <2>4. /\ DOMAIN over = WinFields /\ over.save = took.save /\ over.load = took.load /\ over.op = Chat!Nothing
        /\ over.refresh = took.refresh /\ over.view = took.view /\ over.dirty = took.dirty /\ over.draft = took.draft
    BY <2>2 DEF WinFields
  <2> HIDE DEF over
  <2>5. Stays /\ s'.win = [s.win EXCEPT ![w] = over]
    BY <2>3, <1>0 DEF Stays, ChatFields
  <2>6. WinGood(s.stored, over)
    BY <2>2, <2>4, ChatWaits
  <2>7. win.dirty => op.do = "saved"
    BY <1>0, <1>3 DEF OpGood
  <2>8. Keeps(win, over, s.stored)
    BY <2>7, <1>0 DEF Keeps
  <2> QED BY <2>5, <2>6, <2>8, ChatStays
<1> QED BY <1>1, <1>2, <1>3 DEF Chat!GotIt

\* A conversation is deleted, or what is written on it is taken with a run.
LEMMA ChatDeletes ==
  ASSUME ChatGood(s), NEW w \in Chat!Windows, Chat!Deleted(w) PROVE ChatGood(s)' /\ Chat!TypedIsKept
<1> DEFINE win == s.win[w]
           id == win.view.id
           shut == Chat!Forget(win)
           v == [shut EXCEPT !.load = Chat!Nothing]
           t == [s EXCEPT !.ses[id].alive = FALSE, !.win[w] = v]
<1>0. /\ WinGood(s.stored, win) /\ DOMAIN win = WinFields /\ DOMAIN s = ChatFields /\ s.turns \in Int /\ DOMAIN s.win = Chat!Windows
      /\ SesGood(s.ses) /\ win.op # Chat!Nothing /\ win.op.do = "delete"
  BY ChatType DEF ChatGood, Chat!Deleted
<1>1. CASE s' = Chat!EndOp(s, w)
  BY <1>1, ChatIdle
<1>2. CASE id # Chat!None /\ s' = Chat!EndOp(Chat!Notify(t), w)
  <2>0. id \in Chat!Conversations
    BY <1>0, <1>2 DEF WinGood
  <2>1. WinGood(s.stored, shut) /\ DOMAIN shut = WinFields
    BY <1>0, ChatForgets
  <2> HIDE DEF shut
  <2>2. /\ DOMAIN v = WinFields /\ v.save = shut.save /\ v.load = Chat!Nothing /\ v.op = shut.op
        /\ v.refresh = shut.refresh /\ v.view = shut.view /\ v.dirty = shut.dirty /\ v.draft = shut.draft
    BY <2>1 DEF WinFields
  <2>3. WinGood(s.stored, v)
    BY <2>1, <2>2 DEF WinGood, OpGood
  <2> HIDE DEF v
  <2>4. /\ DOMAIN t = ChatFields /\ t.turns \in Int /\ t.stored = s.stored /\ t.win = [s.win EXCEPT ![w] = v]
        /\ t.ses = [s.ses EXCEPT ![id].alive = FALSE]
    BY <1>0, <2>0 DEF ChatFields
  <2>5. SesGood(t.ses)
    BY <2>0, <2>4, <1>0 DEF SesGood, SesFields
  <2> HIDE DEF t
  <2> DEFINE next == Chat!Notify(t)
             last == [next.win[w] EXCEPT !.op = Chat!Nothing]
  <2>6. ChatTold(t, next)
    BY <2>4, ChatNotifies
  <2>7. s' = [next EXCEPT !.win[w].op = Chat!Nothing]
    BY <1>2 DEF Chat!EndOp
  <2> HIDE DEF next
  <2>8. /\ t.win[w] = v /\ (\A x \in Chat!Windows \ {w} : t.win[x] = s.win[x])
    BY <2>4, <1>0
  <2>9. Told(v, next.win[w]) /\ \A x \in Chat!Windows \ {w} : Told(s.win[x], next.win[x])
    BY <2>2, <2>6, <2>8, ChatAll DEF ChatTold
  <2>10. /\ DOMAIN next = ChatFields /\ DOMAIN next.win = Chat!Windows /\ next.ses = t.ses /\ next.stored = t.stored
         /\ next.turns = t.turns
    BY <2>6 DEF ChatTold
  <2>11. WinGood(s.stored, next.win[w]) /\ DOMAIN next.win[w] = WinFields
    <3> DEFINE u == next.win[w]
    <3>1. Told(v, u)
      BY <2>9
    <3> HIDE DEF u
    <3>2. WinGood(s.stored, u)
      BY <2>3, <3>1, ToldStays
    <3>3. DOMAIN u = WinFields
      BY <3>1 DEF Told
    <3> QED BY <3>2, <3>3 DEF u
  <2> DEFINE told == next.win[w]
  <2>12. /\ DOMAIN last = WinFields /\ last.save = told.save /\ last.load = told.load /\ last.op = Chat!Nothing
         /\ last.refresh = told.refresh /\ last.view = told.view /\ last.dirty = told.dirty /\ last.draft = told.draft
    BY <2>11 DEF WinFields
  <2>13. /\ DOMAIN s' = ChatFields /\ s'.turns \in Int /\ s'.ses = t.ses /\ s'.stored = s.stored /\ s'.win = [next.win EXCEPT ![w] = last]
    BY <2>4, <2>7, <2>10 DEF ChatFields
  <2> HIDE DEF last
  <2>14. WinGood(s.stored, last)
    BY <2>11, <2>12, ChatWaits
  <2>15. /\ s'.win[w] = last /\ (\A x \in Chat!Windows \ {w} : s'.win[x] = next.win[x]) /\ DOMAIN s'.win = Chat!Windows
    BY <2>10, <2>13
  <2>16. Keeps(win, last, s.stored)
    BY <1>0 DEF Keeps
  <2>17. Moves(w, last)
    BY <2>5, <2>9, <2>12, <2>13, <2>14, <2>15, <2>16 DEF Moves, Told
  <2> QED BY <2>17, ChatMoves
<1>3. s' = Chat!EndOp(s, w) \/ (id # Chat!None /\ s' = Chat!EndOp(Chat!Notify(t), w))
  <2>1. CASE id = Chat!None
    BY <2>1 DEF Chat!Deleted
  <2>2. CASE id # Chat!None
    BY <2>2, <1>0 DEF Chat!Deleted, ChatFields
  <2> QED BY <2>1, <2>2
<1> QED BY <1>1, <1>2, <1>3

\* A run takes the text of the conversation it was prepared on.
LEMMA ChatStarts ==
  ASSUME ChatGood(s), NEW w \in Chat!Windows, Chat!Start(w) PROVE ChatGood(s)' /\ Chat!TypedIsKept
<1> DEFINE win == s.win[w]
           prep == win.op.prep
           ses == s.ses[prep.id]
           next == [ses EXCEPT !.rev = @ + 1, !.dr = @ + 1, !.draft = Chat!Empty]
           op == [win.op EXCEPT !.at = "started"]
           v == [win EXCEPT !.op = op]
           t == [s EXCEPT !.ses[prep.id] = next, !.active = TRUE, !.win[w] = v]
<1>0. /\ WinGood(s.stored, win) /\ DOMAIN win = WinFields /\ DOMAIN s = ChatFields /\ s.turns \in Int /\ DOMAIN s.win = Chat!Windows
      /\ SesGood(s.ses) /\ win.op # Chat!Nothing /\ win.op.at = "start" /\ OpGood(win)
  BY ChatType DEF ChatGood, WinGood, Chat!Start
<1>1. CASE s' = Chat!EndOp(s, w)
  BY <1>1, ChatIdle
<1>2. CASE s' = Chat!Notify(t)
  <2>1. {"do", "at"} \subseteq DOMAIN op /\ op.do = win.op.do /\ op.at = "started"
    BY <1>0 DEF OpGood
  <2>2. op.do = "send"
    BY <1>0, <2>1 DEF OpGood
  <2> HIDE DEF op
  <2>3. /\ DOMAIN v = WinFields /\ v.save = win.save /\ v.load = win.load /\ v.op = op
        /\ v.refresh = win.refresh /\ v.view = win.view /\ v.dirty = win.dirty /\ v.draft = win.draft
    BY <1>0 DEF WinFields
  <2> HIDE DEF v
  <2>4. OpGood(v)
    BY <2>1, <2>2, <2>3 DEF OpGood
  <2>5. WinGood(s.stored, v) /\ Keeps(win, v, s.stored)
    BY <2>3, <2>4, <1>0, ChatWaits
  <2> DEFINE id == prep.id
  <2>6. id \in Chat!Conversations => next.id = ses.id /\ DOMAIN next = DOMAIN ses
    BY <1>0 DEF SesGood, SesFields
  <2> HIDE DEF next
  <2>7. /\ DOMAIN t = ChatFields /\ t.turns \in Int /\ t.stored = s.stored /\ t.win = [s.win EXCEPT ![w] = v]
        /\ t.ses = [s.ses EXCEPT ![id] = next]
    BY <1>0 DEF ChatFields
  <2>8. SesGood(t.ses)
    BY <1>0, <2>6, <2>7 DEF SesGood
  <2> HIDE DEF t
  <2> QED BY <1>2, <2>3, <2>5, <2>7, <2>8, ChatNotified
<1>3. s' = Chat!EndOp(s, w) \/ s' = Chat!Notify(t)
  <2>1. CASE ~s.active /\ ses.alive /\ ses.rev = prep.rev
    BY <2>1, <1>0 DEF Chat!Start, ChatFields, WinFields
  <2>2. CASE ~(~s.active /\ ses.alive /\ ses.rev = prep.rev)
    BY <2>2 DEF Chat!Start
  <2> QED BY <2>1, <2>2
<1> QED BY <1>1, <1>2, <1>3

\* A message that was sent takes its draft with it.
LEMMA ChatStarted ==
  ASSUME ChatGood(s), NEW w \in Chat!Windows, Chat!Started(w) PROVE ChatGood(s)' /\ Chat!TypedIsKept
<1> DEFINE was == s.win[w]
           win == [was EXCEPT !.prepared = Chat!Nothing, !.dirty = FALSE, !.base = Chat!None, !.conflict = FALSE,
                              !.draft = Chat!Empty, !.refresh = {}, !.op = Chat!Nothing]
           snap == Chat!Session(win.view.id)
           shut == Chat!Forget(win)
           shown == Chat!AdoptSession(win, snap, FALSE)
           v == IF win.view.id = Chat!None THEN win ELSE IF ~s.ses[win.view.id].alive THEN shut ELSE shown
<1>0. /\ WinGood(s.stored, was) /\ DOMAIN was = WinFields /\ DOMAIN s = ChatFields /\ s.turns \in Int /\ DOMAIN s.win = Chat!Windows
      /\ was.op # Chat!Nothing /\ was.op.at = "started" /\ OpGood(was)
  BY ChatType DEF ChatGood, WinGood, Chat!Started
<1>1. /\ DOMAIN win = WinFields /\ win.save = was.save /\ win.load = was.load /\ win.op = Chat!Nothing
      /\ win.refresh = {} /\ win.view = was.view /\ win.dirty = FALSE
  BY <1>0 DEF WinFields
<1>2. s' = [s EXCEPT !.win[w] = v]
  BY DEF Chat!Started
<1> HIDE DEF win
<1>3. WinGood(s.stored, win)
  BY <1>0, <1>1 DEF WinGood, LoadGood
<1>4. WinGood(s.stored, v)
  <2>1. CASE win.view.id = Chat!None
    BY <2>1, <1>3
  <2>2. CASE win.view.id # Chat!None /\ ~s.ses[win.view.id].alive
    <3>1. v = shut
      BY <2>2
    <3> HIDE DEF v
    <3> QED BY <3>1, <1>3, ChatForgets
  <2>3. CASE win.view.id # Chat!None /\ s.ses[win.view.id].alive
    <3>1. v = shown
      BY <2>3
    <3>2. snap.id \in Chat!Conversations
      BY <1>0, <1>1, <2>3, ChatType DEF WinGood
    <3> HIDE DEF v, snap
    <3> QED BY <3>1, <3>2, <1>3, ChatTakes
  <2> QED BY <2>1, <2>2, <2>3
<1> HIDE DEF v
<1>5. Stays /\ s'.win = [s.win EXCEPT ![w] = v]
  BY <1>2, <1>0 DEF Stays, ChatFields
<1>6. was.op.do = "send"
  BY <1>0 DEF OpGood
<1>7. Keeps(was, v, s.stored)
  BY <1>0, <1>6 DEF Keeps
<1> QED BY <1>4, <1>5, <1>7, ChatStays

\* No step drops what was typed.
LEMMA ChatSteps ==
  ASSUME ChatGood(s), Chat!Next PROVE ChatGood(s)' /\ Chat!TypedIsKept
<1>1. CASE Chat!RunEnds
  <2>1. DOMAIN s = ChatFields /\ s.turns \in Int
    BY DEF ChatGood
  <2>2. PICK w \in Chat!Windows : TRUE
    BY DEF Chat!Windows
  <2>3. DOMAIN s' = ChatFields /\ s'.turns \in Int /\ s'.ses = s.ses /\ s'.stored = s.stored /\ s'.win = s.win
    BY <1>1, <2>1 DEF Chat!RunEnds, ChatFields
  <2>4. Carries(w, s')
    BY <2>3, ChatSame DEF Carries
  <2> QED BY <2>4, ChatCarries
<1>2. ASSUME NEW w \in Chat!Windows,
             \/ Chat!ChangeDraft(w) \/ Chat!AutoSave(w) \/ Chat!Hide(w) \/ Chat!SaveIsServed(w) \/ Chat!SaveIsAnswered(w)
             \/ Chat!Refresh(w) \/ Chat!RefreshArrives(w) \/ Chat!LeadWithPrompt(w)
             \/ \E id \in Chat!Conversations : Chat!Lead(w, id)
      PROVE  ChatGood(s)' /\ Chat!TypedIsKept
  BY <1>2, ChatTypes, ChatSaveServed, ChatSaveAnswered, ChatRefreshes, ChatLeads
<1>3. ASSUME NEW w \in Chat!Windows,
             \/ \E id \in Chat!Conversations : Chat!OpenSession(w, id)
             \/ \E review \in BOOLEAN : Chat!PrepareMessage(w, review)
             \/ Chat!StartPrepared(w) \/ Chat!ChangeScenario(w) \/ Chat!DeleteSession(w) \/ Chat!KeepMyDraft(w)
             \/ Chat!UseSavedDraft(w)
      PROVE  ChatGood(s)' /\ Chat!TypedIsKept
  BY <1>3, ChatBegins
<1>4. ASSUME NEW w \in Chat!Windows,
             \/ Chat!LoadSteps(w) \/ Chat!OpFlushes(w) \/ Chat!ContextIsSet(w) \/ Chat!Get(w) \/ Chat!GotIt(w)
             \/ Chat!Deleted(w) \/ Chat!Start(w) \/ Chat!Started(w)
      PROVE  ChatGood(s)' /\ Chat!TypedIsKept
  BY <1>4, ChatLoads, ChatOpFlushes, ChatContextIsSet, ChatGets, ChatGot, ChatDeletes, ChatStarts, ChatStarted
<1> QED BY <1>1, <1>2, <1>3, <1>4 DEF Chat!Next

\* The windows start with a conversation and nothing typed.
LEMMA ChatBegin ==
  ASSUME Chat!Init PROVE ChatGood(s)
<1>1. PICK second \in BOOLEAN :
        s = [ses |-> [i \in Chat!Conversations |-> [Chat!Fresh(i) EXCEPT !.alive = i = 1 \/ second]],
             win |-> [w \in Chat!Windows |->
                        [view |-> [id |-> 1, rev |-> 1, dr |-> 1, text |-> Chat!Empty], draft |-> Chat!Empty, dirty |-> FALSE,
                         base |-> Chat!None, conflict |-> FALSE, save |-> Chat!Nothing, load |-> Chat!Nothing,
                         op |-> Chat!Nothing, prepared |-> Chat!Nothing, refresh |-> {}, changed |-> FALSE,
                         shown |-> {Chat!Empty}]],
             texts |-> 0, turns |-> 3, stored |-> {Chat!Empty}, active |-> FALSE, blind |-> FALSE]
  BY DEF Chat!Init
<1>2. DOMAIN s = ChatFields /\ s.turns \in Int /\ DOMAIN s.win = Chat!Windows
  BY <1>1 DEF ChatFields
<1>3. SesGood(s.ses)
  <2>1. s.ses = [i \in Chat!Conversations |-> [Chat!Fresh(i) EXCEPT !.alive = i = 1 \/ second]]
    BY <1>1
  <2> QED BY <2>1 DEF SesGood, SesFields, Chat!Fresh
<1>4. ASSUME NEW w \in Chat!Windows PROVE WinGood(s.stored, s.win[w])
  <2> DEFINE v == s.win[w]
  <2>1. /\ DOMAIN v = WinFields /\ v.save = Chat!Nothing /\ v.load = Chat!Nothing /\ v.op = Chat!Nothing
        /\ v.refresh = {} /\ v.view.id = 1 /\ v.dirty = FALSE
    BY <1>1 DEF WinFields
  <2> HIDE DEF v
  <2>2. WinGood(s.stored, v)
    BY <2>1 DEF WinGood, Chat!Conversations, Chat!None
  <2> QED BY <2>2 DEF v
<1> QED BY <1>2, <1>3, <1>4 DEF ChatGood

-------------------------------------------------------------------------------
(* The other local tools stay what they are.                                 *)

\* What a local tool shows of itself.
Is(t, tool) == "of" \in DOMAIN t /\ t.of = tool

\* The schedule stays the schedule.
LEMMA ScheduleIs == ASSUME Is(s, "schedule"), Simple!ScheduleNext PROVE Is(s', "schedule")
<1>1. ASSUME NEW key, NEW n, Simple!Press(key, n) PROVE Is(s', "schedule")
  BY <1>1 DEF Is, Simple!Press, Simple!Turn
<1>2. CASE (\E once \in BOOLEAN : Simple!CreateRule(once)) \/ (\E op \in Simple!Ops \ {"create"} : Simple!ChangeRule(op))
  BY <1>1, <1>2 DEF Simple!CreateRule, Simple!ChangeRule
<1>3. ASSUME NEW c, Simple!Serve(c) PROVE Is(s', "schedule")
  <2>1. \A t, answer, snap : Is(t, "schedule") => Is(Simple!Answered(t, c, answer, snap), "schedule")
    BY DEF Is, Simple!Answered
  <2>2. \A request : Is(Simple!Applied(s, request), "schedule")
    BY DEF Is, Simple!Applied
  <2>3. \A request, receipts : Is([Simple!Applied(s, request) EXCEPT !.receipts = receipts], "schedule")
    BY <2>2 DEF Is
  <2> QED BY <1>3, <2>1, <2>3 DEF Simple!Serve
<1>4. ASSUME NEW c, Simple!MutationAnswers(c) PROVE Is(s', "schedule")
  BY <1>4 DEF Is, Simple!MutationAnswers
<1>5. CASE Simple!RefreshRules \/ Simple!ForgetShown \/ Simple!LeaveRules \/ Simple!ReloadView \/ Simple!EnterRules \/ Simple!Stop
  BY <1>5 DEF Is, Simple!RefreshRules, Simple!ForgetShown, Simple!LeaveRules, Simple!ReloadView, Simple!EnterRules,
     Simple!Stop, Simple!Gone, Simple!Turn
<1>6. CASE Simple!SkipMissed \/ Simple!PollDue \/ Simple!AdvancePolled \/ Simple!Dispatch
  BY <1>6 DEF Is, Simple!SkipMissed, Simple!PollDue, Simple!AdvancePolled, Simple!Dispatch, Simple!Advanced, 
     Simple!FailClosed, Simple!RecordIntent
<1>7. CASE Simple!ClearToolboxData \/ Simple!Start \/ Simple!Tick \/ Simple!ClockIsSetBack
  BY <1>7 DEF Is, Simple!ClearToolboxData, Simple!Start, Simple!Tick, Simple!ClockIsSetBack, Simple!Emptied, Simple!Turn
<1> QED BY <1>2, <1>3, <1>4, <1>5, <1>6, <1>7 DEF Simple!ScheduleNext

\* The occupancy stays the occupancy.
LEMMA OccupancyIs == ASSUME Is(s, "occupancy"), Simple!OccupancyNext PROVE Is(s', "occupancy")
BY DEF Is, Simple!OccupancyNext, Simple!Turn, Simple!ChooseTarget, Simple!RunScan, Simple!ScanAnswers,
   Simple!PrepareEject, Simple!EjectIsPrepared, Simple!ConfirmEject, Simple!EjectAnswers, Simple!ClearOccupancy,
   Simple!LeaveOccupancy

\* The addresses stay the addresses.
LEMMA AddressesIs == ASSUME Is(s, "addresses"), Simple!AddressesNext PROVE Is(s', "addresses")
BY DEF Is, Simple!AddressesNext, Simple!Turn, Simple!RefreshAddresses, Simple!ParsePastedIfconfig, Simple!SelectView,
   Simple!AddressesAnswer, Simple!Refreshed

\* The hash stays the hash.
LEMMA HashIs == ASSUME Is(s, "hash"), Simple!HashNext PROVE Is(s', "hash")
<1>1. \A t, o : Is(t, "hash") => Is(Simple!Settle(t, o), "hash")
  BY DEF Is, Simple!Settle
<1>2. \A t, o, status : Is(t, "hash") => Is(Simple!Ended(t, o, status), "hash")
  BY DEF Is, Simple!Ended
<1>3. \A t, o : Is(t, "hash") => Is(Simple!Fails(t, o), "hash")
  BY <1>1 DEF Is, Simple!Fails
<1>4. \A t, o, confirmed : Is(t, "hash") => Is(Simple!Released(t, o, confirmed), "hash")
  BY DEF Is, Simple!Released
<1>5. \A t, f : Is(t, "hash") => Is([t EXCEPT !.output = f], "hash") /\ Is([t EXCEPT !.active = f], "hash")
                              /\ Is([t EXCEPT !.cancels = f], "hash")
  BY DEF Is
<1>6. CASE Simple!RunHash \/ Simple!StopHash \/ Simple!LeaveHash
  <2>1. \A t : Is(t, "hash") => Is(Simple!CancelHash(t), "hash") /\ Is(Simple!Turn(t), "hash")
    BY DEF Is, Simple!CancelHash, Simple!Turn
  <2>2. CASE Simple!StopHash
    BY <2>1, <2>2 DEF Simple!StopHash
  <2>3. CASE Simple!LeaveHash
    <3>1. Is([[Simple!CancelHash(s) EXCEPT !.mounted = FALSE] EXCEPT !.output = 0], "hash")
      BY <2>1 DEF Is
    <3>2. [Simple!CancelHash(s) EXCEPT !.mounted = FALSE, !.output = 0]
            = [[Simple!CancelHash(s) EXCEPT !.mounted = FALSE] EXCEPT !.output = 0]
      OBVIOUS
    <3> QED BY <2>1, <2>3, <3>1, <3>2 DEF Simple!LeaveHash
  <2>4. CASE Simple!RunHash
    BY <2>4 DEF Is, Simple!RunHash, Simple!Turn
  <2> QED BY <1>6, <2>2, <2>3, <2>4
<1>7. CASE Simple!SessionStarts
  <2>1. PICK o \in s.active :
          LET job == Len(s.jobs) + 1
              owner == [Simple!At(o, "input") EXCEPT !.job = job]
              t == [s EXCEPT !.jobs = Append(@, "running"), !.active = {owner}]
          IN s' \in {Simple!Settle(s, o), Simple!Settle(t, owner), t}
    BY <1>7 DEF Simple!SessionStarts
  <2> DEFINE owner == [Simple!At(o, "input") EXCEPT !.job = Len(s.jobs) + 1]
             t == [s EXCEPT !.jobs = Append(@, "running"), !.active = {owner}]
  <2>2. Is(t, "hash")
    BY DEF Is
  <2>3. s' \in {Simple!Settle(s, o), Simple!Settle(t, owner), t}
    BY <2>1
  <2> HIDE DEF t
  <2> QED BY <1>1, <2>2, <2>3
<1>8. CASE Simple!FileIsChosen
  <2>1. PICK o \in s.active : \/ s' \in {Simple!Settle(s, o), Simple!Settle(s, [o EXCEPT !.aborted = TRUE]), Simple!Fails(s, o)}
                             \/ \E active : s' = [s EXCEPT !.active = active]
    BY <1>8 DEF Simple!FileIsChosen
  <2>2. ASSUME NEW active, s' = [s EXCEPT !.active = active] PROVE Is(s', "hash")
    BY <2>2 DEF Is
  <2> QED BY <1>1, <1>3, <2>1, <2>2
<1>9. CASE Simple!FileIsHashed
  <2>1. PICK o \in s.active : \/ s' \in {Simple!Settle(s, o), Simple!Settle(s, [o EXCEPT !.aborted = TRUE]), Simple!Fails(s, o)}
                             \/ \E active : s' = [s EXCEPT !.active = active]
    BY <1>9 DEF Simple!FileIsHashed
  <2>2. ASSUME NEW active, s' = [s EXCEPT !.active = active] PROVE Is(s', "hash")
    BY <2>2 DEF Is
  <2> QED BY <1>1, <1>3, <2>1, <2>2
<1>10. CASE Simple!HashFinishes
  <2>1. PICK o \in s.active :
          LET t == Simple!Ended(s, o.job, "completed")
          IN \/ s' \in {Simple!Fails(s, o), Simple!Fails(t, o)}
             \/ \E output : s' = Simple!Settle([t EXCEPT !.output = output], o)
    BY <1>10 DEF Simple!HashFinishes
  <2> QED BY <1>1, <1>2, <1>3, <1>5, <2>1
<1>11. CASE Simple!FailureIsTold
  BY <1>1, <1>2, <1>11 DEF Simple!FailureIsTold
<1>12. CASE Simple!ReleaseAnswers
  BY <1>2, <1>4, <1>12 DEF Simple!ReleaseAnswers
<1>13. ASSUME NEW job \in s.cancels, Simple!CancelAnswers(job) PROVE Is(s', "hash")
  <2>1. \E f, t : (t = s \/ t = Simple!Ended(s, job, "cancelled"))
                 /\ \/ s' = [t EXCEPT !.cancels = f]
                    \/ s' = [[t EXCEPT !.cancels = f] EXCEPT !.active = {}]
    BY <1>13 DEF Simple!CancelAnswers
  <2>2. PICK f, t : /\ t = s \/ t = Simple!Ended(s, job, "cancelled")
                    /\ \/ s' = [t EXCEPT !.cancels = f]
                       \/ s' = [[t EXCEPT !.cancels = f] EXCEPT !.active = {}]
    BY <2>1
  <2>3. Is(t, "hash")
    BY <1>2, <2>2
  <2> QED BY <2>2, <2>3 DEF Is
<1> QED BY <1>6, <1>7, <1>8, <1>9, <1>10, <1>11, <1>12, <1>13 DEF Simple!HashNext

\* The tasks stay the tasks.
LEMMA TasksIs == ASSUME Is(s, "tasks"), Simple!TasksNext PROVE Is(s', "tasks")
<1>1. CASE Simple!StartKeepAwake \/ Simple!StopKeepAwake \/ Simple!RetryRelease \/ Simple!PickTarget
           \/ Simple!StartWatch \/ Simple!CancelWatch
  BY <1>1 DEF Is, Simple!StartKeepAwake, Simple!StopKeepAwake, Simple!RetryRelease, Simple!PickTarget, Simple!StartWatch,
     Simple!CancelWatch, Simple!Act, Simple!Ask, Simple!Turn
<1>2. CASE Simple!LeaveTask \/ Simple!TaskEnds
  BY <1>2 DEF Is, Simple!LeaveTask, Simple!LeaveKeepAwake, Simple!TaskEnds, Simple!Ask, Simple!Turn
<1>3. CASE Simple!TaskAnswers
  BY <1>3 DEF Is, Simple!TaskAnswers, Simple!Ask
<1> QED BY <1>1, <1>2, <1>3 DEF Simple!TasksNext

-------------------------------------------------------------------------------
(* The pages together.                                                       *)

Tools == {"schedule", "occupancy", "hash", "tasks", "addresses"}
SimpleLate(t) == (t.of = "text" /\ TextGood(t)) \/ \E tool \in Tools : Is(t, tool)

\* The local tools, of which the text tools show late results.
LEMMA SimpleLateStarts == ASSUME Simple!Init PROVE SimpleLate(s)
<1>1. CASE Simple!TextInit
  BY <1>1, TextStarts DEF SimpleLate, Simple!TextInit
<1>2. CASE Simple!ScheduleInit
  BY <1>2 DEF SimpleLate, Tools, Is, Simple!ScheduleInit
<1>3. CASE Simple!OccupancyInit \/ Simple!HashInit \/ Simple!TasksInit \/ Simple!AddressesInit
  BY <1>3 DEF SimpleLate, Tools, Is, Simple!OccupancyInit, Simple!HashInit, Simple!TasksInit, Simple!AddressesInit
<1> QED BY <1>1, <1>2, <1>3 DEF Simple!Init

\* Another tool does not become a text tool.
LEMMA SimpleLateSteps == ASSUME SimpleLate(s), Simple!Next PROVE SimpleLate(s') /\ Simple!LateResultFits
<1>1. CASE s.of = "text"
  <2>1. TextGood(s)
    BY <1>1 DEF SimpleLate, Tools, Is
  <2>2. Simple!TextNext
    BY <1>1 DEF Simple!Next
  <2>3. TextGood(s') /\ Simple!LateResultFits
    BY <2>1, <2>2, TextSteps
  <2>4. s'.of = "text"
    BY <2>3 DEF TextGood
  <2> QED BY <2>3, <2>4 DEF SimpleLate
<1>2. CASE s.of # "text"
  <2>1. \E tool \in Tools : Is(s', tool)
    BY <1>2, ScheduleIs, OccupancyIs, HashIs, TasksIs, AddressesIs DEF Simple!Next, SimpleLate, Tools, Is
  <2> QED BY <1>2, <2>1 DEF SimpleLate, Simple!LateResultFits
<1> QED BY <1>1, <1>2

LateGood ==
  /\ focus = "folders" => FoldersGood(s)
  /\ focus = "simple" => SimpleLate(s)
  /\ focus = "engine" => EngineGood(s)
  /\ focus = "chat" => ChatGood(s)
  /\ focus = "update" => UpdateGood(s)

\* What a step of a page that takes an answer may not do.
LateStep ==
  /\ focus = "folders" => Folders!LandsWhereLastAsked
  /\ focus = "simple" => Simple!LateResultFits
  /\ focus = "engine" => Engine!EndsOnce
  /\ focus = "chat" => Chat!TypedIsKept
  /\ focus = "update" => Update!OfferedStep

\* Every page starts with what its invariant says.
LEMMA LateStart == Init => LateGood
BY FoldersStarts, SimpleLateStarts, EngineStarts, ChatBegin, UpdateStarts DEF Init, LateGood

\* A step of one page keeps its invariant, and takes no answer that does not fit.
LEMMA LateNext == LateGood /\ [Next]_vars => LateGood' /\ [LateStep]_vars
<1> SUFFICES ASSUME LateGood, [Next]_vars PROVE LateGood' /\ [LateStep]_vars
  OBVIOUS
<1>1. CASE UNCHANGED vars
  BY <1>1 DEF vars, LateGood
<1>2. ASSUME NEW page, On(page), page \notin {"folders", "simple", "engine", "chat", "update"}
      PROVE  LateGood' /\ LateStep
  BY <1>2 DEF On, LateGood, LateStep
<1>3. CASE On("folders") /\ Folders!Next
  BY <1>3, FoldersSteps DEF On, LateGood, LateStep
<1>4. CASE On("simple") /\ Simple!Next
  BY <1>4, SimpleLateSteps DEF On, LateGood, LateStep
<1>5. CASE On("engine") /\ Engine!Next
  BY <1>5, EngineSteps DEF On, LateGood, LateStep
<1>6. CASE On("chat") /\ Chat!Next
  BY <1>6, ChatSteps DEF On, LateGood, LateStep
<1>7. CASE On("update") /\ Update!Next
  BY <1>7, UpdateSteps DEF On, LateGood, LateStep
<1> QED BY <1>1, <1>2, <1>3, <1>4, <1>5, <1>6, <1>7 DEF Next

\* However late an answer comes and whatever was begun before it: a folder is shown
\* where the user last asked to go, a text tool publishes no result for inputs that
\* were edited and nothing from before a clear (that its run failed it may tell), an
\* assessment ends once, no release is offered that was put off, and a draft that is
\* being written is given up only in the cases TypedIsKept names.
THEOREM LateAnswersCorrect == Spec => LateAnswersFit
<1>1. Init => LateGood
  BY LateStart
<1>2. LateGood /\ [Next]_vars => LateGood' /\ [LateStep]_vars
  BY LateNext
<1>3. LateAnswersFit <=> [][LateStep]_vars
  BY DEF LateAnswersFit, LateStep
<1> QED BY <1>1, <1>2, <1>3, PTL DEF Spec
=============================================================================
