---------------------------- MODULE CleanupView ----------------------------
(***************************************************************************)
(* Moving about in the cleanup map (src/components/CleanupSpaceMap.tsx):   *)
(* the folders loaded below the shallow tree of the snapshot, the focus,   *)
(* its history, the commands that lead to a place, and the list of the     *)
(* focused folder.  The basket and the deletion are in CleanupMap.  The    *)
(* chart of the focus (src/cleanupMap.ts) has a state of its own.          *)
(***************************************************************************)
EXTENDS Integers, SequencesExt

CONSTANTS
  MaxTurns,  \* bound of the model: what the user and the scan do
  MaxArcs    \* bound of the model: the most arcs a chart may have, 640 in the code

VARIABLE s

\* A snapshot shows the root and the folder "a"; "b" is among the folders it
\* shows of "a" once "a" is loaded, "p" lies beyond them and is found in the list.
Folders == {"a", "b", "p"}
Above == [n \in {"a", "b", "p", "loc"} |->
            IF n \in {"b", "p"} THEN "a" ELSE IF n = "a" THEN "root" ELSE "category"]

NoPlace == "none"
NoKey == <<>>
ClosedList == [timer |-> FALSE, loading |-> FALSE, more |-> FALSE, items |-> {}, result |-> NoKey,
               cursor |-> FALSE, error |-> FALSE, calls |-> {}]

\* The category view shows the locations and what lies in them.
RootOf(t) == IF t.mode = "path" THEN "root" ELSE t.scope
MaterializeCleanupNode(t) ==
  {RootOf(t), "a"} \cup (IF t.mode = "path" THEN {} ELSE {"loc"}) \cup (IF "a" \in t.loaded THEN {"b"} ELSE {})
IndexTree(t) == MaterializeCleanupNode(t) \cup t.paged

Focus(t) == IF t.focus \in IndexTree(t) THEN t.focus ELSE RootOf(t)
ParentIn(t, n) ==
  IF n = "a" /\ t.mode = "category" THEN "loc" ELSE IF n = "loc" THEN RootOf(t) ELSE Above[n]

\* The folders from a node up to the root, as far as the tree knows them.
Ancestry(t, n) ==
  IF n \notin Folders THEN {}
  ELSE IF n \in IndexTree(t) /\ n # "a" THEN {n, "a"} ELSE {n}

Visible(t) == ~t.partial \/ t.asList
ListRequestKey(t) == <<t.scan, t.sample, Focus(t), t.query>>
Local(t) == Focus(t) \notin Folders /\ (t.mode = "category" \/ ~t.indexed)
ListPending(t) == t.list.loading \/ t.list.result # ListRequestKey(t)

MayTurn == s.turns > 0
Turn == [s EXCEPT !.turns = @ - 1]

Supersede(calls) == {[c EXCEPT !.live = FALSE] : c \in calls}

\* What is shown of the focus changed: the list starts over after a pause, and
\* neither a page nor a first answer still under way is taken any more.
Relist(t) == [t EXCEPT !.list.timer = TRUE, !.list.loading = TRUE, !.list.more = FALSE,
                       !.list.error = FALSE, !.list.calls = Supersede(@)]
List(u) ==
  IF Visible(u) /\ (~Visible(s) \/ ListRequestKey(u) # ListRequestKey(s)) THEN Relist(u)
  ELSE IF Visible(s) /\ ~Visible(u) THEN [u EXCEPT !.list.timer = FALSE, !.list.calls = Supersede(@)]
  ELSE u

\* Another tree stops the reload that waits for the refreshed folder.
Tree(u) == IF IndexTree(u) # IndexTree(s) \/ u.sample # s.sample THEN [u EXCEPT !.refresh = {}] ELSE u
To(u) == s' = List(Tree(u))

----------------------------------------------------------------------------
(* The snapshot.                                                           *)

Dropped(t) == [t EXCEPT !.drills = Supersede(@)]

\* A later sample of the same scan: pages are forgotten, and of the folders
\* loaded those above the focus are read again.
Resampled ==
  LET ids == Ancestry(s, s.focus) \cap s.loaded
  IN [Dropped(Turn) EXCEPT !.sample = @ + 1, !.paged = {}, !.reload = IF s.indexed /\ ids # {} THEN {ids} ELSE {}]
CheckpointArrives == MayTurn /\ To(Resampled)

\* The view another mode or scope shows starts at its root, or where a command led.
Reset(t) ==
  LET place == IF t.requested = NoPlace THEN RootOf(t) ELSE t.requested
  IN [Dropped(t) EXCEPT !.requested = NoPlace, !.focus = place, !.selected = place, !.history = <<>>,
                        !.details = FALSE, !.error = FALSE]
ModeOf(t) == IF t.partial THEN "path" ELSE t.preferred
Switched(t) ==
  LET u == [t EXCEPT !.mode = ModeOf(t)]
  IN IF RootOf(u) # RootOf(s) THEN [Reset(u) EXCEPT !.asked = Reset(u).focus] ELSE u

\* A preview becomes the result: what was preferred of the view comes back.
ScanCompletes ==
  /\ MayTurn /\ s.partial
  /\ To(Switched([Resampled EXCEPT !.partial = FALSE, !.asList = FALSE]))

\* Another scan: the map starts over.  The reload of folders of the last scan is
\* refused by the index.
FollowAnotherScan ==
  /\ MayTurn /\ s.scan = 0
  /\ \E indexed \in BOOLEAN :
       To([Dropped(Turn) EXCEPT !.scan = 1, !.sample = @ + 1, !.partial = TRUE, !.indexed = indexed,
             !.loaded = {}, !.paged = {}, !.preferred = "path", !.mode = "path", !.details = FALSE,
             !.history = <<>>, !.focus = "root", !.selected = "root", !.requested = NoPlace,
             !.asked = "root", !.error = FALSE, !.reload = {}, !.asList = FALSE,
             !.list = [@ EXCEPT !.items = {}, !.cursor = FALSE, !.error = FALSE]])

AncestryIsRead(ids) ==
  /\ ids \in s.reload
  /\ \E read \in BOOLEAN : To([s EXCEPT !.reload = {}, !.loaded = IF read THEN ids ELSE @])

----------------------------------------------------------------------------
(* The refresh of the focused folder.                                      *)

RefreshableFocus == ~s.partial /\ s.indexed /\ Focus(s) \in Folders

RefreshFocusedFolder ==
  /\ MayTurn /\ RefreshableFocus /\ s.refreshing = NoPlace
  /\ s' = [Turn EXCEPT !.refreshing = Focus(s), !.error = FALSE]

\* The native refresh completed: the folder and those above it are read, and
\* the snapshot that follows is a checkpoint.
RefreshCompletes ==
  /\ s.refreshing # NoPlace
  /\ s' = [s EXCEPT !.refreshing = NoPlace, !.refresh = {Ancestry(s, s.refreshing)}]

RefreshedIsRead(ids) ==
  /\ ids \in s.refresh
  /\ \E read \in BOOLEAN :
       To([s EXCEPT !.refresh = {}, !.loaded = IF read THEN ids ELSE @, !.error = IF read THEN @ ELSE TRUE])

----------------------------------------------------------------------------
(* Navigation.                                                             *)

SetMode(mode) ==
  /\ MayTurn /\ (mode = "category" => ~s.partial)
  /\ To(Switched([Turn EXCEPT !.preferred = mode, !.scope = IF mode = "category" THEN "category" ELSE @]))

ShowAllCategories ==
  /\ MayTurn /\ s.mode = "category" /\ s.scope = "reclaimable"
  /\ To(Switched([Turn EXCEPT !.scope = "category"]))

\* A command of the page.  It may come while a preview holds the map to paths.
\* When the view shows the locations already, a folder still read is entered later.
FocusLocation ==
  /\ MayTurn
  /\ To(Switched([Turn EXCEPT !.requested = "loc", !.scope = "category", !.preferred = "category",
                              !.focus = "loc", !.selected = "loc"]))

ShowReclaimable ==
  /\ MayTurn
  /\ To(Switched([Turn EXCEPT !.requested = "reclaimable", !.scope = "reclaimable", !.preferred = "category",
                              !.asList = FALSE]))

LastHistory == 2  \* 64 in the code
NavigateTo(t, n) ==
  LET here == [Dropped(t) EXCEPT !.error = FALSE, !.details = FALSE, !.asked = n, !.selected = n]
  IN IF n = Focus(t) THEN here
     ELSE [here EXCEPT !.history = Append(IF Len(@) < LastHistory THEN @ ELSE Tail(@), Focus(t)),
                       !.query = FALSE, !.focus = n]

\* The breadcrumbs, the center of the chart and the arrow above lead to a node of the tree.
NavigateUp ==
  /\ MayTurn /\ Focus(s) # RootOf(s)
  /\ \E n \in {ParentIn(s, Focus(s)), RootOf(s)} : To(NavigateTo(Turn, n))

\* Back to the last place that is still known.
Known(t) == {i \in DOMAIN t.history : t.history[i] \in IndexTree(t)}
NavigateBack ==
  /\ MayTurn /\ s.history # <<>>
  /\ LET known == Known(s)
         last == CHOOSE i \in known : \A j \in known : j <= i
     IN IF known = {} THEN To([Dropped(Turn) EXCEPT !.history = <<>>])
        ELSE To([Dropped(Turn) EXCEPT !.history = SubSeq(@, 1, last - 1), !.error = FALSE, !.query = FALSE,
                                      !.focus = s.history[last], !.selected = s.history[last],
                                      !.asked = s.history[last]])

\* What can be entered from the focus: the folders shown and those listed.
Listed == {n \in Folders : \E key \in s.list.items : Above[n] = key[3]}
Enterable == {n \in {"a", "b", "p", "loc"} : ParentIn(s, n) = Focus(s) /\ n \in IndexTree(s) \cup Listed}

Paged(t, n) == IF n \in IndexTree(t) THEN t ELSE [t EXCEPT !.paged = @ \cup {n}]

\* A folder with its children at hand is entered at once; one of the index is read first.
DrillInto(n) ==
  /\ MayTurn /\ ~s.details /\ n \in Enterable
  /\ IF n \in s.loaded \/ n = "loc" THEN To(NavigateTo(Paged(Turn, n), n))
     ELSE IF ~s.indexed THEN s' = [Turn EXCEPT !.error = FALSE, !.selected = n]
     ELSE s' = [Dropped(Turn) EXCEPT !.error = FALSE, !.selected = n, !.asked = n,
                  !.drills = @ \cup {[node |-> n, from |-> Focus(s), live |-> TRUE, op |-> "read"]}]

AnyAnswer(c) == TRUE  \* Fault: an answer is taken whatever was asked since.
\* An answer counts while nothing else was asked of the map, or of its list.
Counts(c) == c.live

Without(t, c) == [t EXCEPT !.drills = @ \ {c}]

\* The folder is kept, attached below the place it was entered from when the
\* tree does not show it, and entered.
Entered(t, c) ==
  LET kept == [t EXCEPT !.loaded = @ \cup {c.node}]
  IN NavigateTo(IF c.node \in IndexTree(t) THEN kept ELSE [kept EXCEPT !.paged = @ \cup {c.node}], c.node)

\* An index that lost the folder makes the page read the latest snapshot first.
DrillAnswers(c) ==
  /\ c \in s.drills /\ c.op = "read"
  /\ IF ~Counts(c) THEN s' = Without(s, c)
     ELSE \/ LET asked == s.asked IN To([Entered(Without(s, c), c) EXCEPT !.asked = asked])
          \/ s' = [Without(s, c) EXCEPT !.error = TRUE]
          \/ s' = [Without(s, c) EXCEPT !.drills = @ \cup {[c EXCEPT !.op = "latest"]}]

\* Another scan found instead needs no error.
LatestIsRead(c) ==
  /\ c \in s.drills /\ c.op = "latest"
  /\ \E another \in BOOLEAN :
       s' = [Without(s, c) EXCEPT !.error = IF c.live /\ ~another THEN TRUE ELSE @]

----------------------------------------------------------------------------
(* The details and the list.                                               *)

\* What is pointed at is selected unless its details are open.
SelectMapNode(n) ==
  MayTurn /\ ~s.details /\ n \in IndexTree(s) \ {s.selected} /\ s' = [Turn EXCEPT !.selected = n]

SetDetailsOpen == MayTurn /\ s' = [Turn EXCEPT !.details = ~@]

SetPresentation ==
  /\ MayTurn /\ s.partial
  /\ To([Turn EXCEPT !.asList = ~@, !.query = IF s.asList THEN FALSE ELSE @])

\* Searching a map that is still scanned shows the list.
SetListQuery == MayTurn /\ To([Turn EXCEPT !.query = ~@, !.asList = IF s.partial THEN TRUE ELSE @])

\* The list after its pause: filtered here, or asked of the index.
ListTimer ==
  /\ s.list.timer
  /\ s' = IF Local(s)
          THEN [s EXCEPT !.list = [@ EXCEPT !.timer = FALSE, !.items = {ListRequestKey(s)}, !.cursor = FALSE,
                                            !.result = ListRequestKey(s), !.loading = FALSE]]
          ELSE [s EXCEPT !.list.timer = FALSE,
                         !.list.calls = @ \cup {[key |-> ListRequestKey(s), live |-> TRUE, op |-> "first"]}]

\* Items are written as the key they were asked with.
ListAnswers(c) ==
  /\ c \in s.list.calls /\ c.op = "first"
  /\ IF ~Counts(c) THEN s' = [s EXCEPT !.list.calls = @ \ {c}]
     ELSE \E read, cursor \in BOOLEAN :
            s' = [s EXCEPT !.list = [@ EXCEPT !.calls = @ \ {c}, !.loading = FALSE, !.result = c.key,
                                       !.items = IF read THEN {c.key} ELSE {},
                                       !.cursor = read /\ cursor, !.error = ~read]]

RetryList == MayTurn /\ Visible(s) /\ s.list.error /\ s.list.items = {} /\ s' = Relist(Turn)

LoadMoreListItems ==
  /\ MayTurn /\ Visible(s) /\ s.list.cursor /\ ~ListPending(s) /\ ~s.list.more
  /\ s' = [Turn EXCEPT !.list.more = TRUE, !.list.error = FALSE,
                       !.list.calls = @ \cup {[key |-> ListRequestKey(s), live |-> TRUE, op |-> "more"]}]

MoreAnswers(c) ==
  /\ c \in s.list.calls /\ c.op = "more"
  /\ IF ~Counts(c) THEN s' = [s EXCEPT !.list.calls = @ \ {c}]
     ELSE \E read \in BOOLEAN :
            s' = [s EXCEPT !.list = [@ EXCEPT !.calls = @ \ {c}, !.more = FALSE, !.error = ~read,
                                       !.items = IF read THEN @ \cup {c.key} ELSE @,
                                       !.cursor = IF read THEN FALSE ELSE @]]

----------------------------------------------------------------------------
(* The chart of the focused folder: rings of arcs, one ring for each level *)
(* below it.  A circle of 3600 steps stands for the angles.                *)

Circle == 3600
MinVisible == 500
MaxDepth == 2  \* 5 in the code

ChartNode(kind, size, children) == [kind |-> kind, size |-> size, children |-> children]
File(size) == ChartNode("file", size, <<>>)
Restricted == ChartNode("restricted", 0, <<>>)

\* A folder may be larger than what is known of it, or smaller while it grows.
Shapes ==
  {File(1), File(4), Restricted, ChartNode("folder", 0, <<>>), ChartNode("folder", 4, <<File(1), File(4)>>),
   ChartNode("folder", 6, <<Restricted, File(1), File(2)>>), ChartNode("folder", 2, <<File(4), File(1), File(1)>>)}
FocusShapes == {ChartNode("folder", size, kids) : size \in {0, 15}, kids \in SeqOf(Shapes, 3) \ {<<>>}}

SizeOf(nodes) == FoldSeq(LAMBDA n, sum : n.size + sum, 0, nodes)
Largest(a, b) == IF a > b THEN a ELSE b
Smallest(a, b) == IF a < b THEN a ELSE b

WithArc(parent) ==
  SortSeq(SelectSeq(parent.children, LAMBDA n : n.kind # "restricted" /\ n.size > 0), LAMBDA m, n : m.size > n.size)

\* Each child in proportion, from the start of the folder's own arc on.
Candidates(request) ==
  LET children == WithArc(request.node)
      whole == Largest(request.node.size, SizeOf(children))
      Angle(i) == request.start + ((request.end - request.start) * SizeOf(SubSeq(children, 1, i))) \div whole
  IN [i \in DOMAIN children |->
        [node |-> children[i], depth |-> request.depth, start |-> Angle(i - 1), end |-> Angle(i)]]

VisualAggregate(hidden) ==
  [node |-> ChartNode("aggregate", SizeOf([i \in DOMAIN hidden |-> hidden[i].node]), <<>>), depth |-> hidden[1].depth,
   start |-> hidden[1].start, end |-> hidden[Len(hidden)].end]

\* Narrow marks at the end of the folder's arc.
Markers(request) ==
  LET span == Smallest((request.end - request.start) \div 40, 8)
      End(i) == request.end - ((i - 1) * span * 27) \div 20
      restricted == SelectSeq(request.node.children, LAMBDA n : n.kind = "restricted")
  IN [i \in DOMAIN restricted |->
        [node |-> restricted[i], depth |-> request.depth, start |-> Largest(request.start, End(i) - span), end |-> End(i)]]

FirstTiny(arcs) ==
  IF \E i \in DOMAIN arcs : arcs[i].end - arcs[i].start < MinVisible
  THEN CHOOSE i \in DOMAIN arcs : /\ arcs[i].end - arcs[i].start < MinVisible
                                  /\ \A j \in 1..(i - 1) : arcs[j].end - arcs[j].start >= MinVisible
  ELSE Len(arcs) + 1

VisibleInFull(limit, room, all) == limit  \* Fault: the last place is not left to the aggregate.
VisibleReal(limit, room, all) == IF limit < all /\ limit = room THEN limit - 1 ELSE limit

FirstOf(arcs, n) == SubSeq(arcs, 1, Smallest(n, Len(arcs)))

\* The arcs of one folder after those drawn so far: the largest children, the
\* rest as one, and then the marks of what may not be read, while there is room.
LayoutChildren(acc, request, most) ==
  LET candidates == Candidates(request)
      room == most - Len(acc.arcs)
      limit == Smallest(FirstTiny(candidates) - 1, room)
      shown == VisibleReal(limit, room, Len(candidates))
      hidden == SubSeq(candidates, shown + 1, Len(candidates))
      drawn == acc.arcs \o SubSeq(candidates, 1, shown)
      summed == IF hidden # <<>> /\ Len(drawn) < most THEN Append(drawn, VisualAggregate(hidden)) ELSE drawn
      below == SelectSeq(SubSeq(candidates, 1, shown), LAMBDA arc : arc.node.children # <<>>)
      requests == [i \in DOMAIN below |-> [below[i] EXCEPT !.depth = @ + 1]]
  IN IF room = 0 THEN acc
     ELSE [arcs |-> summed \o FirstOf(Markers(request), most - Len(summed)),
           queue |-> acc.queue \o (IF request.depth < MaxDepth THEN requests ELSE <<>>)]

\* The requests of a level are all served before those of the next.
LayoutCleanupMap(root, most) ==
  LET level[d \in 0..MaxDepth] ==
        IF d = 0 THEN [arcs |-> <<>>, queue |-> <<[node |-> root, depth |-> 1, start |-> 0, end |-> Circle]>>]
        ELSE FoldLeft(LAMBDA acc, request : LayoutChildren(acc, request, most),
                      [level[d - 1] EXCEPT !.queue = <<>>], level[d - 1].queue)
  IN level[MaxDepth].arcs

\* The arc drawn last of those under a point of a ring, 0 for none; a mark
\* takes only the rim of the ring.
HitTestCleanupMap(arcs, depth, rim, angle) ==
  LET under == {i \in DOMAIN arcs : /\ arcs[i].depth = depth /\ angle \in arcs[i].start..arcs[i].end
                                    /\ arcs[i].node.kind = "restricted" => rim}
  IN IF under = {} THEN 0 ELSE CHOOSE i \in under : \A j \in under : j <= i

Drawn(root, most) == [part |-> "chart", root |-> root, most |-> most, arcs |-> LayoutCleanupMap(root, most)]

DrawChart == \E root \in FocusShapes, most \in 1..MaxArcs : s = Drawn(root, most)

\* A point on the chart leads into the folder drawn there.
EnterArc ==
  \E depth \in 1..MaxDepth, angle \in {(Circle \div 8) * k : k \in 1..7} :
    LET hit == HitTestCleanupMap(s.arcs, depth, TRUE, angle)
    IN /\ hit # 0 /\ s.arcs[hit].node.kind = "folder" /\ s.arcs[hit].node.children # <<>>
       /\ s' = Drawn(s.arcs[hit].node, s.most)

----------------------------------------------------------------------------
OpenMap ==
  \E partial \in BOOLEAN :
    s = [part |-> "browse", scan |-> 0, sample |-> 0, partial |-> partial, indexed |-> TRUE, preferred |-> "path", mode |-> "path",
         scope |-> "category", requested |-> NoPlace, focus |-> "root", selected |-> "root", asked |-> "root",
         history |-> <<>>, details |-> FALSE, error |-> FALSE, loaded |-> {}, paged |-> {}, drills |-> {},
         reload |-> {}, refreshing |-> NoPlace, refresh |-> {}, asList |-> FALSE, query |-> FALSE,
         list |-> [ClosedList EXCEPT !.timer = ~partial, !.loading = ~partial], turns |-> MaxTurns]

Init == OpenMap \/ DrawChart

Operations == {"drill", "latest", "list", "more", "timer", "reload", "refresh"}
Answers(op) ==
  CASE op = "drill" -> \E c \in s.drills : DrillAnswers(c)
    [] op = "latest" -> \E c \in s.drills : LatestIsRead(c)
    [] op = "list" -> \E c \in s.list.calls : ListAnswers(c)
    [] op = "more" -> \E c \in s.list.calls : MoreAnswers(c)
    [] op = "timer" -> ListTimer
    [] op = "reload" -> \E ids \in s.reload : AncestryIsRead(ids)
    [] op = "refresh" -> \/ RefreshCompletes
                         \/ \E ids \in s.refresh : RefreshedIsRead(ids)
AnswerOf(op) == s.part = "browse" /\ Answers(op)

Browsing ==
  \/ CheckpointArrives \/ ScanCompletes \/ FollowAnotherScan
  \/ RefreshFocusedFolder
  \/ \E mode \in {"path", "category"} : SetMode(mode)
  \/ ShowAllCategories \/ FocusLocation \/ ShowReclaimable
  \/ NavigateUp \/ NavigateBack
  \/ \E n \in Folders \cup {"loc"} : DrillInto(n)
  \/ \E n \in Folders : SelectMapNode(n)
  \/ SetDetailsOpen \/ SetPresentation \/ SetListQuery \/ RetryList \/ LoadMoreListItems
  \/ \E op \in Operations : Answers(op)

Next ==
  \/ s.part = "browse" /\ Browsing
  \/ s.part = "chart" /\ EnterArc

----------------------------------------------------------------------------
(* Properties.                                                             *)

\* An answer moves the map only to the folder asked for in it last: whoever went
\* back, up, to another view or another folder while one was read stays there.
LandsWhereLastAsked == s.part = "browse" /\ s'.turns = s.turns /\ s'.focus # s.focus => s'.focus = s.asked

\* The items of a list that is not marked as loading, its later pages included,
\* are those of the folder, the sample and the search it is shown for.
ListIsOfTheFocus ==
  s.part = "browse" /\ Visible(s) /\ ~ListPending(s) => s.list.items \subseteq {ListRequestKey(s)}

\* Something is awaited by the map or its list.
Waiting ==
  /\ s.part = "browse"
  /\ s.list.timer \/ (Visible(s) /\ s.list.more) \/ s.refreshing # NoPlace \/ \E c \in s.drills : c.live

\* A chart never has more arcs than it may, and leaves nothing out: what a
\* folder holds is drawn, one by one or summed, as long as there is room for
\* its arcs; those of a ring do not overlap, each lies within that of its
\* folder, and a point in the middle of one leads to it.
ChartIsWhole ==
  s.part = "chart" =>
    LET Real(depth) == {i \in DOMAIN s.arcs : s.arcs[i].depth = depth /\ s.arcs[i].node.kind # "restricted"}
        Within(i, arc) == s.arcs[i].start >= arc.start /\ s.arcs[i].end <= arc.end
        Total(drawn) == FoldSet(LAMBDA i, sum : s.arcs[i].node.size + sum, 0, drawn)
    IN /\ Len(s.arcs) <= s.most
       /\ Total(Real(1)) = SizeOf(WithArc(s.root))
       /\ \A i \in Real(1) :
            \/ Len(s.arcs) = s.most
            \/ Total({j \in Real(2) : Within(j, s.arcs[i])}) = SizeOf(WithArc(s.arcs[i].node))
       /\ \A i \in Real(2) : \E j \in Real(1) : s.arcs[j].node.kind = "folder" /\ Within(i, s.arcs[j])
       /\ \A depth \in 1..MaxDepth : \A i \in Real(depth) :
            /\ \A j \in Real(depth) \ {i} : s.arcs[i].end <= s.arcs[j].start \/ s.arcs[j].end <= s.arcs[i].start
            /\ HitTestCleanupMap(s.arcs, depth, FALSE, (s.arcs[i].start + s.arcs[i].end) \div 2) = i
=============================================================================
