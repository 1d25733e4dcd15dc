------------------------------ MODULE Companion -------------------------------
(***************************************************************************)
(* The companion's window (RobinCompanionWindow.tsx), the menu-bar panel   *)
(* (TrayPanel.tsx), what the main window hears from both (App.tsx) and the *)
(* windows themselves (lib.rs, ai_chat_window.rs).  The companion grows    *)
(* under the pointer and for its menu, shrinks by itself, opens the chat   *)
(* and is shown and hidden from four places; showing it again interrupts   *)
(* its leaving.  Each window hears its messages in the order in which they *)
(* were sent, and commands are served in that order, but for the one that  *)
(* opens the chat, which is served when it may.                            *)
(***************************************************************************)
EXTENDS Naturals, Sequences, FiniteSets

CONSTANT MaxTurns \* bound on what the user does

VARIABLE s

\* Calls of the companion's page, and messages to it and to the main window.
Size(expanded, epoch) == [what |-> "size", on |-> expanded, epoch |-> epoch]
Plain(what) == [what |-> what, on |-> FALSE, epoch |-> 0]
Tell(what, on) == [what |-> what, on |-> on, epoch |-> 0]

\* The page: `ref` is whether it means to be expanded, `expanded` whether it is drawn so;
\* `awaits` are the clicks that wait for the window to have shrunk.  The windows: `big`,
\* `visible`, `exits` the leavings whose animation runs, `transition` the last of them, `chat`.
\* `want` is kept only to state a property: whether showing or hiding was asked for last.
Init ==
  \E visible \in BOOLEAN, incident \in BOOLEAN, professional \in BOOLEAN :
    s = [turns |-> 0, expanded |-> FALSE, ref |-> FALSE, epoch |-> 0, menu |-> FALSE, chatRef |-> FALSE,
         hover |-> FALSE, timer |-> FALSE, awaits |-> {}, calls |-> <<>>, toggles |-> 0, heard |-> <<>>,
         big |-> FALSE, visible |-> visible, pending |-> FALSE, exits |-> {}, transition |-> 0, chat |-> FALSE,
         toMain |-> <<>>, shownInMain |-> visible, view |-> "overview", story |-> FALSE, paused |-> FALSE,
         incident |-> incident, professional |-> professional, tray |-> FALSE, want |-> visible]

MayTurn == s.turns < MaxTurns
Turn(t) == [t EXCEPT !.turns = @ + 1]
Send(t, call) == [t EXCEPT !.calls = Append(@, call)]
ToPage(t, message) == [t EXCEPT !.heard = Append(@, message)]
ToMain(t, message) == [t EXCEPT !.toMain = Append(@, message)]

----------------------------------------------------------------------------
\* The companion's page.

\* The window is sized before the bubble is drawn, and the bubble is gone before it shrinks.
UpdateExpanded(t, next) ==
  IF t.ref = next THEN t
  ELSE Send([t EXCEPT !.epoch = @ + 1, !.ref = next, !.expanded = @ /\ next], Size(next, t.epoch + 1))

\* What follows once the window has shrunk: at once when it need not.
GoOn(t, what) == IF what = "chat" THEN [t EXCEPT !.toggles = @ + 1] ELSE Send(Send(t, Plain("main")), Plain("daily"))
Collapsed(t, what) ==
  IF t.ref THEN [UpdateExpanded(t, FALSE) EXCEPT !.awaits = @ \cup {[what |-> what, epoch |-> t.epoch + 1]}]
  ELSE GoOn(t, what)

MayPoint == MayTurn /\ s.visible
ExpandFromHover ==
  /\ MayPoint /\ ~s.hover
  /\ LET t == Turn([s EXCEPT !.hover = TRUE, !.timer = FALSE])
     IN s' = IF s.menu \/ s.chatRef THEN t ELSE UpdateExpanded(t, TRUE)
CollapseFromHover ==
  /\ s.hover
  /\ s' = [s EXCEPT !.hover = FALSE, !.timer = ~s.menu \/ s.timer]
HoverTimer ==
  /\ s.timer
  /\ LET t == [s EXCEPT !.timer = FALSE]
     IN s' = IF s.menu \/ s.hover THEN t ELSE UpdateExpanded(t, FALSE)

\* A click on the mascot opens or closes the chat; pressed and moved, it drags the window.
ToggleChat ==
  MayPoint /\ s' = Turn(Collapsed([s EXCEPT !.timer = FALSE, !.menu = FALSE], "chat"))
DragMascot == MayPoint /\ s' = Turn([s EXCEPT !.timer = FALSE, !.menu = FALSE])
OpenContextMenu ==
  /\ MayPoint
  /\ s' = Turn(UpdateExpanded(Send([s EXCEPT !.chatRef = FALSE, !.menu = TRUE], Plain("hideChat")), TRUE))
OpenMainWindow == MayPoint /\ s.menu /\ s' = Turn(Send([s EXCEPT !.menu = FALSE], Plain("main")))
HideFromContextMenu ==
  /\ MayPoint /\ s.menu
  /\ s' = Turn(Send([s EXCEPT !.menu = FALSE, !.ref = FALSE, !.expanded = FALSE], Plain("hide")))
OpenDaily == MayPoint /\ s.expanded /\ ~s.menu /\ s' = Turn(Collapsed([s EXCEPT !.menu = FALSE], "daily"))
OpenQuickClean ==
  MayPoint /\ s.expanded /\ ~s.menu /\ s' = Turn(Send(Send(s, Plain("quick")), Plain("main")))
Escape ==
  /\ MayPoint
  /\ s' = Turn(IF s.menu \/ s.ref THEN UpdateExpanded([s EXCEPT !.menu = FALSE], FALSE) ELSE Send(s, Plain("hide")))
FocusLost == MayPoint /\ s' = Turn(UpdateExpanded([s EXCEPT !.menu = FALSE], FALSE))

\* Messages to the page, in the order of their sending.
CollapseHeard(t) == [t EXCEPT !.menu = FALSE, !.ref = FALSE, !.expanded = FALSE]
ChatHeard(t, on) ==
  LET c == [t EXCEPT !.chatRef = on] IN IF on THEN UpdateExpanded(c, FALSE) ELSE c
SizeAnswers(t, m) ==
  LET a == [t EXCEPT !.expanded = @ \/ (t.epoch = m.epoch /\ m.on)]
      done == {w \in t.awaits : w.epoch = m.epoch}
      b == [a EXCEPT !.awaits = @ \ done]
  IN IF done = {} THEN b ELSE GoOn(b, (CHOOSE w \in done : TRUE).what)
Hear ==
  /\ s.heard # <<>>
  /\ LET m == Head(s.heard)
         t == [s EXCEPT !.heard = Tail(@)]
     IN s' = CASE m.what = "collapse" -> CollapseHeard(t)
               [] m.what = "chat" -> ChatHeard(t, m.on)
               [] m.what = "toggled" -> [t EXCEPT !.chatRef = m.on]
               [] m.what = "size" -> SizeAnswers(t, m)

----------------------------------------------------------------------------
\* The windows.

HideChat(t) == ToPage([t EXCEPT !.chat = FALSE], Tell("chat", FALSE))
CollapseCompanion(t) == ToPage([t EXCEPT !.big = FALSE], Plain("collapse"))
PublishVisibility(t) == ToMain(t, Tell("visible", t.visible))

ShowCompanion(t) ==
  LET a == [t EXCEPT !.transition = @ + 1, !.pending = FALSE, !.visible = TRUE, !.want = TRUE]
  IN PublishVisibility(IF ~t.visible \/ t.pending THEN CollapseCompanion(a) ELSE a)
HideCompanion(t) ==
  LET a == [HideChat(t) EXCEPT !.transition = @ + 1, !.want = FALSE]
  IN IF ~t.visible THEN PublishVisibility([a EXCEPT !.pending = FALSE])
     ELSE CollapseCompanion([a EXCEPT !.pending = TRUE, !.exits = @ \cup {a.transition}])

\* Fault: the window is hidden whatever happened since.
AnyTransition(t, exit) == TRUE

\* After its animation the window is hidden, unless it was shown or hidden anew since.
SameTransition(t, exit) == t.transition = exit
ExitEnds ==
  \E exit \in s.exits :
    LET t == [s EXCEPT !.exits = @ \ {exit}]
    IN s' = IF SameTransition(s, exit)
            THEN PublishVisibility([t EXCEPT !.visible = FALSE, !.pending = FALSE, !.hover = FALSE]) ELSE t

Serve ==
  /\ s.calls # <<>>
  /\ LET c == Head(s.calls)
         t == [s EXCEPT !.calls = Tail(@)]
     IN s' = CASE c.what = "size" -> ToPage([t EXCEPT !.big = c.on], c)
               [] c.what = "hideChat" -> HideChat(t)
               [] c.what = "hide" -> HideCompanion(t)
               [] c.what = "main" -> t
               [] c.what \in {"daily", "quick"} -> ToMain(t, c)
\* The chat is opened or closed; the page hears of it as an event and as the answer.
ChatShown(t) ==
  IF t.chat THEN ToPage(HideChat(t), Tell("toggled", FALSE))
  ELSE ToPage(ToPage([t EXCEPT !.chat = TRUE], Tell("chat", TRUE)), Tell("toggled", TRUE))
ServeToggle == s.toggles > 0 /\ s' = ChatShown([s EXCEPT !.toggles = @ - 1])
CloseChat == MayTurn /\ s.chat /\ s' = Turn(HideChat(s))

ToggleCompanion(t) == IF t.visible THEN HideCompanion(t) ELSE ShowCompanion(t)
ToggleFromMain == MayTurn /\ s' = Turn(ToggleCompanion(s))

\* A change of the companion's settings shows or hides it, whichever of the two changed.
ConfigureCompanion == MayTurn /\ \E show \in BOOLEAN : s' = Turn(IF show THEN ShowCompanion(s) ELSE HideCompanion(s))

----------------------------------------------------------------------------
\* The menu-bar panel: it leaves when it loses the focus, and the main window takes it.

TrayFocused == MayTurn /\ ~s.tray /\ s' = Turn([s EXCEPT !.tray = TRUE])
TrayLosesFocus == s.tray /\ s' = [s EXCEPT !.tray = FALSE]
TrayOpensView ==
  /\ MayTurn /\ s.tray
  /\ \E view \in {"overview", "cleanup", "settings"} :
       s' = Turn(ToMain([s EXCEPT !.tray = FALSE],
                        IF view = "overview" /\ s.incident THEN Plain("daily") ELSE Plain(view)))
TrayTogglesPaused == MayTurn /\ s.tray /\ s' = Turn(ToMain(s, Tell("paused", ~s.paused)))
TrayTogglesCompanion == MayTurn /\ s.tray /\ s' = Turn(ToggleCompanion([s EXCEPT !.tray = FALSE]))

\* The main window follows what it hears; a story it no longer has is not shown.
OpenDailyRequest(t) ==
  IF t.professional THEN [t EXCEPT !.view = "overview", !.story = FALSE]
  ELSE [t EXCEPT !.view = IF t.incident THEN "overview" ELSE "more", !.story = t.incident]
MainHears ==
  /\ s.toMain # <<>>
  /\ LET m == Head(s.toMain)
         t == [s EXCEPT !.toMain = Tail(@)]
     IN s' = CASE m.what = "visible" -> [t EXCEPT !.shownInMain = m.on]
               [] m.what = "paused" -> [t EXCEPT !.paused = m.on]
               [] m.what = "daily" -> OpenDailyRequest(t)
               [] m.what = "quick" -> [t EXCEPT !.view = "cleanup", !.story = FALSE]
               [] m.what \in {"overview", "cleanup", "settings"} -> [t EXCEPT !.view = m.what]
IncidentEnds == MayTurn /\ s.incident /\ s' = Turn([s EXCEPT !.incident = FALSE])

----------------------------------------------------------------------------
Operations == {"serve", "toggle", "hear", "exit", "timer", "main"}
AnswerOf(op) == CASE op = "serve" -> Serve
                  [] op = "toggle" -> ServeToggle
                  [] op = "hear" -> Hear
                  [] op = "exit" -> ExitEnds
                  [] op = "timer" -> HoverTimer
                  [] op = "main" -> MainHears

Next ==
  \/ ExpandFromHover \/ CollapseFromHover \/ ToggleChat \/ DragMascot \/ OpenContextMenu \/ OpenMainWindow
  \/ HideFromContextMenu \/ OpenDaily \/ OpenQuickClean \/ Escape \/ FocusLost \/ CloseChat
  \/ ToggleFromMain \/ ConfigureCompanion
  \/ TrayFocused \/ TrayLosesFocus \/ TrayOpensView \/ TrayTogglesPaused \/ TrayTogglesCompanion \/ IncidentEnds
  \/ \E op \in Operations : AnswerOf(op)

----------------------------------------------------------------------------
\* Properties.

Waiting == s.calls # <<>> \/ s.heard # <<>> \/ s.toggles > 0 \/ s.toMain # <<>> \/ s.exits # {} \/ s.awaits # {} \/ s.timer

\* When all is served and heard: the companion is there if showing it was asked for last, though
\* it may have been shown while it was leaving, and the main window's button says so.
ShownAsAsked ==
  ~Waiting => s.visible = s.want /\ s.shownInMain = s.visible

\* The page knows whether the chat is open, however it was opened or closed, so that hovering and
\* the menu stay out of its way: it never means to be expanded beside an open chat.
ChatIsKnown == ~Waiting => s.chatRef = s.chat /\ ~(s.chat /\ s.ref)
===============================================================================
