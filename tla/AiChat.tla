-------------------------------- MODULE AiChat --------------------------------
(***************************************************************************)
(* The chat in two windows (src/components/ai/AiAssistant.tsx) over the    *)
(* conversations of the service: drafts typed in a window and saved with   *)
(* the revision they were begun on, changes of the other window, windows   *)
(* led to another conversation, and sending, at once or after a review.    *)
(*                                                                         *)
(* A text is a number, every edit gives a new one and 0 is the empty text. *)
(* Calls that a window makes while it is busy and that nothing can happen  *)
(* between are answered at once; saves, loads, refreshes and starts are    *)
(* asked, served and answered.                                             *)
(***************************************************************************)
EXTENDS Naturals, FiniteSets

CONSTANT MaxTurns  \* bound of the model: edits and operations of the user

Windows == {"main", "robin"}
Conversations == {1, 2}

VARIABLE s

None == 0
Empty == 0
Nothing == [do |-> "nothing"]

----------------------------------------------------------------------------
(* The conversations of the service.                                       *)

Session(id) == s.ses[id]
Fresh(id) == [id |-> id, rev |-> 1, dr |-> 1, draft |-> Empty, alive |-> TRUE]

Notify(t) == [t EXCEPT !.win = [w \in Windows |-> [t.win[w] EXCEPT !.changed = TRUE]]]

\* A draft is saved on the revision it was begun on, and only on that.
SaveDraft(save, stored) == s.ses[save.id].alive /\ s.ses[save.id].dr = save.base /\ stored

----------------------------------------------------------------------------
(* A window.                                                               *)

Closed == [id |-> None, rev |-> 0, dr |-> 0, text |-> Empty]
Init ==
  \E second \in BOOLEAN :
  s = [ses |-> [i \in Conversations |-> [Fresh(i) EXCEPT !.alive = i = 1 \/ second]],
       win |-> [w \in Windows |->
                  [view |-> [id |-> 1, rev |-> 1, dr |-> 1, text |-> Empty], draft |-> Empty, dirty |-> FALSE, base |-> None,
                   conflict |-> FALSE, save |-> Nothing, load |-> Nothing, op |-> Nothing, prepared |-> Nothing,
                   refresh |-> {}, changed |-> FALSE, shown |-> {Empty}]],
       texts |-> 0, turns |-> MaxTurns, stored |-> {Empty}, active |-> FALSE, blind |-> FALSE]

ViewOf(snap) == [id |-> snap.id, rev |-> snap.rev, dr |-> snap.dr, text |-> snap.draft]

\* Fault: a text that is being written moves to the newest revision.
RebasedSession(w, snap, switch) ==
  LET seen == [w EXCEPT !.view = ViewOf(snap), !.base = IF @ = None THEN None ELSE snap.dr]
  IN IF ~switch /\ w.view.id # snap.id THEN w
     ELSE IF w.dirty /\ ~switch THEN seen
     ELSE [seen EXCEPT !.draft = snap.draft, !.dirty = FALSE, !.base = None, !.conflict = FALSE, !.shown = @ \cup {snap.draft}]

\* What a window shows when a conversation comes in; an older one of the same is left aside,
\* and a text that is being written stays with the revision it was begun on.
AdoptSession(w, snap, switch) ==
  LET older == snap.rev < w.view.rev \/ snap.dr < w.view.dr
      seen == [w EXCEPT !.view = ViewOf(snap)]
      taken == [seen EXCEPT !.draft = snap.draft, !.dirty = FALSE, !.base = None, !.conflict = FALSE,
                            !.shown = @ \cup {snap.draft}]
  IN IF switch THEN [taken EXCEPT !.prepared = Nothing, !.refresh = {}]
     ELSE IF w.view.id # snap.id \/ older THEN w
     ELSE IF w.dirty THEN seen ELSE taken

Forget(w) ==
  [w EXCEPT !.view = Closed, !.draft = Empty, !.dirty = FALSE, !.base = None, !.conflict = FALSE, !.prepared = Nothing]

\* The text begins on the revision the window shows.
ChangeDraft(w) ==
  /\ s.turns > 0 /\ s.win[w].view.id # None /\ s.win[w].op = Nothing
  /\ LET text == s.texts + 1
         win == s.win[w]
     IN s' = [s EXCEPT !.turns = @ - 1, !.texts = text,
                       !.win[w] = [win EXCEPT !.base = IF win.dirty THEN @ ELSE win.view.dr, !.draft = text, !.dirty = TRUE,
                                              !.prepared = Nothing, !.shown = @ \cup {text},
                                              !.load = IF @ = Nothing THEN @ ELSE [@ EXCEPT !.typed = @ \/ win.load.at = "served"]]]

----------------------------------------------------------------------------
(* Saving a draft.                                                         *)

CanFlush(win) == win.dirty /\ win.view.id # None /\ ~win.conflict
BeginSave(win) ==
  [win EXCEPT !.save = [do |-> "save", id |-> win.view.id, base |-> IF win.base = None THEN win.view.dr ELSE win.base,
                        text |-> win.draft, at |-> "asked", snap |-> Nothing]]

\* The timer of the draft, and the window being hidden, which does not wait for what keeps it busy.
AutoSave(w) ==
  /\ s.win[w].save = Nothing /\ s.win[w].op = Nothing /\ CanFlush(s.win[w])
  /\ s' = [s EXCEPT !.win[w] = BeginSave(@)]

Hide(w) ==
  /\ s.turns > 0 /\ s.win[w].save = Nothing /\ s.win[w].op # Nothing /\ CanFlush(s.win[w])
  /\ s' = [s EXCEPT !.turns = @ - 1, !.win[w] = BeginSave(@)]

SaveIsServed(w) ==
  /\ s.win[w].save # Nothing /\ s.win[w].save.at = "asked"
  /\ LET save == s.win[w].save
         id == save.id
         stale == s.ses[id].alive /\ s.ses[id].dr # save.base
         answered(t, how) == [t EXCEPT !.win[w].save = [save EXCEPT !.at = how, !.snap = t.ses[id]]]
     IN \E stored \in BOOLEAN :
          s' = IF SaveDraft(save, stored)
               THEN answered(Notify([s EXCEPT !.ses[id].dr = @ + 1, !.ses[id].draft = save.text, !.stored = @ \cup {save.text},
                                              !.blind = @ \/ s.ses[id].draft \notin s.win[w].shown]), "saved")
               ELSE answered(s, IF stale THEN "conflict" ELSE "failed")

\* Only the save of the window itself moves the revision its text is begun on.
SaveEnds(win) ==
  LET save == win.save
      snap == save.snap
      free == [win EXCEPT !.save = Nothing]
      done == [free EXCEPT !.dirty = win.draft # save.text, !.base = IF win.draft = save.text THEN None ELSE snap.dr]
      shown == AdoptSession(done, snap, FALSE)
      ahead == [id |-> shown.view.id, rev |-> shown.view.rev, dr |-> shown.view.dr, draft |-> shown.view.text]
      failed == [free EXCEPT !.conflict = @ \/ save.at = "conflict",
                             !.op = IF win.op # Nothing /\ win.op.at = "flush" /\ win.op.do # "delete" THEN Nothing ELSE @,
                             !.load = IF win.load # Nothing /\ win.load.at = "flush" THEN Nothing ELSE @]
  IN IF save.at # "saved" THEN failed
     ELSE IF win.view.id # save.id THEN free
     ELSE IF CanFlush(shown) THEN BeginSave(shown)
     ELSE IF ~shown.dirty /\ shown.view.dr > snap.dr THEN AdoptSession(shown, ahead, FALSE) ELSE shown

SaveIsAnswered(w) ==
  /\ s.win[w].save # Nothing /\ s.win[w].save.at # "asked"
  /\ s' = [s EXCEPT !.win[w] = SaveEnds(@)]

----------------------------------------------------------------------------
(* Changes of the other window.                                            *)

Refresh(w) ==
  /\ s.win[w].changed /\ s.win[w].view.id # None /\ s.win[w].refresh = {}
  /\ s' = [s EXCEPT !.win[w].changed = FALSE, !.win[w].refresh = @ \cup {Session(s.win[w].view.id)}]

RefreshArrives(w) ==
  \E snap \in s.win[w].refresh :
    LET win == [s.win[w] EXCEPT !.refresh = @ \ {snap}]
    IN s' = [s EXCEPT !.win[w] = IF win.view.id # snap.id THEN win
                                 ELSE IF snap.alive THEN AdoptSession(win, snap, FALSE) ELSE Forget(win)]

----------------------------------------------------------------------------
(* A window is led to a conversation, or to a new one with a prompt.       *)

\* Only the last one asked for is shown: what an opened conversation answers later is left aside.
Overtaken(op) == IF op # Nothing /\ op.do = "open" /\ op.at = "got" THEN [op EXCEPT !.snap.alive = FALSE] ELSE op

\* `typed` is kept only to state what an answer may drop: a text was typed after
\* the conversation was read and before it came.
Load(id, prompt) == [do |-> "load", at |-> "flush", id |-> id, prompt |-> prompt, snap |-> Nothing, typed |-> FALSE]

Lead(w, id) ==
  /\ s.turns > 0 /\ s.ses[id].alive /\ s.win[w].view.id # id
  /\ s' = [s EXCEPT !.turns = @ - 1, !.win[w].op = Overtaken(@),
                    !.win[w].load = Load(id, FALSE)]

LeadWithPrompt(w) ==
  /\ s.turns > 0 /\ ~s.ses[2].alive
  /\ \A v \in Windows : s.win[v].load = Nothing
  /\ s' = [s EXCEPT !.turns = @ - 1, !.win[w].op = Overtaken(@),
                    !.win[w].load = Load(2, TRUE)]

\* A step of what waits for the draft: the save it needs, or what it waits with.
Flushed(win) == win.save = Nothing /\ ~(win.dirty /\ win.view.id # None)

LoadSteps(w) ==
  LET win == s.win[w]
      load == win.load
  IN /\ load # Nothing
     /\ \/ load.at = "flush" /\ win.save = Nothing /\ ~Flushed(win)
           /\ s' = [s EXCEPT !.win[w] = IF win.conflict THEN [win EXCEPT !.load = Nothing] ELSE BeginSave(win)]
        \/ load.at = "flush" /\ Flushed(win)
           /\ s' = IF load.prompt /\ ~s.ses[2].alive
                   THEN Notify([s EXCEPT !.ses[2] = Fresh(2), !.win[w].load = [load EXCEPT !.at = "served", !.snap = Fresh(2)]])
                   ELSE [s EXCEPT !.win[w].load = [load EXCEPT !.at = "served", !.snap = Session(load.id)]]
        \/ load.at = "served"
           /\ LET taken == AdoptSession([win EXCEPT !.load = Nothing], load.snap, load.prompt \/ win.view.id # load.id)
                  text == s.texts + 1
              IN s' = IF ~load.snap.alive THEN [s EXCEPT !.win[w].load = Nothing]
                      ELSE IF load.prompt
                      THEN [s EXCEPT !.texts = text,
                                     !.win[w] = [taken EXCEPT !.draft = text, !.dirty = TRUE, !.base = load.snap.dr, !.shown = @ \cup {text}]]
                      ELSE [s EXCEPT !.win[w] = taken]

----------------------------------------------------------------------------
(* What makes a window busy.                                               *)

Perform(w, what) ==
  /\ s.turns > 0 /\ s.win[w].op = Nothing
  /\ s' = [s EXCEPT !.turns = @ - 1, !.win[w].op = what]

\* Send or review: the text, the conversation and its revision are those on the screen.
PrepareMessage(w, review) ==
  /\ s.win[w].view.id # None /\ s.win[w].draft # Empty /\ ~s.active /\ s.win[w].prepared = Nothing
  /\ Perform(w, [do |-> IF review THEN "review" ELSE "send", at |-> "flush", id |-> s.win[w].view.id, rev |-> s.win[w].view.rev])

StartPrepared(w) ==
  /\ s.win[w].prepared # Nothing /\ ~s.active /\ s.win[w].op = Nothing
  /\ s' = [s EXCEPT !.win[w].op = [do |-> "send", at |-> "start", prep |-> s.win[w].prepared]]

OpenSession(w, id) ==
  s.ses[id].alive /\ s.win[w].view.id # id /\ Perform(w, [do |-> "open", at |-> "flush", id |-> id])

ChangeScenario(w) == s.win[w].view.id # None /\ Perform(w, [do |-> "scenario", at |-> "flush"])
DeleteSession(w) == s.win[w].view.id # None /\ Perform(w, [do |-> "delete", at |-> "flush"])
KeepMyDraft(w) == s.win[w].conflict /\ Perform(w, [do |-> "keep", at |-> "get"])
UseSavedDraft(w) == s.win[w].conflict /\ Perform(w, [do |-> "saved", at |-> "get"])

EndOp(t, w) == [t EXCEPT !.win[w].op = Nothing]

SetSessionContext(t, w) ==
  LET id == t.win[w].view.id
      ses == [t.ses[id] EXCEPT !.rev = @ + 1]
      next == Notify([t EXCEPT !.ses[id] = ses])
  IN [next EXCEPT !.win[w] = AdoptSession(@, ses, FALSE)]

Current(t, w) == t.win[w].view.id # None /\ t.ses[t.win[w].view.id].alive /\ t.ses[t.win[w].view.id].rev = t.win[w].view.rev

\* The conversation is prepared as it is shown now, once its context is the one chosen.
Prepared(t, w) ==
  LET win == t.win[w]
      prep == [do |-> "prepared", id |-> win.view.id, rev |-> win.view.rev, text |-> win.draft]
  IN IF ~Current(t, w) \/ win.draft = Empty THEN EndOp(t, w)
     ELSE IF win.op.do = "review" THEN [EndOp(t, w) EXCEPT !.win[w].prepared = prep]
     ELSE [t EXCEPT !.win[w].op = [do |-> "send", at |-> "start", prep |-> prep]]

FlushedOp(w) ==
  LET win == s.win[w]
      op == win.op
      same == win.view.id = op.id /\ win.view.rev = op.rev
      read == [do |-> "open", at |-> "got", snap |-> Session(op.id)]
  IN CASE op.do \in {"send", "review"} /\ ~same -> {EndOp(s, w)}
       [] op.do \in {"send", "review"} /\ same ->
            {Prepared(s, w)} \cup {IF Current(s, w) THEN [s EXCEPT !.win[w].op.at = "context"] ELSE EndOp(s, w)}
       [] op.do = "open" -> {[s EXCEPT !.win[w].load = Nothing, !.win[w].op = read]}
       [] op.do = "scenario" -> {EndOp(IF Current(s, w) THEN SetSessionContext(s, w) ELSE s, w)}
       [] op.do = "keep" -> {EndOp(s, w)}

\* What waits with a draft goes on once it is saved, and is given up when it cannot be.
OpFlushes(w) ==
  LET win == s.win[w]
  IN /\ win.op # Nothing /\ win.op.at = "flush" /\ win.op.do # "delete" /\ win.save = Nothing
     /\ IF Flushed(win) THEN s' \in FlushedOp(w)
        ELSE s' = [s EXCEPT !.win[w] = IF win.conflict THEN [win EXCEPT !.op = Nothing] ELSE BeginSave(win)]

ContextIsSet(w) ==
  /\ s.win[w].op # Nothing /\ s.win[w].op.at = "context"
  /\ s' = IF Current(s, w) THEN Prepared(SetSessionContext(s, w), w) ELSE EndOp(s, w)

Get(w) ==
  /\ s.win[w].op # Nothing /\ s.win[w].op.at = "get"
  /\ s' = IF s.win[w].view.id = None THEN EndOp(s, w)
          ELSE [s EXCEPT !.win[w].op = [do |-> @.do, at |-> "got", snap |-> Session(s.win[w].view.id)]]

\* The user keeps the text over what is stored, or takes what is stored, or goes to a conversation.
GotIt(w) ==
  LET win == s.win[w]
      op == win.op
      kept == AdoptSession(win, op.snap, FALSE)
  IN /\ op # Nothing /\ op.at = "got"
     /\ s' = IF ~op.snap.alive THEN EndOp(s, w)
             ELSE IF op.do = "keep"
             THEN [s EXCEPT !.win[w] = [kept EXCEPT !.base = op.snap.dr, !.conflict = FALSE, !.shown = @ \cup {op.snap.draft},
                                                    !.op = [do |-> "keep", at |-> "flush"]]]
             ELSE EndOp([s EXCEPT !.win[w] = AdoptSession(win, op.snap, TRUE)], w)

\* No save goes on when a conversation is deleted, and none brings it back.
Deleted(w) ==
  LET id == s.win[w].view.id
  IN /\ s.win[w].op # Nothing /\ s.win[w].op.do = "delete" /\ s.win[w].save = Nothing
     /\ s' = IF id = None THEN EndOp(s, w)
             ELSE EndOp(Notify([s EXCEPT !.ses[id].alive = FALSE, !.win[w] = [Forget(@) EXCEPT !.load = Nothing]]), w)

----------------------------------------------------------------------------
(* A run begins with what was prepared, and takes the draft with it.       *)

Start(w) ==
  LET prep == s.win[w].op.prep
      ses == s.ses[prep.id]
  IN /\ s.win[w].op # Nothing /\ s.win[w].op.at = "start"
     /\ s' = IF ~s.active /\ ses.alive /\ ses.rev = prep.rev
             THEN Notify([s EXCEPT !.ses[prep.id] = [ses EXCEPT !.rev = @ + 1, !.dr = @ + 1, !.draft = Empty],
                                   !.active = TRUE, !.win[w].op.at = "started"])
             ELSE EndOp(s, w)

Started(w) ==
  /\ s.win[w].op # Nothing /\ s.win[w].op.at = "started"
  /\ LET win == [s.win[w] EXCEPT !.prepared = Nothing, !.dirty = FALSE, !.base = None, !.conflict = FALSE, !.draft = Empty,
                                 !.refresh = {}, !.op = Nothing]
     IN s' = [s EXCEPT !.win[w] = IF win.view.id = None THEN win
                                  ELSE IF ~s.ses[win.view.id].alive THEN Forget(win)
                                  ELSE AdoptSession(win, Session(win.view.id), FALSE)]

RunEnds == s.active /\ s' = [s EXCEPT !.active = FALSE]

----------------------------------------------------------------------------
\* What a window does by itself, besides its saves.
GoesOn(w) ==
  \/ Refresh(w) \/ RefreshArrives(w) \/ LoadSteps(w) \/ OpFlushes(w) \/ ContextIsSet(w) \/ Get(w) \/ GotIt(w)
  \/ Deleted(w) \/ Start(w) \/ Started(w)

Operations == Windows \X {"save", "answer", "page"}
AnswerOf(op) ==
  CASE op[2] = "save" -> SaveIsServed(op[1])
    [] op[2] = "answer" -> SaveIsAnswered(op[1])
    [] op[2] = "page" -> GoesOn(op[1])

Next ==
  \/ \E w \in Windows :
       \/ ChangeDraft(w) \/ AutoSave(w) \/ Hide(w) \/ SaveIsServed(w) \/ SaveIsAnswered(w) \/ Refresh(w) \/ RefreshArrives(w)
       \/ \E id \in Conversations : Lead(w, id) \/ OpenSession(w, id)
       \/ LeadWithPrompt(w) \/ LoadSteps(w)
       \/ \E review \in BOOLEAN : PrepareMessage(w, review)
       \/ StartPrepared(w) \/ ChangeScenario(w) \/ DeleteSession(w) \/ KeepMyDraft(w) \/ UseSavedDraft(w)
       \/ OpFlushes(w) \/ ContextIsSet(w) \/ Get(w) \/ GotIt(w) \/ Deleted(w) \/ Start(w) \/ Started(w)
  \/ RunEnds

Waiting == \E w \in Windows : s.win[w].op # Nothing \/ s.win[w].load # Nothing

----------------------------------------------------------------------------
\* A save never replaces a stored text that its window has not shown, unless the user
\* chose to keep the own one over it.
NothingIsReplacedUnseen == ~s.blind

\* A text that is being written is given up by no step but an edit unless it is
\* stored, the user takes the stored one or deletes the conversation, or the window
\* finds the conversation deleted by the other; a window that was led to another
\* conversation, or to a new prompt, drops what was typed after that one was read and
\* before it came; and the end of a sending empties the draft, a prompt that was
\* brought meanwhile included.
TypedIsKept ==
  \A w \in Windows :
    LET win == s.win[w]
    IN (win.dirty /\ s'.turns = s.turns /\ (~s'.win[w].dirty \/ s'.win[w].draft # win.draft)) =>
         \/ win.draft \in s'.stored
         \/ s'.win[w].view.id = None
         \/ win.load # Nothing /\ win.load.typed /\ s'.win[w].load = Nothing
         \/ win.op # Nothing /\ (win.op.do \in {"saved", "delete"} \/ win.op.at = "started")

=============================================================================
