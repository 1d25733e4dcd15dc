-------------------------- MODULE KeyboardCleaning --------------------------
(***************************************************************************)
(* Cleaning the keyboard: the page with its machine (keyboardCleaning.ts,  *)
(* KeyboardCleaningTool.tsx), the adapter that owns the helper process     *)
(* (keyboard_cleaning_adapter.rs, the commands and window events of        *)
(* lib.rs) and the helper that drops the keys (helper_runtime.rs).  A unit *)
(* of time is a second; what the page asks of the adapter and the helper   *)
(* reads takes less, what the helper says may take longer.                 *)
(***************************************************************************)
EXTENDS Integers, Sequences

CONSTANTS
  Prep,        \* seconds before the cleaning begins
  Grace,       \* seconds either side waits for the other's heartbeat
  Dur,         \* seconds the user chose
  MaxSessions, \* bound on the sessions started
  MaxLate,     \* bound on what waits in a pipe to be read
  Platform     \* how a helper's hook may be released: a subset of BOOLEAN

VARIABLE s

Reqs == 1..MaxSessions
NoSession == [status |-> "idle", req |-> 0, hook |-> "unconfirmed", prep |-> 0, left |-> 0,
              beat |-> 0]
Cleaning(p) == p.status \in {"preparing", "active"}
Masked == s.page.status \in {"preparing", "active", "releasing"}

Init ==
  s = [page |-> NoSession, mounted |-> TRUE, bridge |-> FALSE, host |-> TRUE, focused |-> TRUE,
       child |-> {}, calls |-> <<>>, line |-> <<>>, out |-> [r \in Reqs |-> <<>>],
       denied |-> {}, due |-> {}, started |-> 0, tapped |-> {}]

----------------------------------------------------------------------------
\* The page's machine.

Command(kind, r) == [kind |-> kind, req |-> r]

\* release: only a session that is under way is ended, and its helper is told.
\* The deadlines of a session that ends are not read again.
Release(t) ==
  IF ~Cleaning(t.page) THEN t
  ELSE [t EXCEPT !.page = [NoSession EXCEPT !.status = "releasing", !.req = t.page.req],
                 !.calls = Append(@, Command("stop", t.page.req))]

\* advance, which every tick calls.
Advance(t) ==
  CASE t.page.status = "preparing" /\ t.page.prep = 0 /\ t.page.hook = "confirmed" ->
         [t EXCEPT !.page.status = "active"]
    [] t.page.status = "preparing" /\ t.page.prep = 0 /\ t.page.hook # "confirmed" -> Release(t)
    [] t.page.status = "active" /\ (t.page.left = 0 \/ t.page.beat >= Grace) -> Release(t)
    [] OTHER -> t

HookReady(t, signal) ==
  IF t.page.status # "preparing" THEN t
  ELSE IF signal.able /\ t.page.prep > 0 THEN [t EXCEPT !.page.hook = "confirmed", !.page.beat = 0]
  ELSE Release(t)

\* Fault: an acknowledgement ends the session whatever it says.
AnyAcknowledgement(t, signal) ==
  IF t.page.status # "releasing" THEN t ELSE [t EXCEPT !.page.status = "ended"]

ReleaseAcknowledgement(t, signal) ==
  IF t.page.status = "releasing" /\ signal.confirmed THEN [t EXCEPT !.page.status = "ended"] ELSE t

\* Fault: what another session's helper says is taken for this one's.
AnySession(t, r) == t.page.req # 0

\* ensureRequest
EnsureRequest(t, r) == t.page.req = r

\* applySignal
ApplySignal(t, r, signal) ==
  IF ~EnsureRequest(t, r) THEN t
  ELSE CASE signal.kind = "ready" -> HookReady(t, signal)
         [] signal.kind = "heartbeat" -> IF Cleaning(t.page) THEN [t EXCEPT !.page.beat = 0] ELSE t
         [] signal.kind = "hook_ineffective" -> Release(t)
         [] signal.kind = "lifecycle" -> Release(t)
         [] signal.kind = "released" -> ReleaseAcknowledgement(t, signal)

CanStart == s.mounted /\ s.bridge /\ s.page.status \in {"idle", "ended"}

Start ==
  /\ CanStart
  /\ s.started < MaxSessions
  /\ LET r == s.started + 1
     IN s' = [s EXCEPT !.started = r, !.calls = Append(@, Command("start", r)),
                       !.page = [NoSession EXCEPT !.status = "preparing", !.req = r, !.prep = Prep,
                                                  !.left = Prep + Dur]]

Cancel == s.mounted /\ Cleaning(s.page) /\ s' = Release(s)

\* The heartbeat of the page, sent while its hook is confirmed.
HeartbeatsRun(t) == t.mounted /\ Cleaning(t.page) /\ t.page.hook = "confirmed"

SendHeartbeat ==
  /\ "beat" \in s.due
  /\ HeartbeatsRun(s)
  /\ s' = [s EXCEPT !.calls = Append(@, Command("heartbeat", s.page.req)), !.due = @ \ {"beat"}]

\* The page leaves and says so, or is gone with its view, and comes back anew.
Leave == s.mounted /\ s.host /\ s' = [Release(s) EXCEPT !.mounted = FALSE, !.bridge = FALSE]
Reload ==
  /\ s.mounted
  /\ s.host
  /\ s' = [s EXCEPT !.page = NoSession, !.mounted = FALSE, !.bridge = FALSE, !.denied = {}]
Enter == ~s.mounted /\ s.host /\ s' = [s EXCEPT !.page = NoSession, !.mounted = TRUE]
Subscribed == s.mounted /\ ~s.bridge /\ s' = [s EXCEPT !.bridge = TRUE]

Hear(r) ==
  /\ s.out[r] # <<>>
  /\ LET told == [s EXCEPT !.out[r] = Tail(@)]
     IN s' = IF s.bridge THEN ApplySignal(told, r, Head(s.out[r])) ELSE told

\* The helper was not started for want of a permission: nothing is to be released.
PermissionDenied(r) ==
  /\ r \in s.denied
  /\ LET t == [s EXCEPT !.denied = @ \ {r}]
         ended == [Release(t) EXCEPT !.calls = t.calls]
     IN s' = IF t.page.req = r THEN ReleaseAcknowledgement(ended, [confirmed |-> TRUE]) ELSE t

----------------------------------------------------------------------------
\* The adapter.

\* What the window is told of a helper, and what of one that is lost.
Say(t, r, signals) == [t EXCEPT !.out[r] = IF t.host THEN @ \o signals ELSE @]
Signal(kind) == [kind |-> kind]
Released(ok) == [kind |-> "released", confirmed |-> ok]
Lost == <<Signal("hook_ineffective"), Released(FALSE)>>

\* reap_finished
Reaped(child) == {c \in child : c.stage # "gone"}

\* stop: written to the helper of that session.
Stopped(t, r) ==
  [t EXCEPT !.child = Reaped(@),
            !.line = IF \E c \in Reaped(t.child) : c.req = r THEN Append(@, Command("stop", r)) ELSE @]

\* stop_for_reason
StopForReason(t) ==
  IF t.child = {} THEN t ELSE Stopped(t, (CHOOSE c \in t.child : TRUE).req)

HelperOf(r) == [req |-> r, stage |-> "spawned", tap |-> FALSE, left |-> Prep + Dur, heard |-> 0,
                 alone |-> 0]

\* start: refused while another helper runs, without the permission, or when
\* the process cannot be started; one that cannot be told to start is killed,
\* and its reader reports it as lost.
StartHelper(r) ==
  LET t == [s EXCEPT !.calls = Tail(@), !.child = Reaped(@)]
  IN \/ /\ s.focused /\ t.child = {}
        /\ s' = [t EXCEPT !.child = {HelperOf(r)}, !.line = <<>>]
     \/ /\ s.focused /\ t.child = {}
        /\ s' = [t EXCEPT !.denied = IF s.mounted THEN @ \cup {r} ELSE @]
     \/ /\ s.focused /\ t.child = {}
        /\ s' = Say([t EXCEPT !.line = <<>>], r, Lost)
     \/ s' = t

HelperHeartbeat(r) ==
  LET t == [s EXCEPT !.calls = Tail(@)]
  IN s' = IF ~s.focused THEN StopForReason(t)
          ELSE [t EXCEPT !.child = Reaped(@),
                         !.line = IF \E c \in Reaped(t.child) : c.req = r
                                  THEN Append(@, Command("heartbeat", r)) ELSE @]

StopHelper(r) == s' = Stopped([s EXCEPT !.calls = Tail(@)], r)

Serve ==
  /\ s.calls # <<>>
  /\ LET call == Head(s.calls)
     IN \/ call.kind = "start" /\ StartHelper(call.req)
        \/ call.kind = "heartbeat" /\ HelperHeartbeat(call.req)
        \/ call.kind = "stop" /\ StopHelper(call.req)

\* The window loses the focus, or another window asks for an emergency stop.
FocusLost ==
  s.host /\ s.focused /\ Len(s.line) < MaxLate /\ s' = [StopForReason(s) EXCEPT !.focused = FALSE]
FocusBack == s.host /\ ~s.focused /\ s' = [s EXCEPT !.focused = TRUE]
EmergencyStop ==
  s.host /\ s.child # {} /\ Len(s.line) < MaxLate /\ s' = StopForReason(s)

\* The program is gone: the helper's pipe is closed.
HostDies ==
  /\ s.host
  /\ s' = [s EXCEPT !.host = FALSE, !.mounted = FALSE, !.bridge = FALSE, !.page = NoSession,
                    !.calls = <<>>, !.line = Append(@, Command("closed", 0)), !.denied = {},
                    !.out = [r \in Reqs |-> <<>>]]

----------------------------------------------------------------------------
\* The helper.

\* The tap is released before that is confirmed; what is said ends the signals.
Ends(t, c, signals) ==
  \E ok \in Platform :
    s' = Say([t EXCEPT !.child = {[c EXCEPT !.stage = "ending", !.tap = ~ok]}, !.due = @ \ {"poll"}],
             c.req, Append(signals, Released(ok)))

Install ==
  \E c \in s.child :
    /\ c.stage = "spawned"
    /\ \/ s' = Say([s EXCEPT !.child = {[c EXCEPT !.stage = "on", !.tap = TRUE]},
                             !.tapped = @ \cup {c.req}],
                   c.req, <<[kind |-> "ready", able |-> TRUE]>>)
       \/ s' = Say([s EXCEPT !.child = {[c EXCEPT !.stage = "ending"]}], c.req,
                   <<[kind |-> "ready", able |-> FALSE], Released(TRUE)>>)
       \/ Ends(s, c, <<Signal("hook_ineffective")>>)

HostIsSilent(c) == c.heard >= Grace

\* One round of the loop in every second.
Poll ==
  /\ "poll" \in s.due
  /\ LET t == [s EXCEPT !.due = @ \ {"poll"}]
     IN \E c \in s.child :
          /\ c.stage = "on"
          /\ \/ c.left = 0 /\ Ends(t, c, <<Signal("hook_ineffective")>>)
             \/ /\ c.left > 0 /\ HostIsSilent(c)
                /\ Ends(t, c, <<Signal("heartbeat"), Signal("lifecycle")>>)
             \/ /\ c.left > 0 /\ ~HostIsSilent(c)
                /\ s' = Say(t, c.req, <<Signal("heartbeat")>>)

\* The mouse moves, or the system has disabled the tap.
MouseMoves == \E c \in s.child : c.stage = "on" /\ Ends(s, c, <<Signal("lifecycle")>>)
TapStops == \E c \in s.child : c.stage = "on" /\ Ends(s, c, <<Signal("hook_ineffective")>>)

Read ==
  /\ s.line # <<>>
  /\ \E c \in s.child :
       /\ c.stage = "on"
       /\ LET t == [s EXCEPT !.line = Tail(@)]
              command == Head(s.line)
          IN \/ /\ command.kind = "heartbeat"
                /\ s' = [t EXCEPT !.child = {[c EXCEPT !.heard = 0]}]
             \/ command.kind = "stop" /\ Ends(t, c, <<>>)
             \/ command.kind = "closed" /\ Ends(t, c, <<Signal("lifecycle")>>)

\* The process ends, of itself or killed; a helper that has not said that it
\* released the keyboard is reported as lost.
HelperExits ==
  \E c \in s.child :
    /\ c.stage # "gone"
    /\ s' = Say([s EXCEPT !.child = {[c EXCEPT !.stage = "gone", !.tap = FALSE]}, !.line = <<>>],
                c.req, IF c.stage = "ending" THEN <<>> ELSE Lost)

----------------------------------------------------------------------------
Less(n) == IF n = 0 THEN 0 ELSE n - 1
More(n) == IF n > Grace THEN n ELSE n + 1

\* Since when nobody is shown that the tap is on: it is not of the session the
\* page is in.
Alone(c) == IF c.tap /\ ~(Masked /\ s.page.req = c.req) THEN More(c.alone) ELSE 0

Due(t) ==
  (IF \E c \in t.child : c.stage = "on" THEN {"poll"} ELSE {})
    \cup (IF HeartbeatsRun(t) THEN {"beat"} ELSE {})

\* A second passes, with the tick of the page that is shown: the helper has
\* polled and the adapter has served what it was asked.  A page that hangs sends
\* no heartbeat.
Pass ==
  /\ "poll" \notin s.due \/ \A c \in s.child : c.stage # "on"
  /\ s.calls = <<>>
  /\ s.line = <<>> \/ s.child = {}
  /\ \A c \in s.child : c.stage \in {"on", "gone"}
  /\ \A r \in Reqs : Len(s.out[r]) <= MaxLate
  /\ s.child # {} \/ Cleaning(s.page)
  /\ LET t == [s EXCEPT !.page.prep = Less(@), !.page.left = Less(@),
                         !.page.beat = IF Cleaning(s.page) THEN More(@) ELSE @,
                         !.child = {[c EXCEPT !.left = Less(@), !.heard = More(@),
                                               !.alone = Alone(c)] : c \in @}]
     IN s' = [(IF s.mounted THEN Advance(t) ELSE t) EXCEPT !.due = Due(t)]

Next ==
  \/ Start \/ Cancel \/ SendHeartbeat \/ Leave \/ Reload \/ Enter \/ Subscribed
  \/ \E r \in Reqs : Hear(r) \/ PermissionDenied(r)
  \/ Serve \/ FocusLost \/ FocusBack \/ EmergencyStop \/ HostDies
  \/ Install \/ Poll \/ MouseMoves \/ TapStops \/ Read \/ HelperExits
  \/ Pass

\* What happens of itself: time passes, timers fire and calls are served.
Operations == {"pass", "poll", "serve", "read", "install", "hear", "exit"}

AnswerOf(op) ==
  \/ op = "pass" /\ Pass
  \/ op = "poll" /\ Poll
  \/ op = "serve" /\ Serve
  \/ op = "read" /\ Read
  \/ op = "install" /\ Install
  \/ op = "hear" /\ \E r \in Reqs : Hear(r)
  \/ op = "exit" /\ HelperExits /\ \E c \in s.child : c.stage = "ending"

\* A page that cleans.
Waiting == s.mounted /\ Cleaning(s.page)

----------------------------------------------------------------------------
\* While the helper of the page's session can drop a key, the page shows its
\* mask: it is over for the user only once the keyboard is known to be free.
BlockedIsMasked ==
  \A c \in s.child : c.tap /\ s.page.req = c.req => Masked

\* The page says that the keyboard can be wiped only in a session whose helper
\* has filtered it, whatever older helpers say late.
ActiveWasConfirmed == s.page.status = "active" => s.page.req \in s.tapped

\* When the page is gone, hangs or has another session, the keyboard comes back
\* within the helper's grace.
KeysComeBack == \A c \in s.child : c.tap => c.alone <= Grace

\* docs/toolbox-v1.md:498 keeps the click that ends a session always within
\* reach, and :507 warns of a page that still says it is cleaning when nothing
\* is filtered.  The button of the mask is off while a session is released, so
\* something must then be under way that can end it.
MaskIsLifted ==
  s.mounted /\ s.bridge /\ s.page.status = "releasing" =>
    \/ \E i \in DOMAIN s.calls : s.calls[i].req = s.page.req
    \/ \E c \in s.child : c.req = s.page.req /\ c.stage \in {"spawned", "on"}
    \/ \E i \in DOMAIN s.out[s.page.req] : s.out[s.page.req][i].kind = "released"
    \/ s.page.req \in s.denied
=============================================================================
