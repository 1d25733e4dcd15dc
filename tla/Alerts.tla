------------------------------- MODULE Alerts -------------------------------
(***************************************************************************)
(* Alerts of a resource and reminders of an application.                   *)
(*                                                                         *)
(* src/resourceAlerts.ts decides when a load is an alert and when the      *)
(* alert is over, useResourceAlerts and src/alertStore.ts keep what        *)
(* happened, src/historyStories.ts tells it as stories.  A rule of         *)
(* src/applicationWatchRules.ts watches one application in the same way.   *)
(* The file behind the kept events is that of NativeHistory.               *)
(*                                                                         *)
(* One resource and one rule, evaluated with each sample; times scaled.    *)
(* Whether notices of them may be given, and what listens to them          *)
(* (src/hooks/useDesktopNotifications.ts), has a state of its own.         *)
(***************************************************************************)
EXTENDS Integers, FiniteSets, FiniteSetsExt

CONSTANTS
  MaxEvals,  \* bound of the model: samples evaluated
  MaxActs,   \* bound of the model: changes of the settings, restarts, samples passed over
  MaxTurns   \* bound of the model: what the user does about notices

VARIABLE s

Breach == 2
Recovery == 2
Cooldown == 4
WatchDuration == 1
WatchCooldown == 4

\* Below what is recovered, between it and the threshold, high, critical.
Values == {0, 1, 2, 3}
Unread == -1

----------------------------------------------------------------------------
(* Resource alerts.                                                        *)

CreateTracker == [breach |-> -1, recovery |-> -1, active |-> -1, severity |-> "none", cooldown |-> 0,
                  peak |-> -1, peakAt |-> -1]

SeverityFor(value) == IF value = 3 THEN "critical" ELSE "high"

AlertEvent(kind, t, value, now) ==
  [kind |-> kind, at |-> now, severity |-> t.severity, value |-> value, started |-> t.active,
   peak |-> t.peak, peakAt |-> t.peakAt, culprit |-> TRUE]

Triggers(t, now) == now - t.breach >= Breach /\ now >= t.cooldown

High(t, value, now) ==
  LET b == [t EXCEPT !.recovery = -1]
      since == [b EXCEPT !.breach = IF @ = -1 THEN now ELSE @]
      begun == [since EXCEPT !.active = since.breach, !.severity = SeverityFor(value), !.peak = value, !.peakAt = now]
  IN IF t.active # -1
     THEN [tracker |-> [b EXCEPT !.peak = IF value > t.peak THEN value ELSE @,
                                 !.peakAt = IF value > t.peak THEN now ELSE @,
                                 !.severity = IF value = 3 THEN "critical" ELSE @], events |-> {}]
     ELSE IF Triggers(since, now)
     THEN [tracker |-> begun, events |-> {AlertEvent("triggered", begun, value, now)}]
     ELSE [tracker |-> since, events |-> {}]

\* Fault: the cooldown is forgotten with the alert.
LowWithoutCooldown(t, value, now) ==
  LET since == [t EXCEPT !.breach = -1, !.recovery = IF t.active = -1 THEN @ ELSE IF @ = -1 THEN now ELSE @]
  IN IF t.active # -1 /\ now - since.recovery >= Recovery
     THEN [tracker |-> CreateTracker, events |-> {AlertEvent("recovered", t, value, now)}]
     ELSE [tracker |-> since, events |-> {}]

Low(t, value, now) ==
  LET since == [t EXCEPT !.breach = -1, !.recovery = IF t.active = -1 THEN @ ELSE IF @ = -1 THEN now ELSE @]
  IN IF t.active # -1 /\ now - since.recovery >= Recovery
     THEN [tracker |-> [CreateTracker EXCEPT !.cooldown = now + Cooldown],
           events |-> {AlertEvent("recovered", t, value, now)}]
     ELSE [tracker |-> since, events |-> {}]

\* A sample that could not be read changes nothing.
EvaluateResourceAlerts(t, value, now) ==
  CASE value = Unread -> [tracker |-> t, events |-> {}]
    [] value \in {2, 3} -> High(t, value, now)
    [] value = 0 -> Low(t, value, now)
    [] value = 1 -> [tracker |-> [t EXCEPT !.breach = -1, !.recovery = -1], events |-> {}]

----------------------------------------------------------------------------
(* The reminder of an application.                                         *)

NoWatch == [started |-> -1, active |-> FALSE, notified |-> -1]

\* The application is not running, below the threshold of the rule, or above it.
EvaluateApplicationWatchRules(w, enabled, value, now) ==
  LET started == IF w.started = -1 THEN now ELSE w.started
      sustained == now - started >= WatchDuration
      triggered == sustained /\ ~w.active /\ (w.notified = -1 \/ now - w.notified >= WatchCooldown)
  IN IF ~enabled THEN [state |-> [w EXCEPT !.started = -1, !.active = FALSE], events |-> {}]
     ELSE IF value < 2
     THEN [state |-> [w EXCEPT !.started = -1, !.active = FALSE],
           events |-> IF w.active THEN {[kind |-> "recovered", at |-> now, name |-> TRUE]} ELSE {}]
     ELSE [state |-> [started |-> started, active |-> sustained, notified |-> IF triggered THEN now ELSE w.notified],
           events |-> IF triggered THEN {[kind |-> "triggered", at |-> now, name |-> TRUE]} ELSE {}]

----------------------------------------------------------------------------
(* Kept events and stories.                                                *)

\* Two events are the same when kind and time are.
Deduplicated(stored, incoming) ==
  {e \in stored : \A f \in incoming : f.kind # e.kind \/ f.at # e.at} \cup incoming

\* What the store accepts when it reads itself back.
IsResourceAlertEvent(e) ==
  /\ e.started > 0 /\ e.started <= e.at
  /\ e.severity \in {"high", "critical"}
  /\ e.peak >= 0 /\ e.peakAt >= e.started /\ e.peakAt <= e.at
MergeResourceAlertEvents(stored, incoming) ==
  {e \in Deduplicated(stored, incoming) : IsResourceAlertEvent(e)}

Events(t) == MergeResourceAlertEvents(t.stored, t.session)

\* A trigger begins a story, and the next recovery ends the last one begun;
\* one without it is a story of its own.
BuildHistoryStories(events) ==
  {[started |-> e.started, at |-> e.at,
    status |-> IF \E r \in events : /\ r.kind = "recovered" /\ r.at > e.at
                                    /\ \A f \in events : f.kind = "triggered" => f.at <= e.at \/ f.at > r.at
               THEN "recovered" ELSE "active"]
     : e \in {f \in events : f.kind = "triggered"}}
  \cup {[started |-> r.started, at |-> r.at, status |-> "recovered"]
          : r \in {f \in events : /\ f.kind = "recovered"
                                  /\ ~\E e \in events : /\ e.kind = "triggered" /\ e.at < f.at
                                                        /\ \A r \in events : r.kind = "recovered" =>
                                                             r.at <= e.at \/ r.at >= f.at}}

----------------------------------------------------------------------------
(* Operations.                                                             *)

BeginAlerts ==
  s = [part |-> "alerts", tracker |-> CreateTracker, watch |-> NoWatch, enabled |-> TRUE, session |-> {},
       stored |-> {}, heard |-> {}, reminders |-> {}, persist |-> TRUE, names |-> TRUE, culprit |-> FALSE, now |-> 1, restarts |-> 0, evals |-> MaxEvals,
       acts |-> MaxActs]

\* What is kept of the reminders, with the name of the application or without;
\* of the session they are all known, and shown so.
WatchEvents(t, events) ==
  [t EXCEPT !.heard = Deduplicated(@, events),
            !.reminders = IF t.persist THEN Deduplicated(@, {[e EXCEPT !.name = t.names] : e \in events}) ELSE @]
Reminders(t) == Deduplicated(t.reminders, t.heard)

\* With a sample both are evaluated, the rule unless another sample comes before
\* its turn.  The one to blame is that of the trigger, also at the end.
Evaluate(now, value, watched, inTime) ==
  /\ s.evals > 0 /\ (inTime \/ s.acts > 0)
  /\ LET alert == EvaluateResourceAlerts(s.tracker, value, now)
         watch == IF inTime THEN EvaluateApplicationWatchRules(s.watch, s.enabled, watched, now)
                  ELSE [state |-> s.watch, events |-> {}]
         named == {[e EXCEPT !.culprit = IF e.kind = "triggered" THEN TRUE ELSE s.culprit] : e \in alert.events}
         kept == {[e EXCEPT !.culprit = @ /\ s.names] : e \in named}
     IN s' = [WatchEvents(s, watch.events) EXCEPT
                       !.tracker = alert.tracker, !.watch = watch.state, !.now = now, !.evals = @ - 1,
                       !.acts = IF inTime THEN @ ELSE @ - 1,
                       !.culprit = IF alert.events = {} THEN @ ELSE \E e \in alert.events : e.kind = "triggered",
                       !.session = MergeResourceAlertEvents(@, named),
                       !.stored = IF s.persist THEN MergeResourceAlertEvents(@, kept) ELSE @]

SetNames ==
  /\ s.acts > 0
  /\ s' = [s EXCEPT !.acts = @ - 1, !.names = ~@,
                    !.stored = IF s.names THEN {[e EXCEPT !.culprit = FALSE] : e \in @} ELSE @,
                    !.reminders = IF s.names THEN {[e EXCEPT !.name = FALSE] : e \in @} ELSE @]

SetPersistence == s.acts > 0 /\ s' = [s EXCEPT !.acts = @ - 1, !.persist = ~@]
SetRule == s.acts > 0 /\ s' = [s EXCEPT !.acts = @ - 1, !.enabled = ~@]

\* What was evaluated so far is forgotten, and what was kept is read.
Restart ==
  /\ s.acts > 0
  /\ s' = [s EXCEPT !.acts = @ - 1, !.restarts = @ + 1, !.tracker = CreateTracker, !.watch = NoWatch, !.session = {},
                    !.heard = {}, !.culprit = FALSE]

Alerting ==
  \/ \E d \in 1..2, value \in Values \cup {Unread}, inTime \in BOOLEAN : Evaluate(s.now + d, value, value, inTime)
  \/ SetNames \/ SetPersistence \/ SetRule \/ Restart

----------------------------------------------------------------------------
(* Notices: the permission to give them, and the listeners.                *)

\* What is asked for belongs to a run of its effect; it is of no use to a later one.
Listeners == {"alerts", "watch"}  \* to a notice that is clicked
Effects == {"ensure", "refresh", "delivery"} \cup Listeners
Ask(t, op) == [t EXCEPT !.calls = @ \cup {[op |-> op, run |-> t.run[op], turn |-> t.turns]}]
Ended(t, ops) ==
  [t EXCEPT !.run = [op \in Effects |-> IF op \in ops THEN @[op] + 1 ELSE @[op]],
            !.registered = {r \in @ : r.op \notin ops}]
Live(c) == c.run = s.run[c.op]
Answered(c) == [s EXCEPT !.calls = @ \ {c}]

MayAct == s.turns > 0 /\ ~s.closed
Act == [s EXCEPT !.turns = @ - 1]

\* The window listens for what the background gives notice of, from its start on.
BeginNotices ==
  s = [part |-> "notices", enabled |-> FALSE, permission |-> "default", granted |-> FALSE, status |-> "disabled",
       run |-> [op \in Effects |-> 0], calls |-> {[op |-> "delivery", run |-> 0, turn |-> 0]}, registered |-> {},
       delivery |-> "none", opened |-> 0, closed |-> FALSE, turns |-> MaxTurns]

Listening(t) == Ask(Ask(t, "alerts"), "watch")

SetEnabled ==
  /\ MayAct
  /\ LET t == Ended(Act, {"ensure", "refresh"} \cup Listeners)
     IN s' = IF s.enabled THEN [t EXCEPT !.enabled = FALSE, !.status = "disabled"]
             ELSE Listening(Ask([t EXCEPT !.enabled = TRUE, !.status = "requesting",
                                          !.granted = s.permission = "granted"], "ensure"))

Told(t, c, granted) == IF Live(c) THEN [t EXCEPT !.status = IF granted THEN "ready" ELSE "denied"] ELSE t

\* The system is asked, and then the user, who may have decided before.
EnsureNotificationPermission(c) ==
  /\ c.op = "ensure"
  /\ \/ s' = Told(Answered(c), c, FALSE)
     \/ s.permission # "default" /\ s' = Told(Answered(c), c, s.permission = "granted")
     \/ /\ s.permission = "default"
        /\ \E granted \in BOOLEAN :
             s' = Told([Answered(c) EXCEPT !.permission = IF granted THEN "granted" ELSE "denied",
                                           !.granted = @ \/ granted], c, granted)

\* Each time the window is looked at again.
RefreshPermission == MayAct /\ s.enabled /\ s' = Ask(Act, "refresh")

\* Fault: what was asked before notices were turned off still counts.
RefreshAlways(c) ==
  /\ c.op = "refresh"
  /\ \E failed \in BOOLEAN : LET granted == s.permission = "granted" /\ ~failed
                             IN s' = [Answered(c) EXCEPT !.status = IF granted THEN "ready" ELSE "denied"]

IsNotificationPermissionGranted(c) ==
  /\ c.op = "refresh"
  /\ \E failed \in BOOLEAN : s' = Told(Answered(c), c, s.permission = "granted" /\ ~failed)

\* In the settings of the system.
PermissionChanges ==
  /\ MayAct
  /\ \E p \in {"granted", "denied"} \ {s.permission} :
       s' = [Act EXCEPT !.permission = p, !.granted = @ \/ p = "granted"]

\* Other events, or another handler of a click: the effects that use them run again.
EventsChange == MayAct /\ s.enabled /\ s' = Ended(Act, {"refresh"})
HandlersChange == MayAct /\ s.enabled /\ s' = Listening(Ended(Act, Listeners))

\* A listener that comes too late is given back at once.
ListenerArrives(c) ==
  /\ c.op \in Listeners \cup {"delivery"}
  /\ \/ s' = [Answered(c) EXCEPT !.registered = IF Live(c) THEN @ \cup {c} ELSE @]
     \/ s' = Answered(c)

\* What the background sent, or how the test went.
Delivered(status) == (\E r \in s.registered : r.op = "delivery") /\ s' = [s EXCEPT !.delivery = status]
SendTest ==
  MayAct /\ s.enabled /\ s.status = "ready" /\ \E status \in {"sent", "failed"} : s' = [Act EXCEPT !.delivery = status]

\* A notice opens what it is about, in each listener of its kind.
Click(kind) == MayAct /\ s' = [Act EXCEPT !.opened = Cardinality({r \in s.registered : r.op = kind})]

CloseWindow == ~s.closed /\ s' = [Ended(s, Effects) EXCEPT !.closed = TRUE]

Noticing ==
  \/ SetEnabled \/ RefreshPermission \/ PermissionChanges \/ EventsChange \/ HandlersChange \/ SendTest \/ CloseWindow
  \/ \E kind \in Listeners : Click(kind)
  \/ \E status \in {"sent", "failed"} : Delivered(status)
  \/ \E c \in s.calls : EnsureNotificationPermission(c) \/ IsNotificationPermissionGranted(c) \/ ListenerArrives(c)

----------------------------------------------------------------------------
Init == BeginAlerts \/ BeginNotices

Next ==
  \/ s.part = "alerts" /\ Alerting
  \/ s.part = "notices" /\ Noticing

----------------------------------------------------------------------------
(* Properties.                                                             *)

\* In a session an alert ends before the next begins; it was high for its time
\* when it began, and calm for its time when it ended, and between an end and
\* the next begin lies the cooldown: whatever the samples in between were, and
\* the ones that could not be read.
EventsAlternate ==
  s.part = "alerts" => \A e \in s.session, f \in s.session :
    /\ e.kind = "triggered" => e.at - e.started >= Breach
    /\ e.at < f.at /\ e.kind = f.kind => \E g \in s.session : g.at > e.at /\ g.at < f.at /\ g.kind # e.kind
    /\ e.at < f.at /\ e.kind = "recovered" /\ f.kind = "triggered" => f.at - e.at >= Cooldown
    /\ e.at < f.at /\ e.kind = "triggered" /\ f.kind = "recovered" => f.peak >= e.peak

\* Each event made is one that the store reads back, and no name of an
\* application is kept that may not be.
EventsAreKept == s.part = "alerts" =>
  /\ \A e \in s.session : IsResourceAlertEvent(e)
  /\ s.persist /\ s.restarts = 0 /\ s.acts = MaxActs =>
       /\ {[e EXCEPT !.culprit = TRUE] : e \in s.session} = {[e EXCEPT !.culprit = TRUE] : e \in s.stored}
       /\ s.heard = s.reminders
  /\ \A e \in s.reminders, f \in Reminders(s) : e.kind = f.kind /\ e.at = f.at => f = e \/ f.name
  /\ ~s.names => (\A e \in s.stored : ~e.culprit) /\ (\A e \in s.reminders : ~e.name)

\* Two reminders of a rule are never nearer than its cooldown, and one is only
\* given again after the application recovered.
RemindersAreRare ==
  s.part = "alerts" => \A e \in s'.heard \ s.heard :
    e.kind = "triggered" /\ e.at = s'.now /\ s'.now # s.now =>
      /\ ~s.watch.active
      /\ s.restarts = 0 => \A f \in s.heard : f.kind = "triggered" => e.at - f.at >= WatchCooldown

\* A story is told as still happening while its alert is, until the program is
\* started again: an alert of before has no end in the history then.
StillHappening ==
  s.part = "alerts" /\ s.restarts = 0 => \A story \in BuildHistoryStories(Events(s)) :
    story.status = "active" => s.tracker.active = story.started

\* Notices are off when they were turned off, whatever is answered later, and
\* ready only when the permission was given since they were turned on; at most
\* one listener of a kind opens what a notice is about, and none stays behind
\* when notices are turned off or the window is closed.
NoticesAreSettled == s.part = "notices" =>
  /\ s.status = "disabled" <=> ~s.enabled
  /\ s.status = "ready" => s.granted
  /\ s.opened <= 1 /\ \A r \in s.registered, q \in s.registered : r.op = q.op => r = q
  /\ ~s.enabled => \A r \in s.registered : r.op = "delivery"
  /\ s.closed => s.registered = {}
=============================================================================
