--------------------------- MODULE ProcessControl ---------------------------
(***************************************************************************)
(* Closing, ending and restarting a process from the window (src/App.tsx,  *)
(* src/processRestart.ts): the details of the selected process, the lease  *)
(* that the native side gives for one process and one action, the dialog,  *)
(* and what a confirmed action goes through.                               *)
(*                                                                         *)
(* Processes 1 and 3 have one name: 3 is what a restart of 1 may start.    *)
(***************************************************************************)
EXTENDS Integers, Sequences, FiniteSets, SequencesExt

CONSTANTS
  MaxActs,   \* bound of the model: actions begun and confirmed
  MaxTurns   \* bound of the model: selections, samples and exits

VARIABLE s

None == 0
Processes == 1..3
NameOf == <<"a", "b", "a">>
NoPending == [target |-> None]
Idle == [stage |-> "none"]

Init ==
  s = [live |-> {1, 2}, shown |-> {1, 2}, selected |-> None, detail |-> None, detailFor |-> None, fetch |-> None,
       pending |-> NoPending, begin |-> Idle, submit |-> Idle, leases |-> {}, next |-> 1,
       confirmed |-> <<>>, signals |-> <<>>, records |-> <<>>, acts |-> MaxActs, turns |-> MaxTurns]

Lease(t, id) == {l \in t.leases : l.id = id}
ReleaseLease(t, id) == [t EXCEPT !.leases = @ \ Lease(t, id)]
CreateLease(t, target, action) ==
  [t EXCEPT !.leases = @ \cup {[id |-> t.next, target |-> target, action |-> action]}, !.next = @ + 1]

\* The details count while they are of the process that is selected and listed.
ActiveDetail(t) == IF t.detail # None /\ t.detail = t.selected /\ t.selected \in t.shown THEN t.detail ELSE None

----------------------------------------------------------------------------
(* The selected process and its details.                                   *)

\* A change of the selected process asks for its details and drops an older answer.
FollowDetail(t) ==
  LET process == IF t.selected \in t.shown THEN t.selected ELSE None
  IN IF process = None THEN [t EXCEPT !.detail = None, !.detailFor = None, !.fetch = None]
     ELSE IF process = t.detailFor THEN t
     ELSE [t EXCEPT !.detail = None, !.detailFor = process, !.fetch = process]

RetryDetail == s.turns > 0 /\ s.detailFor # None /\ s' = [s EXCEPT !.fetch = s.detailFor, !.turns = @ - 1]

DetailArrives ==
  /\ s.fetch # None
  /\ \E ok \in IF s.fetch \in s.live THEN BOOLEAN ELSE {FALSE} :
       s' = [s EXCEPT !.detail = IF ok THEN s.fetch ELSE @, !.fetch = None]

DiscardPendingAction(t) ==
  [IF t.pending.target = None THEN t ELSE ReleaseLease(t, t.pending.lease) EXCEPT !.pending = NoPending]

SelectProcess(i) ==
  /\ s.turns > 0 /\ i \in s.shown
  /\ s' = FollowDetail([DiscardPendingAction(s) EXCEPT !.selected = i, !.turns = @ - 1])

CancelPendingAction ==
  /\ s.pending.target # None /\ s.submit.stage \in {"none", "stale"}
  /\ s' = DiscardPendingAction(s)

----------------------------------------------------------------------------
(* An action is begun: its lease is made and the dialog opens.             *)

BeginProcessAction(action) ==
  /\ s.acts > 0 /\ s.begin.stage = "none" /\ s.pending.target = None /\ ActiveDetail(s) # None
  /\ s' = [s EXCEPT !.acts = @ - 1,
                    !.begin = [stage |-> "lease", source |-> "process", target |-> s.selected, action |-> action]]

\* From a diagnosis or to restart: the process becomes the selected one, and its details are read anew.
BeginDiagnosisRequestClose(i, source) ==
  /\ s.acts > 0 /\ s.begin.stage = "none" /\ i \in s.shown
  /\ s' = FollowDetail([DiscardPendingAction(s) EXCEPT
       !.acts = @ - 1, !.selected = i,
       !.begin = [stage |-> "detail", source |-> source, target |-> i, action |-> "request_close"]])

EndBegin(t) == [t EXCEPT !.begin = Idle]

DetailRead ==
  /\ s.begin.stage = "detail"
  /\ \E ok \in IF s.begin.target \in s.live THEN BOOLEAN ELSE {FALSE} :
       s' = IF ~ok \/ s.selected # s.begin.target THEN EndBegin(s)
            ELSE [s EXCEPT !.begin.stage = IF s.begin.source = "restart" THEN "relaunchable" ELSE "lease"]

RelaunchableRead ==
  /\ s.begin.stage = "relaunchable"
  /\ \E ok \in BOOLEAN : s' = IF ok THEN [s EXCEPT !.begin.stage = "lease"] ELSE EndBegin(s)

\* What was selected when the action began must be selected still.
SameTarget(t) ==
  /\ t.selected = t.begin.target
  /\ t.begin.source = "process" => ActiveDetail(t) = t.begin.target

OpenPending(t) ==
  [EndBegin(CreateLease(t, t.begin.target, t.begin.action)) EXCEPT
     !.pending = [source |-> t.begin.source, target |-> t.begin.target, action |-> t.begin.action, lease |-> t.next],
     !.detail = IF t.begin.source = "process" THEN @ ELSE t.begin.target]

BeginLeaseArrives ==
  /\ s.begin.stage = "lease"
  /\ \E ok \in IF s.begin.target \in s.live THEN BOOLEAN ELSE {FALSE} :
       s' = IF ok /\ SameTarget(s) THEN OpenPending(s) ELSE EndBegin(s)

----------------------------------------------------------------------------
(* A confirmed action.                                                     *)

\* The target is that of the dialog as far as the window can tell; from a
\* diagnosis the list that was drawn when the button was pressed decides.
Current(t, p, listed) ==
  /\ t.selected = p.target
  /\ IF p.source = "process" THEN ActiveDetail(t) = p.target ELSE listed

HandleAction ==
  LET p == s.pending
      listed == p.target \in s.shown
  IN /\ s.acts > 0 /\ p.target # None /\ s.submit.stage = "none"
     /\ s' = IF Current(s, p, listed)
             THEN [s EXCEPT !.acts = @ - 1, !.confirmed = Append(@, [target |-> p.target, action |-> p.action]),
                            !.submit = [stage |-> "lease", p |-> p, n |-> Len(s.confirmed) + 1, lease |-> None]]
             ELSE [ReleaseLease(s, p.lease) EXCEPT !.submit = [stage |-> "stale"]]

StaleIsClosed == s.submit.stage = "stale" /\ s' = [s EXCEPT !.submit = Idle, !.pending = NoPending]

EndSubmit(t) == [t EXCEPT !.submit = Idle, !.pending = NoPending]
Record(t, status, restarted) ==
  [t EXCEPT !.records = Append(@, [target |-> t.submit.p.target, status |-> status, restarted |-> restarted])]
ActionFails(t) ==
  EndSubmit(ReleaseLease(IF t.submit.stage \in {"lease", "release"} THEN t ELSE Record(t, "failed", FALSE),
                         IF t.submit.lease = None THEN t.submit.p.lease ELSE t.submit.lease))

\* A second lease is made at the confirmation, and the target is compared once more.
ExecutionLeaseArrives ==
  LET p == s.submit.p
  IN /\ s.submit.stage = "lease"
     /\ \E ok \in IF p.target \in s.live THEN BOOLEAN ELSE {FALSE} :
          s' = IF ~ok THEN ActionFails(s)
               ELSE IF ~Current(s, p, TRUE) THEN EndSubmit([s EXCEPT !.next = @ + 1])
               ELSE [CreateLease(s, p.target, p.action) EXCEPT !.submit.stage = "release", !.submit.lease = s.next]

LeaseIsChanged ==
  /\ s.submit.stage = "release"
  /\ s' = [ReleaseLease(s, s.submit.p.lease) EXCEPT
             !.submit.stage = "execute",
             !.pending = IF @.target # None /\ @.lease = s.submit.p.lease THEN [@ EXCEPT !.lease = s.submit.lease] ELSE @]

\* The native side takes the lease whatever comes of it.
ExecuteProcessAction(t) == ReleaseLease(t, t.submit.lease)
Signalled(t) ==
  [t EXCEPT !.signals = Append(@, [n |-> t.submit.n, target |-> t.submit.p.target, action |-> t.submit.p.action])]

Succeeded(t) == EndSubmit(Record(t, "succeeded", FALSE))

\* Fault: a signal that was sent counts as an exit.
ExecutedAsSent ==
  /\ s.submit.stage = "execute"
  /\ s' = IF Lease(s, s.submit.lease) = {} THEN ActionFails(s)
          ELSE IF s.submit.p.source = "restart" THEN [Signalled(ExecuteProcessAction(s)) EXCEPT !.submit.stage = "relaunch"]
          ELSE Succeeded(Signalled(ExecuteProcessAction(s)))

Executed ==
  LET p == s.submit.p
      t == ExecuteProcessAction(s)
  IN /\ s.submit.stage = "execute"
     /\ \/ s' = ActionFails(t)
        \/ /\ Lease(s, s.submit.lease) # {}
           /\ \E exits \in BOOLEAN :
                LET u == [Signalled(t) EXCEPT !.live = IF exits THEN @ \ {p.target} ELSE @]
                IN s' = IF ~exits THEN [u EXCEPT !.submit.stage = "exit"]
                        ELSE IF p.source = "restart" THEN [u EXCEPT !.submit.stage = "relaunch"]
                        ELSE Succeeded(u)

\* Samples are taken until the identity is gone; the last of them, or one that fails, ends the wait.
WaitForProcessIdentityExit ==
  /\ s.submit.stage = "exit"
  /\ \/ /\ s.submit.p.target \notin s.live
        /\ s' = IF s.submit.p.source = "restart" THEN [s EXCEPT !.submit.stage = "relaunch"] ELSE Succeeded(s)
     \/ s' = EndSubmit(Record(s, "failed", FALSE))

RelaunchApplication ==
  /\ s.submit.stage = "relaunch"
  /\ \/ s' = [s EXCEPT !.submit.stage = "replacement", !.live = IF s.submit.p.target = 1 THEN @ \cup {3} ELSE @]
     \/ s' = ActionFails(s)

WaitForProcessReplacement ==
  LET others == {i \in s.live \ {s.submit.p.target} : NameOf[i] = NameOf[s.submit.p.target]}
  IN /\ s.submit.stage = "replacement"
     /\ \E found \in IF others # {} THEN BOOLEAN ELSE {FALSE} : s' = EndSubmit(Record(s, "succeeded", found))

----------------------------------------------------------------------------
(* The system.                                                             *)

Exit(i) == s.turns > 0 /\ i \in s.live /\ s' = [s EXCEPT !.live = @ \ {i}, !.turns = @ - 1]
Sample == s.turns > 0 /\ s.shown # s.live /\ s' = FollowDetail([s EXCEPT !.shown = s.live, !.turns = @ - 1])
Expire == s.turns > 0 /\ \E l \in s.leases : s' = [ReleaseLease(s, l.id) EXCEPT !.turns = @ - 1]

Operations == {"detail", "begin", "submit"}
AnswerOf(op) ==
  CASE op = "detail" -> DetailArrives
    [] op = "begin" -> DetailRead \/ RelaunchableRead \/ BeginLeaseArrives
    [] op = "submit" -> StaleIsClosed \/ ExecutionLeaseArrives \/ LeaseIsChanged \/ Executed
                        \/ WaitForProcessIdentityExit \/ RelaunchApplication \/ WaitForProcessReplacement

Next ==
  \/ \E i \in Processes : SelectProcess(i) \/ Exit(i)
  \/ \E i \in Processes, source \in {"diagnosis", "restart"} : BeginDiagnosisRequestClose(i, source)
  \/ \E action \in {"request_close", "force_kill"} : BeginProcessAction(action)
  \/ CancelPendingAction \/ HandleAction \/ RetryDetail \/ Sample \/ Expire
  \/ \E op \in Operations : AnswerOf(op)

----------------------------------------------------------------------------
(* Properties.                                                             *)

\* Each signal is of one confirmation, to the process and of the kind that its
\* dialog named, and of no confirmation are there two, whatever is selected,
\* sampled or begun while the action is under way.
ActsAsConfirmed ==
  /\ \A i \in DOMAIN s.signals :
       LET c == s.confirmed[s.signals[i].n] IN s.signals[i].target = c.target /\ s.signals[i].action = c.action
  /\ \A i, j \in DOMAIN s.signals : s.signals[i].n = s.signals[j].n => i = j

\* An action is recorded as done only of a process that is gone, and a restart
\* as seen only with another process of its name.
RecordedAsHappened ==
  \A i \in DOMAIN s.records :
    /\ s.records[i].status = "succeeded" => s.records[i].target \notin s.live
    /\ s.records[i].restarted => s.records[i].target = 1

\* The dialog is always about the selected process, and so are the details.
DialogsAreLive ==
  /\ s.pending.target # None /\ s.submit.stage = "none" => s.pending.target = s.selected
  /\ ActiveDetail(s) # None => s.detailFor = ActiveDetail(s)

Waiting == s.fetch # None \/ s.begin.stage # "none" \/ s.submit.stage # "none"
=============================================================================
