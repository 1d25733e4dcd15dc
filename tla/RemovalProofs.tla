---------------------------- MODULE RemovalProofs ----------------------------
(***************************************************************************)
(* Proofs about the pages of MaintenanceMC, for every number of operations *)
(* the user begins.                                                        *)
(*                                                                         *)
(* The pages that delete: what is removed is what was confirmed.  Each has *)
(* an invariant of its own (MapGood, FilesGood, AppsGood, QuickGood); the  *)
(* three that open a deletion dialog have it in order, and the first       *)
(* lemmas say what the operators of DeleteDialog keep of it, for any       *)
(* family of items a page may show.  A page uses those operators under the *)
(* name of its instance; the lemmas MapDialog, FilesDialog and AppsDialog  *)
(* say that they are the same.                                             *)
(*                                                                         *)
(* The pages that keep or clear what was found: FilesCleared orders what   *)
(* is cached of the file insights against the clears that were asked for;  *)
(* NativeGood says that no copy of a native history holds a point that was *)
(* cleared; PrefsGood says what a window finds stored; ScanGood is about   *)
(* the calls that follow the newest scan of the disk, of which one loop at *)
(* most is left and which never falls back to a preview.                   *)
(***************************************************************************)
EXTENDS MaintenanceMC, DeleteDialog, SequenceTheorems, FiniteSetTheorems, TLAPS

(* The dialog and its leases: what a dialog is, and the parts of the         *)
(* invariant that its operators keep.  F is the family of the sets of items  *)
(* a page may show.                                                          *)

Leases(F) == [id : Nat, mode : Modes, items : F, executable : BOOLEAN]

Prepares(F) == [op : {"prepare"}, seq : Nat, items : F, mode : Modes]
Switches == [op : {"switch"}, seq : Nat, id : Nat, mode : Modes, previous : Modes]
Executes(F) == [op : {"execute"}, id : Nat, items : F, mode : Modes, acknowledged : BOOLEAN]
Stops == [op : {"stop"}]
Requests(F) == Prepares(F) \cup Switches \cup Executes(F) \cup Stops

Business == [submitting : BOOLEAN, cancelling : BOOLEAN, preparing : BOOLEAN, switching : BOOLEAN]

Dialogs(F) ==
  [open : BOOLEAN, items : F, mode : Modes, lease : Leases(F), shown : Leases(F),
   busy : Business,
   acknowledged : BOOLEAN, seq : Nat, native : SUBSET Leases(F), made : Nat,
   calls : SUBSET Requests(F),
   done : SUBSET [items : F, mode : Modes, confirmed : Executes(F)]]

Numbered(d) == {c \in d.calls : c.op \in {"prepare", "switch"}}
Sent(d) == {c \in d.calls : c.op = "execute"}

OrderInv(d) ==
  /\ \A c \in Numbered(d) : c.seq <= d.seq
  /\ \A c, e \in Numbered(d) : c.seq = e.seq => c = e

IdInv(d) ==
  /\ d.lease.id <= d.made
  /\ \A l \in d.native : 0 < l.id /\ l.id <= d.made
  /\ \A l, m \in d.native : l.id = m.id => l = m
  /\ \A c \in d.calls : c.op \in {"switch", "execute"} => 0 < c.id /\ c.id <= d.made

LeaseInv(d) ==
  /\ \A l \in d.native : l.id = d.lease.id => l = d.lease
  /\ d.lease.id # 0 => d.lease.items = d.items
  /\ \A c \in d.calls : c.op = "prepare" /\ c.seq = d.seq => d.lease.id = 0 /\ c.items = d.items

SwitchInv(d) ==
  \A c \in d.calls : c.op = "switch" =>
    /\ c.seq = d.seq => d.busy.switching /\ c.id = d.lease.id
    /\ c.id = d.lease.id => c.seq = d.seq

BusyInv(d) ==
  /\ d.busy.submitting => d.open /\ ~d.busy.preparing /\ ~d.busy.switching
  /\ Sent(d) # {} => d.busy.submitting

SentInv(d) ==
  /\ \A c, e \in Sent(d) : c = e
  /\ \A c \in Sent(d) :
       /\ \A l \in d.native : l.id = c.id => l.items = c.items /\ l.mode = c.mode
       /\ c.mode = "permanent" => c.acknowledged
       /\ \A e \in d.calls : e.op = "switch" => e.id # c.id

DialogInv(d) ==
  OrderInv(d) /\ IdInv(d) /\ LeaseInv(d) /\ SwitchInv(d) /\ BusyInv(d) /\ SentInv(d)
  /\ DeletesAsConfirmed(d)
Good(F, d) == d \in Dialogs(F) /\ DialogInv(d)

\* What the answers of the native side, and the choices inside an open dialog,
\* leave alone.
Same(d, t) ==
  /\ t.open = d.open /\ t.items = d.items /\ t.busy.submitting = d.busy.submitting
  /\ Sent(t) = Sent(d)

LEMMA CallTypes ==
  ASSUME NEW F, NEW d \in Dialogs(F), NEW c \in d.calls
  PROVE  /\ c.op = "prepare" => c \in Prepares(F)
         /\ c.op = "switch" => c \in Switches
         /\ c.op = "execute" => c \in Executes(F)
         /\ c.op = "stop" => c \in Stops
         /\ c.op \in {"prepare", "switch", "execute", "stop"}
<1>1. c \in Requests(F)
  BY DEF Dialogs
<1> QED BY <1>1 DEF Requests, Prepares, Switches, Executes, Stops

LEMMA NumberType ==
  ASSUME NEW F, NEW d, Good(F, d)
  PROVE  d.seq \in Nat
         /\ \A c \in d.calls : c.op \in {"prepare", "switch"} => c.seq \in Nat /\ c.seq <= d.seq
<1>1. ASSUME NEW c \in d.calls, c.op \in {"prepare", "switch"} PROVE c.seq \in Nat
  <2>1. c \in Prepares(F) \/ c \in Switches
    BY <1>1, CallTypes DEF Good
  <2> QED BY <2>1 DEF Prepares, Switches
<1>2. d.seq \in Nat
  BY DEF Good, Dialogs
<1> QED BY <1>1, <1>2 DEF Good, DialogInv, OrderInv, Numbered

\* The parts of a dialog that the invariant is about.
LEMMA FrameGood ==
  ASSUME NEW F, NEW d, NEW t, DialogInv(d), d \in Dialogs(F), t \in Dialogs(F),
         t.items = d.items, t.lease = d.lease, t.native = d.native, t.made = d.made,
         t.seq = d.seq, t.done = d.done, t.open = d.open,
         t.busy.submitting = d.busy.submitting,
         t.busy.preparing = d.busy.preparing, t.busy.switching = d.busy.switching,
         \A c \in t.calls : c \in d.calls \/ c.op = "stop"
  PROVE  DialogInv(t)
<1>1. OrderInv(t) /\ IdInv(t)
  BY DEF OrderInv, IdInv, DialogInv, Numbered
<1>2. LeaseInv(t) /\ SwitchInv(t)
  BY DEF LeaseInv, SwitchInv, DialogInv
<1>3. BusyInv(t)
  BY DEF BusyInv, DialogInv, Sent
<1>4. SentInv(t) /\ DeletesAsConfirmed(t)
  BY DEF SentInv, DialogInv, Sent, DeletesAsConfirmed
<1> QED BY <1>1, <1>2, <1>3, <1>4 DEF DialogInv

LEMMA NoLeaseType == ASSUME NEW F, {} \in F PROVE NoLease \in Leases(F)
BY DEF NoLease, Leases, Modes

LEMMA ClosedDialogGood == ASSUME NEW F, {} \in F PROVE Good(F, ClosedDialog)
<1>1. ClosedDialog \in Dialogs(F)
  BY NoLeaseType DEF ClosedDialog, Dialogs, Modes, Quiet, Business
<1>2. DialogInv(ClosedDialog)
  BY DEF ClosedDialog, DialogInv, OrderInv, IdInv, LeaseInv, SwitchInv, BusyInv, SentInv,
     Numbered, Sent, DeletesAsConfirmed, NoLease, Quiet
<1> QED BY <1>1, <1>2 DEF Good

LEMMA AcknowledgedGood ==
  ASSUME NEW F, NEW d, Good(F, d) PROVE Good(F, Acknowledged(d)) /\ Same(d, Acknowledged(d))
         /\ Acknowledged(d).seq = d.seq
<1>1. Acknowledged(d) \in Dialogs(F)
  BY DEF Good, Acknowledged, Dialogs
<1>2. DialogInv(Acknowledged(d))
  BY <1>1, FrameGood DEF Good, Acknowledged, Dialogs
<1> QED BY <1>1, <1>2 DEF Good, Same, Sent, Dialogs, Acknowledged

LEMMA CancellingGood ==
  ASSUME NEW F, NEW d, Good(F, d) PROVE Good(F, Cancelling(d)) /\ Same(d, Cancelling(d))
         /\ Cancelling(d).seq = d.seq
<1>1. [op |-> "stop"] \in Requests(F)
  BY DEF Requests, Stops
<1> DEFINE t == Cancelling(d)
<1>2. [d.busy EXCEPT !.cancelling = TRUE] \in Business /\ d.calls \cup {[op |-> "stop"]} \subseteq Requests(F)
  BY <1>1 DEF Good, Dialogs, Business
<1>3. t \in Dialogs(F)
  BY <1>2 DEF Good, Cancelling, Dialogs
<1>4. /\ t.items = d.items /\ t.lease = d.lease /\ t.native = d.native /\ t.made = d.made
      /\ t.seq = d.seq /\ t.done = d.done /\ t.open = d.open /\ t.calls = d.calls \cup {[op |-> "stop"]}
      /\ t.busy = [d.busy EXCEPT !.cancelling = TRUE]
  BY DEF Good, Cancelling, Dialogs
<1>5. /\ t.busy.submitting = d.busy.submitting /\ t.busy.preparing = d.busy.preparing
      /\ t.busy.switching = d.busy.switching
  BY <1>4 DEF Good, Dialogs, Business
<1> HIDE DEF t
<1>6. DialogInv(t)
  <2>1. \A c \in t.calls : c \in d.calls \/ c.op = "stop"
    BY <1>4
  <2> QED BY <1>3, <1>4, <1>5, <2>1, FrameGood DEF Good
<1>7. Same(d, t)
  BY <1>4, <1>5 DEF Same, Sent
<1> QED BY <1>3, <1>4, <1>6, <1>7 DEF Good, t

LEMMA CancelAnsweredGood ==
  ASSUME NEW F, NEW d, Good(F, d), NEW c \in d.calls, c.op = "stop",
         NEW t \in CancelAnswered(d, c)
  PROVE  Good(F, t) /\ Same(d, t) /\ t.seq = d.seq
<1> DEFINE b == [d.busy EXCEPT !.cancelling = FALSE]
<1>1. /\ b \in Business /\ d.calls \ {c} \subseteq Requests(F)
      /\ b.submitting = d.busy.submitting /\ b.preparing = d.busy.preparing
      /\ b.switching = d.busy.switching
  BY DEF Good, Dialogs, Business
<1>2. t \in Dialogs(F)
  BY <1>1 DEF Good, CancelAnswered, Dialogs
<1>3. /\ t.items = d.items /\ t.lease = d.lease /\ t.native = d.native /\ t.made = d.made
      /\ t.seq = d.seq /\ t.done = d.done /\ t.open = d.open /\ t.calls = d.calls \ {c}
      /\ t.busy \in {d.busy, b}
  BY DEF Good, CancelAnswered, Dialogs
<1>4. /\ t.busy.submitting = d.busy.submitting /\ t.busy.preparing = d.busy.preparing
      /\ t.busy.switching = d.busy.switching
  BY <1>1, <1>3
<1> HIDE DEF b
<1>5. DialogInv(t)
  <2>1. \A e \in t.calls : e \in d.calls
    BY <1>3
  <2>2. DialogInv(d) /\ d \in Dialogs(F)
    BY DEF Good
  <2> QED BY <1>2, <1>3, <1>4, <2>1, <2>2, FrameGood
<1>6. Same(d, t)
  BY <1>3, <1>4 DEF Same, Sent
<1> QED BY <1>2, <1>3, <1>5, <1>6 DEF Good

\* A call is answered without an effect.
LEMMA DroppedGood ==
  ASSUME NEW F, NEW d, Good(F, d), NEW c
  PROVE  LET t == [d EXCEPT !.calls = @ \ {c}]
         IN Good(F, t) /\ t.open = d.open /\ t.items = d.items /\ t.busy = d.busy
            /\ Sent(t) = Sent(d) \ {c} /\ t.seq = d.seq
<1> DEFINE t == [d EXCEPT !.calls = @ \ {c}]
<1>1. t \in Dialogs(F)
  BY DEF Good, Dialogs
<1>2. DialogInv(t)
  BY <1>1, FrameGood DEF Good, Dialogs
<1>3. t.open = d.open /\ t.items = d.items /\ t.busy = d.busy /\ t.seq = d.seq
      /\ t.calls = d.calls \ {c}
  BY DEF Good, Dialogs
<1>4. Sent(t) = Sent(d) \ {c}
  BY <1>3 DEF Sent
<1> QED BY <1>1, <1>2, <1>3, <1>4 DEF Good

LEMMA ClosedGood ==
  ASSUME NEW F, {} \in F, NEW d, Good(F, d), Sent(d) = {}
  PROVE  LET t == Closed(d)
         IN Good(F, t) /\ ~t.open /\ t.items = {} /\ Sent(t) = {} /\ t.seq = d.seq + 1
<1> DEFINE t == Closed(d)
<1>1. /\ t.seq = d.seq + 1 /\ t.native = Released(d) /\ t.lease = NoLease /\ t.open = FALSE
      /\ t.items = {} /\ t.busy = Quiet /\ t.made = d.made /\ t.calls = d.calls /\ t.done = d.done
  BY DEF Good, Dialogs, Closed
<1>2. t \in Dialogs(F)
  <2>1. Quiet \in Business /\ Released(d) \subseteq Leases(F)
    BY DEF Quiet, Business, Released, Good, Dialogs
  <2>2. d.seq + 1 \in Nat
    BY NumberType
  <2> QED BY <2>1, <2>2, NoLeaseType DEF Good, Dialogs, Closed
<1>3. OrderInv(t)
  BY <1>1, NumberType DEF Good, DialogInv, OrderInv, Numbered
<1>4. IdInv(t)
  BY <1>1 DEF Good, DialogInv, IdInv, NoLease, Released, Dialogs
<1>5. \A c \in d.calls : c.op \in {"prepare", "switch"} => c.seq # t.seq
  BY <1>1, NumberType
<1>6. LeaseInv(t) /\ SwitchInv(t)
  BY <1>1, <1>4, <1>5 DEF LeaseInv, SwitchInv, NoLease, IdInv
<1>7. Sent(t) = {}
  BY <1>1 DEF Sent
<1>8. BusyInv(t) /\ SentInv(t) /\ DeletesAsConfirmed(t)
  BY <1>1, <1>7 DEF BusyInv, SentInv, Quiet, DeletesAsConfirmed, Good, DialogInv
<1> QED BY <1>1, <1>2, <1>3, <1>4, <1>6, <1>7, <1>8 DEF Good, DialogInv

LEMMA PreparingGood ==
  ASSUME NEW F, {} \in F, NEW d, Good(F, d), ~d.busy.submitting, NEW mode \in Modes
  PROVE  LET t == Preparing(d, d.items, mode)
         IN Good(F, t) /\ Same(d, t) /\ t.seq = d.seq + 1
<1> DEFINE t == Preparing(d, d.items, mode)
           c0 == LeaseRequest(d.seq + 1, d.items, mode)
<1>1. /\ t.seq = d.seq + 1 /\ t.native = Released(d) /\ t.lease = NoLease /\ t.open = d.open
      /\ t.items = d.items /\ t.made = d.made /\ t.calls = d.calls \cup {c0} /\ t.done = d.done
      /\ t.busy.submitting = d.busy.submitting /\ t.busy.preparing = TRUE /\ t.busy.switching = FALSE
  BY DEF Good, Dialogs, Business, Preparing
<1>2. c0 \in Prepares(F) /\ c0.op = "prepare" /\ c0.seq = d.seq + 1 /\ c0.items = d.items
  BY DEF Good, Dialogs, Prepares, LeaseRequest
<1>3. t \in Dialogs(F)
  <2>1. [d.busy EXCEPT !.preparing = TRUE, !.switching = FALSE] \in Business
    BY DEF Business, Good, Dialogs
  <2>2. Released(d) \subseteq Leases(F) /\ d.calls \cup {c0} \subseteq Requests(F)
    BY <1>2 DEF Released, Good, Dialogs, Requests
  <2>3. d.seq + 1 \in Nat
    BY NumberType
  <2> QED BY <2>1, <2>2, <2>3, NoLeaseType DEF Good, Dialogs, Preparing
<1>4. \A c \in d.calls : c.op \in {"prepare", "switch"} => c.seq \in Nat /\ c.seq <= d.seq /\ c.seq # t.seq
  BY <1>1, NumberType
<1>5. OrderInv(t)
  BY <1>1, <1>2, <1>4 DEF Good, DialogInv, OrderInv, Numbered, Dialogs
<1>6. IdInv(t)
  BY <1>1, <1>2 DEF Good, DialogInv, IdInv, NoLease, Released, Dialogs
<1>7. LeaseInv(t) /\ SwitchInv(t)
  BY <1>1, <1>2, <1>4, <1>6 DEF LeaseInv, SwitchInv, NoLease, IdInv
<1>8. Sent(t) = Sent(d) /\ Sent(d) = {}
  BY <1>1, <1>2 DEF Sent, Good, DialogInv, BusyInv
<1>9. BusyInv(t) /\ SentInv(t) /\ DeletesAsConfirmed(t)
  BY <1>1, <1>8 DEF BusyInv, SentInv, DeletesAsConfirmed, Good, DialogInv
<1> QED BY <1>1, <1>3, <1>5, <1>6, <1>7, <1>8, <1>9 DEF Good, DialogInv, Same
LEMMA OpenedGood ==
  ASSUME NEW F, {} \in F, NEW d, Good(F, d), ~d.busy.submitting, ~d.open,
         NEW items \in F, NEW mode \in Modes
  PROVE  LET t == Opened(d, items, mode)
         IN Good(F, t) /\ t.open /\ t.items = items /\ ~t.busy.submitting
            /\ Sent(t) = {} /\ t.seq = d.seq + 1
<1> DEFINE e == [d EXCEPT !.open = TRUE, !.items = items, !.mode = mode, !.lease = NoLease,
                          !.shown = NoLease, !.busy = Quiet, !.acknowledged = FALSE]
           t == Preparing(e, items, mode)
           c0 == LeaseRequest(d.seq + 1, items, mode)
<1>1. /\ e.native = d.native /\ e.lease = NoLease /\ e.open = TRUE /\ e.items = items
      /\ e.made = d.made /\ e.calls = d.calls /\ e.done = d.done /\ e.seq = d.seq /\ e.busy = Quiet
  BY DEF Good, Dialogs
<1>2. e \in Dialogs(F)
  <2>1. Quiet \in Business
    BY DEF Quiet, Business
  <2> QED BY <2>1, NoLeaseType DEF Good, Dialogs
<1> HIDE DEF e
<1>3. /\ t.seq = d.seq + 1 /\ t.native \subseteq d.native /\ t.lease = NoLease /\ t.open = TRUE
      /\ t.items = items /\ t.made = d.made /\ t.calls = d.calls \cup {c0} /\ t.done = d.done
      /\ t.busy = [Quiet EXCEPT !.preparing = TRUE, !.switching = FALSE]
  BY <1>1, <1>2 DEF Dialogs, Preparing, Released
<1>4. c0 \in Prepares(F) /\ c0.op = "prepare" /\ c0.seq = d.seq + 1 /\ c0.items = items
  BY NumberType DEF Prepares, LeaseRequest
<1>5. t \in Dialogs(F)
  <2>1. [e.busy EXCEPT !.preparing = TRUE, !.switching = FALSE] \in Business
    BY <1>2 DEF Business, Dialogs
  <2>2. Released(e) \subseteq Leases(F) /\ e.calls \cup {LeaseRequest(e.seq + 1, items, mode)} \subseteq Requests(F)
    BY <1>1, <1>2, <1>4 DEF Released, Dialogs, Requests
  <2>3. e.seq + 1 \in Nat
    BY <1>1, NumberType
  <2> QED BY <1>2, <2>1, <2>2, <2>3, NoLeaseType DEF Dialogs, Preparing
<1> HIDE DEF t
<1>6. ~t.busy.submitting /\ ~t.busy.switching
  BY <1>3 DEF Quiet
<1>7. \A c \in d.calls : c.op \in {"prepare", "switch"} => c.seq \in Nat /\ c.seq <= d.seq /\ c.seq # t.seq
  BY <1>3, NumberType
<1>8. OrderInv(t)
  BY <1>3, <1>4, <1>7, NumberType DEF Good, DialogInv, OrderInv, Numbered
<1>9. IdInv(t)
  BY <1>3, <1>4 DEF Good, DialogInv, IdInv, NoLease, Dialogs
<1>10. LeaseInv(t) /\ SwitchInv(t)
  BY <1>3, <1>4, <1>7, <1>9 DEF LeaseInv, SwitchInv, NoLease, IdInv
<1>11. Sent(t) = {}
  BY <1>3, <1>4 DEF Sent, Good, DialogInv, BusyInv
<1>12. BusyInv(t) /\ SentInv(t) /\ DeletesAsConfirmed(t)
  BY <1>3, <1>6, <1>11 DEF BusyInv, SentInv, DeletesAsConfirmed, Good, DialogInv
<1>13. Opened(d, items, mode) = t
  BY DEF Opened, t, e
<1> QED BY <1>3, <1>5, <1>6, <1>8, <1>9, <1>10, <1>11, <1>12, <1>13 DEF Good, DialogInv

LEMMA RecheckedGood ==
  ASSUME NEW F, {} \in F, NEW d, Good(F, d), MayRecheck(d)
  PROVE  Good(F, Rechecked(d)) /\ Same(d, Rechecked(d)) /\ Rechecked(d).seq = d.seq + 1
<1>1. ~d.busy.submitting /\ d.mode \in Modes
  BY DEF MayRecheck, Good, Dialogs
<1> QED BY <1>1, PreparingGood DEF Rechecked

LEMMA PreparedGood ==
  ASSUME NEW F, {} \in F, NEW d, Good(F, d), NEW c \in d.calls, c.op = "prepare",
         NEW t \in Prepared(d, c)
  PROVE  Good(F, t) /\ Same(d, t) /\ t.seq = d.seq
<1> DEFINE new == [id |-> d.made + 1, mode |-> c.mode, items |-> c.items, executable |-> TRUE]
           b == [d.busy EXCEPT !.preparing = FALSE]
           u == [d EXCEPT !.calls = @ \ {c}, !.made = @ + 1]
           v == [u EXCEPT !.busy.preparing = FALSE, !.items = c.items]
<1>1. c \in Prepares(F) /\ d \in Dialogs(F)
  BY CallTypes DEF Good
<1>2. /\ new \in Leases(F) /\ new.id = d.made + 1 /\ new.items = c.items
      /\ [new EXCEPT !.executable = FALSE] \in Leases(F)
      /\ b \in Business /\ b.submitting = d.busy.submitting /\ b.preparing = FALSE
      /\ b.switching = d.busy.switching
  <2>1. d.made + 1 \in Nat /\ c.mode \in Modes /\ c.items \in F /\ d.busy \in Business
    BY <1>1 DEF Prepares, Dialogs
  <2>2. new \in Leases(F)
    BY <2>1 DEF Leases
  <2>3. [new EXCEPT !.executable = FALSE] \in Leases(F)
    BY <2>1 DEF Leases
  <2>4. b \in Business /\ b.submitting = d.busy.submitting /\ b.preparing = FALSE
        /\ b.switching = d.busy.switching
    BY <2>1 DEF Business
  <2> QED BY <2>2, <2>3, <2>4
<1>3. c.seq = d.seq => c.items = d.items /\ d.lease.id = 0
  BY DEF Good, DialogInv, LeaseInv
<1>4. \/ t = u
      \/ c.seq = d.seq /\ t = [u EXCEPT !.busy.preparing = FALSE]
      \/ c.seq = d.seq /\ t = [v EXCEPT !.lease = new, !.shown = new, !.native = @ \cup {new}]
      \/ c.seq = d.seq /\ t = [v EXCEPT !.shown = [new EXCEPT !.executable = FALSE]]
  <2>1. CASE c.seq # d.seq
    BY <2>1 DEF Prepared
  <2>2. CASE c.seq = d.seq /\ t # [u EXCEPT !.busy.preparing = FALSE]
    <3>1. PICK named \in SUBSET c.items :
            LET items == ApplyRefreshedCleanupTargets(c.items, named)
                w == [u EXCEPT !.busy.preparing = FALSE, !.items = items]
            IN t \in IF items = {} THEN {[u EXCEPT !.busy.preparing = FALSE]}
                     ELSE {[w EXCEPT !.lease = new, !.shown = new, !.native = @ \cup {new}],
                           [w EXCEPT !.shown = [new EXCEPT !.executable = FALSE]]}
      BY <2>2, Zenon DEF Prepared
    <3>2. ApplyRefreshedCleanupTargets(c.items, named) = c.items
      BY <2>2, <3>1 DEF ApplyRefreshedCleanupTargets
    <3> HIDE DEF u, new
    <3> QED BY <2>2, <3>1, <3>2
  <2> QED BY <2>1, <2>2
<1>5. t \in Dialogs(F)
  <2>1. d.calls \ {c} \subseteq Requests(F) /\ d.made + 1 \in Nat /\ c.items \in F
    BY <1>1 DEF Dialogs, Prepares
  <2>2. u \in Dialogs(F)
    BY <1>1, <2>1 DEF Dialogs
  <2>3. [u EXCEPT !.busy.preparing = FALSE] \in Dialogs(F) /\ v \in Dialogs(F)
    BY <1>1, <1>2, <2>1 DEF Dialogs
  <2> HIDE DEF v, u, new
  <2>4. /\ [v EXCEPT !.lease = new, !.shown = new, !.native = @ \cup {new}] \in Dialogs(F)
        /\ [v EXCEPT !.shown = [new EXCEPT !.executable = FALSE]] \in Dialogs(F)
    BY <1>2, <2>3 DEF Dialogs
  <2> QED BY <1>4, <2>2, <2>3, <2>4
<1>6. /\ t.seq = d.seq /\ t.open = d.open /\ t.made = d.made + 1 /\ t.done = d.done
      /\ t.calls = d.calls \ {c} /\ t.items = d.items /\ t.busy \in {d.busy, b}
      /\ \/ t.native = d.native /\ t.lease = d.lease
         \/ t.native = d.native \cup {new} /\ t.lease = new /\ c.seq = d.seq
  <2> HIDE DEF new
  <2>1. /\ u.seq = d.seq /\ u.open = d.open /\ u.made = d.made + 1 /\ u.done = d.done
        /\ u.calls = d.calls \ {c} /\ u.items = d.items /\ u.busy = d.busy
        /\ u.native = d.native /\ u.lease = d.lease /\ u \in Dialogs(F)
    <3>1. d.calls \ {c} \subseteq Requests(F) /\ d.made + 1 \in Nat
      BY <1>1 DEF Dialogs
    <3> QED BY <1>1, <3>1 DEF Dialogs
  <2> HIDE DEF u
  <2>2. /\ v.seq = d.seq /\ v.open = d.open /\ v.made = d.made + 1 /\ v.done = d.done
        /\ v.calls = d.calls \ {c} /\ v.items = c.items /\ v.busy = b
        /\ v.native = d.native /\ v.lease = d.lease /\ v \in Dialogs(F)
    <3>1. c.items \in F
      BY <1>1 DEF Prepares
    <3> QED BY <1>2, <2>1, <3>1 DEF Dialogs
  <2>3. CASE t = u
    BY <2>1, <2>3
  <2>4. CASE c.seq = d.seq /\ t = [u EXCEPT !.busy.preparing = FALSE]
    BY <2>1, <2>4 DEF Dialogs
  <2> HIDE DEF v, b
  <2>5. CASE c.seq = d.seq /\ t = [v EXCEPT !.lease = new, !.shown = new, !.native = @ \cup {new}]
    BY <1>3, <2>2, <2>5 DEF Dialogs
  <2>6. CASE c.seq = d.seq /\ t = [v EXCEPT !.shown = [new EXCEPT !.executable = FALSE]]
    BY <1>3, <2>2, <2>6 DEF Dialogs
  <2> QED BY <1>4, <2>3, <2>4, <2>5, <2>6 DEF v
<1> HIDE DEF new, b, u, v
<1>7. /\ t.busy.submitting = d.busy.submitting /\ t.busy.switching = d.busy.switching
      /\ t.busy.preparing => d.busy.preparing
  BY <1>1, <1>2, <1>6 DEF Dialogs, Business
<1>8. OrderInv(t)
  BY <1>6 DEF Good, DialogInv, OrderInv, Numbered
<1>9. d.made \in Nat /\ \A l \in d.native : l.id \in Nat /\ l.id <= d.made
  BY <1>1 DEF Good, DialogInv, IdInv, Dialogs, Leases
<1>10. d.lease.id \in Nat /\ d.lease.id <= d.made
       /\ \A e \in d.calls : e.op \in {"switch", "execute"} => e.id \in Nat /\ e.id <= d.made
  <2>1. \A e \in d.calls : e.op \in {"switch", "execute"} => e.id \in Nat
    BY <1>1, CallTypes DEF Switches, Executes
  <2> QED BY <1>1, <2>1 DEF Good, DialogInv, IdInv, Dialogs, Leases
<1>11. IdInv(t)
  BY <1>2, <1>6, <1>9, <1>10 DEF Good, DialogInv, IdInv
<1>12. \A e \in d.calls : e.op \in {"prepare", "switch"} /\ e.seq = d.seq /\ c.seq = d.seq => e = c
  BY DEF Good, DialogInv, OrderInv, Numbered
<1>13. LeaseInv(t)
  BY <1>2, <1>3, <1>6, <1>9, <1>12 DEF Good, DialogInv, LeaseInv
<1>14. SwitchInv(t)
  <2>1. ASSUME NEW e \in t.calls, e.op = "switch"
        PROVE  /\ e.seq = t.seq => t.busy.switching /\ e.id = t.lease.id
               /\ e.id = t.lease.id => e.seq = t.seq
    <3>1. e \in d.calls /\ e # c
      BY <1>6, <2>1
    <3>2. /\ e.seq = d.seq => d.busy.switching /\ e.id = d.lease.id
          /\ e.id = d.lease.id => e.seq = d.seq
      BY <2>1, <3>1 DEF Good, DialogInv, SwitchInv
    <3>3. CASE t.lease = d.lease
      BY <1>6, <1>7, <3>2, <3>3
    <3>4. CASE t.lease = new /\ c.seq = d.seq
      <4>1. e.id # t.lease.id /\ e.seq # t.seq
        <5>1. t.lease.id = d.made + 1 /\ e.id \in Nat /\ e.id <= d.made /\ d.made \in Nat
          BY <1>2, <1>9, <1>10, <2>1, <3>1, <3>4
        <5>2. e.seq # d.seq
          BY <1>12, <2>1, <3>1, <3>4
        <5> QED BY <1>6, <5>1, <5>2
      <4> QED BY <4>1
    <3> QED BY <1>6, <3>3, <3>4
  <2> QED BY <2>1 DEF SwitchInv
<1>15. Sent(t) = Sent(d)
  BY <1>6 DEF Sent
<1>16. BusyInv(t)
  BY <1>6, <1>7, <1>15 DEF BusyInv, Good, DialogInv
<1>17. SentInv(t)
  <2>1. ASSUME NEW e \in Sent(d), NEW l \in t.native, l.id = e.id PROVE l \in d.native
    <3>1. e.id \in Nat /\ e.id <= d.made /\ d.made \in Nat
      BY <1>9, <1>10, <2>1 DEF Sent
    <3>2. CASE l = new
      BY <1>2, <2>1, <3>1, <3>2
    <3> QED BY <1>6, <3>2
  <2> QED BY <1>6, <1>15, <2>1 DEF SentInv, Good, DialogInv
<1> QED BY <1>5, <1>6, <1>7, <1>8, <1>11, <1>13, <1>14, <1>15, <1>16, <1>17
        DEF Good, DialogInv, Same, DeletesAsConfirmed
LEMMA SwitchingGood ==
  ASSUME NEW F, NEW d, Good(F, d), MaySwitch(d), NEW mode \in Modes
  PROVE  Good(F, Switching(d, mode)) /\ Same(d, Switching(d, mode)) /\ Switching(d, mode).seq >= d.seq
         /\ (Switching(d, mode).seq = d.seq \/ Switching(d, mode).seq = d.seq + 1)
<1> DEFINE e == [d EXCEPT !.mode = mode, !.acknowledged = FALSE]
           b == [d.busy EXCEPT !.switching = TRUE]
           w == [op |-> "switch", seq |-> d.seq + 1, id |-> d.lease.id, mode |-> mode, previous |-> d.mode]
           t == [e EXCEPT !.seq = @ + 1, !.busy.switching = TRUE, !.calls = @ \cup {w}]
<1>1. /\ e \in Dialogs(F) /\ e.items = d.items /\ e.lease = d.lease /\ e.native = d.native
      /\ e.made = d.made /\ e.seq = d.seq /\ e.done = d.done /\ e.open = d.open
      /\ e.calls = d.calls /\ e.busy = d.busy
  BY DEF Good, Dialogs
<1> HIDE DEF e
<1>2. DialogInv(e)
  BY <1>1, FrameGood DEF Good
<1>3. CASE d.lease.id = 0
  <2>1. Switching(d, mode) = e
    BY <1>3 DEF Switching, e
  <2> QED BY <1>1, <1>2, <2>1, NumberType DEF Good, Same, Sent
<1>4. CASE d.lease.id # 0
  <2>1. Switching(d, mode) = t
    BY <1>4 DEF Switching, e
  <2>2. d.seq \in Nat /\ d.lease.id \in Nat /\ d.mode \in Modes /\ d.busy \in Business /\ d.made \in Nat
    BY DEF Good, Dialogs, Leases
  <2>3. w \in Switches /\ w.op = "switch" /\ w.seq = d.seq + 1 /\ w.id = d.lease.id
    BY <2>2 DEF Switches
  <2>4. /\ b \in Business /\ b.switching = TRUE /\ b.submitting = d.busy.submitting
        /\ b.preparing = d.busy.preparing
    BY <2>2 DEF Business
  <2> HIDE DEF w
  <2>5. /\ t \in Dialogs(F) /\ t.items = d.items /\ t.lease = d.lease /\ t.native = d.native
        /\ t.made = d.made /\ t.seq = d.seq + 1 /\ t.done = d.done /\ t.open = d.open
        /\ t.calls = d.calls \cup {w} /\ t.busy = b
    <3>1. d.calls \cup {w} \subseteq Requests(F) /\ d.seq + 1 \in Nat
      BY <2>2, <2>3 DEF Good, Dialogs, Requests
    <3> QED BY <1>1, <2>4, <3>1 DEF Dialogs
  <2> HIDE DEF t, b
  <2>6. \A c \in d.calls : c.op \in {"prepare", "switch"} => c.seq \in Nat /\ c.seq <= d.seq
    BY NumberType
  <2>7. OrderInv(t)
    BY <2>2, <2>3, <2>5, <2>6 DEF Good, DialogInv, OrderInv, Numbered
  <2>8. IdInv(t)
    BY <1>4, <2>2, <2>3, <2>5 DEF Good, DialogInv, IdInv
  <2>9. LeaseInv(t)
    BY <2>2, <2>3, <2>5, <2>6 DEF Good, DialogInv, LeaseInv
  <2>10. ~d.busy.switching /\ ~d.busy.submitting
    BY DEF MaySwitch
  <2>11. \A c \in d.calls : c.op = "switch" => c.id # d.lease.id /\ c.seq # t.seq
    BY <2>2, <2>5, <2>6, <2>10 DEF Good, DialogInv, SwitchInv
  <2>12. SwitchInv(t)
    BY <2>3, <2>4, <2>5, <2>11 DEF SwitchInv
  <2>13. Sent(t) = Sent(d) /\ Sent(d) = {}
    BY <2>3, <2>5, <2>10 DEF Sent, Good, DialogInv, BusyInv
  <2>14. BusyInv(t) /\ SentInv(t) /\ DeletesAsConfirmed(t)
    BY <2>4, <2>5, <2>10, <2>13 DEF BusyInv, SentInv, DeletesAsConfirmed, Good, DialogInv
  <2>15. Good(F, t)
    BY <2>5, <2>7, <2>8, <2>9, <2>12, <2>14 DEF Good, DialogInv
  <2>16. Same(d, t) /\ t.seq >= d.seq
    BY <2>2, <2>4, <2>5, <2>13 DEF Same
  <2> QED BY <2>1, <2>5, <2>15, <2>16
<1> QED BY <1>3, <1>4

LEMMA SwitchedGood ==
  ASSUME NEW F, NEW d, Good(F, d), NEW c \in d.calls, c.op = "switch",
         NEW t \in Switched(d, c)
  PROVE  Good(F, t) /\ Same(d, t) /\ t.seq = d.seq
<1> DEFINE e == [d EXCEPT !.calls = @ \ {c}]
           b == [d.busy EXCEPT !.switching = FALSE]
           taken == [id |-> c.id, mode |-> c.mode, executable |-> TRUE,
                     items |-> UNION {l.items : l \in {n \in d.native : n.id = c.id}}]
           rest == {l \in d.native : l.id # c.id}
<1>1. c \in Switches /\ d \in Dialogs(F)
  BY CallTypes DEF Good
<1>2. /\ b \in Business /\ b.switching = FALSE /\ b.submitting = d.busy.submitting
      /\ b.preparing = d.busy.preparing
  BY <1>1 DEF Dialogs, Business
<1>3. ASSUME NEW l \in d.native, l.id = c.id
      PROVE  taken \in Leases(F) /\ taken.id = c.id /\ taken.mode = c.mode /\ taken.items = l.items
  <2>1. {n \in d.native : n.id = c.id} = {l}
    BY <1>3 DEF Good, DialogInv, IdInv
  <2>2. UNION {n.items : n \in {l}} = l.items
    OBVIOUS
  <2>3. l.items \in F /\ c.id \in Nat /\ c.mode \in Modes
    BY <1>1 DEF Dialogs, Leases, Switches
  <2> QED BY <2>1, <2>2, <2>3 DEF Leases
<1>4. \/ c.seq # d.seq /\ t = e
      \/ c.seq = d.seq /\ t = [e EXCEPT !.busy.switching = FALSE, !.mode = c.previous]
      \/ /\ \E l \in d.native : l.id = c.id
         /\ \/ c.seq # d.seq /\ t = [e EXCEPT !.native = rest \cup {taken}]
            \/ c.seq = d.seq /\ t = [[e EXCEPT !.native = rest \cup {taken}] EXCEPT !.busy.switching = FALSE,
                                       !.lease = taken, !.shown = taken]
  <2> HIDE DEF taken
  <2> QED BY <1>1 DEF Switched, Dialogs, taken
<1> HIDE DEF taken, rest
<1>5. /\ e \in Dialogs(F) /\ e.items = d.items /\ e.lease = d.lease /\ e.native = d.native
      /\ e.made = d.made /\ e.seq = d.seq /\ e.done = d.done /\ e.open = d.open
      /\ e.calls = d.calls \ {c} /\ e.busy = d.busy
  <2>1. d.calls \ {c} \subseteq Requests(F)
    BY <1>1 DEF Dialogs
  <2> QED BY <1>1, <2>1 DEF Dialogs
<1> HIDE DEF e
<1>6. /\ t \in Dialogs(F) /\ t.items = d.items /\ t.made = d.made /\ t.seq = d.seq
      /\ t.done = d.done /\ t.open = d.open /\ t.calls = d.calls \ {c}
      /\ \/ t.busy = d.busy /\ t.lease = d.lease /\ t.native = d.native /\ c.seq # d.seq
         \/ t.busy = b /\ t.lease = d.lease /\ t.native = d.native /\ c.seq = d.seq
         \/ /\ \E l \in d.native : l.id = c.id
            /\ t.native = rest \cup {taken}
            /\ \/ c.seq # d.seq /\ t.busy = d.busy /\ t.lease = d.lease
               \/ c.seq = d.seq /\ t.busy = b /\ t.lease = taken
  <2>1. CASE c.seq # d.seq /\ t = e
    BY <1>5, <2>1
  <2>2. CASE c.seq = d.seq /\ t = [e EXCEPT !.busy.switching = FALSE, !.mode = c.previous]
    <3>1. c.previous \in Modes
      BY <1>1 DEF Switches
    <3> QED BY <1>2, <1>5, <2>2, <3>1 DEF Dialogs
  <2> DEFINE m == [e EXCEPT !.native = rest \cup {taken}]
  <2>3. ASSUME NEW l \in d.native, l.id = c.id
        PROVE  /\ taken \in Leases(F)
               /\ m \in Dialogs(F) /\ m.items = d.items /\ m.lease = d.lease
               /\ m.native = rest \cup {taken} /\ m.made = d.made /\ m.seq = d.seq
               /\ m.done = d.done /\ m.open = d.open /\ m.calls = d.calls \ {c} /\ m.busy = d.busy
    <3>1. taken \in Leases(F) /\ rest \cup {taken} \subseteq Leases(F)
      BY <1>1, <1>3, <2>3 DEF Dialogs, rest
    <3> QED BY <1>5, <3>1 DEF Dialogs
  <2> HIDE DEF m
  <2>4. CASE (\E l \in d.native : l.id = c.id) /\ c.seq # d.seq /\ t = m
    BY <2>3, <2>4
  <2>5. CASE /\ \E l \in d.native : l.id = c.id
             /\ c.seq = d.seq /\ t = [m EXCEPT !.busy.switching = FALSE, !.lease = taken, !.shown = taken]
    BY <1>2, <2>3, <2>5 DEF Dialogs
  <2> HIDE DEF b
  <2> QED BY <1>4, <2>1, <2>2, <2>4, <2>5 DEF m
<1> HIDE DEF b
<1>7. /\ t.busy.submitting = d.busy.submitting /\ t.busy.preparing = d.busy.preparing
      /\ c.seq # d.seq => t.busy = d.busy /\ t.lease = d.lease
  BY <1>2, <1>6
<1>8. ASSUME NEW l \in t.native
      PROVE  \/ l \in d.native /\ (l.id # c.id \/ t.native = d.native)
             \/ l = taken /\ l.id = c.id /\ t.native = rest \cup {taken}
  BY <1>3, <1>6, <1>8 DEF rest
<1>9. OrderInv(t)
  BY <1>6 DEF Good, DialogInv, OrderInv, Numbered
<1>10. 0 < c.id /\ c.id <= d.made
  BY DEF Good, DialogInv, IdInv
<1>11. \A e2 \in t.calls : e2.op \in {"prepare", "switch"} /\ c.seq = d.seq => e2.seq # d.seq
  BY <1>6 DEF Good, DialogInv, OrderInv, Numbered
<1>12. /\ c.seq = d.seq => c.id = d.lease.id
       /\ c.id = d.lease.id => c.seq = d.seq
  BY DEF Good, DialogInv, SwitchInv
<1>13. \/ t.lease = d.lease
       \/ t.lease = taken /\ t.lease.id = c.id /\ c.seq = d.seq
  <2>1. \A l \in d.native : l.id = c.id => taken.id = c.id
    BY <1>3
  <2> QED BY <1>6, <2>1
<1>14. IdInv(t)
  <2>1. t.lease.id <= t.made
    BY <1>6, <1>10, <1>13 DEF Good, DialogInv, IdInv
  <2>2. \A l \in t.native : 0 < l.id /\ l.id <= t.made
    BY <1>6, <1>8, <1>10 DEF Good, DialogInv, IdInv
  <2>3. \A l, m \in t.native : l.id = m.id => l = m
    BY <1>8 DEF Good, DialogInv, IdInv, rest
  <2>4. \A e2 \in t.calls : e2.op \in {"switch", "execute"} => 0 < e2.id /\ e2.id <= t.made
    BY <1>6 DEF Good, DialogInv, IdInv
  <2> QED BY <2>1, <2>2, <2>3, <2>4 DEF IdInv
<1>15. LeaseInv(t)
  <2>1. \A l \in t.native : l.id = t.lease.id => l = t.lease
    BY <1>8, <1>12, <1>13, <1>6 DEF Good, DialogInv, LeaseInv, rest
  <2>2. t.lease.id # 0 => t.lease.items = t.items
    <3>1. CASE t.lease = d.lease
      BY <1>6, <3>1 DEF Good, DialogInv, LeaseInv
    <3>2. CASE t.lease # d.lease
      <4>1. PICK l \in d.native : l.id = c.id
        BY <1>6, <3>2
      <4>2. t.lease = taken /\ taken.items = l.items /\ l = d.lease /\ d.lease.id # 0
        BY <1>3, <1>10, <1>12, <1>13, <3>2, <4>1 DEF Good, DialogInv, LeaseInv
      <4> QED BY <1>6, <4>2 DEF Good, DialogInv, LeaseInv
    <3> QED BY <3>1, <3>2
  <2>3. \A e2 \in t.calls : e2.op = "prepare" /\ e2.seq = t.seq => t.lease.id = 0 /\ e2.items = t.items
    BY <1>6, <1>7, <1>11 DEF Good, DialogInv, LeaseInv
  <2> QED BY <2>1, <2>2, <2>3 DEF LeaseInv
<1>16. SwitchInv(t)
  <2>1. ASSUME NEW e2 \in t.calls, e2.op = "switch"
        PROVE  /\ e2.seq = t.seq => t.busy.switching /\ e2.id = t.lease.id
               /\ e2.id = t.lease.id => e2.seq = t.seq
    <3>1. /\ e2 \in d.calls
          /\ e2.seq = d.seq => d.busy.switching /\ e2.id = d.lease.id
          /\ e2.id = d.lease.id => e2.seq = d.seq
      BY <1>6, <2>1 DEF Good, DialogInv, SwitchInv
    <3>2. CASE c.seq # d.seq
      BY <1>6, <1>7, <3>1, <3>2
    <3>3. CASE c.seq = d.seq
      <4>1. e2.seq # d.seq /\ t.lease.id = d.lease.id
        BY <1>11, <1>12, <1>13, <2>1, <3>3
      <4> QED BY <1>6, <3>1, <4>1
    <3> QED BY <3>2, <3>3
  <2> QED BY <2>1 DEF SwitchInv
<1>17. Sent(t) = Sent(d)
  BY <1>6 DEF Sent
<1>18. BusyInv(t)
  <2>1. t.busy.switching => d.busy.switching
    BY <1>2, <1>6
  <2> QED BY <1>6, <1>7, <1>17, <2>1 DEF BusyInv, Good, DialogInv
<1>19. SentInv(t)
  <2>1. ASSUME NEW e2 \in Sent(d), NEW l \in t.native, l.id = e2.id PROVE l \in d.native
    <3>1. c.id # e2.id
      BY DEF SentInv, Good, DialogInv
    <3> QED BY <1>8, <2>1, <3>1
  <2> QED BY <1>6, <1>17, <2>1 DEF SentInv, Good, DialogInv
<1> QED BY <1>6, <1>7, <1>9, <1>14, <1>15, <1>16, <1>17, <1>18, <1>19
        DEF Good, DialogInv, Same, DeletesAsConfirmed

LEMMA ConfirmedGood ==
  ASSUME NEW F, NEW d, Good(F, d), MayConfirm(d)
  PROVE  LET t == Confirmed(d)
         IN Good(F, t) /\ t.open = d.open /\ t.items = d.items /\ t.busy.submitting /\ t.seq = d.seq
            /\ t.lease = d.lease
<1> DEFINE b == [d.busy EXCEPT !.submitting = TRUE, !.cancelling = FALSE]
           x == [op |-> "execute", id |-> d.lease.id, items |-> d.items, mode |-> d.mode,
                 acknowledged |-> d.acknowledged]
           t == Confirmed(d)
<1>1. /\ d.open /\ d.lease.id # 0 /\ d.lease.mode = d.mode /\ d.busy = Quiet
      /\ d.mode = "permanent" => d.acknowledged
  BY DEF MayConfirm
<1>2. /\ b \in Business /\ b.submitting = TRUE /\ b.preparing = FALSE /\ b.switching = FALSE
      /\ ~d.busy.submitting /\ ~d.busy.switching
  <2>1. /\ d.busy \in Business
        /\ d.busy.preparing = FALSE /\ d.busy.switching = FALSE /\ d.busy.submitting = FALSE
    BY <1>1 DEF Business, Quiet
  <2> QED BY <2>1 DEF Business
<1>3. /\ x \in Executes(F) /\ x.op = "execute" /\ x.id = d.lease.id /\ x.items = d.items
      /\ x.mode = d.mode /\ x.acknowledged = d.acknowledged
  BY DEF Good, Dialogs, Executes, Leases
<1>4. /\ t.items = d.items /\ t.lease = d.lease /\ t.native = d.native
      /\ t.made = d.made /\ t.seq = d.seq /\ t.done = d.done /\ t.open = d.open
      /\ t.calls = d.calls \cup {x} /\ t.busy = b
  BY DEF Good, Dialogs, Confirmed
<1>5. t \in Dialogs(F)
  <2>1. d.calls \cup {x} \subseteq Requests(F)
    BY <1>3 DEF Good, Dialogs, Requests
  <2> QED BY <1>2, <2>1 DEF Good, Dialogs, Confirmed
<1> HIDE DEF t, b, x
<1>6. OrderInv(t) /\ LeaseInv(t) /\ DeletesAsConfirmed(t)
  BY <1>3, <1>4 DEF Good, DialogInv, OrderInv, Numbered, LeaseInv, DeletesAsConfirmed
<1>7. IdInv(t)
  <2>1. d.lease.id \in Nat
    BY DEF Good, Dialogs, Leases
  <2> QED BY <1>1, <1>3, <1>4, <2>1 DEF Good, DialogInv, IdInv
<1>8. \A c \in d.calls : c.op = "switch" => c.id # d.lease.id /\ c.seq # d.seq
  BY <1>2 DEF Good, DialogInv, SwitchInv
<1>9. SwitchInv(t)
  BY <1>3, <1>4, <1>8 DEF SwitchInv
<1>10. Sent(t) = {x}
  <2>1. Sent(d) = {}
    BY <1>2 DEF Good, DialogInv, BusyInv
  <2> QED BY <1>3, <1>4, <2>1 DEF Sent
<1>11. BusyInv(t)
  BY <1>1, <1>2, <1>4 DEF BusyInv
<1>12. SentInv(t)
  <2>1. \A l \in d.native : l.id = x.id => l.items = x.items /\ l.mode = x.mode
    BY <1>1, <1>3 DEF Good, DialogInv, LeaseInv
  <2>2. x.mode = "permanent" => x.acknowledged
    BY <1>1, <1>3
  <2>3. \A e \in t.calls : e.op = "switch" => e.id # x.id
    BY <1>3, <1>4, <1>8
  <2> QED BY <1>4, <1>10, <2>1, <2>2, <2>3 DEF SentInv
<1> QED BY <1>2, <1>4, <1>5, <1>6, <1>7, <1>9, <1>11, <1>12 DEF Good, DialogInv, t

\* The native side takes the lease out: what is deleted is what was sent.
LEMMA TakenGood ==
  ASSUME NEW F, NEW d, Good(F, d), NEW c \in d.calls, c.op = "execute", Executable(d, c)
  PROVE  LET t == Taken(d, c)
         IN Good(F, t) /\ t.open = d.open /\ t.items = d.items /\ t.busy = d.busy /\ t.seq = d.seq
            /\ Sent(t) = {}
            /\ \E l \in d.native : t.done = d.done \cup {[items |-> l.items, mode |-> l.mode, confirmed |-> c]}
<1> DEFINE l == CHOOSE n \in d.native : n.id = c.id
           r == [items |-> l.items, mode |-> l.mode, confirmed |-> c]
           t == Taken(d, c)
<1>1. l \in d.native /\ l.id = c.id
  BY DEF Executable
<1>2. l \in Leases(F) /\ c \in Executes(F) /\ c \in Sent(d)
  BY <1>1, CallTypes DEF Good, Dialogs, Sent
<1>3. l.items = c.items /\ l.mode = c.mode /\ (c.mode = "permanent" => c.acknowledged)
  BY <1>1, <1>2 DEF Good, DialogInv, SentInv
<1> HIDE DEF l
<1>4. /\ r \in [items : F, mode : Modes, confirmed : Executes(F)]
      /\ r.items = l.items /\ r.mode = l.mode /\ r.confirmed = c
  BY <1>2 DEF Leases
<1>5. /\ t.items = d.items /\ t.lease = d.lease /\ t.native = d.native \ {l}
      /\ t.made = d.made /\ t.seq = d.seq /\ t.done = d.done \cup {r} /\ t.open = d.open
      /\ t.calls = d.calls \ {c} /\ t.busy = d.busy
  BY DEF Good, Dialogs, Taken, l
<1>6. t \in Dialogs(F)
  <2>1. /\ d.calls \ {c} \subseteq Requests(F) /\ d.native \ {l} \subseteq Leases(F)
        /\ d.done \cup {r} \subseteq [items : F, mode : Modes, confirmed : Executes(F)]
    BY <1>4 DEF Good, Dialogs
  <2> QED BY <2>1 DEF Good, Dialogs, Taken, l
<1> HIDE DEF t, r
<1>7. OrderInv(t) /\ IdInv(t)
  BY <1>5 DEF Good, DialogInv, OrderInv, Numbered, IdInv
<1>8. LeaseInv(t) /\ SwitchInv(t)
  BY <1>5 DEF Good, DialogInv, LeaseInv, SwitchInv
<1>9. Sent(t) = {}
  BY <1>2, <1>5 DEF Good, DialogInv, SentInv, Sent
<1>10. BusyInv(t) /\ SentInv(t)
  BY <1>5, <1>9 DEF Good, DialogInv, BusyInv, SentInv
<1>11. DeletesAsConfirmed(t)
  BY <1>3, <1>4, <1>5 DEF Good, DialogInv, DeletesAsConfirmed
<1> QED BY <1>1, <1>5, <1>6, <1>7, <1>8, <1>9, <1>10, <1>11 DEF Good, DialogInv, t, r

LEMMA ForgottenGood ==
  ASSUME NEW F, {} \in F, NEW d, Good(F, d), d.busy.submitting
  PROVE  LET t == Forgotten(d)
         IN Good(F, t) /\ Same(d, t) /\ t.seq = d.seq /\ t.busy = d.busy /\ t.done = d.done
<1> DEFINE t == Forgotten(d)
<1>1. /\ t.items = d.items /\ t.lease = NoLease /\ t.native = d.native
      /\ t.made = d.made /\ t.seq = d.seq /\ t.done = d.done /\ t.open = d.open
      /\ t.calls = d.calls /\ t.busy = d.busy
  BY DEF Good, Dialogs, Forgotten
<1>2. t \in Dialogs(F)
  BY NoLeaseType DEF Good, Dialogs, Forgotten
<1> HIDE DEF t
<1>3. Sent(t) = Sent(d)
  BY <1>1 DEF Sent
<1>4. OrderInv(t) /\ BusyInv(t) /\ SentInv(t) /\ DeletesAsConfirmed(t)
  BY <1>1, <1>3 DEF Good, DialogInv, OrderInv, Numbered, BusyInv, SentInv, DeletesAsConfirmed
<1>5. IdInv(t)
  BY <1>1 DEF Good, DialogInv, IdInv, NoLease, Dialogs
<1>6. \A c \in d.calls : c.op = "switch" => c.seq # d.seq
  BY DEF Good, DialogInv, SwitchInv, BusyInv
<1>7. LeaseInv(t) /\ SwitchInv(t)
  BY <1>1, <1>5, <1>6 DEF LeaseInv, SwitchInv, NoLease, IdInv, Good, DialogInv
<1> QED BY <1>1, <1>2, <1>3, <1>4, <1>5, <1>7 DEF Good, DialogInv, Same, t

LEMMA FailedGood ==
  ASSUME NEW F, {} \in F, NEW d, Good(F, d), d.busy.submitting, Sent(d) = {}
  PROVE  LET t == Failed(d)
         IN Good(F, t) /\ t.open = d.open /\ t.items = d.items /\ t.seq = d.seq /\ Sent(t) = {}
<1> DEFINE e == Forgotten(d)
           b == [e.busy EXCEPT !.submitting = FALSE, !.cancelling = FALSE]
           t == [e EXCEPT !.busy.submitting = FALSE, !.busy.cancelling = FALSE]
<1>1. Good(F, e) /\ Same(d, e) /\ e.seq = d.seq /\ e.busy = d.busy
  BY ForgottenGood
<1> HIDE DEF e
<1>2. /\ b \in Business /\ b.submitting = FALSE /\ b.preparing = e.busy.preparing
      /\ b.switching = e.busy.switching
  BY <1>1 DEF Good, Dialogs, Business
<1>3. /\ t.items = e.items /\ t.lease = e.lease /\ t.native = e.native
      /\ t.made = e.made /\ t.seq = e.seq /\ t.done = e.done /\ t.open = e.open
      /\ t.calls = e.calls /\ t.busy = b
  BY <1>1 DEF Good, Dialogs
<1>4. t \in Dialogs(F)
  BY <1>1, <1>2 DEF Good, Dialogs
<1> HIDE DEF t, b
<1>5. Sent(t) = {}
  BY <1>1, <1>3 DEF Sent, Same
<1>6. OrderInv(t) /\ IdInv(t) /\ LeaseInv(t) /\ SwitchInv(t) /\ DeletesAsConfirmed(t)
  BY <1>1, <1>2, <1>3 DEF Good, DialogInv, OrderInv, Numbered, IdInv, LeaseInv, SwitchInv, DeletesAsConfirmed
<1>7. BusyInv(t) /\ SentInv(t)
  BY <1>2, <1>3, <1>5 DEF BusyInv, SentInv
<1>8. Failed(d) = t
  BY DEF Failed, t, e
<1> QED BY <1>1, <1>3, <1>4, <1>5, <1>6, <1>7, <1>8 DEF Good, DialogInv, Same
LEMMA QuietenedGood ==
  ASSUME NEW F, NEW d, Good(F, d)
  PROVE  LET t == [d EXCEPT !.busy.cancelling = FALSE] IN Good(F, t) /\ Same(d, t)
<1> DEFINE t == [d EXCEPT !.busy.cancelling = FALSE]
           b == [d.busy EXCEPT !.cancelling = FALSE]
<1>1. /\ b \in Business /\ b.submitting = d.busy.submitting
      /\ b.preparing = d.busy.preparing /\ b.switching = d.busy.switching
  BY DEF Good, Dialogs, Business
<1>2. /\ t.items = d.items /\ t.lease = d.lease /\ t.native = d.native
      /\ t.made = d.made /\ t.seq = d.seq /\ t.done = d.done /\ t.open = d.open
      /\ t.calls = d.calls /\ t.busy = b
  BY DEF Good, Dialogs
<1>3. t \in Dialogs(F)
  BY <1>1 DEF Good, Dialogs
<1> HIDE DEF t, b
<1>4. DialogInv(t)
  BY <1>1, <1>2, <1>3, FrameGood DEF Good
<1> QED BY <1>1, <1>2, <1>3, <1>4 DEF Good, Same, Sent, t

\* An answer of the native side to a preparation, a change of the mode or a
\* cancellation leaves a dialog in order.
LEMMA AnsweredGood ==
  ASSUME NEW F, {} \in F, NEW d, Good(F, d), NEW c \in d.calls, NEW e,
         \/ c.op = "prepare" /\ e \in Prepared(d, c)
         \/ c.op = "switch" /\ e \in Switched(d, c)
         \/ c.op = "stop" /\ e \in CancelAnswered(d, c)
  PROVE  Good(F, e) /\ Same(d, e) /\ e.seq = d.seq
<1>1. CASE c.op = "prepare" /\ e \in Prepared(d, c)
  BY <1>1, PreparedGood
<1>2. CASE c.op = "switch" /\ e \in Switched(d, c)
  BY <1>2, SwitchedGood
<1>3. CASE c.op = "stop" /\ e \in CancelAnswered(d, c)
  BY <1>3, CancelAnsweredGood
<1> QED BY <1>1, <1>2, <1>3

\* After a deletion the page no longer refers to the lease, and still waits.
LEMMA ExecutedGood ==
  ASSUME NEW F, {} \in F, NEW d, Good(F, d), NEW c \in d.calls, c.op = "execute", Executable(d, c)
  PROVE  LET t == Forgotten(Taken(d, c))
         IN Good(F, t) /\ Sent(t) = {} /\ t.busy.submitting /\ t.seq = d.seq
<1>1. d.busy.submitting
  BY DEF Good, DialogInv, BusyInv, Sent
<1>2. /\ Good(F, Taken(d, c)) /\ Taken(d, c).busy = d.busy /\ Sent(Taken(d, c)) = {}
      /\ Taken(d, c).seq = d.seq
  BY TakenGood
<1> QED BY <1>1, <1>2, ForgottenGood DEF Same

\* A dialog whose deletion failed, used or not, is left open without a lease.
LEMMA FailedAnswerGood ==
  ASSUME NEW F, {} \in F, NEW d, Good(F, d), NEW c \in d.calls, c.op = "execute",
         NEW t, (t = Taken(d, c) /\ Executable(d, c)) \/ t = [d EXCEPT !.calls = @ \ {c}]
  PROVE  Good(F, Failed(t)) /\ Sent(Failed(t)) = {} /\ Failed(t).open = d.open /\ Failed(t).items = d.items
         /\ Failed(t).seq = d.seq /\ d.busy.submitting
<1>1. d.busy.submitting /\ c \in Sent(d)
  BY DEF Good, DialogInv, BusyInv, Sent
<1>2. Good(F, t) /\ t.busy = d.busy /\ Sent(t) = {} /\ t.open = d.open /\ t.items = d.items /\ t.seq = d.seq
  <2>1. CASE t = Taken(d, c) /\ Executable(d, c)
    BY <2>1, TakenGood
  <2>2. CASE t = [d EXCEPT !.calls = @ \ {c}]
    <3>1. Sent(d) \ {c} = {}
      BY <1>1 DEF Good, DialogInv, SentInv
    <3> QED BY <2>2, <3>1, DroppedGood
  <2> QED BY <2>1, <2>2
<1> QED BY <1>1, <1>2, FailedGood

-------------------------------------------------------------------------------
(* What a page adds to its dialog.                                           *)

\* While a page applies a deletion the dialog waits for it and nothing is sent.
Applying(t) == t.applying => t.dialog.busy.submitting /\ Sent(t.dialog) = {}

-------------------------------------------------------------------------------
(* The cleanup map.                                                          *)

\* The dialog of the cleanup map is the dialog of DeleteDialog.
LEMMA MapDialog ==
  /\ Map!Modes = Modes /\ Map!ClosedDialog = ClosedDialog
  /\ \A d : /\ Map!Closed(d) = Closed(d) /\ Map!Rechecked(d) = Rechecked(d)
            /\ Map!Acknowledged(d) = Acknowledged(d) /\ Map!Confirmed(d) = Confirmed(d)
            /\ Map!Forgotten(d) = Forgotten(d) /\ Map!Failed(d) = Failed(d)
            /\ Map!Cancelling(d) = Cancelling(d)
            /\ Map!MayRecheck(d) <=> MayRecheck(d)
            /\ Map!MaySwitch(d) <=> MaySwitch(d)
            /\ Map!MayAcknowledge(d) <=> MayAcknowledge(d)
            /\ Map!MayConfirm(d) <=> MayConfirm(d)
            /\ Map!MayCancel(d) <=> MayCancel(d)
            /\ Map!DeletesAsConfirmed(d) <=> DeletesAsConfirmed(d)
  /\ \A d, c : /\ Map!Switching(d, c) = Switching(d, c) /\ Map!Taken(d, c) = Taken(d, c)
               /\ Map!Executable(d, c) <=> Executable(d, c)
               /\ Map!Prepared(d, c) = Prepared(d, c) /\ Map!Switched(d, c) = Switched(d, c)
               /\ Map!CancelAnswered(d, c) = CancelAnswered(d, c)
  /\ \A d, i, m : Map!Opened(d, i, m) = Opened(d, i, m)
BY DEF Map!ClosedDialog, Map!NoLease, Map!Quiet, Map!Modes, Map!Released, Map!Closed,
       Map!LeaseRequest, Map!Preparing, Map!Opened, Map!ApplyRefreshedCleanupTargets,
       Map!Prepared, Map!Rechecked, Map!MayRecheck, Map!MaySwitch, Map!Switching, Map!Switched,
       Map!MayAcknowledge, Map!Acknowledged, Map!MayConfirm, Map!Confirmed, Map!Taken,
       Map!Executable, Map!Forgotten, Map!Failed, Map!MayCancel, Map!Cancelling,
       Map!CancelAnswered, Map!DeletesAsConfirmed, ClosedDialog, NoLease, Quiet, Modes,
       Released, Closed, LeaseRequest, Preparing, Opened, ApplyRefreshedCleanupTargets,
       Prepared, Rechecked, MayRecheck, MaySwitch, Switching, Switched, MayAcknowledge,
       Acknowledged, MayConfirm, Confirmed, Taken, Executable, Forgotten, Failed, MayCancel,
       Cancelling, CancelAnswered, DeletesAsConfirmed

MapItems == SUBSET Map!Nodes
Snaps == [scan : Nat, sample : Nat, partial : BOOLEAN]
Drags == [node : Map!Nodes \cup {Map!Guarded, "none"}, dragging : BOOLEAN, over : BOOLEAN]

MapStates ==
  [snap : Snaps, incoming : Snaps, browsing : BOOLEAN, plan : MapItems, changed : MapItems,
   outcome : BOOLEAN, settlement : BOOLEAN, drag : Drags, loaded : BOOLEAN, blocked : BOOLEAN,
   dialog : Dialogs(MapItems), gone : MapItems, started : Nat, recorded : Nat,
   applying : BOOLEAN, acts : Int]


MapGood(t) ==
  /\ t \in MapStates /\ DialogInv(t.dialog) /\ Applying(t)
  /\ t.drag = Map!NoDrag \/ t.drag.node \in Map!Nodes \cup {Map!Guarded}

\* A change of the page that leaves the dialog alone.
LEMMA MapFrame ==
  ASSUME NEW t, MapGood(t), NEW u \in MapStates, u.dialog = t.dialog, u.applying = t.applying,
         u.drag = t.drag \/ u.drag = Map!NoDrag
  PROVE  MapGood(u)
BY DEF MapGood, Applying

\* A change of the dialog alone, of the kind its answers make.
LEMMA MapDialogFrame ==
  ASSUME NEW t, MapGood(t), NEW d, Good(MapItems, d), Sent(d) = {} \/ ~t.applying,
         t.applying => d.busy.submitting
  PROVE  MapGood([t EXCEPT !.dialog = d])
<1> DEFINE u == [t EXCEPT !.dialog = d]
<1>1. u \in MapStates /\ u.dialog = d /\ u.applying = t.applying /\ u.drag = t.drag
  BY DEF MapGood, MapStates, Good
<1> HIDE DEF u
<1>2. MapGood(u)
  BY <1>1 DEF MapGood, Applying, Good
<1> QED BY <1>2 DEF u

LEMMA MapSame ==
  ASSUME NEW t, MapGood(t), NEW d, Good(MapItems, d), Same(t.dialog, d)
  PROVE  MapGood([t EXCEPT !.dialog = d])
<1>1. (Sent(d) = {} \/ ~t.applying) /\ (t.applying => d.busy.submitting)
  BY DEF Same, MapGood, Applying
<1> QED BY <1>1, MapDialogFrame

LEMMA MapDialogGood ==
  ASSUME NEW t, MapGood(t)
  PROVE  /\ Good(MapItems, t.dialog) /\ {} \in MapItems /\ t.dialog.items \in MapItems
         /\ ~t.dialog.busy.submitting => Sent(t.dialog) = {} /\ ~t.applying
BY DEF MapGood, MapStates, Good, MapItems, Dialogs, DialogInv, BusyInv, Applying

LEMMA MapSpent ==
  ASSUME MapGood(s)
  PROVE  /\ MapGood(Map!Spend) /\ Map!Spend.dialog = s.dialog /\ Map!Spend.applying = s.applying
         /\ Map!Spend.plan = s.plan /\ Map!Spend.drag = s.drag
<1>1. /\ Map!Spend \in MapStates /\ Map!Spend.dialog = s.dialog /\ Map!Spend.applying = s.applying
      /\ Map!Spend.plan = s.plan /\ Map!Spend.drag = s.drag
  BY DEF MapGood, MapStates, Map!Spend
<1> QED BY <1>1, MapFrame

\* The map follows another scan, and the deletion it has open stays as it is.
LEMMA MapFollowed ==
  ASSUME NEW t, MapGood(t), NEW snap \in Snaps
  PROVE  MapGood(Map!Followed(t, snap))
<1>1. CASE t.snap.scan = snap.scan
  <2>1. /\ Map!Followed(t, snap) \in MapStates /\ Map!Followed(t, snap).dialog = t.dialog
        /\ Map!Followed(t, snap).applying = t.applying /\ Map!Followed(t, snap).drag = t.drag
    BY <1>1 DEF MapGood, MapStates, Map!Followed
  <2> QED BY <2>1, MapFrame
<1>2. CASE t.snap.scan # snap.scan
  <2> DEFINE d == [t.dialog EXCEPT !.busy.cancelling = FALSE]
             u == [t EXCEPT !.snap = snap, !.plan = {}, !.changed = {}, !.outcome = FALSE,
                            !.settlement = FALSE, !.drag = Map!NoDrag, !.loaded = FALSE,
                            !.blocked = FALSE]
  <2>1. Good(MapItems, d) /\ Same(t.dialog, d)
    BY QuietenedGood, MapDialogGood
  <2>2. Map!NoDrag \in Drags
    BY DEF Map!NoDrag, Drags
  <2>3. u \in MapStates /\ u.dialog = t.dialog /\ u.applying = t.applying /\ u.drag = Map!NoDrag
    BY <2>2 DEF MapGood, MapStates, MapItems
  <2>4. Map!Followed(t, snap) = [u EXCEPT !.dialog = d]
    BY <1>2 DEF MapGood, MapStates, Map!Followed
  <2> HIDE DEF u, d
  <2>5. MapGood(u)
    BY <2>3, MapFrame
  <2> QED BY <2>1, <2>3, <2>4, <2>5, MapSame
<1> QED BY <1>1, <1>2

LEMMA MapAdopted ==
  ASSUME NEW t, MapGood(t)
  PROVE  MapGood(Map!Adopt(t))
<1>1. t.incoming \in Snaps
  BY DEF MapGood, MapStates
<1> QED BY <1>1, MapFollowed DEF Map!Adopt

\* What is collected into the basket are nodes.
LEMMA MapPlanned ==
  ASSUME NEW t, MapGood(t), NEW n \in Map!Nodes
  PROVE  LET u == Map!Planned(t, n) IN MapGood(u) /\ u.drag = t.drag
<1>1. Map!CollectInto(t.plan, n) \in MapItems
  BY DEF MapGood, MapStates, MapItems, Map!CollectInto
<1>2. /\ Map!Planned(t, n) \in MapStates /\ Map!Planned(t, n).dialog = t.dialog
      /\ Map!Planned(t, n).applying = t.applying /\ Map!Planned(t, n).drag = t.drag
  BY <1>1 DEF MapGood, MapStates, Map!Planned
<1> QED BY <1>2, MapFrame
LEMMA MapSnapshotSteps ==
  ASSUME MapGood(s), Map!Arrive \/ Map!Browse \/ Map!ShowUpdate
  PROVE  MapGood(s)'
<1> DEFINE t == Map!Spend
<1>1. MapGood(t)
  BY MapSpent
<1> HIDE DEF t
<1>2. CASE Map!Arrive
  <2>1. PICK snap \in {Map!Snapshot(s.incoming.scan + 1, 0, TRUE),
                       Map!Snapshot(s.incoming.scan, s.incoming.sample + 1, FALSE)} :
          s' = Map!Adopt([t EXCEPT !.incoming = snap])
    BY <1>2 DEF Map!Arrive, t
  <2>2. snap \in Snaps
    <3>1. s.incoming.scan \in Nat /\ s.incoming.sample \in Nat
      BY DEF MapGood, MapStates, Snaps
    <3>2. /\ Map!Snapshot(s.incoming.scan + 1, 0, TRUE) \in Snaps
          /\ Map!Snapshot(s.incoming.scan, s.incoming.sample + 1, FALSE) \in Snaps
      BY <3>1 DEF Snaps, Map!Snapshot
    <3> HIDE DEF t
    <3> QED BY <2>1, <3>2
  <2> DEFINE u == [t EXCEPT !.incoming = snap]
  <2>3. u \in MapStates /\ u.dialog = t.dialog /\ u.applying = t.applying /\ u.drag = t.drag
    BY <1>1, <2>2 DEF MapGood, MapStates
  <2> HIDE DEF u
  <2>4. MapGood(u)
    BY <1>1, <2>3, MapFrame
  <2>5. MapGood(Map!Adopt(u))
    BY <2>4, MapAdopted
  <2> QED BY <2>1, <2>5 DEF u
<1>3. CASE Map!Browse
  <2> DEFINE u == [t EXCEPT !.browsing = ~@]
  <2>1. u \in MapStates /\ u.dialog = t.dialog /\ u.applying = t.applying /\ u.drag = t.drag
    BY <1>1 DEF MapGood, MapStates
  <2>2. s' = Map!Adopt(u)
    BY <1>3 DEF Map!Browse, t
  <2> HIDE DEF u
  <2>3. MapGood(u)
    BY <1>1, <2>1, MapFrame
  <2>4. MapGood(Map!Adopt(u))
    BY <2>3, MapAdopted
  <2> QED BY <2>2, <2>4
<1>4. CASE Map!ShowUpdate
  <2>1. s.incoming \in Snaps /\ s' = Map!Followed(s, s.incoming)
    BY <1>4 DEF MapGood, MapStates, Map!ShowUpdate
  <2>2. MapGood(Map!Followed(s, s.incoming))
    BY <2>1, MapFollowed
  <2> QED BY <2>1, <2>2
<1> QED BY <1>2, <1>3, <1>4

LEMMA MapBasketSteps ==
  ASSUME MapGood(s),
         \/ Map!LoadFolder \/ Map!AddPath \/ Map!EmptyPlan
         \/ \E n \in Map!Nodes : Map!AddToPlan(n) \/ Map!RemoveFromPlan(n) \/ Map!PathChanged(n)
         \/ \E open \in BOOLEAN : Map!Settle(open)
  PROVE  MapGood(s)'
<1> DEFINE t == Map!Spend
<1>1. MapGood(t)
  BY MapSpent
<1>2. \/ s' = [t EXCEPT !.loaded = TRUE]
      \/ s' = [t EXCEPT !.outcome = FALSE, !.plan = @ \cup {"trashed"}]
      \/ s' = [t EXCEPT !.plan = {}]
      \/ \E n \in Map!Nodes : s' = Map!Planned(t, n)
      \/ \E n \in Map!Nodes : s' = [t EXCEPT !.plan = @ \ {n}]
      \/ \E n \in Map!Nodes : s' = [t EXCEPT !.changed = @ \cup {n}]
      \/ \E open \in BOOLEAN : s' = [t EXCEPT !.settlement = open]
  BY DEF Map!LoadFolder, Map!AddPath, Map!EmptyPlan, Map!AddToPlan, Map!RemoveFromPlan,
         Map!PathChanged, Map!Settle
<1> HIDE DEF t
<1>3. CASE \E n \in Map!Nodes : s' = Map!Planned(t, n)
  BY <1>1, <1>3, MapPlanned
<1>4. CASE ~\E n \in Map!Nodes : s' = Map!Planned(t, n)
  <2>1. t \in MapStates /\ "trashed" \in Map!Nodes
    BY <1>1 DEF MapGood, Map!Nodes
  <2>2. s' \in MapStates /\ s'.dialog = t.dialog /\ s'.applying = t.applying /\ s'.drag = t.drag
    <3>1. CASE s' = [t EXCEPT !.loaded = TRUE]
      BY <2>1, <3>1 DEF MapStates
    <3>2. CASE \E p \in MapItems : \/ s' = [t EXCEPT !.plan = p] \/ s' = [t EXCEPT !.changed = p]
                                  \/ s' = [t EXCEPT !.outcome = FALSE, !.plan = p]
      BY <2>1, <3>2 DEF MapStates
    <3>3. CASE \E open \in BOOLEAN : s' = [t EXCEPT !.settlement = open]
      BY <2>1, <3>3 DEF MapStates
    <3>4. t.plan \in MapItems /\ t.changed \in MapItems
      BY <2>1 DEF MapStates
    <3>5. /\ t.plan \cup {"trashed"} \in MapItems /\ {} \in MapItems
          /\ \A n \in Map!Nodes : t.plan \ {n} \in MapItems /\ t.changed \cup {n} \in MapItems
      BY <2>1, <3>4 DEF MapItems
    <3> QED BY <1>2, <1>4, <2>1, <3>1, <3>2, <3>3, <3>5 DEF MapStates
  <2>3. MapGood(s')
    BY <1>1, <2>2, MapFrame
  <2> QED BY <2>3
<1> QED BY <1>3, <1>4

LEMMA MapDragSteps ==
  ASSUME MapGood(s),
         \/ \E n \in Map!Nodes \cup {Map!Guarded} : Map!BeginDrag(n)
         \/ Map!MoveDrag \/ Map!FinishDrag \/ Map!CancelDrag \/ Map!BlockedEnds
  PROVE  MapGood(s)'
<1>1. Map!NoDrag \in Drags
  BY DEF Map!NoDrag, Drags
<1>2. CASE \E n \in Map!Nodes \cup {Map!Guarded} : Map!BeginDrag(n)
  <2> DEFINE t == Map!Spend
  <2>1. PICK n \in Map!Nodes \cup {Map!Guarded} :
          s' = [t EXCEPT !.drag = [Map!NoDrag EXCEPT !.node = n], !.blocked = FALSE]
    BY <1>2 DEF Map!BeginDrag
  <2>2. MapGood(t)
    BY MapSpent
  <2> DEFINE g == [Map!NoDrag EXCEPT !.node = n]
  <2>3. g \in Drags /\ g.node = n
    BY DEF Map!NoDrag, Drags
  <2> HIDE DEF t, g
  <2>4. s' \in MapStates /\ s'.dialog = t.dialog /\ s'.applying = t.applying /\ s'.drag = g
    BY <2>1, <2>2, <2>3 DEF MapGood, MapStates, g
  <2>5. MapGood(s')
    BY <2>2, <2>3, <2>4 DEF MapGood, Applying
  <2> QED BY <2>5
<1>3. CASE Map!MoveDrag
  <2>1. PICK over \in BOOLEAN : s' = [s EXCEPT !.drag = [@ EXCEPT !.dragging = TRUE, !.over = over]]
    BY <1>3 DEF Map!MoveDrag
  <2> DEFINE g == [s.drag EXCEPT !.dragging = TRUE, !.over = over]
  <2>2. s.drag \in Drags /\ s.drag.node \in Map!Nodes \cup {Map!Guarded}
    BY <1>3 DEF MapGood, MapStates, Map!MoveDrag
  <2>3. g \in Drags /\ g.node \in Map!Nodes \cup {Map!Guarded}
    BY <2>2 DEF Drags
  <2>4. s' = [s EXCEPT !.drag = g]
    BY <2>1 DEF MapGood, MapStates
  <2> HIDE DEF g
  <2>5. s' \in MapStates /\ s'.dialog = s.dialog /\ s'.applying = s.applying /\ s'.drag = g
    BY <2>3, <2>4 DEF MapGood, MapStates
  <2>6. MapGood(s')
    BY <2>3, <2>5 DEF MapGood, Applying
  <2> QED BY <2>6
<1>4. CASE Map!FinishDrag
  <2> DEFINE t == IF ~s.drag.over THEN s
                  ELSE IF s.drag.node = Map!Guarded THEN [s EXCEPT !.blocked = TRUE]
                  ELSE Map!Planned(s, s.drag.node)
  <2>1. s' = [t EXCEPT !.drag = Map!NoDrag]
    BY <1>4 DEF Map!FinishDrag
  <2>2. MapGood([s EXCEPT !.blocked = TRUE])
    <3> DEFINE u == [s EXCEPT !.blocked = TRUE]
    <3>1. u \in MapStates /\ u.dialog = s.dialog /\ u.applying = s.applying /\ u.drag = s.drag
      BY DEF MapGood, MapStates
    <3> HIDE DEF u
    <3>2. MapGood(u)
      BY <3>1, MapFrame
    <3> QED BY <3>2 DEF u
  <2>3. s.drag.node # Map!Guarded => s.drag.node \in Map!Nodes
    BY <1>4 DEF MapGood, Map!FinishDrag
  <2>4. s.drag.node # Map!Guarded => MapGood(Map!Planned(s, s.drag.node))
    BY <2>3, MapPlanned
  <2>5. MapGood(t)
    BY <2>2, <2>4
  <2> HIDE DEF t
  <2>6. s' \in MapStates /\ s'.dialog = t.dialog /\ s'.applying = t.applying /\ s'.drag = Map!NoDrag
    BY <1>1, <2>1, <2>5 DEF MapGood, MapStates
  <2>7. MapGood(s')
    BY <2>5, <2>6, MapFrame
  <2> QED BY <2>7
<1>5. CASE Map!CancelDrag \/ Map!BlockedEnds
  <2>1. /\ s' \in MapStates /\ s'.dialog = s.dialog /\ s'.applying = s.applying
        /\ s'.drag = s.drag \/ s'.drag = Map!NoDrag
    BY <1>1, <1>5 DEF MapGood, MapStates, Map!CancelDrag, Map!BlockedEnds
  <2>2. MapGood(s')
    BY <2>1, MapFrame
  <2> QED BY <2>2
<1> QED BY <1>2, <1>3, <1>4, <1>5

LEMMA MapChoiceSteps ==
  ASSUME MapGood(s),
         \/ Map!OpenDeleteDialog \/ Map!Recheck \/ Map!Acknowledge \/ Map!CloseDeleteDialog
         \/ Map!ConfirmCleanup \/ Map!CancelCleanup
         \/ \E mode \in Map!Modes : Map!ChangeDeleteMode(mode)
  PROVE  MapGood(s)'
<1> DEFINE t == Map!Spend
           d == s.dialog
<1>1. MapGood(t) /\ t.dialog = s.dialog /\ t.applying = s.applying /\ t.plan = s.plan
  BY MapSpent
<1>2. Good(MapItems, d) /\ {} \in MapItems /\ (~d.busy.submitting => Sent(d) = {} /\ ~s.applying)
  BY MapDialogGood
<1>3. CASE Map!OpenDeleteDialog
  <2> DEFINE mode == IF s.plan \cap Map!InsideTrash # {} THEN "permanent" ELSE "trash"
             e == Opened(d, s.plan, mode)
             u == [t EXCEPT !.settlement = FALSE, !.outcome = FALSE]
  <2>1. s' = [t EXCEPT !.settlement = FALSE, !.outcome = FALSE, !.dialog = e] /\ ~d.open
    BY <1>1, <1>3, MapDialog DEF Map!OpenDeleteDialog, MapGood, MapStates
  <2>2. mode \in Modes /\ s.plan \in MapItems
    BY DEF Modes, MapGood, MapStates
  <2>3. ~d.busy.submitting
    BY <1>2, <2>1 DEF Good, DialogInv, BusyInv
  <2> HIDE DEF mode
  <2>4. Good(MapItems, e) /\ Sent(e) = {}
    BY <1>2, <2>1, <2>2, <2>3, OpenedGood
  <2> HIDE DEF t, e
  <2>5. u \in MapStates /\ u.dialog = t.dialog /\ u.applying = t.applying /\ u.drag = t.drag
    BY <1>1 DEF MapGood, MapStates
  <2>6. s' = [u EXCEPT !.dialog = e]
    BY <1>1, <2>1 DEF MapGood, MapStates
  <2> HIDE DEF u
  <2>7. MapGood(u) /\ ~u.applying
    BY <1>1, <1>2, <2>3, <2>5, MapFrame
  <2>8. MapGood([u EXCEPT !.dialog = e])
    BY <2>4, <2>7, MapDialogFrame
  <2> QED BY <2>6, <2>8
<1>4. CASE Map!Recheck
  <2>1. s' = [t EXCEPT !.dialog = Rechecked(d)] /\ MayRecheck(d)
    BY <1>1, <1>4, MapDialog DEF Map!Recheck, MapGood, MapStates
  <2>2. Good(MapItems, Rechecked(d)) /\ Same(t.dialog, Rechecked(d))
    BY <1>1, <1>2, <2>1, RecheckedGood
  <2>3. MapGood([t EXCEPT !.dialog = Rechecked(d)])
    BY <1>1, <2>2, MapSame
  <2> QED BY <2>1, <2>3
<1>5. CASE \E mode \in Map!Modes : Map!ChangeDeleteMode(mode)
  <2>1. PICK mode \in Modes : s' = [t EXCEPT !.dialog = Switching(d, mode)] /\ MaySwitch(d)
    BY <1>1, <1>5, MapDialog DEF Map!ChangeDeleteMode, MapGood, MapStates
  <2>2. Good(MapItems, Switching(d, mode)) /\ Same(t.dialog, Switching(d, mode))
    BY <1>1, <1>2, <2>1, SwitchingGood
  <2>3. MapGood([t EXCEPT !.dialog = Switching(d, mode)])
    BY <1>1, <2>2, MapSame
  <2> QED BY <2>1, <2>3
<1>6. CASE Map!Acknowledge
  <2>1. s' = [s EXCEPT !.dialog = Acknowledged(d)]
    BY <1>6, MapDialog DEF Map!Acknowledge, Map!Dialog
  <2>2. Good(MapItems, Acknowledged(d)) /\ Same(d, Acknowledged(d))
    BY <1>2, AcknowledgedGood
  <2>3. MapGood([s EXCEPT !.dialog = Acknowledged(d)])
    BY <2>2, MapSame
  <2> QED BY <2>1, <2>3
<1>7. CASE Map!CancelCleanup
  <2>1. s' = [s EXCEPT !.dialog = Cancelling(d)]
    BY <1>7, MapDialog DEF Map!CancelCleanup, Map!Dialog
  <2>2. Good(MapItems, Cancelling(d)) /\ Same(d, Cancelling(d))
    BY <1>2, CancellingGood
  <2>3. MapGood([s EXCEPT !.dialog = Cancelling(d)])
    BY <2>2, MapSame
  <2> QED BY <2>1, <2>3
<1>8. CASE Map!CloseDeleteDialog
  <2>1. s' = [s EXCEPT !.dialog = Closed(d)] /\ ~d.busy.submitting
    BY <1>8, MapDialog DEF Map!CloseDeleteDialog, Map!Dialog
  <2>2. Good(MapItems, Closed(d)) /\ Sent(Closed(d)) = {} /\ ~s.applying
    BY <1>2, <2>1, ClosedGood
  <2>3. MapGood([s EXCEPT !.dialog = Closed(d)])
    BY <2>2, MapDialogFrame
  <2> QED BY <2>1, <2>3
<1>9. CASE Map!ConfirmCleanup
  <2> DEFINE u == [s EXCEPT !.started = @ + 1]
             e == Confirmed(d)
  <2>1. s' = [s EXCEPT !.started = @ + 1, !.dialog = e] /\ MayConfirm(d)
    BY <1>9, MapDialog DEF Map!ConfirmCleanup, MapGood, MapStates
  <2>2. Good(MapItems, e)
    BY <1>2, <2>1, ConfirmedGood
  <2>3. ~s.applying
    BY <1>2, <2>1 DEF MayConfirm, Quiet
  <2> HIDE DEF e
  <2>4. u \in MapStates /\ u.dialog = s.dialog /\ u.applying = s.applying /\ u.drag = s.drag
    BY DEF MapGood, MapStates
  <2>5. s' = [u EXCEPT !.dialog = e]
    BY <2>1 DEF MapGood, MapStates
  <2> HIDE DEF u
  <2>6. MapGood(u)
    BY <2>4, MapFrame
  <2>7. MapGood([u EXCEPT !.dialog = e])
    BY <2>2, <2>3, <2>4, <2>6, MapDialogFrame
  <2> QED BY <2>5, <2>7
<1> QED BY <1>3, <1>4, <1>5, <1>6, <1>7, <1>8, <1>9
LEMMA MapAnswerSteps ==
  ASSUME MapGood(s), NEW c \in s.dialog.calls,
         Map!PrepareDeleteLease(c) \/ Map!ModeChanged(c) \/ Map!CleanupCancelled(c)
  PROVE  MapGood(s)'
<1> DEFINE d == s.dialog
<1>1. Good(MapItems, d) /\ {} \in MapItems
  BY MapDialogGood
<1>2. PICK e : /\ s' = [s EXCEPT !.dialog = e]
               /\ \/ c.op = "prepare" /\ e \in Prepared(d, c)
                  \/ c.op = "switch" /\ e \in Switched(d, c)
                  \/ c.op = "stop" /\ e \in CancelAnswered(d, c)
  BY MapDialog DEF Map!PrepareDeleteLease, Map!ModeChanged, Map!CleanupCancelled, Map!Dialog
<1>3. Good(MapItems, e) /\ Same(d, e)
  BY <1>1, <1>2, AnsweredGood
<1>4. MapGood([s EXCEPT !.dialog = e])
  BY <1>3, MapSame
<1> QED BY <1>2, <1>4

\* The deletion ended: what is gone was in the dialog, and the page applies it.
LEMMA MapExecutedStep ==
  ASSUME MapGood(s), NEW c \in s.dialog.calls, Map!CleanupExecuted(c)
  PROVE  MapGood(s)'
<1> DEFINE d == s.dialog
           f == Forgotten(Taken(d, c))
<1>1. Good(MapItems, d) /\ {} \in MapItems /\ d.items \in MapItems
  BY MapDialogGood
<1>2. c.op = "execute" /\ Executable(d, c)
  BY MapDialog DEF Map!CleanupExecuted
<1>3. PICK deleted \in SUBSET d.items :
        LET failed == d.items \ deleted
        IN s' = [s EXCEPT !.dialog = f, !.gone = @ \cup deleted, !.plan = @ \ deleted, !.outcome = TRUE,
                          !.changed = @ \cup failed \cup {p \in Map!Nodes : \E n \in failed : Map!IsAncestor(p, n)},
                          !.recorded = @ + 1, !.applying = TRUE]
  BY MapDialog DEF Map!CleanupExecuted, MapGood, MapStates
<1>4. Good(MapItems, f) /\ Sent(f) = {} /\ f.busy.submitting
  BY <1>1, <1>2, ExecutedGood
<1> HIDE DEF f
<1>5. s' \in MapStates /\ s'.dialog = f /\ s'.drag = s.drag
  <2> DEFINE failed == d.items \ deleted
             above == {p \in Map!Nodes : \E n \in failed : Map!IsAncestor(p, n)}
  <2>1. /\ s.gone \cup deleted \in MapItems /\ s.plan \ deleted \in MapItems
        /\ s.changed \cup failed \cup above \in MapItems
    BY <1>1 DEF MapGood, MapStates, MapItems
  <2> HIDE DEF failed, above
  <2>2. s' = [s EXCEPT !.dialog = f, !.gone = @ \cup deleted, !.plan = @ \ deleted, !.outcome = TRUE,
                       !.changed = @ \cup failed \cup above, !.recorded = @ + 1, !.applying = TRUE]
    BY <1>3 DEF failed, above
  <2>3. f \in Dialogs(MapItems) /\ s \in MapStates
    BY <1>4 DEF MapGood, Good
  <2>4. s.recorded + 1 \in Nat
    BY <2>3 DEF MapStates
  <2> DEFINE gone == s.gone \cup deleted
             plan == s.plan \ deleted
             changed == s.changed \cup failed \cup above
             recorded == s.recorded + 1
  <2>5. s' = [s EXCEPT !.dialog = f, !.gone = gone, !.plan = plan, !.outcome = TRUE,
                       !.changed = changed, !.recorded = recorded, !.applying = TRUE]
    BY <2>2, <2>3 DEF MapStates
  <2> HIDE DEF gone, plan, changed, recorded
  <2>6. gone \in MapItems /\ plan \in MapItems /\ changed \in MapItems /\ recorded \in Nat
    BY <2>1, <2>4 DEF gone, plan, changed, recorded
  <2> QED BY <2>3, <2>5, <2>6 DEF MapStates
<1>6. MapGood(s')
  BY <1>4, <1>5 DEF MapGood, Good, Applying
<1> QED BY <1>6

LEMMA MapFailedStep ==
  ASSUME MapGood(s), NEW c \in s.dialog.calls, Map!CleanupFailed(c)
  PROVE  MapGood(s)'
<1> DEFINE d == s.dialog
<1>1. Good(MapItems, d) /\ {} \in MapItems /\ (~d.busy.submitting => ~s.applying)
  BY MapDialogGood
<1>2. c.op = "execute"
  BY DEF Map!CleanupFailed
<1>3. PICK e : /\ s' = [s EXCEPT !.dialog = Failed(e), !.recorded = @ + 1]
               /\ (e = Taken(d, c) /\ Executable(d, c)) \/ e = [d EXCEPT !.calls = @ \ {c}]
  BY MapDialog DEF Map!CleanupFailed
<1>4. Good(MapItems, Failed(e))
  BY <1>1, <1>2, <1>3, FailedAnswerGood
<1>5. ~s.applying
  BY <1>2 DEF MapGood, Applying, Sent
<1>6. s' \in MapStates /\ s'.dialog = Failed(e) /\ s'.applying = s.applying /\ s'.drag = s.drag
  <2> DEFINE f == Failed(e)
             recorded == s.recorded + 1
  <2>1. /\ f \in Dialogs(MapItems) /\ s \in MapStates /\ recorded \in Nat
        /\ s' = [s EXCEPT !.dialog = f, !.recorded = recorded]
    BY <1>3, <1>4 DEF Good, MapGood, MapStates
  <2> HIDE DEF f, recorded
  <2>2. s' \in MapStates /\ s'.dialog = f /\ s'.applying = s.applying /\ s'.drag = s.drag
    BY <2>1 DEF MapStates
  <2> QED BY <2>2 DEF f
<1>7. MapGood(s')
  BY <1>4, <1>5, <1>6 DEF MapGood, Good, Applying
<1> QED BY <1>7

LEMMA MapAppliedStep ==
  ASSUME MapGood(s), Map!DeletionApplied
  PROVE  MapGood(s)'
<1> DEFINE d == s.dialog
<1>1. Good(MapItems, d) /\ {} \in MapItems
  BY MapDialogGood
<1>2. d.busy.submitting /\ Sent(d) = {}
  BY DEF MapGood, Applying, Map!DeletionApplied
<1>3. PICK ok \in BOOLEAN :
        s' = [s EXCEPT !.applying = FALSE, !.settlement = ok \/ @,
                       !.dialog = IF ok THEN Closed(d) ELSE Failed(d)]
  BY MapDialog DEF Map!DeletionApplied, MapGood, MapStates
<1> DEFINE e == IF ok THEN Closed(d) ELSE Failed(d)
           told == ok \/ s.settlement
<1>4. Good(MapItems, e)
  BY <1>1, <1>2, ClosedGood, FailedGood
<1>5. s' = [s EXCEPT !.applying = FALSE, !.settlement = told, !.dialog = e] /\ told \in BOOLEAN
  BY <1>3 DEF MapGood, MapStates
<1> HIDE DEF e, told
<1>6. s' \in MapStates /\ s'.dialog = e /\ ~s'.applying /\ s'.drag = s.drag
  BY <1>4, <1>5 DEF MapGood, MapStates, Good
<1>7. MapGood(s')
  BY <1>4, <1>6 DEF MapGood, Good, Applying
<1> QED BY <1>7

\* The cleanup map: its invariant holds at the start and after every step.
LEMMA MapStarts == ASSUME Map!Init PROVE MapGood(s)
<1>1. Good(MapItems, ClosedDialog)
  BY ClosedDialogGood DEF MapItems
<1>2. Map!Snapshot(0, 0, FALSE) \in Snaps /\ Map!NoDrag \in Drags /\ {} \in MapItems
  BY DEF Map!Snapshot, Snaps, Map!NoDrag, Drags, MapItems
<1>3. MapActs \in Int /\ ClosedDialog \in Dialogs(MapItems) /\ Map!ClosedDialog = ClosedDialog
  BY <1>1, MapDialog, ActsAssumption DEF Good
<1>4. s \in MapStates /\ s.dialog = ClosedDialog /\ ~s.applying /\ s.drag = Map!NoDrag
  BY <1>2, <1>3 DEF Map!Init, MapStates
<1> QED BY <1>1, <1>4 DEF MapGood, Good, Applying

LEMMA MapSteps == ASSUME MapGood(s), Map!Next PROVE MapGood(s)'
<1>1. ASSUME NEW op, Map!AnswerOf(op) PROVE MapGood(s)'
  BY <1>1, MapAnswerSteps, MapExecutedStep, MapFailedStep DEF Map!AnswerOf
<1> QED BY <1>1, MapSnapshotSteps, MapBasketSteps, MapDragSteps, MapChoiceSteps, MapAppliedStep
        DEF Map!Next

LEMMA MapHolds == ASSUME MapGood(s) PROVE Map!DeletedAsConfirmed
<1>1. Map!Guarded \notin Map!Nodes
  BY DEF Map!Guarded, Map!Nodes
<1> QED BY <1>1, MapDialog DEF MapGood, MapStates, MapItems, DialogInv, Map!DeletedAsConfirmed
-------------------------------------------------------------------------------
(* The file insights.                                                        *)

\* The dialog of the file insights is the dialog of DeleteDialog.
LEMMA FilesDialog ==
  /\ Files!Modes = Modes /\ Files!ClosedDialog = ClosedDialog
  /\ \A d : /\ Files!Closed(d) = Closed(d) /\ Files!Rechecked(d) = Rechecked(d)
            /\ Files!Acknowledged(d) = Acknowledged(d) /\ Files!Confirmed(d) = Confirmed(d)
            /\ Files!Forgotten(d) = Forgotten(d) /\ Files!Failed(d) = Failed(d)
            /\ Files!Cancelling(d) = Cancelling(d)
            /\ Files!MayRecheck(d) <=> MayRecheck(d)
            /\ Files!MaySwitch(d) <=> MaySwitch(d)
            /\ Files!MayAcknowledge(d) <=> MayAcknowledge(d)
            /\ Files!MayConfirm(d) <=> MayConfirm(d)
            /\ Files!MayCancel(d) <=> MayCancel(d)
            /\ Files!DeletesAsConfirmed(d) <=> DeletesAsConfirmed(d)
  /\ \A d, c : /\ Files!Switching(d, c) = Switching(d, c) /\ Files!Taken(d, c) = Taken(d, c)
               /\ Files!Executable(d, c) <=> Executable(d, c)
               /\ Files!Prepared(d, c) = Prepared(d, c) /\ Files!Switched(d, c) = Switched(d, c)
               /\ Files!CancelAnswered(d, c) = CancelAnswered(d, c)
  /\ \A d, i, m : Files!Opened(d, i, m) = Opened(d, i, m)
BY DEF Files!ClosedDialog, Files!NoLease, Files!Quiet, Files!Modes, Files!Released,
       Files!Closed, Files!LeaseRequest, Files!Preparing, Files!Opened,
       Files!ApplyRefreshedCleanupTargets, Files!Prepared, Files!Rechecked, Files!MayRecheck,
       Files!MaySwitch, Files!Switching, Files!Switched, Files!MayAcknowledge,
       Files!Acknowledged, Files!MayConfirm, Files!Confirmed, Files!Taken, Files!Executable,
       Files!Forgotten, Files!Failed, Files!MayCancel, Files!Cancelling, Files!CancelAnswered,
       Files!DeletesAsConfirmed, ClosedDialog, NoLease, Quiet, Modes, Released, Closed,
       LeaseRequest, Preparing, Opened, ApplyRefreshedCleanupTargets, Prepared, Rechecked,
       MayRecheck, MaySwitch, Switching, Switched, MayAcknowledge, Acknowledged, MayConfirm,
       Confirmed, Taken, Executable, Forgotten, Failed, MayCancel, Cancelling, CancelAnswered,
       DeletesAsConfirmed

FileItems == SUBSET Files!Files
Scans == [at : Nat, group : FileItems, old : FileItems]
FileWrites == [value : Scans, upto : Nat]
Loads == [op : {"load"}]
Readings == [op : {"verify", "adopt"}, scan : Scans]
Scannings == [op : {"scan"}, epoch : Nat, scan : Scans]
Stoppings == [op : {"stopped"}, latest : Nat]
FileCalls == Loads \cup Readings \cup Scannings \cup Stoppings
Removals == [kind : Files!Kinds, files : FileItems, rest : FileItems, of : FileItems]

FileStates ==
  [disk : Scans, writes : Seq(FileWrites), shown : Scans, scanning : BOOLEAN, loading : BOOLEAN,
   touched : BOOLEAN, epoch : Nat, clears : Nat, latest : Nat, grouped : BOOLEAN, kept : Nat,
   chosen : FileItems, outcome : BOOLEAN, kind : Files!Kinds, dialog : Dialogs(FileItems),
   removed : SUBSET Removals, applying : BOOLEAN, acts : Int, calls : SUBSET FileCalls]

FilesGood(t) == t \in FileStates /\ DialogInv(t.dialog) /\ Applying(t)

LEMMA FilesFrame ==
  ASSUME NEW t, FilesGood(t), NEW u \in FileStates, u.dialog = t.dialog, u.applying = t.applying
  PROVE  FilesGood(u)
BY DEF FilesGood, Applying

LEMMA FilesDialogFrame ==
  ASSUME NEW t, FilesGood(t), NEW d, Good(FileItems, d), Sent(d) = {} \/ ~t.applying,
         t.applying => d.busy.submitting
  PROVE  FilesGood([t EXCEPT !.dialog = d])
<1> DEFINE u == [t EXCEPT !.dialog = d]
<1>1. u \in FileStates /\ u.dialog = d /\ u.applying = t.applying
  BY DEF FilesGood, FileStates, Good
<1> HIDE DEF u
<1>2. FilesGood(u)
  BY <1>1 DEF FilesGood, Applying, Good
<1> QED BY <1>2 DEF u

LEMMA FilesSame ==
  ASSUME NEW t, FilesGood(t), NEW d, Good(FileItems, d), Same(t.dialog, d)
  PROVE  FilesGood([t EXCEPT !.dialog = d])
<1>1. (Sent(d) = {} \/ ~t.applying) /\ (t.applying => d.busy.submitting)
  BY DEF Same, FilesGood, Applying
<1> QED BY <1>1, FilesDialogFrame

LEMMA FilesDialogGood ==
  ASSUME NEW t, FilesGood(t)
  PROVE  /\ Good(FileItems, t.dialog) /\ {} \in FileItems /\ t.dialog.items \in FileItems
         /\ ~t.dialog.busy.submitting => Sent(t.dialog) = {} /\ ~t.applying
BY DEF FilesGood, FileStates, Good, FileItems, Dialogs, DialogInv, BusyInv, Applying

LEMMA FilesSpent ==
  ASSUME FilesGood(s)
  PROVE  /\ FilesGood(Files!Spend) /\ Files!Spend.dialog = s.dialog
         /\ Files!Spend.applying = s.applying /\ Files!Spend.shown = s.shown
<1>1. /\ Files!Spend \in FileStates /\ Files!Spend.dialog = s.dialog
      /\ Files!Spend.applying = s.applying /\ Files!Spend.shown = s.shown
  BY DEF FilesGood, FileStates, Files!Spend
<1> QED BY <1>1, FilesFrame

LEMMA NoScanType == Files!NoScan \in Scans
BY DEF Files!NoScan, Scans, FileItems

LEMMA FoundType == ASSUME NEW n \in Nat PROVE Files!FoundBy(n) \in Scans
BY DEF Files!FoundBy, Scans, FileItems

LEMMA FilesWrite ==
  ASSUME NEW t, FilesGood(t), NEW value \in Scans
  PROVE  FilesGood(Files!Write(t, value))
<1> DEFINE w == [value |-> value, upto |-> 0]
           u == [t EXCEPT !.writes = Append(@, w)]
<1>1. w \in FileWrites /\ t.writes \in Seq(FileWrites)
  BY DEF FileWrites, FilesGood, FileStates
<1> HIDE DEF w
<1>2. Append(t.writes, w) \in Seq(FileWrites)
  BY <1>1
<1>3. u \in FileStates /\ u.dialog = t.dialog /\ u.applying = t.applying
  BY <1>2 DEF FilesGood, FileStates
<1> HIDE DEF u
<1>4. FilesGood(u)
  BY <1>3, FilesFrame
<1> QED BY <1>4 DEF Files!Write, u, w

LEMMA FilesWriteClear ==
  ASSUME NEW t, FilesGood(t), NEW upto \in Nat
  PROVE  FilesGood(Files!WriteClear(t, upto))
<1> DEFINE w == [value |-> Files!NoScan, upto |-> upto]
           u == [t EXCEPT !.writes = Append(@, w)]
<1>1. w \in FileWrites /\ t.writes \in Seq(FileWrites)
  BY NoScanType DEF FileWrites, FilesGood, FileStates
<1> HIDE DEF w
<1>2. Append(t.writes, w) \in Seq(FileWrites)
  BY <1>1
<1>3. u \in FileStates /\ u.dialog = t.dialog /\ u.applying = t.applying
  BY <1>2 DEF FilesGood, FileStates
<1> HIDE DEF u
<1>4. FilesGood(u)
  BY <1>3, FilesFrame
<1> QED BY <1>4 DEF Files!WriteClear, u, w

LEMMA FilesLeast ==
  ASSUME NEW files \in FileItems, files # {} PROVE Files!Least(files) \in Nat
<1>1. \A f \in files : f = 1 \/ f = 2 \/ f = 3
  BY DEF FileItems, Files!Files
<1>2. \E f \in files : \A g \in files : f <= g
  <2>1. CASE 1 \in files
    <3>1. \A g \in files : 1 <= g
      BY <1>1
    <3> QED BY <2>1, <3>1
  <2>2. CASE 1 \notin files /\ 2 \in files
    <3>1. \A g \in files : 2 <= g
      BY <1>1, <2>2
    <3> QED BY <2>2, <3>1
  <2>3. CASE 1 \notin files /\ 2 \notin files
    <3>1. \A g \in files : g = 3
      BY <1>1, <2>3
    <3>2. 3 \in files
      BY <3>1
    <3>3. \A g \in files : 3 <= g
      BY <3>1
    <3> QED BY <3>2, <3>3
  <2> QED BY <2>1, <2>2, <2>3
<1>3. Files!Least(files) \in files
  BY <1>2 DEF Files!Least
<1> QED BY <1>1, <1>3

LEMMA FilesShow ==
  ASSUME NEW t, FilesGood(t), NEW scan \in Scans
  PROVE  FilesGood(Files!Show(t, scan))
<1> DEFINE kept == IF scan.group = {} THEN Files!Nothing ELSE Files!Least(scan.group)
           u == [t EXCEPT !.shown = scan]
           w == [t EXCEPT !.shown = scan, !.grouped = FALSE, !.chosen = {}, !.outcome = FALSE,
                          !.kept = kept]
<1>1. kept \in Nat
  BY FilesLeast DEF Scans, Files!Nothing
<1>2. Files!Show(t, scan) = IF t.shown.at = scan.at THEN u ELSE w
  BY DEF Files!Show
<1> HIDE DEF kept
<1>3. u \in FileStates /\ u.dialog = t.dialog /\ u.applying = t.applying
  BY DEF FilesGood, FileStates
<1>4. w \in FileStates /\ w.dialog = t.dialog /\ w.applying = t.applying
  <2>1. {} \in FileItems
    BY DEF FileItems
  <2> QED BY <1>1, <2>1 DEF FilesGood, FileStates
<1> HIDE DEF u, w
<1>5. FilesGood(u) /\ FilesGood(w)
  BY <1>3, <1>4, FilesFrame
<1> QED BY <1>2, <1>5

\* Files leave the result that is shown.
LEMMA FilesRemoved ==
  ASSUME NEW t, FilesGood(t), NEW paths
  PROVE  FilesGood(Files!RemovePaths(t, paths))
<1> DEFINE rest == t.shown.group \ paths
           Updated(group) == [t.shown EXCEPT !.group = group, !.old = @ \ paths]
<1>1. t.shown \in Scans /\ t.shown.group \in FileItems /\ t.shown.old \in FileItems
  BY DEF FilesGood, FileStates, Scans
<1>2. rest \in FileItems /\ {} \in FileItems /\ t.shown.old \ paths \in FileItems
  BY <1>1 DEF FileItems
<1>3. ASSUME NEW group \in {{}, rest}
      PROVE  FilesGood(Files!Write([t EXCEPT !.shown = Updated(group)], Updated(group)))
  <2> DEFINE updated == Updated(group)
             u == [t EXCEPT !.shown = updated]
  <2>1. updated \in Scans
    BY <1>1, <1>2 DEF Scans
  <2> HIDE DEF updated
  <2>2. u \in FileStates /\ u.dialog = t.dialog /\ u.applying = t.applying
    BY <2>1 DEF FilesGood, FileStates
  <2> HIDE DEF u
  <2>3. FilesGood(u)
    BY <2>2, FilesFrame
  <2>4. FilesGood(Files!Write(u, updated))
    BY <2>1, <2>3, FilesWrite
  <2> QED BY <2>4 DEF u, updated
<1>4. CASE t.shown.at = 0 \/ paths = {}
  BY <1>4 DEF Files!RemovePaths
<1>5. CASE ~(t.shown.at = 0 \/ paths = {})
  <2>1. \E group \in {{}, rest} :
          Files!RemovePaths(t, paths) = Files!Write([t EXCEPT !.shown = Updated(group)], Updated(group))
    BY <1>5 DEF Files!RemovePaths
  <2> HIDE DEF Updated
  <2> QED BY <1>3, <2>1
<1> QED BY <1>4, <1>5

LEMMA FileCallTypes ==
  ASSUME FilesGood(s), NEW c \in s.calls
  PROVE  /\ c.op \in {"verify", "adopt"} => c.scan \in Scans
         /\ c.op = "scan" => c.scan \in Scans /\ c.epoch \in Nat
         /\ c.op = "stopped" => c.latest \in Nat
<1>1. c \in FileCalls
  BY DEF FilesGood, FileStates
<1> QED BY <1>1 DEF FileCalls, Loads, Readings, Scannings, Stoppings

LEMMA FilesCalls ==
  ASSUME NEW t, FilesGood(t), NEW calls \in SUBSET FileCalls
  PROVE  FilesGood([t EXCEPT !.calls = calls])
<1> DEFINE u == [t EXCEPT !.calls = calls]
<1>1. u \in FileStates /\ u.dialog = t.dialog /\ u.applying = t.applying
  BY DEF FilesGood, FileStates
<1> HIDE DEF u
<1>2. FilesGood(u)
  BY <1>1, FilesFrame
<1> QED BY <1>2 DEF u
\* The cached result is read, verified and adopted.
LEMMA FilesReadSteps ==
  ASSUME FilesGood(s), NEW c \in s.calls, Files!Load(c) \/ Files!Verify(c) \/ Files!AdoptCached(c)
  PROVE  FilesGood(s)'
<1> DEFINE t == [s EXCEPT !.calls = Files!Without(c)]
<1>1. Files!Without(c) \in SUBSET FileCalls
  BY DEF FilesGood, FileStates, Files!Without
<1>2. FilesGood(t)
  BY <1>1, FilesCalls
<1>3. s.disk \in Scans
  BY DEF FilesGood, FileStates
<1>4. CASE Files!Load(c)
  <2> DEFINE r == [op |-> "verify", scan |-> s.disk]
             u == [s EXCEPT !.calls = Files!Without(c) \cup {r}]
  <2>1. r \in FileCalls
    BY <1>3 DEF FileCalls, Readings
  <2> HIDE DEF r
  <2>2. FilesGood(u)
    BY <1>1, <2>1, FilesCalls
  <2>3. s' = t \/ s' = u
    BY <1>4 DEF Files!Load, r
  <2> HIDE DEF t, u
  <2> QED BY <1>2, <2>2, <2>3
<1>5. CASE Files!Verify(c)
  <2> DEFINE r == [op |-> "adopt", scan |-> c.scan]
             u == [s EXCEPT !.calls = Files!Without(c) \cup {r}]
  <2>1. c.scan \in Scans
    BY <1>5, FileCallTypes DEF Files!Verify
  <2>2. r \in FileCalls
    BY <2>1 DEF FileCalls, Readings
  <2>3. s' = t \/ s' = Files!Write(u, c.scan) \/ s' = Files!Show(t, c.scan)
    BY <1>5 DEF Files!Verify
  <2> HIDE DEF r
  <2>4. FilesGood(u)
    BY <1>1, <2>2, FilesCalls
  <2> HIDE DEF t, u
  <2>5. FilesGood(Files!Write(u, c.scan)) /\ FilesGood(Files!Show(t, c.scan))
    BY <1>2, <2>1, <2>4, FilesWrite, FilesShow
  <2> QED BY <1>2, <2>3, <2>5
<1>6. CASE Files!AdoptCached(c)
  <2>1. c.scan \in Scans
    BY <1>6, FileCallTypes DEF Files!AdoptCached
  <2>2. s' = t \/ s' = Files!Show(t, c.scan)
    BY <1>6 DEF Files!AdoptCached
  <2> HIDE DEF t
  <2>3. FilesGood(Files!Show(t, c.scan))
    BY <1>2, <2>1, FilesShow
  <2> QED BY <1>2, <2>2, <2>3
<1> QED BY <1>4, <1>5, <1>6

LEMMA FilesScanSteps ==
  ASSUME FilesGood(s),
         \/ Files!Scan \/ Files!Cancel \/ Files!Clear \/ Files!WriteEnds
         \/ \E c \in s.calls : Files!ScanEnds(c) \/ Files!Stopped(c)
  PROVE  FilesGood(s)'
<1> DEFINE t == Files!Spend
<1>1. FilesGood(t) /\ t.calls = s.calls /\ t.epoch = s.epoch /\ t.latest = s.latest
  BY FilesSpent DEF Files!Spend, FilesGood, FileStates
<1>2. s.latest \in Nat /\ s.epoch \in Nat /\ s.calls \subseteq FileCalls
  BY DEF FilesGood, FileStates
<1>3. CASE Files!Scan
  <2> DEFINE r == [op |-> "scan", epoch |-> s.epoch, scan |-> Files!FoundBy(s.latest + 1)]
             latest == t.latest + 1
             u == [t EXCEPT !.scanning = TRUE, !.loading = TRUE, !.touched = TRUE, !.latest = latest,
                            !.calls = @ \cup {r}]
  <2>1. s' = t \/ s' = u
    BY <1>1, <1>3 DEF Files!Scan, FilesGood, FileStates
  <2>2. r \in FileCalls /\ latest \in Nat
    BY <1>1, <1>2, FoundType DEF FileCalls, Scannings
  <2> HIDE DEF t, r, latest
  <2>3. u \in FileStates /\ u.dialog = t.dialog /\ u.applying = t.applying
    BY <1>1, <2>2 DEF FilesGood, FileStates
  <2> HIDE DEF u
  <2>4. FilesGood(u)
    BY <1>1, <2>3, FilesFrame
  <2> QED BY <1>1, <2>1, <2>4
<1>4. CASE Files!Cancel
  BY <1>1, <1>4 DEF Files!Cancel
<1>5. CASE Files!Clear
  <2> DEFINE epoch == t.epoch + 1
             u == [t EXCEPT !.touched = TRUE, !.epoch = epoch, !.loading = FALSE]
             v == Files!Show(u, Files!NoScan)
             r == [op |-> "stopped", latest |-> s.latest]
             w == [v EXCEPT !.calls = @ \cup {r}]
  <2>1. s' = w \/ s' = Files!WriteClear(v, s.latest)
    BY <1>1, <1>5 DEF Files!Clear, FilesGood, FileStates
  <2>2. r \in FileCalls /\ epoch \in Nat
    BY <1>1, <1>2 DEF FileCalls, Stoppings
  <2> HIDE DEF t, r, epoch
  <2>3. u \in FileStates /\ u.dialog = t.dialog /\ u.applying = t.applying
    BY <1>1, <2>2 DEF FilesGood, FileStates
  <2> HIDE DEF u
  <2>4. FilesGood(v)
    BY <1>1, <2>3, FilesFrame, FilesShow, NoScanType
  <2> HIDE DEF v
  <2>5. w = [v EXCEPT !.calls = v.calls \cup {r}] /\ v.calls \cup {r} \in SUBSET FileCalls
    BY <2>2, <2>4 DEF FilesGood, FileStates
  <2>6. FilesGood(w)
    BY <2>4, <2>5, FilesCalls
  <2>7. FilesGood(Files!WriteClear(v, s.latest))
    BY <1>2, <2>4, FilesWriteClear
  <2> QED BY <2>1, <2>6, <2>7
<1>6. CASE Files!WriteEnds
  <2>1. s.writes \in Seq(FileWrites) /\ s.writes # <<>>
    BY <1>6 DEF Files!WriteEnds, FilesGood, FileStates
  <2>2. Head(s.writes) \in FileWrites /\ Tail(s.writes) \in Seq(FileWrites)
    BY <2>1
  <2> DEFINE h == Head(s.writes)
             tl == Tail(s.writes)
  <2>3. PICK done \in BOOLEAN :
          s' = [s EXCEPT !.writes = tl, !.disk = IF done THEN h.value ELSE @,
                         !.clears = IF done /\ h.upto > @ THEN h.upto ELSE @]
    BY <1>6 DEF Files!WriteEnds, FilesGood, FileStates
  <2> DEFINE disk == IF done THEN h.value ELSE s.disk
             clears == IF done /\ h.upto > s.clears THEN h.upto ELSE s.clears
  <2>4. disk \in Scans /\ clears \in Nat
    BY <2>2 DEF FilesGood, FileStates, FileWrites
  <2>5. s' = [s EXCEPT !.writes = tl, !.disk = disk, !.clears = clears]
    BY <2>3 DEF FilesGood, FileStates
  <2> HIDE DEF h, tl, disk, clears
  <2>6. tl \in Seq(FileWrites)
    BY <2>2 DEF tl
  <2>7. s' \in FileStates /\ s'.dialog = s.dialog /\ s'.applying = s.applying
    BY <2>4, <2>5, <2>6 DEF FilesGood, FileStates
  <2>8. FilesGood(s')
    BY <2>7, FilesFrame
  <2> QED BY <2>8
<1>7. CASE \E c \in s.calls : Files!ScanEnds(c)
  <2>1. PICK c \in s.calls : Files!ScanEnds(c)
    BY <1>7
  <2> DEFINE u == [s EXCEPT !.calls = Files!Without(c), !.scanning = FALSE,
                            !.loading = IF c.epoch = s.epoch THEN FALSE ELSE @]
  <2>2. c.scan \in Scans
    BY <2>1, FileCallTypes DEF Files!ScanEnds
  <2>3. s' = Files!Write(Files!Show(u, c.scan), c.scan) \/ s' = u
    BY <2>1 DEF Files!ScanEnds
  <2>4. u \in FileStates /\ u.dialog = s.dialog /\ u.applying = s.applying
    BY DEF FilesGood, FileStates, Files!Without
  <2> HIDE DEF u
  <2>5. FilesGood(u)
    BY <2>4, FilesFrame
  <2>6. FilesGood(Files!Show(u, c.scan))
    BY <2>2, <2>5, FilesShow
  <2>7. FilesGood(Files!Write(Files!Show(u, c.scan), c.scan))
    BY <2>2, <2>6, FilesWrite
  <2> QED BY <2>3, <2>5, <2>7
<1>8. CASE \E c \in s.calls : Files!Stopped(c)
  <2>1. PICK c \in s.calls : Files!Stopped(c)
    BY <1>8
  <2> DEFINE u == [s EXCEPT !.calls = Files!Without(c)]
  <2>2. c.latest \in Nat /\ s' = Files!WriteClear(u, c.latest)
    BY <2>1, FileCallTypes DEF Files!Stopped
  <2>3. Files!Without(c) \in SUBSET FileCalls
    BY <1>2 DEF Files!Without
  <2>4. FilesGood(u)
    BY <2>3, FilesCalls
  <2> HIDE DEF u
  <2>5. FilesGood(Files!WriteClear(u, c.latest))
    BY <2>2, <2>4, FilesWriteClear
  <2> QED BY <2>2, <2>5
<1> QED BY <1>3, <1>4, <1>5, <1>6, <1>7, <1>8

\* What the user selects on the page.
LEMMA FilesSelectSteps ==
  ASSUME FilesGood(s),
         \/ Files!ToggleGroup
         \/ \E f \in Files!Files : Files!KeepFile(f) \/ Files!ToggleOldFile(f)
  PROVE  FilesGood(s)'
<1> DEFINE t == Files!Spend
<1>1. FilesGood(t)
  BY FilesSpent
<1>2. \/ s' = [t EXCEPT !.outcome = FALSE, !.grouped = ~@]
      \/ \E f \in Files!Files : \/ s' = [t EXCEPT !.outcome = FALSE, !.kept = f]
                                \/ s' = [t EXCEPT !.outcome = FALSE,
                                                  !.chosen = IF f \in @ THEN @ \ {f} ELSE @ \cup {f}]
  BY DEF Files!ToggleGroup, Files!KeepFile, Files!ToggleOldFile
<1> HIDE DEF t
<1>3. t \in FileStates /\ t.chosen \in FileItems
  BY <1>1 DEF FilesGood, FileStates
<1>4. \A f \in Files!Files : /\ f \in Nat /\ t.chosen \ {f} \in FileItems
                             /\ t.chosen \cup {f} \in FileItems
  BY <1>3 DEF Files!Files, FileItems
<1>5. s' \in FileStates /\ s'.dialog = t.dialog /\ s'.applying = t.applying
  <2>1. CASE s' = [t EXCEPT !.outcome = FALSE, !.grouped = ~@]
    BY <1>3, <2>1 DEF FileStates
  <2>2. CASE \E k \in Nat : s' = [t EXCEPT !.outcome = FALSE, !.kept = k]
    BY <1>3, <2>2 DEF FileStates
  <2>3. CASE \E q \in FileItems : s' = [t EXCEPT !.outcome = FALSE, !.chosen = q]
    BY <1>3, <2>3 DEF FileStates
  <2>4. \/ s' = [t EXCEPT !.outcome = FALSE, !.grouped = ~@]
        \/ \E k \in Nat : s' = [t EXCEPT !.outcome = FALSE, !.kept = k]
        \/ \E q \in FileItems : s' = [t EXCEPT !.outcome = FALSE, !.chosen = q]
    BY <1>2, <1>3, <1>4 DEF FileStates
  <2> QED BY <2>1, <2>2, <2>3, <2>4
<1>6. FilesGood(s')
  BY <1>1, <1>5, FilesFrame
<1> QED BY <1>6
LEMMA FilesChoiceSteps ==
  ASSUME FilesGood(s),
         \/ \E kind \in Files!Kinds : Files!OpenProcessingDialog(kind)
         \/ Files!Recheck \/ Files!Acknowledge \/ Files!CloseDeleteDialog
         \/ Files!ConfirmProcessing \/ Files!CancelProcessing
         \/ \E mode \in Files!Modes : Files!ChangeDeleteMode(mode)
  PROVE  FilesGood(s)'
<1> DEFINE t == Files!Spend
           d == s.dialog
<1>1. FilesGood(t) /\ t.dialog = s.dialog /\ t.applying = s.applying
  BY FilesSpent
<1>2. Good(FileItems, d) /\ {} \in FileItems /\ (~d.busy.submitting => Sent(d) = {} /\ ~s.applying)
  BY FilesDialogGood
<1>3. CASE \E kind \in Files!Kinds : Files!OpenProcessingDialog(kind)
  <2>1. PICK kind \in Files!Kinds : Files!OpenProcessingDialog(kind)
    BY <1>3
  <2> DEFINE files == IF kind = "old" THEN Files!SelectedOld ELSE Files!SelectedDuplicates
             e == Opened(d, files, "trash")
             u == [t EXCEPT !.kind = kind, !.outcome = FALSE]
  <2>2. s' = [t EXCEPT !.kind = kind, !.outcome = FALSE, !.dialog = e] /\ ~d.open
    BY <1>1, <2>1, FilesDialog DEF Files!OpenProcessingDialog, Files!MayChoose, FilesGood, FileStates
  <2>3. files \in FileItems /\ "trash" \in Modes
    <3>1. s.shown.group \in FileItems /\ s.shown.old \in FileItems
      BY DEF FilesGood, FileStates, Scans
    <3> QED BY <3>1 DEF Files!SelectedOld, Files!SelectedDuplicates, FileItems, Modes
  <2>4. ~d.busy.submitting
    BY <1>2, <2>2 DEF Good, DialogInv, BusyInv
  <2> HIDE DEF files
  <2>5. Good(FileItems, e) /\ Sent(e) = {}
    BY <1>2, <2>2, <2>3, <2>4, OpenedGood
  <2> HIDE DEF t, e
  <2>6. u \in FileStates /\ u.dialog = t.dialog /\ u.applying = t.applying
    BY <1>1 DEF FilesGood, FileStates
  <2>7. s' = [u EXCEPT !.dialog = e]
    BY <1>1, <2>2 DEF FilesGood, FileStates
  <2> HIDE DEF u
  <2>8. FilesGood(u) /\ ~u.applying
    BY <1>1, <1>2, <2>4, <2>6, FilesFrame
  <2>9. FilesGood([u EXCEPT !.dialog = e])
    BY <2>5, <2>8, FilesDialogFrame
  <2> QED BY <2>7, <2>9
<1>4. CASE Files!Recheck
  <2>1. s' = [t EXCEPT !.dialog = Rechecked(d)] /\ MayRecheck(d)
    BY <1>1, <1>4, FilesDialog DEF Files!Recheck, FilesGood, FileStates
  <2>2. Good(FileItems, Rechecked(d)) /\ Same(t.dialog, Rechecked(d))
    BY <1>1, <1>2, <2>1, RecheckedGood
  <2>3. FilesGood([t EXCEPT !.dialog = Rechecked(d)])
    BY <1>1, <2>2, FilesSame
  <2> QED BY <2>1, <2>3
<1>5. CASE \E mode \in Files!Modes : Files!ChangeDeleteMode(mode)
  <2>1. PICK mode \in Modes : s' = [t EXCEPT !.dialog = Switching(d, mode)] /\ MaySwitch(d)
    BY <1>1, <1>5, FilesDialog DEF Files!ChangeDeleteMode, FilesGood, FileStates
  <2>2. Good(FileItems, Switching(d, mode)) /\ Same(t.dialog, Switching(d, mode))
    BY <1>1, <1>2, <2>1, SwitchingGood
  <2>3. FilesGood([t EXCEPT !.dialog = Switching(d, mode)])
    BY <1>1, <2>2, FilesSame
  <2> QED BY <2>1, <2>3
<1>6. CASE Files!Acknowledge
  <2>1. s' = [s EXCEPT !.dialog = Acknowledged(d)]
    BY <1>6, FilesDialog DEF Files!Acknowledge, Files!Dialog
  <2>2. Good(FileItems, Acknowledged(d)) /\ Same(d, Acknowledged(d))
    BY <1>2, AcknowledgedGood
  <2>3. FilesGood([s EXCEPT !.dialog = Acknowledged(d)])
    BY <2>2, FilesSame
  <2> QED BY <2>1, <2>3
<1>7. CASE Files!CancelProcessing
  <2>1. s' = [s EXCEPT !.dialog = Cancelling(d)]
    BY <1>7, FilesDialog DEF Files!CancelProcessing, Files!Dialog
  <2>2. Good(FileItems, Cancelling(d)) /\ Same(d, Cancelling(d))
    BY <1>2, CancellingGood
  <2>3. FilesGood([s EXCEPT !.dialog = Cancelling(d)])
    BY <2>2, FilesSame
  <2> QED BY <2>1, <2>3
<1>8. CASE Files!CloseDeleteDialog
  <2>1. s' = [s EXCEPT !.dialog = Closed(d)] /\ ~d.busy.submitting
    BY <1>8, FilesDialog DEF Files!CloseDeleteDialog, Files!Dialog
  <2>2. Good(FileItems, Closed(d)) /\ Sent(Closed(d)) = {} /\ ~s.applying
    BY <1>2, <2>1, ClosedGood
  <2>3. FilesGood([s EXCEPT !.dialog = Closed(d)])
    BY <2>2, FilesDialogFrame
  <2> QED BY <2>1, <2>3
<1>9. CASE Files!ConfirmProcessing
  <2>1. s' = [s EXCEPT !.dialog = Confirmed(d)] /\ MayConfirm(d)
    BY <1>9, FilesDialog DEF Files!ConfirmProcessing, Files!Dialog
  <2>2. Good(FileItems, Confirmed(d))
    BY <1>2, <2>1, ConfirmedGood
  <2>3. ~s.applying
    BY <1>2, <2>1 DEF MayConfirm, Quiet
  <2>4. FilesGood([s EXCEPT !.dialog = Confirmed(d)])
    BY <2>2, <2>3, FilesDialogFrame
  <2> QED BY <2>1, <2>4
<1> QED BY <1>3, <1>4, <1>5, <1>6, <1>7, <1>8, <1>9

LEMMA FilesAnswerSteps ==
  ASSUME FilesGood(s), NEW c \in s.dialog.calls,
         Files!PrepareDeleteLease(c) \/ Files!ModeChanged(c) \/ Files!ProcessingCancelled(c)
  PROVE  FilesGood(s)'
<1> DEFINE d == s.dialog
<1>1. Good(FileItems, d) /\ {} \in FileItems
  BY FilesDialogGood
<1>2. PICK e : /\ s' = [s EXCEPT !.dialog = e]
               /\ \/ c.op = "prepare" /\ e \in Prepared(d, c)
                  \/ c.op = "switch" /\ e \in Switched(d, c)
                  \/ c.op = "stop" /\ e \in CancelAnswered(d, c)
  BY FilesDialog DEF Files!PrepareDeleteLease, Files!ModeChanged, Files!ProcessingCancelled, Files!Dialog
<1>3. Good(FileItems, e) /\ Same(d, e)
  BY <1>1, <1>2, AnsweredGood
<1>4. FilesGood([s EXCEPT !.dialog = e])
  BY <1>3, FilesSame
<1> QED BY <1>2, <1>4

\* The deletion ended: the files leave the result and the page applies it.
LEMMA FilesExecutedStep ==
  ASSUME FilesGood(s), NEW c \in s.dialog.calls, Files!Processed(c)
  PROVE  FilesGood(s)'
<1> DEFINE d == s.dialog
           f == Forgotten(Taken(d, c))
<1>1. Good(FileItems, d) /\ {} \in FileItems /\ d.items \in FileItems
  BY FilesDialogGood
<1>2. c.op = "execute" /\ Executable(d, c)
  BY FilesDialog DEF Files!Processed
<1>3. Good(FileItems, f) /\ Sent(f) = {} /\ f.busy.submitting
  BY <1>1, <1>2, ExecutedGood
<1> HIDE DEF f
<1>4. PICK deleted \in SUBSET d.items :
        s' = Files!RemovePaths(
               [s EXCEPT !.dialog = f, !.outcome = TRUE,
                         !.removed = @ \cup {[kind |-> s.kind, files |-> deleted,
                                              rest |-> s.shown.group \ deleted, of |-> s.shown.group]},
                         !.applying = TRUE], deleted)
  BY FilesDialog DEF Files!Processed, FilesGood, FileStates, f
<1> DEFINE r == [kind |-> s.kind, files |-> deleted, rest |-> s.shown.group \ deleted,
                 of |-> s.shown.group]
           u == [s EXCEPT !.dialog = f, !.outcome = TRUE, !.removed = @ \cup {r}, !.applying = TRUE]
<1>5. r \in Removals
  <2>1. s.shown.group \in FileItems /\ deleted \in FileItems /\ s.kind \in Files!Kinds
    BY <1>1 DEF FilesGood, FileStates, Scans, FileItems
  <2>2. s.shown.group \ deleted \in FileItems
    BY <2>1 DEF FileItems
  <2> QED BY <2>1, <2>2 DEF Removals
<1>6. s' = Files!RemovePaths(u, deleted)
  BY <1>4
<1> HIDE DEF r
<1>7. u \in FileStates /\ u.dialog = f
  BY <1>3, <1>5 DEF FilesGood, FileStates, Good
<1> HIDE DEF u
<1>8. FilesGood(u)
  BY <1>3, <1>7 DEF FilesGood, Good, Applying
<1>9. FilesGood(Files!RemovePaths(u, deleted))
  BY <1>8, FilesRemoved
<1> QED BY <1>6, <1>9

LEMMA FilesFailedStep ==
  ASSUME FilesGood(s), NEW c \in s.dialog.calls, Files!ProcessingFails(c)
  PROVE  FilesGood(s)'
<1> DEFINE d == s.dialog
<1>1. Good(FileItems, d) /\ {} \in FileItems
  BY FilesDialogGood
<1>2. c.op = "execute"
  BY DEF Files!ProcessingFails
<1>3. PICK e : /\ s' = [s EXCEPT !.dialog = Failed(e)]
               /\ (e = Taken(d, c) /\ Executable(d, c)) \/ e = [d EXCEPT !.calls = @ \ {c}]
  BY FilesDialog DEF Files!ProcessingFails, Files!Dialog
<1>4. Good(FileItems, Failed(e))
  BY <1>1, <1>2, <1>3, FailedAnswerGood
<1>5. ~s.applying
  BY <1>2 DEF FilesGood, Applying, Sent
<1>6. FilesGood([s EXCEPT !.dialog = Failed(e)])
  BY <1>4, <1>5, FilesDialogFrame
<1> QED BY <1>3, <1>6

LEMMA FilesAppliedStep ==
  ASSUME FilesGood(s), Files!DeletionApplied
  PROVE  FilesGood(s)'
<1> DEFINE d == s.dialog
<1>1. Good(FileItems, d) /\ {} \in FileItems
  BY FilesDialogGood
<1>2. d.busy.submitting /\ Sent(d) = {}
  BY DEF FilesGood, Applying, Files!DeletionApplied
<1>3. PICK ok \in BOOLEAN :
        s' = [s EXCEPT !.applying = FALSE, !.dialog = IF ok THEN Closed(d) ELSE Failed(d)]
  BY FilesDialog DEF Files!DeletionApplied, FilesGood, FileStates
<1> DEFINE e == IF ok THEN Closed(d) ELSE Failed(d)
<1>4. Good(FileItems, e)
  BY <1>1, <1>2, ClosedGood, FailedGood
<1>5. s' = [s EXCEPT !.applying = FALSE, !.dialog = e]
  BY <1>3
<1> HIDE DEF e
<1>6. s' \in FileStates /\ s'.dialog = e /\ ~s'.applying
  BY <1>4, <1>5 DEF FilesGood, FileStates, Good
<1>7. FilesGood(s')
  BY <1>4, <1>6 DEF FilesGood, Good, Applying
<1> QED BY <1>7

\* The file insights: their invariant holds at the start and after every step.
LEMMA FilesStart == ASSUME Files!Init PROVE FilesGood(s)
<1> DEFINE load == [op |-> "load"]
<1>1. Good(FileItems, ClosedDialog) /\ {} \in FileItems
  BY ClosedDialogGood DEF FileItems
<1>2. load \in FileCalls /\ "duplicates" \in Files!Kinds /\ FileActs \in Int
  BY ActsAssumption DEF FileCalls, Loads, Files!Kinds
<1>3. ClosedDialog \in Dialogs(FileItems) /\ Files!ClosedDialog = ClosedDialog
  BY <1>1, FilesDialog DEF Good
<1>4. PICK stored \in {Files!NoScan, Files!FoundBy(1)} :
        s = [disk |-> stored, writes |-> <<>>, shown |-> Files!NoScan, scanning |-> FALSE,
             loading |-> FALSE, touched |-> FALSE, epoch |-> 0, clears |-> 0, latest |-> 1,
             grouped |-> FALSE, kept |-> 0, chosen |-> {}, outcome |-> FALSE, kind |-> "duplicates",
             dialog |-> ClosedDialog, removed |-> {}, applying |-> FALSE, acts |-> FileActs,
             calls |-> {load}]
  BY <1>3 DEF Files!Init, Files!Nothing
<1>5. stored \in Scans /\ Files!NoScan \in Scans /\ <<>> \in Seq(FileWrites)
  BY NoScanType, FoundType
<1> HIDE DEF load
<1>6. s \in FileStates /\ s.dialog = ClosedDialog /\ ~s.applying
  BY <1>1, <1>2, <1>3, <1>4, <1>5 DEF FileStates
<1> QED BY <1>1, <1>6 DEF FilesGood, Good, Applying

LEMMA FilesSteps == ASSUME FilesGood(s), Files!Next PROVE FilesGood(s)'
<1>1. ASSUME NEW op, Files!AnswerOf(op) PROVE FilesGood(s)'
  BY <1>1, FilesReadSteps, FilesScanSteps, FilesAnswerSteps, FilesExecutedStep, FilesFailedStep
     DEF Files!AnswerOf
<1> QED BY <1>1, FilesScanSteps, FilesSelectSteps, FilesChoiceSteps, FilesAppliedStep DEF Files!Next

LEMMA FilesHold == ASSUME FilesGood(s) PROVE Files!DeletedAsConfirmed
BY FilesDialog DEF FilesGood, DialogInv, Files!DeletedAsConfirmed
-------------------------------------------------------------------------------
(* The application uninstall page.                                           *)

\* The dialog of the application uninstall page is the dialog of DeleteDialog.
LEMMA AppsDialog ==
  /\ Apps!Modes = Modes /\ Apps!ClosedDialog = ClosedDialog
  /\ \A d : /\ Apps!Closed(d) = Closed(d) /\ Apps!Rechecked(d) = Rechecked(d)
            /\ Apps!Acknowledged(d) = Acknowledged(d) /\ Apps!Confirmed(d) = Confirmed(d)
            /\ Apps!Forgotten(d) = Forgotten(d) /\ Apps!Failed(d) = Failed(d)
            /\ Apps!Cancelling(d) = Cancelling(d)
            /\ Apps!MayRecheck(d) <=> MayRecheck(d)
            /\ Apps!MaySwitch(d) <=> MaySwitch(d)
            /\ Apps!MayAcknowledge(d) <=> MayAcknowledge(d)
            /\ Apps!MayConfirm(d) <=> MayConfirm(d)
            /\ Apps!MayCancel(d) <=> MayCancel(d)
            /\ Apps!DeletesAsConfirmed(d) <=> DeletesAsConfirmed(d)
  /\ \A d, c : /\ Apps!Switching(d, c) = Switching(d, c) /\ Apps!Taken(d, c) = Taken(d, c)
               /\ Apps!Executable(d, c) <=> Executable(d, c)
               /\ Apps!Prepared(d, c) = Prepared(d, c) /\ Apps!Switched(d, c) = Switched(d, c)
               /\ Apps!CancelAnswered(d, c) = CancelAnswered(d, c)
  /\ \A d, i, m : Apps!Opened(d, i, m) = Opened(d, i, m)
BY DEF Apps!ClosedDialog, Apps!NoLease, Apps!Quiet, Apps!Modes, Apps!Released, Apps!Closed,
       Apps!LeaseRequest, Apps!Preparing, Apps!Opened, Apps!ApplyRefreshedCleanupTargets,
       Apps!Prepared, Apps!Rechecked, Apps!MayRecheck, Apps!MaySwitch, Apps!Switching,
       Apps!Switched, Apps!MayAcknowledge, Apps!Acknowledged, Apps!MayConfirm, Apps!Confirmed,
       Apps!Taken, Apps!Executable, Apps!Forgotten, Apps!Failed, Apps!MayCancel,
       Apps!Cancelling, Apps!CancelAnswered, Apps!DeletesAsConfirmed, ClosedDialog, NoLease,
       Quiet, Modes, Released, Closed, LeaseRequest, Preparing, Opened,
       ApplyRefreshedCleanupTargets, Prepared, Rechecked, MayRecheck, MaySwitch, Switching,
       Switched, MayAcknowledge, Acknowledged, MayConfirm, Confirmed, Taken, Executable,
       Forgotten, Failed, MayCancel, Cancelling, CancelAnswered, DeletesAsConfirmed

AppItems == (SUBSET Apps!Artifacts(Apps!Bundle)) \cup (SUBSET Apps!Artifacts(Apps!Trashed))
AllItems == Apps!Artifacts(Apps!Bundle) \cup Apps!Artifacts(Apps!Trashed)
AppNames == Apps!Installed \cup {Apps!None, Apps!Trashed}
Plans == [app : AppNames, residual : BOOLEAN]
Listings == [op : {"inventory"}, seq : Nat, forced : BOOLEAN]
Trashings == [op : {"trash"}]
Plannings == [op : {"plan"}, seq : Nat, app : AppNames, residual : BOOLEAN]
Natives == [op : {"native"}, app : AppNames]
AppCalls == Listings \cup Trashings \cup Plannings \cup Natives

AppStates ==
  [inventory : SUBSET AppNames, loading : BOOLEAN, inventorySeq : Nat, selected : AppNames,
   planSeq : Nat, plan : Plans, planning : BOOLEAN, chosen : SUBSET AllItems, residual : BOOLEAN,
   outcome : BOOLEAN, removed : SUBSET AppNames, native : [open : BOOLEAN, submitting : BOOLEAN],
   watched : BOOLEAN, trashed : BOOLEAN, dialog : Dialogs(AppItems),
   leases : SUBSET [seq : Nat, residual : BOOLEAN], acts : Int, calls : SUBSET AppCalls]

\* One plan at most is asked for under a number; while the last one is awaited
\* no plan is shown and no deletion is open; a plan says what it is of.
PlanInv(t) ==
  /\ \A c \in t.calls : c.op = "plan" =>
       /\ c.seq <= t.planSeq /\ (c.residual <=> c.app = Apps!Trashed)
       /\ c.seq = t.planSeq => /\ c.residual = t.residual
                               /\ t.plan.app = Apps!None /\ ~t.dialog.open
  /\ \A c, e \in t.calls : c.op = "plan" /\ e.op = "plan" /\ c.seq = e.seq => c = e
  /\ t.plan.app # Apps!None => (t.residual <=> t.plan.app = Apps!Trashed)

HasTrashed(items) == \E i \in items : i.app = Apps!Trashed

\* The open deletion is of items of the plan, and the request of the current
\* lease says of what kind they are.
AskedInv(t) ==
  /\ t.dialog.open => t.dialog.items # {}
  /\ t.dialog.open /\ t.plan.app # Apps!None => t.dialog.items \subseteq Apps!Artifacts(t.plan.app)
  /\ \A l \in t.leases : /\ l.seq <= t.dialog.seq
                         /\ l.seq = t.dialog.seq => (l.residual <=> HasTrashed(t.dialog.items))

AppsGood(t) == t \in AppStates /\ DialogInv(t.dialog) /\ PlanInv(t) /\ AskedInv(t)

LEMMA AppsArtifacts ==
  /\ \A app : \A i \in Apps!Artifacts(app) : i.app = app
  /\ \A app : app # Apps!Bundle /\ app # Apps!Trashed => Apps!Artifacts(app) = {}
<1>1. Apps!Bundle # Apps!Trashed
  BY DEF Apps!Bundle, Apps!Trashed
<1>2. Apps!Artifacts(Apps!Bundle) = {[app |-> Apps!Bundle, part |-> "application"],
                                     [app |-> Apps!Bundle, part |-> "cache"]}
  BY <1>1 DEF Apps!Artifacts, Apps!Item
<1>3. Apps!Artifacts(Apps!Trashed) = {[app |-> Apps!Trashed, part |-> "cache"]}
  BY <1>1 DEF Apps!Artifacts, Apps!Item
<1>4. ASSUME NEW app, app # Apps!Bundle, app # Apps!Trashed PROVE Apps!Artifacts(app) = {}
  BY <1>4 DEF Apps!Artifacts
<1>5. ASSUME NEW app, NEW i \in Apps!Artifacts(app) PROVE i.app = app
  <2>1. CASE app = Apps!Bundle
    BY <1>2, <1>5, <2>1
  <2>2. CASE app = Apps!Trashed
    BY <1>3, <1>5, <2>2
  <2> QED BY <1>4, <1>5, <2>1, <2>2
<1> QED BY <1>4, <1>5

\* A change of the page that leaves the dialog, its leases and the plan's
\* number alone, and asks for no plan.
LEMMA AppsFrame ==
  ASSUME NEW t, AppsGood(t), NEW u \in AppStates, u.dialog = t.dialog, u.leases = t.leases,
         u.planSeq = t.planSeq, u.residual = t.residual,
         u.plan = t.plan \/ u.plan.app = Apps!None,
         \A c \in u.calls : c.op = "plan" => c \in t.calls
  PROVE  AppsGood(u)
<1>1. PlanInv(u)
  BY DEF AppsGood, PlanInv
<1>2. AskedInv(u)
  BY DEF AppsGood, AskedInv
<1> QED BY <1>1, <1>2 DEF AppsGood

\* A change of the dialog that shows the items it showed, or none, and under a
\* higher number when it shows others.
LEMMA AppsDialogFrame ==
  ASSUME NEW t, AppsGood(t), NEW d, Good(AppItems, d),
         (d.open = t.dialog.open /\ d.items = t.dialog.items) \/ d.open = FALSE,
         (d.seq = t.dialog.seq /\ d.items = t.dialog.items) \/ d.seq = t.dialog.seq + 1
  PROVE  AppsGood([t EXCEPT !.dialog = d])
<1> DEFINE u == [t EXCEPT !.dialog = d]
<1>1. /\ u \in AppStates /\ u.dialog = d /\ u.leases = t.leases /\ u.planSeq = t.planSeq
      /\ u.residual = t.residual /\ u.plan = t.plan /\ u.calls = t.calls
  BY DEF AppsGood, AppStates, Good
<1>2. d.seq \in Nat /\ t.dialog.seq \in Nat /\ \A l \in t.leases : l.seq \in Nat
  BY DEF AppsGood, AppStates, Good, Dialogs
<1> HIDE DEF u
<1>3. PlanInv(u)
  BY <1>1 DEF AppsGood, PlanInv
<1>4. AskedInv(u)
  <2>1. /\ u.dialog.open => u.dialog.items # {}
        /\ u.dialog.open /\ u.plan.app # Apps!None => u.dialog.items \subseteq Apps!Artifacts(u.plan.app)
    BY <1>1 DEF AppsGood, AskedInv
  <2>2. ASSUME NEW l \in u.leases
        PROVE  l.seq <= d.seq /\ (l.seq = d.seq => (l.residual <=> HasTrashed(d.items)))
    <3>1. /\ l.seq <= t.dialog.seq /\ l.seq \in Nat
          /\ l.seq = t.dialog.seq => (l.residual <=> HasTrashed(t.dialog.items))
      BY <1>1, <1>2 DEF AppsGood, AskedInv
    <3> QED BY <1>2, <3>1
  <2> QED BY <1>1, <2>1, <2>2 DEF AskedInv
<1>5. AppsGood(u)
  BY <1>1, <1>3, <1>4 DEF AppsGood, Good
<1> QED BY <1>5 DEF u

LEMMA AppsDialogGood ==
  ASSUME NEW t, AppsGood(t)
  PROVE  /\ Good(AppItems, t.dialog) /\ {} \in AppItems /\ t.dialog.items \in AppItems
         /\ t.dialog.open \in BOOLEAN
         /\ ~t.dialog.busy.submitting => Sent(t.dialog) = {}
BY DEF AppsGood, AppStates, Good, AppItems, Dialogs, DialogInv, BusyInv

LEMMA AppsSpent ==
  ASSUME AppsGood(s)
  PROVE  /\ AppsGood(Apps!Spend) /\ Apps!Spend.dialog = s.dialog /\ Apps!Spend.leases = s.leases
         /\ Apps!Spend.plan = s.plan /\ Apps!Spend.planSeq = s.planSeq
         /\ Apps!Spend.residual = s.residual /\ Apps!Spend.calls = s.calls
<1>1. /\ Apps!Spend \in AppStates /\ Apps!Spend.dialog = s.dialog /\ Apps!Spend.leases = s.leases
      /\ Apps!Spend.plan = s.plan /\ Apps!Spend.planSeq = s.planSeq
      /\ Apps!Spend.residual = s.residual /\ Apps!Spend.calls = s.calls
  BY DEF AppsGood, AppStates, Apps!Spend
<1> QED BY <1>1, AppsFrame

LEMMA AppCallTypes ==
  ASSUME AppsGood(s), NEW c \in s.calls
  PROVE  /\ c.op = "plan" => c \in Plannings
         /\ c.op = "native" => c.app \in AppNames
         /\ c.op = "inventory" => c.forced \in BOOLEAN
<1>1. c \in AppCalls
  BY DEF AppsGood, AppStates
<1> QED BY <1>1 DEF AppCalls, Listings, Trashings, Plannings, Natives

\* The inventory is asked for again.
LEMMA AppsRefreshing ==
  ASSUME NEW t, AppsGood(t) PROVE AppsGood(Apps!Refreshing(t))
<1> DEFINE seq == t.inventorySeq + 1
           r == [op |-> "inventory", seq |-> seq, forced |-> TRUE]
           u == [t EXCEPT !.inventorySeq = seq, !.loading = TRUE, !.calls = @ \cup {r}]
<1>1. t \in AppStates /\ seq \in Nat
  BY DEF AppsGood, AppStates
<1>2. r \in AppCalls /\ r.op = "inventory"
  BY <1>1 DEF AppCalls, Listings
<1>3. Apps!Refreshing(t) = u
  BY <1>1 DEF Apps!Refreshing, AppStates
<1> HIDE DEF seq, r
<1>4. /\ u \in AppStates /\ u.dialog = t.dialog /\ u.leases = t.leases /\ u.plan = t.plan
      /\ u.planSeq = t.planSeq /\ u.residual = t.residual /\ u.calls = t.calls \cup {r}
  BY <1>1, <1>2 DEF AppStates
<1> HIDE DEF u
<1>5. AppsGood(u)
  BY <1>2, <1>4, AppsFrame
<1> QED BY <1>3, <1>5
LEMMA AppsInventoryStep ==
  ASSUME AppsGood(s), NEW c \in s.calls, Apps!InventoryArrives(c)
  PROVE  AppsGood(s)'
<1> DEFINE t == [s EXCEPT !.calls = Apps!Without(c)]
           removed == IF c.forced THEN {} ELSE s.removed
           selected == IF s.selected \in Apps!Installed THEN s.selected ELSE Apps!None
           quiet == [t EXCEPT !.loading = FALSE]
           shown == [t EXCEPT !.loading = FALSE, !.inventory = Apps!Installed, !.removed = removed,
                              !.selected = selected]
<1>1. s \in AppStates /\ Apps!Without(c) \subseteq s.calls
  BY DEF AppsGood, Apps!Without
<1>2. /\ t \in AppStates /\ t.dialog = s.dialog /\ t.leases = s.leases /\ t.plan = s.plan
      /\ t.planSeq = s.planSeq /\ t.residual = s.residual /\ t.calls = Apps!Without(c)
      /\ t.removed = s.removed /\ t.selected = s.selected
  BY <1>1 DEF AppStates
<1>3. s' \in {t, quiet, shown, Apps!Refreshing(shown)}
  BY <1>2 DEF Apps!InventoryArrives
<1>4. removed \in SUBSET AppNames /\ selected \in AppNames /\ Apps!Installed \in SUBSET AppNames
  BY <1>1 DEF AppStates, AppNames
<1> HIDE DEF t, removed, selected
<1>5. /\ quiet \in AppStates /\ quiet.dialog = t.dialog /\ quiet.leases = t.leases
      /\ quiet.plan = t.plan /\ quiet.planSeq = t.planSeq /\ quiet.residual = t.residual
      /\ quiet.calls = t.calls
  BY <1>2 DEF AppStates
<1>6. /\ shown \in AppStates /\ shown.dialog = t.dialog /\ shown.leases = t.leases
      /\ shown.plan = t.plan /\ shown.planSeq = t.planSeq /\ shown.residual = t.residual
      /\ shown.calls = t.calls
  BY <1>2, <1>4 DEF AppStates
<1> HIDE DEF quiet, shown
<1>7. AppsGood(t)
  BY <1>1, <1>2, AppsFrame
<1>8. AppsGood(quiet) /\ AppsGood(shown)
  BY <1>5, <1>6, <1>7, AppsFrame
<1>9. AppsGood(Apps!Refreshing(shown))
  BY <1>8, AppsRefreshing
<1> QED BY <1>3, <1>7, <1>8, <1>9

LEMMA AppsListSteps ==
  ASSUME AppsGood(s),
         \/ Apps!Refresh \/ Apps!Watch
         \/ \E c \in s.calls : Apps!TrashListed(c)
         \/ \E item \in AllItems : Apps!ToggleArtifact(item)
  PROVE  AppsGood(s)'
<1> DEFINE t == Apps!Spend
<1>1. /\ AppsGood(t) /\ t.dialog = s.dialog /\ t.leases = s.leases /\ t.plan = s.plan
      /\ t.planSeq = s.planSeq /\ t.residual = s.residual /\ t.calls = s.calls
  BY AppsSpent
<1>2. t.watched = s.watched /\ t.chosen = s.chosen
  BY DEF AppsGood, AppStates, Apps!Spend
<1> HIDE DEF t
<1>3. CASE Apps!Refresh
  <2>1. AppsGood(Apps!Refreshing(t))
    BY <1>1, AppsRefreshing
  <2> QED BY <1>3, <2>1 DEF Apps!Refresh, t
<1>4. CASE Apps!Watch
  <2> DEFINE r == [op |-> "trash"]
             calls == IF s.watched THEN t.calls ELSE t.calls \cup {r}
  <2>1. r \in AppCalls /\ r.op = "trash"
    BY DEF AppCalls, Trashings
  <2>2. s' = [t EXCEPT !.watched = ~@, !.trashed = FALSE, !.calls = calls]
    BY <1>1, <1>4 DEF Apps!Watch, t, AppsGood, AppStates
  <2> HIDE DEF r
  <2>3. calls \in SUBSET AppCalls /\ \A c \in calls : c.op = "plan" => c \in t.calls
    BY <1>1, <2>1 DEF AppsGood, AppStates
  <2> HIDE DEF calls
  <2>4. /\ s' \in AppStates /\ s'.dialog = t.dialog /\ s'.leases = t.leases /\ s'.plan = t.plan
        /\ s'.planSeq = t.planSeq /\ s'.residual = t.residual /\ s'.calls = calls
    <3>1. t \in AppStates
      BY <1>1 DEF AppsGood
    <3>2. s' \in AppStates
      <4> DEFINE on == ~t.watched
      <4>1. on \in BOOLEAN
        OBVIOUS
      <4>2. s' = [t EXCEPT !.watched = on, !.trashed = FALSE, !.calls = calls]
        BY <2>2
      <4> HIDE DEF on
      <4> QED BY <2>3, <3>1, <4>1, <4>2 DEF AppStates
    <3>3. /\ s'.dialog = t.dialog /\ s'.leases = t.leases /\ s'.plan = t.plan
          /\ s'.planSeq = t.planSeq /\ s'.residual = t.residual /\ s'.calls = calls
      BY <2>2, <3>1 DEF AppStates
    <3> QED BY <3>2, <3>3
  <2>5. AppsGood(s')
    BY <1>1, <2>3, <2>4, AppsFrame
  <2> QED BY <2>5
<1>5. CASE \E c \in s.calls : Apps!TrashListed(c)
  <2>1. PICK c \in s.calls : Apps!TrashListed(c)
    BY <1>5
  <2>2. PICK found \in BOOLEAN : s' = [s EXCEPT !.calls = Apps!Without(c), !.trashed = found]
    BY <2>1 DEF Apps!TrashListed, AppsGood, AppStates
  <2>3. Apps!Without(c) \subseteq s.calls
    BY DEF Apps!Without
  <2>4. /\ s' \in AppStates /\ s'.dialog = s.dialog /\ s'.leases = s.leases /\ s'.plan = s.plan
        /\ s'.planSeq = s.planSeq /\ s'.residual = s.residual /\ s'.calls = Apps!Without(c)
    BY <2>2, <2>3 DEF AppsGood, AppStates
  <2>5. AppsGood(s')
    BY <2>3, <2>4, AppsFrame
  <2> QED BY <2>5
<1>6. CASE \E item \in AllItems : Apps!ToggleArtifact(item)
  <2>1. PICK item \in AllItems : Apps!ToggleArtifact(item)
    BY <1>6
  <2> DEFINE chosen == IF item \in s.chosen THEN s.chosen \ {item} ELSE s.chosen \cup {item}
  <2>2. s' = [t EXCEPT !.chosen = chosen]
    BY <1>1, <1>2, <2>1 DEF Apps!ToggleArtifact, t, AppsGood, AppStates
  <2>3. chosen \in SUBSET AllItems
    BY DEF AppsGood, AppStates
  <2> HIDE DEF chosen
  <2>4. /\ s' \in AppStates /\ s'.dialog = t.dialog /\ s'.leases = t.leases /\ s'.plan = t.plan
        /\ s'.planSeq = t.planSeq /\ s'.residual = t.residual /\ s'.calls = t.calls
    BY <1>1, <2>2, <2>3 DEF AppsGood, AppStates
  <2>5. AppsGood(s')
    BY <1>1, <2>4, AppsFrame
  <2> QED BY <2>5
<1> QED BY <1>3, <1>4, <1>5, <1>6

\* A plan is asked for, under a number of its own.
LEMMA AppsPlanning ==
  ASSUME NEW t, AppsGood(t), NEW app \in AppNames, NEW residual \in BOOLEAN,
         residual <=> app = Apps!Trashed, ~t.dialog.open
  PROVE  LET u == Apps!Planning(t, app, residual)
         IN /\ AppsGood(u)
            /\ AppsGood([u EXCEPT !.planning = FALSE, !.calls = t.calls])
<1> DEFINE seq == t.planSeq + 1
           r == [op |-> "plan", seq |-> seq, app |-> app, residual |-> residual]
           u == [t EXCEPT !.planSeq = seq, !.selected = app, !.plan = Apps!NoPlan, !.outcome = FALSE,
                          !.residual = residual, !.planning = TRUE, !.calls = @ \cup {r}]
<1>1. t \in AppStates /\ t.planSeq \in Nat /\ seq \in Nat /\ seq > t.planSeq
  BY DEF AppsGood, AppStates
<1>2. /\ r \in AppCalls /\ r.op = "plan" /\ r.seq = seq /\ (r.residual <=> r.app = Apps!Trashed)
      /\ r.residual = residual
  BY <1>1 DEF AppCalls, Plannings
<1>3. Apps!Planning(t, app, residual) = u
  BY <1>1 DEF Apps!Planning, AppStates
<1>4. Apps!NoPlan \in Plans /\ Apps!NoPlan.app = Apps!None
  BY DEF Apps!NoPlan, Plans, AppNames
<1>5. \A c \in t.calls : c.op = "plan" => c.seq \in Nat
  BY <1>1 DEF AppStates, AppCalls, Listings, Trashings, Plannings, Natives
<1> HIDE DEF seq, r
<1>6. /\ u \in AppStates /\ u.dialog = t.dialog /\ u.leases = t.leases /\ u.plan = Apps!NoPlan
      /\ u.planSeq = seq /\ u.residual = residual /\ u.calls = t.calls \cup {r}
  BY <1>1, <1>2, <1>4 DEF AppStates
<1> HIDE DEF u
<1>7. AskedInv(u)
  BY <1>6 DEF AppsGood, AskedInv
<1>8. PlanInv(u)
  <2>1. \A c \in t.calls : c.op = "plan" => c.seq < seq /\ (c.residual <=> c.app = Apps!Trashed)
    BY <1>1, <1>5 DEF AppsGood, PlanInv
  <2>2. \A c \in u.calls : c.op = "plan" =>
          /\ c.seq <= u.planSeq /\ (c.residual <=> c.app = Apps!Trashed)
          /\ c.seq = u.planSeq => c = r
    BY <1>1, <1>2, <1>5, <1>6, <2>1
  <2>3. \A c, e \in u.calls : c.op = "plan" /\ e.op = "plan" /\ c.seq = e.seq => c = e
    <3>1. \A c, e \in t.calls : c.op = "plan" /\ e.op = "plan" /\ c.seq = e.seq => c = e
      BY DEF AppsGood, PlanInv
    <3>2. \A c \in t.calls : c.op = "plan" => c.seq # r.seq
      BY <1>1, <1>2, <1>5, <2>1
    <3> QED BY <1>6, <3>1, <3>2
  <2>4. r.residual = u.residual /\ u.plan.app = Apps!None /\ ~u.dialog.open
    BY <1>2, <1>4, <1>6
  <2> QED BY <2>2, <2>3, <2>4 DEF PlanInv
<1>9. AppsGood(u)
  BY <1>6, <1>7, <1>8 DEF AppsGood
<1> DEFINE v == [u EXCEPT !.planning = FALSE, !.calls = t.calls]
<1>10. /\ v \in AppStates /\ v.dialog = u.dialog /\ v.leases = u.leases /\ v.plan = u.plan
       /\ v.planSeq = u.planSeq /\ v.residual = u.residual /\ v.calls = t.calls
  BY <1>1, <1>6 DEF AppStates
<1> HIDE DEF v
<1>11. AppsGood(v)
  BY <1>6, <1>9, <1>10, AppsFrame
<1> QED BY <1>3, <1>9, <1>11 DEF v

LEMMA AppsSelectSteps ==
  ASSUME AppsGood(s),
         Apps!InspectTrashed \/ \E app \in Apps!Installed : Apps!SelectApplication(app)
  PROVE  AppsGood(s)'
<1> DEFINE t == Apps!Spend
<1>1. AppsGood(t) /\ t.dialog = s.dialog /\ t.calls = s.calls
  BY AppsSpent
<1>2. ~s.dialog.open
  BY DEF Apps!InspectTrashed, Apps!SelectApplication, Apps!Modal
<1> HIDE DEF t
<1>3. CASE Apps!InspectTrashed
  <2>1. s' = Apps!Planning(t, Apps!Trashed, TRUE)
    BY <1>3 DEF Apps!InspectTrashed, t
  <2>2. Apps!Trashed \in AppNames
    BY DEF AppNames
  <2>3. AppsGood(Apps!Planning(t, Apps!Trashed, TRUE))
    BY <1>1, <1>2, <2>2, AppsPlanning
  <2> QED BY <2>1, <2>3
<1>4. CASE \E app \in Apps!Installed : Apps!SelectApplication(app)
  <2>1. PICK app \in Apps!Installed : Apps!SelectApplication(app)
    BY <1>4
  <2> DEFINE u == Apps!Planning(t, app, FALSE)
  <2>2. s' = u \/ s' = [u EXCEPT !.planning = FALSE, !.calls = t.calls]
    BY <1>1, <2>1 DEF Apps!SelectApplication, t
  <2>3. app \in AppNames /\ app # Apps!Trashed
    BY DEF AppNames, Apps!Installed, Apps!Trashed, Apps!Bundle, Apps!Managed, Apps!Fixed
  <2>4. AppsGood(u) /\ AppsGood([u EXCEPT !.planning = FALSE, !.calls = t.calls])
    BY <1>1, <1>2, <2>3, AppsPlanning
  <2> HIDE DEF u
  <2> QED BY <2>2, <2>4
<1> QED BY <1>3, <1>4

\* The plan arrives: it is shown when it is the last one asked for.
LEMMA AppsPlanStep ==
  ASSUME AppsGood(s), NEW c \in s.calls, Apps!PlanArrives(c)
  PROVE  AppsGood(s)'
<1> DEFINE t == [s EXCEPT !.calls = Apps!Without(c)]
           plan == [app |-> c.app, residual |-> c.residual]
           quiet == [t EXCEPT !.planning = FALSE]
           shown == [t EXCEPT !.planning = FALSE, !.plan = plan, !.chosen = Apps!Artifacts(c.app)]
<1>1. s \in AppStates /\ c.op = "plan" /\ Apps!Without(c) = s.calls \ {c}
  BY DEF AppsGood, Apps!Without, Apps!PlanArrives
<1>2. c \in Plannings
  BY <1>1, AppCallTypes
<1>3. plan \in Plans /\ plan.app = c.app /\ Apps!Artifacts(c.app) \in SUBSET AllItems
  <2>1. c.app # Apps!Bundle /\ c.app # Apps!Trashed => Apps!Artifacts(c.app) = {}
    BY AppsArtifacts
  <2> QED BY <1>2, <2>1 DEF Plannings, Plans, AllItems
<1>4. /\ t \in AppStates /\ t.dialog = s.dialog /\ t.leases = s.leases /\ t.plan = s.plan
      /\ t.planSeq = s.planSeq /\ t.residual = s.residual /\ t.calls = s.calls \ {c}
  BY <1>1 DEF AppStates
<1>5. s' = t \/ (c.seq = s.planSeq /\ s' \in {quiet, shown})
  BY <1>4 DEF Apps!PlanArrives
<1> HIDE DEF t, plan
<1>6. /\ quiet \in AppStates /\ quiet.dialog = t.dialog /\ quiet.leases = t.leases
      /\ quiet.plan = t.plan /\ quiet.planSeq = t.planSeq /\ quiet.residual = t.residual
      /\ quiet.calls = t.calls
  BY <1>4 DEF AppStates
<1>7. /\ shown \in AppStates /\ shown.dialog = t.dialog /\ shown.leases = t.leases
      /\ shown.plan = plan /\ shown.planSeq = t.planSeq /\ shown.residual = t.residual
      /\ shown.calls = t.calls
  BY <1>3, <1>4 DEF AppStates
<1> HIDE DEF quiet, shown
<1>8. AppsGood(t)
  BY <1>4, AppsFrame
<1>9. AppsGood(quiet)
  BY <1>6, <1>8, AppsFrame
<1>10. c.seq = s.planSeq => AppsGood(shown)
  <2> SUFFICES ASSUME c.seq = s.planSeq PROVE AppsGood(shown)
    OBVIOUS
  <2>1. c.residual = s.residual /\ (c.residual <=> c.app = Apps!Trashed) /\ ~s.dialog.open
    BY <1>1 DEF AppsGood, PlanInv
  <2>2. \A e \in shown.calls : e.op = "plan" => e \in s.calls /\ e.seq # s.planSeq
    BY <1>1, <1>4, <1>7 DEF AppsGood, PlanInv
  <2>3. PlanInv(shown)
    BY <1>3, <1>4, <1>7, <2>1, <2>2 DEF AppsGood, PlanInv
  <2>4. AskedInv(shown)
    BY <1>4, <1>7, <2>1 DEF AppsGood, AskedInv
  <2> QED BY <1>4, <1>7, <2>3, <2>4 DEF AppsGood
<1> QED BY <1>5, <1>8, <1>9, <1>10

\* The system's own uninstaller.
LEMMA AppsNativeSteps ==
  ASSUME AppsGood(s),
         \/ Apps!ReviewNative \/ Apps!CloseNative \/ Apps!ConfirmNativeUninstall
         \/ \E c \in s.calls : Apps!NativeEnds(c)
  PROVE  AppsGood(s)'
<1> DEFINE t == Apps!Spend
<1>1. /\ AppsGood(t) /\ t.dialog = s.dialog /\ t.leases = s.leases /\ t.plan = s.plan
      /\ t.planSeq = s.planSeq /\ t.residual = s.residual /\ t.calls = s.calls
  BY AppsSpent
<1>2. s \in AppStates /\ s.native \in [open : BOOLEAN, submitting : BOOLEAN]
  BY DEF AppsGood, AppStates
<1> HIDE DEF t
<1>3. CASE Apps!ReviewNative \/ Apps!CloseNative
  <2>1. /\ s' \in AppStates /\ s'.dialog = s.dialog /\ s'.leases = s.leases /\ s'.plan = s.plan
        /\ s'.planSeq = s.planSeq /\ s'.residual = s.residual /\ s'.calls = s.calls
    <3>1. CASE Apps!ReviewNative
      <4>1. s' = [t EXCEPT !.native.open = TRUE]
        BY <3>1 DEF Apps!ReviewNative, t
      <4> QED BY <1>1, <4>1 DEF AppsGood, AppStates
    <3>2. CASE Apps!CloseNative
      BY <1>2, <3>2 DEF Apps!CloseNative, AppStates
    <3> QED BY <1>3, <3>1, <3>2
  <2>2. AppsGood(s')
    BY <2>1, AppsFrame
  <2> QED BY <2>2
<1>4. CASE Apps!ConfirmNativeUninstall
  <2> DEFINE r == [op |-> "native", app |-> s.plan.app]
  <2>1. r \in AppCalls /\ r.op = "native"
    BY <1>2 DEF AppCalls, Natives, AppStates, Plans
  <2>2. s' = [s EXCEPT !.native.submitting = TRUE, !.calls = @ \cup {r}]
    BY <1>4 DEF Apps!ConfirmNativeUninstall
  <2> HIDE DEF r
  <2>3. /\ s' \in AppStates /\ s'.dialog = s.dialog /\ s'.leases = s.leases /\ s'.plan = s.plan
        /\ s'.planSeq = s.planSeq /\ s'.residual = s.residual /\ s'.calls = s.calls \cup {r}
    BY <1>2, <2>1, <2>2 DEF AppStates
  <2>4. AppsGood(s')
    BY <2>1, <2>3, AppsFrame
  <2> QED BY <2>4
<1>5. CASE \E c \in s.calls : Apps!NativeEnds(c)
  <2>1. PICK c \in s.calls : Apps!NativeEnds(c)
    BY <1>5
  <2> DEFINE u == [s EXCEPT !.calls = Apps!Without(c), !.native.submitting = FALSE]
             v == [u EXCEPT !.native.open = FALSE]
             w == [u EXCEPT !.native.open = FALSE, !.removed = @ \cup {c.app}, !.plan = Apps!NoPlan]
  <2>2. s' \in {u, v, w}
    BY <2>1 DEF Apps!NativeEnds
  <2>3. c.app \in AppNames /\ Apps!Without(c) \subseteq s.calls
    BY <2>1, AppCallTypes DEF Apps!NativeEnds, Apps!Without
  <2>4. Apps!NoPlan \in Plans /\ Apps!NoPlan.app = Apps!None
    BY DEF Apps!NoPlan, Plans, AppNames
  <2>5. /\ u \in AppStates /\ u.dialog = s.dialog /\ u.leases = s.leases /\ u.plan = s.plan
        /\ u.planSeq = s.planSeq /\ u.residual = s.residual /\ u.calls \subseteq s.calls
    BY <1>2, <2>3 DEF AppStates
  <2> HIDE DEF u
  <2>6. /\ v \in AppStates /\ v.dialog = u.dialog /\ v.leases = u.leases /\ v.plan = u.plan
        /\ v.planSeq = u.planSeq /\ v.residual = u.residual /\ v.calls = u.calls
    BY <2>5 DEF AppStates
  <2>7. /\ w \in AppStates /\ w.dialog = u.dialog /\ w.leases = u.leases /\ w.plan = Apps!NoPlan
        /\ w.planSeq = u.planSeq /\ w.residual = u.residual /\ w.calls = u.calls
    BY <2>3, <2>4, <2>5 DEF AppStates
  <2> HIDE DEF v, w
  <2>8. AppsGood(u)
    BY <2>5, AppsFrame
  <2>9. AppsGood(v) /\ AppsGood(w)
    BY <2>4, <2>6, <2>7, <2>8, AppsFrame
  <2> QED BY <2>2, <2>8, <2>9
<1> QED BY <1>3, <1>4, <1>5
\* A lease is asked for: its request is kept with the kind of the plan's items.
LEMMA AppsAsked ==
  ASSUME NEW t, AppsGood(t), NEW d, Good(AppItems, d), d.open, d.items # {},
         t.plan.app # Apps!None, d.items \subseteq Apps!Artifacts(t.plan.app),
         d.seq = t.dialog.seq + 1,
         \A c \in t.calls : c.op = "plan" => c.seq # t.planSeq
  PROVE  AppsGood(Apps!Asked([t EXCEPT !.dialog = d]))
<1> DEFINE r == [seq |-> d.seq, residual |-> t.residual]
           v == [t EXCEPT !.dialog = d]
           u == [v EXCEPT !.leases = @ \cup {r}]
<1>1. /\ v \in AppStates /\ v.dialog = d /\ v.leases = t.leases /\ v.plan = t.plan
      /\ v.planSeq = t.planSeq /\ v.residual = t.residual /\ v.calls = t.calls
  BY DEF AppsGood, AppStates, Good
<1>2. /\ d.seq \in Nat /\ t.dialog.seq \in Nat /\ t.residual \in BOOLEAN
      /\ \A l \in t.leases : l.seq \in Nat
  BY DEF AppsGood, AppStates, Good, Dialogs
<1>3. /\ r \in [seq : Nat, residual : BOOLEAN] /\ r.seq = d.seq /\ r.residual = t.residual
      /\ Apps!Asked(v) = u
  BY <1>1, <1>2 DEF Apps!Asked
<1> HIDE DEF v, r
<1>4. /\ u \in AppStates /\ u.dialog = d /\ u.leases = t.leases \cup {r} /\ u.plan = t.plan
      /\ u.planSeq = t.planSeq /\ u.residual = t.residual /\ u.calls = t.calls
  BY <1>1, <1>3 DEF AppStates
<1> HIDE DEF u
<1>5. PlanInv(u)
  BY <1>4 DEF AppsGood, PlanInv
<1>6. HasTrashed(d.items) <=> t.plan.app = Apps!Trashed
  BY AppsArtifacts DEF HasTrashed
<1>7. t.residual <=> t.plan.app = Apps!Trashed
  BY DEF AppsGood, PlanInv
<1>8. AskedInv(u)
  <2>1. ASSUME NEW l \in u.leases
        PROVE  l.seq <= d.seq /\ (l.seq = d.seq => (l.residual <=> HasTrashed(d.items)))
    <3>1. CASE l = r
      BY <1>2, <1>3, <1>6, <1>7, <3>1
    <3>2. CASE l \in t.leases
      <4>1. l.seq <= t.dialog.seq /\ l.seq \in Nat
        BY <1>2, <3>2 DEF AppsGood, AskedInv
      <4> QED BY <1>2, <4>1
    <3> QED BY <1>4, <3>1, <3>2
  <2> QED BY <1>4, <2>1 DEF AskedInv
<1>9. AppsGood(u)
  BY <1>4, <1>5, <1>8 DEF AppsGood, Good
<1> QED BY <1>3, <1>9 DEF v

LEMMA AppsOpenStep ==
  ASSUME AppsGood(s), Apps!OpenDeleteDialog
  PROVE  AppsGood(s)'
<1> DEFINE t == Apps!Spend
           d == s.dialog
           items == s.chosen \cap Apps!Artifacts(s.plan.app)
           e == Opened(d, items, "trash")
<1>1. /\ AppsGood(t) /\ t.dialog = s.dialog /\ t.plan = s.plan /\ t.calls = s.calls
      /\ t.planSeq = s.planSeq
  BY AppsSpent
<1>2. /\ s.plan.app # Apps!None /\ items # {} /\ ~d.open
      /\ s' = Apps!Asked([t EXCEPT !.dialog = e])
  BY <1>1, AppsDialog DEF Apps!OpenDeleteDialog, Apps!Current, Apps!Modal, AppsGood, AppStates
<1>3. items \in AppItems /\ "trash" \in Modes
  <2>1. s.plan.app = Apps!Bundle \/ s.plan.app = Apps!Trashed
    BY <1>2, AppsArtifacts
  <2> QED BY <2>1 DEF AppItems, Modes
<1>4. items \subseteq Apps!Artifacts(s.plan.app)
  OBVIOUS
<1>5. Good(AppItems, d) /\ {} \in AppItems /\ ~d.busy.submitting
  BY <1>2, AppsDialogGood DEF Good, DialogInv, BusyInv
<1> HIDE DEF items
<1>6. Good(AppItems, e) /\ e.open /\ e.items = items /\ e.seq = d.seq + 1
  BY <1>2, <1>3, <1>5, OpenedGood
<1> HIDE DEF t, e
<1>7. \A c \in t.calls : c.op = "plan" => c.seq # t.planSeq
  BY <1>1, <1>2 DEF AppsGood, PlanInv
<1>8. AppsGood(Apps!Asked([t EXCEPT !.dialog = e]))
  BY <1>1, <1>2, <1>4, <1>6, <1>7, AppsAsked
<1> QED BY <1>2, <1>8

LEMMA AppsRecheckStep ==
  ASSUME AppsGood(s), Apps!Recheck
  PROVE  AppsGood(s)'
<1> DEFINE t == Apps!Spend
           d == s.dialog
           e == Rechecked(d)
<1>1. /\ AppsGood(t) /\ t.dialog = s.dialog /\ t.plan = s.plan /\ t.calls = s.calls
      /\ t.planSeq = s.planSeq
  BY AppsSpent
<1>2. /\ s.plan.app # Apps!None /\ MayRecheck(d)
      /\ s' = Apps!Asked([t EXCEPT !.dialog = e])
  BY <1>1, AppsDialog DEF Apps!Recheck, AppsGood, AppStates
<1>3. d.open /\ d.items # {} /\ d.items \subseteq Apps!Artifacts(s.plan.app)
  BY <1>2 DEF MayRecheck, AppsGood, AskedInv
<1>4. Good(AppItems, e) /\ Same(d, e) /\ e.seq = d.seq + 1
  BY <1>2, AppsDialogGood, RecheckedGood
<1>5. e.open /\ e.items = d.items
  BY <1>3, <1>4 DEF Same
<1> HIDE DEF t, e
<1>6. \A c \in t.calls : c.op = "plan" => c.seq # t.planSeq
  BY <1>1, <1>2 DEF AppsGood, PlanInv
<1>7. AppsGood(Apps!Asked([t EXCEPT !.dialog = e]))
  BY <1>1, <1>2, <1>3, <1>4, <1>5, <1>6, AppsAsked
<1> QED BY <1>2, <1>7

LEMMA AppsChoiceSteps ==
  ASSUME AppsGood(s),
         \/ Apps!Acknowledge \/ Apps!CloseDeleteDialog \/ Apps!ConfirmUninstall \/ Apps!CancelUninstall
         \/ \E mode \in Apps!Modes : Apps!ChangeDeleteMode(mode)
  PROVE  AppsGood(s)'
<1> DEFINE t == Apps!Spend
           d == s.dialog
<1>1. AppsGood(t) /\ t.dialog = s.dialog
  BY AppsSpent
<1>2. Good(AppItems, d) /\ {} \in AppItems /\ (~d.busy.submitting => Sent(d) = {})
  BY AppsDialogGood
<1>3. CASE \E mode \in Apps!Modes : Apps!ChangeDeleteMode(mode)
  <2>1. PICK mode \in Modes : s' = [t EXCEPT !.dialog = Switching(d, mode)] /\ MaySwitch(d)
    BY <1>1, <1>3, AppsDialog DEF Apps!ChangeDeleteMode, AppsGood, AppStates
  <2>2. /\ Good(AppItems, Switching(d, mode)) /\ Same(t.dialog, Switching(d, mode))
        /\ Switching(d, mode).seq = d.seq \/ Switching(d, mode).seq = d.seq + 1
    BY <1>1, <1>2, <2>1, SwitchingGood
  <2>3. AppsGood([t EXCEPT !.dialog = Switching(d, mode)])
    BY <1>1, <2>2, AppsDialogFrame DEF Same
  <2> QED BY <2>1, <2>3
<1>4. CASE Apps!Acknowledge
  <2>1. s' = [s EXCEPT !.dialog = Acknowledged(d)]
    BY <1>4, AppsDialog DEF Apps!Acknowledge, Apps!Dialog
  <2>2. Good(AppItems, Acknowledged(d)) /\ Same(d, Acknowledged(d)) /\ Acknowledged(d).seq = d.seq
    BY <1>2, AcknowledgedGood
  <2>3. AppsGood([s EXCEPT !.dialog = Acknowledged(d)])
    BY <2>2, AppsDialogFrame DEF Same
  <2> QED BY <2>1, <2>3
<1>5. CASE Apps!CancelUninstall
  <2>1. s' = [s EXCEPT !.dialog = Cancelling(d)]
    BY <1>5, AppsDialog DEF Apps!CancelUninstall, Apps!Dialog
  <2>2. Good(AppItems, Cancelling(d)) /\ Same(d, Cancelling(d)) /\ Cancelling(d).seq = d.seq
    BY <1>2, CancellingGood
  <2>3. AppsGood([s EXCEPT !.dialog = Cancelling(d)])
    BY <2>2, AppsDialogFrame DEF Same
  <2> QED BY <2>1, <2>3
<1>6. CASE Apps!CloseDeleteDialog
  <2>1. s' = [s EXCEPT !.dialog = Closed(d)] /\ ~d.busy.submitting
    BY <1>6, AppsDialog DEF Apps!CloseDeleteDialog, Apps!Dialog
  <2>2. Good(AppItems, Closed(d)) /\ ~Closed(d).open /\ Closed(d).seq = d.seq + 1
    BY <1>2, <2>1, ClosedGood
  <2>3. Closed(d).open = FALSE
    BY <2>2 DEF Good, Dialogs
  <2>4. AppsGood([s EXCEPT !.dialog = Closed(d)])
    BY <2>2, <2>3, AppsDialogFrame
  <2> QED BY <2>1, <2>4
<1>7. CASE Apps!ConfirmUninstall
  <2>1. s' = [s EXCEPT !.dialog = Confirmed(d)] /\ MayConfirm(d)
    BY <1>7, AppsDialog DEF Apps!ConfirmUninstall, Apps!Dialog
  <2>2. /\ Good(AppItems, Confirmed(d)) /\ Confirmed(d).open = d.open /\ Confirmed(d).items = d.items
        /\ Confirmed(d).seq = d.seq
    BY <1>2, <2>1, ConfirmedGood
  <2>3. AppsGood([s EXCEPT !.dialog = Confirmed(d)])
    BY <2>2, AppsDialogFrame
  <2> QED BY <2>1, <2>3
<1> QED BY <1>3, <1>4, <1>5, <1>6, <1>7

LEMMA AppsAnswerSteps ==
  ASSUME AppsGood(s), NEW c \in s.dialog.calls,
         \/ Apps!PrepareDeleteLease(c) \/ Apps!ModeChanged(c) \/ Apps!UninstallCancelled(c)
         \/ Apps!UninstallFails(c)
  PROVE  AppsGood(s)'
<1> DEFINE d == s.dialog
<1>1. Good(AppItems, d) /\ {} \in AppItems
  BY AppsDialogGood
<1>2. CASE Apps!PrepareDeleteLease(c) \/ Apps!ModeChanged(c) \/ Apps!UninstallCancelled(c)
  <2>1. PICK e : /\ s' = [s EXCEPT !.dialog = e]
                 /\ \/ c.op = "prepare" /\ e \in Prepared(d, c)
                    \/ c.op = "switch" /\ e \in Switched(d, c)
                    \/ c.op = "stop" /\ e \in CancelAnswered(d, c)
    BY <1>2, AppsDialog DEF Apps!PrepareDeleteLease, Apps!ModeChanged, Apps!UninstallCancelled, Apps!Dialog
  <2>2. Good(AppItems, e) /\ Same(d, e) /\ e.seq = d.seq
    BY <1>1, <2>1, AnsweredGood
  <2>3. AppsGood([s EXCEPT !.dialog = e])
    BY <2>2, AppsDialogFrame DEF Same
  <2> QED BY <2>1, <2>3
<1>3. CASE Apps!UninstallFails(c)
  <2>1. PICK e : /\ s' = [s EXCEPT !.dialog = Failed(e)] /\ c.op = "execute"
                 /\ (e = Taken(d, c) /\ Executable(d, c)) \/ e = [d EXCEPT !.calls = @ \ {c}]
    BY <1>3, AppsDialog DEF Apps!UninstallFails, Apps!Dialog
  <2>2. /\ Good(AppItems, Failed(e)) /\ Failed(e).open = d.open /\ Failed(e).items = d.items
        /\ Failed(e).seq = d.seq
    BY <1>1, <2>1, FailedAnswerGood
  <2>3. AppsGood([s EXCEPT !.dialog = Failed(e)])
    BY <2>2, AppsDialogFrame
  <2> QED BY <2>1, <2>3
<1> QED BY <1>2, <1>3

\* The deletion ended: the dialog closes and the plan goes.
LEMMA AppsExecutedStep ==
  ASSUME AppsGood(s), NEW c \in s.dialog.calls, Apps!Uninstalled(c)
  PROVE  AppsGood(s)'
<1> DEFINE d == s.dialog
           f == Forgotten(Taken(d, c))
           e == Closed(f)
<1>1. Good(AppItems, d) /\ {} \in AppItems /\ d.items \in AppItems
  BY AppsDialogGood
<1>2. c.op = "execute" /\ Executable(d, c)
  BY AppsDialog DEF Apps!Uninstalled
<1>3. Good(AppItems, f) /\ Sent(f) = {} /\ f.seq = d.seq
  BY <1>1, <1>2, ExecutedGood
<1>4. PICK deleted \in SUBSET d.items :
        LET app == {i.app : i \in deleted \cap Apps!Required}
        IN s' = [s EXCEPT !.dialog = e, !.outcome = TRUE, !.plan = Apps!NoPlan, !.removed = @ \cup app,
                          !.selected = IF app = {} THEN Apps!None ELSE s.plan.app]
  BY AppsDialog DEF Apps!Uninstalled, AppsGood, AppStates
<1> DEFINE app == {i.app : i \in deleted \cap Apps!Required}
           removed == s.removed \cup app
           selected == IF app = {} THEN Apps!None ELSE s.plan.app
           t == [s EXCEPT !.outcome = TRUE, !.plan = Apps!NoPlan, !.removed = removed,
                          !.selected = selected]
<1> HIDE DEF f
<1>5. Good(AppItems, e) /\ ~e.open /\ e.seq = d.seq + 1
  BY <1>1, <1>3, ClosedGood
<1>6. e.open = FALSE
  BY <1>5 DEF Good, Dialogs
<1> HIDE DEF e
<1>7. app \subseteq AppNames
  <2>1. \A i \in Apps!Required : i.app \in AppNames
    BY DEF Apps!Required, Apps!Item, AppNames, Apps!Installed
  <2> QED BY <2>1
<1>8. s \in AppStates
  BY DEF AppsGood
<1>9. removed \in SUBSET AppNames /\ selected \in AppNames
  <2>1. s.removed \in SUBSET AppNames /\ s.plan.app \in AppNames /\ Apps!None \in AppNames
    BY <1>8 DEF AppStates, Plans, AppNames
  <2> HIDE DEF app
  <2> QED BY <1>7, <2>1
<1>10. s' = [s EXCEPT !.dialog = e, !.outcome = TRUE, !.plan = Apps!NoPlan, !.removed = removed,
                      !.selected = selected]
  BY <1>4, <1>8 DEF AppStates
<1> HIDE DEF removed, selected
<1>11. Apps!NoPlan \in Plans /\ Apps!NoPlan.app = Apps!None
  BY DEF Apps!NoPlan, Plans, AppNames
<1>12. /\ t \in AppStates /\ t.dialog = s.dialog /\ t.leases = s.leases /\ t.plan = Apps!NoPlan
       /\ t.planSeq = s.planSeq /\ t.residual = s.residual /\ t.calls = s.calls
  BY <1>8, <1>9, <1>11 DEF AppStates
<1>13. s' = [t EXCEPT !.dialog = e]
  BY <1>8, <1>10 DEF AppStates
<1> HIDE DEF t
<1>14. AppsGood(t)
  BY <1>11, <1>12, AppsFrame
<1>15. AppsGood([t EXCEPT !.dialog = e])
  BY <1>5, <1>6, <1>12, <1>14, AppsDialogFrame
<1> QED BY <1>13, <1>15

\* The uninstall page: its invariant holds at the start and after every step.
LEMMA AppsStart == ASSUME Apps!Init PROVE AppsGood(s)
<1> DEFINE r == [op |-> "inventory", seq |-> 1, forced |-> FALSE]
           native == [open |-> FALSE, submitting |-> FALSE]
<1>1. Good(AppItems, ClosedDialog) /\ {} \in SUBSET AllItems
  BY ClosedDialogGood DEF AppItems
<1>2. ClosedDialog \in Dialogs(AppItems) /\ Apps!ClosedDialog = ClosedDialog /\ AppActs \in Int
  BY <1>1, AppsDialog, ActsAssumption DEF Good
<1>3. Apps!NoPlan \in Plans /\ Apps!NoPlan.app = Apps!None /\ Apps!None \in AppNames
  BY DEF Apps!NoPlan, Plans, AppNames
<1>4. r \in AppCalls /\ r.op = "inventory" /\ native \in [open : BOOLEAN, submitting : BOOLEAN]
  BY DEF AppCalls, Listings
<1>5. s = [inventory |-> {}, loading |-> TRUE, inventorySeq |-> 1, selected |-> Apps!None,
           planSeq |-> 0, plan |-> Apps!NoPlan, planning |-> FALSE, chosen |-> {},
           residual |-> FALSE, outcome |-> FALSE, removed |-> {}, native |-> native,
           watched |-> FALSE, trashed |-> FALSE, dialog |-> ClosedDialog, leases |-> {},
           acts |-> AppActs, calls |-> {r}]
  BY <1>2 DEF Apps!Init
<1> HIDE DEF r, native
<1>6. /\ s \in AppStates /\ s.dialog = ClosedDialog /\ s.leases = {} /\ s.plan = Apps!NoPlan
      /\ s.calls = {r}
  BY <1>1, <1>2, <1>3, <1>4, <1>5 DEF AppStates
<1>7. PlanInv(s)
  BY <1>3, <1>4, <1>6 DEF PlanInv
<1>8. AskedInv(s)
  BY <1>6 DEF AskedInv, ClosedDialog
<1> QED BY <1>1, <1>6, <1>7, <1>8 DEF AppsGood, Good

LEMMA AppsSteps == ASSUME AppsGood(s), Apps!Next PROVE AppsGood(s)'
<1>1. ASSUME NEW op, Apps!AnswerOf(op) PROVE AppsGood(s)'
  BY <1>1, AppsInventoryStep, AppsListSteps, AppsPlanStep, AppsNativeSteps, AppsAnswerSteps,
     AppsExecutedStep DEF Apps!AnswerOf
<1> QED BY <1>1, AppsListSteps, AppsSelectSteps, AppsOpenStep, AppsRecheckStep, AppsChoiceSteps,
           AppsNativeSteps DEF Apps!Next, AllItems

LEMMA AppsHold == ASSUME AppsGood(s) PROVE Apps!RemovedAsConfirmed
<1>1. Apps!DeletesAsConfirmed(s.dialog)
  BY AppsDialog DEF AppsGood, DialogInv
<1>2. \A r \in s.dialog.done : r.items \in AppItems
  BY DEF AppsGood, AppStates, Dialogs
<1>3. \A r \in s.dialog.done : \E app \in {Apps!Bundle, Apps!Trashed} : r.items \subseteq Apps!Artifacts(app)
  BY <1>2 DEF AppItems
<1>4. \A l \in s.leases : l.residual \in BOOLEAN
  BY DEF AppsGood, AppStates
<1>5. \A l \in s.leases :
        l.seq = s.dialog.seq => l.residual = (\E i \in s.dialog.items : i.app = Apps!Trashed)
  BY <1>4 DEF AppsGood, AskedInv, HasTrashed
<1> QED BY <1>1, <1>3, <1>5 DEF Apps!RemovedAsConfirmed
-------------------------------------------------------------------------------
(* The quick cleanup.                                                        *)

Chosen(t) == "trash" \in t.selected => "trash" \in t.wanted
Summarised(v) == v.phase = "selection" => v.found # 0

Choices == SUBSET Quick!Categories
Phases == {"idle", "analyzing", "selection", "cleaning", "done"}
Views == [rev : Nat, phase : Phases, found : Nat]
Reloads == [op : {"reload"}, seq : Nat, seen : Views]
Works == [op : {"analyze", "worked"}]
Cleans == [op : {"clean"}, found : Nat, selected : Choices, wanted : Choices]
QuickCalls == Reloads \cup Works \cup Cleans

QuickStates ==
  [view : Views, slot : {"free", "analyzing", "cleaning", "elsewhere"}, suppressed : BOOLEAN,
   cancelled : BOOLEAN, phase : Phases, rev : Int, found : Nat, selected : Choices,
   excluded : BOOLEAN, confirmation : {<<>>} \cup (Nat \X Choices \X BOOLEAN), running : BOOLEAN,
   mutation : Nat, wanted : Choices, removed : SUBSET Cleans, acts : Int,
   calls : SUBSET QuickCalls]

\* A page shows a selection only with the summaries it is of, and in it the
\* trash is selected only if the user chose it after they were published.
ChoiceInv(t) ==
  /\ t.found # 0 => Chosen(t)
  /\ t.phase = "selection" => t.found # 0

ViewInv(t) ==
  /\ Summarised(t.view)
  /\ \A c \in t.calls : c.op = "reload" => Summarised(c.seen)

CleanInv(t) ==
  /\ \A c \in t.calls : c.op = "clean" => Chosen(c)
  /\ \A c \in t.removed : Chosen(c)

QuickGood(t) == t \in QuickStates /\ ChoiceInv(t) /\ ViewInv(t) /\ CleanInv(t)

LEMMA QuickFrame ==
  ASSUME NEW t, QuickGood(t), NEW u \in QuickStates, u.view = t.view, u.removed = t.removed,
         ChoiceInv(u),
         \A c \in u.calls : c \in t.calls \/ c.op \in {"analyze", "worked"}
  PROVE  QuickGood(u)
<1>1. ViewInv(u)
  BY DEF QuickGood, ViewInv
<1>2. CleanInv(u)
  BY DEF QuickGood, CleanInv
<1> QED BY <1>1, <1>2 DEF QuickGood

LEMMA QuickReload ==
  ASSUME NEW t, QuickGood(t) PROVE QuickGood(Quick!Reload(t))
<1> DEFINE c0 == [op |-> "reload", seq |-> t.mutation, seen |-> t.view]
           u == [t EXCEPT !.calls = @ \cup {c0}]
<1>1. c0 \in QuickCalls /\ c0.op = "reload" /\ c0.seen = t.view
  BY DEF QuickGood, QuickStates, QuickCalls, Reloads
<1> HIDE DEF c0
<1>2. /\ u \in QuickStates /\ u.view = t.view /\ u.removed = t.removed /\ u.calls = t.calls \cup {c0}
      /\ u.found = t.found /\ u.phase = t.phase /\ u.selected = t.selected /\ u.wanted = t.wanted
  BY <1>1 DEF QuickGood, QuickStates
<1> HIDE DEF u
<1>3. ChoiceInv(u)
  BY <1>2 DEF QuickGood, ChoiceInv, Chosen
<1>4. ViewInv(u) /\ CleanInv(u)
  BY <1>1, <1>2 DEF QuickGood, ViewInv, CleanInv
<1>5. QuickGood(u)
  BY <1>2, <1>3, <1>4 DEF QuickGood
<1> QED BY <1>5 DEF Quick!Reload, u, c0

LEMMA QuickPublished ==
  ASSUME NEW t, QuickGood(t), NEW phase \in Phases, NEW found \in Nat,
         phase = "selection" => found # 0
  PROVE  QuickGood(Quick!Published(t, phase, found))
<1> DEFINE v == Quick!View(t.view.rev + 1, phase, found)
           u == [t EXCEPT !.view = v]
<1>1. v \in Views /\ Summarised(v)
  <2>1. t.view.rev \in Nat
    BY DEF QuickGood, QuickStates, Views
  <2> QED BY <2>1 DEF Views, Quick!View, Summarised
<1>2. Quick!Published(t, phase, found) = IF t.suppressed THEN t ELSE u
  BY DEF Quick!Published, QuickGood, QuickStates
<1> HIDE DEF v
<1>3. /\ u \in QuickStates /\ u.view = v /\ u.removed = t.removed /\ u.calls = t.calls
      /\ u.found = t.found /\ u.phase = t.phase /\ u.selected = t.selected /\ u.wanted = t.wanted
  BY <1>1 DEF QuickGood, QuickStates
<1> HIDE DEF u
<1>4. QuickGood(u)
  BY <1>1, <1>3 DEF QuickGood, ChoiceInv, Chosen, ViewInv, CleanInv
<1> QED BY <1>2, <1>4

LEMMA QuickBegun ==
  ASSUME NEW t, QuickGood(t), NEW kind \in {"analyzing", "cleaning", "elsewhere"}
  PROVE  QuickGood(Quick!Begun(t, kind))
<1> DEFINE u == [t EXCEPT !.slot = kind, !.suppressed = FALSE, !.cancelled = FALSE]
           phase == IF kind = "cleaning" THEN "cleaning" ELSE "analyzing"
<1>1. /\ u \in QuickStates /\ u.view = t.view /\ u.removed = t.removed /\ u.calls = t.calls
      /\ u.found = t.found /\ u.phase = t.phase /\ u.selected = t.selected /\ u.wanted = t.wanted
  BY DEF QuickGood, QuickStates
<1>2. phase \in Phases /\ phase # "selection" /\ t.view.found \in Nat
  BY DEF Phases, QuickGood, QuickStates, Views
<1>3. Quick!Begun(t, kind) = Quick!Published(u, phase, t.view.found)
  BY DEF Quick!Begun
<1> HIDE DEF u, phase
<1>4. ChoiceInv(u)
  BY <1>1 DEF QuickGood, ChoiceInv, Chosen
<1>5. QuickGood(u)
  BY <1>1, <1>4, QuickFrame
<1> QED BY <1>2, <1>3, <1>5, QuickPublished

LEMMA QuickNumbers ==
  ASSUME NEW t, QuickGood(t) PROVE t \in QuickStates /\ t.acts - 1 \in Int /\ t.mutation + 1 \in Nat
BY DEF QuickGood, QuickStates

\* What the user does on the page.
LEMMA QuickPageSteps ==
  ASSUME QuickGood(s),
         \/ Quick!Refresh \/ Quick!Analyze \/ Quick!OpenConfirmation \/ Quick!Dismiss
         \/ \E category \in Quick!Categories : Quick!ToggleCategory(category)
         \/ Quick!TogglePath \/ Quick!Reset \/ Quick!CancelWork
  PROVE  QuickGood(s)'
<1> DEFINE acts == s.acts - 1
           mutation == s.mutation + 1
<1>1. s \in QuickStates /\ acts \in Int /\ mutation \in Nat
  BY QuickNumbers
<1>2. CASE Quick!Refresh
  <2>1. QuickGood(Quick!Reload(s))
    BY QuickReload
  <2> QED BY <1>2, <2>1 DEF Quick!Refresh
<1>3. CASE Quick!Analyze
  <2>1. [op |-> "analyze"] \in QuickCalls
    BY DEF QuickCalls, Works
  <2>2. s' = [s EXCEPT !.acts = acts, !.running = TRUE, !.mutation = mutation, !.phase = "analyzing",
                       !.calls = @ \cup {[op |-> "analyze"]}]
    BY <1>3, <1>1 DEF QuickStates, Quick!Analyze
  <2> HIDE DEF acts, mutation
  <2>3. /\ s' \in QuickStates /\ s'.view = s.view /\ s'.removed = s.removed /\ s'.phase = "analyzing"
        /\ s'.calls = s.calls \cup {[op |-> "analyze"]}
        /\ s'.found = s.found /\ s'.selected = s.selected /\ s'.wanted = s.wanted
    BY <1>1, <2>1, <2>2 DEF QuickStates, Phases
  <2>4. ChoiceInv(s')
    BY <2>3 DEF QuickGood, ChoiceInv, Chosen
  <2>5. QuickGood(s')
    BY <2>3, <2>4, QuickFrame
  <2> QED BY <2>5
<1>4. CASE Quick!OpenConfirmation \/ Quick!Dismiss \/ Quick!TogglePath
  <2>1. Quick!SelectionKey \in Nat \X Choices \X BOOLEAN
    BY DEF QuickGood, QuickStates, Quick!SelectionKey
  <2>2. /\ s' \in QuickStates /\ s'.view = s.view /\ s'.removed = s.removed /\ s'.phase = s.phase
        /\ s'.calls = s.calls /\ s'.found = s.found /\ s'.selected = s.selected /\ s'.wanted = s.wanted
    <3>1. s \in QuickStates
      BY DEF QuickGood
    <3>2. CASE Quick!OpenConfirmation
      <4>1. s' = [s EXCEPT !.confirmation = Quick!SelectionKey]
        BY <3>2 DEF Quick!OpenConfirmation
      <4> QED BY <2>1, <3>1, <4>1 DEF QuickStates
    <3>3. CASE Quick!Dismiss
      <4>1. s' = [s EXCEPT !.confirmation = <<>>]
        BY <3>3 DEF Quick!Dismiss
      <4> QED BY <3>1, <4>1 DEF QuickStates
    <3>4. CASE Quick!TogglePath
      <4>1. s' = [s EXCEPT !.excluded = ~@]
        BY <3>4 DEF Quick!TogglePath
      <4> QED BY <3>1, <4>1 DEF QuickStates
    <3> QED BY <1>4, <3>2, <3>3, <3>4
  <2>3. ChoiceInv(s')
    BY <2>2 DEF QuickGood, ChoiceInv, Chosen
  <2>4. QuickGood(s')
    BY <2>2, <2>3, QuickFrame
  <2> QED BY <2>4
<1>5. CASE \E category \in Quick!Categories : Quick!ToggleCategory(category)
  <2>1. PICK category \in Quick!Categories : Quick!ToggleCategory(category)
    BY <1>5
  <2> DEFINE selected == IF category \in s.selected THEN s.selected \ {category}
                         ELSE s.selected \cup {category}
             wanted == IF category \in s.selected THEN s.wanted \ {category}
                       ELSE s.wanted \cup {category}
  <2>2. s' = [s EXCEPT !.selected = selected, !.wanted = wanted] /\ s.phase = "selection"
    BY <2>1 DEF Quick!ToggleCategory, QuickGood, QuickStates
  <2>3. selected \in Choices /\ wanted \in Choices
    BY DEF QuickGood, QuickStates, Choices
  <2>4. "trash" \in selected => "trash" \in wanted
    BY <2>2 DEF QuickGood, ChoiceInv, Chosen
  <2> HIDE DEF selected, wanted
  <2>5. /\ s' \in QuickStates /\ s'.view = s.view /\ s'.removed = s.removed /\ s'.phase = s.phase
        /\ s'.calls = s.calls /\ s'.found = s.found /\ s'.selected = selected /\ s'.wanted = wanted
    BY <2>2, <2>3 DEF QuickGood, QuickStates
  <2>6. ChoiceInv(s')
    BY <2>4, <2>5 DEF QuickGood, ChoiceInv, Chosen
  <2>7. QuickGood(s')
    BY <2>5, <2>6, QuickFrame
  <2> QED BY <2>7
<1>6. CASE Quick!Reset
  <2>1. s' = [s EXCEPT !.acts = acts, !.mutation = mutation, !.found = 0, !.excluded = FALSE,
                       !.wanted = {}, !.phase = "idle"]
    BY <1>6, <1>1 DEF QuickStates, Quick!Reset
  <2>2. {} \in Choices
    BY DEF Choices
  <2> HIDE DEF acts, mutation
  <2>3. /\ s' \in QuickStates /\ s'.view = s.view /\ s'.removed = s.removed /\ s'.phase = "idle"
        /\ s'.calls = s.calls /\ s'.found = 0
    BY <1>1, <2>1, <2>2 DEF QuickStates, Phases
  <2>4. ChoiceInv(s')
    BY <2>3 DEF ChoiceInv
  <2>5. QuickGood(s')
    BY <2>3, <2>4, QuickFrame
  <2> QED BY <2>5
<1>7. CASE Quick!CancelWork
  <2> DEFINE stopping == s.slot # Quick!NoSlot
             u == [s EXCEPT !.acts = acts, !.cancelled = stopping]
  <2>1. s' = Quick!Reload(u)
    BY <1>7, <1>1 DEF Quick!CancelWork, QuickStates
  <2>2. stopping \in BOOLEAN
    OBVIOUS
  <2> HIDE DEF stopping, acts
  <2>3. /\ u \in QuickStates /\ u.view = s.view /\ u.removed = s.removed /\ u.phase = s.phase
        /\ u.calls = s.calls /\ u.found = s.found /\ u.selected = s.selected /\ u.wanted = s.wanted
    BY <1>1, <2>2 DEF QuickStates
  <2> HIDE DEF u
  <2>4. ChoiceInv(u)
    BY <2>3 DEF QuickGood, ChoiceInv, Chosen
  <2>5. QuickGood(u)
    BY <2>3, <2>4, QuickFrame
  <2>6. QuickGood(Quick!Reload(u))
    BY <2>5, QuickReload
  <2> QED BY <2>1, <2>6
<1> QED BY <1>2, <1>3, <1>4, <1>5, <1>6, <1>7

LEMMA QuickCleanStep ==
  ASSUME QuickGood(s), Quick!Clean
  PROVE  QuickGood(s)'
<1> DEFINE c0 == [op |-> "clean", found |-> s.found, selected |-> s.selected, wanted |-> s.wanted]
<1>1. s.found # 0 /\ Chosen(s)
  BY DEF QuickGood, ChoiceInv, Quick!Clean
<1>2. /\ c0 \in QuickCalls /\ c0.op = "clean" /\ Chosen(c0)
  BY <1>1 DEF QuickGood, QuickStates, QuickCalls, Cleans, Chosen
<1>3. CASE s.running
  <2>1. /\ s' \in QuickStates /\ s'.view = s.view /\ s'.removed = s.removed /\ s'.phase = s.phase
        /\ s'.calls = s.calls /\ s'.found = s.found /\ s'.selected = s.selected /\ s'.wanted = s.wanted
    BY <1>3 DEF QuickGood, QuickStates, Quick!Clean
  <2>2. ChoiceInv(s')
    BY <2>1 DEF QuickGood, ChoiceInv, Chosen
  <2>3. QuickGood(s')
    BY <2>1, <2>2, QuickFrame
  <2> QED BY <2>3
<1>4. CASE ~s.running
  <2> DEFINE acts == s.acts - 1
             mutation == s.mutation + 1
  <2>1. s \in QuickStates /\ acts \in Int /\ mutation \in Nat
    BY QuickNumbers
  <2>2. s' = [s EXCEPT !.acts = acts, !.confirmation = <<>>, !.running = TRUE, !.mutation = mutation,
                       !.phase = "cleaning", !.calls = @ \cup {c0}]
    BY <1>4, <2>1 DEF QuickStates, Quick!Clean
  <2> HIDE DEF c0, acts, mutation
  <2>3. /\ s' \in QuickStates /\ s'.view = s.view /\ s'.removed = s.removed /\ s'.phase = "cleaning"
        /\ s'.calls = s.calls \cup {c0}
        /\ s'.found = s.found /\ s'.selected = s.selected /\ s'.wanted = s.wanted
    BY <1>2, <2>1, <2>2 DEF QuickStates, Phases
  <2>4. ChoiceInv(s')
    BY <2>3 DEF QuickGood, ChoiceInv, Chosen
  <2>5. ViewInv(s') /\ CleanInv(s')
    BY <1>2, <2>3 DEF QuickGood, ViewInv, CleanInv
  <2>6. QuickGood(s')
    BY <2>3, <2>4, <2>5 DEF QuickGood
  <2> QED BY <2>6
<1> QED BY <1>3, <1>4
LEMMA QuickWithout ==
  ASSUME NEW c, QuickGood(s)
  PROVE  QuickGood([s EXCEPT !.calls = Quick!Without(c)])
<1> DEFINE u == [s EXCEPT !.calls = Quick!Without(c)]
<1>1. /\ u \in QuickStates /\ u.view = s.view /\ u.removed = s.removed /\ u.phase = s.phase
      /\ u.calls \subseteq s.calls /\ u.found = s.found /\ u.selected = s.selected
      /\ u.wanted = s.wanted
  BY DEF QuickGood, QuickStates, Quick!Without
<1> HIDE DEF u
<1>2. ChoiceInv(u)
  BY <1>1 DEF QuickGood, ChoiceInv, Chosen
<1>3. QuickGood(u)
  BY <1>1, <1>2, QuickFrame
<1> QED BY <1>3 DEF u

\* A view is adopted: new summaries come with the preselected categories only.
LEMMA QuickReloadedStep ==
  ASSUME QuickGood(s), NEW c \in s.calls, Quick!Reloaded(c)
  PROVE  QuickGood(s)'
<1> DEFINE t == [s EXCEPT !.calls = Quick!Without(c)]
<1>1. QuickGood(t)
  BY QuickWithout
<1>2. c.op = "reload"
  BY DEF Quick!Reloaded
<1>3. c.seen \in Views /\ Summarised(c.seen) /\ s.view \in Views /\ Summarised(s.view)
  <2>1. c \in QuickCalls
    BY DEF QuickGood, QuickStates
  <2>2. c \in Reloads
    BY <1>2, <2>1 DEF QuickCalls, Reloads, Works, Cleans
  <2> QED BY <1>2, <2>2 DEF QuickGood, QuickStates, ViewInv, Reloads
<1>4. PICK v \in {c.seen, s.view} :
        s' = IF s.mutation # c.seq \/ v.rev < s.rev
             THEN [s EXCEPT !.calls = Quick!Without(c)]
             ELSE LET a == [s EXCEPT !.calls = Quick!Without(c), !.rev = v.rev, !.phase = v.phase]
                  IN IF v.found = s.found THEN a
                     ELSE [a EXCEPT !.found = v.found, !.selected = Quick!Preselected,
                                    !.excluded = FALSE, !.wanted = {}]
  BY DEF Quick!Reloaded
<1>5. /\ v.rev \in Nat /\ v.phase \in Phases /\ v.found \in Nat
      /\ v.phase = "selection" => v.found # 0
  BY <1>3 DEF Views, Summarised
<1> DEFINE u == [t EXCEPT !.rev = v.rev, !.phase = v.phase]
           w == [u EXCEPT !.found = v.found, !.selected = Quick!Preselected,
                          !.excluded = FALSE, !.wanted = {}]
<1>6. \/ s' = t
      \/ v.found = s.found /\ s' = u
      \/ s' = w
  BY <1>4 DEF QuickGood, QuickStates
<1>7. t.found = s.found
  BY DEF QuickGood, QuickStates
<1> HIDE DEF t
<1>8. /\ u \in QuickStates /\ u.view = t.view /\ u.removed = t.removed /\ u.phase = v.phase
      /\ u.calls = t.calls /\ u.found = t.found /\ u.selected = t.selected /\ u.wanted = t.wanted
  <2>1. t \in QuickStates /\ v.rev \in Int /\ v.phase \in Phases
    BY <1>1, <1>5 DEF QuickGood
  <2> QED BY <2>1 DEF QuickStates
<1> HIDE DEF u
<1>9. v.found = s.found => QuickGood(u)
  <2>1. ASSUME v.found = s.found PROVE ChoiceInv(u)
    BY <1>1, <1>5, <1>7, <1>8, <2>1 DEF QuickGood, ChoiceInv, Chosen
  <2> QED BY <1>1, <1>8, <2>1, QuickFrame
<1>10. QuickGood(w)
  <2>1. Quick!Preselected \in Choices /\ {} \in Choices /\ "trash" \notin Quick!Preselected
    BY DEF Quick!Preselected, Choices, Quick!Categories
  <2>2. /\ w \in QuickStates /\ w.view = t.view /\ w.removed = t.removed /\ w.phase = v.phase
        /\ w.calls = t.calls /\ w.found = v.found /\ w.selected = Quick!Preselected
    BY <1>5, <1>8, <2>1 DEF QuickStates
  <2> HIDE DEF w
  <2>3. ChoiceInv(w)
    BY <1>5, <2>1, <2>2 DEF ChoiceInv, Chosen
  <2> QED BY <1>1, <2>2, <2>3, QuickFrame
<1> QED BY <1>1, <1>6, <1>9, <1>10

\* A step of the native side that leaves what the page shows.
LEMMA QuickNativeFrame ==
  ASSUME NEW t, QuickGood(t), NEW u \in QuickStates, u.view = t.view, u.phase = t.phase,
         u.found = t.found, u.selected = t.selected, u.wanted = t.wanted,
         \A c \in u.removed : c \in t.removed \/ Chosen(c),
         \A c \in u.calls : c \in t.calls \/ c.op \in {"analyze", "worked"}
  PROVE  QuickGood(u)
<1>1. ChoiceInv(u)
  BY DEF QuickGood, ChoiceInv, Chosen
<1>2. ViewInv(u)
  BY DEF QuickGood, ViewInv
<1>3. CleanInv(u)
  BY DEF QuickGood, CleanInv
<1> QED BY <1>1, <1>2, <1>3 DEF QuickGood

LEMMA QuickCommandSteps ==
  ASSUME QuickGood(s), NEW c \in s.calls, Quick!Dispatch(c) \/ Quick!Worked(c)
  PROVE  QuickGood(s)'
<1> DEFINE t == [s EXCEPT !.calls = Quick!Without(c)]
           r == [t EXCEPT !.running = FALSE]
           wk == [op |-> "worked"]
           a == [t EXCEPT !.calls = @ \cup {wk}]
           w == [a EXCEPT !.removed = @ \cup {c}]
<1>1. QuickGood(t) /\ t.removed = s.removed
  BY QuickWithout DEF QuickGood, QuickStates
<1>2. \/ s' = Quick!Reload(r)
      \/ s' = Quick!Begun(a, "analyzing")
      \/ c.op = "clean" /\ s' = Quick!Begun(w, "cleaning")
  BY DEF Quick!Dispatch, Quick!Worked, QuickGood, QuickStates
<1> HIDE DEF t
<1>3. wk \in QuickCalls /\ wk.op = "worked"
  BY DEF QuickCalls, Works
<1> HIDE DEF wk
<1>4. QuickGood(r)
  <2>1. /\ r \in QuickStates /\ r.view = t.view /\ r.removed = t.removed /\ r.phase = t.phase
        /\ r.calls = t.calls /\ r.found = t.found /\ r.selected = t.selected /\ r.wanted = t.wanted
    BY <1>1 DEF QuickGood, QuickStates
  <2> HIDE DEF r
  <2> QED BY <1>1, <2>1, QuickNativeFrame
<1>5. /\ a \in QuickStates /\ a.view = t.view /\ a.removed = t.removed /\ a.phase = t.phase
      /\ a.calls = t.calls \cup {wk} /\ a.found = t.found /\ a.selected = t.selected
      /\ a.wanted = t.wanted
  BY <1>1, <1>3 DEF QuickGood, QuickStates
<1> HIDE DEF a
<1>6. QuickGood(a)
  BY <1>1, <1>3, <1>5, QuickNativeFrame
<1>7. c.op = "clean" => QuickGood(w)
  <2> SUFFICES ASSUME c.op = "clean" PROVE QuickGood(w)
    OBVIOUS
  <2>1. c \in Cleans
    BY DEF QuickGood, QuickStates, QuickCalls, Reloads, Works, Cleans
  <2>2. Chosen(c)
    BY DEF QuickGood, CleanInv
  <2>3. /\ w \in QuickStates /\ w.view = a.view /\ w.removed = a.removed \cup {c} /\ w.phase = a.phase
        /\ w.calls = a.calls /\ w.found = a.found /\ w.selected = a.selected /\ w.wanted = a.wanted
    BY <1>5, <2>1 DEF QuickStates
  <2> HIDE DEF w
  <2> QED BY <1>6, <2>2, <2>3, QuickNativeFrame
<1> HIDE DEF r, w
<1>8. CASE s' = Quick!Reload(r)
  <2>1. QuickGood(Quick!Reload(r))
    BY <1>4, QuickReload
  <2> QED BY <1>8, <2>1
<1>9. CASE s' = Quick!Begun(a, "analyzing")
  <2>1. QuickGood(Quick!Begun(a, "analyzing"))
    BY <1>6, QuickBegun
  <2> QED BY <1>9, <2>1
<1>10. CASE c.op = "clean" /\ s' = Quick!Begun(w, "cleaning")
  <2>1. QuickGood(Quick!Begun(w, "cleaning"))
    BY <1>7, <1>10, QuickBegun
  <2> QED BY <1>10, <2>1
<1> QED BY <1>2, <1>8, <1>9, <1>10

LEMMA QuickWorkerSteps ==
  ASSUME QuickGood(s), Quick!AnalyzeElsewhere \/ Quick!WorkerEnds \/ Quick!ClearView
  PROVE  QuickGood(s)'
<1> DEFINE acts == s.acts - 1
<1>1. s \in QuickStates /\ acts \in Int /\ s.view \in Views /\ s.view.rev \in Nat /\ s.view.found \in Nat
  BY QuickNumbers DEF QuickStates, Views
<1>2. CASE Quick!AnalyzeElsewhere
  <2> DEFINE u == [s EXCEPT !.acts = acts]
  <2>1. s' = Quick!Begun(u, "elsewhere")
    BY <1>1, <1>2 DEF Quick!AnalyzeElsewhere, QuickStates
  <2> HIDE DEF acts
  <2>2. /\ u \in QuickStates /\ u.view = s.view /\ u.removed = s.removed /\ u.phase = s.phase
        /\ u.calls = s.calls /\ u.found = s.found /\ u.selected = s.selected /\ u.wanted = s.wanted
    BY <1>1 DEF QuickStates
  <2> HIDE DEF u
  <2>3. QuickGood(u)
    BY <2>2, QuickNativeFrame
  <2>4. QuickGood(Quick!Begun(u, "elsewhere"))
    BY <2>3, QuickBegun
  <2> QED BY <2>1, <2>4
<1>3. CASE Quick!WorkerEnds
  <2>1. PICK ok \in BOOLEAN :
          s' = [(IF s.slot = "cleaning" THEN Quick!Published(s, "done", s.view.found)
                 ELSE IF ok /\ ~s.cancelled THEN Quick!Published(s, "selection", s.view.rev + 1)
                 ELSE Quick!Published(s, "idle", s.view.found)) EXCEPT !.slot = Quick!NoSlot]
    BY <1>3 DEF Quick!WorkerEnds
  <2> DEFINE u == IF s.slot = "cleaning" THEN Quick!Published(s, "done", s.view.found)
                  ELSE IF ok /\ ~s.cancelled THEN Quick!Published(s, "selection", s.view.rev + 1)
                  ELSE Quick!Published(s, "idle", s.view.found)
  <2>2. /\ QuickGood(Quick!Published(s, "done", s.view.found))
        /\ QuickGood(Quick!Published(s, "idle", s.view.found))
    BY <1>1, QuickPublished DEF Phases
  <2>3. QuickGood(Quick!Published(s, "selection", s.view.rev + 1))
    <3>1. "selection" \in Phases /\ s.view.rev + 1 \in Nat /\ s.view.rev + 1 # 0
      BY <1>1 DEF Phases
    <3> QED BY <3>1, QuickPublished
  <2>4. QuickGood(u)
    BY <2>2, <2>3
  <2> HIDE DEF u
  <2>5. s' = [u EXCEPT !.slot = "free"]
    BY <2>1 DEF u, Quick!NoSlot
  <2>6. /\ s' \in QuickStates /\ s'.view = u.view /\ s'.removed = u.removed /\ s'.phase = u.phase
        /\ s'.calls = u.calls /\ s'.found = u.found /\ s'.selected = u.selected /\ s'.wanted = u.wanted
    BY <2>4, <2>5 DEF QuickGood, QuickStates
  <2>7. QuickGood(s')
    BY <2>4, <2>6, QuickNativeFrame
  <2> QED BY <2>7
<1>4. CASE Quick!ClearView
  <2> DEFINE v == Quick!View(s.view.rev + 1, "idle", 0)
  <2>1. s' = [s EXCEPT !.acts = acts, !.suppressed = TRUE, !.cancelled = TRUE, !.view = v]
    BY <1>1, <1>4 DEF Quick!ClearView, QuickStates
  <2>2. v \in Views /\ Summarised(v)
    BY <1>1 DEF Views, Phases, Quick!View, Summarised
  <2> HIDE DEF acts, v
  <2>3. /\ s' \in QuickStates /\ s'.view = v /\ s'.removed = s.removed /\ s'.phase = s.phase
        /\ s'.calls = s.calls /\ s'.found = s.found /\ s'.selected = s.selected /\ s'.wanted = s.wanted
    BY <1>1, <2>1, <2>2 DEF QuickStates
  <2>4. ChoiceInv(s') /\ ViewInv(s') /\ CleanInv(s')
    BY <2>2, <2>3 DEF QuickGood, ChoiceInv, Chosen, ViewInv, CleanInv
  <2>5. QuickGood(s')
    BY <2>3, <2>4 DEF QuickGood
  <2> QED BY <2>5
<1> QED BY <1>2, <1>3, <1>4

\* The quick cleanup: its invariant holds at the start and after every step.
LEMMA QuickStarts == ASSUME Quick!Init PROVE QuickGood(s)
<1> DEFINE start == Quick!View(0, "idle", 0)
           c0 == [op |-> "reload", seq |-> 0, seen |-> start]
<1>1. start \in Views /\ Summarised(start) /\ Quick!Start = start
  BY DEF Views, Phases, Quick!View, Quick!Start, Summarised
<1> HIDE DEF start
<1>2. c0 \in QuickCalls /\ c0.op = "reload" /\ c0.seen = start
  BY <1>1 DEF QuickCalls, Reloads
<1>3. Quick!Preselected \in Choices /\ {} \in Choices /\ "trash" \notin Quick!Preselected /\ QuickActs \in Int
  BY ActsAssumption DEF Quick!Preselected, Choices, Quick!Categories
<1> HIDE DEF c0
<1>4. s = [view |-> start, slot |-> "free", suppressed |-> FALSE, cancelled |-> FALSE,
           phase |-> "idle", rev |-> -1, found |-> 0, selected |-> Quick!Preselected,
           excluded |-> FALSE, confirmation |-> <<>>, running |-> FALSE, mutation |-> 0,
           wanted |-> {}, removed |-> {}, acts |-> QuickActs, calls |-> {c0}]
  BY <1>1 DEF Quick!Init, Quick!NoSlot, c0
<1>5. s \in QuickStates
  BY <1>1, <1>2, <1>3, <1>4 DEF QuickStates, Phases
<1>6. ChoiceInv(s) /\ ViewInv(s) /\ CleanInv(s)
  BY <1>1, <1>2, <1>4 DEF ChoiceInv, ViewInv, CleanInv
<1> QED BY <1>5, <1>6 DEF QuickGood

LEMMA QuickSteps == ASSUME QuickGood(s), Quick!Next PROVE QuickGood(s)'
<1>1. ASSUME Quick!Answer PROVE QuickGood(s)'
  BY <1>1, QuickReloadedStep, QuickCommandSteps DEF Quick!Answer
<1> QED BY <1>1, QuickPageSteps, QuickCleanStep, QuickWorkerSteps DEF Quick!Next

LEMMA QuickHolds == ASSUME QuickGood(s) PROVE Quick!TrashIsChosen
BY DEF QuickGood, CleanInv, Chosen, Quick!TrashIsChosen

-------------------------------------------------------------------------------
(* The pages together.                                                       *)

PagesGood ==
  /\ focus = "map" => MapGood(s)
  /\ focus = "files" => FilesGood(s)
  /\ focus = "apps" => AppsGood(s)
  /\ focus = "quick" => QuickGood(s)

LEMMA PagesStart == Init => PagesGood
BY MapStarts, FilesStart, AppsStart, QuickStarts DEF Init, PagesGood

LEMMA PagesStep == PagesGood /\ [Next]_vars => PagesGood'
<1> SUFFICES ASSUME PagesGood, [Next]_vars PROVE PagesGood'
  OBVIOUS
<1>1. CASE UNCHANGED vars
  BY <1>1 DEF vars, PagesGood
<1>2. ASSUME NEW page, On(page), page \notin {"map", "files", "apps", "quick"} PROVE PagesGood'
  BY <1>2 DEF On, PagesGood
<1>3. CASE On("map") /\ Map!Next
  BY <1>3, MapSteps DEF On, PagesGood
<1>4. CASE On("files") /\ Files!Next
  BY <1>4, FilesSteps DEF On, PagesGood
<1>5. CASE On("apps") /\ Apps!Next
  BY <1>5, AppsSteps DEF On, PagesGood
<1>6. CASE On("quick") /\ Quick!Next
  BY <1>6, QuickSteps DEF On, PagesGood
<1> QED BY <1>1, <1>2, <1>3, <1>4, <1>5, <1>6 DEF Next

\* What a page removes is what the user confirmed: the map's basket, the copies
\* and old files, the items of an application and the categories of the quick
\* cleanup, whatever leases, modes, answers and other work came in between.
THEOREM RemovedCorrect == Spec => []RemovedAsConfirmed
<1>1. Init => PagesGood
  BY PagesStart
<1>2. PagesGood /\ [Next]_vars => PagesGood'
  BY PagesStep
<1>3. PagesGood => RemovedAsConfirmed
  BY MapHolds, FilesHold, AppsHold, QuickHolds DEF PagesGood, RemovedAsConfirmed
<1> QED BY <1>1, <1>2, <1>3, PTL DEF Spec

-------------------------------------------------------------------------------
(* The file insights.                                                        *)

\* A result of this number was found after every clear that was asked for:
\* those done, those that wait to be written and those that wait for the scan.
After(n, t) ==
  \/ n = 0
  \/ /\ n > t.clears
     /\ \A i \in DOMAIN t.writes : n > t.writes[i].upto
     /\ \A c \in t.calls : c.op = "stopped" => n > c.latest

\* No clear is of more than was ever found.
UptoInv(t) ==
  /\ t.clears <= t.latest
  /\ \A i \in DOMAIN t.writes : t.writes[i].upto <= t.latest
  /\ \A c \in t.calls : c.op = "stopped" => c.latest <= t.latest

\* What is written was found after the clears that are written before it.
WritesInv(t) ==
  \A j \in DOMAIN t.writes :
    \/ t.writes[j].value.at = 0
    \/ /\ t.writes[j].value.at > t.clears
       /\ \A i \in 1 .. j : t.writes[j].value.at > t.writes[i].upto

\* A scan whose result will be taken was begun after every clear.
ScansInv(t) ==
  \A c \in t.calls : c.op = "scan" =>
    c.epoch <= t.epoch /\ (c.epoch = t.epoch => After(c.scan.at, t))

\* The cached result is only read as long as nothing was cleared.
UntouchedInv(t) ==
  ~t.touched => /\ t.clears = 0
                /\ \A i \in DOMAIN t.writes : t.writes[i].upto = 0
                /\ \A c \in t.calls : c.op # "stopped"

FilesCleared(t) ==
  /\ FilesGood(t) /\ UptoInv(t) /\ WritesInv(t) /\ ScansInv(t) /\ UntouchedInv(t)
  /\ After(t.shown.at, t)
  /\ t.disk.at = 0 \/ t.disk.at > t.clears

LEMMA ClearedTypes ==
  ASSUME NEW t, FilesGood(t)
  PROVE  /\ t.clears \in Nat /\ t.latest \in Nat /\ t.epoch \in Nat /\ t.touched \in BOOLEAN
         /\ t.disk \in Scans /\ t.disk.at \in Nat /\ t.shown \in Scans /\ t.shown.at \in Nat
         /\ t.writes \in Seq(FileWrites) /\ DOMAIN t.writes = 1 .. Len(t.writes)
         /\ Len(t.writes) \in Nat
         /\ \A i \in DOMAIN t.writes : t.writes[i].upto \in Nat /\ t.writes[i].value.at \in Nat
         /\ t.calls \subseteq FileCalls
         /\ \A c \in t.calls : c.op = "stopped" => c.latest \in Nat
         /\ \A c \in t.calls : c.op = "scan" => c.scan.at \in Nat /\ c.epoch \in Nat
         /\ \A c \in t.calls : c.op \in {"verify", "adopt"} => c.scan \in Scans /\ c.scan.at \in Nat
<1>1. /\ t.clears \in Nat /\ t.latest \in Nat /\ t.epoch \in Nat /\ t.touched \in BOOLEAN
      /\ t.disk \in Scans /\ t.shown \in Scans /\ t.writes \in Seq(FileWrites)
      /\ t.calls \subseteq FileCalls
  BY DEF FilesGood, FileStates
<1>2. \A scan \in Scans : scan.at \in Nat
  BY DEF Scans
<1>3. \A i \in DOMAIN t.writes : t.writes[i] \in FileWrites
  BY <1>1
<1>4. \A i \in DOMAIN t.writes : t.writes[i].upto \in Nat /\ t.writes[i].value.at \in Nat
  BY <1>2, <1>3 DEF FileWrites
<1>5. DOMAIN t.writes = 1 .. Len(t.writes) /\ Len(t.writes) \in Nat
  BY <1>1
<1>6. ASSUME NEW c \in t.calls
      PROVE  /\ c.op = "stopped" => c.latest \in Nat
             /\ c.op = "scan" => c.scan.at \in Nat /\ c.epoch \in Nat
             /\ c.op \in {"verify", "adopt"} => c.scan \in Scans /\ c.scan.at \in Nat
  BY <1>1, <1>2 DEF FileCalls, Loads, Readings, Scannings, Stoppings
<1> QED BY <1>1, <1>2, <1>4, <1>5, <1>6

\* As long as nothing was touched every result is after every clear.
LEMMA UntouchedAfter ==
  ASSUME NEW t, FilesCleared(t), ~t.touched, NEW n \in Nat PROVE After(n, t)
BY DEF FilesCleared, UntouchedInv, After

\* The steps that neither clear nor write nor show another result.
LEMMA ClearedFrame ==
  ASSUME NEW t, FilesCleared(t), NEW u, FilesGood(u),
         u.clears = t.clears, u.latest = t.latest, u.epoch = t.epoch, u.touched = t.touched,
         u.writes = t.writes, u.disk = t.disk, u.shown.at = t.shown.at,
         \A c \in u.calls : c.op \in {"scan", "stopped"} => c \in t.calls
  PROVE  FilesCleared(u)
<1>1. \A n : After(n, t) => After(n, u)
  BY DEF After
<1>2. ScansInv(u)
  BY <1>1 DEF FilesCleared, ScansInv
<1> QED BY <1>1, <1>2 DEF FilesCleared, UptoInv, WritesInv, UntouchedInv

LEMMA ClearedWrite ==
  ASSUME NEW t, FilesCleared(t), NEW value \in Scans, After(value.at, t)
  PROVE  FilesCleared(Files!Write(t, value))
<1> DEFINE w == [value |-> value, upto |-> 0]
           writes == Append(t.writes, w)
           u == Files!Write(t, value)
           k == Len(t.writes) + 1
<1>0. FilesGood(t) /\ value.at \in Nat
  BY DEF FilesCleared, Scans
<1>1. FilesGood(u)
  BY <1>0, FilesWrite
<1>2. /\ u.clears = t.clears /\ u.latest = t.latest /\ u.epoch = t.epoch /\ u.touched = t.touched
      /\ u.writes = writes /\ u.disk = t.disk /\ u.shown = t.shown /\ u.calls = t.calls
  BY <1>0 DEF Files!Write, FilesGood, FileStates
<1>3. w \in FileWrites /\ w.upto = 0 /\ w.value = value
  BY DEF FileWrites
<1> HIDE DEF w, u
<1>4. /\ DOMAIN writes = 1 .. k /\ writes[k] = w /\ DOMAIN t.writes = 1 .. k - 1 /\ k \in Nat \ {0}
      /\ \A i \in 1 .. k - 1 : writes[i] = t.writes[i]
  BY <1>0, <1>3, ClearedTypes
<1> HIDE DEF writes, k
<1>5. \A n \in Nat : After(n, t) => After(n, u)
  BY <1>2, <1>3, <1>4 DEF After
<1>6. UptoInv(u) /\ UntouchedInv(u)
  <2>1. \A i \in 1 .. k : i \in 1 .. k - 1 \/ i = k
    BY <1>4
  <2>2. t.latest \in Nat
    BY <1>0, ClearedTypes
  <2>3. \A i \in 1 .. k - 1 : t.writes[i].upto <= t.latest /\ (~t.touched => t.writes[i].upto = 0)
    BY <1>4 DEF FilesCleared, UptoInv, UntouchedInv
  <2>4. \A i \in 1 .. k : writes[i].upto <= t.latest /\ (~t.touched => writes[i].upto = 0)
    BY <1>3, <1>4, <2>1, <2>2, <2>3
  <2>5. UptoInv(u)
    BY <1>2, <1>4, <2>4 DEF FilesCleared, UptoInv
  <2>6. UntouchedInv(u)
    BY <1>2, <1>4, <2>4 DEF FilesCleared, UntouchedInv
  <2> QED BY <2>5, <2>6
<1>7. WritesInv(u)
  <2>1. ASSUME NEW j \in 1 .. k - 1
        PROVE  \/ writes[j].value.at = 0
               \/ /\ writes[j].value.at > t.clears
                  /\ \A i \in 1 .. j : writes[j].value.at > writes[i].upto
    <3>1. \/ t.writes[j].value.at = 0
          \/ /\ t.writes[j].value.at > t.clears
             /\ \A i \in 1 .. j : t.writes[j].value.at > t.writes[i].upto
      BY <1>4 DEF FilesCleared, WritesInv
    <3>2. \A i \in 1 .. j : i \in 1 .. k - 1
      BY <1>4
    <3>3. writes[j] = t.writes[j] /\ \A i \in 1 .. j : writes[i] = t.writes[i]
      BY <1>4, <3>2
    <3> QED BY <3>1, <3>3
  <2>2. \/ value.at = 0
        \/ value.at > t.clears /\ \A i \in 1 .. k : value.at > writes[i].upto
    BY <1>0, <1>3, <1>4 DEF After
  <2> QED BY <1>2, <1>3, <1>4, <2>1, <2>2 DEF WritesInv
<1>8. ScansInv(u)
  BY <1>0, <1>2, <1>5, ClearedTypes DEF FilesCleared, ScansInv
<1>9. FilesCleared(u)
  BY <1>0, <1>1, <1>2, <1>5, <1>6, <1>7, <1>8, ClearedTypes DEF FilesCleared
<1> QED BY <1>9 DEF u

\* A clear is written that everything shown, and every scan, is already after.
LEMMA ClearedWriteClear ==
  ASSUME NEW t, FilesCleared(t), t.touched, NEW upto \in Nat, upto <= t.latest,
         t.shown.at = 0 \/ t.shown.at > upto,
         \A c \in t.calls : c.op = "scan" /\ c.epoch = t.epoch => c.scan.at = 0 \/ c.scan.at > upto
  PROVE  FilesCleared(Files!WriteClear(t, upto))
<1> DEFINE w == [value |-> Files!NoScan, upto |-> upto]
           writes == Append(t.writes, w)
           u == Files!WriteClear(t, upto)
           k == Len(t.writes) + 1
<1>0. FilesGood(t)
  BY DEF FilesCleared
<1>1. FilesGood(u)
  BY <1>0, FilesWriteClear
<1>2. /\ u.clears = t.clears /\ u.latest = t.latest /\ u.epoch = t.epoch /\ u.touched = t.touched
      /\ u.writes = writes /\ u.disk = t.disk /\ u.shown = t.shown /\ u.calls = t.calls
  BY <1>0 DEF Files!WriteClear, FilesGood, FileStates
<1>3. w \in FileWrites /\ w.upto = upto /\ w.value.at = 0
  BY NoScanType DEF FileWrites, Files!NoScan
<1> HIDE DEF w, u
<1>4. /\ DOMAIN writes = 1 .. k /\ writes[k] = w /\ DOMAIN t.writes = 1 .. k - 1 /\ k \in Nat \ {0}
      /\ \A i \in 1 .. k - 1 : writes[i] = t.writes[i]
  BY <1>0, <1>3, ClearedTypes
<1> HIDE DEF writes, k
<1>5. \A n : After(n, t) /\ (n = 0 \/ n > upto) => After(n, u)
  BY <1>2, <1>3, <1>4 DEF After
<1>6. UptoInv(u) /\ UntouchedInv(u)
  BY <1>0, <1>2, <1>3, <1>4, ClearedTypes DEF FilesCleared, UptoInv, UntouchedInv
<1>7. WritesInv(u)
  <2>1. ASSUME NEW j \in 1 .. k - 1
        PROVE  \/ writes[j].value.at = 0
               \/ /\ writes[j].value.at > t.clears
                  /\ \A i \in 1 .. j : writes[j].value.at > writes[i].upto
    <3>1. \/ t.writes[j].value.at = 0
          \/ /\ t.writes[j].value.at > t.clears
             /\ \A i \in 1 .. j : t.writes[j].value.at > t.writes[i].upto
      BY <1>4 DEF FilesCleared, WritesInv
    <3>2. \A i \in 1 .. j : i \in 1 .. k - 1
      BY <1>4
    <3>3. writes[j] = t.writes[j] /\ \A i \in 1 .. j : writes[i] = t.writes[i]
      BY <1>4, <3>2
    <3> QED BY <3>1, <3>3
  <2> QED BY <1>2, <1>3, <1>4, <2>1 DEF WritesInv
<1>8. ScansInv(u)
  BY <1>2, <1>5 DEF FilesCleared, ScansInv
<1>9. FilesCleared(u)
  BY <1>1, <1>2, <1>5, <1>6, <1>7, <1>8 DEF FilesCleared
<1> QED BY <1>9 DEF u

LEMMA ClearedShow ==
  ASSUME NEW t, FilesCleared(t), NEW scan \in Scans, After(scan.at, t)
  PROVE  /\ FilesCleared(Files!Show(t, scan))
         /\ After(scan.at, Files!Show(t, scan))
         /\ Files!Show(t, scan).shown = scan
         /\ Files!Show(t, scan).calls = t.calls /\ Files!Show(t, scan).epoch = t.epoch
         /\ Files!Show(t, scan).latest = t.latest /\ Files!Show(t, scan).touched = t.touched
<1> DEFINE u == Files!Show(t, scan)
<1>0. FilesGood(t)
  BY DEF FilesCleared
<1>1. FilesGood(u)
  BY <1>0, FilesShow
<1>2. /\ u.clears = t.clears /\ u.latest = t.latest /\ u.epoch = t.epoch /\ u.touched = t.touched
      /\ u.writes = t.writes /\ u.disk = t.disk /\ u.shown = scan /\ u.calls = t.calls
  <2>1. t \in FileStates
    BY <1>0 DEF FilesGood
  <2>2. DOMAIN t = {"disk", "writes", "shown", "scanning", "loading", "touched", "epoch", "clears",
                    "latest", "grouped", "kept", "chosen", "outcome", "kind", "dialog", "removed",
                    "applying", "acts", "calls"}
    BY <2>1 DEF FileStates
  <2> HIDE DEF u
  <2> DEFINE a == [t EXCEPT !.shown = scan]
             kept == IF scan.group = {} THEN Files!Nothing ELSE Files!Least(scan.group)
             b == [t EXCEPT !.shown = scan, !.grouped = FALSE, !.chosen = {}, !.outcome = FALSE,
                            !.kept = kept]
  <2>3. u = a \/ u = b
    BY DEF u, Files!Show
  <2> HIDE DEF kept
  <2>4. CASE u = a
    BY <2>1, <2>4 DEF FileStates
  <2>5. CASE u = b
    BY <2>1, <2>5 DEF FileStates
  <2> QED BY <2>3, <2>4, <2>5
<1> HIDE DEF u
<1>3. \A n : After(n, t) => After(n, u)
  BY <1>2 DEF After
<1>4. FilesCleared(u) /\ After(scan.at, u)
  BY <1>1, <1>2, <1>3 DEF FilesCleared, UptoInv, WritesInv, ScansInv, UntouchedInv
<1> QED BY <1>2, <1>4 DEF u

LEMMA ClearedCalls ==
  ASSUME NEW t, FilesCleared(t), NEW calls \in SUBSET FileCalls,
         \A c \in calls : c.op \in {"scan", "stopped"} => c \in t.calls
  PROVE  FilesCleared([t EXCEPT !.calls = calls])
<1> DEFINE u == [t EXCEPT !.calls = calls]
<1>1. FilesGood(u)
  BY FilesCalls DEF FilesCleared
<1>2. /\ u.clears = t.clears /\ u.latest = t.latest /\ u.epoch = t.epoch /\ u.touched = t.touched
      /\ u.writes = t.writes /\ u.disk = t.disk /\ u.shown = t.shown /\ u.calls = calls
  BY DEF FilesCleared, FilesGood, FileStates
<1> HIDE DEF u
<1>3. FilesCleared(u)
  BY <1>1, <1>2, ClearedFrame
<1> QED BY <1>3 DEF u

\* The cached result is read, verified and adopted.
LEMMA ClearedReadSteps ==
  ASSUME FilesCleared(s), NEW c \in s.calls, Files!Load(c) \/ Files!Verify(c) \/ Files!AdoptCached(c)
  PROVE  FilesCleared(s)'
<1> DEFINE t == [s EXCEPT !.calls = Files!Without(c)]
<1>0. FilesGood(s) /\ s.calls \subseteq FileCalls
  BY ClearedTypes DEF FilesCleared
<1>1. Files!Without(c) \in SUBSET FileCalls /\ Files!Without(c) \subseteq s.calls
  BY <1>0 DEF Files!Without
<1>2. FilesCleared(t) /\ t.touched = s.touched
  BY <1>0, <1>1, ClearedCalls DEF FilesGood, FileStates
<1>3. CASE Files!Load(c)
  <2> DEFINE r == [op |-> "verify", scan |-> s.disk]
             u == [s EXCEPT !.calls = Files!Without(c) \cup {r}]
  <2>1. r \in FileCalls /\ r.op = "verify"
    BY <1>0, ClearedTypes DEF FileCalls, Readings
  <2>2. s' = t \/ s' = u
    BY <1>3 DEF Files!Load
  <2> HIDE DEF t, r
  <2>3. FilesCleared(u)
    BY <1>1, <2>1, ClearedCalls
  <2> QED BY <1>2, <2>2, <2>3
<1>4. CASE Files!Verify(c)
  <2> DEFINE r == [op |-> "adopt", scan |-> c.scan]
             u == [s EXCEPT !.calls = Files!Without(c) \cup {r}]
  <2>1. c.scan \in Scans /\ c.scan.at \in Nat
    BY <1>0, <1>4, ClearedTypes DEF Files!Verify
  <2>2. r \in FileCalls /\ r.op = "adopt"
    BY <2>1 DEF FileCalls, Readings
  <2>3. \/ s' = t
        \/ ~s.touched /\ (s' = Files!Write(u, c.scan) \/ s' = Files!Show(t, c.scan))
    BY <1>4 DEF Files!Verify
  <2> HIDE DEF r
  <2>4. FilesCleared(u) /\ u.touched = s.touched
    BY <1>0, <1>1, <2>2, ClearedCalls DEF FilesGood, FileStates
  <2> HIDE DEF t, u
  <2>5. ~s.touched => FilesCleared(Files!Write(u, c.scan)) /\ FilesCleared(Files!Show(t, c.scan))
    BY <1>2, <2>1, <2>4, UntouchedAfter, ClearedWrite, ClearedShow
  <2> QED BY <1>2, <2>3, <2>5
<1>5. CASE Files!AdoptCached(c)
  <2>1. c.scan \in Scans /\ c.scan.at \in Nat
    BY <1>0, <1>5, ClearedTypes DEF Files!AdoptCached
  <2>2. s' = t \/ (~s.touched /\ s' = Files!Show(t, c.scan))
    BY <1>5 DEF Files!AdoptCached
  <2> HIDE DEF t
  <2>3. ~s.touched => FilesCleared(Files!Show(t, c.scan))
    BY <1>2, <2>1, UntouchedAfter, ClearedShow
  <2> QED BY <1>2, <2>2, <2>3
<1> QED BY <1>3, <1>4, <1>5

LEMMA ClearedSpent ==
  ASSUME FilesCleared(s)
  PROVE  /\ FilesCleared(Files!Spend) /\ Files!Spend.calls = s.calls /\ Files!Spend.epoch = s.epoch
         /\ Files!Spend.latest = s.latest
<1>1. FilesGood(Files!Spend)
  BY FilesSpent DEF FilesCleared
<1>2. /\ Files!Spend.clears = s.clears /\ Files!Spend.latest = s.latest
      /\ Files!Spend.epoch = s.epoch /\ Files!Spend.touched = s.touched
      /\ Files!Spend.writes = s.writes /\ Files!Spend.disk = s.disk
      /\ Files!Spend.shown = s.shown /\ Files!Spend.calls = s.calls
  BY DEF FilesCleared, FilesGood, FileStates, Files!Spend
<1> QED BY <1>1, <1>2, ClearedFrame

LEMMA ClearedScanStep == ASSUME FilesCleared(s), Files!Scan PROVE FilesCleared(s)'
<1> DEFINE t == Files!Spend
           r == [op |-> "scan", epoch |-> s.epoch, scan |-> Files!FoundBy(s.latest + 1)]
           latest == t.latest + 1
           u == [t EXCEPT !.scanning = TRUE, !.loading = TRUE, !.touched = TRUE, !.latest = latest,
                          !.calls = @ \cup {r}]
<1>0. FilesGood(s)' /\ FilesGood(s)
  BY FilesScanSteps DEF FilesCleared
<1>1. FilesCleared(t) /\ t.calls = s.calls /\ t.epoch = s.epoch /\ t.latest = s.latest
  BY ClearedSpent
<1>2. s' = t \/ s' = u
  BY <1>1 DEF Files!Scan, FilesCleared, FilesGood, FileStates
<1>3. CASE s' = t
  BY <1>1, <1>3
<1>4. CASE s' = u
  <2>1. r.op = "scan" /\ r.epoch = t.epoch /\ r.scan.at = latest /\ latest = t.latest + 1
    BY <1>1 DEF Files!FoundBy
  <2> HIDE DEF r, latest, t
  <2>2. /\ u.clears = t.clears /\ u.latest = latest /\ u.epoch = t.epoch /\ u.touched
        /\ u.writes = t.writes /\ u.disk = t.disk /\ u.shown = t.shown /\ u.calls = t.calls \cup {r}
    BY <1>1 DEF FilesCleared, FilesGood, FileStates
  <2> HIDE DEF u
  <2>3. FilesGood(t) /\ FilesGood(u)
    BY <1>0, <1>1, <1>4 DEF FilesCleared
  <2>4. UptoInv(u)
    BY <1>1, <2>1, <2>2, <2>3, ClearedTypes DEF FilesCleared, UptoInv
  <2>5. \A n : After(n, t) => After(n, u)
    BY <2>1, <2>2 DEF After
  <2>6. After(r.scan.at, u)
    BY <1>1, <2>1, <2>2, <2>3, ClearedTypes DEF FilesCleared, UptoInv, After
  <2>7. ScansInv(u)
    BY <1>1, <2>1, <2>2, <2>3, <2>5, <2>6, ClearedTypes DEF FilesCleared, ScansInv
  <2>8. FilesCleared(u)
    BY <1>1, <2>2, <2>3, <2>4, <2>5, <2>7 DEF FilesCleared, WritesInv, UntouchedInv
  <2> QED BY <1>4, <2>8
<1> QED BY <1>2, <1>3, <1>4

LEMMA ClearedClearStep == ASSUME FilesCleared(s), Files!Clear PROVE FilesCleared(s)'
<1> DEFINE t == Files!Spend
           epoch == t.epoch + 1
           u == [t EXCEPT !.touched = TRUE, !.epoch = epoch, !.loading = FALSE]
           v == Files!Show(u, Files!NoScan)
           r == [op |-> "stopped", latest |-> s.latest]
           w == [v EXCEPT !.calls = @ \cup {r}]
<1>0. FilesGood(s)' /\ FilesGood(s)
  BY FilesScanSteps DEF FilesCleared
<1>1. FilesCleared(t) /\ t.calls = s.calls /\ t.epoch = s.epoch /\ t.latest = s.latest
  BY ClearedSpent
<1>2. s' = w \/ s' = Files!WriteClear(v, s.latest)
  BY <1>1 DEF Files!Clear, FilesCleared, FilesGood, FileStates
<1>3. epoch \in Nat /\ epoch = t.epoch + 1
  BY <1>1, ClearedTypes DEF FilesCleared
<1> HIDE DEF t, epoch
<1>4. /\ u.clears = t.clears /\ u.latest = t.latest /\ u.epoch = epoch /\ u.touched
      /\ u.writes = t.writes /\ u.disk = t.disk /\ u.shown = t.shown /\ u.calls = t.calls
      /\ u \in FileStates /\ u.dialog = t.dialog /\ u.applying = t.applying
  BY <1>1, <1>3 DEF FilesCleared, FilesGood, FileStates
<1> HIDE DEF u
<1>5. FilesGood(t) /\ FilesGood(u)
  BY <1>1, <1>4, FilesFrame DEF FilesCleared
<1>6. \A c \in u.calls : c.op = "scan" => c.epoch < u.epoch
  BY <1>1, <1>3, <1>4, <1>5, ClearedTypes DEF FilesCleared, ScansInv
<1>7. FilesCleared(u)
  <2>1. \A n : After(n, t) => After(n, u)
    BY <1>4 DEF After
  <2>2. ScansInv(u)
    BY <1>5, <1>6, ClearedTypes DEF ScansInv
  <2> QED BY <1>1, <1>4, <1>5, <2>1, <2>2 DEF FilesCleared, UptoInv, WritesInv, UntouchedInv
<1>8. Files!NoScan \in Scans /\ Files!NoScan.at = 0 /\ After(Files!NoScan.at, u)
  BY NoScanType DEF Files!NoScan, After
<1>9. /\ FilesCleared(v) /\ v.shown.at = 0 /\ v.calls = u.calls /\ v.epoch = u.epoch
      /\ v.latest = s.latest /\ v.touched
  BY <1>1, <1>4, <1>7, <1>8, ClearedShow
<1> HIDE DEF v
<1>10. \A c \in v.calls : c.op = "scan" => c.epoch # v.epoch
  BY <1>5, <1>6, <1>9, ClearedTypes
<1>11. s.latest \in Nat /\ s.latest <= v.latest
  BY <1>0, <1>9, ClearedTypes
<1>12. FilesCleared(Files!WriteClear(v, s.latest))
  BY <1>9, <1>10, <1>11, ClearedWriteClear
<1>13. ASSUME s' = w PROVE FilesCleared(w)
  <2>1. r.op = "stopped" /\ r.latest = s.latest
    OBVIOUS
  <2> HIDE DEF r
  <2>2. /\ w.clears = v.clears /\ w.latest = v.latest /\ w.epoch = v.epoch /\ w.touched
        /\ w.writes = v.writes /\ w.disk = v.disk /\ w.shown = v.shown /\ w.calls = v.calls \cup {r}
    BY <1>9 DEF FilesCleared, FilesGood, FileStates
  <2> HIDE DEF w
  <2>3. FilesGood(w)
    BY <1>0, <1>13
  <2>4. UptoInv(w)
    BY <1>9, <1>11, <2>1, <2>2 DEF FilesCleared, UptoInv
  <2>5. ScansInv(w)
    BY <1>9, <1>10, <2>1, <2>2 DEF FilesCleared, ScansInv
  <2>6. After(w.shown.at, w)
    BY <1>9, <2>2 DEF After
  <2> QED BY <1>9, <2>2, <2>3, <2>4, <2>5, <2>6 DEF FilesCleared, WritesInv, UntouchedInv
<1> QED BY <1>2, <1>12, <1>13

LEMMA ClearedWriteEndsStep == ASSUME FilesCleared(s), Files!WriteEnds PROVE FilesCleared(s)'
<1>0. FilesGood(s)' /\ FilesGood(s)
  BY FilesScanSteps DEF FilesCleared
<1> DEFINE h == Head(s.writes)
           tl == Tail(s.writes)
           k == Len(s.writes)
<1>1. s.writes \in Seq(FileWrites) /\ s.writes # <<>>
  BY <1>0 DEF Files!WriteEnds, FilesGood, FileStates
<1>2. PICK done \in BOOLEAN :
        s' = [s EXCEPT !.writes = tl, !.disk = IF done THEN h.value ELSE @,
                       !.clears = IF done /\ h.upto > @ THEN h.upto ELSE @]
  BY <1>0 DEF Files!WriteEnds, FilesGood, FileStates
<1>3. /\ k \in Nat \ {0} /\ DOMAIN s.writes = 1 .. k /\ DOMAIN tl = 1 .. k - 1
      /\ h = s.writes[1] /\ 1 \in 1 .. k
      /\ \A i \in 1 .. k - 1 : tl[i] = s.writes[i + 1] /\ i + 1 \in 1 .. k
  BY <1>1
<1> DEFINE disk == IF done THEN h.value ELSE s.disk
           clears == IF done /\ h.upto > s.clears THEN h.upto ELSE s.clears
<1>4. s' = [s EXCEPT !.writes = tl, !.disk = disk, !.clears = clears]
  BY <1>0, <1>2 DEF FilesGood, FileStates
<1>5. h.upto \in Nat /\ h.value.at \in Nat
  BY <1>0, <1>3, ClearedTypes
<1> HIDE DEF h, tl, k
<1>6. clears = s.clears \/ clears = h.upto
  OBVIOUS
<1>7. (disk = s.disk /\ clears = s.clears) \/ disk = h.value
  OBVIOUS
<1>8. clears \in Nat
  BY <1>0, <1>5, ClearedTypes
<1> HIDE DEF disk, clears
<1> DEFINE u == s'
<1>9. /\ u.clears = clears /\ u.latest = s.latest /\ u.epoch = s.epoch /\ u.touched = s.touched
      /\ u.writes = tl /\ u.disk = disk /\ u.shown = s.shown /\ u.calls = s.calls
  BY <1>0, <1>4 DEF FilesGood, FileStates
<1> HIDE DEF u
<1>10. \A n : After(n, s) => After(n, u)
  BY <1>3, <1>6, <1>9 DEF After
<1>11. \A j \in 1 .. k : \/ s.writes[j].value.at = 0
                         \/ /\ s.writes[j].value.at > s.clears
                            /\ \A i \in 1 .. j : s.writes[j].value.at > s.writes[i].upto
  BY <1>3 DEF FilesCleared, WritesInv
<1>12. UptoInv(u)
  <2>1. /\ s.clears <= s.latest /\ \A i \in 1 .. k : s.writes[i].upto <= s.latest
        /\ \A c \in s.calls : c.op = "stopped" => c.latest <= s.latest
    BY <1>3 DEF FilesCleared, UptoInv
  <2> QED BY <1>3, <1>6, <1>9, <2>1 DEF UptoInv
<1>13. UntouchedInv(u)
  <2>1. ~s.touched => /\ s.clears = 0
                      /\ \A i \in 1 .. k : s.writes[i].upto = 0
                      /\ \A c \in s.calls : c.op # "stopped"
    BY <1>3 DEF FilesCleared, UntouchedInv
  <2>2. ASSUME ~u.touched
        PROVE  /\ u.clears = 0
               /\ \A i \in 1 .. k - 1 : u.writes[i].upto = 0
               /\ \A c \in u.calls : c.op # "stopped"
    <3>1. /\ s.clears = 0 /\ \A i \in 1 .. k : s.writes[i].upto = 0
          /\ \A c \in s.calls : c.op # "stopped"
      BY <1>9, <2>1, <2>2
    <3>2. h.upto = 0
      BY <1>3, <3>1
    <3>3. u.clears = 0
      BY <1>6, <1>9, <3>1, <3>2
    <3>4. \A i \in 1 .. k - 1 : tl[i].upto = 0
      BY <1>3, <3>1
    <3> QED BY <1>9, <3>1, <3>3, <3>4
  <2>3. DOMAIN u.writes = 1 .. k - 1
    BY <1>3, <1>9
  <2> QED BY <2>2, <2>3 DEF UntouchedInv
<1>14. WritesInv(u)
  <2>1. ASSUME NEW j \in 1 .. k - 1
        PROVE  \/ tl[j].value.at = 0
               \/ /\ tl[j].value.at > clears
                  /\ \A i \in 1 .. j : tl[j].value.at > tl[i].upto
    <3>1. tl[j] = s.writes[j + 1] /\ j + 1 \in 1 .. k /\ 1 \in 1 .. j + 1
      BY <1>3
    <3>2. \A i \in 1 .. j : tl[i] = s.writes[i + 1] /\ i + 1 \in 1 .. j + 1
      BY <1>3
    <3>3. s.writes[j + 1].value.at = 0 \/ s.writes[j + 1].value.at > clears
      BY <1>3, <1>6, <1>11, <3>1
    <3> QED BY <1>11, <3>1, <3>2, <3>3
  <2> QED BY <1>3, <1>9, <2>1 DEF WritesInv
<1>15. ScansInv(u)
  BY <1>9, <1>10 DEF FilesCleared, ScansInv
<1>16. disk.at = 0 \/ disk.at > clears
  BY <1>3, <1>6, <1>7, <1>11 DEF FilesCleared
<1>17. After(u.shown.at, u)
  BY <1>9, <1>10 DEF FilesCleared
<1>18. FilesGood(u)
  BY <1>0 DEF u
<1>19. FilesCleared(u)
  BY <1>9, <1>12, <1>13, <1>14, <1>15, <1>16, <1>17, <1>18 DEF FilesCleared
<1> QED BY <1>19 DEF u

LEMMA ClearedScanEndsStep ==
  ASSUME FilesCleared(s), NEW c \in s.calls, Files!ScanEnds(c) PROVE FilesCleared(s)'
<1>0. FilesGood(s) /\ c.op = "scan"
  BY DEF FilesCleared, Files!ScanEnds
<1> DEFINE loading == IF c.epoch = s.epoch THEN FALSE ELSE s.loading
           u == [s EXCEPT !.calls = Files!Without(c), !.scanning = FALSE, !.loading = loading]
<1>1. c.scan \in Scans /\ c.scan.at \in Nat
  BY <1>0, FileCallTypes, ClearedTypes
<1>2. \/ c.epoch = s.epoch /\ s' = Files!Write(Files!Show(u, c.scan), c.scan)
      \/ s' = u
  BY <1>0 DEF Files!ScanEnds, FilesGood, FileStates
<1>3. loading \in BOOLEAN
  BY <1>0 DEF FilesGood, FileStates
<1> HIDE DEF loading
<1>4. /\ u.clears = s.clears /\ u.latest = s.latest /\ u.epoch = s.epoch /\ u.touched = s.touched
      /\ u.writes = s.writes /\ u.disk = s.disk /\ u.shown = s.shown /\ u.calls \subseteq s.calls
      /\ u \in FileStates /\ u.dialog = s.dialog /\ u.applying = s.applying
  BY <1>0, <1>3 DEF FilesGood, FileStates, Files!Without
<1> HIDE DEF u
<1>5. FilesGood(u)
  BY <1>0, <1>4, FilesFrame
<1>6. FilesCleared(u)
  BY <1>4, <1>5, ClearedFrame
<1>7. c.epoch = s.epoch => After(c.scan.at, u)
  BY <1>0, <1>4 DEF FilesCleared, ScansInv, After
<1>8. c.epoch = s.epoch => FilesCleared(Files!Write(Files!Show(u, c.scan), c.scan))
  BY <1>1, <1>6, <1>7, ClearedShow, ClearedWrite
<1> QED BY <1>2, <1>6, <1>8

LEMMA ClearedStoppedStep ==
  ASSUME FilesCleared(s), NEW c \in s.calls, Files!Stopped(c) PROVE FilesCleared(s)'
<1>0. FilesGood(s) /\ c.op = "stopped" /\ c.latest \in Nat /\ c.latest <= s.latest /\ s.touched
  BY ClearedTypes DEF FilesCleared, Files!Stopped, UptoInv, UntouchedInv
<1> DEFINE u == [s EXCEPT !.calls = Files!Without(c)]
<1>1. s' = Files!WriteClear(u, c.latest)
  BY DEF Files!Stopped
<1>2. Files!Without(c) \in SUBSET FileCalls /\ Files!Without(c) \subseteq s.calls
  BY <1>0, ClearedTypes DEF Files!Without
<1>3. FilesCleared(u)
  BY <1>2, ClearedCalls
<1>4. /\ u.latest = s.latest /\ u.epoch = s.epoch /\ u.touched = s.touched
      /\ u.shown = s.shown /\ u.calls \subseteq s.calls
  BY <1>0, <1>2 DEF FilesGood, FileStates
<1> HIDE DEF u
<1>5. u.shown.at = 0 \/ u.shown.at > c.latest
  BY <1>0, <1>4 DEF FilesCleared, After
<1>6. \A e \in u.calls : e.op = "scan" /\ e.epoch = u.epoch => e.scan.at = 0 \/ e.scan.at > c.latest
  BY <1>0, <1>4 DEF FilesCleared, ScansInv, After
<1> QED BY <1>0, <1>1, <1>3, <1>4, <1>5, <1>6, ClearedWriteClear

\* What the user does on the page and in the dialog, and what the dialog hears.
LEMMA ClearedPageSteps ==
  ASSUME FilesCleared(s), FilesGood(s)',
         \/ Files!Cancel \/ Files!ToggleGroup
         \/ \E f \in Files!Files : Files!KeepFile(f) \/ Files!ToggleOldFile(f)
         \/ \E kind \in Files!Kinds : Files!OpenProcessingDialog(kind)
         \/ \E mode \in Files!Modes : Files!ChangeDeleteMode(mode)
         \/ Files!Recheck \/ Files!Acknowledge \/ Files!CloseDeleteDialog
         \/ Files!ConfirmProcessing \/ Files!CancelProcessing \/ Files!DeletionApplied
         \/ \E c \in s.dialog.calls :
              \/ Files!PrepareDeleteLease(c) \/ Files!ModeChanged(c)
              \/ Files!ProcessingFails(c) \/ Files!ProcessingCancelled(c)
  PROVE  FilesCleared(s)'
<1> DEFINE Kept(t) ==
             /\ t.clears = s.clears /\ t.latest = s.latest /\ t.epoch = s.epoch
             /\ t.touched = s.touched /\ t.writes = s.writes /\ t.disk = s.disk
             /\ t.shown = s.shown /\ t.calls = s.calls
<1>0. SUFFICES Kept(s')
  <2> DEFINE u == s'
  <2>1. ASSUME FilesGood(u), Kept(u) PROVE FilesCleared(u)
    <3> HIDE DEF u
    <3> QED BY <2>1, ClearedFrame
  <2> QED BY <2>1
<1>1. s \in FileStates
  BY DEF FilesCleared, FilesGood
<1>2. \A d : Kept([s EXCEPT !.dialog = d])
  BY <1>1 DEF FileStates
<1>3. \A d, b : Kept([s EXCEPT !.applying = b, !.dialog = d])
  BY <1>1 DEF FileStates
<1> DEFINE t == Files!Spend
<1>4. t \in FileStates /\ Kept(t)
  BY <1>1 DEF FileStates, Files!Spend
<1>5. s' = t => Kept(s')
  BY <1>4
<1>6. CASE Files!ToggleGroup \/ \E f \in Files!Files : Files!KeepFile(f) \/ Files!ToggleOldFile(f)
  <2>1. \/ \E b : s' = [t EXCEPT !.outcome = FALSE, !.grouped = b]
        \/ \E f : s' = [t EXCEPT !.outcome = FALSE, !.kept = f]
        \/ \E f : s' = [t EXCEPT !.outcome = FALSE, !.chosen = f]
    BY <1>4, <1>6 DEF Files!ToggleGroup, Files!KeepFile, Files!ToggleOldFile, FileStates
  <2> HIDE DEF t
  <2> QED BY <1>4, <2>1 DEF FileStates
<1>7. CASE \E kind \in Files!Kinds : Files!OpenProcessingDialog(kind)
  <2>1. PICK kind \in Files!Kinds : Files!OpenProcessingDialog(kind)
    BY <1>7
  <2> DEFINE files == IF kind = "old" THEN Files!SelectedOld ELSE Files!SelectedDuplicates
             e == Files!Opened(t.dialog, files, "trash")
  <2>2. s' = [t EXCEPT !.kind = kind, !.outcome = FALSE, !.dialog = e]
    BY <1>4, <2>1 DEF Files!OpenProcessingDialog, FileStates
  <2> HIDE DEF t, e
  <2> QED BY <1>4, <2>2 DEF FileStates
<1>8. CASE Files!Recheck \/ \E mode \in Files!Modes : Files!ChangeDeleteMode(mode)
  <2>1. \E d : s' = [t EXCEPT !.dialog = d]
    BY <1>4, <1>8 DEF Files!Recheck, Files!ChangeDeleteMode, FileStates
  <2> HIDE DEF t
  <2> QED BY <1>4, <2>1 DEF FileStates
<1>9. CASE Files!Acknowledge \/ Files!CloseDeleteDialog \/ Files!ConfirmProcessing \/ Files!CancelProcessing
  <2>1. CASE Files!Acknowledge
    BY <1>2, <2>1 DEF Files!Acknowledge, Files!Dialog
  <2>2. CASE Files!CloseDeleteDialog
    BY <1>2, <2>2 DEF Files!CloseDeleteDialog, Files!Dialog
  <2>3. CASE Files!ConfirmProcessing
    BY <1>2, <2>3 DEF Files!ConfirmProcessing, Files!Dialog
  <2>4. CASE Files!CancelProcessing
    BY <1>2, <2>4 DEF Files!CancelProcessing, Files!Dialog
  <2> QED BY <1>9, <2>1, <2>2, <2>3, <2>4
<1>10. CASE Files!DeletionApplied
  <2>1. \E d, b : s' = [s EXCEPT !.applying = b, !.dialog = d]
    BY <1>1, <1>10 DEF Files!DeletionApplied, FileStates
  <2> QED BY <1>3, <2>1
<1>11. CASE \E c \in s.dialog.calls :
              \/ Files!PrepareDeleteLease(c) \/ Files!ModeChanged(c)
              \/ Files!ProcessingFails(c) \/ Files!ProcessingCancelled(c)
  <2>1. ASSUME NEW c, Files!PrepareDeleteLease(c) PROVE Kept(s')
    BY <1>2, <2>1 DEF Files!PrepareDeleteLease, Files!Dialog
  <2>2. ASSUME NEW c, Files!ModeChanged(c) PROVE Kept(s')
    BY <1>2, <2>2 DEF Files!ModeChanged, Files!Dialog
  <2>3. ASSUME NEW c, Files!ProcessingFails(c) PROVE Kept(s')
    BY <1>2, <2>3 DEF Files!ProcessingFails, Files!Dialog
  <2>4. ASSUME NEW c, Files!ProcessingCancelled(c) PROVE Kept(s')
    BY <1>2, <2>4 DEF Files!ProcessingCancelled, Files!Dialog
  <2> QED BY <1>11, <2>1, <2>2, <2>3, <2>4
<1> QED BY <1>5, <1>6, <1>7, <1>8, <1>9, <1>10, <1>11 DEF Files!Cancel

\* The files that were deleted leave the result, which is saved again.
LEMMA ClearedExecutedStep ==
  ASSUME FilesCleared(s), NEW c \in s.dialog.calls, Files!Processed(c)
  PROVE  FilesCleared(s)'
<1>0. FilesGood(s)' /\ FilesGood(s)
  BY FilesExecutedStep DEF FilesCleared
<1> DEFINE Kept(t) ==
             /\ t.clears = s.clears /\ t.latest = s.latest /\ t.epoch = s.epoch
             /\ t.touched = s.touched /\ t.disk = s.disk /\ t.calls = s.calls
<1> DEFINE f == Files!Forgotten(Files!Taken(s.dialog, c))
<1>1. PICK deleted, removed :
        s' = Files!RemovePaths([s EXCEPT !.dialog = f, !.outcome = TRUE, !.removed = removed,
                                         !.applying = TRUE], deleted)
  BY <1>0 DEF Files!Processed, FilesGood, FileStates
<1> HIDE DEF f
<1> DEFINE t == [s EXCEPT !.dialog = f, !.outcome = TRUE, !.removed = removed, !.applying = TRUE]
           rest == t.shown.group \ deleted
           Updated(group) == [t.shown EXCEPT !.group = group, !.old = @ \ deleted]
<1>2. PICK group \in {{}, rest} :
        s' = t \/ s' = Files!Write([t EXCEPT !.shown = Updated(group)], Updated(group))
  BY <1>1 DEF Files!RemovePaths
<1> DEFINE updated == Updated(group)
           u == [t EXCEPT !.shown = updated]
<1>3. s \in FileStates /\ (s' = t \/ s' = Files!Write(u, updated))
  BY <1>0, <1>2 DEF FilesGood
<1>4. /\ Kept(t) /\ t.shown = s.shown /\ t.writes = s.writes
      /\ DOMAIN t = DOMAIN s
  BY <1>3 DEF FileStates
<1>5. updated.at = s.shown.at
  BY <1>3, <1>4 DEF FileStates, Scans
<1> HIDE DEF t, updated
<1>6. /\ Kept(u) /\ u.shown = updated /\ u.writes = s.writes /\ DOMAIN u = DOMAIN s
  BY <1>3, <1>4 DEF FileStates
<1> HIDE DEF u
<1> DEFINE w == [value |-> updated, upto |-> 0]
           writes == Append(s.writes, w)
           k == Len(s.writes) + 1
<1>7. \/ s'.shown = s.shown /\ s'.writes = s.writes /\ Kept(s')
      \/ s'.shown = updated /\ s'.writes = writes /\ Kept(s')
  <2>1. CASE s' = t
    BY <1>4, <2>1
  <2>2. CASE s' = Files!Write(u, updated)
    <3>1. s' = [u EXCEPT !.writes = writes]
      BY <1>6, <2>2 DEF Files!Write
    <3> HIDE DEF w, writes
    <3> QED BY <1>3, <1>6, <3>1 DEF FileStates
  <2> QED BY <1>3, <2>1, <2>2
<1> DEFINE v == s'
<1>8. FilesGood(v)
  BY <1>0
<1>9. CASE v.shown = s.shown /\ v.writes = s.writes /\ Kept(v)
  <2> HIDE DEF v
  <2>1. FilesCleared(v)
    BY <1>8, <1>9, ClearedFrame
  <2> QED BY <2>1 DEF v
<1>10. CASE v.shown = updated /\ v.writes = writes /\ Kept(v)
  <2> DEFINE z == Files!Write(s, updated)
  <2>1. v.shown \in Scans
    BY <1>8 DEF FilesGood, FileStates
  <2>2. updated \in Scans
    BY <1>10, <2>1
  <2>3. FilesCleared(z)
    BY <1>5, <2>2, ClearedWrite DEF FilesCleared
  <2>4. /\ z.clears = s.clears /\ z.latest = s.latest /\ z.epoch = s.epoch
        /\ z.touched = s.touched /\ z.disk = s.disk /\ z.calls = s.calls
        /\ z.writes = writes /\ z.shown = s.shown
    BY <1>3 DEF Files!Write, FileStates
  <2> HIDE DEF z, v, writes
  <2>5. FilesCleared(v)
    BY <1>5, <1>8, <1>10, <2>3, <2>4, ClearedFrame
  <2> QED BY <2>5 DEF v
<1> QED BY <1>7, <1>9, <1>10

LEMMA FilesClearedStart == ASSUME Files!Init PROVE FilesCleared(s)
<1>1. FilesGood(s)
  BY FilesStart
<1>2. /\ s.clears = 0 /\ s.latest = 1 /\ s.shown.at = 0 /\ s.disk.at \in {0, 1}
      /\ s.writes = <<>> /\ \A c \in s.calls : c.op = "load"
  BY DEF Files!Init, Files!NoScan, Files!FoundBy
<1> QED BY <1>1, <1>2 DEF FilesCleared, UptoInv, WritesInv, ScansInv, UntouchedInv, After

LEMMA FilesClearedSteps == ASSUME FilesCleared(s), Files!Next PROVE FilesCleared(s)'
<1>1. FilesGood(s)'
  BY FilesSteps DEF FilesCleared
<1>2. ASSUME NEW op, Files!AnswerOf(op) PROVE FilesCleared(s)'
  BY <1>1, <1>2, ClearedReadSteps, ClearedScanEndsStep, ClearedStoppedStep, ClearedPageSteps,
     ClearedExecutedStep DEF Files!AnswerOf
<1> QED BY <1>1, <1>2, ClearedScanStep, ClearedClearStep, ClearedWriteEndsStep, ClearedPageSteps
        DEF Files!Next

LEMMA FilesClearedHold == ASSUME FilesCleared(s) PROVE Files!ClearedIsGone
BY DEF FilesCleared, After, Files!ClearedIsGone
-------------------------------------------------------------------------------
(* A history in a native file.                                               *)

PointSets == SUBSET Nat
Carried == {"save", "saved", "save_failed", "migrate", "migrated", "migrate_failed"}
Asked == {"load", "load_failed"}
Clears == {"clear", "clear_failed"}
LoadsOfHistory == [op : Asked, epoch : Nat]
Loaded == [op : {"loaded"}, epoch : Nat, file : PointSets, generation : Int]
Writes == [op : Carried, epoch : Nat, points : PointSets, generation : Int]
ClearRequests == [op : Clears]
Cleareds == [op : {"cleared"}, generation : Int]
HistoryCalls == LoadsOfHistory \cup Loaded \cup Writes \cup ClearRequests \cup Cleareds

HistoryStates ==
  [value : PointSets, hydrated : BOOLEAN, pending : PointSets, last : PointSets,
   generation : Int, epoch : Nat, clearing : BOOLEAN, blocked : BOOLEAN, waiting : BOOLEAN,
   enabled : BOOLEAN, reset : BOOLEAN, failed : BOOLEAN, legacy : PointSets, file : PointSets,
   written : Nat, next : Nat, cleared : PointSets, acts : Int, calls : SUBSET HistoryCalls]

\* Points that a clear did not remove, of those that were ever sampled.
Fresh(points, t) == \A p \in points : p \notin t.cleared /\ p < t.next

\* Nothing that is shown, stored, kept or under way was cleared.
FreshInv(t) ==
  /\ Fresh(t.value, t) /\ Fresh(t.file \ {0}, t) /\ Fresh(t.legacy, t) /\ Fresh(t.pending, t)
  /\ \A c \in t.calls : c.op \in Carried => Fresh(c.points, t)
  /\ \A c \in t.calls : c.op = "loaded" => Fresh(c.file \ {0}, t)
  /\ \A p \in t.cleared : 0 < p /\ p < t.next
  /\ 0 < t.next

\* While the file is being cleared nothing else is under way, and what is not
\* in the file is already gone; a clear that has succeeded has no file.
ClearingInv(t) ==
  /\ t.clearing => t.pending = {} /\ ~t.waiting
  /\ \A c \in t.calls : c.op \in {"clear", "clear_failed", "cleared"} =>
       /\ t.clearing /\ t.legacy = {} /\ t.calls = {c}
       /\ c.op = "cleared" => t.file \ {0} = {}

NativeGood(t) == t \in HistoryStates /\ FreshInv(t) /\ ClearingInv(t)

HasClear(t) == \E c \in t.calls : c.op \in {"clear", "clear_failed", "cleared"}

LEMMA HistoryCallTypes ==
  ASSUME NEW t \in HistoryStates, NEW c \in t.calls
  PROVE  /\ c.op \in Carried => c \in Writes
         /\ c.op = "loaded" => c \in Loaded
         /\ c.op \in Asked => c \in LoadsOfHistory
         /\ c.op \in Clears => c \in ClearRequests
         /\ c.op = "cleared" => c \in Cleareds
         /\ c.op \in Carried \cup Asked \cup Clears \cup {"loaded", "cleared"}
<1>1. c \in HistoryCalls
  BY DEF HistoryStates
<1> QED BY <1>1 DEF HistoryCalls, LoadsOfHistory, Loaded, Writes, ClearRequests, Cleareds, Carried,
           Asked, Clears

\* A call of another kind than a clear: then no clear is under way.
LEMMA NoClear ==
  ASSUME NEW t, NativeGood(t),
         ~t.clearing \/ \E c \in t.calls : c.op \notin {"clear", "clear_failed", "cleared"}
  PROVE  ~HasClear(t)
BY DEF NativeGood, ClearingInv, HasClear

LEMMA NativeFrame ==
  ASSUME NEW t, NativeGood(t), ~HasClear(t), NEW u \in HistoryStates,
         u.cleared = t.cleared, u.next = t.next,
         Fresh(u.value, t), Fresh(u.file \ {0}, t), Fresh(u.legacy, t), Fresh(u.pending, t),
         u.clearing => u.pending = {} /\ ~u.waiting,
         \A c \in u.calls :
           \/ c \in t.calls
           \/ c.op \in Carried /\ Fresh(c.points, t)
           \/ c.op = "loaded" /\ Fresh(c.file \ {0}, t)
           \/ c.op \in Asked
  PROVE  NativeGood(u)
<1>1. \A points : Fresh(points, t) <=> Fresh(points, u)
  BY DEF Fresh
<1>2. \A c \in u.calls : c.op \notin {"clear", "clear_failed", "cleared"}
  BY DEF HasClear, Carried, Asked
<1>3. FreshInv(u)
  BY <1>1 DEF NativeGood, FreshInv, Carried, Asked
<1>4. ClearingInv(u)
  BY <1>2 DEF ClearingInv
<1> QED BY <1>3, <1>4 DEF NativeGood

LEMMA FreshFacts ==
  ASSUME NEW t, NativeGood(t)
  PROVE  /\ Fresh(t.value, t) /\ Fresh(t.file \ {0}, t) /\ Fresh(t.legacy, t) /\ Fresh(t.pending, t)
         /\ Fresh({}, t)
         /\ t.clearing => t.pending = {} /\ ~t.waiting
BY DEF NativeGood, FreshInv, ClearingInv, Fresh

\* Steps that leave the points alone.
LEMMA NativeSame ==
  ASSUME NEW t, NativeGood(t), NEW u \in HistoryStates,
         u.cleared = t.cleared, u.next = t.next, u.value = t.value, u.file = t.file,
         u.legacy = t.legacy, u.pending = t.pending, u.calls = t.calls,
         u.clearing = t.clearing, u.waiting = t.waiting
  PROVE  NativeGood(u)
<1>1. \A points : Fresh(points, t) <=> Fresh(points, u)
  BY DEF Fresh
<1> QED BY <1>1 DEF NativeGood, FreshInv, ClearingInv

LEMMA NativeSpent ==
  ASSUME NativeGood(s)
  PROVE  /\ NativeGood(Native!Spend) /\ Native!Spend \in HistoryStates
         /\ Native!Spend = [s EXCEPT !.acts = s.acts - 1]
         /\ Native!Spend.calls = s.calls /\ Native!Spend.clearing = s.clearing
         /\ Native!Spend.value = s.value /\ Native!Spend.next = s.next
         /\ Native!Spend.file = s.file /\ Native!Spend.pending = s.pending
         /\ Native!Spend.legacy = s.legacy /\ Native!Spend.cleared = s.cleared
         /\ Native!Spend.epoch = s.epoch /\ Native!Spend.hydrated = s.hydrated
         /\ Native!Spend.waiting = s.waiting
<1>0. s \in HistoryStates
  BY DEF NativeGood
<1>1. /\ Native!Spend \in HistoryStates
      /\ Native!Spend = [s EXCEPT !.acts = s.acts - 1]
      /\ Native!Spend.calls = s.calls /\ Native!Spend.clearing = s.clearing
      /\ Native!Spend.value = s.value /\ Native!Spend.next = s.next
      /\ Native!Spend.file = s.file /\ Native!Spend.pending = s.pending
      /\ Native!Spend.legacy = s.legacy /\ Native!Spend.cleared = s.cleared
      /\ Native!Spend.epoch = s.epoch /\ Native!Spend.hydrated = s.hydrated
      /\ Native!Spend.waiting = s.waiting
  BY <1>0 DEF HistoryStates, Native!Spend
<1> QED BY <1>1, NativeSame

\* A sample: its number is new.
LEMMA NativeUpdate == ASSUME NativeGood(s), Native!UpdateValue PROVE NativeGood(s)'
<1> DEFINE t == Native!Spend
           value == t.value \cup {t.next}
           pending == IF t.hydrated THEN t.pending ELSE t.pending \cup {s.next}
           next == t.next + 1
           u == [t EXCEPT !.value = value, !.next = next, !.pending = pending]
<1>1. NativeGood(t) /\ t \in HistoryStates /\ t.next = s.next /\ t.clearing = s.clearing
  BY NativeSpent
<1>2. s' = t \/ (~s.clearing /\ s' = u)
  BY <1>1, NativeSpent DEF Native!UpdateValue, HistoryStates
<1>3. next \in Nat /\ value \in PointSets /\ pending \in PointSets /\ next = t.next + 1
      /\ value \subseteq t.value \cup {t.next} /\ pending \subseteq t.pending \cup {t.next}
  BY <1>1 DEF HistoryStates, PointSets
<1> HIDE DEF t, value, pending, next
<1>4. /\ u \in HistoryStates /\ u.value = value /\ u.next = next /\ u.pending = pending
      /\ u.file = t.file /\ u.legacy = t.legacy /\ u.cleared = t.cleared /\ u.calls = t.calls
      /\ u.clearing = t.clearing /\ u.waiting = t.waiting
  BY <1>1, <1>3 DEF HistoryStates
<1> HIDE DEF u
<1>5. t.next \in Nat /\ \A p \in t.cleared : p < t.next /\ p \in Nat
  BY <1>1 DEF NativeGood, FreshInv, HistoryStates, PointSets
<1>6. ASSUME NEW points \in PointSets, Fresh(points, t), NEW more, more \subseteq points \cup {t.next}
      PROVE  Fresh(more, u)
  <2>1. t.next < u.next /\ t.next \notin u.cleared
    BY <1>3, <1>4, <1>5
  <2>2. \A p \in points : p \notin u.cleared /\ p < u.next
    BY <1>3, <1>4, <1>5, <1>6 DEF Fresh, PointSets
  <2>3. \A p \in more : p \in points \/ p = t.next
    BY <1>6
  <2> QED BY <2>1, <2>2, <2>3 DEF Fresh
<1>7. /\ t.value \in PointSets /\ t.pending \in PointSets /\ t.legacy \in PointSets
      /\ t.file \ {0} \in PointSets
      /\ \A c \in t.calls : c.op \in Carried => c.points \in PointSets
      /\ \A c \in t.calls : c.op = "loaded" => c.file \ {0} \in PointSets
  BY <1>1, HistoryCallTypes DEF HistoryStates, PointSets, Writes, Loaded
<1>8. FreshInv(u)
  <2>1. /\ Fresh(u.value, u) /\ Fresh(u.file \ {0}, u) /\ Fresh(u.legacy, u) /\ Fresh(u.pending, u)
    BY <1>1, <1>3, <1>4, <1>6, <1>7 DEF NativeGood, FreshInv
  <2>2. ASSUME NEW c \in u.calls PROVE /\ c.op \in Carried => Fresh(c.points, u)
                                       /\ c.op = "loaded" => Fresh(c.file \ {0}, u)
    BY <1>1, <1>4, <1>6, <1>7 DEF NativeGood, FreshInv
  <2>3. 0 < u.next /\ \A p \in u.cleared : 0 < p /\ p < u.next
    BY <1>1, <1>3, <1>4, <1>5 DEF NativeGood, FreshInv
  <2> QED BY <2>1, <2>2, <2>3 DEF FreshInv
<1>9. ~s.clearing => ClearingInv(u)
  BY <1>1, <1>4 DEF NativeGood, ClearingInv
<1> QED BY <1>1, <1>2, <1>4, <1>8, <1>9 DEF NativeGood

\* The native side serves a load or a write.
LEMMA NativeServed ==
  ASSUME NativeGood(s), NEW c \in s.calls, Native!Serve(c), c.op # "clear"
  PROVE  NativeGood(s)'
<1> DEFINE rest == Native!Without(c)
<1>0. s \in HistoryStates /\ ~HasClear(s)
  BY NoClear, HistoryCallTypes DEF NativeGood, Native!Serve
<1>1. rest \subseteq s.calls /\ s.calls \subseteq HistoryCalls
  BY <1>0 DEF Native!Without, HistoryStates
<1>2. CASE c.op = "load"
  <2>1. c \in LoadsOfHistory
    BY <1>0, <1>2, HistoryCallTypes DEF Asked
  <2> DEFINE r == [op |-> "loaded", epoch |-> c.epoch, file |-> s.file, generation |-> s.written]
             f == [op |-> "load_failed", epoch |-> c.epoch]
             u == [s EXCEPT !.calls = rest \cup {r}]
             v == [s EXCEPT !.calls = rest \cup {f}]
  <2>2. r \in HistoryCalls /\ r.op = "loaded" /\ r.file = s.file
    BY <1>0, <2>1 DEF HistoryCalls, Loaded, LoadsOfHistory, HistoryStates
  <2>3. f \in HistoryCalls /\ f.op = "load_failed"
    BY <2>1 DEF HistoryCalls, LoadsOfHistory, Asked
  <2>4. s' = u \/ s' = v
    BY <1>2 DEF Native!Serve
  <2> HIDE DEF r, f, rest
  <2>5. u \in HistoryStates /\ v \in HistoryStates
    BY <1>0, <1>1, <2>2, <2>3 DEF HistoryStates
  <2>6. NativeGood(u)
    <3>1. /\ u.cleared = s.cleared /\ u.next = s.next /\ u.value = s.value /\ u.file = s.file
          /\ u.legacy = s.legacy /\ u.pending = s.pending /\ u.calls = rest \cup {r}
          /\ u.clearing = s.clearing /\ u.waiting = s.waiting
      BY <1>0 DEF HistoryStates
    <3> HIDE DEF u
    <3> QED BY <1>0, <1>1, <2>2, <2>5, <3>1, FreshFacts, NativeFrame
  <2>7. NativeGood(v)
    <3>1. /\ v.cleared = s.cleared /\ v.next = s.next /\ v.value = s.value /\ v.file = s.file
          /\ v.legacy = s.legacy /\ v.pending = s.pending /\ v.calls = rest \cup {f}
          /\ v.clearing = s.clearing /\ v.waiting = s.waiting
      BY <1>0 DEF HistoryStates
    <3> HIDE DEF v
    <3>2. f.op \in Asked
      BY <2>3 DEF Asked
    <3> QED BY <1>0, <1>1, <2>5, <3>1, <3>2, FreshFacts, NativeFrame
  <2> QED BY <2>4, <2>6, <2>7
<1>3. CASE c.op \in {"save", "migrate"}
  <2>1. c \in Writes /\ c.op \in Carried
    BY <1>0, <1>3, HistoryCallTypes DEF Carried
  <2> DEFINE done == IF c.op = "save" THEN "saved" ELSE "migrated"
             failed == IF c.op = "save" THEN "save_failed" ELSE "migrate_failed"
             f == [c EXCEPT !.op = failed]
             generation == s.written + 1
             r == [c EXCEPT !.op = done, !.generation = generation]
             u == [s EXCEPT !.file = c.points, !.written = generation, !.calls = rest \cup {r}]
             v == [s EXCEPT !.calls = rest \cup {f}]
  <2>2. s' = u \/ s' = v
    BY <1>0, <1>3 DEF Native!Serve, HistoryStates
  <2>3. generation \in Nat /\ generation \in Int /\ done \in Carried /\ failed \in Carried
    BY <1>0 DEF HistoryStates, Carried
  <2> HIDE DEF generation, done, failed
  <2>4. /\ r \in Writes /\ r.op \in Carried /\ r.points = c.points
        /\ f \in Writes /\ f.op \in Carried /\ f.points = c.points
    <3>1. f \in Writes
      BY <2>1, <2>3 DEF Writes
    <3>3. r \in Writes
      BY <2>1, <2>3 DEF Writes
    <3>2. r.points = c.points /\ f.points = c.points
      BY <2>1 DEF Writes
    <3> QED BY <3>1, <3>2, <3>3 DEF Writes
  <2>5. Fresh(c.points, s) /\ c.points \in PointSets
    BY <2>1 DEF NativeGood, FreshInv, Writes
  <2> HIDE DEF r, f, rest
  <2>6. u \in HistoryStates /\ v \in HistoryStates
    BY <1>0, <1>1, <2>3, <2>4, <2>5 DEF HistoryStates, HistoryCalls
  <2>7. /\ u.cleared = s.cleared /\ u.next = s.next /\ u.value = s.value /\ u.file = c.points
        /\ u.legacy = s.legacy /\ u.pending = s.pending /\ u.calls = rest \cup {r}
        /\ u.clearing = s.clearing /\ u.waiting = s.waiting
        /\ v.cleared = s.cleared /\ v.next = s.next /\ v.value = s.value /\ v.file = s.file
        /\ v.legacy = s.legacy /\ v.pending = s.pending /\ v.calls = rest \cup {f}
        /\ v.clearing = s.clearing /\ v.waiting = s.waiting
    BY <1>0 DEF HistoryStates
  <2> HIDE DEF u, v
  <2>8. Fresh(c.points \ {0}, s)
    BY <2>5 DEF Fresh
  <2>9. NativeGood(u)
    BY <1>0, <1>1, <2>4, <2>5, <2>6, <2>7, <2>8, FreshFacts, NativeFrame
  <2>10. NativeGood(v)
    BY <1>0, <1>1, <2>4, <2>5, <2>6, <2>7, FreshFacts, NativeFrame
  <2> QED BY <2>2, <2>9, <2>10
<1> QED BY <1>2, <1>3 DEF Native!Serve

\* The file was read: what it holds is shown, with what was sampled meanwhile.
LEMMA NativeHydrated ==
  ASSUME NativeGood(s), NEW c \in s.calls, Native!HydrationArrives(c)
  PROVE  NativeGood(s)'
<1>0. s \in HistoryStates /\ ~HasClear(s) /\ c \in Loaded /\ c.op = "loaded"
  BY NoClear, HistoryCallTypes DEF NativeGood, Native!HydrationArrives
<1> DEFINE rest == Native!Without(c)
           next == (IF c.file = Native!NoFile THEN s.legacy ELSE c.file) \cup s.pending
           t == [s EXCEPT !.calls = rest, !.generation = c.generation, !.value = next,
                          !.pending = {}, !.hydrated = TRUE, !.last = c.file, !.failed = FALSE]
           r == [op |-> "migrate", epoch |-> c.epoch, points |-> next, generation |-> c.generation]
           u == [t EXCEPT !.calls = @ \cup {r}]
           v == [s EXCEPT !.calls = rest]
<1>1. rest \subseteq s.calls /\ s.calls \subseteq HistoryCalls
  BY <1>0 DEF Native!Without, HistoryStates
<1>2. s' \in {t, u, v}
  BY DEF Native!HydrationArrives
<1>3. c.file \in PointSets /\ c.generation \in Int /\ c.epoch \in Nat
  BY <1>0 DEF Loaded
<1>4. next \in PointSets
  BY <1>0, <1>3 DEF HistoryStates, PointSets
<1>5. Fresh(c.file \ {0}, s) /\ 0 \notin s.cleared /\ 0 < s.next
  BY <1>0 DEF NativeGood, FreshInv
<1>6. Fresh(next, s)
  BY <1>5 DEF NativeGood, FreshInv, Fresh
<1> HIDE DEF next, rest
<1>7. r \in HistoryCalls /\ r.op \in Carried /\ r.points = next
  BY <1>3, <1>4 DEF HistoryCalls, Writes, Carried
<1> HIDE DEF r
<1>8. /\ t \in HistoryStates
      /\ t.cleared = s.cleared /\ t.next = s.next /\ t.value = next /\ t.file = s.file
      /\ t.legacy = s.legacy /\ t.pending = {} /\ t.calls = rest
      /\ t.clearing = s.clearing /\ t.waiting = s.waiting
  BY <1>0, <1>1, <1>3, <1>4 DEF HistoryStates, PointSets
<1> HIDE DEF t
<1>9. /\ u \in HistoryStates
      /\ u.cleared = s.cleared /\ u.next = s.next /\ u.value = next /\ u.file = s.file
      /\ u.legacy = s.legacy /\ u.pending = {} /\ u.calls = rest \cup {r}
      /\ u.clearing = s.clearing /\ u.waiting = s.waiting
  BY <1>7, <1>8 DEF HistoryStates
<1>10. /\ v \in HistoryStates
       /\ v.cleared = s.cleared /\ v.next = s.next /\ v.value = s.value /\ v.file = s.file
       /\ v.legacy = s.legacy /\ v.pending = s.pending /\ v.calls = rest
       /\ v.clearing = s.clearing /\ v.waiting = s.waiting
  BY <1>0, <1>1 DEF HistoryStates
<1> HIDE DEF u, v
<1>11. Fresh({}, s)
  BY DEF Fresh
<1>12. NativeGood(t)
  BY <1>0, <1>1, <1>6, <1>8, <1>11, FreshFacts, NativeFrame
<1>13. NativeGood(u)
  BY <1>0, <1>1, <1>6, <1>7, <1>9, <1>11, FreshFacts, NativeFrame
<1>14. NativeGood(v)
  BY <1>0, <1>1, <1>10, FreshFacts, NativeFrame
<1> QED BY <1>2, <1>12, <1>13, <1>14

\* The other answers that do not belong to a clear.
LEMMA NativeAnswered ==
  ASSUME NativeGood(s), NEW c \in s.calls,
         \/ Native!HydrationFails(c) \/ Native!SaveArrives(c) \/ Native!SaveFails(c)
         \/ Native!MigrationArrives(c)
  PROVE  NativeGood(s)'
<1>0. s \in HistoryStates /\ ~HasClear(s)
  BY NoClear DEF NativeGood, Native!HydrationFails, Native!SaveArrives, Native!SaveFails,
     Native!MigrationArrives
<1> DEFINE rest == Native!Without(c)
<1>1. rest \subseteq s.calls /\ s.calls \subseteq HistoryCalls /\ rest \in SUBSET HistoryCalls
  BY <1>0 DEF Native!Without, HistoryStates
<1> DEFINE Answered(t) ==
             /\ t \in HistoryStates /\ t.cleared = s.cleared /\ t.next = s.next
             /\ t.value = s.value /\ t.file = s.file /\ t.legacy \in {s.legacy, {}}
             /\ t.pending \in {s.pending, {}} /\ t.calls = rest /\ t.clearing = s.clearing
             /\ t.waiting => s.waiting
<1>6. ASSUME NEW u, Answered(u) PROVE NativeGood(u)
  <2>1. Fresh(u.legacy, s) /\ Fresh(u.pending, s) /\ (u.clearing => u.pending = {} /\ ~u.waiting)
    BY <1>6, FreshFacts
  <2> HIDE DEF rest
  <2> QED BY <1>0, <1>1, <1>6, <2>1, FreshFacts, NativeFrame
<1>2. CASE Native!HydrationFails(c)
  <2> DEFINE waiting == s.waiting /\ c.op = "load_failed"
             t == [s EXCEPT !.calls = rest, !.waiting = waiting]
             u == [t EXCEPT !.hydrated = TRUE, !.pending = {}, !.failed = TRUE]
  <2>1. s' = t \/ s' = u
    BY <1>0, <1>2 DEF Native!HydrationFails, HistoryStates
  <2>2. waiting \in BOOLEAN /\ (waiting => s.waiting)
    BY <1>0 DEF HistoryStates
  <2> HIDE DEF waiting, rest
  <2>3. Answered(t)
    BY <1>0, <1>1, <2>2 DEF HistoryStates
  <2> HIDE DEF t
  <2>4. Answered(u)
    BY <2>3 DEF HistoryStates, PointSets
  <2> QED BY <1>6, <2>1, <2>3, <2>4
<1>3. CASE Native!SaveArrives(c)
  <2>1. c \in Writes
    BY <1>0, <1>3, HistoryCallTypes DEF Native!SaveArrives, Carried
  <2> DEFINE t == [s EXCEPT !.calls = rest, !.generation = c.generation]
             u == [t EXCEPT !.last = c.points, !.failed = FALSE]
  <2>2. s' = t \/ s' = u
    BY <1>3 DEF Native!SaveArrives
  <2>3. c.generation \in Int /\ c.points \in PointSets
    BY <2>1 DEF Writes
  <2> HIDE DEF rest
  <2>4. Answered(t)
    BY <1>0, <1>1, <2>3 DEF HistoryStates
  <2> HIDE DEF t
  <2>5. Answered(u)
    BY <2>3, <2>4 DEF HistoryStates
  <2> QED BY <1>6, <2>2, <2>4, <2>5
<1>4. CASE Native!SaveFails(c)
  <2> DEFINE failed == s.failed \/ (Native!MayWrite /\ c.epoch = s.epoch)
             t == [s EXCEPT !.calls = rest, !.waiting = FALSE, !.failed = failed]
  <2>1. s' = t
    BY <1>0, <1>4 DEF Native!SaveFails, HistoryStates
  <2>2. failed \in BOOLEAN
    OBVIOUS
  <2> HIDE DEF rest, failed
  <2>3. Answered(t)
    BY <1>0, <1>1, <2>2 DEF HistoryStates
  <2> QED BY <1>6, <2>1, <2>3
<1>5. CASE Native!MigrationArrives(c)
  <2>1. c \in Writes
    BY <1>0, <1>5, HistoryCallTypes DEF Native!MigrationArrives, Carried
  <2> DEFINE t == [s EXCEPT !.calls = rest, !.generation = c.generation]
             u == [t EXCEPT !.legacy = {}, !.last = c.points, !.failed = FALSE]
  <2>2. s' = t \/ s' = u
    BY <1>5 DEF Native!MigrationArrives
  <2>3. c.generation \in Int /\ c.points \in PointSets
    BY <2>1 DEF Writes
  <2> HIDE DEF rest
  <2>4. Answered(t)
    BY <1>0, <1>1, <2>3 DEF HistoryStates
  <2> HIDE DEF t
  <2>5. Answered(u)
    BY <2>3, <2>4 DEF HistoryStates, PointSets
  <2> QED BY <1>6, <2>2, <2>4, <2>5
<1> QED BY <1>2, <1>3, <1>4, <1>5

LEMMA NativeSaving ==
  ASSUME NEW t, NativeGood(t), ~HasClear(t) PROVE NativeGood(Native!Saving(t))
<1> DEFINE r == [op |-> "save", epoch |-> t.epoch, points |-> t.value, generation |-> t.generation]
           u == [t EXCEPT !.calls = @ \cup {r}]
<1>0. t \in HistoryStates
  BY DEF NativeGood
<1>1. r \in HistoryCalls /\ r.op \in Carried /\ r.points = t.value
  BY <1>0 DEF HistoryStates, HistoryCalls, Writes, Carried
<1>2. Native!Saving(t) \in {t, u}
  BY DEF Native!Saving
<1> HIDE DEF r
<1>3. /\ u \in HistoryStates
      /\ u.cleared = t.cleared /\ u.next = t.next /\ u.value = t.value /\ u.file = t.file
      /\ u.legacy = t.legacy /\ u.pending = t.pending /\ u.calls = t.calls \cup {r}
      /\ u.clearing = t.clearing /\ u.waiting = t.waiting
  BY <1>0, <1>1 DEF HistoryStates
<1> HIDE DEF u
<1>4. NativeGood(u)
  BY <1>1, <1>3, FreshFacts, NativeFrame
<1> QED BY <1>2, <1>4

LEMMA NativeWriteSteps ==
  ASSUME NativeGood(s), Native!PersistNow \/ Native!NextWriter PROVE NativeGood(s)'
<1>0. s \in HistoryStates /\ ~HasClear(s)
  <2>1. ~s.clearing
    BY DEF Native!PersistNow, Native!NextWriter, Native!MayWrite, NativeGood, ClearingInv
  <2> QED BY <2>1, NoClear DEF NativeGood
<1>1. ASSUME NEW b \in BOOLEAN, ~s.clearing \/ ~b
      PROVE  /\ NativeGood([s EXCEPT !.waiting = b])
             /\ ~HasClear([s EXCEPT !.waiting = b])
  <2> DEFINE u == [s EXCEPT !.waiting = b]
  <2>1. /\ u \in HistoryStates
        /\ u.cleared = s.cleared /\ u.next = s.next /\ u.value = s.value /\ u.file = s.file
        /\ u.legacy = s.legacy /\ u.pending = s.pending /\ u.calls = s.calls
        /\ u.clearing = s.clearing /\ u.waiting = b
    BY <1>0 DEF HistoryStates
  <2> HIDE DEF u
  <2>2. NativeGood(u)
    BY <1>0, <1>1, <2>1, FreshFacts, NativeFrame
  <2>3. ~HasClear(u)
    BY <1>0, <2>1 DEF HasClear
  <2> QED BY <2>2, <2>3 DEF u
<1>2. CASE Native!PersistNow
  <2>1. ~s.clearing
    BY <1>2 DEF Native!PersistNow, Native!MayWrite
  <2>2. s' = [s EXCEPT !.waiting = TRUE] \/ s' = Native!Saving(Native!Spend)
    BY <1>2 DEF Native!PersistNow
  <2>3. NativeGood(Native!Saving(Native!Spend))
    BY <1>0, NativeSpent, NativeSaving DEF HasClear
  <2> QED BY <1>1, <2>1, <2>2, <2>3
<1>3. CASE Native!NextWriter
  <2> DEFINE t == [s EXCEPT !.waiting = FALSE]
  <2>1. s' = t \/ s' = Native!Saving(t)
    BY <1>3 DEF Native!NextWriter
  <2>2. NativeGood(t) /\ ~HasClear(t)
    BY <1>1
  <2> HIDE DEF t
  <2> QED BY <2>1, <2>2, NativeSaving
<1> QED BY <1>2, <1>3

LEMMA NativeSwitchSteps ==
  ASSUME NativeGood(s), Native!SetEnabled \/ Native!BeginProductDataReset PROVE NativeGood(s)'
<1> DEFINE t == Native!Spend
           u == [t EXCEPT !.reset = TRUE]
           v == [t EXCEPT !.enabled = ~@]
<1>1. NativeGood(t) /\ t \in HistoryStates
  BY NativeSpent
<1>2. s' = u \/ s' = v
  BY DEF Native!SetEnabled, Native!BeginProductDataReset
<1> HIDE DEF t
<1>3. NativeGood(u)
  BY <1>1, NativeSame DEF HistoryStates
<1>4. NativeGood(v)
  BY <1>1, NativeSame DEF HistoryStates
<1> QED BY <1>2, <1>3, <1>4

\* A clear is asked for, goes to the file when everything else has ended, and
\* then takes every point that was ever sampled.
LEMMA NativeClearSteps ==
  ASSUME NativeGood(s),
         \/ Native!Clear \/ Native!ClearStorage
         \/ \E c \in s.calls : Native!ClearArrives(c) \/ (Native!Serve(c) /\ c.op = "clear")
  PROVE  NativeGood(s)'
<1>0. s \in HistoryStates /\ FreshInv(s) /\ ClearingInv(s)
  BY DEF NativeGood
<1>1. CASE Native!Clear
  <2> DEFINE t == Native!Spend
             epoch == t.epoch + 1
             u == [t EXCEPT !.clearing = TRUE, !.blocked = TRUE, !.epoch = epoch, !.pending = {},
                            !.waiting = FALSE]
  <2>1. s' = u /\ ~s.clearing
    BY <1>1, NativeSpent DEF Native!Clear, HistoryStates
  <2>2. NativeGood(t) /\ t \in HistoryStates /\ epoch \in Nat /\ ~HasClear(t)
    BY <2>1, NativeSpent, NoClear DEF HistoryStates
  <2> HIDE DEF t, epoch
  <2>3. /\ u \in HistoryStates
        /\ u.cleared = t.cleared /\ u.next = t.next /\ u.value = t.value /\ u.file = t.file
        /\ u.legacy = t.legacy /\ u.pending = {} /\ u.calls = t.calls /\ u.clearing /\ ~u.waiting
    BY <2>2 DEF HistoryStates, PointSets
  <2> HIDE DEF u
  <2>4. NativeGood(u)
    BY <2>2, <2>3, FreshFacts, NativeFrame
  <2> QED BY <2>1, <2>4
<1>2. CASE Native!ClearStorage
  <2> DEFINE r == [op |-> "clear"]
             calls == s.calls \cup {r}
             u == [s EXCEPT !.legacy = {}, !.calls = calls]
  <2>1. s.calls = {}
    <3>1. ASSUME NEW c \in s.calls PROVE FALSE
      BY <1>0, <1>2, HistoryCallTypes DEF Native!ClearStorage, Native!Settled, Native!SlotTaken,
         Native!InFlight, Carried, Asked, Clears
    <3> QED BY <3>1
  <2>2. s' = u /\ s.clearing
    BY <1>0, <1>2 DEF Native!ClearStorage, HistoryStates
  <2>3. r \in HistoryCalls /\ r.op = "clear" /\ calls = {r}
    BY <2>1 DEF HistoryCalls, ClearRequests, Clears
  <2> HIDE DEF r, calls
  <2>4. /\ u \in HistoryStates
        /\ u.cleared = s.cleared /\ u.next = s.next /\ u.value = s.value /\ u.file = s.file
        /\ u.legacy = {} /\ u.pending = s.pending /\ u.calls = {r} /\ u.clearing
        /\ u.waiting = s.waiting
    BY <1>0, <2>2, <2>3 DEF HistoryStates, PointSets
  <2> HIDE DEF u
  <2>5. FreshInv(u)
    BY <1>0, <2>3, <2>4 DEF FreshInv, Fresh, Carried
  <2>6. ClearingInv(u)
    BY <1>0, <2>2, <2>3, <2>4 DEF ClearingInv
  <2> QED BY <2>2, <2>4, <2>5, <2>6 DEF NativeGood
<1>3. ASSUME NEW c \in s.calls, c.op \in {"clear", "clear_failed", "cleared"}
      PROVE  s.clearing /\ s.legacy = {} /\ s.pending = {} /\ ~s.waiting /\ Native!Without(c) = {}
             /\ (c.op = "cleared" => s.file \ {0} = {})
  BY <1>0, <1>3 DEF ClearingInv, Native!Without
<1>4. ASSUME NEW c \in s.calls, Native!ClearArrives(c) PROVE NativeGood(s)'
  <2>1. c.op \in {"clear_failed", "cleared"}
    BY <1>4 DEF Native!ClearArrives
  <2>2. CASE c.op = "cleared"
    <3> DEFINE all == 1 .. s.next - 1
               u == [s EXCEPT !.calls = {}, !.generation = c.generation, !.value = {}, !.last = {},
                              !.hydrated = TRUE, !.failed = FALSE, !.blocked = FALSE,
                              !.clearing = FALSE, !.cleared = all]
    <3>1. s' = u
      BY <1>3, <1>4, <2>2 DEF Native!ClearArrives
    <3>2. c.generation \in Int /\ s.next \in Nat /\ all \in PointSets
          /\ \A p \in all : 0 < p /\ p < s.next
      BY <1>0, <2>2, HistoryCallTypes DEF Cleareds, HistoryStates, PointSets
    <3> HIDE DEF all
    <3>3. /\ u \in HistoryStates
          /\ u.cleared = all /\ u.next = s.next /\ u.value = {} /\ u.file = s.file
          /\ u.legacy = s.legacy /\ u.pending = s.pending /\ u.calls = {} /\ ~u.clearing
      BY <1>0, <3>2 DEF HistoryStates, PointSets
    <3> HIDE DEF u
    <3>4. FreshInv(u)
      BY <1>0, <1>3, <2>2, <3>2, <3>3 DEF FreshInv, Fresh
    <3>5. ClearingInv(u)
      BY <3>3 DEF ClearingInv
    <3> QED BY <3>1, <3>3, <3>4, <3>5 DEF NativeGood
  <2>3. CASE c.op = "clear_failed"
    <3> DEFINE u == [s EXCEPT !.calls = {}, !.failed = TRUE, !.clearing = FALSE]
    <3>1. s' = u
      BY <1>3, <1>4, <2>3 DEF Native!ClearArrives
    <3>2. /\ u \in HistoryStates
          /\ u.cleared = s.cleared /\ u.next = s.next /\ u.value = s.value /\ u.file = s.file
          /\ u.legacy = s.legacy /\ u.pending = s.pending /\ u.calls = {} /\ ~u.clearing
      BY <1>0 DEF HistoryStates
    <3> HIDE DEF u
    <3>3. FreshInv(u)
      BY <1>0, <3>2 DEF FreshInv, Fresh
    <3>4. ClearingInv(u)
      BY <3>2 DEF ClearingInv
    <3> QED BY <3>1, <3>2, <3>3, <3>4 DEF NativeGood
  <2> QED BY <2>1, <2>2, <2>3
<1>5. ASSUME NEW c \in s.calls, Native!Serve(c), c.op = "clear" PROVE NativeGood(s)'
  <2> DEFINE written == s.written + 1
             t == [s EXCEPT !.written = written]
             f == [op |-> "clear_failed"]
             r == [op |-> "cleared", generation |-> t.written]
             u == [t EXCEPT !.calls = {f}]
             v == [t EXCEPT !.file = Native!NoFile, !.calls = {r}]
  <2>1. s' = u \/ s' = v
    <3>1. Native!Without(c) \cup {f} = {f} /\ Native!Without(c) \cup {r} = {r}
      BY <1>3, <1>5
    <3>2. t = [s EXCEPT !.written = @ + 1]
      BY <1>0 DEF HistoryStates
    <3>3. s' \in {[t EXCEPT !.calls = Native!Without(c) \cup {f}],
                  [t EXCEPT !.file = Native!NoFile, !.calls = Native!Without(c) \cup {r}]}
      <4> HIDE DEF t
      <4> QED BY <1>5, <3>2 DEF Native!Serve
    <3> QED BY <3>1, <3>3
  <2>2. t \in HistoryStates /\ t.written \in Nat
        /\ t.cleared = s.cleared /\ t.next = s.next /\ t.value = s.value /\ t.file = s.file
        /\ t.legacy = s.legacy /\ t.pending = s.pending /\ t.clearing = s.clearing
        /\ t.waiting = s.waiting
    BY <1>0 DEF HistoryStates
  <2> HIDE DEF t
  <2>3. f \in HistoryCalls /\ f.op = "clear_failed" /\ r \in HistoryCalls /\ r.op = "cleared"
        /\ Native!NoFile \in PointSets /\ Native!NoFile \ {0} = {}
    BY <2>2 DEF HistoryCalls, ClearRequests, Cleareds, Clears, Native!NoFile, PointSets
  <2> HIDE DEF f, r
  <2>4. /\ u \in HistoryStates /\ u.cleared = s.cleared /\ u.next = s.next /\ u.value = s.value
        /\ u.file = s.file /\ u.legacy = s.legacy /\ u.pending = s.pending /\ u.calls = {f}
        /\ u.clearing = s.clearing /\ u.waiting = s.waiting
    BY <2>2, <2>3 DEF HistoryStates
  <2>5. /\ v \in HistoryStates /\ v.cleared = s.cleared /\ v.next = s.next /\ v.value = s.value
        /\ v.file = Native!NoFile /\ v.legacy = s.legacy /\ v.pending = s.pending
        /\ v.calls = {r} /\ v.clearing = s.clearing /\ v.waiting = s.waiting
    BY <2>2, <2>3 DEF HistoryStates
  <2> HIDE DEF u, v
  <2>6. FreshInv(u) /\ FreshInv(v)
    BY <1>0, <2>3, <2>4, <2>5 DEF FreshInv, Fresh, Carried
  <2>7. ClearingInv(u) /\ ClearingInv(v)
    BY <1>3, <1>5, <2>3, <2>4, <2>5 DEF ClearingInv
  <2> QED BY <2>1, <2>4, <2>5, <2>6, <2>7 DEF NativeGood
<1> QED BY <1>1, <1>2, <1>4, <1>5

LEMMA NativeStarts == ASSUME Native!Init PROVE NativeGood(s)
<1>1. PICK file \in {Native!NoFile, {2}}, legacy \in {{}, Native!Old} :
        s = [value |-> legacy, hydrated |-> FALSE, pending |-> {}, last |-> Native!NoFile,
             generation |-> Native!Unknown, epoch |-> 0, clearing |-> FALSE, blocked |-> FALSE,
             waiting |-> FALSE, enabled |-> TRUE, reset |-> FALSE, failed |-> FALSE,
             legacy |-> legacy, file |-> file, written |-> 0, next |-> 3, cleared |-> {},
             acts |-> NativeActs, calls |-> {[op |-> "load", epoch |-> 0]}]
  BY DEF Native!Init
<1>2. /\ file \in PointSets /\ legacy \in PointSets /\ {} \in PointSets
      /\ Native!NoFile \in PointSets /\ Native!Unknown \in Int
      /\ [op |-> "load", epoch |-> 0] \in HistoryCalls
      /\ \A p \in legacy : p < 3
      /\ \A p \in file : p < 3
  BY DEF Native!NoFile, Native!Old, Native!Unknown, PointSets, HistoryCalls, LoadsOfHistory, Asked
<1>3. s \in HistoryStates
  BY <1>1, <1>2, ActsAssumption DEF HistoryStates
<1>4. FreshInv(s)
  BY <1>1, <1>2 DEF FreshInv, Fresh, Carried
<1>5. ClearingInv(s)
  BY <1>1 DEF ClearingInv
<1> QED BY <1>3, <1>4, <1>5 DEF NativeGood

LEMMA NativeSteps == ASSUME NativeGood(s), Native!Next PROVE NativeGood(s)'
<1>1. ASSUME NEW op, Native!AnswerOf(op) PROVE NativeGood(s)'
  BY <1>1, NativeServed, NativeHydrated, NativeAnswered, NativeClearSteps DEF Native!AnswerOf
<1> QED BY <1>1, NativeUpdate, NativeWriteSteps, NativeSwitchSteps, NativeClearSteps DEF Native!Next

LEMMA NativeHolds == ASSUME NativeGood(s) PROVE Native!ClearedIsGone
BY DEF NativeGood, FreshInv, Fresh, Native!ClearedIsGone, Native!Points
-------------------------------------------------------------------------------
(* The scan of the cleanup page.                                             *)

DiskScans == [id : Int, partial : BOOLEAN]
ScanPhases == {"none", "scanning", "cancelling", "completed", "failed", "cancelled"}
ScanJobs == [id : Int, phase : ScanPhases]
ScanStatuses == {"current", "updating"}
Following == {"start", "mounted", "poll", "status", "preview", "result"}

ScanCalls ==
       [op : {"initial"}, seen : Int]
  \cup [op : {"start", "mounted"}, tracker : Int]
  \cup [op : {"poll", "preview", "result"}, tracker : Int, job : Int]
  \cup [op : {"status"}, tracker : Int, job : Int, seen : ScanJobs]
  \cup [op : {"reload"}, tracker : Int, seen : Int]
  \cup [op : {"clear", "clearing"}]
  \cup [op : {"refresh", "refreshPoll"}, tracker : Int, scan : Int]
  \cup [op : {"refreshResult"}, tracker : Int, scan : Int, found : BOOLEAN]
  \cup [op : {"deletion"}, scan : Int, found : BOOLEAN]

ScanStates ==
  [snapshot : DiskScans, status : ScanStatuses, preStatus : ScanStatuses, previous : DiskScans, loading : BOOLEAN,
   cancelling : BOOLEAN, activeJob : Int, tracker : Int, touched : BOOLEAN, checking : BOOLEAN,
   guide : BOOLEAN, refreshTracker : Int, refreshing : BOOLEAN, refreshJob : ScanPhases,
   job : ScanJobs, stored : Int, begun : Int, calls : SUBSET ScanCalls]

\* One loop at most follows the newest scan, and none a later one.
OneLoop(calls, tracker) ==
  /\ \A c \in calls : c.op \in Following => c.tracker <= tracker
  /\ \A c, d \in calls :
       (c.op \in Following /\ d.op \in Following /\ c.tracker = tracker /\ d.tracker = tracker)
         => c = d

ScanGood(t) == t \in ScanStates /\ ~t.previous.partial /\ OneLoop(t.calls, t.tracker)

LEMMA ScanCallTypes ==
  ASSUME NEW c \in ScanCalls
  PROVE  /\ c.op \in Following => c.tracker \in Int
         /\ c.op \in {"poll", "status", "preview", "result"} => c.job \in Int
         /\ c.op = "preview" => [c EXCEPT !.op = "poll"] \in ScanCalls
                                /\ [c EXCEPT !.op = "poll"].op = "poll"
                                /\ [c EXCEPT !.op = "poll"].tracker = c.tracker
         /\ c.op = "refresh" => [c EXCEPT !.op = "refreshPoll"] \in ScanCalls
                                /\ [c EXCEPT !.op = "refreshPoll"].op = "refreshPoll"
         /\ c.op \in {"refresh", "refreshPoll", "refreshResult"} => c.tracker \in Int
         /\ c.op \in {"refresh", "refreshPoll", "refreshResult", "deletion"} => c.scan \in Int
         /\ c.op \in {"reload", "initial"} => c.seen \in Int
         /\ c.op = "status" => c.seen \in ScanJobs
<1>1. CASE c \in [op : {"initial"}, seen : Int]
  BY <1>1 DEF Following
<1>2. CASE c \in [op : {"start", "mounted"}, tracker : Int]
  BY <1>2 DEF Following
<1>3. CASE c \in [op : {"poll", "preview", "result"}, tracker : Int, job : Int]
  <2>1. [c EXCEPT !.op = "poll"] \in [op : {"poll", "preview", "result"}, tracker : Int, job : Int]
    BY <1>3
  <2>2. [c EXCEPT !.op = "poll"] \in ScanCalls
    BY <2>1 DEF ScanCalls
  <2> QED BY <1>3, <2>2 DEF Following
<1>4. CASE c \in [op : {"status"}, tracker : Int, job : Int, seen : ScanJobs]
  BY <1>4 DEF Following
<1>5. CASE c \in [op : {"reload"}, tracker : Int, seen : Int]
  BY <1>5 DEF Following
<1>6. CASE c \in [op : {"clear", "clearing"}]
  BY <1>6 DEF Following
<1>7. CASE c \in [op : {"refresh", "refreshPoll"}, tracker : Int, scan : Int]
  <2>1. [c EXCEPT !.op = "refreshPoll"]
          \in [op : {"refresh", "refreshPoll"}, tracker : Int, scan : Int]
    BY <1>7
  <2>2. [c EXCEPT !.op = "refreshPoll"] \in ScanCalls
    BY <2>1 DEF ScanCalls
  <2> QED BY <1>7, <2>2 DEF Following
<1>8. CASE c \in [op : {"refreshResult"}, tracker : Int, scan : Int, found : BOOLEAN]
  BY <1>8 DEF Following
<1>9. CASE c \in [op : {"deletion"}, scan : Int, found : BOOLEAN]
  BY <1>9 DEF Following
<1> QED BY <1>1, <1>2, <1>3, <1>4, <1>5, <1>6, <1>7, <1>8, <1>9 DEF ScanCalls

\* An answer ends a loop, or hands it on; what is not a loop may come and go.
LEMMA LoopFewer ==
  ASSUME NEW calls, NEW n, OneLoop(calls, n), NEW less \in SUBSET calls
  PROVE  OneLoop(less, n)
BY DEF OneLoop

LEMMA LoopOther ==
  ASSUME NEW calls, NEW n, OneLoop(calls, n), NEW d, d.op \notin Following
  PROVE  OneLoop(calls \cup {d}, n)
BY DEF OneLoop

LEMMA LoopHanded ==
  ASSUME NEW calls, NEW n \in Int, OneLoop(calls, n), NEW c \in calls, c.op \in Following,
         c.tracker = n, NEW d, d.op \in Following, d.tracker = n
  PROVE  OneLoop((calls \ {c}) \cup {d}, n)
BY DEF OneLoop

LEMMA LoopLater ==
  ASSUME NEW calls \in SUBSET ScanCalls, NEW n \in Int, OneLoop(calls, n)
  PROVE  /\ OneLoop(calls, n + 1)
         /\ \A d : d.tracker = n + 1 => OneLoop(calls \cup {d}, n + 1)
<1>1. \A c \in calls : c.op \in Following => c.tracker \in Int /\ c.tracker <= n
  BY ScanCallTypes DEF OneLoop
<1>2. \A c \in calls : c.op \in Following => c.tracker \in Int /\ c.tracker < n + 1
  BY <1>1
<1>3. \A c \in calls : c.op \in Following => c.tracker <= n + 1 /\ c.tracker # n + 1
  BY <1>2
<1>4. n + 1 <= n + 1
  OBVIOUS
<1> HIDE DEF ScanCalls
<1> QED BY <1>3, <1>4 DEF OneLoop

LEMMA ScanFrame ==
  ASSUME NEW t, ScanGood(t), NEW u \in ScanStates, u.tracker = t.tracker, ~u.previous.partial,
         OneLoop(u.calls, t.tracker)
  PROVE  ScanGood(u)
BY DEF ScanGood

LEMMA ScanNumbers ==
  /\ Scan!None \in DiskScans /\ ~Scan!None.partial
  /\ \A n \in Int : /\ Scan!Complete(n) \in DiskScans /\ ~Scan!Complete(n).partial
                    /\ Scan!Preview(n) \in DiskScans
  /\ Scan!NoJob \in ScanJobs
<1>1. Scan!None \in DiskScans /\ ~Scan!None.partial
  BY DEF Scan!None, DiskScans
<1>2. ASSUME NEW n \in Int
      PROVE  /\ Scan!Complete(n) \in DiskScans /\ ~Scan!Complete(n).partial
             /\ Scan!Preview(n) \in DiskScans
  BY DEF Scan!Complete, Scan!Preview, DiskScans
<1>3. Scan!NoJob \in ScanJobs
  BY DEF Scan!NoJob, ScanJobs, ScanPhases
<1> QED BY <1>1, <1>2, <1>3

LEMMA ScanRestored == ASSUME NEW t, ScanGood(t) PROVE ScanGood(Scan!Restored(t))
<1> DEFINE shown == IF t.previous # Scan!None THEN t.previous ELSE t.snapshot
           status == t.preStatus
           zero == 0
           u == [t EXCEPT !.activeJob = zero, !.loading = FALSE, !.cancelling = FALSE,
                          !.status = status, !.snapshot = shown]
<1>1. t \in ScanStates /\ ~t.previous.partial /\ OneLoop(t.calls, t.tracker)
  BY DEF ScanGood
<1>2. shown \in DiskScans /\ status \in ScanStatuses /\ zero \in Int
  BY <1>1 DEF ScanStates
<1>3. Scan!Restored(t) = u
  BY <1>1 DEF Scan!Restored, ScanStates
<1> HIDE DEF shown, status, zero
<1>4. u \in ScanStates /\ u.calls = t.calls /\ u.tracker = t.tracker /\ u.previous = t.previous
  BY <1>1, <1>2 DEF ScanStates
<1> QED BY <1>1, <1>3, <1>4 DEF ScanGood

LEMMA ScanForgotten == ASSUME NEW t, ScanGood(t) PROVE ScanGood(Scan!Forgotten(t))
<1> DEFINE calls == t.calls \cup {[op |-> "clear"]}
           r == t.refreshTracker + 1
           zero == 0
           u == [t EXCEPT !.activeJob = zero, !.snapshot = Scan!None, !.previous = Scan!None,
                          !.status = "current", !.loading = FALSE, !.cancelling = FALSE,
                          !.refreshTracker = r, !.refreshing = FALSE,
                          !.calls = calls]
<1>1. t \in ScanStates /\ OneLoop(t.calls, t.tracker) /\ t.calls \in SUBSET ScanCalls
  BY DEF ScanGood, ScanStates
<1>2. [op |-> "clear"] \in ScanCalls /\ [op |-> "clear"].op \notin Following
  BY DEF ScanCalls, Following
<1>3. OneLoop(calls, t.tracker)
  BY <1>1, <1>2, LoopOther
<1>4. calls \in SUBSET ScanCalls /\ r \in Int /\ zero \in Int
  BY <1>1, <1>2 DEF ScanStates
<1>5. Scan!Forgotten(t) = u
  BY <1>1 DEF Scan!Forgotten, ScanStates
<1> HIDE DEF calls, r, zero
<1>6. u \in ScanStates /\ u.calls = calls /\ u.tracker = t.tracker /\ u.previous = Scan!None
  BY <1>1, <1>4, ScanNumbers DEF ScanStates, ScanStatuses
<1> QED BY <1>3, <1>5, <1>6, ScanNumbers DEF ScanGood

LEMMA ScanBegun == ASSUME NEW t, ScanGood(t) PROVE ScanGood(Scan!ScanFrom(t))
<1> DEFINE n == t.tracker + 1
           d == [op |-> "start", tracker |-> n]
           calls == t.calls \cup {d}
           kept == IF t.snapshot # Scan!None /\ ~t.snapshot.partial THEN t.snapshot ELSE t.previous
           pre == t.status
           status == IF t.snapshot # Scan!None THEN "updating" ELSE t.status
           u == [t EXCEPT !.tracker = n, !.touched = TRUE, !.previous = kept,
                          !.preStatus = pre, !.status = status,
                          !.loading = TRUE, !.cancelling = FALSE, !.calls = calls]
<1>1. /\ t \in ScanStates /\ OneLoop(t.calls, t.tracker) /\ ~t.previous.partial
      /\ t.calls \in SUBSET ScanCalls /\ t.tracker \in Int
  BY DEF ScanGood, ScanStates
<1>2. d \in ScanCalls /\ d.tracker = n /\ n \in Int
  BY <1>1 DEF ScanCalls
<1>3. OneLoop(calls, n)
  BY <1>1, <1>2, LoopLater
<1>4. calls \in SUBSET ScanCalls
  BY <1>1, <1>2
<1>5. t.snapshot \in DiskScans /\ t.previous \in DiskScans /\ t.status \in ScanStatuses /\ pre \in ScanStatuses
  BY <1>1 DEF ScanStates
<1>8. kept \in DiskScans /\ ~kept.partial /\ status \in ScanStatuses
  BY <1>1, <1>5 DEF ScanStatuses
<1>6. Scan!ScanFrom(t) = u
  BY <1>1 DEF Scan!ScanFrom, ScanStates
<1> HIDE DEF calls, kept, status, pre, n
<1>7. u \in ScanStates /\ u.calls = calls /\ u.tracker = n /\ u.previous = kept
  BY <1>1, <1>2, <1>4, <1>5, <1>8 DEF ScanStates
<1> QED BY <1>3, <1>8, <1>6, <1>7 DEF ScanGood

\* A state that differs in what the loops do not use.
LEMMA ScanOther ==
  ASSUME NEW t, ScanGood(t), NEW u \in ScanStates, u.calls = t.calls, u.tracker = t.tracker,
         u.previous = t.previous
  PROVE  ScanGood(u)
BY DEF ScanGood

\* A call is answered.
LEMMA ScanEnded ==
  ASSUME NEW t, ScanGood(t), NEW c, NEW u, u = [t EXCEPT !.calls = t.calls \ {c}]
  PROVE  /\ ScanGood(u) /\ u \in ScanStates /\ t \in ScanStates
         /\ u.calls = t.calls \ {c} /\ u.tracker = t.tracker /\ u.previous = t.previous
         /\ u.snapshot = t.snapshot /\ u.job = t.job /\ u.stored = t.stored /\ ~t.previous.partial
<1> DEFINE calls == t.calls \ {c}
<1>1. t \in ScanStates /\ OneLoop(t.calls, t.tracker) /\ ~t.previous.partial
      /\ t.calls \in SUBSET ScanCalls
  BY DEF ScanGood, ScanStates
<1>2. OneLoop(calls, t.tracker) /\ calls \in SUBSET ScanCalls
  BY <1>1, LoopFewer
<1> HIDE DEF calls
<1>3. u = [t EXCEPT !.calls = calls]
  BY DEF calls
<1>4. /\ u \in ScanStates /\ u.calls = calls /\ u.tracker = t.tracker /\ u.previous = t.previous
      /\ u.snapshot = t.snapshot /\ u.job = t.job /\ u.stored = t.stored
  BY <1>1, <1>2, <1>3 DEF ScanStates
<1> QED BY <1>1, <1>2, <1>4 DEF calls, ScanGood

\* A call is made that is no loop.
LEMMA ScanAdded ==
  ASSUME NEW t, ScanGood(t), NEW d \in ScanCalls, d.op \notin Following,
         NEW u, u = [t EXCEPT !.calls = t.calls \cup {d}]
  PROVE  ScanGood(u)
<1> DEFINE calls == t.calls \cup {d}
<1>1. t \in ScanStates /\ OneLoop(t.calls, t.tracker) /\ ~t.previous.partial
      /\ t.calls \in SUBSET ScanCalls
  BY DEF ScanGood, ScanStates
<1>2. OneLoop(calls, t.tracker) /\ calls \in SUBSET ScanCalls
  BY <1>1, LoopOther
<1> HIDE DEF calls
<1>3. u = [t EXCEPT !.calls = calls]
  BY DEF calls
<1>4. u \in ScanStates /\ u.calls = calls /\ u.tracker = t.tracker /\ u.previous = t.previous
  BY <1>1, <1>2, <1>3 DEF ScanStates
<1> QED BY <1>1, <1>2, <1>4 DEF ScanGood

\* The newest loop is handed on to its next call.
LEMMA ScanHanded ==
  ASSUME NEW t, ScanGood(t), NEW c \in t.calls, c.op \in Following, c.tracker = t.tracker,
         NEW d \in ScanCalls, d.op \in Following, d.tracker = t.tracker,
         NEW u, u = [t EXCEPT !.calls = (t.calls \ {c}) \cup {d}]
  PROVE  ScanGood(u) /\ u \in ScanStates
<1> DEFINE calls == (t.calls \ {c}) \cup {d}
<1>1. /\ t \in ScanStates /\ OneLoop(t.calls, t.tracker) /\ ~t.previous.partial
      /\ t.calls \in SUBSET ScanCalls /\ t.tracker \in Int
  BY DEF ScanGood, ScanStates
<1>2. OneLoop(calls, t.tracker)
  BY <1>1, LoopHanded
<1>3. calls \in SUBSET ScanCalls
  BY <1>1
<1> HIDE DEF calls
<1>4. u = [t EXCEPT !.calls = calls]
  BY DEF calls
<1>5. u \in ScanStates /\ u.calls = calls /\ u.tracker = t.tracker /\ u.previous = t.previous
  BY <1>1, <1>3, <1>4 DEF ScanStates
<1> QED BY <1>1, <1>2, <1>5 DEF ScanGood

LEMMA ScanFacts ==
  ASSUME NEW t, ScanGood(t)
  PROVE  /\ t \in ScanStates /\ t.calls \in SUBSET ScanCalls /\ t.tracker \in Int
         /\ t.snapshot \in DiskScans /\ t.snapshot.id \in Int /\ t.job \in ScanJobs /\ t.job.id \in Int
         /\ t.stored \in Int /\ t.refreshTracker \in Int /\ t.begun \in Int
         /\ t.previous \in DiskScans /\ ~t.previous.partial
         /\ OneLoop(t.calls, t.tracker)
BY DEF ScanGood, ScanStates, DiskScans, ScanJobs

\* The stored scan is read.
LEMMA ScanReadStep ==
  ASSUME ScanGood(s), NEW c \in s.calls, Scan!InitialRead(c) \/ Scan!Reloaded(c)
  PROVE  ScanGood(s)'
<1> DEFINE calls == s.calls \ {c}
<1>0. s \in ScanStates /\ c \in ScanCalls /\ s.stored \in Int
  BY ScanFacts
<1>1. OneLoop(calls, s.tracker) /\ calls \in SUBSET ScanCalls
  BY ScanFacts, LoopFewer
<1>2. CASE Scan!InitialRead(c)
  <2>1. PICK n \in {c.seen, s.stored} :
          s' = [s EXCEPT !.calls = calls,
                         !.previous = IF n # 0 THEN Scan!Complete(n) ELSE s.previous,
                         !.snapshot = IF n # 0 /\ ~s.touched THEN Scan!Complete(n) ELSE s.snapshot,
                         !.status = IF n # 0 /\ ~s.touched THEN "current" ELSE s.status]
    BY <1>2, ScanFacts DEF Scan!InitialRead, Scan!Without, ScanStates
  <2>2. n \in Int
    <3>1. c.seen \in Int
      BY <1>0, <1>2, ScanCallTypes DEF Scan!InitialRead
    <3> QED BY <1>0, <2>1, <3>1
  <2> DEFINE previous == IF n # 0 THEN Scan!Complete(n) ELSE s.previous
             snapshot == IF n # 0 /\ ~s.touched THEN Scan!Complete(n) ELSE s.snapshot
             status == IF n # 0 /\ ~s.touched THEN "current" ELSE s.status
  <2>3. /\ previous \in DiskScans /\ ~previous.partial /\ snapshot \in DiskScans
    BY <2>2, ScanFacts, ScanNumbers
  <2>4. status \in ScanStatuses
    BY ScanFacts DEF ScanStates, ScanStatuses
  <2>5. s' = [s EXCEPT !.calls = calls, !.previous = previous, !.snapshot = snapshot,
                       !.status = status]
    BY <2>1
  <2> HIDE DEF calls, previous, snapshot, status
  <2>6. s' \in ScanStates /\ s'.calls = calls /\ s'.tracker = s.tracker /\ s'.previous = previous
    BY <1>0, <1>1, <2>3, <2>4, <2>5 DEF ScanStates
  <2> QED BY <1>1, <2>3, <2>6 DEF ScanGood
<1>3. CASE Scan!Reloaded(c)
  <2>1. PICK n \in {c.seen, s.stored} :
          s' = IF c.tracker # s.tracker
               THEN [s EXCEPT !.calls = calls]
               ELSE [s EXCEPT !.calls = calls, !.touched = TRUE,
                              !.snapshot = Scan!Complete(n), !.previous = Scan!Complete(n),
                              !.status = "current"]
    BY <1>3 DEF Scan!Reloaded, Scan!Without
  <2>2. n \in Int
    <3>1. c.seen \in Int
      BY <1>0, <1>3, ScanCallTypes DEF Scan!Reloaded
    <3> QED BY <1>0, <2>1, <3>1
  <2> DEFINE shown == Scan!Complete(n)
  <2>3. shown \in DiskScans /\ ~shown.partial
    BY <2>2, ScanNumbers
  <2>4. CASE s' = [s EXCEPT !.calls = calls]
    BY <2>4, ScanEnded
  <2>5. CASE s' = [s EXCEPT !.calls = calls, !.touched = TRUE, !.snapshot = shown,
                            !.previous = shown, !.status = "current"]
    <3> HIDE DEF calls, shown
    <3>1. s' \in ScanStates /\ s'.calls = calls /\ s'.tracker = s.tracker /\ s'.previous = shown
      BY <1>0, <1>1, <2>3, <2>5 DEF ScanStates, ScanStatuses
    <3> QED BY <1>1, <2>3, <3>1 DEF ScanGood
  <2> QED BY <2>1, <2>4, <2>5
<1> QED BY <1>2, <1>3

LEMMA ScanReloadStep == ASSUME ScanGood(s), Scan!ReloadLatest PROVE ScanGood(s)'
<1> DEFINE d == [op |-> "reload", tracker |-> s.tracker, seen |-> s.stored]
<1>1. d \in ScanCalls /\ d.op \notin Following
  BY ScanFacts DEF ScanCalls, Following
<1>2. s' = [s EXCEPT !.calls = s.calls \cup {d}]
  BY DEF Scan!ReloadLatest
<1> HIDE DEF d
<1> QED BY <1>1, <1>2, ScanAdded

\* A scan is asked for.
LEMMA ScanStartSteps ==
  ASSUME ScanGood(s),
         \/ Scan!ScanTarget \/ Scan!CheckAccess \/ Scan!AccessChecked
         \/ Scan!ScanAccessible \/ Scan!CloseGuide
  PROVE  ScanGood(s)'
<1>0. s \in ScanStates
  BY ScanFacts
<1>1. CASE Scan!ScanTarget
  <2> DEFINE n == s.begun + 1
             t == [s EXCEPT !.begun = n]
  <2>1. n \in Int
    BY ScanFacts
  <2>2. s' = Scan!ScanFrom(t)
    BY <1>1, ScanFacts DEF Scan!ScanTarget, ScanStates
  <2> HIDE DEF n
  <2>3. t \in ScanStates /\ t.calls = s.calls /\ t.tracker = s.tracker /\ t.previous = s.previous
    BY <1>0, <2>1 DEF ScanStates
  <2>4. ScanGood(t)
    BY <2>3, ScanOther
  <2> HIDE DEF t
  <2> QED BY <2>2, <2>4, ScanBegun
<1>2. CASE Scan!CheckAccess
  <2> DEFINE n == s.begun + 1
             t == [s EXCEPT !.checking = TRUE, !.begun = n]
  <2>1. n \in Int
    BY ScanFacts
  <2>2. s' = t
    BY <1>2, ScanFacts DEF Scan!CheckAccess, ScanStates
  <2> HIDE DEF n
  <2>3. t \in ScanStates /\ t.calls = s.calls /\ t.tracker = s.tracker /\ t.previous = s.previous
    BY <1>0, <2>1 DEF ScanStates
  <2> QED BY <2>2, <2>3, ScanOther
<1>3. CASE Scan!AccessChecked
  <2> DEFINE t == [s EXCEPT !.checking = FALSE, !.guide = FALSE]
             u == [s EXCEPT !.checking = FALSE, !.guide = TRUE]
  <2>1. /\ t \in ScanStates /\ t.calls = s.calls /\ t.tracker = s.tracker /\ t.previous = s.previous
        /\ u \in ScanStates /\ u.calls = s.calls /\ u.tracker = s.tracker /\ u.previous = s.previous
    BY <1>0 DEF ScanStates
  <2>2. s' = Scan!ScanFrom(t) \/ s' = u
    BY <1>3 DEF Scan!AccessChecked
  <2> HIDE DEF t, u
  <2>3. ScanGood(t) /\ ScanGood(u)
    BY <2>1, ScanOther
  <2> QED BY <2>2, <2>3, ScanBegun
<1>4. CASE Scan!ScanAccessible \/ Scan!CloseGuide
  <2> DEFINE t == [s EXCEPT !.guide = FALSE]
  <2>1. t \in ScanStates /\ t.calls = s.calls /\ t.tracker = s.tracker /\ t.previous = s.previous
    BY <1>0 DEF ScanStates
  <2>2. s' = Scan!ScanFrom(t) \/ s' = t
    BY <1>4 DEF Scan!ScanAccessible, Scan!CloseGuide
  <2> HIDE DEF t
  <2>3. ScanGood(t)
    BY <2>1, ScanOther
  <2> QED BY <2>2, <2>3, ScanBegun
<1> QED BY <1>1, <1>2, <1>3, <1>4

\* The loop of the newest scan is handed on in a state that has been changed in
\* what the loops do not use.
LEMMA ScanFollowed ==
  ASSUME NEW t, ScanGood(t), NEW c \in t.calls, c.op \in Following, c.tracker = t.tracker,
         NEW job \in Int, NEW u, u = [t EXCEPT !.calls = t.calls \ {c}]
  PROVE  ScanGood(Scan!Followed(u, c.tracker, job))
<1> DEFINE d == [op |-> "poll", tracker |-> c.tracker, job |-> job]
           v == [t EXCEPT !.calls = (t.calls \ {c}) \cup {d}]
           w == [v EXCEPT !.activeJob = job, !.loading = TRUE]
<1>1. t \in ScanStates /\ t.tracker \in Int
  BY ScanFacts
<1>2. d \in ScanCalls /\ d.op \in Following /\ d.tracker = t.tracker
  BY <1>1 DEF ScanCalls, Following
<1>3. Scan!Followed(u, c.tracker, job) = w
  BY <1>1 DEF Scan!Followed, ScanStates
<1> HIDE DEF d, v
<1>4. ScanGood(v) /\ v \in ScanStates
  BY <1>2, ScanHanded DEF v
<1>5. w \in ScanStates /\ w.calls = v.calls /\ w.tracker = v.tracker /\ w.previous = v.previous
  BY <1>4 DEF ScanStates
<1> HIDE DEF w
<1> QED BY <1>3, <1>4, <1>5, ScanOther

LEMMA ScanStartedStep ==
  ASSUME ScanGood(s), NEW c \in s.calls, Scan!Started(c)
  PROVE  ScanGood(s)'
<1>0. s \in ScanStates /\ c \in ScanCalls /\ c.op \in Following /\ c.tracker \in Int
  BY ScanFacts, ScanCallTypes DEF Scan!Started, Following
<1> DEFINE calls == s.calls \ {c}
           job == [id |-> c.tracker, phase |-> "scanning"]
           t == [s EXCEPT !.job = job]
           begun == [t EXCEPT !.calls = t.calls \ {c}]
           refused == [s EXCEPT !.calls = s.calls \ {c}]
           status == s.preStatus
           back == [refused EXCEPT !.loading = FALSE, !.cancelling = FALSE, !.status = status]
<1>1. \/ s' = IF c.tracker = s.tracker THEN Scan!Followed(begun, c.tracker, c.tracker) ELSE begun
      \/ s' = IF c.tracker = s.tracker THEN back ELSE refused
  <2>1. begun = [s EXCEPT !.calls = s.calls \ {c}, !.job = job]
    BY <1>0 DEF ScanStates
  <2> HIDE DEF begun, refused
  <2> QED BY <2>1 DEF Scan!Started, Scan!Without, refused
<1>2. job \in ScanJobs
  BY <1>0 DEF ScanJobs, ScanPhases
<1> HIDE DEF job
<1>3. /\ t \in ScanStates /\ t.calls = s.calls /\ t.tracker = s.tracker /\ t.previous = s.previous
      /\ status \in ScanStatuses
  BY <1>0, <1>2 DEF ScanStates
<1> HIDE DEF t, status
<1>4. ScanGood(t)
  BY <1>3, ScanOther
<1>5. ScanGood(begun) /\ ScanGood(refused) /\ refused \in ScanStates
  BY <1>4, ScanEnded
<1>6. c.tracker = s.tracker => ScanGood(Scan!Followed(begun, c.tracker, c.tracker))
  BY <1>0, <1>3, <1>4, ScanFollowed
<1> HIDE DEF begun, refused
<1>7. /\ back \in ScanStates /\ back.calls = refused.calls /\ back.tracker = refused.tracker
      /\ back.previous = refused.previous
  BY <1>3, <1>5 DEF ScanStates
<1> HIDE DEF back
<1>8. ScanGood(back)
  BY <1>5, <1>7, ScanOther
<1> QED BY <1>1, <1>5, <1>6, <1>8

LEMMA ScanMountedStep ==
  ASSUME ScanGood(s), NEW c \in s.calls, Scan!Mounted(c)
  PROVE  ScanGood(s)'
<1>0. /\ s \in ScanStates /\ c \in ScanCalls /\ c.op \in Following /\ c.tracker \in Int
      /\ s.job.id \in Int
  BY ScanFacts, ScanCallTypes DEF Scan!Mounted, Following
<1> DEFINE t == [s EXCEPT !.touched = TRUE]
           u == [t EXCEPT !.calls = t.calls \ {c}]
           v == [s EXCEPT !.calls = s.calls \ {c}]
<1>1. t \in ScanStates /\ t.calls = s.calls /\ t.tracker = s.tracker /\ t.previous = s.previous
  BY <1>0 DEF ScanStates
<1>2. u = [v EXCEPT !.touched = TRUE]
  BY <1>0 DEF ScanStates
<1>3. s' = IF s.job.phase \in Scan!Active /\ c.tracker = s.tracker
           THEN Scan!Followed(u, c.tracker, s.job.id) ELSE v
  BY <1>2 DEF Scan!Mounted, Scan!Without
<1> HIDE DEF t
<1>4. ScanGood(t)
  BY <1>1, ScanOther
<1>5. ScanGood(v)
  BY ScanEnded
<1>6. c.tracker = s.tracker => ScanGood(Scan!Followed(u, c.tracker, s.job.id))
  BY <1>0, <1>1, <1>4, ScanFollowed
<1> QED BY <1>3, <1>5, <1>6

LEMMA ScanAskStep ==
  ASSUME ScanGood(s), NEW c \in s.calls, Scan!Ask(c)
  PROVE  ScanGood(s)'
<1> DEFINE d == [op |-> "status", tracker |-> c.tracker, job |-> c.job, seen |-> s.job]
<1>0. /\ c \in ScanCalls /\ c.op \in Following /\ c.tracker \in Int /\ c.job \in Int
      /\ s.job \in ScanJobs
  BY ScanFacts, ScanCallTypes DEF Scan!Ask, Following
<1>1. d \in ScanCalls /\ d.op \in Following /\ d.tracker = c.tracker
  BY <1>0 DEF ScanCalls, Following
<1>2. \/ s' = [s EXCEPT !.calls = s.calls \ {c}]
      \/ c.tracker = s.tracker /\ s' = [s EXCEPT !.calls = (s.calls \ {c}) \cup {d}]
  BY DEF Scan!Ask, Scan!Without
<1> HIDE DEF d
<1> QED BY <1>0, <1>1, <1>2, ScanEnded, ScanHanded

LEMMA ScanStatusStep ==
  ASSUME ScanGood(s), NEW c \in s.calls, Scan!Status(c)
  PROVE  ScanGood(s)'
<1> DEFINE on(op) == [op |-> op, tracker |-> c.tracker, job |-> c.job]
           t == [s EXCEPT !.calls = s.calls \ {c}]
           quiet == [t EXCEPT !.activeJob = 0, !.loading = FALSE,
                              !.cancelling = FALSE, !.status = "current"]
           Turned(op, b) == [t EXCEPT !.cancelling = b, !.calls = t.calls \cup {on(op)}]
<1>0. /\ s \in ScanStates /\ c \in ScanCalls /\ c.op \in Following /\ c.tracker \in Int
      /\ c.job \in Int
  BY ScanFacts, ScanCallTypes DEF Scan!Status, Following
<1>1. /\ ScanGood(t) /\ t \in ScanStates /\ t.calls = s.calls \ {c} /\ t.tracker = s.tracker
      /\ t.previous = s.previous
  BY ScanEnded
<1>2. \/ s' = t \/ s' = Scan!Restored(t) \/ s' = quiet
      \/ c.tracker = s.tracker /\ s' = [t EXCEPT !.calls = t.calls \cup {on("result")}]
      \/ /\ c.tracker = s.tracker
         /\ \E op \in {"poll", "preview"}, b \in BOOLEAN : s' = Turned(op, b)
  <2>1. PICK job \in {c.seen, s.job} :
          \/ s' = IF c.tracker = s.tracker THEN Scan!Restored(t) ELSE t
          \/ job.id # c.job /\ s' = Scan!Restored(t)
          \/ /\ job.id = c.job /\ (c.tracker # s.tracker \/ s.activeJob # c.job)
             /\ s' = t
          \/ /\ job.id = c.job /\ c.tracker = s.tracker /\ s.activeJob = c.job
             /\ \/ job.phase = "completed" /\ s' = [t EXCEPT !.calls = @ \cup {on("result")}]
                \/ /\ job.phase = "cancelled"
                   /\ s' = IF s.snapshot.partial
                           THEN [t EXCEPT !.activeJob = 0, !.loading = FALSE,
                                          !.cancelling = FALSE, !.status = "current"]
                           ELSE Scan!Restored(t)
                \/ job.phase = "failed" /\ s' = Scan!Restored(t)
                \/ /\ job.phase \in Scan!Active
                   /\ \E op \in {"poll"} \cup IF job.phase = "scanning" THEN {"preview"} ELSE {} :
                        s' = [t EXCEPT !.cancelling = job.phase = "cancelling",
                                       !.calls = @ \cup {on(op)}]
    BY DEF Scan!Status, Scan!Without
  <2>2. [t EXCEPT !.calls = @ \cup {on("result")}] = [t EXCEPT !.calls = t.calls \cup {on("result")}]
    BY <1>1 DEF ScanStates
  <2>3. ASSUME NEW op, NEW b
        PROVE  [t EXCEPT !.cancelling = b, !.calls = @ \cup {on(op)}] = Turned(op, b)
    BY <1>1 DEF ScanStates
  <2> HIDE DEF t
  <2>4. ASSUME NEW op, s' = [t EXCEPT !.cancelling = job.phase = "cancelling",
                                       !.calls = @ \cup {on(op)}]
        PROVE  \E b \in BOOLEAN : s' = Turned(op, b)
    <3> DEFINE b == job.phase = "cancelling"
    <3>1. b \in BOOLEAN
      OBVIOUS
    <3>2. s' = Turned(op, b)
      BY <2>3, <2>4
    <3> QED BY <3>1, <3>2
  <2> HIDE DEF on, Turned
  <2> QED BY <2>1, <2>2, <2>4
<1>3. \A op \in {"poll", "preview", "result"} :
        on(op) \in ScanCalls /\ on(op).op \in Following /\ on(op).tracker = c.tracker
  BY <1>0 DEF ScanCalls, Following
<1>4. \A op : [t EXCEPT !.calls = t.calls \cup {on(op)}]
                = [s EXCEPT !.calls = (s.calls \ {c}) \cup {on(op)}]
  BY <1>0, <1>1 DEF ScanStates
<1>5. ScanGood(quiet)
  <2> DEFINE zero == 0
             q == [t EXCEPT !.activeJob = zero, !.loading = FALSE,
                            !.cancelling = FALSE, !.status = "current"]
  <2>1. zero \in Int /\ q = quiet
    OBVIOUS
  <2> HIDE DEF zero, t
  <2>2. q \in ScanStates /\ q.calls = t.calls /\ q.tracker = t.tracker /\ q.previous = t.previous
    BY <1>1, <2>1 DEF ScanStates, ScanStatuses
  <2> HIDE DEF q
  <2> QED BY <1>1, <2>1, <2>2, ScanOther
<1> HIDE DEF t, quiet, on, Turned
<1>6. ASSUME NEW op \in {"poll", "preview", "result"}, c.tracker = s.tracker
      PROVE  ScanGood([t EXCEPT !.calls = t.calls \cup {on(op)}])
             /\ [t EXCEPT !.calls = t.calls \cup {on(op)}] \in ScanStates
  BY <1>0, <1>3, <1>4, <1>6, ScanHanded
<1>7. ASSUME NEW op \in {"poll", "preview"}, NEW b \in BOOLEAN, c.tracker = s.tracker
      PROVE  ScanGood(Turned(op, b))
  <2> DEFINE u == [t EXCEPT !.calls = t.calls \cup {on(op)}]
             v == [u EXCEPT !.cancelling = b]
  <2>1. ScanGood(u) /\ u \in ScanStates
    BY <1>6, <1>7
  <2>2. v = Turned(op, b)
    BY <1>1 DEF Turned, ScanStates
  <2> HIDE DEF u
  <2>3. v \in ScanStates /\ v.calls = u.calls /\ v.tracker = u.tracker /\ v.previous = u.previous
    BY <2>1 DEF ScanStates
  <2> HIDE DEF v
  <2> QED BY <2>1, <2>2, <2>3, ScanOther
<1> QED BY <1>1, <1>2, <1>5, <1>6, <1>7, ScanRestored

LEMMA ScanPreviewedStep ==
  ASSUME ScanGood(s), NEW c \in s.calls, Scan!Previewed(c)
  PROVE  ScanGood(s)'
<1> DEFINE d == [c EXCEPT !.op = "poll"]
           t == [s EXCEPT !.calls = s.calls \ {c}]
           again == [s EXCEPT !.calls = (s.calls \ {c}) \cup {d}]
           shown == Scan!Preview(c.job)
           u == [again EXCEPT !.snapshot = shown, !.status = "updating"]
<1>0. /\ s \in ScanStates /\ c \in ScanCalls /\ c.op \in Following /\ c.tracker \in Int
      /\ c.job \in Int /\ d \in ScanCalls /\ d.op \in Following /\ d.tracker = c.tracker
  BY ScanFacts, ScanCallTypes DEF Scan!Previewed, Following
<1> HIDE DEF d
<1>1. [t EXCEPT !.calls = t.calls \cup {d}] = again
  BY <1>0 DEF ScanStates
<1>2. \/ s' = t
      \/ c.tracker = s.tracker /\ (s' = again \/ s' = u)
  <2>1. [t EXCEPT !.calls = @ \cup {d}] = again
    BY <1>0, <1>1 DEF ScanStates
  <2> QED BY <2>1 DEF Scan!Previewed, Scan!Without, d
<1>3. ScanGood(t)
  BY ScanEnded
<1> HIDE DEF t, again
<1>4. c.tracker = s.tracker => ScanGood(again) /\ again \in ScanStates
  BY <1>0, ScanHanded DEF again
<1>5. shown \in DiskScans
  BY <1>0, ScanNumbers
<1> HIDE DEF shown
<1>6. c.tracker = s.tracker =>
        /\ u \in ScanStates /\ u.calls = again.calls /\ u.tracker = again.tracker
        /\ u.previous = again.previous
  BY <1>4, <1>5 DEF ScanStates, ScanStatuses
<1> HIDE DEF u
<1> QED BY <1>2, <1>3, <1>4, <1>6, ScanOther

LEMMA ScanResultStep ==
  ASSUME ScanGood(s), NEW c \in s.calls, Scan!Result(c)
  PROVE  ScanGood(s)'
<1> DEFINE t == [s EXCEPT !.calls = s.calls \ {c}]
           shown == Scan!Complete(c.job)
           zero == 0
           u == [t EXCEPT !.snapshot = shown, !.previous = shown, !.status = "current",
                          !.activeJob = zero, !.loading = FALSE, !.cancelling = FALSE]
<1>0. s \in ScanStates /\ c \in ScanCalls /\ c.job \in Int
  BY ScanFacts, ScanCallTypes DEF Scan!Result
<1>1. s' = t \/ s' = u \/ s' = Scan!Restored(t)
  BY DEF Scan!Result, Scan!Without
<1>2. ScanGood(t) /\ t \in ScanStates
  BY ScanEnded
<1>3. shown \in DiskScans /\ ~shown.partial /\ zero \in Int
  BY <1>0, ScanNumbers
<1> HIDE DEF t, shown, zero
<1>4. u \in ScanStates /\ u.calls = t.calls /\ u.tracker = t.tracker /\ u.previous = shown
  BY <1>2, <1>3 DEF ScanStates, ScanStatuses
<1>5. ScanGood(u)
  BY <1>2, <1>3, <1>4 DEF ScanGood
<1> QED BY <1>1, <1>2, <1>5, ScanRestored

\* A job that still runs is told to stop.
LEMMA ScanToldToStop ==
  ASSUME NEW t, ScanGood(t), NEW b \in BOOLEAN,
         NEW u, u = [t EXCEPT !.cancelling = b,
                              !.job.phase = IF @ = "scanning" THEN "cancelling" ELSE @]
  PROVE  ScanGood(u)
<1> DEFINE phase == IF t.job.phase = "scanning" THEN "cancelling" ELSE t.job.phase
           job == [t.job EXCEPT !.phase = phase]
<1>1. t \in ScanStates /\ t.job \in ScanJobs /\ phase \in ScanPhases
  BY ScanFacts DEF ScanJobs, ScanPhases
<1>2. u = [t EXCEPT !.cancelling = b, !.job = job]
  <2>1. job = [t.job EXCEPT !.phase = IF @ = "scanning" THEN "cancelling" ELSE @]
    OBVIOUS
  <2> HIDE DEF job, phase
  <2>2. [t EXCEPT !.cancelling = b].job = t.job
    BY <1>1 DEF ScanStates
  <2> QED BY <1>1, <2>1, <2>2 DEF ScanStates
<1> HIDE DEF phase
<1>3. job \in ScanJobs
  BY <1>1 DEF ScanJobs
<1> HIDE DEF job
<1>4. u \in ScanStates /\ u.calls = t.calls /\ u.tracker = t.tracker /\ u.previous = t.previous
  BY <1>1, <1>2, <1>3 DEF ScanStates
<1> QED BY <1>4, ScanOther

LEMMA ScanCancelStep == ASSUME ScanGood(s), Scan!Cancel PROVE ScanGood(s)'
BY ScanToldToStop DEF Scan!Cancel

LEMMA ScanClearSteps ==
  ASSUME ScanGood(s),
         Scan!Clear \/ \E c \in s.calls : Scan!CancelledForClear(c) \/ Scan!Cleared(c)
  PROVE  ScanGood(s)'
<1>0. /\ s \in ScanStates /\ s.tracker \in Int /\ s.begun \in Int /\ s.calls \in SUBSET ScanCalls
      /\ s.job \in ScanJobs /\ s.job.id \in Int /\ s.stored \in Int
      /\ ~s.previous.partial /\ OneLoop(s.calls, s.tracker)
  BY ScanFacts
<1>1. CASE Scan!Clear
  <2> DEFINE n == s.tracker + 1
             k == s.begun + 1
             t == [s EXCEPT !.touched = TRUE, !.tracker = n, !.begun = k]
             d == [op |-> "clearing"]
             u == [t EXCEPT !.calls = t.calls \cup {d}]
             b == t.cancelling
             v == [u EXCEPT !.cancelling = b,
                            !.job.phase = IF @ = "scanning" THEN "cancelling" ELSE @]
  <2>1. n \in Int /\ k \in Int /\ OneLoop(s.calls, n)
    BY <1>0, LoopLater
  <2>2. d \in ScanCalls /\ d.op \notin Following
    BY DEF ScanCalls, Following
  <2>3. t = [s EXCEPT !.touched = TRUE, !.tracker = @ + 1, !.begun = @ + 1]
    BY <1>0 DEF ScanStates
  <2>4. \/ s' = Scan!Forgotten(t)
        \/ s' = [t EXCEPT !.job.phase = IF @ = "scanning" THEN "cancelling" ELSE @,
                          !.calls = @ \cup {d}]
    BY <1>1, <2>3 DEF Scan!Clear
  <2> HIDE DEF n, k
  <2>5. /\ t \in ScanStates /\ t.calls = s.calls /\ t.tracker = n /\ t.previous = s.previous
        /\ b \in BOOLEAN
    BY <1>0, <2>1 DEF ScanStates
  <2> HIDE DEF t
  <2>6. ScanGood(t)
    BY <1>0, <2>1, <2>5 DEF ScanGood
  <2> HIDE DEF d
  <2>7. v = [t EXCEPT !.job.phase = IF @ = "scanning" THEN "cancelling" ELSE @,
                          !.calls = @ \cup {d}]
    BY <2>5 DEF ScanStates, ScanJobs
  <2>8. ScanGood(u)
    BY <2>2, <2>6, ScanAdded
  <2> HIDE DEF u, b
  <2>9. ScanGood(v)
    BY <2>5, <2>8, ScanToldToStop
  <2> QED BY <2>4, <2>6, <2>7, <2>9, ScanForgotten
<1>2. ASSUME NEW c \in s.calls, Scan!CancelledForClear(c) PROVE ScanGood(s)'
  <2> DEFINE t == [s EXCEPT !.calls = s.calls \ {c}]
  <2>1. s' = Scan!Forgotten(t)
    BY <1>2 DEF Scan!CancelledForClear, Scan!Without
  <2>2. ScanGood(t)
    BY ScanEnded
  <2> HIDE DEF t
  <2> QED BY <2>1, <2>2, ScanForgotten
<1>3. ASSUME NEW c \in s.calls, Scan!Cleared(c) PROVE ScanGood(s)'
  <2> DEFINE t == [s EXCEPT !.calls = s.calls \ {c}]
             zero == 0
             u == [t EXCEPT !.stored = zero, !.refreshJob = "none",
                            !.job = Scan!NoJob]
  <2>1. s' = u
    BY <1>0, <1>3 DEF Scan!Cleared, Scan!Without, ScanStates
  <2>2. ScanGood(t) /\ t \in ScanStates
    BY ScanEnded
  <2>3. zero \in Int
    BY <1>0
  <2> HIDE DEF t, zero
  <2>4. u \in ScanStates /\ u.calls = t.calls /\ u.tracker = t.tracker /\ u.previous = t.previous
    BY <2>2, <2>3, ScanNumbers DEF ScanStates, ScanPhases
  <2> HIDE DEF u
  <2> QED BY <2>1, <2>2, <2>4, ScanOther
<1> QED BY <1>1, <1>2, <1>3

\* A folder of the map is scanned anew.
LEMMA ScanRefreshSteps ==
  ASSUME ScanGood(s),
         \/ Scan!RefreshDirectory \/ Scan!CancelRefresh
         \/ \E c \in s.calls : \/ Scan!RefreshStarted(c) \/ Scan!RefreshPoll(c)
                               \/ Scan!RefreshResult(c)
  PROVE  ScanGood(s)'
<1>0. /\ s \in ScanStates /\ s.refreshTracker \in Int /\ s.begun \in Int /\ s.stored \in Int
      /\ s.calls \in SUBSET ScanCalls /\ s.snapshot.id \in Int
  BY ScanFacts
<1>1. CASE Scan!RefreshDirectory
  <2> DEFINE n == s.refreshTracker + 1
             k == s.begun + 1
             t == [s EXCEPT !.refreshTracker = n, !.begun = k]
             d == [op |-> "refresh", tracker |-> n, scan |-> s.snapshot.id]
             u == [t EXCEPT !.calls = t.calls \cup {d}]
  <2>1. n \in Int /\ k \in Int
    BY <1>0
  <2>2. d \in ScanCalls /\ d.op \notin Following
    BY <1>0, <2>1 DEF ScanCalls, Following
  <2>3. s' = [s EXCEPT !.refreshTracker = n, !.begun = k, !.calls = s.calls \cup {d}]
    BY <1>0, <1>1 DEF Scan!RefreshDirectory, ScanStates
  <2> HIDE DEF n, k, d
  <2>4. s' = u
    BY <1>0, <2>3 DEF ScanStates
  <2>5. t \in ScanStates /\ t.calls = s.calls /\ t.tracker = s.tracker /\ t.previous = s.previous
    BY <1>0, <2>1 DEF ScanStates
  <2> HIDE DEF t
  <2>6. ScanGood(t)
    BY <2>5, ScanOther
  <2> QED BY <2>2, <2>4, <2>6, ScanAdded
<1>2. CASE Scan!CancelRefresh
  <2>1. s' = [s EXCEPT !.refreshJob = "cancelled"]
    BY <1>2 DEF Scan!CancelRefresh
  <2>2. s' \in ScanStates /\ s'.calls = s.calls /\ s'.tracker = s.tracker /\ s'.previous = s.previous
    BY <1>0, <2>1 DEF ScanStates, ScanPhases
  <2> QED BY <2>2, ScanOther
<1>3. ASSUME NEW c \in s.calls
      PROVE  LET t == [s EXCEPT !.calls = s.calls \ {c}]
             IN /\ ScanGood(t) /\ t \in ScanStates
                /\ ScanGood([t EXCEPT !.refreshing = FALSE])
  <2> DEFINE t == [s EXCEPT !.calls = s.calls \ {c}]
             u == [t EXCEPT !.refreshing = FALSE]
  <2>1. ScanGood(t) /\ t \in ScanStates
    BY ScanEnded
  <2> HIDE DEF t
  <2>2. u \in ScanStates /\ u.calls = t.calls /\ u.tracker = t.tracker /\ u.previous = t.previous
    BY <2>1 DEF ScanStates
  <2>3. ScanGood(u)
    BY <2>1, <2>2, ScanOther
  <2> QED BY <2>1, <2>3 DEF t
<1>4. ASSUME NEW c \in s.calls, Scan!RefreshStarted(c) PROVE ScanGood(s)'
  <2> DEFINE t == [s EXCEPT !.calls = s.calls \ {c}]
             d == [c EXCEPT !.op = "refreshPoll"]
             u == [t EXCEPT !.refreshJob = "scanning"]
             v == [u EXCEPT !.refreshing = TRUE]
             w == [v EXCEPT !.calls = v.calls \cup {d}]
  <2>1. d \in ScanCalls /\ d.op \notin Following
    BY <1>0, <1>4, ScanCallTypes DEF Scan!RefreshStarted, Following
  <2>2. ScanGood(t) /\ t \in ScanStates
    BY <1>3
  <2>3. \/ s' = t \/ s' = u
        \/ s' = [t EXCEPT !.refreshJob = "scanning", !.refreshing = TRUE, !.calls = @ \cup {d}]
    BY <1>4 DEF Scan!RefreshStarted, Scan!Without
  <2> HIDE DEF t, d
  <2>4. /\ u \in ScanStates /\ u.calls = t.calls /\ u.tracker = t.tracker /\ u.previous = t.previous
        /\ v \in ScanStates /\ v.calls = t.calls /\ v.tracker = t.tracker /\ v.previous = t.previous
    BY <2>2 DEF ScanStates, ScanPhases
  <2>5. [t EXCEPT !.refreshJob = "scanning", !.refreshing = TRUE, !.calls = @ \cup {d}] = w
    BY <2>2 DEF ScanStates
  <2> HIDE DEF u, v
  <2>6. ScanGood(u) /\ ScanGood(v)
    BY <2>2, <2>4, ScanOther
  <2> QED BY <2>1, <2>2, <2>3, <2>5, <2>6, ScanAdded
<1>5. ASSUME NEW c \in s.calls, Scan!RefreshPoll(c) PROVE ScanGood(s)'
  <2> DEFINE t == [s EXCEPT !.calls = s.calls \ {c}]
             d == [op |-> "refreshResult", tracker |-> c.tracker,
                   scan |-> c.scan, found |-> s.stored = c.scan]
  <2>1. c.tracker \in Int /\ c.scan \in Int
    BY <1>0, <1>5, ScanCallTypes DEF Scan!RefreshPoll
  <2>2. d \in ScanCalls /\ d.op \notin Following
    BY <2>1 DEF ScanCalls, Following
  <2>3. ScanGood(t) /\ t \in ScanStates /\ ScanGood([t EXCEPT !.refreshing = FALSE])
    BY <1>3
  <2>4. \/ s' = t \/ s' = s \/ s' = [t EXCEPT !.refreshing = FALSE]
        \/ s' = [t EXCEPT !.calls = @ \cup {d}]
    BY <1>5 DEF Scan!RefreshPoll, Scan!Without
  <2> HIDE DEF t, d
  <2>5. [t EXCEPT !.calls = @ \cup {d}] = [t EXCEPT !.calls = t.calls \cup {d}]
    BY <2>3 DEF ScanStates
  <2> QED BY <2>2, <2>3, <2>4, <2>5, ScanAdded
<1>6. ASSUME NEW c \in s.calls, Scan!RefreshResult(c) PROVE ScanGood(s)'
  <2> DEFINE t == [s EXCEPT !.calls = s.calls \ {c}]
             shown == Scan!Complete(c.scan)
             u == [t EXCEPT !.snapshot = shown, !.status = "current", !.refreshing = FALSE]
  <2>1. c.scan \in Int
    BY <1>0, <1>6, ScanCallTypes DEF Scan!RefreshResult
  <2>2. shown \in DiskScans
    BY <2>1, ScanNumbers
  <2>3. ScanGood(t) /\ t \in ScanStates /\ ScanGood([t EXCEPT !.refreshing = FALSE])
    BY <1>3
  <2>4. s' = t \/ s' = u \/ s' = [t EXCEPT !.refreshing = FALSE]
    BY <1>6 DEF Scan!RefreshResult, Scan!Without
  <2> HIDE DEF t, shown
  <2>5. u \in ScanStates /\ u.calls = t.calls /\ u.tracker = t.tracker /\ u.previous = t.previous
    BY <2>2, <2>3 DEF ScanStates, ScanStatuses
  <2> HIDE DEF u
  <2> QED BY <2>3, <2>4, <2>5, ScanOther
<1> QED BY <1>1, <1>2, <1>4, <1>5, <1>6

LEMMA ScanDeletionSteps ==
  ASSUME ScanGood(s), Scan!ApplyDeletion \/ \E c \in s.calls : Scan!DeletionApplied(c)
  PROVE  ScanGood(s)'
<1>0. /\ s \in ScanStates /\ s.begun \in Int /\ s.stored \in Int
      /\ s.calls \in SUBSET ScanCalls /\ s.snapshot.id \in Int
  BY ScanFacts
<1>1. CASE Scan!ApplyDeletion
  <2> DEFINE k == s.begun + 1
             t == [s EXCEPT !.begun = k]
             d == [op |-> "deletion", scan |-> s.snapshot.id, found |-> s.stored = s.snapshot.id]
             u == [t EXCEPT !.calls = t.calls \cup {d}]
  <2>1. k \in Int
    BY <1>0
  <2>2. d \in ScanCalls /\ d.op \notin Following
    BY <1>0 DEF ScanCalls, Following
  <2>3. s' = [s EXCEPT !.begun = k, !.calls = s.calls \cup {d}]
    BY <1>0, <1>1 DEF Scan!ApplyDeletion, ScanStates
  <2> HIDE DEF k, d
  <2>4. s' = u
    BY <1>0, <2>3 DEF ScanStates
  <2>5. t \in ScanStates /\ t.calls = s.calls /\ t.tracker = s.tracker /\ t.previous = s.previous
    BY <1>0, <2>1 DEF ScanStates
  <2> HIDE DEF t
  <2>6. ScanGood(t)
    BY <2>5, ScanOther
  <2> QED BY <2>2, <2>4, <2>6, ScanAdded
<1>2. ASSUME NEW c \in s.calls, Scan!DeletionApplied(c) PROVE ScanGood(s)'
  <2> DEFINE t == [s EXCEPT !.calls = s.calls \ {c}]
             shown == Scan!Complete(c.scan)
             u == [t EXCEPT !.snapshot = shown]
  <2>1. shown \in DiskScans
    BY <1>0, <1>2, ScanCallTypes, ScanNumbers DEF Scan!DeletionApplied
  <2>2. ScanGood(t) /\ t \in ScanStates
    BY ScanEnded
  <2>3. s' = t \/ s' = u
    BY <1>2 DEF Scan!DeletionApplied, Scan!Without
  <2> HIDE DEF t, shown
  <2>4. u \in ScanStates /\ u.calls = t.calls /\ u.tracker = t.tracker /\ u.previous = t.previous
    BY <2>1, <2>2 DEF ScanStates
  <2> HIDE DEF u
  <2> QED BY <2>2, <2>3, <2>4, ScanOther
<1> QED BY <1>1, <1>2

LEMMA ScanJobSteps == ASSUME ScanGood(s), Scan!JobEnds PROVE ScanGood(s)'
<1>0. s \in ScanStates /\ s.job \in ScanJobs /\ s.job.id \in Int
  BY ScanFacts
<1>1. ASSUME NEW phase \in ScanPhases, NEW n \in Int,
             s' = [s EXCEPT !.job.phase = phase, !.stored = n]
      PROVE  ScanGood(s)'
  <2> DEFINE job == [s.job EXCEPT !.phase = phase]
  <2>1. s' = [s EXCEPT !.job = job, !.stored = n] /\ job \in ScanJobs
    BY <1>0, <1>1 DEF ScanStates, ScanJobs
  <2> HIDE DEF job
  <2>2. s' \in ScanStates /\ s'.calls = s.calls /\ s'.tracker = s.tracker /\ s'.previous = s.previous
    BY <1>0, <2>1 DEF ScanStates
  <2> QED BY <2>2, ScanOther
<1>2. ASSUME NEW end \in ScanPhases, s' = [s EXCEPT !.refreshJob = end]
      PROVE  ScanGood(s)'
  <2>1. s' \in ScanStates /\ s'.calls = s.calls /\ s'.tracker = s.tracker /\ s'.previous = s.previous
    BY <1>0, <1>2 DEF ScanStates
  <2> QED BY <2>1, ScanOther
<1>3. CASE s' = [s EXCEPT !.job.phase = "completed", !.stored = s.job.id]
  BY <1>0, <1>1, <1>3 DEF ScanPhases
<1>4. ASSUME NEW phase \in ScanPhases, s' = [s EXCEPT !.job.phase = phase]
      PROVE  ScanGood(s)'
  <2> DEFINE n == s.stored
  <2>1. n \in Int
    BY ScanFacts
  <2>2. s' = [s EXCEPT !.job.phase = phase, !.stored = n]
    BY <1>0, <1>4 DEF ScanStates
  <2> HIDE DEF n
  <2> QED BY <1>1, <2>1, <2>2
<1> QED BY <1>2, <1>3, <1>4 DEF Scan!JobEnds, ScanPhases

LEMMA ScanStarts == ASSUME Scan!Init PROVE ScanGood(s)
<1>1. PICK kept \in {0, 1} :
        s = [snapshot |-> Scan!None, status |-> "current", preStatus |-> "current",
             previous |-> Scan!None, loading |-> FALSE, cancelling |-> FALSE,
             activeJob |-> 0, tracker |-> 1, touched |-> FALSE,
             checking |-> FALSE, guide |-> FALSE,
             refreshTracker |-> 0, refreshing |-> FALSE, refreshJob |-> "none",
             job |-> Scan!NoJob, stored |-> kept, begun |-> 0,
             calls |-> {[op |-> "initial", seen |-> kept], [op |-> "mounted", tracker |-> 1]}]
  BY DEF Scan!Init
<1>2. /\ [op |-> "initial", seen |-> kept] \in ScanCalls
      /\ [op |-> "initial", seen |-> kept].op \notin Following
      /\ [op |-> "mounted", tracker |-> 1] \in ScanCalls
  BY <1>1 DEF ScanCalls, Following
<1>3. s \in ScanStates
  BY <1>1, <1>2, ScanNumbers DEF ScanStates, ScanPhases, ScanStatuses
<1>4. OneLoop(s.calls, s.tracker)
  BY <1>1, <1>2 DEF OneLoop
<1> QED BY <1>1, <1>3, <1>4, ScanNumbers DEF ScanGood

LEMMA ScanSteps == ASSUME ScanGood(s), Scan!Next PROVE ScanGood(s)'
<1>1. ASSUME NEW c \in s.calls, Scan!Answered(c) PROVE ScanGood(s)'
  BY <1>1, ScanReadStep, ScanStartedStep, ScanMountedStep, ScanAskStep, ScanStatusStep,
     ScanPreviewedStep, ScanResultStep, ScanClearSteps, ScanRefreshSteps, ScanDeletionSteps
     DEF Scan!Answered
<1> QED BY <1>1, ScanReloadStep, ScanStartSteps, ScanCancelStep, ScanClearSteps,
           ScanRefreshSteps, ScanDeletionSteps, ScanJobSteps DEF Scan!Next, Scan!Answer

\* The instance counts as the library does.
LEMMA ScanSize == \A S : Scan!Cardinality(S) = Cardinality(S)
BY DEF Scan!Cardinality, Cardinality

LEMMA ScanHolds == ASSUME ScanGood(s) PROVE Scan!PreviewIsNotKept
<1> DEFINE L == {c \in s.calls : /\ c.op \in {"start", "poll", "status", "preview", "result"}
                                 /\ c.tracker = s.tracker}
<1>1. \A c, d \in L : c = d
  BY DEF ScanGood, OneLoop, Following
<1>2. Cardinality(L) <= 1
  <2>1. CASE L = {}
    BY <2>1, FS_EmptySet
  <2>2. CASE L # {}
    <3>1. PICK c \in L : L = {c}
      BY <1>1, <2>2
    <3> HIDE DEF L
    <3>2. Cardinality(L) = 1
      BY <3>1, FS_Singleton
    <3> QED BY <3>2
  <2> QED BY <2>1, <2>2
<1> HIDE DEF L
<1>3. ~s.previous.partial /\ Scan!Cardinality(L) <= 1
  BY <1>2, ScanSize DEF ScanGood
<1> QED BY <1>3 DEF L, Scan!PreviewIsNotKept
-------------------------------------------------------------------------------
(* The preferences.                                                          *)

Tags == {"none", "en", "zh-CN", "zh-SG", "broken"}
Stores == [cur : Tags, old : [1 .. 2 -> Tags]]
StoredStates ==
  [of : {"stored"}, turns : Int, stored : Stores, lang : Tags, browser : {"en-GB", "xx"},
   other : {"none", "some"}, value : Tags, running : BOOLEAN, resetting : BOOLEAN,
   cleared : BOOLEAN, first : Tags]

\* The language of a window that finds nothing stored.
FreshLanguage(t) == Prefs!InitialLanguage("none", t.browser)

\* What is stored is what the window shows; what a closed window left is what it
\* was told last, or nothing, which is read as the language of a fresh start.
StoredInv(t) ==
  /\ t.running => t.value \in Prefs!Languages
  /\ t.resetting => t.running
  /\ (t.running /\ ~t.resetting) =>
       /\ t.stored.cur = t.value
       /\ t.cleared => t.value = FreshLanguage(t)
       /\ t.first \in Prefs!Languages => t.value = t.first
  /\ ~t.running =>
       /\ t.cleared => \/ Prefs!ReadMigrated(t.stored) = "none" /\ t.lang = "none"
                       \/ Prefs!ReadMigrated(t.stored) = FreshLanguage(t)
       /\ t.first \in Prefs!Languages => Prefs!ReadMigrated(t.stored) = t.first

StoredGood(t) == t \in StoredStates /\ StoredInv(t)

PrefsGood(t) == "of" \in DOMAIN t /\ (t.of = "stored" => StoredGood(t))

LEMMA InitialLanguages ==
  ASSUME NEW stored \in Tags, NEW browser
  PROVE  Prefs!InitialLanguage(stored, browser) \in Prefs!Languages
BY DEF Prefs!InitialLanguage, Prefs!FindSupportedLanguage, Prefs!Languages, Tags

\* A preference that is moved is read as before.
LEMMA MovedReadsTheSame ==
  ASSUME NEW store \in Stores, NEW moved \in Prefs!Migrations(store)
  PROVE  /\ moved \in Stores
         /\ Prefs!ReadMigrated(store) \in Tags
         /\ Prefs!ReadMigrated(moved) = Prefs!ReadMigrated(store)
<1>1. CASE store.cur # "none" \/ Prefs!Legacy(store) = {}
  BY <1>1 DEF Prefs!Migrations, Prefs!ReadMigrated, Stores
<1>2. CASE store.cur = "none" /\ Prefs!Legacy(store) # {}
  <2> DEFINE i == Prefs!First(store)
             value == store.old[i]
             there == [store EXCEPT !.cur = value]
             away == [there EXCEPT !.old[i] = "none"]
  <2>1. Prefs!Legacy(store) \subseteq 1 .. 2
    BY DEF Prefs!Legacy, Stores
  <2>2. \E k \in Prefs!Legacy(store) : \A j \in Prefs!Legacy(store) : k <= j
    <3>1. CASE 1 \in Prefs!Legacy(store)
      BY <2>1, <3>1
    <3>2. CASE 1 \notin Prefs!Legacy(store)
      <4>1. Prefs!Legacy(store) = {2}
        BY <1>2, <2>1, <3>2
      <4> QED BY <4>1
    <3> QED BY <3>1, <3>2
  <2>3. i \in Prefs!Legacy(store)
    BY <2>2 DEF Prefs!First
  <2>4. i \in 1 .. 2 /\ value \in Tags /\ value # "none"
    BY <2>1, <2>3 DEF Prefs!Legacy, Stores
  <2>5. moved \in {store, there, away}
    BY <1>2 DEF Prefs!Migrations
  <2>6. Prefs!ReadMigrated(store) = value
    BY <1>2 DEF Prefs!ReadMigrated
  <2> HIDE DEF i, value
  <2>7. there \in Stores /\ there.cur = value /\ away \in Stores /\ away.cur = value
    BY <2>4 DEF Stores, Tags
  <2> HIDE DEF there, away
  <2>8. Prefs!ReadMigrated(there) = value /\ Prefs!ReadMigrated(away) = value
    BY <2>4, <2>7 DEF Prefs!ReadMigrated
  <2> QED BY <2>4, <2>5, <2>6, <2>7, <2>8
<1> QED BY <1>1, <1>2

\* The window starts in the language that is stored.
LEMMA StartWindowStep ==
  ASSUME StoredGood(s), Prefs!StartWindow
  PROVE  StoredGood(s')
<1>1. /\ s \in StoredStates /\ StoredInv(s) /\ ~s.running /\ ~s.resetting /\ s.stored \in Stores
      /\ s.lang \in Tags /\ s.cleared \in BOOLEAN
  BY DEF StoredGood, StoredInv, Prefs!StartWindow, StoredStates
<1>2. PICK moved \in Prefs!Migrations(s.stored) : s' = Prefs!SaveAppSettings(Prefs!Started(s, moved))
  BY DEF Prefs!StartWindow
<1> DEFINE read == Prefs!ReadMigrated(moved)
           first == Prefs!InitialLanguage(s.lang, s.browser)
           language == Prefs!ParseAppSettings(read, first)
           store == [moved EXCEPT !.cur = language]
           u == [s EXCEPT !.stored = store, !.value = language, !.lang = language, !.running = TRUE]
<1>3. moved \in Stores /\ read = Prefs!ReadMigrated(s.stored) /\ read \in Tags
  BY <1>1, MovedReadsTheSame
<1>4. first \in Prefs!Languages
  BY <1>1, InitialLanguages
<1> DEFINE v == [s EXCEPT !.stored = moved, !.value = language, !.lang = language, !.running = TRUE]
<1>5. Prefs!Started(s, moved) = v
  BY DEF Prefs!Started
<1> HIDE DEF read, first
<1>6. /\ language \in Prefs!Languages /\ language \in Tags
      /\ read \in Prefs!Languages => language = read
      /\ read = "none" => language = first
  BY <1>4 DEF Prefs!ParseAppSettings, Prefs!Languages, Tags
<1> HIDE DEF language
<1>7. s' = u
  <2>1. v.resetting = s.resetting /\ v.value = language /\ v.stored = moved
    BY <1>1 DEF StoredStates
  <2>2. [v EXCEPT !.stored.cur = v.value] = u
    BY <1>1, <2>1 DEF StoredStates
  <2> QED BY <1>1, <1>2, <1>5, <2>1, <2>2 DEF Prefs!SaveAppSettings
<1>8. store \in Stores /\ store.cur = language
  BY <1>3, <1>6 DEF Stores
<1> HIDE DEF store
<1>9. /\ u \in StoredStates /\ u.stored = store /\ u.value = language /\ u.running
      /\ u.cleared = s.cleared /\ u.first = s.first /\ u.browser = s.browser
  BY <1>1, <1>6, <1>8 DEF StoredStates
<1> HIDE DEF u, v
<1>10. FreshLanguage(u) = FreshLanguage(s)
  BY <1>9 DEF FreshLanguage
<1>11. s.cleared => language = FreshLanguage(s)
  <2>1. FreshLanguage(s) \in Prefs!Languages
    BY InitialLanguages DEF FreshLanguage, Tags
  <2>2. s.lang = "none" => first = FreshLanguage(s)
    BY DEF first, FreshLanguage
  <2> QED BY <1>1, <1>3, <1>6, <2>1, <2>2 DEF StoredInv
<1>12. s.first \in Prefs!Languages => language = s.first
  BY <1>1, <1>3, <1>6 DEF StoredInv
<1>13. StoredInv(u)
  BY <1>6, <1>8, <1>9, <1>10, <1>11, <1>12 DEF StoredInv
<1> QED BY <1>7, <1>9, <1>13 DEF StoredGood

\* The window is used, closed and reset.
LEMMA StoredWindowSteps ==
  ASSUME StoredGood(s), Prefs!ChangeLanguage \/ Prefs!WriteOther \/ Prefs!QuitWindow
  PROVE  StoredGood(s')
<1>1. /\ s \in StoredStates /\ StoredInv(s) /\ s.running /\ s.stored \in Stores /\ s.turns \in Int
      /\ s.resetting \in BOOLEAN
  BY DEF StoredGood, Prefs!ChangeLanguage, Prefs!WriteOther, Prefs!QuitWindow, StoredStates
<1> DEFINE turns == s.turns - 1
           t == [s EXCEPT !.turns = turns]
<1>2. turns \in Int /\ t = Prefs!Spend
  BY <1>1 DEF Prefs!Spend, StoredStates
<1> HIDE DEF turns
<1>3. t \in StoredStates /\ \A field \in DOMAIN s \ {"turns"} : t[field] = s[field]
  BY <1>1, <1>2 DEF StoredStates
<1>4. /\ t.stored = s.stored /\ t.value = s.value /\ t.running = s.running /\ t.lang = s.lang
      /\ t.resetting = s.resetting /\ t.cleared = s.cleared /\ t.first = s.first
      /\ t.browser = s.browser
  BY <1>1, <1>2 DEF StoredStates
<1> HIDE DEF t
<1>5. CASE Prefs!ChangeLanguage
  <2>1. PICK language \in Prefs!Languages :
          s' = Prefs!SaveAppSettings([t EXCEPT !.value = language, !.lang = language,
                                               !.cleared = FALSE, !.first = language])
    BY <1>2, <1>5 DEF Prefs!ChangeLanguage
  <2> DEFINE v == [t EXCEPT !.value = language, !.lang = language,
                            !.cleared = FALSE, !.first = language]
             store == [s.stored EXCEPT !.cur = language]
             u == [v EXCEPT !.stored = store]
  <2>2. language \in Tags
    BY DEF Prefs!Languages, Tags
  <2>3. store \in Stores /\ store.cur = language
    BY <1>1, <2>2 DEF Stores
  <2> HIDE DEF store
  <2>4. /\ v \in StoredStates /\ v.value = language /\ v.running = s.running
        /\ v.resetting = s.resetting /\ v.stored = s.stored
        /\ ~v.cleared /\ v.first = language
    BY <1>3, <1>4, <2>2 DEF StoredStates
  <2> HIDE DEF v
  <2>5. /\ u \in StoredStates /\ u.value = language /\ u.running = s.running
        /\ u.resetting = s.resetting /\ u.stored = store
        /\ ~u.cleared /\ u.first = language
    BY <2>3, <2>4 DEF StoredStates
  <2>6. [v EXCEPT !.stored.cur = v.value] = u
    BY <2>4 DEF StoredStates, store
  <2>7. s' = IF s.resetting THEN v ELSE u
    BY <2>1, <2>4, <2>6 DEF Prefs!SaveAppSettings, v
  <2> HIDE DEF u
  <2>8. StoredInv(u) \/ s.resetting
    BY <1>1, <2>3, <2>5 DEF StoredInv
  <2>9. s.resetting => StoredInv(v)
    BY <1>1, <2>4 DEF StoredInv
  <2> QED BY <2>4, <2>5, <2>7, <2>8, <2>9 DEF StoredGood
<1>6. CASE Prefs!WriteOther
  <2>1. s' = [t EXCEPT !.other = "some"]
    BY <1>2, <1>6 DEF Prefs!WriteOther
  <2>2. /\ s' \in StoredStates /\ s'.stored = s.stored /\ s'.value = s.value
        /\ s'.running = s.running /\ s'.resetting = s.resetting /\ s'.cleared = s.cleared
        /\ s'.first = s.first /\ s'.browser = s.browser
    BY <1>3, <1>4, <2>1 DEF StoredStates
  <2> QED BY <1>1, <2>2 DEF StoredGood, StoredInv, FreshLanguage
<1>7. CASE Prefs!QuitWindow
  <2>1. s' = [t EXCEPT !.running = FALSE] /\ ~s.resetting
    BY <1>2, <1>7 DEF Prefs!QuitWindow
  <2>2. /\ s' \in StoredStates /\ s'.stored = s.stored /\ s'.value = s.value
        /\ ~s'.running /\ s'.resetting = s.resetting /\ s'.cleared = s.cleared
        /\ s'.first = s.first /\ s'.browser = s.browser
    BY <1>3, <1>4, <2>1 DEF StoredStates
  <2>3. s.stored.cur = s.value /\ s.value # "none"
    BY <1>1, <2>1 DEF StoredInv, Prefs!Languages
  <2>4. Prefs!ReadMigrated(s.stored) = s.value
    BY <2>3 DEF Prefs!ReadMigrated
  <2> QED BY <1>1, <2>1, <2>2, <2>3, <2>4 DEF StoredGood, StoredInv, FreshLanguage
<1> QED BY <1>5, <1>6, <1>7

LEMMA StoredResetSteps ==
  ASSUME StoredGood(s), Prefs!BeginReset \/ Prefs!ReloadAfterReset
  PROVE  StoredGood(s')
<1>1. /\ s \in StoredStates /\ StoredInv(s) /\ s.turns \in Int
  BY DEF StoredGood, StoredStates
<1> DEFINE empty == [cur |-> "none", old |-> <<"none", "none">>]
           Clean(t) == [t EXCEPT !.stored = empty, !.lang = "none", !.other = "none"]
<1>2. empty \in Stores /\ empty.cur = "none" /\ Prefs!ReadMigrated(empty) = "none"
  <2>1. <<"none", "none">> \in [1 .. 2 -> Tags]
    BY DEF Tags
  <2>2. Prefs!Legacy(empty) = {}
    BY DEF Prefs!Legacy
  <2> QED BY <2>1, <2>2 DEF Stores, Tags, Prefs!ReadMigrated
<1>3. CASE Prefs!BeginReset
  <2> DEFINE turns == s.turns - 1
             t == [s EXCEPT !.turns = turns, !.resetting = TRUE]
  <2>1. turns \in Int /\ t = [Prefs!Spend EXCEPT !.resetting = TRUE]
    BY <1>1 DEF Prefs!Spend, StoredStates
  <2>2. s.running /\ s' = Clean(t)
    BY <1>3, <2>1 DEF Prefs!BeginReset, Prefs!ClearCoreRobinWebData
  <2> HIDE DEF turns, empty
  <2>3. /\ t \in StoredStates /\ t.running = s.running /\ t.resetting /\ t.value = s.value
    BY <1>1, <2>1 DEF StoredStates
  <2> HIDE DEF t
  <2>4. s' \in StoredStates /\ s'.running = s.running /\ s'.resetting /\ s'.value = s.value
    BY <1>2, <2>2, <2>3 DEF StoredStates, Tags
  <2> QED BY <1>1, <2>2, <2>4 DEF StoredGood, StoredInv
<1>4. CASE Prefs!ReloadAfterReset
  <2> DEFINE t == Clean(s)
  <2>1. s' = [t EXCEPT !.running = FALSE, !.resetting = FALSE, !.cleared = TRUE, !.first = "none"]
    BY <1>4 DEF Prefs!ReloadAfterReset, Prefs!ClearCoreRobinWebData
  <2> HIDE DEF empty
  <2>2. t \in StoredStates /\ t.stored = empty /\ t.lang = "none"
    BY <1>1, <1>2 DEF StoredStates, Tags
  <2> HIDE DEF t
  <2>3. /\ s' \in StoredStates /\ s'.stored = empty /\ s'.lang = "none" /\ ~s'.running
        /\ ~s'.resetting /\ s'.first = "none"
    BY <2>1, <2>2 DEF StoredStates, Tags
  <2> QED BY <1>2, <2>3 DEF StoredGood, StoredInv, Prefs!Languages
<1> QED BY <1>3, <1>4

LEMMA StoredSteps == ASSUME StoredGood(s), Prefs!StoredNext PROVE StoredGood(s')
BY StartWindowStep, StoredWindowSteps, StoredResetSteps DEF Prefs!StoredNext

\* The other parts of the preferences stay what they are.
Part(t, u) == "of" \in DOMAIN u /\ u.of = t.of

LEMMA SwitchParts ==
  ASSUME NEW t, "of" \in DOMAIN t
  PROVE  /\ Part(t, Prefs!SendDock(t)) /\ Part(t, Prefs!SendLogin(t))
         /\ \A b : Part(t, Prefs!UpdateLaunchAtLogin(t, b))
         /\ \A c : Part(t, Prefs!RevertDock(t, c))
<1>1. ASSUME NEW u, "of" \in DOMAIN u
      PROVE  Part(u, Prefs!SendDock(u)) /\ Part(u, Prefs!SendLogin(u))
  BY <1>1 DEF Part, Prefs!SendDock, Prefs!SendLogin
<1>2. ASSUME NEW b PROVE Part(t, Prefs!UpdateLaunchAtLogin(t, b))
  <2> DEFINE u == [t EXCEPT !.login.intent = Prefs!OnOff(b), !.login.value = b,
                            !.login.status = IF @ = "loading" THEN @ ELSE "ready"]
  <2>1. Part(t, u)
    BY DEF Part
  <2> HIDE DEF u
  <2>2. Part(t, Prefs!SendLogin(u))
    BY <1>1, <2>1 DEF Part
  <2> QED BY <2>2 DEF Prefs!UpdateLaunchAtLogin, u
<1>3. ASSUME NEW c PROVE Part(t, Prefs!RevertDock(t, c))
  BY DEF Part, Prefs!RevertDock
<1> QED BY <1>1, <1>2, <1>3

LEMMA PrefsSpend ==
  ASSUME "of" \in DOMAIN s
  PROVE  Part(s, Prefs!Spend)
BY DEF Part, Prefs!Spend

LEMMA SwitchSteps ==
  ASSUME "of" \in DOMAIN s, Prefs!SwitchNext
  PROVE  Part(s, s') /\ s.of = "switch"
<1>0. ASSUME NEW u, Part(s, u)
      PROVE  /\ Part(s, Prefs!SendDock(u)) /\ Part(s, Prefs!SendLogin(u))
             /\ \A b : Part(s, Prefs!UpdateLaunchAtLogin(u, b))
             /\ \A c : Part(s, Prefs!RevertDock(u, c))
  BY <1>0, SwitchParts DEF Part
<1>1. CASE Prefs!LoginIsRead
  <2>1. PICK enabled \in BOOLEAN :
          s' = Prefs!SendLogin([s EXCEPT !.login.system = enabled, !.login.value = enabled,
                                         !.login.status = "ready",
                                         !.login.actual = Prefs!OnOff(enabled)])
    BY <1>1 DEF Prefs!LoginIsRead
  <2> DEFINE u == [s EXCEPT !.login.system = enabled, !.login.value = enabled,
                            !.login.status = "ready", !.login.actual = Prefs!OnOff(enabled)]
  <2>2. Part(s, u)
    BY DEF Part
  <2> HIDE DEF u
  <2>3. Part(s, Prefs!SendLogin(u))
    BY <1>0, <2>2
  <2> QED BY <1>1, <2>1, <2>3 DEF Prefs!LoginIsRead, u
<1>2. CASE Prefs!LoginIsNotRead
  BY <1>2 DEF Part, Prefs!LoginIsNotRead
<1>3. CASE Prefs!SetDock \/ Prefs!ChangeLogin
  <2> DEFINE u == [Prefs!Spend EXCEPT !.dock.value = ~@]
             v == [Prefs!Spend EXCEPT !.login.value = ~@]
  <2>1. Part(s, u) /\ Part(s, v)
    BY PrefsSpend DEF Part
  <2>2. s.of = "switch" /\ (s' = Prefs!SendDock(u) \/ s' = Prefs!SendLogin(v))
    BY <1>3 DEF Prefs!SetDock, Prefs!ChangeLogin, Prefs!May
  <2> HIDE DEF u, v
  <2> QED BY <1>0, <2>1, <2>2
<1>4. CASE Prefs!SetLogin \/ Prefs!EnableLogin
  <2>1. s.of = "switch" /\ \E b : s' = Prefs!UpdateLaunchAtLogin(Prefs!Spend, b)
    BY <1>4 DEF Prefs!SetLogin, Prefs!EnableLogin, Prefs!May
  <2> QED BY <1>0, <2>1, PrefsSpend
<1>5. CASE Prefs!DockIsSet
  BY <1>5 DEF Part, Prefs!DockIsSet
<1>6. CASE Prefs!DockIsRefused
  <2> DEFINE c == Head(s.dock.calls)
             u == [s EXCEPT !.dock.calls = Tail(@), !.refused = @ + 1]
             v == Prefs!RevertDock(u, c)
  <2>1. Part(s, u)
    BY DEF Part
  <2>2. s.of = "switch" /\ (s' = v \/ s' = Prefs!SendDock(v))
    BY <1>6 DEF Prefs!DockIsRefused
  <2> HIDE DEF u, c
  <2>3. Part(s, v)
    BY <1>0, <2>1
  <2> HIDE DEF v
  <2> QED BY <1>0, <2>2, <2>3
<1>7. CASE Prefs!LoginIsSet
  <2> DEFINE c == Head(s.login.calls)
             u == [s EXCEPT !.login.calls = Tail(@), !.login.system = (c.desired = "on"), !.unsure = FALSE]
             v == [u EXCEPT !.login.actual = c.desired, !.login.intent = "none",
                            !.login.status = "ready", !.login.value = (c.desired = "on"),
                            !.failure = IF @ = "login" THEN "none" ELSE @]
  <2>1. Part(s, u)
    BY DEF Part
  <2>2. s.of = "switch" /\ (s' = u \/ s' = Prefs!SendLogin(v))
    BY <1>7 DEF Prefs!LoginIsSet
  <2> HIDE DEF u, c
  <2>3. Part(s, v)
    BY <2>1 DEF Part
  <2> HIDE DEF v
  <2> QED BY <1>0, <2>1, <2>2, <2>3
<1>8. CASE Prefs!LoginFails
  BY <1>8 DEF Part, Prefs!LoginFails
<1>9. CASE Prefs!RetrySettingsOperation
  <2> DEFINE u == [Prefs!Spend EXCEPT !.failure = "none"]
             v == [u EXCEPT !.dock.actual = "none", !.dock.value = ~@]
  <2>1. Part(s, u)
    BY PrefsSpend DEF Part
  <2>2. /\ s.of = "switch"
        /\ s' = Prefs!SendDock(v) \/ \E b : s' = Prefs!UpdateLaunchAtLogin(u, b)
    BY <1>9 DEF Prefs!RetrySettingsOperation, Prefs!May
  <2> HIDE DEF u
  <2>3. Part(s, v)
    BY <2>1 DEF Part
  <2> HIDE DEF v
  <2> QED BY <1>0, <2>1, <2>2, <2>3
<1> QED BY <1>1, <1>2, <1>3, <1>4, <1>5, <1>6, <1>7, <1>8, <1>9 DEF Prefs!SwitchNext

LEMMA PolicyParts ==
  ASSUME NEW t, "of" \in DOMAIN t
  PROVE  /\ Part(t, Prefs!SyncPolicy(t)) /\ Part(t, Prefs!Next1(t)) /\ Part(t, Prefs!Synced(t))
         /\ Part(t, Prefs!Conflict(t))
BY DEF Part, Prefs!SyncPolicy, Prefs!Next1, Prefs!Synced, Prefs!Conflict

LEMMA PolicySteps ==
  ASSUME "of" \in DOMAIN s, Prefs!PolicyNext
  PROVE  Part(s, s') /\ s.of = "policy"
<1>1. CASE Prefs!ChangeHistory
  BY <1>1, PolicyParts, PrefsSpend DEF Part, Prefs!ChangeHistory, Prefs!May
<1>2. CASE Prefs!ReadPolicy
  BY <1>2, PolicyParts DEF Part, Prefs!ReadPolicy
<1>3. CASE Prefs!ConfigurePolicy
  BY <1>3, PolicyParts DEF Part, Prefs!ConfigurePolicy
<1>4. CASE Prefs!PolicyIsRefused \/ Prefs!PolicyIsCleared
  BY <1>4, PolicyParts, PrefsSpend DEF Part, Prefs!PolicyIsRefused, Prefs!PolicyIsCleared, Prefs!May
<1> QED BY <1>1, <1>2, <1>3, <1>4 DEF Prefs!PolicyNext

LEMMA RulesSteps ==
  ASSUME "of" \in DOMAIN s, Prefs!RulesNext
  PROVE  Part(s, s') /\ s.of = "rules"
<1>1. CASE Prefs!UpdateThreshold
  BY <1>1, PrefsSpend DEF Part, Prefs!UpdateThreshold, Prefs!May
<1>2. CASE Prefs!AddRule
  BY <1>2, PrefsSpend DEF Part, Prefs!AddRule, Prefs!May
<1>3. CASE Prefs!ToggleRule \/ Prefs!RemoveRule
  BY <1>3, PrefsSpend DEF Part, Prefs!ToggleRule, Prefs!RemoveRule, Prefs!May
<1>4. CASE Prefs!RestartWithStored \/ Prefs!ApplyImport
  BY <1>4, PrefsSpend DEF Part, Prefs!RestartWithStored, Prefs!ApplyImport, Prefs!Change, Prefs!May
<1>5. CASE Prefs!ExportSettings \/ Prefs!ImportSettingsFile
  BY <1>5, PrefsSpend DEF Part, Prefs!ExportSettings, Prefs!ImportSettingsFile, Prefs!May
<1>6. CASE Prefs!SettingsFileIsRead \/ Prefs!CancelImport
  BY <1>6 DEF Part, Prefs!SettingsFileIsRead, Prefs!CancelImport
<1> QED BY <1>1, <1>2, <1>3, <1>4, <1>5, <1>6 DEF Prefs!RulesNext

LEMMA DraftSteps ==
  ASSUME "of" \in DOMAIN s, Prefs!DraftNext
  PROVE  Part(s, s') /\ s.of = "draft"
BY PrefsSpend DEF Part, Prefs!DraftNext, Prefs!ChooseMetric, Prefs!UpdateMetric,
   Prefs!ChangeThreshold, Prefs!ChooseApplication, Prefs!AddDraft, Prefs!May

LEMMA PrefsStarts == ASSUME Prefs!Init PROVE PrefsGood(s)
<1>1. CASE s = Prefs!StartDraft \/ s = Prefs!StartSwitches \/ s = Prefs!StartPolicy \/ s = Prefs!StartRules
  BY <1>1 DEF PrefsGood, Prefs!StartDraft, Prefs!StartSwitches, Prefs!StartPolicy, Prefs!StartRules
<1>2. ASSUME NEW cur \in {"none", "en", "broken"},
             NEW old \in {<<"none", "none">>, <<"en", "none">>, <<"none", "zh-CN">>, <<"en", "zh-CN">>},
             NEW lang \in {"none", "zh-SG", "en"}, NEW browser \in {"en-GB", "xx"},
             s = Prefs!StartStored(cur, old, lang, browser)
      PROVE  PrefsGood(s)
  <2>1. old \in [1 .. 2 -> Tags] /\ cur \in Tags /\ lang \in Tags /\ old[1] \in Tags
    BY DEF Tags
  <2> DEFINE store == [cur |-> cur, old |-> old]
             first == IF cur = "none" THEN old[1] ELSE cur
             turns == PrefTurns
  <2>2. store \in Stores /\ first \in Tags /\ turns \in Int
    BY <2>1, ActsAssumption DEF Stores
  <2>3. s = [of |-> "stored", turns |-> turns, stored |-> store, lang |-> lang, browser |-> browser,
             other |-> "none", value |-> "none", running |-> FALSE, resetting |-> FALSE,
             cleared |-> FALSE, first |-> first]
    BY <1>2 DEF Prefs!StartStored
  <2>4. first \in Prefs!Languages => Prefs!ReadMigrated(store) = first
    <3>1. CASE cur # "none"
      BY <3>1 DEF Prefs!ReadMigrated
    <3>2. CASE cur = "none" /\ old[1] = "none"
      BY <3>2 DEF Prefs!Languages
    <3>3. CASE cur = "none" /\ old[1] # "none"
      <4>1. DOMAIN old = 1 .. 2
        BY <2>1
      <4>2. 1 \in Prefs!Legacy(store) /\ Prefs!Legacy(store) \subseteq 1 .. 2
        BY <3>3, <4>1 DEF Prefs!Legacy
      <4>3. Prefs!First(store) = 1
        <5>1. \A j \in Prefs!Legacy(store) : 1 <= j
          BY <4>2
        <5>2. \A i \in Prefs!Legacy(store) : (\A j \in Prefs!Legacy(store) : i <= j) => i = 1
          BY <4>2
        <5> QED BY <4>2, <5>1, <5>2 DEF Prefs!First
      <4> QED BY <3>3, <4>2, <4>3 DEF Prefs!ReadMigrated
    <3> QED BY <3>1, <3>2, <3>3
  <2> HIDE DEF store, first, turns
  <2>5. /\ s \in StoredStates /\ ~s.running /\ ~s.resetting /\ ~s.cleared
        /\ s.stored = store /\ s.first = first
    BY <2>1, <2>2, <2>3 DEF StoredStates, Tags
  <2>6. StoredInv(s)
    BY <2>4, <2>5 DEF StoredInv
  <2>7. "of" \in DOMAIN s
    BY <2>3
  <2> QED BY <2>5, <2>6, <2>7 DEF PrefsGood, StoredGood
<1> QED BY <1>1, <1>2 DEF Prefs!Init

LEMMA PrefsSteps == ASSUME PrefsGood(s), Prefs!Next PROVE PrefsGood(s)'
<1>0. "of" \in DOMAIN s
  BY DEF PrefsGood
<1>1. CASE Prefs!StoredNext
  <2>1. s.of = "stored"
    BY <1>1 DEF Prefs!StoredNext, Prefs!StartWindow, Prefs!ChangeLanguage, Prefs!WriteOther,
                Prefs!QuitWindow, Prefs!BeginReset, Prefs!ReloadAfterReset, Prefs!May
  <2>2. StoredGood(s')
    BY <1>1, <2>1, StoredSteps DEF PrefsGood
  <2>3. "of" \in DOMAIN s'
    BY <2>2 DEF StoredGood, StoredStates
  <2> QED BY <2>2, <2>3 DEF PrefsGood
<1>2. CASE Prefs!SwitchNext \/ Prefs!PolicyNext \/ Prefs!RulesNext \/ Prefs!DraftNext
  <2>1. Part(s, s') /\ s.of # "stored"
    BY <1>0, <1>2, SwitchSteps, PolicySteps, RulesSteps, DraftSteps
  <2> QED BY <2>1 DEF Part, PrefsGood
<1> QED BY <1>1, <1>2 DEF Prefs!Next

LEMMA PrefsHold == ASSUME PrefsGood(s) PROVE Prefs!ClearedIsForgotten
BY DEF PrefsGood, StoredGood, StoredInv, FreshLanguage, Prefs!ClearedIsForgotten

-------------------------------------------------------------------------------
(* The pages together.                                                       *)

ClearedGood ==
  /\ focus = "files" => FilesCleared(s)
  /\ focus = "native" => NativeGood(s)
  /\ focus = "scan" => ScanGood(s)
  /\ focus = "prefs" => PrefsGood(s)

LEMMA ClearedStart == Init => ClearedGood
BY FilesClearedStart, NativeStarts, ScanStarts, PrefsStarts DEF Init, ClearedGood

LEMMA ClearedStep == ClearedGood /\ [Next]_vars => ClearedGood'
<1> SUFFICES ASSUME ClearedGood, [Next]_vars PROVE ClearedGood'
  OBVIOUS
<1>1. CASE UNCHANGED vars
  BY <1>1 DEF vars, ClearedGood
<1>2. ASSUME NEW page, On(page), page \notin {"files", "native", "scan", "prefs"}
      PROVE  ClearedGood'
  BY <1>2 DEF On, ClearedGood
<1>3. CASE On("files") /\ Files!Next
  BY <1>3, FilesClearedSteps DEF On, ClearedGood
<1>4. CASE On("native") /\ Native!Next
  BY <1>4, NativeSteps DEF On, ClearedGood
<1>5. CASE On("scan") /\ Scan!Next
  BY <1>5, ScanSteps DEF On, ClearedGood
<1>6. CASE On("prefs") /\ Prefs!Next
  BY <1>6, PrefsSteps DEF On, ClearedGood
<1> QED BY <1>1, <1>2, <1>3, <1>4, <1>5, <1>6 DEF Next

\* A result of the file insights, a history of the native files or a preference
\* that the user cleared does not come back from an answer, a file or a timer that
\* was under way.  Of the disk scan: one loop at most follows the newest scan, and
\* no preview becomes what a later one falls back to.
THEOREM ClearedCorrect == Spec => []ClearedIsGone
<1>1. Init => ClearedGood
  BY ClearedStart
<1>2. ClearedGood /\ [Next]_vars => ClearedGood'
  BY ClearedStep
<1>3. ClearedGood => ClearedIsGone
  BY FilesClearedHold, NativeHolds, ScanHolds, PrefsHold DEF ClearedGood, ClearedIsGone
<1> QED BY <1>1, <1>2, <1>3, PTL DEF Spec
=============================================================================
