------------------------------ MODULE AiSettings ------------------------------
(***************************************************************************)
(* The page of the AI's connections (AiSettings.tsx) on top of the state   *)
(* it reads (useAiState.ts).  One connection is edited at a time: its      *)
(* fields are saved, then what was typed for the key and for the proxy is  *)
(* stored, then the state is read again.  Every command raises a change    *)
(* event, which makes the page read the state once more, so that reads     *)
(* overtake each other.  What the commands do to connections and secrets   *)
(* is AiConnections; here it is cut to what the page can tell.  A          *)
(* behaviour is about the editor and its commands, or about the settings   *)
(* and the removals.                                                       *)
(***************************************************************************)
EXTENDS Naturals, FiniteSets, FiniteSetsExt

CONSTANTS
  MaxTurns, \* bound on what the user does
  MaxHeard, \* bound on the change events that are heard
  Models    \* names of models; 0 is an empty name

VARIABLE s

Ids == {1, 2}

\* What a form holds: `dest` the address and protocol, `policy` the network and workspace,
\* `auth` whether a key is needed, `proxy` whether one is used, `plain` all the rest.
Fields == {"dest", "policy", "auth", "proxy", "plain"}
ValuesOf(field) == IF field \in {"auth", "proxy"} THEN BOOLEAN ELSE {1, 2}
EmptyConnection == [dest |-> 1, policy |-> 1, auth |-> FALSE, proxy |-> FALSE, plain |-> 1]
KeyFields == {"dest", "auth", "proxy"}               \* named by the page's warning
TargetFields == KeyFields \cup {"policy"}            \* by which the service drops the secrets

\* A connection: its fields, its revision, and the typing its key and proxy password come
\* from (0 when there is none).  The typing is kept only to state the properties.
Profile(fields, rev, key, pass) == [fields |-> fields, rev |-> rev, key |-> key, pass |-> pass]

\* The form: the connection it is for ({} while new), the revision it expects, its fields.
Form(id, rev, fields) == [id |-> id, rev |-> rev, fields |-> fields]
NoForm == {}

Settings(enabled, local, budget, default) ==
  [enabled |-> enabled, local |-> local, budget |-> budget, default |-> default]
NoModel == [conn |-> 0, model |-> 0]

\* A saved connection with a proxy; its editor is open or not.
Init ==
  LET one == Profile([EmptyConnection EXCEPT !.auth = TRUE, !.proxy = TRUE], 1, 0, 0)
      native == [conns |-> [id \in {1} |-> one],
                 caps |-> {[conn |-> 1, rev |-> 1, model |-> 1, kind |-> "text", ok |-> TRUE, fields |-> one.fields]},
                 settings |-> Settings(TRUE, FALSE, 1, [conn |-> 1, model |-> 1])]
  IN \E form \in {NoForm, {Form({1}, 1, one.fields)}}, of \in {"editor", "settings"} :
       s = [of |-> of, turns |-> 0, heard |-> 0, native |-> native, state |-> native, seq |-> 0, reads |-> {}, due |-> FALSE,
            form |-> form, secret |-> 0, proxySecret |-> 0, temporary |-> FALSE,
            model |-> IF form = NoForm THEN 0 ELSE 1,
            selection |-> native.settings.default, budget |-> 1, op |-> {}, error |-> FALSE,
            confirmation |-> {}, sitting |-> 1, sat |-> [n \in {1} |-> UNION {f.id : f \in form}], behind |-> FALSE]

MayTurn == s.turns < MaxTurns
MayEdit == MayTurn /\ s.of = "editor"
MaySet == MayTurn /\ s.of = "settings"
Turn(t) == [t EXCEPT !.turns = @ + 1]
Busy == s.op # {}
Known(t) == DOMAIN t.state.conns

----------------------------------------------------------------------------
\* The state the page reads.  Only the answer of the read begun last is taken.

Refresh(t) == [t EXCEPT !.seq = @ + 1, !.reads = @ \cup {[n |-> t.seq + 1, got |-> {}]}]
Notify(t) == IF t.heard < MaxHeard THEN [t EXCEPT !.due = TRUE, !.heard = @ + 1] ELSE t
ServeRead ==
  \E r \in s.reads :
    r.got = {} /\ s' = [s EXCEPT !.reads = (@ \ {r}) \cup {[r EXCEPT !.got = {s.native}]}]
ChangedTimer == s.due /\ s' = Refresh([s EXCEPT !.due = FALSE])

\* The default model and the budget follow settings that changed, over what was typed.
FollowDefaults(t, settings) ==
  IF settings = t.state.settings THEN t
  ELSE [t EXCEPT !.selection = settings.default, !.budget = settings.budget]
TakeState(t, r, got) ==
  IF r.n = t.seq THEN [FollowDefaults(t, got.settings) EXCEPT !.state = got] ELSE t

\* `sat` tells which connection a sitting at the editor was for; `behind` that the form knows
\* an older revision.  Both are kept only to state the properties.
Sit(t) == [t EXCEPT !.sitting = @ + 1,
                    !.sat = [n \in DOMAIN @ \cup {t.sitting + 1} |->
                               IF n \in DOMAIN @ THEN @[n] ELSE UNION {f.id : f \in t.form}]]
Opened(t) == Sit([t EXCEPT !.behind = \E f \in t.form : \E id \in f.id :
                                         id \notin DOMAIN t.native.conns \/ t.native.conns[id].rev # f.rev])

----------------------------------------------------------------------------
\* The editor.

ClearInputs(t) == [t EXCEPT !.secret = 0, !.proxySecret = 0]

DefaultModelOf(t, id) == IF t.state.settings.default.conn = id THEN t.state.settings.default.model ELSE 0
OpenEditor(t, form, model) ==
  Opened([ClearInputs(t) EXCEPT !.form = {form}, !.temporary = FALSE, !.model = model, !.error = FALSE])

AddConnection == MayEdit /\ ~Busy /\ s' = Turn(OpenEditor(s, Form({}, 0, EmptyConnection), 0))
EditConnection ==
  /\ MayTurn /\ ~Busy
  /\ \E id \in Known(s) :
       LET p == s.state.conns[id]
       IN s' = Turn(OpenEditor(s, Form({id}, p.rev, p.fields), DefaultModelOf(s, id)))
CopyConnection ==
  /\ MayEdit /\ ~Busy
  /\ \E id \in Known(s) : s' = Turn(OpenEditor(s, Form({}, 0, s.state.conns[id].fields), 0))
CloseEditor == MayEdit /\ ~Busy /\ s.form # {} /\ s' = Turn(ClearInputs([s EXCEPT !.form = NoForm]))

\* A preset starts a new connection over; what was typed for a proxy stays.
ChoosePreset ==
  /\ MayEdit /\ ~Busy
  /\ \E f \in s.form : \E auth \in BOOLEAN :
       /\ f.id = {}
       /\ s' = Turn([s EXCEPT !.form = {Form({}, f.rev, [EmptyConnection EXCEPT !.auth = auth])},
                              !.secret = 0])
EditField ==
  /\ MayEdit /\ ~Busy
  /\ \E f \in s.form, field \in Fields : \E value \in ValuesOf(field) :
       /\ f.fields[field] # value
       /\ s' = Turn([s EXCEPT !.form = {[f EXCEPT !.fields[field] = value]}])
TypeSecret ==
  /\ MayEdit /\ ~Busy
  /\ \E f \in s.form : f.fields.auth /\ s' = Turn([s EXCEPT !.secret = s.sitting])
TypeProxySecret ==
  /\ MayEdit /\ ~Busy
  /\ \E f \in s.form : f.fields.proxy /\ s' = Turn([s EXCEPT !.proxySecret = s.sitting])
KeepUntilExit ==
  /\ MayEdit /\ ~Busy
  /\ \E f \in s.form : f.fields.auth /\ s' = Turn([s EXCEPT !.temporary = ~@])

\* The name of the model is not locked while a command runs.
TypeModel ==
  /\ MayEdit
  /\ \E f \in s.form, model \in Models \cup {0} :
       f.id # {} /\ model # s.model /\ s' = Turn([s EXCEPT !.model = model])
EditSelection ==
  /\ MaySet
  /\ \E conn \in Known(s) \cup {0}, model \in Models :
       /\ s.selection # [conn |-> conn, model |-> model]
       /\ s' = Turn([s EXCEPT !.selection = [conn |-> conn, model |-> model]])
EditBudget == MaySet /\ s' = Turn([s EXCEPT !.budget = 3 - @])

----------------------------------------------------------------------------
\* What the page makes of the form and of the state it read.

SavedProfile(t) == {t.state.conns[id] : id \in (UNION {f.id : f \in t.form}) \cap Known(t)}
\* Fault: only what the warning names counts as a change.
DestinationDirty(t) ==
  \/ SavedProfile(t) = {}
  \/ \E p \in SavedProfile(t), f \in t.form : \E field \in KeyFields : p.fields[field] # f.fields[field]
ConnectionDirty(t) ==
  \/ \A p \in SavedProfile(t), f \in t.form : p.fields # f.fields
  \/ t.secret # 0
  \/ t.proxySecret # 0
\* The checks shown: of the connection, its revision, and the model named; the newest of a kind.
CapabilityRecords(t, kind) ==
  {c \in t.state.caps : /\ \E f \in t.form : c.conn \in f.id /\ c.conn \in Known(t)
                        /\ c.rev = t.state.conns[c.conn].rev
                        /\ c.kind = kind
                        /\ c.model = IF kind = "text" THEN t.model ELSE 0}

----------------------------------------------------------------------------
\* One command at a time.  An operation carries the form it was begun with.

Begin(op) == s' = Turn([s EXCEPT !.op = {op}, !.error = FALSE])
Op(kind, form, settings, model) ==
  [kind |-> kind, stage |-> "asked", form |-> form, settings |-> settings, model |-> model,
   ok |-> TRUE, read |-> 0, failed |-> FALSE]
MayCommand == MayEdit /\ ~Busy
MaySend == MaySet /\ ~Busy
Save == MayCommand /\ \E f \in s.form : Begin(Op("save", f, s.state.settings, 0))
DeleteCredential ==
  MayCommand /\ \E f \in s.form : f.id # {} /\ Begin(Op("unset", f, s.state.settings, 0))
DeleteProxyCredential ==
  MayCommand /\ \E f \in s.form : f.id # {} /\ f.fields.proxy /\ Begin(Op("unsetProxy", f, s.state.settings, 0))
ListModels ==
  MayCommand /\ \E f \in s.form : f.id # {} /\ ~ConnectionDirty(s) /\ Begin(Op("discovery", f, s.state.settings, 0))
TestModel ==
  /\ MayCommand /\ s.model # 0
  /\ \E f \in s.form : f.id # {} /\ ~ConnectionDirty(s) /\ Begin(Op("text", f, s.state.settings, s.model))

\* The settings are sent whole, as last read, with the one that changes.
UpdateSettings(settings) == Begin(Op("settings", Form({}, 0, EmptyConnection), settings, 0))
SetEnabled == MaySend /\ UpdateSettings([s.state.settings EXCEPT !.enabled = ~@])
SetLocalOnly == MaySend /\ UpdateSettings([s.state.settings EXCEPT !.local = ~@])
SaveBudget == MaySend /\ UpdateSettings([s.state.settings EXCEPT !.budget = s.budget])
SaveSelection ==
  MaySend /\ s.selection.conn # 0 /\ s.selection.model # 0 /\ UpdateSettings([s.state.settings EXCEPT !.default = s.selection])
SetDefault ==
  /\ MaySend /\ s.model # 0 /\ ~ConnectionDirty(s)
  /\ \E f \in s.form : \E id \in f.id :
       UpdateSettings([s.state.settings EXCEPT !.default = [conn |-> id, model |-> s.model]])

AskToRemove == MaySend /\ \E id \in Known(s) : s' = Turn([s EXCEPT !.confirmation = {id}])
AskToClear == MaySend /\ s' = Turn([s EXCEPT !.confirmation = {0}])
CancelConfirmation == MaySet /\ ~Busy /\ s.confirmation # {} /\ s' = Turn([s EXCEPT !.confirmation = {}])
Confirm ==
  MaySend /\ \E id \in s.confirmation :
           Begin(Op(IF id = 0 THEN "clear" ELSE "remove", Form({id}, 0, EmptyConnection), s.state.settings, 0))

----------------------------------------------------------------------------
\* The service.  A connection's revision grows with its fields and with its secrets; storing a
\* key for good counts even when the system refuses to keep it.

NewId(t) == Min(Ids \ DOMAIN t.native.conns)
Put(t, id, p) == [t EXCEPT !.native.conns = [i \in DOMAIN @ \cup {id} |-> IF i = id THEN p ELSE @[i]]]
Record(t, id, model, kind, ok) ==
  [t EXCEPT !.native.caps =
     {c \in @ : ~(c.conn = id /\ c.model = model /\ c.kind = kind)}
       \cup {[conn |-> id, rev |-> t.native.conns[id].rev, model |-> model, kind |-> kind, ok |-> ok,
              fields |-> t.native.conns[id].fields]}]
ChangedTarget(p, fields) == \E field \in TargetFields : p.fields[field] # fields[field]
Saved(t, id, fields) ==
  IF id \notin DOMAIN t.native.conns THEN Profile(fields, 1, 0, 0)
  ELSE LET p == t.native.conns[id]
           dropped == ChangedTarget(p, fields)
       IN Profile(fields, p.rev + 1, IF dropped \/ ~fields.auth THEN 0 ELSE p.key,
                                     IF dropped \/ ~fields.proxy THEN 0 ELSE p.pass)
Answered(t, o, ok) == [t EXCEPT !.op = {[o EXCEPT !.stage = "answered", !.ok = ok]}]

SaveConnection(o) ==
  \/ \E id \in (IF o.form.id = {} THEN {NewId(s)} ELSE o.form.id \cap DOMAIN s.native.conns) :
       /\ id \in DOMAIN s.native.conns => s.native.conns[id].rev = o.form.rev
       /\ s' = LET t == Put(s, id, Saved(s, id, o.form.fields))
                   a == Record(t, id, 0, "address", TRUE)
               IN Notify(Answered(a, [o EXCEPT !.form.id = {id}, !.form.rev = t.native.conns[id].rev], TRUE))
  \/ s' = Answered(s, o, FALSE)
Bump(t, id, part, value) ==
  [t EXCEPT !.native.conns[id] = [[@ EXCEPT !.rev = @ + 1] EXCEPT ![part] = value]]
SetSecret(o, part, value) ==
  \E id \in o.form.id :
    \/ id \in DOMAIN s.native.conns /\ s' = Notify(Answered(Bump(s, id, part, value), o, TRUE))
    \/ /\ id \in DOMAIN s.native.conns /\ ~s.temporary
       /\ s' = Notify(Answered(Bump(s, id, part, 0), o, FALSE))
    \/ s' = Answered(s, o, FALSE)
DeleteSecret(o, part) ==
  \E id \in o.form.id :
    \/ id \in DOMAIN s.native.conns /\ s' = Notify(Answered(Bump(s, id, part, 0), o, TRUE))
    \/ s' = Answered(s, o, FALSE)
Check(o) ==
  \E id \in o.form.id \cap DOMAIN s.native.conns, ok \in BOOLEAN :
    s' = Notify(Answered(Record(s, id, o.model, o.kind, ok), o, ok))
StoreSettings(o) ==
  \/ /\ o.settings.default.conn \in DOMAIN s.native.conns \cup {0}
     /\ s' = Notify(Answered([s EXCEPT !.native.settings = o.settings], o, TRUE))
  \/ s' = Answered(s, o, FALSE)
RemoveConnection(o) ==
  \E id \in o.form.id :
    \/ /\ id \in DOMAIN s.native.conns
       /\ s' = Notify(Answered([s EXCEPT !.native.conns = [i \in DOMAIN @ \ {id} |-> @[i]],
                                         !.native.caps = {c \in @ : c.conn # id},
                                         !.native.settings.default = IF @.conn = id THEN NoModel ELSE @], o, TRUE))
    \/ s' = Answered(s, o, FALSE)
ClearConversations(o) ==
  s' = Notify(Answered(s, o, TRUE)) \/ s' = Answered(s, o, FALSE)

Serve ==
  \E o \in s.op :
    \/ o.stage = "asked" /\ o.kind = "save" /\ SaveConnection(o)
    \/ o.stage = "key" /\ SetSecret(o, "key", s.secret)
    \/ o.stage = "pass" /\ SetSecret(o, "pass", s.proxySecret)
    \/ o.stage = "asked" /\ o.kind = "unset" /\ DeleteSecret(o, "key")
    \/ o.stage = "asked" /\ o.kind = "unsetProxy" /\ DeleteSecret(o, "pass")
    \/ o.stage = "asked" /\ o.kind \in {"discovery", "text"} /\ Check(o)
    \/ o.stage = "asked" /\ o.kind = "settings" /\ StoreSettings(o)
    \/ o.stage = "asked" /\ o.kind = "remove" /\ RemoveConnection(o)
    \/ o.stage = "asked" /\ o.kind = "clear" /\ ClearConversations(o)

----------------------------------------------------------------------------
\* Answers.  A save goes on with the key, then with the proxy's password, and ends, as the
\* other commands on secrets do, with a read that brings the form's revision up to date.

End(t, failed) == [t EXCEPT !.op = {}, !.error = failed]
ReadAgain(t, o, failed) ==
  LET r == Refresh(t)
  IN [r EXCEPT !.op = {[o EXCEPT !.stage = "read", !.read = r.seq, !.failed = failed]}]
GoOn(t, o, stage) == [t EXCEPT !.op = {[o EXCEPT !.stage = stage, !.kind = stage]}]
StorePass(t, o) ==
  IF o.form.fields.proxy /\ t.proxySecret # 0 THEN GoOn(t, o, "pass") ELSE ReadAgain(t, o, FALSE)
StoreKey(t, o) == IF t.secret # 0 /\ o.form.fields.auth THEN GoOn(t, o, "key") ELSE StorePass(t, o)

\* A sitting at a new connection is for the one that was made of it.
Made(t, o) ==
  [t EXCEPT !.form = {o.form}, !.sat[t.sitting] = o.form.id, !.behind = FALSE]
\* Fault: a refused key is not followed by a read.
EndAtOnce(t, o) == End(t, TRUE)
AfterRefusal(t, o) == ReadAgain(t, o, TRUE)

SaveAnswers(o) == s' = IF o.ok THEN StoreKey(Made(s, o), o) ELSE End(s, TRUE)
KeyAnswers(o) == s' = IF o.ok THEN StorePass([s EXCEPT !.secret = 0], o) ELSE AfterRefusal(s, o)
PassAnswers(o) ==
  s' = IF o.ok THEN ReadAgain([s EXCEPT !.proxySecret = 0], o, FALSE) ELSE AfterRefusal(s, o)
UnsetAnswers(o) == s' = IF o.ok THEN ReadAgain(s, o, FALSE) ELSE AfterRefusal(s, o)
CheckAnswers(o) == s' = ReadAgain(s, o, ~o.ok)
SettingsAnswer(o) == s' = IF o.ok THEN ReadAgain(s, o, FALSE) ELSE End(s, TRUE)
RemoveAnswers(o) ==
  s' = IF ~o.ok THEN End(s, TRUE)
       ELSE LET t == [s EXCEPT !.confirmation = {}]
            IN ReadAgain(IF \E f \in s.form : f.id = o.form.id /\ o.kind = "remove"
                         THEN ClearInputs([t EXCEPT !.form = NoForm]) ELSE t, o, FALSE)
Answer ==
  \E o \in s.op :
    /\ o.stage = "answered"
    /\ \/ o.kind = "save" /\ SaveAnswers(o)
       \/ o.kind = "key" /\ KeyAnswers(o)
       \/ o.kind = "pass" /\ PassAnswers(o)
       \/ o.kind \in {"unset", "unsetProxy"} /\ UnsetAnswers(o)
       \/ o.kind \in {"discovery", "text"} /\ CheckAnswers(o)
       \/ o.kind = "settings" /\ SettingsAnswer(o)
       \/ o.kind \in {"remove", "clear"} /\ RemoveAnswers(o)

RefreshEditorRevision(t, o, got) ==
  IF o.kind \notin {"save", "key", "pass", "unset", "unsetProxy"} THEN t
  ELSE [t EXCEPT !.form = {IF f.id = o.form.id /\ f.id \subseteq DOMAIN got.conns /\ f.id # {}
                           THEN [f EXCEPT !.rev = got.conns[CHOOSE id \in f.id : TRUE].rev] ELSE f : f \in @}]
ReadArrives ==
  \E r \in s.reads : \E got \in r.got :
    LET t == TakeState([s EXCEPT !.reads = @ \ {r}], r, got)
        mine == {o \in s.op : o.stage = "read" /\ o.read = r.n}
    IN s' = IF mine = {} THEN t
            ELSE LET o == CHOOSE o \in mine : TRUE
                 IN End(RefreshEditorRevision(t, o, got), o.failed)

----------------------------------------------------------------------------
Operations == {"serve", "answer", "changed", "serveRead", "read"}
AnswerOf(op) == CASE op = "serve" -> Serve
                  [] op = "answer" -> Answer
                  [] op = "changed" -> ChangedTimer
                  [] op = "serveRead" -> ServeRead
                  [] op = "read" -> ReadArrives

Next ==
  \/ AddConnection \/ EditConnection \/ CopyConnection \/ CloseEditor \/ ChoosePreset \/ EditField
  \/ TypeSecret \/ TypeProxySecret \/ KeepUntilExit \/ TypeModel \/ EditSelection \/ EditBudget
  \/ Save \/ DeleteCredential \/ DeleteProxyCredential \/ ListModels \/ TestModel
  \/ SetEnabled \/ SetLocalOnly \/ SaveBudget \/ SaveSelection \/ SetDefault
  \/ AskToRemove \/ AskToClear \/ CancelConfirmation \/ Confirm
  \/ \E op \in Operations : AnswerOf(op)

----------------------------------------------------------------------------
\* Properties.

\* A key or a proxy password is stored with the connection it was typed for and with no other,
\* whatever editors were opened, copied, closed or started over in between.
KeysAreTheirOwn ==
  \A id \in DOMAIN s.native.conns :
    \A typing \in {s.native.conns[id].key, s.native.conns[id].pass} \ {0} : s.sat[typing] = {id}

\* Once a command on a connection and its secrets is over, whichever of its steps failed, the
\* form expects the revision the service has: the next save is not refused as outdated.
FormMayBeSaved ==
  s.op = {} /\ ~s.behind =>
    \A f \in s.form : \A id \in f.id \cap DOMAIN s.native.conns : f.rev = s.native.conns[id].rev

\* A connection is tried as it is shown: what the service tries is what the form holds, with
\* nothing typed that is not saved.
TriedAsShown ==
  \A o \in s.op : o.kind \in {"discovery", "text"} /\ o.stage = "asked" /\ ~s.behind =>
    \A f \in s.form : \A id \in f.id \cap DOMAIN s.native.conns : s.native.conns[id].fields = f.fields

\* A check that is shown was made of the connection as it is saved, not of what it was before.
ChecksAreOfTheSaved ==
  \A kind \in {"address", "discovery", "text"} :
    \A c \in CapabilityRecords(s, kind) : \A p \in SavedProfile(s) : c.fields = p.fields

Waiting == s.op # {} \/ s.reads # {} \/ s.due
===============================================================================
