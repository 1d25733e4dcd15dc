------------------------------ MODULE Settings ------------------------------
(***************************************************************************)
(* The preferences of the main window and what follows them: the switches  *)
(* that the system carries out, the policy of the native toolbox store,    *)
(* what is stored and migrated from older versions, and the pages that     *)
(* edit them (src/App.tsx, src/settings.ts, src/settingsTransfer.ts,       *)
(* src/storageMigration.ts, src/language.ts,                               *)
(* src/components/SettingsExplorer.tsx).  The parts do not meet, so that   *)
(* a behaviour is about one of them.                                       *)
(***************************************************************************)
EXTENDS Integers, Sequences, FiniteSets, SequencesExt

CONSTANTS
  MaxTurns,  \* bound of the model: changes of a preference
  MaxRules   \* watch rules that are stored

VARIABLE s

Spend == [s EXCEPT !.turns = @ - 1]
May(part) == s.of = part /\ s.turns > 0

----------------------------------------------------------------------------
(* Launching at login, and a switch that is carried out at once (the dock  *)
(* icon, the companion window).  `actual` is what was last asked of the    *)
(* system, `system` what it does; commands are served in their order.      *)

StartSwitches ==
  [of |-> "switch", turns |-> MaxTurns,
   login |-> [value |-> FALSE, status |-> "loading", actual |-> "none", intent |-> "none", epoch |-> 1,
              system |-> FALSE, calls |-> <<>>],
   dock |-> [value |-> TRUE, actual |-> "on", epoch |-> 0, system |-> TRUE, calls |-> <<>>],
   failure |-> "none", refused |-> 0, unsure |-> FALSE]

OnOff(b) == IF b THEN "on" ELSE "off"

\* A change of the switch is sent at once, whatever is under way.
SendDock(t) ==
  LET d == t.dock IN
  IF d.actual = OnOff(d.value) THEN t
  ELSE [t EXCEPT !.failure = "none",
                 !.dock = [d EXCEPT !.epoch = @ + 1, !.actual = OnOff(d.value),
                                    !.calls = Append(@, [epoch |-> d.epoch + 1, desired |-> d.value,
                                                         previous |-> d.actual])]]

\* Launching at login is sent when nothing is under way.
SendLogin(t) ==
  LET l == t.login
      desired == IF l.intent = "none" THEN OnOff(l.value) ELSE l.intent
  IN IF l.status \in {"loading", "updating"} \/ (l.status = "error" /\ l.intent = "none") THEN t
     ELSE IF l.actual = desired THEN [t EXCEPT !.login.intent = "none"]
     ELSE [t EXCEPT !.failure = "none",
                    !.login = [l EXCEPT !.epoch = @ + 1, !.actual = desired, !.status = "updating",
                                        !.calls = Append(@, [epoch |-> l.epoch + 1, desired |-> desired,
                                                             previous |-> l.actual])]]

LoginIsRead ==
  /\ s.of = "switch" /\ s.login.status = "loading"
  /\ \E enabled \in BOOLEAN :
       s' = SendLogin([s EXCEPT !.login.system = enabled, !.login.value = enabled, !.login.status = "ready",
                                !.login.actual = OnOff(enabled)])

LoginIsNotRead ==
  /\ s.of = "switch" /\ s.login.status = "loading"
  /\ s' = [s EXCEPT !.login.status = "error"]

SetDock ==
  /\ May("switch")
  /\ s' = SendDock([Spend EXCEPT !.dock.value = ~@])

UpdateLaunchAtLogin(t, desired) ==
  SendLogin([t EXCEPT !.login.intent = OnOff(desired), !.login.value = desired,
                      !.login.status = IF @ = "loading" THEN @ ELSE "ready"])

\* The switch of the settings pages waits for the one before; the page of
\* startup items only offers to turn it on.
SetLogin ==
  /\ May("switch") /\ s.login.status \notin {"loading", "updating"}
  /\ s' = UpdateLaunchAtLogin(Spend, ~s.login.value)
EnableLogin ==
  /\ May("switch") /\ ~s.login.value
  /\ s' = UpdateLaunchAtLogin(Spend, TRUE)

\* The first-run guide and an import change the preference itself.
ChangeLogin ==
  /\ May("switch")
  /\ s' = SendLogin([Spend EXCEPT !.login.value = ~@])

DockIsSet ==
  /\ s.of = "switch" /\ s.dock.calls # <<>>
  /\ LET c == Head(s.dock.calls) IN
       s' = [s EXCEPT !.dock.calls = Tail(@), !.dock.system = c.desired, !.refused = 0,
                      !.failure = IF @ = "dock" THEN "none" ELSE @]

\* Only the latest call takes the switch back to what it was before it.
\* Fault: the switch stays where the user put it.
KeepDock(t, c) == [t EXCEPT !.dock.actual = c.previous, !.failure = "dock"]
RevertDock(t, c) ==
  IF c.epoch # t.dock.epoch THEN t
  ELSE LET back == [t EXCEPT !.dock.actual = c.previous, !.failure = "dock"] IN
       IF c.previous = "none" \/ t.dock.value # c.desired THEN back
       ELSE [back EXCEPT !.dock.value = (c.previous = "on")]
DockIsRefused ==
  /\ s.of = "switch" /\ s.dock.calls # <<>>
  /\ LET c == Head(s.dock.calls)
         t == RevertDock([s EXCEPT !.dock.calls = Tail(@), !.refused = @ + 1], c)
     IN s' = IF t.dock.value = s.dock.value THEN t ELSE SendDock(t)

\* The system is asked again whether it did what it said.
LoginIsSet ==
  /\ s.of = "switch" /\ s.login.calls # <<>>
  /\ LET c == Head(s.login.calls)
         told == [s EXCEPT !.login.calls = Tail(@), !.login.system = (c.desired = "on"), !.unsure = FALSE]
     IN s' = IF c.epoch # s.login.epoch THEN told
             ELSE SendLogin([told EXCEPT !.login.actual = c.desired, !.login.intent = "none", !.login.status = "ready",
                                         !.login.value = (c.desired = "on"),
                                         !.failure = IF @ = "login" THEN "none" ELSE @])

\* It refuses, does something else than it says, or cannot be asked afterwards.
LoginFails ==
  /\ s.of = "switch" /\ s.login.calls # <<>>
  /\ \E done \in BOOLEAN :
       LET c == Head(s.login.calls)
           told == [s EXCEPT !.login.calls = Tail(@), !.login.system = IF done THEN c.desired = "on" ELSE @,
                            !.unsure = @ \/ done \/ c.epoch # s.login.epoch]
           back == [told EXCEPT !.login.actual = c.previous, !.login.intent = "none", !.login.status = "error",
                                !.failure = "login"]
       IN s' = IF c.epoch # s.login.epoch THEN told
               ELSE IF c.previous = "none" \/ OnOff(s.login.value) # c.desired THEN back
               ELSE [back EXCEPT !.login.value = (c.previous = "on")]

RetrySettingsOperation ==
  /\ May("switch") /\ s.failure # "none"
  /\ LET t == [Spend EXCEPT !.failure = "none"] IN
       s' = IF s.failure = "login" THEN UpdateLaunchAtLogin(t, ~s.login.value)
            ELSE SendDock([t EXCEPT !.dock.actual = "none", !.dock.value = ~@])

----------------------------------------------------------------------------
(* The toolbox store keeps a policy of its own: changes of the preferences *)
(* that it follows are queued, read the policy and configure it against    *)
(* the revision that was read.  `ref` is the policy last known to hold;    *)
(* overtaken (history): something changed while an older change was still  *)
(* queued, and no change was carried over since.                           *)

StartPolicy ==
  [of |-> "policy", turns |-> MaxTurns, history |-> TRUE, toolbox |-> TRUE, ref |-> "none",
   native |-> [policy |-> "off", revision |-> 0], queue |-> <<[want |-> "both", live |-> TRUE]>>,
   stage |-> "wait", read |-> 0, attempt |-> 0, refused |-> FALSE, overtaken |-> FALSE]

\* Whether histories, and the history of the toolbox among them, are kept.
Desired(t) == IF ~t.history THEN "off" ELSE IF t.toolbox THEN "both" ELSE "on"

\* The change before is disposed of, but carried out all the same.  Nothing is
\* queued for what is known to hold.
SyncPolicy(t) ==
  LET disposed == [t EXCEPT !.queue = [i \in DOMAIN @ |-> [@[i] EXCEPT !.live = FALSE]],
                            !.overtaken = @ \/ t.queue # <<>>] IN
  IF t.ref = Desired(t) THEN disposed
  ELSE [disposed EXCEPT !.queue = Append(@, [want |-> Desired(t), live |-> TRUE]), !.refused = FALSE]

ChangeHistory ==
  /\ May("policy")
  /\ \/ s' = SyncPolicy([Spend EXCEPT !.history = ~@])
     \/ s' = SyncPolicy([Spend EXCEPT !.toolbox = ~@])

Next1(t) == [t EXCEPT !.queue = Tail(@), !.stage = "wait", !.attempt = 0]
Synced(t) == LET q == Head(t.queue) IN IF q.live THEN [Next1(t) EXCEPT !.ref = q.want, !.overtaken = FALSE] ELSE Next1(t)

ReadPolicy ==
  /\ s.of = "policy" /\ s.queue # <<>> /\ s.stage = "wait"
  /\ LET want == Head(s.queue).want IN
       s' = IF s.ref = want THEN Next1(s)
            ELSE IF s.native.policy = want THEN Synced(s)
            ELSE [s EXCEPT !.stage = "configure", !.read = s.native.revision]

\* A conflict is tried once more.
Conflict(t) ==
  IF t.attempt = 0 THEN [t EXCEPT !.stage = "wait", !.attempt = 1] ELSE [Next1(t) EXCEPT !.refused = TRUE]
ConfigurePolicy ==
  /\ s.of = "policy" /\ s.stage = "configure"
  /\ s' = IF s.read # s.native.revision THEN Conflict(s)
          ELSE Synced([s EXCEPT !.native = [policy |-> Head(s.queue).want, revision |-> @.revision + 1]])

PolicyIsRefused ==
  /\ s.of = "policy" /\ s.queue # <<>>
  /\ s' = [Next1(s) EXCEPT !.refused = TRUE]

\* A clear that ends only in part leaves the store with its default policy.
PolicyIsCleared ==
  /\ May("policy") /\ s.native.policy # "off"
  /\ s' = [Spend EXCEPT !.native = [policy |-> "off", revision |-> 0]]

----------------------------------------------------------------------------
(* What is stored: the preferences (here their language), under the key of *)
(* this version or of older ones, the language of all windows, and a key   *)
(* that is written without asking whether data are being cleared.          *)

Languages == {"zh-CN", "en"}
\* What a stored or a browser's tag is understood as: itself, an alias, its script, its language.
FindSupportedLanguage(tag) ==
  CASE tag \in Languages -> tag
    [] tag = "zh-SG" -> "zh-CN"
    [] tag = "zh-Hans-MY" -> "zh-CN"
    [] tag = "en-GB" -> "en"
    [] OTHER -> "none"

\* The key of this version, or else the first one of the older versions.
Legacy(store) == {i \in DOMAIN store.old : store.old[i] # "none"}
First(store) == CHOOSE i \in Legacy(store) : \A j \in Legacy(store) : i <= j
ReadMigrated(store) ==
  IF store.cur # "none" \/ Legacy(store) = {} THEN store.cur ELSE store.old[First(store)]
\* The older key is moved; writes may be blocked at any of the two.
Migrations(store) ==
  IF store.cur # "none" \/ Legacy(store) = {} THEN {store}
  ELSE LET moved == [store EXCEPT !.cur = store.old[First(store)]]
       IN {store, moved, [moved EXCEPT !.old[First(store)] = "none"]}

InitialLanguage(stored, browser) ==
  IF FindSupportedLanguage(stored) # "none" THEN FindSupportedLanguage(stored)
  ELSE IF FindSupportedLanguage(browser) # "none" THEN FindSupportedLanguage(browser) ELSE "zh-CN"

\* What cannot be read, or is not a language of this version, falls back.
ParseAppSettings(stored, fallback) == IF stored \in Languages THEN stored ELSE fallback

\* The windows start in the language that is stored; the preferences then win.
Started(t, stored) ==
  LET first == InitialLanguage(t.lang, t.browser)
      language == ParseAppSettings(ReadMigrated(stored), first)
  IN [t EXCEPT !.stored = stored, !.value = language, !.lang = language, !.running = TRUE]

StartStored(cur, old, lang, browser) ==
  [of |-> "stored", turns |-> MaxTurns, stored |-> [cur |-> cur, old |-> old], lang |-> lang, browser |-> browser,
   other |-> "none", value |-> "none", running |-> FALSE, resetting |-> FALSE, cleared |-> FALSE,
   first |-> IF cur = "none" THEN old[1] ELSE cur]

\* Saved as soon as they changed; not while data are being cleared.
SaveAppSettings(t) == IF t.resetting THEN t ELSE [t EXCEPT !.stored.cur = t.value]

StartWindow ==
  /\ s.of = "stored" /\ ~s.running
  /\ \E moved \in Migrations(s.stored) : s' = SaveAppSettings(Started(s, moved))

ChangeLanguage ==
  /\ May("stored") /\ s.running
  /\ \E language \in Languages \ {s.value} :
       s' = SaveAppSettings([Spend EXCEPT !.value = language, !.lang = language, !.cleared = FALSE, !.first = language])

WriteOther ==
  /\ May("stored") /\ s.running
  /\ s' = [Spend EXCEPT !.other = "some"]

QuitWindow ==
  /\ May("stored") /\ s.running /\ ~s.resetting
  /\ s' = [Spend EXCEPT !.running = FALSE]

\* Everything of this and of older versions.
\* Fault: only what this version writes.
ClearOwnKeys(t) == [t EXCEPT !.stored.cur = "none", !.lang = "none", !.other = "none"]
ClearCoreRobinWebData(t) ==
  [t EXCEPT !.stored = [cur |-> "none", old |-> <<"none", "none">>], !.lang = "none", !.other = "none"]

BeginReset ==
  /\ May("stored") /\ s.running /\ ~s.resetting
  /\ s' = ClearCoreRobinWebData([Spend EXCEPT !.resetting = TRUE])

\* A moment later everything is cleared again, and the window starts anew.
ReloadAfterReset ==
  /\ s.of = "stored" /\ s.resetting
  /\ s' = [ClearCoreRobinWebData(s) EXCEPT !.running = FALSE, !.resetting = FALSE, !.cleared = TRUE, !.first = "none"]

----------------------------------------------------------------------------
(* The editors of thresholds and watch rules, and the file of preferences. *)

DefaultThresholds == <<1, 2, 3>>
Thresholds == 1..4
ValidThresholds(t) == t[1] < t[2] /\ t[2] < t[3]
Acceptable(rule) == ~rule.long
Rule(app, long) == [app |-> app, long |-> long, on |-> TRUE]

\* A preference that is not acceptable falls back as a whole; more rules than are kept are cut.
ParseRules(rules) == IF \A i \in DOMAIN rules : Acceptable(rules[i]) THEN SubSeq(rules, 1, IF Len(rules) > MaxRules THEN MaxRules ELSE Len(rules)) ELSE <<>>
ParsePreferences(p) ==
  [limits |-> IF ValidThresholds(p.limits) THEN p.limits ELSE DefaultThresholds, rules |-> ParseRules(p.rules)]

StartRules ==
  [of |-> "rules", turns |-> MaxTurns, limits |-> DefaultThresholds, rules |-> <<>>,
   files |-> {}, reads |-> {}, preview |-> {}, error |-> FALSE]

BrokenFile == [limits |-> <<>>, rules |-> <<>>]
Preferences(t) == [limits |-> t.limits, rules |-> t.rules]
Change(t, p) == [t EXCEPT !.limits = p.limits, !.rules = p.rules]

\* A threshold is chosen between its neighbours.
Options(limits, i) == {v \in Thresholds : \A j \in DOMAIN limits : (j < i => v > limits[j]) /\ (j > i => v < limits[j])}
UpdateThreshold ==
  /\ May("rules")
  /\ \E i \in 1..3 : \E v \in Options(s.limits, i) \ {s.limits[i]} : s' = [Spend EXCEPT !.limits[i] = v]

\* The same rule is not added twice.
DuplicateRule(rules, rule) == \E i \in DOMAIN rules : rules[i].app = rule.app /\ rules[i].long = rule.long
AddRule ==
  /\ May("rules") /\ Len(s.rules) <= MaxRules
  /\ \E app \in {"a", "b", "c"}, long \in BOOLEAN :
       /\ ~DuplicateRule(s.rules, Rule(app, long))
       /\ s' = [Spend EXCEPT !.rules = Append(@, Rule(app, long))]

ToggleRule ==
  /\ May("rules")
  /\ \E i \in DOMAIN s.rules : s' = [Spend EXCEPT !.rules[i].on = ~@]

RemoveRule ==
  /\ May("rules")
  /\ \E i \in DOMAIN s.rules : s' = [Spend EXCEPT !.rules = RemoveAt(@, i)]

RestartWithStored ==
  /\ May("rules") /\ s.reads = {}
  /\ s' = [Change(Spend, ParsePreferences(Preferences(s))) EXCEPT !.preview = {}, !.error = FALSE]

ExportSettings ==
  /\ May("rules")
  /\ s' = [Spend EXCEPT !.files = {ParsePreferences(Preferences(s))}]

\* The file is read; what it changes is told against the preferences when it was chosen.
ImportSettingsFile ==
  /\ May("rules") /\ Cardinality(s.reads) < 2
  /\ \E file \in s.files \cup {BrokenFile} :
       s' = [Spend EXCEPT !.error = FALSE, !.reads = @ \cup {[file |-> file, with |-> Preferences(s)]}]

SettingsFileIsRead ==
  /\ s.of = "rules"
  /\ \E r \in s.reads :
       LET t == [s EXCEPT !.reads = @ \ {r}] IN
       s' = IF r.file = BrokenFile THEN [t EXCEPT !.preview = {}, !.error = TRUE]
            ELSE [t EXCEPT !.preview = {ParsePreferences(r.file)}]

ApplyImport ==
  /\ May("rules")
  /\ \E p \in s.preview : s' = [Change(Spend, p) EXCEPT !.preview = {}]

CancelImport ==
  /\ s.of = "rules" /\ s.preview # {}
  /\ s' = [s EXCEPT !.preview = {}]

----------------------------------------------------------------------------
(* The rule that is being written: what it watches, from what value on.    *)

Metrics == {"cpu", "memory", "disk"}
\* A part of a processor is watched up to all of it, the others up to more than can be met.
ThresholdMaximum(metric) == IF metric = "cpu" THEN 3 ELSE 9
Clamped(metric, value) == IF value > ThresholdMaximum(metric) THEN ThresholdMaximum(metric) ELSE IF value < 1 THEN 1 ELSE value
StartThreshold(metric) == CASE metric = "cpu" -> 2 [] metric = "memory" -> 6 [] metric = "disk" -> 4

StartDraft == [of |-> "draft", turns |-> MaxTurns, metric |-> "cpu", value |-> 2, chosen |-> FALSE, rules |-> {}]

UpdateMetric(d, metric) == [d EXCEPT !.metric = metric, !.value = StartThreshold(metric)]
ChooseMetric ==
  /\ May("draft")
  /\ \E metric \in Metrics : s' = UpdateMetric(Spend, metric)

ChangeThreshold ==
  /\ May("draft")
  /\ \E value \in {0, s.value - 1, s.value + 1, 9} : s' = [Spend EXCEPT !.value = Clamped(s.metric, value)]

ChooseApplication ==
  /\ May("draft") /\ ~s.chosen
  /\ s' = [Spend EXCEPT !.chosen = TRUE]

AddDraft ==
  /\ May("draft") /\ s.chosen /\ [metric |-> s.metric, value |-> s.value] \notin s.rules
  /\ s' = [Spend EXCEPT !.chosen = FALSE, !.rules = @ \cup {[metric |-> s.metric, value |-> s.value]}]

DraftNext == ChooseMetric \/ ChangeThreshold \/ ChooseApplication \/ AddDraft

----------------------------------------------------------------------------
Init ==
  \/ s = StartDraft
  \/ s = StartSwitches
  \/ s = StartPolicy
  \/ s = StartRules
  \/ \E cur \in {"none", "en", "broken"}, old \in {<<"none", "none">>, <<"en", "none">>, <<"none", "zh-CN">>, <<"en", "zh-CN">>},
        lang \in {"none", "zh-SG", "en"}, browser \in {"en-GB", "xx"} : s = StartStored(cur, old, lang, browser)

SwitchNext ==
  \/ LoginIsRead \/ LoginIsNotRead \/ SetDock \/ SetLogin \/ EnableLogin \/ ChangeLogin
  \/ DockIsSet \/ DockIsRefused \/ LoginIsSet \/ LoginFails \/ RetrySettingsOperation
PolicyNext == ChangeHistory \/ ReadPolicy \/ ConfigurePolicy \/ PolicyIsRefused \/ PolicyIsCleared
StoredNext == StartWindow \/ ChangeLanguage \/ WriteOther \/ QuitWindow \/ BeginReset \/ ReloadAfterReset
RulesNext ==
  \/ UpdateThreshold \/ AddRule \/ ToggleRule \/ RemoveRule \/ RestartWithStored
  \/ ExportSettings \/ ImportSettingsFile \/ SettingsFileIsRead \/ ApplyImport \/ CancelImport

Next == SwitchNext \/ PolicyNext \/ StoredNext \/ RulesNext \/ DraftNext

\* The answers that the window waits for.
Operations == {"login", "dock", "policy", "file", "reload"}
AnswerOf(op) ==
  CASE op = "login" -> LoginIsRead \/ LoginIsNotRead \/ LoginIsSet \/ LoginFails
    [] op = "dock" -> DockIsSet \/ DockIsRefused
    [] op = "policy" -> ReadPolicy \/ ConfigurePolicy \/ PolicyIsRefused
    [] op = "file" -> SettingsFileIsRead
    [] op = "reload" -> ReloadAfterReset
Waiting ==
  \/ s.of = "switch" /\ (s.login.status \in {"loading", "updating"} \/ s.dock.calls # <<>>)
  \/ s.of = "policy" /\ s.queue # <<>>
  \/ s.of = "rules" /\ s.reads # {}
  \/ s.of = "stored" /\ s.resetting

----------------------------------------------------------------------------
\* A switch that the system carried out shows what the system does: launching
\* at login whenever it is not told as unavailable, and the last change could be
\* verified; any switch unless two changes in a row were refused (src/App.tsx, setSettingsOperationFailure).
SwitchesAreTrue ==
  s.of = "switch" =>
    /\ (s.login.calls = <<>> /\ s.login.status = "ready" /\ ~s.unsure) => s.login.value = s.login.system
    /\ (s.dock.calls = <<>> /\ s.refused < 2) => s.dock.value = s.dock.system

\* The toolbox store keeps no history that the preferences exclude.
NothingExcluded ==
  /\ ~s.history => s.native.policy = "off"
  /\ ~s.toolbox => s.native.policy # "both"

\* Turning histories off reaches the toolbox store: when nothing is queued any more
\* it keeps no history that the preferences exclude, unless the store refused the
\* last change, or a change was made while an older one was still queued and none
\* was carried over since (src/App.tsx, configureToolboxPolicy).
HistoryOffReachesStore ==
  (s.of = "policy" /\ s.queue = <<>> /\ ~s.refused /\ ~s.overtaken) => NothingExcluded

\* What the documents promise, however fast the switches are turned: histories that
\* are turned off are not kept any more once nothing is queued, unless the store
\* refused (src/App.tsx, configureToolboxPolicy).
HistoryOffIsHonoured ==
  (s.of = "policy" /\ s.queue = <<>> /\ ~s.refused) => NothingExcluded

\* A preference is that of the version before or the last one chosen, and
\* nothing of what was cleared comes back, under whatever key it was stored
\* (src/storageMigration.ts, src/productSupport.ts).
ClearedIsForgotten ==
  (s.of = "stored" /\ s.running /\ ~s.resetting) =>
    /\ s.cleared => s.value = InitialLanguage("none", s.browser)
    /\ s.first \in Languages => s.value = s.first

\* The thresholds stay in their order, no rule is watched twice, and no rule
\* waits for more than all of a processor (src/components/SettingsExplorer.tsx).
PreferencesMakeSense ==
  /\ s.of = "draft" => \A rule \in s.rules : rule.value \in 1..ThresholdMaximum(rule.metric)
  /\ s.of = "rules" =>
    /\ ValidThresholds(s.limits)
    /\ \A i, j \in DOMAIN s.rules : i # j => Rule(s.rules[i].app, s.rules[i].long) # Rule(s.rules[j].app, s.rules[j].long)
=============================================================================
