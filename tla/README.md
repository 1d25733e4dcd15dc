# TLA+ models of CoreRobin

CoreRobin is a desktop application (Tauri: a Rust core under
`src-tauri/src/`, a React frontend under `src/`). It watches the machine, cleans
disks, controls processes, keeps the computer awake, locks the keyboard for
cleaning, runs scheduled actions, and has an assistant that talks to a model
service and may act on the machine after a confirmation. This directory models
the parts where threads, windows, timers, failing writes and restarts meet,
checks them with TLC and proves the most important facts with TLAPS.

Two layers are modelled. The assistant's service is translated from Rust, with
any window calling any command at any moment. The windows, their hooks and
pure algorithms are translated from TypeScript; the native side that answers
them is cut to what a page can tell of it, and is marked external in the `map` of
`PROJECT.json` wherever the module does not translate it.

## Inventory

| Part | State | Operations | What is hard | What makes it correct |
|---|---|---|---|---|
| AI requests: `ai/service.rs`, `ai/conversations.rs` | one mutex around `Inner`: settings, `prepared`, `active`, `unsaved`, `temporary`, receipts; tables `ai_sessions`, `ai_runs` | prepare, start, the spawned task, delta, finish, cancel, invalidate, delete, clear, open | the task gives the mutex up between steps; every write may fail; a crash at any point | one request at a time; no replay; a stop wins; no reply forgotten; deleted stays deleted |
| AI tool loop: `run_task`, `capability_action_service.rs`, `ai_task_bridge.rs` | steps of the reply, pending approval, one-shot channel, locals of the loop | rounds, tool steps, confirm, resolve | the answer is sent outside the mutex and races with the timeout and a stop | only approved actions run, each once; a refusal holds; a step never claims more than happened |
| AI connections: `ai/service.rs`, `ai/credentials.rs` | configuration, secrets in memory, system keyring, `keyring_io`, `clearing_all`, three places for work | save, delete, set and delete a secret, clear_all, chat, discovery, test | the mutex is given up for the keyring; lookups may hang | no orphaned secret; secrets stay with their target; the guard never leaks |
| Chat, settings of the assistant, companion: `components/ai/`, `RobinCompanionWindow.tsx`, `TrayPanel.tsx` | drafts with revisions in two windows, the form of a connection, windows shown and enlarged | type, save, lead, send; save, test, set default; show, hide, expand | two windows over one draft, reads that overtake each other, messages that arrive late | no text replaced unseen; keys stay with their place; a check is of what is saved; a window shown as asked |
| Disk scan and its page: `useCleanupScan.ts`, `CleanupAssistant.tsx`, `cleanup_scan_job.rs` | one native job, its previews, kept scans | start, poll, cancel, compare, apply a deletion | polls and previews in flight while the job ends or is replaced | a preview is never kept as a scan; growth is since the last scan of the same target |
| Map, deletion, file insights, quick cleanup, uninstall: `CleanupSpaceMap.tsx`, `FileInsightsExplorer.tsx`, `useQuickCleanup.ts`, `ApplicationUninstallAssistant.tsx` | selection, lease, snapshot, plan, folders loaded | choose, prepare, confirm, delete, recheck | the selection, the disk and the plan change while a call is under way | what is removed is what was confirmed, in the mode confirmed |
| Histories and privacy: `useNativeHistoryStorage.ts`, `history_storage.rs`, `useProductDataPrivacy.ts`, `historyStore.ts` and others | points in memory, the file, write generations | load, save, migrate, clear, export | a save or a load in flight while the category is cleared | cleared stays cleared; what is told as stored is stored |
| Settings: `App.tsx`, `settings.ts`, `SettingsExplorer.tsx` | stored preferences, switches the system carries out, native policy | change, import, export, migrate, clear all | a switch answered late, refused or in parts | the switches are true; histories forbidden are not kept |
| Monitoring: `useSystemMonitor.ts`, `diagnosis.ts`, `dailyIncidents.ts`, `resourceAlerts.ts`, `weeklyReview.ts`, ... | samples, pending and active conditions, rings, baselines | sample, pause, evaluate, publish | gaps, sleep, restarts, two windows, a clock set back | nothing claimed without evidence, told twice or miscounted |
| Process list and control: `processExplorer.ts`, `App.tsx`, `process_control.rs` | rows, selection, dialog, leases | select, prepare, confirm, restart | numbers of processes are reused | one action, on the process shown, for one confirmation |
| Network page, startup items, user actions | polls, checks, measurements, records | read, check, clear, switch | late reads, shared checks, a restart in between | counted once; recorded as it happened |
| Tools: `toolbox/binary-patch`, `toolbox/image`, `ToolOperation.tsx`, `toolbox_scheduler.rs`, `toolbox_service.rs` | jobs, inputs, outputs, rules, receipts, demands | run, cancel, save, hand on, poll | leaving a page at any await; deadlines; a crash between intent and action | nothing held for nobody; a run asked once runs once |
| Keyboard cleaning: `keyboardCleaning.ts`, `keyboard_cleaning_adapter.rs`, `helper_runtime.rs` | session, deadlines, helper process | start, signals, tick, release | heartbeats, deadlines and late signals race | the keyboard comes back; it is blocked only behind the mask |
| Update and support: `useAppUpdater.ts`, `app_update.rs` | check, prompt, native task | check, install, follow, resume | a window loses and finds the task | what is ready was installed; no release offered that was put off |
| Native workers: sampler, sensors, supervisor, cleanup index, safe files, keep-awake, process watch, source-clear tokens | mostly data and the system's answers | see `PROJECT.json` | little state a page can tell | see "Not modelled" |

How they interact: commands in `lib.rs`, `ai_commands.rs` and
`toolbox_commands.rs` call the services; the assistant reaches process control
and cleanup through `ai_task_bridge.rs` after a confirmation; pages take a lease
before they act and name it when they do; clearing data begins a source clear of
the assistant, then deletes files, then finishes it; services tell the windows to
refresh by events, which may arrive before or after an answer. Each page works
against the native side and its own storage, and hardly against other pages,
which is why the pages are modelled one by one.

`PROJECT.json` lists every component with its status, the hazards at the lines
where they bite, and which property covers each.

## Modules

The assistant's service:

| Module | Models |
|---|---|
| `AiReply` | abstract: what the assistant promises about the answer to a question |
| `AiRequests` | the life of a request, its copies in the store, and everything that stops it; implements `AiReply` |
| `AiRequestsProofs` | its types, its slot, that a stop wins, what it keeps on record, and that it implements `AiReply`, proved with TLAPS |
| `AiTask` | the tool loop of one request, confirmations and tool runs |
| `AiMC` | for TLC: the tool loop or, with few conversations, the life of a request, and that both end |
| `AiConnections` | connections, credentials, the keyring guard and the work that uses a connection |
| `AiTaskProofs` | what may run, and what is told of it, proved for any calls and limits |
| `AiConnectionsProofs` | the guard, the places, and where the secrets are, proved |

Pages that remove and keep things (`MaintenanceMC`):

| Module | Models |
|---|---|
| `CleanupScan` | the hook that follows a native scan: polls, previews, the end, a page that comes back |
| `CleanupPage` | targets and access, the scans kept and compared, the tree after a removal |
| `CleanupMap` | the basket of the map and its deletion |
| `DeleteDialog` | the deletion dialog with its leases and refreshed targets, shared by the map, the file insights and the uninstall page |
| `FileInsights` | scan, groups of copies, choice and removal |
| `QuickCleanup` | analysis, choice and run over a native view with revisions |
| `Uninstall` | the plan of an application, its deletion, and the watch of the trash |
| `NativeHistory` | a history in a native file with write generations |
| `DataPrivacy` | clearing a category, or all, with the assistant kept out meanwhile |
| `HistoryPage` | the application history, its export, stories and the replay |
| `Settings` | switches, native policy, storage and migration, import and export |
| `RemovalProofs` | what the operators of `DeleteDialog` keep, for any items; what is removed is what was confirmed, on the four pages that remove; `ClearedIsGone`, on the four pages that keep things; proved for any number of operations |

What is made of samples (`MonitoringMC`):

| Module | Models |
|---|---|
| `SystemMonitor` | samples and pauses, sleep, sensors, energy, the inventory |
| `Diagnosis` | sustained findings and who is blamed |
| `Incidents` | the life of an incident, its publication to the windows, and the status items of today |
| `Alerts` | alerts, reminders and the stories made of them; the notices of the desktop and their permission |
| `Histories` | buckets, retention and bounds of the kept samples; the record of what the user did |
| `Reviews` | baseline, reviews, battery sessions |
| `ProcessList` | rows, groups and the selected process |
| `NetworkPage` | connections, their history, quality checks, lists |
| `Startup` | startup items and the measurement of a start |

Pages that act (`ToolsMC`):

| Module | Models |
|---|---|
| `ProcessControl` | closing, ending and restarting a process |
| `BinaryPatch` | the patch tools over native jobs |
| `ImageExecution` | workers, the archive, previews, metadata |
| `ImageTools` | the page around them: runs, outputs, deliveries |
| `ToolPages` | text tools, scheduled actions, occupancy, hashes, addresses, keep-awake |
| `KeyboardCleaning` | page, adapter and helper of a cleaning |
| `AppUpdate` | checks, reminders, the installation, reports |
| `AiChat`, `AiSettings` | the windows of the assistant |
| `Companion` | the companion's window and the menu-bar panel |
| `CleanupView` | moving about in the map: folders, focus, list; the arcs that are drawn and hit |
| `ToolProofs`, `HeldProofs` | `NothingIsHeld`, on the five pages that hold something, proved for any number of operations |
| `LateProofs` | `LateAnswersFit`: what a late answer may do to what was done since it was asked, on the five pages that show late answers, proved likewise |

### How the page modules are written

A page module has one variable, the record `s`: the React state and refs of the
page, what is stored, and what the native side holds. A handler that runs without
an `await` is one action, with the effects that React runs for it; a handler with
awaits is split at each of them. A call under way is an element of a set (or,
where the native side serves calls in order, of a sequence) that carries what the
handler captured before its await; `AnswerOf(op)` is the continuation. So a late
answer meets whatever happened since, as it does in the code, and every check of
a sequence number, an epoch or a mounted flag is a guard of the answer. Answers
come in any order and may fail wherever the code has an error path. Leaving a page
and coming back are actions where the page keeps calls or leases across them.

Fields that are history (what was confirmed, when a clear happened, what was
sampled) are only read by properties; each is commented at the field.

`MaintenanceMC`, `MonitoringMC` and `ToolsMC` compose the pages: a behaviour runs one of them,
named by `focus`, with the bounds of its instance. This is a sum of the pages and
no interleaving of two: they share no state but the native side, which each
module holds as far as it can tell. The properties of a suite say once what the
pages promise in common, and conjoin what that means for each; the mutants in
`PROJECT.json` break the conjuncts of the different pages one at a time.

Where a module holds several things that never meet (the settings, the tool
pages, the network page), `Init` chooses one of them and a field `of` of the record
names it, so that a behaviour is about one.

The three modules of the service cut it along its state. `AiRequests` has no
tools, `AiTask` looks at one request and takes from `AiRequests` (`ActiveIsCurrent`)
that the epoch matches and the assistant is enabled exactly while the slot is the
request's own; `AiConnections` keeps of a request what decides whether it may use a
connection. `clear_all` is in `AiConnections` up to the deletion of the keys; in
`AiRequests` it is `Invalidate` followed by `ClearConversations`. The gate
`clearing_all` between them is in `AiConnections` (`ClearingIsQuiet`). `AiMC` puts
`AiTask` and `AiRequests` beside each other, one of them moving, to ask of both that
their work ends.

### AiRequests

Each handler that holds the mutex is one action; the spawned task is split where
it gives the mutex up. `row` is the row of a conversation (`ai_sessions`, or its
entry in `temporary`), `kept` the status that copy gives the reply, `receipt` the
entry in `ai_runs` or `volatile_submissions`, `message` the copy in memory
(`Active.session` or `unsaved`), `flagged` the conversations with
`storage_status == "error"`, `task` the position of the spawned task and
`cancelled` its shared flag. A parameter `ok` or `saved` tells whether the write
of the handler succeeded; `Extent` tells how far a deletion in several
transactions came. `EndReply` is `persist_completed`, shared by `finish` and
`stop_active`. The texts, token counts, limits of size and the connection of a
request are left out; a request may fail wherever the code lets it.
`Restart` is a crash and `AiService::open`.

Three variables are history: `sent` (the model was contacted), `stopped`,
and `lost` (the final write failed). `lost` is needed because of something the code
does: when the final write fails and the user saves the reply later, the receipt
still says `pending` until the next start of the application, which makes it
`interrupted` although the reply is complete.

### AiTask

`Inner.active` appears as `slot`, the flag as `flag`, the tool steps in memory and
in the store as `step` and `stored`. A confirmation is `OpenConfirmation`,
`WaitEnds`, `CloseConfirmation`; a window answers with `Resolve` under the mutex
and `SendAnswer` after it. A modifying call goes through `Lease`, the confirmation,
`CheckApproved` and `Dispatch`; `late` counts what starts after the slot is lost.
One thing may start late, the tool run or the request to the model, because the last
check is made before it and not in the same critical section: before a tool runs the
mutex is given up, and before a request goes out its addresses are awaited
(`Ask`, then `Connect`; in `AiRequests` `OpenRequest`, then `Connect`), with the flag
polled every 25 ms. `AtMostOneLateStart` states that this is all; that it is not nothing
is under "Findings". `BeginOverlong`, `OpenOverlong` and `RecordOverlong` are the tails of
`update_task` when the steps outgrow their limit of size: memory is changed, nothing
is written, and the caller gets an error.

### AiConnections

A handler that needs the keyring is two actions with `KeyringCall` between them;
`edit` is the handler in between, `guard` the `keyring_io` flag. `conn` is the
configuration in memory and in the store (they change in the same critical
sections), `memory` and `keyring` the secrets. `active`, `discovery` and `test`
are the three places; `at` is the position of each piece of work. `looking` is the
blocking thread of a lookup, which keeps the guard even when the work that asked
has given up.

### Pages: what is abstracted

- `DeleteDialog` is a record and pure operators on it; the three pages that use it
  differ in what they select and in what they do after a deletion, and this is
  what their modules add.
- `KeyboardCleaning` has the machine of the page, the adapter and the helper as
  three parties with messages between them. The Rust `Controller` in
  `keyboard_cleaning/mod.rs` is run only by tests; the program uses its messages.
- `Incidents` keeps, beside the trackers, what was published and what each window
  has heard and asked for, so that a window may hear of two revisions in either
  order.
- `Alerts`, `Diagnosis`, `Histories` and `Reviews` are mostly pure algorithms over
  samples. The module keeps the samples as they were taken beside what the code
  made of them, and the properties compare the two through definitions of their
  own (`KeptAsSampled`, `PeriodsAddUp`, `SustainedIsSeen`).
- `BinaryPatch` has the runs of the tools over native jobs, and as a second part the
  archive the planner writes chunk by chunk; a run may be stopped in either.
- `CleanupView` has, beside the browsing of folders, the chart of one: a folder with
  up to three children of seven shapes, at most `MaxArcs` arcs, two rings where the
  code has five. A circle is 3600 steps, and `MinVisible` (500 of them) is wide
  enough that small children are summed within these shapes.
- `Alerts` has a second part, the notices of `useDesktopNotifications`: the setting, the
  permission of the system, the listeners that arrive late, and a window closed
  meanwhile. A sample may be passed over in the first part, which costs an act.
- `Incidents` makes today's status items from the trackers and the last readings and
  compares the two ways of the code to tell how the day is (`StripAgrees`).
- Times are ticks with a few per threshold, so that "exactly at", "before" and
  "after" are different ticks; sizes are in units; names are members of small sets.

## Runs

| Run | Instance | Shows |
|---|---|---|
| `requests` | 2 requests, a stored and a temporary conversation, 2 submissions, 1 preparation, 2 epochs | `TypeOK`, `ActiveIsCurrent`, `FlagFollowsSlot`, `SentIsRecorded`, `StopWins`, `NoAbandonedReply`, `NoReplay`, `DeletedStaysDeleted`, `SendIsChecked`; `ImplementsReply`: the service implements `AiReply` |
| `task` | an inspection and two modifying calls, 2 rounds, 3 calls, 2 per answer; or 2 requests, 1 stored conversation, 2 preparations | the safety of confirmations, `LoopEnds`; `SlotComesFree` |
| `connections` | 1 connection, 1 slot, 2 pieces of work, 3 revisions, 3 epochs | who holds the guard and the places, `NoOrphanSecret`, `SecretsStayWithTarget`, and `WorkFinishes` |
| `connections_change` | 1 connection, 1 piece of work | a counterexample to `NoWorkAfterChange` |
| `maintenance` | ten pages, bounds in `MaintenanceMC` and its `.cfg` | `RemovedAsConfirmed`, `ClearedIsGone`, `StoredAsTold`, `WorkEnds` |
| `monitoring` | nine parts, bounds in `MonitoringMC` | `ClaimsAreEarned`, `NothingIsMiscounted`, `ToldOnce`, `NeverStepsBack`, `ShownFollows` |
| `tools` | eleven pages and windows, bounds in `ToolsMC` and its `.cfg` | `DoneAsAsked`, `NothingIsHeld`, `ShownIsSo`, `LateAnswersFit`, `ToolsEnd` |
| `files_kept` | `FileInsights` alone, 4 operations | a counterexample to `OneCopyIsKept` |
| `mask_is_lifted` | `KeyboardCleaning` alone, 1 session | a counterexample to `MaskIsLifted` |
| `stop` | `AiTask` alone, as in `task` | a counterexample to `NothingStartsAfterStop` |
| `history_off` | `Settings` alone, 3 changes | a counterexample to `HistoryOffIsHonoured` |
| `occurrence` | the scheduled actions of `ToolPages`, daily rules, 6 turns | a counterexample to `OccurrenceIsNotRepeated` |

`TypeOK` is checked and proved for `AiRequests`; for `AiTask` and `AiConnections` it
is proved (`TaskTypeCorrect`, `ConnectionsTypeCorrect`) and not part of a run.

A helper of the code that has no entry of its own in `map` is read with the
operation that uses it: the lines of an operation are the handler and the helpers
only it calls.

### Bounds

Two requests are enough for a late end to meet the next request, and the
invariants speak of at most two; a stored and a temporary conversation take
different paths through every handler. `MaxEpoch` bounds the number of
invalidations between two restarts: one is enough to make every captured value
stale, and a second one in `AiConnections` lets an edit invalidate twice.
`MaxPrepared` is 1 instead of 32 so that the full map is met. Three calls hold a
refused call, a repetition of it and another target; the limits of rounds and
calls are reached within them. The identifiers are interchangeable, so symmetry is
used in `requests`; it is not used with liveness. In `requests` a submission is
repeated with the one preparation or without one; that two preparations with the
same submission start one request is covered by the proof (`ReplayCorrect`). In `requests`
the conversation that `select_session_model` makes from another one
(`CreateSession(s, old)` with `old # s`) would need two conversations of one kind:
it is enabled in the module and covered by the proofs, while in the runs every
creation is a plain one.

The pages are bounded by what the user and the clock do (`MaxActs`, `MaxTurns`,
`MaxSamples`, `MaxEvals`); answers are not bounded. Two operations of one kind let a
late answer of the first meet the second; a third one in between (a clear, a
cancel, a change of the selection) is what most of the hazards need, and the
bounds allow three or four in all but the largest pages. `AiChat` has two windows
and three turns, edits and operations in any mix, which is enough for each window
to act on a text of the other. Where a limit is met (kept scans, retained points,
receipts, a full page) the instance has a limit of two to four instead of the
code's, so that it is reached and passed; `Receipts` is the code's own 8 and is not
reached. `KeyboardCleaning` runs two sessions with times of one second each, so
that a signal of the first arrives in the second; `mask_is_lifted` has longer times
and one session. `Settings` lets the user change a preference back before the
synchronisation of the native policy has run; `HistoryOffReachesStore` speaks of what
holds then (no change was `overtaken`), `HistoryOffIsHonoured` of what the documents
promise. `OncePerOccurrence` is about a clock that is never set back,
`OccurrenceIsNotRepeated` about any. `Alerts!StillHappening` is about alerts that began in
this run of the program. Each suite has between 370 and 950 thousand states.

`AiTask` stops when its request is over and the pages stop when their bound is
reached, so these runs do not check for deadlock; the other modules can always
restart. That a page does not get stuck is what the liveness properties say.

### Fairness

`SlotComesFree`, `LoopEnds` and `WorkFinishes` assume that the async
runtime keeps polling a spawned task (weak fairness of its steps). This is what
tokio does; each wait in the task has a timeout (`transport::cancellable`,
the 25 ms poll of the flag, the deadline of a confirmation), so its next step is
always enabled at last. Nothing is assumed of users, the store, the keyring or
the model service. In `AiConnections` strong fairness of `WorkEnds` stands for the
bounded number of rounds of the tool loop, which `AiTask` shows to end.

`WorkEnds`, `ToolsEnd` and `ShownFollows` assume weak fairness of `AnswerOf(op)` for each
call under way: a Tauri command that was made is answered or fails, a message sent
to a window is heard, a timer that was set fires, a worker ends. In `ToolsMC`
it is less: of all that a page waits for, something comes (fairness of its next
answer, whichever call that is of), except for the updates and the chat, where each
call is answered, in the chat those of each window. Where the order
of the calls is the native side's, fairness is of its next answer too. Nothing is
assumed of the user, who may leave, cancel or do nothing, nor of whether an answer
is a success. These runs cannot show that the native side does answer.

## Findings

Six runs find the code to differ from what the repository says of it.

`connections_change`: `delete_connection` (`ai/service.rs:349`) invalidates first,
then gives the mutex up for the keyring, and removes the connection afterwards
without another invalidation. `prepare` and `start` are allowed in between. The
chat that starts there is not flagged: if it has passed `ready_for_send` when the
connection goes, its request still goes out, and one answer of the model may
still run a tool; only the check of the next round stops it. `delete_secret` and
a temporary `set_secret` have the same shape. `docs/ai-task-execution-design.md:29`
says that after a configuration change there are no further tools or outbound
requests. A related gap is that `save_connection` returns before its
invalidation when the capability record cannot be written (`noted` in the model).

`files_kept`: the file insights choose once per scan which copy of a group is kept
(`FileInsightsExplorer.tsx:187`, `:209`). When that copy is removed as an old file
the choice stays, and processing the rest of the group removes every remaining
copy. `src/i18n/locales/en/cleanup.json:404` promises that one file is kept.

`mask_is_lifted`: when the helper is not started (the window is not in front, or an
older helper still runs), the page goes from preparing to releasing and waits for
an acknowledgement that nobody sends: `stop` finds no session
(`keyboard_cleaning_adapter.rs:133`), the button of the mask is disabled, and only
leaving the page lifts it. `docs/toolbox-v1.md:498` and `:507` say otherwise.

`stop`: `transport::cancellable` reads the cancel flag outside the mutex
(`transport.rs:449`), `generate` then awaits the addresses (`providers.rs:211`) and sends
(`:217`), with the flag polled every 25 ms; `invoke_tool` checks the slot and gives
the mutex up before the tool runs. A stop in between does not prevent the request
or the run. It is one at most, and nothing follows from it (`AtMostOneLateStart`), but
`docs/ai-task-execution-design.md:29` says that there is none after a cancel.

`history_off`: when the histories are turned on and off again while the first change is
still queued, that change is only marked as disposed (`App.tsx:1108`), which does not stop
it, and the second is not queued, because `toolboxPolicySignatureRef` still holds the
same policy (`App.tsx:1071`). The native store then keeps histories that the settings say
are off. `docs/toolbox-v1.md:455` says that nothing more is stored once they are off, and
`:453` that the settings show what the store confirmed.

`occurrence`: a rule that is paused and resumed after the clock was set back takes its next
occurrence from the clock alone (`toolbox_scheduler.rs:1369`) and runs one it has run
before. The watermark of handled occurrences is written (`:1183`) and its form checked
when the file is loaded, but no occurrence is compared with it.
`docs/toolbox-v1.md:361` says that it avoids the repeat.

## Observations

Behaviour met while modelling that the modules keep as it is without a property that
fails: most of it no line of the repository promises otherwise; where one does, it is
named. The properties of the suites leave these cases out and their comments
say so. Each is in the module named.

- `ProcessControl`: the second staleness check of `handleAction` gives up without
  releasing the lease; a dialog opened for another process while a submission
  runs is dropped with its lease. Leases end after 60 s.
- `BinaryPatch`: cancelling a job whose output is ready keeps the bytes in `outputs`
  (`toolbox_service.rs:776`); nothing expires them afterwards, though
  `docs/toolbox-v1.md:406` has what was given up released. An output that
  expired leaves the page with Save and Cancel that fail, until it is left. The
  archive's size is compared with that of the buffer that was allocated with
  the expected size, so the comparison cannot fail; what does is a chunk that
  the buffer refuses.
- `AiChat`: `start` clears the stored draft whatever it is, one the other window saved
  meanwhile included (`docs/ai-model-integration-design.md:76` has the draft's revision
  protect it); a change of the context between Send and the preparation can adopt the
  other window's draft; text typed while being led elsewhere is dropped
  (`AiAssistant.tsx:484-494`, `:513-518`), and so is a prompt that is brought to a new
  conversation while a sending is under way, when that ends (`:642-668`). `TypedIsKept`
  names all of them.
- `AiSettings`: a key typed before the kind of authorisation is set to none leaves the
  form changed; changing the network policy drops stored credentials; what was
  not saved is overwritten by a read.
- `ImageTools`: a shown result outlives a failed check of its inputs; a run or
  delivery registered after leaving the page keeps its output until its timeout, where
  `docs/toolbox-v1.md:406` has it released when the page is left.
- `NetworkPage`: a sample cleared just before the next published check stays in the
  samples of the session when a newer result is learned first; switching the history off
  and on counts one snapshot again (`useConnectionHistory.ts:41-48`); a change of retention
  during host lookups loses their observation (`:87-90`). `CountedOnce` counts both
  exactly: once for each time the history was enabled, less what was dropped so.
- `CleanupScan`: a map that was cleared can come back: the stored result that is being
  read when the page is entered becomes what a later scan falls back to, whatever was
  touched meanwhile (`useCleanupScan.ts:94`), and a deletion under way stores its snapshot
  afterwards (`:459-468`). `ClearedIsGone` says of the scan only what becomes of
  previews.
- `CleanupPage`: "continue with a complete scan" during a check of access starts it,
  and the answered check then starts the scan of the earlier target.
- `CleanupView`: every later sample of the same scan drops the folders loaded page by
  page, so a focus inside one falls back to the root; a reload begun at a
  checkpoint drops a folder loaded meanwhile.
- `Settings`: one rule with a long name makes all rules unreadable after a restart; a
  switch set while it is loading is overwritten.
- `AppUpdate`: a late answer that a task failed can show the error of an older
  installation while a new one runs.
- `KeyboardCleaning`: a clock set back makes every dispatch fail until it caught up.
- `ToolPages`: the volume of the occupancy tool may be changed while its lease is made,
  and the first is then ejected under the name of the second; a text tool tells that a
  run failed whatever was edited since (`ToolOperation.tsx:188`, `:205`, `:325`).
- `Startup`: a page left while its lease is made leaves a record "running"; a list
  begun before a verified change overwrites it; a list that fails is asked for
  again without end.
- `HistoryPage`: an unreadable stored history is overwritten by the next save; a save
  in flight may write cleared points back; every new point replaces the chosen one
  while a story is followed.
- `SystemMonitor`: a control command that fails is not told again while heartbeats
  succeed; a late unforced read of the inventory overwrites a newer forced one.
- `Companion`: the collapse handler leaves the epoch of a resize under way, so that a
  bubble may be drawn in a collapsed window.
- `DataPrivacy`: clearing the resource history alone is told as not verified while
  other native histories have a size.
- `Alerts`: after a restart, a stored alert without its recovery is told as still
  happening. The effect of `useDesktopNotifications` that announces an alert from the
  window itself, with its daily budget, never runs: the status is "ready" only in
  the desktop program, where the effect returns at once. An answer about the
  permission that is under way when the events change is dropped, until the
  window is looked at again.

## Proofs

Everything below is proved for every value of the constants (for example any number
of conversations, requests, calls of tools, connections, pieces of work and operations
of a page).

`AiRequestsProofs`:

- `TypeCorrect`: `Spec => []TypeOK`. `TypeOK` is not inductive: `Cancel` and the
  deletions read `origin[active]`, which is only a record for a started request.
  The invariant is `TypeInv == TypeOK /\ ActiveStarted`.
- `FlagCorrect`: `Spec => []FlagFollowsSlot`, with `TypeInv`. Only `StopActive`,
  `Finish`, `Begin` and `Restart` touch the slot; the first raises the flag, the
  second ends the task, the third starts from an empty slot, the last ends all.
- `SendCorrect`: `Spec => SendIsChecked`. Only `OpenRequest` opens a call, with the flag
  down, so the request owns the slot by `FlagFollowsSlot` and is current by
  `ActiveIsCurrent`; what goes out later (`Connect`) owns it still or has its flag up.
- `ActiveCorrect`: `Spec => []ActiveIsCurrent`, inductive together with `TypeInv`:
  whatever disables the assistant, raises the epoch or deletes the conversation
  empties the slot in the same step, and `MayBegin` asks for the rest.

From `Inv == TypeInv /\ ActiveIsCurrent`, in the same module:

- `StopCorrect`: `Spec => []StopWins`. The invariant `StopInv` adds that a stopped
  request was started and is not active: what is stopped was open, so nothing had
  completed it, and what ends later (`Finish`) is the active request, another one.

The second half of the module sorts the steps by what they do to the copies of a reply
(`StepKinds`: aside, a new conversation, a save, a beginning, a write, an end with
or without a deletion, a restart) and proves `Records` inductive kind by kind.
`Records` says that a started request has both copies while its conversation is
live and none in it afterwards (`KeptWithRow`), that only ended replies wait in
`unsaved` (`UnsavedEnded`), and `NoAbandonedReply`. Without the second conjunct a
save could write an open reply nobody ends; without the first a receipt could be
missing when a submission is repeated. From it:

- `RecordedCorrect`: `Spec => []SentIsRecorded`.
- `AbandonedCorrect`: `Spec => []NoAbandonedReply`.
- `DeletedCorrect`: `Spec => DeletedStaysDeleted`, with `RowsOnlyEnd`: the origin of
  a started request is fixed and a deleted conversation stays deleted, with its
  replies and the receipts that went with it.
- `ReplayCorrect`: `Spec => []NoReplay`, with `Spent`: a preparation in use is minted
  and no longer held. `MayBegin` asks for a submission without a receipt, which by
  `KeptWithRow` means that no live conversation has it.

That `AiRequests` implements `AiReply` is in the same module:

- `ReplyImplemented`: `Spec => ImplementsReply`. `MemoryInv` adds that a message is in
  memory only for the active request or an unsaved one, that at most one reply is
  unsaved, and that its stored copy is still open. Each kind of step is then a step
  of `AiReply` or a stutter (`ReplyStep`): a save secures, a beginning asks, an end
  answers and forgets, a restart interrupts.

The assumptions are those of `AiRequests`: temporary conversations are
conversations, the null values are outside their sets, and the bounds are natural.

`AiTaskProofs`, from `TaskInv`:

The properties of a task are about what ran, and what ran was decided earlier: the
loop checks, gives the mutex up, waits for a window or for the store, and goes on
with what it kept in its locals. None of the properties is inductive, so `TaskInv`
adds what the task may rely on at each place in between:

- `NumberInv`: steps are numbered as they begin, the current one is the head of the
  queue, and nothing is known of a step that has not begun. Without it a
  repetition could be confused with the call it repeats.
- `AnswerInv` and `VerdictInv`: a step is answered once, also when a window carries its
  answer outside the mutex; the verdict of the loop, the value in the one-shot
  channel and the answer of the window are of one step. `ApprovalCorrect` follows.
- `RefusalInv`: a refusal is in `declined`, or the request was stopped, or it is that of
  the current step and on its way to `declined`. This is what makes `RefusalHolds`
  survive the gap between the answer and the loop that hears it
  (`RefusalCorrect`).
- `CacheInv`: what ran is in `completed`, or is the current step and not yet recorded, or
  the loop is over; a call on its way to the tool is not in `completed`
  (`RunOnceCorrect`).
- `SlotInv` and `LateInv`: a lost slot raised the flag; only such a task is late
  (`LateStartCorrect`, `PromptCorrect`).
- `CompleteInv` and `TraceInv`: what says "complete" ran; what began is in memory, the
  current step in the store (`CompleteCorrect`, `TraceCorrect`).

Each conjunct has one lemma (`...Step`), with one step per action that can disturb it.
The proof needs no more of the constants than that the limits are natural and
positive; `Modifying` is any subset of `Calls`.

`AiConnectionsProofs`, from `ConnInv`:

A handler that edits gives the mutex up between its two critical sections, for one
call of the keyring per entry, each of which may fail; lookups, work and new work
go on meanwhile. `ConnInv` adds to the properties:

- `RoomInv`: while an edit is suspended its connection exists (the second
  half reads and raises its revision), which is why other edits have to be refused
  while the guard is held.
- `LeftInv`: what the edit is there to remove (`Doomed`) and is still in the keyring is
  among `left`, so an edit that ends without a failure leaves nothing behind; a secret
  that is written replaces one that is referred to. `NoOrphanCorrect` and
  `TargetCorrect` rest on it.
- `LiveInv` and `ExclusiveInv`: work that is not flagged holds one of the three places,
  and a chat excludes a test. `ExclusiveCorrect` is these with `PlacesAreOwned`.

The steps are sorted by what they can change: `EditSide` (handlers and the steps of a
suspended edit), `TaskSide` (work and lookups) and `Restart` (`NextSides`), with one lemma
each on what the two sides do to the guard and to the edit. The assumptions are the
module's: the null values are outside the sets they are added to, and the bounds are
positive.

`RemovalProofs`, from `PagesGood`:

- `RemovedCorrect`: `Spec => []RemovedAsConfirmed`, for any number of operations the user
  or a scan begins on the cleanup map, the file insights, the uninstall page and the
  quick cleanup.

`RemovedAsConfirmed` compares what the native side deleted with what the user confirmed.
Between the two lie a lease that the native side keeps, requests for a lease whose
answers may be late, a switch of the mode that fails or is overtaken, and the page
going on. `DialogInv` says when such a dialog is in order:

- `OrderInv`: of the requests for a lease or a mode no two have one number, and none a
  later one than the dialog's. An answer that is taken is therefore the newest one.
- `IdInv`: the leases of the native side are told apart by their number, and what is
  asked about is one that was made.
- `LeaseInv`: the lease the dialog holds is the native one of its number, of the items
  that are shown; while one is being prepared the dialog holds none.
- `SwitchInv`: a mode is only being changed for the lease that is held, with the dialog
  busy; a late answer is for another lease.
- `BusyInv` and `SentInv`: a deletion under way keeps the dialog busy and is alone; its
  lease still has the items and the mode that were confirmed, and no change of the
  mode can reach it. Without the last part the mode could change between the
  confirmation and the deletion.

The first part of the module proves that every operator of `DeleteDialog` keeps them (`...Good`), for
any family of items. Each page adds what it needs: the map and the file insights
that nothing is sent while a deletion is applied (`Applying`); the map that the guarded
folder is in neither basket nor dialog (its types); the uninstall page that the
plan shown is the one asked for last and that the deletion is of its items
(`PlanInv`, `AskedInv`), so that the kind of a request is that of what it removes; the quick
cleanup that the trash is only chosen by the user's hand (`ChoiceInv`, `ViewInv`,
`CleanInv`). `MapDialog`, `FilesDialog` and `AppsDialog` identify the operators of
the three instances with those the lemmas are about. The only assumption is that
the bounds are natural numbers (`ActsAssumption`). The other pages of `MaintenanceMC`
leave the four alone because a behaviour stays on its page.

In the same module, from `ClearedGood`:

- `ClearedCorrect`: `Spec => []ClearedIsGone`, for any number of operations on the file
  insights, the native histories, the scan of the disk and the preferences. Of the scan
  it says that one loop at most follows the newest one and that no preview is kept;
  not that a cleared map stays gone, which it need not.

What was cleared could come back from a place nobody looks at: a write that is queued, an
answer under way, a file of an older version. Each page has an invariant that
names all of these places.

- `FilesCleared`: a result is numbered by when it was found. What is shown, cached, waits to
  be written (`WritesInv`, in the order of the queue) or will be taken from a scan that
  still runs (`ScansInv`) was found after every clear, those that wait in the queue
  or for the end of the scan among them (`After`). `UntouchedInv` is why
  the cached result, read late, may be shown: only while nothing was cleared.
- `NativeGood`: no copy of a history (shown, in the file, in the old key, pending, in a
  save, a migration or an answer) holds a point that was cleared (`FreshInv`); this
  needs that nothing but the clear itself is under way while it runs (`ClearingInv`).
- `ScanGood`: of the calls that follow the newest scan there is one at most, from the
  question on opening on (`OneLoop`), and no later one; each answer hands its loop on or
  ends it. What a scan falls back to is never a preview.
- `StoredGood`: what an open window shows is stored under the key of this version; what a
  closed one left is read as the last choice, or, after a reset, as nothing or as the
  language of a fresh start. `MovedReadsTheSame`: a migration, also one that is cut
  short, does not change what is read. The other parts of `Settings` only have to stay
  what they are (`Part`).

`ToolProofs` and `HeldProofs`, from `HeldGood`:

- `HeldCorrect`: `Spec => []NothingIsHeld`, for any number of operations on the
  processes, the local tools, the pictures and the patches, and any number of sessions of
  the keyboard, of any length. It is about work, inputs, addresses and leases; the bytes
  of an output nobody saved are under "Observations".

What is held has an owner that may go first: a page that is left, a window that is loaded
again, a host that dies. Each page has an invariant that names, for all that is held, who
will let it go.

- `KeysGood`: a tap that filters the keyboard is at most `Grace` seconds alone, that is
  without a page that shows its mask. The helper counts the seconds since it heard from the
  host, not the seconds alone, so the invariant relates the two: while it is alone no
  heartbeat for it is under way, neither on its way to the host nor to the helper
  (`Abandoned`), it has heard nothing for at least as long, and once in every second it
  looks (`HelperGood`). A heartbeat sent before the page was left, and
  served after, is what would break this. The only assumption is that the grace is
  positive (`BoundsAssumption`).
- `PatchGood`: a native job that goes on is that of the run or of the one end that is owed
  (`Watched`), each the last job. The calls are served in order, so `QueueGood`
  adds that the end of a run, a registration and another try are each asked once
  (`Once`) and for the run that waits for them; otherwise the answer to one could let
  another go. A run is told to be cancelled only when its job is (`ToldGood`).
- `ImagesGood`: a job that is needed (it runs, or its output is held) is that of the
  run, or of an output being handed on, or is known to be unsure (`SeenTo`); `RunGood` says
  at which stage of its end a run may let go of it. A page that was left has no address
  and has stopped its run (`LeftGood`), so what arrives later makes none.
- `SimpleGood`: a job of a hash is over or is that of the operation under way
  (`HashGood`); a page that was left has the end of its lease as the last command
  that matters (`LeaseEnds`). The other tools have nothing to do with either (`Kept`).
- `KillGood`: a dialog that is not confirmed is of the process that is selected, and the
  details are asked for of the one that shows.

`LateProofs`, from `LateGood`:

- `LateAnswersCorrect`: `Spec => LateAnswersFit`, for any number of turns on the map, the
  text tools, the engine of the picture tools, the updates and the chat.

`LateAnswersFit` says what a step that takes an answer may not do, and names what it may:
a text tool may tell a late failure, and a draft may be given up in the cases of
`TypedIsKept`. That the answer is the
one still wanted is checked by a number, an epoch, a flag or a revision that the handler
kept; each invariant says what that check is worth.

- `FoldersGood`: of the folders being read, one that is still live is the one asked for
  last (`MapGood`). Whoever goes back, up or to another view ends it (`Stopped`), and a
  later sample does, so that none that is live is of another place.
- `TextGood`: a job of the present epoch and the present revision has the present text,
  and no job is of a later one (`JobFits`). An edit raises the revision and a clear the
  epoch; a page that is left keeps its jobs, so the number alone decides.
- `EngineGood`: a reader that is not done has settled nothing. What a task or an
  archive ended with then stays (`Stands`), also when its worker answers after the abort.
- `UpdateGood`: only the end of a check offers a release; the end of a task, a window
  that opens or a reminder does not (`Quiet`), so whether the release was put off has to be
  decided there.
- `ChatGood`: a save that was answered has stored its text (`WinGood`), what waits with an
  operation fits its place (`OpGood`), and a conversation that was opened and may still be
  shown meets a window with nothing unsaved. The last part is why a window that is led
  elsewhere has to overtake it (`Overtaken`). Every step then moves a window so that what is
  dirty stays so unless one of the excuses of `TypedIsKept` holds.

The other local tools only have to stay what they are (`Is`).

## Only model-checked

- Liveness (`SlotComesFree`, `LoopEnds`, `WorkFinishes`, `WorkEnds`, `ToolsEnd`,
  `ShownFollows`): it rests on fairness and is out of the prover's reach.
- `DoneAsAsked` and `ShownIsSo` of `ToolsMC`: conjunctions over several pages. Most of
  them could be proved as `NothingIsHeld` and `LateAnswersFit` were; the whole cannot,
  for one part of each is about a fold, a sum or a power (`HandedOnAsAsked` of the
  pictures; `ChartIsWhole` of the map, `AddressesAddUp` and `ResultsAreWhole`).
- The action property `NeverStepsBack`: `PlacesAreKept` is about a list that is filtered
  and sorted, by definitions that recur over the sequence.
- `StoredAsTold` and the invariants of `MonitoringMC`: what `CleanupPage` says of the tree
  and of its growth is about sums over trees, and `Histories`, `Reviews` and `Alerts`
  fold over sequences; what a fold or a recursive function computes for every input
  rests on an induction that cannot be proved here.
- That the code differs from a promise (the runs under "Findings"): a counterexample
  of a small instance is one of the program.

## Not modelled

- Workers of the native side that a page cannot tell from one step: the thread
  that owns the keep-awake assertion (`toolbox_power.rs`), the polling of watched
  processes (`toolbox_process_watch.rs`), generations and the watchdog of the scan
  worker, the token list of source clears (`ai_commands.rs`). They are the next
  candidates for modules of their own; the hazards there are listed without a
  property.
- `safe_fs.rs`, `private_storage.rs`, the cleanup index, sensors and samplers, the
  parsers of native tools: the operating system's part outweighs the program's.
- The background supervisor's own rules: a copy of the window's, which are in
  `Incidents` and `Alerts`.
- Pure text tools, tables of capabilities, fixtures, types, translations, how a
  page is drawn beyond the arcs of the cleanup map.
- The notary relay (another service) and vendored code.

## Plan

1. Proofs: the parts of `DoneAsAsked` and `ShownIsSo` that are no folds, starting with
   `ProcessControl` and `KeyboardCleaning`, whose invariants are there.
2. The workers listed above: the source-clear gate composed with preparations,
   `ToolboxPower` with `ToolboxProcessWatch` (abstract specification: the state
   reported is the state of the assertion).
