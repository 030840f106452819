# A verification of the UiPilot plugin host

UiPilot is a launcher for Windows and a local host for public plugins: a Rust
process (Tauri 2, `src/src-tauri/src`) that owns windows, settings, search and
the plugins, and a React page (`src/src`) that shows the launcher. This
directory models the part of the Rust process with the most concurrency:

* the host that admits, runs, times out, answers and retires the requests of plugins
  while the plugins are enabled, updated, disabled, rebuilt and uninstalled;
* the network calls those requests make;
* the timers, alarms and delayed messages of plugins;
* the windows of plugins and their panel inside the launcher, with their threads;
* what the host keeps of a plugin: its clipboard history, its data and packages
  through uninstalls, crashes and restarts.

In this text A is `public_plugins/activation.rs`, P is `public_plugins.rs`,
S is `public_plugins/scheduler.rs`, B is `public_plugins/activation_bundle.rs`,
RR is `result_registry.rs` and ST is `public_plugins/state.rs`, all below
`src/src-tauri/src`. `PROJECT.json` gives the lines every definition stands for.

## 1. Inventory

### The plugin host

| Component | State | Operations |
| --- | --- | --- |
| **Request scheduler** (S, `public_plugins/result_action.rs`) | per plugin: generation, activation, admission epoch, running and waiting request, unclaimed completion, remembered contexts, result publication, rebuilding flag; request numbers | reserve, enqueue, admit a result action, complete, claim or discard a completion, retire, cancel, expire, replace the Runtime, invalidate, forget, close publications |
| **Plugin manager** (A, B) | confirmed activation bundles, reservation book (one operation per plugin; terminal after an unknown outcome), activation and epoch counters, staged candidates | enable, disable, install, change of name, permission, settings or secrets, fault disable, Runtime replacement, uninstall and its abort |
| **State store** (ST) | active generation, enabled / disabled / retained / absent, grants, faults | prepare and commit of a document; an outcome may be durable, not committed or unknown |
| **Plugin service** (P) | pending submissions and their routes, recoveries, content actions, the result action in flight | prepare, admit, bind, abort, recover, complete, settle, `expire_runtime_timeouts` |
| **Result registry** (RR) | the result set of the main window, its lease and claim | show, replace, claim, consume, retire |
| **Network gate, call registry, broker** (`public_plugins/network/`) | authority of each plugin, calls in flight, attempts and slots of each request | publish, replace and take an authority, admit, answer, deliver, cancel, shut down |
| **Plugin timers** (`timers.rs`) | a record per timer key: phase, round, revision, claim, audio slot; the due queue | start, stop, reset, claim a due timer, complete, confirm, cancel a generation |
| **Native attention** (`native_attention/`) | mailbox of events with capacities, owner and epoch of the alarm sound, focus | publish, observe focus, admit, reserve, commit, cancel, emergency stop |
| **Delayed messages** (`delayed_messages.rs`) | due messages and their count per plugin, cancelled watermark | schedule, pop, publish, cancel |
| **Clipboard history** (`clipboard_history/`) | authorised plugins, observer thread, suppressed and excluded changes, records | sync the authorised plugins, start, stop and join the observer, capture, uninstall, paste |
| **Selection capture** (`selection_capture/clipboard.rs`) | one transaction at a time: sequence before and after the copy | have the target copy, read, restore |
| **Owner cleanup** (`owner_cleanup.rs`) and the data of a plugin | receipts of removals still to do; storage, secrets, history, state, packages | install, uninstall, commit and clear a receipt, retry after restart |
| **Plugin windows** (`plugin_window.rs`, `window_transfer.rs`) | session, its life and leases, native shell, transfer of the screen | prepare, commit, call, hide, close, remove, file dialog |
| **Plugin panel** (`plugin_panel.rs`) | session, current and pending submission, hide ticket, key route, focus ticket | open, submit, deliver, acknowledge, request a hide, pump keys, return the focus, tear down |
| Data call gate (`data_call_gate.rs`) | leases of admitted data calls | acquire, close, wait |
| Packages, manifests, Runtime windows, secrets | files and WebViews | validation, encoding, I/O |

How they interact. A page calls a Tauri command, the service *prepares* a command
against the confirmed bundle and the current publication, and later *admits* it
without the mutation mutex. The scheduler says what runs; the service binds the
request to its route and sends it to the hidden Runtime window. The Runtime
answers through the manager, which completes the request in the scheduler; the
service then settles the answer in further critical sections. Each dispatched
request has a watchdog thread that sleeps to its deadline and runs
`expire_runtime_timeouts` for *all* plugins. Management operations reserve the
plugin in the book, write a document without any lock, and publish under the
network authority transition, which is the one mutex that scheduler operations
run under.

What is hard, and what makes each component correct:

* **Scheduler.** Newest input wins, whatever completes, times out or is cancelled
  in between; `dispatch()` consumes its argument, so a waiting request whose
  identity does not fit would vanish; a timeout rebinds the waiting request in two
  halves. Correct: one executing and one waiting request of the right identity,
  no authority given back, every admitted request ends.
* **Manager.** A durable write between two critical sections, a timeout that moves
  the generation meanwhile, a scheduler that may refuse an identity already
  written. Correct: scheduler, bundle and document agree outside operations, and
  an identity that was written is accepted.
* **Service.** State read before a lock is released and used after it: routes,
  publications, completions, leases; several runs of one loop over all plugins.
  Correct: an answer that was superseded or whose publication died is not
  delivered; each timed-out Runtime is handled by exactly one run.
* **Registry.** Several clicks on one row, admitted late and in any order.
  Correct: a displayed action executes once.
* **Network.** Slots at their limit and released on three paths; admission against
  revocation; contexts forgotten while their request runs. Correct: the counts are
  those of the calls in flight, and an answer is delivered only under the authority
  of its call.
* **Timers, attention, messages.** A due timer is claimed, its message saved and only
  then completed; the ticket of an alarm passes two workers, two locks and a mailbox
  that may be full; focus takes the sound before the worker has stopped it. Correct:
  one message per round, no alarm without an owner or a stop that is on its way, and
  nothing after the grant ended.
* **Clipboard.** Refreshes of the authorisation run outside every lock; the observer is
  started, installed and joined by different threads; the host itself writes the
  clipboard. Correct: one observer, no record for a plugin that lost its grant, the
  user's copy is never overwritten.
* **Data of a plugin.** Crashes and failed deletions between a durable receipt, the
  durable uninstall, the removal of the data and the end of the receipt. Correct: what
  was to be erased is gone once no receipt is left, and nothing else is deleted.
* **Windows and panel.** The main thread, blocking workers, timers and pumps share one
  mutex and sleep on one condition variable; native callbacks come when their session
  has been replaced. Correct: nobody waits for ever, late callbacks touch no newer
  session, the page shows the newest submission and gets its keys in order.

### Outside the plugin host

Atomic files and the message centre, currency conversion (single flight over a
cache), the Everything installer (a transaction with rollback), process control, file
search, settings and credentials, screenshots, launcher windows and sessions, the React
page, and the developer tooling. `PROJECT.json` lists them with the reason or the plan
for each.

## 2. Modules

| Module | What it is |
| --- | --- |
| `RequestQueue` | One plugin's queue as a value: each scheduler operation is a function from queue to queue. No variables. |
| `RuntimeHost` | Scheduler, manager, store, service and registry composed: 18 variables, one action per critical section. |
| `RequestLifecycle` | The abstract promise about one request: its statuses, and the moves between them. |
| `HostProperties` | Invariants, the refinement mapping to `RequestLifecycle`, fairness and liveness. |
| `CallRegistry` | The registry of network calls as a value: attempts, calls, slots. |
| `NetworkGate` | Gate, broker and every operation of the manager and the scheduler that touches calls. |
| `CallPolicy` | The abstract promise about the calls of requests; `NetworkGate` implements it. |
| `PluginTimers` | The record of one timer key and the operations on it, as values. |
| `AttentionMailbox` | The mailbox of native attention as a value. |
| `TimerAlarms` | Timers, their worker, the mailbox, its worker and the sound adapter composed. |
| `AlarmProperties` | What timers and alarms promise. |
| `DelayedMessages` | Delayed messages, the requests that schedule them, their worker; with its properties. |
| `ClipboardHistory` | Concurrent management operations, the history service and its observer threads; with its properties. |
| `SelectionCopy` | The host's own writes to the clipboard, over `ClipboardHistory`; with its properties. |
| `UninstallCleanup` | Installs, uninstalls, receipts, crashes and restarts of one plugin; with its properties. |
| `PluginWindows` | The window of a plugin and the transfer from the launcher, one step per critical section of each thread. |
| `WindowProperties` | What windows promise. |
| `PanelSession` | The panel's session and its hide tickets. |
| `PanelSubmissions` | Submissions to the panel, over `PanelSession`. |
| `PanelKeys` | Keys and their pumps, over `PanelSubmissions`. |
| `PanelFocus` | Requests for the focus, over `PanelKeys`. |
| `PanelProperties` | What the panel promises. |
| `RequestQueueProofs` | Each queue operation keeps a sound queue sound. |
| `RuntimeHostProofs` | The inductive invariants of the plugin host, its theorems, and that it implements `RequestLifecycle`. |
| `NetworkGateProofs` | The registry counts its calls and knows only contexts that own their slot; the gate implements `CallPolicy`. |
| `TimerProofs` | Timers, mailbox, attention worker and adapter: one invariant in four parts, and what follows from it. |
| `DelayedMessagesProofs` | Counts of delayed messages, and the silence of revoked ones. |
| `PluginDataProofs` | Proofs about cleanup, and about the clipboard with selection captures. |
| `WindowProofs` | Leases and sessions of a plugin's window. |
| `PanelProofs` | The whole panel: what its page sees, and that nothing is left behind. |
| `MCRuntimeHost`, `MCPanelNetwork`, `MCTimers`, `MCPluginData`, `MCWindows` | The TLC instances, each in parts that a variable `part` chooses in the initial state. |
| `MCDisagreements` | Small instances of `RuntimeHost` on which the code disagrees with its documents. |

`RuntimeHost` and `NetworkGate` model the same manager from two sides. `RuntimeHost`
splits a management operation at its durable write and has the service around it;
`NetworkGate` has a publication as one step and the calls around it. Both use the
operations of `RequestQueue`, so that they cannot drift apart in what a queue does.

### How actions correspond to code

* *Commands.* `Prepare` is `prepare_command`; `Submit` is the enqueue of
  `admit_prepared_command_with`; between the two anything may happen.
  `RevokeInFlight` is the later half of the admission. `BindRoute` and
  `AbortUnbound` are `bind_unsent_dispatch` and the abort after a failed bind;
  `RecoverRuntime` is `complete_runtime_recovery_with`; `DropPrepared` is a
  settlement before admission.
* *Actions.* `ContentAction` stands for panel and window actions, which the manager
  admits under the mutation mutex. `ReserveResult` and `AdmitResultAction` are the
  two halves of a result action; the second holds mutation, authority, scheduler
  and registry together, so it is one step.
* *Completion.* `CompleteRequest` is the manager's `complete`; the answer then takes
  one of three ways, each a step of its own: `PublishAnswer` (rows of a command),
  `SettleContent` (ticket of a content action), `FinishResultAction`.
* *Retirement.* `RetireContent`, `CancelRequest`, `RetireService`, `DismissResults`.
* *Management.* `BeginX` takes the reservation, `CommitX` publishes after a durable
  write, `NotCommitted` and `UnknownOutcome` are its other outcomes. An uninstall
  empties the queue when it begins; `ReleaseUninstall` and `ReactivateAborted` are
  the two halves of `abort_uninstall_before_commit`. `ClosePublications` and
  `CloseGate` are the shutdown.
* *Timeouts.* `Expire(w)` is `expire_network_timeouts` for any non-empty set of running
  requests; `TakeReplacement`, `PassReserveFault`, `PassCommitFault`,
  `PassReserveReplace`, `PassCommitReplace`, `PassNotCommitted`, `PassCreate` and
  `PassFinish` are the stages of one run `w` for one plugin. Two values of
  `Watchers` are two runs in progress at once.

* *Network.* `Admit` is the admission of a call under the gate, `Respond` and `End` its
  end under the registry's mutex, `Deliver` the second check under the gate; a call may be
  dropped at any point. `Submit`, `CompleteRequest`, `CancelRequest`, `Expire`, `CommitX` and
  the others are the gate transitions, each with the cancellations it makes.
* *Timers.* `WindowTimerStart`, `Stop`, `Reset` and `RevokePermission`, `GrantPermission`,
  `Disable`, `Activate` are operations under the mutation lock. `ClaimNextDue`,
  `CommitTimerClaim`, `CompleteTimerClaim`, `DispatchTimer` and `ConfirmUnplaced` are the stages
  of the timer worker; `TakeEvent` to `CleanUp` those of the attention worker, one per
  critical section or native call.
* *Delayed messages.* `Schedule` runs under the scheduler lock of its request, `PopDue` and
  `CommitScheduledMessage` in the worker; a revocation is `RetireRequests` and then
  `CancelQueued`.
* *Clipboard.* A manager takes its steps in the order of `refresh_clipboard_history_authorization`
  and `uninstall`; an observer in that of its polling loop. `InjectCopy`, `ReadCopy`,
  `RestoreContents` are the transaction of a capture, `BeginPaste`, `WritePaste` the paste.
* *Cleanup.* `PersistPackage`, `PersistConfig`, `PublishInstall`, `RemoveOldPackage` are the
  install commit; `CommitReceipt`, `PersistUninstalled`, `PublishUninstall`, `CleanOwners`,
  `ClearReceipt` the uninstall. `Crash` may come between any two, then `RetryCleanup` and
  `Load` are the next start.
* *Windows.* `Prepare(s)` and `Commit(s)` are the stages of a submission on its two workers;
  `CloseSteps(t)` and `HideSteps(t)` the routines that any thread may be in. `asleep` is who
  sleeps on the condition variable.
* *Panel.* `SubmissionStep(s)` are the stages of a submission's worker, `HideTimer(t)` a timer
  thread, `PumpStep(p)` a pump; `PrepareFocus`, `ReceiveStart`, `AwaitFocus`, `GiveUpFocus` run on
  the thread of a focus request, `StartFocus`, `ConfirmFocus`, `AskLauncher` on the main thread.

### Abstractions

The plugin host:


* `activation_id` and `admission_epoch` are allocated and compared together; the pair
  is one number `inc`. Panel and window actions are one kind, `content`.
* Deadlines are left out: any running request may reach its deadline at any time.
  This covers every timing of the code.
* A `ResultActionLease` (an `Arc` compared by pointer) is a token; `live` is the set of
  those not revoked, and a new `Arc` is a token that nothing references. The pools
  of the instances are larger than what they can reference, so the guard
  `TokensLeft` never disables a step there.
* A pending submission is the route it saved (`pending`) and lives as long as its
  request is located in the host. Settling a submission early, which stops a
  request before its dispatch, is left out; the model therefore contains more
  executions than the code, and safety results carry over. `Submit`,
  `DropPrepared` and `AbortUnbound` are the settlements it has.
* `AbortUnbound` and `BindRoute` are modelled for plugins with result actions, whose
  binding looks at publications. For other plugins the binding only fails if the
  submission was settled early, which is not modelled.
* A request that fails its dispatch to the WebView is a fault disable of its plugin
  (`mark_runtime_unavailable`).
* The optional operations of an instance are the members of `Ops`. Every instance has
  prepare, submit, complete, and enabling a disabled plugin.

The other modules:

* *Time* is left out everywhere: a queued timer or message may be due, and a deadline may
  pass, at any step. The order of due times therefore says nothing here.
* *Network.* URLs, headers, bodies and the transport are I/O; credentials are a refusal
  after the attempt was counted.
* *Timers and attention.* Toasts with their callbacks, the tray and the shutdown of the workers
  are left out, and so are counters at 2^64. `run` numbers the rounds over all records
  and is read by properties only. Messages without a timer key are one kind.
* *Clipboard.* Contents are a sequence number and an author; fingerprints, formats, capacity,
  images and the Windows history are left out, and so are a store that cannot be
  written and a thread that cannot be spawned.
* *Cleanup.* One `commit_with_backup` happens or does not; its unknown outcome is left out.
  Secrets go with the storage. `StaleTokens = FALSE` keeps the commit of a package that was
  prepared before a whole install and uninstall went by (see below).
* *Windows.* Native calls take effect at once or fail, and a creation that fails leaves no
  shell. `/find` only takes the transfer. The user closes a window that is shown.
* *Panel.* Openings that were superseded are left out: they can only tear down their own
  epoch, which is gone. Claim and schedule of a hide are one step, and so are claim and sending
  of an update. Tickets carry no epoch, because the end of a session drops them.
  Notifications that wake a thread only to make it sleep again are left out.

### Not modelled

Of the host: the data gate of an uninstall, the readiness phase of an enable or
install before its reservation, fault counting (any timeout of a current request may
be the third), the notification flag of a request, and the contents of commands,
rows and pages. Of the panel: native pages with their focus events, the ticket that
confirms a blur, sharing, images, effects, actions of the page and pasting on Enter. Of the
windows: the unmute guard and the exit of the program. The two moves inside an atomic
replacement. The components without a module are in `PROJECT.json` with their reasons:
most are calls to Windows, parsing, or locked stores without a protocol of their own.

## 3. What is checked

All passing instances are exhaustive. The state counts are distinct states, over all
parts of the run.

| Run | Instance, by parts | Properties | States |
| --- | --- | --- | --- |
| `requests` | *content*: 1 plugin, content actions, timeouts, changes, retirement, cancellation, services. *listing*: result actions shown, dismissed, claimed. *watchdog*: 2 plugins, 2 overlapping runs, failing Runtimes. Fair. | `TypeOK`, `QueueInv`, `NewestWaits`, `RebuildingHandled`, `RebuildingRefuses`, `ImplementsLifecycle`, `AdmittedRequestsEnd`, `RebuildingEndsUnlessAbandoned` | 37,730 |
| `management` | *results*: result actions against changes, retirement, timeouts. *lifecycle*: disable, enable, update, fault, failing writes and Runtimes, timeouts. *uninstall*: data retained, abort, recovery, reinstall, unknown outcomes, shutdown. | `RouteCurrent`, `ClaimedOnce`, `IdentityAgrees`, `ActivationNeverRefused`, `AdmittingQueuePublishes` | 1,048,046 |
| `panel_network` | Network: *limits*, 2 plugins compete for slots; *changes*, every operation on one. Panel: *submits*, *hides*, *keys*, *focus*, each with sessions that open and end at any time. Fair. | `SlotsExact`, `ContextsOwned`, `ImplementsCallPolicy`; `NewestShown`, `KeysInOrder`, `NothingForgotten`, `PanelWaitsEnd` | 635,372 |
| `timers` | *focus*: one timer against the main window's focus. *management*: against revocation, disabling, activation. *rivals*: two timers and ordinary messages. *delayed*: delayed messages. Fair. | `RunningTimersQueued`, `AudioTicketsAccounted`, `SoundAccounted`, `MessageSavedOnce`, `RevokedAlarmStops`; `DelayedMessagesExact`, `RevokedMessageSilent` | 406,718 |
| `plugin_data` | *grants*: two managers on one plugin. *shared*: two plugins. *copies*: captures and pastes beside the observer. *cleanup*: installs, uninstalls, crashes. Fair. | `AuthorizationFollows`, `ObserverAccounted`, `RefreshReturns`, `TemporaryNotRecorded`, `UserCopyKept`; `ErasedIsGone`, `PackageKept`, `OnlyErasedDeleted` | 708,278 |
| `windows` | *handoff*: two submissions want the window. *callbacks*: one submission with every event, the file dialog, removals on two threads. Fair. | `LeasesExact`, `HideOwnsSession`, `PickerKeepsWindow`, `ClosedStaysClosed`, `NobodyWaitsForEver` | 196,515 |

*lifecycle* and *uninstall* are apart because together they reach `aborted_uninstall`, one of the
disagreements below; without timeouts an uninstall keeps `IdentityAgrees`.

What the properties say:

* `QueueInv`, `NewestWaits`: the executing and the waiting request carry the queue's
  identity, and the waiting one is the newest the queue remembers.
* `ImplementsLifecycle`: the host, seen through the mapping in `HostProperties`,
  behaves like `RequestLifecycle`: a request that lost its authority never regains
  it, its answer is never delivered, it never changes its plugin or comes back.
* `RouteCurrent`: a captured publication that is still live belongs to the identity
  under which it was captured, on every path that changes an identity.
* `ClaimedOnce`: one displayed result set has at most one execution, and none while
  it still counts as available.
* `AdmittingQueuePublishes`: no path leaves a plugin with a revoked publication in an
  admitting queue, in which it could publish nothing until restart.
* `IdentityAgrees`, `ActivationNeverRefused`: scheduler and confirmed bundle agree, and
  the scheduler takes every identity that an enable or install has already written.
* `RebuildingHandled`, `RebuildingRefuses`: exactly one run owns a rebuilding queue, and
  no prepared request matches a rebuilding queue, where it would be stored by a
  call that fails.
* `RebuildingEndsUnlessAbandoned`, `AdmittedRequestsEnd`: rebuilding ends and admitted
  requests end, except at a plugin whose run gave up, until it times out or is
  enabled again.
* `SlotsExact`, `ContextsOwned`: the slots counted are those of the calls in flight, whichever
  of answer, cancellation and drop comes first; a context is remembered only while its
  request executes with the authority of its plugin.
* `ImplementsCallPolicy`: under the mapping in `NetworkGate`, an answer is delivered only
  while the request that asked is authorised, within its limits, and a request that lost its
  authority after a call never gets it back.
* `RunningTimersQueued`, `AudioTicketsAccounted`, `SoundAccounted`: a running timer has exactly
  one due point; the ticket of an alarm is played, given up or on its way; a loop that
  sounds has its owner or a stop on its way.
* `MessageSavedOnce`, `RevokedAlarmStops`: one message per round and only while due; a loop
  that lost its owner stops.
* `DelayedMessagesExact`, `RevokedMessageSilent`: the count that limits a plugin is exact, and
  no message of an ended grant is queued or published, even when the permission comes back.
* `AuthorizationFollows`, `ObserverAccounted`, `RefreshReturns`: however operations overlap, once
  every change was read and the list read last was applied last, exactly the granted plugins
  record; no observer is lost or doubled; the join of an observer ends.
* `UserCopyKept`, `TemporaryNotRecorded`: a capture overwrites nothing but the target's copy, and
  no history holds the text it returned or the contents it put back. A copy that comes after
  the capture gave up is not its text any more, and is recorded.
* `ErasedIsGone`, `PackageKept`, `OnlyErasedDeleted`: see the inventory; the history is the
  exception of `ErasedIsGone` (below).
* `LeasesExact`, `HideOwnsSession`, `PickerKeepsWindow`, `ClosedStaysClosed`: leases are counted
  exactly per session; from the admission of a hide to its last change its session stays; a
  blur hides no window behind its own file dialog (which holds no lease, so the window may be
  removed or destroyed under it); a closed session admits nothing again.
* `NobodyWaitsForEver`: the main thread leaves every handler, and prepares and commits end.
* `NewestShown`, `KeysInOrder`: the page is told the newest submission, and gets every key once
  and in order, whatever pumps are left over from earlier sessions.
* `NothingForgotten`, `PanelWaitsEnd`: keys, committed hides and focus tickets have the thread
  that finishes them; submissions and hide tickets end although the page may never answer.

`TypeOK` of `RuntimeHost` is checked and proved. The type invariants of the other modules
(`TypeOK` of `NetworkGate`, `AlarmTypeOK`, `ClipboardTypeOK`, `CopyTypeOK`, `CleanupTypeOK`) say what
the variables hold; they are true in the same instances but are not among the runs.

### Bounds

The plugin host:

* `Requests` is the number of ids an instance gives out. Two are needed for one
  executing and one waiting request, three for a candidate that replaces a waiting
  one and for a displayed set with two clicks.
* `MaxGen` and `MaxInc` bound generations and incarnations. Three generations allow a
  timeout and an update, in either order, or two timeouts. Where fairness is used
  `MaxGen` leaves room for the timeouts the requests allow and the enables after
  them, so that the bound never disables `Expire` and no liveness result rests on it.
* `MaxRetained` is 2 (4,096 in the code), so that contexts are really forgotten.
* One plugin suffices where nothing is shared: queues are independent and the book is
  shared only through `terminal`. Runs of `expire_runtime_timeouts` cover all
  plugins, so *watchdog* and `abandoned` have two plugins and two runs.
* Result actions run at `MaxGen = 2`: one timeout against three requests.

The other instances:

* Network: 2 attempts per request, 2 calls at a time per request and 2 host-wide (8, 2 and 16
  in the code), so that every limit is met and the host-wide one by two plugins; 3 calls, 2
  generations.
* Timers: 2 rounds and 2 activations (a round against its successor, an activation against
  the next), 2 epochs of focus, capacities of 1 and 2, so that the mailbox is full.
  Delayed messages: 3 messages, 2 pending, 2 grants.
* Clipboard: 3 changes of a configuration, 2 managers and 2 observer threads; 6 writes to the
  clipboard; 2 excluded changes. With two managers two refreshes overlap, with two threads
  one can be joined while the next starts. Cleanup: 3 commits, so that a reinstalled plugin
  can be updated.
* Windows: 2 submissions and 2 generations of the plugin, each submission once.
* Panel: 2 sessions (one left-over of the first meets the second), 3 submissions (current,
  pending and one that replaces it), 2 hide tickets, 3 keys against a capacity of 2 (8 in the
  code), 2 pumps, 2 focus requests.

Every configuration has `CHECK_DEADLOCK FALSE`: the host stops after a shutdown, and every
instance rests once its requests, sessions, submissions, rounds, grants or writes are used up and
nothing asks for more. That a thread waits for ever is what the liveness properties rule out:
`NobodyWaitsForEver` for the one condition variable of the windows, `RefreshReturns` for the join
of an observer, `PanelWaitsEnd`, `AdmittedRequestsEnd` and `RevokedAlarmStops`.

### Fairness

All fairness is weak and of steps that the host itself takes once it has begun something.
Nothing is assumed of users, of plugins (a Runtime or a page may never answer), of the
clipboard's other writers, of faults or of shutdown.

* `Fairness` of `HostProperties` (in `MCRuntimeHost` for the runs a part has): a watchdog thread
  exists for each dispatched request and runs at its deadline (`Expire`), a run goes
  on until it returns (`PassStep`), a durable write ends (`Commits`), and the threads
  that hold a dispatched request or an answer go on (`BindRoute`, `AbortUnbound`,
  `SettleContent`, `PublishAnswer`, `FinishResultAction`).
* `AlarmFairness`: both workers go on, an effect is posted, an emergency stop goes through.
* `HistoryFairness`: a management operation and an observer thread go on. The observer sees
  its flag at the next poll, so the join ends although its callback waits for the gate.
* `WindowsFairness`: a thread that is awake goes on. A thread asleep is woken by the code only.
* `PanelFairness`: a submission's worker goes on while awake, timers fire, and the main thread
  runs a queued hide and ends it. The timeout of an acknowledgement is a step of the worker.

### Disagreements

Six runs show the code doing something that its documents, comments or tests rule out.

1. `abandoned` (`RebuildingEnds`). `expire_runtime_timeouts` marks every timed-out
   plugin as rebuilding first, then returns at the first plugin that fails (P:1813).
   The others are rebuilding and handled by nobody. The design document says that
   plugins do not block each other
   (`docs/superpowers/specs/2026-08-13-public-plugin-command-window-mvp-design.md:683, 694`).
   `RebuildingEndsUnlessAbandoned` holds.
2. `aborted_uninstall` (`IdentityAgrees`). An uninstall begun while the queue rebuilds keeps
   the generation the timeout raised. Its abort re-activates the older generation of
   the bundle, is refused (A:3434), and leaves an enabled plugin whose requests are
   all refused. Without timeouts, in the part *uninstall* of `management`, the property holds.
3. `purge_race` (`ActivationNeverRefused`). A command prepared before a purging uninstall
   creates the forgotten queue again at its old generation. The next install starts
   at generation 1, is refused after its write, and makes the book terminal for all
   plugins (S:1126, S:493). With data retained the property holds.
4. `reset_race` (`CancelledAlarmSilent`). The attention worker admits the ticket of an alarm and
   reserves the sound in two steps (`native_attention/mod.rs:906`). A reset between them posts
   a cancellation that finds no owner; the alarm then starts, and sounds until the main window
   gets the focus. The design asks for the missing check when the start is committed
   (`docs/superpowers/specs/2026-08-22-public-plugin-timer-alarm-assets-design.md:514`).
   `SoundAccounted` and `RevokedAlarmStops` hold: the sound has an owner, though a dead one.
5. `stale_refresh` (`NoRecordAfterRevocation`). The list of plugins that may record is read and
   applied in two steps without a lock (A:1252). A refresh that read before a revocation may be
   applied after it, and the plugin records on. The comment at
   `clipboard_history/service.rs:313` and
   `docs/superpowers/plans/2026-08-30-clipboard-history-host-capability.md:95` say that
   recording stops at once. Only this order breaks the list: `AuthorizationFollows` holds for all
   overlaps in which the list read last is applied last. The history variable `latest`, which
   no guard reads, tells the orders apart.
6. `legal_keys` (`LegalKeysAccepted`). A key that finds the page at work is ignored without taking
   its number (`plugin_panel.rs:2185`), which the launcher has used (`launcher-core.ts:4358`);
   the next key is a protocol violation, and the launcher hides. The design says that a
   serialized launcher never produces gaps
   (`docs/superpowers/specs/2026-08-26-public-plugin-panel-key-routing-and-hide-design.md:418, 436`).
   The lock held while the panel shares leaves the same gap (`launcher-core.ts:4360`).

Found while modelling, without a run of their own:

* *Superseded prepare.* A prepare that waits for its page is woken by the newer submission that
  took its window, and tears down by the plugin's generation what is then the newer
  submission's window (`plugin_window.rs:1540`; the MVP design of disagreement 1, line 518, lets
  the newest win).
* *Windows.* The late native hide of a failed commit may hide the window that a newer commit
  showed; a commit whose activation fails closes by plugin what is a newer session; overlapping
  prepares may leave a native shell whose callbacks name another document than the controller
  has; an answer prepared before a disable may create the window again after the tear-down; a
  `/find` transfer during a commit may leave the launcher hidden. `NobodyWaitsForEver` excuses a
  commit that waits behind a main thread which never rests.
* *Panel.* A hide that was committed for one session runs later on the main thread and hides
  whatever is shown then (`plugin_panel.rs:3805`). A panel page may outlive its session: the
  page is added after its session was replaced, and neither a failed process nor a hidden
  launcher destroys it, where
  `docs/superpowers/specs/2026-08-24-public-plugin-panel-mode-design.md:99` wants no page left.
* *Cleanup.* A cleanup finished by the next start removes everything but the clipboard history
  (`owner_cleanup.rs:245` against A:3544), so a plugin installed again finds the records of the
  erased one; `ErasedIsGone` leaves the history out. A pending receipt does not stop an enable
  (A:2363), and a plugin with a pending receipt that is still configured as enabled is
  authorised to record at start-up.
* *Stale package.* A package prepared while the plugin was absent may be committed after a whole
  install and uninstall of it (A:2019). With `StaleTokens = TRUE` the removal of the previous
  package by a late install commit can delete the package of a newer one.
* *Sound.* `port.loop` is what the adapter records as playing. When the device refuses to stop it,
  the adapter keeps the samples in memory, forgets the loop and accepts nothing more
  (`windows_audio.rs:148`), and so does the model: `SoundAccounted` and `RevokedAlarmStops` take the
  loop as stopped then, and say nothing of what the device still plays.
* *Tickets.* A permission revoked and granted again starts a timer record anew under the same
  key, and an event of the earlier round may carry the ticket of the new one (`timers.rs:696`);
  `AudioTicketsAccounted` leaves such keys out.
* *Suppressed copies.* The count of suppressed changes against a poll of 250 ms may swallow a
  copy of the user that follows the host's own (`clipboard_history/service.rs:343`), and a copy that
  comes after a capture gave up is recorded.

## 4. What is proved

Every theorem holds for all values of the constants that satisfy the named assumptions:
any number of plugins, requests, calls, timers, windows' threads and so on, and any
bounds. TLC evaluates the assumptions in the runs. Each proof module builds
one inductive invariant, and reads the properties the runs check off it.

**The plugin host** (`RequestQueueProofs`, `RuntimeHostProofs`):

* `TypeCorrect`: `Spec => []TypeOK`. A `None` is never read as a queue, bundle, operation or route.
* `QueuesInvariant`: `Spec => []QueueInv`. `DispatchLosesNothing` draws the consequence for the code:
  `dispatch()` never refuses, and so never drops, the waiting request of a sound queue.
* `NewestInvariant`: `Spec => []NewestWaits`.
* `RoutesCurrent` (`RouteCurrent`): a captured publication that is live is its queue's own, under the
  identity it was captured with.
* `ClaimsOnce` (`ClaimedOnce`): a displayed result action is executed once.
* `QueuesPublish` (`AdmittingQueuePublishes`): a queue that admits has a live publication.
* `RebuildingRefused` (`RebuildingRefuses`): no prepared request has the identity of a rebuilding queue, for
  every set of optional operations.
* `ActivationsAccepted` (`ActivationNeverRefused`) and `RebuildingHasOneRun` (`RebuildingHandled`), under the
  hypothesis `"purge" \notin Ops`; `IdentitiesAgree` (`IdentityAgrees`), with the further hypothesis that
  not both `"timeout"` and `"uninstall"` are in `Ops`.
* `HostImplementsLifecycle`: `Spec => ImplementsLifecycle`, the refinement, under the mapping of
  `HostProperties`.
* `HostInvariant`, `TokensInvariant`, `IdentityInvariant`, `GenerationsInvariant` and
  `PlacesInvariant`: the inductive invariants from which these follow.

The hypotheses on `Ops` are about which operations users perform. `ActivationsAccepted` and
`IdentitiesAgree` are false without them: `purge_race` and `aborted_uninstall` are the
counterexamples (section 3), and the parts of the passing runs that check these properties
satisfy them. For `RebuildingHasOneRun` the hypothesis makes the generations of a plugin
monotonic, which its argument rests on: a purge starts them again at 1.

Assumptions: `NoneAssumption` and `OptionAssumption` (`None` is not a record, token or request), `NumbersAssumption`
(0 is no request: the scheduler gives out numbers from 1 on), `RetainedAssumption`, `HostAssumption`
(`Requests` are numbers, `ResultPlugins` are plugins), `TokensAssumption` (each plugin can have a token of
its own). `QueueInv` and `NewestWaits` are not inductive by themselves: a dispatch needs the waiting
request to be typed, a timeout needs the running request out of the way of the
rebuilding flag, and a stage of a run dereferences the plugin of that run.
`HostInv` is the conjunction of `QueuesOK` (every queue is `Sound`: typed, `QueueOK` and `NewestOK`
at once), `ManagerOK`, `RequestsOK`, `ServiceOK`, `ClosedOK` (types of the other components) and
`WatchdogOK` (types of the runs, and a run that is busy has a current plugin).
`RequestQueueProofs` has one lemma per queue operation (`Fits` says which
candidates an admission may be given). The lemmas `RememberLast` and `ForgetType` carry the reasoning on
sequences: remembering puts a context last, whatever the cap forgets.
`RuntimeHostProofs` has one lemma per action, split into the conjuncts that the
action can disturb; `Framed` covers the others, `SetQueueOK` lifts a queue lemma to the host.

`TokensInv` says to whom publications, leases and request numbers belong. Of the three properties none
is inductive: a command that waits has a route too (`RoutesOK`), the lease of a displayed set must not be
the publication of a queue, or dismissing it would silence the queue (`PublishedOK`), and a pending route
must not be reached through two plugins (`NumbersOK`). The argument rests on few facts. A fresh token is
one that nothing refers to (`FreshNew`). Each queue operation either keeps publication and identity or
takes the fresh publication, and holds no request it did not hold (`Moves`, one lemma per operation of
the scheduler). `MovesTokens`, `InPlaceTokens` and `ShowTokens` then cover most actions; those that
bring a request in have a proof of their own.

`IdentityInv` orders the identities (generation and activation id) that a plugin has in its bundle, in its
prepared requests and in the displayed result set: `IncsOK` (none reached the counter `nextInc`, and an
operation that will activate has an id of its own), `OneGeneration` (one generation for an activation) and
`BehindOK` (none is ahead of the queue of its activation, and none has caught up with one that is
rebuilding). `RebuildingRefuses` is the last clause for a prepared request; by itself it
is not inductive, because a request is prepared from the bundle and not from the queue.
`GenerationsInv` relates queue, bundle and aborted bundle to the configuration, `PassesInv` says that what a run
still has to replace is behind its queue and that a rebuilding queue is left to one run, and `AgreeInv` also
says that a `replace` is reserved only while the queue rebuilds. A step either publishes no identity and lets
queues keep or adopt one (`Aside`, and `AsideKeeps` for all invariants at once), or is one of eight
actions, each with lemmas of its own.

`PlacesInv` puts a request in one place of one plugin: reserved, waiting, executing, or answered with the
answer on its way (a content ticket, an `answers` row, a `finishing` action). Without it the status
of a request would depend on the order in which `StatusOf` asks. It also has that a command waits only
behind a request that lost its authority. A relation between two queues, `Serves`, says what no
operation of the scheduler may do to a request: give authority back, start one that did not wait,
bring back a ticket (one lemma per operation); `Admits` is its form for an admission. Nothing that is
referred to comes back to life (`NoRevival`, from `FreshNew`). From these every action lets requests only
age (`Aging`): on from place to place in the order of the lifecycle, an answer delivered only to whom it
was owed. A step that ages requests keeps `PlacesInv` (`AgesPlaces`) and is a step of the lifecycle
(`AgesLifecycle`). Several requests move in one step: one completes, the next starts, a publication dies.

**Network calls** (`NetworkGateProofs`):

* `GateTyped`, `SlotsCounted` (`SlotsExact`), `CallsOwned` (`ContextsOwned`): safety of every step.
* `GateKeepsPolicy`: `Spec => ImplementsCallPolicy`. The initial states map to initial states, and every
  step to a step of `CallPolicy` or to a stutter. The mapping reads a request as authorised through
  `Authorised` and its call through `Flight`.
* `GateCorrect`: the inductive invariant `GateInvariant`.

Assumptions: `GateAssumption` (requests are numbers and can serve as tokens, `None` is not an identity),
`LimitsAssumption`, and the two of the queue. The registry forgets the attempts of a context it
cancels, so "no more than `MaxCalls` for a request" cannot be read off the registry. The
invariant adds why a context that was forgotten does not come back: request numbers are given out
once (`NumbersUnique`), what waits has made no attempt, and what executes with the
authority of its plugin and is not in the registry has made none (`AttemptsCounted`,
`RecoveryQuiet`); an answer belongs to one call object (`TasksUnique`). The lemmas of
`RequestQueueProofs` are used again for the queues.

**Timers and alarms** (`TimerProofs`):

* `TimersQueued` (`RunningTimersQueued`): the queue holds the due point of each running timer and no other.
* `MessagesOnce` (`MessageSavedOnce`): a round's message is saved once, by a plugin that has its grants.
* `TicketsAccounted` (`AudioTicketsAccounted`): no ticket is lost between timers and attention.
* `SoundOwned` (`SoundAccounted`): a loop that plays has an owner or a stop under way.
* `AlarmCorrect`: the inductive invariant `AlarmInvariant`.

Assumptions: `AlarmAssumption` (bounds are numbers, `None` is not a record, ticket or owner) and
`CapacityAssumption`. None of the capacities is assumed positive: an alarm that is refused is part of the
argument. The invariant has four parts. `BookInvariant` types the plugin book and the timer
worker. `TimersHold` says that the number of a round is given out once and that a record still due has
a round whose message was not saved; this is what a worker that was
overtaken by a restart of the timer runs into. `SoundHeld` is about mailbox, attention
worker and adapter, and needs the epochs: an event published without the focus is of an
epoch that ended by the time the window has the focus, so it cannot start a loop there.
`AudioHeld` ties both sides: a ticket in a cancellation on its way never holds a slot again, and
a start whose reservation is gone lost its slot first. Without it the two sides' views of
a ticket could drift apart between the locks, which is the hazard at `timers.rs:696`. As in the run,
`AudioTicketsAccounted` leaves out keys whose record was restarted (section 3, *Tickets*).

**Delayed messages** (`DelayedMessagesProofs`): `DelayedMessagesCounted` (`DelayedMessagesExact`) and
`RevokedMessagesSilent` (`RevokedMessageSilent`), without assumptions on constants. A revocation can reach the
message in the worker's hand only through its number, so the invariant says that every number is
below `nextId` and that a message above `through` is of the current era.

**Data of a plugin** (`PluginDataProofs`), cleanup:

* `ErasedForGood` (`ErasedIsGone`), for tokens of any age: `CleanupCorrect` is its inductive invariant.
  It has what each stage of the uninstall has already removed, and that nothing is in memory before the
  load; a crash resets the memory and must find the disk part sufficient.
* `PackagesKeptOnDisk` (`PackageKept`) and `DeletionsPromised` (`OnlyErasedDeleted`), under the hypothesis
  `StaleTokens = FALSE`. The hypothesis is needed: with a token prepared before a whole
  uninstall the code can delete the package of a newer installation (section 3, *Stale package*).
  The run `plugin_data` checks the two under the same value of the constant.

The clipboard and selection captures:

* `GrantsFollow` (`AuthorizationFollows`): unless an older list was applied over a newer one, those who
  record are those who are granted, for any number of overlapping operations. The invariant
  follows the list that was read last, first in its manager's hands and then in the service.
* `TemporaryForgotten` (`TemporaryNotRecorded`): no history holds a text a capture returned or the
  contents it put back; a copy that comes after the capture gave up is outside it.
* `ObserversCounted` (`ObserverAccounted`), `UserCopySafe` (`UserCopyKept`), and `CopyCorrect`.

The invariant has to say, for each observer thread between its reads, what it may still hold: the sequence
number it saw is excluded, or is of a copy that may be recorded. Assumptions:
`CleanupAssumption`, `ClipboardAssumption`, `ManagersAssumption`. The histories of `MaxExcluded` sequences need
`MaxExcluded` at least 1, as the constant of the code is.

**Windows** (`WindowProofs`): `LeasesCounted` (`LeasesExact`), `HidesOwned` (`HideOwnsSession`),
`PickersKept` (`PickerKeepsWindow`: no blur hides the document of an open picker), `ClosedForGood` (`ClosedStaysClosed`), from `WindowsCorrect`. A session number is given
out once, a thread with a lease holds it in the session of the window, so a window without
leases may be replaced, and a session is closed before anybody waits to hide it.

**Panel** (`PanelProofs`), of `PanelSpec`, the panel with all its parts at once; each part of the run
`panel_network` takes steps of `PanelNext` only:

* `NewestIsShown` (`NewestShown`): a page is shown and told complete the newest submission only.
* `KeysComeInOrder` (`KeysInOrder`): keys reach the page in order, each once.
* `NothingIsForgotten` (`NothingForgotten`): keys, committed hides, focus tickets and answers have
  the thread that ends them.
* `PanelSound`: the inductive invariant `PanelInvariant`.

Assumption: `PanelAssumption` (`NoRequest` is not a submission). `SubmissionsOrdered` says that a
submission waits only while the page still has the current one, so a worker that finds the page
`Ready` and itself current is the newest. `PumpsOrdered` says that one pump at most serves the key in flight
of the session that lives, and ties its own step to what the page got: between `eval` and
`mark_host_key_delivered` the page has the key although its phase does not say so. A key route that was
disarmed keeps its key in flight as cancelled; only an armed route needs a pump (`KeysAttended`).
`HidesOK` keeps the numbers in the queue of the main thread apart. `FocusOK` follows a request over both of its threads.

**Model-checked only.** Liveness under fairness and `ENABLED` are out of the prover's reach:
`AdmittedRequestsEnd`, `RebuildingEndsUnlessAbandoned`, `RevokedAlarmStops`, `RefreshReturns`,
`NobodyWaitsForEver`, `PanelWaitsEnd`. No recursive definition is used in a model.
Every safety property of a passing run, the refinements included, has a theorem.

## 5. Plan

In this order:

1. **Submissions.** A pending submission of the service with its settlement at each site of P, and
   binding for all plugins. Properties: every submission is settled, none by a run that lost its
   plugin, an admitted request of a settled submission is not dispatched.
2. **The launcher**: `lifecycle.rs` with its sessions, the panel's sharing and images, the ticket
   that confirms a blur.
3. **Atomic files** and the message store, the unknown outcome in `UninstallCleanup`; the
   installer's transaction; single flight of currency conversion; build and swap of the file
   index.
