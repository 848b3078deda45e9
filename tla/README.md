# TLA+ models of KodeWork

KodeWork is a desktop client (React renderer, Tauri shell, Rust core) that keeps
SSH sessions to private Linux hosts: terminals, file transfer, tunnels, remote
runs.  Its hard part is not SSH but the bookkeeping around it: several tasks
share a host's session, transports die at any moment, a supervisor reconnects
behind the user's back, and transfers are paused, cancelled and resumed while
their files change.  Local terminals, the Tailscale daemon and the stored credentials have
the same kind of problem with threads, processes and crashes.  These modules model that bookkeeping, TLC checks it on small
instances, and TLAPS proves the central invariants for instances of any size.

## Inventory

| Component (source) | State | Operations | What is hard | What makes it correct |
| --- | --- | --- | --- | --- |
| Connection state machine (`kodework-domain`, `connection_transition`) | none: a table | accept or refuse a transition | every write of every task goes through it | no legal sequence of calls runs into a refusal |
| Session lifecycle (`kodework-core/session.rs`) | per host: state, generation, guard, connection, event pump per transport | `connect_*`, `disconnect`, `mark_*`, `pump_events` | pumps of old transports, two cells for state and generation, early returns | Ready means the newest transport; nobody is stranded mid-connect; drops surface |
| Reconnect supervision (`src-tauri/commands.rs`) | `reconnect_profiles`, `reconnecting`, `retry_schedule` | `connect_host`, `disconnect_host`, `delete_host`, loop, attempts | tables are separate mutexes; attempts outlive the commands that cancel them | single flight, the token is given back, a lost host is retried, commands return |
| Transfer manager (`kodework-sftp/manager.rs`) | controls, requests, leases, permits, `.part` files | enqueue, pause, resume, cancel, retry, worker, reaper | flags and leases change in separate steps; sources change under the copy | what is published is whole; one writer per destination; leases come back |
| Event pumps and replay (`session.rs`, `ssh/handler.rs`) | subscribers, primaries, pending events, a queue per transport | subscribe, pump, forward, drop | backpressure, snapshots of the subscriber list, a pump that drains while the next runs | a pane's output arrives once and in order, the end of a transport always passes |
| Session resources (`session.rs`, `ssh/connection.rs`) | panes, SFTP, transfer slot, bridges, the filter of channels | open, close, type, use, attach, disconnect | installed after an await; several callers build the same thing | nothing is left open that nobody can close; input reaches its own terminal |
| Runs (`commands.rs`, `session/run.rs`, `storage/repositories.rs`) | run rows, remote markers | start, finish, reconcile, recover after a crash | crash between any two steps; two finishers | terminal rows are final; every run is settled |
| Tunnels (`kodework-core/tunnel.rs`) | tunnel table, accept loop, proxies, counters | open, accept, close, close all of a host | tables change while closing is awaited; closes overlap | a closed tunnel is quiet; closes return |
| Brokers (`kodework-ssh/host_key.rs`, `keyboard_interactive.rs`) | pending requests, trusted keys | verify, answer, cancel, time out | answer, timeout and cancellation race | no key is trusted without an answer to that request |
| Local terminals (`kodework-local-pty`) | registry, console, backlog, subscriber | open, subscribe, emit, close, shutdown | reader threads, two locks taken one after the other | no shell left behind; output once and in order |
| Address candidates and dialling (`kodework-network`, `kodework-tailscale/provider.rs`, `ssh/connection.rs`) | one call: candidates left, hop, method, proxy process | rank, dial, verify, authenticate, fall back | many error classes, two hops, a process per attempt | every enabled address once and in order; credentials to their owner only |
| Tailscale runtime (`kodework-tailscale/runtime.rs`) | child, lock and lease files, cached status, key file | ensure, status, shutdown | processes that crash, ids that are reused, two mutexes | one daemon per state; only own daemons are killed |
| Host records and secrets (`commands.rs`, `kodework-storage`, `kodework-secrets`) | rows, credential store | save host, password, tailnet key; delete; read | two stores without a transaction, failing writes, crashes | references resolve, secrets are not orphaned |
| Renderer gates (`src/runtime/*.ts`) | promise chains per host | begin, end, scope | answers that arrive late | commands of one host are sequential |

Renderer views, the Windows adapters, the Herdr command line, the agent and the
russh protocol work itself are I/O or presentation and are not modelled.

Interaction: the renderer calls Tauri commands; commands and the supervisor call
`SessionManager`; the session owns one transport and one pump task per
generation; transfers, panes, tunnels and bridges hang off the transport; host
keys and prompts are asked through brokers that the renderer polls; runs and
hosts live in SQLite.

## Modules

* `ConnectionStates` - the nine states, the transition table, the classes of
  connect errors.
* `SessionLifecycle` - one host's entry of `SessionManager`.  `registered` is the
  entry's existence, `state` and `generation` the two cells of
  `ConnectionStateController`, `guard` the holder of `connect_guard`,
  `connection` the generation of the installed transport (0: none), `transport`
  and `pump` the life of each transport and of its `pump_events` task; `pc`,
  `gen`, `left`, `outcome` are the callers' program counters, locals and results.
  `Connect*` actions are the stretches of `connect_with_jump_auth_typed` between
  awaits, `Disconnect*` those of `disconnect`, `mark_*` the unguarded writes,
  `Pump*` the steps of the pump from the end-of-transport event on (the two reads
  of the generation, the read of the state, the check and the write inside
  `transition_for_generation`).
* `ConnectionContract` - what a session promises, without guard, pumps and
  callers: Down, Establishing, Up, Lost, and tickets.  `SessionLifecycle`
  implements it under `Phase`, `generation`, `connection`.
* `ConnectionSupervisor` - extends the session with `connect_host`,
  `disconnect_host`, `delete_host`, the supervisor loop (`Tick*`, `Wake`) and the
  attempts (`Attempt*`); every `SessionManager` call is the session's own action.
  `backoff` says that the host's `retry_schedule` entry is not due.  A user is a
  stream of commands given one after the other, as `hostDisconnectGate.ts`
  serialises them.  `delete_host` refuses a host with runs; a refusal changes
  nothing and is not an action.  `parted` and `raced` are history: the host was
  disconnected or deleted, and an attempt began from a snapshot older than that.
* `TransferManager` - transfers with their controls, leases, permits, workers,
  `.part` files and the reaper.  Worker `<<t, n>>` is the task of the n-th run of
  t.  Uploads and downloads follow the same protocol and are not told apart.  A
  chunk carries source and version, so that torn files are visible; a change of
  the source is assumed to show in size or modification time, as the code does.
* `RunLifecycle` - Run History of one host.  `row` is the table, `call` and
  `outcome` the `run_action` call of each run, `remote` and `code` what the wrapper
  script of `build_run_script` left on the host, `pass`, `todo`, `probes`,
  `cleanup` the `run_reconcile` call that holds the host, `up` the desktop process.
  Runs are numbered by `started_at_ms`.  `Crash` may come at any step and loses
  everything but `row` and the remote side; `Restart` is the recovery that
  `AppState::open` runs.  A second `run_reconcile` for the same host returns 0 and is
  no action.  A probe of a recorded run may come back Unknown (the markers cannot be
  read); `Misread` names these.
* `PromptBroker` - both brokers, which follow one protocol, and the store of trusted
  keys.  A check is its own request id.  `pc` runs through
  `verify_for_connection` or `prompt_for_connection`; `requests` and `pending` are the
  two tables, `slot` the oneshot channel; `at`, `job`, `choice`, `batch`, `todo` are
  the command threads inside `answer_for_owner` or `cancel_for_owner`.  Every lock
  taken is a step of its own.  Errors are not told apart: they all mean that the
  handshake fails.  `MayStart` is `connect_guard`: one check at a time per
  workstation.  That a check ends with its connection attempt is taken from the
  guard's comment (`host_key.rs:244`), since russh runs it.  The commands that
  cancel do so in one broker after the other; the model lets a thread make the two
  calls in any order.
* `TunnelManager` - `open`, the accept loop, the proxies, `close` and
  `close_all_for_host`.  A tunnel is a number; `call` and `reap` are the program
  counters of close calls and of reapings, `lock` is `close_lock`, `connections` the
  table of join handles, `active` the counter shown to the user.  `late` remembers
  tunnels that entered the table after a reaping had looked.
* `EventPump` - the path of an event: `queue` of its transport, `pump` (with the
  snapshot of subscribers it routes by), `inbox` of a subscription or `pending` for
  replay, `forwarder` to the renderer.  An event is generation, channel and number.
  `room` is the capacity of an inbox, which `subscribe` enlarges by the replay; the
  targets of an event are a set, served in the order of registration (`seat`).  Of the two
  bounds of the replay window (events and bytes) the model has the first.
* `SessionResources` - panes, SFTP, transfer slot, bridges and commands, each with
  its channel, and `filtered`, the channels kept out of the event stream.  `call` holds
  the connection a caller read before its await.  `shown`, `typed`, `issued` and
  `released` are history.
* `LocalPty` - the registry, the console of each terminal (`master`, `running`,
  `lingering`), its reader thread, its subscriber and backlog, and the queues of the
  subscriptions.  The two locks of `subscribe` and of `emit` are steps of their own.  A
  kill may fail, which the code ignores; `hung_up` remembers shells that were dropped
  without a kill that worked.
* `AddressCandidates` - `configured_candidates`, `discover_candidates`, `deduplicate`
  and the policy's order as operators; `IsResolution` is the reference definition,
  which says what the list must be without saying how to merge.
* `Dialing` - one connect call over those candidates: jump or direct, proxy process,
  key check, methods in turn, and which errors lead to the next candidate.  `offered`
  records what was offered to whom, `turns` how each method went.  A missing name, port
  or user fails like an empty list of methods and is not told apart from it.
* `HostRecords` - the `hosts` table, the credential store, the command on the main
  thread (`main`), `delete_host` (`del`) and a connect that reads (`reader`).  Commands
  that are not `async` run one at a time on the main thread; `delete_host` does not.
  `raced`, `lost`, `crashed` remember what may leave the stores apart.
* `TailscaleRuntime` - the embedded `tailscaled` of the Windows build.  `lifecycle` and
  `held` are the two mutexes, `child`, `path`, `cache` the fields of `RuntimeInner`,
  `lock`, `lease`, `auth` the files of a state, `proc` the process table, in which ids
  are reused.  Two application processes may overlap in spite of the single-instance
  plugin: one may still be ending, or belong to another login session.  `lost` remembers
  daemons whose lease was removed or passed over while they lived; a cached status keeps
  who asked (`by`) and which daemon answered (`at`).
* `*Proofs` - theorems and proofs about the modules they extend.  `ConnectionProofs` is about
  the session and the supervisor that drives it, `RunsAndTerminalsProofs`,
  `HostsAndDialingProofs` and `TransfersAndEventsProofs` about two components each.
* `MC*` - what TLC needs besides the modules (definitions for the cfg files).  Where one
  instance large enough for everything would be out of reach, the MC module has a
  variable `cast`, chosen at the start and never changed, that says who takes part;
  every behaviour of the module with that cast is explored.

## Runs

Every bound is a constant of its module: `MaxGeneration` (transports),
`MaxCandidates` and `MaxAddrs` (addresses), `MaxCommands` (user commands), `Attempts`
(attempts in flight), `Chunks`, `MaxPermits`, `MaxRetries`, `RetryCalls`, `MaxVersions`,
`MaxPauses`, `MaxRuns`, `MaxCrashes`, `MaxConns`, `MaxChannels`, `Loads` (events or
chunks produced), `MaxId`, `MaxSub`, `MaxSaves`, `MaxPid`, `MaxCalls`; in `PromptBroker` the
sets of checks and keys.  `Limit`, `BatchSize`, `MaxPanes`, `MaxSessions`, `MaxPending`,
`QueueSize`, `InboxSize`, `Headroom` and `EventQueue` are limits of the code, scaled down.

| Run | Instance | Shows |
| --- | --- | --- |
| `Session` | 2 callers, 3 generations, 2 candidates | guarded writes are accepted, Ready is current, nobody is stranded, only the guard's holder leaves a connect, the contract is implemented, a pending drop surfaces |
| `Supervisor` | 1 user and 2 overlapping attempts with 3 generations, or 1 attempt at a time with 4; 2 commands | the token has its attempt; single flight until a disconnect; a disconnect is not undone by an attempt in flight (`LiveIsSupervised`); a Reconnecting host is retried; commands return unless a wait for a peer lasts forever |
| `Transfers` | casts: 2 transfers to one destination with 2 permits (so that only the lease keeps them apart); 1 that is paused; 1 that is retried by id; 2 versions | published files are whole, workers are leased, leases come back |
| `Runs` | casts: a Background and a Quick run, exit codes 0, 1, 125, 1 stop of the desktop; three runs with a list limited to 2, one of which dies without a trace; batches of 1 | the history is true and final, observed results are kept, evidence is removed only for settled rows, recorded exits are settled unless newer unresolved rows fill the list |
| `Prompts` | casts: 2 checks of one workstation with 3 keys of 2 algorithms and any legacy record; a bastion check and a keyboard round of 2 workstations; 2 command threads | only the owner's answer to the request is trusted, a key on record stays, cancelled questions are woken and final, nothing is left behind, every check ends |
| `Tunnels` | 2 tunnels of 1 host, a connection to one of them, a close call and a reaping, 2 transports | the counter is exact, closed and reaped tunnels are quiet (`TunnelInv`); closes return |
| `Events` | 2 subscriptions of any filter, 1 channel, 2 transports with 3 events in all, buffers of 1 | no hole over the seam of replay and live delivery, the first subscription is whole, at most one stale event (`EventInv`); the end passes the pump |
| `Resources` | 2 callers, 2 channels, 2 transports, 1 pane | pane limit, input, one manager, filter (`ResourceInv`); no orphaned channel |
| `LocalTerminals` | 2 terminals opened and closed by 2 threads at a limit of 1; or 1 terminal, 2 chunks, 2 subscriptions, backlog of 2 | limit, no shell left behind, streams, delivery at most once (`TerminalInv`); readers of closed terminals end |
| `Dialing` | all lists of up to 3 of 6 addresses against 13 answers of the Tailscale daemon; 2 candidates, 2 socket addresses, up to 3 methods, with and without bastion and proxy | credentials, diagnosis, processes (`DialInv`); the candidate list is what the policy promises (`CandidatesAreRight`); the call ends however silent the others are, unless a bastion never answers the channel request |
| `HostRecords` | 1 host, 3 payloads with references of another host, 2 saves, a crash anywhere | references, secrets and their use (`RecordsInv`) |
| `TailscaleRuntime` | 2 processes, 2 tasks, 2 states of which one is shared, 3 process ids, 3 commands | daemons, leases, key file, what `ensure` caches (`RuntimeInv`); kills are justified; commands end |

Two callers and three generations are enough for an old pump, a connect that
replaces its transport and a disconnect to overlap; in the
supervisor, three let a user's connect and two attempts overlap, and four a
retried attempt and its own undo; two chunks and two
versions are the least with which a file can be torn; two runs are the least
with which one answer of a batch is refused and the other would have been
written, and three the least with which a limit of two leaves a row out.  Two command threads let an answer and a cancellation of the same
question overlap, and two checks let the second meet what the first has saved.
Two tunnels let one enter the table while the other is being reaped; three events and
buffers of one make an eviction, a full mirror and a promotion happen; two terminals at
a limit of one make two opens race for the last slot; two candidates of two socket
addresses make both kinds of fallback happen; two saves let a rollback restore an
earlier secret; three ids are the least with which an id is reused while another daemon
runs.  Where a run may stop (`CHECK_DEADLOCK FALSE`), nobody has to connect, subscribe
or open anything.  The theorems remove the
bounds where they apply.  In `SessionLifecycle` a call starts only if the bound
leaves it a generation, so the bound never blocks a call half way; in the
supervisor `TickBound` marks where the bound, not the code, ends supervision.

The invariants of the newer modules are conjunctions of named parts; `PROJECT.json` has a
mutant of the code for each part.

## Where the code and what is written about it disagree

Met while modelling; the properties state the part that holds.

Session and supervision:

* A drop between `attach` and `set_state(Ready)` is dismissed (`session.rs:1931`) and the
  session stays Ready on a dead transport, against `tests/session_manager.rs:451` ("drop
  must surface as Reconnecting").  `PendingDropSurfaces` is what holds.
* A connect that has read the record before `delete_host` installs its transport
  afterwards (`commands.rs:503` against the comment at 249).
* A reconnected transport that drops before the attempt looks again is taken for a
  cancellation, and the host rests in Disconnected (`commands.rs:709` against 613-616).
* `disconnect_host` takes the token from under an attempt before it takes the profile,
  and a tick in between starts a second attempt, against `ARCHITECTURE.md:176`
  (`SingleFlightUntilDisconnect` is the part that holds, and is proved).
* A tick that took its snapshot before a disconnect may start its attempt after it: the
  attempt finds its own token and ends in a live connection the user has no profile for
  (`LiveIsSupervised` says that nothing else does this).
* `mark_reconnecting` of a failed attempt carries no generation and can flag a session
  the user has connected meanwhile.
* `transition_for_generation` checks the generation and writes the state in two steps:
  an old pump between the two flips a session that reconnected meanwhile, against
  `session.rs:1926`.

Transfers:

* A paused transfer does not notice that it was cancelled (`manager.rs:1079` against
  `docs/TROUBLESHOOTING.md:130`); a resume between the check of `paused` and the wait is
  lost; a dead event pump does not wake a paused worker either.
* With `PoliteRetry = FALSE` and two calls, `retry(id)` starts two workers on one `.part`
  file; with two transfers and one polite call, the old worker's `release_lease` removes
  the lease that the retry has just taken, against `manager.rs:248-249` and 256-258.  The
  desktop itself never calls `retry(id)`.
* On Windows the old destination is moved aside before the rename; a crash in between
  leaves no file under its name.

Runs and prompts:

* A reconcile pass lists the newest `Limit` unresolved rows; rows that can never be
  resolved keep their places, and with `Limit` smaller than their number an older run
  that left its exit marker is never listed.
* Endpoint-scoped keys have no counterpart of `PinnedKeyStays`: workstations that share
  a bastion connect at the same time, and the later `TrustAndSave` replaces the earlier
  record without `HostKeyChanged` (`host_key.rs:5-6`).
* An answer sent between the deadline and the drop of the receiver is reported as applied
  although the check has timed out (`host_key.rs:343`).
* `cancel_for_owner` wakes what is pending; a question asked right after it still keeps
  `connect_guard`, and the disconnect behind it, until it is answered or expires.

Events, resources, tunnels:

* The pump checks the generation before it takes the locks, so one event of a retired
  transport can be delivered or kept for replay after all, against the comments at
  `session.rs:1629` and 1833 (`AtMostOneStale`).
* Subscriptions of a pane stay registered across `attach`; channel numbers start again,
  so an old pane's subscription may take the first events of a new pane of that number.
* A call that read the connection before `attach` installs its SFTP session, manager or
  pane afterwards, against the doc of `sftp_session` (`session.rs:872`).
* The loser of two `sftp_manager` calls drops its manager, but its pump task holds what
  keeps the channel open, against `session.rs:957-959`.
* `exec_owned`, `sftp` and `forward_channel` enter a channel into the filter only after
  the server confirmed it (`connection.rs:483`): early events pass.
* A tunnel that enters the table between the snapshot and the last step of
  `close_all_for_host` keeps its listener and nobody can close it (`ForgottenIsQuiet` says
  that this is the only way).

Local terminals:

* `subscribe` sets the sender and drains the backlog under two locks, and so does `emit`:
  when they overlap an event may be stranded or overtaken, and a failing send may clear a
  newer subscriber (`StreamIsWholeUnlessRaced`).
* When `try_clone_reader` or `take_writer` fails, `open` drops the console without killing
  the shell; a kill that fails is ignored (`lib.rs:194`, 206, 272).  Such a shell is left to
  notice that its console is gone.

Dialling and records:

* The channel through a bastion is requested without a deadline of its own
  (`connection.rs:368`), with `connect_guard` held: a bastion that is alive and silent keeps
  the call (`DialEnds` says that nothing else does).  A refused channel counts as a protocol
  error and ends the fallback.
* A timeout of authentication counts as retryable although the allowlist's comment
  excludes authentication (`ssh/lib.rs:121`); a transport failure inside the agent is
  remembered as a problem of the method (`connection.rs:866`).
* Configured Tailscale addresses are dialled also when the daemon says they are offline.
* `delete_host` reads the references and the number of runs, then awaits the disconnect:
  a save in between leaves a secret without a record or a record without its secret; a run
  created in between is deleted with the host.
* A stop between the write of a secret and that of its row leaves an orphan, against
  `commands.rs:303-305`, which speaks of a failing database only.
* No command creates the credential reference of a bastion that `commands.rs:157` refers
  to.

Tailscale runtime:

* `ensure` returns whatever status is cached (`runtime.rs:199`): a status without login
  stored by `tailscale_status` makes it succeed for as long as the cache is valid, against
  "Ensures the requested backend is usable".
* The key file goes when `ensure` ends, after the wait for the login, not "immediately
  after `tailscale up` returns" (`runtime.rs:8-10`).
* A status query that times out is not retried while the daemon starts, against
  `cli.rs:154-157`.
* Any error of reading the lease counts as no lease (`runtime.rs:440-442`), and a failing
  inspection removes the lease without ending the daemon: both start a second daemon beside
  one that lives.
* `tailscale_status` stores an answer after awaits (`runtime.rs:135-136`): it may be that of
  a daemon which has been replaced meanwhile.  `EnsuredIsOfThisChild` holds of what `ensure`
  stores.
* `shutdown` gives up the lock before it removes the lease, so it may remove that of
  another process; a stop
  between spawn and lease, or inside `shutdown`, leaves a daemon without one (`lost`).
* The process id may be reused between inspection and `taskkill`.
* An `ensure` queued behind the `shutdown` of a quit starts a new daemon before the process
  ends (`lib.rs:345-349`).
* Other platforms do not exclude each other by the lock, and only remove stale leases.

## Fairness

Tasks of the tokio runtime that can run are run (weak fairness of each task's
steps), `connect_guard`, `close_lock` and the permits are tokio primitives that serve
waiters in order (strong fairness of acquiring), and time passes (`BackoffElapses`,
deadlines).  Users owe nothing, transports need not drop, sources need not change, a paused
transfer need not be resumed.

Not every wait for a peer has a deadline: the channel through a bastion
(`connection.rs:368`) and the goodbye of a transport (`session.rs:1642`) have none, and
keepalive only ends transports that are dead.  So of a call's steps `SessionLifecycle` and
`ConnectionSupervisor` are fair only to `LocalStep`, which leaves out every step that waits
for a peer (`PeerPC`), and to acquiring the guard; the pumps are fair.  `CommandsReturn` has the premise that no such wait lasts forever: it is about the guard and
the order of the commands.  `Dialing` is fair only to the steps the call takes by itself and
to its four deadlines; `DialEnds` holds though no name server, peer, agent or user ever
answers, under the premise that the call does not stay in `forward` for good.  In
`TransferManager` file operations are taken to return.

In `PromptBroker` a
check's own steps and its deadline are fair, the users' answers are not.  In
`RunLifecycle` only database
writes that are due are fair; that passes are made and answered, and that markers are
misread only finitely often, are premises of `RecordedIsSettled`, because the renderer asks
for passes when the user moves about.

In `TunnelManager` loops, proxies and
calls are fair; an answer to `forward_channel` and the last write of a proxy that is shutting
down are taken to come, which keepalive ensures for dead transports and nothing for silent
ones.  In
`EventPump` pumps and forwarders are fair and a renderer that stops reading is not asked to
read: its forwarder sends to an IPC channel that does not block.  In `LocalPty` reader
threads and forwarders are fair, reading ends once the console is closed, and neither a shell
nor a kill is trusted to end.  In
`TailscaleRuntime` the steps of calls, the acquisition of the two mutexes included, are
weakly fair (each of its waits has a deadline); crashes and deaths of daemons are not owed.

## Proofs

* `ConnectionProofs`, the session - `SessionInv` is the inductive invariant: the guard
  has one holder, which alone stands in a call (`HolderInCall`), and the state
  follows the holder (`StateFollowsHolder`).  Without the second part a refused
  write cannot be excluded: the proof needs that from ResolvingAddress and
  Connecting neither a pump nor a mark may move the state.  From it follow that
  guarded writes are accepted, that Ready is current, that nobody is stranded,
  that only the holder leaves a connect, and the refinement of
  `ConnectionContract`, one case per action.  `LEMMA TransitionTable` gathers the
  facts about the table that are used.  The theorems hold for every set of
  callers and every bound.
* `ConnectionProofs`, the supervisor - `LEMMA SupervisorUsesSession` (a step of the composed
  system is one of `SessionSafety`, because every call is the session's own action) carries
  the session's theorems over; type correctness; `TokenInv`, from which the token has its
  attempt and single flight until a disconnect; and `LiveInv`, from which a live session has
  a profile when commands and attempts are over: while it has none, somebody who will undo
  it stands in a call (`Handler`), and the token is gone before the profile, so that no
  attempt finds its token afterwards unless it began from an older snapshot (`raced`).
* `TransfersAndEventsProofs`, the transfers - for `RetryCalls = {}` (as the desktop uses the
  manager): `LeaseInv` says that a worker between enqueue and release owns its
  destination's lease; hence active workers are leased and writers exclude each
  other, for any number of transfers and permits.  On top of it `FileInv` says what a
  worker knows of the `.part` file it alone writes: the file ends where the worker stands
  (`PartFits`), and as long as the source has the version the attempt began with - and for
  good once that was verified at the end - every chunk is of that version, those an
  earlier run left behind included.  Hence what the rename publishes is whole
  (`PublishedAlwaysWhole`).

* `TransfersAndEventsProofs`, the events - what a subscription has in its inbox is in order
  only because of where the rest of the channel is, so `PumpInv` accounts for every event of
  a wire (one channel of one transport).  `Wire` says that, of the numbers produced so far,
  those up to some p were taken from the stream and the rest waits in it in order
  (`QueueAt`); the replay window holds a run without a hole that ends at the last routed
  one and misses only what `evicted` counts until somebody subscribes (`HeldAt`); and an inbox holds a run that continues what its renderer was given
  and ends at the last one delivered (`GotAt`), unless the subscription is in `missed`.
  `SubscriptionsFit` says that nothing of a channel is kept while a living subscription
  reads it, which is why live output never overtakes a replay; `PumpsFit` says that what a
  pump holds is of its transport and for subscriptions that asked for it,
  `StaleFits` that a retired transport has one event past the generation check or
  none.  The steps that need thought are the routing of an event (the window may push out
  its oldest) and `subscribe`, where the window becomes the inbox.  Any channels,
  subscriptions, transports, loads and limits.

* `RunsAndTerminalsProofs`, the runs - whether a late write is harmless depends on what its writer
  learned earlier, so `IInv` says of everything in flight what the properties say of
  the rows: concluded outcomes and Completed probes are true, a row settled before
  its own call wrote was settled by a recorded exit, the cleanup list holds settled
  runs.  It is preserved because remote facts are stable.  `TrueResultsAgree` is
  the heart: two true results of a recorded run are equal, so the two writers cannot
  contradict each other.  Any number of runs, limits, codes and restarts.

* `RunsAndTerminalsProofs`, the local terminals - `PtyInv` is inductive.  Its part about the
  registry (`CommandsFit`, `FreshFit`, `ShellsHeld`, `ReadersFollow`) says that a running
  shell is registered, in the hands of the command that opens or kills it, or hung up
  (dropped with its console, or after a kill that failed), and that a registered terminal has a reader or is about to get one.  Its part about events
  (`EventsAt`) says that an event is in the reader's hand, in the backlog or in exactly one
  subscriber's stream, in order and, unless the terminal is in `raced`, without a hole.
  The step that needs thought is the drain: the whole backlog fits into
  the fresh queue because `EventQueue >= MaxPending`.  Any callers, terminals,
  subscriptions and limits.

* `PromptBrokerProofs` - `PInv` has four parts besides types: answers on their way
  are the owner's (`Answers`); a question leaves `pending` after its sender has left
  `requests` (`Tables`), so a cancellation that no longer finds a question has nothing
  to wake (`Calls`); and what a lookup found stays true while the check waits,
  because checks of one host exclude each other (`Pins`).  `ConcludeKeeps` treats all
  returns at once, `PersistKeeps` both kinds of save.  Any number of workstations,
  checks, keys, threads.

* `TunnelManagerProofs` - `TunnelInv` speaks of tunnels that are closed; that nothing is
  left by then depends on where every running proxy is known before: its handle is in the
  table, in the hands of the accept loop that has not entered it yet, or in the list of
  the one `close()` that drained the table (`ProxiesHeld`), and `close_lock` keeps that
  one alone (`LockFits`).  `ReapFits` says that a `close_all_for_host` has each tunnel of
  its host still to do, in hand or done, unless it came late.  Any number of tunnels,
  hosts, connections, calls; `Tunnels # {}` is assumed so that an idle call has a value.

* `HostsAndDialingProofs`, the records - `RecordsInv` is about hosts at rest.  `IInv` says for every phase
  of a save or a deletion which references of its host agree with the store
  (`StoresAgree`), which secret is swapped and with what it would be restored (`Swapped`),
  which are about to be deleted (`Dropped`, `PlansFit`).  A crash is then harmless or
  leaves what `crashed` names.  Any hosts, payloads and number of saves, for all four
  authentication modes.  The assumption `IsRecord` is the shape of `Host` that serde
  accepts from the renderer: it restricts fields, not which references are sent.

* `HostsAndDialingProofs`, dialling - `DialIInv` adds two parts to what the run checks:
  while methods are offered the endpoint's key has been verified, and the call stands one
  place behind the turns it has taken (`AuthFits`); the error that is kept is that of the
  first method that was unusable (`FirstIsKept`).  With them credentials stay home, the
  diagnosis is the first one and no process is left: `DiallingIsSafe`, for any scenario and
  any resolver.

* `SessionResourcesProofs` - a call holds a channel, and sometimes an entry of the filter,
  across an await in which the transport may drop, be replaced or be closed.  `CallsFit`
  says what it may rely on when it resumes (the channel is its own and of its kind),
  `FilterFits` why its entry is not garbage, `PanesFit` that ids are counted and not
  reused, `SlotFits` that managers come from the slot only.  With these, `ResourceInv` and `NoOrphanChannel` are inductive.  Any callers, limits, channels
  and transports.

* `TailscaleRuntimeProofs` - `CallFits` is what `ensure` and `shutdown` hold at each await:
  the two mutexes, no child, the lock file of the state, a lease that is the one they read
  or gone, and from the clean-up to the new lease no daemon that the old one names and `lost`
  does not.  `AppFits`: a child's state is locked
  by its process and the lease is about this child, or was removed by the shutdown of the
  holder before.  `DaemonFits`: a daemon is in the hands of a command, leased, or in
  `lost`, into which the windows of the code put it: a lease that is passed over because it
  cannot be read, an inspection that fails, a lease removed by a late `shutdown`, a crash
  where the lease is not there yet or no more.  What `ensure` caches is about the child
  because `lifecycle` is held from `ensure_child` to `cache_status`.  That two daemons never share a state follows: both would be named by the one
  lease, or be in the hands of the one command that holds the lock.  `GentleFits` shows
  once that a step of one command leaves the others what they rely on; the actions are
  grouped by what they do (go on, leave, forget the lease, take something).  Any number of
  processes, commands, states and ids; the assumption `"left" \notin Callers` keeps a
  marker apart from tasks.

The proof of the last module corrected the model in two places.  `KillIsJustified` used to
say that the process that is killed is nobody's child; with three processes that is false,
and TLC confirms it: between the inspection and `taskkill` (`runtime.rs:481`) the
daemon may exit and its id go to the daemon of another state.  What the lock does guarantee is
that the process is not the child of one that holds this state, and that is now the
property.  And `lost`, a history variable, could keep a daemon whose lease was never
removed, or one that had been dropped; it now counts only daemons of the state whose lease
goes, and forgets those that end.

Only model-checked: liveness (outside the prover's reach), everything about `retry(id)` (for
which the leases do not protect the destination; that writers exclude each other is a
theorem without it, `WritesAreExclusive`) and what `AddressCandidates` computes (its
merging folds over lists, and what a fold computes needs induction over data; it is compared
with its reference definition on bounded inputs, `CandidatesAreRight`).

## Not modelled

* The renderer: views, layout, and the promise gates of `src/runtime`.  That a renderer
  sends the commands of one host one after the other is used in `ConnectionSupervisor` only.
* The SSH protocol (russh), SFTP requests, the bytes of terminals, tunnels and bridges.
* Parsing: the JSON of `tailscale status`, Herdr output, profiles and snapshots.
* Tables without references or results (projects, actions, snippets, snapshots) and the
  migrations.
* The Windows adapters, the agent, and the system-wide Tailscale client: single calls.
* What a crash leaves of a transfer on disk: nothing in the code picks it up again.

## Plan

Done: all modules above, and the proofs of the session and its supervisor, of transfers,
events, runs, local terminals, prompts, tunnels, host records, dialling, session resources
and the Tailscale runtime.  Every invariant and every action property that a run checks is
stated by a theorem, except `CandidatesAreRight`; the other eleven properties without one
are liveness properties.
