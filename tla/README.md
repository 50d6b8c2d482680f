# TLA+ models of JWM

JWM is a window manager for X11 and Wayland with out-of-process status bars, a
desktop shell, an IPC server, a remote-desktop mode and a voice assistant. This
directory holds TLA+ models of the parts where order, failure or long sequences
of events decide whether it is correct, the TLC configurations that check them,
and TLAPS proofs:

* the shared-memory ring between the window manager and its bars
  (`crates/shared_structures`), where one dead process can damage all others;
* the voice assistant's execution of desktop actions (`eva`,
  `crates/jwm_eva_core`, `src/jwm/eva.rs`), which must not act twice, without
  approval, or forget what it did;
* the IPC server (`src/ipc_server.rs`), one loop that serves every client;
* the window manager's book-keeping of windows, tags, monitors and focus
  (`src/jwm`, `src/core`).

    tlc -workers 2 -config ring_channel.cfg MCRingChannel   # a run
    tlapm RingChannelProofs.tla                              # the proofs

Paths below are relative to the repository root. `PROJECT.json` lists the
components, runs, properties, mutants, hazards and theorems, and maps every
definition to the lines it models.

## 1. Inventory

| Part | State | Operations | Talks to | Hard because |
|---|---|---|---|---|
| Ring channel (`typed_ring_buffer.rs`) | slots, two free-running cursors, two direction locks holding TIDs, destroyed flag | write, overwrite, read next / latest, peek, drain, send / receive command, destroy | every process that maps it | MPMC over shared memory; threads die inside critical sections; lock takeover from dead holders |
| Waiting and signalling (`backends/*.rs`) | sequence, waiter count, futex / semaphore / eventfd | register, wait, signal, wake_all | ring operations | skipped system calls, timeouts, dead waiters, shutdown while registering |
| Creation and reclaim (`typed_ring_buffer.rs`) | flink file, OS object, header (creator PID, destroyed) | create, open, open_or_create, reclaim, Drop | `monitor_management.rs`, the bars | file-system races, crash residue of several formats, retry loops with a deadline |
| Bar runtime (`xbar_core`: `runtime.rs`, `notifier.rs`, `wake.rs`, `transport.rs`) | notifier threads, wake state, subscribed transport | subscribe, wake, drain, reconnect | ring, toolkit event loops | stale wake-ups of replaced transports, coalescing |
| Desktop shell (`jwm_shell`: `action_queue.rs`) | latest action per key, worker | push, take, shut down | IPC | overwritten actions, shutdown with work queued |
| Assistant execution (`jwm_eva_core/ledger.rs`, `eva/executor.rs`, `store.rs`, `src/jwm/eva.rs`) | ledger file of intents and results, frozen plan, dispatch task; permit, confirmation card, table of guarded operations | freeze, confirm, record intent, dispatch, settle, reconcile, prune, recover | daemon and window manager over IPC | lost and late replies, crashes between two writes, resent requests, dropped futures whose work goes on |
| IPC server (`ipc_server.rs`, `ipc_handler.rs`) | per client input and output buffers, cursors, deferred errors, interest; poll cursor, continuation eventfd | accept, read, parse, reply, broadcast, retire | clients, event loop | pipelining, half-closed and slow peers, budgets, readiness that user-space buffers hide |
| Window-manager policy (`src/jwm/*`, `src/core/*`) | clients, per-monitor client lists and focus stacks, selections per monitor and per tag, views, locks | manage, unmanage, focus, tag, move, minimize, exchange, hotplug, lock | backends, layouts, bars | long sequences of legal events; lists and selections that must agree |
| Status-bar supervision (`statusbar.rs`, `monitor_management.rs`, `update_readiness.rs`) | child processes, back-off, update state | spawn, reap, retry, replace | ring, bars | children that die or hang, retries |
| Restart state and sessions, configuration, layout geometry, rendering, display backends, remote desktop, portal, bridge, applications | | | | sequential, numeric or I/O; not modelled |

What makes the ring correct, informally: entries come out whole, in order and
at most once; no two live threads are inside one direction's critical section;
a dead thread costs at most its own unfinished operation; a caller never spins
or sleeps for ever; shutdown reaches everybody; the public path always leads to
the one live ring or to residue that can be recognised.

The assistant: an effect starts at most once, only with a saved intent, a
sensitive one only with an unused local approval, in plan order; what the ledger
calls final is what happened, and what was announced survives a crash.

The IPC server: every complete frame of a peer that still listens is answered,
in order; nobody is cut off who keeps to the limits; the loop neither sleeps on
work nor spins without.

The window manager: a window is listed once, where it is; tiles come before
floats; remembered selections are on their monitor; the keyboard is on a window
that can be seen.

## 2. Modules

| Module | Models |
|---|---|
| `RingQueue` | Abstract: a bounded FIFO queue with atomic operations, what a channel promises |
| `RingChannel` | One channel in detail: locks, cursors, slots, death and takeover |
| `MCRingChannel` | Which thread calls what, for TLC |
| `RingChannelProofs` | Theorems about `RingChannel`: types, locks, cursors |
| `RingRefinementProofs` | Theorems about its slots, and that it implements `RingQueue` |
| `WaiterGate` | The sleep/wake handshake over each kernel object |
| `WaiterGateProofs` | Theorems about `WaiterGate` |
| `RingLifecycle` | Creating, opening, reclaiming and dropping rings on one path |
| `RingLifecycleProofs` | Theorems about `RingLifecycle` |
| `ActionLedger` | The ledger's operators: intent, result, pruning, recovery |
| `EvaDesk` | The window manager's side: permit, card, table of operations |
| `EvaExecution` | The daemon composed with `EvaDesk`: executor, dispatch tasks, store, reconciliation, crashes |
| `MCEvaExecution` | A plan of two steps, for TLC |
| `EvaExecutionProofs` | Theorems about `EvaExecution` |
| `IpcClient` | One connection: framing, output, reply order, interest |
| `IpcServer` | Peers, readiness hub, `process_ipc` over `IpcClient` records |
| `MCIpcServer` | Which peer sends what, for TLC |
| `IpcClientProofs` | Lemmas about the operators of `IpcClient` |
| `IpcServerProofs` | Theorems about `IpcServer` |
| `Desktop` | The window manager's state and the helpers its commands are made of |
| `Workspace` | The commands and events on a `Desktop` |
| `MCWorkspace` | Windows and outputs for TLC |
| `WorkspaceProofs` | Theorems about `Workspace` |

`RingChannel` implements `RingQueue` (`QueueSpec`). `WaiterGate` takes from it
that queue operations are atomic and represents the queue by two counters.
`RingLifecycle` is about which mapping a process gets at all.

### RingChannel

`wIdx`, `rIdx`, `lock`, `slots` and `destroyed` are the shared-memory words of
one channel; `pc` and `call` are the program counter and the registers of each
thread. A step is one access to shared memory another thread can observe.
Loading the two cursors is one step: the one of the caller's own direction
cannot change under its lock, so only the other load matters. `Start`,
`CasLock`, `Probe`, `Steal`, `GiveUp`, `RecheckFail`, `Enter` are
`lock_for_operation_until` and `acquire_until_deadline`; then `LoadProducer`,
`Evict`, `ReleaseRead`, `FillBegin`, `FillEnd`, `Publish` for the writers and
`LoadConsumer`, `CopyBegin`, `CopyEnd`, `Advance` for the readers; `Unlock`
drops the guard. Writing and copying a slot take two steps, so that a slot can
be observed half written (`Torn`); a checksum is modelled by what it detects, a
copy of a slot that changed meanwhile. `Die` can strike at every step and
leaves the lock words behind. The message channel has all six operations, the
command channel uses `"write"` and `"next"`.

Abstractions: sequentially consistent memory (the code uses acquire/release on
the words that carry data and SeqCst in the wait handshake); no clock, so
`LOCK_CONTENTION_LIMIT` may expire after any failed attempt; the probe runs at
any failed attempt rather than every 256th; indices are counted modulo
`IndexSpace` in place of 2^32.

### WaiterGate

The registration handshake of `common.rs` step by step (snapshot, count, look
again, compare), the wait loops of the three backends, the producers' signal
and `destroy()`. `backend` is chosen at the start, as a ring is created with
one strategy. `has_message` loads the write cursor and then the read cursor, as
the code does, so that the estimate can be stale. Kernel semantics: FUTEX_WAIT
compares and sleeps atomically, `sem_wait` takes its token, `poll` only sees
that there is one and a separate non-blocking `read` takes it.

Bounds: `MaxPublish` entries per behaviour, one `destroy()` (a repeated call
can only add wake-ups). The 32-bit sequence does not wrap within the bound.
Left out: failures of the wait system call other than EINTR, EAGAIN and a
timeout, after which the code falls back to testing for data.

`NoMissedSignal` and `SleeperWakes` exempt an eventfd ring after `destroy()`
(`StrandedByEventfd`). With three consumers the defect of
`gate_eventfd_destroy` below also strands a consumer an entry is waiting for: the
token of `destroy()` goes to a consumer that had already unregistered. Two
consumers cannot show it, so `gate_wake` would hold without the exemption; the
theorem, which is about any number of them, would not.

### RingLifecycle

`flink` is the file at the public path, `object` the set of shared-memory
objects that still have a name, `kind`, `creator`, `destroyed` their headers.
Initially the path is free, or names a ring of the current protocol, of the
legacy (v13) protocol or something foreign, of a dead or of a live creator.
`Call` to `Publish` are `open_or_create_with_opener` with `open_impl`, the two
probes, `prepare_stale_mapping_reclaim`, `create_impl` and `publish_flink`;
`Drop*` is the handle's Drop. Comparing and unlinking the flink are two
steps, as they are two system calls, and either may fail: a reclaim then gives up
(`ReclaimFails`), a Drop ignores the error and lets the object go
(`DropLeavesLink`). Supervisors that reclaim follow one another:
the comment on `reclaim_stale` and `docs/SAFETY.md` demand one at a time, since
two of them can unlink each other's flink (`SoleSupervisor`). A mapping
nobody names or maps is forgotten and its entry stands for a new one, which
bounds the model without bounding the number of rings. A PID is not reused.

### EvaExecution

`mem` and `disk` are the daemon's ledger and its file, functions from operations
to record states. `exec` is the executor of the current plan at one of its
awaits, `task` the spawned dispatch of each operation, which outlives it,
`wire` the requests under way, `late` store closures whose caller was dropped,
`recon` the answer a reconciliation pass is about to apply. On the other side
`EvaDesk` has the permit, the confirmation card with its used steps, and `table`,
where an operation is reserved before it starts. `performed`, `outcome`,
`approvals`, `published`, `pruned`, `retired` and `lost` are history.

A step is what runs without an await: one store access (the mutex is held over
record, save and publish), one IPC request handled, one look at the flag.
`DropExecutor` may strike at every await. A save succeeds, fails before, or
fails after the ledger file was replaced (it writes `usage.json` next). Times are
choices: deadlines, retention and the twenty seconds after which an accepted
operation becomes unknown may pass at any moment. `Resend` is a client that lost
its answer and repeats the sealed request, as the native close test does.
Operation ids are unique per plan and step; each plan is frozen once. Bounds:
`MaxGeneration` activations, `MaxFaults` faults in all (a crash, a failed save, a
resend and a restart each cost one).

### IpcServer

A token stands for a byte: part of a frame, or a newline; the last byte of a
frame says what the frame parses as. `stream` and `wire` are the two directions
of the socket, `client` the `IpcClient` record with input buffer, scan position,
output, counters and interest. A poll flushes and reads one client per step
(`PollClient`, or `PollUnflushable` and `PollReadFails` when a system call fails),
then parses the frames it read one per step
(`RejectFrame`, `DeliverFrame`); peers act in between. Replies follow one per step
(`Respond`). `Wake` is a turn of the event loop caused by the readiness hub,
`Tick` one for another reason. Messages to a peer are not split: partial writes
only move a cursor within `out_buf`. A frame has a byte that is not white space:
blank lines are newlines alone, and white space at the very end of a stream, which
the server drops without a reply, is not sent. Writes and reads fail only once the
peer has closed its socket. Limits are constants, so that every budget
and buffer is reached.

### Desktop and Workspace

The state is one record, and a helper a function from desktop to desktop, so an
action reads like the handler: `focus(Sent(wm, c, m), None)`. Handlers run to
their end on the manager's one thread, so each is one action. A tag mask is a set;
slot 0 is the per-tag record of "all tags". `Docks` are shell windows that other programs
map: floating, on all tags, never focused. They move on when their output goes; the
bars that JWM itself starts on an output, and stops with it, are left out. Rules, parents and remembered placements decide
where a new window goes and whether it takes the focus; the model takes any
choice. `focusmon` stands for every way to select a monitor, `move_client_to_tag`
for the key and the overview. `Init` has the outputs found at start-up, possibly
none; `setup_initial_windows` manages a window of the start-up scan and can only
happen before the first command. `steps` bounds the number of commands,
`MaxOutputs` the outputs at start-up. `Keep` is `filter`: the n-th entry it keeps
is the n-th by position (`Nth`). `AttachAll` is the result of attaching the
clients one by one: the tiled ones join the end of the tiled group in their
order, the floating ones the end of the list, and the stack gets them reversed.

## 3. Runs

| Run | Instance | Shows |
|---|---|---|
| `ring_channel` | 3 threads, all operations, 2 mortal, 2 slots, 4 indices, 2 payloads (symmetric) | `MutualExclusion`, `TakeoverSafe`, `PendingBound`, `WindowIntact`, refinement of `RingQueue` |
| `ring_live` | 3 threads, one mortal, one that may stop for ever, TIDs reused, 1 slot | `CallsReturn` |
| `ring_tid_reuse` | as before | violation of `TakeoverSafe` |
| `gate_wake` | all backends, 2 untimed consumers, 1 producer, 2 entries | `NoMissedSignal`, `SleeperWakes` |
| `gate_crash` | futex and semaphore, one timed mortal consumer, a mortal producer | `RegisteredCounted`, `DestroyReleasesAll`, `TimedReadReturns` |
| `gate_eventfd_destroy` | eventfd, nobody dies | violation of `DestroyReleasesAll` |
| `lifecycle` | a bar, a creator, the supervisor; the last two mortal; two mappings at a time | `OnlyDropDangles`, `LiveCreatorNamed`, `NameKept`, `ExpiredReturns` |
| `lifecycle_superseded` | eventfd, a mortal creator | violation of `SupersededTold` |
| `eva_execution` | one plan of two steps, the first sensitive, the second a level control; one permit per window manager process, two faults | `AtMostOnce`, `OncePerApproval`, `WriteAhead`, `LedgerTruthful`, `PublishedDurable`, `PlanOrder` |
| `ipc_replies` | one peer that pipelines valid and malformed frames and subscribes, one that only connects; one place in the server | `RepliesInFrameOrder`, `NoFrameLost`, `RetiredAfterReplies`, `OnlyLongFramesOverflow` |
| `ipc_wake` | two peers, one with several frames, budget of one frame per poll | `NeverSleepsOnFrames`, `ReadyMeansWork`, `SkippedGoesFirst`, `EveryFrameAnswered`, `HalfClosedRetired` |
| `workspace` | two applications, a bar, three outputs, up to two of them at start-up, three tags, four commands (symmetric) | `ListedOnce`, `TiledFirst`, `SelectionOwned`, `FocusStaysInView` |

Why the bounds are enough. Two slots and four indices make the ring full,
empty and wrapped around in the same behaviour, and an index value returns
after two turns. Three threads are a holder, one that found it dead and a third
that takes or frees the lock between the probe and the exchange. For the gate
two consumers are the least that can steal each other's wake-up. Two mappings
at a time are the ring being reclaimed and its replacement.

For the assistant two steps have an order, and two faults make pairs such as a
crash after a failed save or a resend after a restart. The instance never fills
the table of operations or the ledger; the theorems of `EvaExecutionProofs` hold
for every capacity and any number of plans and steps. For the IPC server a buffer of a few
tokens is crossed by every combination of frame end, limit and end of stream, and
two peers are enough to starve one. For the desktop two windows and a bar fill
both groups of a list; three outputs let the selection fall onto a locked one
while another is clear; windows found at start-up make the four commands all
count. `workspace` also holds with five commands on two outputs (three million
states), which takes too long to repeat each time.

`CHECK_DEADLOCK FALSE` is set for the ring and the gate: with every thread
dead, or the buffer destroyed, the system has nothing left to do. It is also
set for `eva_execution` and `workspace`, which stop when their bounds are used
up. The IPC server can always tick, and deadlock is checked.

Fairness. A thread inside a call is scheduled again unless it is dead or in
`Stopped` (weak fairness of its steps). Deadlines come from clocks that only
advance, so an attempt that is repeated for ever eventually finds its deadline
passed: strong fairness of `GiveUp` and of `Expire`. In `WaiterGate` a read
that keeps trying eventually gets the lock (strong fairness of `Take`): holders
run and release within a few instructions, and nobody is stopped there. No
fairness makes anybody call an operation, publish, die, or be interrupted.

In `ipc_wake` the event loop reacts to the hub (an infinitely often ready hub is
served), finishes the poll and the replies it began, and a peer that is alive
reads what is written to it; a peer need not write, close, or finish a frame,
and the loop need not tick on its own, so the properties rest on the hub alone.

## 4. Disagreements with the documentation

* **TID reuse and takeover** (`ring_tid_reuse`). The probe finds holder *h*
  dead; another thread takes the lock over and releases it; a new thread gets
  TID *h*, acquires the lock; the first thread's `compare_exchange(h, self)`
  succeeds and two threads are inside. The comment on `CursorGuard` and
  `ARCHITECTURE.md` say that reuse only ever errs towards waiting
  (`SAFETY.md` concedes the window as improbable).
* **A lost shutdown token** (`gate_eventfd_destroy`). A consumer in
  `wait_on_eventfd` unregisters and then reads the eventfd. `destroy()` in
  between counts only the other consumer and writes one token, which the first
  one takes. The other sleeps for ever. Reading before unregistering would
  close the gap.
* **Superseded without notice** (`lifecycle_superseded`). Reclaim through an
  opened handle publishes `destroyed`, as its comment demands; reclaim through
  the probe, which an eventfd ring with a dead creator takes, does not.

Observations without a run of their own:

* A creator's Drop whose removal of the flink fails discards the error
  (`typed_ring_buffer.rs:2521`), and the mapping it owns unlinks the object all the
  same: the path is left naming nothing. Opening it fails, `open_or_create` retries
  until its deadline, and no call repairs the path. Lines 854-855 state the rule
  ("Never unlink the OS object while its matching public flink remains"), and the
  crate's README promises that the creator's Drop removes the flink. So "the path
  names an object that exists" is no invariant (TLC refutes `~Dangling` with
  nine states). What holds is `OnlyDropDangles`: a path starts to dangle
  only when its creator's Drop lets the object go, and never through a reclaim,
  whoever dies or fails in it.
* `set_client_sticky(false)` hands no focus on. A focused window that is made
  sticky, moved to another tag and made unsticky leaves the view and keeps the
  keyboard. `src/jwm/session.rs:2298` states the rule every tag mover follows,
  "so the keyboard never stays on a window nobody can see". `FocusStaysInView`
  names this handler as an exception, so that it holds for all the others. The
  other exception is a window that refuses focus, mapped while nothing is
  selected: it stays `monitor.sel`, though the root window has the keyboard.
* `togglefloating` tiles a bar that became selected that way; an exchange of
  monitors then leaves it behind the floating windows (`TiledFirst` assumes that
  bars float).
* `persist_undo_cleanup` of a first undo shares its hash with a second undo of the
  same plan, so a late cleanup can rewind the frontier although
  `eva/src/executor.rs:1316` says that it must not. The undo list is not
  modelled.

Smaller observations about the ring: a slot left half written by a dead
producer is never read, since it was not published and is filled again
(`SAFETY.md` says a consumer meets a bad checksum); `available_messages` can
report a full ring that is nearly empty, because the write index is loaded
first; with timed and untimed consumers mixed, a timed one can be woken, fail
to get the lock before its deadline and leave an entry to an untimed sleeper
until the next signal; a supervisor that dies between unlinking and
`destroy()` leaves attached processes untold; a flink whose object is gone,
for instance after a reboot, is never reclaimed by `open_or_create`; a creator
that dies between creating and publishing leaks its object.

## 5. Proofs

`RingChannelProofs` holds, for every set of threads, assignment of operations,
capacity and index width that is a multiple of it (at least twice):

* `TypeCorrect`: `Spec => []TypeOK`, TID reuse included.
* `Exclusion` and `TakeoverIsSafe`, while no TID is reused. `MutualExclusion`
  by itself is not inductive: a thread about to exchange the lock word could
  have recorded any holder. `LockInv` adds that a thread inside a critical
  section finds its own TID in the lock word (`HoldersMarked`), that the
  holder recorded by a thread about to steal is dead, which without reuse is
  for ever (`StolenAreDead`), and which operations can be at which label
  (`OpsInProgress`). The assumption is exactly what `ring_tid_reuse` drops.
* `CursorsBounded`, under the same assumption. `CursorInv` adds to `LockInv`
  and the bound what threads in mid-operation know: a producer past its loads
  still holds the current write cursor and has room (`ProducerView`), a
  consumer holds the current read cursor and the write cursor it loaded lies
  between (`ConsumerView`). Both follow from exclusion.

`LockInv` is split into a part per thread (`Local`), and a step by one thread
keeps the others' parts if it takes no lock word from a thread inside its
critical section (`LocalSuffices`). The arithmetic of wrapped distances is
lemma `Distance`. Both inductive invariants hold on the `ring_channel` instance
in TLC.

`EvaExecutionProofs` proves all seven invariants of `eva_execution`, for every
set of operations and plans, every capacity, and any number of faults:

* `TypeCorrect`.
* `ExecutesAtMostOnce`: `AtMostOnceInv` adds that a performed operation that was
  not retired is reserved, or belongs to an instance that is gone (`Reserved`).
* `ApprovedOnce`: `ApprovalInv` counts an approval whose step is unused as one to
  spare (`Authorized`).
* `IntentIsWrittenAhead`: `WriteAheadInv` adds that whatever is spawned or on the
  wire has a durable record, and that the ledger in memory lags behind the file
  only where nothing was sent.
* `PlansRunInOrder`: `OrderInv` carries the saved success of the earlier steps
  from the executor over its task to the wire.
* `AnnouncedIsDurable`: `PublishedInv` says that an announced record is final in
  memory and on disk alike, so no later result replaces it.
* `LedgerTellsTheTruth` needs two: `FlightInv`, which requests can still be
  performed (`Coming`) and that an executor past its last check, a dropped
  closure or a cancelled task has none; and `TruthInv`, that every result in
  somebody's hand (`Claims`: executor, task, closure, reconciliation) is true or
  settled already.

Each is proved action by action with `TypeOK`; an action that touches none of an
invariant's variables is discharged by one lemma.

`RingRefinementProofs` completes the ring, again while no TID is reused:

* `WindowStaysIntact`: the published entries are whole and in order.
* `ImplementsQueue`: `Spec => QueueSpec`. The abstract queue is read off the slots
  between the cursors; `Publish` is its `Put`, `Evict` its `Evict`, `Advance` (or
  the end of a copy, for a peek) hands an entry over, and every other step is
  invisible.

Both rest on `WindowInv`, which adds to `CursorInv` what a thread in mid-operation
knows of its slot (`Entry`): the entry about to be published is in the slot at the
write cursor, and a copy under way matches the slot it is made of. That nobody
writes the slots between the cursors follows from `CursorInv` and one fact of
arithmetic: two indices less than a ring apart fall on different slots, because
the capacity divides the index space. TLC checks `WindowInv` on the instance of
`ring_channel`.

`WaiterGateProofs`, for any number of consumers, producers and entries and all
three backends:

* `TypeCorrect`, and `WaitersAreCounted`: `RegisteredCounted` is inductive once
  the dead that never unregistered are counted too.
* `NoSignalIsMissed`, for untimed consumers (`Timed = {}`). With timed ones the
  property is false, see section 4. The invariant counts (`EntriesServed`): while
  a consumer is idle, the pending entries are no more than the threads on their
  way to deal with them (awake consumers, and producers that have not made their
  system call yet) plus the tokens. It needs that a consumer that registered and
  saw no signal since has missed only entries still to be signalled
  (`UnseenUnsignalled`), and, for `destroy()`, that everyone committed to sleep has
  a token coming (`Released`). TLC checks `GateInv` with two and three consumers
  and each backend.

`RingLifecycleProofs`, for any number of processes, supervisors and mappings:

* `TypeCorrect`, `LiveCreatorStaysNamed`, and two action properties, `NamesAreKept`
  and `OnlyDropLeavesDangling`. `PathInv` says what each process knows at each label
  (`Knows`): a reclaim is a supervisor's and of a mapping whose creator is dead;
  between compare and unlink the path still names that mapping, and never again
  afterwards; a mapping not yet published is known to its creator alone; a creator
  finds its mapping under the path until its Drop is done with the flink; a path
  that names the mapping of a live process names the one it holds, or dangles
  (`FlinkOwned`). That nobody
  intervenes between compare and unlink is where one supervisor at a time is
  needed. TLC checks `PathInv` with two successive supervisors.

`IpcServerProofs`, for any number of peers, every setting of the limits, and any
order of events:

* `TypeCorrect`; the scan position never passes a newline.
* `OverflowNeedsLongFrame`: what stays in the buffer after a read is one
  unfinished frame, or more frames than the budget took (`Limits`).
* `NoFrameSlept`, `ReadinessIsWork`: `Interest` relates each client's epoll
  interest to its buffers outside its own turn of the poll.
* `SkippedClientGoesFirst`, an action property: `Turn` says that the cursor is
  the client after the last one served, also when clients come and go.
* `RepliesComeInOrder`, `FramesAreKept`, `RetiredWhenAnswered`, from the invariant
  `Replies`. The order of the replies sent so far says nothing of the next one, so
  `Replies` follows a peer's frames through every place they pass (`Paired`): the
  replies sent are those of frames 1 to k (`Ordered`); then come the frames the
  caller holds and the parse errors deferred behind them, merged by the counter
  each error waits for (`Queued`); the caller's list has the held frames as one
  contiguous run (`Block`); the lines already split off, the buffer and the socket
  have the rest, up to the last frame written (`Following`). A connection that was
  given up keeps its replies in order; one that is about to be retired has all of
  them. During a poll, the list holds only messages of clients already served
  (`Roll`), so a client's new frames are not mixed with another's.

The proof is in layers. `BaseInv` has the types and what holds of each client
record. Each action is then described by what it does to the client it is about
(`PolledClient`, `DeliveredLine`, `Responded`, ...), and every later layer is
proved from these descriptions, not from the actions. `IpcClientProofs` has the
facts about the operators: what framing takes from a buffer, what a flush leaves,
how replies and deferred errors are queued. Where a fact about a sequence needs
induction, it is proved from the least counterexample, which the lemma
`LeastNat` provides for any set of numbers.

`WorkspaceProofs`, for any set of clients, bars and outputs, any number of tags
and commands, any masks that name at least one tag, and any number of outputs at
start-up:

* `WorkspaceTypes`, `WindowsListedOnce`, `SelectionsOwned`: `Spec => []TypeOK`,
  `[]ListedOnce`, `[]SelectionOwned`.
* `TilesStayFirst` and `KeyboardStaysInView`, the action properties `TiledFirst`
  and `FocusStaysInView`.

None of the three invariants is inductive alone. `detachstack` selects the next
entry of the focus stack, so `SelectionOwned` needs the stack's part of
`ListedOnce`; an exchange of monitors or a returning output keeps `ListedOnce` only
if unmanaged clients have no monitor; `togglefloating` and a drop on another
monitor act on the selected window and need it to be on the selected monitor.
`Core` therefore says that the client order and the outputs have no repetitions,
that a client has an output exactly when it is managed and there is one
(`Placed`), that each list and each stack is an enumeration of the clients whose
record names the monitor (`Listed`), that selections are the monitor's own and
per-tag ones never a bar (`Selected`), that slots are in view (`Viewed`), and that
no lock is held twice. `Core` holds between any two helpers of a handler. The
invariant `Inv` adds `Anchored`, the selected window is on the selected monitor,
which a handler may break half way and `focus` restores. TLC checks `Inv` on the
instance of `workspace`.

The proof has four layers. Facts about sequences: what `Keep`, `Without`,
`InsertAt`, joining, cutting and exchanging do to an enumeration (`Enum`) and to
its grouping (`Sorted`). A lemma for each helper of `Desktop`. A lemma for each
handler that relates the desktop s before and u after it: `Kept(s, u)`, the
invariant and the grouping, and `InView(s, u)`; handlers that end in `focus` share
`EndsWithFocus`. Last, one lemma per action that names the handler's lemma
(`StepSound` collects them). That pruning leaves an output without a shade is a
pigeonhole argument on the lengths of two sequences without repetitions
(`Pigeonhole`). Facts about every sequence are proved from the least
counterexample or by counting positions, without induction over sequences.

Only model-checked: every liveness property, and the fairness behind it, which
the prover cannot express (`CallsReturn`, `SleeperWakes`, `DestroyReleasesAll`,
`TimedReadReturns`, `ExpiredReturns`, `EveryFrameAnswered`, `HalfClosedRetired`).

## 6. Plan

Next, in this order:

1. The undo list of the ledger with `persist_undo_cleanup`, as an extension of
   `EvaExecution`: the frontier never moves back.
2. `BarNotifier`: the notifier loop and transport slot of `xbar_core`
   (`notifier.rs`, `wake.rs`, `transport.rs`), composed with the ring's wake-ups:
   no wake-up of a replaced transport is delivered, every commit is eventually
   drained.
3. `Workspace`: scratchpads, swallowing, fullscreen and PiP; session restore.
4. `LatestActions` of `jwm_shell/action_queue.rs`, as an abstract
   specification of coalescing shared with the bar's wake state.

## 7. Not modelled

The repository has some 740,000 lines in 690 files. The larger part of them draws,
encodes, parses or talks to a display server: rendering and compositor backends
(X11, Wayland, KMS, GPU), layout geometry and animation, toolkit bars, remote-desktop
media, D-Bus adapters, applications, configuration, and the tests within each
file. It is I/O, numeric code or a sequential function of one snapshot, for which
a state machine says nothing a unit test would not. The models cover the code
whose correctness depends on order and failure, a small share of the lines.

Within the modelled components: message payloads (`shared_message.rs`) are a
memory layout; passing eventfds over a socket is I/O; failures of epoll, after
which the IPC server polls by timer, and the ownership of its socket file; topic
matching; what an IPC command does; the assistant's dialogue, speech, undo list,
preflight of plans that close windows, and verification of quit and restart;
swallowing, scratchpads, PiP, fullscreen, maximize, columns of the scrolling
layout, the bars JWM starts itself, the rollback of a failed minimize, activation requests
and the X11 refresh of monitor geometry. Vendored and generated code is left
aside.
