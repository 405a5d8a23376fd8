# SDR-- in TLA+

SDR-- is a software radio server: it opens radios, runs their samples through signal processing,
and serves spectra, sound, pictures and decoded records to browsers. Most of the repository is
arithmetic on samples, decoders for bit formats, drivers and user interface. This project models
the part that is none of these: the concurrent core that moves samples from a radio's thread to the
DSP thread, opens, fails, retunes and revives radios, gets the results to clients without losing
track of what was lost, and remembers what the user did.

Six modules model six components; TLC checks them on small instances. For all six TLAPS proves the
safety properties for every instance, and for the first also that it implements an abstract queue.

| Module | Component | Code |
|---|---|---|
| `CaptureRing` | the queue from a radio's thread to the DSP thread | `engine/src/capture_ring.rs`, `engine/src/metrics.rs`, `device/src/lib.rs` |
| `LossyFifo` | what the capture ring promises, as one abstract queue | |
| `CaptureRing_proofs`, `CaptureRing_refinement` | its theorems | |
| `DeviceSets` | the table of open radios and the threads that change it | `engine/src/device_ops.rs`, `engine/src/hotplug.rs`, `engine/src/lib.rs`, `engine/src/runtime/capture.rs` |
| `DeviceSets_proofs` | its theorems | |
| `RadioControl` | one running radio: patches, lanes, scanner, sweep, recordings | `engine/src/device_ops.rs`, `runtime/patches.rs`, `lanes.rs`, `scanner.rs`, `scanner/sweep.rs`, `capture_ops.rs` |
| `RadioControl_proofs` | its theorems | |
| `Outbox` | the queue in front of a browser's WebSocket | `server/src/ws/outbox.rs`, `server/src/ws.rs` |
| `Outbox_proofs` | its theorems | |
| `Tunnel` | the multiplexed connection to app.sdrmm.com | `tunnel/src/client.rs`, `stream.rs`, `window.rs`, `frame.rs` |
| `Tunnel_proofs` | its theorems | |
| `Sums`, `Sums_proofs` | the sum of a sequence of sizes, used by `Outbox` and `Tunnel`, and lemmas about it | |
| `WorkspaceHistory` | undo, redo, remembered settings and autosave of a workspace | `server/src/store.rs`, `workspace.rs`, `rest/workspaces.rs`, `rest/devices.rs` |
| `WorkspaceHistory_proofs` | its theorems | |

`MC*` modules instantiate them for TLC; each `.cfg` is one run of `PROJECT.json`, which also lists
every component, hazard, mutant, finding and theorem and maps each definition to its lines.
Paths in this file are relative to `src/crates/` unless they start with `src/`.

To reproduce a run: `tlc -config Outbox_loss.cfg MCOutbox`; the proofs: `tlapm` on
`CaptureRing_proofs.tla`, `CaptureRing_refinement.tla`, `DeviceSets_proofs.tla`, `Sums_proofs.tla`,
`Tunnel_proofs.tla`, `Outbox_proofs.tla` and `WorkspaceHistory_proofs.tla` (one to four minutes each), and
`RadioControl_proofs.tla` (ten minutes).

## Inventory

### Where the state is

- **Capture ring.** Two lock-free single-producer single-consumer rings per lane (samples, and spans
  that say where in the capture a run of samples lies), two gauges and a drop counter that both
  threads update, and the consumer's memory of how far it fell behind. Operations: `push` on the
  radio's thread, `consume_fresh` on the DSP thread, `hand_over` of a playback source that waits for
  room. Hard: neither operation is atomic, and six shared things change at six different moments.
  Correct when every sample is delivered under its own index, in order, or counted as dropped
  exactly once.
- **Device sets.** `Inner` under one mutex: the sets with their status, error, fault and runtime, the
  ids being created, the faults kept for them. Radios are opened, started and stopped *outside* the
  lock. Operations: create, remove, shut down, mark a fault, probe the bus, reconnect. Threads: one
  per API call, the fault drainer, the hotplug prober, and the drivers that report a dead stream.
  Hard: every operation is cut where it lets go of the lock. Correct when no open radio is ever
  without an owner, no two sets share an exclusive radio, and a dead stream is always shown.
- **WebSocket outbox.** Four lanes (control, decoded records, sound, pictures) with limits of their
  own and one byte budget, filled by the session and its forwarder tasks and emptied by a writer that
  waits on a `Notify`. Hard: lanes overtake one another, forwarders are aborted between an await and
  a send, wakeups coincide. Correct when the budget is exact, losses are counted and told in time, a
  stream's start and stop bracket its frames, and control never waits for ever.
- **Tunnel.** A session with a serve loop, a writer, a bounded outbox they share with a task per
  relayed request, and a byte window per stream and direction. Hard: the loop that watches for
  silence also waits for room; credits travel through four places; each exchange has two halves that
  end each other. Correct when credit is conserved, a peer is never flooded, and exchanges end.
- **One radio under control** (`engine/src/device_ops.rs`, `runtime/patches.rs`, `scanner/`,
  `capture_ops.rs`). The set's entry in the table, the runtime that owns the driver, a queue of
  device patches that merge while one is applied, the `patching` lock of each runtime, the count of
  rate changes in flight, and what pins the rate. Operations: patch, restart the lanes, start and
  stop a scan, enter and leave a firmware sweep (which takes the driver out of one runtime and puts
  it into another), begin and end a recording, an export or the time machine, fault, reconnect,
  remove. Hard: three locks, each let go in the middle of an operation, and two of them belong to a
  runtime that another thread may replace. Correct when the table says what the radio is set to, a
  recording's header keeps telling its rate, and the driver always has an owner.
- **Workspace history** (`server/src/store.rs`, `workspace.rs`, `rest/`). The arrangement and its
  revision, the rows undo and redo walk through, the settings radios are restored from, and the
  autosave task that writes them behind the user. Operations: read, edit, rename, undo, redo, apply,
  dial, close, save, crash and restart. Hard: settings live in three places that lag behind one
  another, rows borrow what they do not hold from neighbours that are coalesced and pruned. Correct
  when no edit is lost to one that did not see it, history has no hole, a step leads back to where
  the radios were, and what was dialled is saved in the end.
- **Lane runtime** (`engine/src/runtime/`): DSP and control threads of a lane, a command queue,
  retired channels that are freed elsewhere. Start, stop and the consume loop appear in the modules
  above; the command queue is not modelled.
- **Recorder** (`engine/src/recording.rs`, `recorder/`): writers fed from the DSP thread. That
  recordings begin, commit and end is in `RadioControl`; what they write is not modelled.
- **Channels, streams, sinks, arrays, trunking, hunt, placement** (`engine/src/`): bookkeeping under
  the engine's lock around signal processing.
- **Server** otherwise: REST handlers, switching of workspaces, phones, auth, TLS, missions, GPS,
  health, MCP.
- **dsp, modem, channels, orbit, cps**: numeric or bit-level and sequential.
- **Drivers, recorder, wire, mobile core, apps, web, tools**: I/O, data types, user interface.

### How the parts meet

A driver's thread calls `RxSink::push`, which ends in the **capture ring**; a lane's DSP thread
consumes it and broadcasts frames and records. Forwarder tasks of a browser's session receive those
broadcasts and put them into its **outbox**, whose writer feeds the socket. That socket may be one
that the **tunnel** opened for a relayed WebSocket, in which case the writer feeds the tunnel's
`to_relay`. API calls and the hotplug prober work on the **device sets**, whose runtimes own the
driver, the ring and the lane; a driver that gives up calls the fault handler its runtime was started
with, which reaches the table through the drainer. Changes of the table are broadcast as events and
reach the outbox as control. Clients and the scanner set the radio of a set through **radio control**,
which works on the same table entry as the device sets and adds what happens to one of them between
its creation and its removal. The same events tell the **workspace history** that a dial was moved.

The components otherwise meet only through queues whose far end is free to be as slow or as fast as it
likes, so each is modelled against an environment that takes every speed; no module relies on what
another one proves. `DeviceSets` and `RadioControl` share the table: the first has many sets and knows
nothing of settings, the second one set and all that is done to it, with faults, reconnects and removal
in both.

## The modules

### CaptureRing

A sample is abstracted to the capture index it was taken at, so a ring is a sequence of indices and
"the right sample under the right index" can be said. `push` is cut into `Offer` (gap counted, what
fits is decided), `Claim`, `CountPush`, `Debit`, `CommitSamples` and `CommitSpan`; `consume_fresh_at`
into `TakeSpan`, `ReadChunk`, `Judge` (stale, recovering or fresh), `CountPop`, `Release` and `Freed`:
one action per access to something the other thread sees. `Tick` is the clock both stamp spans with.
`first`, `delivered`, `out` and `episodes` are history.

`LossyFifo` is the queue the two rings amount to: indices go in at the edge of the capture, in order,
and come out at the front in pieces that are delivered with the index of their first sample or
discarded. `Fifo` in `CaptureRing` is the refinement mapping: what was judged has left the queue
although its slots are released later (`Waiting`), and the edge is where the block that is being
pushed begins, or the next one will (`Edge`).

Not modelled: `QueueMetrics.oldest`, which only a display reads, and the wrap of a 64-bit index.

### DeviceSets

`sets`, `creating`, `pending` and `nextId` are `Inner`. A runtime `rts[r]` stands for the open radio
it owns; its `gate` says where its fault handler sends: straight to the drainer (create), or to the
gate of a reconnect that is not swapped in yet. Each thread has a program counter and its locals.
Create is `Create`, `OpenRadio`, `Recheck`, `Reserve`, `Start`, `Insert`, `Announce`; remove and
shutdown are `TakeOut`, `Teardown`, `Announce`; a fault is `Die`, `Drain`, `Release`; the prober is
`ShouldProbe`, `Probe`, `Decide`, then `MarkAbsent`, `Reconnect`, `Reopen`, `Restart`, `Swap`,
`Retire`, `EarlyFault`, `NoteReconnectFailure` per set, and `ProbeDone`. Everything under one hold of
the lock is one action. `dirty` and `misses` are history.

Plugging, unplugging, streams that die, drivers that refuse and probes that miss a radio are the
environment, switched by `Glitches`, `Refusals` and `Hiccups`. Runtimes are numbered from the
least unused number, so identities carry no information.

Not modelled: overruns, AGC read-back, arrays, the rebuilding of channels after
a reconnect (done under the same hold of the lock as the swap).

### RadioControl

`set` is the entry of `device_sets` with its settings, lanes, runtime, pins and scanner; `rts[r]` a
runtime with its patch queue (`waiting`, `batch`, `refused`) and its `patching` lock; `handle` says
who has the driver, and `hw` what the radio is really set to. A patch is `Ask`, `Admit` (lock and
refusal while sweeping), `Validate`, `Apply` (join the batch that waits, or take it), `WriteBack`,
and `RestartLanes`, `StartLanes`, `SwapLanes` when the number of lanes changed. A scan is `StartScan`,
`ListScan`, `StopScan`, `EndScan`, `LastFollow`; a sweep `Enter`, `StartSweep`, `SwapSweep`, `Hit`,
`Leave`, `StopSweep`, `Restore`, `SwapSweep`, and `NothingToTake`. What pins the rate goes through
`Begin`, `Commit`, `Finish`. A fault is `Die`, `Drain`, `MarkLanes`, `Joined` (the scanner is
joined before the runtime is stopped), `Halt`; a reconnect `Reconnect`, `Revive`. Settings are a
centre, a rate and a number of lanes. `overtaken` (a patch's runtime was replaced
under it) and `lost` (a driver refused to come back from a sweep) are history: they name the two
conditions under which the code does not keep its word. `meta` is the rate a runtime's lanes were told
with `set_meta`, a set so that a runtime which was never told has the empty one. Batches are numbered up to
`MaxBatches`; wherever a patch joins a queue, the revert of one that came too late included, the bound is in
the guard.

Not modelled: other settings, what a scan looks for, the plan of a sweep, hits and channels, the
writers of recordings.

### Outbox

`q` is `Queue`: four sequences, the byte count, the drop and loss counters, `closed`. `Push`,
`Popped`, `Lane`, `Expired` and their helpers are the queue's methods; how old a frame is when the
queue is touched is left open, so any prefix of a frame lane may expire. `permit` is the `Notify`.
Every task that holds an `Outbox` has a place in `task`: a forwarder is "busy" from being handed
something until it awaits again, and an abort only takes effect where it awaits. Handed a picture, it
looks with `try_recv` for a newer one (`Drain`, `DrainLagged`) and then has it on "hold". A spectrum
(`SpectrumStreams`, those of `spawn_spectrum`) may come faster than the client asked for
(`Throttled`), and when its source closes the forwarder asks for another (`Reopen`, `Reopened`) before it gives
the stream up. Which of these are counted is part of the model: `Outbox::dropped` is told of a lag in
`recv`, of sound that is skipped and of symbols, IQ and video that a newer one replaced, and of nothing else.
The writer is `Recv`, `Woken`, `Written`, `WriterGivesUp`. `pushed`, `stops` and `heard` are history,
`heard` being what a client that counts would know.

Not modelled: what messages say, stream ids and their allocation (ids are never reused by the code),
`health()`.

### Tunnel

`status` and `sessions` are the run loop; `serve` is where the serve loop is: "select", or one of the
three pushes (`ping`, `beat`, `reset`) it waits in, during which it neither reads nor watches the
clock. `st[s]` is a stream's task: `down` is the local server's answer (`request`, `response`, then
`idle`, `spend`, `push` per chunk, and `last` or `reset`), `up` what goes to the local server. An
aborted task is "cancel" until it reaches an await, since another thread may be polling it. The
receiver of a stream's queue lives as long as `upload`, `to_local` or `discard_until_end` has it
(`Listening`): it is dropped, with what is queued, when one of them has met its End or Close or the
exchange fails (`Unheard`), and what the relay sends after that is lost, uncredited, and nobody is told. The relay
is external: it gives each request of a session a number of its own, has at most `WINDOW` bytes of a
stream under way (what the relay of `tunnel/tests/relay.rs` does), reads when it likes, credits what
it passed on, and may hang. The local server may answer, refuse, break off or stop reading at any time.

Not modelled: the encoding of frames and the rewriting of headers (sequential and tested by
round trips), retry delays, what a health report says, round trip times, pairing.

### WorkspaceHistory

`snapshot`, `revision`, `rows`, `at` and `stored` are the tables of the store; `live`, `unrestored`,
`scanning`, `event` and `saver` are gone after a crash. The handlers that touch the store, and the
autosave, run under `apply_gate` and every call of the store is a transaction, so each is one action:
`Read`, `Edit`, `Rename`, `Undo`, `Redo`, `Apply` (reconcile), `Dial`. `Close` (`delete_device_set`) and the scans
(`StartScan`, `SweepTo`, `StopScan`) only call the engine and take no gate; in the code they may fall between
the `begin_edit` and the `finish_edit` of another handler, in the model they come before or after it.
The autosave task is `Notice`, `Tick`, and `Save` or `SaveFails`: a save that fails is logged and the task
waits for the next event. `capture` passes over radios that follow a scan and radios that did not take their
settings back (`PassedOver`), whose stored settings stand. `Record`,
`Pushed`, `Filled`, `Coalesces` and `StateAt` are the helpers of the store. An arrangement is the
nodes it holds a radio for, the nodes it draws without one, and how it looks. `seen`, `drifted` and
`kept` are history: what the workspace was at each step, and the two ways settings leave that path.
`drifted` is about every node, drawn or not: a dial of a radio that the graph released, or an edit that
forgets a node, moves settings that a row behind it still tells, and so does a scan. Once
`drifted` holds, `seen` remembers nothing older than the present. When no row at or behind a row has
settings, `state_at` takes the oldest there are (`server/src/store.rs`), which is a guess and may be wrong:
draw a second radio and dial it, and the row before, which knew nothing of that radio, borrows where it was
from a later row. `RowsTellTheTruth` says nothing of that guess, and says that the undo of a dial never
depends on it.

Not modelled: switching and deleting workspaces, `put_workspace_channel`, placement, calibration,
radios that cannot be opened at all, a store that fails anywhere but in the autosave (`finish_edit` too only logs it),
channels that a scan carries along (`capture` passes over their frequency as it does over the radio's), and
patches that change whether a radio follows its scan.

## What is checked

Every property has a mutant, a plausible slip in the code that makes the run fail; `PROJECT.json`
lists them. Counts are distinct states.

| Run | Question | States |
|---|---|---|
| `ring_live` | Does a radio at any speed keep samples, indices and counters right, do the rings behave as one queue, and are they drained? `EverySampleAccounted`, `SpanAlwaysBacked`, `ReceivedAtItsIndex`, `RoomIsHonest`, `IsolatedStallKeepsFresh`, `ImplementsLossyFifo`, `Drained` | 148 k |
| `sets_safety` | Two clients, drainer, prober and one USB radio: `NoRadioLeftOpen`, `OneSetPerRadio`, `DeadStreamIsKnown`, `ChangesAnnounced`, `RemovedStaysRemoved` | 785 k |
| `sets_network` | With a receiver that accepts a second handle while the first is open, is a dead stream always shown in the end? `FaultSurfaces` | 166 k |
| `radio_safety` | Two clients patch, record, scan and remove a radio that sweeps, dies, refuses and is revived: `TableTellsTheRadio`, `RateStaysPinned`, `RadioHasAnOwner` | 1.9 M |
| `outbox_queue` | Sound, pictures and control within one budget: `BytesExact`, `StartComesFirst`, `StopsBehindItsFrames` | 4.2 M |
| `outbox_loss` | Is everything that entered the outbox, or was reported to it as dropped, counted once, and is a lost record told of before what follows it? `EveryPacketAccounted`, `GapsExplained` | 2.6 M |
| `outbox_live` | Is a wakeup ever lost? `ControlDelivered`, `WriterEnds` | 30 k |
| `tunnel_safety` | Is credit conserved both ways, the relay never flooded, the last frame last? `CreditConserved`, `RelayNotFlooded`, `UploadsCredited`, `LastWord` | 1.4 M |
| `tunnel_live` | Do senders get on, requests end, and is a relay that hangs given up? `SenderNotStuck`, `RequestsEnd`, `SilenceNoticed` | 120 k |
| `history_safety` | Edits, dials, scans, undo, redo, autosave, saves that fail and crashes: `HistoryWhole`, `RowsTellTheTruth`, `RevisionNamesSnapshot`, `EventuallySaved` | 640 k |

### Bounds, and why they are enough

- *Ring.* Three sample slots, two span slots, blocks of one and two, gaps of none and one: a block
  fits, fits in part, or not at all; the span ring is full while the sample ring is not; a span is
  consumed in two pieces. An age limit of 1 with a clock to 3 gives fresh runs, stale runs, and a
  second stale run after a fresh one, which is what recovery depends on. `MaxIndex` 5 wraps the ring.
  The proofs remove all of these bounds.
- *Device sets.* One radio, because sets of different radios share only the lock; two ids, so that a
  removed set's successor exists; four runtimes, so that the old one of a set, the new one of a
  reconnect and one of a second create are alive together; two waiting faults, so that a stale one
  is behind or in front of a real one. `MaxFaults` blocks `Die`, not a thread. The proofs remove these
  bounds for the safety properties.
- *Outbox.* Each lane reaches its limit, the byte budget is reached by two frames and by one frame
  with control, a frame larger than `FrameLimit` exists in `outbox_loss`, and `MaxRecords` is twice
  the lane, so that a loss is followed by delivered records and by another loss. The pictures are
a spectrum in `outbox_queue` and `outbox_live`, and of another kind in `outbox_loss`, where what the drain
loop counts and what it does not matter. The proofs remove
  these bounds for the safety properties, frames of any size and any number of streams included.
- *Tunnel.* One stream, since streams share only the outbox, which pings and health reports also
  compete for; a window of two with messages of one and two is overdrawn, exactly used up and left
  open, and of one with messages of two cannot hold a message at all. One inbound slot overruns.
  In `tunnel_live` the outbox has room for all that the serve loop itself can put in before it gives
  a hung relay up, so only streams can fill it; the streams are requests there, whose chunks go
  through the same `send_counted` as a WebSocket's messages. The proofs remove the bounds of
  `tunnel_safety`.
- *Radio control.* Two clients and the scanner are what a patch, a second patch merging with it and a
  tuning scanner need; three calls give a patch or a recording before, during and after a scan. A
  patch switches the second lane off at the rate the radio has, or raises the rate; the keeper listens
  to the second lane, so each refusal of `Validate` and the revert of a patch that came too late occur. Three
  runtimes: the one in the table, one a sweep or reconnect is about to put there, one a patch still
  holds. One trouble is a dead stream or one refusal of the driver; one overtaken patch is enough to
  leave the condition of `TableTellsTheRadio`, and what follows is bounded. Exports and the time
  machine pin the rate the way recordings do (`Keepers`), so one keeper stands for them. The proofs
  remove these bounds.
- *Workspace history.* A history of two steps is pruned at the third; three steps and three revisions
  are enough to dial, undo, dial again and be refused. Three arrangements: a radio, a second one
  beside it, and the node with its radio released; arrangements that differ in their looks only are left to the
  proofs. Two dial values tell a restored setting from a default. One trouble is a crash, a radio that
  refuses its settings, a save that fails or a scan. The proofs remove these bounds, and the single client, for the
  safety properties.

`CHECK_DEADLOCK FALSE` is set where a bounded behaviour ends: the capture is over, every task has
ended, the relay rejected the device, the clients have made their calls (and `radio_embrace`'s cycle
is a real deadlock, which that run states as a property). The device sets and the workspace never
stop and are checked for deadlock.

### Fairness, and why the code justifies it

- *Ring.* The DSP loop polls at least every `IDLE_PARK`, woken or not; a push that began ends.
  Nothing makes the source push.
- *Device sets.* A thread goes on with an operation it began, the drainer loops on its channel, the
  prober on its timer. Nothing makes a client ask, a radio move or a stream die.
- *Outbox.* tokio polls a task that is ready; a write ends, if only by `WRITE_TIMEOUT`. `CLOSE_FLUSH`
  may end the writer but is not relied on.
- *Tunnel.* `select!` picks ready branches at random and mpsc serves those who wait for room in turn,
  so both are strongly fair; the local server answers and its responses end; a relay that is not
  hung reads and credits. A WebSocket need never end, and `RequestsEnd` does not say so.
- *Workspace history.* The autosave task is scheduled and its timers run; tokio's `select!` does not
  pass over a branch that stays ready. A save that is due ends, in success or in failure. Nothing makes a
  user dial, nor stop dialling, nor a scan stop.
- *Radio control* is checked for safety only, and states no fairness.

## Findings

Violation runs, each of which states what the repository says and TLC refutes with what the code does.

- `sets_release`: a stream that dies while its set is being created. `create_opened_set` takes the
  pending fault and inserts the set as failed, but nobody stops its runtime, so the radio stays
  claimed. The test `a_faulted_set_releases_its_device_so_the_replug_can_reopen_it` says otherwise of
  faults in general; it exercises the fault of a set in the table.
- `radio_embrace`: a patch that changed the number of lanes whose lanes do not start again marks the
  set failed *with the patching lock held*, and marking joins the scanner thread, which is waiting for
  that lock to tune. Neither goes on. The comment at `engine/src/runtime/patches.rs:38` says that the
  lock is held until the answer is written back.

Five more statements of the repository are refuted by TLC, though no run is kept for them. The
definitions are in the modules: add the name to a `.cfg` with the constants given.

| Definition | What the repository says | How the code does otherwise |
|---|---|---|
| `PatchNotOvertaken` (INVARIANT, constants of `RadioControl_safety.cfg`) | `engine/src/runtime/patches.rs:38-41`: a patch cannot be overtaken by one built from the settings it is replacing | a patch is applied, the stream dies, a reconnect swaps the runtime and brings the radio to what the table says, and only then the patch writes its answer into the table |
| `UsedLaneStays` (INVARIANT, constants of `RadioControl_safety.cfg`) | the test `a_lane_that_is_wired_is_not_switched_off`, `engine/src/tests/lanes.rs:102` | a patch that switches a lane off is validated (`device_ops.rs:1021`) while nobody listens to the lane; a recording of that lane begins and commits, since `rate_patches` counts only changes of the rate (`:841`, `capture_ops.rs:72`); then the patch is written back and the lane is gone |
| `ReplugReconnects` (PROPERTY; `DeviceSets_release.cfg` with `Exclusive = {}`, `Glitches = FALSE`) | `src/docs/src/getting-started/workspace.md:49`: plug the radio back in and it reconnects | unplug, stream dies, replug, probe, and only then the drainer marks the set: the probe found a running set, and without another change on the bus there is no second one |
| `NoFrameAfterStop` (INVARIANT, constants of `Outbox_queue.cfg`) | the test at `server/src/ws/outbox.rs:383` | an aborted forwarder that was already handed a frame queues it behind the `StreamStopped` of its stream; `StopsBehindItsFrames` is what does hold |
| `UndoGoesBack` (PROPERTY; `WorkspaceHistory_safety.cfg` with `SPECIFICATION Spec`, `Snapshots <- Holding`, `MaxTroubles = 0`) | `server/src/rest/workspaces.rs:614`: the workspace as it was before its last change | dial one radio, draw a second, undo before the autosave: the undo restores the first radio from settings that were not saved yet (`:664`) |

Worth knowing, without a run of its own:

- A reconnect clears a set's status and error but not its `fault` (`engine/src/device_ops.rs:482`), so
  a running set goes on reporting why it stopped.
- A fault that still waits for the drainer when its set is reconnected fails the new runtime.
- When the driver refuses to receive again after a sweep, `restore_receiving` drops it and nothing
  marks the set: it is shown as running without a radio (`lost`).
- A fault during a sweep: `mark_device_fault` stops the runtime it read before it joined the scanner,
  so the runtime the scanner put in on its way out stays live in a failed set, until the next
  reconnect or removal.
- Since patches of one runtime hold its lock one after the other, they never really merge; the merging
  queue matters only to callers of `apply` without the lock. A patch that holds the lock of the
  runtime before a sweep may retune the sweeping radio.
- A recording's tap ends with the lanes it was attached to.
- A dial that coalesces after an undo keeps the rows ahead (`kept`), so redo leads to another past; the
  test at `server/src/store/tests.rs:1628` says that a new change drops them.
- The first write that changes nothing leaves a row without the workspace standing at it, and redo is
  offered where there is no undo.
- `src/docs/src/user-guide/workspaces.md:23` promises 100 steps; 100 rows are 99 steps back.
- A dial on a radio that did not take its settings back is neither recorded nor saved until the next
  reconcile. Closing a radio, or a crash, before the autosave loses the dial although history keeps
  it. An edit that releases a radio and another that draws it again leave its settings unsaved until
  the next event, which is why `EventuallySaved` asks for one.
- An autosave that fails is logged and not tried again (`server/src/workspace.rs:427`): what was dialled
  stays unsaved until something else happens. A radio that follows a scan is not captured
  (`:222-238`), so where it stands is saved only after the scan is stopped; a crash before that
  restores it from where it was. `EventuallySaved` promises no more: a save, or the report of a failure, for
  a dial with an event of a radio that follows no scan.
- The count of dropped packets clients are shown does not have every picture they missed. A
  spectrum that a newer one replaced before it was sent, or that came too fast, is not counted
  (`server/src/ws.rs:860-869`), and a lag met while looking for a newer picture is not counted for any
  stream (`:863`, `:976`, `:1032`, `:1088`). `EveryPacketAccounted` is about what was put in or reported.
- What a relay sends on a stream behind its End or Close, or after its exchange failed, finds the queue closed
  and vanishes without a credit or a reset (`tunnel/src/client.rs:536`). `UploadsCredited` says so.
- A pong is measured against the latest ping, so a slow relay looks fast (`tunnel/src/client.rs:368`).
- A stream of the tunnel whose task has 256 items waiting is reset for "window overrun" however few
  bytes they are; a relay that counts bytes can get there with items of less than a kilobyte.
- The tunnel's serve loop does not watch for silence while it waits for room, so a relay that stops
  reading while streams have filled the outbox is noticed only when TCP gives up. `SilenceNoticed`
  names exactly that exception, and without the exception the run fails.

## What is proved

`CaptureRing_proofs`, for every capacity, span capacity, age limit, set of block lengths, gaps and
limits, and every bound on index and time, from `RingAssumption` alone:

| Theorem | Property |
|---|---|
| `RingInvariant` | the inductive invariant `IInv` |
| `TypeCorrect` | `TypeOK`: in particular the unsigned gauge never wraps |
| `SamplesAddUp` | `EverySampleAccounted` |
| `SpansBacked` | `SpanAlwaysBacked`: the early return after a failed `read_chunk` is dead code |
| `IndexFaithful` | `ReceivedAtItsIndex` |
| `RoomHonest` | `RoomIsHonest` |
| `Backpressure` | `BackpressuredLosesNothing` |
| `InOrder` | `ReceivedInOrder` |
| `FreshIsKept` | `IsolatedStallKeepsFresh` |

None of these is inductive. `EverySampleAccounted` and `RoomIsHonest` speak of moments at which a
thread is outside the ring, so `Counted` says what each counter is *during* every step of both
threads, with what the producer has claimed and not committed, and what the consumer has taken and
not released, as explicit terms. `SpanAlwaysBacked` and `ReceivedAtItsIndex` need to know that the
samples in the ring are those the spans in flight describe: `LaidOut` says that there are offsets at
which the held span, the queued spans and the span about to be stamped tile the ring, each with
consecutive indices. The offsets are a function under an existential rather than a sum over the spans,
which is what keeps induction over data out of the proof: each action gives the new offsets from
the old ones. `Ordered` puts what was delivered before what is held before what is queued before
`next`. `Fits` bounds the ring by its capacity, `Consuming` says what the consumer's locals are at
each step, and `NoLoss` is the lossless case. `FreshIsKept` adds `StallsCounted`: a consumer that is
recovering has met two stale runs with a fresh one between them, which `episodes` counts. Each conjunct has a lemma with one step per action that
can disturb it, and `RingInvariant` combines them.

`CaptureRing_refinement` proves from the same `IInv`:

| Theorem | Property |
|---|---|
| `RingIsALossyFifo` | `ImplementsLossyFifo`: `Spec` implies the specification of `LossyFifo` under the mapping |

The empty ring maps to the empty queue; `CommitSamples` is an `Enqueue` of the head of the block at the
edge, `Offer` and `Claim` are a `Lose` or nothing; `Judge` is a `Deliver` or a `Discard` of a piece at
the front; everything else stutters. `IInv` is what says that the piece in the consumer's hands
*is* the front of the queue and carries its index.

`WorkspaceHistory_proofs`, for every depth, every finite set of nodes, any arrangements, and any number of clients,
from `HistoryAssumption` alone:

| Theorem | Property |
|---|---|
| `HistoryInvariant` | the inductive invariant `HInv` |
| `HistoryTypeCorrect` | `TypeOK`, what `state_at` and `restore_device` return included |
| `HistoryStaysWhole` | `HistoryWhole`: no hole, no more rows than the depth, standing at a row that exists |
| `NoLostEdit` | `RevisionNamesSnapshot` |
| `HistoryTruth` | the invariant `TInv` about what rows say |
| `RowsAreTrue` | `RowsTellTheTruth` |

`HInv` adds `Consistent`: before the first step there is at most the first row, and no client is ahead
of the revision. The first is what makes the row `record_history` starts from the only one, and so
the pruned stretch one stretch; the second is what keeps a revision from being given out twice.

`TInv` is about settings. `state_at` searches the rows, but what it finds can be said without the search:
`Nearest(h, m, q)` is the greatest row with settings at or behind `q`, and `Truth` that for every such pair
what `m` tells and knows is what was seen at `q`. So no induction over the rows is needed: seeing the radios
again at a row keeps `Truth` if they kept what was known of them (`TruthSeen`); a pushed row has settings of
its own, or borrows from where its predecessor did, and pruning takes away only rows that nobody left
borrows from, since those that are left were nearer (`TruthPushed`); telling the head its settings keeps
the rows up to it true (`TruthTold`), and the rows ahead are dropped by a push or were none, or else `kept`.
`Dials` says that the row of a dial and the one before it have settings of their own, and `seen[Head] = Here`
that the workspace is always seen where it stands, which is what makes the settings filled into a row
at the first dial the right ones.

`DeviceSets_proofs`, for any number of radios, exclusive or not, any number of clients, set ids,
runtimes and waiting faults, from `SetsAssumption` alone:

| Theorem | Property |
|---|---|
| `SetsInvariant` | the inductive invariant `IInv` |
| `SetsTypeCorrect` | `TypeOK` |
| `NoRadioIsLeftOpen` | `NoRadioLeftOpen` |
| `RadiosAreNotShared` | `OneSetPerRadio` |
| `DeadStreamsAreKnown` | `DeadStreamIsKnown` |
| `ChangesAreAnnounced` | `ChangesAnnounced` |
| `RemovedSetsStayRemoved` | `RemovedStaysRemoved` |

Every operation lets go of the lock, so the invariant says for each program counter what its thread
holds. `Ownership`: a runtime in the hands of a thread that is building or reviving is known to nobody
else, and a running set's runtime is in nobody's list of what to stop. `IdsOK` and `IdsCounted`: an id
is handed out once, and there is one left for every client that will take one. `RuntimesOK`: in which
phase, for which set and behind which gate each runtime is. `Exclusion` needs that an exclusive radio
has one open handle, which is what makes the second `refuse_reopen` sufficient. `FaultsKnown` follows a
fault from the dead stream through queue, `pending_faults` or gate; `Announced` says who will tell of a
change that was not told yet, and that a worker's set is in the table unless a client took it out.

`Tunnel_proofs`, for any number of streams, any window, queue capacities and sizes of messages, from
`TunnelAssumption` alone:

| Theorem | Property |
|---|---|
| `TunnelInvariant` | the inductive invariant `IInv` |
| `TunnelTypeCorrect` | `TypeOK` |
| `NoCreditIsLost` | `CreditConserved` |
| `RelayIsNotFlooded` | `RelayNotFlooded` |
| `UploadsAreCredited` | `UploadsCredited` |
| `LastWordIsLast` | `LastWord` |

`WindowOK` is the account of a stream's window: what the task may still send, what is in the outbox, what
the relay holds and what credits are on the wire add up to `WINDOW` while the stream is sound, and never
exceed it. With `TasksOK` (a window is overdrawn by less than one message) it gives `RelayNotFlooded`.
`StartsOK` says that a stream without a task has used nothing and that the relay's first frame of it
comes before its bytes. Upwards, what is on the wire, queued, in the task's hands or in a credit
(`Uploading`) is never more than the relay counts as on the way, and is exactly that while the upload is read
(`Taking`). `EndsOK` says that a stream which said its last word has no task and nothing behind
that word in the outbox.

`Outbox_proofs`, for any streams, limits, sizes of frames and numbers of records and events, from
`OutboxAssumption` alone:

| Theorem | Property |
|---|---|
| `OutboxInvariant` | the inductive invariant `IInv` |
| `OutboxTypeCorrect` | `TypeOK`: the limits of the four lanes and the byte budget |
| `BytesAreCounted` | `BytesExact` |
| `NoPacketVanishes` | `EveryPacketAccounted` |
| `StartIsHeardFirst` | `StartComesFirst` |
| `StopFollowsItsFrames` | `StopsBehindItsFrames` |
| `LossesAreToldInTime` | `GapsExplained` |

The first half is about the queue alone: a lemma for each of `Expired`, `Replaced`, `PushFrame`, `Shed`,
`PushLossy`, `PushControl` says what it does to a queue whose byte count is exact (`Good`), how many
frames and records it holds or has counted (`Held`), and that no lane gains anything but the packet
(`Keeps`). `NoPacketVanishes` is about what was put in or reported with `Outbox::dropped`; pictures a
forwarder passes over without a report are in no count, here or in the code. The second half is about what the client can conclude. `StartsOK`: while the queue is open, a
stream with a forwarder was announced or its `StreamStarted` is still in the control lane, which
`pop` empties before any frame. `StopsOK`: what is said to have stopped did stop, so a frame queued later
is late. `RecordsOK`: the i-th record waiting is numbered at most the i-th after what the client received
and was told to be lost, plus the losses that wait in `lost` or in the control lane. `pop` takes a record only
when nothing of these is left to be told, and this is `GapsExplained`. `StartsOK` and `RecordsOK` speak of an
open queue: one that closes forgets what it still had to say.

`Sums_proofs` holds the lemmas both use: the sum over a sequence of the weights of its elements, and what
appending, cutting, taking out and concatenating do to it. The library's induction theorems take an operator
as a parameter and cannot be used; `LeastNumber` (from the well-foundedness of the naturals) and `Induction`,
about a *set* of numbers, take their place.

`RadioControl_proofs`, for any number of clients, runtimes, patches, calls and keepers, from `RadioAssumption`
alone:

| Theorem | Property |
|---|---|
| `InvariantRadio` | the first two layers of the inductive invariant, `Shaped` and `Held` |
| `TypesOfRadio` | `TypeOK` |
| `OwnerOfRadio` | `RadioHasAnOwner` |
| `FaithfulTable` | the third layer, `Told` |
| `TrueTable` | `TableTellsTheRadio` |
| `PinnedRate` | `RateStaysPinned` |

The invariant has three layers, each preserved with the help of those before it. `Shaped`: the types, what each
thread has in its locals at each program counter (`Fits`), an entry in the table that has a runtime (`Entry`),
and `rate_patches` equal to the number of threads that hold a `RatePatchGuard` (`Rated`). `Held`: the
`patching` lock is held by the thread that took it, on the runtime it read first (`Locks`); a runtime not in the
table yet has the driver and is known to one thread (`Private`); the driver is in the table's runtime, in such a
runtime, in the scanner's hands or on its way to be stopped (`Owned`); a running set has it unless it is on its
way back (`Runs`); whoever sweeps has a scanner that knows (`Sweeps`); and a patch with a guard keeps keepers out
(`Unpinned`). `OwnerOfRadio` follows from these two, whatever was overtaken.

`Told` is for behaviours in which no patch had its runtime replaced under it (`overtaken = 0`). One patch
is in the queue of a runtime (`Queues`), so the answer of `DeviceRuntime::apply` is the state of the radio;
it is in the hands of the one thread that holds the lock, or in the table (`Answers`); a patch of an old
runtime changes nothing any more (`Stale`); a rate change has its guard (`Guarded`); while the radio is away or
sweeps, the table says what it will be brought back to (`Away`); a runtime on its way into the table was told
the radio's rate (`Carried`, `Reopened`, `Relaning`); and what was started at a rate runs at it (`Pinned`).
`NeverTooLate` is a consequence worth knowing: in such behaviours the branch of `patch_device_quietly` that
reverts a rate because a recording committed meanwhile is never taken; the guard already keeps the recording
from committing.

### What the proof attempts found

- `TypeOK` of `RadioControl` did not hold for `MaxBatches = 1`: the revert of a patch joined the queue without
  the bound. The guard was added; it is a bound of the model, not of the code.
- `RateStaysPinned` had a conjunct about lanes that held in the run only because no patch changed lanes without
  the rate. It is false of the code: `UsedLaneStays`, above.
- `RowsTellTheTruth` held within the bounds of its run and not beyond (a depth of three and four steps): dial,
  release the radio with an edit, dial it meanwhile, and draw it again. The node was not drawn when it moved, so
  the history variables did not see it. They now follow every node; the code and the actions are as they were.
  The same attempt showed that the fallback of `state_at` is a guess, see `WorkspaceHistory` above.

### What is only model-checked

Liveness: `FaultSurfaces`, `Drained`, `ControlDelivered`, `WriterEnds`, `SenderNotStuck`, `RequestsEnd`,
`SilenceNoticed` and `EventuallySaved` (fairness and `ENABLED` are beyond the prover). Every safety property of a
passing run is a theorem. `Backpressure` and `InOrder` are theorems only: no run checks them any more, since
the theorems cover every instance.

## Plan

1. `LaneRuntime`: command queue, DSP thread and the retirement of channels.
2. Phone sessions of the server, and switching between workspaces.

## What is not modelled

Signal processing, modems, decoders, orbital mechanics and code plugs: floating point or bit-level
sequential code, out of a model checker's reach and covered by the repository's own tests. Drivers:
they are the environment of `CaptureRing` and `DeviceSets`, and register protocols of hardware have no
counterpart to check against. The recorder's files and most REST handlers: I/O around the engine. Applications
and the web client: user interface. `PROJECT.json` gives the reason component by component.

The repository has about 440,000 lines, most of which are of these kinds; the modelled share is small
by that measure and cannot be large. It is the part in which threads, tasks and failures meet.
