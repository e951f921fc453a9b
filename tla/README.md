# meshwarden-daemon: formal models

TLA+ models of the daemon in `src/meshwarden_daemon/`, TLC configurations that
check them on small instances, and TLAPS proofs of the properties that matter
most. `PROJECT.json` maps every definition to the source lines it stands for and
lists the runs, the mutants, the hazards and the theorems.

## 1. The system

The daemon owns the one connection to a MeshCore radio node and shares it among
proxy clients (phone apps that speak the companion protocol over TCP), gRPC
clients, and its own background tasks. It is a single asyncio event loop:
everything between two `await`s is atomic, and every hazard sits at an `await`.

| Component (source) | State | Operations | Talks to |
|---|---|---|---|
| Command slot (`device.py`) | `command_lock`, `_raw_queue`, `mc`, `_connected` | `command`, `raw_command`, `_dispatch_frame` | the node; called by everybody |
| Supervision (`device.py`) | `_connected`, `_conn_failed`, `_stop`, `mc` | `run`, `stop`, `_connect_once`, listeners | health, channel tracker, pump |
| Message pump (`device.py`) | `_msgs_waiting`, fetch mode | `_message_pump`, `poke_message_fetch` | slot; proxy's client count |
| Contact sync (`device.py`, `recorder.py`) | `_lastmod`, contacts table | periodic `get_contacts`, upsert, eviction | slot, contact store |
| Reader tap and push fan-out (`device.py`, `proxy.py`) | `_clients`, a write lock each | `handle_rx`, `_on_device_frame`, `send_frame` | transport, clients, library |
| Proxy clients (`proxy.py`) | `_clients`, one parser each | connect, command, leave | slot, frame tap, pump |
| Response cache (`proxy.py`) | `_entries` | `get`, `set`, `clear` | proxied commands |
| Frame parser (`proxy.py`) | `_buf` | `feed` | a client's socket |
| Event recorder (`recorder.py`) | none | one handler per event | stores |
| Channel tracker (`channels.py`) | `_lock`, `_tasks`, channels table | refresh, resync of one slot | slot, connection and command listeners |
| Channel backfill (`channel_backfill.py`) | `_lock` | label old messages | channel, message, packet stores |
| Ping (`ping.py`) | `pending` | `ping`, `_on_frame` | slot, frame tap |
| gRPC service and streams (`grpc_api/service.py`) | `_event_streams` | typed commands, `SendRawCommand`, `StreamEvents` | slot, stores |
| gRPC server (`grpc_api/server.py`) | health status | start, stop, `set_device_health` | connection listener |
| Stores (`storage/`) | SQLite tables, autocommit | add, log, upsert, prune, migrate | everybody |
| Daemon (`daemon.py`) | `_stop` | start and shutdown order | all of the above |

What is hard, per component, and what makes it correct:

* **Slot.** The protocol has no correlation identifiers: an answer belongs to the
  oldest command. Callers time out, are cancelled, hang up in mid-stream or stop
  reading; the library hides outages; the connection object is replaced. Correct
  means: exclusive, first come first served, the raw queue exists exactly while a
  raw command holds the slot, frames are attributed exactly as long as nobody
  gave up, and nobody holds the slot for ever.
* **Pump.** A level-triggered resource (messages in the node) behind an
  edge-triggered hint, with a permission that changes at any time. Correct means:
  no lost wake-up, nothing (much) taken from a client that fetches for itself,
  and the node is drained.
* **Cache.** Filled and flushed after an exchange that other commands surround.
  Correct means: entries are whole answers, reflect the mutations clients were
  told about, and reads do not go back in time.
* **Fan-out.** A push is written to every client inside the reader tap, one after
  the other, while clients come, go, break and stall. Correct means: everybody
  gets every push once and in order, one client's failure costs the others
  nothing, and the library gets its frames.
* **Channels.** The database mirrors the slots of the node while both change.
  Correct means: slots stay unique in every intermediate state and the table
  comes to show the node.
* **Backfill.** Labels messages from three snapshots taken one after the other.
  Correct means: labels only improve, what a packet proves is taken up, proven ones
  are right, no packet is overlooked.
* **Contacts.** Snapshots are written while newer events are handled, and how far
  the daemon has pulled is a time of the node's clock that everybody's lists
  advance. Correct means: no change is forgotten, removals are noticed, and from
  version 3 of the schema on `last_seen` is the newest credible time at which
  somebody was heard.
* **Lifecycle.** A signal arrives while the supervisor connects, a sweep runs and
  clients come and go. Correct means: the reported health is the true one, streams
  are told of the end, the database is closed after everything the shutdown waits
  for, and the daemon ends.
* **Stores.** Pairs of autocommitted statements, crashes in between, deletion in
  batches, listings read in pages. Correct means: statistics count what was received,
  a sweep leaves nothing old behind, pages hide no row, every migration can be
  resumed.
* **Sent messages.** A row is stored after the send whose acknowledgement refers to
  it. Correct means: the marks are true and arrive.
* **Ping.** Its answer is a push among pushes. Correct means: a ping reports the
  answer to its own trace over the whole route, and leaves nothing behind.
* **Parser.** Frames in arbitrary pieces, junk in between. Correct means: the frames
  are those of the stream, wherever it is cut.

`PROJECT.json` lists the individual hazards at their lines.

## 2. The modules

### CommandSlot

One module for `DeviceManager.command`, `raw_command`, `_raw_command_locked`,
`_is_terminal`, `_dispatch_frame` and `_ReaderTap`, with the node, the wire and
the connection around them.

| Model | Code |
|---|---|
| `slot`, `Phase(c) = "wait"`, `First`, `LockFree` | `command_lock` and its queue of waiters (asyncio.Lock: FIFO, and the fast path only with no waiters) |
| `rawOpen`, `rawQueue` | `_raw_queue` |
| `connected`, `epoch`, `call[c].epoch` | `_connected`, the identity of `mc`, the `mc` captured before the wait |
| `got[c]` | `frames` of the command in flight |
| `Submit`, `Acquire` | the connection check up to `async with command_lock`; the holder's first steps |
| `Send`, `SendFails` | `connection_manager.send`; REBOOT returns without an answer |
| `Dispatch` | the tap: `_dispatch_frame`, then the library's own reader |
| `RawReceive`, `Taken`, `StreamFails` | `queue.get()`; `on_frame` and the terminal test; `on_frame` raising |
| `Timeout`, `Cancel` | the deadline; cancelled RPCs and pings |
| `LinkDrop`; `ConnLost`, `Reconnect` | an outage the library repairs; one that makes `run()` build a new object |
| `NodeAnswer`, `NodePush`, `Answers`, `LibAccepts` | external: the firmware and the meshcore library |

Commands are reduced to the three the protocol tells apart: `"contacts"` (a
stream of frames), `"set"` (one frame), `"reboot"` (none). Every frame carries
the number of its request as a ghost that no guard reads. `abandoned` is a
history variable: the requests whose callers left without the last frame.

The step between `queue.get()` and the terminal test (`"took"`) is the `await
on_frame`. A raw command without `on_frame` passes through it too; it has no
other effect there than to be scheduled.

### ProxyCache

Extends CommandSlot and adds the cache around its actions: `CacheHit` and `Miss`
are the two branches of `_handle_command`, `ReturnsToProxy` is the return of
`raw_command` together with the cache update (no `await` in between), and
`CallerProceeds` the steps that leave the cache alone, failures included. The
node's contact list is a version number; `ver`, `completed` and `shown` are
history variables that remember the version each answer showed.

### MessagePump

`_message_pump`, `_fetch_allowed`, `poke_message_fetch`, the client set of the
proxy and its limit. The command slot is seen from afar, as one lock shared with
clients and other commands: `Ask` takes a free slot at once or queues up
(`"wait"`), `OtherTakes` cannot overtake a waiting pump. `stolen` counts the
messages the pump fetched since clients are connected, `excused` remembers that
the last drain ended in an error or that an outage swallowed a push.

### PushFanout

| Model | Code |
|---|---|
| `calls[f]` | one call of `_ReaderTap.handle_rx`: the frame's kind, where it is, and `todo`, the copy of the client set it iterates over |
| `clients` | `_clients`, in an order that may change whenever the set does |
| `lock[c]` | `_Client._write_lock`: the holder and its waiters |
| `unread[c]`, `HighWater`, `Paused(c)` | a client's socket and transport buffers; `drain()` waits above the limit and raises when the connection is gone |
| `Begins` | `handle_rx` up to the first client of `_on_device_frame` |
| `AsksForLock`, `GetsLock`, `Writes`, `Drains` | `send_frame`, with the `except` of the loop around it |
| `ToLibrary` | `_inner.handle_rx` |
| `Connects`, `Leaves`, `Dies`, `Reads` | `_handle_client` and the peer |

`running` is the call that has the event loop: between two `await`s that really
wait nobody else moves, so a broadcast is left at a paused client or at a held
lock only. Whether a transport awaits `handle_rx` or starts a task per frame is
not in this repository; `Overlap` is the number of calls that may be under way,
1 for the former. The library's own `handle_rx` is one step. The other listener
of the tap (`ping.py`) and the raw queue do not wait and are left out here;
CommandSlot has them. What a command's handler writes to its own client competes
for the same lock and can only make that client slower. `disturbed` remembers
the frames during whose broadcast the client set changed: two broadcasts may then
iterate in different orders.

### ChannelSync

| Model | Code |
|---|---|
| `jobs` | the holder and the waiters of `ChannelTracker._lock`: `refresh` for a connection, `list` for `ListChannels`, `resync` of one slot |
| `at`, `slot`, `value` | where the holder is, at which slot, and what it has read |
| `table[c]` | `channels.slot` of the row with secret `c`: a slot, `NoSlot` (NULL) or `NoRow` |
| `Queries`, `ReadsSlot` | the two library commands of `refresh` and `_read_slot` |
| `Upserts`, `Vacates`, `Occupies` | the three statements of `assign_slot`, each committed by itself |
| `Clears`, `Trims` | `clear_slot`, `clear_slots_from` |
| `CommandFails` | an ERROR event: it ends a job at the query, and passes for an empty slot in `_read_slot` |
| `Unavailable`, `ListCancelled`, `Restarts` | a job that ends early, between any two of its steps |
| `SetReturns`, `SetFails` | a proxied or raw SET_CHANNEL that returns, or fails so that no command listener is called |
| `Connects`, `SyncOnConnect` | `run` and `_on_connection` |

`node` is the node's own table. The command slot appears as `setting`: while a
SET_CHANNEL is in flight no slot is read. A node reports the same number of slots
each time, so `Trims` finds nothing. Names of channels and time stamps are left
out. The backfill that follows a refresh runs after the lock is released and
touches no slot. `excused` remembers a failure that the code leaves to the next
connection, `doubled` that the node had one channel in two slots.

### Backfill

| Model | Code |
|---|---|
| `sends` | what was sent over the air: its channel (a ghost for the code until it decrypts), its text and time, the node's slot it arrived on |
| `msg`, `label`, `source` | rows of `messages`, `channel_id`, `channel_source` |
| `packets`, `pruned` | rows of `packets` by id; retention deletes the oldest |
| `slots`, `rows` | `channels.slot`, and the secrets that have a row |
| `AddLooks`, `AddInserts` | the two statements of `MessageStore.add` |
| `Starts` | the end of a refresh, or `BackfillMessageChannels` with its extra channels |
| `ReadsTargets`, `ReadsChannels`, `Scans`, `Writes` | `_run`, one action per statement; `Scans` is a page of `iter_payloads` |
| `Verdict`, `Matched` | the decision for one message, `_same_send` |
| `Cancelled`, `Restarts` | a cancelled RPC; a crash, perhaps in the middle of `executemany` |

The tracker's jobs (see ChannelSync) hold a lock of their own, so `job` is one at a
time: `TrackerReads` reads a slot, `TrackerUpserts`, `TrackerVacates` and
`TrackerOccupies` are the statements that follow, and the node, the recorder and the
backfills may move between any two of them. What they write may be stale;
`TrackerMisreads` is the error that passes for an empty slot, `TrackerStops` a refresh
that ends in the middle. A packet decrypts if its channel is known to
the run: collisions of the two-byte MAC are left out, and so are the times that
bound the scan. Which of the waiting backfills gets the lock first is left open.

### Lifecycle

| Model | Code |
|---|---|
| `main` | how far `Daemon.run` is: serving, waiting for the cancelled tasks, for the proxy's server, about to end the streams, in the grace period, down |
| `sup`, `mc`, `connected`, `failed` | `DeviceManager.run` and the fields it keeps |
| `ConnectSucceeds`, `ConnectFails`, `TriesAgain`, `GivesUp`, `SeesFailure`, `Parts` | `_connect_once`, the back-off, `_on_disconnected_event`, the watch loop, `mc.disconnect()` |
| `reports`, `health`, `Notify`, `Reports` | the tasks of `set_device_health`, one per notification, and the health servicer (external) |
| `conn`, `unsent`, `slipped` | the transports: accepted, registered, closing; those that hold unread data; clients accepted but not registered when the proxy stopped |
| `handler`, `backlog` | the task of `_handle_client`: waiting in `read()` or inside `_handle_command`; commands received that it has not begun |
| `Receives`, `CommandBegins`, `CommandEnds`, `HandlerEnds` | the loop of `_handle_client` and its `finally` |
| `PeerGone`, `Flushed`, `StopsReading`, `ReadsOn` | what happens to a transport (external) |
| `stream`, `queue`, `Emits`, `StreamTakes`, `PutEnd` | `StreamEvents`, `_on_any_event`, `close_event_streams` |
| `StopsProxy`, `StopsHealth`, `ClosesStreams`, `ClosesDatabase` | the statements of `Daemon.run` from the signal on |

`device.stop()` and the cancellation of the supervisor's task happen in one go, so
`run()` never takes its own way out at a shutdown: `SupervisorEnds` is the
`CancelledError` at whatever `await` it is in. `wait_closed()` waits for all
connections since Python 3.12, which the Dockerfile uses, but for the transports
only: a transport may be gone while the task of `_handle_client` is still inside
`raw_command` or `_log_outgoing_message`, or has commands left in its reader. Nobody
owns that task, those of the channel tracker and the library's callbacks, and they can
meet a closed database; the model has the state with `main = "down"` and a handler
that is busy. `_log_outgoing_message` swallows the error that a write gets then. The
limit on the number of clients is in MessagePump. What the parts do meanwhile is in the
other modules.

### ContactSync and ContactRows

| Model | Code |
|---|---|
| `node`, `NodeHears`, `NodeEvicts`, `ClientRemoves` | the node's list with a `lastmod` per contact (external); `CONTACT_DELETED` when it evicts, nothing when a client removes |
| `wire` | events of the library that are not handled yet |
| `lastmod`, `DaemonPulls` | `_lastmod`, `_contact_sync` |
| `SyncContacts`, `ClientLists` | lists that others ask for; everybody receives them |
| `ListArrives`, `jobs`, `WritesOne`, `WriteFails` | `_on_contacts_event`, and `_on_contacts`, which awaits for every contact |
| `NewContact`, `ContactDeleted`, `RemoveContact` | the other handlers and the RPC |
| `late`, `skipped`, `astray` | history: what the code cannot know, see the properties |

ContactRows is about the row itself and the file it is in. `disk` is what is
committed, `work` what the open connection sees; `Script` is a migration statement
by statement between `BEGIN` and `COMMIT`; `CrashDatabase` may come at any
of them. `UpsertContact` and `Touch` are the two statements that write `last_seen`.
The ghosts `live` and `told` collect the evidence: when a peer was heard, and the
times that lists reported and that were not in the future of the host's clock. Both
begin anew when version 3 rebuilds the rows from the times the node reported: that a
peer was heard before is forgotten then, so `last_seen` may go back in that statement,
and nothing is said of it before. The host's clock does not go back.

### PacketStats, SentMessages, Paging

| Model | Code |
|---|---|
| `raw`, `hourly`, `LogsPacket`, `Aggregates` | the two statements of `PacketStore.log` |
| `Aggregated`, `ScalarMin`, `ScalarMax`, `Coalesce` | the upsert, with SQLite's treatment of NULL |
| `SweepStarts`, `PrunesBatch`, `Exhausted`, `SweepFails` | `_sweep`, `prune` |
| `DayCount` | `stats` by day |
| `send`, `sentRows`, `BeginsSend`, `SendReplyArrives`, `StoresSent` | `SendMessage` |
| `ProxyLogs` | `_log_outgoing_message` |
| `AckArrives`, `Marked` | `_on_ack`, `mark_acked` |
| `table`, `stamp`, `InsertRow`, `MovesUp`, `DeletesOld`, `LeavesListing` | a listing and what happens to it |
| `ReadsPage`, `PageSize`, `Before` | `LIMIT`/`OFFSET`, the cap, the order |

The statistics are those of one payload and route type; byte counts and RSSI are
summed in the same way as SNR. A packet without an SNR counts as 0 in the sum and
erases the extremes of its hour, which `ExtremesExact` excepts.
In SentMessages the reply to a send that was given up may be taken for that of the
next (CommandSlot has the cause): from then on codes may be shifted, and both
properties say so. In Paging, a client must know the cap on the page size (1000, 100
if it asks for nothing) and go on until a page is short; the total that comes with a
page is counted by a query of its own and may be off.

### PingProbe and FrameParser

| Model | Code |
|---|---|
| `ping[c]`, `CallPing`, `RegisterPing`, `SendReplied`, `PingResumes` | `ping` from the check of its argument to its `return` |
| `pending`, `Unregister` | `pending` and the `finally` |
| `TraceArrives`, `Accepts` | `_on_frame`: tag, authentication, the complete route |
| `PingExpires`, `PingCancelled`, `SendRejected` | the deadline, a cancelled RPC, an ERROR |
| `TraceHeard`, `ForeignTrace` | what comes over the air: own and others' traces, mangled, late, repeated |
| `Feed`, `Drain`, `Resync` | `feed` and its loop |

A token stands for the tag and the authentication code, 64 random bits, which do not
repeat. `Turn` is one turn of the loop of `feed`, `Drain` the loop as a recursive function
over the positions of the buffer. `ParsedAsWhole` compares what `feed` has returned for
the pieces with a reading of the whole stream: the least set of positions that has the
first one and, with each, the one behind its frame or behind a byte that begins none
(`Follow`, `Standing`).

### The abstract specifications: TicketLock and PushMail

TicketLock is what the rest of the daemon relies on: whoever asks takes a ticket
higher than those still out, the lowest is served next, a ticket may be withdrawn,
nobody enters past one. The request number of a waiting caller is its ticket
(`TicketOf`), and the slot is the lock: `ImplementsTicketLock`, checked in the run
`slot` and proved in CommandSlotProofs.

PushMail is what clients and library may rely on in the fan-out: a mailbox per client.
`Post` makes a push owed to everybody who is connected, `Give` hands a client the first of
what he is owed, `Miss` drops it if his connection is broken, `PassOn` gives the library
what nobody is owed any more; a push that was open when somebody came or went (`late`) may
be overtaken. There are no locks, no loop and no event loop in it. PushFanout implements
it with `Owed`, what the loops have still before them (`ImplementsPushMail`, checked in the
run `fanout` and proved in PushFanoutProofs):

| PushFanout | PushMail |
|---|---|
| `Connects`, `Leaves`, `Dies` | `Join`, `Part`, `Break` |
| `NodeEmits` of a push | `Announce` |
| `Begins` | `Post` |
| `Writes` | `Give`, or `Miss` if the connection is gone |
| `ToLibrary` | `PassOn` |
| `AsksForLock`, `GetsLock`, `Drains`, `Reads`, `NodeEmits` of a response | nothing |

### MC modules and proofs

`MCCommandSlot`, `MCProxyCache`, `MCTraffic`, `MCPushFanout`, `MCChannelSync`,
`MCBackfill`, `MCLifecycle`, `MCContactSync` and `MCSideBySide` are the modules TLC
runs; the `.cfg` files give the constants. `MCSideBySide` holds the components
that keep or read records, and the frame parser. They share no state: `chosen` is the one
that moves, the others stay in an initial state, and the state spaces add up instead
of multiplying. `MCTraffic` holds the pump, the response cache, the messages sent and
the pings in the same way: they meet at the command slot only, which the cache has in
full and the others see from afar. The fairness of the pump asks for nothing while
another component is the one that moves.

Operators called "Mutated form" in the specifications are plausible mistakes;
substituted for the definition that follows them they make the property named in
`PROJECT.json` fail.

The theorems are in `CommandSlotProofs`, `ProxyCacheProofs`, `PushFanoutProofs`,
`MessagePumpProofs`, `ChannelSyncProofs`, `BackfillProofs`, `LifecycleProofs` and, for
the components of `MCSideBySide`, the sends and the pings, `SideBySideProofs`.

## 3. The runs

| Run | Instance | Result |
|---|---|---|
| `slot` | one proxy client (may stall), one raw RPC, one library caller; 3 requests, 1 outage, 1 push | `TypeOK`, `SlotDiscipline`, `FirstComeFirstServed`, `StrayOnlyAfterAbandon`, `ReturnsWholeAnswer`, `StalledOnlyByClient`, `ImplementsTicketLock` hold |
| `slot_attribution` | same, safety only | `Attributable` is violated |
| `cache_flush` | two proxy clients, 3 requests | `MutationFlushes` is violated |
| `traffic` | four components, one at a time: the pump with three clients for two places, all fetch modes, 3 messages, 2 faults; the cache with two proxy clients, one raw RPC, 3 requests, 1 outage, 1 push; sends and pings | 7 invariants, 2 action properties and one liveness property hold |
| `fanout` | three clients, one may stall, one connection may break; 2 frames, 2 overlapping calls | `BroadcastComplete`, `InOrder`, `ImplementsPushMail`, `LibraryFed` hold |
| `fanout_stall` | two clients, one may stall, no overlap | `LibraryGetsEveryFrame` is violated |
| `channel_sync` | two channels, two slots; 2 changes, 2 faults, 1 `ListChannels` | `SyncTypeOK`, `SyncedWhenQuiet`, `SyncedInTheEnd` hold |
| `backfill` | one slot, two channels; a message, a foreign packet, 2 backfills, 1 change of the slot, 1 fault | `DecryptedIsRight`, `LabelsImprove`, `NothingOverlooked` hold |
| `backfill_slot` | same, safety only | `SlotLabelsUpgraded` is violated |
| `lifecycle` | two proxy clients, one may stall; a stream with room for one event; 2 reports under way | `HealthTold`, `EndMarked`, `ClosedAfterAwaited`, `ShutdownEnds` hold |
| `contact_gap` | two contacts, two times, 1 event under way, 2 lists being written, 1 fault | `PullsAreComplete` is violated |
| `side_by_side` | five components, one at a time | 9 invariants hold |

The invariants of `side_by_side`: `NoChangeForgotten` and `RemovalsNoticed`
(ContactSync), `SeenHonest` and `MigrationsResume` (ContactRows),
`StatsSurvivePruning`, `ExtremesExact` and `SweepClears` (PacketStats), `ParsedAsWhole`
(FrameParser), `PagesSkipNothing` (Paging). The properties of `traffic`: `NoLostHint`,
`AtMostOneStolen` and `Drained` (MessagePump), `CacheFresh`, `CacheWhole` and
`ReadsNeverGoBack` (ProxyCache), `AcksAreTrue` and `AcksArrive` (SentMessages),
`PingHonest` and `PendingIsCurrent` (PingProbe).

**Bounds.** Counters are bounded in guards only (`MaxRequests`, `MaxDrops`,
`MaxPushes`, `MaxArrivals`, `MaxFaults`). Three requests are what the slot needs:
one that is abandoned, one that receives its remains, one that waits meanwhile.
One push and one outage can fall between any two of their steps. The cache needs
a read, a mutation and a read. The pump needs a message during the drain, one
after it and one to be stolen, and two faults to lose a push and then the
connection. One proxy client of the three is refused whenever two are served.
The fan-out needs two broadcasts, held up at different clients, and a third
client behind them; with `HighWater = 0` every write waits. Channels need two
slots and two changes for a copy, a move or a swap, and two faults for a failure
in the middle of a refresh and a second connection that repairs it. A backfill
treats each of its candidates by itself, so one message is enough; a second packet
makes a second page and, with the same text, an ambiguity. The slot starts with
any channel and changes once before, during or after a run. Channels and texts
are symmetric there; no liveness is checked in that run. What is sent to others shows in
nothing but its packet, so it may as well be sent first (`ForeignFirst`).
The lifecycle needs a client that reads beside one that does not, two reports in a row,
and a stream, which may be full when it is told of the end, or begin afterwards; streams
touch nothing of each other. A contact list needs two contacts
for one to be leaped over, two lists being written for one to overtake the other, and
two times, of which the second may come before the first. One row suffices for
`last_seen`, four values of the clock to be behind, at and ahead of it, two crashes
to interrupt a migration and its repetition. Three packets in two hours make an
hour with more than one and a sweep of two full batches (`Batch = 1`). Two RPCs
and one command of a proxy client are enough for one reply to be taken for another's
twice. Two pings and a foreign trace can collide in every way. A byte has three
values, of which one is the start byte and the others are possible and impossible
lengths: with frames of up to two bytes and eight bytes in all, headers lie in
headers and payloads and every cut into pieces of up to three bytes occurs. Four rows
and pages of one or two make three pages with an insertion, a move and a deletion
between any two.

`CHECK_DEADLOCK FALSE` in the configurations: with the bounds exhausted and
everybody idle, nothing is left to happen.

**Fairness.** `FairSpec` assumes what the event loop does: a woken waiter
runs, a send ends one way or the other, and a command in flight gets a frame or
its deadline passes (`command_timeout`; the library has one of its own). A client
that is not in `Stalling` reads or hangs up. Nothing is assumed of the node, the
link, of commands being submitted or of cancellations. `PumpFairness` assumes
that the pump's task runs, that other commands end (which is what
`StalledOnlyByClient` says of the slot; a stalled client is left out here), that
the node answers and that a push which is not lost arrives. It does not assume
that a lost connection comes back, or that clients leave.
`FanoutFairSpec` assumes that every call of `handle_rx` that can go on does, and
that clients outside `Stalling` read. `SyncFairSpec` assumes that the job in
progress goes on and that a SET_CHANNEL returns or fails, which is again
`StalledOnlyByClient`; it does not assume that a connection is made.
`LifecycleFairSpec` assumes that cancelled tasks end, that `Daemon.run` goes on when
what it awaits is there, that an accepted client's handler begins, and that a
transport is flushed when its peer reads. Nothing is assumed of the node, of signals
or of peers; `ShutdownEnds` names the clients that can keep the daemon from ending.

**What the violated runs show.** These are disagreements between the code and
what its own texts say of it:

* `slot_attribution`: "Holds the command slot for the duration so responses are
  unambiguously attributable" (`device.py:135`). A command that times out
  releases the slot; its late answer is queued for the next raw command, which
  returns with it. `StrayOnlyAfterAbandon` says, and its proof shows, that this is
  the only way.
* `cache_flush`: "Any mutating command flushes the cache" (`proxy.py:16`). After a
  timeout the handler returns before `cache.clear()`, although the node may have
  executed the command.
* `fanout_stall`: "Forwards every complete frame to the daemon *and* to the library,
  so library state [...] stays consistent" (`device.py:49`). The tap awaits the
  broadcast first, and the broadcast awaits each client's socket without a
  deadline. `LibraryFed` says that nothing but such a client holds a frame back.
* `contact_gap`: "Periodically pull contact deltas so the DB outgrows the device
  limit" (`device.py:357`). `_lastmod` is advanced by every list the library sees
  (`device.py:320`), also by one that a proxy client asked for with a `since` of its
  own, beyond contacts the daemon has not pulled yet. `NoChangeForgotten` says
  what else can be forgotten: what the node stamps no later than the last change
  pulled, and a list that could not be written or was overtaken.
* `backfill_slot`: "Channel messages are attributed to the channel currently in their
  slot; the backfill can later upgrade this to a decrypted match"
  (`storage/repositories.py:341`). A message gets the channel that the table has in its
  slot; when the table is behind the node that is another than the message was sent
  over. The candidates of a backfill have no label or, for the RPC, an inferred one, so
  such a label stays though a stored packet proves the other channel. `LabelsImprove`
  would allow the upgrade; no step makes it.

Two things of the same kind are excused in the properties instead. In mode `auto` the
pump looks at the clients, then waits for the slot, then fetches: `AtMostOneStolen`
bounds what it takes from a client that came meanwhile. The table has one slot per
channel: one that is in two slots of the node (`doubled`) is shown in one of them.

**What the invariants except.** `CacheWhole` is silent on answers that another request's
frames got into, which `StrayOnlyAfterAbandon` confines to what follows a request given
up. `NoChangeForgotten` and `RemovalsNoticed` except the contacts whose list was overtaken
or not written, whose time stamp was no later than the last one, and whose removal met a
list being written (`late`, `skipped`, `astray`). `AcksAreTrue` excepts what follows a
send given up, `AcksArrive` the acknowledgements that come before their row. These races
are in the model, the code has no remedy for them, and the properties say that nothing
else goes wrong. `ExtremesExact` is silent on hours with a packet without an SNR.

## 4. What is proved

The theorems hold for every set of callers, clients, channels, messages, packets,
pings and contacts and for all bounds, from the assumptions on constants that the
modules name: the kinds of caller are disjoint and no marker is a caller or a channel
(`CallersAssumption`, `SyncAssumption`, `BackfillAssumption`, `SentAssumption`), bounds
are numbers (`BoundsAssumption`, `PumpAssumption`, `RowsAssumption`,
`ContactAssumption`), pages, batches and hours are not empty (`PagingAssumption`,
`StatsAssumption`), clients that may stall are clients and a queue has room for an event
(`FanoutAssumption`, `LifecycleAssumption`), and tokens do not run out
(`PingAssumption`).

**CommandSlot.** `Typing`, `SlotSafety`, `SlotOrder`, `Attribution`, `WholeAnswers`,
`SlotIsTicketLock`.
`SlotInv` is inductive: `TypeOK`, `SlotDiscipline`, `FirstComeFirstServed`, and
what these need to survive a step: request numbers of active callers are
distinct and no greater than `nreq` (`Numbered`), so that a newcomer queues
behind everybody, and what each phase says about a caller's frames
(`PhaseData`).
`StrayOnlyAfterAbandon` is not inductive at all: it must say where answers are.
`IInv` adds `Pipeline`, which states that every request in the node's inbox, every frame on the wire and every frame in the raw queue belongs to the
holder's present request or to an abandoned one, and that a holder which has not
sent yet has nothing under way. Leaving the slot without the last frame turns "the
holder's" into "abandoned"; leaving it with the last frame needs that nothing of
that request is left behind it in the pipeline.

`WholeAnswers` (`WholeInv`) says that the test for the end of an answer stops neither
short of it nor behind it: who takes its last frame leaves nothing to others, and does
not wait for more. The invariant follows the frames of a request from the node to the
caller: none is under way without the first one before it (`FromTheStart`), a one-frame
command has final frames only (`FinalOnly`), and what a raw command has taken while it
still waits ends nothing (`Unfinished`). `Pipeline` says that while nobody gave up, all of
it is the caller's own.

For the refinement: under `SlotInv` each step of the slot is a
step of TicketLock or leaves it alone: `Submit` either enters at once, and then nobody
holds a ticket, or takes one, which is higher than those of all waiters because
requests are numbered in order (`Numbered`); `Acquire` serves the lowest; every way
out of the slot gives the lock back; a cancelled waiter withdraws.

**ProxyCache.** `CacheIsFresh`, `ReadsAreMonotonic`, `StoresWholeAnswers`. The cache
is filled without a look at what happened since the request; what makes it right is that
the slot and the wire keep the order of answers. `CacheInv` says so in versions: along
the raw queue and the wire they never decrease (`Ordered`), none is older than what a
client was told or shown (`Floor`), and what a raw command took first lies between what
clients know and what is still under way (`FirstTaken`). A mutation raises the version
of everything behind it, and whoever reports it clears the cache in the same step; so
an entry is the list that was shown last, and nobody uses its request number any more
(`Cached`). A late answer of a request that was given up keeps its place in the order:
it can be taken for another's, but not for a newer list than it is.

**MessagePump.** `PumpTyping`, `NoHintIsLost`, `OneStolenAtMost`.
`PumpInv` strengthens them by `EmptyAnswer` (an "empty" that the pump has not
read yet is still true, or news to the contrary is under way), by
`WaitsUnanswered` (a request that waits for the slot has no answer, one that was
not lost was made over the present connection) and by `StolenInv` (while clients
are connected and one message is already taken, no further request is open).

**PushFanout.** `CompleteBroadcasts`, `PushesInOrder`, `FanoutIsPushMail`. `BroadcastComplete` speaks of the end of a
broadcast; `FanInv` says what holds before. A client of the audience that is not dead
has the frame or is still ahead of the loop; both only while the loop waits for that
client to drain (`SentFine`). The clients ahead are in the audience and no client is
ahead twice (`CallFine`), which needs that the client set has no client twice. A client
that leaves stays ahead of the loops under way.
For the order, `OrderInv` compares two calls. What an undisturbed call has before it is a
tail of the client set (`Aligned`), so of two calls the one with fewer clients left is
ahead on the same list; the later one has no fewer left, and if they are at the same
client, the earlier one stands before it in the queue of that client's lock (`Follows`,
`Precedes`). The lock lets only the head of its queue write (`LockFine`), and between two
waits no other call moves (`TurnFine`). A client that comes or goes changes the list for
the calls that begin afterwards, which is why `InOrder` excepts the frames disturbed.
The refinement adds to `OrderInv` that clients in the set have connected and that the
library has only what is done with (`MailInv`). The step that needs a proof is `Writes`:
the writer is the head of the queue of its client's lock, and by `Aligned` and `Follows` an
earlier undisturbed push that the client is still owed would be at the same client and
stand before it there (`WriterIsFirst`). A client is owed what a loop has before it and he
has not been given, so that waiting for a lock or a drain changes nothing (`OwedSame`), and
a write takes one push from one client (`OwedLess`).

**ChannelSync.** `UniqueSlots`, `TableFollowsNode`. `SyncInv` adds `JobData`: a job
that is at a slot holds the lock and has read a channel from it, and at the third
statement of `assign_slot` nobody but that channel has the slot. The jobs of everybody
else wait, so the statements of another job cannot come in between; a crash, a lost
connection or a cancellation leaves the table as it is, which satisfies the
constraint after each statement.
`SyncedWhenQuiet` speaks of the end of all jobs only; `TrackInv` says what holds
before. Of every slot, either the table shows what it holds, or the job in progress is
about to write what it has read there, or it is *ahead*: a SET_CHANNEL for it is in
flight, or a job that nobody can cancel will read it (`Followed`). And what was read
is true unless the slot is ahead again (`ReadIsTrue`), so that writing it makes the
row right; a channel that moves away from another slot was there no more, or that slot
is ahead. When nothing is ahead and no job is writing, the table shows every slot.

**Backfill.** `DecryptedRight`, `LabelsOnlyImprove`, `NoPacketOverlooked`.
`BackfillInv` says who may touch a label: whoever is past the lock is alone there, and
his candidates are stored or pruned since and still have no label or an inferred one
(`OneRun`), because add labels a message once, before it can be a candidate, and prune
takes the label with the row. `VerdictIs` says what `_run` may decide: a channel that
decrypted a packet with the same text, the slot's channel if nothing did, or nothing.
So labels improve: an inferred one is inferred anew or gives way to a proven one, a
proven one stays, and so does, as things are, one recorded with its slot, which the
property would let a proof replace. And where nothing else could be confounded with the message, the
only channel that can have decrypted it is the one it was sent over. For the scan,
`Scanned` says that the index has every packet up to the last id read that is still
there and that a known channel decrypts: a page that is full ends at the highest of its
ids and has all before it (`FullPageIs`), a page that is not has all that is left
(`LastPageIsAll`), for ids are given in order and pruned from below. None of this depends
on the table of slots being right: the tracker may write what is no longer so.

**PingProbe.** `HonestPings`, `ExactPending`. `PingInv` says that calls have tokens of
their own (`TokensTold`) and that an answer found in a future was accepted for its
own token before the deadline (`AnswersOwn`); the table then has one entry per waiting call.

**ContactRows.** `HonestLastSeen`, `ResumedMigrations`. `RowsInv` says what the open
connection sees at each statement of a script (`Progress`): the old content with
the effect of the statements executed so far, and the version of the file
unchanged until `COMMIT`; from the rebuilding statement of version 3 on
(`RowsRebuilt`), `last_seen` is the newer of what was heard since and what was credibly
reported (`Honest`), and both writers keep it so. Neither theorem says that `last_seen`
survives the rebuild.

**ContactSync.** `NothingForgotten`, `RemovalsAreNoticed`. `ContactInv` has two parts.
`KeepsUp` follows a change of the node's list: the first list under way that
advances `_lastmod` to the change has it (`Coming`), whatever is older comes before
such a list (`Early`), and once `_lastmod` has reached it the row is right, or the only
jobs that hold the contact will write it so (`Arrived`). `LetsGo` follows a removal:
behind everything under way that says the contact is there comes the event that
deletes it. The three sets of history, `late`, `skipped` and `astray`, are where
these break: a time stamp no later than the last one, a list that failed, was overtaken
or leaped over, and a removal that was not told or met a list being written.

**PacketStats.** `StatsSurvive`, `ExtremesAreExact`, `SweepsClear`. `StatsInv` accounts for
every packet received: its call is under way, has been counted or was cut off, and never
two of them (`Accounted`), so that each statement moves one packet and adds it to one
hour (`HourCounts`); the scalar MIN and MAX of SQLite keep the extremes of what is
counted (`HourExtremes`). A batch that is not full has taken all that is old, and nothing
older than the cutoff is logged afterwards, because the clock does not go back.
`AggregatesOK` has the sums: that of an hour is the sum over its packets (`HourSums`), and
the counts of the hours of a day add up to the packets of that day (`DayAdds`). The fold of
the community modules chooses an order; `TotalSums` and the lemmas after it show that a sum
over a finite set does not depend on the order and grows by what is added, for any
function to the integers, and so do without an induction over operators.

**FrameParser.** `ParsesAsWhole`. `ParserInv`: the buffer is the rest of the stream behind a
position that is *settled*, that is, where the reading of everything fed so far stands and
will stand whatever comes; no frame of that reading begins behind it, and the frames
returned are those before it, in order. That the loop gets from one settled position to the
next is shown for the last position at which it would not (a least counterexample on the
recursive function `Drain` is made of), and that a reading does not change before a settled
position when bytes are appended, by the two sets of positions containing each other.

**Paging.** `PagesSkipNothingSteady`. `ReadSoFar`: every steady row that stands before
the next page has been read. Insertions and moves to the top push steady rows down, never
up past the offset; a row that goes stood behind all that are steady then (`PlacesKept`).

**Lifecycle.** `TrueHealth`, `StreamsEnd`, `DatabaseClosedAfterAwaited`. Three small
invariants: `HealthInv` for the supervisor and its reports, `StreamInv` for the streams,
`UserInv` for the users of the database that the shutdown waits for; handlers of clients
whose connection is gone are not among them. Most steps leave all variables of two of them
alone, which is what the lemmas called "Untouched" are for.

**SentMessages.** `TrueAcks`, `ArrivingAcks`. `SentInv` says that one send waits
for its reply at a time (`OneSending`), that until one is given up the only reply under
way is its own, so that rows are stored under their own codes (`Orderly`), and that an
acknowledgement that is no longer under way was either early or has marked its row
(`RowFine`, `Handled`).

**Only model-checked.** The liveness properties `StalledOnlyByClient`, `Drained`,
`LibraryFed`, `SyncedInTheEnd` and `ShutdownEnds`: fairness and ENABLED are out of the
prover's reach. All other properties of the runs that hold are theorems. What needs an
induction over data (sums over sets, the loop of the parser) is proved without the
library's induction theorems, whose operator parameters the provers cannot instantiate: by
the smallest number or the smallest set for which the claim would fail.

## 5. Not modelled

* Configuration, logging, the entry point and the health check script: parsing and
  I/O without state of their own. The settings the models depend on are their
  CONSTANTS.
* The generated protobuf code and the conversions to and from it; wire formats.
* The typed RPCs that pass their arguments to the library and keep nothing, and the
  status calls, which only read. As users of the command slot they are the library
  callers of CommandSlot. `SendChannelMessage` stores its row as the messages of
  Backfill are stored.
* Byte counts and RSSI in the statistics, the counters of `GetProxyStatus`, names of
  channels and contacts, the SNRs of a ping.
* Pragmas, the incremental vacuum and checkpoints, which change nothing that a query sees.
* The firmware, the meshcore library, asyncio, gRPC and SQLite are modelled from how
  the code uses them and are marked external in the map.

What would come next: abstract specifications for the components that have none, with
proofs that the modules implement them. The response cache should look like a contact list
that is read and changed in single steps, as long as nobody gives up.
