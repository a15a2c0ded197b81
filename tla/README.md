# TurboTransfer: verification project

TLA+ models of the transfer engine in `src/core/src` (the Rust crate behind the
command line, the terminal client and the Android application), the TLC
configurations that check them on small instances, and theorems about them
checked by the TLA+ proof system.

TurboTransfer sends one file over several links at once (USB, Wi-Fi Direct, TCP).
The file is cut into chunks; whichever channel has room takes the next chunk from
a shared queue; the receiver checks, stores and acknowledges each chunk; when
everything is acknowledged the sender asks for completion on one channel and the
receiver checks the whole file and renames it to its final name. What has arrived
is recorded in a `meta.json`, from which an interrupted transfer resumes.

## 1. Inventory

Paths are relative to `src/core/src`.

### Send session: `transfer/session/{mod,reader,ack}.rs`
- **State.** Main task: the live transports, the union of the resume ranges, the
  transport that carries `Complete`. Shared: the flag `is_cancelled`, the set and
  the count of completed chunks, the bounded *prepared* queue, the retry queue, a
  `Notify`. Per channel: the flag `channel_disconnected`, the in-flight set, the
  window.
- **Operations.** Handshake of each transport; the blocking reader thread; per
  channel a transmit task and a receive task; the handler of `ChunkAck` and
  `ChunkNack`; join, verdict, `Complete` and the wait for its acknowledgement.
- **Interactions.** Queues and flags between the tasks, the status in the
  registry, frames to the peer.
- **Hard.** Flags are read before an await and acted on after it;
  `notify_waiters` stores no permit; both tasks of a channel clean up after the
  same failure; window and in-flight set are read one after the other while the
  other task changes both.
- **Correct when** `Complete` and success are honest, no chunk is lost or held
  twice, the window bounds what is in flight, the finalising channel is one that
  works, stopping stops, and streaming comes to an end.

### Window and channel tracker: `scheduler/{window,tracker,model}.rs`
- **State.** Window size, smoothed round-trip time and throughput, in-flight map.
- **Operations.** `evaluate_and_adjust`, `record_sent/acked/nacked/disconnect`,
  `select_best_channel`.
- **Hard.** Acknowledgements that come twice or late, rejections and disconnects
  each touch the in-flight set, the byte count and the busy clock separately; the
  hysteresis counts samples across states.
- **Correct when** the window stays in its preset and probes by one step, the
  bookkeeping never counts short, and a channel recovers only through probing.

### Receive session: `transfer/receiver.rs`
- **State.** The process-wide map of sessions; per session the chunk tracker, the
  CRC32C table, `is_completed`, the disk queue and its writer thread, `disk_error`;
  per connection the handler and the chunk at hand; the `.part` file and the final
  file.
- **Operations.** Handshake, `ChunkData` (check, mark, record, queue, acknowledge),
  `Complete` (claim, close the writer, verify, rename, acknowledge), EOF and read
  errors, cleanup by the last handler, cancellation by the user.
- **Interactions.** One handler per connection shares the session by reference
  count; the disk writer through a bounded queue; the `meta.json` actor through
  another; the registry.
- **Hard.** A chunk is marked and recorded before it is queued, and acknowledged
  before it is written; the reference count is looked at under one lock and the
  session removed under another; the file checksum may come from memory; the
  process may end between any two of these.
- **Correct when** an acknowledged chunk reaches the disk, the published file is
  whole, nobody is told of success without a published file, one handler
  finalises, handlers return.

### `meta.json` actor: `manifest/{actor,schema}.rs`, and chunk tracker: `transfer/tracker.rs`
- **State.** The set of completed chunks, a count of unsaved events; ranges on disk.
- **Operations.** `ChunkCompleted` (dropped by `try_send` when the queue is full),
  flush after a number of events, each second, at pause, cancel and end; ranges
  coalesced and expanded; the file rewritten through a temporary one.
- **Hard.** Writes that fail are dropped; on Windows the old file is removed before
  the new one takes its place; the process may be killed anywhere in between; a resume and
  a new receive session spawn an actor on the file while an older one may be alive.
- **Correct when** the ranges on disk claim only what was reported, and, while one actor
  has the file to itself, what was recorded stays recorded, what was reported gets there,
  and little is ever unsaved.

### Registry, start, pause, resume, cancel: `transfer/{registry,sender,api}.rs`
- **State.** Status, progress, actor handle and source path of each transfer.
- **Operations.** `start_transfer`, `resume_transfer`, `pause_transfer`,
  `cancel_transfer`, `set_transfer_status`, and the epilogue of the spawned session
  that writes the final status.
- **Hard.** No guard on the current status; an old session may still be ending when
  a new one starts; early returns after the status was written; a pause or cancellation
  takes the registry's lock twice, and a resume may come in between.
- **Correct when** a status is the latest word of the user or of the session that
  owns the transfer, and a transfer in progress has somebody working on it.

### Choice of channels: `transfer/sender.rs`, `resolve_and_connect_transports_with_streams`
- **Operations.** Per preference and platform: explicit addresses, adb tunnels,
  hotspot probes, a last try; peers may come up while they follow each other.
- **Correct when** no host that answers is skipped because of another stage, and
  channels that were probed never lead to two devices.

### Receive mode and discovery: `transfer/receiver.rs`, `transfer/discovery.rs`
- **State.** The map of listeners with their abort handles; adb rules of the port.
- **Operations.** Enter and leave receive mode, accept loops, the tunnels that receive
  mode, a scan and a send each turn to their own direction; polls for a listening phone,
  each of which sets the forward rule again.
- **Hard.** An accept loop runs before its handle is in the map; every front end may
  call at any time.
- **Correct when** a running loop can be stopped and no port has rules both ways.

### Transports: `transport/{stream,tcp,vectored,wifi_direct}.rs`, `transport/usb`, `protocol/frame.rs`
- **State.** Status and streams of a transport, the halves it is split into; the adb
  rule or WLAN profile it set up; the reader's buffer.
- **Operations.** Connect, reconnect, heartbeat, send and receive a frame, split, close.
- **Hard.** Several transports of a process share one table of adb rules; halves live on
  in two tasks after the transport is gone; reads are given up in the middle of a frame;
  the age of the last frame outlives a reconnect.
- **Correct when** frames arrive whole and in order, a clean end is one, a link is not
  declared dead early, one dead half stops both, and nothing stays behind.

### Calibration: `benchmark`
- **Operations.** A sweep of benchmark sends; a cancellation that must find the one that
  runs.
- **Correct when** a cancelled sweep stops and leaves no transfer behind.

### Chunk plan and ranges: `chunk/mod.rs`, `transfer/tracker.rs`, `manifest/schema.rs`
- **Operations.** Choice of a chunk size, plan of a file, ranges of completed chunks from and
  to sets, what a resumed session still has to send.
- **Hard.** Last chunks, gaps of one, and the number of chunks, which is cut off to 32 bits.
- **Correct when** the plan covers the file once, and a resume sends what is missing.

### Without a protocol of their own
Serialisation of messages, checksums, telemetry, storage helpers,
runtime, FFI. Section 8 says why each is left out.

## 2. Modules

| Module | Models | Role |
|---|---|---|
| `FileTransfer` | | what a send session promises: the abstract specification |
| `SenderSession` | `transfer/session`, the outcomes of `scheduler/window.rs` | the send session, whatever the peer answers; implements `FileTransfer`. What the peer's word is worth on disk is `ReceiverSession`'s affair |
| `SenderSafetyProofs` | | its type correctness, its safety theorems and the refinement |
| `SenderHolderProofs` | | no chunk is held twice, none is forgotten |
| `ReceiverSession` | `transfer/receiver.rs`, what `manifest/actor.rs` persists | the receive session against any sender, disk and restarts |
| `ReceiverSessionProofs` | | its type correctness, and who finalises and what is reported |
| `ReceiverSafetyProofs` | | the chunks on their way to the disk, and the published file |
| `MCReceiver` | | its symmetry set for TLC |
| `TransferLifecycle` | `transfer/{registry,sender,receiver,api}.rs`, the statuses in `manifest/actor.rs` | registry, attempts, pause, cancel, restart |
| `LifecycleProofs` | | its theorems |
| `ChunkPlan` | `chunk/mod.rs`, `transfer/tracker.rs`, `manifest/schema.rs` | plan, chunk sizes and ranges, as pure operators |
| `MetaStore` | `manifest/actor.rs` | one transfer's actor and its `meta.json` |
| `ChannelTracker` | `scheduler/tracker.rs` | in-flight bookkeeping and state of a channel |
| `WindowController` | `scheduler/window.rs` | the adjustments in detail |
| `UsbTunnel` | `transport/usb` | USB transports sharing adb rules |
| `ReceiveMode` | `transfer/{receiver,discovery,sender}.rs` | listeners and the direction of the tunnel |
| `WifiLink` | `transport/wifi_direct.rs` | Wi-Fi transport, heartbeat, profile, halves |
| `FramedStream` | `protocol/frame.rs`, `transport/{stream,vectored}.rs` | frames over a byte stream |
| `ConnectTransports` | `transfer/sender.rs`, `transport/tcp.rs` | which channels a send opens |
| `Calibration` | `benchmark/{calibration,runner}.rs` | the sweep and its cancellation |
| `TransportProofs` | | theorems about `UsbTunnel`, `WifiLink`, `ReceiveMode` and `FramedStream` |
| `ControlProofs` | | theorems about `WindowController`, `Calibration` and `ChannelTracker` |
| `DataProofs` | | theorems about `ChunkPlan`, `MetaStore` and `ConnectTransports`, by induction over their data |
| `Components` | | the nine modules that share no state, for one run |

`SenderSession` and `ReceiverSession` each model the other side by what it can do;
`TransferLifecycle` has a session as the phases in which its result depends on the
registry. The other modules stand beside them: a link of the sessions is a
`FramedStream`, opened by `ConnectTransports` over `UsbTunnel` or `WifiLink`.

Operators whose comment starts with "Mutated form" are not part of a
specification. They are plausible errors in the code, and for each property that
holds one of them is known to break it: the properties are not vacuous.

### SenderSession and the code
A step is the code between two points at which another task can see a
difference. `phase` is the position of the main task; `wpc` and `rpc` those of the
two tasks of each channel; `readerPc` that of the reader thread.

| Code | Model |
|---|---|
| handshake loop, `mod.rs:208-339` | `HandshakeAccepted`, `HandshakeFailed`, `HandshakeRejected`, `NoChannelLeft` |
| everything resumed, or streaming | `NothingMissing`, `StartStreaming` |
| reader thread, `reader.rs` | `ReaderTakeRetry`, `ReaderTakePending`, `ReaderFail`, `ReaderSend`, `ReaderExit` |
| transmit task, `mod.rs:519-651` | `WriterStop`, `WriterObserveControl`, `WriterProceed`, `WriterWindow`, `WriterCount`, `WriterRecv`, `WriterRecvClosed`, `WriterSpurious`, `WriterSent`, `WriterSendFailed` |
| receive task, `mod.rs:675-782` | `ReceiverStop`, `ReceiverProceed`, `ReceiverArm`, `ReceiverAck`, `ReceiverNack`, `ReceiverEof` |
| `notify_waiters` | `WakeWaiting`: only tasks at `"select"` wake; `ReceiverArm` is the moment a task registers |
| join, verdict, completion | `JoinWorkers`, `GiveUp`, `DecideComplete`, `SendComplete`, `SendCompleteFailed`, `FinalFrame`, `FinalEof` |
| receiving device, links, user | `PeerChunkGood`, `PeerChunkCorrupt`, `PeerComplete`, `LinkDown`, `UserRequest` |

`Adjusted` is every outcome `evaluate_and_adjust` can have, whatever the measured
times; `WindowController` has the comparisons. `late` is a history variable for
`StopsSending`.

**The peer.** Its actions answer a frame on the link it came by and with the id it carries,
as `receiver.rs:460-694` does; nothing else is asked of it. `vouched` and `confirmed` are
history variables: the chunks the peer has claimed, by an acknowledgement or by a resume range
(any ranges, whatever backs them), and that it has answered `Complete`. They do not say that
a chunk is on disk or that the file is published. The receiver of this repository acknowledges
a chunk before it is written, offers ranges that nothing backs (`receiver_restart`), and
acknowledges a second `Complete` at once (`receiver.rs:686`). What the sender guarantees is that
it believes no more than it was told; what that is worth is checked of `ReceiverSession`.

**Refinement.** `Promise` maps `vouched` to the pieces the receiver has vouched for, `confirmed` to
its agreement, `status` to the user's wish, `result` to the verdict, and `phase` to three stages:
open, offered (`Complete` decided) and closed. `ImplementsFileTransfer` is `FileTransfer`'s
specification under this mapping: every step of the session is a step or a stutter.

### ReceiverSession and the code
Sessions, and files created at the `.part` path, are numbered; `part` and `final`
say which file is at each path, `blocks[f]` which chunks of it were written.

| Code | Model |
|---|---|
| handshake, session lookup, accept, `receiver.rs:226-432` | `JoinSession`, `CreateSession`, `Accept`, `AcceptFails` |
| `ChunkData`, `460-571` | `TakeBad`, `TakeDuplicate`, `TakeNew`, `Mark`, `Enqueue`, `EnqueueBroken` |
| `Complete`, `572-694` | `TakeComplete`, `TakeCompleteAgain`, `SendClose`, `VerifyFails`, `VerifyBreaks`, `Publish` |
| end of a connection and cleanup, `440-457`, `734-757` | `Eof`, `Reset`, `CleanupCheck`, `CleanupRemove`, `Drain`, `Report`, `Return` |
| disk writer thread, `358-389` | `WriteBlock`, `WriteFails`, `CloseFile`, `WriterOrphaned` |
| `meta.json` actor | `known`, `dirty`, `Persist`; `Mark` may skip the event, as `try_send` does when its queue is full |
| `cancel_transfer`, restart | `UserCancel`, `Crash` |
| sending device and links | `StartStreaming`, `SendChunk`, `SendComplete`, `Hangup`, `SenderFails`, `SenderDone`, `Resume`, `Corrupt`, `LinkDown` |

The sender here keeps the promises that `SenderSession` is shown to keep: one
channel per chunk (`AtMostOneHolder`) and `Complete` after the last
acknowledgement (`CompleteMeansVouched`). A link carries one frame at a time:
the handler answers a frame before it reads the next, and frames that wait
behind it change nothing the handler can see. A chunk that the sender of a lost
link does not send again (section 6, `sender_requeue`) stays in `flying`.

### TransferLifecycle and the code
An attempt is a call of `start_transfer` or `resume_transfer`, or an incoming session,
with the task it spawns and its `MetaActor`; `pc` is its position. `control` holds the pauses
and cancellations that have set the status and not yet told the actor. `abandoned`, `earned` and
`crossed` are history variables, the last one the actors told by a control operation that a
resume had overtaken.

| Code | Model |
|---|---|
| `start_transfer`, `resume_transfer` up to the connection, `sender.rs:554-838` | `Start`, `Resume`, `ResumeReceived`, `ConnectFails`, `Connected` |
| spawned session and its epilogue | `SessionStreams`, `SessionStops`, `SessionFails`, `SessionCompletes`, `SessionSucceeds`, `Epilogue` |
| registry, `registry.rs` | `Register`, `SetStatus`, `SetHandle`, `Listed` |
| `pause_transfer`, `cancel_transfer`, one step per lock, `registry.rs:306-335` | `Pause`, `Cancel` (status), `CancelLeavesMap`, `ControlTells` |
| receive session | `Incoming`, `ReceiveSucceeds`, `ReceiveRejected`, `ReceiveCloses` |
| `MetaActor` | `SpawnActor`, `ActorControl`, `ActorSave`, `ActorExit` |
| end of the process | `Restart` |

### The modules of Components and the code

| Module | Code to actions |
|---|---|
| `ChunkPlan` | `select_optimal_chunk_size` `OptimalChunkSize`; `total_chunks` `TotalChunks`; `calculate_chunk_plan` `Plan`; `coalesce_ranges` `CoalesceRanges`; `expand_ranges` `ExpandRanges`; the tracker's `from_ranges` `TrackerFrom` and `get_completed_ranges` `CompletedRanges`; the filter of a resumed send session `MissingChunks` |
| `MetaStore` | `try_send_chunk_completed` `Report`; `pause`, `cancel` `SendStop`; the actor's `select!` `HandleChunk`, `HandleControl`, `TimerTick`, `HandlesDropped`; `write_atomic` `WriteMeta`, `WriteMetaFails`, `RemoveOld`, `RenameRefused`; start and end `SpawnMeta`, `MetaKilled`. Actors are numbered, and several may have the file |
| `ChannelTracker` | `record_chunk_sent`, `_ack`, `_nack`, `record_disconnect`: `RecordSent`, `RecordAck`, `RecordNack`, `RecordDisconnect`; `update_state_machine_on_sample`: `NextState` |
| `WindowController` | `with_thresholds`: `MinWin`, `MaxWin`, `InitWin`; `evaluate_and_adjust`: `Adjust` over every outcome of its comparisons |
| `UsbTunnel` | `connect`, `discover_and_connect`, `reconnect` split at their polls, which set the rule again (`ConnectPolls`); `send_frame`, `receive_frame`, `close`, `Drop`, `split_boxed`, the halves; `Unplug`, `PlugIn` |
| `ReceiveMode` | `enter_receive_mode` split at the bind and before the handle is inserted; accept loop; `leave_receive_mode`; `ScanBegins`, `SendPrepares` and the tunnels of receive mode put their adb commands into `turn`, and `TurnStep` is one of them, or one more poll of `is_receiver_listening` |
| `WifiLink` | `connect`, `reconnect`, `check_heartbeat_liveness`, `send_frame`, `receive_frame`, `split_boxed`, halves that test a shared flag and then move a frame; `AssociatedElsewhere` is every other part of the program that joins the hotspot (`receiver.rs:158`, `sender.rs:137`, `191`, `discovery.rs:153`) |
| `FramedStream` | `write_all_vectored` by partial writes; `read_frame_with_length` by partial reads, which a `select!` may give up between any two |
| `ConnectTransports` | one action per stage of each preference; `HostComesUp` between stages; `adb` says whether it can be run, without which `UsbTransport::connect` fails before it tries the tunnel |
| `Calibration` | check of the token, announcement, file, connection, session; `cancel_calibration` at any point |

## 3. Runs

All runs switch the deadlock check off: a session that has returned, or a sender
that has nobody left to talk to, is a legal end. A run that may not stop early has
a liveness property that says so.

### Properties that hold
| Run | Instance | Distinct states | Shows |
|---|---|---|---|
| `sender_faults` | 2 chunks, 2 channels, queue 1, window 1..2, refused handshakes, any resume ranges, failing read, one broken link, pause and resume | 572,060 | types; `CompleteMeansVouched`, `AtMostOneHolder`, `PrimaryIsHealthy`, `StopsSending`; `ImplementsFileTransfer` |
| `sender_live` | 2 chunks, 2 channels, links hold, a handshake may be refused, one corrupted chunk | 40,342 | `NoChunkForgotten`; `StreamingAcknowledges`, `LoneChannelSucceeds` under fairness |
| `receiver_faults` | 2 chunks, 2 connections, queue 1, one corrupted chunk, one broken link, one failing write | 44,439 | types; `AckedIsSafe`, `PublishedIsWhole`, `PublishedIsClosed`, `SuccessMeansPublished`; `TransferFinishes`, `HandlersReturn` under fairness |
| `receiver_resumes` | 1 chunk, 2 connections, 2 sessions, one resume, one crash, one broken link at any time, one failing write, cancellation | 1,690,813 | `OneFinalizer`, `CompletedMeansPublished` |
| `lifecycle` | 1 transfer, 3 attempts, one pause or cancellation, one restart | 2,606,975 | types; `InProgressIsWorked`, `WorkerHasLiveActor`, `CompletedIsEarned` |
| `components` | the nine modules, one per initial state | 620,111 | the properties below |

| Module in `components` | Instance | Shows |
|---|---|---|
| `MetaStore` | 2 chunks, queue 1, flush at 2, both platforms, one failing write, 2 actors, one after the other or at once | `SavedIsHonest`, `LossIsBounded`, `NothingForgotten`; `ProgressIsSaved` under fairness |
| `ChannelTracker` | 2 chunks, 4 sends, the thresholds of the code | `InFlightIsCounted`, `RecoveryIsProbed` |
| `WindowController` | preset 2..8 with an initial window beyond it | `ProbesByOne` |
| `UsbTunnel` | 2 transports, 2 opens, one unplug | `UsbLeavesNoRule` |
| `ReceiveMode` | 2 calls, 2 addresses of one port, one leave, one error, one scan or send | `ListenerCanBeStopped`, `OneDirection` |
| `WifiLink` | heartbeat of 2 ticks, 2 polls, 2 connections | `HeartbeatIsFair`, `OneDeadHalfStopsBoth`, `NoProfileLeft` |
| `FramedStream` | 3 frames of 3 kinds, one of them too long, 4 bytes under way | `FramesArriveInOrder`, `CleanEndIsHonest` |
| `ConnectTransports` | 4 preferences, 3 platforms, with and without adb, no address, each kind and pairs, one late host | `ConnectFindsAChannel`, `ProbedWifiIsOnePeer` |
| `Calibration` | 2 calibrations of 4 steps, 2 cancellations | `CancelStopsSweep` |

`components` loses nothing by running one module per initial state: they share no
variable, so their product would only multiply states. `part` is chosen in `Init`
and never changes.

`ChunkPlan` has no state. The module `Components` assumes two statements about it, which TLC
evaluates before the run: `PlanChecked`, that with 8 chunk numbers the plan of a file is exact
if and only if the numbers suffice, for chunks of 1 to 3 bytes and files to one and more
beyond that limit; `RangesChecked`, that a resume leaves the missing chunks, for every set of
chunks in `meta.json` and every set marked since. Section 5 has both for all sizes.

**Why these bounds are enough.**
- Two channels are the smallest number at which one channel acts while another is
  between two steps; every shared flag is raised by one and read by the other.
- A prepared or disk queue of one command is full and empty in the same run; with the
  real 256 and 128 the full queue would hardly be met. For the queue of `MetaStore`
  and its batches the same holds.
- One corrupted chunk, one broken link, one failing write: the second of each finds
  the code in a state it has been in before. Two at once of different kinds are in
  the instances.
- `receiver_resumes` pays for two sessions with one chunk. What it checks is about
  who finalises, not about which chunks are there.
- Three attempts let an old session end under a resumed one while the third has been
  begun; a second transfer would share nothing with the first but the lookup without
  an id, which `lifecycle_resume` has two for.
- Two transports, calls, actors or calibrations are the fewest that can get in each other's
  way; one that fails and one that goes on are in every instance. The scan of `ReceiveMode`
  meets two calls, each of which turns the tunnel too; the theorem has any number.
- Where a theorem of section 5 exists, no bound matters beyond its hypotheses. That is so for everything
  `sender_faults` checks, which therefore leaves out the corrupted chunk: rejections are in
  `sender_live` and in the theorems.

`MayBreakEarly = FALSE` in `receiver_faults`, and its one session, keep out precisely
the behaviours of the three receiver findings of section 6: a link that breaks while
another connection is still joining the session, a resume, and a restart. Outside
them the properties hold; inside them the violation runs show that they do not.

Some properties name an exception, each with a history variable:
- `UsbLeavesNoRule` a connect that failed (`stray`). It is about the transports: the rules that
  scans and sends set for themselves are in `ReceiveMode`.
- `NoProfileLeft` a connect that failed, and the four other places that join the hotspot and
  never leave it (`strayProfile`). It is about what the transport itself adds.
- `InProgressIsWorked` a resume that returned early (`abandoned`).
- `WorkerHasLiveActor` an actor ended by a pause or cancellation that a resume overtook between
  its two locks (`crossed`): its session goes on as in progress, and nothing it does reaches
  `meta.json` any more.
- `LossIsBounded`, `NothingForgotten` and `ProgressIsSaved` an actor that was spawned while another
  had the file (`sharedFile`), which may be overwritten with what the other knows;
  `SavedIsHonest` has no such exception.
- `ListenerCanBeStopped` a loop that failed before its handle was inserted (`clobbered`).
- `OneDirection` users at once (`overlapped`). A user is one until its last poll.

The code promises nothing for them; the property says that there is no other way there. What
`ConnectFindsAChannel` promises depends on `adb` the same way: where it cannot be run, the USB
transport fails before it tries the loopback port, so that, with an address given, that
port is promised only to `Combined`, which does not go through it.

### Properties that do not hold
`sender_requeue`, `sender_wakeup`, `receiver_overlap`, `receiver_restart`,
`receiver_cleanup`, `lifecycle_resume`: section 6.

## 4. Fairness
- `WF(Main)`, `WF(Reader)`, `WF(Transmit(c))`, `WF(Receive(c))`, `WF(Handler(c))`: the
  multi-threaded runtime of `util/runtime.rs` polls every task that has been woken,
  and blocking threads are scheduled by the operating system. No strong fairness is
  assumed: nothing in the code orders the waiters of a queue or a lock.
- `WF(DiskWriter(s))`: the same, for the thread started by `spawn_blocking`.
- `WF(Peer(c))`, `WF(SenderStep)`: the other device goes on while its link is up. These
  are assumptions on the environment, without which no transfer ends.
- `MetaFairness` in `components`, for the behaviours with `part = "meta"`: the runtime
  polls the actor, its blocking write ends, the clock advances. The other modules have
  safety properties only, and no fairness.
- Nothing is assumed of `LinkDown`, `Corrupt`, `UserRequest`, `UserCancel`, `Hangup`,
  `Resume`, `Persist` and `Crash`: they happen or not.

A bounded number of corruptions stands for a link that delivers good chunks sooner
or later.

## 5. Theorems
Each holds for every value of the constants, under the named assumptions of its module and
the hypotheses given here. The assumptions are what the code's own types give: sizes are
positive, a preset is ordered, bounds are natural numbers, there are finitely many
channels, a listener's number is not the 0 that stands for none, a header is longer than
its length prefix, the addresses of a send are a finite sequence.

| Module | Theorem | Statement |
|---|---|---|
| `SenderSafetyProofs` | `TypeCorrect` | `Spec => []TypeOK` |
| | `WindowIsRespected` | `Spec => []WindowRespected` |
| | `PrimaryStaysHealthy` | `Spec => []PrimaryIsHealthy` |
| | `SendingStops` | `Spec => []StopsSending` |
| | `CompletionIsHonest` | `Spec => []CompleteMeansVouched` |
| | `SessionKeepsPromise` | `Spec => ImplementsFileTransfer` |
| `SenderHolderProofs` | `NoChunkTwice` | `Spec => []AtMostOneHolder` |
| | `NothingIsForgotten` | `Spec => []NoChunkForgotten`, if `MaxDrops = 0` and `~MayFailRead` |
| `ReceiverSessionProofs` | `ReceiverTyped` | `Spec => []TypeOK` |
| | `FinalizerIsUnique` | `Spec => []OneFinalizer` |
| | `CompletedIsPublished` | `Spec => []CompletedMeansPublished` |
| | `SuccessIsPublished` | `Spec => []SuccessMeansPublished`, if `MaxResumes = 0` |
| `ReceiverSafetyProofs` | `PublishedFileIsClosed` | `Spec => []PublishedIsClosed`, if `Undisturbed` |
| | `PublishedFileIsWhole` | `Spec => []PublishedIsWhole`, if `Undisturbed` |
| | `AcknowledgedIsSafe` | `Spec => []AckedIsSafe`, if `Undisturbed` and `MaxCrashes = 0` |
| `LifecycleProofs` | `LifecycleTyped` | `Spec => []TypeOK` |
| | `ProgressHasAWorker` | `Spec => []InProgressIsWorked` |
| | `CompletionIsEarned` | `Spec => []CompletedIsEarned` |
| | `WorkerKeepsItsActor` | `Spec => []WorkerHasLiveActor` |
| `TransportProofs` | `TunnelsAreCleaned` | `UsbSpec => []UsbLeavesNoRule` |
| | `HeartbeatKillsTheDead` | `WifiSpec => HeartbeatIsFair` |
| | `DeadLinkStops` | `WifiSpec => []OneDeadHalfStopsBoth` |
| | `ProfileGoesWithTheLink` | `WifiSpec => []NoProfileLeft` |
| | `ListenersCanBeStopped` | `ReceiveSpec => []ListenerCanBeStopped` |
| | `TunnelsHaveOneDirection` | `ReceiveSpec => []OneDirection` |
| | `FramesAreWhole` | `FrameSpec => []FramesArriveInOrder` |
| | `CleanEndsAreHonest` | `FrameSpec => []CleanEndIsHonest` |
| `ControlProofs` | `WindowProbesByOne` | `WindowSpec => []ProbesByOne` |
| | `CancellingStops` | `CalibrationSpec => []CancelStopsSweep` |
| | `InFlightAlwaysCounted` | `TrackerSpec => []InFlightIsCounted` |
| | `ProbesEarnRecovery` | `TrackerSpec => RecoveryIsProbed` |
| `DataProofs` | `RangesRoundTrip` | `ExpandRanges(CoalesceRanges(S)) = S`, the ranges apart and in order, for every finite set `S` of natural numbers |
| | `ResumeSendsTheRest` | what `meta.json` has, loaded into a tracker that marks more chunks and answers an offer, leaves the other chunks of the plan |
| | `PlanIsExact` | `CutsTheFile(Plan(f, c), f, c) <=> Fits(f, c)`, for every file size `f` and chunk size `c > 0` |
| | `LengthsAgree` | `ResumedLength(f, c, id) = Plan(f, c)[id].length`, if `Fits(f, c)` |
| | `OptimalSizeFits` | the chosen chunk sizes cut every file exactly, up to 2 MiB times the largest chunk number, which is above 63 |
| | `SavedAlwaysHonest` | `MetaSpec => []SavedIsHonest` |
| | `LossAlwaysBounded` | `MetaSpec => []LossIsBounded` |
| | `RecordOnlyGrows` | `MetaSpec => NothingForgotten` |
| | `ChannelAlwaysFound` | `ConnectSpec => []ConnectFindsAChannel` |
| | `ProbingFindsOnePeer` | `ConnectSpec => []ProbedWifiIsOnePeer` |

`Undisturbed` is `MaxResumes = 0 /\ ~MayCancel /\ ~MayBreakEarly`: the sender does not resume,
the receiver's user does not cancel, no link breaks before all connections have joined.

`WindowRespected` is no longer checked by a run: the theorem says more. Without the two
assumptions `NoChunkForgotten` is false: `sender_requeue` loses a chunk.

**The send session.** None of its safety properties is inductive.
- `WindowRespected` fails to be preserved by `WriterRecv` from an arbitrary typed
  state: `WindowInv` adds that a transmit task past its window check has room for
  one more, which holds because only that task adds to the set.
- `StopsSending` needs `LateInv`: after the one late chunk the task is back at its
  flag check with the flag raised, from where it only leaves.
- `PrimaryIsHealthy` needs `DisconnectInv` (a channel marked as disconnected has a
  task that ended badly) and `TasksInv` (once the workers are joined the tasks do not
  move, and channels that failed the handshake never ran).
- `CompleteMeansVouched` needs `DeliveryInv`: the peer has vouched for what is resumed or
  completed, what is on a wire is allowed there (`RequestsNow`: `Complete` only after the
  decision), what comes back answers something (`RepliesNow`). The code compares a *count* with
  the length of the plan, so the lemma `CountingIsEnough` closes the gap: a set of at
  least `NChunks` chunks, all below `NChunks`, is the whole plan. It relies on no id
  outside the plan being counted, which `RepliesNow` gives: the final id comes back only
  as the answer to `Complete`, after all chunks were counted. The peer is trusted with
  nothing more; that success means a published file is no theorem about the sender.

`ChannelInv` is the conjunction of the first four with `PrimaryIsHealthy`. Each is
proved for the initial states, then for each group of actions (`ChannelMain`,
`ChannelTransmit`, `ChannelReceive`, `DeliveryMain`, `DeliveryTasks`,
`DeliveryEnvironment`). `TransmitShape` and `ReceiveShape` say once what a step of a
task can change, so that the invariants do not repeat the case split.

`SenderHolderProofs` follows one chunk. `AtMostOneHolder` counts the places where the
session knows of it; it is not inductive, because a chunk that was sent is in no queue but
on the wire, and its answer will put it into the completed set or back into the retry
queue. `HolderInv` adds these two places: for each chunk, `Single` says that it is at one
position of one queue, or with the reader, or on one channel, and that on a channel it is
with the transmit task, on the wire or on its way back, in one copy. `OccursAppend` and
`OccursTail` say what a queue operation does to occurrences. `NothingIsForgotten` needs
only that some place remains (`HasPlace`): `KeptInv` adds `QuietLinks`, that links hold as
long as the session streams and the reader gives up only when the session stops.

`SessionKeepsPromise` uses `IInv`: types, `ChannelInv`, `DeliveryInv`, and `QuietInv`, that
a session which ended without waiting for the final answer has no `Complete` on any
wire: what the peer confirms after the end was offered. One lemma per group of actions
says which step of `FileTransfer` it is.

**The receive session.** Types come first (`ReceiverTyped`): the disk queue holds only writes of
chunks of the file and `Close`, never more than its capacity.
- `OneFinalizer` needs that a handler which finalises has found `is_completed` unset and
  set it (`FinalizerInv`). Every other step is `Calm`: it starts no finaliser, reports nothing
  that is not published, and makes no `Complete`.
- `CompletedMeansPublished` is inductive. `SuccessMeansPublished` is not: a `Complete` that finds
  `is_completed` set is acknowledged at once. `CompletesOnce` says that a sender which was never
  resumed has at most one `Complete` on its way, and none to a session that is done. With a
  resume it is false, and so is the property: TLC finds, in the instance of
  `receiver_resumes`, a resumed sender whose `Complete` is acknowledged while the first handler
  is still verifying the file, hence the hypothesis `MaxResumes = 0`.
- The three theorems of `ReceiverSafetyProofs` need the session to be alone. `SessionInv` says so:
  every open connection belongs to the session created last, only its writer runs, and the
  `.part` file is always the first one (`SoleSession`); nothing moves before streaming
  (`ConnectInv`). No part of `Undisturbed` can be dropped from any of the three: with two chunks,
  two connections, two sessions and one broken link, TLC finds each of the properties violated
  with one resume alone (as in `receiver_overlap`), with early breaks alone (as in
  `receiver_cleanup`), and with cancellation alone, which empties the map under the
  handlers that go on.
- `AckedIsSafe` follows one chunk, as `AtMostOneHolder` does on the other side. `OneCopy`: a
  chunk that is carried or in a handler's hand is in flight, at one place, and not
  acknowledged; so the tracker cannot hold it before it was sent. `SettledInv`: `Close` is queued, and
  cleanup goes on, only when no chunk will come any more, because all are acknowledged or
  every handler has left its loop. `DeliveryInv`: what is acknowledged is on disk or queued, or the
  disk failed, or the process was restarted under the sender. `LastHolder` and
  `FinaliserHasAll` connect them, by counting the references to the session.
- `PublishedIsWhole` follows: the finaliser has waited for the writer, the queue is empty, and all
  chunks are acknowledged, so all are on disk. `MaxCrashes` is free here: after a crash the
  sender has no connection, and without a resume nobody publishes. `AckedIsSafe` itself needs
  `MaxCrashes = 0`: a chunk may be acknowledged, still queued, and the process killed.

**The lifecycle.** `LifecycleInv` has `FreshInv` (attempts are begun in order, only a
returned session has an outcome), `WorkInv` and `EarnInv`. `InProgressIsWorked` is not
inductive: a session that was stopped ends without writing a status, so the attempt that
keeps a transfer in progress must be one whose end *will* write it; `WorkInv` says so.
`EarnInv` relates outcomes to `earned`, and the typing records that no `meta.json` ever
says `Completed`, which is also why resuming without an id goes wrong (section 6).
`WorkerHasLiveActor` speaks of a session that streams; the actor it will use is chosen
earlier. `LiveInv` therefore covers the attempt from the moment its handle is registered: as
long as it is the latest of its transfer and the status is `InProgress`, the registered actor lives
and has no message to stop, or was told across a resume (`crossed`). `HandleInv` (handles belong to
their transfer), `InboxInv` (nobody has told an actor that is not registered yet), `PendingInv` (a
control operation still pending for a sent transfer that is in progress was overtaken by its resume) and
`SidesInv` (a transfer is sent or received, never both) make it inductive.

**Transports.** `UsbLeavesNoRule` follows from `KeeperInv`: a forward rule that is no known
leftover has a transport that holds the serial, has not cleaned up and will.
`WifiInv` has three parts. `HeartbeatInv`: the age of the last frame is that of the present
stream; that is `HeartbeatIsFair` across reconnects. `HalvesInv`: both halves share one flag, and
a half that moved its one late frame is idle and can begin none. `ProfileInv`: the transport's
profile is gone before a link is split, since the halves could not remove it, and
`ElsewhereKeeps` deals with those that others add.
`ListenerCanBeStopped` needs `LoopInv`, that no two loops hold one address: then the handle in the
map is that of the loop that runs. `OneDirection` needs `TurnInv`: a user that is about to set a
rule, or sets it again at a poll, has removed the opposite one before, and no other user is there.

`FramesArriveInOrder` and `CleanEndIsHonest` treat the reader's buffer and the bytes under way as
one sequence (`ByteAt`). `StreamInv` says what it is: from the first byte of the first frame not yet
returned to the last byte written, each byte followed by the next of its frame or the first of
the next frame (`Follows`). One lemma per read shows that a read, wherever it is given up,
moves bytes from one part of it to the other; `OffsetInv` does the writer's side. Since a frame is
returned only when as many bytes as its header and payload have are in the buffer, it is
whole; and a clean end is seen only with the sequence empty at a boundary.

**Control.** `CalInv` ties the sessions begun to the steps (`StepInv`), the token to the
cancellation (`CancelInv`), and the map and the registry to what runs (`EntryInv`).
`ProbesByOne` is inductive; its lemma `ShrunkIsSmaller` has the arithmetic of three quarters.
`InFlightIsCounted` is inductive with its types; `RecoveryIsProbed` needs `ProbeInv`: the healthy
run of a channel that probes counts only samples taken since the probe began, and a channel that
is warming up was never degraded.

**Data.** `MetaStore` and `ConnectTransports` loop over chunks and addresses. The library's
induction theorems take a predicate, which the provers cannot instantiate; `DataProofs` states
induction for sets instead. Strict inclusion of finite sets is well founded
(`FS_StrictSubsetOrderingWellFounded`), so a set of finite sets has a minimal member
(`MinimalSubset`), and a set that holds 0, and with each number its successor, holds them all
(`InductionUpTo`). `Iteration` gives a loop its trace, the sequence of its intermediate results;
a recursive function then satisfies its equation, since the trace is a function that does.
- The ranges. `SortingExists` gives the increasing sequence that coalescing walks along.
  `ChunkAdded` is one turn of its loop: the ranges stay apart (`Apart`: each begins at least
  two after the end of the one before it) and hold one chunk more. `RangesRoundTrip` is its
  conclusion, and with it `Saved` is the set that was coalesced. `FlattenSeq`, by which
  the addresses of several lists become one list of channels, is treated the same way
  (`Flattened`).
- `TrackerHolds` says which chunks a tracker answers with, and `ResumeSendsTheRest` puts the
  way of a resume together, from the file of the receiver to the queue of the sender.
- The plan. `Quotient` bounds a quotient, `Multiples` orders the offsets, `TotalReaches` says that
  the chunks reach the end of the file, and `PlanCuts` finds for each byte the one chunk that has
  it. The other direction of `PlanIsExact` is short: the number of chunks is cut off to 32 bits,
  so at most 2^32 - 1 chunks of full size would have to reach the end. Beyond that size the plan
  stops short of the file. With the sizes the code chooses this begins at 8 PiB (`OptimalSizeFits`); a
  calibration may store a chunk size of its own. The comment of `select_optimal_chunk_size` names
  other limits (4 and 128 MiB) than its code (1, 4 and 64 MiB); the model follows the code.
- `SavedIsHonest` is not inductive: `HonestInv` says it also of what the actor knows and of
  what waits in its queue, from which the next file is written. `FileInv` types the ranges on
  disk and keeps them apart. Both hold however many actors have the file. The other properties are
  about an actor that has it to itself (`AloneInv`), for which `KnowsFile` says: it knows at least what
  is saved, which is `NothingForgotten`; the chunks it knows and has not saved are at most the events
  counted since the last flush and a batch for each flush that failed, and fewer than that
  with one batch more, which is `LossIsBounded`.
- `ConnectFindsAChannel` needs `MissInv`: as long as no channel is open, none of the hosts that
  the stages so far have tried was up from the start, and at the end they have tried them all.
  `ProbedWifiIsOnePeer` is inductive with its types (`PeerInv`) once `GivenInv` says that what was
  opened before the first probe was given by the caller and that the flags `wifiFound` and
  `usbFound` know of it.

The proof of `AutomaticFallbackKeeps` found an error in the model: two cases of the action had
overlapping conditions, of which TLC takes the first and the logic either. They now exclude each
other, as the branches of the code do.

**Only model-checked:**
- All liveness (`ProgressIsSaved`, `StreamingAcknowledges`, `LoneChannelSucceeds`, `TransferFinishes`,
  `HandlersReturn`), which is beyond the proof system.
- The receive session with resumes, cancellations and early breaks, except for the first
  three theorems. There its file properties are false (section 6).

## 6. Findings
Each is a property that a document or comment of the repository promises, checked
by a run of its own, that the code does not have.

| Run | Property | What happens |
|---|---|---|
| `sender_requeue` | `InFlightReclaimed` | When a channel is lost, `record_disconnect` empties its in-flight set before the set is drained into the retry queue: the chunks in flight are nobody's, and the session cannot finish on the remaining channel. |
| `sender_wakeup` | `CompleteFollowsAcks` | A receive task reads the completion flags and registers for the notification in two steps; the last acknowledgement, handled on another channel in between, notifies nobody. The task waits for a frame, the join never ends, `Complete` is not sent. |
| `receiver_overlap` | `PublishedIsWhole` | A chunk is marked as completed before its write is queued. A sender that resumes in between is told that the chunk is there, completes, and the in-memory checksum matches: the published file has a hole. |
| `receiver_restart` | `ResumeIsBacked` | `meta.json` may record a chunk before it is written. After a restart the session claims a chunk that is not in the file. |
| `receiver_cleanup` | `AckedIsSafe` | The last handler counts references under one lock and removes the session under another. A connection that joins in between has a writer that is told to close; a chunk queued behind `Close` is acknowledged and dropped. |
| `lifecycle_resume` | `ResumePicksIncomplete` | Without an id, resuming takes the newest `meta.json` whose status is not `Completed`; no code writes that status, so a transfer that succeeded is picked. |

The first has a counterpart in the model of the receiver: a chunk in flight on a
broken link stays in flight there. `sender_live` and `receiver_faults` hold because
their sessions lose no channel, or say so in the property.

The proofs met one more behaviour of this kind, described in section 5: the `Complete` of a
resumed sender is acknowledged before the first handler has published the file.

## 7. Plan
Done so far: both sessions, the lifecycle, the abstract specification with its refinement,
the components around them, and the theorems of section 5. In this order:

1. What `ReceiverSession` still guarantees when it is disturbed: a statement about resumes that
   begin only after the old session's writer has ended, with its proof.
2. `select_best_channel` and the moving averages of `model.rs`.

Hazards without a property, and why, are listed in PROJECT.json: a reader that fails while
links live; pause not seen by a writer that waits in `recv`; two handlers that reach the
cleanup together; the cleanup of an old session that removes a new one; the status after
a lost final acknowledgement. The models have all five behaviours; the code does not
say what should happen. Nor does a run show two more that the models have: the second
`Complete` that is acknowledged at once, and the ranges that a failed verification leaves
in `meta.json`. The window of a channel is a hazard with a theorem and no run.

## 8. Not modelled
- **`Pause`, `Resume` and `Cancel` frames.** The receiver handles them; no sender in the
  repository sends them. Pausing closes the links, as `Hangup` does.
- **Batched acknowledgements.** The sender understands them; the receiver never sends one.
- **Empty files.** `NChunks` is positive; an empty plan goes straight to `Complete`.
- **`receive_file_session`**, which only tests call.
- **Measurements.** Rates, round-trip times and moving averages (`scheduler/model.rs`) enter
  `WindowController` and `ChannelTracker` as the outcomes of the comparisons made with them;
  speeds of a benchmark, the best settings and the file that stores them are left out.
- **Messages and checksums.** A message is a value; a damaged payload is one that
  fails its checksum. Collisions are not considered. Framing is in `FramedStream`.
- **Output of `adb` and `netsh`, beacons, the list of devices.** Their results are inputs:
  an attached device, a hotspot, a host that answers. In the sessions a link is a FIFO
  that may break, with frames and answers lost or still readable.
- **Byte counts, remaining time and pruning** of finished records in the registry.
- **Telemetry** observes and decides nothing.
- **Storage helpers and runtime.** Path handling and positioned writes; the final
  `sync_all` after the rename is in the background and its failure is ignored, so a
  crash of the operating system is outside the model: `Crash` ends the process only.
- **FFI, command line, terminal and Android clients** call the operations above.
- **A paused receiver.** The user of the receiving device may set its status to paused;
  the receive session looks at it only to decide what to report at cleanup.
