---------------------------- MODULE SenderSession ----------------------------
(***************************************************************************)
(* The multipath send session of core/src/transfer/session: the blocking   *)
(* chunk reader (reader.rs), one transmit task and one receive task per     *)
(* channel with the queues, flags and wake-ups they share (mod.rs), the     *)
(* acknowledgement handler (ack.rs), and the main task that performs the    *)
(* handshakes, joins the workers and finalises the transfer.                *)
(*                                                                          *)
(* A step is the code between two points where another task can observe a   *)
(* difference: an await, or a flag that is read in one place and acted on   *)
(* later.  The links are the environment, and so is the peer, the session   *)
(* of receiver.rs, of which only the frames it sends are kept: what it has   *)
(* on disk when it sends them is the matter of ReceiverSession.  A chunk is  *)
(* its number; payloads, checksums of chunks and timing are abstracted.      *)
(***************************************************************************)
EXTENDS Integers, Sequences, FiniteSets

CONSTANTS
  NChunks,       \* length of the chunk plan
  NChannels,     \* transports handed to the session, in vector order
  PreparedCap,   \* capacity of the prepared queue (256 in the code)
  MinWindow, MaxWindow, InitWindow,   \* window preset of a channel
  UserRequests,  \* the statuses the user may ask for
  MayRefuse,     \* may a handshake be refused or fail?
  MayFailRead,   \* may reading the source file fail?
  MaxNacks,      \* bound on the chunks the peer finds corrupted
  MaxDrops       \* bound on the links that break

ASSUME SizeAssumption == NChunks \in Nat \ {0} /\ NChannels \in Nat \ {0}
ASSUME CapAssumption == PreparedCap \in Nat \ {0}
ASSUME WindowAssumption ==
  /\ MinWindow \in Nat \ {0} /\ MaxWindow \in Nat /\ InitWindow \in Nat
  /\ MinWindow <= InitWindow /\ InitWindow <= MaxWindow
ASSUME EnvironmentAssumption ==
  /\ UserRequests \subseteq {"InProgress", "Paused", "Cancelled"}
  /\ MayRefuse \in BOOLEAN /\ MayFailRead \in BOOLEAN
  /\ MaxNacks \in Nat /\ MaxDrops \in Nat

Chunks   == 0 .. NChunks - 1
FinalId  == NChunks           \* the id u32::MAX of the acknowledgement of Complete
Ids      == Chunks \cup {FinalId}
NoChunk  == -1
Channels == 1 .. NChannels

VARIABLES
  \* main task
  phase, result, next, live, resumed, primary,
  \* state shared by the tasks of the session, and the registry's status
  status, cancelled, completed, prepared, closed, retry,
  \* the chunk reader thread
  readerPc, pending, held,
  \* one entry per channel
  disconnected, inFlight, window, wpc, wchunk, rpc, limit, late,
  \* the links and the peer
  up, wire, answers, vouched, confirmed, nacks, drops

mainVars   == <<phase, result, next, live, resumed, primary>>
sharedVars == <<status, cancelled, completed, prepared, closed, retry>>
readerVars == <<readerPc, pending, held>>
chanVars   == <<disconnected, inFlight, window, wpc, wchunk, rpc, limit, late>>
netVars    == <<up, wire, answers, vouched, confirmed, nacks, drops>>
vars       == <<mainVars, sharedVars, readerVars, chanVars, netVars>>

Data(k)  == [kind |-> "data", id |-> k]
Complete == [kind |-> "complete", id |-> FinalId]
Ack(k)   == [kind |-> "ack", id |-> k]
Nack(k)  == [kind |-> "nack", id |-> k]

Requests == {Data(k) : k \in Chunks} \cup {Complete}
Replies  == {Ack(k) : k \in Ids} \cup {Nack(k) : k \in Chunks}

\* Mutated form: the count is compared with an off-by-one.
AllCompletedButOne(done) == Cardinality(done) + 1 >= NChunks

\* completed_count is incremented with every insertion that is new, so it is
\* the size of the set, ids outside the plan included.
AllCompleted(done) == Cardinality(done) >= NChunks

\* Notify::notify_waiters wakes the tasks already waiting and nobody else.
WakeWaiting(pcs) ==
  [c \in Channels |-> IF pcs[c] = "select" THEN "woken" ELSE pcs[c]]

\* Mutated form: the multiplicative decrease forgets the floor.
AdjustedNoFloor(w) ==
  {w, (w * 3) \div 4} \cup {x \in {w + 1} : x <= MaxWindow}

\* What one call of evaluate_and_adjust can make of the window.
Adjusted(w) ==
  {w}
  \cup {x \in {w + 1} : x <= MaxWindow}
  \cup {x \in {w - 1} : x >= MinWindow}
  \cup {IF (w * 3) \div 4 >= MinWindow THEN (w * 3) \div 4 ELSE MinWindow}

------------------------------------------------------------------------------
(* Main task: handshakes, then the choice between finalising and streaming. *)

Init ==
  /\ phase = "handshake" /\ result = "none" /\ next = 1 /\ live = {}
  /\ resumed = {} /\ primary = 0
  /\ status = "InProgress" /\ cancelled = FALSE /\ completed = {}
  /\ prepared = <<>> /\ closed = FALSE /\ retry = <<>>
  /\ readerPc = "off" /\ pending = {} /\ held = NoChunk
  /\ disconnected = [c \in Channels |-> FALSE]
  /\ inFlight = [c \in Channels |-> {}]
  /\ window = [c \in Channels |-> InitWindow]
  /\ wpc = [c \in Channels |-> "off"]
  /\ wchunk = [c \in Channels |-> NoChunk]
  /\ rpc = [c \in Channels |-> "off"]
  /\ limit = [c \in Channels |-> 0]
  /\ late = [c \in Channels |-> 0]
  /\ up = [c \in Channels |-> TRUE]
  /\ wire = [c \in Channels |-> <<>>]
  /\ answers = [c \in Channels |-> <<>>]
  /\ vouched = {} /\ confirmed = FALSE /\ nacks = 0 /\ drops = 0

Finish(r) == phase' = "done" /\ result' = r

\* The peer accepts with any resume ranges: it takes them from its meta.json and
\* its chunk marks, which no write need back.
HandshakeAccepted ==
  /\ phase = "handshake" /\ next \in Channels /\ up[next]
  /\ \E ranges \in SUBSET Chunks :
       resumed' = resumed \cup ranges /\ vouched' = vouched \cup ranges
  /\ live' = live \cup {next}
  /\ next' = next + 1
  /\ UNCHANGED <<phase, result, primary, sharedVars, readerVars, chanVars, up, wire,
                 answers, confirmed, nacks, drops>>

\* Any other error than a rejection: the channel is skipped and its transport dropped.
HandshakeFailed ==
  /\ phase = "handshake" /\ next \in Channels
  /\ MayRefuse \/ ~up[next]
  /\ next' = next + 1
  /\ up' = [up EXCEPT ![next] = FALSE]
  /\ UNCHANGED <<phase, result, live, resumed, primary, sharedVars, readerVars,
                 chanVars, wire, answers, vouched, confirmed, nacks, drops>>

HandshakeRejected ==
  /\ phase = "handshake" /\ next \in Channels /\ up[next] /\ MayRefuse
  /\ Finish("Rejected")
  /\ UNCHANGED <<next, live, resumed, primary, sharedVars, readerVars, chanVars, netVars>>

NoChannelLeft ==
  /\ phase = "handshake" /\ next \notin Channels /\ live = {}
  /\ Finish("Disconnected")
  /\ UNCHANGED <<next, live, resumed, primary, sharedVars, readerVars, chanVars, netVars>>

Least(S) == {x \in S : \A y \in S : x <= y}

\* Every chunk is in the resume ranges: nothing to stream, straight to Complete.
NothingMissing ==
  /\ phase = "handshake" /\ next \notin Channels /\ live # {}
  /\ Chunks \subseteq resumed
  /\ completed' = Chunks
  /\ primary' \in Least(live)
  /\ phase' = "complete"
  /\ UNCHANGED <<result, next, live, resumed, status, cancelled, prepared, closed,
                 retry, readerVars, chanVars, netVars>>

StartStreaming ==
  /\ phase = "handshake" /\ next \notin Channels /\ live # {}
  /\ ~(Chunks \subseteq resumed)
  /\ phase' = "streaming"
  /\ completed' = Chunks \cap resumed
  /\ pending' = Chunks \ resumed
  /\ readerPc' = "idle"
  /\ wpc' = [c \in Channels |-> IF c \in live THEN "top" ELSE "off"]
  /\ rpc' = [c \in Channels |-> IF c \in live THEN "top" ELSE "off"]
  /\ UNCHANGED <<result, next, live, resumed, primary, status, cancelled, prepared,
                 closed, retry, held, disconnected, inFlight, window, wchunk, limit, late,
                 netVars>>

------------------------------------------------------------------------------
(* The chunk reader: retries first, then the plan in order, into the bounded *)
(* prepared queue.  Leaving the thread drops the only sender of that queue.  *)

ReaderTakeRetry ==
  /\ readerPc = "idle" /\ ~cancelled
  /\ retry # <<>>
  /\ held' = Head(retry) /\ retry' = Tail(retry)
  /\ readerPc' = "hold"
  /\ UNCHANGED <<mainVars, status, cancelled, completed, prepared, closed, pending,
                 chanVars, netVars>>

ReaderTakePending ==
  /\ readerPc = "idle" /\ ~cancelled
  /\ retry = <<>> /\ pending # {}
  /\ \E k \in Least(pending) : held' = k /\ pending' = pending \ {k}
  /\ readerPc' = "hold"
  /\ UNCHANGED <<mainVars, sharedVars, chanVars, netVars>>

\* seek or read of the chunk just taken fails: the thread returns the error.
\* (A file that cannot be opened at all is a failure on the first chunk.)
ReaderFail ==
  /\ MayFailRead /\ readerPc = "hold"
  /\ readerPc' = "failed" /\ held' = NoChunk /\ closed' = TRUE
  /\ UNCHANGED <<mainVars, status, cancelled, completed, prepared, retry, pending,
                 chanVars, netVars>>

ReaderSend ==
  /\ readerPc = "hold" /\ ~closed /\ Len(prepared) < PreparedCap
  /\ prepared' = Append(prepared, held)
  /\ readerPc' = "idle" /\ held' = NoChunk
  /\ UNCHANGED <<mainVars, status, cancelled, completed, closed, retry, pending,
                 chanVars, netVars>>

\* is_cancelled at the top of the loop, or send_blocking on a closed queue.
ReaderExit ==
  /\ \/ readerPc = "idle" /\ cancelled
     \/ readerPc = "hold" /\ closed
  /\ readerPc' = "exit" /\ held' = NoChunk /\ closed' = TRUE
  /\ UNCHANGED <<mainVars, status, cancelled, completed, prepared, retry, pending,
                 chanVars, netVars>>

------------------------------------------------------------------------------
(* The transmit task of channel c.                                           *)

\* Mutated form: the flag raised by another channel is not looked at.
StopFlagIgnoresOthers(c) == disconnected[c] \/ AllCompleted(completed)

StopFlag(c) == cancelled \/ disconnected[c] \/ AllCompleted(completed)

WriterStop(c) ==
  /\ wpc[c] \in {"top", "woken"} /\ StopFlag(c)
  /\ wpc' = [wpc EXCEPT ![c] = "exitAlive"]
  /\ UNCHANGED <<mainVars, sharedVars, readerVars, disconnected, inFlight, window,
                 wchunk, rpc, limit, late, netVars>>

\* The control status is Paused or Cancelled: this channel gives up at once and
\* tells the others.
WriterObserveControl(c) ==
  /\ wpc[c] = "top" /\ ~StopFlag(c) /\ status # "InProgress"
  /\ cancelled' = TRUE /\ closed' = TRUE
  /\ disconnected' = [disconnected EXCEPT ![c] = TRUE]
  /\ wpc' = [WakeWaiting(wpc) EXCEPT ![c] = "exitErr"]
  /\ rpc' = WakeWaiting(rpc)
  /\ UNCHANGED <<mainVars, status, completed, prepared, retry, readerVars, inFlight,
                 window, wchunk, limit, late, netVars>>

WriterProceed(c) ==
  /\ wpc[c] = "top" /\ ~StopFlag(c) /\ status = "InProgress"
  /\ wpc' = [wpc EXCEPT ![c] = "window"]
  /\ UNCHANGED <<mainVars, sharedVars, readerVars, disconnected, inFlight, window,
                 wchunk, rpc, limit, late, netVars>>

\* The window is read first and what is in flight is counted after that: the
\* receive task may change both in between.
WriterWindow(c) ==
  /\ wpc[c] = "window"
  /\ limit' = [limit EXCEPT ![c] = window[c]]
  /\ wpc' = [wpc EXCEPT ![c] = "count"]
  /\ UNCHANGED <<mainVars, sharedVars, readerVars, disconnected, inFlight, window,
                 wchunk, rpc, late, netVars>>

\* A full window waits for a notification or 50 ms and starts over.
WriterCount(c) ==
  /\ wpc[c] = "count"
  /\ wpc' = [wpc EXCEPT ![c] =
               IF Cardinality(inFlight[c]) >= limit[c] THEN "top" ELSE "select"]
  /\ limit' = [limit EXCEPT ![c] = 0]
  /\ UNCHANGED <<mainVars, sharedVars, readerVars, disconnected, inFlight, window,
                 wchunk, rpc, late, netVars>>

WriterSpurious(c) ==
  /\ wpc[c] = "woken" /\ ~StopFlag(c)
  /\ wpc' = [wpc EXCEPT ![c] = "top"]
  /\ UNCHANGED <<mainVars, sharedVars, readerVars, disconnected, inFlight, window,
                 wchunk, rpc, limit, late, netVars>>

\* A closed queue still hands out what it holds; the chunk is recorded as in
\* flight before it is sent.
WriterRecv(c) ==
  /\ wpc[c] \in {"select", "woken"} /\ prepared # <<>>
  /\ prepared' = Tail(prepared)
  /\ wchunk' = [wchunk EXCEPT ![c] = Head(prepared)]
  /\ inFlight' = [inFlight EXCEPT ![c] = @ \cup {Head(prepared)}]
  /\ wpc' = [wpc EXCEPT ![c] = "sending"]
  /\ UNCHANGED <<mainVars, status, cancelled, completed, closed, retry, readerVars,
                 disconnected, window, rpc, limit, late, netVars>>

WriterRecvClosed(c) ==
  /\ wpc[c] \in {"select", "woken"} /\ prepared = <<>> /\ closed
  /\ wpc' = [wpc EXCEPT ![c] = "exitAlive"]
  /\ UNCHANGED <<mainVars, sharedVars, readerVars, disconnected, inFlight, window,
                 wchunk, rpc, limit, late, netVars>>

\* The socket took the frame.  On a link that broke unnoticed the bytes go nowhere.
WriterSent(c) ==
  /\ wpc[c] = "sending"
  /\ up[c] \/ rpc[c] # "exitDead"
  /\ wire' = IF up[c] THEN [wire EXCEPT ![c] = Append(@, Data(wchunk[c]))] ELSE wire
  /\ late' = [late EXCEPT ![c] = IF cancelled THEN @ + 1 ELSE @]
  /\ wchunk' = [wchunk EXCEPT ![c] = NoChunk]
  /\ wpc' = [wpc EXCEPT ![c] = "top"]
  /\ UNCHANGED <<mainVars, sharedVars, readerVars, disconnected, inFlight, window,
                 limit, rpc, up, answers, vouched, confirmed, nacks, drops>>

\* Mutated form: the chunk is requeued without leaving the in-flight set.
WriterSendFailedKeeps(c) ==
  /\ wpc[c] = "sending" /\ ~up[c]
  /\ disconnected' = [disconnected EXCEPT ![c] = TRUE]
  /\ retry' = Append(retry, wchunk[c])
  /\ wchunk' = [wchunk EXCEPT ![c] = NoChunk]
  /\ wpc' = [WakeWaiting(wpc) EXCEPT ![c] = "exitDead"]
  /\ rpc' = WakeWaiting(rpc)
  /\ UNCHANGED <<mainVars, status, cancelled, completed, prepared, closed, readerVars,
                 inFlight, window, limit, late, netVars>>

\* record_disconnect clears the in-flight set; only the chunk at hand is requeued.
WriterSendFailed(c) ==
  /\ wpc[c] = "sending" /\ ~up[c]
  /\ disconnected' = [disconnected EXCEPT ![c] = TRUE]
  /\ inFlight' = [inFlight EXCEPT ![c] = {}]
  /\ retry' = Append(retry, wchunk[c])
  /\ wchunk' = [wchunk EXCEPT ![c] = NoChunk]
  /\ wpc' = [WakeWaiting(wpc) EXCEPT ![c] = "exitDead"]
  /\ rpc' = WakeWaiting(rpc)
  /\ UNCHANGED <<mainVars, status, cancelled, completed, prepared, closed, readerVars,
                 window, limit, late, netVars>>

------------------------------------------------------------------------------
(* The receive task of channel c.                                            *)

ReceiverStopFlag(c) ==
  \/ disconnected[c] \/ AllCompleted(completed)
  \/ cancelled /\ inFlight[c] = {}

ReceiverStop(c) ==
  /\ rpc[c] \in {"top", "woken"} /\ ReceiverStopFlag(c)
  /\ rpc' = [rpc EXCEPT ![c] = "exitAlive"]
  /\ UNCHANGED <<mainVars, sharedVars, readerVars, disconnected, inFlight, window,
                 wpc, wchunk, limit, late, netVars>>

\* The flags have been read, the wait is not registered yet.
ReceiverProceed(c) ==
  /\ rpc[c] \in {"top", "woken"} /\ ~ReceiverStopFlag(c)
  /\ rpc' = [rpc EXCEPT ![c] = IF @ = "top" THEN "arm" ELSE "top"]
  /\ UNCHANGED <<mainVars, sharedVars, readerVars, disconnected, inFlight, window,
                 wpc, wchunk, limit, late, netVars>>

ReceiverArm(c) ==
  /\ rpc[c] = "arm"
  /\ rpc' = [rpc EXCEPT ![c] = "select"]
  /\ UNCHANGED <<mainVars, sharedVars, readerVars, disconnected, inFlight, window,
                 wpc, wchunk, limit, late, netVars>>

\* Mutated form: the last acknowledgement wakes nobody and closes nothing.
AfterFrameSilent(c, done, flying) ==
  /\ UNCHANGED <<cancelled, closed, wpc>>
  /\ rpc' = [rpc EXCEPT ![c] = IF AllCompleted(done) THEN "exitAlive" ELSE "top"]

\* After a frame: the last acknowledgement stops the session, the last one in
\* flight after a cancellation stops this task.
AfterFrame(c, done, flying) ==
  LET full    == AllCompleted(done)
      drained == cancelled /\ flying = {}
  IN /\ cancelled' = (cancelled \/ full)
     /\ closed' = (closed \/ full)
     /\ wpc' = IF full \/ drained THEN WakeWaiting(wpc) ELSE wpc
     /\ rpc' = IF full \/ drained
               THEN [WakeWaiting(rpc) EXCEPT ![c] = "exitAlive"]
               ELSE [rpc EXCEPT ![c] = "top"]

ReceiverAck(c) ==
  /\ rpc[c] \in {"select", "woken"} /\ answers[c] # <<>>
  /\ LET m == Head(answers[c])
     IN /\ m.kind = "ack"
        /\ inFlight' = [inFlight EXCEPT ![c] = @ \ {m.id}]
        /\ completed' = completed \cup {m.id}
        /\ \E w \in Adjusted(window[c]) : window' = [window EXCEPT ![c] = w]
  /\ answers' = [answers EXCEPT ![c] = Tail(@)]
  /\ AfterFrame(c, completed', inFlight'[c])
  /\ UNCHANGED <<mainVars, status, prepared, retry, readerVars, disconnected, wchunk,
                 limit, late, up, wire, vouched, confirmed, nacks, drops>>

\* Mutated form: a rejected chunk is not requeued.
ReceiverNackForgets(c) ==
  /\ rpc[c] \in {"select", "woken"} /\ answers[c] # <<>>
  /\ Head(answers[c]).kind = "nack"
  /\ inFlight' = [inFlight EXCEPT ![c] = @ \ {Head(answers[c]).id}]
  /\ answers' = [answers EXCEPT ![c] = Tail(@)]
  /\ AfterFrame(c, completed, inFlight'[c])
  /\ UNCHANGED <<mainVars, status, completed, prepared, retry, readerVars, disconnected,
                 window, wchunk, limit, late, up, wire, vouched, confirmed, nacks, drops>>

ReceiverNack(c) ==
  /\ rpc[c] \in {"select", "woken"} /\ answers[c] # <<>>
  /\ LET m == Head(answers[c])
     IN /\ m.kind = "nack"
        /\ inFlight' = [inFlight EXCEPT ![c] = @ \ {m.id}]
        /\ retry' = Append(retry, m.id)
  /\ answers' = [answers EXCEPT ![c] = Tail(@)]
  /\ AfterFrame(c, completed, inFlight'[c])
  /\ UNCHANGED <<mainVars, status, completed, prepared, readerVars, disconnected,
                 window, wchunk, limit, late, up, wire, vouched, confirmed, nacks, drops>>

\* EOF or a read error.  record_disconnect empties the in-flight set before it
\* is drained into the retry queue, so nothing is requeued.
ReceiverEof(c) ==
  /\ rpc[c] \in {"select", "woken"} /\ ~up[c] /\ answers[c] = <<>>
  /\ disconnected' = [disconnected EXCEPT ![c] = TRUE]
  /\ inFlight' = [inFlight EXCEPT ![c] = {}]
  /\ wpc' = WakeWaiting(wpc)
  /\ rpc' = [WakeWaiting(rpc) EXCEPT ![c] = "exitDead"]
  /\ UNCHANGED <<mainVars, sharedVars, readerVars, window, wchunk, limit, late, netVars>>

------------------------------------------------------------------------------
(* Main task: join, judge, finalise.                                         *)

WriterGone(c)   == wpc[c] \in {"exitAlive", "exitDead", "exitErr"}
ReceiverGone(c) == rpc[c] \in {"exitAlive", "exitDead"}
\* Mutated form: the verdict of the receive task is not asked for.
AliveIfWriterIs(c) == wpc[c] = "exitAlive" /\ ReceiverGone(c)

Alive(c)        == wpc[c] = "exitAlive" /\ rpc[c] = "exitAlive"
Survivors       == {c \in live : Alive(c)}

\* All workers have returned; the reader thread is told to stop.
JoinWorkers ==
  /\ phase = "streaming"
  /\ \A c \in live : WriterGone(c) /\ ReceiverGone(c)
  /\ cancelled' = TRUE /\ closed' = TRUE
  /\ primary' \in IF Survivors = {} THEN {0} ELSE Least(Survivors)
  /\ phase' = "joined"
  /\ UNCHANGED <<result, next, live, resumed, status, completed, prepared, retry,
                 readerVars, chanVars, netVars>>

\* Mutated form: a session that could not send everything is taken for paused.
VerdictPaused ==
  CASE readerPc = "failed" -> "IoError"
    [] readerPc # "failed" /\ ~AllCompleted(completed) -> "Paused"
    [] OTHER -> "Disconnected"

\* What a session that cannot finalise returns, in the order of the checks.
Verdict ==
  CASE readerPc = "failed" -> "IoError"
    [] readerPc # "failed" /\ ~AllCompleted(completed) ->
         IF status = "InProgress" THEN "Disconnected" ELSE status
    [] OTHER -> "Disconnected"

GiveUp ==
  /\ phase = "joined" /\ readerPc \in {"exit", "failed"}
  /\ readerPc = "failed" \/ ~AllCompleted(completed) \/ primary = 0
  /\ Finish(Verdict)
  /\ UNCHANGED <<next, live, resumed, primary, sharedVars, readerVars, chanVars, netVars>>

DecideComplete ==
  /\ phase = "joined" /\ readerPc = "exit"
  /\ AllCompleted(completed) /\ primary # 0
  /\ phase' = "complete"
  /\ UNCHANGED <<result, next, live, resumed, primary, sharedVars, readerVars, chanVars,
                 netVars>>

SendComplete ==
  /\ phase = "complete"
  /\ wire' = IF up[primary] THEN [wire EXCEPT ![primary] = Append(@, Complete)] ELSE wire
  /\ phase' = "finalAck"
  /\ UNCHANGED <<result, next, live, resumed, primary, sharedVars, readerVars, chanVars,
                 up, answers, vouched, confirmed, nacks, drops>>

SendCompleteFailed ==
  /\ phase = "complete" /\ ~up[primary]
  /\ Finish("Disconnected")
  /\ UNCHANGED <<next, live, resumed, primary, sharedVars, readerVars, chanVars, netVars>>

\* The acknowledgement of Complete ends the session, those of chunks are
\* skipped, any other frame is an error.
FinalFrame ==
  /\ phase = "finalAck" /\ answers[primary] # <<>>
  /\ LET m == Head(answers[primary])
     IN /\ phase' = IF m.kind = "ack" /\ m.id # FinalId THEN phase ELSE "done"
        /\ result' = IF m.kind # "ack" THEN "Unexpected"
                     ELSE IF m.id = FinalId THEN "Ok" ELSE result
  /\ answers' = [answers EXCEPT ![primary] = Tail(@)]
  /\ UNCHANGED <<next, live, resumed, primary, sharedVars, readerVars, chanVars, up, wire,
                 vouched, confirmed, nacks, drops>>

FinalEof ==
  /\ phase = "finalAck" /\ ~up[primary] /\ answers[primary] = <<>>
  /\ Finish("Unexpected")
  /\ UNCHANGED <<next, live, resumed, primary, sharedVars, readerVars, chanVars, netVars>>

------------------------------------------------------------------------------
(* Environment: the receiving device, the links and the user.  The device     *)
(* answers a frame on the link it came by and with the id it carries; nothing *)
(* else is asked of it.                                                       *)

\* An acknowledgement says that the peer has taken the chunk, now or before, and
\* not that it is on disk.
PeerChunkGood(c) ==
  /\ up[c] /\ wire[c] # <<>> /\ Head(wire[c]).kind = "data"
  /\ vouched' = vouched \cup {Head(wire[c]).id}
  /\ answers' = [answers EXCEPT ![c] = Append(@, Ack(Head(wire[c]).id))]
  /\ wire' = [wire EXCEPT ![c] = Tail(@)]
  /\ UNCHANGED <<mainVars, sharedVars, readerVars, chanVars, up, confirmed, nacks, drops>>

PeerChunkCorrupt(c) ==
  /\ up[c] /\ wire[c] # <<>> /\ Head(wire[c]).kind = "data"
  /\ nacks < MaxNacks /\ nacks' = nacks + 1
  /\ answers' = [answers EXCEPT ![c] = Append(@, Nack(Head(wire[c]).id))]
  /\ wire' = [wire EXCEPT ![c] = Tail(@)]
  /\ UNCHANGED <<mainVars, sharedVars, readerVars, chanVars, up, vouched, confirmed, drops>>

\* The first Complete a receiver reads is acknowledged once the file is published,
\* a later one at once, whatever became of the first; either way the receiver
\* hangs up.  One that finds the file broken hangs up without an answer, which is
\* LinkDown.
PeerComplete(c) ==
  /\ up[c] /\ wire[c] # <<>> /\ Head(wire[c]).kind = "complete"
  /\ confirmed' = TRUE
  /\ answers' = [answers EXCEPT ![c] = Append(@, Ack(FinalId))]
  /\ wire' = [wire EXCEPT ![c] = Tail(@)]
  /\ up' = [up EXCEPT ![c] = FALSE]
  /\ UNCHANGED <<mainVars, sharedVars, readerVars, chanVars, vouched, nacks, drops>>

\* Frames in transit are lost; answers already received locally may survive.
LinkDown(c) ==
  /\ up[c] /\ drops < MaxDrops /\ drops' = drops + 1
  /\ up' = [up EXCEPT ![c] = FALSE]
  /\ wire' = [wire EXCEPT ![c] = <<>>]
  /\ \E kept \in {answers[c], <<>>} : answers' = [answers EXCEPT ![c] = kept]
  /\ UNCHANGED <<mainVars, sharedVars, readerVars, chanVars, vouched, confirmed, nacks>>

\* pause_transfer, cancel_transfer and resume_transfer write the status the
\* writers poll, whatever it was before.
UserRequest(r) ==
  /\ status # r /\ phase # "done"
  /\ status' = r
  /\ UNCHANGED <<mainVars, cancelled, completed, prepared, closed, retry, readerVars,
                 chanVars, netVars>>

------------------------------------------------------------------------------
Main ==
  \/ HandshakeAccepted \/ HandshakeFailed \/ HandshakeRejected \/ NoChannelLeft
  \/ NothingMissing \/ StartStreaming
  \/ JoinWorkers \/ GiveUp \/ DecideComplete \/ SendComplete \/ SendCompleteFailed
  \/ FinalFrame \/ FinalEof

Reader ==
  \/ ReaderTakeRetry \/ ReaderTakePending \/ ReaderFail \/ ReaderSend \/ ReaderExit

Transmit(c) ==
  \/ WriterStop(c) \/ WriterObserveControl(c) \/ WriterProceed(c) \/ WriterWindow(c)
  \/ WriterCount(c) \/ WriterSpurious(c) \/ WriterRecv(c) \/ WriterRecvClosed(c) \/ WriterSent(c)
  \/ WriterSendFailed(c)

Receive(c) ==
  \/ ReceiverStop(c) \/ ReceiverProceed(c) \/ ReceiverArm(c)
  \/ ReceiverAck(c) \/ ReceiverNack(c) \/ ReceiverEof(c)

Peer(c) == PeerChunkGood(c) \/ PeerChunkCorrupt(c) \/ PeerComplete(c)

Next ==
  \/ Main \/ Reader
  \/ \E c \in Channels : Transmit(c) \/ Receive(c) \/ Peer(c) \/ LinkDown(c)
  \/ \E r \in UserRequests : UserRequest(r)

Spec == Init /\ [][Next]_vars

\* The runtime keeps polling a task that can run, the blocking thread is never
\* starved, and a receiver whose link is up answers.  Links break and users act
\* only if they choose to; a handshake may be refused but need not be.
FairSpec ==
  /\ Spec
  /\ WF_vars(Main) /\ WF_vars(Reader)
  /\ \A c \in Channels : WF_vars(Transmit(c)) /\ WF_vars(Receive(c)) /\ WF_vars(Peer(c))

------------------------------------------------------------------------------
(* Properties.                                                               *)

MainTyped ==
  /\ phase \in {"handshake", "streaming", "joined", "complete", "finalAck", "done"}
  /\ result \in {"none", "Ok", "Paused", "Cancelled", "Disconnected", "Rejected",
                 "IoError", "Unexpected"}
  /\ next \in 1 .. NChannels + 1 /\ live \subseteq Channels
  /\ resumed \subseteq Chunks /\ primary \in 0 .. NChannels
  /\ phase \in {"complete", "finalAck"} => primary \in Channels

SharedTyped ==
  /\ status \in {"InProgress", "Paused", "Cancelled"}
  /\ cancelled \in BOOLEAN /\ completed \subseteq Ids
  /\ prepared \in Seq(Chunks) /\ closed \in BOOLEAN /\ retry \in Seq(Chunks)

ReaderTyped ==
  /\ readerPc \in {"off", "idle", "hold", "exit", "failed"}
  /\ pending \subseteq Chunks /\ held \in Chunks \cup {NoChunk}
  /\ readerPc = "hold" => held \in Chunks

ChanTyped ==
  /\ disconnected \in [Channels -> BOOLEAN]
  /\ inFlight \in [Channels -> SUBSET Chunks]
  /\ window \in [Channels -> MinWindow .. MaxWindow]
  /\ wpc \in [Channels -> {"off", "top", "window", "count", "select", "woken", "sending",
                           "exitAlive", "exitDead", "exitErr"}]
  /\ wchunk \in [Channels -> Chunks \cup {NoChunk}]
  /\ \A c \in Channels : wpc[c] = "sending" => wchunk[c] \in Chunks
  /\ rpc \in [Channels -> {"off", "top", "arm", "select", "woken", "exitAlive",
                           "exitDead"}]
  /\ limit \in [Channels -> 0 .. MaxWindow]
  /\ late \in [Channels -> Nat]

NetTyped ==
  /\ up \in [Channels -> BOOLEAN]
  /\ wire \in [Channels -> Seq(Requests)]
  /\ answers \in [Channels -> Seq(Replies)]
  /\ vouched \subseteq Chunks /\ confirmed \in BOOLEAN
  /\ nacks \in 0 .. MaxNacks /\ drops \in 0 .. MaxDrops

\* Every variable ranges over its type: in particular windows stay within
\* their preset and whoever is about to send a chunk holds one.
TypeOK == MainTyped /\ SharedTyped /\ ReaderTyped /\ ChanTyped /\ NetTyped

\* Complete is sent, and success reported, only when the peer has vouched for
\* every chunk of the plan: it acknowledged it to this session, on whatever
\* channel, or listed it in the resume ranges of a handshake; and success is
\* reported only once the peer has answered Complete.  That is all a sender can
\* know: what the peer's word is worth on its disk is for AckedIsSafe and
\* ResumeIsBacked of ReceiverSession to say.
CompleteMeansVouched ==
  /\ phase \in {"complete", "finalAck"} => vouched = Chunks
  /\ result = "Ok" => confirmed /\ vouched = Chunks

\* In flight on a channel never exceeds the largest window of its preset, even
\* while its two tasks change the window and the in-flight set concurrently.
WindowRespected == \A c \in Channels : Cardinality(inFlight[c]) <= MaxWindow

Positions(q, k) == Cardinality({i \in DOMAIN q : q[i] = k})

\* How many holders chunk k has among the plan queue, the reader, the queues,
\* the in-flight sets and the completed set.
Holders(k) ==
  Cardinality({q \in {"plan", "reader", "done"} :
                 \/ q = "plan" /\ k \in pending
                 \/ q = "reader" /\ held = k
                 \/ q = "done" /\ k \in completed})
  + Positions(retry, k) + Positions(prepared, k)
  + Cardinality({c \in Channels : k \in inFlight[c] \/ wchunk[c] = k})

\* No chunk has two holders: it is never sent twice at the same time, never sent
\* again once acknowledged or listed in a resume range, across retries,
\* disconnects, pauses and reconnected sessions.
AtMostOneHolder == \A k \in Chunks : Holders(k) <= 1

\* While links hold and the source can be read, no chunk of the plan is ever
\* forgotten: it waits, travels or is done.
NoChunkForgotten ==
  phase = "streaming" /\ ~cancelled => \A k \in Chunks : Holders(k) >= 1

\* TRD 10.5: when one transport is lost its in-flight chunks return to the
\* pending queue.  Stated for a session that still has a working channel.
InFlightReclaimed ==
  /\ phase = "streaming" /\ ~cancelled
  /\ \E c \in live : up[c] /\ ~disconnected[c]
  => \A k \in Chunks : Holders(k) >= 1

\* Complete goes out on a channel both of whose tasks ended without seeing a
\* failure, so a channel reported as disconnected is never used again.
PrimaryIsHealthy ==
  phase \in {"joined", "complete", "finalAck"} /\ primary # 0 =>
    primary \in live /\ ~disconnected[primary]

\* Once the session is stopping, by a pause, a cancellation or completion, each
\* channel puts at most one more chunk on the wire.
StopsSending == \A c \in Channels : late[c] <= 1

\* While links hold and the source can be read, streaming gets every chunk
\* acknowledged, whatever the peer rejects and however the window moves.
StreamingAcknowledges == phase = "streaming" ~> Chunks \subseteq completed

\* A session left with one channel after the handshakes succeeds: its own
\* receive task sees the last acknowledgement, so no wake-up is needed.
LoneChannelSucceeds ==
  phase = "streaming" /\ Cardinality(live) = 1 ~> result = "Ok"

\* TRD 6.2, step 8: Complete is sent once all chunks are acked, here with healthy
\* links and no user.  A receive task that has read the flags but not registered
\* its wait misses the only notification and waits for a frame nobody will send,
\* so the workers are never joined.
CompleteFollowsAcks ==
  phase = "streaming" /\ Chunks \subseteq completed ~> phase = "finalAck"

------------------------------------------------------------------------------
(* Refinement: what is left of the session when channels are forgotten.      *)

Stage ==
  IF phase = "done" THEN "closed"
  ELSE IF phase \in {"complete", "finalAck"} THEN "offered" ELSE "open"

Promise == INSTANCE FileTransfer WITH
  Pieces <- Chunks, got <- vouched, stage <- Stage, agreed <- confirmed,
  wish <- status, verdict <- result

\* The session keeps the promise of FileTransfer, whatever links break: Complete
\* is offered only to a peer that has vouched for every chunk, which can confirm
\* the file only then; success follows the confirmation; a pause or cancellation
\* is reported only if it is what the user last asked for; and nothing changes
\* the verdict later.
ImplementsFileTransfer == Promise!TransferSpec
==============================================================================
