-------------------------- MODULE SenderHolderProofs --------------------------
(***************************************************************************)
(* AtMostOneHolder for every plan, number of channels and environment, and   *)
(* NoChunkForgotten for those without broken links and read errors.  Both    *)
(* look at what the session knows of a chunk; the invariant the first rests  *)
(* on follows the chunk onto the wire and back in its answer as well.        *)
(***************************************************************************)
EXTENDS SenderSafetyProofs

------------------------------------------------------------------------------
(* Items of a queue.                                                         *)

Occurs(q, M) == \E i \in 1 .. Len(q) : q[i] \in M

Once(q, M) == \A i, j \in 1 .. Len(q) : q[i] \in M /\ q[j] \in M => i = j

LEMMA NothingOccurs ==
  ASSUME NEW M
  PROVE  ~Occurs(<<>>, M) /\ Once(<<>>, M)
<1>1. Len(<<>>) = 0
  BY EmptySeq
<1>2. 1 .. 0 = {}
  OBVIOUS
<1> QED BY <1>1, <1>2 DEF Occurs, Once

LEMMA OccursAppend ==
  ASSUME NEW S, NEW q \in Seq(S), NEW x \in S, NEW M
  PROVE  /\ Occurs(Append(q, x), M) <=> Occurs(q, M) \/ x \in M
         /\ Once(q, M) /\ ~(Occurs(q, M) /\ x \in M) => Once(Append(q, x), M)
<1> DEFINE r == Append(q, x)
<1>1. /\ Len(q) \in Nat /\ Len(r) = Len(q) + 1 /\ r[Len(q) + 1] = x
      /\ \A i \in 1 .. Len(q) : r[i] = q[i]
  BY AppendProperties, LenProperties
<1>2. \A i \in 1 .. Len(r) : i \in 1 .. Len(q) \/ i = Len(q) + 1
  BY <1>1
<1>3. 1 .. Len(q) \subseteq 1 .. Len(r) /\ Len(q) + 1 \in 1 .. Len(r)
  BY <1>1
<1> HIDE DEF r
<1>4. Occurs(r, M) <=> Occurs(q, M) \/ x \in M
  BY <1>1, <1>2, <1>3 DEF Occurs
<1>5. Once(q, M) /\ ~(Occurs(q, M) /\ x \in M) => Once(r, M)
  BY <1>1, <1>2, <1>3 DEF Occurs, Once
<1> QED BY <1>4, <1>5 DEF r

LEMMA OccursTail ==
  ASSUME NEW S, NEW q \in Seq(S), q # <<>>, NEW M
  PROVE  /\ Occurs(q, M) <=> Occurs(Tail(q), M) \/ Head(q) \in M
         /\ Once(q, M) => Once(Tail(q), M) /\ ~(Head(q) \in M /\ Occurs(Tail(q), M))
<1> DEFINE r == Tail(q)
<1>1. /\ Len(q) \in Nat \ {0} /\ Len(r) = Len(q) - 1 /\ Head(q) = q[1]
      /\ \A i \in 1 .. Len(r) : r[i] = q[i + 1]
  BY HeadTailProperties, EmptySeq, LenProperties
<1>2. \A i \in 1 .. Len(q) : i = 1 \/ (i - 1 \in 1 .. Len(r) /\ r[i - 1] = q[i])
  <2> TAKE i \in 1 .. Len(q)
  <2>1. i # 1 => i - 1 \in 1 .. Len(r) /\ (i - 1) + 1 = i
    BY <1>1
  <2> QED BY <1>1, <2>1
<1>3. \A i \in 1 .. Len(r) : i + 1 \in 1 .. Len(q) /\ i + 1 # 1
  BY <1>1
<1>4. 1 \in 1 .. Len(q)
  BY <1>1
<1> HIDE DEF r
<1>5. Occurs(q, M) <=> Occurs(r, M) \/ Head(q) \in M
  BY <1>1, <1>2, <1>3, <1>4 DEF Occurs
<1>6. Once(q, M) => Once(r, M)
  <2> SUFFICES ASSUME Once(q, M), NEW i \in 1 .. Len(r), NEW j \in 1 .. Len(r),
                      r[i] \in M, r[j] \in M
               PROVE  i = j
    BY DEF Once
  <2>1. i + 1 = j + 1
    BY <1>1, <1>3 DEF Once
  <2> QED BY <1>1, <2>1
<1>7. Once(q, M) => ~(Head(q) \in M /\ Occurs(r, M))
  BY <1>1, <1>3, <1>4 DEF Once, Occurs
<1> QED BY <1>5, <1>6, <1>7 DEF r

------------------------------------------------------------------------------
(* Where a chunk is.                                                         *)

Waits(k)     == Occurs(retry, {k})
IsReady(k)   == Occurs(prepared, {k})
OnWire(c, k) == Occurs(wire[c], {Data(k)})
OnWay(c, k)  == Occurs(answers[c], {Ack(k), Nack(k)})

OnChannel(c, k) ==
  k \in inFlight[c] \/ wchunk[c] = k \/ OnWire(c, k) \/ OnWay(c, k)

\* A chunk has at most one place among the plan, the reader, the queues, the
\* channels and the completed set, and at most one on its channel's way.
Queues(k) ==
  /\ Once(retry, {k}) /\ Once(prepared, {k})
  /\ Waits(k) => ~IsReady(k)

InPlan(k) == k \in pending => held # k /\ k \notin completed

OffChannels(k) ==
  k \in pending \/ held = k \/ k \in completed \/ Waits(k) \/ IsReady(k) =>
    \A c \in Channels : ~OnChannel(c, k)

OffQueues(k) ==
  /\ k \in pending \/ held = k \/ k \in completed => ~Waits(k) /\ ~IsReady(k)
  /\ held = k => k \notin completed

OnOneChannel(k) ==
  \A c, d \in Channels : OnChannel(c, k) /\ OnChannel(d, k) => c = d

OneWay(k) ==
  \A c \in Channels :
    /\ Once(wire[c], {Data(k)}) /\ Once(answers[c], {Ack(k), Nack(k)})
    /\ OnWire(c, k) => ~OnWay(c, k)
    /\ wchunk[c] = k => ~OnWire(c, k) /\ ~OnWay(c, k)

Single(k) ==
  Queues(k) /\ InPlan(k) /\ OffQueues(k) /\ OffChannels(k) /\ OnOneChannel(k) /\ OneWay(k)

\* Nothing is anywhere before streaming starts.
EarlyInv ==
  phase = "handshake" =>
    /\ readerPc = "off" /\ pending = {} /\ held = NoChunk /\ retry = <<>> /\ prepared = <<>>
    /\ \A c \in Channels : /\ inFlight[c] = {} /\ wchunk[c] = NoChunk
                           /\ wire[c] = <<>> /\ answers[c] = <<>>
                           /\ wpc[c] = "off" /\ rpc[c] = "off"

HolderInv == EarlyInv /\ \A k \in Chunks : Single(k)

\* The frames of one chunk are not those of another.
LEMMA FramesDiffer ==
  ASSUME NEW k \in Chunks
  PROVE  /\ \A m : Data(m) \in {Data(k)} <=> m = k
         /\ \A m : Ack(m) \in {Ack(k), Nack(k)} <=> m = k
         /\ \A m : Nack(m) \in {Ack(k), Nack(k)} <=> m = k
         /\ Complete \notin {Data(k)} /\ Ack(FinalId) \notin {Ack(k), Nack(k)}
         /\ k # FinalId /\ k # NoChunk
<1>1. \A m : Data(m).id = m /\ Ack(m).id = m /\ Nack(m).id = m
  BY DEF Data, Ack, Nack
<1>2. Complete.id = FinalId
  BY DEF Complete
<1> QED BY <1>1, <1>2, ConstantsOK

\* A chunk that gains no place keeps at most the one it had.
NoNewPlace(k) ==
  /\ k \in pending' => k \in pending
  /\ held' = k => held = k
  /\ k \in completed' => k \in completed
  /\ Waits(k)' => Waits(k)
  /\ IsReady(k)' => IsReady(k)
  /\ Once(retry, {k}) => Once(retry', {k})
  /\ Once(prepared, {k}) => Once(prepared', {k})

NoNewWay(c, k) ==
  /\ k \in inFlight'[c] => k \in inFlight[c]
  /\ wchunk'[c] = k => wchunk[c] = k
  /\ OnWire(c, k)' => OnWire(c, k)
  /\ OnWay(c, k)' => OnWay(c, k)
  /\ Once(wire[c], {Data(k)}) => Once(wire'[c], {Data(k)})
  /\ Once(answers[c], {Ack(k), Nack(k)}) => Once(answers'[c], {Ack(k), Nack(k)})

LEMMA SingleKept ==
  ASSUME NEW k \in Chunks, Single(k), NoNewPlace(k), \A c \in Channels : NoNewWay(c, k)
  PROVE  Single(k)'
<1>1. \A c \in Channels : OnChannel(c, k)' => OnChannel(c, k)
  BY DEF NoNewWay, OnChannel
<1>2. Queues(k)' /\ InPlan(k)' /\ OffQueues(k)'
  BY DEF Single, NoNewPlace, Queues, InPlan, OffQueues
<1>3. OffChannels(k)' /\ OnOneChannel(k)'
  BY <1>1 DEF Single, NoNewPlace, OffChannels, OnOneChannel
<1>4. OneWay(k)'
  BY DEF Single, NoNewWay, OneWay
<1> QED BY <1>2, <1>3, <1>4 DEF Single

placeVars == <<pending, held, completed, retry, prepared, inFlight, wchunk, wire, answers>>

LEMMA SingleSame ==
  ASSUME NEW k \in Chunks, Single(k), UNCHANGED placeVars
  PROVE  Single(k)'
<1>1. NoNewPlace(k)
  BY DEF placeVars, NoNewPlace, Waits, IsReady
<1>2. \A c \in Channels : NoNewWay(c, k)
  BY DEF placeVars, NoNewWay, OnWire, OnWay
<1> QED BY <1>1, <1>2, SingleKept

------------------------------------------------------------------------------
(* The main task.                                                            *)

LEMMA HolderInit == Init => HolderInv
<1> SUFFICES ASSUME Init PROVE HolderInv
  OBVIOUS
<1>1. EarlyInv
  BY DEF Init, EarlyInv
<1>2. ASSUME NEW k \in Chunks PROVE Single(k)
  <2>1. ~Waits(k) /\ ~IsReady(k) /\ Queues(k)
    BY NothingOccurs DEF Init, Waits, IsReady, Queues
  <2>2. \A c \in Channels : ~OnWire(c, k) /\ ~OnWay(c, k) /\ ~OnChannel(c, k)
    BY NothingOccurs, FramesDiffer DEF Init, OnWire, OnWay, OnChannel
  <2>3. OneWay(k)
    BY <2>2, NothingOccurs DEF Init, OneWay
  <2>4. InPlan(k) /\ OffQueues(k) /\ OffChannels(k) /\ OnOneChannel(k)
    BY <2>1, <2>2, FramesDiffer
       DEF Init, InPlan, OffQueues, OffChannels, OnOneChannel
  <2> QED BY <2>1, <2>3, <2>4 DEF Single
<1> QED BY <1>1, <1>2 DEF HolderInv

\* Streaming starts with every chunk in the plan or done.
LEMMA HolderStart ==
  ASSUME HolderInv, StartStreaming \/ NothingMissing, NEW k \in Chunks
  PROVE  Single(k)'
<1>1. /\ held = NoChunk /\ retry = <<>> /\ prepared = <<>>
      /\ \A c \in Channels : /\ inFlight[c] = {} /\ wchunk[c] = NoChunk
                             /\ wire[c] = <<>> /\ answers[c] = <<>>
  BY DEF HolderInv, EarlyInv, StartStreaming, NothingMissing
<1>2. UNCHANGED <<held, retry, prepared, inFlight, wchunk, wire, answers>>
  BY DEF StartStreaming, NothingMissing, readerVars, chanVars, netVars
<1>3. k \in pending' => k \notin completed'
  BY DEF StartStreaming, NothingMissing, readerVars, HolderInv, EarlyInv
<1>4. (~Waits(k) /\ ~IsReady(k) /\ Queues(k))'
  BY <1>1, <1>2, NothingOccurs DEF Waits, IsReady, Queues
<1>5. \A c \in Channels : (~OnWire(c, k) /\ ~OnWay(c, k) /\ ~OnChannel(c, k))'
  BY <1>1, <1>2, NothingOccurs, FramesDiffer DEF OnWire, OnWay, OnChannel
<1>6. OneWay(k)'
  BY <1>1, <1>2, <1>5, NothingOccurs DEF OneWay
<1>7. held' # k
  BY <1>1, <1>2, FramesDiffer
<1>8. (InPlan(k) /\ OffQueues(k) /\ OffChannels(k) /\ OnOneChannel(k))'
  BY <1>3, <1>4, <1>5, <1>7 DEF InPlan, OffQueues, OffChannels, OnOneChannel
<1> QED BY <1>4, <1>6, <1>8 DEF Single

LEMMA HolderMain == TypeOK /\ HolderInv /\ Main => HolderInv'
<1> SUFFICES ASSUME TypeOK, HolderInv, Main PROVE HolderInv'
  OBVIOUS
<1>1. EarlyInv'
  BY DEF Main, HolderInv, EarlyInv, HandshakeAccepted, HandshakeFailed, HandshakeRejected,
         NoChannelLeft, NothingMissing, StartStreaming, JoinWorkers, GiveUp,
         DecideComplete, SendComplete, SendCompleteFailed, FinalFrame, FinalEof, Finish,
         readerVars, sharedVars, chanVars, netVars
<1>2. ASSUME NEW k \in Chunks PROVE Single(k)'
  <2>0. Single(k)
    BY DEF HolderInv
  <2>1. CASE StartStreaming \/ NothingMissing
    BY <2>1, HolderStart
  <2>2. CASE SendComplete
    <3>1. UNCHANGED <<pending, held, completed, retry, prepared, inFlight, wchunk, answers>>
      BY <2>2 DEF SendComplete, readerVars, sharedVars, chanVars
    <3>2. primary \in Channels
      BY <2>2 DEF SendComplete, TypeOK, MainTyped
    <3>3. \A c \in Channels : wire'[c] = wire[c] \/ wire'[c] = Append(wire[c], Complete)
      BY <2>2, <3>2 DEF SendComplete, TypeOK, NetTyped
    <3>4. \A c \in Channels : /\ OnWire(c, k)' => OnWire(c, k)
                              /\ Once(wire[c], {Data(k)}) => Once(wire'[c], {Data(k)})
      <4> TAKE c \in Channels
      <4>1. wire[c] \in Seq(Requests) /\ Complete \in Requests /\ Complete \notin {Data(k)}
        BY Frames, FramesDiffer DEF TypeOK, NetTyped
      <4>2. /\ Occurs(Append(wire[c], Complete), {Data(k)}) <=> Occurs(wire[c], {Data(k)})
            /\ Once(wire[c], {Data(k)}) => Once(Append(wire[c], Complete), {Data(k)})
        BY <4>1, OccursAppend
      <4> QED BY <3>3, <4>2 DEF OnWire
    <3>5. NoNewPlace(k)
      BY <3>1 DEF NoNewPlace, Waits, IsReady
    <3>6. \A c \in Channels : NoNewWay(c, k)
      BY <3>1, <3>4 DEF NoNewWay, OnWay
    <3> QED BY <2>0, <3>5, <3>6, SingleKept
  <2>3. CASE FinalFrame
    <3>1. UNCHANGED <<pending, held, completed, retry, prepared, inFlight, wchunk, wire>>
      BY <2>3 DEF FinalFrame, readerVars, sharedVars, chanVars
    <3>2. \A c \in Channels :
            answers'[c] = answers[c] \/ (answers[c] # <<>> /\ answers'[c] = Tail(answers[c]))
      BY <2>3 DEF FinalFrame, TypeOK, NetTyped
    <3>3. \A c \in Channels :
            /\ OnWay(c, k)' => OnWay(c, k)
            /\ Once(answers[c], {Ack(k), Nack(k)}) => Once(answers'[c], {Ack(k), Nack(k)})
      <4> TAKE c \in Channels
      <4>1. answers[c] \in Seq(Replies)
        BY DEF TypeOK, NetTyped
      <4> QED BY <3>2, <4>1, OccursTail DEF OnWay
    <3>4. NoNewPlace(k)
      BY <3>1 DEF NoNewPlace, Waits, IsReady
    <3>5. \A c \in Channels : NoNewWay(c, k)
      BY <3>1, <3>3 DEF NoNewWay, OnWire
    <3> QED BY <2>0, <3>4, <3>5, SingleKept
  <2>4. CASE UNCHANGED placeVars
    BY <2>0, <2>4, SingleSame
  <2> QED
    BY <2>1, <2>2, <2>3, <2>4
       DEF Main, placeVars, HandshakeAccepted, HandshakeFailed, HandshakeRejected,
           NoChannelLeft, JoinWorkers, GiveUp, DecideComplete, SendCompleteFailed,
           FinalEof, readerVars, sharedVars, chanVars, netVars
<1> QED BY <1>1, <1>2 DEF HolderInv

------------------------------------------------------------------------------
(* The reader.                                                               *)

LEMMA HolderReader == TypeOK /\ HolderInv /\ Reader => HolderInv'
<1> SUFFICES ASSUME TypeOK, HolderInv, Reader PROVE HolderInv'
  OBVIOUS
<1>e. EarlyInv'
  BY DEF Reader, HolderInv, EarlyInv, ReaderTakeRetry, ReaderTakePending, ReaderFail,
         ReaderSend, ReaderExit, mainVars
<1>q. retry \in Seq(Chunks) /\ prepared \in Seq(Chunks)
  BY DEF TypeOK, SharedTyped
<1>1. ASSUME NEW k \in Chunks PROVE Single(k)'
  <2>0. Single(k)
    BY DEF HolderInv
  <2>c. UNCHANGED <<completed, inFlight, wchunk, wire, answers>>
    BY DEF Reader, ReaderTakeRetry, ReaderTakePending, ReaderFail, ReaderSend, ReaderExit,
           sharedVars, chanVars, netVars
  <2>w. OneWay(k)' /\ OnOneChannel(k)'
        /\ \A c \in Channels : OnChannel(c, k)' <=> OnChannel(c, k)
    BY <2>0, <2>c DEF Single, OneWay, OnOneChannel, OnChannel, OnWire, OnWay
  <2>1. CASE ReaderTakeRetry
    <3>1. /\ retry # <<>> /\ held' = Head(retry) /\ retry' = Tail(retry)
          /\ UNCHANGED <<pending, prepared>>
      BY <2>1 DEF ReaderTakeRetry
    <3>2. /\ Once(retry', {k})
          /\ Waits(k)' => Waits(k) /\ held' # k
          /\ held' = k => Waits(k)
      BY <1>q, <2>0, <3>1, OccursTail DEF Waits, Single, Queues
    <3>3. IsReady(k)' <=> IsReady(k)
      BY <3>1 DEF IsReady
    <3> QED
      BY <2>0, <2>c, <2>w, <3>1, <3>2, <3>3
         DEF Single, Queues, InPlan, OffQueues, OffChannels
  <2>2. CASE ReaderTakePending
    <3>1. PICK x \in pending : /\ held' = x /\ pending' = pending \ {x}
                               /\ UNCHANGED <<retry, prepared>>
      BY <2>2 DEF ReaderTakePending, Least, sharedVars
    <3>2. (Waits(k)' <=> Waits(k)) /\ (IsReady(k)' <=> IsReady(k))
      BY <3>1 DEF IsReady, Waits
    <3> QED
      BY <2>0, <2>c, <2>w, <3>1, <3>2
         DEF Single, Queues, InPlan, OffQueues, OffChannels
  <2>3. CASE ReaderSend
    <3>1. /\ held \in Chunks /\ prepared' = Append(prepared, held) /\ held' = NoChunk
          /\ UNCHANGED <<pending, retry>>
      BY <2>3 DEF ReaderSend, TypeOK, ReaderTyped
    <3>2. /\ held' # k
          /\ IsReady(k)' => IsReady(k) \/ held = k
          /\ ~(IsReady(k) /\ held = k) /\ Once(prepared, {k}) => Once(prepared', {k})
      BY <1>q, <3>1, OccursAppend, FramesDiffer DEF IsReady
    <3>3. Waits(k)' <=> Waits(k)
      BY <3>1 DEF Waits
    <3> QED
      BY <2>0, <2>c, <2>w, <3>1, <3>2, <3>3
         DEF Single, Queues, InPlan, OffQueues, OffChannels
  <2>4. CASE ReaderFail \/ ReaderExit
    <3>1. UNCHANGED <<pending, retry, prepared>> /\ held' # k
      BY <2>4, FramesDiffer DEF ReaderFail, ReaderExit
    <3>2. (Waits(k)' <=> Waits(k)) /\ (IsReady(k)' <=> IsReady(k))
      BY <3>1 DEF IsReady, Waits
    <3> QED
      BY <2>0, <2>c, <2>w, <3>1, <3>2
         DEF Single, Queues, InPlan, OffQueues, OffChannels
  <2> QED BY <2>1, <2>2, <2>3, <2>4 DEF Reader
<1> QED BY <1>e, <1>1 DEF HolderInv

------------------------------------------------------------------------------
(* The tasks of a channel.                                                   *)

\* Two facts about the head of a queue, and one about its end, for one chunk.
LEMMA ChunkTaken ==
  ASSUME NEW q \in Seq(Chunks), q # <<>>, NEW k
  PROVE  /\ Head(q) \in Chunks
         /\ Occurs(q, {k}) <=> Occurs(Tail(q), {k}) \/ Head(q) = k
         /\ Once(q, {k}) => Once(Tail(q), {k}) /\ ~(Head(q) = k /\ Occurs(Tail(q), {k}))
BY HeadTailProperties, OccursTail

LEMMA ChunkQueued ==
  ASSUME NEW q \in Seq(Chunks), NEW x \in Chunks, NEW k
  PROVE  /\ Occurs(Append(q, x), {k}) <=> Occurs(q, {k}) \/ x = k
         /\ Once(q, {k}) /\ ~(Occurs(q, {k}) /\ x = k) => Once(Append(q, x), {k})
BY OccursAppend

LEMMA TransmitIsLate ==
  ASSUME HolderInv, NEW c \in Channels, Transmit(c) \/ Receive(c)
  PROVE  EarlyInv'
<1>1. phase' = phase
  BY DEF Transmit, Receive, WriterStop, WriterObserveControl, WriterProceed, WriterWindow, WriterCount,
         WriterSpurious, WriterRecv, WriterRecvClosed, WriterSent, WriterSendFailed,
         ReceiverStop, ReceiverProceed, ReceiverArm, ReceiverAck, ReceiverNack,
         ReceiverEof, mainVars
<1>2. wpc[c] # "off" \/ rpc[c] # "off"
  BY DEF Transmit, Receive, WriterStop, WriterObserveControl, WriterProceed, WriterWindow, WriterCount,
         WriterSpurious, WriterRecv, WriterRecvClosed, WriterSent, WriterSendFailed,
         ReceiverStop, ReceiverProceed, ReceiverArm, ReceiverAck, ReceiverNack,
         ReceiverEof
<1> QED BY <1>1, <1>2 DEF HolderInv, EarlyInv

LEMMA HolderTransmit ==
  ASSUME TypeOK, HolderInv, NEW c \in Channels, Transmit(c), NEW k \in Chunks
  PROVE  Single(k)'
<1>0. Single(k)
  BY DEF HolderInv
<1>t. /\ retry \in Seq(Chunks) /\ prepared \in Seq(Chunks)
      /\ DOMAIN wchunk = Channels /\ DOMAIN inFlight = Channels /\ DOMAIN wire = Channels
      /\ wire[c] \in Seq(Requests)
  BY DEF TypeOK, SharedTyped, ChanTyped, NetTyped
<1>1. CASE WriterRecv(c)
  <2> DEFINE h == Head(prepared)
  <2>1. /\ prepared # <<>> /\ prepared' = Tail(prepared)
        /\ wchunk' = [wchunk EXCEPT ![c] = h]
        /\ inFlight' = [inFlight EXCEPT ![c] = @ \cup {h}]
        /\ UNCHANGED <<pending, held, completed, retry, wire, answers>>
    BY <1>1 DEF WriterRecv, readerVars, netVars
  <2>2. /\ Once(prepared', {k})
        /\ IsReady(k) <=> IsReady(k)' \/ h = k
        /\ h = k => ~IsReady(k)'
    BY <1>0, <1>t, <2>1, ChunkTaken DEF IsReady, Single, Queues
  <2> HIDE DEF h
  <2>3. /\ \A d \in Channels : (OnWire(d, k)' <=> OnWire(d, k)) /\ (OnWay(d, k)' <=> OnWay(d, k))
        /\ Waits(k)' <=> Waits(k)
    BY <2>1 DEF OnWire, OnWay, Waits
  <2>4. \A d \in Channels : OnChannel(d, k)' => OnChannel(d, k) \/ (d = c /\ h = k)
    BY <1>t, <2>1, <2>3 DEF OnChannel
  <2>5. h = k => \A d \in Channels : ~OnChannel(d, k)
    BY <1>0, <2>2 DEF Single, OffChannels
  <2>6. OneWay(k)'
    BY <1>0, <1>t, <2>1, <2>3, <2>5 DEF Single, OneWay, OnChannel
  <2>7. h = k => IsReady(k)
    BY <2>2
  <2>8. (Queues(k) /\ InPlan(k) /\ OffQueues(k))'
    BY <1>0, <2>1, <2>2, <2>3 DEF Single, Queues, InPlan, OffQueues
  <2>9. OffChannels(k)' /\ OnOneChannel(k)'
    BY <1>0, <2>1, <2>2, <2>3, <2>4, <2>5, <2>7
       DEF Single, Queues, OffQueues, OffChannels, OnOneChannel
  <2> QED BY <2>6, <2>8, <2>9 DEF Single
<1>2. CASE WriterSent(c)
  <2> DEFINE x == wchunk[c]
  <2>1. /\ x \in Chunks /\ wchunk' = [wchunk EXCEPT ![c] = NoChunk]
        /\ \/ wire' = [wire EXCEPT ![c] = Append(@, Data(x))]
           \/ wire' = wire
        /\ UNCHANGED <<pending, held, completed, retry, prepared, inFlight, answers>>
    BY <1>2 DEF WriterSent, readerVars, sharedVars, TypeOK, ChanTyped
  <2>2. /\ Data(x) \in Requests /\ (Data(x) \in {Data(k)} <=> x = k) /\ k # NoChunk
    BY <2>1, Frames, FramesDiffer
  <2>3. /\ Occurs(Append(wire[c], Data(x)), {Data(k)}) <=> OnWire(c, k) \/ x = k
        /\ Once(wire[c], {Data(k)}) /\ ~(OnWire(c, k) /\ x = k) =>
             Once(Append(wire[c], Data(x)), {Data(k)})
    BY <1>t, <2>2, OccursAppend DEF OnWire
  <2>4. /\ OnWire(c, k)' => OnWire(c, k) \/ x = k
        /\ Once(wire[c], {Data(k)}) /\ ~(OnWire(c, k) /\ x = k) => Once(wire'[c], {Data(k)})
        /\ \A d \in Channels \ {c} : wire'[d] = wire[d] /\ (OnWire(d, k)' <=> OnWire(d, k))
    BY <1>t, <2>1, <2>3 DEF OnWire
  <2>5. /\ \A d \in Channels : OnWay(d, k)' <=> OnWay(d, k)
        /\ Waits(k)' <=> Waits(k)
        /\ IsReady(k)' <=> IsReady(k)
    BY <2>1 DEF OnWay, Waits, IsReady
  <2>6. x = k => ~OnWire(c, k) /\ ~OnWay(c, k)
    BY <1>0 DEF Single, OneWay
  <2>7. wchunk'[c] # k /\ \A d \in Channels \ {c} : wchunk'[d] = wchunk[d]
    BY <1>t, <2>1, <2>2
  <2>8. OneWay(k)'
    BY <1>0, <2>1, <2>4, <2>5, <2>6, <2>7 DEF Single, OneWay
  <2>9. \A d \in Channels : OnChannel(d, k)' => OnChannel(d, k)
    BY <2>1, <2>4, <2>5, <2>7 DEF OnChannel
  <2> QED
    BY <1>0, <2>1, <2>5, <2>8, <2>9
       DEF Single, Queues, InPlan, OffQueues, OffChannels, OnOneChannel
<1>3. CASE WriterSendFailed(c)
  <2> DEFINE x == wchunk[c]
  <2>1. /\ x \in Chunks /\ retry' = Append(retry, x)
        /\ wchunk' = [wchunk EXCEPT ![c] = NoChunk]
        /\ inFlight' = [inFlight EXCEPT ![c] = {}]
        /\ UNCHANGED <<pending, held, completed, prepared, wire, answers>>
    BY <1>3 DEF WriterSendFailed, readerVars, netVars, TypeOK, ChanTyped
  <2>2. /\ Waits(k)' <=> Waits(k) \/ x = k
        /\ Once(retry, {k}) /\ ~(Waits(k) /\ x = k) => Once(retry', {k})
    BY <1>t, <2>1, ChunkQueued DEF Waits
  <2>3. /\ \A d \in Channels : (OnWire(d, k)' <=> OnWire(d, k)) /\ (OnWay(d, k)' <=> OnWay(d, k))
        /\ IsReady(k)' <=> IsReady(k)
    BY <2>1 DEF OnWire, OnWay, IsReady
  <2>4. \A d \in Channels : OnChannel(d, k)' => OnChannel(d, k)
    BY <1>t, <2>1, <2>3, FramesDiffer DEF OnChannel
  <2>5. x = k => OnChannel(c, k) /\ ~OnWire(c, k) /\ ~OnWay(c, k)
    BY <1>0 DEF Single, OneWay, OnChannel
  <2>6. x = k => \A d \in Channels : ~OnChannel(d, k)'
    <3>1. x = k => ~OnChannel(c, k)'
      BY <1>t, <2>1, <2>3, <2>5, FramesDiffer DEF OnChannel
    <3> QED BY <1>0, <2>4, <2>5, <3>1 DEF Single, OnOneChannel
  <2>7. x = k => /\ k \notin pending /\ held # k /\ k \notin completed
                 /\ ~Waits(k) /\ ~IsReady(k)
    BY <1>0, <2>5 DEF Single, OffChannels
  <2>8. OneWay(k)'
    BY <1>0, <1>t, <2>1, <2>3, FramesDiffer DEF Single, OneWay
  <2>9. (Queues(k) /\ InPlan(k) /\ OffQueues(k))'
    BY <1>0, <2>1, <2>2, <2>3, <2>7 DEF Single, Queues, InPlan, OffQueues
  <2>10. OffChannels(k)' /\ OnOneChannel(k)'
    BY <1>0, <2>1, <2>2, <2>3, <2>4, <2>6 DEF Single, OffChannels, OnOneChannel
  <2> QED BY <2>8, <2>9, <2>10 DEF Single
<1>4. CASE UNCHANGED placeVars
  BY <1>0, <1>4, SingleSame
<1> QED
  BY <1>1, <1>2, <1>3, <1>4
     DEF Transmit, placeVars, WriterStop, WriterObserveControl, WriterProceed,
         WriterWindow, WriterCount, WriterSpurious, WriterRecvClosed, sharedVars, readerVars, netVars

LEMMA HolderReceive ==
  ASSUME TypeOK, HolderInv, NEW c \in Channels, Receive(c), NEW k \in Chunks
  PROVE  Single(k)'
<1>0. Single(k)
  BY DEF HolderInv
<1>t. /\ retry \in Seq(Chunks) /\ answers[c] \in Seq(Replies)
      /\ DOMAIN inFlight = Channels /\ DOMAIN answers = Channels
  BY DEF TypeOK, SharedTyped, ChanTyped, NetTyped
<1>1. CASE ReceiverAck(c) \/ ReceiverNack(c)
  <2> DEFINE m == Head(answers[c])
  <2>1. /\ answers[c] # <<>> /\ answers' = [answers EXCEPT ![c] = Tail(@)]
        /\ inFlight' = [inFlight EXCEPT ![c] = @ \ {m.id}]
        /\ UNCHANGED <<pending, held, prepared, wchunk, wire>>
        /\ \/ m.kind = "ack" /\ completed' = completed \cup {m.id} /\ retry' = retry
           \/ m.kind = "nack" /\ retry' = Append(retry, m.id) /\ completed' = completed
    BY <1>1 DEF ReceiverAck, ReceiverNack, readerVars
  <2>2. m \in Replies
    BY <1>t, <2>1, HeadTailProperties
  <2>3. /\ m \in {Ack(k), Nack(k)} <=> m.id = k
        /\ m.kind = "nack" => m.id \in Chunks
    BY <2>2, Frames, FramesDiffer
  <2>4. /\ OnWay(c, k) <=> Occurs(Tail(answers[c]), {Ack(k), Nack(k)}) \/ m.id = k
        /\ Once(answers[c], {Ack(k), Nack(k)}) =>
             /\ Once(Tail(answers[c]), {Ack(k), Nack(k)})
             /\ ~(m.id = k /\ Occurs(Tail(answers[c]), {Ack(k), Nack(k)}))
    BY <1>t, <2>1, <2>3, OccursTail DEF OnWay
  <2> HIDE DEF m
  <2>5. /\ OnWay(c, k) <=> OnWay(c, k)' \/ m.id = k
        /\ Once(answers'[c], {Ack(k), Nack(k)})
        /\ m.id = k => ~OnWay(c, k)'
        /\ \A d \in Channels \ {c} : /\ answers'[d] = answers[d]
                                     /\ OnWay(d, k)' <=> OnWay(d, k)
    BY <1>0, <1>t, <2>1, <2>4 DEF OnWay, Single, OneWay
  <2>6. /\ \A d \in Channels : OnWire(d, k)' <=> OnWire(d, k)
        /\ IsReady(k)' <=> IsReady(k)
    BY <2>1 DEF OnWire, IsReady
  <2>7. /\ Waits(k)' => Waits(k) \/ m.id = k
        /\ Once(retry, {k}) /\ ~(Waits(k) /\ m.id = k) => Once(retry', {k})
    <3>1. CASE retry' = retry
      BY <3>1 DEF Waits
    <3>2. CASE retry' = Append(retry, m.id) /\ m.id \in Chunks
      BY <1>t, <3>2, ChunkQueued DEF Waits
    <3> QED BY <2>1, <2>3, <3>1, <3>2
  <2>8. \A d \in Channels : OnChannel(d, k)' => OnChannel(d, k)
    BY <1>t, <2>1, <2>5, <2>6 DEF OnChannel
  <2>9. m.id = k => OnChannel(c, k) /\ ~OnWire(c, k) /\ wchunk[c] # k
    BY <1>0, <2>5 DEF Single, OneWay, OnChannel
  <2>10. m.id = k => \A d \in Channels : ~OnChannel(d, k)'
    <3>1. m.id = k => ~OnChannel(c, k)'
      BY <1>t, <2>1, <2>5, <2>6, <2>9 DEF OnChannel
    <3> QED BY <1>0, <2>8, <2>9, <3>1 DEF Single, OnOneChannel
  <2>11. m.id = k => /\ k \notin pending /\ held # k /\ k \notin completed
                     /\ ~Waits(k) /\ ~IsReady(k)
    BY <1>0, <2>9 DEF Single, OffChannels
  <2>12. OneWay(k)'
    BY <1>0, <2>1, <2>5, <2>6 DEF Single, OneWay
  <2>13. (k \in completed' => k \in completed \/ m.id = k)
         /\ ~(k \in completed' /\ m.id = k /\ Waits(k)')
    <3>1. CASE completed' = completed
      BY <2>11, <3>1
    <3>2. CASE completed' = completed \cup {m.id} /\ retry' = retry
      BY <2>11, <3>2 DEF Waits
    <3> QED BY <2>1, <3>1, <3>2
  <2>14. (Queues(k) /\ InPlan(k) /\ OffQueues(k))'
    BY <1>0, <2>1, <2>6, <2>7, <2>11, <2>13 DEF Single, Queues, InPlan, OffQueues
  <2>15. OffChannels(k)' /\ OnOneChannel(k)'
    BY <1>0, <2>1, <2>6, <2>7, <2>8, <2>10, <2>13 DEF Single, OffChannels, OnOneChannel
  <2> QED BY <2>12, <2>14, <2>15 DEF Single
<1>2. CASE ReceiverEof(c)
  <2>1. /\ inFlight' = [inFlight EXCEPT ![c] = {}]
        /\ UNCHANGED <<pending, held, completed, retry, prepared, wchunk, wire, answers>>
    BY <1>2 DEF ReceiverEof, sharedVars, readerVars, netVars
  <2>2. NoNewPlace(k)
    BY <2>1 DEF NoNewPlace, Waits, IsReady
  <2>3. \A d \in Channels : NoNewWay(d, k)
    BY <1>t, <2>1 DEF NoNewWay, OnWire, OnWay
  <2> QED BY <1>0, <2>2, <2>3, SingleKept
<1>3. CASE UNCHANGED placeVars
  BY <1>0, <1>3, SingleSame
<1> QED
  BY <1>1, <1>2, <1>3
     DEF Receive, placeVars, ReceiverStop, ReceiverProceed, ReceiverArm, sharedVars,
         readerVars, netVars

------------------------------------------------------------------------------
(* The peer, the links and the user.                                         *)

LEMMA PeerIsLate ==
  ASSUME HolderInv, NEW c \in Channels, Peer(c) \/ LinkDown(c)
  PROVE  EarlyInv'
<1>1. CASE Peer(c)
  BY <1>1 DEF Peer, PeerChunkGood, PeerChunkCorrupt, PeerComplete, HolderInv, EarlyInv,
              mainVars
<1>2. CASE LinkDown(c)
  <2>1. \A d \in Channels : /\ wire[d] = <<>> => wire'[d] = <<>>
                            /\ answers[d] = <<>> => answers'[d] = <<>>
    BY <1>2 DEF LinkDown
  <2> QED
    BY <1>2, <2>1 DEF LinkDown, HolderInv, EarlyInv, mainVars, sharedVars, readerVars, chanVars
<1> QED BY <1>1, <1>2

LEMMA HolderPeer ==
  ASSUME TypeOK, HolderInv, NEW c \in Channels, Peer(c) \/ LinkDown(c), NEW k \in Chunks
  PROVE  Single(k)'
<1>0. Single(k)
  BY DEF HolderInv
<1>t. /\ wire[c] \in Seq(Requests) /\ answers[c] \in Seq(Replies)
      /\ DOMAIN wire = Channels /\ DOMAIN answers = Channels
  BY DEF TypeOK, NetTyped
<1>u. UNCHANGED <<pending, held, completed, retry, prepared, inFlight, wchunk>>
  BY DEF Peer, PeerChunkGood, PeerChunkCorrupt, PeerComplete, LinkDown, sharedVars,
         readerVars, chanVars
<1>p. /\ Waits(k)' <=> Waits(k)
      /\ IsReady(k)' <=> IsReady(k)
      /\ NoNewPlace(k)
  BY <1>u DEF Waits, IsReady, NoNewPlace
<1>1. CASE Peer(c)
  <2> DEFINE m == Head(wire[c])
  <2>1. /\ wire[c] # <<>> /\ wire' = [wire EXCEPT ![c] = Tail(@)]
        /\ \/ /\ m.kind = "data"
              /\ \E r \in {Ack(m.id), Nack(m.id)} :
                   answers' = [answers EXCEPT ![c] = Append(@, r)]
           \/ /\ m.kind = "complete"
              /\ answers' = [answers EXCEPT ![c] = Append(@, Ack(FinalId))]
    BY <1>1 DEF Peer, PeerChunkGood, PeerChunkCorrupt, PeerComplete
  <2>2. m \in Requests
    BY <1>t, <2>1, HeadTailProperties
  <2>3. /\ OnWire(c, k) <=> Occurs(Tail(wire[c]), {Data(k)}) \/ m = Data(k)
        /\ Once(wire[c], {Data(k)}) =>
             /\ Once(Tail(wire[c]), {Data(k)})
             /\ ~(m = Data(k) /\ Occurs(Tail(wire[c]), {Data(k)}))
    BY <1>t, <2>1, OccursTail DEF OnWire
  <2>4. PICK r \in Replies :
          /\ answers' = [answers EXCEPT ![c] = Append(@, r)]
          /\ m = Data(k) <=> r \in {Ack(k), Nack(k)}
    <3>1. CASE m.kind = "data"
      <4>1. m.id \in Chunks /\ m = Data(m.id)
        BY <2>2, <3>1, Frames
      <4>2. Ack(m.id) \in Replies /\ Nack(m.id) \in Replies
        BY <4>1, Frames DEF Ids
      <4>3. /\ m = Data(k) <=> m.id = k
            /\ Ack(m.id) \in {Ack(k), Nack(k)} <=> m.id = k
            /\ Nack(m.id) \in {Ack(k), Nack(k)} <=> m.id = k
        BY <4>1, FramesDiffer
      <4>4. "data" # "complete"
        OBVIOUS
      <4> HIDE DEF m
      <4> QED BY <2>1, <3>1, <4>2, <4>3, <4>4
    <3>2. CASE m.kind # "data"
      <4>1. m = Complete /\ m # Data(k) /\ Ack(FinalId) \notin {Ack(k), Nack(k)}
        BY <2>2, <3>2, Frames, FramesDiffer
      <4>2. Ack(FinalId) \in Replies
        BY Frames DEF Ids
      <4> HIDE DEF m
      <4> QED BY <2>1, <3>2, <4>1, <4>2
    <3> QED BY <3>1, <3>2
  <2> HIDE DEF m
  <2>5. /\ OnWire(c, k) <=> OnWire(c, k)' \/ m = Data(k)
        /\ m = Data(k) => ~OnWire(c, k)'
        /\ Once(wire'[c], {Data(k)})
        /\ \A d \in Channels \ {c} : /\ wire'[d] = wire[d] /\ answers'[d] = answers[d]
                                     /\ OnWire(d, k)' <=> OnWire(d, k)
                                     /\ OnWay(d, k)' <=> OnWay(d, k)
    BY <1>0, <1>t, <2>1, <2>3, <2>4 DEF OnWire, OnWay, Single, OneWay
  <2>6. /\ Occurs(Append(answers[c], r), {Ack(k), Nack(k)}) <=> OnWay(c, k) \/ m = Data(k)
        /\ Once(answers[c], {Ack(k), Nack(k)}) /\ ~(OnWay(c, k) /\ m = Data(k)) =>
             Once(Append(answers[c], r), {Ack(k), Nack(k)})
    BY <1>t, <2>4, OccursAppend DEF OnWay
  <2>7. /\ OnWay(c, k)' <=> OnWay(c, k) \/ m = Data(k)
        /\ ~(OnWay(c, k) /\ m = Data(k)) => Once(answers'[c], {Ack(k), Nack(k)})
    BY <1>0, <1>t, <2>4, <2>6 DEF OnWay, Single, OneWay
  <2>8. m = Data(k) => ~OnWay(c, k) /\ wchunk[c] # k
    BY <1>0, <2>5 DEF Single, OneWay
  <2>9. OneWay(k)'
    BY <1>0, <1>u, <2>5, <2>7, <2>8 DEF Single, OneWay
  <2>10. \A d \in Channels : OnChannel(d, k)' => OnChannel(d, k)
    BY <1>u, <2>5, <2>7 DEF OnChannel
  <2> QED
    BY <1>0, <1>u, <1>p, <2>9, <2>10
       DEF Single, Queues, InPlan, OffQueues, OffChannels, OnOneChannel
<1>2. CASE LinkDown(c)
  <2>1. \A d \in Channels : /\ wire'[d] = wire[d] \/ wire'[d] = <<>>
                            /\ answers'[d] = answers[d] \/ answers'[d] = <<>>
    BY <1>t, <1>2 DEF LinkDown
  <2>2. \A d \in Channels : NoNewWay(d, k)
    BY <1>u, <2>1, NothingOccurs DEF NoNewWay, OnWire, OnWay
  <2> QED BY <1>0, <1>p, <2>2, SingleKept
<1> QED BY <1>1, <1>2

LEMMA HolderStep == TypeOK /\ HolderInv /\ [Next]_vars => HolderInv'
<1> SUFFICES ASSUME TypeOK, HolderInv, [Next]_vars PROVE HolderInv'
  OBVIOUS
<1>1. ASSUME NEW c \in Channels, Transmit(c) \/ Receive(c) PROVE HolderInv'
  BY <1>1, TransmitIsLate, HolderTransmit, HolderReceive DEF HolderInv
<1>2. ASSUME NEW c \in Channels, Peer(c) \/ LinkDown(c) PROVE HolderInv'
  BY <1>2, PeerIsLate, HolderPeer DEF HolderInv
<1>3. ASSUME UNCHANGED <<placeVars, phase, readerPc, wpc, rpc>> PROVE HolderInv'
  <2>1. EarlyInv'
    BY <1>3 DEF HolderInv, EarlyInv, placeVars
  <2>2. \A k \in Chunks : Single(k)'
    BY <1>3, SingleSame DEF HolderInv
  <2> QED BY <2>1, <2>2 DEF HolderInv
<1>4. ASSUME NEW r \in UserRequests, UserRequest(r) PROVE HolderInv'
  BY <1>3, <1>4 DEF UserRequest, placeVars, mainVars, readerVars, chanVars, netVars
<1>5. CASE UNCHANGED vars
  BY <1>3, <1>5 DEF vars, placeVars, mainVars, sharedVars, readerVars, chanVars, netVars
<1> QED BY <1>1, <1>2, <1>4, <1>5, HolderMain, HolderReader DEF Next

LEMMA HolderCorrect == Spec => [](TypeOK /\ HolderInv)
<1>1. TypeOK /\ HolderInv /\ [Next]_vars => (TypeOK /\ HolderInv)'
  BY TypeStep, HolderStep
<1> QED BY TypeInit, HolderInit, <1>1, PTL DEF Spec

------------------------------------------------------------------------------
(* The count.                                                                *)

LEMMA PositionsCount ==
  ASSUME NEW q \in Seq(Chunks), NEW k \in Chunks, Once(q, {k})
  PROVE  /\ Positions(q, k) \in {0, 1}
         /\ ~Occurs(q, {k}) => Positions(q, k) = 0
<1> DEFINE P == {i \in DOMAIN q : q[i] = k}
<1>1. DOMAIN q = 1 .. Len(q)
  BY LenProperties
<1>2. CASE P = {}
  BY <1>2, FS_EmptySet DEF Positions
<1>3. CASE P # {}
  <2>1. PICK i \in 1 .. Len(q) : q[i] = k
    BY <1>1, <1>3
  <2>2. P = {i}
    BY <1>1, <2>1 DEF Once
  <2>3. Positions(q, k) = 1
    BY <2>2, FS_Singleton DEF Positions
  <2> QED BY <2>1, <2>3 DEF Occurs
<1> QED BY <1>2, <1>3

\* No chunk has two holders, for every plan, number of channels, window preset,
\* queue capacity and every pattern of losses, rejections, pauses and resumes.
THEOREM NoChunkTwice == Spec => []AtMostOneHolder
<1>1. TypeOK /\ HolderInv => AtMostOneHolder
  <2> SUFFICES ASSUME TypeOK, HolderInv, NEW k \in Chunks PROVE Holders(k) <= 1
    BY DEF AtMostOneHolder
  <2>0. Single(k)
    BY DEF HolderInv
  <2> DEFINE Q == {q \in {"plan", "reader", "done"} :
                     \/ q = "plan" /\ k \in pending
                     \/ q = "reader" /\ held = k
                     \/ q = "done" /\ k \in completed}
             C == {c \in Channels : k \in inFlight[c] \/ wchunk[c] = k}
  <2>1. /\ Positions(retry, k) \in {0, 1} /\ Positions(prepared, k) \in {0, 1}
        /\ ~Waits(k) => Positions(retry, k) = 0
        /\ ~IsReady(k) => Positions(prepared, k) = 0
    BY <2>0, PositionsCount DEF TypeOK, SharedTyped, Waits, IsReady, Single, Queues
  <2>2. Q = {} \/ \E q : Q = {q}
    BY <2>0 DEF Single, InPlan, OffQueues
  <2>3. C = {} \/ \E c : C = {c}
    <3>1. \A c, d \in C : c = d
      BY <2>0 DEF Single, OnOneChannel, OnChannel
    <3> QED BY <3>1
  <2>4. /\ Q # {} => ~Waits(k) /\ ~IsReady(k) /\ C = {}
        /\ C # {} => ~Waits(k) /\ ~IsReady(k)
        /\ Waits(k) => ~IsReady(k)
    BY <2>0 DEF Single, Queues, OffQueues, OffChannels, OnChannel
  <2> HIDE DEF Q, C
  <2>5. /\ Cardinality(Q) \in {0, 1} /\ (Q = {} => Cardinality(Q) = 0)
        /\ Cardinality(C) \in {0, 1} /\ (C = {} => Cardinality(C) = 0)
    BY <2>2, <2>3, FS_EmptySet, FS_Singleton
  <2>6. Cardinality(Q) + Positions(retry, k) + Positions(prepared, k) + Cardinality(C) <= 1
    BY <2>1, <2>4, <2>5
  <2> QED BY <2>6 DEF Holders, Q, C
<1> QED BY HolderCorrect, <1>1, PTL

------------------------------------------------------------------------------
(* While links hold and the source can be read, nothing is lost either.      *)

HasPlace(k) ==
  \/ k \in pending \/ held = k \/ k \in completed \/ Waits(k) \/ IsReady(k)
  \/ \E c \in Channels : k \in inFlight[c]

\* The links of the session are up, the reader holds a chunk only to send it, and
\* its queue is closed only by a session that stops.
QuietLinks ==
  /\ phase = "handshake" => readerPc = "off" /\ \A c \in live : c < next
  /\ phase \in {"handshake", "streaming"} => \A c \in live : up[c]
  /\ readerPc # "hold" => held = NoChunk
  /\ closed => cancelled

KeptInv ==
  QuietLinks /\ (phase = "streaming" /\ ~cancelled => \A k \in Chunks : HasPlace(k))

LEMMA KeptInit == Init => KeptInv
BY DEF Init, KeptInv, QuietLinks

\* What a broken link or a read error would do cannot happen.
LEMMA NoLoss ==
  ASSUME MaxDrops = 0, ~MayFailRead, TypeOK, ChannelInv, DeliveryInv, QuietLinks,
         [Next]_vars
  PROVE  QuietLinks'
<1>1. CASE Main
  <2>1. CASE HandshakeAccepted
    <3>1. /\ live' = live \cup {next} /\ next' = next + 1 /\ up[next]
          /\ phase' = phase /\ phase = "handshake" /\ next \in Nat
          /\ UNCHANGED <<readerPc, held, closed, cancelled, up>>
      BY <2>1 DEF HandshakeAccepted, TypeOK, MainTyped, Channels, sharedVars, readerVars,
                  netVars
    <3>2. \A c \in live : c \in Nat /\ c < next
      BY <3>1 DEF QuietLinks, TypeOK, MainTyped, Channels
    <3> QED BY <3>1, <3>2 DEF QuietLinks
  <2>2. CASE HandshakeFailed
    <3>1. /\ live' = live /\ next' = next + 1 /\ next \in Nat /\ next \in Channels
          /\ up' = [up EXCEPT ![next] = FALSE]
          /\ phase' = phase /\ phase = "handshake"
          /\ UNCHANGED <<readerPc, held, closed, cancelled>>
      BY <2>2 DEF HandshakeFailed, TypeOK, MainTyped, Channels, sharedVars, readerVars
    <3>2. \A c \in live : c \in Nat /\ c < next /\ c \in Channels
      BY <3>1 DEF QuietLinks, TypeOK, MainTyped, Channels
    <3>3. DOMAIN up = Channels
      BY DEF TypeOK, NetTyped
    <3> QED BY <3>1, <3>2, <3>3 DEF QuietLinks
  <2>3. CASE StartStreaming
    BY <2>3 DEF StartStreaming, QuietLinks, netVars
  <2>4. CASE JoinWorkers
    BY <2>4 DEF JoinWorkers, QuietLinks, readerVars
  <2>5. ASSUME phase' \notin {"handshake", "streaming"},
               UNCHANGED <<readerPc, held, closed, cancelled>>
        PROVE  QuietLinks'
    BY <2>5 DEF QuietLinks
  <2>6. CASE HandshakeRejected \/ NoChannelLeft \/ NothingMissing \/ GiveUp
    BY <2>5, <2>6 DEF HandshakeRejected, NoChannelLeft, NothingMissing, GiveUp, Finish,
                      sharedVars, readerVars
  <2>7. CASE \/ DecideComplete \/ SendComplete \/ SendCompleteFailed \/ FinalFrame
             \/ FinalEof
    BY <2>5, <2>7 DEF DecideComplete, SendComplete, SendCompleteFailed, FinalFrame, FinalEof,
                      Finish, sharedVars, readerVars
  <2> QED BY <1>1, <2>1, <2>2, <2>3, <2>4, <2>6, <2>7 DEF Main
<1>2. CASE Reader
  BY <1>2 DEF Reader, QuietLinks, ReaderTakeRetry, ReaderTakePending, ReaderFail,
         ReaderSend, ReaderExit, mainVars, sharedVars, netVars
<1>3. ASSUME NEW c \in Channels, Transmit(c) PROVE QuietLinks'
  BY <1>3 DEF Transmit, QuietLinks, WriterStop, WriterObserveControl, WriterProceed,
         WriterWindow, WriterCount, WriterSpurious, WriterRecv, WriterRecvClosed, WriterSent,
         WriterSendFailed, mainVars, sharedVars, readerVars, netVars
<1>4. ASSUME NEW c \in Channels, Receive(c) PROVE QuietLinks'
  <2>1. UNCHANGED <<phase, live, next, up, readerPc, held>>
    BY <1>4 DEF Receive, ReceiverStop, ReceiverProceed, ReceiverArm, ReceiverAck,
           ReceiverNack, ReceiverEof, mainVars, readerVars, netVars
  <2>2. CASE ReceiverAck(c)
    <3>1. /\ cancelled' = (cancelled \/ AllCompleted(completed'))
          /\ closed' = (closed \/ AllCompleted(completed'))
      BY <2>2 DEF ReceiverAck, AfterFrame
    <3> QED BY <2>1, <3>1 DEF QuietLinks
  <2>3. CASE ReceiverNack(c)
    <3>1. /\ cancelled' = (cancelled \/ AllCompleted(completed))
          /\ closed' = (closed \/ AllCompleted(completed))
      BY <2>3 DEF ReceiverNack, AfterFrame
    <3> QED BY <2>1, <3>1 DEF QuietLinks
  <2>4. CASE ~ReceiverAck(c) /\ ~ReceiverNack(c)
    <3>1. UNCHANGED <<cancelled, closed>>
      BY <1>4, <2>4 DEF Receive, ReceiverStop, ReceiverProceed, ReceiverArm, ReceiverEof,
             sharedVars
    <3> QED BY <2>1, <3>1 DEF QuietLinks
  <2> QED BY <2>2, <2>3, <2>4
<1>5. ASSUME NEW c \in Channels, Peer(c) \/ LinkDown(c) PROVE QuietLinks'
  <2>1. CASE PeerChunkGood(c) \/ PeerChunkCorrupt(c)
    BY <2>1 DEF PeerChunkGood, PeerChunkCorrupt, QuietLinks, mainVars, sharedVars,
                readerVars
  <2>2. CASE PeerComplete(c)
    <3>1. Head(wire[c]) \in RequestsNow
      BY <2>2, HeadTailProperties DEF PeerComplete, DeliveryInv
    <3>2. phase \in {"finalAck", "done"}
      BY <2>2, <3>1 DEF PeerComplete, RequestsNow
    <3> QED BY <2>2, <3>2 DEF PeerComplete, QuietLinks, mainVars, sharedVars, readerVars
  <2>3. CASE LinkDown(c)
    BY <2>3 DEF LinkDown, TypeOK, NetTyped
  <2> QED BY <1>5, <2>1, <2>2, <2>3 DEF Peer
<1>6. CASE \E r \in UserRequests : UserRequest(r)
  BY <1>6 DEF UserRequest, QuietLinks, mainVars, readerVars, netVars
<1>7. CASE UNCHANGED vars
  BY <1>7 DEF vars, QuietLinks, mainVars, sharedVars, readerVars, netVars
<1> QED BY <1>1, <1>2, <1>3, <1>4, <1>5, <1>6, <1>7 DEF Next

LEMMA ReaderKeeps ==
  ASSUME ~MayFailRead, TypeOK, QuietLinks, Reader, ~cancelled, NEW k \in Chunks, HasPlace(k)
  PROVE  HasPlace(k)'
<1>q. retry \in Seq(Chunks) /\ prepared \in Seq(Chunks)
  BY DEF TypeOK, SharedTyped
<1>1. UNCHANGED <<completed, inFlight>>
  BY DEF Reader, ReaderTakeRetry, ReaderTakePending, ReaderFail, ReaderSend, ReaderExit,
         sharedVars, chanVars
<1>2. CASE ReaderTakeRetry
  <2>1. held # k
    BY <1>2, ConstantsOK DEF ReaderTakeRetry, QuietLinks
  <2>2. Waits(k) => Waits(k)' \/ held' = k
    BY <1>q, <1>2, ChunkTaken DEF ReaderTakeRetry, Waits
  <2> QED BY <1>1, <1>2, <2>1, <2>2 DEF HasPlace, IsReady, ReaderTakeRetry
<1>3. CASE ReaderTakePending
  <2>1. held # k
    BY <1>3, ConstantsOK DEF ReaderTakePending, QuietLinks
  <2> QED BY <1>1, <1>3, <2>1 DEF HasPlace, Waits, IsReady, ReaderTakePending, sharedVars
<1>4. CASE ReaderSend
  <2>1. held \in Chunks
    BY <1>4 DEF ReaderSend, TypeOK, ReaderTyped
  <2>2. IsReady(k)' <=> IsReady(k) \/ held = k
    BY <1>q, <1>4, <2>1, ChunkQueued DEF ReaderSend, IsReady
  <2> QED BY <1>1, <1>4, <2>2 DEF HasPlace, Waits, ReaderSend
<1>5. ~ReaderFail /\ ~ReaderExit
  BY DEF ReaderFail, ReaderExit, QuietLinks
<1> QED BY <1>2, <1>3, <1>4, <1>5 DEF Reader

LEMMA TasksKeep ==
  ASSUME TypeOK, ChannelInv, QuietLinks, phase = "streaming", NEW c \in Channels,
         Transmit(c) \/ Receive(c), NEW k \in Chunks, HasPlace(k)
  PROVE  HasPlace(k)'
<1>q. /\ retry \in Seq(Chunks) /\ prepared \in Seq(Chunks)
      /\ DOMAIN inFlight = Channels /\ answers[c] \in Seq(Replies)
  BY DEF TypeOK, SharedTyped, ChanTyped, NetTyped
<1>1. wpc[c] # "off" \/ rpc[c] # "off"
  BY DEF Transmit, Receive, WriterStop, WriterObserveControl, WriterProceed, WriterWindow, WriterCount,
         WriterSpurious, WriterRecv, WriterRecvClosed, WriterSent, WriterSendFailed,
         ReceiverStop, ReceiverProceed, ReceiverArm, ReceiverAck, ReceiverNack,
         ReceiverEof
<1>2. up[c]
  BY <1>1 DEF ChannelInv, TasksInv, QuietLinks
<1>3. CASE WriterRecv(c)
  <2>1. IsReady(k) => IsReady(k)' \/ Head(prepared) = k
    BY <1>q, <1>3, ChunkTaken DEF WriterRecv, IsReady
  <2>2. /\ UNCHANGED <<pending, held, completed, retry>>
        /\ inFlight' = [inFlight EXCEPT ![c] = @ \cup {Head(prepared)}]
    BY <1>3 DEF WriterRecv, readerVars
  <2> QED BY <1>q, <2>1, <2>2 DEF HasPlace, Waits
<1>4. CASE ReceiverAck(c)
  <2>1. /\ UNCHANGED <<pending, held, retry, prepared>>
        /\ inFlight' = [inFlight EXCEPT ![c] = @ \ {Head(answers[c]).id}]
        /\ completed' = completed \cup {Head(answers[c]).id}
    BY <1>4 DEF ReceiverAck, readerVars
  <2> QED BY <1>q, <2>1 DEF HasPlace, Waits, IsReady
<1>5. CASE ReceiverNack(c)
  <2> DEFINE x == Head(answers[c]).id
  <2>1. /\ UNCHANGED <<pending, held, completed, prepared>>
        /\ inFlight' = [inFlight EXCEPT ![c] = @ \ {x}]
        /\ retry' = Append(retry, x)
    BY <1>5 DEF ReceiverNack, readerVars
  <2>2. x \in Chunks
    <3>1. Head(answers[c]) \in Replies /\ Head(answers[c]).kind = "nack"
      BY <1>q, <1>5, HeadTailProperties DEF ReceiverNack
    <3> QED BY <3>1, Frames
  <2>3. Waits(k)' <=> Waits(k) \/ x = k
    BY <1>q, <2>1, <2>2, ChunkQueued DEF Waits
  <2> HIDE DEF x
  <2> QED BY <1>q, <2>1, <2>3 DEF HasPlace, IsReady
<1>6. ~WriterSendFailed(c) /\ ~ReceiverEof(c)
  BY <1>2 DEF WriterSendFailed, ReceiverEof
<1>7. ASSUME UNCHANGED <<pending, held, completed, retry, prepared, inFlight>>
      PROVE  HasPlace(k)'
  BY <1>7 DEF HasPlace, Waits, IsReady
<1> QED
  BY <1>3, <1>4, <1>5, <1>6, <1>7
     DEF Transmit, Receive, WriterStop, WriterObserveControl, WriterProceed, WriterWindow, WriterCount,
         WriterSpurious, WriterRecvClosed, WriterSent, ReceiverStop, ReceiverProceed,
         ReceiverArm, sharedVars, readerVars

LEMMA KeptStep ==
  ASSUME MaxDrops = 0, ~MayFailRead, TypeOK, ChannelInv, DeliveryInv, KeptInv, [Next]_vars
  PROVE  KeptInv'
<1>1. QuietLinks'
  BY NoLoss DEF KeptInv
<1>2. ASSUME phase' = "streaming", ~cancelled', NEW k \in Chunks PROVE HasPlace(k)'
  <2>1. CASE StartStreaming
    BY <2>1 DEF StartStreaming, HasPlace
  <2>2. CASE Main /\ ~StartStreaming
    BY <1>2, <2>2 DEF Main, HandshakeAccepted, HandshakeFailed, HandshakeRejected,
           NoChannelLeft, NothingMissing, JoinWorkers, GiveUp, DecideComplete,
           SendComplete, SendCompleteFailed, FinalFrame, FinalEof, Finish
  <2>3. CASE ~Main
    <3>1. phase = "streaming" /\ ~cancelled
      <4>1. CASE Reader
        BY <1>2, <4>1 DEF Reader, ReaderTakeRetry, ReaderTakePending, ReaderFail,
               ReaderSend, ReaderExit, mainVars, sharedVars
      <4>2. ASSUME NEW c \in Channels, Transmit(c) PROVE phase = "streaming" /\ ~cancelled
        BY <1>2, <4>2 DEF Transmit, WriterStop, WriterObserveControl, WriterProceed,
               WriterWindow, WriterCount, WriterSpurious, WriterRecv, WriterRecvClosed, WriterSent,
               WriterSendFailed, mainVars, sharedVars
      <4>3. ASSUME NEW c \in Channels, Receive(c) PROVE phase = "streaming" /\ ~cancelled
        <5>1. phase' = phase
          BY <4>3 DEF Receive, ReceiverStop, ReceiverProceed, ReceiverArm, ReceiverAck,
                 ReceiverNack, ReceiverEof, mainVars
        <5>2. ReceiverAck(c) /\ ~cancelled' => ~cancelled
          BY DEF ReceiverAck, AfterFrame
        <5>3. ReceiverNack(c) /\ ~cancelled' => ~cancelled
          BY DEF ReceiverNack, AfterFrame
        <5>4. ~ReceiverAck(c) /\ ~ReceiverNack(c) /\ ~cancelled' => ~cancelled
          BY <4>3 DEF Receive, ReceiverStop, ReceiverProceed, ReceiverArm, ReceiverEof,
                 sharedVars
        <5> QED BY <1>2, <5>1, <5>2, <5>3, <5>4
      <4>4. CASE \/ \E c \in Channels : Peer(c) \/ LinkDown(c)
                 \/ \E r \in UserRequests : UserRequest(r)
                 \/ UNCHANGED vars
        BY <1>2, <4>4 DEF Peer, PeerChunkGood, PeerChunkCorrupt, PeerComplete, LinkDown,
               UserRequest, vars, mainVars, sharedVars
      <4> QED BY <2>3, <4>1, <4>2, <4>3, <4>4 DEF Next
    <3>2. HasPlace(k)
      BY <3>1 DEF KeptInv
    <3>3. ASSUME UNCHANGED <<readerVars, completed, retry, prepared, inFlight>>
          PROVE  HasPlace(k)'
      BY <3>2, <3>3 DEF HasPlace, Waits, IsReady, readerVars
    <3>4. CASE \E c \in Channels : Peer(c) \/ LinkDown(c)
      BY <3>3, <3>4 DEF Peer, PeerChunkGood, PeerChunkCorrupt, PeerComplete, LinkDown,
                        sharedVars, chanVars
    <3>5. CASE (\E r \in UserRequests : UserRequest(r)) \/ UNCHANGED vars
      BY <3>3, <3>5 DEF UserRequest, vars, sharedVars, chanVars
    <3> QED
      BY <2>3, <3>1, <3>2, <3>4, <3>5, ReaderKeeps, TasksKeep DEF KeptInv, Next
  <2> QED BY <2>1, <2>2, <2>3
<1> QED BY <1>1, <1>2 DEF KeptInv

LEMMA SomeoneHolds ==
  ASSUME TypeOK, NEW k \in Chunks, HasPlace(k)
  PROVE  Holders(k) >= 1
<1> DEFINE Q == {q \in {"plan", "reader", "done"} :
                   \/ q = "plan" /\ k \in pending
                   \/ q = "reader" /\ held = k
                   \/ q = "done" /\ k \in completed}
           C == {c \in Channels : k \in inFlight[c] \/ wchunk[c] = k}
<1>1. ASSUME NEW q \in Seq(Chunks)
      PROVE  Positions(q, k) \in Nat /\ (Occurs(q, {k}) => Positions(q, k) >= 1)
  <2> DEFINE P == {i \in DOMAIN q : q[i] = k}
  <2>1. DOMAIN q = 1 .. Len(q) /\ Len(q) \in Nat
    BY LenProperties
  <2>2. IsFiniteSet(1 .. Len(q))
    BY <2>1, FS_Interval
  <2>3. IsFiniteSet(P)
    BY <2>1, <2>2, FS_Subset
  <2>4. Occurs(q, {k}) => P # {}
    BY <2>1 DEF Occurs
  <2> HIDE DEF P
  <2>5. Cardinality(P) \in Nat /\ (P # {} => Cardinality(P) >= 1)
    BY <2>3, FS_CardinalityType, FS_EmptySet
  <2> QED BY <2>4, <2>5 DEF P, Positions
<1>2. IsFiniteSet(Q) /\ IsFiniteSet(C)
  <2>1. IsFiniteSet(Channels)
    BY ConstantsOK, FS_Interval DEF Channels
  <2>2. IsFiniteSet({"plan", "reader", "done"})
    <3>1. IsFiniteSet({"plan"}) /\ IsFiniteSet({"reader"}) /\ IsFiniteSet({"done"})
      BY FS_Singleton
    <3>2. IsFiniteSet({"plan"} \cup {"reader"})
      BY <3>1, FS_Union
    <3>3. IsFiniteSet(({"plan"} \cup {"reader"}) \cup {"done"})
      BY <3>1, <3>2, FS_Union
    <3>4. {"plan", "reader", "done"} = ({"plan"} \cup {"reader"}) \cup {"done"}
      OBVIOUS
    <3> QED BY <3>3, <3>4
  <2> QED BY <2>1, <2>2, FS_Subset
<1>3. Q # {} \/ Waits(k) \/ IsReady(k) \/ C # {}
  BY DEF HasPlace
<1> HIDE DEF Q, C
<1>4. /\ Cardinality(Q) \in Nat /\ (Q # {} => Cardinality(Q) >= 1)
      /\ Cardinality(C) \in Nat /\ (C # {} => Cardinality(C) >= 1)
  BY <1>2, FS_CardinalityType, FS_EmptySet
<1>5. /\ Positions(retry, k) \in Nat /\ (Waits(k) => Positions(retry, k) >= 1)
      /\ Positions(prepared, k) \in Nat /\ (IsReady(k) => Positions(prepared, k) >= 1)
  BY <1>1 DEF TypeOK, SharedTyped, Waits, IsReady
<1>6. Cardinality(Q) + Positions(retry, k) + Positions(prepared, k) + Cardinality(C) >= 1
  BY <1>3, <1>4, <1>5
<1> QED BY <1>6 DEF Holders, Q, C

\* While links hold and the source can be read, no chunk of the plan is forgotten,
\* for every plan, number of channels, preset and pattern of rejections.
THEOREM NothingIsForgotten ==
  ASSUME MaxDrops = 0, ~MayFailRead
  PROVE  Spec => []NoChunkForgotten
<1>1. Init => TypeOK /\ ChannelInv /\ DeliveryInv /\ KeptInv
  BY TypeInit, ChannelInit, DeliveryInit, KeptInit
<1>2. TypeOK /\ ChannelInv /\ DeliveryInv /\ KeptInv /\ [Next]_vars
        => TypeOK' /\ ChannelInv' /\ DeliveryInv' /\ KeptInv'
  BY TypeStep, ChannelStep, DeliveryStep, KeptStep
<1>3. TypeOK /\ KeptInv => NoChunkForgotten
  BY SomeoneHolds DEF KeptInv, NoChunkForgotten
<1> QED BY <1>1, <1>2, <1>3, PTL DEF Spec
==============================================================================
