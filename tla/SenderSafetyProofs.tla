-------------------------- MODULE SenderSafetyProofs --------------------------
(***************************************************************************)
(* Proofs about SenderSession, for every plan, number of channels, queue     *)
(* capacity, window preset and environment the assumptions allow: type       *)
(* correctness; the safety properties, from two inductive invariants,        *)
(* ChannelInv, about the two tasks of each channel, and DeliveryInv, about   *)
(* what the peer has vouched for and what the session believes; and, from    *)
(* both, that SenderSession implements FileTransfer.                         *)
(***************************************************************************)
EXTENDS SenderSession, FiniteSetTheorems, SequenceTheorems, TLAPS

------------------------------------------------------------------------------
(* Facts about the operators of the model.                                   *)

LEMMA ConstantsOK ==
  /\ NChunks \in Nat \ {0} /\ NChannels \in Nat \ {0}
  /\ MinWindow \in Nat \ {0} /\ MaxWindow \in Nat /\ InitWindow \in MinWindow .. MaxWindow
  /\ MaxNacks \in Nat /\ MaxDrops \in Nat
  /\ FinalId \notin Chunks /\ NoChunk \notin Chunks
BY SizeAssumption, WindowAssumption, EnvironmentAssumption DEF FinalId, Chunks, NoChunk

\* The frames of the model are what their constructors say.
LEMMA Frames ==
  /\ \A k \in Chunks : Data(k) \in Requests /\ Nack(k) \in Replies
  /\ \A k \in Ids : Ack(k) \in Replies
  /\ Complete \in Requests
  /\ \A m \in Requests : m.kind = "data" => m.id \in Chunks /\ m = Data(m.id)
  /\ \A m \in Requests : m.kind # "data" => m = Complete
  /\ \A m \in Replies : m.kind = "ack" => m.id \in Ids /\ m = Ack(m.id)
  /\ \A m \in Replies : m.kind # "ack" => m.id \in Chunks /\ m = Nack(m.id)
<1>1. \A k : Data(k).kind = "data" /\ Data(k).id = k
  BY DEF Data
<1>2. \A k : Ack(k).kind = "ack" /\ Ack(k).id = k
  BY DEF Ack
<1>3. \A k : Nack(k).kind = "nack" /\ Nack(k).id = k
  BY DEF Nack
<1>4. Complete.kind = "complete"
  BY DEF Complete
<1> QED
  BY <1>1, <1>2, <1>3, <1>4 DEF Requests, Replies

\* The window stays within its preset.
LEMMA AdjustedInRange ==
  ASSUME NEW w \in MinWindow .. MaxWindow
  PROVE  Adjusted(w) \subseteq MinWindow .. MaxWindow
BY ConstantsOK DEF Adjusted

\* Waking the waiting tasks moves nobody but those in select.
LEMMA WakeIsTyped ==
  ASSUME NEW S, NEW pcs \in [Channels -> S], "woken" \in S
  PROVE  /\ WakeWaiting(pcs) \in [Channels -> S]
         /\ \A c \in Channels : \/ WakeWaiting(pcs)[c] = pcs[c]
                                \/ pcs[c] = "select" /\ WakeWaiting(pcs)[c] = "woken"
BY DEF WakeWaiting

------------------------------------------------------------------------------
(* Type correctness.                                                         *)

LEMMA TypeInit == Init => TypeOK
<1> SUFFICES ASSUME Init PROVE TypeOK
  OBVIOUS
<1> USE ConstantsOK DEF Init
<1>1. MainTyped BY DEF MainTyped
<1>2. SharedTyped
  <2>1. <<>> \in Seq(Chunks) BY EmptySeq
  <2> QED BY <2>1 DEF SharedTyped
<1>3. ReaderTyped BY DEF ReaderTyped
<1>4. ChanTyped BY DEF ChanTyped
<1>5. NetTyped
  <2>1. PICK e : e = <<>> /\ e \in Seq(Requests) /\ e \in Seq(Replies)
    BY EmptySeq
  <2>2. wire = [c \in Channels |-> e] /\ answers = [c \in Channels |-> e]
    BY <2>1
  <2>3. wire \in [Channels -> Seq(Requests)] /\ answers \in [Channels -> Seq(Replies)]
    BY <2>1, <2>2
  <2>4. up \in [Channels -> BOOLEAN] /\ confirmed \in BOOLEAN
    OBVIOUS
  <2>5. vouched \subseteq Chunks /\ nacks \in 0 .. MaxNacks /\ drops \in 0 .. MaxDrops
    OBVIOUS
  <2> HIDE DEF Init
  <2> QED BY <2>3, <2>4, <2>5 DEF NetTyped
<1> QED BY <1>1, <1>2, <1>3, <1>4, <1>5 DEF TypeOK

\* A group of variables that does not change keeps its type.
LEMMA TypeUnchanged ==
  /\ MainTyped /\ UNCHANGED mainVars => MainTyped'
  /\ SharedTyped /\ UNCHANGED sharedVars => SharedTyped'
  /\ ReaderTyped /\ UNCHANGED readerVars => ReaderTyped'
  /\ ChanTyped /\ UNCHANGED chanVars => ChanTyped'
  /\ NetTyped /\ UNCHANGED netVars => NetTyped'
<1>1. MainTyped /\ UNCHANGED mainVars => MainTyped'
  BY DEF MainTyped, mainVars
<1>2. SharedTyped /\ UNCHANGED sharedVars => SharedTyped'
  BY DEF SharedTyped, sharedVars
<1>3. ReaderTyped /\ UNCHANGED readerVars => ReaderTyped'
  BY DEF ReaderTyped, readerVars
<1>4. ChanTyped /\ UNCHANGED chanVars => ChanTyped'
  BY DEF ChanTyped, chanVars
<1>5. NetTyped /\ UNCHANGED netVars => NetTyped'
  BY DEF NetTyped, netVars
<1> QED BY <1>1, <1>2, <1>3, <1>4, <1>5

LEMMA TypeMain == TypeOK /\ Main => TypeOK'
<1> SUFFICES ASSUME TypeOK, Main PROVE TypeOK'
  OBVIOUS
<1>0. MainTyped /\ SharedTyped /\ ReaderTyped /\ ChanTyped /\ NetTyped
  BY DEF TypeOK
<1>1. CASE HandshakeAccepted
  <2>1. MainTyped' BY <1>0, <1>1, ConstantsOK DEF HandshakeAccepted, MainTyped, Channels
  <2>2. NetTyped' BY <1>0, <1>1 DEF HandshakeAccepted, NetTyped
  <2> QED BY <1>0, <1>1, <2>1, <2>2, TypeUnchanged DEF HandshakeAccepted, TypeOK
<1>2. CASE HandshakeFailed
  <2>1. MainTyped' BY <1>0, <1>2, ConstantsOK DEF HandshakeFailed, MainTyped, Channels
  <2>2. NetTyped' BY <1>0, <1>2 DEF HandshakeFailed, NetTyped
  <2> QED BY <1>0, <1>2, <2>1, <2>2, TypeUnchanged DEF HandshakeFailed, TypeOK
<1>3. CASE HandshakeRejected
  <2>1. MainTyped' BY <1>0, <1>3 DEF HandshakeRejected, Finish, MainTyped
  <2> QED BY <1>0, <1>3, <2>1, TypeUnchanged DEF HandshakeRejected, TypeOK
<1>4. CASE NoChannelLeft
  <2>1. MainTyped' BY <1>0, <1>4 DEF NoChannelLeft, Finish, MainTyped
  <2> QED BY <1>0, <1>4, <2>1, TypeUnchanged DEF NoChannelLeft, TypeOK
<1>5. CASE NothingMissing
  <2>1. MainTyped' BY <1>0, <1>5, ConstantsOK DEF NothingMissing, MainTyped, Least, Channels
  <2>2. SharedTyped' BY <1>0, <1>5 DEF NothingMissing, SharedTyped, Ids
  <2> QED BY <1>0, <1>5, <2>1, <2>2, TypeUnchanged DEF NothingMissing, TypeOK
<1>6. CASE StartStreaming
  <2>1. MainTyped' BY <1>0, <1>6 DEF StartStreaming, MainTyped
  <2>2. SharedTyped' BY <1>0, <1>6 DEF StartStreaming, SharedTyped, Ids
  <2>3. ReaderTyped' BY <1>0, <1>6 DEF StartStreaming, ReaderTyped
  <2>4. ChanTyped' BY <1>0, <1>6 DEF StartStreaming, ChanTyped
  <2> QED BY <1>0, <1>6, <2>1, <2>2, <2>3, <2>4, TypeUnchanged DEF StartStreaming, TypeOK
<1>7. CASE JoinWorkers
  <2>1. MainTyped' BY <1>0, <1>7, ConstantsOK DEF JoinWorkers, MainTyped, Least, Survivors, Channels
  <2>2. SharedTyped' BY <1>0, <1>7 DEF JoinWorkers, SharedTyped
  <2> QED BY <1>0, <1>7, <2>1, <2>2, TypeUnchanged DEF JoinWorkers, TypeOK
<1>8. CASE GiveUp
  <2>1. MainTyped' BY <1>0, <1>8 DEF GiveUp, Finish, Verdict, MainTyped, SharedTyped
  <2> QED BY <1>0, <1>8, <2>1, TypeUnchanged DEF GiveUp, TypeOK
<1>9. CASE DecideComplete
  <2>1. MainTyped' BY <1>0, <1>9, ConstantsOK DEF DecideComplete, MainTyped, Channels
  <2> QED BY <1>0, <1>9, <2>1, TypeUnchanged DEF DecideComplete, TypeOK
<1>10. CASE SendComplete
  <2>1. MainTyped' BY <1>0, <1>10 DEF SendComplete, MainTyped
  <2>2. NetTyped' BY <1>0, <1>10, Frames DEF SendComplete, NetTyped, MainTyped
  <2> QED BY <1>0, <1>10, <2>1, <2>2, TypeUnchanged DEF SendComplete, TypeOK
<1>11. CASE SendCompleteFailed
  <2>1. MainTyped' BY <1>0, <1>11 DEF SendCompleteFailed, Finish, MainTyped
  <2> QED BY <1>0, <1>11, <2>1, TypeUnchanged DEF SendCompleteFailed, TypeOK
<1>12. CASE FinalFrame
  <2>1. MainTyped' BY <1>0, <1>12 DEF FinalFrame, MainTyped
  <2>2. NetTyped' BY <1>0, <1>12 DEF FinalFrame, NetTyped, MainTyped
  <2> QED BY <1>0, <1>12, <2>1, <2>2, TypeUnchanged DEF FinalFrame, TypeOK
<1>13. CASE FinalEof
  <2>1. MainTyped' BY <1>0, <1>13 DEF FinalEof, Finish, MainTyped
  <2> QED BY <1>0, <1>13, <2>1, TypeUnchanged DEF FinalEof, TypeOK
<1> QED
  BY <1>1, <1>2, <1>3, <1>4, <1>5, <1>6, <1>7, <1>8, <1>9, <1>10, <1>11, <1>12, <1>13
  DEF Main

LEMMA TypeReader == TypeOK /\ Reader => TypeOK'
<1> SUFFICES ASSUME TypeOK, Reader PROVE TypeOK'
  OBVIOUS
<1>0. MainTyped /\ SharedTyped /\ ReaderTyped /\ ChanTyped /\ NetTyped
  BY DEF TypeOK
<1>1. CASE ReaderTakeRetry
  <2>1. Head(retry) \in Chunks /\ Tail(retry) \in Seq(Chunks)
    BY <1>0, <1>1, HeadTailProperties DEF ReaderTakeRetry, SharedTyped
  <2>2. SharedTyped' BY <1>0, <1>1, <2>1 DEF ReaderTakeRetry, SharedTyped
  <2>3. ReaderTyped' BY <1>0, <1>1, <2>1 DEF ReaderTakeRetry, ReaderTyped
  <2> QED BY <1>0, <1>1, <2>2, <2>3, TypeUnchanged DEF ReaderTakeRetry, TypeOK
<1>2. CASE ReaderTakePending
  <2>1. ReaderTyped' BY <1>0, <1>2 DEF ReaderTakePending, ReaderTyped, Least
  <2> QED BY <1>0, <1>2, <2>1, TypeUnchanged DEF ReaderTakePending, TypeOK
<1>3. CASE ReaderFail
  <2>1. SharedTyped' BY <1>0, <1>3 DEF ReaderFail, SharedTyped
  <2>2. ReaderTyped' BY <1>0, <1>3 DEF ReaderFail, ReaderTyped
  <2> QED BY <1>0, <1>3, <2>1, <2>2, TypeUnchanged DEF ReaderFail, TypeOK
<1>4. CASE ReaderSend
  <2>1. Append(prepared, held) \in Seq(Chunks)
    BY <1>0, <1>4, AppendProperties DEF ReaderSend, SharedTyped, ReaderTyped
  <2>2. SharedTyped' BY <1>0, <1>4, <2>1 DEF ReaderSend, SharedTyped
  <2>3. ReaderTyped' BY <1>0, <1>4 DEF ReaderSend, ReaderTyped
  <2> QED BY <1>0, <1>4, <2>2, <2>3, TypeUnchanged DEF ReaderSend, TypeOK
<1>5. CASE ReaderExit
  <2>1. SharedTyped' BY <1>0, <1>5 DEF ReaderExit, SharedTyped
  <2>2. ReaderTyped' BY <1>0, <1>5 DEF ReaderExit, ReaderTyped
  <2> QED BY <1>0, <1>5, <2>1, <2>2, TypeUnchanged DEF ReaderExit, TypeOK
<1> QED BY <1>1, <1>2, <1>3, <1>4, <1>5 DEF Reader

LEMMA TypeTransmit == ASSUME NEW c \in Channels PROVE TypeOK /\ Transmit(c) => TypeOK'
<1> SUFFICES ASSUME TypeOK, Transmit(c) PROVE TypeOK'
  OBVIOUS
<1>0. MainTyped /\ SharedTyped /\ ReaderTyped /\ ChanTyped /\ NetTyped
  BY DEF TypeOK
<1>w. /\ WakeWaiting(wpc) \in [Channels -> {"off", "top", "window", "count", "select",
                                 "woken", "sending", "exitAlive", "exitDead", "exitErr"}]
      /\ \A d \in Channels : WakeWaiting(wpc)[d] = "sending" => wpc[d] = "sending"
      /\ WakeWaiting(rpc) \in [Channels -> {"off", "top", "arm", "select", "woken",
                                 "exitAlive", "exitDead"}]
  BY <1>0 DEF ChanTyped, WakeWaiting
<1>1. CASE WriterStop(c)
  <2>1. ChanTyped' BY <1>0, <1>1 DEF WriterStop, ChanTyped
  <2> QED BY <1>0, <1>1, <2>1, TypeUnchanged DEF WriterStop, TypeOK
<1>2. CASE WriterObserveControl(c)
  <2>1. SharedTyped' BY <1>0, <1>2 DEF WriterObserveControl, SharedTyped
  <2>2. ChanTyped' BY <1>0, <1>2, <1>w DEF WriterObserveControl, ChanTyped
  <2> QED BY <1>0, <1>2, <2>1, <2>2, TypeUnchanged DEF WriterObserveControl, TypeOK
<1>3. CASE WriterProceed(c)
  <2>1. ChanTyped' BY <1>0, <1>3 DEF WriterProceed, ChanTyped
  <2> QED BY <1>0, <1>3, <2>1, TypeUnchanged DEF WriterProceed, TypeOK
<1>4. CASE WriterWindow(c)
  <2>1. window[c] \in 0 .. MaxWindow
    BY <1>0, ConstantsOK DEF ChanTyped
  <2>2. ChanTyped' BY <1>0, <1>4, <2>1 DEF WriterWindow, ChanTyped
  <2> QED BY <1>0, <1>4, <2>2, TypeUnchanged DEF WriterWindow, TypeOK
<1>5. CASE WriterSpurious(c)
  <2>1. ChanTyped' BY <1>0, <1>5 DEF WriterSpurious, ChanTyped
  <2> QED BY <1>0, <1>5, <2>1, TypeUnchanged DEF WriterSpurious, TypeOK
<1>6. CASE WriterRecv(c)
  <2>1. Head(prepared) \in Chunks /\ Tail(prepared) \in Seq(Chunks)
    BY <1>0, <1>6, HeadTailProperties DEF WriterRecv, SharedTyped
  <2>2. SharedTyped' BY <1>0, <1>6, <2>1 DEF WriterRecv, SharedTyped
  <2>3. ChanTyped' BY <1>0, <1>6, <2>1 DEF WriterRecv, ChanTyped
  <2> QED BY <1>0, <1>6, <2>2, <2>3, TypeUnchanged DEF WriterRecv, TypeOK
<1>7. CASE WriterRecvClosed(c)
  <2>1. ChanTyped' BY <1>0, <1>7 DEF WriterRecvClosed, ChanTyped
  <2> QED BY <1>0, <1>7, <2>1, TypeUnchanged DEF WriterRecvClosed, TypeOK
<1>8. CASE WriterSent(c)
  <2>1. wire[c] \in Seq(Requests) /\ Data(wchunk[c]) \in Requests
    BY <1>0, <1>8, Frames DEF WriterSent, ChanTyped, NetTyped
  <2>2. Append(wire[c], Data(wchunk[c])) \in Seq(Requests)
    BY <2>1, AppendProperties
  <2>3. ChanTyped' BY <1>0, <1>8 DEF WriterSent, ChanTyped
  <2>4. NetTyped' BY <1>0, <1>8, <2>2 DEF WriterSent, NetTyped
  <2> QED BY <1>0, <1>8, <2>3, <2>4, TypeUnchanged DEF WriterSent, TypeOK
<1>9. CASE WriterSendFailed(c)
  <2>1. Append(retry, wchunk[c]) \in Seq(Chunks)
    BY <1>0, <1>9, AppendProperties DEF WriterSendFailed, SharedTyped, ChanTyped
  <2>2. SharedTyped' BY <1>0, <1>9, <2>1 DEF WriterSendFailed, SharedTyped
  <2>3. ChanTyped' BY <1>0, <1>9, <1>w DEF WriterSendFailed, ChanTyped
  <2> QED BY <1>0, <1>9, <2>2, <2>3, TypeUnchanged DEF WriterSendFailed, TypeOK
<1>10. CASE WriterCount(c)
  <2>1. ChanTyped' BY <1>0, <1>10, ConstantsOK DEF WriterCount, ChanTyped
  <2> QED BY <1>0, <1>10, <2>1, TypeUnchanged DEF WriterCount, TypeOK
<1> QED
  BY <1>1, <1>2, <1>3, <1>4, <1>5, <1>6, <1>7, <1>8, <1>9, <1>10 DEF Transmit

LEMMA TypeReceive == ASSUME NEW c \in Channels PROVE TypeOK /\ Receive(c) => TypeOK'
<1> SUFFICES ASSUME TypeOK, Receive(c) PROVE TypeOK'
  OBVIOUS
<1>0. MainTyped /\ SharedTyped /\ ReaderTyped /\ ChanTyped /\ NetTyped
  BY DEF TypeOK
<1>w. /\ WakeWaiting(wpc) \in [Channels -> {"off", "top", "window", "count", "select",
                                 "woken", "sending", "exitAlive", "exitDead", "exitErr"}]
      /\ \A d \in Channels : WakeWaiting(wpc)[d] = "sending" => wpc[d] = "sending"
      /\ WakeWaiting(rpc) \in [Channels -> {"off", "top", "arm", "select", "woken",
                                 "exitAlive", "exitDead"}]
  BY <1>0 DEF ChanTyped, WakeWaiting
<1>a. ASSUME answers[c] # <<>>
      PROVE  Head(answers[c]) \in Replies /\ Tail(answers[c]) \in Seq(Replies)
  BY <1>0, <1>a, HeadTailProperties DEF NetTyped
<1>1. CASE ReceiverStop(c)
  <2>1. ChanTyped' BY <1>0, <1>1 DEF ReceiverStop, ChanTyped
  <2> QED BY <1>0, <1>1, <2>1, TypeUnchanged DEF ReceiverStop, TypeOK
<1>2. CASE ReceiverProceed(c)
  <2>1. ChanTyped' BY <1>0, <1>2 DEF ReceiverProceed, ChanTyped
  <2> QED BY <1>0, <1>2, <2>1, TypeUnchanged DEF ReceiverProceed, TypeOK
<1>3. CASE ReceiverArm(c)
  <2>1. ChanTyped' BY <1>0, <1>3 DEF ReceiverArm, ChanTyped
  <2> QED BY <1>0, <1>3, <2>1, TypeUnchanged DEF ReceiverArm, TypeOK
<1>4. CASE ReceiverAck(c)
  <2> DEFINE m == Head(answers[c])
  <2>1. m.id \in Ids /\ Tail(answers[c]) \in Seq(Replies)
    BY <1>4, <1>a, Frames DEF ReceiverAck
  <2>2. Adjusted(window[c]) \subseteq MinWindow .. MaxWindow
    BY <1>0, AdjustedInRange DEF ChanTyped
  <2>3. SharedTyped' BY <1>0, <1>4, <2>1 DEF ReceiverAck, AfterFrame, SharedTyped
  <2>4. /\ inFlight' = [inFlight EXCEPT ![c] = @ \ {m.id}]
        /\ \E w \in MinWindow .. MaxWindow : window' = [window EXCEPT ![c] = w]
        /\ wpc' \in {wpc, WakeWaiting(wpc)}
        /\ \E r \in {rpc, WakeWaiting(rpc)}, x \in {"top", "exitAlive"} :
             rpc' = [r EXCEPT ![c] = x]
        /\ UNCHANGED <<disconnected, wchunk, limit, late>>
    BY <1>4, <2>2 DEF ReceiverAck, AfterFrame
  <2>5. ChanTyped' BY <1>0, <1>w, <2>4 DEF ChanTyped
  <2>6. NetTyped' BY <1>0, <1>4, <2>1 DEF ReceiverAck, NetTyped
  <2> QED BY <1>0, <1>4, <2>3, <2>5, <2>6, TypeUnchanged DEF ReceiverAck, TypeOK
<1>5. CASE ReceiverNack(c)
  <2> DEFINE m == Head(answers[c])
  <2>1. m.id \in Chunks /\ Tail(answers[c]) \in Seq(Replies)
    BY <1>5, <1>a, Frames DEF ReceiverNack
  <2>2. Append(retry, m.id) \in Seq(Chunks)
    BY <1>0, <2>1, AppendProperties DEF SharedTyped
  <2>3. SharedTyped' BY <1>0, <1>5, <2>2 DEF ReceiverNack, AfterFrame, SharedTyped
  <2>4. /\ inFlight' = [inFlight EXCEPT ![c] = @ \ {m.id}]
        /\ wpc' \in {wpc, WakeWaiting(wpc)}
        /\ \E r \in {rpc, WakeWaiting(rpc)}, x \in {"top", "exitAlive"} :
             rpc' = [r EXCEPT ![c] = x]
        /\ UNCHANGED <<disconnected, window, wchunk, limit, late>>
    BY <1>5 DEF ReceiverNack, AfterFrame
  <2>5. ChanTyped' BY <1>0, <1>w, <2>4 DEF ChanTyped
  <2>6. NetTyped' BY <1>0, <1>5, <2>1 DEF ReceiverNack, NetTyped
  <2> QED BY <1>0, <1>5, <2>3, <2>5, <2>6, TypeUnchanged DEF ReceiverNack, TypeOK
<1>6. CASE ReceiverEof(c)
  <2>1. ChanTyped' BY <1>0, <1>6, <1>w DEF ReceiverEof, ChanTyped
  <2> QED BY <1>0, <1>6, <2>1, TypeUnchanged DEF ReceiverEof, TypeOK
<1> QED BY <1>1, <1>2, <1>3, <1>4, <1>5, <1>6 DEF Receive

LEMMA TypeEnvironment ==
  ASSUME NEW c \in Channels PROVE TypeOK /\ (Peer(c) \/ LinkDown(c)) => TypeOK'
<1> SUFFICES ASSUME TypeOK, Peer(c) \/ LinkDown(c) PROVE TypeOK'
  OBVIOUS
<1>0. MainTyped /\ SharedTyped /\ ReaderTyped /\ ChanTyped /\ NetTyped
  BY DEF TypeOK
<1>r. ASSUME wire[c] # <<>>
      PROVE  Head(wire[c]) \in Requests /\ Tail(wire[c]) \in Seq(Requests)
  BY <1>0, <1>r, HeadTailProperties DEF NetTyped
<1>a. ASSUME NEW m \in Replies PROVE Append(answers[c], m) \in Seq(Replies)
  BY <1>0, AppendProperties DEF NetTyped
<1>1. CASE PeerChunkGood(c)
  <2>1. Head(wire[c]).id \in Chunks /\ Tail(wire[c]) \in Seq(Requests)
    BY <1>1, <1>r, Frames DEF PeerChunkGood
  <2>2. Append(answers[c], Ack(Head(wire[c]).id)) \in Seq(Replies)
    BY <1>a, <2>1, Frames DEF Ids
  <2>3. NetTyped' BY <1>0, <1>1, <2>1, <2>2 DEF PeerChunkGood, NetTyped
  <2> QED BY <1>0, <1>1, <2>3, TypeUnchanged DEF PeerChunkGood, TypeOK
<1>2. CASE PeerChunkCorrupt(c)
  <2>1. Head(wire[c]).id \in Chunks /\ Tail(wire[c]) \in Seq(Requests)
    BY <1>2, <1>r, Frames DEF PeerChunkCorrupt
  <2>2. Append(answers[c], Nack(Head(wire[c]).id)) \in Seq(Replies)
    BY <1>a, <2>1, Frames
  <2>3. NetTyped' BY <1>0, <1>2, <2>1, <2>2, ConstantsOK DEF PeerChunkCorrupt, NetTyped
  <2> QED BY <1>0, <1>2, <2>3, TypeUnchanged DEF PeerChunkCorrupt, TypeOK
<1>3. CASE PeerComplete(c)
  <2>1. Tail(wire[c]) \in Seq(Requests)
    BY <1>3, <1>r DEF PeerComplete
  <2>2. Append(answers[c], Ack(FinalId)) \in Seq(Replies)
    BY <1>a, Frames DEF Ids
  <2>3. NetTyped' BY <1>0, <1>3, <2>1, <2>2 DEF PeerComplete, NetTyped
  <2> QED BY <1>0, <1>3, <2>3, TypeUnchanged DEF PeerComplete, TypeOK
<1>4. CASE LinkDown(c)
  <2>1. PICK e : e = <<>> /\ e \in Seq(Requests) /\ e \in Seq(Replies)
    BY EmptySeq
  <2>2. /\ wire' = [wire EXCEPT ![c] = e]
        /\ \E kept \in {answers[c], e} : answers' = [answers EXCEPT ![c] = kept]
    BY <1>4, <2>1 DEF LinkDown
  <2>3. wire' \in [Channels -> Seq(Requests)] /\ answers' \in [Channels -> Seq(Replies)]
    BY <1>0, <2>1, <2>2 DEF NetTyped
  <2>4. NetTyped' BY <1>0, <1>4, <2>3, ConstantsOK DEF LinkDown, NetTyped
  <2> QED BY <1>0, <1>4, <2>4, TypeUnchanged DEF LinkDown, TypeOK
<1> QED BY <1>1, <1>2, <1>3, <1>4 DEF Peer

LEMMA TypeUser == ASSUME NEW r \in UserRequests PROVE TypeOK /\ UserRequest(r) => TypeOK'
<1> SUFFICES ASSUME TypeOK, UserRequest(r) PROVE TypeOK'
  OBVIOUS
<1>1. SharedTyped'
  BY EnvironmentAssumption DEF TypeOK, UserRequest, SharedTyped
<1> QED BY <1>1, TypeUnchanged DEF UserRequest, TypeOK

LEMMA TypeStep == TypeOK /\ [Next]_vars => TypeOK'
<1> SUFFICES ASSUME TypeOK, [Next]_vars PROVE TypeOK'
  OBVIOUS
<1>1. CASE UNCHANGED vars
  BY <1>1, TypeUnchanged DEF vars, TypeOK
<1>2. CASE Next
  BY <1>2, TypeMain, TypeReader, TypeTransmit, TypeReceive, TypeEnvironment, TypeUser
  DEF Next
<1> QED BY <1>1, <1>2

\* Whatever the plan, the channels, the presets and the faults, every variable
\* keeps its type: windows stay within their preset, only chunks of the plan are
\* in flight, and a transmit task that sends has a chunk to send.
THEOREM TypeCorrect == Spec => []TypeOK
<1>1. Init => TypeOK BY TypeInit
<1>2. TypeOK /\ [Next]_vars => TypeOK' BY TypeStep
<1> QED BY <1>1, <1>2, PTL DEF Spec

------------------------------------------------------------------------------
(* The inductive invariants.                                                 *)

\* Channel tasks run only while streaming, and only on channels whose
\* handshake was accepted.
TasksInv ==
  /\ phase = "handshake" => \A c \in Channels : ~disconnected[c]
  /\ phase = "handshake" => \A c \in Channels : wpc[c] = "off" /\ rpc[c] = "off"
  /\ \A c \in Channels \ live : wpc[c] = "off" /\ rpc[c] = "off"
  /\ phase # "streaming" =>
       \A c \in Channels : /\ wpc[c] \in {"off", "exitAlive", "exitDead", "exitErr"}
                           /\ rpc[c] \in {"off", "exitAlive", "exitDead"}

\* A channel marked as disconnected has a task that ended seeing it, so the
\* channel is not alive for the main task.
DisconnectInv ==
  \A c \in Channels : disconnected[c] =>
    wpc[c] \in {"exitErr", "exitDead"} \/ rpc[c] = "exitDead"

\* Room for one more between the window check and the chunk taken.
WindowInv ==
  /\ WindowRespected
  /\ \A c \in Channels : wpc[c] \in {"select", "woken"} =>
       Cardinality(inFlight[c]) < MaxWindow

\* The chunk sent after the stop brought the task back to the flag check.
LateInv ==
  \A c \in Channels :
    \/ late[c] = 0
    \/ late[c] = 1 /\ cancelled /\ wpc[c] \in {"off", "top", "exitAlive"}

ChannelInv ==
  TasksInv /\ DisconnectInv /\ WindowInv /\ LateInv /\ PrimaryIsHealthy

\* What may be on a wire: Complete only once every chunk was vouched for.
RequestsNow ==
  {m \in Requests :
     m.kind = "complete" => vouched = Chunks /\ phase \in {"finalAck", "done"}}

\* What may be on its way back: acknowledgements of frames the peer did get.
RepliesNow ==
  {m \in Replies : m.kind = "ack" =>
     IF m.id = FinalId THEN confirmed ELSE m.id \in vouched}

DeliveryInv ==
  /\ resumed \subseteq vouched
  /\ completed \subseteq vouched
  /\ \A c \in Channels : wire[c] \in Seq(RequestsNow) /\ answers[c] \in Seq(RepliesNow)
  /\ confirmed => vouched = Chunks /\ phase \in {"finalAck", "done"}
  /\ phase \in {"complete", "finalAck"} => AllCompleted(completed)
  /\ result = "Ok" => confirmed

------------------------------------------------------------------------------
(* What a step of the tasks of channel c can do.                             *)

\* A task stays where it is or is woken from its wait.
Stays(pcs, new, d) == new[d] = pcs[d] \/ (pcs[d] = "select" /\ new[d] = "woken")

\* The other channels: only their waiting tasks can be woken.
OthersKeep(c) ==
  \A d \in Channels \ {c} :
    /\ disconnected'[d] = disconnected[d] /\ inFlight'[d] = inFlight[d]
    /\ late'[d] = late[d]
    /\ Stays(wpc, wpc', d) /\ Stays(rpc, rpc', d)

LEMMA Waking ==
  ASSUME TypeOK, NEW c \in Channels
  PROVE  Stays(wpc, WakeWaiting(wpc), c) /\ Stays(rpc, WakeWaiting(rpc), c)
BY DEF Stays, WakeWaiting

LEMMA TransmitShape ==
  ASSUME TypeOK, NEW c \in Channels, Transmit(c)
  PROVE  /\ UNCHANGED <<phase, live, primary>> /\ (cancelled => cancelled')
         /\ OthersKeep(c) /\ Stays(rpc, rpc', c)
         /\ wpc[c] \notin {"off", "exitAlive", "exitDead", "exitErr"}
         /\ \/ /\ disconnected'[c] = disconnected[c]
            \/ /\ disconnected'[c] /\ wpc'[c] \in {"exitErr", "exitDead"}
         /\ \/ /\ late'[c] = late[c]
               /\ cancelled => wpc[c] # "top" \/ wpc'[c] = "exitAlive"
            \/ /\ late'[c] = late[c] + 1 /\ cancelled
               /\ wpc[c] = "sending" /\ wpc'[c] = "top"
         /\ \/ /\ inFlight'[c] = inFlight[c] /\ wpc'[c] \notin {"select", "woken"}
            \/ /\ inFlight'[c] = {} /\ wpc'[c] = "exitDead"
            \/ /\ inFlight'[c] = inFlight[c] /\ wpc'[c] = "select"
               /\ ~(Cardinality(inFlight[c]) >= limit[c])
            \/ /\ \E k \in Chunks : inFlight'[c] = inFlight[c] \cup {k}
               /\ wpc[c] \in {"select", "woken"} /\ wpc'[c] = "sending"
<1>t. /\ disconnected \in [Channels -> BOOLEAN] /\ late \in [Channels -> Nat]
      /\ inFlight \in [Channels -> SUBSET Chunks]
      /\ wpc \in [Channels -> {"off", "top", "window", "count", "select",
                     "woken", "sending", "exitAlive", "exitDead", "exitErr"}]
      /\ rpc \in [Channels -> {"off", "top", "arm", "select", "woken",
                     "exitAlive", "exitDead"}]
      /\ cancelled \in BOOLEAN
  BY DEF TypeOK, ChanTyped, SharedTyped
<1>w. /\ WakeWaiting(wpc) \in [Channels -> {"off", "top", "window", "count", "select",
                                 "woken", "sending", "exitAlive", "exitDead", "exitErr"}]
      /\ \A d \in Channels : Stays(wpc, WakeWaiting(wpc), d)
      /\ WakeWaiting(rpc) \in [Channels -> {"off", "top", "arm", "select", "woken",
                                 "exitAlive", "exitDead"}]
      /\ \A d \in Channels : Stays(rpc, WakeWaiting(rpc), d)
  BY <1>t DEF Stays, WakeWaiting
<1>1. CASE WriterStop(c)
  BY <1>t, <1>1 DEF WriterStop, mainVars, sharedVars, OthersKeep, Stays
<1>2. CASE WriterObserveControl(c)
  BY <1>t, <1>2, <1>w DEF WriterObserveControl, mainVars, StopFlag, OthersKeep, Stays
<1>3. CASE WriterProceed(c)
  BY <1>t, <1>3 DEF WriterProceed, mainVars, sharedVars, StopFlag, OthersKeep, Stays
<1>4. CASE WriterWindow(c)
  BY <1>t, <1>4 DEF WriterWindow, mainVars, sharedVars, OthersKeep, Stays
<1>5. CASE WriterSpurious(c)
  BY <1>t, <1>5 DEF WriterSpurious, mainVars, sharedVars, StopFlag, OthersKeep, Stays
<1>6. CASE WriterRecv(c)
  <2>1. Head(prepared) \in Chunks
    BY <1>6, HeadTailProperties DEF WriterRecv, SharedTyped, TypeOK
  <2> QED BY <1>t, <1>6, <2>1 DEF WriterRecv, mainVars, OthersKeep, Stays
<1>7. CASE WriterRecvClosed(c)
  BY <1>t, <1>7 DEF WriterRecvClosed, mainVars, sharedVars, OthersKeep, Stays
<1>8. CASE WriterSent(c)
  BY <1>t, <1>8 DEF WriterSent, mainVars, sharedVars, OthersKeep, Stays
<1>9. CASE WriterSendFailed(c)
  BY <1>t, <1>9, <1>w DEF WriterSendFailed, mainVars, OthersKeep, Stays
<1>10. CASE WriterCount(c)
  BY <1>t, <1>10 DEF WriterCount, mainVars, sharedVars, OthersKeep, Stays
<1> QED
  BY <1>1, <1>2, <1>3, <1>4, <1>5, <1>6, <1>7, <1>8, <1>9, <1>10 DEF Transmit

LEMMA ReceiveShape ==
  ASSUME TypeOK, NEW c \in Channels, Receive(c)
  PROVE  /\ UNCHANGED <<phase, live, primary>> /\ (cancelled => cancelled')
         /\ OthersKeep(c) /\ Stays(wpc, wpc', c)
         /\ rpc[c] \notin {"off", "exitAlive", "exitDead"}
         /\ late'[c] = late[c]
         /\ inFlight'[c] \subseteq inFlight[c]
         /\ disconnected'[c] = disconnected[c] \/ rpc'[c] = "exitDead"
<1>t. /\ disconnected \in [Channels -> BOOLEAN] /\ late \in [Channels -> Nat]
      /\ inFlight \in [Channels -> SUBSET Chunks]
      /\ wpc \in [Channels -> {"off", "top", "window", "count", "select",
                     "woken", "sending", "exitAlive", "exitDead", "exitErr"}]
      /\ rpc \in [Channels -> {"off", "top", "arm", "select", "woken",
                     "exitAlive", "exitDead"}]
      /\ cancelled \in BOOLEAN
  BY DEF TypeOK, ChanTyped, SharedTyped
<1>w. /\ WakeWaiting(wpc) \in [Channels -> {"off", "top", "window", "count", "select",
                                 "woken", "sending", "exitAlive", "exitDead", "exitErr"}]
      /\ \A d \in Channels : Stays(wpc, WakeWaiting(wpc), d)
      /\ WakeWaiting(rpc) \in [Channels -> {"off", "top", "arm", "select", "woken",
                                 "exitAlive", "exitDead"}]
      /\ \A d \in Channels : Stays(rpc, WakeWaiting(rpc), d)
  BY <1>t DEF Stays, WakeWaiting
<1>1. CASE ReceiverStop(c)
  BY <1>t, <1>1 DEF ReceiverStop, mainVars, sharedVars, OthersKeep, Stays
<1>2. CASE ReceiverProceed(c)
  BY <1>t, <1>2 DEF ReceiverProceed, mainVars, sharedVars, OthersKeep, Stays
<1>3. CASE ReceiverArm(c)
  BY <1>t, <1>3 DEF ReceiverArm, mainVars, sharedVars, OthersKeep, Stays
<1>f. ASSUME rpc[c] \in {"select", "woken"}, NEW done, NEW flying, AfterFrame(c, done, flying)
      PROVE  /\ cancelled => cancelled'
             /\ \A d \in Channels : Stays(wpc, wpc', d)
             /\ \A d \in Channels \ {c} : Stays(rpc, rpc', d)
  BY <1>t, <1>w, <1>f DEF AfterFrame, Stays
<1>4. CASE ReceiverAck(c)
  <2>1. AfterFrame(c, completed', inFlight'[c]) /\ rpc[c] \in {"select", "woken"}
    BY <1>4 DEF ReceiverAck
  <2>2. inFlight' = [inFlight EXCEPT ![c] = @ \ {Head(answers[c]).id}]
    BY <1>4 DEF ReceiverAck
  <2>3. UNCHANGED <<phase, live, primary, disconnected, late>>
    BY <1>4 DEF ReceiverAck, mainVars
  <2> QED BY <1>t, <1>f, <2>1, <2>2, <2>3 DEF OthersKeep
<1>5. CASE ReceiverNack(c)
  <2>1. AfterFrame(c, completed, inFlight'[c]) /\ rpc[c] \in {"select", "woken"}
    BY <1>5 DEF ReceiverNack
  <2>2. inFlight' = [inFlight EXCEPT ![c] = @ \ {Head(answers[c]).id}]
    BY <1>5 DEF ReceiverNack
  <2>3. UNCHANGED <<phase, live, primary, disconnected, late>>
    BY <1>5 DEF ReceiverNack, mainVars
  <2> QED BY <1>t, <1>f, <2>1, <2>2, <2>3 DEF OthersKeep
<1>6. CASE ReceiverEof(c)
  BY <1>t, <1>6, <1>w DEF ReceiverEof, mainVars, sharedVars, OthersKeep, Stays
<1> QED BY <1>1, <1>2, <1>3, <1>4, <1>5, <1>6 DEF Receive

------------------------------------------------------------------------------
(* ChannelInv is inductive.                                                  *)

LEMMA InFlightFinite ==
  ASSUME NEW S \in SUBSET Chunks
  PROVE  IsFiniteSet(S) /\ Cardinality(S) \in Nat
<1>1. IsFiniteSet(Chunks) BY ConstantsOK, FS_Interval DEF Chunks
<1> QED BY <1>1, FS_Subset, FS_CardinalityType

LEMMA ChannelInit == Init => ChannelInv
<1> SUFFICES ASSUME Init PROVE ChannelInv
  OBVIOUS
<1>1. TasksInv BY DEF Init, TasksInv
<1>2. DisconnectInv BY DEF Init, DisconnectInv
<1>3. WindowInv
  BY ConstantsOK, FS_EmptySet DEF Init, WindowInv, WindowRespected
<1>4. LateInv BY DEF Init, LateInv
<1>5. PrimaryIsHealthy BY DEF Init, PrimaryIsHealthy
<1> QED BY <1>1, <1>2, <1>3, <1>4, <1>5 DEF ChannelInv

LEMMA ChannelTransmit ==
  ASSUME NEW c \in Channels PROVE TypeOK /\ ChannelInv /\ Transmit(c) => ChannelInv'
<1> SUFFICES ASSUME TypeOK, ChannelInv, Transmit(c) PROVE ChannelInv'
  OBVIOUS
<1>0. TasksInv /\ DisconnectInv /\ WindowInv /\ LateInv /\ PrimaryIsHealthy
  BY DEF ChannelInv
<1>t. TypeOK' BY TypeTransmit
<1>p. phase = "streaming" /\ phase' = "streaming" /\ c \in live
  BY <1>0, TransmitShape DEF TasksInv
<1>1. TasksInv'
  BY <1>0, <1>p, TransmitShape DEF TasksInv, OthersKeep, Stays
<1>2. DisconnectInv'
  BY <1>0, TransmitShape DEF DisconnectInv, OthersKeep, Stays
<1>3. WindowInv'
  <2> SUFFICES ASSUME NEW d \in Channels
               PROVE  /\ Cardinality(inFlight'[d]) <= MaxWindow
                      /\ wpc'[d] \in {"select", "woken"} =>
                           Cardinality(inFlight'[d]) < MaxWindow
    BY DEF WindowInv, WindowRespected
  <2>1. CASE d # c
    BY <1>0, <2>1, TransmitShape DEF WindowInv, WindowRespected, OthersKeep, Stays
  <2>2. CASE d = c
    <3>1. limit[c] \in 0 .. MaxWindow /\ inFlight[c] \in SUBSET Chunks
      BY DEF TypeOK, ChanTyped
    <3>2. Cardinality(inFlight[c]) \in Nat /\ IsFiniteSet(inFlight[c])
      BY <3>1, InFlightFinite
    <3>3. CASE inFlight'[c] = inFlight[c] /\ wpc'[c] \notin {"select", "woken"}
      BY <1>0, <2>2, <3>3 DEF WindowInv, WindowRespected
    <3>4. CASE inFlight'[c] = {} /\ wpc'[c] = "exitDead"
      BY <2>2, <3>4, FS_EmptySet, ConstantsOK
    <3>5. CASE /\ inFlight'[c] = inFlight[c] /\ wpc'[c] = "select"
               /\ ~(Cardinality(inFlight[c]) >= limit[c])
      BY <2>2, <3>1, <3>2, <3>5, ConstantsOK
    <3>6. CASE /\ \E k \in Chunks : inFlight'[c] = inFlight[c] \cup {k}
               /\ wpc[c] \in {"select", "woken"} /\ wpc'[c] = "sending"
      <4>k. PICK k \in Chunks : inFlight'[c] = inFlight[c] \cup {k}
        BY <3>6
      <4>a. Cardinality(inFlight[c] \cup {k}) \in
              {Cardinality(inFlight[c]), Cardinality(inFlight[c]) + 1}
        BY <3>2, FS_AddElement
      <4>1. Cardinality(inFlight'[c]) <= Cardinality(inFlight[c]) + 1
        BY <3>2, <4>k, <4>a
      <4>2. Cardinality(inFlight'[c]) \in Nat
        BY <1>t, InFlightFinite DEF TypeOK, ChanTyped
      <4> QED BY <1>0, <2>2, <3>2, <3>6, <4>1, <4>2, ConstantsOK DEF WindowInv
    <3> QED BY <3>3, <3>4, <3>5, <3>6, TransmitShape
  <2> QED BY <2>1, <2>2
<1>4. LateInv'
  <2> SUFFICES ASSUME NEW d \in Channels
               PROVE  \/ late'[d] = 0
                      \/ /\ late'[d] = 1 /\ cancelled'
                         /\ wpc'[d] \in {"off", "top", "exitAlive"}
    BY DEF LateInv
  <2>1. late[c] \in Nat /\ cancelled \in BOOLEAN
    BY DEF TypeOK, ChanTyped, SharedTyped
  <2> QED BY <1>0, <2>1, TransmitShape DEF LateInv, OthersKeep, Stays
<1>5. PrimaryIsHealthy'
  BY <1>p DEF PrimaryIsHealthy
<1> QED BY <1>1, <1>2, <1>3, <1>4, <1>5 DEF ChannelInv

LEMMA ChannelReceive ==
  ASSUME NEW c \in Channels PROVE TypeOK /\ ChannelInv /\ Receive(c) => ChannelInv'
<1> SUFFICES ASSUME TypeOK, ChannelInv, Receive(c) PROVE ChannelInv'
  OBVIOUS
<1>0. TasksInv /\ DisconnectInv /\ WindowInv /\ LateInv /\ PrimaryIsHealthy
  BY DEF ChannelInv
<1>p. phase = "streaming" /\ phase' = "streaming" /\ c \in live
  BY <1>0, ReceiveShape DEF TasksInv
<1>1. TasksInv'
  BY <1>0, <1>p, ReceiveShape DEF TasksInv, OthersKeep, Stays
<1>2. DisconnectInv'
  BY <1>0, ReceiveShape DEF DisconnectInv, OthersKeep, Stays
<1>3. WindowInv'
  <2> SUFFICES ASSUME NEW d \in Channels
               PROVE  /\ Cardinality(inFlight'[d]) <= MaxWindow
                      /\ wpc'[d] \in {"select", "woken"} =>
                           Cardinality(inFlight'[d]) < MaxWindow
    BY DEF WindowInv, WindowRespected
  <2>1. inFlight[d] \in SUBSET Chunks /\ inFlight'[d] \subseteq inFlight[d]
    BY ReceiveShape DEF TypeOK, ChanTyped, OthersKeep
  <2>2. /\ Cardinality(inFlight'[d]) <= Cardinality(inFlight[d])
        /\ Cardinality(inFlight'[d]) \in Nat /\ Cardinality(inFlight[d]) \in Nat
    BY <2>1, InFlightFinite, FS_Subset
  <2>3. wpc'[d] \in {"select", "woken"} => wpc[d] \in {"select", "woken"}
    BY ReceiveShape DEF OthersKeep, Stays
  <2> QED BY <1>0, <2>2, <2>3, ConstantsOK DEF WindowInv, WindowRespected
<1>4. LateInv'
  BY <1>0, ReceiveShape DEF LateInv, OthersKeep, Stays
<1>5. PrimaryIsHealthy'
  BY <1>p DEF PrimaryIsHealthy
<1> QED BY <1>1, <1>2, <1>3, <1>4, <1>5 DEF ChannelInv

LEMMA ChannelMain == TypeOK /\ ChannelInv /\ Main => ChannelInv'
<1> SUFFICES ASSUME TypeOK, ChannelInv, Main PROVE ChannelInv'
  OBVIOUS
<1>0. TasksInv /\ DisconnectInv /\ WindowInv /\ LateInv /\ PrimaryIsHealthy
  BY DEF ChannelInv
<1>1. CASE StartStreaming
  <2> USE <1>0, <1>1 DEF StartStreaming
  <2>1. TasksInv' BY DEF TasksInv
  <2>2. DisconnectInv' BY DEF TasksInv, DisconnectInv
  <2>3. WindowInv' BY DEF WindowInv, WindowRespected
  <2>4. LateInv' BY DEF LateInv
  <2>5. PrimaryIsHealthy' BY DEF PrimaryIsHealthy
  <2> QED BY <2>1, <2>2, <2>3, <2>4, <2>5 DEF ChannelInv
<1>2. CASE JoinWorkers
  <2> USE <1>0, <1>2 DEF JoinWorkers, chanVars
  <2>1. TasksInv' BY DEF TasksInv, WriterGone, ReceiverGone
  <2>2. DisconnectInv' BY DEF DisconnectInv
  <2>3. WindowInv' BY DEF WindowInv, WindowRespected
  <2>4. LateInv' BY DEF LateInv
  <2>5. PrimaryIsHealthy'
    <3>1. primary' # 0 => primary' \in Survivors
      BY DEF Least
    <3>2. Survivors \subseteq Channels /\ Survivors \subseteq live
      BY DEF Survivors, TypeOK, MainTyped
    <3>3. \A c \in Survivors : ~disconnected[c]
      BY <3>2 DEF Survivors, Alive, DisconnectInv
    <3> QED BY <3>1, <3>2, <3>3 DEF PrimaryIsHealthy
  <2> QED BY <2>1, <2>2, <2>3, <2>4, <2>5 DEF ChannelInv
<1>3. CASE HandshakeAccepted
  <2> USE <1>0, <1>3 DEF HandshakeAccepted, chanVars, sharedVars
  <2>1. TasksInv' BY DEF TasksInv
  <2>2. DisconnectInv' BY DEF DisconnectInv
  <2>3. WindowInv' BY DEF WindowInv, WindowRespected
  <2>4. LateInv' BY DEF LateInv
  <2>5. PrimaryIsHealthy' BY DEF PrimaryIsHealthy
  <2> QED BY <2>1, <2>2, <2>3, <2>4, <2>5 DEF ChannelInv
<1>4. CASE NothingMissing
  <2> USE <1>0, <1>4 DEF NothingMissing, chanVars
  <2>1. TasksInv' BY DEF TasksInv
  <2>2. DisconnectInv' BY DEF DisconnectInv
  <2>3. WindowInv' BY DEF WindowInv, WindowRespected
  <2>4. LateInv' BY DEF LateInv
  <2>5. PrimaryIsHealthy' BY DEF PrimaryIsHealthy, TasksInv, Least, TypeOK, MainTyped
  <2> QED BY <2>1, <2>2, <2>3, <2>4, <2>5 DEF ChannelInv
<1>5. CASE \/ HandshakeFailed \/ HandshakeRejected \/ NoChannelLeft \/ GiveUp
           \/ DecideComplete \/ SendComplete \/ SendCompleteFailed
           \/ FinalFrame \/ FinalEof
  <2>1. UNCHANGED <<chanVars, live, primary, cancelled>>
    BY <1>5 DEF HandshakeFailed, HandshakeRejected, NoChannelLeft, GiveUp, DecideComplete,
                SendComplete, SendCompleteFailed, FinalFrame, FinalEof, sharedVars
  <2>2. \/ phase' = phase
        \/ phase' = "done" /\ phase # "streaming"
        \/ {phase, phase'} \subseteq {"joined", "complete", "finalAck"}
    BY <1>5 DEF HandshakeFailed, HandshakeRejected, NoChannelLeft, GiveUp, DecideComplete,
                SendComplete, SendCompleteFailed, FinalFrame, FinalEof, Finish
  <2>3. TasksInv' BY <1>0, <2>1, <2>2 DEF TasksInv, chanVars
  <2>4. DisconnectInv' BY <1>0, <2>1 DEF DisconnectInv, chanVars
  <2>5. WindowInv' BY <1>0, <2>1 DEF WindowInv, WindowRespected, chanVars
  <2>6. LateInv' BY <1>0, <2>1 DEF LateInv, chanVars
  <2>7. PrimaryIsHealthy' BY <1>0, <2>1, <2>2 DEF PrimaryIsHealthy, chanVars
  <2> QED BY <2>3, <2>4, <2>5, <2>6, <2>7 DEF ChannelInv
<1> QED BY <1>1, <1>2, <1>3, <1>4, <1>5 DEF Main

LEMMA ChannelStep == TypeOK /\ ChannelInv /\ [Next]_vars => ChannelInv'
<1> SUFFICES ASSUME TypeOK, ChannelInv, [Next]_vars PROVE ChannelInv'
  OBVIOUS
<1>f. ASSUME UNCHANGED <<mainVars, chanVars>>, cancelled => cancelled'
      PROVE  ChannelInv'
  <2> USE <1>f DEF mainVars, chanVars, ChannelInv
  <2>1. TasksInv' BY DEF TasksInv
  <2>2. DisconnectInv' BY DEF DisconnectInv
  <2>3. WindowInv' BY DEF WindowInv, WindowRespected
  <2>4. LateInv' BY DEF LateInv
  <2>5. PrimaryIsHealthy' BY DEF PrimaryIsHealthy
  <2> QED BY <2>1, <2>2, <2>3, <2>4, <2>5
<1>1. CASE UNCHANGED vars
  BY <1>1, <1>f DEF vars, sharedVars
<1>2. CASE Reader
  BY <1>2, <1>f DEF Reader, ReaderTakeRetry, ReaderTakePending, ReaderFail, ReaderSend,
                    ReaderExit, sharedVars
<1>3. CASE \E c \in Channels : Peer(c) \/ LinkDown(c)
  BY <1>3, <1>f DEF Peer, PeerChunkGood, PeerChunkCorrupt, PeerComplete, LinkDown, sharedVars
<1>4. CASE \E r \in UserRequests : UserRequest(r)
  BY <1>4, <1>f DEF UserRequest
<1> QED
  BY <1>1, <1>2, <1>3, <1>4, ChannelMain, ChannelTransmit, ChannelReceive DEF Next

LEMMA ChannelCorrect == Spec => [](TypeOK /\ ChannelInv)
<1>1. Init => TypeOK /\ ChannelInv BY TypeInit, ChannelInit
<1>2. TypeOK /\ ChannelInv /\ [Next]_vars => TypeOK' /\ ChannelInv'
  BY TypeStep, ChannelStep
<1> QED BY <1>1, <1>2, PTL DEF Spec

\* However the acknowledgements of a channel change its window while its
\* transmit task is between the check and the send, no more than MaxWindow
\* chunks are ever in flight on it.
THEOREM WindowIsRespected == Spec => []WindowRespected
<1>1. ChannelInv => WindowRespected BY DEF ChannelInv, WindowInv
<1> QED BY <1>1, ChannelCorrect, PTL

\* The channel the session finalises on is one whose handshake was accepted and
\* on which neither task saw a failure.
THEOREM PrimaryStaysHealthy == Spec => []PrimaryIsHealthy
<1>1. ChannelInv => PrimaryIsHealthy BY DEF ChannelInv
<1> QED BY <1>1, ChannelCorrect, PTL

\* After the stop flag is raised each channel sends at most the chunk it had
\* already taken from the queue.
THEOREM SendingStops == Spec => []StopsSending
<1>1. ChannelInv => StopsSending BY DEF ChannelInv, LateInv, StopsSending
<1> QED BY <1>1, ChannelCorrect, PTL

------------------------------------------------------------------------------
(* DeliveryInv is inductive.                                                 *)

\* Counting the acknowledged ids is enough because they are chunks of the plan.
LEMMA CountingIsEnough ==
  ASSUME NEW S \in SUBSET Chunks, AllCompleted(S)
  PROVE  S = Chunks
<1>1. IsFiniteSet(Chunks) /\ Cardinality(Chunks) = NChunks
  BY ConstantsOK, FS_Interval DEF Chunks
<1>2. Cardinality(S) <= NChunks /\ (Cardinality(S) = NChunks => S = Chunks)
  BY <1>1, FS_Subset
<1>3. Cardinality(S) \in Nat
  BY InFlightFinite
<1> QED BY <1>2, <1>3, ConstantsOK DEF AllCompleted

LEMMA AllOfPlan == AllCompleted(Chunks)
BY ConstantsOK, FS_Interval DEF AllCompleted, Chunks

LEMMA DeliveryInit == Init => DeliveryInv
<1> SUFFICES ASSUME Init PROVE DeliveryInv
  OBVIOUS
<1>1. \A c \in Channels : wire[c] \in Seq(RequestsNow) /\ answers[c] \in Seq(RepliesNow)
  <2> SUFFICES ASSUME NEW c \in Channels
               PROVE  wire[c] \in Seq(RequestsNow) /\ answers[c] \in Seq(RepliesNow)
    OBVIOUS
  <2>1. wire[c] = <<>> /\ answers[c] = <<>>
    BY DEF Init
  <2>2. <<>> \in Seq(RequestsNow) /\ <<>> \in Seq(RepliesNow)
    BY EmptySeq
  <2> QED BY <2>1, <2>2
<1>2. /\ resumed \subseteq vouched /\ completed \subseteq vouched
      /\ ~confirmed /\ phase = "handshake" /\ result = "none"
  BY DEF Init
<1> QED BY <1>1, <1>2 DEF DeliveryInv

LEMMA CompletedIsPlan ==
  ASSUME TypeOK, DeliveryInv, AllCompleted(completed)
  PROVE  completed = Chunks /\ vouched = Chunks
<1>1. vouched \subseteq Chunks /\ completed \subseteq vouched
  BY DEF TypeOK, NetTyped, DeliveryInv
<1> QED BY <1>1, CountingIsEnough

LEMMA DeliveryMain == TypeOK /\ DeliveryInv /\ Main => DeliveryInv'
<1> SUFFICES ASSUME TypeOK, DeliveryInv, Main PROVE DeliveryInv'
  OBVIOUS
<1>t. vouched \subseteq Chunks /\ resumed \subseteq Chunks
  BY DEF TypeOK, MainTyped, NetTyped
<1>f. ASSUME UNCHANGED <<vouched, confirmed, completed, wire>>,
             \A c \in Channels : answers'[c] \in Seq(RepliesNow),
             phase \in {"finalAck", "done"} => phase' \in {"finalAck", "done"}
      PROVE  \A c \in Channels : wire'[c] \in Seq(RequestsNow') /\ answers'[c] \in Seq(RepliesNow')
  <2>1. RequestsNow \subseteq RequestsNow' BY <1>f DEF RequestsNow
  <2>2. RepliesNow = RepliesNow' BY <1>f DEF RepliesNow
  <2> QED BY <1>f, <2>1, <2>2, SeqMonotonic DEF DeliveryInv
<1>1. CASE \/ HandshakeFailed \/ HandshakeRejected \/ NoChannelLeft
           \/ JoinWorkers \/ GiveUp \/ SendCompleteFailed \/ FinalEof \/ DecideComplete
  <2>1. /\ UNCHANGED <<vouched, confirmed, completed, wire, answers, resumed>>
        /\ \/ phase' = phase /\ result' = result
           \/ phase' = "done" /\ result' # "Ok"
           \/ phase' = "joined" /\ result' = result /\ phase = "streaming"
           \/ phase' = "complete" /\ result' = result /\ phase = "joined"
              /\ AllCompleted(completed)
    BY <1>1 DEF HandshakeFailed, HandshakeRejected, NoChannelLeft, JoinWorkers, GiveUp,
                SendCompleteFailed, FinalEof, DecideComplete, Finish, Verdict, netVars,
                sharedVars, TypeOK, SharedTyped
  <2>2. \A c \in Channels : wire'[c] \in Seq(RequestsNow') /\ answers'[c] \in Seq(RepliesNow')
    BY <1>f, <2>1 DEF DeliveryInv
  <2> QED BY <2>1, <2>2 DEF DeliveryInv
<1>2. CASE NothingMissing \/ StartStreaming
  <2>1. /\ UNCHANGED <<vouched, confirmed, wire, answers, resumed, result>>
        /\ completed' = Chunks \cap resumed /\ phase = "handshake"
        /\ \/ phase' = "complete" /\ completed' = Chunks
           \/ phase' = "streaming"
    BY <1>2, <1>t DEF NothingMissing, StartStreaming, netVars
  <2>2. \A c \in Channels : wire'[c] \in Seq(RequestsNow') /\ answers'[c] \in Seq(RepliesNow')
    <3>1. RequestsNow \subseteq RequestsNow' BY <2>1 DEF RequestsNow
    <3>2. RepliesNow = RepliesNow' BY <2>1 DEF RepliesNow
    <3> QED BY <2>1, <3>1, <3>2, SeqMonotonic DEF DeliveryInv
  <2> QED BY <2>1, <2>2, AllOfPlan DEF DeliveryInv
<1>3. CASE SendComplete
  <2>1. /\ UNCHANGED <<vouched, confirmed, completed, answers, resumed, result>>
        /\ phase = "complete" /\ phase' = "finalAck"
    BY <1>3 DEF SendComplete, sharedVars
  <2>2. RequestsNow \subseteq RequestsNow' /\ RepliesNow = RepliesNow'
    BY <2>1 DEF RequestsNow, RepliesNow
  <2>c. vouched = Chunks
    BY <2>1, CompletedIsPlan DEF DeliveryInv
  <2>3. Complete \in RequestsNow'
    BY <2>1, <2>c, Frames DEF RequestsNow
  <2>4. \A c \in Channels : wire[c] \in Seq(RequestsNow')
    BY <2>2, SeqMonotonic DEF DeliveryInv
  <2>5. primary \in Channels /\ wire \in [Channels -> Seq(Requests)]
    BY <2>1 DEF TypeOK, MainTyped, NetTyped
  <2>6. Append(wire[primary], Complete) \in Seq(RequestsNow')
    BY <2>3, <2>4, <2>5, AppendProperties
  <2>7. \A c \in Channels : wire'[c] \in Seq(RequestsNow')
    BY <1>3, <2>4, <2>5, <2>6 DEF SendComplete
  <2> QED BY <2>1, <2>2, <2>7 DEF DeliveryInv
<1>4. CASE FinalFrame
  <2>1. /\ UNCHANGED <<vouched, confirmed, completed, wire, resumed>>
        /\ phase = "finalAck" /\ phase' \in {"finalAck", "done"} /\ answers[primary] # <<>>
        /\ answers' = [answers EXCEPT ![primary] = Tail(@)]
        /\ \/ result' = result
           \/ result' = "Unexpected"
           \/ /\ Head(answers[primary]).kind = "ack" /\ Head(answers[primary]).id = FinalId
    BY <1>4 DEF FinalFrame, sharedVars
  <2>2. primary \in Channels /\ answers \in [Channels -> Seq(Replies)]
    BY <2>1 DEF TypeOK, MainTyped, NetTyped
  <2>3. answers[primary] \in Seq(RepliesNow)
    BY <2>2 DEF DeliveryInv
  <2>4. Head(answers[primary]) \in RepliesNow /\ Tail(answers[primary]) \in Seq(RepliesNow)
    BY <2>1, <2>3, HeadTailProperties
  <2>5. \A c \in Channels : answers'[c] \in Seq(RepliesNow)
    BY <2>1, <2>2, <2>4 DEF DeliveryInv
  <2>6. \A c \in Channels : wire'[c] \in Seq(RequestsNow') /\ answers'[c] \in Seq(RepliesNow')
    BY <1>f, <2>1, <2>5
  <2>7. result' = "Ok" => confirmed'
    BY <2>1, <2>4 DEF RepliesNow, DeliveryInv
  <2> QED BY <2>1, <2>6, <2>7 DEF DeliveryInv
<1>5. CASE HandshakeAccepted
  <2>1. PICK ranges \in SUBSET Chunks :
          resumed' = resumed \cup ranges /\ vouched' = vouched \cup ranges
    BY <1>5 DEF HandshakeAccepted
  <2>2. UNCHANGED <<phase, result, completed, wire, answers, confirmed>>
    BY <1>5 DEF HandshakeAccepted, sharedVars
  <2>3. RequestsNow \subseteq RequestsNow' /\ RepliesNow \subseteq RepliesNow'
    BY <1>t, <2>1, <2>2 DEF RequestsNow, RepliesNow
  <2>4. \A c \in Channels : wire'[c] \in Seq(RequestsNow') /\ answers'[c] \in Seq(RepliesNow')
    BY <2>2, <2>3, SeqMonotonic DEF DeliveryInv
  <2> QED BY <1>t, <2>1, <2>2, <2>4 DEF DeliveryInv
<1> QED BY <1>1, <1>2, <1>3, <1>4, <1>5 DEF Main

\* Tasks of a session that streams: they move chunks, and believe acknowledgements.
LEMMA DeliveryTasks ==
  ASSUME NEW c \in Channels
  PROVE  TypeOK /\ ChannelInv /\ DeliveryInv /\ (Transmit(c) \/ Receive(c)) => DeliveryInv'
<1> SUFFICES ASSUME TypeOK, ChannelInv, DeliveryInv, Transmit(c) \/ Receive(c)
             PROVE  DeliveryInv'
  OBVIOUS
<1>p. phase = "streaming" /\ phase' = "streaming"
  BY TransmitShape, ReceiveShape DEF ChannelInv, TasksInv
<1>m. UNCHANGED <<resumed, result, vouched, confirmed>>
  BY DEF Transmit, WriterStop, WriterObserveControl, WriterProceed, WriterWindow, WriterCount,
         WriterSpurious, WriterRecv, WriterRecvClosed, WriterSent, WriterSendFailed,
         Receive, ReceiverStop, ReceiverProceed, ReceiverArm, ReceiverAck, ReceiverNack,
         ReceiverEof, mainVars, netVars
<1>r. RequestsNow' = RequestsNow /\ RepliesNow' = RepliesNow
  BY <1>p, <1>m DEF RequestsNow, RepliesNow
<1>t. /\ wire \in [Channels -> Seq(Requests)] /\ answers \in [Channels -> Seq(Replies)]
      /\ \A d \in Channels : wire[d] \in Seq(RequestsNow) /\ answers[d] \in Seq(RepliesNow)
  BY DEF TypeOK, NetTyped, DeliveryInv
<1>a. ASSUME answers[c] # <<>>
      PROVE  Head(answers[c]) \in RepliesNow /\ Tail(answers[c]) \in Seq(RepliesNow)
  BY <1>a, <1>t, HeadTailProperties
<1>1. CASE UNCHANGED <<wire, answers, completed>>
  BY <1>1, <1>p, <1>m, <1>r DEF DeliveryInv
<1>2. CASE WriterSent(c)
  <2>1. Data(wchunk[c]) \in RequestsNow
    BY <1>2, Frames DEF WriterSent, TypeOK, ChanTyped, RequestsNow, Data
  <2>2. Append(wire[c], Data(wchunk[c])) \in Seq(RequestsNow)
    BY <2>1, <1>t, AppendProperties
  <2>3. \A d \in Channels : wire'[d] \in Seq(RequestsNow)
    BY <1>2, <1>t, <2>2 DEF WriterSent
  <2>4. UNCHANGED <<answers, completed>>
    BY <1>2 DEF WriterSent, sharedVars
  <2> QED BY <1>p, <1>m, <1>r, <2>3, <2>4 DEF DeliveryInv
<1>3. CASE ReceiverAck(c)
  <2>1. Head(answers[c]).kind = "ack" /\ Head(answers[c]) \in RepliesNow
    BY <1>3, <1>a DEF ReceiverAck
  <2>2. ~confirmed
    BY <1>p DEF DeliveryInv
  <2>3. Head(answers[c]).id \in vouched
    BY <2>1, <2>2 DEF RepliesNow
  <2>4. completed' \subseteq vouched
    BY <1>3, <2>3 DEF ReceiverAck, DeliveryInv
  <2>5. \A d \in Channels : answers'[d] \in Seq(RepliesNow)
    BY <1>3, <1>a, <1>t DEF ReceiverAck
  <2>6. UNCHANGED wire
    BY <1>3 DEF ReceiverAck
  <2> QED BY <1>p, <1>m, <1>r, <2>4, <2>5, <2>6 DEF DeliveryInv
<1>4. CASE ReceiverNack(c)
  <2>1. \A d \in Channels : answers'[d] \in Seq(RepliesNow)
    BY <1>4, <1>a, <1>t DEF ReceiverNack
  <2>2. UNCHANGED <<wire, completed>>
    BY <1>4 DEF ReceiverNack
  <2> QED BY <1>p, <1>m, <1>r, <2>1, <2>2 DEF DeliveryInv
<1>5. \/ UNCHANGED <<wire, answers, completed>>
      \/ WriterSent(c) \/ ReceiverAck(c) \/ ReceiverNack(c)
  BY DEF Transmit, WriterStop, WriterObserveControl, WriterProceed, WriterWindow, WriterCount,
         WriterSpurious, WriterRecv, WriterRecvClosed, WriterSendFailed,
         Receive, ReceiverStop, ReceiverProceed, ReceiverArm, ReceiverEof,
         netVars, sharedVars
<1> QED BY <1>1, <1>2, <1>3, <1>4, <1>5

LEMMA DeliveryEnvironment ==
  ASSUME NEW c \in Channels
  PROVE  TypeOK /\ DeliveryInv /\ (Peer(c) \/ LinkDown(c)) => DeliveryInv'
<1> SUFFICES ASSUME TypeOK, DeliveryInv, Peer(c) \/ LinkDown(c) PROVE DeliveryInv'
  OBVIOUS
<1>m. /\ UNCHANGED <<mainVars, sharedVars>>
      /\ vouched \subseteq vouched' /\ confirmed' \in {confirmed, TRUE}
  BY DEF Peer, PeerChunkGood, PeerChunkCorrupt, PeerComplete, LinkDown
<1>p. UNCHANGED <<phase, result, resumed, completed>>
  BY <1>m DEF mainVars, sharedVars
<1>t. /\ wire \in [Channels -> Seq(Requests)] /\ answers \in [Channels -> Seq(Replies)]
      /\ vouched \subseteq Chunks /\ confirmed \in BOOLEAN
  BY DEF TypeOK, NetTyped
<1>v. vouched' \subseteq Chunks
  BY TypeEnvironment DEF TypeOK, NetTyped
<1>s. \A d \in Channels : wire[d] \in Seq(RequestsNow') /\ answers[d] \in Seq(RepliesNow')
  <2>1. RequestsNow \subseteq RequestsNow' BY <1>m, <1>p, <1>v DEF RequestsNow
  <2>2. RepliesNow \subseteq RepliesNow' BY <1>m, <1>t DEF RepliesNow
  <2> QED BY <2>1, <2>2, SeqMonotonic DEF DeliveryInv
<1>w. ASSUME wire[c] # <<>>
      PROVE  /\ Head(wire[c]) \in RequestsNow' /\ Head(wire[c]) \in Requests
             /\ Tail(wire[c]) \in Seq(RequestsNow')
  BY <1>w, <1>s, <1>t, HeadTailProperties
<1>a. ASSUME NEW m \in RepliesNow' PROVE Append(answers[c], m) \in Seq(RepliesNow')
  BY <1>a, <1>s, AppendProperties
<1>1. CASE PeerChunkGood(c)
  <2> DEFINE k == Head(wire[c]).id
  <2>1. k \in Chunks /\ Tail(wire[c]) \in Seq(RequestsNow')
    BY <1>1, <1>w, Frames DEF PeerChunkGood
  <2>2. Ack(k) \in RepliesNow'
    BY <1>1, <2>1, Frames, ConstantsOK DEF PeerChunkGood, RepliesNow, Ids, Ack
  <2>3. \A d \in Channels : wire'[d] \in Seq(RequestsNow') /\ answers'[d] \in Seq(RepliesNow')
    BY <1>1, <1>a, <1>s, <1>t, <2>1, <2>2 DEF PeerChunkGood
  <2>4. confirmed' = confirmed /\ (vouched = Chunks => vouched' = Chunks)
    BY <1>1, <1>t, <2>1 DEF PeerChunkGood
  <2>5. resumed' \subseteq vouched' /\ completed' \subseteq vouched'
    BY <1>m, <1>p DEF DeliveryInv
  <2> QED BY <1>p, <2>3, <2>4, <2>5 DEF DeliveryInv
<1>2. CASE PeerChunkCorrupt(c)
  <2> DEFINE k == Head(wire[c]).id
  <2>1. k \in Chunks /\ Tail(wire[c]) \in Seq(RequestsNow')
    BY <1>2, <1>w, Frames DEF PeerChunkCorrupt
  <2>2. Nack(k) \in RepliesNow'
    BY <2>1, Frames DEF RepliesNow, Nack
  <2>3. \A d \in Channels : wire'[d] \in Seq(RequestsNow') /\ answers'[d] \in Seq(RepliesNow')
    BY <1>2, <1>a, <1>s, <1>t, <2>1, <2>2 DEF PeerChunkCorrupt
  <2>4. UNCHANGED <<vouched, confirmed>>
    BY <1>2 DEF PeerChunkCorrupt
  <2> QED BY <1>m, <1>p, <2>3, <2>4 DEF DeliveryInv
<1>3. CASE PeerComplete(c)
  <2>1. Head(wire[c]).kind = "complete" /\ Head(wire[c]) \in RequestsNow'
    BY <1>3, <1>w DEF PeerComplete
  <2>2. Tail(wire[c]) \in Seq(RequestsNow')
    BY <1>3, <1>w DEF PeerComplete
  <2>3. phase \in {"finalAck", "done"} /\ vouched' = Chunks
    BY <2>1, <1>p DEF RequestsNow
  <2>4. confirmed' /\ vouched' = vouched
    BY <1>3 DEF PeerComplete
  <2>5. Ack(FinalId) \in RepliesNow'
    BY <2>4, Frames DEF RepliesNow, Ids, Ack
  <2>6. \A d \in Channels : wire'[d] \in Seq(RequestsNow') /\ answers'[d] \in Seq(RepliesNow')
    BY <1>3, <1>a, <1>s, <1>t, <2>2, <2>5 DEF PeerComplete
  <2> QED BY <1>p, <2>3, <2>4, <2>6 DEF DeliveryInv
<1>4. CASE LinkDown(c)
  <2>1. PICK e : e = <<>> /\ e \in Seq(RequestsNow') /\ e \in Seq(RepliesNow')
    BY EmptySeq
  <2>2. /\ wire' = [wire EXCEPT ![c] = e]
        /\ \E kept \in {answers[c], e} : answers' = [answers EXCEPT ![c] = kept]
    BY <1>4, <2>1 DEF LinkDown
  <2>3. \A d \in Channels : wire'[d] \in Seq(RequestsNow') /\ answers'[d] \in Seq(RepliesNow')
    BY <1>s, <1>t, <2>1, <2>2
  <2>4. UNCHANGED <<vouched, confirmed>>
    BY <1>4 DEF LinkDown
  <2> QED BY <1>m, <1>p, <2>3, <2>4 DEF DeliveryInv
<1> QED BY <1>1, <1>2, <1>3, <1>4 DEF Peer

LEMMA DeliveryStep == TypeOK /\ ChannelInv /\ DeliveryInv /\ [Next]_vars => DeliveryInv'
<1> SUFFICES ASSUME TypeOK, ChannelInv, DeliveryInv, [Next]_vars PROVE DeliveryInv'
  OBVIOUS
<1>f. ASSUME UNCHANGED <<mainVars, netVars, completed>> PROVE DeliveryInv'
  <2>1. UNCHANGED <<phase, result, resumed, completed, wire, answers, vouched, confirmed>>
    BY <1>f DEF mainVars, netVars
  <2>2. RequestsNow' = RequestsNow /\ RepliesNow' = RepliesNow
    BY <2>1 DEF RequestsNow, RepliesNow
  <2> QED BY <2>1, <2>2 DEF DeliveryInv
<1>1. CASE UNCHANGED vars
  BY <1>1, <1>f DEF vars, sharedVars
<1>2. CASE Reader
  BY <1>2, <1>f DEF Reader, ReaderTakeRetry, ReaderTakePending, ReaderFail, ReaderSend,
                    ReaderExit, sharedVars, chanVars
<1>3. CASE \E r \in UserRequests : UserRequest(r)
  BY <1>3, <1>f DEF UserRequest
<1> QED
  BY <1>1, <1>2, <1>3, DeliveryMain, DeliveryTasks, DeliveryEnvironment DEF Next

\* Complete goes out, and success is reported, only when the peer has vouched for
\* every chunk, for every plan, number of channels, resume ranges, refusal,
\* rejection and broken link.
THEOREM CompletionIsHonest == Spec => []CompleteMeansVouched
<1>1. Init => TypeOK /\ ChannelInv /\ DeliveryInv
  BY TypeInit, ChannelInit, DeliveryInit
<1>2. TypeOK /\ ChannelInv /\ DeliveryInv /\ [Next]_vars
        => TypeOK' /\ ChannelInv' /\ DeliveryInv'
  BY TypeStep, ChannelStep, DeliveryStep
<1>3. TypeOK /\ DeliveryInv => CompleteMeansVouched
  <2> SUFFICES ASSUME TypeOK, DeliveryInv PROVE CompleteMeansVouched
    OBVIOUS
  <2>1. vouched \subseteq Chunks /\ completed \subseteq vouched
    BY DEF TypeOK, NetTyped, DeliveryInv
  <2>2. AllCompleted(completed) => completed = Chunks
    BY <2>1, CountingIsEnough
  <2> QED BY <2>1, <2>2 DEF DeliveryInv, CompleteMeansVouched
<1> QED BY <1>1, <1>2, <1>3, PTL DEF Spec

------------------------------------------------------------------------------
(* SenderSession implements FileTransfer: the initial states map to initial  *)
(* states, and every step maps to a step of the promise or to a stutter.     *)

NotComplete == {m \in Requests : m.kind # "complete"}

\* A session that ended in any other way never sent Complete, so the peer will
\* not confirm the file behind its back.
QuietInv ==
  phase = "done" /\ result \notin {"Ok", "Unexpected"} =>
    \A c \in Channels : wire[c] \in Seq(NotComplete)

IInv == TypeOK /\ ChannelInv /\ DeliveryInv /\ QuietInv

promised == <<vouched, Stage, confirmed, status, result>>

------------------------------------------------------------------------------
(* Nothing but losses and deliveries happens to the wires of a session that   *)
(* has returned.                                                             *)

\* The tasks and the reader neither end a session nor run after its end.
LEMMA TasksAreQuiet ==
  ASSUME TypeOK, ChannelInv, NEW c \in Channels, Transmit(c) \/ Receive(c)
  PROVE  /\ phase = "streaming"
         /\ UNCHANGED <<phase, vouched, confirmed, status, result>>
<1>1. phase = "streaming" /\ phase' = phase
  BY TransmitShape, ReceiveShape DEF ChannelInv, TasksInv
<1>2. UNCHANGED <<vouched, confirmed, status, result>>
  BY DEF Transmit, WriterStop, WriterObserveControl, WriterProceed, WriterWindow, WriterCount,
         WriterSpurious, WriterRecv, WriterRecvClosed, WriterSent, WriterSendFailed,
         Receive, ReceiverStop, ReceiverProceed, ReceiverArm, ReceiverAck, ReceiverNack,
         ReceiverEof, mainVars, netVars, sharedVars
<1> QED BY <1>1, <1>2

LEMMA ReaderIsQuiet ==
  ASSUME Reader
  PROVE  UNCHANGED <<phase, vouched, confirmed, status, result, wire>>
BY DEF Reader, ReaderTakeRetry, ReaderTakePending, ReaderFail, ReaderSend, ReaderExit,
       mainVars, sharedVars, netVars

LEMMA QuietMain == TypeOK /\ DeliveryInv /\ Main => QuietInv'
<1> SUFFICES ASSUME TypeOK, DeliveryInv, Main,
                    phase' = "done", result' \notin {"Ok", "Unexpected"},
                    NEW c \in Channels
             PROVE  wire'[c] \in Seq(NotComplete)
  BY DEF QuietInv, NotComplete
<1>1. phase \in {"handshake", "joined", "complete"} /\ wire' = wire
  BY DEF Main, HandshakeAccepted, HandshakeFailed, HandshakeRejected, NoChannelLeft,
         NothingMissing, StartStreaming, JoinWorkers, GiveUp, DecideComplete, SendComplete,
         SendCompleteFailed, FinalFrame, FinalEof, Finish, netVars
<1>2. RequestsNow \subseteq NotComplete
  BY <1>1 DEF RequestsNow, NotComplete
<1>3. wire[c] \in Seq(RequestsNow)
  BY DEF DeliveryInv
<1> QED BY <1>1, <1>2, <1>3, SeqMonotonic

LEMMA QuietEnvironment ==
  ASSUME NEW c \in Channels
  PROVE  TypeOK /\ QuietInv /\ (Peer(c) \/ LinkDown(c)) => QuietInv'
<1> SUFFICES ASSUME TypeOK, QuietInv, Peer(c) \/ LinkDown(c),
                    phase' = "done", result' \notin {"Ok", "Unexpected"},
                    NEW d \in Channels
             PROVE  wire'[d] \in Seq(NotComplete)
  BY DEF QuietInv, NotComplete
<1>1. UNCHANGED <<phase, result>>
  BY DEF Peer, PeerChunkGood, PeerChunkCorrupt, PeerComplete, LinkDown, mainVars
<1>2. \A x \in Channels : wire[x] \in Seq(NotComplete)
  BY <1>1 DEF QuietInv
<1>3. wire \in [Channels -> Seq(Requests)]
  BY DEF TypeOK, NetTyped
<1>4. CASE Peer(c)
  <2>1. wire[c] # <<>> /\ wire' = [wire EXCEPT ![c] = Tail(wire[c])]
    BY <1>4 DEF Peer, PeerChunkGood, PeerChunkCorrupt, PeerComplete
  <2>2. Tail(wire[c]) \in Seq(NotComplete)
    BY <1>2, <2>1, HeadTailProperties
  <2> QED BY <1>2, <1>3, <2>1, <2>2
<1>5. CASE LinkDown(c)
  <2>1. PICK e : e = <<>> /\ e \in Seq(NotComplete)
    BY EmptySeq
  <2>2. wire' = [wire EXCEPT ![c] = e]
    BY <1>5, <2>1 DEF LinkDown
  <2> QED BY <1>2, <1>3, <2>1, <2>2
<1> QED BY <1>4, <1>5

LEMMA QuietStep == IInv /\ [Next]_vars => QuietInv'
<1> SUFFICES ASSUME IInv, [Next]_vars PROVE QuietInv'
  OBVIOUS
<1> USE DEF IInv
<1>f. ASSUME UNCHANGED <<phase, result, wire>> PROVE QuietInv'
  BY <1>f DEF QuietInv
<1>1. CASE UNCHANGED vars
  BY <1>1, <1>f DEF vars, mainVars, netVars
<1>2. CASE Reader
  BY <1>2, <1>f, ReaderIsQuiet
<1>3. CASE \E r \in UserRequests : UserRequest(r)
  BY <1>3, <1>f DEF UserRequest, mainVars, netVars
<1>4. ASSUME NEW c \in Channels, Transmit(c) \/ Receive(c) PROVE QuietInv'
  BY <1>4, TasksAreQuiet DEF QuietInv
<1> QED
  BY <1>1, <1>2, <1>3, <1>4, QuietMain, QuietEnvironment DEF Next

LEMMA IInvCorrect == Spec => []IInv
<1>1. Init => IInv
  BY TypeInit, ChannelInit, DeliveryInit DEF IInv, QuietInv, Init
<1>2. IInv /\ [Next]_vars => IInv'
  BY TypeStep, ChannelStep, DeliveryStep, QuietStep DEF IInv
<1> QED BY <1>1, <1>2, PTL DEF Spec

------------------------------------------------------------------------------
(* The steps, mapped.                                                        *)

LEMMA MainImplements ==
  IInv /\ IInv' /\ Main => Promise!TransferNext \/ UNCHANGED promised
<1> SUFFICES ASSUME IInv, IInv', Main PROVE Promise!TransferNext \/ UNCHANGED promised
  OBVIOUS
<1>u. UNCHANGED <<confirmed, status>>
  BY DEF Main, HandshakeAccepted, HandshakeFailed, HandshakeRejected, NoChannelLeft,
         NothingMissing, StartStreaming, JoinWorkers, GiveUp, DecideComplete, SendComplete,
         SendCompleteFailed, FinalFrame, FinalEof, sharedVars, netVars
<1>v. HandshakeAccepted \/ vouched' = vouched
  BY DEF Main, HandshakeFailed, HandshakeRejected, NoChannelLeft,
         NothingMissing, StartStreaming, JoinWorkers, GiveUp, DecideComplete, SendComplete,
         SendCompleteFailed, FinalFrame, FinalEof, netVars
<1>1. CASE \/ HandshakeAccepted \/ HandshakeFailed \/ StartStreaming \/ JoinWorkers
           \/ SendComplete
  <2>1. Stage' = Stage /\ result' = result
    BY <1>1 DEF HandshakeAccepted, HandshakeFailed, StartStreaming, JoinWorkers,
                SendComplete, Stage
  <2>2. CASE HandshakeAccepted
    BY <1>u, <2>1, <2>2 DEF HandshakeAccepted, Promise!TransferNext, Promise!Vouch
  <2>3. CASE ~HandshakeAccepted
    <3>1. vouched' = vouched
      BY <1>1, <2>3 DEF HandshakeFailed, StartStreaming, JoinWorkers, SendComplete, netVars
    <3> QED BY <1>u, <2>1, <3>1 DEF promised
  <2> QED BY <2>2, <2>3
<1>w. Stage # "open" \/ Stage' # "open" => vouched' = vouched
  BY <1>v DEF HandshakeAccepted, Stage
<1>2. CASE NothingMissing \/ DecideComplete
  <2>1. Stage = "open" /\ Stage' = "offered" /\ result' = result
    BY <1>2 DEF NothingMissing, DecideComplete, Stage
  <2>2. vouched = Chunks
    <3>1. vouched \subseteq Chunks /\ resumed \subseteq vouched
      BY DEF IInv, TypeOK, NetTyped, DeliveryInv
    <3>2. CASE NothingMissing
      BY <3>1, <3>2 DEF NothingMissing
    <3>3. CASE DecideComplete
      BY <3>3, CompletedIsPlan DEF DecideComplete, IInv
    <3> QED BY <1>2, <3>2, <3>3
  <2>3. Promise!Offer
    BY <1>u, <1>w, <2>1, <2>2 DEF Promise!Offer
  <2> QED BY <2>3 DEF Promise!TransferNext
<1>3. CASE HandshakeRejected \/ NoChannelLeft \/ GiveUp
  <2>1. Stage = "open" /\ Stage' = "closed"
    BY <1>3 DEF HandshakeRejected, NoChannelLeft, GiveUp, Finish, Stage
  <2>2. result' \in {"Rejected", "Disconnected", "IoError"} \cup ({status} \ {"InProgress"})
    BY <1>3 DEF HandshakeRejected, NoChannelLeft, GiveUp, Finish, Verdict
  <2>3. Promise!GiveUpOpen
    BY <1>u, <1>w, <2>1, <2>2 DEF Promise!GiveUpOpen, Promise!Close
  <2> QED BY <2>3 DEF Promise!TransferNext
<1>4. CASE SendCompleteFailed \/ FinalEof
  <2>1. Stage = "offered" /\ Stage' = "closed" /\ result' \in {"Disconnected", "Unexpected"}
    BY <1>4 DEF SendCompleteFailed, FinalEof, Finish, Stage
  <2>2. Promise!GiveUpOffered
    BY <1>u, <1>w, <2>1 DEF Promise!GiveUpOffered, Promise!Close
  <2> QED BY <2>2 DEF Promise!TransferNext
<1>5. CASE FinalFrame
  <2>1. /\ Stage = "offered"
        /\ \/ Stage' = Stage /\ result' = result
           \/ Stage' = "closed" /\ result' \in {"Unexpected", "Ok"}
    BY <1>5 DEF FinalFrame, Stage
  <2>2. CASE Stage' = Stage /\ result' = result
    BY <1>u, <1>w, <2>1, <2>2 DEF promised
  <2>3. CASE Stage' = "closed" /\ result' = "Unexpected"
    BY <1>u, <1>w, <2>1, <2>3 DEF Promise!TransferNext, Promise!GiveUpOffered, Promise!Close
  <2>4. CASE Stage' = "closed" /\ result' = "Ok"
    <3>1. confirmed
      BY <1>u, <1>w, <2>4 DEF IInv, DeliveryInv
    <3> QED
      BY <1>u, <1>w, <2>1, <2>4, <3>1 DEF Promise!TransferNext, Promise!Succeed, Promise!Close
  <2> QED BY <2>1, <2>2, <2>3, <2>4
<1> QED BY <1>1, <1>2, <1>3, <1>4, <1>5 DEF Main

LEMMA EnvironmentImplements ==
  ASSUME IInv, IInv', NEW c \in Channels, Peer(c) \/ LinkDown(c)
  PROVE  Promise!TransferNext \/ UNCHANGED promised
<1>u. UNCHANGED <<Stage, status, result, phase>>
  BY DEF Peer, PeerChunkGood, PeerChunkCorrupt, PeerComplete, LinkDown, mainVars,
         sharedVars, Stage
<1>t. wire[c] \in Seq(Requests) /\ vouched \subseteq Chunks /\ confirmed \in BOOLEAN
  BY DEF IInv, TypeOK, NetTyped
<1>1. CASE LinkDown(c) \/ PeerChunkCorrupt(c)
  BY <1>u, <1>1 DEF LinkDown, PeerChunkCorrupt, promised
<1>2. CASE PeerChunkGood(c)
  <2>1. Head(wire[c]).id \in Chunks
    BY <1>2, <1>t, HeadTailProperties, Frames DEF PeerChunkGood
  <2>2. vouched' = vouched \cup {Head(wire[c]).id} /\ confirmed' = confirmed
    BY <1>2 DEF PeerChunkGood
  <2>3. {Head(wire[c]).id} \in SUBSET Chunks
    BY <2>1
  <2> QED BY <1>u, <2>2, <2>3 DEF Promise!TransferNext, Promise!Vouch
<1>3. CASE PeerComplete(c)
  <2>1. /\ wire[c] # <<>> /\ Head(wire[c]).kind = "complete"
        /\ vouched' = vouched /\ confirmed' = TRUE
    BY <1>3 DEF PeerComplete
  <2>2. CASE confirmed
    BY <1>u, <1>t, <2>1, <2>2 DEF promised
  <2>3. CASE ~confirmed
    <3>1. wire[c] \in Seq(RequestsNow)
      BY DEF IInv, DeliveryInv
    <3>2. phase \in {"finalAck", "done"} /\ vouched = Chunks
      BY <2>1, <3>1, HeadTailProperties DEF RequestsNow
    <3>3. CASE phase = "finalAck"
      BY <1>u, <2>1, <2>3, <3>2, <3>3 DEF Promise!TransferNext, Promise!Confirm, Stage
    <3>4. CASE phase = "done"
      <4>1. wire[c] \notin Seq(NotComplete)
        BY <2>1, HeadTailProperties DEF NotComplete
      <4>2. result = "Unexpected"
        BY <2>3, <3>4, <4>1 DEF IInv, QuietInv, DeliveryInv
      <4> QED BY <1>u, <2>1, <2>3, <3>2, <4>2 DEF Promise!TransferNext, Promise!Confirm
    <3> QED BY <3>2, <3>3, <3>4
  <2> QED BY <2>2, <2>3
<1> QED BY <1>1, <1>2, <1>3 DEF Peer

LEMMA StepImplements ==
  IInv /\ IInv' /\ [Next]_vars => [Promise!TransferNext]_(Promise!transferVars)
<1> SUFFICES ASSUME IInv, IInv', [Next]_vars
             PROVE  Promise!TransferNext \/ UNCHANGED promised
  BY DEF promised, Promise!transferVars
<1>1. CASE UNCHANGED vars
  BY <1>1 DEF vars, mainVars, sharedVars, netVars, Stage, promised
<1>2. CASE Reader
  BY <1>2, ReaderIsQuiet DEF Stage, promised
<1>3. CASE \E r \in UserRequests : UserRequest(r)
  <2>1. PICK r \in UserRequests : UserRequest(r)
    BY <1>3
  <2>2. /\ Stage # "closed" /\ status' = r
        /\ UNCHANGED <<Stage, vouched, confirmed, result>>
    BY <2>1 DEF UserRequest, Stage, mainVars, netVars
  <2>3. Promise!Ask
    BY <2>2, EnvironmentAssumption DEF Promise!Ask
  <2> QED BY <2>3 DEF Promise!TransferNext
<1>4. ASSUME NEW c \in Channels, Transmit(c) \/ Receive(c) PROVE UNCHANGED promised
  BY <1>4, TasksAreQuiet DEF IInv, Stage, promised
<1> QED
  BY <1>1, <1>2, <1>3, <1>4, MainImplements, EnvironmentImplements DEF Next

\* The session keeps what FileTransfer promises for every plan, number of
\* channels, window preset, resume ranges, refusal, rejection, broken link and
\* user request: Complete is offered only to a peer that vouched for all chunks,
\* success follows its confirmation, and a pause or cancellation is reported only
\* if the user asked.
THEOREM SessionKeepsPromise == Spec => ImplementsFileTransfer
<1>1. Init => Promise!TransferInit
  BY DEF Init, Promise!TransferInit, Stage
<1>2. IInv /\ IInv' /\ [Next]_vars => [Promise!TransferNext]_(Promise!transferVars)
  BY StepImplements
<1> QED BY <1>1, <1>2, IInvCorrect, PTL DEF Spec, ImplementsFileTransfer, Promise!TransferSpec
==============================================================================
