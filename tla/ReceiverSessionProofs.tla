------------------------- MODULE ReceiverSessionProofs -------------------------
(***************************************************************************)
(* The receive session for every file, number of connections, queue          *)
(* capacity, crash, disk error and resume: its types, OneFinalizer and       *)
(* CompletedMeansPublished; and SuccessMeansPublished for a sender that is    *)
(* not resumed.                                                              *)
(***************************************************************************)
EXTENDS ReceiverSession, SequenceTheorems, TLAPS

------------------------------------------------------------------------------
(* The types.                                                                *)

QueueTyped ==
  /\ queue \in [Sessions -> Seq(Ops)]
  /\ \A s \in Sessions : Len(queue[s]) <= QueueCap

LEMMA ChunkTypes ==
  /\ NChunks \in Nat \ {0} /\ QueueCap \in Nat \ {0} /\ MaxSessions \in Nat \ {0}
  /\ NoChunk \notin Chunks /\ None \notin Sessions
  /\ Close \in Ops /\ \A k \in Chunks : Write(k) \in Ops
  /\ NoFrame \in Frames /\ Complete \in Frames
  /\ \A k \in Chunks : Good(k) \in Frames /\ Bad(k) \in Frames
BY SizeAssumption DEF NoChunk, Chunks, None, Sessions, Ops, Frames

\* What a frame of each kind carries.
LEMMA FrameKinds ==
  ASSUME NEW f \in Frames
  PROVE  /\ f.kind \in {"none", "good", "bad", "complete"}
         /\ f.kind \in {"good", "bad"} => f.id \in Chunks
         /\ f.kind = "complete" <=> f = Complete
         /\ f.kind = "none" <=> f = NoFrame
BY DEF Frames, NoFrame, Complete, Good, Bad

LEMMA OpKinds ==
  ASSUME NEW x \in Ops
  PROVE  /\ x.op = "write" => x.id \in Chunks
         /\ x.op = "close" <=> x = Close
         /\ x.op \in {"write", "close"}
BY DEF Ops, Write, Close

LEMMA QueueAppend ==
  ASSUME QueueTyped, NEW s \in Sessions, HasRoom(s), NEW x \in Ops,
         queue' = [queue EXCEPT ![s] = Append(@, x)]
  PROVE  QueueTyped' /\ queue'[s] = Append(queue[s], x)
<1>1. queue[s] \in Seq(Ops) /\ Len(queue[s]) < QueueCap
  BY DEF QueueTyped, HasRoom
<1>2. /\ Append(queue[s], x) \in Seq(Ops) /\ Len(queue[s]) \in Nat
      /\ Len(Append(queue[s], x)) = Len(queue[s]) + 1
  BY <1>1, AppendProperties, LenProperties
<1>3. Len(Append(queue[s], x)) <= QueueCap
  BY <1>1, <1>2, ChunkTypes
<1> QED BY <1>2, <1>3 DEF QueueTyped

LEMMA QueueTail ==
  ASSUME QueueTyped, NEW s \in Sessions, queue[s] # <<>>,
         queue' = [queue EXCEPT ![s] = Tail(@)]
  PROVE  QueueTyped' /\ Head(queue[s]) \in Ops /\ queue'[s] = Tail(queue[s])
<1>1. queue[s] \in Seq(Ops) /\ Len(queue[s]) <= QueueCap
  BY DEF QueueTyped
<1>2. /\ Tail(queue[s]) \in Seq(Ops) /\ Head(queue[s]) \in Ops /\ Len(queue[s]) \in Nat
      /\ Len(Tail(queue[s])) = Len(queue[s]) - 1
  BY <1>1, HeadTailProperties, LenProperties
<1>3. Len(Tail(queue[s])) <= QueueCap
  BY <1>1, <1>2, ChunkTypes
<1> QED BY <1>2, <1>3 DEF QueueTyped

LEMMA QueueEmptied ==
  ASSUME QueueTyped, NEW S,
         queue' = [s \in Sessions |-> IF s \in S THEN <<>> ELSE queue[s]]
  PROVE  QueueTyped'
<1>1. <<>> \in Seq(Ops) /\ Len(<<>>) <= QueueCap
  BY EmptySeq, ChunkTypes
<1> QED BY <1>1 DEF QueueTyped

\* Close goes into the queue of a session whose writer still takes commands.
LEMMA CloseTyped ==
  ASSUME QueueTyped, NEW s \in Sessions, writer[s] = "closed" \/ HasRoom(s),
         queue' = IF writer[s] = "closed" THEN queue
                  ELSE [queue EXCEPT ![s] = Append(@, Close)]
  PROVE  QueueTyped'
<1>1. CASE queue' = queue
  BY <1>1 DEF QueueTyped
<1>2. CASE HasRoom(s) /\ queue' = [queue EXCEPT ![s] = Append(@, Close)]
  BY <1>2, QueueAppend, ChunkTypes
<1> QED BY <1>1, <1>2

LEMMA LeaveTyped ==
  ASSUME TypeOK, NEW c \in Channels, Leave(c)
  PROVE  /\ HandlerTyped'
         /\ link' \in [Channels -> {"up", "closed", "broken"}] /\ wire' \in [Channels -> Frames]
<1>1. NoFrame \in Frames
  BY ChunkTypes
<1>2. HandlerTyped'
  BY DEF TypeOK, HandlerTyped, Leave, Optional
<1> QED BY <1>1, <1>2 DEF TypeOK, OtherTyped, Leave

LEMMA ContinueTyped ==
  ASSUME TypeOK, NEW c \in Channels, pc[c] # "closed", Continue(c)
  PROVE  /\ HandlerTyped'
         /\ link' \in [Channels -> {"up", "closed", "broken"}] /\ wire' \in [Channels -> Frames]
<1>1. NoFrame \in Frames
  BY ChunkTypes
<1>2. CASE Leave(c)
  BY <1>2, LeaveTyped
<1>3. CASE /\ pc' = [pc EXCEPT ![c] = "loop"] /\ chunk' = [chunk EXCEPT ![c] = NoChunk]
           /\ wire' = IF chunk[c] = NoChunk THEN [wire EXCEPT ![c] = NoFrame] ELSE wire
           /\ UNCHANGED <<sess, link>>
  <2>1. HandlerTyped'
    BY <1>3 DEF TypeOK, HandlerTyped, Optional
  <2> QED BY <1>1, <1>3, <2>1 DEF TypeOK, OtherTyped
<1> QED BY <1>2, <1>3 DEF Continue

LEMMA LearnsTyped ==
  ASSUME TypeOK, NEW c \in Channels, NEW k \in Chunks, SenderLearns(c, k)
  PROVE  acked' \subseteq Chunks /\ flying' \subseteq Chunks
BY DEF TypeOK, OtherTyped, SenderLearns

LEMMA FinalAckTyped ==
  ASSUME TypeOK, NEW c \in Channels, FinalAck(c)
  PROVE  /\ sphase' \in {"connect", "stream", "final", "ok", "over"}
         /\ acked' \subseteq Chunks /\ flying' \subseteq Chunks
BY DEF TypeOK, OtherTyped, FinalAck

LEMMA InitTyped == Init => TypeOK
<1> SUFFICES ASSUME Init PROVE TypeOK
  OBVIOUS
<1>1. <<>> \in Seq(Ops) /\ Len(<<>>) <= QueueCap /\ NoFrame \in Frames
  BY EmptySeq, ChunkTypes
<1>2. ProcessTyped /\ DiskTyped /\ HandlerTyped
  BY ChunkTypes DEF Init, ProcessTyped, DiskTyped, HandlerTyped, Optional
<1>3. SessionTyped
  BY <1>1 DEF Init, SessionTyped, Optional
<1>4. OtherTyped
  BY <1>1, FaultAssumption DEF Init, OtherTyped
<1> QED BY <1>2, <1>3, <1>4 DEF TypeOK

------------------------------------------------------------------------------
(* Each step keeps the types.                                                *)

\* The session that a busy handler refers to.
LEMMA BusySession ==
  ASSUME TypeOK, NEW c \in Channels, pc[c] # "closed"
  PROVE  sess[c] \in Sessions
BY DEF TypeOK, HandlerTyped, Optional

LEMMA HandshakeTyped ==
  ASSUME TypeOK, NEW c \in Channels,
         JoinSession(c) \/ CreateSession(c) \/ Accept(c) \/ AcceptFails(c)
  PROVE  TypeOK'
<1>1. CASE JoinSession(c)
  <2>1. HandlerTyped'
    BY <1>1 DEF TypeOK, ProcessTyped, HandlerTyped, Optional, JoinSession
  <2>2. OtherTyped'
    BY <1>1 DEF TypeOK, OtherTyped, JoinSession, senderVars, faultVars
  <2>3. ProcessTyped' /\ SessionTyped' /\ DiskTyped'
    BY <1>1 DEF TypeOK, ProcessTyped, SessionTyped, DiskTyped, JoinSession, processVars,
                sessionVars, diskVars
  <2> QED BY <2>1, <2>2, <2>3 DEF TypeOK
<1>2. CASE CreateSession(c)
  <2> DEFINE s == created + 1
  <2>1. s \in Sessions /\ s \in 0 .. MaxSessions /\ s # None
    BY <1>2, ChunkTypes DEF CreateSession, TypeOK, ProcessTyped, Sessions, None
  <2>2. ProcessTyped'
    BY <1>2, <2>1 DEF CreateSession, ProcessTyped, Optional
  <2>3. part' \in Sessions /\ DiskTyped'
    BY <1>2, <2>1 DEF CreateSession, TypeOK, DiskTyped, Optional
  <2>4. SessionTyped'
    <3>1. part' # None
      BY <2>3, ChunkTypes
    <3>2. /\ inode' = [inode EXCEPT ![s] = part'] /\ writer' = [writer EXCEPT ![s] = "open"]
          /\ tracker' = [tracker EXCEPT ![s] = meta] /\ known' = [known EXCEPT ![s] = meta]
          /\ UNCHANGED <<crcs, done, queue, diskError, dirty>>
      BY <1>2 DEF CreateSession
    <3> QED BY <2>1, <2>3, <3>1, <3>2 DEF TypeOK, SessionTyped, DiskTyped, Optional
  <2>5. HandlerTyped'
    BY <1>2, <2>1 DEF CreateSession, TypeOK, HandlerTyped, Optional
  <2>6. OtherTyped'
    BY <1>2 DEF CreateSession, TypeOK, OtherTyped, senderVars, faultVars
  <2> QED BY <2>2, <2>3, <2>4, <2>5, <2>6 DEF TypeOK
<1>3. CASE Accept(c)
  <2>1. sess[c] \in Sessions
    BY <1>3, BusySession DEF Accept
  <2>2. OtherTyped'
    BY <1>3, <2>1 DEF Accept, TypeOK, OtherTyped, SessionTyped, linkVars, faultVars
  <2>3. HandlerTyped'
    BY <1>3 DEF Accept, TypeOK, HandlerTyped
  <2>4. ProcessTyped' /\ SessionTyped' /\ DiskTyped'
    BY <1>3 DEF TypeOK, ProcessTyped, SessionTyped, DiskTyped, Accept, processVars,
                sessionVars, diskVars
  <2> QED BY <2>2, <2>3, <2>4 DEF TypeOK
<1>4. CASE AcceptFails(c)
  <2>1. OtherTyped' /\ HandlerTyped'
    BY <1>4, LeaveTyped DEF AcceptFails, TypeOK, OtherTyped, senderVars, faultVars
  <2>2. ProcessTyped' /\ SessionTyped' /\ DiskTyped'
    BY <1>4 DEF TypeOK, ProcessTyped, SessionTyped, DiskTyped, AcceptFails, processVars,
                sessionVars, diskVars
  <2> QED BY <2>1, <2>2 DEF TypeOK
<1> QED BY <1>1, <1>2, <1>3, <1>4

LEMMA TakeTyped ==
  ASSUME TypeOK, NEW c \in Channels, TakeBad(c) \/ TakeDuplicate(c) \/ TakeNew(c)
  PROVE  TypeOK'
<1>1. /\ pc[c] # "closed" /\ sess[c] \in Sessions
      /\ wire[c] \in Frames /\ wire[c].kind \in {"good", "bad"} /\ wire[c].id \in Chunks
  <2>1. pc[c] = "loop" /\ wire[c].kind \in {"good", "bad"}
    BY DEF TakeBad, TakeDuplicate, TakeNew
  <2>2. wire[c] \in Frames
    BY DEF TypeOK, OtherTyped
  <2> QED BY <2>1, <2>2, BusySession, FrameKinds
<1>2. CASE TakeBad(c)
  <2>1. HandlerTyped' /\ OtherTyped'
    BY <1>1, <1>2, ContinueTyped DEF TakeBad, TypeOK, OtherTyped, faultVars
  <2>2. ProcessTyped' /\ SessionTyped' /\ DiskTyped'
    BY <1>2 DEF TypeOK, ProcessTyped, SessionTyped, DiskTyped, TakeBad, processVars,
                sessionVars, diskVars
  <2> QED BY <2>1, <2>2 DEF TypeOK
<1>3. CASE TakeDuplicate(c)
  <2>1. HandlerTyped' /\ OtherTyped'
    BY <1>1, <1>3, ContinueTyped, LearnsTyped DEF TakeDuplicate, TypeOK, OtherTyped, faultVars
  <2>2. ProcessTyped' /\ DiskTyped'
    BY <1>3 DEF TypeOK, ProcessTyped, DiskTyped, TakeDuplicate, processVars, diskVars
  <2>3. SessionTyped'
    BY <1>1, <1>3 DEF TypeOK, SessionTyped, TakeDuplicate
  <2> QED BY <2>1, <2>2, <2>3 DEF TypeOK
<1>4. CASE TakeNew(c)
  <2>1. HandlerTyped'
    BY <1>1, <1>4, ChunkTypes DEF TypeOK, HandlerTyped, TakeNew
  <2>2. OtherTyped'
    BY <1>4, ChunkTypes DEF TypeOK, OtherTyped, TakeNew, senderVars, faultVars
  <2>3. ProcessTyped' /\ SessionTyped' /\ DiskTyped'
    BY <1>4 DEF TypeOK, ProcessTyped, SessionTyped, DiskTyped, TakeNew, processVars,
                sessionVars, diskVars
  <2> QED BY <2>1, <2>2, <2>3 DEF TypeOK
<1> QED BY <1>2, <1>3, <1>4

LEMMA MarkTyped ==
  ASSUME TypeOK, NEW c \in Channels, Mark(c)
  PROVE  TypeOK'
<1>1. pc[c] = "mark" /\ sess[c] \in Sessions /\ chunk[c] \in Chunks
  BY BusySession DEF Mark, TypeOK, HandlerTyped
<1>2. SessionTyped'
  <2>1. /\ tracker' = [tracker EXCEPT ![sess[c]] = @ \cup {chunk[c]}]
        /\ crcs' = [crcs EXCEPT ![sess[c]] = @ \cup {chunk[c]}]
        /\ \/ /\ known' = [known EXCEPT ![sess[c]] = @ \cup {chunk[c]}]
              /\ dirty' = [dirty EXCEPT ![sess[c]] = TRUE]
           \/ known' = known /\ dirty' = dirty
        /\ UNCHANGED <<done, queue, writer, inode, diskError>>
    BY DEF Mark
  <2>2. tracker' \in [Sessions -> SUBSET Chunks] /\ crcs' \in [Sessions -> SUBSET Chunks]
    BY <1>1, <2>1 DEF TypeOK, SessionTyped
  <2>3. known' \in [Sessions -> SUBSET Chunks] /\ dirty' \in [Sessions -> BOOLEAN]
    <3>1. CASE known' = known /\ dirty' = dirty
      BY <3>1 DEF TypeOK, SessionTyped
    <3>2. CASE known' # known \/ dirty' # dirty
      <4>1. known' = [known EXCEPT ![sess[c]] = @ \cup {chunk[c]}]
        BY <2>1, <3>2
      <4>2. dirty' = [dirty EXCEPT ![sess[c]] = TRUE]
        BY <2>1, <3>2
      <4>3. known' \in [Sessions -> SUBSET Chunks]
        BY <1>1, <4>1 DEF TypeOK, SessionTyped
      <4>4. dirty' \in [Sessions -> BOOLEAN]
        BY <1>1, <4>2 DEF TypeOK, SessionTyped
      <4> QED BY <4>3, <4>4
    <3> QED BY <3>1, <3>2
  <2> QED BY <2>1, <2>2, <2>3 DEF TypeOK, SessionTyped
<1>3. CASE Leave(c)
  <2>1. HandlerTyped' /\ OtherTyped'
    BY <1>3, LeaveTyped DEF Mark, TypeOK, OtherTyped, senderVars, faultVars
  <2>2. ProcessTyped' /\ DiskTyped'
    BY DEF TypeOK, ProcessTyped, DiskTyped, Mark, processVars, diskVars
  <2> QED BY <1>2, <2>1, <2>2 DEF TypeOK
<1>4. CASE pc' = [pc EXCEPT ![c] = "enqueue"] /\ UNCHANGED <<sess, chunk, linkVars>>
  <2>1. HandlerTyped'
    BY <1>1, <1>4, ChunkTypes DEF TypeOK, HandlerTyped
  <2>2. OtherTyped'
    BY <1>4 DEF Mark, TypeOK, OtherTyped, linkVars, senderVars, faultVars
  <2>3. ProcessTyped' /\ DiskTyped'
    BY DEF TypeOK, ProcessTyped, DiskTyped, Mark, processVars, diskVars
  <2> QED BY <1>2, <2>1, <2>2, <2>3 DEF TypeOK
<1> QED BY <1>3, <1>4 DEF Mark

LEMMA EnqueueTyped ==
  ASSUME TypeOK, NEW c \in Channels, Enqueue(c) \/ EnqueueBroken(c)
  PROVE  TypeOK'
<1>1. pc[c] = "enqueue" /\ sess[c] \in Sessions /\ chunk[c] \in Chunks
  BY BusySession DEF Enqueue, EnqueueBroken, TypeOK, HandlerTyped
<1>2. CASE Enqueue(c)
  <2>1. HandlerTyped' /\ OtherTyped'
    BY <1>1, <1>2, ContinueTyped, LearnsTyped DEF Enqueue, TypeOK, OtherTyped, faultVars
  <2>2. ProcessTyped' /\ DiskTyped'
    BY <1>2 DEF TypeOK, ProcessTyped, DiskTyped, Enqueue, processVars, diskVars
  <2>3. Write(chunk[c]) \in Ops
    BY <1>1, ChunkTypes
  <2>4. QueueTyped'
    BY <1>1, <1>2, <2>3, QueueAppend DEF Enqueue, TypeOK, SessionTyped, QueueTyped
  <2>5. SessionTyped'
    BY <1>2, <2>4 DEF TypeOK, SessionTyped, QueueTyped, Enqueue
  <2> QED BY <2>1, <2>2, <2>5 DEF TypeOK
<1>3. CASE EnqueueBroken(c)
  <2>1. OtherTyped' /\ HandlerTyped'
    BY <1>3, LeaveTyped DEF EnqueueBroken, TypeOK, OtherTyped, senderVars, faultVars
  <2>2. ProcessTyped' /\ SessionTyped' /\ DiskTyped'
    BY <1>3 DEF TypeOK, ProcessTyped, SessionTyped, DiskTyped, EnqueueBroken, processVars,
                sessionVars, diskVars
  <2> QED BY <2>1, <2>2 DEF TypeOK
<1> QED BY <1>2, <1>3

LEMMA CompleteTyped ==
  ASSUME TypeOK, NEW c \in Channels,
         TakeComplete(c) \/ TakeCompleteAgain(c) \/ SendClose(c)
  PROVE  TypeOK'
<1>1. pc[c] # "closed" /\ sess[c] \in Sessions
  BY BusySession DEF TakeComplete, TakeCompleteAgain, SendClose
<1>2. CASE TakeComplete(c)
  <2>1. HandlerTyped'
    BY <1>1, <1>2 DEF TypeOK, HandlerTyped, TakeComplete
  <2>2. OtherTyped'
    BY <1>2, ChunkTypes DEF TypeOK, OtherTyped, TakeComplete, senderVars, faultVars
  <2>3. ProcessTyped' /\ DiskTyped'
    BY <1>2 DEF TypeOK, ProcessTyped, DiskTyped, TakeComplete, processVars, diskVars
  <2>4. SessionTyped'
    BY <1>1, <1>2 DEF TypeOK, SessionTyped, TakeComplete
  <2> QED BY <2>1, <2>2, <2>3, <2>4 DEF TypeOK
<1>3. CASE TakeCompleteAgain(c)
  <2>1. OtherTyped' /\ HandlerTyped'
    BY <1>3, LeaveTyped, FinalAckTyped DEF TakeCompleteAgain, TypeOK, OtherTyped, faultVars
  <2>2. ProcessTyped' /\ SessionTyped' /\ DiskTyped'
    BY <1>3 DEF TypeOK, ProcessTyped, SessionTyped, DiskTyped, TakeCompleteAgain, processVars,
                sessionVars, diskVars
  <2> QED BY <2>1, <2>2 DEF TypeOK
<1>4. CASE SendClose(c)
  <2>1. HandlerTyped' /\ OtherTyped'
    BY <1>1, <1>4 DEF TypeOK, HandlerTyped, OtherTyped, SendClose, linkVars, senderVars,
                      faultVars
  <2>2. ProcessTyped' /\ DiskTyped'
    BY <1>4 DEF TypeOK, ProcessTyped, DiskTyped, SendClose, processVars, diskVars
  <2>3. QueueTyped'
    BY <1>1, <1>4, CloseTyped DEF SendClose, TypeOK, SessionTyped, QueueTyped
  <2>4. SessionTyped'
    BY <1>4, <2>3 DEF TypeOK, SessionTyped, QueueTyped, SendClose
  <2> QED BY <2>1, <2>2, <2>4 DEF TypeOK
<1> QED BY <1>2, <1>3, <1>4

LEMMA VerifyTyped ==
  ASSUME TypeOK, NEW c \in Channels, VerifyFails(c) \/ VerifyBreaks(c) \/ Publish(c)
  PROVE  TypeOK'
<1>1. HandlerTyped' /\ OtherTyped'
  BY LeaveTyped, FinalAckTyped
  DEF VerifyFails, VerifyBreaks, Publish, TypeOK, OtherTyped, senderVars, faultVars
<1>2. ProcessTyped'
  BY DEF TypeOK, ProcessTyped, VerifyFails, VerifyBreaks, Publish, Optional, processVars
<1>3. SessionTyped' /\ DiskTyped'
  BY DEF TypeOK, SessionTyped, DiskTyped, VerifyFails, VerifyBreaks, Publish, Optional,
         sessionVars, diskVars
<1> QED BY <1>1, <1>2, <1>3 DEF TypeOK

LEMMA EndTyped ==
  ASSUME TypeOK, NEW c \in Channels, Eof(c) \/ Reset(c) \/ CleanupCheck(c) \/ Return(c)
  PROVE  TypeOK'
<1>1. pc[c] # "closed"
  BY DEF Eof, Reset, CleanupCheck, Return
<1>2. HandlerTyped' /\ OtherTyped'
  <2>1. CASE Reset(c) \/ Return(c)
    BY <2>1, LeaveTyped DEF Reset, Return, TypeOK, OtherTyped, senderVars, faultVars
  <2>2. CASE Eof(c)
    BY <1>1, <2>2 DEF Eof, TypeOK, HandlerTyped, OtherTyped, linkVars, senderVars, faultVars
  <2>3. CASE CleanupCheck(c)
    BY <1>1, <2>3 DEF CleanupCheck, TypeOK, HandlerTyped, OtherTyped, linkVars, senderVars,
                      faultVars
  <2> QED BY <2>1, <2>2, <2>3
<1>3. ProcessTyped' /\ SessionTyped' /\ DiskTyped'
  BY DEF TypeOK, ProcessTyped, SessionTyped, DiskTyped, Eof, Reset, CleanupCheck, Return,
         processVars, sessionVars, diskVars
<1> QED BY <1>2, <1>3 DEF TypeOK

LEMMA CleanupTyped ==
  ASSUME TypeOK, NEW c \in Channels, CleanupRemove(c) \/ Drain(c) \/ Report(c)
  PROVE  TypeOK'
<1>1. pc[c] # "closed" /\ sess[c] \in Sessions
  BY BusySession DEF CleanupRemove, Drain, Report
<1>2. CASE CleanupRemove(c)
  <2>1. HandlerTyped' /\ ProcessTyped'
    BY <1>1, <1>2 DEF CleanupRemove, TypeOK, HandlerTyped, ProcessTyped, Optional
  <2>2. SessionTyped' /\ DiskTyped' /\ OtherTyped'
    BY <1>2 DEF CleanupRemove, TypeOK, SessionTyped, DiskTyped, OtherTyped, sessionVars,
                diskVars, linkVars, senderVars, faultVars
  <2> QED BY <2>1, <2>2 DEF TypeOK
<1>3. CASE Drain(c)
  <2>1. HandlerTyped' /\ OtherTyped'
    BY <1>1, <1>3 DEF TypeOK, HandlerTyped, OtherTyped, Drain, linkVars, senderVars, faultVars
  <2>2. ProcessTyped' /\ DiskTyped'
    BY <1>3 DEF TypeOK, ProcessTyped, DiskTyped, Drain, processVars, diskVars
  <2>3. QueueTyped'
    BY <1>1, <1>3, CloseTyped DEF Drain, TypeOK, SessionTyped, QueueTyped
  <2>4. SessionTyped'
    BY <1>3, <2>3 DEF TypeOK, SessionTyped, QueueTyped, Drain
  <2> QED BY <2>1, <2>2, <2>4 DEF TypeOK
<1>4. CASE Report(c)
  <2>1. HandlerTyped' /\ OtherTyped'
    BY <1>4, LeaveTyped DEF Report, TypeOK, OtherTyped, senderVars, faultVars
  <2>2. ProcessTyped' /\ SessionTyped' /\ DiskTyped'
    BY <1>4 DEF TypeOK, ProcessTyped, SessionTyped, DiskTyped, Report, sessionVars, diskVars
  <2> QED BY <2>1, <2>2 DEF TypeOK
<1> QED BY <1>2, <1>3, <1>4

LEMMA DiskWriterTyped ==
  ASSUME TypeOK, NEW s \in Sessions, DiskWriter(s)
  PROVE  TypeOK'
<1>1. HandlerTyped' /\ ProcessTyped'
  BY DEF DiskWriter, WriteBlock, WriteFails, CloseFile, WriterOrphaned, handlerVars,
         processVars, TypeOK, HandlerTyped, ProcessTyped
<1>2. OtherTyped'
  BY FaultAssumption
  DEF DiskWriter, WriteBlock, WriteFails, CloseFile, WriterOrphaned, linkVars, senderVars,
      faultVars, TypeOK, OtherTyped
<1>3. CASE WriteBlock(s) \/ WriteFails(s)
  <2>1. QueueTyped' /\ Head(queue[s]) \in Ops
    BY <1>3, QueueTail DEF WriteBlock, WriteFails, TypeOK, SessionTyped, QueueTyped
  <2>2. Head(queue[s]).id \in Chunks
    BY <1>3, <2>1, OpKinds DEF WriteBlock, WriteFails
  <2>3. inode[s] \in Sessions
    BY <1>3 DEF WriteBlock, WriteFails, TypeOK, SessionTyped, Optional
  <2>4. DiskTyped'
    BY <1>3, <2>2, <2>3 DEF WriteBlock, WriteFails, diskVars, TypeOK, DiskTyped
  <2>5. SessionTyped'
    BY <1>3, <2>1 DEF WriteBlock, WriteFails, TypeOK, SessionTyped, QueueTyped
  <2> QED BY <1>1, <1>2, <2>4, <2>5 DEF TypeOK
<1>4. CASE CloseFile(s)
  <2>1. queue' = [t \in Sessions |-> IF t \in {s} THEN <<>> ELSE queue[t]]
    BY <1>4 DEF CloseFile, TypeOK, SessionTyped
  <2>2. QueueTyped'
    <3>1. QueueTyped
      BY DEF TypeOK, SessionTyped, QueueTyped
    <3> QED BY <2>1, <3>1, QueueEmptied
  <2>3. SessionTyped' /\ DiskTyped'
    BY <1>4, <2>2 DEF CloseFile, diskVars, TypeOK, SessionTyped, QueueTyped, DiskTyped
  <2> QED BY <1>1, <1>2, <2>3 DEF TypeOK
<1>5. CASE WriterOrphaned(s)
  <2>1. SessionTyped' /\ DiskTyped'
    BY <1>5 DEF WriterOrphaned, diskVars, TypeOK, SessionTyped, DiskTyped
  <2> QED BY <1>1, <1>2, <2>1 DEF TypeOK
<1> QED BY <1>3, <1>4, <1>5 DEF DiskWriter

LEMMA PersistTyped ==
  ASSUME TypeOK, NEW s \in Sessions, Persist(s)
  PROVE  TypeOK'
<1>1. HandlerTyped' /\ ProcessTyped' /\ OtherTyped'
  BY DEF Persist, handlerVars, processVars, linkVars, senderVars, faultVars, TypeOK,
         HandlerTyped, ProcessTyped, OtherTyped
<1>2. SessionTyped' /\ DiskTyped'
  BY DEF Persist, TypeOK, SessionTyped, DiskTyped
<1> QED BY <1>1, <1>2 DEF TypeOK

LEMMA CancelTyped ==
  ASSUME TypeOK, UserCancel
  PROVE  TypeOK'
<1>1. HandlerTyped' /\ DiskTyped' /\ OtherTyped'
  BY DEF UserCancel, handlerVars, diskVars, linkVars, senderVars, faultVars, TypeOK,
         HandlerTyped, DiskTyped, OtherTyped
<1>2. ProcessTyped'
  BY DEF UserCancel, TypeOK, ProcessTyped, Optional
<1>3. QueueTyped'
  <2>1. CASE map # None /\ writer[map] = "open" /\ HasRoom(map)
    <3>1. map \in Sessions /\ queue' = [queue EXCEPT ![map] = Append(@, Close)]
      BY <2>1 DEF UserCancel, TypeOK, ProcessTyped, Optional
    <3> QED BY <2>1, <3>1, QueueAppend, ChunkTypes DEF TypeOK, SessionTyped, QueueTyped
  <2>2. CASE ~(map # None /\ writer[map] = "open" /\ HasRoom(map))
    BY <2>2 DEF UserCancel, TypeOK, SessionTyped, QueueTyped
  <2> QED BY <2>1, <2>2
<1>4. SessionTyped'
  BY <1>3 DEF UserCancel, TypeOK, SessionTyped, QueueTyped
<1> QED BY <1>1, <1>2, <1>4 DEF TypeOK

LEMMA CrashTyped ==
  ASSUME TypeOK, Crash
  PROVE  TypeOK'
<1>1. HandlerTyped'
  BY DEF Crash, TypeOK, HandlerTyped, Optional
<1>2. ProcessTyped' /\ DiskTyped'
  BY DEF Crash, TypeOK, ProcessTyped, DiskTyped, Optional, diskVars
<1>3. OtherTyped'
  BY FaultAssumption, ChunkTypes DEF Crash, TypeOK, OtherTyped, senderVars
<1>4. QueueTyped'
  BY QueueEmptied DEF Crash, TypeOK, SessionTyped, QueueTyped
<1>5. SessionTyped'
  BY <1>4 DEF Crash, TypeOK, SessionTyped, QueueTyped
<1> QED BY <1>1, <1>2, <1>3, <1>5 DEF TypeOK

LEMMA EnvironmentTyped ==
  ASSUME TypeOK,
         \/ StartStreaming \/ Hangup \/ SenderFails \/ SenderDone \/ Resume
         \/ \E c \in Channels : SendChunk(c) \/ SendComplete(c) \/ Corrupt(c) \/ LinkDown(c)
  PROVE  TypeOK'
<1>1. ProcessTyped' /\ SessionTyped' /\ DiskTyped'
  BY DEF StartStreaming, Hangup, SenderFails, SenderDone, Resume, SendChunk, SendComplete,
         Corrupt, LinkDown, processVars, sessionVars, diskVars, TypeOK, ProcessTyped,
         SessionTyped, DiskTyped
<1>2. HandlerTyped'
  BY DEF StartStreaming, Hangup, SenderFails, SenderDone, Resume, SendChunk, SendComplete,
         Corrupt, LinkDown, handlerVars, TypeOK, HandlerTyped
<1>3. OtherTyped'
  <2>1. CASE StartStreaming \/ Hangup \/ SenderFails \/ SenderDone
    BY <2>1 DEF StartStreaming, Hangup, SenderFails, SenderDone, CloseLinks, linkVars,
                senderVars, faultVars, TypeOK, OtherTyped
  <2>2. CASE Resume
    BY <2>2, FaultAssumption DEF Resume, linkVars, TypeOK, OtherTyped
  <2>3. ASSUME NEW c \in Channels, SendChunk(c) \/ SendComplete(c)
        PROVE  OtherTyped'
    BY <2>3, ChunkTypes DEF SendChunk, SendComplete, faultVars, TypeOK, OtherTyped
  <2>4. ASSUME NEW c \in Channels, Corrupt(c)
        PROVE  OtherTyped'
    <3>1. Bad(wire[c].id) \in Frames
      BY <2>4, FrameKinds, ChunkTypes DEF Corrupt, TypeOK, OtherTyped
    <3> QED BY <2>4, <3>1, FaultAssumption DEF Corrupt, senderVars, TypeOK, OtherTyped
  <2>5. ASSUME NEW c \in Channels, LinkDown(c)
        PROVE  OtherTyped'
    BY <2>5, ChunkTypes, FaultAssumption DEF LinkDown, TypeOK, OtherTyped
  <2> QED BY <2>1, <2>2, <2>3, <2>4, <2>5
<1> QED BY <1>1, <1>2, <1>3 DEF TypeOK

LEMMA StepTyped == TypeOK /\ [Next]_vars => TypeOK'
<1> SUFFICES ASSUME TypeOK, [Next]_vars PROVE TypeOK'
  OBVIOUS
<1>1. CASE SenderStep \/ Hangup \/ Resume
  BY <1>1, HandshakeTyped, EnvironmentTyped DEF SenderStep
<1>2. CASE UserCancel \/ Crash
  BY <1>2, CancelTyped, CrashTyped
<1>3. ASSUME NEW c \in Channels, Handler(c)
      PROVE  TypeOK'
  BY <1>3, HandshakeTyped, TakeTyped, MarkTyped, EnqueueTyped, CompleteTyped, VerifyTyped,
     EndTyped, CleanupTyped
  DEF Handler
<1>4. ASSUME NEW c \in Channels, Corrupt(c) \/ LinkDown(c)
      PROVE  TypeOK'
  BY <1>4, EnvironmentTyped
<1>5. ASSUME NEW s \in Sessions, DiskWriter(s) \/ Persist(s)
      PROVE  TypeOK'
  BY <1>5, DiskWriterTyped, PersistTyped
<1>6. CASE UNCHANGED vars
  BY <1>6 DEF vars, processVars, sessionVars, diskVars, handlerVars, linkVars, senderVars,
              faultVars, TypeOK, ProcessTyped, SessionTyped, DiskTyped, HandlerTyped, OtherTyped
<1> QED BY <1>1, <1>2, <1>3, <1>4, <1>5, <1>6 DEF Next

\* Whatever fails, every session, handler, file and frame keeps to its type: a busy
\* handler of receiver.rs has a session, an open disk writer has a file, and the
\* bounded disk queue is never overrun.
THEOREM ReceiverTyped == Spec => []TypeOK
<1> QED BY InitTyped, StepTyped, PTL DEF Spec

------------------------------------------------------------------------------
(* Who finalises a session.                                                  *)

Finalizing(c) == pc[c] \in {"close", "closing"}

FinalizerInv ==
  /\ \A c \in Channels : Finalizing(c) => done[sess[c]]
  /\ OneFinalizer

\* No handler but one that takes Complete becomes the finaliser of a session.
NoNewFinalizer ==
  /\ done' = done
  /\ \A c \in Channels : Finalizing(c)' => Finalizing(c) /\ sess'[c] = sess[c]

\* Completed is reported, and the sender told, of a published file only, which stays.
HonestStep ==
  /\ final # None => final' # None
  /\ status' = "Completed" => status = "Completed" \/ final' # None
  /\ sphase' = "ok" => sphase = "ok" \/ final' # None

\* No frame becomes a Complete, and the sender does not go back.
NoNewComplete ==
  /\ \A c \in Channels : wire'[c].kind = "complete" => wire[c].kind = "complete"
  /\ sphase' \in {"connect", "stream"} => sphase \in {"connect", "stream"}

Calm == NoNewFinalizer /\ HonestStep /\ NoNewComplete

\* What a handler's step leaves alone when it moves on to l or returns.
HandlerMoves(c, l) ==
  \/ Leave(c)
  \/ /\ pc' = [pc EXCEPT ![c] = l] /\ sess' = [sess EXCEPT ![c] = sess'[c]] /\ UNCHANGED link
     /\ wire' = wire \/ wire' = [wire EXCEPT ![c] = NoFrame]

LEMMA HandlerCalm ==
  ASSUME TypeOK, NEW c \in Channels, NEW l, l \notin {"close", "closing"}, HandlerMoves(c, l),
         done' = done, HonestStep, sphase' \in {sphase, "ok"}
  PROVE  Calm
<1>1. NoFrame.kind # "complete"
  BY DEF NoFrame
<1>2. NoNewFinalizer
  BY DEF HandlerMoves, Leave, TypeOK, HandlerTyped, NoNewFinalizer, Finalizing
<1>3. NoNewComplete
  BY <1>1 DEF HandlerMoves, Leave, TypeOK, OtherTyped, NoNewComplete
<1> QED BY <1>2, <1>3 DEF Calm

LEMMA ContinueMoves ==
  ASSUME TypeOK, NEW c \in Channels, Continue(c)
  PROVE  HandlerMoves(c, "loop")
<1>1. CASE Leave(c)
  BY <1>1 DEF HandlerMoves
<1>2. CASE /\ pc' = [pc EXCEPT ![c] = "loop"]
           /\ wire' = IF chunk[c] = NoChunk THEN [wire EXCEPT ![c] = NoFrame] ELSE wire
           /\ sess' = sess /\ link' = link
  <2>1. sess' = [sess EXCEPT ![c] = sess'[c]]
    BY <1>2 DEF TypeOK, HandlerTyped
  <2> QED BY <1>2, <2>1 DEF HandlerMoves
<1> QED BY <1>1, <1>2 DEF Continue

LEMMA HandshakeCalm ==
  ASSUME TypeOK, NEW c \in Channels,
         JoinSession(c) \/ CreateSession(c) \/ Accept(c) \/ AcceptFails(c)
  PROVE  Calm
<1>1. HonestStep /\ done' = done
  BY DEF JoinSession, CreateSession, Accept, AcceptFails, HonestStep, processVars,
         sessionVars, diskVars, senderVars
<1>2. NoNewFinalizer
  BY <1>1
  DEF JoinSession, CreateSession, Accept, AcceptFails, Leave, NoNewFinalizer, Finalizing,
      TypeOK, HandlerTyped
<1>3. NoNewComplete
  BY DEF JoinSession, CreateSession, Accept, AcceptFails, Leave, NoNewComplete, NoFrame,
         TypeOK, OtherTyped, linkVars, senderVars
<1> QED BY <1>1, <1>2, <1>3 DEF Calm

LEMMA TakeCalm ==
  ASSUME TypeOK, NEW c \in Channels,
         \/ TakeBad(c) \/ TakeDuplicate(c) \/ TakeNew(c) \/ Mark(c)
         \/ Enqueue(c) \/ EnqueueBroken(c)
  PROVE  Calm
<1>1. HonestStep /\ done' = done /\ sphase' = sphase
  BY DEF TakeBad, TakeDuplicate, TakeNew, Mark, Enqueue, EnqueueBroken, HonestStep,
         processVars, sessionVars, diskVars, senderVars
<1>2. CASE TakeBad(c) \/ TakeDuplicate(c) \/ Enqueue(c)
  <2>1. HandlerMoves(c, "loop")
    BY <1>2, ContinueMoves DEF TakeBad, TakeDuplicate, Enqueue
  <2> QED BY <1>1, <2>1, HandlerCalm
<1>3. CASE TakeNew(c)
  <2>1. HandlerMoves(c, "mark")
    BY <1>3 DEF TakeNew, HandlerMoves, TypeOK, HandlerTyped
  <2> QED BY <1>1, <2>1, HandlerCalm
<1>4. CASE Mark(c)
  <2>1. HandlerMoves(c, "enqueue")
    BY <1>4 DEF Mark, HandlerMoves, linkVars, TypeOK, HandlerTyped
  <2> QED BY <1>1, <2>1, HandlerCalm
<1>5. CASE EnqueueBroken(c)
  <2>1. HandlerMoves(c, "loop")
    BY <1>5 DEF EnqueueBroken, HandlerMoves
  <2> QED BY <1>1, <2>1, HandlerCalm
<1> QED BY <1>2, <1>3, <1>4, <1>5

LEMMA CloseCalm ==
  ASSUME TypeOK, NEW c \in Channels, SendClose(c)
  PROVE  Calm
<1>1. HonestStep /\ NoNewComplete /\ done' = done
  BY DEF SendClose, HonestStep, NoNewComplete, processVars, diskVars, linkVars, senderVars
<1>2. NoNewFinalizer
  BY <1>1 DEF SendClose, NoNewFinalizer, Finalizing, TypeOK, HandlerTyped
<1> QED BY <1>1, <1>2 DEF Calm

LEMMA VerifyCalm ==
  ASSUME TypeOK, NEW c \in Channels, VerifyFails(c) \/ VerifyBreaks(c) \/ Publish(c)
  PROVE  Calm
<1>1. HonestStep /\ done' = done /\ sphase' \in {sphase, "ok"}
  BY DEF VerifyFails, VerifyBreaks, Publish, FinalAck, HonestStep, processVars,
         sessionVars, diskVars, senderVars
<1>2. HandlerMoves(c, "loop")
  BY DEF VerifyFails, VerifyBreaks, Publish, HandlerMoves
<1> QED BY <1>1, <1>2, HandlerCalm

LEMMA EndCalm ==
  ASSUME TypeOK, NEW c \in Channels,
         \/ Eof(c) \/ Reset(c) \/ CleanupCheck(c) \/ Return(c)
         \/ CleanupRemove(c) \/ Drain(c) \/ Report(c)
  PROVE  Calm
<1>1. HonestStep /\ done' = done /\ sphase' = sphase
  BY DEF Eof, Reset, CleanupCheck, Return, CleanupRemove, Drain, Report, HonestStep,
         processVars, sessionVars, diskVars, senderVars
<1>2. CASE Reset(c) \/ Return(c) \/ Report(c)
  <2>1. HandlerMoves(c, "loop")
    BY <1>2 DEF Reset, Return, Report, HandlerMoves
  <2> QED BY <1>1, <2>1, HandlerCalm
<1>3. CASE Eof(c) \/ CleanupCheck(c) \/ CleanupRemove(c) \/ Drain(c)
  <2>1. /\ link' = link /\ wire' = wire
        /\ \E l \in {"leaving", "cleanup", "remove", "report", "drain"} :
             pc' = [pc EXCEPT ![c] = l]
    BY <1>3 DEF Eof, CleanupCheck, CleanupRemove, Drain, linkVars
  <2>2. sess' = [sess EXCEPT ![c] = sess'[c]]
    BY <1>3 DEF Eof, CleanupCheck, CleanupRemove, Drain, TypeOK, HandlerTyped
  <2>3. PICK l \in {"leaving", "cleanup", "remove", "report", "drain"} :
          pc' = [pc EXCEPT ![c] = l]
    BY <2>1
  <2>4. HandlerMoves(c, l)
    BY <2>1, <2>2, <2>3 DEF HandlerMoves
  <2> QED BY <1>1, <2>4, HandlerCalm
<1> QED BY <1>2, <1>3

LEMMA OthersCalm ==
  ASSUME TypeOK,
         \/ UserCancel \/ Crash
         \/ StartStreaming \/ Hangup \/ SenderFails \/ SenderDone
         \/ \E c \in Channels : SendChunk(c) \/ Corrupt(c) \/ LinkDown(c)
         \/ \E s \in Sessions : DiskWriter(s) \/ Persist(s)
         \/ UNCHANGED vars
  PROVE  Calm
<1>1. HonestStep
  BY DEF UserCancel, Crash, StartStreaming, Hangup, SenderFails, SenderDone, SendChunk,
         Corrupt, LinkDown, DiskWriter, WriteBlock, WriteFails, CloseFile, WriterOrphaned,
         Persist, HonestStep, vars, processVars, diskVars, senderVars
<1>2. NoNewFinalizer
  BY DEF UserCancel, Crash, StartStreaming, Hangup, SenderFails, SenderDone, SendChunk,
         Corrupt, LinkDown, DiskWriter, WriteBlock, WriteFails, CloseFile, WriterOrphaned,
         Persist, NoNewFinalizer, Finalizing, vars, sessionVars, handlerVars
<1>3. NoNewComplete
  <2>1. CASE \E c \in Channels : SendChunk(c) \/ Corrupt(c) \/ LinkDown(c)
    BY <2>1 DEF SendChunk, Corrupt, LinkDown, NoNewComplete, Good, Bad, NoFrame, senderVars,
                TypeOK, OtherTyped
  <2>2. CASE ~\E c \in Channels : SendChunk(c) \/ Corrupt(c) \/ LinkDown(c)
    BY <2>2
    DEF UserCancel, Crash, StartStreaming, Hangup, SenderFails, SenderDone, DiskWriter,
        WriteBlock, WriteFails, CloseFile, WriterOrphaned, Persist, NoNewComplete, NoFrame,
        vars, linkVars, senderVars
  <2> QED BY <2>1, <2>2
<1> QED BY <1>1, <1>2, <1>3 DEF Calm

\* The steps that are not calm: Complete is sent and taken, and the sender resumes.
LEMMA MostStepsCalm ==
  ASSUME TypeOK, [Next]_vars, ~Resume,
         \A c \in Channels : ~(SendComplete(c) \/ TakeComplete(c) \/ TakeCompleteAgain(c))
  PROVE  Calm
BY HandshakeCalm, TakeCalm, CloseCalm, VerifyCalm, EndCalm, OthersCalm
DEF Next, SenderStep, Handler

LEMMA FinalizerKept ==
  ASSUME FinalizerInv, NoNewFinalizer
  PROVE  FinalizerInv'
BY DEF FinalizerInv, NoNewFinalizer, OneFinalizer, Finalizing

LEMMA FinalizerStep ==
  ASSUME TypeOK, FinalizerInv, [Next]_vars
  PROVE  FinalizerInv'
<1>1. ASSUME NEW c \in Channels, TakeComplete(c)
      PROVE  FinalizerInv'
  <2>1. sess[c] \in Sessions /\ ~done[sess[c]] /\ sess' = sess
    BY <1>1, BusySession DEF TakeComplete
  <2>2. /\ done' = [done EXCEPT ![sess[c]] = TRUE] /\ pc' = [pc EXCEPT ![c] = "close"]
        /\ ~done[sess[c]]
    BY <1>1 DEF TakeComplete
  <2>3. \A s \in Sessions : done[s] => done'[s]
    BY <2>1, <2>2 DEF TypeOK, SessionTyped
  <2>4. ASSUME NEW d \in Channels \ {c}, Finalizing(d)'
        PROVE  Finalizing(d) /\ sess[d] # sess[c]
    <3>1. Finalizing(d)
      BY <2>2, <2>4 DEF Finalizing, TypeOK, HandlerTyped
    <3>2. done[sess[d]]
      BY <3>1 DEF FinalizerInv
    <3> QED BY <2>1, <3>1, <3>2
  <2>5. \A d \in Channels : Finalizing(d) => sess[d] \in Sessions
    BY BusySession DEF Finalizing
  <2>6. done'[sess[c]]
    BY <2>1, <2>2 DEF TypeOK, SessionTyped
  <2> QED BY <2>1, <2>3, <2>4, <2>5, <2>6 DEF FinalizerInv, OneFinalizer, Finalizing
<1>2. ASSUME NEW c \in Channels, SendComplete(c) \/ TakeCompleteAgain(c)
      PROVE  FinalizerInv'
  <2>1. NoNewFinalizer
    BY <1>2 DEF SendComplete, TakeCompleteAgain, Leave, NoNewFinalizer, Finalizing,
                sessionVars, handlerVars, TypeOK, HandlerTyped
  <2> QED BY <2>1, FinalizerKept
<1>3. CASE Resume
  <2>1. NoNewFinalizer
    BY <1>3 DEF Resume, NoNewFinalizer, Finalizing, sessionVars, handlerVars
  <2> QED BY <2>1, FinalizerKept
<1>4. CASE Calm
  BY <1>4, FinalizerKept DEF Calm
<1> QED BY <1>1, <1>2, <1>3, <1>4, MostStepsCalm

\* However often a sender resumes and over however many connections it sends Complete,
\* two handlers never finalise one session: the compare-and-exchange on is_completed
\* lets one of them through, and no handler changes its session while it finalises.
THEOREM FinalizerIsUnique == Spec => []OneFinalizer
<1>1. Init => FinalizerInv
  BY DEF Init, FinalizerInv, OneFinalizer, Finalizing
<1>2. TypeOK /\ FinalizerInv /\ [Next]_vars => FinalizerInv'
  BY FinalizerStep
<1>3. FinalizerInv => OneFinalizer
  BY DEF FinalizerInv
<1> QED BY <1>1, <1>2, <1>3, ReceiverTyped, PTL DEF Spec

\* Whatever fails and however many sessions there are, the registry says Completed only
\* once a file is at its final path: the rename comes first, and no cleanup, cancel or
\* restart turns a transfer into a completed one.
THEOREM CompletedIsPublished == Spec => []CompletedMeansPublished
<1>1. Init => CompletedMeansPublished
  BY DEF Init, CompletedMeansPublished
<1>2. TypeOK /\ CompletedMeansPublished /\ [Next]_vars => CompletedMeansPublished'
  <2> SUFFICES ASSUME TypeOK, CompletedMeansPublished, [Next]_vars
               PROVE  CompletedMeansPublished'
    OBVIOUS
  <2>1. CASE Calm
    BY <2>1 DEF Calm, HonestStep, CompletedMeansPublished
  <2>2. CASE \/ Resume
             \/ \E c \in Channels : SendComplete(c) \/ TakeComplete(c) \/ TakeCompleteAgain(c)
    BY <2>2 DEF Resume, SendComplete, TakeComplete, TakeCompleteAgain, processVars, diskVars,
                CompletedMeansPublished
  <2> QED BY <2>1, <2>2, MostStepsCalm
<1> QED BY <1>1, <1>2, ReceiverTyped, PTL DEF Spec

------------------------------------------------------------------------------
(* The sender is told the truth.                                             *)

\* A sender that is not resumed sends Complete once, and no session is done before.
CompletesOnce ==
  /\ sphase \in {"connect", "stream"} =>
       /\ \A c \in Channels : wire[c].kind # "complete"
       /\ \A s \in Sessions : ~done[s]
  /\ \A c \in Channels : wire[c].kind = "complete" =>
       /\ \A d \in Channels \ {c} : wire[d].kind # "complete"
       /\ \A s \in Sessions : ~done[s]

SuccessInv == CompletesOnce /\ SuccessMeansPublished

LEMMA SuccessStep ==
  ASSUME MaxResumes = 0, TypeOK, SuccessInv, [Next]_vars
  PROVE  SuccessInv'
<1>1. ASSUME NEW c \in Channels, SendComplete(c)
      PROVE  SuccessInv'
  <2>1. /\ sphase = "stream" /\ sphase' = "final" /\ done' = done
        /\ wire' = [wire EXCEPT ![c] = Complete]
    BY <1>1 DEF SendComplete, sessionVars
  <2> QED BY <2>1 DEF SuccessInv, CompletesOnce, SuccessMeansPublished, TypeOK, OtherTyped
<1>2. ASSUME NEW c \in Channels, TakeComplete(c)
      PROVE  SuccessInv'
  <2>1. /\ wire[c].kind = "complete" /\ wire' = [wire EXCEPT ![c] = NoFrame]
        /\ UNCHANGED <<sphase, final>>
    BY <1>2 DEF TakeComplete, senderVars, diskVars
  <2>2. \A d \in Channels : wire'[d].kind # "complete"
    BY <2>1 DEF SuccessInv, CompletesOnce, TypeOK, OtherTyped, NoFrame
  <2>3. sphase \notin {"connect", "stream"}
    BY <2>1 DEF SuccessInv, CompletesOnce
  <2> QED BY <2>1, <2>2, <2>3 DEF SuccessInv, CompletesOnce, SuccessMeansPublished
<1>3. ASSUME NEW c \in Channels, TakeCompleteAgain(c)
      PROVE  FALSE
  <2>1. wire[c].kind = "complete" /\ done[sess[c]] /\ sess[c] \in Sessions
    BY <1>3, BusySession DEF TakeCompleteAgain
  <2> QED BY <2>1 DEF SuccessInv, CompletesOnce
<1>4. ~Resume
  BY DEF Resume, TypeOK, OtherTyped
<1>5. CASE Calm
  BY <1>5 DEF Calm, NoNewFinalizer, HonestStep, NoNewComplete, SuccessInv, CompletesOnce,
              SuccessMeansPublished
<1> QED BY <1>1, <1>2, <1>3, <1>4, <1>5, MostStepsCalm

LEMMA SuccessInit == Init => SuccessInv
BY DEF Init, SuccessInv, CompletesOnce, SuccessMeansPublished, NoFrame

\* A sender that runs through without being resumed is told that the transfer is
\* complete only when the file is at its final path, whatever breaks meanwhile: the one
\* Complete it sends is acknowledged after the rename.  (A resumed sender may be told
\* too early: TakeCompleteAgain does not wait for the first finaliser.)
THEOREM SuccessIsPublished ==
  ASSUME MaxResumes = 0
  PROVE  Spec => []SuccessMeansPublished
<1>1. Init => SuccessInv
  BY SuccessInit
<1>2. TypeOK /\ SuccessInv /\ [Next]_vars => SuccessInv'
  BY SuccessStep
<1>3. SuccessInv => SuccessMeansPublished
  BY DEF SuccessInv
<1> QED BY <1>1, <1>2, <1>3, ReceiverTyped, PTL DEF Spec
==============================================================================
