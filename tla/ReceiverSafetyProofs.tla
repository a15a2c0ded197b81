------------------------- MODULE ReceiverSafetyProofs -------------------------
(***************************************************************************)
(* PublishedIsClosed, PublishedIsWhole and AckedIsSafe for every file,        *)
(* number of connections, queue capacity, corruption, broken link and disk    *)
(* error, of a transfer that is not disturbed: the sender is not resumed, the *)
(* receiver's user does not cancel and no link breaks before all are joined.  *)
(* Each of the three hypotheses keeps a second session from writing to the    *)
(* .part file of the first one; runs receiver_overlap and receiver_cleanup    *)
(* show what happens without them.                                            *)
(***************************************************************************)
EXTENDS ReceiverSessionProofs, FiniteSetTheorems

Undisturbed == MaxResumes = 0 /\ ~MayCancel /\ ~MayBreakEarly

------------------------------------------------------------------------------
(* One session at a time.                                                    *)

\* While the sender connects nothing has been transferred, and every connection that
\* is open belongs to the session in the map.
ConnectInv ==
  sphase = "connect" =>
    /\ \A c \in Channels : pc[c] \in {"closed", "accept", "loop"} /\ wire[c] = NoFrame
    /\ \A c \in Channels : pc[c] # "closed" => Up(c) /\ sess[c] = map
    /\ \A s \in Sessions :
         /\ tracker[s] = {} /\ crcs[s] = {} /\ known[s] = {} /\ blocks[s] = {}
         /\ queue[s] = <<>> /\ ~done[s] /\ ~dirty[s]
    /\ meta = {} /\ acked = {} /\ flying = {} /\ final = None
    /\ part = IF created = 0 THEN None ELSE 1
    /\ map = None => \A s \in Sessions : writer[s] # "open"

\* The session created last is the only one anyone uses, and all have the same file.
SoleSession ==
  /\ map \in {None, created}
  /\ \A c \in Channels : pc[c] # "closed" => sess[c] = created
  /\ \A s \in Sessions : writer[s] = "open" => s = created
  /\ \A s \in Sessions :
       IF s <= created THEN inode[s] = 1 /\ writer[s] # "off"
                       ELSE inode[s] = None /\ writer[s] = "off"
  /\ part \in {None, 1} /\ final \in {None, 1}
  /\ sphase # "connect" => created # 0

\* A handler that has returned has no connection; a writer that has ended no queue.
Returned ==
  /\ \A c \in Channels : pc[c] = "closed" => ~Up(c) /\ wire[c] = NoFrame
  /\ \A s \in Sessions : writer[s] # "open" => queue[s] = <<>>

\* The file is published once the only writer has ended.
ClosedInv == final # None => \A s \in Sessions : writer[s] # "open"

SessionInv == ConnectInv /\ SoleSession /\ Returned /\ ClosedInv

LEMMA SessionInit == Init => SessionInv
BY ChunkTypes DEF Init, SessionInv, ConnectInv, SoleSession, Returned, ClosedInv, Up, Sessions,
                  None

\* What happens while the sender connects.
Joining ==
  \/ \E c \in Channels : JoinSession(c) \/ CreateSession(c) \/ Accept(c)
  \/ StartStreaming \/ Crash \/ UNCHANGED vars

LEMMA ConnectSteps ==
  ASSUME Undisturbed, TypeOK, SessionInv, [Next]_vars, sphase = "connect"
  PROVE  Joining
<1>1. \A c \in Channels : /\ pc[c] \in {"closed", "accept", "loop"} /\ wire[c] = NoFrame
                          /\ pc[c] # "closed" => Up(c)
  BY DEF SessionInv, ConnectInv
<1>2. NoFrame.kind = "none"
  BY DEF NoFrame
<1>3. ASSUME NEW c \in Channels, Handler(c)
      PROVE  Accept(c)
  BY <1>1, <1>2, <1>3
  DEF Handler, AcceptFails, TakeBad, TakeDuplicate, TakeNew, Mark, Enqueue, EnqueueBroken,
      TakeComplete, TakeCompleteAgain, SendClose, VerifyFails, VerifyBreaks, Publish, Eof,
      Reset, CleanupCheck, Return, CleanupRemove, Drain, Report, Up
<1>4. ~Hangup /\ ~Resume /\ ~SenderFails /\ ~SenderDone /\ ~UserCancel
  BY DEF Hangup, Resume, SenderFails, SenderDone, UserCancel, Undisturbed, TypeOK, OtherTyped
<1>5. \A c \in Channels : ~SendChunk(c) /\ ~SendComplete(c) /\ ~Corrupt(c) /\ ~LinkDown(c)
  BY <1>1, <1>2 DEF SendChunk, SendComplete, Corrupt, LinkDown, Undisturbed
<1>6. \A s \in Sessions : ~Persist(s) /\ ~WriteBlock(s) /\ ~WriteFails(s) /\ ~CloseFile(s)
  BY DEF SessionInv, ConnectInv, Persist, WriteBlock, WriteFails, CloseFile
<1>7. \A s \in Sessions : ~WriterOrphaned(s)
  BY DEF SessionInv, ConnectInv, SoleSession, WriterOrphaned
<1> QED BY <1>3, <1>4, <1>5, <1>6, <1>7 DEF Next, SenderStep, DiskWriter, Joining

LEMMA CreateKeeps ==
  ASSUME TypeOK, SessionInv, NEW c \in Channels, CreateSession(c)
  PROVE  SessionInv'
<1> DEFINE n == created + 1
<1>1. /\ sphase = "connect" /\ sphase' = sphase /\ pc[c] = "closed" /\ map = None
      /\ created' = n /\ map' = n /\ part' = IF part = None THEN n ELSE part
      /\ inode' = [inode EXCEPT ![n] = part'] /\ writer' = [writer EXCEPT ![n] = "open"]
      /\ tracker' = [tracker EXCEPT ![n] = meta] /\ known' = [known EXCEPT ![n] = meta]
      /\ sess' = [sess EXCEPT ![c] = n] /\ pc' = [pc EXCEPT ![c] = "accept"]
      /\ link' = [link EXCEPT ![c] = "up"]
      /\ UNCHANGED <<crcs, done, queue, dirty, blocks, final, meta, wire, acked, flying>>
  BY DEF CreateSession, senderVars
<1>2. n \in Sessions /\ created \in Nat /\ n # None /\ n # 0
  BY ChunkTypes DEF CreateSession, TypeOK, ProcessTyped, Sessions, None
<1>3. part' = 1
  BY <1>1, <1>2, ChunkTypes DEF SessionInv, ConnectInv, None
<1>4. \A d \in Channels : pc[d] = "closed"
  BY <1>1, BusySession, ChunkTypes DEF SessionInv, ConnectInv
<1>5. \A s \in Sessions : writer[s] # "open"
  BY <1>1 DEF SessionInv, ConnectInv
<1> HIDE DEF n
<1>6. ConnectInv'
  BY <1>1, <1>2, <1>3, <1>4
  DEF SessionInv, ConnectInv, Up, TypeOK, HandlerTyped, OtherTyped, SessionTyped
<1>7. SoleSession'
  <2>1. \A s \in Sessions : s # n => (s <= n <=> s <= created)
    BY <1>2 DEF n, Sessions
  <2>2. \A s \in Sessions : inode'[s] = (IF s = n THEN 1 ELSE inode[s])
    BY <1>1, <1>2, <1>3 DEF TypeOK, SessionTyped
  <2>3. \A s \in Sessions : writer'[s] = (IF s = n THEN "open" ELSE writer[s])
    BY <1>1, <1>2 DEF TypeOK, SessionTyped
  <2>4. \A s \in Sessions : IF s <= n THEN inode'[s] = 1 /\ writer'[s] # "off"
                                      ELSE inode'[s] = None /\ writer'[s] = "off"
    BY <1>2, <2>1, <2>2, <2>3 DEF SessionInv, SoleSession, n, Sessions
  <2>5. \A d \in Channels : pc'[d] # "closed" => sess'[d] = n
    BY <1>1, <1>4 DEF TypeOK, HandlerTyped
  <2>6. \A s \in Sessions : writer'[s] = "open" => s = n
    BY <1>5, <2>3
  <2> QED BY <1>1, <1>2, <1>3, <2>4, <2>5, <2>6 DEF SessionInv, SoleSession
<1>8. Returned'
  BY <1>1, <1>2, <1>5 DEF SessionInv, ConnectInv, Returned, Up, TypeOK, HandlerTyped, OtherTyped,
                          SessionTyped
<1>9. ClosedInv'
  BY <1>1 DEF SessionInv, ConnectInv, ClosedInv
<1> QED BY <1>6, <1>7, <1>8, <1>9 DEF SessionInv

LEMMA CrashKeeps ==
  ASSUME TypeOK, SessionInv, Crash
  PROVE  SessionInv'
<1>1. /\ map' = None /\ UNCHANGED <<created, inode, part, final, sphase, blocks, done, meta,
                                    acked, flying>>
      /\ writer' = [s \in Sessions |-> IF writer[s] = "open" THEN "closed" ELSE writer[s]]
      /\ queue' = [s \in Sessions |-> <<>>] /\ dirty' = [s \in Sessions |-> FALSE]
      /\ pc' = [c \in Channels |-> "closed"] /\ wire' = [c \in Channels |-> NoFrame]
      /\ link' = [c \in Channels |-> "closed"]
      /\ tracker' = [s \in Sessions |-> {}] /\ crcs' = [s \in Sessions |-> {}]
      /\ known' = [s \in Sessions |-> {}]
  BY DEF Crash, diskVars, senderVars
<1>2. \A s \in Sessions : writer'[s] # "open" /\ (writer'[s] = "off" <=> writer[s] = "off")
  BY <1>1
<1>3. ConnectInv'
  BY <1>1, <1>2 DEF SessionInv, ConnectInv
<1>4. SoleSession'
  BY <1>1, <1>2 DEF SessionInv, SoleSession
<1>5. Returned' /\ ClosedInv'
  BY <1>1, <1>2 DEF Returned, ClosedInv, Up
<1> QED BY <1>3, <1>4, <1>5 DEF SessionInv

LEMMA JoiningKeeps ==
  ASSUME TypeOK, SessionInv, sphase = "connect", Joining
  PROVE  SessionInv'
<1>1. ASSUME NEW c \in Channels, JoinSession(c)
      PROVE  SessionInv'
  <2>1. /\ pc' = [pc EXCEPT ![c] = "accept"] /\ sess' = [sess EXCEPT ![c] = map]
        /\ link' = [link EXCEPT ![c] = "up"] /\ wire' = wire
        /\ UNCHANGED <<processVars, sessionVars, diskVars, senderVars>> /\ map # None
    BY <1>1 DEF JoinSession
  <2>2. ConnectInv'
    BY <2>1 DEF SessionInv, ConnectInv, Up, processVars, sessionVars, diskVars, senderVars,
                TypeOK, HandlerTyped, OtherTyped
  <2>3. SoleSession'
    BY <2>1 DEF SessionInv, SoleSession, processVars, sessionVars, diskVars, senderVars,
                TypeOK, HandlerTyped
  <2>4. Returned' /\ ClosedInv'
    BY <2>1 DEF SessionInv, Returned, ClosedInv, Up, sessionVars, diskVars, TypeOK,
                HandlerTyped, OtherTyped
  <2> QED BY <2>2, <2>3, <2>4 DEF SessionInv
<1>2. ASSUME NEW c \in Channels, Accept(c)
      PROVE  SessionInv'
  <2>1. /\ pc[c] = "accept" /\ pc' = [pc EXCEPT ![c] = "loop"] /\ sess[c] \in Sessions
        /\ acked' = acked \cup tracker[sess[c]]
        /\ UNCHANGED <<processVars, sessionVars, diskVars, sess, link, wire, sphase, flying>>
    BY <1>2, BusySession DEF Accept, linkVars
  <2>2. ConnectInv'
    BY <2>1 DEF SessionInv, ConnectInv, Up, processVars, sessionVars, diskVars, TypeOK,
                HandlerTyped
  <2>3. SoleSession'
    BY <2>1 DEF SessionInv, SoleSession, processVars, sessionVars, diskVars, TypeOK,
                HandlerTyped
  <2>4. Returned' /\ ClosedInv'
    BY <2>1 DEF SessionInv, Returned, ClosedInv, Up, sessionVars, diskVars, TypeOK,
                HandlerTyped
  <2> QED BY <2>2, <2>3, <2>4 DEF SessionInv
<1>3. CASE StartStreaming
  <2>1. /\ UNCHANGED <<processVars, sessionVars, diskVars, handlerVars, linkVars>>
        /\ sphase' = "stream" /\ \E c \in Channels : Up(c)
    BY <1>3 DEF StartStreaming
  <2>2. created # 0
    <3>1. PICK c \in Channels : Up(c)
      BY <2>1
    <3>2. pc[c] # "closed"
      BY <3>1 DEF SessionInv, Returned
    <3> QED BY <3>2, BusySession, ChunkTypes DEF SessionInv, SoleSession, None
  <2> QED BY <2>1, <2>2
          DEF SessionInv, ConnectInv, SoleSession, Returned, ClosedInv, Up, processVars,
              sessionVars, diskVars, handlerVars, linkVars
<1>4. CASE UNCHANGED vars
  BY <1>4 DEF vars, processVars, sessionVars, diskVars, handlerVars, linkVars, senderVars,
              SessionInv, ConnectInv, SoleSession, Returned, ClosedInv, Up
<1> QED BY <1>1, <1>2, <1>3, <1>4, CreateKeeps, CrashKeeps DEF Joining

------------------------------------------------------------------------------
(* After the connections are joined nothing brings a second session.         *)

\* The map only empties, the .part file only goes, and a handler only changes to the
\* session in the map.
GoesOn ==
  /\ created' = created /\ inode' = inode
  /\ map' \in {map, None} /\ part' \in {part, None} /\ final' \in {final, part}
  /\ \A c \in Channels :
       pc'[c] # "closed" =>
         pc[c] # "closed" /\ (sess'[c] = sess[c] \/ (map # None /\ sess'[c] = map))
  /\ \A s \in Sessions :
       writer'[s] = writer[s] \/ (writer[s] = "open" /\ writer'[s] = "closed")
  /\ sphase' # "connect"

LEMMA GoingKeeps ==
  ASSUME SessionInv, sphase # "connect", GoesOn, Returned', ClosedInv'
  PROVE  SessionInv'
<1>1. ConnectInv'
  BY DEF GoesOn, ConnectInv
<1>2. SoleSession'
  BY DEF SessionInv, SoleSession, GoesOn
<1> QED BY <1>1, <1>2 DEF SessionInv

\* A handler's own steps: where it goes, and which session it refers to then.
HandlerStep(c) ==
  \E l \in {"loop", "mark", "enqueue", "close", "closing", "leaving", "cleanup", "remove",
            "drain", "report"} :
    /\ HandlerMoves(c, l)
    /\ Leave(c) \/ sess'[c] = sess[c] \/ (map # None /\ sess'[c] = map)

LEMMA HandlersMove ==
  ASSUME TypeOK, NEW c \in Channels, Handler(c)
  PROVE  pc[c] # "closed" /\ HandlerStep(c)
<1>1. pc[c] # "closed"
  BY DEF Handler, Accept, AcceptFails, TakeBad, TakeDuplicate, TakeNew, Mark, Enqueue,
         EnqueueBroken, TakeComplete, TakeCompleteAgain, SendClose, VerifyFails, VerifyBreaks,
         Publish, Eof, Reset, CleanupCheck, Return, CleanupRemove, Drain, Report
<1>2. CASE \/ AcceptFails(c) \/ EnqueueBroken(c) \/ TakeCompleteAgain(c) \/ VerifyFails(c)
           \/ VerifyBreaks(c) \/ Publish(c) \/ Reset(c) \/ Return(c) \/ Report(c)
  <2>1. Leave(c)
    BY <1>2 DEF AcceptFails, EnqueueBroken, TakeCompleteAgain, VerifyFails, VerifyBreaks,
                Publish, Reset, Return, Report
  <2>2. HandlerMoves(c, "loop")
    BY <2>1 DEF HandlerMoves
  <2> QED BY <1>1, <2>1, <2>2 DEF HandlerStep
<1>3. CASE TakeBad(c) \/ TakeDuplicate(c) \/ Enqueue(c)
  <2>1. Continue(c)
    BY <1>3 DEF TakeBad, TakeDuplicate, Enqueue
  <2>2. HandlerMoves(c, "loop") /\ (Leave(c) \/ sess' = sess)
    BY <2>1, ContinueMoves DEF Continue
  <2> QED BY <1>1, <2>2 DEF HandlerStep
<1>4. CASE \/ Accept(c) \/ TakeNew(c) \/ Mark(c) \/ TakeComplete(c) \/ SendClose(c) \/ Eof(c)
           \/ CleanupCheck(c) \/ CleanupRemove(c) \/ Drain(c)
  <2>1. CASE Leave(c)
    <3>1. HandlerMoves(c, "loop")
      BY <2>1 DEF HandlerMoves
    <3> QED BY <1>1, <2>1, <3>1 DEF HandlerStep
  <2>2. CASE ~Leave(c)
    <3>1. /\ link' = link /\ (wire' = wire \/ wire' = [wire EXCEPT ![c] = NoFrame])
          /\ \E l \in {"loop", "mark", "enqueue", "close", "closing", "leaving", "cleanup",
                       "remove", "drain", "report"} :
               pc' = [pc EXCEPT ![c] = l]
      BY <1>4, <2>2 DEF Accept, TakeNew, Mark, TakeComplete, SendClose, Eof, CleanupCheck,
                        CleanupRemove, Drain, linkVars
    <3>2. CASE CleanupRemove(c)
      <4>1. sess' = [sess EXCEPT ![c] = IF map = None THEN @ ELSE map]
        BY <3>2 DEF CleanupRemove
      <4>2. /\ sess' = [sess EXCEPT ![c] = sess'[c]]
            /\ sess'[c] = sess[c] \/ (map # None /\ sess'[c] = map)
        BY <4>1 DEF TypeOK, HandlerTyped
      <4> QED BY <1>1, <3>1, <4>2 DEF HandlerStep, HandlerMoves
    <3>3. CASE ~CleanupRemove(c)
      <4>1. sess' = sess
        BY <1>4, <2>2, <3>3 DEF Accept, TakeNew, Mark, TakeComplete, SendClose, Eof,
                                CleanupCheck, Drain
      <4>2. sess' = [sess EXCEPT ![c] = sess'[c]]
        BY <4>1 DEF TypeOK, HandlerTyped
      <4> QED BY <1>1, <3>1, <4>1, <4>2 DEF HandlerStep, HandlerMoves
    <3> QED BY <3>2, <3>3
  <2> QED BY <2>1, <2>2
<1> QED BY <1>2, <1>3, <1>4 DEF Handler

\* Such a step opens nothing and leaves nothing behind.
LEMMA MovingOn ==
  ASSUME TypeOK, Returned, NEW c \in Channels, pc[c] # "closed", HandlerStep(c)
  PROVE  /\ \A d \in Channels : pc'[d] = "closed" => ~Up(d)' /\ wire'[d] = NoFrame
         /\ \A d \in Channels :
              pc'[d] # "closed" =>
                pc[d] # "closed" /\ (sess'[d] = sess[d] \/ (map # None /\ sess'[d] = map))
<1>1. PICK l \in {"loop", "mark", "enqueue", "close", "closing", "leaving", "cleanup", "remove",
                  "drain", "report"} :
        /\ HandlerMoves(c, l)
        /\ Leave(c) \/ sess'[c] = sess[c] \/ (map # None /\ sess'[c] = map)
  BY DEF HandlerStep
<1>2. CASE Leave(c)
  BY <1>2 DEF Leave, Returned, Up, TypeOK, HandlerTyped, OtherTyped
<1>3. CASE ~Leave(c)
  BY <1>1, <1>3 DEF HandlerMoves, Returned, Up, TypeOK, HandlerTyped, OtherTyped
<1> QED BY <1>2, <1>3

\* Handlers put commands into the queue of a writer that is open, and no other.
LEMMA HandlerQueues ==
  ASSUME TypeOK, SessionInv, NEW c \in Channels, Handler(c)
  PROVE  /\ writer' = writer
         /\ \A s \in Sessions : writer[s] # "open" => queue'[s] = <<>>
<1>1. pc[c] # "closed" /\ sess[c] \in Sessions /\ writer[sess[c]] # "off"
  <2>1. pc[c] # "closed"
    BY HandlersMove
  <2>2. sess[c] \in Sessions /\ sess[c] = created
    BY <2>1, BusySession DEF SessionInv, SoleSession
  <2> QED BY <2>1, <2>2 DEF SessionInv, SoleSession, Sessions
<1>2. \A s \in Sessions : writer[s] # "open" => queue[s] = <<>>
  BY DEF SessionInv, Returned
<1>3. CASE Enqueue(c)
  <2>1. writer' = writer /\ queue' = [queue EXCEPT ![sess[c]] = Append(@, Write(chunk[c]))]
        /\ writer[sess[c]] = "open"
    BY <1>3 DEF Enqueue
  <2> QED BY <1>2, <2>1 DEF TypeOK, SessionTyped
<1>4. CASE SendClose(c) \/ Drain(c)
  <2>1. /\ writer' = writer
        /\ queue' = IF writer[sess[c]] = "closed" THEN queue
                    ELSE [queue EXCEPT ![sess[c]] = Append(@, Close)]
    BY <1>4 DEF SendClose, Drain
  <2>2. writer[sess[c]] \in {"open", "closed"}
    BY <1>1 DEF TypeOK, SessionTyped
  <2> QED BY <1>2, <2>1, <2>2 DEF TypeOK, SessionTyped
<1>5. CASE ~(Enqueue(c) \/ SendClose(c) \/ Drain(c))
  <2>1. writer' = writer /\ queue' = queue
    BY <1>5 DEF Handler, Accept, AcceptFails, TakeBad, TakeDuplicate, TakeNew, Mark,
                EnqueueBroken, TakeComplete, TakeCompleteAgain, VerifyFails, VerifyBreaks,
                Publish, Eof, Reset, CleanupCheck, Return, CleanupRemove, Report, sessionVars
  <2> QED BY <1>2, <2>1
<1> QED BY <1>3, <1>4, <1>5

LEMMA HandlerKeeps ==
  ASSUME TypeOK, SessionInv, sphase # "connect", NEW c \in Channels, Handler(c)
  PROVE  SessionInv'
<1>1. pc[c] # "closed" /\ HandlerStep(c) /\ Returned
  BY HandlersMove DEF SessionInv
<1>2. /\ \A d \in Channels : pc'[d] = "closed" => ~Up(d)' /\ wire'[d] = NoFrame
      /\ \A d \in Channels :
           pc'[d] # "closed" =>
             pc[d] # "closed" /\ (sess'[d] = sess[d] \/ (map # None /\ sess'[d] = map))
  BY <1>1, MovingOn
<1>3. writer' = writer /\ \A s \in Sessions : writer[s] # "open" => queue'[s] = <<>>
  BY HandlerQueues
<1>4. Returned'
  BY <1>2, <1>3 DEF Returned
<1>5. CASE Publish(c)
  <2>1. /\ created' = created /\ inode' = inode /\ map' = None /\ part' = None
        /\ final' = part /\ sphase' \in {sphase, "ok"} /\ writer[sess[c]] = "closed"
    BY <1>5 DEF Publish, FinalAck, sessionVars
  <2>2. sess[c] = created
    BY <1>1 DEF SessionInv, SoleSession
  <2>3. ClosedInv'
    BY <1>3, <2>1, <2>2 DEF SessionInv, SoleSession, ClosedInv
  <2>4. GoesOn
    BY <1>2, <1>3, <2>1 DEF GoesOn
  <2> QED BY <1>4, <2>3, <2>4, GoingKeeps
<1>6. CASE ~Publish(c)
  <2>1. /\ created' = created /\ inode' = inode /\ final' = final /\ map' \in {map, None}
        /\ part' \in {part, None} /\ sphase' \in {sphase, "ok"}
    BY <1>6 DEF Handler, Accept, AcceptFails, TakeBad, TakeDuplicate, TakeNew, Mark, Enqueue,
                EnqueueBroken, TakeComplete, TakeCompleteAgain, SendClose, VerifyFails,
                VerifyBreaks, Eof, Reset, CleanupCheck, Return, CleanupRemove, Drain, Report,
                FinalAck, processVars, sessionVars, diskVars, senderVars
  <2>2. ClosedInv'
    BY <1>3, <2>1 DEF SessionInv, ClosedInv
  <2>3. GoesOn
    BY <1>2, <1>3, <2>1 DEF GoesOn
  <2> QED BY <1>4, <2>2, <2>3, GoingKeeps
<1> QED BY <1>5, <1>6

LEMMA WriterKeeps ==
  ASSUME TypeOK, SessionInv, sphase # "connect", NEW s \in Sessions, DiskWriter(s) \/ Persist(s)
  PROVE  SessionInv'
<1>1. /\ UNCHANGED <<processVars, inode, part, final, handlerVars, linkVars, senderVars>>
      /\ writer' = writer \/ (writer[s] = "open" /\ writer' = [writer EXCEPT ![s] = "closed"])
      /\ \/ queue' = queue \/ queue' = [queue EXCEPT ![s] = <<>>]
         \/ writer' = writer /\ writer[s] = "open" /\ queue' = [queue EXCEPT ![s] = Tail(@)]
      /\ writer' # writer => queue'[s] = <<>>
  BY DEF DiskWriter, WriteBlock, WriteFails, CloseFile, WriterOrphaned, Persist, diskVars,
         TypeOK, SessionTyped
<1>2. \A t \in Sessions : writer'[t] = writer[t] \/ (writer[t] = "open" /\ writer'[t] = "closed")
  BY <1>1 DEF TypeOK, SessionTyped
<1>3. Returned'
  BY <1>1 DEF SessionInv, Returned, Up, handlerVars, linkVars, TypeOK, SessionTyped
<1>4. ClosedInv'
  BY <1>1, <1>2 DEF SessionInv, ClosedInv
<1>5. GoesOn
  BY <1>1, <1>2 DEF GoesOn, processVars, handlerVars, senderVars
<1> QED BY <1>3, <1>4, <1>5, GoingKeeps

LEMMA LinksKeep ==
  ASSUME Undisturbed, TypeOK, SessionInv, sphase # "connect",
         \/ StartStreaming \/ Hangup \/ SenderFails \/ SenderDone \/ Resume \/ UserCancel
         \/ \E c \in Channels : \/ JoinSession(c) \/ CreateSession(c)
                                \/ SendChunk(c) \/ SendComplete(c) \/ Corrupt(c) \/ LinkDown(c)
         \/ UNCHANGED vars
  PROVE  SessionInv'
<1>1. ~Hangup /\ ~Resume /\ ~StartStreaming /\ ~UserCancel
      /\ \A c \in Channels : ~JoinSession(c) /\ ~CreateSession(c)
  BY DEF Hangup, Resume, StartStreaming, UserCancel, JoinSession, CreateSession, Undisturbed,
         TypeOK, OtherTyped
<1>2. /\ UNCHANGED <<processVars, sessionVars, diskVars, handlerVars>>
      /\ sphase' # "connect"
  BY <1>1 DEF SenderFails, SenderDone, SendChunk, SendComplete, Corrupt, LinkDown, senderVars,
              vars
<1>3. Returned'
  <2>1. \A s \in Sessions : writer'[s] # "open" => queue'[s] = <<>>
    BY <1>2 DEF SessionInv, Returned, sessionVars
  <2>2. ASSUME NEW c \in Channels, SendChunk(c) \/ SendComplete(c) \/ Corrupt(c) \/ LinkDown(c)
        PROVE  /\ \A d \in Channels \ {c} : wire'[d] = wire[d] /\ link'[d] = link[d]
               /\ pc[c] # "closed" /\ pc' = pc
    BY <1>2, <2>2 DEF SendChunk, SendComplete, Corrupt, LinkDown, SessionInv, Returned, NoFrame,
                handlerVars, TypeOK, OtherTyped
  <2>3. CASE SenderFails \/ SenderDone \/ UNCHANGED vars
    BY <1>2, <2>1, <2>3 DEF SenderFails, SenderDone, CloseLinks, SessionInv, Returned, Up,
                            handlerVars, linkVars, vars
  <2>4. CASE ~(SenderFails \/ SenderDone \/ UNCHANGED vars)
    <3>1. PICK c \in Channels : SendChunk(c) \/ SendComplete(c) \/ Corrupt(c) \/ LinkDown(c)
      BY <1>1, <2>4
    <3> QED BY <2>1, <2>2, <3>1 DEF SessionInv, Returned, Up
  <2> QED BY <2>3, <2>4
<1>4. ClosedInv'
  BY <1>2 DEF SessionInv, ClosedInv, diskVars, sessionVars
<1>5. GoesOn
  BY <1>2 DEF GoesOn, processVars, sessionVars, diskVars, handlerVars
<1> QED BY <1>3, <1>4, <1>5, GoingKeeps

LEMMA SessionStep ==
  ASSUME Undisturbed, TypeOK, SessionInv, [Next]_vars
  PROVE  SessionInv'
<1>1. CASE sphase = "connect"
  BY <1>1, ConnectSteps, JoiningKeeps
<1>2. CASE sphase # "connect"
  BY <1>2, HandlerKeeps, WriterKeeps, LinksKeep, CrashKeeps DEF Next, SenderStep
<1> QED BY <1>1, <1>2

LEMMA SessionAlways ==
  ASSUME Undisturbed
  PROVE  Spec => [](TypeOK /\ SessionInv)
<1>1. Init => SessionInv
  BY SessionInit
<1>2. TypeOK /\ SessionInv /\ [Next]_vars => SessionInv'
  BY SessionStep
<1> QED BY <1>1, <1>2, ReceiverTyped, PTL DEF Spec

\* No disk writer still has the file open that is at its final path, of whichever
\* session it is and however often the process was restarted meanwhile: the finaliser
\* waits for the one writer there is.
THEOREM PublishedFileIsClosed ==
  ASSUME Undisturbed
  PROVE  Spec => []PublishedIsClosed
<1>1. TypeOK /\ SessionInv => PublishedIsClosed
  BY DEF TypeOK, SessionTyped, SessionInv, SoleSession, ClosedInv, PublishedIsClosed, Sessions
<1> QED BY <1>1, SessionAlways, PTL

------------------------------------------------------------------------------
(* The commands in a disk queue.                                             *)

WriteIds(q) == {q[i].id : i \in {j \in DOMAIN q : q[j].op = "write"}}

HasClose(q) == \E i \in DOMAIN q : q[i] = Close

\* Nothing is to be written behind a Close.
CloseLast(q) == \A i, j \in DOMAIN q : i < j /\ q[i] = Close => q[j].op # "write"

LEMMA CloseIsNoWrite == Close.op = "close" /\ \A k \in Chunks : Write(k) = [op |-> "write", id |-> k]
BY DEF Close, Write

LEMMA EmptyQueue == WriteIds(<<>>) = {} /\ ~HasClose(<<>>) /\ CloseLast(<<>>)
<1>1. DOMAIN <<>> = {}
  BY EmptySeq
<1> QED BY <1>1 DEF WriteIds, HasClose, CloseLast

LEMMA QueueGrows ==
  ASSUME NEW q \in Seq(Ops), NEW x \in Ops
  PROVE  /\ WriteIds(q) \subseteq WriteIds(Append(q, x))
         /\ x.op = "write" => x.id \in WriteIds(Append(q, x))
         /\ HasClose(Append(q, x)) => HasClose(q) \/ x = Close
         /\ CloseLast(q) /\ (x.op # "write" \/ ~HasClose(q)) => CloseLast(Append(q, x))
<1> DEFINE r == Append(q, x)
<1>1. /\ Len(q) \in Nat /\ DOMAIN q = 1 .. Len(q) /\ DOMAIN r = 1 .. Len(q) + 1
      /\ r[Len(q) + 1] = x /\ \A i \in 1 .. Len(q) : r[i] = q[i]
  BY AppendProperties, LenProperties
<1>2. \A i \in DOMAIN r : (i \in DOMAIN q /\ r[i] = q[i]) \/ (i = Len(q) + 1 /\ r[i] = x)
  BY <1>1
<1>3. \A i \in DOMAIN q : i \in DOMAIN r /\ r[i] = q[i] /\ i < Len(q) + 1
  BY <1>1
<1>4. Len(q) + 1 \in DOMAIN r
  BY <1>1
<1>5. \A i, j \in DOMAIN r : i < j => i \in DOMAIN q
  BY <1>1
<1> HIDE DEF r
<1>6. WriteIds(q) \subseteq WriteIds(r)
  BY <1>3 DEF WriteIds
<1>7. x.op = "write" => x.id \in WriteIds(r)
  BY <1>1, <1>4 DEF WriteIds
<1>8. HasClose(r) => HasClose(q) \/ x = Close
  BY <1>2 DEF HasClose
<1>9. CloseLast(q) /\ (x.op # "write" \/ ~HasClose(q)) => CloseLast(r)
  BY <1>2, <1>3, <1>5 DEF CloseLast, HasClose
<1> QED BY <1>6, <1>7, <1>8, <1>9 DEF r

LEMMA QueueShrinks ==
  ASSUME NEW q \in Seq(Ops), q # <<>>
  PROVE  /\ WriteIds(q) \subseteq WriteIds(Tail(q)) \cup {Head(q).id}
         /\ HasClose(Tail(q)) => HasClose(q)
         /\ CloseLast(q) => CloseLast(Tail(q))
         /\ CloseLast(q) /\ Head(q) = Close => WriteIds(q) = {}
<1> DEFINE t == Tail(q)
<1>1. /\ Len(q) \in Nat \ {0} /\ DOMAIN q = 1 .. Len(q) /\ DOMAIN t = 1 .. Len(q) - 1
      /\ Head(q) = q[1] /\ \A i \in 1 .. Len(q) - 1 : t[i] = q[i + 1]
  BY HeadTailProperties, LenProperties, EmptySeq
<1>2. \A i \in DOMAIN t : i + 1 \in DOMAIN q /\ t[i] = q[i + 1] /\ i \in Nat
  BY <1>1
<1>3. \A j \in DOMAIN q : j = 1 \/ (j - 1 \in DOMAIN t /\ t[j - 1] = q[j] /\ 1 < j)
  BY <1>1
<1>4. 1 \in DOMAIN q
  BY <1>1
<1> HIDE DEF t
<1>5. WriteIds(q) \subseteq WriteIds(t) \cup {Head(q).id}
  BY <1>1, <1>3 DEF WriteIds
<1>6. HasClose(t) => HasClose(q)
  BY <1>2 DEF HasClose
<1>7. CloseLast(q) => CloseLast(t)
  BY <1>2 DEF CloseLast
<1>8. CloseLast(q) /\ Head(q) = Close => WriteIds(q) = {}
  BY <1>1, <1>3, <1>4, CloseIsNoWrite DEF CloseLast, WriteIds
<1> QED BY <1>5, <1>6, <1>7, <1>8 DEF t

------------------------------------------------------------------------------
(* A chunk is in one place at a time.                                        *)

Carried(c) == IF wire[c].kind \in {"good", "bad"} THEN {wire[c].id} ELSE {}
InHand(c)  == IF pc[c] \in {"mark", "enqueue"} THEN {chunk[c]} ELSE {}

\* A handler has a chunk at hand only between taking and queueing it.
EmptyHanded == \A c \in Channels : pc[c] \notin {"mark", "enqueue"} => chunk[c] = NoChunk

\* A chunk that is carried or at hand is in flight and not acknowledged, and no other
\* connection has it; the session marks no chunk that it has not been sent.
OneCopy ==
  /\ \A c \in Channels : Carried(c) \subseteq flying \ (acked \cup tracker[created])
  /\ \A c \in Channels : InHand(c) \subseteq flying \ acked
  /\ \A c, d \in Channels :
       c # d => Carried(c) \cap Carried(d) = {} /\ InHand(c) \cap InHand(d) = {}
  /\ \A c, d \in Channels : Carried(c) \cap InHand(d) = {}
  /\ tracker[created] \subseteq acked \cup flying

\* The sender counts on the receiver for every chunk once it has sent Complete.
CompleteInv ==
  /\ \A c \in Channels : wire[c].kind = "complete" => acked = Chunks
  /\ \A s \in Sessions : done[s] => acked = Chunks

\* No chunk will be queued any more.
NobodyAdds == \A c \in Channels : pc[c] \notin {"accept", "loop", "mark", "enqueue"}

Settled == acked = Chunks \/ NobodyAdds

\* A queue is closed, and the session leaves the map, when no chunk is to come.
SettledInv ==
  /\ \A s \in Sessions : HasClose(queue[s]) => Settled /\ CloseLast(queue[s])
  /\ \A c \in Channels : pc[c] \in {"remove", "drain"} => Settled
  /\ map = None => Settled
  /\ \A c \in Channels : pc[c] # "accept"

\* The process was restarted under a sender that had its connections.
Dead == crashes > 0 /\ \A c \in Channels : pc[c] = "closed"

\* What is acknowledged is on disk or queued for it.
DeliveryInv ==
  \/ Dead
  \/ diskError[created]
  \/ acked \subseteq blocks[1] \cup WriteIds(queue[created])

DataInv ==
  /\ EmptyHanded
  /\ sphase # "connect" => OneCopy /\ CompleteInv /\ SettledInv /\ DeliveryInv

\* What all the lemmas below start from.
StreamInv ==
  /\ TypeOK /\ SessionInv /\ FinalizerInv /\ sphase # "connect"
  /\ EmptyHanded /\ OneCopy /\ CompleteInv /\ SettledInv /\ DeliveryInv

LEMMA EmptyHandedStep ==
  ASSUME TypeOK, EmptyHanded, [Next]_vars
  PROVE  EmptyHanded'
<1>1. ASSUME NEW c \in Channels,
             \/ JoinSession(c) \/ CreateSession(c) \/ AcceptFails(c) \/ TakeNew(c)
             \/ Mark(c) \/ EnqueueBroken(c) \/ VerifyFails(c) \/ VerifyBreaks(c) \/ Publish(c)
             \/ TakeCompleteAgain(c) \/ Reset(c) \/ Return(c) \/ Report(c)
      PROVE  EmptyHanded'
  BY <1>1 DEF JoinSession, CreateSession, AcceptFails, TakeNew, Mark, EnqueueBroken,
              VerifyFails, VerifyBreaks, Publish, TakeCompleteAgain, Reset, Return, Report, Leave,
              EmptyHanded, TypeOK, HandlerTyped
<1>2. ASSUME NEW c \in Channels, Continue(c)
      PROVE  EmptyHanded'
  BY <1>2 DEF Continue, Leave, EmptyHanded, TypeOK, HandlerTyped
<1>3. ASSUME NEW c \in Channels,
             \/ Accept(c) \/ TakeComplete(c) \/ SendClose(c)
             \/ Eof(c) \/ CleanupCheck(c) \/ CleanupRemove(c) \/ Drain(c)
      PROVE  EmptyHanded'
  BY <1>3 DEF Accept, TakeComplete, SendClose, Eof, CleanupCheck, CleanupRemove, Drain,
              EmptyHanded, TypeOK, HandlerTyped
<1>4. CASE UNCHANGED <<pc, chunk>>
  BY <1>4 DEF EmptyHanded
<1>5. CASE Crash
  BY <1>5 DEF Crash, EmptyHanded
<1>6. ASSUME NEW c \in Channels, TakeBad(c) \/ TakeDuplicate(c) \/ Enqueue(c)
      PROVE  Continue(c)
  BY <1>6 DEF TakeBad, TakeDuplicate, Enqueue
<1>7. CASE \/ StartStreaming \/ SenderFails \/ SenderDone \/ Hangup \/ Resume \/ UserCancel
           \/ \E c \in Channels : SendChunk(c) \/ SendComplete(c) \/ Corrupt(c) \/ LinkDown(c)
           \/ \E s \in Sessions : DiskWriter(s) \/ Persist(s)
           \/ UNCHANGED vars
  BY <1>4, <1>7
  DEF StartStreaming, SenderFails, SenderDone, Hangup, Resume, UserCancel, SendChunk,
      SendComplete, Corrupt, LinkDown, DiskWriter, WriteBlock, WriteFails, CloseFile,
      WriterOrphaned, Persist, handlerVars, vars
<1> QED BY <1>1, <1>2, <1>3, <1>5, <1>6, <1>7 DEF Next, SenderStep, Handler

\* What a handler does once it has accepted, but for a chunk that comes twice.
ChunkMoves(c) ==
  \/ TakeBad(c) \/ TakeNew(c) \/ Mark(c) \/ Enqueue(c) \/ EnqueueBroken(c)
  \/ TakeComplete(c) \/ TakeCompleteAgain(c) \/ SendClose(c)
  \/ VerifyFails(c) \/ VerifyBreaks(c) \/ Publish(c)
  \/ Eof(c) \/ Reset(c) \/ CleanupCheck(c) \/ Return(c) \/ CleanupRemove(c)
  \/ Drain(c) \/ Report(c)

\* The steps outside the handshake, by what they do to the chunks.
Moves ==
  \/ SenderFails \/ SenderDone \/ Crash
  \/ \E c \in Channels :
       \/ ChunkMoves(c)
       \/ SendChunk(c) \/ SendComplete(c) \/ Corrupt(c) \/ LinkDown(c)
  \/ \E s \in Sessions : DiskWriter(s) \/ Persist(s)
  \/ UNCHANGED vars

LEMMA StreamSteps ==
  ASSUME Undisturbed, StreamInv, [Next]_vars
  PROVE  Moves
<1>1. /\ ~Hangup /\ ~Resume /\ ~StartStreaming /\ ~UserCancel
      /\ \A c \in Channels : ~JoinSession(c) /\ ~CreateSession(c)
  BY DEF Hangup, Resume, StartStreaming, UserCancel, JoinSession, CreateSession, Undisturbed,
         StreamInv, TypeOK, OtherTyped
<1>2. \A c \in Channels : ~Accept(c) /\ ~AcceptFails(c)
  BY DEF Accept, AcceptFails, StreamInv, SettledInv
<1>3. ASSUME NEW c \in Channels, TakeDuplicate(c)
      PROVE  FALSE
  <2>1. sess[c] = created
    BY <1>3 DEF TakeDuplicate, StreamInv, SessionInv, SoleSession
  <2>2. wire[c].id \in Carried(c)
    BY <1>3 DEF TakeDuplicate, Carried
  <2> QED BY <1>3, <2>1, <2>2 DEF TakeDuplicate, StreamInv, OneCopy
<1> QED BY <1>1, <1>2, <1>3 DEF Next, SenderStep, Handler, Moves, ChunkMoves

\* Outside the handshake there is a session, and busy handlers use it.
LEMMA TheSession ==
  ASSUME StreamInv
  PROVE  /\ created \in Sessions /\ inode[created] = 1 /\ writer[created] # "off"
         /\ \A c \in Channels : pc[c] # "closed" => sess[c] = created
         /\ \A s \in Sessions : writer[s] = "open" => s = created
<1>1. created \in Sessions
  BY ChunkTypes DEF StreamInv, SessionInv, SoleSession, TypeOK, ProcessTyped, Sessions
<1> QED BY <1>1 DEF StreamInv, SessionInv, SoleSession, Sessions

------------------------------------------------------------------------------
(* OneCopy is kept.                                                          *)

\* Most steps only take chunks from where they are.
Shrinks ==
  \A c \in Channels : Carried(c)' \subseteq Carried(c) /\ InHand(c)' \subseteq InHand(c)

LEMMA CopyKept ==
  ASSUME OneCopy, Shrinks, tracker'[created'] = tracker[created], UNCHANGED <<acked, flying>>
  PROVE  OneCopy'
BY DEF OneCopy, Shrinks

LEMMA LeaveShrinks ==
  ASSUME StreamInv, NEW c \in Channels, Leave(c)
  PROVE  Shrinks /\ Carried(c)' = {} /\ InHand(c)' = {}
BY DEF Leave, Shrinks, Carried, InHand, NoFrame, StreamInv, TypeOK, HandlerTyped, OtherTyped

\* The answer to the frame on the wire, or to the chunk at hand.
LEMMA ContinueShrinks ==
  ASSUME StreamInv, NEW c \in Channels, Continue(c)
  PROVE  /\ Shrinks /\ InHand(c)' = {}
         /\ pc[c] = "loop" => Carried(c)' = {}
<1>1. CASE Leave(c)
  BY <1>1, LeaveShrinks
<1>2. CASE /\ pc' = [pc EXCEPT ![c] = "loop"] /\ chunk' = [chunk EXCEPT ![c] = NoChunk]
           /\ wire' = IF chunk[c] = NoChunk THEN [wire EXCEPT ![c] = NoFrame] ELSE wire
  <2>1. Shrinks /\ InHand(c)' = {}
    BY <1>2 DEF Shrinks, Carried, InHand, NoFrame, StreamInv, TypeOK, HandlerTyped, OtherTyped
  <2>2. pc[c] = "loop" => Carried(c)' = {}
    BY <1>2 DEF Carried, NoFrame, StreamInv, EmptyHanded, TypeOK, OtherTyped
  <2> QED BY <2>1, <2>2
<1> QED BY <1>1, <1>2 DEF Continue

\* Steps that leave every chunk where it is, or drop it with its connection.
LEMMA QuietCopies ==
  ASSUME StreamInv,
         \/ SenderFails \/ SenderDone \/ UNCHANGED vars
         \/ \E c \in Channels :
              \/ EnqueueBroken(c) \/ TakeComplete(c) \/ TakeCompleteAgain(c) \/ SendClose(c)
              \/ VerifyFails(c) \/ VerifyBreaks(c) \/ Publish(c)
              \/ Eof(c) \/ Reset(c) \/ CleanupCheck(c) \/ Return(c) \/ CleanupRemove(c)
              \/ Drain(c) \/ Report(c) \/ SendComplete(c) \/ Corrupt(c)
         \/ \E s \in Sessions : DiskWriter(s) \/ Persist(s)
  PROVE  OneCopy'
<1>1. UNCHANGED <<created, tracker, acked, flying>>
  BY DEF SenderFails, SenderDone, EnqueueBroken, TakeComplete, TakeCompleteAgain, SendClose,
         VerifyFails, VerifyBreaks, Publish, Eof, Reset, CleanupCheck, Return, CleanupRemove,
         Drain, Report, SendComplete, Corrupt, DiskWriter, WriteBlock, WriteFails, CloseFile,
         WriterOrphaned, Persist, FinalAck, processVars, sessionVars, senderVars, vars
<1>2. ASSUME NEW c \in Channels,
             \/ EnqueueBroken(c) \/ TakeCompleteAgain(c) \/ VerifyFails(c) \/ VerifyBreaks(c)
             \/ Publish(c) \/ Reset(c) \/ Return(c) \/ Report(c)
      PROVE  Shrinks
  BY <1>2, LeaveShrinks DEF EnqueueBroken, TakeCompleteAgain, VerifyFails, VerifyBreaks,
                            Publish, Reset, Return, Report
<1>3. ASSUME NEW c \in Channels,
             \/ TakeComplete(c) \/ SendClose(c)
             \/ Eof(c) \/ CleanupCheck(c) \/ CleanupRemove(c) \/ Drain(c)
      PROVE  Shrinks
  <2>1. /\ chunk' = chunk /\ (wire' = wire \/ wire' = [wire EXCEPT ![c] = NoFrame])
        /\ \E l \in {"close", "closing", "leaving", "cleanup", "remove", "report", "drain"} :
             pc' = [pc EXCEPT ![c] = l]
    BY <1>3 DEF TakeComplete, SendClose, Eof, CleanupCheck, CleanupRemove, Drain, linkVars
  <2> QED BY <2>1 DEF Shrinks, Carried, InHand, NoFrame, StreamInv, TypeOK, HandlerTyped,
                      OtherTyped
<1>4. ASSUME NEW c \in Channels, SendComplete(c) \/ Corrupt(c)
      PROVE  Shrinks
  BY <1>4 DEF SendComplete, Corrupt, Shrinks, Carried, InHand, Complete, Bad, handlerVars,
              StreamInv, TypeOK, OtherTyped
<1>5. CASE \/ SenderFails \/ SenderDone \/ UNCHANGED vars
           \/ \E s \in Sessions : DiskWriter(s) \/ Persist(s)
  <2>1. UNCHANGED <<pc, chunk, wire>>
    BY <1>5 DEF SenderFails, SenderDone, DiskWriter, WriteBlock, WriteFails, CloseFile,
                WriterOrphaned, Persist, handlerVars, linkVars, vars
  <2>2. Shrinks
    BY <2>1 DEF Shrinks, Carried, InHand
  <2> QED BY <1>1, <2>2, CopyKept DEF StreamInv
<1> QED BY <1>1, <1>2, <1>3, <1>4, <1>5, CopyKept DEF StreamInv

LEMMA TakenCopies ==
  ASSUME StreamInv, NEW c \in Channels, TakeBad(c) \/ TakeNew(c) \/ Mark(c) \/ Enqueue(c)
  PROVE  OneCopy'
<1>1. created' = created /\ pc[c] # "closed" /\ sess[c] = created /\ created \in Sessions
  BY TheSession DEF TakeBad, TakeNew, Mark, Enqueue, processVars
<1>2. CASE TakeBad(c)
  <2>1. Shrinks /\ Carried(c)' = {}
    BY <1>2, ContinueShrinks DEF TakeBad
  <2>2. Carried(c) = {wire[c].id}
    BY <1>2 DEF TakeBad, Carried
  <2>3. /\ UNCHANGED <<tracker, acked>>
        /\ flying' = flying \/ flying' = flying \ {wire[c].id}
    BY <1>2 DEF TakeBad, sessionVars
  <2> QED BY <1>1, <2>1, <2>2, <2>3 DEF StreamInv, OneCopy, Shrinks
<1>3. CASE TakeNew(c)
  <2>1. /\ Carried(c) = {wire[c].id} /\ InHand(c) = {} /\ Carried(c)' = {}
        /\ InHand(c)' = {wire[c].id}
    BY <1>3 DEF TakeNew, Carried, InHand, NoFrame, StreamInv, TypeOK, HandlerTyped, OtherTyped
  <2>2. \A d \in Channels \ {c} : Carried(d)' = Carried(d) /\ InHand(d)' = InHand(d)
    BY <1>3 DEF TakeNew, Carried, InHand, StreamInv, TypeOK, HandlerTyped, OtherTyped
  <2>3. UNCHANGED <<tracker, acked, flying>>
    BY <1>3 DEF TakeNew, sessionVars, senderVars
  <2> QED BY <1>1, <2>1, <2>2, <2>3 DEF StreamInv, OneCopy
<1>4. CASE Mark(c)
  <2>1. Shrinks
    <3>1. CASE Leave(c)
      BY <3>1, LeaveShrinks
    <3>2. CASE pc' = [pc EXCEPT ![c] = "enqueue"] /\ UNCHANGED <<chunk, wire>>
      BY <1>4, <3>2 DEF Mark, Shrinks, Carried, InHand, StreamInv, TypeOK, HandlerTyped
    <3> QED BY <1>4, <3>1, <3>2 DEF Mark, linkVars
  <2>2. /\ tracker'[created] = tracker[created] \cup {chunk[c]} /\ InHand(c) = {chunk[c]}
        /\ UNCHANGED <<acked, flying>>
    BY <1>1, <1>4 DEF Mark, InHand, senderVars, StreamInv, TypeOK, SessionTyped
  <2> QED BY <1>1, <2>1, <2>2 DEF StreamInv, OneCopy, Shrinks
<1>5. CASE Enqueue(c)
  <2>1. Shrinks /\ InHand(c)' = {}
    BY <1>5, ContinueShrinks DEF Enqueue
  <2>2. InHand(c) = {chunk[c]} /\ tracker' = tracker
    BY <1>5 DEF Enqueue, InHand
  <2>3. \/ UNCHANGED <<acked, flying>>
        \/ acked' = acked \cup {chunk[c]} /\ flying' = flying \ {chunk[c]}
    BY <1>5 DEF Enqueue, SenderLearns
  <2> QED BY <1>1, <2>1, <2>2, <2>3 DEF StreamInv, OneCopy, Shrinks
<1> QED BY <1>2, <1>3, <1>4, <1>5

LEMMA SentCopies ==
  ASSUME StreamInv, NEW c \in Channels, SendChunk(c) \/ LinkDown(c)
  PROVE  OneCopy'
<1>1. UNCHANGED <<created, tracker, acked, pc, chunk>>
  BY DEF SendChunk, LinkDown, processVars, sessionVars, handlerVars
<1>2. CASE SendChunk(c)
  <2>1. PICK k \in Chunks \ (acked \cup flying) :
          wire' = [wire EXCEPT ![c] = Good(k)] /\ flying' = flying \cup {k}
    BY <1>2 DEF SendChunk
  <2>2. /\ Carried(c)' = {k} /\ \A d \in Channels \ {c} : Carried(d)' = Carried(d)
        /\ \A d \in Channels : InHand(d)' = InHand(d)
    BY <1>1, <2>1 DEF Carried, InHand, Good, StreamInv, TypeOK, OtherTyped
  <2> QED BY <1>1, <2>1, <2>2 DEF StreamInv, OneCopy
<1>3. CASE LinkDown(c)
  <2>1. CASE UNCHANGED <<wire, flying>>
    <3>1. Shrinks
      BY <1>1, <2>1 DEF Shrinks, Carried, InHand
    <3> QED BY <1>1, <2>1, <3>1, CopyKept DEF StreamInv
  <2>2. CASE wire' = [wire EXCEPT ![c] = NoFrame] /\ flying' = flying \ {wire[c].id}
    <3>1. Shrinks /\ Carried(c)' = {}
      BY <1>1, <2>2 DEF Shrinks, Carried, InHand, NoFrame, StreamInv, TypeOK, OtherTyped
    <3>2. Carried(c) = {wire[c].id} \/ wire[c].id = NoChunk
      <4>1. wire[c] \in Frames
        BY DEF StreamInv, TypeOK, OtherTyped
      <4> QED BY <4>1 DEF Frames, Carried, NoFrame, Complete, Good, Bad
    <3>3. NoChunk \notin flying
      BY ChunkTypes DEF StreamInv, TypeOK, OtherTyped
    <3>4. flying' = flying \/ Carried(c) = {wire[c].id}
      BY <2>2, <3>2, <3>3
    <3>5. CASE flying' = flying
      BY <1>1, <3>1, <3>5, CopyKept DEF StreamInv
    <3>6. CASE Carried(c) = {wire[c].id}
      BY <1>1, <2>2, <3>1, <3>6 DEF StreamInv, OneCopy, Shrinks
    <3> QED BY <3>4, <3>5, <3>6
  <2> QED BY <1>3, <2>1, <2>2 DEF LinkDown
<1> QED BY <1>2, <1>3

LEMMA CrashCopies ==
  ASSUME StreamInv, Crash
  PROVE  OneCopy'
<1>1. /\ \A c \in Channels : Carried(c)' = {} /\ InHand(c)' = {}
      /\ tracker'[created'] = {}
  BY TheSession DEF Crash, Carried, InHand, NoFrame
<1> QED BY <1>1 DEF OneCopy

LEMMA CopyStep ==
  ASSUME Undisturbed, StreamInv, [Next]_vars
  PROVE  OneCopy'
BY StreamSteps, QuietCopies, TakenCopies, SentCopies, CrashCopies DEF Moves, ChunkMoves

------------------------------------------------------------------------------
(* CompleteInv and SettledInv are kept.                                      *)

\* Chunks are only ever added to those acknowledged.
LEMMA AckedGrows ==
  ASSUME StreamInv, Moves
  PROVE  acked \subseteq acked' /\ (acked = Chunks => acked' = Chunks)
<1>1. acked \subseteq acked'
  <2>1. CASE \E d \in Channels : ChunkMoves(d)
    BY <2>1
    DEF ChunkMoves, TakeBad, TakeNew, Mark, Enqueue, EnqueueBroken, TakeComplete,
        TakeCompleteAgain, SendClose, VerifyFails, VerifyBreaks, Publish, Eof, Reset,
        CleanupCheck, Return, CleanupRemove, Drain, Report, FinalAck, SenderLearns, senderVars,
        vars
  <2>2. CASE \A d \in Channels : ~ChunkMoves(d)
    BY <2>2
    DEF Moves, SenderFails, SenderDone, Crash, SendChunk, SendComplete, Corrupt, LinkDown,
        DiskWriter, WriteBlock, WriteFails, CloseFile, WriterOrphaned, Persist, FinalAck,
        SenderLearns, senderVars, vars
  <2> QED BY <2>1, <2>2
<1>2. acked' \subseteq acked \cup Chunks
  <2>1. ASSUME NEW c \in Channels, Enqueue(c)
        PROVE  acked' \subseteq acked \cup Chunks
    <3>1. chunk[c] \in Chunks
      BY <2>1 DEF Enqueue, StreamInv, TypeOK, HandlerTyped
    <3> QED BY <2>1, <3>1 DEF Enqueue, SenderLearns
  <2>2. CASE \A c \in Channels : ~Enqueue(c)
    <3>1. CASE \E d \in Channels : ChunkMoves(d)
      BY <2>2, <3>1
      DEF ChunkMoves, TakeBad, TakeNew, Mark, EnqueueBroken, TakeComplete, TakeCompleteAgain,
          SendClose, VerifyFails, VerifyBreaks, Publish, Eof, Reset, CleanupCheck, Return,
          CleanupRemove, Drain, Report, FinalAck, senderVars, vars
    <3>2. CASE \A d \in Channels : ~ChunkMoves(d)
      BY <2>2, <3>2
      DEF Moves, SenderFails, SenderDone, Crash, SendChunk, SendComplete, Corrupt, LinkDown,
          DiskWriter, WriteBlock, WriteFails, CloseFile, WriterOrphaned, Persist, FinalAck,
          senderVars, vars
    <3> QED BY <3>1, <3>2
  <2> QED BY <2>1, <2>2
<1> QED BY <1>1, <1>2 DEF StreamInv, TypeOK, OtherTyped

LEMMA CompleteStep ==
  ASSUME Undisturbed, StreamInv, [Next]_vars
  PROVE  CompleteInv'
<1>1. Moves /\ (acked = Chunks => acked' = Chunks)
  BY StreamSteps, AckedGrows
<1>2. ASSUME NEW c \in Channels, SendComplete(c)
      PROVE  CompleteInv'
  <2>1. acked' = Chunks
    BY <1>2 DEF SendComplete
  <2> QED BY <2>1 DEF CompleteInv
<1>3. ASSUME NEW c \in Channels, TakeComplete(c) \/ TakeCompleteAgain(c)
      PROVE  CompleteInv'
  <2>1. acked' = Chunks
    BY <1>1, <1>3 DEF TakeComplete, TakeCompleteAgain, StreamInv, CompleteInv
  <2> QED BY <2>1 DEF CompleteInv
<1>4. CASE Calm
  BY <1>1, <1>4 DEF Calm, NoNewFinalizer, NoNewComplete, StreamInv, CompleteInv
<1>5. ~Resume
  BY DEF Resume, Undisturbed, StreamInv, TypeOK, OtherTyped
<1> QED BY <1>2, <1>3, <1>4, <1>5, MostStepsCalm DEF StreamInv

\* No handler starts over: one that will not queue a chunk never does.
LEMMA AddersStay ==
  ASSUME StreamInv, Moves, NEW c \in Channels,
         pc'[c] \in {"accept", "loop", "mark", "enqueue"}
  PROVE  pc[c] \in {"accept", "loop", "mark", "enqueue"} /\ pc'[c] # "accept"
<1>1. pc[c] # "accept"
  BY DEF StreamInv, SettledInv
<1>2. CASE UNCHANGED pc
  BY <1>1, <1>2
<1>3. ASSUME NEW d \in Channels, Leave(d)
      PROVE  pc[c] \in {"accept", "loop", "mark", "enqueue"} /\ pc'[c] # "accept"
  BY <1>1, <1>3 DEF Leave, StreamInv, TypeOK, HandlerTyped
<1>4. ASSUME NEW d \in Channels, Continue(d), pc[d] \in {"loop", "enqueue"}
      PROVE  pc[c] \in {"accept", "loop", "mark", "enqueue"} /\ pc'[c] # "accept"
  BY <1>1, <1>3, <1>4 DEF Continue, StreamInv, TypeOK, HandlerTyped
<1>5. ASSUME NEW d \in Channels,
             \/ TakeNew(d) \/ Mark(d) \/ TakeComplete(d) \/ SendClose(d) \/ Eof(d)
             \/ CleanupCheck(d) \/ CleanupRemove(d) \/ Drain(d)
      PROVE  pc[c] \in {"accept", "loop", "mark", "enqueue"} /\ pc'[c] # "accept"
  BY <1>1, <1>3, <1>5 DEF TakeNew, Mark, TakeComplete, SendClose, Eof, CleanupCheck,
                          CleanupRemove, Drain, StreamInv, TypeOK, HandlerTyped
<1>6. ASSUME NEW d \in Channels, TakeBad(d) \/ Enqueue(d)
      PROVE  Continue(d) /\ pc[d] \in {"loop", "enqueue"}
  BY <1>6 DEF TakeBad, Enqueue
<1>7. ASSUME NEW d \in Channels,
             \/ EnqueueBroken(d) \/ TakeCompleteAgain(d) \/ VerifyFails(d) \/ VerifyBreaks(d)
             \/ Publish(d) \/ Reset(d) \/ Return(d) \/ Report(d)
      PROVE  Leave(d)
  BY <1>7 DEF EnqueueBroken, TakeCompleteAgain, VerifyFails, VerifyBreaks, Publish, Reset,
              Return, Report
<1>8. CASE Crash
  BY <1>8 DEF Crash
<1>9. CASE \/ SenderFails \/ SenderDone \/ UNCHANGED vars
           \/ \E d \in Channels : SendChunk(d) \/ SendComplete(d) \/ Corrupt(d) \/ LinkDown(d)
           \/ \E s \in Sessions : DiskWriter(s) \/ Persist(s)
  BY <1>2, <1>9 DEF SenderFails, SenderDone, SendChunk, SendComplete, Corrupt, LinkDown,
                    DiskWriter, WriteBlock, WriteFails, CloseFile, WriterOrphaned, Persist,
                    handlerVars, vars
<1> QED BY <1>3, <1>4, <1>5, <1>6, <1>7, <1>8, <1>9 DEF Moves, ChunkMoves

LEMMA SettledStays ==
  ASSUME StreamInv, Moves, Settled
  PROVE  Settled'
BY AckedGrows, AddersStay DEF Settled, NobodyAdds

\* A handler that would still queue a chunk shows that the session is not settled.
LEMMA HandIsUnsettled ==
  ASSUME StreamInv, NEW c \in Channels, pc[c] \in {"mark", "enqueue"}
  PROVE  ~Settled /\ chunk[c] \in Chunks
<1>1. chunk[c] \in Chunks /\ chunk[c] \in flying \ acked
  BY DEF StreamInv, OneCopy, InHand, TypeOK, HandlerTyped
<1> QED BY <1>1 DEF Settled, NobodyAdds

\* The handler that finalises has all the chunks.
LEMMA FinaliserHasAll ==
  ASSUME StreamInv, NEW c \in Channels, pc[c] \in {"close", "closing"}
  PROVE  acked = Chunks
<1>1. done[sess[c]] /\ sess[c] \in Sessions
  BY BusySession DEF StreamInv, FinalizerInv, Finalizing
<1> QED BY <1>1 DEF StreamInv, CompleteInv

\* The last handler of a session sees that it is the last one.
LEMMA LastHolder ==
  ASSUME StreamInv, NEW c \in Channels, pc[c] # "closed", map # None,
         Cardinality(Holders(map)) <= 1
  PROVE  \A d \in Channels \ {c} : pc[d] = "closed"
<1> SUFFICES ASSUME NEW d \in Channels \ {c}, pc[d] # "closed" PROVE FALSE
  OBVIOUS
<1>1. map = created /\ {c, d} \subseteq Holders(map)
  BY TheSession DEF StreamInv, SessionInv, SoleSession, Holders
<1>2. Holders(map) \subseteq Channels /\ IsFiniteSet(Channels)
  BY SizeAssumption DEF Holders
<1>3. IsFiniteSet(Holders(map))
  BY <1>2, FS_Subset
<1>4. Cardinality({c}) = 1 /\ IsFiniteSet({c})
  BY FS_Singleton
<1>5. Cardinality({c} \cup {d}) = 2
  BY <1>4, FS_AddElement
<1>6. {c, d} = {c} \cup {d}
  OBVIOUS
<1>7. Cardinality({c, d}) <= Cardinality(Holders(map)) /\ Cardinality(Holders(map)) \in Nat
  BY <1>1, <1>3, FS_Subset, FS_CardinalityType
<1> QED BY <1>5, <1>6, <1>7

\* What a step makes of the queues: one command more in one of them, or fewer commands.
LEMMA QueueSteps ==
  ASSUME StreamInv, Moves
  PROVE  \A s \in Sessions :
           \/ queue'[s] = queue[s] \/ queue'[s] = <<>>
           \/ queue[s] # <<>> /\ queue'[s] = Tail(queue[s])
           \/ \E c \in Channels : /\ Enqueue(c) /\ s = created
                                  /\ queue'[s] = Append(queue[s], Write(chunk[c]))
           \/ /\ \E c \in Channels : SendClose(c) \/ Drain(c)
              /\ queue'[s] = Append(queue[s], Close)
<1> SUFFICES ASSUME NEW s \in Sessions
             PROVE  \/ queue'[s] = queue[s] \/ queue'[s] = <<>>
                    \/ queue[s] # <<>> /\ queue'[s] = Tail(queue[s])
                    \/ \E c \in Channels : /\ Enqueue(c) /\ s = created
                                           /\ queue'[s] = Append(queue[s], Write(chunk[c]))
                    \/ /\ \E c \in Channels : SendClose(c) \/ Drain(c)
                       /\ queue'[s] = Append(queue[s], Close)
  OBVIOUS
<1>1. ASSUME NEW c \in Channels, Enqueue(c)
      PROVE  \/ queue'[s] = queue[s]
             \/ s = created /\ queue'[s] = Append(queue[s], Write(chunk[c]))
  <2>1. sess[c] = created /\ created \in Sessions
    BY <1>1, TheSession DEF Enqueue
  <2> QED BY <1>1, <2>1 DEF Enqueue, StreamInv, TypeOK, SessionTyped
<1>2. ASSUME NEW c \in Channels, SendClose(c) \/ Drain(c)
      PROVE  queue'[s] = queue[s] \/ queue'[s] = Append(queue[s], Close)
  <2>1. \/ queue' = queue
        \/ queue' = [queue EXCEPT ![sess[c]] = Append(@, Close)]
    BY <1>2 DEF SendClose, Drain
  <2> QED BY <2>1 DEF StreamInv, TypeOK, SessionTyped
<1>3. ASSUME NEW t \in Sessions, DiskWriter(t)
      PROVE  \/ queue'[s] = queue[s] \/ queue'[s] = <<>>
             \/ queue[s] # <<>> /\ queue'[s] = Tail(queue[s])
  <2>1. \/ queue' = queue \/ queue' = [queue EXCEPT ![t] = <<>>]
        \/ queue[t] # <<>> /\ queue' = [queue EXCEPT ![t] = Tail(@)]
    BY <1>3 DEF DiskWriter, WriteBlock, WriteFails, CloseFile, WriterOrphaned
  <2> QED BY <2>1 DEF StreamInv, TypeOK, SessionTyped
<1>4. CASE Crash
  BY <1>4 DEF Crash
<1>5. CASE /\ ~Crash /\ \A t \in Sessions : ~DiskWriter(t)
           /\ \A c \in Channels : ~Enqueue(c) /\ ~SendClose(c) /\ ~Drain(c)
  <2>1. queue' = queue
    BY <1>5
    DEF Moves, ChunkMoves, SenderFails, SenderDone, TakeBad, TakeNew, Mark, EnqueueBroken,
        TakeComplete, TakeCompleteAgain, VerifyFails, VerifyBreaks, Publish, Eof, Reset,
        CleanupCheck, Return, CleanupRemove, Report, SendChunk, SendComplete, Corrupt,
        LinkDown, Persist, sessionVars, vars
  <2> QED BY <2>1
<1> QED BY <1>1, <1>2, <1>3, <1>4, <1>5

\* Only the check leads a handler to take the session from the map.
LEMMA CleanupBegins ==
  ASSUME StreamInv, Moves, NEW c \in Channels, pc'[c] \in {"remove", "drain"},
         pc[c] \notin {"remove", "drain"}
  PROVE  CleanupCheck(c) /\ pc'[c] = "remove"
<1> USE DEF StreamInv, TypeOK, HandlerTyped
<1>1. pc' # pc /\ ~Crash
  BY DEF Crash
<1>2. \A d \in Channels : ~Leave(d)
  BY DEF Leave
<1>3. \A d \in Channels : ~Continue(d)
  BY <1>2 DEF Continue
<1>4. \A d \in Channels : ~TakeNew(d) /\ ~TakeComplete(d) /\ ~SendClose(d) /\ ~Eof(d)
  BY DEF TakeNew, TakeComplete, SendClose, Eof
<1>5. \A d \in Channels : ~Mark(d)
  BY <1>2 DEF Mark
<1>6. \A d \in Channels : ~CleanupRemove(d) /\ ~Drain(d)
  BY DEF CleanupRemove, Drain
<1>7. \A d \in Channels : /\ ~TakeBad(d) /\ ~Enqueue(d) /\ ~EnqueueBroken(d)
                          /\ ~TakeCompleteAgain(d) /\ ~VerifyFails(d) /\ ~VerifyBreaks(d)
                          /\ ~Publish(d) /\ ~Reset(d) /\ ~Return(d) /\ ~Report(d)
  BY <1>2, <1>3 DEF TakeBad, Enqueue, EnqueueBroken, TakeCompleteAgain, VerifyFails, VerifyBreaks,
                    Publish, Reset, Return, Report
<1>8. \E d \in Channels : CleanupCheck(d)
  BY <1>1, <1>4, <1>5, <1>6, <1>7
  DEF Moves, ChunkMoves, SenderFails, SenderDone, SendChunk, SendComplete, Corrupt, LinkDown,
      DiskWriter, WriteBlock, WriteFails, CloseFile, WriterOrphaned, Persist, handlerVars, vars
<1> QED BY <1>8 DEF CleanupCheck

LEMMA SettledStep ==
  ASSUME Undisturbed, StreamInv, [Next]_vars
  PROVE  SettledInv'
<1>1. Moves
  BY StreamSteps
<1>2. ASSUME NEW s \in Sessions, HasClose(queue'[s])
      PROVE  Settled' /\ CloseLast(queue'[s])
  <2>1. queue[s] \in Seq(Ops) /\ Close \in Ops
    BY ChunkTypes DEF StreamInv, TypeOK, SessionTyped
  <2>2. HasClose(queue[s]) => Settled /\ CloseLast(queue[s])
    BY DEF StreamInv, SettledInv
  <2>3. CASE queue'[s] = queue[s]
    BY <1>1, <1>2, <2>2, <2>3, SettledStays
  <2>4. CASE queue'[s] = <<>>
    BY <1>2, <2>4, EmptyQueue
  <2>5. CASE queue[s] # <<>> /\ queue'[s] = Tail(queue[s])
    BY <1>1, <1>2, <2>1, <2>2, <2>5, QueueShrinks, SettledStays
  <2>6. ASSUME NEW c \in Channels, Enqueue(c), queue'[s] = Append(queue[s], Write(chunk[c]))
        PROVE  FALSE
    <3>1. ~Settled /\ chunk[c] \in Chunks
      BY <2>6, HandIsUnsettled DEF Enqueue
    <3>2. Write(chunk[c]) \in Ops /\ Write(chunk[c]) # Close
      BY <3>1, ChunkTypes, CloseIsNoWrite
    <3>3. HasClose(queue[s])
      BY <1>2, <2>1, <2>6, <3>2, QueueGrows
    <3> QED BY <2>2, <3>1, <3>3
  <2>7. ASSUME NEW c \in Channels, SendClose(c) \/ Drain(c),
               queue'[s] = Append(queue[s], Close)
        PROVE  Settled' /\ CloseLast(queue'[s])
    <3>1. Settled
      <4>1. CASE SendClose(c)
        <5>1. acked = Chunks
          BY <4>1, FinaliserHasAll DEF SendClose
        <5> QED BY <5>1 DEF Settled
      <4>2. CASE Drain(c)
        BY <4>2 DEF Drain, StreamInv, SettledInv
      <4> QED BY <2>7, <4>1, <4>2
    <3>2. CloseLast(queue[s])
      <4>1. CASE HasClose(queue[s])
        BY <2>2, <4>1
      <4>2. CASE ~HasClose(queue[s])
        BY <4>2 DEF HasClose, CloseLast
      <4> QED BY <4>1, <4>2
    <3>3. CloseLast(queue'[s])
      BY <2>1, <2>7, <3>2, QueueGrows, CloseIsNoWrite
    <3> QED BY <1>1, <3>1, <3>3, SettledStays
  <2> QED BY <1>1, <2>3, <2>4, <2>5, <2>6, <2>7, QueueSteps
<1>3. ASSUME NEW c \in Channels, pc'[c] \in {"remove", "drain"}
      PROVE  Settled'
  <2>1. CASE pc[c] \in {"remove", "drain"}
    BY <1>1, <2>1, SettledStays DEF StreamInv, SettledInv
  <2>2. CASE pc[c] \notin {"remove", "drain"}
    <3>1. CleanupCheck(c) /\ pc'[c] = "remove"
      BY <1>1, <1>3, <2>2, CleanupBegins
    <3>2. CASE map = None
      BY <1>1, <3>2, SettledStays DEF StreamInv, SettledInv
    <3>3. CASE map # None
      <4>1. Cardinality(Holders(map)) <= 1 /\ pc[c] = "cleanup"
        BY <3>1, <3>3 DEF CleanupCheck, StreamInv, TypeOK, HandlerTyped
      <4>2. \A d \in Channels \ {c} : pc[d] = "closed"
        BY <3>3, <4>1, LastHolder
      <4>3. NobodyAdds
        BY <4>1, <4>2 DEF NobodyAdds
      <4> QED BY <1>1, <4>3, SettledStays DEF Settled
    <3> QED BY <3>2, <3>3
  <2> QED BY <2>1, <2>2
<1>4. ASSUME map' = None
      PROVE  Settled'
  <2>1. CASE map = None
    BY <1>1, <2>1, SettledStays DEF StreamInv, SettledInv
  <2>2. CASE map # None
    <3>1. \/ Crash
          \/ \E c \in Channels : VerifyFails(c) \/ Publish(c) \/ CleanupRemove(c)
      <4>1. CASE \E d \in Channels : ChunkMoves(d)
        BY <1>1, <1>4, <2>2, <4>1
        DEF ChunkMoves, TakeBad, TakeNew, Mark, Enqueue, EnqueueBroken, TakeComplete,
            TakeCompleteAgain, SendClose, VerifyBreaks, Eof, Reset, CleanupCheck, Return,
            Drain, Report, processVars, vars
      <4>2. CASE \A d \in Channels : ~ChunkMoves(d)
        BY <1>1, <1>4, <2>2, <4>2
        DEF Moves, SenderFails, SenderDone, SendChunk, SendComplete, Corrupt, LinkDown,
            DiskWriter, WriteBlock, WriteFails, CloseFile, WriterOrphaned, Persist,
            processVars, vars
      <4> QED BY <4>1, <4>2
    <3>2. CASE Crash
      BY <3>2 DEF Crash, Settled, NobodyAdds
    <3>3. ASSUME NEW c \in Channels, VerifyFails(c) \/ Publish(c)
          PROVE  Settled
      BY <3>3, FinaliserHasAll DEF VerifyFails, Publish, Settled
    <3>4. ASSUME NEW c \in Channels, CleanupRemove(c)
          PROVE  Settled
      BY <3>4 DEF CleanupRemove, StreamInv, SettledInv
    <3> QED BY <1>1, <3>1, <3>2, <3>3, <3>4, SettledStays
  <2> QED BY <2>1, <2>2
<1>5. \A c \in Channels : pc'[c] # "accept"
  BY <1>1, AddersStay
<1> QED BY <1>2, <1>3, <1>4, <1>5 DEF SettledInv

------------------------------------------------------------------------------
(* What is acknowledged reaches the disk.                                    *)

LEMMA DeadStays ==
  ASSUME StreamInv, Moves, Dead
  PROVE  Dead'
<1>1. crashes' \in {crashes, crashes + 1} /\ crashes \in Nat
  <2>1. CASE \E c \in Channels : ChunkMoves(c)
    BY <2>1 DEF ChunkMoves, TakeBad, TakeNew, Mark, Enqueue, EnqueueBroken, TakeComplete,
                TakeCompleteAgain, SendClose, VerifyFails, VerifyBreaks, Publish, Eof, Reset,
                CleanupCheck, Return, CleanupRemove, Drain, Report, faultVars, StreamInv,
                TypeOK, OtherTyped
  <2>2. CASE \A c \in Channels : ~ChunkMoves(c)
    BY <2>2, FaultAssumption
    DEF Moves, SenderFails, SenderDone, Crash, SendChunk, SendComplete, Corrupt, LinkDown,
        DiskWriter, WriteBlock, WriteFails, CloseFile, WriterOrphaned, Persist, faultVars, vars,
        StreamInv, TypeOK, OtherTyped
  <2> QED BY <2>1, <2>2
<1>2. \A c \in Channels : pc'[c] = "closed"
  <2>1. \A c \in Channels : ~Handler(c)
    BY HandlersMove DEF Dead, StreamInv
  <2>2. pc' = pc \/ Crash
    BY <2>1 DEF Moves, ChunkMoves, Handler, SenderFails, SenderDone, SendChunk, SendComplete,
                Corrupt, LinkDown, DiskWriter, WriteBlock, WriteFails, CloseFile,
                WriterOrphaned, Persist, handlerVars, vars
  <2> QED BY <2>2 DEF Dead, Crash
<1> QED BY <1>1, <1>2 DEF Dead, StreamInv, TypeOK, OtherTyped

\* A step that is neither an Enqueue nor the writer's leaves the disk and what is
\* acknowledged alone.
LEMMA QuietDisk ==
  ASSUME StreamInv, Moves, ~Crash, \A c \in Channels : ~Enqueue(c),
         \A s \in Sessions : ~DiskWriter(s)
  PROVE  UNCHANGED <<acked, blocks, diskError, created>>
<1>1. CASE \E d \in Channels : ChunkMoves(d)
  BY <1>1
  DEF ChunkMoves, TakeBad, TakeNew, Mark, EnqueueBroken, TakeComplete, TakeCompleteAgain,
      SendClose, VerifyFails, VerifyBreaks, Publish, Eof, Reset, CleanupCheck, Return,
      CleanupRemove, Drain, Report, FinalAck, processVars, sessionVars, diskVars, senderVars,
      vars
<1>2. CASE \A d \in Channels : ~ChunkMoves(d)
  BY <1>2
  DEF Moves, SenderFails, SenderDone, SendChunk, SendComplete, Corrupt, LinkDown, Persist,
      FinalAck, processVars, sessionVars, diskVars, senderVars, vars
<1> QED BY <1>1, <1>2

LEMMA DeliveryStep ==
  ASSUME Undisturbed, StreamInv, [Next]_vars
  PROVE  DeliveryInv'
<1>1. Moves /\ created \in Sessions /\ queue[created] \in Seq(Ops)
  BY StreamSteps, TheSession DEF StreamInv, TypeOK, SessionTyped
<1>2. CASE Dead
  BY <1>1, <1>2, DeadStays DEF DeliveryInv
<1>3. CASE Crash
  <2>1. crashes' > 0
    BY <1>3 DEF Crash, StreamInv, TypeOK, OtherTyped
  <2> QED BY <1>3, <2>1 DEF Crash, DeliveryInv, Dead
<1>4. ASSUME ~Dead, NEW c \in Channels, Enqueue(c)
      PROVE  DeliveryInv'
  <2>1. sess[c] = created /\ chunk[c] \in Chunks
    BY <1>4, TheSession, HandIsUnsettled DEF Enqueue
  <2>2. queue'[created] = Append(queue[created], Write(chunk[c]))
    BY <1>1, <1>4, <2>1 DEF Enqueue, StreamInv, TypeOK, SessionTyped
  <2>3. WriteIds(queue[created]) \cup {chunk[c]} \subseteq WriteIds(queue'[created])
    <3>1. Write(chunk[c]) \in Ops /\ Write(chunk[c]).op = "write" /\ Write(chunk[c]).id = chunk[c]
      BY <2>1, ChunkTypes, CloseIsNoWrite
    <3> QED BY <1>1, <2>2, <3>1, QueueGrows
  <2>4. acked' \subseteq acked \cup {chunk[c]} /\ UNCHANGED <<blocks, diskError, created>>
    BY <1>4 DEF Enqueue, SenderLearns, processVars, diskVars
  <2> QED BY <1>4, <2>3, <2>4 DEF StreamInv, DeliveryInv
<1>5. ASSUME ~Dead, NEW s \in Sessions, DiskWriter(s)
      PROVE  DeliveryInv'
  <2>1. writer[s] = "open" /\ s = created /\ inode[s] = 1
    BY <1>5, TheSession DEF DiskWriter, WriteBlock, WriteFails, CloseFile, WriterOrphaned
  <2>2. acked' = acked /\ created' = created
    BY <1>5 DEF DiskWriter, WriteBlock, WriteFails, CloseFile, WriterOrphaned, processVars,
                senderVars
  <2>3. CASE WriteBlock(s)
    <3>1. /\ queue[s] # <<>> /\ queue'[s] = Tail(queue[s]) /\ diskError' = diskError
          /\ blocks' = [blocks EXCEPT ![1] = @ \cup {Head(queue[s]).id}]
      BY <1>1, <2>1, <2>3 DEF WriteBlock, StreamInv, TypeOK, SessionTyped
    <3>2. blocks'[1] = blocks[1] \cup {Head(queue[s]).id}
      BY <3>1, ChunkTypes DEF StreamInv, TypeOK, DiskTyped, Sessions
    <3>3. WriteIds(queue[s]) \subseteq WriteIds(queue'[s]) \cup {Head(queue[s]).id}
      BY <1>1, <2>1, <3>1, QueueShrinks
    <3> QED BY <1>5, <2>1, <2>2, <3>1, <3>2, <3>3 DEF StreamInv, DeliveryInv
  <2>4. CASE WriteFails(s)
    <3>1. diskError'[created'] = TRUE
      BY <2>1, <2>2, <2>4 DEF WriteFails, StreamInv, TypeOK, SessionTyped
    <3> QED BY <3>1 DEF DeliveryInv
  <2>5. CASE CloseFile(s)
    <3>1. queue[s] # <<>> /\ Head(queue[s]).op = "close" /\ UNCHANGED <<blocks, diskError>>
      BY <2>5 DEF CloseFile, diskVars
    <3>2. Head(queue[s]) \in Ops /\ DOMAIN queue[s] = 1 .. Len(queue[s])
          /\ Head(queue[s]) = queue[s][1] /\ Len(queue[s]) \in Nat \ {0}
      BY <1>1, <2>1, <3>1, HeadTailProperties, LenProperties, EmptySeq
    <3>3. Head(queue[s]) = Close
      BY <3>1, <3>2, OpKinds
    <3>4. HasClose(queue[s])
      BY <3>2, <3>3 DEF HasClose
    <3>5. WriteIds(queue[s]) = {}
      BY <1>1, <2>1, <3>1, <3>3, <3>4, QueueShrinks DEF StreamInv, SettledInv
    <3> QED BY <1>5, <2>1, <2>2, <3>1, <3>5 DEF StreamInv, DeliveryInv
  <2>6. CASE WriterOrphaned(s)
    <3>1. UNCHANGED <<queue, blocks, diskError>>
      BY <2>6 DEF WriterOrphaned, diskVars
    <3> QED BY <1>5, <2>2, <3>1 DEF StreamInv, DeliveryInv
  <2> QED BY <1>5, <2>3, <2>4, <2>5, <2>6 DEF DiskWriter
<1>6. CASE /\ ~Dead /\ ~Crash /\ \A c \in Channels : ~Enqueue(c)
           /\ \A s \in Sessions : ~DiskWriter(s)
  <2>1. UNCHANGED <<acked, blocks, diskError, created>>
    BY <1>1, <1>6, QuietDisk
  <2>2. WriteIds(queue[created]) \subseteq WriteIds(queue'[created])
    <3>1. CASE queue'[created] = queue[created]
      BY <3>1
    <3>2. CASE queue'[created] = Append(queue[created], Close)
      BY <1>1, <3>2, QueueGrows, ChunkTypes
    <3>3. CASE /\ queue'[created] # queue[created]
               /\ queue'[created] # Append(queue[created], Close)
      <4>1. queue' = queue
        <5>1. CASE \E d \in Channels : ChunkMoves(d)
          BY <1>1, <1>6, <3>3, <5>1
          DEF ChunkMoves, TakeBad, TakeNew, Mark, EnqueueBroken, TakeComplete,
              TakeCompleteAgain, SendClose, VerifyFails, VerifyBreaks, Publish, Eof, Reset,
              CleanupCheck, Return, CleanupRemove, Drain, Report, sessionVars, vars, StreamInv,
              TypeOK, SessionTyped
        <5>2. CASE \A d \in Channels : ~ChunkMoves(d)
          BY <1>1, <1>6, <3>3, <5>2
          DEF Moves, SenderFails, SenderDone, SendChunk, SendComplete, Corrupt, LinkDown,
              Persist, sessionVars, vars, StreamInv, TypeOK, SessionTyped
        <5> QED BY <5>1, <5>2
      <4> QED BY <3>3, <4>1
    <3> QED BY <3>1, <3>2, <3>3
  <2> QED BY <1>6, <2>1, <2>2 DEF StreamInv, DeliveryInv
<1> QED BY <1>2, <1>3, <1>4, <1>5, <1>6

------------------------------------------------------------------------------
(* The two theorems.                                                         *)

\* When the sender starts to stream nothing has been transferred.
LEMMA StreamStarts ==
  ASSUME TypeOK, SessionInv, EmptyHanded, sphase = "connect", Joining, sphase' # "connect"
  PROVE  OneCopy' /\ CompleteInv' /\ SettledInv' /\ DeliveryInv'
<1>1. StartStreaming
  BY DEF Joining, JoinSession, CreateSession, Accept, Crash, senderVars, vars
<1>2. /\ UNCHANGED <<processVars, sessionVars, diskVars, handlerVars, linkVars, acked, flying>>
      /\ \A c \in Channels : pc[c] # "accept" /\ \E d \in Channels : Up(d)
  BY <1>1 DEF StartStreaming
<1>3. map # None /\ created \in Sessions
  <2>1. PICK d \in Channels : Up(d)
    BY <1>1 DEF StartStreaming
  <2>2. pc[d] # "closed" /\ sess[d] = map /\ sess[d] \in Sessions
    BY <2>1, BusySession DEF SessionInv, Returned, ConnectInv
  <2> QED BY <2>2, ChunkTypes DEF SessionInv, SoleSession
<1>4. \A c \in Channels : Carried(c) = {} /\ InHand(c) = {} /\ wire[c].kind = "none"
                          /\ pc[c] \notin {"remove", "drain"}
  BY DEF SessionInv, ConnectInv, Carried, InHand, NoFrame
<1>5. OneCopy /\ CompleteInv /\ DeliveryInv
  BY <1>3, <1>4 DEF OneCopy, CompleteInv, DeliveryInv, SessionInv, ConnectInv
<1>6. \A s \in Sessions : ~HasClose(queue[s])
  BY EmptyQueue DEF SessionInv, ConnectInv
<1>7. SettledInv
  BY <1>2, <1>3, <1>4, <1>6 DEF SettledInv
<1>8. OneCopy' /\ CompleteInv'
  BY <1>2, <1>5 DEF OneCopy, CompleteInv, Carried, InHand, processVars, sessionVars,
                    handlerVars, linkVars
<1>9. SettledInv'
  BY <1>2, <1>6, <1>4, <1>3 DEF SettledInv, processVars, sessionVars, handlerVars
<1>10. DeliveryInv'
  BY <1>2, <1>3 DEF DeliveryInv, SessionInv, ConnectInv
<1> QED BY <1>8, <1>9, <1>10

Inv == TypeOK /\ SessionInv /\ FinalizerInv /\ DataInv

LEMMA InvInit == Init => Inv
<1> SUFFICES ASSUME Init PROVE Inv
  OBVIOUS
<1>1. TypeOK /\ SessionInv
  BY InitTyped, SessionInit
<1>2. FinalizerInv /\ EmptyHanded /\ sphase = "connect"
  BY DEF Init, FinalizerInv, OneFinalizer, Finalizing, EmptyHanded
<1> QED BY <1>1, <1>2 DEF Inv, DataInv

LEMMA InvStep ==
  ASSUME Undisturbed, Inv, [Next]_vars
  PROVE  Inv'
<1>1. TypeOK' /\ SessionInv' /\ FinalizerInv' /\ EmptyHanded'
  BY StepTyped, SessionStep, FinalizerStep, EmptyHandedStep DEF Inv, DataInv
<1>2. CASE sphase = "connect"
  BY <1>1, <1>2, ConnectSteps, StreamStarts DEF Inv, DataInv
<1>3. CASE sphase # "connect"
  <2>1. StreamInv
    BY <1>3 DEF Inv, DataInv, StreamInv
  <2> QED BY <1>1, <2>1, CopyStep, CompleteStep, SettledStep, DeliveryStep DEF Inv, DataInv
<1> QED BY <1>2, <1>3

LEMMA InvAlways ==
  ASSUME Undisturbed
  PROVE  Spec => []Inv
<1>1. Init => Inv
  BY InvInit
<1>2. Inv /\ [Next]_vars => Inv'
  BY InvStep
<1> QED BY <1>1, <1>2, PTL DEF Spec

\* What the sender was told is received is on disk or queued for the disk in the one
\* session there is, or the session knows that its disk failed: an acknowledgement never
\* overtakes the disk queue, and no Close gets in front of a chunk.
THEOREM AcknowledgedIsSafe ==
  ASSUME Undisturbed, MaxCrashes = 0
  PROVE  Spec => []AckedIsSafe
<1>1. Inv => AckedIsSafe
  <2> SUFFICES ASSUME Inv, NEW k \in acked
               PROVE  \E s \in 1 .. created : diskError[s] \/ k \in blocks[inode[s]] \cup Queued(s)
    BY DEF AckedIsSafe
  <2>1. sphase # "connect"
    BY DEF Inv, SessionInv, ConnectInv
  <2>2. StreamInv
    BY <2>1 DEF Inv, DataInv, StreamInv
  <2>3. created \in Sessions /\ created \in 1 .. created /\ inode[created] = 1
    BY <2>2, TheSession DEF Sessions
  <2>4. crashes = 0
    BY DEF Inv, TypeOK, OtherTyped
  <2>5. diskError[created] \/ acked \subseteq blocks[1] \cup WriteIds(queue[created])
    BY <2>2, <2>4 DEF StreamInv, DeliveryInv, Dead
  <2> QED BY <2>3, <2>5 DEF Queued, WriteIds
<1> QED BY <1>1, InvAlways, PTL

LEMMA WholeStep ==
  ASSUME Undisturbed, Inv, PublishedIsWhole, [Next]_vars
  PROVE  PublishedIsWhole'
<1>1. blocks \in [Sessions -> SUBSET Chunks] /\ blocks' \in [Sessions -> SUBSET Chunks]
  BY InvStep DEF Inv, TypeOK, DiskTyped
<1>2. ASSUME NEW c \in Channels, Publish(c)
      PROVE  PublishedIsWhole'
  <2>1. sphase # "connect"
    BY <1>2 DEF Publish, Inv, SessionInv, ConnectInv
  <2>2. StreamInv
    BY <2>1 DEF Inv, DataInv, StreamInv
  <2>3. /\ acked = Chunks /\ sess[c] = created /\ created \in Sessions
        /\ pc[c] = "closing" /\ writer[created] = "closed" /\ ~diskError[created]
        /\ part # None /\ final' = part /\ blocks' = blocks
    BY <1>2, <2>2, FinaliserHasAll, TheSession DEF Publish
  <2>4. part = 1 /\ queue[created] = <<>>
    BY <2>3 DEF Inv, SessionInv, SoleSession, Returned
  <2>5. Chunks \subseteq blocks[1] \cup WriteIds(queue[created])
    BY <2>2, <2>3 DEF StreamInv, DeliveryInv, Dead
  <2>6. Chunks \subseteq blocks[1]
    BY <2>4, <2>5, EmptyQueue
  <2>7. 1 \in Sessions
    BY ChunkTypes DEF Sessions
  <2>8. blocks[1] = Chunks
    BY <1>1, <2>6, <2>7
  <2> QED BY <2>3, <2>4, <2>8 DEF PublishedIsWhole
<1>3. CASE \A c \in Channels : ~Publish(c)
  <2>1. /\ final' = final
        /\ \/ blocks' = blocks
           \/ \E s \in Sessions :
                blocks' = [blocks EXCEPT ![inode[s]] = @ \cup {Head(queue[s]).id}]
    <3>1. CASE \E c \in Channels : Handler(c)
      BY <1>3, <3>1
      DEF Handler, Accept, AcceptFails, TakeBad, TakeDuplicate, TakeNew, Mark, Enqueue,
          EnqueueBroken, TakeComplete, TakeCompleteAgain, SendClose, VerifyFails, VerifyBreaks,
          Eof, Reset, CleanupCheck, Return, CleanupRemove, Drain, Report, diskVars
    <3>2. CASE \E s \in Sessions : DiskWriter(s) \/ Persist(s)
      BY <3>2 DEF DiskWriter, WriteBlock, WriteFails, CloseFile, WriterOrphaned, Persist, diskVars
    <3>3. CASE \/ SenderStep \/ Hangup \/ Resume \/ UserCancel \/ Crash \/ UNCHANGED vars
               \/ \E c \in Channels : Corrupt(c) \/ LinkDown(c)
      BY <3>3
      DEF SenderStep, StartStreaming, SenderFails, SenderDone, Hangup, Resume, UserCancel, Crash,
          JoinSession, CreateSession, SendChunk, SendComplete, Corrupt, LinkDown, diskVars, vars
    <3> QED BY <3>1, <3>2, <3>3 DEF Next
  <2>2. final \in Sessions \cup {None}
    BY DEF Inv, TypeOK, DiskTyped, Optional
  <2>3. \A f \in Sessions : blocks[f] \subseteq blocks'[f]
    BY <1>1, <2>1
  <2>4. \A f \in Sessions : blocks'[f] \subseteq Chunks
    BY <1>1
  <2> QED BY <2>1, <2>2, <2>3, <2>4 DEF PublishedIsWhole
<1> QED BY <1>2, <1>3

\* The file at the final path has every chunk on disk, although the checksum that guards
\* the rename is combined in memory from what was received: the finaliser waits for the
\* writer, and by then the queue holds nothing.
THEOREM PublishedFileIsWhole ==
  ASSUME Undisturbed
  PROVE  Spec => []PublishedIsWhole
<1>1. Init => PublishedIsWhole
  BY DEF Init, PublishedIsWhole
<1>2. Inv /\ PublishedIsWhole /\ [Next]_vars => PublishedIsWhole'
  BY WholeStep
<1> QED BY <1>1, <1>2, InvAlways, PTL DEF Spec
==============================================================================
