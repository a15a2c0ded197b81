--------------------------- MODULE ReceiverSession ---------------------------
(***************************************************************************)
(* The receiving side of one transfer, core/src/transfer/receiver.rs: one   *)
(* handler task per incoming connection, the receive session the handlers   *)
(* share through the global map, its disk writer thread, and the progress   *)
(* that the meta.json actor persists.                                       *)
(*                                                                          *)
(* Sessions are numbered in the order of their creation, and so are the     *)
(* files created at the .part path; blocks[f] is what was written to file f. *)
(* The sender is the environment: it keeps the promises of the send session  *)
(* (a chunk is on one channel at a time, Complete follows the last           *)
(* acknowledgement) and may hang up and resume.  A chunk that passes its     *)
(* checksum has the right payload, so payloads are abstracted.  The writer   *)
(* takes a command and performs it in one step: the one at hand is still     *)
(* counted as queued.                                                        *)
(***************************************************************************)
EXTENDS Integers, Sequences, FiniteSets

CONSTANTS
  NChunks,        \* chunks of the offered file
  Channels,       \* connections that can be open at the same time
  QueueCap,       \* capacity of the disk queue (128 in the code)
  MaxSessions,    \* bound on the receive sessions created
  MaxResumes,     \* bound on the times the sender hangs up and resumes
  MaxBad,         \* bound on the chunks corrupted in transit
  MaxDrops,       \* bound on the links that break
  MayBreakEarly,  \* may a link break while others still connect?
  MaxDiskErrors,  \* bound on failing disk writes
  MaxCrashes,     \* bound on restarts of the receiving process
  MayCancel       \* may the user of the receiver cancel?

ASSUME SizeAssumption ==
  /\ NChunks \in Nat \ {0} /\ Channels # {} /\ IsFiniteSet(Channels)
  /\ QueueCap \in Nat \ {0} /\ MaxSessions \in Nat \ {0}
ASSUME FaultAssumption ==
  /\ MaxResumes \in Nat /\ MaxBad \in Nat /\ MaxDrops \in Nat
  /\ MaxDiskErrors \in Nat /\ MaxCrashes \in Nat
  /\ MayBreakEarly \in BOOLEAN /\ MayCancel \in BOOLEAN

Chunks   == 0 .. NChunks - 1
NoChunk  == -1
Sessions == 1 .. MaxSessions
None     == 0             \* no session in the map, no file at a path

VARIABLES
  \* the map and the registry of the receiving process
  map, status, created,
  \* per session: chunk tracker, CRC table, is_completed,
  \* the disk queue and its writer, the file it has open, its error flag
  tracker, crcs, done, queue, writer, inode, diskError,
  \* per session: what its meta.json actor knows, and whether that is unsaved
  known, dirty,
  \* the disk: written blocks of each file, the files at the two paths, the
  \* completed ranges of meta.json
  blocks, part, final, meta,
  \* per connection: where its handler is, its session, the chunk at hand
  pc, sess, chunk,
  \* per connection: the link and the frame on it
  link, wire,
  \* the sender: its phase, the chunks it believes completed or in flight
  sphase, acked, flying,
  \* faults so far
  resumes, bads, drops, diskErrors, crashes

processVars == <<map, status, created>>
sessionVars == <<tracker, crcs, done, queue, writer, inode, diskError, known, dirty>>
diskVars    == <<blocks, part, final, meta>>
handlerVars == <<pc, sess, chunk>>
linkVars    == <<link, wire>>
senderVars  == <<sphase, acked, flying>>
faultVars   == <<resumes, bads, drops, diskErrors, crashes>>
vars == <<processVars, sessionVars, diskVars, handlerVars, linkVars, senderVars, faultVars>>

NoFrame  == [kind |-> "none", id |-> NoChunk]
Good(k)  == [kind |-> "good", id |-> k]
Bad(k)   == [kind |-> "bad", id |-> k]
Complete == [kind |-> "complete", id |-> NoChunk]

Write(k) == [op |-> "write", id |-> k]
Close    == [op |-> "close", id |-> NoChunk]

Up(c) == link[c] = "up"

HasRoom(s) == Len(queue[s]) < QueueCap

\* The handlers that hold a reference to session s; the map holds one more.
Holders(s) == {c \in Channels : pc[c] # "closed" /\ sess[c] = s}

------------------------------------------------------------------------------
Init ==
  /\ map = None /\ status = "none" /\ created = 0
  /\ tracker = [s \in Sessions |-> {}] /\ crcs = [s \in Sessions |-> {}]
  /\ done = [s \in Sessions |-> FALSE]
  /\ queue = [s \in Sessions |-> <<>>] /\ writer = [s \in Sessions |-> "off"]
  /\ inode = [s \in Sessions |-> None] /\ diskError = [s \in Sessions |-> FALSE]
  /\ known = [s \in Sessions |-> {}] /\ dirty = [s \in Sessions |-> FALSE]
  /\ blocks = [f \in Sessions |-> {}] /\ part = None /\ final = None /\ meta = {}
  /\ pc = [c \in Channels |-> "closed"] /\ sess = [c \in Channels |-> None]
  /\ chunk = [c \in Channels |-> NoChunk]
  /\ link = [c \in Channels |-> "closed"] /\ wire = [c \in Channels |-> NoFrame]
  /\ sphase = "connect" /\ acked = {} /\ flying = {}
  /\ resumes = 0 /\ bads = 0 /\ drops = 0 /\ diskErrors = 0 /\ crashes = 0

\* The handler returns, dropping its connection and its reference to the session.
Leave(c) ==
  /\ pc' = [pc EXCEPT ![c] = "closed"]
  /\ sess' = [sess EXCEPT ![c] = None]
  /\ chunk' = [chunk EXCEPT ![c] = NoChunk]
  /\ link' = [link EXCEPT ![c] = "closed"]
  /\ wire' = [wire EXCEPT ![c] = NoFrame]

\* An answer is sent and the handler waits for the next frame.  On a link that
\* broke the send may still succeed locally, or the handler returns the error.
Continue(c) ==
  \/ /\ pc' = [pc EXCEPT ![c] = "loop"]
     /\ chunk' = [chunk EXCEPT ![c] = NoChunk]
     /\ wire' = IF chunk[c] = NoChunk THEN [wire EXCEPT ![c] = NoFrame] ELSE wire
     /\ UNCHANGED <<sess, link>>
  \/ ~Up(c) /\ Leave(c)

SenderLearns(c, k) ==
  /\ acked' = IF Up(c) THEN acked \cup {k} ELSE acked
  /\ flying' = IF Up(c) THEN flying \ {k} ELSE flying

\* The acknowledgement of Complete ends the send session if it arrives.
FinalAck(c) ==
  /\ sphase' = IF Up(c) THEN "ok" ELSE sphase
  /\ UNCHANGED <<acked, flying>>

------------------------------------------------------------------------------
(* Handshake of connection c.                                                *)

JoinSession(c) ==
  /\ sphase = "connect" /\ pc[c] = "closed"
  /\ map # None
  /\ sess' = [sess EXCEPT ![c] = map]
  /\ pc' = [pc EXCEPT ![c] = "accept"] /\ link' = [link EXCEPT ![c] = "up"]
  /\ UNCHANGED <<processVars, sessionVars, diskVars, chunk, wire, senderVars, faultVars>>

\* The .part file is opened or created, never truncated; the tracker and the
\* meta.json actor start from the ranges meta.json holds.
CreateSession(c) ==
  /\ sphase = "connect" /\ pc[c] = "closed"
  /\ map = None /\ created < MaxSessions
  /\ LET s == created + 1 IN
     /\ created' = s /\ map' = s /\ status' = "InProgress"
     /\ part' = IF part = None THEN s ELSE part
     /\ inode' = [inode EXCEPT ![s] = part']
     /\ writer' = [writer EXCEPT ![s] = "open"]
     /\ tracker' = [tracker EXCEPT ![s] = meta]
     /\ known' = [known EXCEPT ![s] = meta]
     /\ sess' = [sess EXCEPT ![c] = s]
  /\ pc' = [pc EXCEPT ![c] = "accept"] /\ link' = [link EXCEPT ![c] = "up"]
  /\ UNCHANGED <<crcs, done, queue, diskError, dirty, blocks, final, meta, chunk,
                 wire, senderVars, faultVars>>

Accept(c) ==
  /\ pc[c] = "accept" /\ Up(c)
  /\ acked' = acked \cup tracker[sess[c]]
  /\ pc' = [pc EXCEPT ![c] = "loop"]
  /\ UNCHANGED <<processVars, sessionVars, diskVars, sess, chunk, linkVars, sphase, flying,
                 faultVars>>

\* The accept cannot be sent: the handler returns at once.
AcceptFails(c) ==
  /\ pc[c] = "accept" /\ ~Up(c)
  /\ Leave(c)
  /\ UNCHANGED <<processVars, sessionVars, diskVars, senderVars, faultVars>>

------------------------------------------------------------------------------
(* The data plane loop of connection c.                                      *)

\* Mutated form: a corrupted chunk is dropped without an answer.
TakeBadSilent(c) ==
  /\ pc[c] = "loop" /\ wire[c].kind = "bad"
  /\ Continue(c)
  /\ UNCHANGED <<processVars, sessionVars, diskVars, senderVars, faultVars>>

TakeBad(c) ==
  /\ pc[c] = "loop" /\ wire[c].kind = "bad"
  /\ flying' = IF Up(c) THEN flying \ {wire[c].id} ELSE flying
  /\ Continue(c)
  /\ UNCHANGED <<processVars, sessionVars, diskVars, sphase, acked, faultVars>>

\* A chunk the tracker has is acknowledged whether or not it was written.
TakeDuplicate(c) ==
  /\ pc[c] = "loop" /\ wire[c].kind = "good"
  /\ wire[c].id \in tracker[sess[c]]
  /\ crcs' = [crcs EXCEPT ![sess[c]] = @ \cup {wire[c].id}]
  /\ SenderLearns(c, wire[c].id)
  /\ Continue(c)
  /\ UNCHANGED <<processVars, tracker, done, queue, writer, inode, diskError, known,
                 dirty, diskVars, sphase, faultVars>>

TakeNew(c) ==
  /\ pc[c] = "loop" /\ wire[c].kind = "good"
  /\ wire[c].id \notin tracker[sess[c]]
  /\ chunk' = [chunk EXCEPT ![c] = wire[c].id]
  /\ wire' = [wire EXCEPT ![c] = NoFrame]
  /\ pc' = [pc EXCEPT ![c] = "mark"]
  /\ UNCHANGED <<processVars, sessionVars, diskVars, sess, link, senderVars, faultVars>>

\* Tracker and CRC table, the event to the actor (try_send drops it
\* when the actor's queue is full), then the look at the disk error.
Mark(c) ==
  /\ pc[c] = "mark"
  /\ LET s == sess[c] IN
     /\ tracker' = [tracker EXCEPT ![s] = @ \cup {chunk[c]}]
     /\ crcs' = [crcs EXCEPT ![s] = @ \cup {chunk[c]}]
     /\ \/ /\ known' = [known EXCEPT ![s] = @ \cup {chunk[c]}]
           /\ dirty' = [dirty EXCEPT ![s] = TRUE]
        \/ UNCHANGED <<known, dirty>>
     /\ IF diskError[s] THEN Leave(c)
        ELSE /\ pc' = [pc EXCEPT ![c] = "enqueue"]
             /\ UNCHANGED <<sess, chunk, linkVars>>
  /\ UNCHANGED <<processVars, done, queue, writer, inode, diskError, diskVars, senderVars,
                 faultVars>>

\* Mutated form: the queue is not bounded.
EnqueueUnbounded(c) ==
  /\ pc[c] = "enqueue" /\ writer[sess[c]] = "open"
  /\ queue' = [queue EXCEPT ![sess[c]] = Append(@, Write(chunk[c]))]
  /\ SenderLearns(c, chunk[c])
  /\ Continue(c)
  /\ UNCHANGED <<processVars, tracker, crcs, done, writer, inode, diskError, known,
                 dirty, diskVars, sphase, faultVars>>

\* Mutated form: the acknowledgement does not wait for room in the queue.
EnqueueUnlessFull(c) ==
  /\ pc[c] = "enqueue" /\ writer[sess[c]] = "open"
  /\ queue' = IF HasRoom(sess[c])
              THEN [queue EXCEPT ![sess[c]] = Append(@, Write(chunk[c]))] ELSE queue
  /\ SenderLearns(c, chunk[c])
  /\ Continue(c)
  /\ UNCHANGED <<processVars, tracker, crcs, done, writer, inode, diskError, known,
                 dirty, diskVars, sphase, faultVars>>

\* The write is queued before the acknowledgement is sent.
Enqueue(c) ==
  /\ pc[c] = "enqueue" /\ writer[sess[c]] = "open" /\ HasRoom(sess[c])
  /\ queue' = [queue EXCEPT ![sess[c]] = Append(@, Write(chunk[c]))]
  /\ SenderLearns(c, chunk[c])
  /\ Continue(c)
  /\ UNCHANGED <<processVars, tracker, crcs, done, writer, inode, diskError, known,
                 dirty, diskVars, sphase, faultVars>>

EnqueueBroken(c) ==
  /\ pc[c] = "enqueue" /\ writer[sess[c]] = "closed"
  /\ Leave(c)
  /\ UNCHANGED <<processVars, sessionVars, diskVars, senderVars, faultVars>>

\* Mutated form: the claim is not checked.
TakeCompleteUnclaimed(c) ==
  /\ pc[c] = "loop" /\ wire[c].kind = "complete"
  /\ done' = [done EXCEPT ![sess[c]] = TRUE]
  /\ wire' = [wire EXCEPT ![c] = NoFrame]
  /\ pc' = [pc EXCEPT ![c] = "close"]
  /\ UNCHANGED <<processVars, tracker, crcs, queue, writer, inode, diskError, known,
                 dirty, diskVars, sess, chunk, link, senderVars, faultVars>>

\* The first Complete of a session claims the finalisation.
TakeComplete(c) ==
  /\ pc[c] = "loop" /\ wire[c].kind = "complete" /\ ~done[sess[c]]
  /\ done' = [done EXCEPT ![sess[c]] = TRUE]
  /\ wire' = [wire EXCEPT ![c] = NoFrame]
  /\ pc' = [pc EXCEPT ![c] = "close"]
  /\ UNCHANGED <<processVars, tracker, crcs, queue, writer, inode, diskError, known,
                 dirty, diskVars, sess, chunk, link, senderVars, faultVars>>

\* A later Complete is acknowledged, however far the first one has come.
TakeCompleteAgain(c) ==
  /\ pc[c] = "loop" /\ wire[c].kind = "complete" /\ done[sess[c]]
  /\ FinalAck(c) /\ Leave(c)
  /\ UNCHANGED <<processVars, sessionVars, diskVars, faultVars>>

\* Close is queued behind the writes; a queue whose writer is gone takes nothing.
SendClose(c) ==
  /\ pc[c] = "close" /\ (writer[sess[c]] = "closed" \/ HasRoom(sess[c]))
  /\ queue' = IF writer[sess[c]] = "closed" THEN queue
              ELSE [queue EXCEPT ![sess[c]] = Append(@, Close)]
  /\ pc' = [pc EXCEPT ![c] = "closing"]
  /\ UNCHANGED <<processVars, tracker, crcs, done, writer, inode, diskError, known,
                 dirty, diskVars, sess, chunk, linkVars, senderVars, faultVars>>

\* The file checksum is combined from the CRC table when it is complete, else
\* computed from the file at the .part path.
ChecksumMatches(s) == crcs[s] = Chunks \/ blocks[part] = Chunks

\* Mutated form: the final acknowledgement is sent all the same.
VerifyFailsButAcks(c) ==
  /\ pc[c] = "closing" /\ writer[sess[c]] = "closed"
  /\ diskError[sess[c]] \/ (part # None /\ ~ChecksumMatches(sess[c]))
  /\ part' = None /\ map' = None /\ status' = "Failed"
  /\ FinalAck(c) /\ Leave(c)
  /\ UNCHANGED <<created, sessionVars, blocks, final, meta, faultVars>>

\* A disk error or a mismatch: the .part file is removed, the transfer failed.
VerifyFails(c) ==
  /\ pc[c] = "closing" /\ writer[sess[c]] = "closed"
  /\ diskError[sess[c]] \/ (part # None /\ ~ChecksumMatches(sess[c]))
  /\ part' = None /\ map' = None /\ status' = "Failed"
  /\ Leave(c)
  /\ UNCHANGED <<created, sessionVars, blocks, final, meta, senderVars,
                 faultVars>>

\* The .part file has gone: reading or renaming it fails, and the handler
\* returns the error without touching the map or the status.
VerifyBreaks(c) ==
  /\ pc[c] = "closing" /\ writer[sess[c]] = "closed"
  /\ ~diskError[sess[c]] /\ part = None
  /\ Leave(c)
  /\ UNCHANGED <<processVars, sessionVars, diskVars, senderVars, faultVars>>

\* Mutated form: the file is published without waiting for the disk writer.
PublishEarly(c) ==
  /\ pc[c] = "closing"
  /\ ~diskError[sess[c]] /\ part # None /\ ChecksumMatches(sess[c])
  /\ final' = part /\ part' = None
  /\ status' = "Completed" /\ map' = None
  /\ FinalAck(c) /\ Leave(c)
  /\ UNCHANGED <<created, sessionVars, blocks, meta, faultVars>>

\* Mutated form: a rename that fails is ignored.
PublishAnyway(c) ==
  /\ pc[c] = "closing" /\ writer[sess[c]] = "closed"
  /\ ~diskError[sess[c]] /\ (part = None \/ ChecksumMatches(sess[c]))
  /\ final' = part /\ part' = None
  /\ status' = "Completed" /\ map' = None
  /\ FinalAck(c) /\ Leave(c)
  /\ UNCHANGED <<created, sessionVars, blocks, meta, faultVars>>

Publish(c) ==
  /\ pc[c] = "closing" /\ writer[sess[c]] = "closed"
  /\ ~diskError[sess[c]] /\ part # None /\ ChecksumMatches(sess[c])
  /\ final' = part /\ part' = None
  /\ status' = "Completed" /\ map' = None
  /\ FinalAck(c) /\ Leave(c)
  /\ UNCHANGED <<created, sessionVars, blocks, meta, faultVars>>

------------------------------------------------------------------------------
(* The end of connection c.                                                  *)

\* The peer closed the connection: a session that was never finalised goes
\* through the cleanup.
Eof(c) ==
  /\ pc[c] = "loop" /\ ~Up(c) /\ wire[c] = NoFrame
  /\ pc' = [pc EXCEPT ![c] = IF done[sess[c]] THEN "leaving" ELSE "cleanup"]
  /\ UNCHANGED <<processVars, sessionVars, diskVars, sess, chunk, linkVars, senderVars,
                 faultVars>>

\* A read error returns at once, past the cleanup.
Reset(c) ==
  /\ pc[c] = "loop" /\ link[c] = "broken" /\ wire[c] = NoFrame
  /\ Leave(c)
  /\ UNCHANGED <<processVars, sessionVars, diskVars, senderVars, faultVars>>

\* The last reference but the map's own: strong_count <= 2.
CleanupCheck(c) ==
  /\ pc[c] = "cleanup"
  /\ pc' = [pc EXCEPT ![c] = IF map = None \/ Cardinality(Holders(map)) <= 1
                             THEN "remove" ELSE "leaving"]
  /\ UNCHANGED <<processVars, sessionVars, diskVars, sess, chunk, linkVars, senderVars,
                 faultVars>>

\* The handler returns and its reference to the session goes.
Return(c) ==
  /\ pc[c] = "leaving"
  /\ Leave(c)
  /\ UNCHANGED <<processVars, sessionVars, diskVars, senderVars, faultVars>>

\* Whatever session the map holds by now is the one removed and closed.  Its own
\* session the handler does not use again.
CleanupRemove(c) ==
  /\ pc[c] = "remove"
  /\ map' = None
  /\ sess' = [sess EXCEPT ![c] = IF map = None THEN @ ELSE map]
  /\ pc' = [pc EXCEPT ![c] = IF map = None THEN "report" ELSE "drain"]
  /\ UNCHANGED <<status, created, sessionVars, diskVars, chunk, linkVars, senderVars,
                 faultVars>>

Drain(c) ==
  /\ pc[c] = "drain" /\ (writer[sess[c]] = "closed" \/ HasRoom(sess[c]))
  /\ queue' = IF writer[sess[c]] = "closed" THEN queue
              ELSE [queue EXCEPT ![sess[c]] = Append(@, Close)]
  /\ pc' = [pc EXCEPT ![c] = "report"]
  /\ UNCHANGED <<processVars, tracker, crcs, done, writer, inode, diskError, known,
                 dirty, diskVars, sess, chunk, linkVars, senderVars, faultVars>>

Report(c) ==
  /\ pc[c] = "report"
  /\ status' = IF status \in {"Cancelled", "Completed"} THEN status ELSE "Failed"
  /\ Leave(c)
  /\ UNCHANGED <<map, created, sessionVars, diskVars, senderVars, faultVars>>

------------------------------------------------------------------------------
(* The disk writer of session s, and its meta.json actor.                    *)

WriteBlock(s) ==
  /\ writer[s] = "open" /\ queue[s] # <<>> /\ Head(queue[s]).op = "write"
  /\ blocks' = [blocks EXCEPT ![inode[s]] = @ \cup {Head(queue[s]).id}]
  /\ queue' = [queue EXCEPT ![s] = Tail(@)]
  /\ UNCHANGED <<processVars, tracker, crcs, done, writer, inode, diskError, known,
                 dirty, part, final, meta, handlerVars, linkVars, senderVars, faultVars>>

\* Mutated form: a failed write is only logged.
WriteFailsUnnoticed(s) ==
  /\ writer[s] = "open" /\ queue[s] # <<>> /\ Head(queue[s]).op = "write"
  /\ diskErrors < MaxDiskErrors /\ diskErrors' = diskErrors + 1
  /\ queue' = [queue EXCEPT ![s] = Tail(@)]
  /\ UNCHANGED <<processVars, tracker, crcs, done, writer, inode, diskError, known, dirty,
                 diskVars, handlerVars, linkVars, senderVars, resumes, bads, drops, crashes>>

WriteFails(s) ==
  /\ writer[s] = "open" /\ queue[s] # <<>> /\ Head(queue[s]).op = "write"
  /\ diskErrors < MaxDiskErrors /\ diskErrors' = diskErrors + 1
  /\ diskError' = [diskError EXCEPT ![s] = TRUE]
  /\ queue' = [queue EXCEPT ![s] = Tail(@)]
  /\ UNCHANGED <<processVars, tracker, crcs, done, writer, inode, known, dirty,
                 diskVars, handlerVars, linkVars, senderVars, resumes, bads, drops, crashes>>

\* Mutated form: Close is taken from the queue and not answered.
CloseUnanswered(s) ==
  /\ writer[s] = "open" /\ queue[s] # <<>> /\ Head(queue[s]).op = "close"
  /\ queue' = [queue EXCEPT ![s] = Tail(@)]
  /\ UNCHANGED <<processVars, tracker, crcs, done, writer, inode, diskError, known, dirty,
                 diskVars, handlerVars, linkVars, senderVars, faultVars>>

\* Close ends the thread; what is queued behind it is dropped.
CloseFile(s) ==
  /\ writer[s] = "open" /\ queue[s] # <<>> /\ Head(queue[s]).op = "close"
  /\ writer' = [writer EXCEPT ![s] = "closed"]
  /\ queue' = [queue EXCEPT ![s] = <<>>]
  /\ UNCHANGED <<processVars, tracker, crcs, done, inode, diskError, known, dirty,
                 diskVars, handlerVars, linkVars, senderVars, faultVars>>

\* The last reference to the session went without a Close.
WriterOrphaned(s) ==
  /\ writer[s] = "open" /\ queue[s] = <<>> /\ map # s /\ Holders(s) = {}
  /\ writer' = [writer EXCEPT ![s] = "closed"]
  /\ UNCHANGED <<processVars, tracker, crcs, done, queue, inode, diskError, known,
                 dirty, diskVars, handlerVars, linkVars, senderVars, faultVars>>

\* After enough events, or a second, or the last handle.
Persist(s) ==
  /\ dirty[s]
  /\ meta' = known[s]
  /\ dirty' = [dirty EXCEPT ![s] = FALSE]
  /\ UNCHANGED <<processVars, tracker, crcs, done, queue, writer, inode, diskError,
                 known, blocks, part, final, handlerVars, linkVars, senderVars, faultVars>>

------------------------------------------------------------------------------
(* The receiver's user and process.                                          *)

\* cancel_transfer: the session leaves the map, Close is queued if there is room.
UserCancel ==
  /\ MayCancel /\ status = "InProgress"
  /\ status' = "Cancelled" /\ map' = None
  /\ queue' = IF map # None /\ writer[map] = "open" /\ HasRoom(map)
              THEN [queue EXCEPT ![map] = Append(@, Close)] ELSE queue
  /\ UNCHANGED <<created, tracker, crcs, done, writer, inode, diskError, known, dirty,
                 diskVars, handlerVars, linkVars, senderVars, faultVars>>

\* The process ends: what was written and what was persisted stays.
Crash ==
  /\ crashes < MaxCrashes /\ crashes' = crashes + 1
  /\ map' = None /\ status' = "none"
  /\ writer' = [s \in Sessions |-> IF writer[s] = "open" THEN "closed" ELSE writer[s]]
  /\ queue' = [s \in Sessions |-> <<>>]
  /\ dirty' = [s \in Sessions |-> FALSE]
  /\ pc' = [c \in Channels |-> "closed"] /\ sess' = [c \in Channels |-> None]
  /\ chunk' = [c \in Channels |-> NoChunk]
  /\ link' = [c \in Channels |-> "closed"] /\ wire' = [c \in Channels |-> NoFrame]
  /\ tracker' = [s \in Sessions |-> {}] /\ crcs' = [s \in Sessions |-> {}]
  /\ known' = [s \in Sessions |-> {}]
  /\ UNCHANGED <<created, done, inode, diskError, diskVars, senderVars, resumes, bads, drops,
                 diskErrors>>

------------------------------------------------------------------------------
(* Environment: the links and the sending device.                            *)

StartStreaming ==
  /\ sphase = "connect"
  /\ \E c \in Channels : Up(c)
  /\ \A c \in Channels : pc[c] # "accept"
  /\ sphase' = "stream"
  /\ UNCHANGED <<processVars, sessionVars, diskVars, handlerVars, linkVars, acked, flying,
                 faultVars>>

SendChunk(c) ==
  /\ sphase = "stream" /\ Up(c) /\ wire[c] = NoFrame
  /\ \E k \in Chunks \ (acked \cup flying) :
       wire' = [wire EXCEPT ![c] = Good(k)] /\ flying' = flying \cup {k}
  /\ UNCHANGED <<processVars, sessionVars, diskVars, handlerVars, link, sphase, acked,
                 faultVars>>

Corrupt(c) ==
  /\ wire[c].kind = "good"
  /\ bads < MaxBad /\ bads' = bads + 1
  /\ wire' = [wire EXCEPT ![c] = Bad(@.id)]
  /\ UNCHANGED <<processVars, sessionVars, diskVars, handlerVars, link, senderVars, resumes,
                 drops, diskErrors, crashes>>

SendComplete(c) ==
  /\ sphase = "stream" /\ Up(c) /\ wire[c] = NoFrame /\ acked = Chunks
  /\ wire' = [wire EXCEPT ![c] = Complete]
  /\ sphase' = "final"
  /\ UNCHANGED <<processVars, sessionVars, diskVars, handlerVars, link, acked, flying,
                 faultVars>>

\* The link breaks with or without the frame on it.  The sender sends a chunk
\* again only if its frame did not leave; one whose answer is lost stays in flight.
LinkDown(c) ==
  /\ Up(c) /\ drops < MaxDrops /\ drops' = drops + 1
  /\ sphase = "connect" => MayBreakEarly
  /\ link' = [link EXCEPT ![c] = "broken"]
  /\ \/ UNCHANGED <<wire, flying>>
     \/ wire' = [wire EXCEPT ![c] = NoFrame] /\ flying' = flying \ {wire[c].id}
  /\ UNCHANGED <<processVars, sessionVars, diskVars, handlerVars, sphase, acked, resumes,
                 bads, diskErrors, crashes>>

\* Closed links still hand over the frame they carry.
CloseLinks == link' = [c \in Channels |-> IF Up(c) THEN "closed" ELSE link[c]]

\* The user of the sender pauses, or its process ends.
Hangup ==
  /\ sphase \in {"connect", "stream", "final"} /\ resumes < MaxResumes
  /\ CloseLinks /\ sphase' = "over"
  /\ UNCHANGED <<processVars, sessionVars, diskVars, handlerVars, wire, acked, flying,
                 faultVars>>

AwaitsFinalAck(c) ==
  Up(c) /\ (wire[c] = Complete \/ pc[c] \in {"close", "closing"})

\* The send session fails: no link is left, or not the one that awaits the
\* acknowledgement of Complete.
SenderFails ==
  /\ \/ sphase = "stream" /\ \A c \in Channels : ~Up(c)
     \/ sphase = "final" /\ \A c \in Channels : ~AwaitsFinalAck(c)
  /\ CloseLinks /\ sphase' = "over"
  /\ UNCHANGED <<processVars, sessionVars, diskVars, handlerVars, wire, acked, flying,
                 faultVars>>

SenderDone ==
  /\ sphase = "ok" /\ \E c \in Channels : Up(c)
  /\ CloseLinks
  /\ UNCHANGED <<processVars, sessionVars, diskVars, handlerVars, wire, senderVars, faultVars>>

Resume ==
  /\ sphase = "over" /\ resumes < MaxResumes /\ resumes' = resumes + 1
  /\ sphase' = "connect" /\ acked' = {} /\ flying' = {}
  /\ UNCHANGED <<processVars, sessionVars, diskVars, handlerVars, linkVars, bads, drops,
                 diskErrors, crashes>>

------------------------------------------------------------------------------
Handler(c) ==
  \/ Accept(c) \/ AcceptFails(c)
  \/ TakeBad(c) \/ TakeDuplicate(c) \/ TakeNew(c) \/ Mark(c) \/ Enqueue(c)
  \/ EnqueueBroken(c)
  \/ TakeComplete(c) \/ TakeCompleteAgain(c) \/ SendClose(c)
  \/ VerifyFails(c) \/ VerifyBreaks(c) \/ Publish(c)
  \/ Eof(c) \/ Reset(c) \/ CleanupCheck(c) \/ Return(c) \/ CleanupRemove(c)
  \/ Drain(c) \/ Report(c)

DiskWriter(s) == WriteBlock(s) \/ WriteFails(s) \/ CloseFile(s) \/ WriterOrphaned(s)

\* What the sender does of its own accord.
SenderStep ==
  \/ StartStreaming \/ SenderFails \/ SenderDone
  \/ \E c \in Channels : JoinSession(c) \/ CreateSession(c) \/ SendChunk(c) \/ SendComplete(c)

Next ==
  \/ SenderStep \/ Hangup \/ Resume \/ UserCancel \/ Crash
  \/ \E c \in Channels : Handler(c) \/ Corrupt(c) \/ LinkDown(c)
  \/ \E s \in Sessions : DiskWriter(s) \/ Persist(s)

Spec == Init /\ [][Next]_vars

\* The runtime polls every handler that can run, the disk thread is not starved
\* and the sender goes on while it can.
FairSpec ==
  /\ Spec
  /\ WF_vars(SenderStep)
  /\ \A c \in Channels : WF_vars(Handler(c))
  /\ \A s \in Sessions : WF_vars(DiskWriter(s))

------------------------------------------------------------------------------
(* Properties.                                                               *)

Ops    == {Write(k) : k \in Chunks} \cup {Close}
Frames == {NoFrame, Complete} \cup {Good(k) : k \in Chunks} \cup {Bad(k) : k \in Chunks}
Optional(S) == S \cup {None}

ProcessTyped ==
  /\ map \in Optional(Sessions)
  /\ status \in {"none", "InProgress", "Completed", "Failed", "Cancelled"}
  /\ created \in 0 .. MaxSessions

SessionTyped ==
  /\ tracker \in [Sessions -> SUBSET Chunks] /\ crcs \in [Sessions -> SUBSET Chunks]
  /\ done \in [Sessions -> BOOLEAN] /\ queue \in [Sessions -> Seq(Ops)]
  /\ \A s \in Sessions : Len(queue[s]) <= QueueCap
  /\ writer \in [Sessions -> {"off", "open", "closed"}]
  /\ inode \in [Sessions -> Optional(Sessions)]
  /\ \A s \in Sessions : writer[s] = "open" => inode[s] # None
  /\ diskError \in [Sessions -> BOOLEAN]
  /\ known \in [Sessions -> SUBSET Chunks] /\ dirty \in [Sessions -> BOOLEAN]

DiskTyped ==
  /\ blocks \in [Sessions -> SUBSET Chunks]
  /\ part \in Optional(Sessions) /\ final \in Optional(Sessions) /\ meta \subseteq Chunks

HandlerTyped ==
  /\ pc \in [Channels -> {"closed", "accept", "loop", "mark", "enqueue", "close", "closing",
                          "leaving", "cleanup", "remove", "drain", "report"}]
  /\ sess \in [Channels -> Optional(Sessions)]
  /\ \A c \in Channels : pc[c] # "closed" => sess[c] # None
  /\ chunk \in [Channels -> Chunks \cup {NoChunk}]
  /\ \A c \in Channels : pc[c] \in {"mark", "enqueue"} => chunk[c] # NoChunk

OtherTyped ==
  /\ link \in [Channels -> {"up", "closed", "broken"}] /\ wire \in [Channels -> Frames]
  /\ sphase \in {"connect", "stream", "final", "ok", "over"}
  /\ acked \subseteq Chunks /\ flying \subseteq Chunks
  /\ resumes \in 0 .. MaxResumes /\ bads \in 0 .. MaxBad /\ drops \in 0 .. MaxDrops
  /\ diskErrors \in 0 .. MaxDiskErrors /\ crashes \in 0 .. MaxCrashes

\* Every variable ranges over its type: whoever uses a session or a chunk has one,
\* and the disk queue keeps to its capacity.
TypeOK == ProcessTyped /\ SessionTyped /\ DiskTyped /\ HandlerTyped /\ OtherTyped

\* The published file has every chunk on disk: the checksum that guards the rename
\* may be combined in memory, but never for blocks that were not written.
PublishedIsWhole == final # None => blocks[final] = Chunks

Queued(s) == {queue[s][i].id : i \in {j \in DOMAIN queue[s] : queue[s][j].op = "write"}}

\* An acknowledged chunk is on disk, or on its way to the disk, in some session
\* that still has its file; or the session knows that its disk failed.
AckedIsSafe ==
  \A k \in acked :
    \E s \in 1 .. created :
      diskError[s] \/ k \in blocks[inode[s]] \cup Queued(s)

\* The sender is told that the transfer is complete only when the file is at its
\* final path.
SuccessMeansPublished == sphase = "ok" => final # None

\* At most one handler finalises a session.
OneFinalizer ==
  \A c, d \in Channels :
    pc[c] \in {"close", "closing"} /\ pc[d] \in {"close", "closing"} /\ sess[c] = sess[d]
      => c = d

\* The receiver reports Completed only for a file that is at its final path.
CompletedMeansPublished == status = "Completed" => final # None

\* No disk writer still has the published file open.
PublishedIsClosed ==
  final # None => \A s \in Sessions : inode[s] = final => writer[s] = "closed"

\* A sender whose links hold is told that the transfer is complete, whatever is
\* corrupted in transit, unless the disk fails.
TransferFinishes ==
  sphase = "stream" ~> sphase = "ok" \/ drops > 0 \/ diskErrors > 0

\* A handler whose connection is gone returns, whatever it was waiting for: room in
\* the disk queue, the disk writer's answer, or the cleanup.
HandlersReturn == \A c \in Channels : ~Up(c) ~> pc[c] = "closed" \/ Up(c)

\* What a session tells a resuming sender it has is on disk, queued, or in the
\* hands of a handler.
ResumeIsBacked ==
  map # None =>
    diskError[map] \/ tracker[map] \subseteq blocks[inode[map]] \cup Queued(map)
                                              \cup {chunk[c] : c \in Holders(map)}
==============================================================================
