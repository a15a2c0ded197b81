------------------------------ MODULE MetaStore ------------------------------
(***************************************************************************)
(* The MetaActors of one transfer and its meta.json: core/src/manifest/      *)
(* actor.rs, with the ranges of ChunkPlan.  A session reports finished       *)
(* chunks into the bounded queue of the actor it was given; an actor batches *)
(* them and rewrites the file atomically; the process may be killed at any   *)
(* point and the next actor starts from the file.  A resume and a new        *)
(* receive session spawn an actor whether or not an older one lives          *)
(* (sender.rs:794, receiver.rs:347), and both write the same file.           *)
(***************************************************************************)
EXTENDS ChunkPlan

CONSTANTS
  MetaChunks,      \* chunk numbers
  MetaSlots,       \* numbers for the actors that may live at once
  MetaQueueCap,    \* capacity of a queue (100)
  DoneBatch,       \* unsaved events that make a completed chunk flush (50)
  Renames,         \* whether rename replaces an existing file: not on Windows
  MaxWriteErrors,  \* bound on the writes that fail
  MaxActorLives    \* bound on the actors spawned on the file

ASSUME MetaAssumption ==
  /\ MetaChunks \subseteq Nat /\ IsFiniteSet(MetaChunks) /\ MetaSlots \subseteq Nat
  /\ {MetaQueueCap, DoneBatch} \subseteq Nat \ {0}
  /\ Renames \subseteq BOOLEAN
  /\ {MaxWriteErrors, MaxActorLives} \subseteq Nat

VARIABLES
  metaPc,        \* per actor: "down", "select", "flush" or "swap" (Windows: file removed)
  metaExits,     \* per actor: the flush under way is its last
  completedSet, dirtyEvents,   \* per actor: its fields
  metaQueue,     \* per actor: messages not handled yet
  metaFile,      \* the ranges on disk, NoFile when there is no file
  renameReplaces, \* the platform
  reported,      \* history: chunks some session ever reported
  sharedFile,    \* history: the last actor spawned found another one alive
  missed,        \* history, per actor: flushes that failed since the last that wrote
  writeErrors, actorLives

actorVars == <<metaPc, metaExits, completedSet, dirtyEvents, metaQueue, missed>>
diskVars  == <<metaFile, renameReplaces, writeErrors>>
lifeVars  == <<sharedFile, actorLives>>
metaVars  == <<actorVars, diskVars, reported, lifeVars>>

NoFile == [there |-> FALSE, ranges |-> <<>>]

Saved == ExpandRanges(metaFile.ranges)

------------------------------------------------------------------------------
(* The life of an actor.                                                     *)

MetaInit ==
  /\ metaPc = [a \in MetaSlots |-> "down"] /\ metaExits = [a \in MetaSlots |-> FALSE]
  /\ completedSet = [a \in MetaSlots |-> {}]
  /\ dirtyEvents = [a \in MetaSlots |-> 0]
  /\ metaQueue = [a \in MetaSlots |-> <<>>] /\ missed = [a \in MetaSlots |-> 0]
  /\ metaFile = NoFile /\ renameReplaces \in Renames
  /\ reported = {} /\ sharedFile = FALSE /\ writeErrors = 0 /\ actorLives = 0

\* An actor that knows these chunks and is about to write them.
SpawnWith(a, known) ==
  /\ metaPc[a] = "down" /\ actorLives < MaxActorLives
  /\ \A b \in MetaSlots : metaPc[b] = "down" => a <= b
  /\ metaPc' = [metaPc EXCEPT ![a] = "flush"]
  /\ completedSet' = [completedSet EXCEPT ![a] = known]
  /\ sharedFile' = \E b \in MetaSlots : metaPc[b] # "down"
  /\ actorLives' = actorLives + 1
  /\ UNCHANGED <<metaExits, dirtyEvents, metaQueue, missed, diskVars, reported>>

\* Mutated form: a resumed transfer starts from the meta it was offered with.
SpawnMetaFresh(a) == SpawnWith(a, {})

\* spawn: what the file says if there is one, else a fresh transfer; then the file is
\* written.  (The status it carries along is in TransferLifecycle.)
SpawnMeta(a) == SpawnWith(a, Saved)

\* The senders of the messages.  A chunk is reported with try_send: when the queue
\* is full, or the actor has ended, nobody hears of it.
Report(a, c) ==
  /\ metaPc[a] # "down"
  /\ reported' = reported \cup {c}
  /\ metaQueue' = IF Len(metaQueue[a]) < MetaQueueCap
                  THEN [metaQueue EXCEPT ![a] = Append(@, [kind |-> "done", chunk |-> c])]
                  ELSE metaQueue
  /\ UNCHANGED <<metaPc, metaExits, completedSet, dirtyEvents, missed, diskVars,
                 lifeVars>>

\* A pause or a cancellation waits for room in the queue.  (Nothing in the repository
\* sends ChunkFailed or TransportStatusChanged.)
SendStop(a) ==
  /\ metaPc[a] # "down" /\ Len(metaQueue[a]) < MetaQueueCap
  /\ \A i \in DOMAIN metaQueue[a] : metaQueue[a][i].kind # "stop"
  /\ metaQueue' = [metaQueue EXCEPT ![a] = Append(@, [kind |-> "stop", chunk |-> -1])]
  /\ UNCHANGED <<metaPc, metaExits, completedSet, dirtyEvents, missed, diskVars,
                 reported, lifeVars>>

\* Mutated form: one event too late.
FlushDueLate(events) == events > DoneBatch

FlushDue(events) == events >= DoneBatch

HandleChunk(a) ==
  /\ metaPc[a] = "select" /\ metaQueue[a] # <<>>
  /\ LET m == Head(metaQueue[a]) IN
       /\ m.kind = "done"
       /\ completedSet' = [completedSet EXCEPT ![a] = @ \cup {m.chunk}]
       /\ metaPc' = IF FlushDue(dirtyEvents[a] + 1)
                    THEN [metaPc EXCEPT ![a] = "flush"] ELSE metaPc
  /\ dirtyEvents' = [dirtyEvents EXCEPT ![a] = @ + 1]
  /\ metaQueue' = [metaQueue EXCEPT ![a] = Tail(@)]
  /\ UNCHANGED <<metaExits, missed, diskVars, reported, lifeVars>>

\* Pause and Cancel: the file is written, and the actor ends with whatever is still
\* queued.
HandleControl(a) ==
  /\ metaPc[a] = "select" /\ metaQueue[a] # <<>>
  /\ Head(metaQueue[a]).kind = "stop"
  /\ metaPc' = [metaPc EXCEPT ![a] = "flush"]
  /\ metaExits' = [metaExits EXCEPT ![a] = TRUE]
  /\ metaQueue' = [metaQueue EXCEPT ![a] = Tail(@)]
  /\ UNCHANGED <<completedSet, dirtyEvents, missed, diskVars, reported, lifeVars>>

\* Mutated form: the timer waits for a full batch too.
TimerTickFullBatch(a) ==
  /\ metaPc[a] = "select" /\ dirtyEvents[a] >= DoneBatch
  /\ metaPc' = [metaPc EXCEPT ![a] = "flush"]
  /\ UNCHANGED <<metaExits, completedSet, dirtyEvents, metaQueue, missed,
                 diskVars, reported, lifeVars>>

\* The timer of one second.
TimerTick(a) ==
  /\ metaPc[a] = "select" /\ dirtyEvents[a] > 0
  /\ metaPc' = [metaPc EXCEPT ![a] = "flush"]
  /\ UNCHANGED <<metaExits, completedSet, dirtyEvents, metaQueue, missed,
                 diskVars, reported, lifeVars>>

\* The actors of the set end, with whatever they know or have queued.
End(ended) ==
  /\ metaPc' = [a \in MetaSlots |-> IF a \in ended THEN "down" ELSE metaPc[a]]
  /\ metaExits' = [a \in MetaSlots |-> a \notin ended /\ metaExits[a]]
  /\ completedSet' = [a \in MetaSlots |-> IF a \in ended THEN {} ELSE completedSet[a]]
  /\ dirtyEvents' = [a \in MetaSlots |-> IF a \in ended THEN 0 ELSE dirtyEvents[a]]
  /\ metaQueue' = [a \in MetaSlots |-> IF a \in ended THEN <<>> ELSE metaQueue[a]]
  /\ missed' = [a \in MetaSlots |-> IF a \in ended THEN 0 ELSE missed[a]]

\* All handles are dropped and the queue is drained.
HandlesDropped(a) ==
  /\ metaPc[a] = "select" /\ metaQueue[a] = <<>>
  /\ \/ dirtyEvents[a] = 0 /\ End({a})
     \/ /\ dirtyEvents[a] > 0
        /\ metaPc' = [metaPc EXCEPT ![a] = "flush"]
        /\ metaExits' = [metaExits EXCEPT ![a] = TRUE]
        /\ UNCHANGED <<completedSet, dirtyEvents, metaQueue, missed>>
  /\ UNCHANGED <<diskVars, reported, lifeVars>>

\* After a flush, written or not, nothing counts as unsaved.
Flushed(a, failures) ==
  /\ \/ metaExits[a] /\ End({a})
     \/ /\ ~metaExits[a]
        /\ dirtyEvents' = [dirtyEvents EXCEPT ![a] = 0]
        /\ metaPc' = [metaPc EXCEPT ![a] = "select"]
        /\ missed' = [missed EXCEPT ![a] = failures]
        /\ UNCHANGED <<metaExits, completedSet, metaQueue>>
  /\ UNCHANGED <<renameReplaces, reported, lifeVars>>

\* A rename that may go ahead: the platform replaces files, or there is none.
Renamable(a) ==
  \/ metaPc[a] = "flush" /\ (renameReplaces \/ metaFile = NoFile)
  \/ metaPc[a] = "swap" /\ metaFile = NoFile

\* Mutated form: the ranges of the new chunks are appended to those on disk.
WriteMetaAppends(a) ==
  /\ Renamable(a)
  /\ metaFile' = [there |-> TRUE, ranges |-> metaFile.ranges
                    \o CoalesceRanges(completedSet[a] \ Saved)]
  /\ Flushed(a, 0) /\ UNCHANGED writeErrors

\* write_atomic: a temporary file, of a name of its own, renamed over the old one.
WriteMeta(a) ==
  /\ Renamable(a)
  /\ metaFile' = [there |-> TRUE, ranges |-> CoalesceRanges(completedSet[a])]
  /\ Flushed(a, 0) /\ UNCHANGED writeErrors

\* The directory, the temporary file or the rename fails: the error is dropped.
WriteMetaFails(a) ==
  /\ metaPc[a] \in {"flush", "swap"} /\ writeErrors < MaxWriteErrors
  /\ writeErrors' = writeErrors + 1
  /\ Flushed(a, missed[a] + 1) /\ UNCHANGED metaFile

\* The rename is refused: another actor has put its file where this one removed the
\* old one.
RenameRefused(a) ==
  /\ metaPc[a] = "swap" /\ metaFile # NoFile
  /\ Flushed(a, missed[a]) /\ UNCHANGED <<metaFile, writeErrors>>

\* Windows: rename refuses an existing target, which is removed first.
RemoveOld(a) ==
  /\ metaPc[a] = "flush" /\ ~renameReplaces /\ metaFile # NoFile
  /\ metaFile' = NoFile
  /\ metaPc' = [metaPc EXCEPT ![a] = "swap"]
  /\ UNCHANGED <<metaExits, completedSet, dirtyEvents, metaQueue, missed,
                 renameReplaces, reported, writeErrors, lifeVars>>

\* The process is killed, and with it every actor.
MetaKilled ==
  /\ \E a \in MetaSlots : metaPc[a] # "down"
  /\ End(MetaSlots)
  /\ UNCHANGED <<diskVars, reported, lifeVars>>

Write(a) == WriteMeta(a) \/ WriteMetaFails(a) \/ RenameRefused(a) \/ RemoveOld(a)

MetaStep(a) ==
  \/ SpawnMeta(a) \/ HandleChunk(a) \/ HandleControl(a) \/ TimerTick(a)
  \/ HandlesDropped(a) \/ Write(a) \/ SendStop(a)
  \/ \E c \in MetaChunks : Report(a, c)

MetaNext == (\E a \in MetaSlots : MetaStep(a)) \/ MetaKilled

MetaSpec == MetaInit /\ [][MetaNext]_metaVars

\* The runtime polls every actor and its blocking write; the clock advances.
MetaFairness ==
  \A a \in MetaSlots :
    WF_metaVars(HandleChunk(a) \/ HandleControl(a) \/ TimerTick(a) \/ Write(a))

------------------------------------------------------------------------------
(* Properties.                                                               *)

MetaTypeOK ==
  /\ metaPc \in [MetaSlots -> {"down", "select", "flush", "swap"}]
  /\ metaExits \in [MetaSlots -> BOOLEAN]
  /\ completedSet \in [MetaSlots -> SUBSET MetaChunks]
  /\ dirtyEvents \in [MetaSlots -> 0 .. DoneBatch]
  /\ \A a \in MetaSlots : Len(metaQueue[a]) <= MetaQueueCap

\* What meta.json claims to be completed was reported as completed, and the ranges
\* are the shortest that say so, through batching, restarts, kills and actors that
\* overwrite each other's file: a resumed transfer skips no chunk that was not
\* transferred.
SavedIsHonest ==
  /\ Saved \subseteq reported
  /\ \A i, j \in DOMAIN metaFile.ranges :
       i < j => metaFile.ranges[i][2] + 1 < metaFile.ranges[j][1]

\* An actor that waits has fewer than DoneBatch unsaved chunks, and that many more
\* for each flush that failed since the last one that wrote, as the count starts
\* anew with every flush: killing the process loses no more than those and the
\* queue.  Two cases are excepted: where rename does not replace files a failed
\* flush may leave no file; and an actor that was spawned while another lived may
\* have its file overwritten by the other's.
LossIsBounded ==
  \A a \in MetaSlots :
    metaPc[a] = "select" /\ ~sharedFile /\ (renameReplaces \/ missed[a] = 0)
      => Cardinality(completedSet[a] \ Saved) < DoneBatch * (missed[a] + 1)

\* Chunks recorded on disk stay recorded, over restarts and failed writes, with the
\* same two exceptions: the file is gone between the removal and the rename on
\* Windows, and actors that overlap overwrite each other's file with what each
\* knows.
NothingForgotten ==
  [][\/ sharedFile
     \/ \E a \in MetaSlots : metaPc'[a] = "swap"
     \/ Saved \subseteq Saved']_metaVars

\* Again and again meta.json holds every chunk that the actor has taken in, so each
\* reaches the disk, unless the actor ends first, the last write failed, or an actor
\* that overlaps overwrites the file.
ProgressIsSaved ==
  []<>(\A a \in MetaSlots :
         missed[a] > 0 \/ sharedFile \/ completedSet[a] \subseteq Saved)
==============================================================================
