------------------------------ MODULE ChunkPlan ------------------------------
(***************************************************************************)
(* How a file is cut into chunks and how sets of chunks are written down:    *)
(* core/src/chunk/mod.rs, the ranges of manifest/schema.rs and of            *)
(* transfer/tracker.rs, and what a resumed session does with them.  Pure     *)
(* algorithms: a chunk is its number, a file its size.                       *)
(***************************************************************************)
EXTENDS Integers, Sequences, FiniteSets, SequencesExt

CONSTANT ChunkNumbers   \* how many numbers a chunk can have: 2^32, a u32

ASSUME PlanAssumption == ChunkNumbers \in Nat \ {0}

------------------------------------------------------------------------------
(* The plan.                                                                 *)

KiB == 1024
MiB == 1024 * KiB

\* select_optimal_chunk_size.
OptimalChunkSize(fileSize, highSpeed) ==
  CASE fileSize < MiB -> 256 * KiB
    [] fileSize \in MiB .. 4 * MiB - 1 -> 512 * KiB
    [] fileSize \in 4 * MiB .. 64 * MiB - 1 -> IF highSpeed THEN 2 * MiB ELSE MiB
    [] OTHER -> IF highSpeed THEN 4 * MiB ELSE 2 * MiB

\* total_chunks: the quotient rounded up, as u32.
TotalChunks(fileSize, chunkSize) ==
  IF fileSize = 0 \/ chunkSize = 0 THEN 0
  ELSE ((fileSize + chunkSize - 1) \div chunkSize) % ChunkNumbers

\* calculate_chunk_plan: by chunk, where it is in the file and how long it is.
Plan(fileSize, chunkSize) ==
  [id \in 0 .. TotalChunks(fileSize, chunkSize) - 1 |->
     LET offset    == id * chunkSize
         remaining == IF fileSize > offset THEN fileSize - offset ELSE 0
     IN [offset |-> offset,
         length |-> IF remaining < chunkSize THEN remaining ELSE chunkSize]]

\* The bytes of a chunk.
BytesOf(entry) == entry.offset .. entry.offset + entry.length - 1

\* What resume_transfer counts for a chunk when it only has the sizes.
ResumedLength(fileSize, chunkSize, id) ==
  LET total     == TotalChunks(fileSize, chunkSize)
      last      == IF total > 0 THEN total - 1 ELSE 0
      remainder == fileSize % chunkSize
  IN IF id = last /\ remainder > 0 THEN remainder ELSE chunkSize

\* The numbers suffice for the file.
Fits(fileSize, chunkSize) == fileSize <= chunkSize * (ChunkNumbers - 1)

\* What a plan is for: every byte of the file is in one chunk, no chunk is empty, longer
\* than the chunk size or beyond the end of the file.
CutsTheFile(plan, fileSize, chunkSize) ==
  /\ \A id \in DOMAIN plan : plan[id].length \in 1 .. chunkSize
  /\ \A id \in DOMAIN plan : BytesOf(plan[id]) \subseteq 0 .. fileSize - 1
  /\ \A b \in 0 .. fileSize - 1 : \E id \in DOMAIN plan : b \in BytesOf(plan[id])
  /\ \A i, j \in DOMAIN plan : i # j => BytesOf(plan[i]) \cap BytesOf(plan[j]) = {}

------------------------------------------------------------------------------
(* Ranges.                                                                   *)

\* sort_unstable.
Ascending(S) ==
  CHOOSE s \in [1 .. Cardinality(S) -> S] : \A i, j \in DOMAIN s : i < j => s[i] < s[j]

\* The next chunk in ascending order extends the last range or opens a new one.
WithChunk(ranges, id) ==
  IF ranges # <<>> /\ id = Last(ranges)[2] + 1
  THEN [ranges EXCEPT ![Len(ranges)] = <<@[1], id>>]
  ELSE Append(ranges, <<id, id>>)

\* coalesce_ranges: one pass over the sorted chunks.
CoalesceRanges(S) ==
  LET ids == Ascending(S)
      pass[n \in 0 .. Cardinality(S)] ==
        IF n = 0 THEN <<>> ELSE WithChunk(pass[n - 1], ids[n])
  IN pass[Cardinality(S)]

ExpandRanges(ranges) == UNION {r[1] .. r[2] : r \in ToSet(ranges)}

\* get_completed_ranges: the tracker has a chunk once for every checksum it came
\* with; the numbers are sorted, freed of duplicates and coalesced by the same pass.
\* None, when there are none, is no range to the sender.
CompletedRanges(completed) == CoalesceRanges({done.chunk : done \in completed})

\* from_ranges: chunks of an earlier session, whose checksums are not known.
TrackerFrom(ranges) == {[chunk |-> id, checksum |-> 0] : id \in ExpandRanges(ranges)}

\* get_missing_chunks, and a session's chunks to send: those of the plan in none of the
\* ranges that the accepting connections reported.
MissingChunks(plan, ranges) == DOMAIN plan \ ExpandRanges(ranges)
==============================================================================
