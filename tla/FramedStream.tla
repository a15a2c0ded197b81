---------------------------- MODULE FramedStream ----------------------------
(***************************************************************************)
(* Frames over a byte stream: protocol/frame.rs, transport/vectored.rs and   *)
(* transport/stream.rs.  The sender writes a header and a payload with as    *)
(* many partial writes as the socket likes, the reader gathers bytes in a    *)
(* buffer of its own and cuts frames off it.                                 *)
(*                                                                          *)
(* A byte is a pair of the frame it belongs to and its place in it: what the *)
(* code knows of it only once the length in front of it is there.            *)
(***************************************************************************)
EXTENDS Integers, Sequences, SequencesExt

CONSTANTS
  PrefixLen,    \* bytes of the length (4)
  FrameKinds,   \* records [header, payload]: bytes in each part
  MaxHeld,      \* longest body the reader accepts (256 MiB)
  WireCap,      \* bytes that fit between the sockets
  MaxFrames     \* bound on the frames sent

ASSUME FrameAssumption ==
  /\ FrameKinds \subseteq [header : Nat, payload : Nat]
  /\ \A k \in FrameKinds : k.header > PrefixLen
  /\ {PrefixLen, WireCap, MaxFrames} \subseteq Nat \ {0} /\ MaxHeld \in Nat

VARIABLES
  frames,       \* kinds of the frames sent so far, the last perhaps in part
  headerAt, payloadAt,   \* offsets of the frame under way
  sending,      \* write_all_vectored is at work
  writerEnd,    \* "open", "closed" (shutdown, or the process died) or "failed"
  wire,         \* bytes under way
  buffer,       \* FrameReader.buffer
  reading,      \* read_frame_with_length waits for bytes
  got,          \* frames returned: numbers, or 0 for a garbled one
  readerEnd     \* "open", "clean" (Ok(None)) or "error"

writerVars == <<frames, headerAt, payloadAt, sending, writerEnd>>
readerVars == <<buffer, reading, got, readerEnd>>
frameVars  == <<writerVars, wire, readerVars>>

FrameInit ==
  /\ frames = <<>> /\ headerAt = 0 /\ payloadAt = 0
  /\ sending = FALSE /\ writerEnd = "open"
  /\ wire = <<>>
  /\ buffer = <<>> /\ reading = FALSE /\ got = <<>> /\ readerEnd = "open"

FrameLen(f) == frames[f].header + frames[f].payload

\* encode_frame: the length does not count itself.
LengthPrefix(f) == FrameLen(f) - PrefixLen

------------------------------------------------------------------------------
(* send_frame.                                                               *)

Kind == frames[Len(frames)]

\* A transport that has failed sends no more.
SendFrame(k) ==
  /\ ~sending /\ writerEnd = "open" /\ Len(frames) < MaxFrames
  /\ frames' = Append(frames, k)
  /\ headerAt' = 0 /\ payloadAt' = 0 /\ sending' = TRUE
  /\ UNCHANGED <<writerEnd, wire, readerVars>>

\* The bytes of the two slices from where the offsets stand.
Unsent ==
  [i \in 1 .. Kind.header - headerAt |-> <<Len(frames), headerAt + i>>]
  \o [i \in 1 .. Kind.payload - payloadAt |->
        <<Len(frames), Kind.header + payloadAt + i>>]

\* Mutated form: bytes of the header are counted as payload too.
WriteSomeMiscounts(n) ==
  /\ sending /\ n <= Len(Unsent) /\ Len(wire) + n <= WireCap
  /\ wire' = wire \o SubSeq(Unsent, 1, n)
  /\ IF headerAt + n <= Kind.header
     THEN headerAt' = headerAt + n /\ payloadAt' = payloadAt
     ELSE headerAt' = Kind.header /\ payloadAt' = payloadAt + n
  /\ sending' = (headerAt' < Kind.header \/ payloadAt' < Kind.payload)
  /\ UNCHANGED <<frames, writerEnd, readerVars>>

\* write_vectored takes n bytes; write_all of the rest of a payload comes to the
\* same.  send_frame returns when both offsets have arrived.
WriteSome(n) ==
  /\ sending /\ n <= Len(Unsent) /\ Len(wire) + n <= WireCap
  /\ wire' = wire \o SubSeq(Unsent, 1, n)
  /\ IF headerAt + n <= Kind.header
     THEN headerAt' = headerAt + n /\ payloadAt' = payloadAt
     ELSE headerAt' = Kind.header
          /\ payloadAt' = payloadAt + n - (Kind.header - headerAt)
  /\ sending' = (headerAt' < Kind.header \/ payloadAt' < Kind.payload)
  /\ UNCHANGED <<frames, writerEnd, readerVars>>

\* A write error: the transport is disconnected and part of a frame is out.
WriteFails ==
  /\ sending
  /\ sending' = FALSE /\ writerEnd' = "failed"
  /\ UNCHANGED <<frames, headerAt, payloadAt, wire, readerVars>>

\* close between two frames, or the death of the process anywhere: the peer reads
\* what was written and then the end of the stream.
StreamEnds ==
  /\ writerEnd \in {"open", "failed"}
  /\ writerEnd' = "closed" /\ sending' = FALSE
  /\ UNCHANGED <<frames, headerAt, payloadAt, wire, readerVars>>

------------------------------------------------------------------------------
(* receive_frame.                                                            *)

StartRead ==
  /\ ~reading /\ readerEnd = "open"
  /\ reading' = TRUE
  /\ UNCHANGED <<writerVars, wire, buffer, got, readerEnd>>

\* What the first bytes of the buffer say a frame is: the length of a frame when
\* they are the start of one, anything when they are not.
Announced ==
  LET f == buffer[1][1] IN
  IF \A i \in 1 .. PrefixLen : buffer[i] = <<f, i>> THEN LengthPrefix(f) ELSE 1

\* A whole frame is in the buffer: it is cut off and decoded.
CutFrame ==
  /\ reading /\ Len(buffer) >= PrefixLen
  /\ Announced <= MaxHeld
  /\ Len(buffer) >= PrefixLen + Announced
  /\ LET n == PrefixLen + Announced
         f == buffer[1][1] IN
       /\ got' = Append(got, IF n = FrameLen(f)
                                /\ SubSeq(buffer, 1, n) = [i \in 1 .. n |-> <<f, i>>]
                             THEN f ELSE 0)
       /\ buffer' = SubSeq(buffer, n + 1, Len(buffer))
  /\ reading' = FALSE
  /\ UNCHANGED <<writerVars, wire, readerEnd>>

\* A length beyond the limit ends the transport.
TooLong ==
  /\ reading /\ Len(buffer) >= PrefixLen
  /\ Announced > MaxHeld
  /\ reading' = FALSE /\ readerEnd' = "error"
  /\ UNCHANGED <<writerVars, wire, buffer, got>>

NeedsBytes ==
  \/ Len(buffer) < PrefixLen
  \/ /\ Len(buffer) >= PrefixLen
     /\ Announced <= MaxHeld /\ Len(buffer) < PrefixLen + Announced

\* read_buf appends what the socket has.
ReadSome(n) ==
  /\ reading /\ NeedsBytes /\ n <= Len(wire)
  /\ buffer' = buffer \o SubSeq(wire, 1, n)
  /\ wire' = SubSeq(wire, n + 1, Len(wire))
  /\ UNCHANGED <<writerVars, reading, got, readerEnd>>

\* A caller that waits for something else too drops the future of the read; the
\* buffer is the reader's and stays.
ReadGivenUp ==
  /\ reading /\ NeedsBytes /\ wire = <<>>
  /\ reading' = FALSE
  /\ UNCHANGED <<writerVars, wire, buffer, got, readerEnd>>

\* Mutated form: the end of the stream is the end, whatever is in the buffer.
ReadEndsClean ==
  /\ reading /\ NeedsBytes /\ wire = <<>> /\ writerEnd = "closed"
  /\ reading' = FALSE /\ readerEnd' = "clean"
  /\ UNCHANGED <<writerVars, wire, buffer, got>>

\* The end of the stream is Ok(None) between frames and an error inside one.
ReadEnds ==
  /\ reading /\ NeedsBytes /\ wire = <<>> /\ writerEnd = "closed"
  /\ reading' = FALSE
  /\ readerEnd' = IF buffer = <<>> THEN "clean" ELSE "error"
  /\ UNCHANGED <<writerVars, wire, buffer, got>>

\* A reset: what was under way is lost.
ReadFails ==
  /\ reading /\ NeedsBytes /\ writerEnd = "failed"
  /\ reading' = FALSE /\ readerEnd' = "error" /\ wire' = <<>>
  /\ UNCHANGED <<writerVars, buffer, got>>

------------------------------------------------------------------------------

FrameNext ==
  \/ \E k \in FrameKinds : SendFrame(k)
  \/ \E n \in 1 .. WireCap : WriteSome(n)
  \/ WriteFails
  \/ StreamEnds
  \/ StartRead
  \/ CutFrame
  \/ TooLong
  \/ \E n \in 1 .. WireCap : ReadSome(n)
  \/ ReadGivenUp
  \/ ReadEnds
  \/ ReadFails

FrameSpec == FrameInit /\ [][FrameNext]_frameVars

------------------------------------------------------------------------------
(* Properties.                                                               *)

\* However writes and reads are cut into pieces and however often a read is given
\* up, the reader returns exactly the frames sent, whole and in order: a session
\* can wait for a frame and for a notification at once.
FramesArriveInOrder == got = [i \in 1 .. Len(got) |-> i] /\ Len(got) <= Len(frames)

\* Frames of which at least a byte was written.
BegunFrames == IF headerAt = 0 /\ frames # <<>> THEN Len(frames) - 1 ELSE Len(frames)

\* The reader reports a clean end only when every frame of which a byte was written
\* was written whole and returned: a sender that died inside a frame is never taken
\* for one that closed.
CleanEndIsHonest == readerEnd = "clean" => Len(got) = BegunFrames
==============================================================================
