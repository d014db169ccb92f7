------------------------------ MODULE Framing ------------------------------
(***************************************************************************)
(* FrameParser.feed (backend/app/gateway/framing.py): frames are cut out of *)
(* a byte stream that arrives in pieces of any length, noise is skipped,    *)
(* and after a length over the maximum the search goes on one byte later.   *)
(* Each turn of feed's loop is a step; a piece arrives when the loop is     *)
(* done.  Bytes are small numbers: two of them are the magic, and the       *)
(* two bytes after it are a length.                                         *)
(***************************************************************************)
EXTENDS Naturals, Sequences, FiniteSetsExt, SequencesExt

CONSTANTS
    ByteValues,       \* the bytes that occur
    Magic1, Magic2,   \* MAGIC
    MaxPayload,       \* maximum_payload_size
    StreamLength      \* bound: bytes that arrive

ASSUME FramingAssumption ==
    /\ ByteValues \subseteq 0 .. 255 /\ {Magic1, Magic2} \subseteq ByteValues
    /\ MaxPayload \in Nat /\ StreamLength \in Nat

VARIABLES
    stream,     \* all the bytes that will arrive
    arrived,    \* how many have been fed
    buffer,     \* _buffer
    returned,   \* the frames returned so far
    discarded,  \* discarded_bytes
    oversized,  \* oversized_frames
    busy        \* feed's loop runs

parser == <<stream, arrived, buffer, returned, discarded, oversized, busy>>

HeaderSize == 4

FrameInit ==
    /\ stream = <<>> /\ arrived = 0
    /\ buffer = <<>> /\ returned = <<>> /\ discarded = 0 /\ oversized = 0
    /\ busy = FALSE

ChooseStream ==
    /\ stream = <<>>
    /\ stream' \in [1 .. StreamLength -> ByteValues]
    /\ UNCHANGED <<arrived, buffer, returned, discarded, oversized, busy>>

\* A read returns the next bytes, and feed appends them.
Feed ==
    /\ ~busy
    /\ \E upto \in arrived + 1 .. Len(stream) :
         /\ arrived' = upto
         /\ buffer' = buffer \o SubSeq(stream, arrived + 1, upto)
    /\ busy' = TRUE
    /\ UNCHANGED <<stream, returned, discarded, oversized>>

IsMagic(bytes, i) == i < Len(bytes) /\ bytes[i] = Magic1 /\ bytes[i + 1] = Magic2
MagicPositions == {i \in DOMAIN buffer : IsMagic(buffer, i)}
PayloadSize(bytes, i) == bytes[i + 2] * 256 + bytes[i + 3]

\* Mutant: the first byte of a magic at the end of a read is noise.
NoMagicForgetful ==
    /\ busy /\ MagicPositions = {}
    /\ buffer' = <<>>
    /\ discarded' = discarded + Len(buffer)
    /\ busy' = FALSE
    /\ UNCHANGED <<stream, arrived, returned, oversized>>

\* No magic: everything goes but a last byte that may begin one.
NoMagic ==
    /\ busy /\ MagicPositions = {}
    /\ buffer' = IF buffer # <<>> /\ Last(buffer) = Magic1 THEN <<Magic1>> ELSE <<>>
    /\ discarded' = discarded + Len(buffer) - Len(buffer')
    /\ busy' = FALSE
    /\ UNCHANGED <<stream, arrived, returned, oversized>>

\* Noise before the first magic goes.  The header or the payload after it is not
\* complete: it stays for the next read.
Incomplete(rest) ==
    /\ \/ Len(rest) < HeaderSize
       \/ /\ Len(rest) >= HeaderSize /\ PayloadSize(rest, 1) <= MaxPayload
          /\ Len(rest) < HeaderSize + PayloadSize(rest, 1)
    /\ buffer' = rest
    /\ discarded' = discarded + Len(buffer) - Len(rest)
    /\ busy' = FALSE
    /\ UNCHANGED <<stream, arrived, returned, oversized>>

\* The length is too large: only one byte of the magic goes.
Oversized(rest) ==
    /\ Len(rest) >= HeaderSize /\ PayloadSize(rest, 1) > MaxPayload
    /\ buffer' = Tail(rest)
    /\ discarded' = discarded + Len(buffer) - Len(rest) + 1
    /\ oversized' = oversized + 1
    /\ UNCHANGED <<stream, arrived, returned, busy>>

\* A frame is complete.
Complete(rest) ==
    /\ Len(rest) >= HeaderSize /\ PayloadSize(rest, 1) <= MaxPayload
    /\ LET size == HeaderSize + PayloadSize(rest, 1)
       IN  /\ Len(rest) >= size
           /\ returned' = Append(returned, SubSeq(rest, 1, size))
           /\ buffer' = SubSeq(rest, size + 1, Len(rest))
    /\ discarded' = discarded + Len(buffer) - Len(rest)
    /\ UNCHANGED <<stream, arrived, oversized, busy>>

\* One turn of the loop with a magic in the buffer.
Scan ==
    LET rest == SubSeq(buffer, Min(MagicPositions), Len(buffer))
    IN  /\ busy /\ MagicPositions # {}
        /\ Incomplete(rest) \/ Oversized(rest) \/ Complete(rest)

FrameNext == ChooseStream \/ Feed \/ NoMagic \/ Scan

FrameSpec == FrameInit /\ [][FrameNext]_parser

-----------------------------------------------------------------------------
(* The reference: the stream is read byte by byte from its beginning. *)

\* What begins at position i of the bytes: a frame, something that could become
\* one, or a byte to skip.
Kind(bytes, i) ==
    LET left == Len(bytes) - i + 1
    IN  IF bytes[i] # Magic1 \/ (left > 1 /\ bytes[i + 1] # Magic2) THEN "noise"
        ELSE IF left < HeaderSize THEN "open"
        ELSE IF PayloadSize(bytes, i) > MaxPayload THEN "oversized"
        ELSE IF left < HeaderSize + PayloadSize(bytes, i) THEN "open"
        ELSE "frame"

Rest(bytes) == [frames |-> <<>>, skipped |-> 0, oversized |-> 0, rest |-> bytes]

\* A result with what was found before it.
Preceded(found, skip, refused, result) ==
    [frames |-> found \o result.frames, skipped |-> skip + result.skipped,
     oversized |-> refused + result.oversized, rest |-> result.rest]

\* What the bytes give from position i on, when from says it for later ones.
Outcome(bytes, from, i) ==
    LET size == HeaderSize + PayloadSize(bytes, i)
    IN  IF i > Len(bytes) THEN Rest(<<>>)
        ELSE CASE Kind(bytes, i) = "noise" -> Preceded(<<>>, 1, 0, from[i + 1])
               [] Kind(bytes, i) = "oversized" -> Preceded(<<>>, 1, 1, from[i + 1])
               [] Kind(bytes, i) = "open" -> Rest(SubSeq(bytes, i, Len(bytes)))
               [] Kind(bytes, i) = "frame" ->
                    Preceded(<<SubSeq(bytes, i, i + size - 1)>>, 0, 0, from[i + size])

Parse(bytes) ==
    LET from[i \in 1 .. Len(bytes) + 1] == Outcome(bytes, from, i)
    IN  from

Reference(bytes) == Parse(bytes)[1]

\* However the stream is cut into reads, the parser returns the frames, counts
\* the bytes it dropped and the lengths it refused, and keeps the bytes that one
\* pass over all that has arrived would: no frame depends on a read's boundary,
\* none is found inside another one, and no byte is counted twice.
FramesMatchReference ==
    ~busy => [frames |-> returned, skipped |-> discarded, oversized |-> oversized,
              rest |-> buffer] = Reference(SubSeq(stream, 1, arrived))
=============================================================================
