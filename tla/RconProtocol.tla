---------------------------- MODULE RconProtocol ----------------------------
(***************************************************************************)
(* internal/rcon/protocol.go: Encode and DecodePacket, and the stream of   *)
(* bytes between them, which TCP delivers in pieces.  The peer is the mock *)
(* server, which encodes as the client does but knows no limit, or a       *)
(* server that ends its payload with two null bytes, or one that sends a   *)
(* frame that is none.                                                     *)
(*                                                                         *)
(* An operator named Mutant_X is a plausible error in the definition below *)
(* it; no action uses one.                                                 *)
(***************************************************************************)
EXTENDS Integers, Sequences, SequencesExt

CONSTANTS
    MaxPacket,  \* maxPacketSize, 4096 in the code
    Ids,        \* ids of packets, -1 among them
    Payloads,   \* sequences of bytes, none of them null
    Garbage,    \* frames that are no packets
    MaxSent     \* bound: packets on one connection

Byte == 0..255

MaxInt32 == 127 * 16777216 + 16777215

\* An id is an int32, and a peer does not send what its length field cannot express.
ASSUME PacketsAssumption ==
    /\ MaxPacket \in Nat /\ MaxPacket < 65536
    /\ \A i \in Ids : i \in Int /\ -MaxInt32 - 1 <= i /\ i <= MaxInt32
    /\ Payloads \subseteq Seq(1..255)
    /\ \A p \in Payloads : Len(p) + 10 <= MaxInt32
    /\ Garbage \subseteq Seq(Byte)
    /\ MaxSent \in Nat

VARIABLES
    written,   \* history: the packets written to the connection
    ends,      \* history: how many bytes had been written after each of them
    transit,   \* bytes on their way
    arrived,   \* bytes that have arrived and were not read
    eof,       \* whether the peer's end is closed and nothing more will arrive
    decoded,   \* the packets that DecodePacket has returned
    failure,   \* its error: "none", "tooLarge" or "invalid"; the connection is then closed
    refused,   \* history: packets that Encode has refused
    excess,    \* history: whether the peer wrote a packet beyond the limit
    foul       \* history: whether something that is no packet was written

vars == <<written, ends, transit, arrived, eof, decoded, failure, refused, excess, foul>>

Packets == [id : Ids, type : {0}, payload : Payloads]

-----------------------------------------------------------------------------
(* Encode and DecodePacket. *)

\* Little-endian; \div and % round down, so a negative number is in two's complement.
LE32(n) == <<n % 256, (n \div 256) % 256, (n \div 65536) % 256, (n \div 16777216) % 256>>

Number(b) == b[1] + 256 * b[2] + 65536 * b[3] + 16777216 * b[4]
Signed(b) == Number([b EXCEPT ![4] = IF @ < 128 THEN @ ELSE @ - 256])

Mutant_BodySize(p, nulls) == 4 + 4 + Len(p.payload)

BodySize(p, nulls) == 4 + 4 + Len(p.payload) + nulls

Nulls(n) == [i \in 1..n |-> 0]

Frame(p, nulls) ==
    LE32(BodySize(p, nulls)) \o LE32(p.id) \o LE32(p.type) \o p.payload \o Nulls(nulls)

Mutant_TooLarge(header) == ~(header[4] < 128 /\ Number(header) < MaxPacket)

\* The length is unsigned: one with the highest bit set is too large as well.
TooLarge(header) == ~(header[4] < 128 /\ Number(header) <= MaxPacket)

Mutant_Payload(body) == IF Len(body) > 9 THEN SubSeq(body, 9, Len(body) - 1) ELSE <<>>

\* Everything behind the type but the last byte, without null bytes at its end.
Payload(body) ==
    LET text == SubSeq(body, 9, Len(body) - 1)
        n == CHOOSE k \in 0..Len(text) :
               /\ \A i \in k+1..Len(text) : text[i] = 0
               /\ k > 0 => text[k] # 0
    IN  IF Len(body) > 9 THEN SubSeq(text, 1, n) ELSE <<>>

Parse(body) ==
    [id |-> Signed(SubSeq(body, 1, 4)), type |-> Signed(SubSeq(body, 5, 8)),
     payload |-> Payload(body)]

-----------------------------------------------------------------------------
Init ==
    /\ written = <<>>
    /\ ends = <<>>
    /\ transit = <<>>
    /\ arrived = <<>>
    /\ eof = FALSE
    /\ decoded = <<>>
    /\ failure = "none"
    /\ refused = {}
    /\ excess = FALSE
    /\ foul = FALSE

Put(bytes) == transit' = transit \o bytes

\* Where the frame of a packet begins in the stream of all that was written.
Begins(i) == IF i = 1 THEN 0 ELSE ends[i - 1]

Send(p, nulls) ==
    /\ Put(Frame(p, nulls))
    /\ written' = Append(written, p)
    /\ ends' = Append(ends, Begins(Len(written) + 1) + 4 + BodySize(p, nulls))

\* Encode and Write.
Encode(p) ==
    /\ ~eof
    /\ Len(written) < MaxSent
    /\ IF BodySize(p, 1) > MaxPacket
       THEN refused' = refused \cup {p} /\ UNCHANGED <<written, ends, transit>>
       ELSE Send(p, 1) /\ UNCHANGED refused
    /\ UNCHANGED <<arrived, eof, decoded, failure, excess, foul>>

\* A server with two null bytes, or one that does not look at the size.
PeerWrites(p, nulls) ==
    /\ ~eof
    /\ Len(written) < MaxSent
    /\ Send(p, nulls)
    /\ excess' = (excess \/ BodySize(p, nulls) > MaxPacket)
    /\ UNCHANGED <<arrived, eof, decoded, failure, refused, foul>>

PeerWritesGarbage(bytes) ==
    /\ ~eof
    /\ ~foul
    /\ Put(bytes)
    /\ foul' = TRUE
    /\ UNCHANGED <<written, ends, arrived, eof, decoded, failure, refused, excess>>

\* The next piece of the stream.
Arrive ==
    /\ \E k \in 1..Len(transit) :
         /\ arrived' = arrived \o SubSeq(transit, 1, k)
         /\ transit' = SubSeq(transit, k + 1, Len(transit))
    /\ UNCHANGED <<written, ends, eof, decoded, failure, refused, excess, foul>>

\* The connection ends, perhaps in the middle of a frame.
HangUp ==
    /\ ~eof
    /\ eof' = TRUE
    /\ transit' = <<>>
    /\ UNCHANGED <<written, ends, arrived, decoded, failure, refused, excess, foul>>

\* io.ReadFull has all it was asked for: the length, and the body of that length
\* unless it is refused.
Complete ==
    /\ Len(arrived) >= 4
    /\ ~TooLarge(arrived) => Len(arrived) >= 4 + Number(arrived)

\* The end of the stream comes before the end of the packet.
DecodeCut ==
    /\ eof /\ ~Complete
    /\ failure' = "invalid"
    /\ UNCHANGED <<arrived, decoded>>

DecodeTooLarge ==
    /\ Complete /\ TooLarge(arrived)
    /\ failure' = "tooLarge"
    /\ UNCHANGED <<arrived, decoded>>

DecodeBody ==
    /\ Complete /\ ~TooLarge(arrived)
    /\ LET end == 4 + Number(arrived)
           body == SubSeq(arrived, 5, end)
       IN  /\ arrived' = SubSeq(arrived, end + 1, Len(arrived))
           /\ IF Len(body) < 8
              THEN failure' = "invalid" /\ UNCHANGED decoded
              ELSE decoded' = Append(decoded, Parse(body)) /\ UNCHANGED failure

Decode ==
    /\ failure = "none"
    /\ DecodeCut \/ DecodeTooLarge \/ DecodeBody
    /\ UNCHANGED <<written, ends, transit, eof, refused, excess, foul>>

Next ==
    \/ \E p \in Packets : Encode(p) \/ \E nulls \in {1, 2} : PeerWrites(p, nulls)
    \/ \E bytes \in Garbage : PeerWritesGarbage(bytes)
    \/ Arrive \/ HangUp \/ Decode

Spec == Init /\ [][Next]_vars

-----------------------------------------------------------------------------
\* However the stream is cut, packets come out as they went in, in order, with
\* either number of null bytes at the end, until something else was sent
\* (protocol.go:24-53, 56-99).
PacketsSurvive == ~foul => IsPrefix(decoded, written)

\* A packet is refused only for its size, and the reader refuses none that
\* Encode accepts: an error means the end of the stream, something that is no
\* packet, or a peer that exceeds the limit (protocol.go:29, 64).
ErrorsAreReal ==
    /\ \A p \in refused : Len(p.payload) > MaxPacket - 9
    /\ failure = "invalid" => eof \/ foul
    /\ failure = "tooLarge" => foul \/ excess

\* A connection that is left open delivers everything: the reader never waits
\* inside a packet that has arrived (protocol.go:59-72).
NothingIsStuck ==
    failure = "none" /\ ~foul /\ transit = <<>> /\ ~eof /\ ~Complete => decoded = written

-----------------------------------------------------------------------------
(* The inductive invariant behind them: what lies where in the bytes not yet read. *)

StreamTypes ==
    /\ written \in Seq(Packets)
    /\ ends \in Seq(Nat)
    /\ Len(ends) = Len(written)
    /\ transit \in Seq(Byte)
    /\ arrived \in Seq(Byte)
    /\ eof \in BOOLEAN
    /\ failure \in {"none", "tooLarge", "invalid"}
    /\ excess \in BOOLEAN
    /\ foul \in BOOLEAN

Unread == arrived \o transit

\* How far the reader has come in the stream.
ReadSoFar == Begins(Len(decoded) + 1)

\* The bytes that begin at read in the stream agree with the frame of p that begins at begin.
Placed(p, nulls, begin, bytes, read) ==
    \A k \in 1..Len(bytes) :
        read + k \in begin + 1 .. begin + 4 + BodySize(p, nulls) =>
            bytes[k] = Frame(p, nulls)[read + k - begin]

\* What is left of the stream holds the frame of the i-th packet where it belongs, as
\* far as it has not been cut off.
FrameInPlace(i) ==
    \E nulls \in {1, 2} :
        /\ ends[i] = Begins(i) + 4 + BodySize(written[i], nulls)
        /\ Placed(written[i], nulls, Begins(i), Unread, ReadSoFar)
        /\ excess \/ BodySize(written[i], nulls) <= MaxPacket

DecodedInOrder ==
    /\ decoded \in Seq(Packets)
    /\ Len(decoded) <= Len(written)
    /\ \A i \in 1..Len(decoded) : decoded[i] = written[i]

FramesInOrder ==
    /\ \A i, j \in 1..Len(ends) : i < j => ends[i] <= ends[j]
    /\ \A i \in Len(decoded)+1..Len(written) : FrameInPlace(i)
    /\ ReadSoFar + Len(Unread) <= Begins(Len(written) + 1)
    /\ ~eof => ReadSoFar + Len(Unread) = Begins(Len(written) + 1)

\* Until something that is no packet is written, the bytes not yet read are those of the
\* packets not yet returned, and an error has its cause (protocol.go:23-99).
IInv ==
    /\ StreamTypes
    /\ \A p \in refused : Len(p.payload) > MaxPacket - 9
    /\ ~foul => /\ DecodedInOrder
                /\ FramesInOrder
                /\ failure = "invalid" => eof
                /\ failure = "tooLarge" => excess
=============================================================================
