------------------------- MODULE RconProtocolProofs -------------------------
(***************************************************************************)
(* Proofs about RconProtocol for any limit, ids, payloads, number of       *)
(* packets and way in which the stream is cut.                             *)
(***************************************************************************)
EXTENDS RconProtocol, SequenceTheorems, TLAPS

-----------------------------------------------------------------------------
(* Numbers and their bytes (protocol.go:37-44, 63-84). *)

\* One byte of a number, and what is above it.
LEMMA Division ==
  ASSUME NEW n \in Int
  PROVE  /\ n \div 256 \in Int /\ n % 256 \in 0..255
         /\ n = 256 * (n \div 256) + (n % 256)
         /\ (n \div 256) \div 256 = n \div 65536
         /\ (n \div 65536) \div 256 = n \div 16777216
         /\ n \div 65536 \in Int /\ n \div 16777216 \in Int
  BY SMT

\* A number of 32 bits comes back as it was written, its sign in the highest bit.
LEMMA NumbersSurvive ==
  ASSUME NEW n \in Int, -MaxInt32 - 1 <= n, n <= MaxInt32
  PROVE  /\ LE32(n) \in Seq(Byte) /\ Len(LE32(n)) = 4
         /\ Signed(LE32(n)) = n
         /\ n >= 0 => LE32(n)[4] < 128 /\ Number(LE32(n)) = n
  <1> DEFINE a == n \div 256
             b == n \div 65536
             c == n \div 16777216
  <1>1. /\ a \in Int /\ b \in Int /\ c \in Int
        /\ n = 256 * a + (n % 256) /\ a = 256 * b + (a % 256) /\ b = 256 * c + (b % 256)
        /\ n % 256 \in 0..255 /\ a % 256 \in 0..255 /\ b % 256 \in 0..255 /\ c % 256 \in 0..255
    BY Division
  <1>2. n >= 0 => c \in 0..127
    BY <1>1, SMT DEF MaxInt32
  <1>3. n < 0 => c \in -128..-1
    BY <1>1, SMT DEF MaxInt32
  <1>4. c \in 0..127 => c % 256 = c
    OBVIOUS
  <1>5. c \in -128..-1 => c % 256 = c + 256
    OBVIOUS
  <1>6. LE32(n) = <<n % 256, a % 256, b % 256, c % 256>>
    BY SMT DEF LE32
  <1> HIDE DEF a, b, c
  <1>7. LE32(n) \in Seq(Byte) /\ Len(LE32(n)) = 4
    BY <1>1, <1>6 DEF Byte
  <1>8. n >= 0 => LE32(n)[4] < 128 /\ Number(LE32(n)) = n
    BY <1>1, <1>2, <1>4, <1>6, SMT DEF Number
  <1>9. Signed(LE32(n)) = n
    <2> DEFINE d == IF c % 256 < 128 THEN c % 256 ELSE (c % 256) - 256
    <2>1. [LE32(n) EXCEPT ![4] = IF @ < 128 THEN @ ELSE @ - 256] = <<n % 256, a % 256, b % 256, d>>
      BY <1>6
    <2>2. d = c
      BY <1>1, <1>2, <1>3, <1>4, <1>5
    <2> HIDE DEF d
    <2>3. Signed(LE32(n)) = Number(<<n % 256, a % 256, b % 256, d>>)
      <3> DEFINE q == LE32(n)
      <3>1. Signed(q) = Number([q EXCEPT ![4] = IF @ < 128 THEN @ ELSE @ - 256])
        BY Zenon DEF Signed
      <3> QED
        BY <2>1, <3>1, Zenon
    <2>4. Number(<<n % 256, a % 256, b % 256, d>>) = n
      BY <1>1, <2>2, SMT DEF Number
    <2> QED
      BY <2>3, <2>4
  <1> QED
    BY <1>7, <1>8, <1>9

-----------------------------------------------------------------------------
(* Joining sequences of bytes and cutting them. *)

\* s is a part of r, behind the first `at' elements.
LiesAt(s, r, at) == \A i \in 1..Len(s) : r[at + i] = s[i]

LEMMA Joined ==
  ASSUME NEW s \in Seq(Byte), NEW t \in Seq(Byte)
  PROVE  /\ s \o t \in Seq(Byte)
         /\ Len(s \o t) = Len(s) + Len(t)
         /\ LiesAt(s, s \o t, 0) /\ LiesAt(t, s \o t, Len(s))
  <1>1. Len(s) \in Nat /\ Len(t) \in Nat
    BY LenProperties
  <1>2. /\ s \o t \in Seq(Byte) /\ Len(s \o t) = Len(s) + Len(t)
        /\ \A i \in 1..Len(s) + Len(t) : (s \o t)[i] = IF i <= Len(s) THEN s[i] ELSE t[i - Len(s)]
    BY ConcatProperties
  <1>3. ASSUME NEW i \in 1..Len(t) PROVE (s \o t)[Len(s) + i] = t[i]
    <2>1. Len(s) + i \in 1..Len(s) + Len(t) /\ ~(Len(s) + i <= Len(s)) /\ (Len(s) + i) - Len(s) = i
      BY <1>1
    <2> QED
      BY <1>2, <2>1
  <1>4. ASSUME NEW i \in 1..Len(s) PROVE (s \o t)[0 + i] = s[i]
    BY <1>1, <1>2
  <1> QED
    BY <1>2, <1>3, <1>4 DEF LiesAt

\* What is in a piece of a sequence.
LEMMA Piece ==
  ASSUME NEW s \in Seq(Byte), NEW m \in Nat, NEW n \in Nat, m <= n, n <= Len(s)
  PROVE  /\ SubSeq(s, m + 1, n) \in Seq(Byte)
         /\ Len(SubSeq(s, m + 1, n)) = n - m
         /\ \A i \in 1..n - m : SubSeq(s, m + 1, n)[i] = s[m + i]
  <1>1. \A i \in m+1..n : s[i] \in Byte
    BY ElementOfSeq
  <1>2. /\ SubSeq(s, m + 1, n) \in Seq(Byte)
        /\ Len(SubSeq(s, m + 1, n)) = IF m + 1 <= n THEN n - (m + 1) + 1 ELSE 0
        /\ \A i \in 1..n - (m + 1) + 1 : SubSeq(s, m + 1, n)[i] = s[(m + 1) + i - 1]
    BY <1>1, SubSeqProperties
  <1>3. ASSUME NEW i \in 1..n - m PROVE SubSeq(s, m + 1, n)[i] = s[m + i]
    <2>1. i \in 1..n - (m + 1) + 1 /\ (m + 1) + i - 1 = m + i
      OBVIOUS
    <2> QED
      BY <1>2, <2>1
  <1>4. (IF m + 1 <= n THEN n - (m + 1) + 1 ELSE 0) = n - m
    OBVIOUS
  <1> QED
    BY <1>2, <1>3, <1>4

\* A part of a beginning is a part of the whole.
LEMMA Within ==
  ASSUME NEW s \in Seq(Byte), NEW r \in Seq(Byte), NEW f \in Seq(Byte), NEW at \in Nat,
         LiesAt(s, r, at), LiesAt(r, f, 0), at + Len(s) <= Len(r)
  PROVE  LiesAt(s, f, at)
  <1> SUFFICES ASSUME NEW i \in 1..Len(s) PROVE f[at + i] = s[i]
    BY DEF LiesAt
  <1>1. at + i \in 1..Len(r)
    BY LenProperties
  <1>2. f[0 + (at + i)] = r[at + i] /\ r[at + i] = s[i]
    BY <1>1 DEF LiesAt
  <1>3. 0 + (at + i) = at + i
    BY <1>1
  <1> QED
    BY <1>2, <1>3

\* A part of a frame is a part of its body, four bytes earlier.
LEMMA InBody ==
  ASSUME NEW s \in Seq(Byte), NEW body \in Seq(Byte), NEW f \in Seq(Byte), LiesAt(body, f, 4)
  PROVE  /\ LiesAt(s, f, 4) /\ Len(s) <= Len(body) => LiesAt(s, body, 0)
         /\ LiesAt(s, f, 8) /\ 4 + Len(s) <= Len(body) => LiesAt(s, body, 4)
         /\ LiesAt(s, f, 12) /\ 8 + Len(s) <= Len(body) => LiesAt(s, body, 8)
  <1>1. Len(s) \in Nat /\ Len(body) \in Nat
    BY LenProperties
  <1>2. ASSUME LiesAt(s, f, 4), Len(s) <= Len(body) PROVE LiesAt(s, body, 0)
    BY <1>1, <1>2 DEF LiesAt
  <1>3. ASSUME LiesAt(s, f, 8), 4 + Len(s) <= Len(body) PROVE LiesAt(s, body, 4)
    BY <1>1, <1>3 DEF LiesAt
  <1>4. ASSUME LiesAt(s, f, 12), 8 + Len(s) <= Len(body) PROVE LiesAt(s, body, 8)
    BY <1>1, <1>4 DEF LiesAt
  <1> QED
    BY <1>2, <1>3, <1>4

\* A part is the piece cut out where it lies.
LEMMA CutOut ==
  ASSUME NEW s \in Seq(Byte), NEW r \in Seq(Byte), NEW at \in Nat,
         LiesAt(s, r, at), at + Len(s) <= Len(r)
  PROVE  SubSeq(r, at + 1, at + Len(s)) = s
  <1> DEFINE end == at + Len(s)
  <1>1. /\ Len(s) \in Nat /\ end \in Nat /\ at <= end /\ end - at = Len(s) /\ end <= Len(r)
    BY LenProperties
  <1> HIDE DEF end
  <1>2. /\ SubSeq(r, at + 1, end) \in Seq(Byte) /\ Len(SubSeq(r, at + 1, end)) = end - at
        /\ \A i \in 1..end - at : SubSeq(r, at + 1, end)[i] = r[at + i]
    BY <1>1, Piece
  <1>3. \A i \in 1..Len(s) : SubSeq(r, at + 1, end)[i] = s[i]
    BY <1>1, <1>2 DEF LiesAt
  <1>4. SubSeq(r, at + 1, end) = s
    BY <1>1, <1>2, <1>3, SeqEqual
  <1> QED
    BY <1>4 DEF end

\* Three fields of four bytes, the payload and what ends it, where they are in a frame.
Layout(a, b, c, d, e, f) ==
    /\ f \in Seq(Byte) /\ Len(f) = 12 + Len(d) + Len(e)
    /\ LiesAt(a, f, 0) /\ LiesAt(b, f, 4) /\ LiesAt(c, f, 8)
    /\ LiesAt(d, f, 12) /\ LiesAt(e, f, 12 + Len(d))

LEMMA FiveParts ==
  ASSUME NEW a \in Seq(Byte), NEW b \in Seq(Byte), NEW c \in Seq(Byte),
         NEW d \in Seq(Byte), NEW e \in Seq(Byte),
         Len(a) = 4, Len(b) = 4, Len(c) = 4,
         NEW f, f = a \o b \o c \o d \o e
  PROVE  Layout(a, b, c, d, e, f)
  <1>1. /\ Len(d) \in Nat /\ Len(e) \in Nat
        /\ Len(a) + Len(b) = 8 /\ 8 + Len(c) = 12
    BY LenProperties
  <1>2. PICK h \in Seq(Byte) : /\ Len(h) = 8 /\ LiesAt(a, h, 0) /\ LiesAt(b, h, 4)
                               /\ f = h \o c \o d \o e
    <2>1. /\ a \o b \in Seq(Byte) /\ Len(a \o b) = Len(a) + Len(b)
          /\ LiesAt(a, a \o b, 0) /\ LiesAt(b, a \o b, Len(a))
      BY Joined, Zenon
    <2> QED
      BY <1>1, <2>1, Zenon
  <1>3. PICK t \in Seq(Byte) : /\ Len(t) = 12 /\ LiesAt(h, t, 0) /\ LiesAt(c, t, 8)
                               /\ f = t \o d \o e
    <2>1. /\ h \o c \in Seq(Byte) /\ Len(h \o c) = Len(h) + Len(c)
          /\ LiesAt(h, h \o c, 0) /\ LiesAt(c, h \o c, Len(h))
      BY Joined, Zenon
    <2> QED
      BY <1>1, <1>2, <2>1, Zenon
  <1>4. PICK u \in Seq(Byte) : /\ Len(u) = 12 + Len(d) /\ LiesAt(t, u, 0) /\ LiesAt(d, u, 12)
                               /\ f = u \o e
    <2>1. /\ t \o d \in Seq(Byte) /\ Len(t \o d) = Len(t) + Len(d)
          /\ LiesAt(t, t \o d, 0) /\ LiesAt(d, t \o d, Len(t))
      BY Joined, Zenon
    <2> QED
      BY <1>1, <1>3, <2>1, Zenon
  <1>5. /\ f \in Seq(Byte) /\ Len(f) = 12 + Len(d) + Len(e)
        /\ LiesAt(u, f, 0) /\ LiesAt(e, f, 12 + Len(d))
    BY <1>4, Joined, Zenon
  <1>6. 0 \in Nat /\ 4 \in Nat /\ 8 \in Nat /\ 12 \in Nat
    OBVIOUS
  <1>7. LiesAt(t, f, 0) /\ LiesAt(d, f, 12)
    <2>1. 0 + Len(t) <= Len(u) /\ 12 + Len(d) <= Len(u)
      <3>1. Len(t) = 12 /\ Len(u) = 12 + Len(d)
        BY <1>3, <1>4, Zenon
      <3> QED
        BY <1>1, <3>1
    <2>2. LiesAt(t, f, 0)
      BY <1>3, <1>4, <1>5, <1>6, <2>1, Within, Zenon
    <2> QED
      BY <1>4, <1>5, <1>6, <2>1, <2>2, Within, Zenon
  <1>8. LiesAt(h, f, 0) /\ LiesAt(c, f, 8)
    <2>1. 0 + Len(h) <= Len(t) /\ 8 + Len(c) <= Len(t)
      <3>1. Len(t) = 12 /\ Len(h) = 8
        BY <1>2, <1>3, Zenon
      <3> QED
        BY <3>1
    <2>2. LiesAt(h, f, 0)
      BY <1>2, <1>3, <1>5, <1>6, <1>7, <2>1, Within, Zenon
    <2> QED
      BY <1>3, <1>5, <1>6, <1>7, <2>1, <2>2, Within, Zenon
  <1>9. LiesAt(a, f, 0) /\ LiesAt(b, f, 4)
    <2>1. 0 + Len(a) <= Len(h) /\ 4 + Len(b) <= Len(h)
      <3>1. Len(h) = 8
        BY <1>2, Zenon
      <3> QED
        BY <3>1
    <2>2. LiesAt(a, f, 0)
      BY <1>2, <1>5, <1>6, <1>8, <2>1, Within, Zenon
    <2> QED
      BY <1>2, <1>5, <1>6, <1>8, <2>1, <2>2, Within, Zenon
  <1> QED
    BY <1>5, <1>7, <1>8, <1>9, Zenon DEF Layout

-----------------------------------------------------------------------------
(* A frame (protocol.go:24-53). *)

LEMMA PacketsTyped ==
  ASSUME NEW p \in Packets
  PROVE  /\ p.id \in Int /\ -MaxInt32 - 1 <= p.id /\ p.id <= MaxInt32 /\ p.type = 0
         /\ p.payload \in Seq(1..255) /\ p.payload \in Seq(Byte)
         /\ Len(p.payload) \in Nat /\ Len(p.payload) + 10 <= MaxInt32
         /\ p.type \in Int /\ -MaxInt32 - 1 <= p.type /\ p.type <= MaxInt32
         /\ p = [id |-> p.id, type |-> p.type, payload |-> p.payload]
  <1>1. p.id \in Ids /\ p.type = 0 /\ p.payload \in Payloads
    BY DEF Packets
  <1>2. p = [id |-> p.id, type |-> p.type, payload |-> p.payload]
    BY DEF Packets
  <1>3. p.payload \in Seq(1..255) /\ Len(p.payload) \in Nat /\ Len(p.payload) + 10 <= MaxInt32
    BY <1>1, PacketsAssumption
  <1>4. p.payload \in Seq(Byte)
    BY <1>3, SeqMonotonic DEF Byte
  <1>5. -MaxInt32 - 1 <= 0 /\ 0 <= MaxInt32
    BY SMT DEF MaxInt32
  <1> QED
    BY <1>1, <1>2, <1>3, <1>4, <1>5, PacketsAssumption

\* Where the parts of a frame are.
LEMMA FrameLayout ==
  ASSUME NEW p \in Packets, NEW nulls \in {1, 2}
  PROVE  /\ BodySize(p, nulls) \in 9..MaxInt32
         /\ BodySize(p, nulls) = 8 + Len(p.payload) + nulls
         /\ Frame(p, nulls) \in Seq(Byte)
         /\ Len(Frame(p, nulls)) = 4 + BodySize(p, nulls)
         /\ LiesAt(LE32(BodySize(p, nulls)), Frame(p, nulls), 0)
         /\ LiesAt(LE32(p.id), Frame(p, nulls), 4)
         /\ LiesAt(LE32(p.type), Frame(p, nulls), 8)
         /\ LiesAt(p.payload, Frame(p, nulls), 12)
         /\ \A j \in 1..nulls : Frame(p, nulls)[12 + Len(p.payload) + j] = 0
  <1>1. /\ Len(p.payload) \in Nat /\ Len(p.payload) + 10 <= MaxInt32 /\ p.payload \in Seq(Byte)
        /\ p.id \in Int /\ -MaxInt32 - 1 <= p.id /\ p.id <= MaxInt32
        /\ p.type \in Int /\ -MaxInt32 - 1 <= p.type /\ p.type <= MaxInt32
    BY PacketsTyped
  <1>2. MaxInt32 \in Nat
    BY SMT DEF MaxInt32
  <1>3. BodySize(p, nulls) = 8 + Len(p.payload) + nulls
    BY <1>1 DEF BodySize
  <1>4. /\ BodySize(p, nulls) \in 9..MaxInt32 /\ BodySize(p, nulls) \in Int
        /\ -MaxInt32 - 1 <= BodySize(p, nulls) /\ BodySize(p, nulls) <= MaxInt32
    BY <1>1, <1>2, <1>3
  <1>5. LE32(BodySize(p, nulls)) \in Seq(Byte) /\ Len(LE32(BodySize(p, nulls))) = 4
    BY <1>4, NumbersSurvive
  <1>6. LE32(p.id) \in Seq(Byte) /\ Len(LE32(p.id)) = 4
    BY <1>1, NumbersSurvive
  <1>7. LE32(p.type) \in Seq(Byte) /\ Len(LE32(p.type)) = 4
    BY <1>1, NumbersSurvive
  <1>8. /\ Nulls(nulls) \in Seq(Byte) /\ Len(Nulls(nulls)) = nulls
        /\ \A j \in 1..nulls : Nulls(nulls)[j] = 0
    BY DEF Nulls, Byte
  <1>9. Frame(p, nulls) =
          LE32(BodySize(p, nulls)) \o LE32(p.id) \o LE32(p.type) \o p.payload \o Nulls(nulls)
    BY DEF Frame
  <1>10. /\ Frame(p, nulls) \in Seq(Byte)
         /\ Len(Frame(p, nulls)) = 12 + Len(p.payload) + Len(Nulls(nulls))
         /\ LiesAt(LE32(BodySize(p, nulls)), Frame(p, nulls), 0)
         /\ LiesAt(LE32(p.id), Frame(p, nulls), 4)
         /\ LiesAt(LE32(p.type), Frame(p, nulls), 8)
         /\ LiesAt(p.payload, Frame(p, nulls), 12)
         /\ LiesAt(Nulls(nulls), Frame(p, nulls), 12 + Len(p.payload))
    <2> DEFINE a == LE32(BodySize(p, nulls))
               b == LE32(p.id)
               c == LE32(p.type)
               d == p.payload
               e == Nulls(nulls)
               f == Frame(p, nulls)
    <2>1. /\ a \in Seq(Byte) /\ b \in Seq(Byte) /\ c \in Seq(Byte) /\ d \in Seq(Byte)
          /\ e \in Seq(Byte) /\ Len(a) = 4 /\ Len(b) = 4 /\ Len(c) = 4
          /\ f = a \o b \o c \o d \o e
      BY <1>1, <1>5, <1>6, <1>7, <1>8, <1>9, Zenon
    <2> HIDE DEF a, b, c, d, e, f
    <2>2. Layout(a, b, c, d, e, f)
      BY <2>1, FiveParts, Zenon
    <2> QED
      BY <2>2, Zenon DEF a, b, c, d, e, f, Layout
  <1>11. \A j \in 1..nulls : Frame(p, nulls)[12 + Len(p.payload) + j] = 0
    BY <1>8, <1>10 DEF LiesAt
  <1>12. Len(Frame(p, nulls)) = 4 + BodySize(p, nulls)
    BY <1>1, <1>3, <1>8, <1>10
  <1> QED
    BY <1>3, <1>4, <1>10, <1>11, <1>12

\* Trimming null bytes (protocol.go:90).
LEMMA Trimmed ==
  ASSUME NEW text \in Seq(Byte), NEW d \in Seq(Byte), \A i \in 1..Len(d) : d[i] # 0,
         NEW z \in Nat, Len(text) = Len(d) + z, LiesAt(d, text, 0),
         \A i \in 1..z : text[Len(d) + i] = 0
  PROVE  LET n == CHOOSE k \in 0..Len(text) :
                    /\ \A i \in k+1..Len(text) : text[i] = 0
                    /\ k > 0 => text[k] # 0
         IN  SubSeq(text, 1, n) = d
  <1> DEFINE Ends(k) == /\ \A i \in k+1..Len(text) : text[i] = 0
                        /\ k > 0 => text[k] # 0
  <1>1. Len(d) \in Nat /\ Len(d) \in 0..Len(text)
    BY LenProperties
  <1>2. ASSUME NEW i \in Len(d)+1..Len(text) PROVE text[i] = 0
    <2>1. i - Len(d) \in 1..z /\ Len(d) + (i - Len(d)) = i
      BY <1>1
    <2> QED
      BY <2>1
  <1>3. ASSUME NEW i \in 1..Len(d) PROVE text[i] # 0
    BY <1>1 DEF LiesAt
  <1>4. Ends(Len(d))
    BY <1>1, <1>2, <1>3
  <1>5. ASSUME NEW k \in 0..Len(text), Ends(k) PROVE k = Len(d)
    <2>1. CASE k < Len(d)
      BY <1>1, <1>3, <1>5, <2>1
    <2>2. CASE k > Len(d)
      BY <1>1, <1>2, <1>5, <2>2
    <2> QED
      BY <1>1, <2>1, <2>2
  <1> HIDE DEF Ends
  <1>6. (CHOOSE k \in 0..Len(text) : Ends(k)) = Len(d)
    BY <1>1, <1>4, <1>5
  <1>7. SubSeq(text, 1, Len(d)) = d
    <2>1. 0 \in Nat /\ 0 + Len(d) = Len(d) /\ 0 + Len(d) <= Len(text) /\ 0 + 1 = 1
      BY <1>1
    <2>2. SubSeq(text, 0 + 1, 0 + Len(d)) = d
      BY <1>1, <2>1, CutOut, Zenon
    <2> QED
      BY <2>1, <2>2
  <1> QED
    BY <1>6, <1>7, Zenon DEF Ends

\* Where the parts of a body are.
LEMMA BodyLayout ==
  ASSUME NEW p \in Packets, NEW nulls \in {1, 2}, NEW body \in Seq(Byte),
         Len(body) = BodySize(p, nulls), LiesAt(body, Frame(p, nulls), 4)
  PROVE  /\ Len(body) = 8 + Len(p.payload) + nulls
         /\ LiesAt(LE32(p.id), body, 0) /\ LiesAt(LE32(p.type), body, 4)
         /\ LiesAt(p.payload, body, 8)
         /\ \A j \in 1..nulls : body[8 + Len(p.payload) + j] = 0
  <1>1. /\ Len(p.payload) \in Nat /\ p.payload \in Seq(Byte)
        /\ p.id \in Int /\ -MaxInt32 - 1 <= p.id /\ p.id <= MaxInt32
        /\ p.type \in Int /\ -MaxInt32 - 1 <= p.type /\ p.type <= MaxInt32
    BY PacketsTyped
  <1>2. Len(body) = 8 + Len(p.payload) + nulls
    BY FrameLayout, Zenon
  <1>3. /\ LE32(p.id) \in Seq(Byte) /\ Len(LE32(p.id)) = 4
        /\ LE32(p.type) \in Seq(Byte) /\ Len(LE32(p.type)) = 4
    BY <1>1, NumbersSurvive
  <1>4. /\ Frame(p, nulls) \in Seq(Byte)
        /\ LiesAt(LE32(p.id), Frame(p, nulls), 4)
        /\ LiesAt(LE32(p.type), Frame(p, nulls), 8)
        /\ LiesAt(p.payload, Frame(p, nulls), 12)
    BY FrameLayout, Zenon
  <1>5. /\ Len(LE32(p.id)) <= Len(body) /\ 4 + Len(LE32(p.type)) <= Len(body)
        /\ 8 + Len(p.payload) <= Len(body)
    BY <1>1, <1>2, <1>3
  <1>6. LiesAt(LE32(p.id), body, 0)
    BY <1>3, <1>4, <1>5, InBody, Zenon
  <1>7. LiesAt(LE32(p.type), body, 4)
    BY <1>3, <1>4, <1>5, InBody, Zenon
  <1>8. LiesAt(p.payload, body, 8)
    BY <1>1, <1>4, <1>5, InBody, Zenon
  <1>9. ASSUME NEW j \in 1..nulls PROVE body[8 + Len(p.payload) + j] = 0
    <2> DEFINE i == 8 + Len(p.payload) + j
    <2>1. i \in 1..Len(body) /\ 4 + i = 12 + Len(p.payload) + j
      BY <1>1, <1>2
    <2>2. Frame(p, nulls)[12 + Len(p.payload) + j] = 0
      BY FrameLayout, Zenon
    <2> HIDE DEF i
    <2>3. Frame(p, nulls)[4 + i] = body[i]
      BY <2>1, Zenon DEF LiesAt
    <2>4. body[i] = 0
      BY <2>1, <2>2, <2>3, Zenon
    <2> QED
      BY <2>4 DEF i
  <1> QED
    BY <1>2, <1>6, <1>7, <1>8, <1>9

\* The trimmed text is the payload: the last byte of the body is no part of it, and a
\* second null byte goes with the trimming (protocol.go:86-92).
LEMMA PayloadSurvives ==
  ASSUME NEW p \in Packets, NEW nulls \in {1, 2}, NEW body \in Seq(Byte),
         Len(body) = BodySize(p, nulls), LiesAt(body, Frame(p, nulls), 4)
  PROVE  Payload(body) = p.payload
  <1> DEFINE n == Len(p.payload)
             text == SubSeq(body, 9, Len(body) - 1)
  <1>1. /\ n \in Nat /\ p.payload \in Seq(Byte) /\ \A i \in 1..n : p.payload[i] # 0
    <2>1. p.payload \in Seq(1..255) /\ p.payload \in Seq(Byte) /\ n \in Nat
      BY PacketsTyped
    <2>2. \A i \in 1..n : p.payload[i] \in 1..255
      BY <2>1, ElementOfSeq
    <2>3. \A x \in 1..255 : x # 0
      OBVIOUS
    <2> QED
      BY <2>1, <2>2, <2>3, Zenon
  <1>2. /\ Len(body) = 8 + n + nulls /\ LiesAt(p.payload, body, 8)
        /\ \A j \in 1..nulls : body[8 + n + j] = 0
    BY BodyLayout
  <1>3. CASE Len(body) > 9
    <2>1. /\ text \in Seq(Byte) /\ Len(text) = n + (nulls - 1)
          /\ \A i \in 1..n + (nulls - 1) : text[i] = body[8 + i]
      <3>1. 8 \in Nat /\ Len(body) - 1 \in Nat /\ 8 <= Len(body) - 1 /\ Len(body) - 1 <= Len(body)
        BY <1>1, <1>2
      <3>2. /\ SubSeq(body, 8 + 1, Len(body) - 1) \in Seq(Byte)
            /\ Len(SubSeq(body, 8 + 1, Len(body) - 1)) = (Len(body) - 1) - 8
            /\ \A i \in 1..(Len(body) - 1) - 8 :
                 SubSeq(body, 8 + 1, Len(body) - 1)[i] = body[8 + i]
        BY <3>1, Piece, Zenon
      <3>3. 8 + 1 = 9 /\ (Len(body) - 1) - 8 = n + (nulls - 1)
        BY <1>1, <1>2
      <3> QED
        BY <3>2, <3>3
    <2> HIDE DEF text
    <2>2. LiesAt(p.payload, text, 0)
      BY <1>1, <1>2, <2>1 DEF LiesAt
    <2>3. ASSUME NEW i \in 1..nulls - 1 PROVE text[n + i] = 0
      <3>1. n + i \in 1..n + (nulls - 1) /\ 8 + (n + i) = 8 + n + i /\ i \in 1..nulls
        BY <1>1
      <3> QED
        BY <1>2, <2>1, <3>1
    <2>4. nulls - 1 \in Nat
      OBVIOUS
    <2>5. LET k == CHOOSE k \in 0..Len(text) :
                     /\ \A i \in k+1..Len(text) : text[i] = 0
                     /\ k > 0 => text[k] # 0
          IN  SubSeq(text, 1, k) = p.payload
      BY <1>1, <2>1, <2>2, <2>3, <2>4, Trimmed, Zenon
    <2> QED
      BY <1>3, <2>5, Zenon DEF Payload, text
  <1>4. CASE ~(Len(body) > 9)
    <2>1. n = 0
      BY <1>1, <1>2, <1>4
    <2>2. p.payload = <<>>
      BY <1>1, <2>1, EmptySeq
    <2> QED
      BY <1>4, <2>2 DEF Payload
  <1> QED
    BY <1>3, <1>4

\* A body is read as the packet that was written (protocol.go:24-99).
LEMMA PacketSurvives ==
  ASSUME NEW p \in Packets, NEW nulls \in {1, 2}, NEW body \in Seq(Byte),
         Len(body) = BodySize(p, nulls), LiesAt(body, Frame(p, nulls), 4)
  PROVE  Parse(body) = p
  <1>1. /\ p.id \in Int /\ -MaxInt32 - 1 <= p.id /\ p.id <= MaxInt32
        /\ p.type \in Int /\ -MaxInt32 - 1 <= p.type /\ p.type <= MaxInt32
    BY PacketsTyped
  <1>2. /\ LE32(p.id) \in Seq(Byte) /\ Len(LE32(p.id)) = 4 /\ Signed(LE32(p.id)) = p.id
        /\ LE32(p.type) \in Seq(Byte) /\ Len(LE32(p.type)) = 4 /\ Signed(LE32(p.type)) = p.type
    BY <1>1, NumbersSurvive
  <1>3. /\ Len(body) = 8 + Len(p.payload) + nulls /\ Len(p.payload) \in Nat
        /\ LiesAt(LE32(p.id), body, 0) /\ LiesAt(LE32(p.type), body, 4)
    BY BodyLayout, PacketsTyped, Zenon
  <1>4. /\ 0 \in Nat /\ 4 \in Nat /\ 0 + 1 = 1 /\ 4 + 1 = 5
        /\ 0 + Len(LE32(p.id)) = 4 /\ 4 + Len(LE32(p.type)) = 8
        /\ 0 + Len(LE32(p.id)) <= Len(body) /\ 4 + Len(LE32(p.type)) <= Len(body)
    BY <1>2, <1>3
  <1>5. SubSeq(body, 0 + 1, 0 + Len(LE32(p.id))) = LE32(p.id)
    BY <1>2, <1>3, <1>4, CutOut, Zenon
  <1>6. SubSeq(body, 4 + 1, 4 + Len(LE32(p.type))) = LE32(p.type)
    BY <1>2, <1>3, <1>4, CutOut, Zenon
  <1>7. Payload(body) = p.payload
    BY PayloadSurvives, Zenon
  <1>8. Parse(body) = [id |-> p.id, type |-> p.type, payload |-> p.payload]
    BY <1>2, <1>4, <1>5, <1>6, <1>7, Zenon DEF Parse
  <1>9. p = [id |-> p.id, type |-> p.type, payload |-> p.payload]
    BY PacketsTyped, Zenon
  <1> QED
    BY <1>8, <1>9, Zenon

-----------------------------------------------------------------------------
(* What the reader sees of a frame (protocol.go:59-72). *)

\* The length in front of a frame is read as it was written.
LEMMA HeaderSurvives ==
  ASSUME NEW p \in Packets, NEW nulls \in {1, 2}, NEW bytes \in Seq(Byte), Len(bytes) >= 4,
         \A j \in 1..4 : bytes[j] = Frame(p, nulls)[j]
  PROVE  /\ Number(bytes) = BodySize(p, nulls)
         /\ TooLarge(bytes) <=> BodySize(p, nulls) > MaxPacket
  <1> DEFINE n == BodySize(p, nulls)
             h == LE32(n)
  <1>1. n \in Int /\ n >= 0 /\ -MaxInt32 - 1 <= n /\ n <= MaxInt32
    <2>1. n \in 9..MaxInt32
      BY FrameLayout, Zenon
    <2> HIDE DEF n
    <2>2. MaxInt32 \in Nat
      BY SMT DEF MaxInt32
    <2> QED
      BY <2>1, <2>2
  <1>2. h \in Seq(Byte) /\ Len(h) = 4 /\ h[4] < 128 /\ Number(h) = n
    BY <1>1, NumbersSurvive
  <1>3. LiesAt(h, Frame(p, nulls), 0)
    BY FrameLayout, Zenon
  <1> HIDE DEF n, h
  <1>4. \A j \in 1..4 : h[j] = Frame(p, nulls)[j]
    BY <1>2, <1>3 DEF LiesAt
  <1>5. bytes[1] = h[1] /\ bytes[2] = h[2] /\ bytes[3] = h[3] /\ bytes[4] = h[4]
    BY <1>4
  <1>6. Number(bytes) = Number(h)
    BY <1>5, SMT DEF Number
  <1>7. Number(bytes) = n
    BY <1>2, <1>6, Zenon
  <1>8. TooLarge(bytes) <=> n > MaxPacket
    <2>1. TooLarge(bytes) <=> ~(bytes[4] < 128 /\ Number(bytes) <= MaxPacket)
      BY Zenon DEF TooLarge
    <2>2. TooLarge(bytes) <=> ~(h[4] < 128 /\ n <= MaxPacket)
      BY <1>5, <1>7, <2>1, Zenon
    <2>3. MaxPacket \in Nat
      BY PacketsAssumption
    <2> QED
      BY <1>1, <1>2, <2>2, <2>3
  <1> QED
    BY <1>7, <1>8, Zenon DEF n

\* A whole frame at the head of the bytes is cut out and read as the packet it is.
LEMMA HeadIsRead ==
  ASSUME NEW p \in Packets, NEW nulls \in {1, 2}, NEW bytes \in Seq(Byte), NEW end \in Nat,
         end = 4 + BodySize(p, nulls), Len(bytes) >= end,
         \A j \in 1..end : bytes[j] = Frame(p, nulls)[j]
  PROVE  /\ ~(Len(SubSeq(bytes, 5, end)) < 8)
         /\ Parse(SubSeq(bytes, 5, end)) = p
  <1> DEFINE body == SubSeq(bytes, 5, end)
  <1>1. BodySize(p, nulls) \in Int /\ BodySize(p, nulls) >= 9
    <2>1. BodySize(p, nulls) \in 9..MaxInt32
      BY FrameLayout, Zenon
    <2> QED
      BY <2>1
  <1>2. /\ 4 \in Nat /\ 4 <= end /\ end <= Len(bytes) /\ 4 + 1 = 5
        /\ end - 4 = BodySize(p, nulls)
    BY <1>1
  <1>3. /\ SubSeq(bytes, 4 + 1, end) \in Seq(Byte) /\ Len(SubSeq(bytes, 4 + 1, end)) = end - 4
        /\ \A i \in 1..end - 4 : SubSeq(bytes, 4 + 1, end)[i] = bytes[4 + i]
    BY <1>2, Piece, Zenon
  <1>4. /\ body \in Seq(Byte) /\ Len(body) = BodySize(p, nulls)
        /\ \A i \in 1..end - 4 : body[i] = bytes[4 + i]
    BY <1>2, <1>3
  <1> HIDE DEF body
  <1>5. LiesAt(body, Frame(p, nulls), 4)
    <2> SUFFICES ASSUME NEW i \in 1..Len(body) PROVE Frame(p, nulls)[4 + i] = body[i]
      BY DEF LiesAt
    <2>1. i \in 1..end - 4 /\ 4 + i \in 1..end
      BY <1>1, <1>2, <1>4
    <2> QED
      BY <1>4, <2>1
  <1>6. Parse(body) = p
    BY <1>4, <1>5, PacketSurvives, Zenon
  <1> QED
    BY <1>1, <1>4, <1>6 DEF body

-----------------------------------------------------------------------------
(* Frames in the stream. *)

\* What is behind the part that was read stays where it is, whatever follows.
LEMMA RestWithMore ==
  ASSUME NEW bytes \in Seq(Byte), NEW rest \in Seq(Byte), NEW more \in Seq(Byte), NEW end \in Nat,
         Len(bytes) = end + Len(rest), LiesAt(rest, bytes, end)
  PROVE  /\ rest \o more \in Seq(Byte)
         /\ Len(bytes \o more) = end + Len(rest \o more)
         /\ LiesAt(rest \o more, bytes \o more, end)
  <1>1. Len(bytes) \in Nat /\ Len(rest) \in Nat /\ Len(more) \in Nat
    BY LenProperties
  <1>2. PICK r \in Seq(Byte) : /\ r = rest \o more /\ Len(r) = Len(rest) + Len(more)
                               /\ LiesAt(rest, r, 0) /\ LiesAt(more, r, Len(rest))
    BY Joined, Zenon
  <1>3. PICK b \in Seq(Byte) : /\ b = bytes \o more /\ Len(b) = Len(bytes) + Len(more)
                               /\ LiesAt(bytes, b, 0) /\ LiesAt(more, b, Len(bytes))
    BY Joined, Zenon
  <1>4. Len(b) = end + Len(r)
    <2>1. Len(r) = Len(rest) + Len(more) /\ Len(b) = Len(bytes) + Len(more)
      BY <1>2, <1>3, Zenon
    <2> QED
      BY <1>1, <2>1
  <1>5. ASSUME NEW i \in 1..Len(r) PROVE b[end + i] = r[i]
    <2>1. i \in 1..Len(rest) + Len(more)
      BY <1>2, Zenon
    <2>2. CASE i <= Len(rest)
      <3>1. i \in 1..Len(rest) /\ end + i \in 1..Len(bytes) /\ 0 + i = i /\ 0 + (end + i) = end + i
        BY <1>1, <2>1, <2>2
      <3>2. r[0 + i] = rest[i] /\ bytes[end + i] = rest[i]
        BY <1>2, <3>1, Zenon DEF LiesAt
      <3>3. b[0 + (end + i)] = bytes[end + i]
        BY <1>3, <3>1, Zenon DEF LiesAt
      <3> QED
        BY <3>1, <3>2, <3>3, Zenon
    <2>3. CASE ~(i <= Len(rest))
      <3> DEFINE j == i - Len(rest)
      <3>1. j \in 1..Len(more) /\ Len(rest) + j = i /\ Len(bytes) + j = end + i
        BY <1>1, <2>1, <2>3
      <3> HIDE DEF j
      <3>2. r[Len(rest) + j] = more[j]
        BY <1>2, <3>1, Zenon DEF LiesAt
      <3>3. b[Len(bytes) + j] = more[j]
        BY <1>3, <3>1, Zenon DEF LiesAt
      <3> QED
        BY <3>1, <3>2, <3>3, Zenon
    <2> QED
      BY <2>2, <2>3
  <1>6. LiesAt(r, b, end)
    BY <1>5, Zenon DEF LiesAt
  <1> QED
    BY <1>2, <1>3, <1>4, <1>6, Zenon

\* A frame stays in place when more is written behind it.
LEMMA PlacedBehind ==
  ASSUME NEW p \in Packets, NEW nulls \in {1, 2}, NEW begin \in Nat, NEW read \in Nat,
         NEW bytes \in Seq(Byte), NEW more \in Seq(Byte),
         Placed(p, nulls, begin, bytes, read),
         begin + 4 + BodySize(p, nulls) <= read + Len(bytes)
  PROVE  Placed(p, nulls, begin, bytes \o more, read)
  <1>1. Len(bytes) \in Nat /\ Len(more) \in Nat
    BY LenProperties
  <1>2. BodySize(p, nulls) \in Int
    BY FrameLayout
  <1>3. Len(bytes \o more) = Len(bytes) + Len(more) /\ LiesAt(bytes, bytes \o more, 0)
    BY Joined, Zenon
  <1> SUFFICES ASSUME NEW k \in 1..Len(bytes \o more),
                      read + k \in begin + 1 .. begin + 4 + BodySize(p, nulls)
               PROVE  (bytes \o more)[k] = Frame(p, nulls)[read + k - begin]
    BY DEF Placed
  <1>4. k \in 1..Len(bytes)
    BY <1>1, <1>2, <1>3
  <1>5. bytes[k] = Frame(p, nulls)[read + k - begin]
    BY <1>4, Zenon DEF Placed
  <1>6. (bytes \o more)[0 + k] = bytes[k] /\ 0 + k = k
    BY <1>3, <1>4 DEF LiesAt
  <1> QED
    BY <1>5, <1>6

\* The frame that is written last is in place.
LEMMA PlacedLast ==
  ASSUME NEW p \in Packets, NEW nulls \in {1, 2}, NEW begin \in Nat, NEW read \in Nat,
         NEW bytes \in Seq(Byte), read + Len(bytes) = begin
  PROVE  Placed(p, nulls, begin, bytes \o Frame(p, nulls), read)
  <1> DEFINE frame == Frame(p, nulls)
  <1>1. frame \in Seq(Byte) /\ Len(frame) = 4 + BodySize(p, nulls) /\ BodySize(p, nulls) \in Int
    BY FrameLayout
  <1> HIDE DEF frame
  <1>2. Len(bytes) \in Nat /\ Len(frame) \in Nat
    BY <1>1, LenProperties
  <1>3. Len(bytes \o frame) = Len(bytes) + Len(frame) /\ LiesAt(frame, bytes \o frame, Len(bytes))
    BY <1>1, Joined, Zenon
  <1>4. ASSUME NEW k \in 1..Len(bytes \o frame),
               read + k \in begin + 1 .. begin + 4 + BodySize(p, nulls)
        PROVE  (bytes \o frame)[k] = frame[read + k - begin]
    <2> DEFINE j == read + k - begin
    <2>1. k \in 1..Len(bytes) + Len(frame)
      BY <1>3, <1>4, Zenon
    <2>2. j \in 1..Len(frame) /\ Len(bytes) + j = k
      <3>1. PICK m \in Nat, n \in Nat, size \in Int :
              m = Len(bytes) /\ n = Len(frame) /\ size = BodySize(p, nulls)
        BY <1>1, <1>2, Zenon
      <3>2. /\ read + m = begin /\ n = 4 + size /\ k \in 1 .. m + n
            /\ read + k \in begin + 1 .. begin + 4 + size
        BY <1>1, <1>4, <2>1, <3>1, Zenon
      <3>3. read + k - begin \in 1..n /\ m + (read + k - begin) = k
        BY <3>2
      <3> QED
        BY <3>1, <3>3, Zenon
    <2> HIDE DEF j
    <2>3. (bytes \o frame)[Len(bytes) + j] = frame[j]
      BY <1>3, <2>2, Zenon DEF LiesAt
    <2>4. (bytes \o frame)[k] = frame[j]
      BY <2>2, <2>3, Zenon
    <2> QED
      BY <2>4 DEF j
  <1> QED
    BY <1>4, Zenon DEF Placed, frame

\* A frame stays in place, as far as it is there, when the end is cut off.
LEMMA PlacedInFront ==
  ASSUME NEW p \in Packets, NEW nulls \in {1, 2}, NEW begin \in Nat, NEW read \in Nat,
         NEW bytes \in Seq(Byte), NEW more \in Seq(Byte),
         Placed(p, nulls, begin, bytes \o more, read)
  PROVE  Placed(p, nulls, begin, bytes, read)
  <1>1. Len(bytes) \in Nat /\ Len(more) \in Nat
    BY LenProperties
  <1>2. Len(bytes \o more) = Len(bytes) + Len(more) /\ LiesAt(bytes, bytes \o more, 0)
    BY Joined, Zenon
  <1> SUFFICES ASSUME NEW k \in 1..Len(bytes),
                      read + k \in begin + 1 .. begin + 4 + BodySize(p, nulls)
               PROVE  bytes[k] = Frame(p, nulls)[read + k - begin]
    BY DEF Placed
  <1>3. k \in 1..Len(bytes \o more) /\ 0 + k = k
    BY <1>1, <1>2
  <1>4. (bytes \o more)[k] = Frame(p, nulls)[read + k - begin]
    BY <1>3, Zenon DEF Placed
  <1>5. (bytes \o more)[0 + k] = bytes[k]
    BY <1>2, Zenon DEF LiesAt
  <1> QED
    BY <1>3, <1>4, <1>5, Zenon

\* A frame stays in place when what is in front of it is read.
LEMMA PlacedAhead ==
  ASSUME NEW p \in Packets, NEW nulls \in {1, 2}, NEW begin \in Nat, NEW read \in Nat,
         NEW bytes \in Seq(Byte), NEW rest \in Seq(Byte), NEW end \in Nat,
         Len(bytes) = end + Len(rest), LiesAt(rest, bytes, end),
         Placed(p, nulls, begin, bytes, read)
  PROVE  Placed(p, nulls, begin, rest, read + end)
  <1>1. Len(bytes) \in Nat /\ Len(rest) \in Nat
    BY LenProperties
  <1> SUFFICES ASSUME NEW k \in 1..Len(rest),
                      (read + end) + k \in begin + 1 .. begin + 4 + BodySize(p, nulls)
               PROVE  rest[k] = Frame(p, nulls)[(read + end) + k - begin]
    BY DEF Placed
  <1> DEFINE i == end + k
  <1>2. i \in 1..Len(bytes) /\ (read + end) + k = read + i
    BY <1>1
  <1>3. bytes[i] = rest[k]
    BY Zenon DEF LiesAt
  <1> HIDE DEF i
  <1>4. bytes[i] = Frame(p, nulls)[read + i - begin]
    BY <1>2, Zenon DEF Placed
  <1>5. read + i - begin = (read + end) + k - begin
    BY <1>2
  <1> QED
    BY <1>3, <1>4, <1>5, Zenon

-----------------------------------------------------------------------------
(* What the invariant says of the next packet. *)

LEMMA BeginsTyped ==
  ASSUME ends \in Seq(Nat), NEW i \in 1..Len(ends) + 1
  PROVE  Begins(i) \in Nat
  <1>1. CASE i = 1
    BY <1>1 DEF Begins
  <1>2. CASE i # 1
    <2>1. i - 1 \in 1..Len(ends)
      BY <1>2
    <2> QED
      BY <1>2, <2>1, ElementOfSeq DEF Begins
  <1> QED
    BY <1>1, <1>2

\* No frame ends behind the last.
LEMMA EndsInside ==
  ASSUME ends \in Seq(Nat), \A i, j \in 1..Len(ends) : i < j => ends[i] <= ends[j],
         NEW i \in 1..Len(ends)
  PROVE  ends[i] \in Nat /\ ends[i] <= Begins(Len(ends) + 1)
  <1>1. Len(ends) \in Nat /\ Len(ends) \in 1..Len(ends) /\ Len(ends) + 1 # 1
        /\ (Len(ends) + 1) - 1 = Len(ends)
    BY LenProperties
  <1>2. Begins(Len(ends) + 1) = ends[Len(ends)]
    BY <1>1 DEF Begins
  <1>3. ends[i] \in Nat /\ ends[Len(ends)] \in Nat
    BY <1>1, ElementOfSeq
  <1>4. CASE i = Len(ends)
    BY <1>2, <1>3, <1>4
  <1>5. CASE i < Len(ends)
    <2>1. ends[i] <= ends[Len(ends)]
      BY <1>1, <1>5, Zenon
    <2> QED
      BY <1>2, <1>3, <2>1, Zenon
  <1>6. i = Len(ends) \/ i < Len(ends)
    <2>1. \A n \in Nat : \A k \in 1..n : k = n \/ k < n
      OBVIOUS
    <2> QED
      BY <1>1, <2>1, Zenon
  <1> QED
    BY <1>4, <1>5, <1>6, Zenon

\* Types and lengths.
LEMMA StreamLengths ==
  ASSUME StreamTypes, DecodedInOrder
  PROVE  /\ Len(written) \in Nat /\ Len(decoded) \in Nat /\ Len(ends) = Len(written)
         /\ Len(decoded) <= Len(written)
         /\ ends \in Seq(Nat) /\ arrived \in Seq(Byte) /\ transit \in Seq(Byte)
         /\ Unread \in Seq(Byte) /\ Len(Unread) = Len(arrived) + Len(transit)
         /\ Len(arrived) \in Nat /\ Len(transit) \in Nat
         /\ ReadSoFar \in Nat
         /\ \A i \in 1..Len(written) + 1 : Begins(i) \in Nat
         /\ \A i \in 1..Len(written) : written[i] \in Packets
  <1>1. /\ written \in Seq(Packets) /\ decoded \in Seq(Packets) /\ ends \in Seq(Nat)
        /\ arrived \in Seq(Byte) /\ transit \in Seq(Byte)
        /\ Len(ends) = Len(written) /\ Len(decoded) <= Len(written)
    BY DEF StreamTypes, DecodedInOrder
  <1>2. /\ Len(written) \in Nat /\ Len(decoded) \in Nat
        /\ Len(arrived) \in Nat /\ Len(transit) \in Nat
    BY <1>1, LenProperties
  <1>3. Unread \in Seq(Byte) /\ Len(Unread) = Len(arrived) + Len(transit)
    BY <1>1, Joined, Zenon DEF Unread
  <1>4. \A i \in 1..Len(written) + 1 : Begins(i) \in Nat
    BY <1>1, BeginsTyped
  <1>5. ReadSoFar \in Nat
    <2>1. Len(decoded) + 1 \in 1..Len(written) + 1
      BY <1>1, <1>2
    <2> QED
      BY <1>4, <2>1 DEF ReadSoFar
  <1>6. \A i \in 1..Len(written) : written[i] \in Packets
    BY <1>1, ElementOfSeq
  <1> QED
    BY <1>1, <1>2, <1>3, <1>4, <1>5, <1>6

\* While a packet was written and not returned, the bytes not yet read begin with its
\* frame, as far as they go.
LEMMA NextFrame ==
  ASSUME StreamTypes, DecodedInOrder, FramesInOrder, Len(decoded) < Len(written)
  PROVE  /\ Len(decoded) + 1 \in 1..Len(written)
         /\ written[Len(decoded) + 1] \in Packets
         /\ \E nulls \in {1, 2} :
              LET p == written[Len(decoded) + 1] IN
              /\ ends[Len(decoded) + 1] = ReadSoFar + 4 + BodySize(p, nulls)
              /\ ReadSoFar + 4 + BodySize(p, nulls) <= Begins(Len(written) + 1)
              /\ \A k \in 1..Len(arrived) :
                   k <= 4 + BodySize(p, nulls) => arrived[k] = Frame(p, nulls)[k]
              /\ excess \/ BodySize(p, nulls) <= MaxPacket
  <1> DEFINE d == Len(decoded) + 1
             p == written[d]
  <1>1. d \in 1..Len(written) /\ d \in Len(decoded)+1..Len(written)
    BY StreamLengths
  <1>2. p \in Packets /\ ReadSoFar \in Nat
    BY <1>1, StreamLengths
  <1>3. FrameInPlace(d)
    BY <1>1, Zenon DEF FramesInOrder
  <1>4. ReadSoFar = Begins(d)
    BY DEF ReadSoFar
  <1> HIDE DEF d
  <1>5. PICK nulls \in {1, 2} :
           /\ ends[d] = Begins(d) + 4 + BodySize(p, nulls)
           /\ Placed(p, nulls, Begins(d), Unread, ReadSoFar)
           /\ excess \/ BodySize(p, nulls) <= MaxPacket
    BY <1>3, Zenon DEF FrameInPlace
  <1> HIDE DEF p
  <1>6. ends[d] <= Begins(Len(written) + 1)
    <2>1. /\ ends \in Seq(Nat) /\ Len(ends) = Len(written)
          /\ \A i, j \in 1..Len(ends) : i < j => ends[i] <= ends[j]
      BY StreamLengths DEF FramesInOrder
    <2> QED
      BY <1>1, <2>1, EndsInside, Zenon
  <1>7. Placed(p, nulls, ReadSoFar, arrived, ReadSoFar)
    <2>1. Placed(p, nulls, ReadSoFar, arrived \o transit, ReadSoFar)
      BY <1>4, <1>5, Zenon DEF Unread
    <2>2. arrived \in Seq(Byte) /\ transit \in Seq(Byte)
      BY StreamLengths, Zenon
    <2> QED
      BY <1>2, <2>1, <2>2, PlacedInFront, Zenon
  <1>8. ASSUME NEW k \in 1..Len(arrived), k <= 4 + BodySize(p, nulls)
        PROVE  arrived[k] = Frame(p, nulls)[k]
    <2>1. BodySize(p, nulls) \in Int
      BY <1>2, FrameLayout
    <2>2. Len(arrived) \in Nat
      BY StreamLengths, Zenon
    <2>3. /\ ReadSoFar + k \in ReadSoFar + 1 .. ReadSoFar + 4 + BodySize(p, nulls)
          /\ ReadSoFar + k - ReadSoFar = k
      BY <1>2, <1>8, <2>1, <2>2
    <2> QED
      BY <1>7, <2>3, Zenon DEF Placed
  <1>9. /\ ends[d] = ReadSoFar + 4 + BodySize(p, nulls)
        /\ ReadSoFar + 4 + BodySize(p, nulls) <= Begins(Len(written) + 1)
    BY <1>4, <1>5, <1>6, Zenon
  <1>10. \E n \in {1, 2} :
           /\ ends[d] = ReadSoFar + 4 + BodySize(p, n)
           /\ ReadSoFar + 4 + BodySize(p, n) <= Begins(Len(written) + 1)
           /\ \A k \in 1..Len(arrived) : k <= 4 + BodySize(p, n) => arrived[k] = Frame(p, n)[k]
           /\ excess \/ BodySize(p, n) <= MaxPacket
    BY <1>5, <1>8, <1>9, Zenon
  <1> QED
    BY <1>1, <1>2, <1>10, Zenon DEF p, d

\* Whoever has a length has the one of the next packet.
LEMMA NextHeader ==
  ASSUME StreamTypes, DecodedInOrder, FramesInOrder, Len(arrived) >= 4
  PROVE  /\ Len(decoded) < Len(written)
         /\ \E nulls \in {1, 2} :
              LET p == written[Len(decoded) + 1] IN
              /\ ends[Len(decoded) + 1] = ReadSoFar + 4 + BodySize(p, nulls)
              /\ Number(arrived) = BodySize(p, nulls)
              /\ TooLarge(arrived) => excess
              /\ \A k \in 1..Len(arrived) :
                   k <= 4 + BodySize(p, nulls) => arrived[k] = Frame(p, nulls)[k]
  <1>1. Len(decoded) < Len(written)
    <2>1. /\ Len(decoded) \in Nat /\ Len(written) \in Nat /\ Len(decoded) <= Len(written)
          /\ Len(Unread) = Len(arrived) + Len(transit) /\ Len(transit) \in Nat
          /\ Len(arrived) \in Nat /\ ReadSoFar \in Nat
      BY StreamLengths, Zenon
    <2>2. ReadSoFar + Len(Unread) <= Begins(Len(written) + 1)
      BY Zenon DEF FramesInOrder
    <2>3. SUFFICES ASSUME Len(decoded) = Len(written) PROVE FALSE
      BY <2>1
    <2>4. ReadSoFar = Begins(Len(written) + 1)
      BY <2>3, Zenon DEF ReadSoFar
    <2> QED
      BY <2>1, <2>2, <2>4
  <1>2. PICK p : p = written[Len(decoded) + 1]
    OBVIOUS
  <1>3. PICK nulls \in {1, 2} :
           /\ ends[Len(decoded) + 1] = ReadSoFar + 4 + BodySize(p, nulls)
           /\ \A k \in 1..Len(arrived) :
                k <= 4 + BodySize(p, nulls) => arrived[k] = Frame(p, nulls)[k]
           /\ excess \/ BodySize(p, nulls) <= MaxPacket
    BY <1>1, <1>2, NextFrame, Zenon
  <1>4. p \in Packets /\ arrived \in Seq(Byte)
    BY <1>1, <1>2, NextFrame, StreamLengths, Zenon
  <1>5. BodySize(p, nulls) \in Int /\ BodySize(p, nulls) >= 9
    <2>1. BodySize(p, nulls) \in 9..MaxInt32
      BY <1>4, FrameLayout, Zenon
    <2> QED
      BY <2>1
  <1>6. \A j \in 1..4 : arrived[j] = Frame(p, nulls)[j]
    <2> SUFFICES ASSUME NEW j \in 1..4 PROVE arrived[j] = Frame(p, nulls)[j]
      OBVIOUS
    <2>1. Len(arrived) \in Nat
      BY StreamLengths, Zenon
    <2>2. j \in 1..Len(arrived) /\ j <= 4 + BodySize(p, nulls)
      BY <1>5, <2>1
    <2> QED
      BY <1>3, <2>2, Zenon
  <1>7. /\ Number(arrived) = BodySize(p, nulls)
        /\ TooLarge(arrived) <=> BodySize(p, nulls) > MaxPacket
    BY <1>4, <1>6, HeaderSurvives, Zenon
  <1>8. TooLarge(arrived) => excess
    <2>1. MaxPacket \in Nat
      BY PacketsAssumption
    <2>2. ~(BodySize(p, nulls) > MaxPacket /\ BodySize(p, nulls) <= MaxPacket)
      BY <1>5, <2>1
    <2> QED
      BY <1>3, <1>7, <2>2, Zenon
  <1> QED
    BY <1>1, <1>2, <1>3, <1>7, <1>8, Zenon

-----------------------------------------------------------------------------
(* The steps. *)

LEMMA NumberTyped ==
  ASSUME NEW bytes \in Seq(Byte), Len(bytes) >= 4
  PROVE  Number(bytes) \in Nat
  <1>1. \A j \in 1..4 : bytes[j] \in Byte
    BY ElementOfSeq, LenProperties
  <1>2. bytes[1] \in 0..255 /\ bytes[2] \in 0..255 /\ bytes[3] \in 0..255 /\ bytes[4] \in 0..255
    BY <1>1 DEF Byte
  <1>3. PICK a \in 0..255, b \in 0..255, c \in 0..255, d \in 0..255 :
           a = bytes[1] /\ b = bytes[2] /\ c = bytes[3] /\ d = bytes[4]
    BY <1>2, Zenon
  <1>4. Number(bytes) = a + 256 * b + 65536 * c + 16777216 * d
    BY <1>3, SMT DEF Number
  <1>5. a + 256 * b + 65536 * c + 16777216 * d \in Nat
    BY SMT
  <1> QED
    BY <1>4, <1>5, SMT

\* What is left of the bytes that have arrived when a body was read.
LEMMA RestOfBytes ==
  ASSUME arrived \in Seq(Byte), Complete, ~TooLarge(arrived), NEW end, end = 4 + Number(arrived)
  PROVE  /\ end \in Nat /\ end <= Len(arrived) /\ Len(arrived) \in Nat
         /\ SubSeq(arrived, end + 1, Len(arrived)) \in Seq(Byte)
         /\ Len(SubSeq(arrived, end + 1, Len(arrived))) = Len(arrived) - end
         /\ LiesAt(SubSeq(arrived, end + 1, Len(arrived)), arrived, end)
  <1>1. Len(arrived) \in Nat /\ Len(arrived) >= 4 /\ Len(arrived) >= 4 + Number(arrived)
    BY LenProperties DEF Complete
  <1>2. Number(arrived) \in Nat
    BY <1>1, NumberTyped
  <1>3. end \in Nat /\ end <= Len(arrived) /\ Len(arrived) <= Len(arrived)
    BY <1>1, <1>2
  <1>4. /\ SubSeq(arrived, end + 1, Len(arrived)) \in Seq(Byte)
        /\ Len(SubSeq(arrived, end + 1, Len(arrived))) = Len(arrived) - end
        /\ \A i \in 1..Len(arrived) - end :
             SubSeq(arrived, end + 1, Len(arrived))[i] = arrived[end + i]
    BY <1>1, <1>3, Piece, Zenon
  <1>5. LiesAt(SubSeq(arrived, end + 1, Len(arrived)), arrived, end)
    BY <1>4, Zenon DEF LiesAt
  <1> QED
    BY <1>1, <1>3, <1>4, <1>5, Zenon

\* A piece moves from the bytes on their way to those that have arrived.
LEMMA PieceArrives ==
  ASSUME arrived \in Seq(Byte), transit \in Seq(Byte), Arrive
  PROVE  /\ arrived' \in Seq(Byte) /\ transit' \in Seq(Byte)
         /\ Unread' = Unread
  <1>1. PICK k \in 1..Len(transit) : /\ arrived' = arrived \o SubSeq(transit, 1, k)
                                     /\ transit' = SubSeq(transit, k + 1, Len(transit))
    BY Zenon DEF Arrive
  <1>2. /\ Len(transit) \in Nat /\ k \in Nat /\ 0 \in Nat /\ 0 <= k /\ k <= Len(transit)
        /\ Len(transit) <= Len(transit) /\ 0 + 1 = 1
        /\ 1 \in 1..Len(transit) + 1 /\ k \in 1 - 1 .. Len(transit)
        /\ Len(transit) \in k .. Len(transit)
    BY LenProperties
  <1>3. SubSeq(transit, 0 + 1, k) \in Seq(Byte) /\ SubSeq(transit, k + 1, Len(transit)) \in Seq(Byte)
    BY <1>2, Piece, Zenon
  <1>4. SubSeq(transit, 1, k) \in Seq(Byte)
    BY <1>2, <1>3
  <1>5. SubSeq(transit, 1, k) \o SubSeq(transit, k + 1, Len(transit)) = transit
    <2>1. SubSeq(transit, 1, k) \o SubSeq(transit, k + 1, Len(transit)) = SubSeq(transit, 1, Len(transit))
      BY <1>2, ConcatAdjacentSubSeq
    <2>2. SubSeq(transit, 1, Len(transit)) = transit
      BY SubSeqFull
    <2> QED
      BY <2>1, <2>2, Zenon
  <1>6. /\ arrived \o SubSeq(transit, 1, k) \in Seq(Byte)
        /\ (arrived \o SubSeq(transit, 1, k)) \o SubSeq(transit, k + 1, Len(transit))
             = arrived \o (SubSeq(transit, 1, k) \o SubSeq(transit, k + 1, Len(transit)))
    <2>1. arrived \o SubSeq(transit, 1, k) \in Seq(Byte)
      BY <1>4, Joined, Zenon
    <2> DEFINE t == SubSeq(transit, 1, k)
               u == SubSeq(transit, k + 1, Len(transit))
    <2>2. t \in Seq(Byte) /\ u \in Seq(Byte)
      BY <1>3, <1>4
    <2> HIDE DEF t, u
    <2>3. (arrived \o t) \o u = arrived \o (t \o u)
      BY <2>2, ConcatAssociative
    <2> QED
      BY <2>1, <2>3, Zenon DEF t, u
  <1> QED
    BY <1>1, <1>3, <1>5, <1>6, Zenon DEF Unread

LEMMA TypesStep ==
  ASSUME StreamTypes, [Next]_vars
  PROVE  StreamTypes'
  <1>1. /\ written \in Seq(Packets) /\ ends \in Seq(Nat) /\ Len(ends) = Len(written) /\ Len(written) \in Nat
        /\ transit \in Seq(Byte) /\ arrived \in Seq(Byte)
        /\ eof \in BOOLEAN /\ excess \in BOOLEAN /\ foul \in BOOLEAN
        /\ failure \in {"none", "tooLarge", "invalid"}
    BY LenProperties DEF StreamTypes
  <1>2. ASSUME NEW p \in Packets, NEW nulls \in {1, 2}, Send(p, nulls)
        PROVE  /\ written' \in Seq(Packets) /\ transit' \in Seq(Byte) /\ ends' \in Seq(Nat)
               /\ Len(ends') = Len(written')
    <2>1. written' \in Seq(Packets) /\ Len(written') = Len(written) + 1
      BY <1>1, <1>2, AppendProperties DEF Send
    <2>2. transit' \in Seq(Byte)
      <3>1. Frame(p, nulls) \in Seq(Byte)
        BY FrameLayout, Zenon
      <3>2. transit \o Frame(p, nulls) \in Seq(Byte)
        BY <1>1, <3>1, Joined, Zenon
      <3> QED
        BY <1>2, <3>2, Zenon DEF Send, Put
    <2>3. ends' \in Seq(Nat) /\ Len(ends') = Len(ends) + 1
      <3>1. BodySize(p, nulls) \in Nat
        <4>1. BodySize(p, nulls) \in 9..MaxInt32
          BY FrameLayout, Zenon
        <4> QED
          BY <4>1
      <3>2. Begins(Len(written) + 1) + 4 + BodySize(p, nulls) \in Nat
        <4>1. Len(written) + 1 \in 1..Len(ends) + 1
          BY <1>1
        <4>2. Begins(Len(written) + 1) \in Nat
          BY <1>1, <4>1, BeginsTyped, Zenon
        <4> QED
          BY <3>1, <4>2
      <3> QED
        BY <1>1, <1>2, <3>2, AppendProperties DEF Send
    <2> QED
      BY <1>1, <2>1, <2>2, <2>3, Zenon
  <1>3. ASSUME NEW p \in Packets, Encode(p) PROVE StreamTypes'
    <2>1. CASE BodySize(p, 1) > MaxPacket
      BY <1>1, <1>3, <2>1, Zenon DEF Encode, StreamTypes
    <2>2. CASE ~(BodySize(p, 1) > MaxPacket)
      <3>1. Send(p, 1)
        BY <1>3, <2>2, Zenon DEF Encode
      <3>2. 1 \in {1, 2}
        OBVIOUS
      <3>3. written' \in Seq(Packets) /\ transit' \in Seq(Byte) /\ ends' \in Seq(Nat)
        BY <1>2, <3>1, <3>2, Zenon
      <3>4. Len(ends') = Len(written')
        BY <1>2, <3>1, <3>2, Zenon
      <3> QED
        BY <1>1, <1>3, <3>3, <3>4, Zenon DEF Encode, StreamTypes
    <2> QED
      BY <2>1, <2>2
  <1>4. ASSUME NEW p \in Packets, NEW nulls \in {1, 2}, PeerWrites(p, nulls) PROVE StreamTypes'
    <2>1. /\ written' \in Seq(Packets) /\ transit' \in Seq(Byte) /\ ends' \in Seq(Nat)
          /\ Len(ends') = Len(written')
      BY <1>2, <1>4, Zenon DEF PeerWrites
    <2>2. excess' \in BOOLEAN
      BY <1>4, Zenon DEF PeerWrites
    <2> QED
      BY <1>1, <1>4, <2>1, <2>2, Zenon DEF PeerWrites, StreamTypes
  <1>5. ASSUME NEW bytes \in Garbage, PeerWritesGarbage(bytes) PROVE StreamTypes'
    <2>1. bytes \in Seq(Byte)
      BY PacketsAssumption
    <2>2. transit \o bytes \in Seq(Byte)
      BY <1>1, <2>1, Joined, Zenon
    <2> QED
      BY <1>1, <1>5, <2>2, Zenon DEF PeerWritesGarbage, Put, StreamTypes
  <1>6. ASSUME Arrive PROVE StreamTypes'
    <2>1. arrived' \in Seq(Byte) /\ transit' \in Seq(Byte)
      BY <1>1, <1>6, PieceArrives, Zenon
    <2> QED
      BY <1>1, <1>6, <2>1, Zenon DEF Arrive, StreamTypes
  <1>7. ASSUME HangUp PROVE StreamTypes'
    <2>1. <<>> \in Seq(Byte)
      BY EmptySeq
    <2> QED
      BY <1>1, <1>7, <2>1, Zenon DEF HangUp, StreamTypes
  <1>8. ASSUME Decode PROVE StreamTypes'
    <2>1. arrived' \in Seq(Byte)
      <3>1. CASE DecodeBody
        BY <1>1, <3>1, RestOfBytes, Zenon DEF DecodeBody
      <3>2. CASE DecodeCut \/ DecodeTooLarge
        BY <1>1, <3>2, Zenon DEF DecodeCut, DecodeTooLarge
      <3> QED
        BY <1>8, <3>1, <3>2, Zenon DEF Decode
    <2>2. failure' \in {"none", "tooLarge", "invalid"}
      BY <1>1, <1>8, Zenon DEF Decode, DecodeBody, DecodeCut, DecodeTooLarge
    <2> QED
      BY <1>1, <1>8, <2>1, <2>2, Zenon DEF Decode, StreamTypes
  <1>9. ASSUME UNCHANGED vars PROVE StreamTypes'
    BY <1>1, <1>9, Zenon DEF vars, StreamTypes
  <1> QED
    BY <1>3, <1>4, <1>5, <1>6, <1>7, <1>8, <1>9, Zenon DEF Next

\* A frame is written behind all others.
LEMMA SendStep ==
  ASSUME StreamTypes, DecodedInOrder, FramesInOrder, ~eof,
         NEW p \in Packets, NEW nulls \in {1, 2}, Send(p, nulls),
         UNCHANGED <<arrived, eof, decoded>>,
         excess => excess', excess' \/ BodySize(p, nulls) <= MaxPacket
  PROVE  DecodedInOrder' /\ FramesInOrder'
  <1> DEFINE n == Len(written)
             last == Begins(n + 1)
             size == 4 + BodySize(p, nulls)
  <1>1. /\ n \in Nat /\ Len(decoded) \in Nat /\ Len(ends) = n /\ Len(decoded) <= n
        /\ last \in Nat /\ ReadSoFar \in Nat /\ Len(Unread) \in Nat
        /\ size \in Nat
    <2>1. n \in Nat /\ n + 1 \in 1..n + 1 /\ Len(Unread) \in Nat
      BY StreamLengths
    <2>2. BodySize(p, nulls) \in 9..MaxInt32
      BY FrameLayout, Zenon
    <2>3. size \in Nat
      BY <2>2
    <2> HIDE DEF size
    <2> QED
      BY <2>1, <2>3, StreamLengths
  <1>2. /\ written' = Append(written, p) /\ ends' = Append(ends, last + size)
        /\ Unread' = Unread \o Frame(p, nulls)
    <2>1. arrived \in Seq(Byte) /\ transit \in Seq(Byte) /\ Frame(p, nulls) \in Seq(Byte)
      BY StreamLengths, FrameLayout
    <2>2. arrived' = arrived /\ transit' = transit \o Frame(p, nulls)
      BY Zenon DEF Send, Put
    <2>3. (arrived \o transit) \o Frame(p, nulls) = arrived \o (transit \o Frame(p, nulls))
      BY <2>1, ConcatAssociative
    <2>4. Unread' = Unread \o Frame(p, nulls)
      BY <2>2, <2>3, Zenon DEF Unread
    <2>5. last + 4 + BodySize(p, nulls) = last + size
      <3>1. BodySize(p, nulls) \in Int
        BY FrameLayout
      <3> QED
        BY <1>1, <3>1
    <2> QED
      BY <2>4, <2>5, Zenon DEF Send
  <1>3. /\ Len(written') = n + 1 /\ Len(ends') = n + 1
        /\ \A i \in 1..n : written'[i] = written[i] /\ ends'[i] = ends[i]
        /\ written'[n + 1] = p /\ ends'[n + 1] = last + size
    <2>1. written \in Seq(Packets) /\ ends \in Seq(Nat) /\ last + size \in Nat
      BY <1>1 DEF StreamTypes
    <2> HIDE DEF last, size
    <2> QED
      BY <1>1, <1>2, <2>1, AppendProperties
  <1>4. \A i \in 1..n + 1 : Begins(i)' = Begins(i)
    <2> SUFFICES ASSUME NEW i \in 1..n + 1 PROVE Begins(i)' = Begins(i)
      OBVIOUS
    <2>1. i # 1 => i - 1 \in 1..n
      BY <1>1
    <2> QED
      BY <1>3, <2>1, Zenon DEF Begins
  <1>5. Begins(Len(written) + 1)' = last + size
    <2>1. Len(written') + 1 # 1 /\ (Len(written') + 1) - 1 = n + 1
      BY <1>1, <1>3
    <2> QED
      BY <1>3, <2>1, Zenon DEF Begins
  <1>6. ReadSoFar' = ReadSoFar
    <2>1. Len(decoded) + 1 \in 1..n + 1 /\ decoded' = decoded
      BY <1>1
    <2> QED
      BY <1>4, <2>1, Zenon DEF ReadSoFar
  <1>7. ReadSoFar + Len(Unread) = last
    BY Zenon DEF FramesInOrder
  <1>8. Len(Unread') = Len(Unread) + size
    <2>1. Unread \in Seq(Byte) /\ Frame(p, nulls) \in Seq(Byte) /\ Len(Frame(p, nulls)) = size
      BY StreamLengths, FrameLayout, Zenon
    <2> QED
      BY <1>2, <2>1, Joined, Zenon
  <1> HIDE DEF last, size
  <1>9. DecodedInOrder'
    <2>1. decoded \in Seq(Packets) /\ \A i \in 1..Len(decoded) : decoded[i] = written[i]
      BY DEF DecodedInOrder
    <2>2. \A i \in 1..Len(decoded) : i \in 1..n
      BY <1>1
    <2>3. Len(ends') = Len(written') /\ Len(decoded) <= Len(written')
      BY <1>1, <1>3
    <2>4. decoded' = decoded
      OBVIOUS
    <2> QED
      BY <1>3, <2>1, <2>2, <2>3, <2>4, Zenon DEF DecodedInOrder
  <1>10. \A i \in 1..n : ends[i] \in Nat /\ ends[i] <= last
    <2>1. ends \in Seq(Nat) /\ \A i, j \in 1..Len(ends) : i < j => ends[i] <= ends[j]
      BY DEF StreamTypes, FramesInOrder
    <2> QED
      BY <1>1, <2>1, EndsInside, Zenon DEF last
  <1>11. ASSUME NEW i \in 1..n + 1, NEW j \in 1..n + 1, i < j
         PROVE  ends'[i] <= ends'[j]
    <2>1. i \in 1..n
      BY <1>1, <1>11
    <2>2. CASE j = n + 1
      <3>1. ends'[i] = ends[i] /\ ends'[j] = last + size /\ ends[i] \in Nat /\ ends[i] <= last
        BY <1>3, <1>10, <2>1, <2>2, Zenon
      <3> QED
        BY <1>1, <3>1
    <2>3. CASE j # n + 1
      <3>1. j \in 1..n
        BY <1>1, <2>3
      <3>2. ends[i] <= ends[j]
        BY <1>1, <1>11, <2>1, <3>1, Zenon DEF FramesInOrder
      <3> QED
        BY <1>3, <2>1, <3>1, <3>2, Zenon
    <2> QED
      BY <2>2, <2>3
  <1>12. ASSUME NEW i \in Len(decoded)+1..n + 1 PROVE FrameInPlace(i)'
    <2>1. CASE i = n + 1
      <3>1. Placed(p, nulls, last, Unread \o Frame(p, nulls), ReadSoFar)
        BY <1>1, <1>7, StreamLengths, PlacedLast, Zenon
      <3>2. Placed(written'[i], nulls, last, Unread', ReadSoFar')
        BY <1>2, <1>3, <1>6, <2>1, <3>1, Zenon
      <3>3. ends'[i] = last + 4 + BodySize(p, nulls)
        <4>1. BodySize(p, nulls) \in Int
          BY FrameLayout
        <4> QED
          BY <1>1, <1>3, <2>1, <4>1 DEF size
      <3>4. Begins(i)' = last
        BY <1>1, <1>4, <2>1 DEF last
      <3> QED
        BY <1>3, <2>1, <3>2, <3>3, <3>4, Zenon DEF FrameInPlace
    <2>2. CASE i # n + 1
      <3>1. i \in 1..n /\ i \in Len(decoded)+1..n /\ i \in 1..n + 1
        BY <1>1, <2>2
      <3>2. FrameInPlace(i)
        BY <3>1, Zenon DEF FramesInOrder
      <3>3. PICK m \in {1, 2} :
               /\ ends[i] = Begins(i) + 4 + BodySize(written[i], m)
               /\ Placed(written[i], m, Begins(i), Unread, ReadSoFar)
               /\ excess \/ BodySize(written[i], m) <= MaxPacket
        BY <3>2, Zenon DEF FrameInPlace
      <3>4. written[i] \in Packets /\ Begins(i) \in Nat /\ Unread \in Seq(Byte)
        BY <3>1, StreamLengths, Zenon
      <3>5. Begins(i) + 4 + BodySize(written[i], m) <= ReadSoFar + Len(Unread)
        BY <1>7, <1>10, <3>1, <3>3, Zenon
      <3>6. Frame(p, nulls) \in Seq(Byte)
        BY FrameLayout, Zenon
      <3>7. Placed(written[i], m, Begins(i), Unread \o Frame(p, nulls), ReadSoFar)
        BY <1>1, <3>3, <3>4, <3>5, <3>6, PlacedBehind, Zenon
      <3>8. /\ ends'[i] = Begins(i)' + 4 + BodySize(written'[i], m)
            /\ Placed(written'[i], m, Begins(i)', Unread', ReadSoFar')
            /\ excess' \/ BodySize(written'[i], m) <= MaxPacket
        BY <1>2, <1>3, <1>4, <1>6, <3>1, <3>3, <3>7, Zenon
      <3> QED
        BY <3>8, Zenon DEF FrameInPlace
    <2> QED
      BY <2>1, <2>2
  <1>13. /\ ReadSoFar' + Len(Unread') = Begins(Len(written) + 1)'
         /\ ReadSoFar' + Len(Unread') <= Begins(Len(written) + 1)'
    <2>1. ReadSoFar' + Len(Unread') = last + size /\ last + size <= last + size
      BY <1>1, <1>6, <1>7, <1>8
    <2> QED
      BY <1>5, <2>1, Zenon
  <1>14. FramesInOrder'
    <2>1. /\ \A i, j \in 1..Len(ends') : i < j => ends'[i] <= ends'[j]
          /\ \A i \in Len(decoded')+1..Len(written') : FrameInPlace(i)'
      BY <1>3, <1>11, <1>12, Zenon
    <2> QED
      BY <1>13, <2>1, Zenon DEF FramesInOrder
  <1> QED
    BY <1>9, <1>14

\* Bytes arrive, or the last of them are lost.
LEMMA KeptStep ==
  ASSUME StreamTypes, DecodedInOrder, FramesInOrder, UNCHANGED <<written, ends, decoded, excess>>,
         NEW more \in Seq(Byte), Unread' \in Seq(Byte), Unread = Unread' \o more,
         ~eof' => ~eof /\ more = <<>>
  PROVE  DecodedInOrder' /\ FramesInOrder'
  <1>1. /\ \A i : Begins(i)' = Begins(i)
        /\ ReadSoFar' = ReadSoFar /\ DecodedInOrder' /\ ReadSoFar \in Nat
    BY StreamLengths, Zenon DEF Begins, ReadSoFar, DecodedInOrder
  <1>2. ASSUME NEW i \in Len(decoded)+1..Len(written) PROVE FrameInPlace(i)'
    <2>1. FrameInPlace(i)
      BY Zenon DEF FramesInOrder
    <2>2. PICK m \in {1, 2} :
             /\ ends[i] = Begins(i) + 4 + BodySize(written[i], m)
             /\ Placed(written[i], m, Begins(i), Unread, ReadSoFar)
             /\ excess \/ BodySize(written[i], m) <= MaxPacket
      BY <2>1, Zenon DEF FrameInPlace
    <2>3. i \in 1..Len(written) /\ i \in 1..Len(written) + 1
      BY StreamLengths
    <2>4. written[i] \in Packets /\ Begins(i) \in Nat
      BY <2>3, StreamLengths, Zenon
    <2>5. Placed(written[i], m, Begins(i), Unread' \o more, ReadSoFar)
      BY <2>2, Zenon
    <2>6. Placed(written[i], m, Begins(i), Unread', ReadSoFar)
      BY <1>1, <2>4, <2>5, PlacedInFront, Zenon
    <2> QED
      BY <1>1, <2>2, <2>6, Zenon DEF FrameInPlace
  <1>3. ReadSoFar' + Len(Unread') <= Begins(Len(written) + 1)'
    <2>1. Len(Unread) = Len(Unread') + Len(more)
      BY Joined, Zenon
    <2>2. Len(Unread') \in Nat /\ Len(more) \in Nat
      BY LenProperties
    <2>3. ReadSoFar + Len(Unread) <= Begins(Len(written) + 1)
      BY Zenon DEF FramesInOrder
    <2>4. Begins(Len(written) + 1) \in Nat
      <3>1. Len(written) + 1 \in 1..Len(written) + 1
        BY StreamLengths
      <3> QED
        BY <3>1, StreamLengths, Zenon
    <2>5. ReadSoFar + Len(Unread') <= Begins(Len(written) + 1)
      BY <1>1, <2>1, <2>2, <2>3, <2>4
    <2>6. Begins(Len(written) + 1)' = Begins(Len(written) + 1)
      BY Zenon DEF Begins
    <2> QED
      BY <1>1, <2>5, <2>6, Zenon
  <1>4. ~eof' => ReadSoFar' + Len(Unread') = Begins(Len(written) + 1)'
    <2> SUFFICES ASSUME ~eof' PROVE ReadSoFar' + Len(Unread') = Begins(Len(written) + 1)'
      OBVIOUS
    <2>1. Unread = Unread' /\ ~eof
      BY ConcatEmptySeq
    <2>2. ReadSoFar + Len(Unread) = Begins(Len(written) + 1)
      BY <2>1, Zenon DEF FramesInOrder
    <2>3. Begins(Len(written) + 1)' = Begins(Len(written) + 1)
      BY Zenon DEF Begins
    <2> QED
      BY <1>1, <2>1, <2>2, <2>3, Zenon
  <1>5. \A i, j \in 1..Len(ends') : i < j => ends'[i] <= ends'[j]
    BY Zenon DEF FramesInOrder
  <1> QED
    BY <1>1, <1>2, <1>3, <1>4, <1>5, Zenon DEF FramesInOrder

\* The next packet is read.
LEMMA ReadStep ==
  ASSUME StreamTypes, DecodedInOrder, FramesInOrder,
         DecodeBody, UNCHANGED <<written, ends, transit, eof, excess>>
  PROVE  DecodedInOrder' /\ FramesInOrder' /\ failure' = failure
  <1> DEFINE n == Len(written)
             d == Len(decoded)
             p == written[d + 1]
             end == 4 + Number(arrived)
             rest == SubSeq(arrived, end + 1, Len(arrived))
  <1>1. /\ Complete /\ ~TooLarge(arrived) /\ arrived' = rest
        /\ IF Len(SubSeq(arrived, 5, end)) < 8
           THEN failure' = "invalid" /\ UNCHANGED decoded
           ELSE decoded' = Append(decoded, Parse(SubSeq(arrived, 5, end))) /\ UNCHANGED failure
    BY Zenon DEF DecodeBody
  <1>2. Len(arrived) >= 4
    BY <1>1, Zenon DEF Complete
  <1>3. /\ d < n
        /\ \E nulls \in {1, 2} :
              /\ ends[d + 1] = ReadSoFar + 4 + BodySize(p, nulls)
              /\ Number(arrived) = BodySize(p, nulls)
              /\ \A k \in 1..Len(arrived) :
                   k <= 4 + BodySize(p, nulls) => arrived[k] = Frame(p, nulls)[k]
    BY <1>2, NextHeader, Zenon
  <1>4. PICK nulls \in {1, 2} :
              /\ ends[d + 1] = ReadSoFar + 4 + BodySize(p, nulls)
              /\ Number(arrived) = BodySize(p, nulls)
              /\ \A k \in 1..Len(arrived) :
                   k <= 4 + BodySize(p, nulls) => arrived[k] = Frame(p, nulls)[k]
    BY <1>3, Zenon
  <1>5. /\ n \in Nat /\ d \in Nat /\ Len(ends) = n /\ ReadSoFar \in Nat
        /\ arrived \in Seq(Byte) /\ transit \in Seq(Byte) /\ Unread \in Seq(Byte)
        /\ Len(Unread) = Len(arrived) + Len(transit) /\ Len(transit) \in Nat
    BY StreamLengths, Zenon
  <1>6. d + 1 \in 1..n /\ d + 1 \in 1..n + 1 /\ d + 1 # 0
    BY <1>3, <1>5
  <1>7. p \in Packets
    BY <1>6, StreamLengths, Zenon
  <1>8. /\ end \in Nat /\ end <= Len(arrived) /\ Len(arrived) \in Nat
        /\ rest \in Seq(Byte) /\ Len(rest) = Len(arrived) - end /\ LiesAt(rest, arrived, end)
    BY <1>1, <1>5, RestOfBytes, Zenon
  <1>9. end = 4 + BodySize(p, nulls)
    BY <1>4, Zenon
  <1> HIDE DEF n, d, p, end, rest
  <1>10. /\ ~(Len(SubSeq(arrived, 5, end)) < 8)
         /\ Parse(SubSeq(arrived, 5, end)) = p
    <2>1. \A j \in 1..end : j \in 1..Len(arrived) /\ j <= end
      BY <1>8
    <2>2. \A j \in 1..end : arrived[j] = Frame(p, nulls)[j]
      BY <1>4, <1>9, <2>1, Zenon
    <2>3. Len(arrived) >= end /\ end \in Nat /\ arrived \in Seq(Byte)
      BY <1>5, <1>8
    <2> HIDE <1>1, <1>2, <1>3, <1>4, <1>5, <1>6, <1>8
    <2> QED
      BY <1>7, <1>9, <2>2, <2>3, HeadIsRead
  <1>11. decoded' = Append(decoded, p) /\ failure' = failure
    BY <1>1, <1>10, Zenon
  <1>12. /\ decoded' \in Seq(Packets) /\ Len(decoded') = d + 1
         /\ \A i \in 1..d : decoded'[i] = decoded[i]
         /\ decoded'[d + 1] = p
    <2>1. decoded \in Seq(Packets)
      BY DEF DecodedInOrder
    <2> QED
      BY <1>7, <1>11, <2>1, AppendProperties DEF d
  <1>13. DecodedInOrder'
    <2>1. \A i \in 1..d + 1 : i \in 1..d \/ i = d + 1
      BY <1>5
    <2>2. \A i \in 1..d : decoded[i] = written[i]
      BY Zenon DEF DecodedInOrder, d
    <2>3. \A i \in 1..d + 1 : decoded'[i] = written[i]
      BY <1>12, <2>1, <2>2, Zenon DEF p
    <2>4. d + 1 <= n
      BY <1>3, <1>5
    <2>5. Len(ends) = Len(written)
      BY Zenon DEF StreamTypes
    <2> QED
      BY <1>12, <2>3, <2>4, <2>5, Zenon DEF DecodedInOrder, n
  <1>14. \A i : Begins(i)' = Begins(i)
    BY Zenon DEF Begins
  <1>15. ReadSoFar' = ReadSoFar + end
    <2>1. (d + 1) + 1 # 1 /\ ((d + 1) + 1) - 1 = d + 1
      BY <1>5
    <2>2. ReadSoFar' = ends[d + 1]
      BY <1>12, <2>1, Zenon DEF ReadSoFar, Begins
    <2>3. BodySize(p, nulls) \in Int
      BY <1>7, FrameLayout
    <2> QED
      BY <1>4, <1>5, <1>9, <2>2, <2>3
  <1>16. /\ Unread' \in Seq(Byte) /\ Len(Unread) = end + Len(Unread')
         /\ LiesAt(Unread', Unread, end)
    <2>1. Unread = arrived \o transit /\ Unread' = rest \o transit
      BY <1>1, Zenon DEF Unread, rest, end
    <2>2. Len(arrived) = end + Len(rest)
      <3>1. Len(rest) = Len(arrived) - end /\ Len(arrived) \in Nat /\ end \in Nat
        BY <1>8, Zenon
      <3> QED
        BY <3>1
    <2>3. rest \in Seq(Byte) /\ LiesAt(rest, arrived, end) /\ end \in Nat
      BY <1>8, Zenon
    <2>4. arrived \in Seq(Byte) /\ transit \in Seq(Byte)
      BY <1>5, Zenon
    <2>5. /\ rest \o transit \in Seq(Byte)
          /\ Len(arrived \o transit) = end + Len(rest \o transit)
          /\ LiesAt(rest \o transit, arrived \o transit, end)
      BY <2>2, <2>3, <2>4, RestWithMore, Zenon
    <2> QED
      BY <2>1, <2>5, Zenon
  <1>17. ASSUME NEW i \in Len(decoded')+1..Len(written) PROVE FrameInPlace(i)'
    <2>1. i \in d+1..n /\ i \in 1..n /\ i \in 1..n + 1
      BY <1>5, <1>12 DEF n
    <2>2. FrameInPlace(i)
      BY <2>1, Zenon DEF FramesInOrder, d, n
    <2>3. PICK m \in {1, 2} :
             /\ ends[i] = Begins(i) + 4 + BodySize(written[i], m)
             /\ Placed(written[i], m, Begins(i), Unread, ReadSoFar)
             /\ excess \/ BodySize(written[i], m) <= MaxPacket
      BY <2>2, Zenon DEF FrameInPlace
    <2>4. written[i] \in Packets /\ Begins(i) \in Nat
      BY <2>1, StreamLengths, Zenon DEF n
    <2>5. Placed(written[i], m, Begins(i), Unread', ReadSoFar + end)
      BY <1>5, <1>8, <1>16, <2>3, <2>4, PlacedAhead, Zenon
    <2> QED
      BY <1>14, <1>15, <2>3, <2>5, Zenon DEF FrameInPlace
  <1>18. /\ ReadSoFar' + Len(Unread') = ReadSoFar + Len(Unread)
         /\ Begins(Len(written) + 1)' = Begins(Len(written) + 1)
    <2>1. Len(Unread') \in Nat
      BY <1>16, LenProperties
    <2>2. Begins(Len(written) + 1)' = Begins(Len(written) + 1)
      BY Zenon DEF Begins
    <2>3. ReadSoFar' + Len(Unread') = ReadSoFar + Len(Unread)
      <3>1. ReadSoFar \in Nat /\ end \in Nat /\ Len(Unread) = end + Len(Unread')
        BY <1>5, <1>8, <1>16, Zenon
      <3>2. (ReadSoFar + end) + Len(Unread') = ReadSoFar + Len(Unread)
        BY <2>1, <3>1
      <3> QED
        BY <1>15, <3>2, Zenon
    <2> QED
      BY <2>2, <2>3
  <1>19. \A i, j \in 1..Len(ends') : i < j => ends'[i] <= ends'[j]
    BY Zenon DEF FramesInOrder
  <1>20. \A i \in Len(decoded')+1..Len(written') : FrameInPlace(i)'
    BY <1>17, Zenon
  <1>21. FramesInOrder'
    BY <1>18, <1>19, <1>20, Zenon DEF FramesInOrder
  <1> QED
    BY <1>11, <1>13, <1>21, Zenon

-----------------------------------------------------------------------------
(* The invariant. *)

InOrder ==
    /\ DecodedInOrder
    /\ FramesInOrder
    /\ failure = "invalid" => eof
    /\ failure = "tooLarge" => excess

LEMMA InvariantInit == Init => IInv
  <1> SUFFICES ASSUME Init PROVE IInv
    OBVIOUS
  <1>1. /\ written = <<>> /\ ends = <<>> /\ transit = <<>> /\ arrived = <<>> /\ decoded = <<>>
        /\ ~eof /\ failure = "none" /\ refused = {} /\ excess = FALSE /\ foul = FALSE
        /\ eof \in BOOLEAN /\ excess \in BOOLEAN /\ foul \in BOOLEAN
        /\ failure \in {"none", "tooLarge", "invalid"}
    BY DEF Init
  <1>2. /\ <<>> \in Seq(Packets) /\ <<>> \in Seq(Nat) /\ <<>> \in Seq(Byte) /\ Len(<<>>) = 0
    BY EmptySeq
  <1>3. StreamTypes
    BY <1>1, <1>2, Zenon DEF StreamTypes
  <1>4. DecodedInOrder
    BY <1>1, <1>2 DEF DecodedInOrder
  <1>5. FramesInOrder
    <2>1. ReadSoFar = 0 /\ Begins(Len(written) + 1) = 0
      BY <1>1, <1>2 DEF ReadSoFar, Begins
    <2>2. Len(Unread) = 0
      BY <1>1, <1>2, <1>3, <1>4, StreamLengths
    <2> QED
      BY <1>1, <1>2, <2>1, <2>2 DEF FramesInOrder
  <1> QED
    BY <1>1, <1>3, <1>4, <1>5 DEF IInv

\* An error of the reader has its cause, and costs nothing that was read in order.
LEMMA DecodeStep ==
  ASSUME StreamTypes, InOrder, Decode
  PROVE  InOrder'
  <1>1. /\ failure = "none" /\ DecodedInOrder /\ FramesInOrder
        /\ UNCHANGED <<written, ends, transit, eof, refused, excess, foul>>
    BY Zenon DEF Decode, InOrder
  <1>2. CASE DecodeCut
    <2>1. eof' /\ failure' = "invalid" /\ UNCHANGED <<arrived, decoded>>
      BY <1>1, <1>2, Zenon DEF DecodeCut
    <2>2. <<>> \in Seq(Byte) /\ Unread \in Seq(Byte) /\ Unread' = Unread /\ Unread = Unread \o <<>>
      BY <1>1, <2>1, StreamLengths, EmptySeq, ConcatEmptySeq DEF Unread
    <2>3. DecodedInOrder' /\ FramesInOrder'
      BY <1>1, <2>1, <2>2, KeptStep, Zenon
    <2> QED
      BY <2>1, <2>3 DEF InOrder
  <1>3. CASE DecodeTooLarge
    <2>1. failure' = "tooLarge" /\ UNCHANGED <<arrived, decoded>>
      BY <1>3, Zenon DEF DecodeTooLarge
    <2>2. Len(arrived) >= 4 /\ TooLarge(arrived)
      BY <1>3, Zenon DEF DecodeTooLarge, Complete
    <2>3. excess'
      BY <1>1, <2>2, NextHeader, Zenon
    <2>4. <<>> \in Seq(Byte) /\ Unread \in Seq(Byte) /\ Unread' = Unread /\ Unread = Unread \o <<>>
      BY <1>1, <2>1, StreamLengths, EmptySeq, ConcatEmptySeq DEF Unread
    <2>5. DecodedInOrder' /\ FramesInOrder'
      BY <1>1, <2>1, <2>4, KeptStep, Zenon
    <2> QED
      BY <2>1, <2>3, <2>5 DEF InOrder
  <1>4. CASE DecodeBody
    <2>1. DecodedInOrder' /\ FramesInOrder' /\ failure' = failure
      BY <1>1, <1>4, ReadStep, Zenon
    <2> QED
      BY <1>1, <2>1 DEF InOrder
  <1> QED
    BY <1>2, <1>3, <1>4, Zenon DEF Decode

LEMMA InvariantStep ==
  ASSUME IInv, [Next]_vars
  PROVE  IInv'
  <1>1. StreamTypes /\ \A p \in refused : Len(p.payload) > MaxPacket - 9
    BY Zenon DEF IInv
  <1>2. ~foul => InOrder
    BY Zenon DEF IInv, InOrder
  <1>3. StreamTypes'
    BY <1>1, TypesStep, Zenon
  <1>4. \A p \in refused' : Len(p.payload) > MaxPacket - 9
    <2>1. ASSUME NEW p \in Packets, BodySize(p, 1) > MaxPacket
          PROVE  Len(p.payload) > MaxPacket - 9
      <3>1. BodySize(p, 1) = 8 + Len(p.payload) + 1
        BY FrameLayout
      <3>2. Len(p.payload) \in Nat /\ MaxPacket \in Nat
        BY PacketsTyped, PacketsAssumption
      <3> QED
        BY <2>1, <3>1, <3>2
    <2>2. ASSUME NEW p \in Packets, Encode(p)
          PROVE  \A q \in refused' : Len(q.payload) > MaxPacket - 9
      <3>1. CASE BodySize(p, 1) > MaxPacket
        <4>1. refused' = refused \cup {p}
          BY <2>2, <3>1, Zenon DEF Encode
        <4> QED
          BY <1>1, <2>1, <3>1, <4>1, Zenon
      <3>2. CASE ~(BodySize(p, 1) > MaxPacket)
        BY <1>1, <2>2, <3>2, Zenon DEF Encode
      <3> QED
        BY <3>1, <3>2
    <2>3. CASE refused' = refused
      BY <1>1, <2>3, Zenon
    <2> QED
      BY <2>2, <2>3, Zenon DEF Next, vars, PeerWrites, PeerWritesGarbage, Arrive, HangUp, Decode
  <1>5. ASSUME ~foul' PROVE InOrder'
    <2>1. CASE foul
      BY <1>5, <2>1, Zenon
         DEF Next, vars, Encode, PeerWrites, PeerWritesGarbage, Arrive, HangUp, Decode
    <2>2. CASE ~foul
      <3>1. /\ DecodedInOrder /\ FramesInOrder
            /\ failure = "invalid" => eof
            /\ failure = "tooLarge" => excess
        BY <1>2, <2>2, Zenon DEF InOrder
      <3>2. ASSUME NEW p \in Packets, Encode(p) PROVE InOrder'
        <4>1. /\ ~eof /\ ~eof' /\ UNCHANGED <<arrived, eof, decoded, failure, excess>>
          BY <3>2, Zenon DEF Encode
        <4>2. CASE BodySize(p, 1) > MaxPacket
          <5>1. UNCHANGED <<written, ends, transit>>
            BY <3>2, <4>2, Zenon DEF Encode
          <5>2. /\ <<>> \in Seq(Byte) /\ Unread \in Seq(Byte) /\ Unread' = Unread
                /\ Unread = Unread \o <<>>
            BY <1>1, <3>1, <4>1, <5>1, StreamLengths, EmptySeq, ConcatEmptySeq DEF Unread
          <5>3. DecodedInOrder' /\ FramesInOrder'
            BY <1>1, <3>1, <4>1, <5>1, <5>2, KeptStep, Zenon
          <5> QED
            BY <3>1, <4>1, <5>3, Zenon DEF InOrder
        <4>3. CASE ~(BodySize(p, 1) > MaxPacket)
          <5>1. Send(p, 1) /\ 1 \in {1, 2}
            BY <3>2, <4>3, Zenon DEF Encode
          <5>2. BodySize(p, 1) <= MaxPacket
            <6>1. BodySize(p, 1) \in 9..MaxInt32 /\ MaxPacket \in Nat
              BY <5>1, FrameLayout, PacketsAssumption
            <6> QED
              BY <4>3, <6>1
          <5>3. DecodedInOrder' /\ FramesInOrder'
            BY <1>1, <3>1, <4>1, <5>1, <5>2, SendStep, Zenon
          <5> QED
            BY <3>1, <4>1, <5>3, Zenon DEF InOrder
        <4> QED
          BY <4>2, <4>3
      <3>3. ASSUME NEW p \in Packets, NEW nulls \in {1, 2}, PeerWrites(p, nulls) PROVE InOrder'
        <4>1. /\ ~eof /\ UNCHANGED <<arrived, eof, decoded, failure>> /\ Send(p, nulls)
              /\ excess' = (excess \/ BodySize(p, nulls) > MaxPacket)
          BY <3>3, Zenon DEF PeerWrites
        <4>2. excess' \/ BodySize(p, nulls) <= MaxPacket
          <5>1. BodySize(p, nulls) \in 9..MaxInt32 /\ MaxPacket \in Nat
            BY FrameLayout, PacketsAssumption
          <5>2. BodySize(p, nulls) > MaxPacket \/ BodySize(p, nulls) <= MaxPacket
            BY <5>1
          <5> QED
            BY <4>1, <5>2, Zenon
        <4>3. DecodedInOrder' /\ FramesInOrder'
          BY <1>1, <3>1, <4>1, <4>2, SendStep, Zenon
        <4> QED
          BY <3>1, <4>1, <4>3, Zenon DEF InOrder
      <3>4. ASSUME NEW bytes \in Garbage, PeerWritesGarbage(bytes) PROVE FALSE
        BY <1>5, <3>4, Zenon DEF PeerWritesGarbage
      <3>5. ASSUME Arrive PROVE InOrder'
        <4>1. UNCHANGED <<written, ends, eof, decoded, failure, excess>>
          BY <3>5, Zenon DEF Arrive
        <4>2. Unread' = Unread
          BY <1>1, <3>5, PieceArrives, Zenon DEF StreamTypes
        <4>3. <<>> \in Seq(Byte) /\ Unread \in Seq(Byte) /\ Unread = Unread \o <<>>
          BY <1>1, <3>1, StreamLengths, EmptySeq, ConcatEmptySeq
        <4>4. DecodedInOrder' /\ FramesInOrder'
          BY <1>1, <3>1, <4>1, <4>2, <4>3, KeptStep, Zenon
        <4> QED
          BY <3>1, <4>1, <4>4, Zenon DEF InOrder
      <3>6. ASSUME HangUp PROVE InOrder'
        <4>1. /\ eof' /\ transit' = <<>>
              /\ UNCHANGED <<written, ends, arrived, decoded, failure, excess>>
          BY <3>6, Zenon DEF HangUp
        <4>2. arrived \in Seq(Byte) /\ transit \in Seq(Byte)
          BY <1>1, Zenon DEF StreamTypes
        <4>3. Unread' \in Seq(Byte) /\ Unread = Unread' \o transit
          BY <4>1, <4>2, ConcatEmptySeq DEF Unread
        <4>4. DecodedInOrder' /\ FramesInOrder'
          BY <1>1, <3>1, <4>1, <4>2, <4>3, KeptStep, Zenon
        <4> QED
          BY <3>1, <4>1, <4>4, Zenon DEF InOrder
      <3>7. ASSUME Decode PROVE InOrder'
        BY <1>1, <1>2, <2>2, <3>7, DecodeStep, Zenon
      <3>8. ASSUME UNCHANGED vars PROVE InOrder'
        <4>1. /\ UNCHANGED <<written, ends, transit, arrived, eof, decoded, failure, excess>>
          BY <3>8, Zenon DEF vars
        <4>2. /\ <<>> \in Seq(Byte) /\ Unread \in Seq(Byte) /\ Unread' = Unread
              /\ Unread = Unread \o <<>>
          BY <1>1, <3>1, <4>1, StreamLengths, EmptySeq, ConcatEmptySeq DEF Unread
        <4>3. DecodedInOrder' /\ FramesInOrder'
          BY <1>1, <3>1, <4>1, <4>2, KeptStep, Zenon
        <4> QED
          BY <3>1, <4>1, <4>3, Zenon DEF InOrder
      <3> QED
        BY <3>2, <3>3, <3>4, <3>5, <3>6, <3>7, <3>8, Zenon DEF Next
    <2> QED
      BY <2>1, <2>2
  <1> QED
    BY <1>3, <1>4, <1>5, Zenon DEF IInv, InOrder

\* The bytes not yet read are those of the packets not yet returned, in every reachable
\* state, until something that is no packet is written.
THEOREM StreamInvariant == Spec => []IInv
  <1>1. Init => IInv
    BY InvariantInit
  <1>2. IInv /\ [Next]_vars => IInv'
    BY InvariantStep
  <1> QED
    BY <1>1, <1>2, PTL DEF Spec

-----------------------------------------------------------------------------
(* What follows from it. *)

\* Packets come out as they went in, in order, however the stream is cut
\* (protocol.go:24-53, 56-99).
THEOREM PacketsComeThrough == Spec => []PacketsSurvive
  <1>1. IInv => PacketsSurvive
    <2> SUFFICES ASSUME IInv, ~foul PROVE IsPrefix(decoded, written)
      BY DEF PacketsSurvive
    <2>1. StreamTypes /\ DecodedInOrder
      BY Zenon DEF IInv
    <2>2. /\ Len(decoded) \in Nat /\ Len(decoded) <= Len(written) /\ Len(written) \in Nat
      BY <2>1, StreamLengths, Zenon
    <2>3. /\ decoded \in Seq(Packets) /\ written \in Seq(Packets)
          /\ \A i \in 1..Len(decoded) : decoded[i] = written[i]
      BY <2>1 DEF StreamTypes, DecodedInOrder
    <2>4. SubSeq(decoded, 1, Len(decoded)) = decoded
      BY <2>3, SubSeqFull
    <2>5. SubSeq(written, 1, Len(decoded)) = decoded
      <3>1. \A i \in 1..Len(decoded) : written[i] \in Packets
        BY <2>2, <2>3, ElementOfSeq
      <3>2. /\ SubSeq(written, 1, Len(decoded)) \in Seq(Packets)
            /\ Len(SubSeq(written, 1, Len(decoded))) = Len(decoded)
            /\ \A i \in 1..Len(decoded) : SubSeq(written, 1, Len(decoded))[i] = written[i]
        BY <2>2, <3>1, SubSeqProperties
      <3> QED
        BY <2>3, <3>2, SeqEqual
    <2> QED
      BY <2>2, <2>4, <2>5 DEF IsPrefix
  <1> QED
    BY <1>1, StreamInvariant, PTL

\* A refusal or an error means what it says (protocol.go:29, 64).
THEOREM ErrorsHaveCauses == Spec => []ErrorsAreReal
  <1>1. IInv => ErrorsAreReal
    BY Zenon DEF IInv, ErrorsAreReal
  <1> QED
    BY <1>1, StreamInvariant, PTL

\* The reader never waits inside a packet that has arrived (protocol.go:59-72).
THEOREM WhatArrivesIsReturned == Spec => []NothingIsStuck
  <1>1. IInv => NothingIsStuck
    <2> SUFFICES ASSUME IInv, ~foul, transit = <<>>, ~eof, ~Complete
                 PROVE  decoded = written
      BY DEF NothingIsStuck
    <2>1. StreamTypes /\ DecodedInOrder /\ FramesInOrder
      BY Zenon DEF IInv
    <2>2. /\ Len(decoded) \in Nat /\ Len(decoded) <= Len(written) /\ Len(written) \in Nat
          /\ Len(Unread) = Len(arrived) + Len(transit) /\ Len(arrived) \in Nat
          /\ ReadSoFar \in Nat
      BY <2>1, StreamLengths, Zenon
    <2>3. Len(arrived) = Len(Unread)
      BY <2>2, EmptySeq
    <2>4. ReadSoFar + Len(arrived) = Begins(Len(written) + 1)
      BY <2>1, <2>3, Zenon DEF FramesInOrder
    <2>5. ASSUME Len(decoded) < Len(written) PROVE FALSE
      <3> DEFINE p == written[Len(decoded) + 1]
      <3>1. /\ p \in Packets
            /\ \E nulls \in {1, 2} :
                 /\ ReadSoFar + 4 + BodySize(p, nulls) <= Begins(Len(written) + 1)
                 /\ ends[Len(decoded) + 1] = ReadSoFar + 4 + BodySize(p, nulls)
        BY <2>1, <2>5, NextFrame, Zenon
      <3>2. PICK nulls \in {1, 2} :
               /\ ReadSoFar + 4 + BodySize(p, nulls) <= Begins(Len(written) + 1)
               /\ ends[Len(decoded) + 1] = ReadSoFar + 4 + BodySize(p, nulls)
        BY <3>1, Zenon
      <3>3. BodySize(p, nulls) \in Int /\ BodySize(p, nulls) >= 9
        <4>1. BodySize(p, nulls) \in 9..MaxInt32
          BY <3>1, FrameLayout, Zenon
        <4> QED
          BY <4>1
      <3>4. Len(arrived) >= 4 + BodySize(p, nulls) /\ Len(arrived) >= 4
        BY <2>2, <2>4, <3>2, <3>3
      <3>5. PICK m \in {1, 2} :
               /\ ends[Len(decoded) + 1] = ReadSoFar + 4 + BodySize(p, m)
               /\ Number(arrived) = BodySize(p, m)
        BY <2>1, <3>4, NextHeader, Zenon
      <3>6. BodySize(p, m) \in Int
        BY <3>1, FrameLayout
      <3> HIDE DEF p
      <3>7. BodySize(p, m) = BodySize(p, nulls)
        BY <2>2, <3>2, <3>3, <3>5, <3>6
      <3> QED
        BY <3>4, <3>5, <3>7, Zenon DEF Complete
    <2>6. Len(decoded) = Len(written)
      BY <2>2, <2>5
    <2>7. /\ decoded \in Seq(Packets) /\ written \in Seq(Packets)
          /\ \A i \in 1..Len(decoded) : decoded[i] = written[i]
      BY <2>1 DEF StreamTypes, DecodedInOrder
    <2> QED
      BY <2>6, <2>7, SeqEqual
  <1> QED
    BY <1>1, StreamInvariant, PTL

=============================================================================
