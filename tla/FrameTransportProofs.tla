------------------------ MODULE FrameTransportProofs ------------------------
(***************************************************************************)
(* What the media codec, the packetizer and the reassembly buffer promise  *)
(* together, for frames and limits of every size: the codec gives back     *)
(* what it was given, the decoder gets frames that were sent and each one  *)
(* once, the buffer stays within its limits, gives up its oldest frames    *)
(* first and never refuses legal traffic, and no loss goes uncounted.      *)
(***************************************************************************)
EXTENDS FrameTransport, FiniteSetTheorems, SequenceTheorems, TLAPS

-----------------------------------------------------------------------------
(***************************************************************************)
(* The codec.                                                              *)
(***************************************************************************)

\* Packets whose fields fit their widths, with a payload of the given bytes.
Packets(Byte) ==
    [type : {PacketTypes[t] : t \in DOMAIN PacketTypes},
     codec : {CodecIds[c] : c \in DOMAIN CodecIds}, layer : Nat,
     stream : 0..(U32 - 1), stamp : Nat, id : 0..(U32 - 1), key : BOOLEAN,
     seq : 0..(U32 - 1), index : 0..(U16 - 1), count : 0..(U16 - 1), end : BOOLEAN,
     payload : Seq(Byte), length : Nat]

Header(p) ==
    << ProtocolVersion, p.type, Flags(p), HeaderLength,
       p.stream % U32, p.seq % U32, p.id % U32, p.index % U16, p.count % U16,
       p.stamp, p.codec, p.layer, p.length % U16 >>

\* A number that fits its field is not changed by it.
LEMMA FieldKeeps == \A w \in Nat \ {0} : \A x \in 0..(w - 1) : x % w = x
OBVIOUS

\* The flags are read back as they were written.
LEMMA FlagsKeep ==
    ASSUME NEW p, p.key \in BOOLEAN, p.end \in BOOLEAN
    PROVE  /\ Flags(p) \in Nat
           /\ (Flags(p) % 2 = 1) = p.key
           /\ ((Flags(p) \div 2) % 2 = 1) = p.end
<1>1. CASE p.key = TRUE /\ p.end = TRUE
    <2>1. Flags(p) = 3
        BY <1>1 DEF Flags
    <2> QED BY <1>1, <2>1
<1>2. CASE p.key = TRUE /\ p.end = FALSE
    <2>1. Flags(p) = 1
        BY <1>2 DEF Flags
    <2> QED BY <1>2, <2>1
<1>3. CASE p.key = FALSE /\ p.end = TRUE
    <2>1. Flags(p) = 2
        BY <1>3 DEF Flags
    <2> QED BY <1>3, <2>1
<1>4. CASE p.key = FALSE /\ p.end = FALSE
    <2>1. Flags(p) = 0
        BY <1>4 DEF Flags
    <2> QED BY <1>4, <2>1
<1> QED BY <1>1, <1>2, <1>3, <1>4

\* What stands in the fields of an encoded packet.
LEMMA EncodedFields ==
    ASSUME NEW Byte, NEW p \in Packets(Byte), CanEncode(p)
    PROVE  LET d == Encode(p)
           IN  /\ Len(d) = 13 + p.length
               /\ d[1] = 1 /\ d[2] = p.type /\ d[3] = Flags(p) /\ d[4] = 13
               /\ d[5] = p.stream /\ d[6] = p.seq /\ d[7] = p.id
               /\ d[8] = p.index /\ d[9] = p.count /\ d[10] = p.stamp
               /\ d[11] = p.codec /\ d[12] = p.layer /\ d[13] = p.length
               /\ \A k \in 1..p.length : d[13 + k] = p.payload[k]
<1> DEFINE S == Int \cup Byte
           h == Header(p)
           d == h \o p.payload
<1>1. /\ p.stream % U32 = p.stream /\ p.seq % U32 = p.seq /\ p.id % U32 = p.id
      /\ p.index % U16 = p.index /\ p.count % U16 = p.count
    BY FieldKeeps, WidthAssumption DEF Packets
<1>2. p.length % U16 = p.length /\ p.length \in Nat /\ p.length = Len(p.payload)
    <2>1. p.length \in 0..(U16 - 1)
        BY WidthAssumption DEF Packets, CanEncode
    <2> QED BY <2>1, FieldKeeps, WidthAssumption DEF CanEncode, Packets
<1>3. p.type \in Int /\ p.codec \in Int /\ p.key \in BOOLEAN /\ p.end \in BOOLEAN
      /\ p.stream \in Int /\ p.seq \in Int /\ p.id \in Int /\ p.index \in Int /\ p.count \in Int
      /\ p.stamp \in Int /\ p.layer \in Int
    <2>1. p.type \in {1, 2, 3} /\ p.codec \in {1, 2, 3, 16}
        BY DEF Packets, PacketTypes, CodecIds
    <2> QED BY <2>1, WidthAssumption DEF Packets
<1>4. h = <<1, p.type, Flags(p), 13, p.stream, p.seq, p.id, p.index, p.count,
            p.stamp, p.codec, p.layer, p.length>>
    BY <1>1, <1>2 DEF Header, ProtocolVersion, HeaderLength
<1>5. Flags(p) \in Int
    BY <1>3, FlagsKeep
<1>6. h \in Seq(S) /\ Len(h) = 13
    <2> HIDE DEF h
    <2>1. \A k \in 1..13 : h[k] \in Int
        <3>1. \A k \in 1..13 : \/ k = 1 \/ k = 2 \/ k = 3 \/ k = 4 \/ k = 5 \/ k = 6 \/ k = 7
                               \/ k = 8 \/ k = 9 \/ k = 10 \/ k = 11 \/ k = 12 \/ k = 13
            OBVIOUS
        <3>2. /\ h[1] \in Int /\ h[2] \in Int /\ h[3] \in Int /\ h[4] \in Int
              /\ h[5] \in Int /\ h[6] \in Int /\ h[7] \in Int /\ h[8] \in Int
              /\ h[9] \in Int /\ h[10] \in Int /\ h[11] \in Int /\ h[12] \in Int /\ h[13] \in Int
            BY <1>2, <1>3, <1>4, <1>5
        <3> QED BY <3>1, <3>2
    <2>2. Len(h) = 13 /\ h = [k \in 1..13 |-> h[k]]
        BY <1>4
    <2> QED BY <2>1, <2>2
<1>7. p.payload \in Seq(S)
    <2>1. p.payload \in Seq(Byte)
        BY DEF Packets
    <2> QED BY <2>1, SeqMonotonic
<1>8. /\ Len(d) = 13 + Len(p.payload)
      /\ \A k \in 1..(13 + Len(p.payload)) : d[k] = IF k <= 13 THEN h[k] ELSE p.payload[k - 13]
    <2> HIDE DEF h, S
    <2>1. /\ Len(h \o p.payload) = Len(h) + Len(p.payload)
          /\ \A k \in 1..(Len(h) + Len(p.payload)) : (h \o p.payload)[k] =
                 IF k <= Len(h) THEN h[k] ELSE p.payload[k - Len(h)]
        BY <1>6, <1>7, ConcatProperties
    <2> QED BY <1>6, <2>1
<1>9. Encode(p) = d
    BY DEF Encode, Header
<1>10. ASSUME NEW k \in 1..13 PROVE d[k] = h[k]
    <2> HIDE DEF d, h
    <2> QED BY <1>8, <1>2
<1>11. ASSUME NEW k \in 1..p.length PROVE d[13 + k] = p.payload[k]
    <2> HIDE DEF d, h
    <2> QED BY <1>8, <1>2
<1>12. /\ h[1] = 1 /\ h[2] = p.type /\ h[3] = Flags(p) /\ h[4] = 13
       /\ h[5] = p.stream /\ h[6] = p.seq /\ h[7] = p.id
       /\ h[8] = p.index /\ h[9] = p.count /\ h[10] = p.stamp
       /\ h[11] = p.codec /\ h[12] = p.layer /\ h[13] = p.length
    <2> HIDE DEF h
    <2> QED BY <1>4
<1> HIDE DEF d, h
<1> QED BY <1>2, <1>8, <1>9, <1>10, <1>11, <1>12

\* What MediaPacket::encode writes, MediaPacket::decode reads, for every packet
\* whose fields fit and whose length field is right: the fields, the flags and the
\* payload come back, so the relay may take a datagram apart and encode it again.
THEOREM CodecRoundTrip ==
    ASSUME NEW Byte, NEW p \in Packets(Byte), CanEncode(p)
    PROVE  Decode(Encode(p)) = p /\ CanDecode(Encode(p))
<1> DEFINE d == Encode(p)
<1>1. /\ Len(d) = 13 + p.length
      /\ d[1] = 1 /\ d[2] = p.type /\ d[3] = Flags(p) /\ d[4] = 13
      /\ d[5] = p.stream /\ d[6] = p.seq /\ d[7] = p.id
      /\ d[8] = p.index /\ d[9] = p.count /\ d[10] = p.stamp
      /\ d[11] = p.codec /\ d[12] = p.layer /\ d[13] = p.length
    BY EncodedFields
<1>2. \A k \in 1..p.length : d[13 + k] = p.payload[k]
    BY EncodedFields
<1>3. p.length \in Nat /\ p.payload \in Seq(Byte) /\ p.length = Len(p.payload)
      /\ p.key \in BOOLEAN /\ p.end \in BOOLEAN
    BY DEF Packets, CanEncode
<1> HIDE DEF d
<1>4. SubSeq(d, 14, 13 + p.length) = p.payload
    <2> DEFINE n == 13 + p.length
               t == SubSeq(d, 14, n)
    <2>0. n \in Int /\ n = 13 + p.length
        BY <1>3
    <2> HIDE DEF n
    <2>1. \A i \in 14..n : d[i] \in Byte
        <3> SUFFICES ASSUME NEW i \in 14..n PROVE d[i] \in Byte
            OBVIOUS
        <3>1. i - 13 \in 1..p.length /\ 13 + (i - 13) = i
            BY <1>3, <2>0
        <3>2. p.payload[i - 13] \in Byte
            BY <1>3, <3>1, ElementOfSeq
        <3> QED BY <1>2, <3>1, <3>2
    <2>2. /\ t \in Seq(Byte)
          /\ Len(t) = IF 14 <= n THEN n - 14 + 1 ELSE 0
          /\ \A i \in 1..(n - 14 + 1) : t[i] = d[14 + i - 1]
        <3>1. 14 \in Int /\ n \in Int /\ \A i \in 14..n : d[i] \in Byte
            BY <2>0, <2>1
        <3>2. /\ SubSeq(d, 14, n) \in Seq(Byte)
              /\ Len(SubSeq(d, 14, n)) = IF 14 <= n THEN n - 14 + 1 ELSE 0
              /\ \A i \in 1..(n - 14 + 1) : SubSeq(d, 14, n)[i] = d[14 + i - 1]
            BY <3>1, SubSeqProperties
        <3> QED BY <3>2
    <2> HIDE DEF t
    <2>3. Len(t) = Len(p.payload)
        BY <1>3, <2>0, <2>2
    <2>4. ASSUME NEW i \in 1..Len(t) PROVE t[i] = p.payload[i]
        <3>1. i \in 1..p.length /\ i \in 1..(n - 14 + 1) /\ 14 + i - 1 = 13 + i
            BY <1>3, <2>0, <2>3
        <3> QED BY <1>2, <2>2, <3>1
    <2>5. t = p.payload
        BY <1>3, <2>2, <2>3, <2>4, SeqEqual
    <2> QED BY <2>0, <2>5 DEF t
<1>5. (d[3] % 2 = 1) = p.key /\ ((d[3] \div 2) % 2 = 1) = p.end
    BY <1>1, <1>3, FlagsKeep
<1>6. Decode(d) = [type |-> p.type, key |-> p.key, end |-> p.end,
                   stream |-> p.stream, seq |-> p.seq, id |-> p.id, index |-> p.index,
                   count |-> p.count, stamp |-> p.stamp, codec |-> p.codec,
                   layer |-> p.layer, length |-> p.length, payload |-> p.payload]
    <2>1. SubSeq(d, d[4] + 1, d[4] + d[13]) = p.payload
        <3>1. d[4] + 1 = 14 /\ d[4] + d[13] = 13 + p.length
            BY <1>1
        <3> QED BY <1>4, <3>1
    <2> QED BY <1>1, <1>5, <2>1 DEF Decode
<1>7. Decode(d) = p
    BY <1>6 DEF Packets
<1>8. CanDecode(d)
    <2>1. IsValid(Decode(d))
        BY <1>7 DEF CanEncode
    <2>2. (\E t \in DOMAIN PacketTypes : d[2] = PacketTypes[t])
          /\ (\E c \in DOMAIN CodecIds : d[11] = CodecIds[c])
        BY <1>1 DEF Packets
    <2>3. Len(d) >= 13 /\ d[4] = 13 /\ d[1] = 1
        BY <1>1, <1>3
    <2> QED BY <1>1, <1>3, <2>1, <2>2, <2>3, SMTT(30) DEF CanDecode, HeaderLength, ProtocolVersion
<1> QED BY <1>7, <1>8 DEF d

-----------------------------------------------------------------------------
(***************************************************************************)
(* Packetizing: the fragments cut a frame without gap or overlap, and      *)
(* putting them after each other gives the frame back.                     *)
(***************************************************************************)

\* A set of numbers that is not empty has a least one.
LEMMA LeastNumber ==
    ASSUME NEW B, B \subseteq Nat, B # {}
    PROVE  \E n \in B : \A m \in B : n <= m
<1>1. IsWellFoundedOn(OpToRel(<, Nat), Nat)
    BY NatLessThanWellFounded
<1>2. PICK n \in B : \A m \in B : ~(<<m, n>> \in OpToRel(<, Nat))
    BY <1>1, WFMin
<1>3. ASSUME NEW m \in B PROVE n <= m
    <2>1. m \in Nat /\ n \in Nat
        OBVIOUS
    <2>2. ~(m < n)
        BY <1>2, <2>1 DEF OpToRel
    <2> QED BY <2>1, <2>2
<1> QED BY <1>3

\* Each recursive step of FlattenSeq.
IsFlattening(f, parts) ==
    f = [i \in 1..Len(parts) |-> IF i = 1 THEN parts[i] ELSE f[i - 1] \o parts[i]]

\* The n parts are sequence b, cut at the ascending places e.
Cuts(parts, b, n, e) ==
    /\ e \in [0..n -> 0..Len(b)] /\ e[0] = 0 /\ e[n] = Len(b)
    /\ \A i \in 1..n : e[i - 1] <= e[i]
    /\ parts = [i \in 1..n |-> SubSeq(b, e[i - 1] + 1, e[i])]

\* A sequence cut at ascending places is its parts one after the other.
LEMMA FlattenCuts ==
    ASSUME NEW S, NEW b \in Seq(S), NEW n \in Nat \ {0}, NEW e, NEW parts, Cuts(parts, b, n, e)
    PROVE  FlattenSeq(parts) = b
<1> DEFINE g == [i \in 1..n |-> SubSeq(b, 1, e[i])]
<1>c. /\ e \in [0..n -> 0..Len(b)] /\ e[0] = 0 /\ e[n] = Len(b)
      /\ \A i \in 1..n : e[i - 1] <= e[i]
      /\ \A i \in 1..n : parts[i] = SubSeq(b, e[i - 1] + 1, e[i])
    BY DEF Cuts
<1>b. Len(b) \in Nat
    BY LenProperties
<1>1. Len(parts) = n
    BY LenProperties DEF Cuts
<1>2. ASSUME NEW i \in 1..n PROVE g[i] = IF i = 1 THEN parts[i] ELSE g[i - 1] \o parts[i]
    <2>1. CASE i = 1
        <3>1. e[i - 1] = 0 /\ e[i - 1] + 1 = 1
            BY <1>c, <2>1
        <3> QED BY <1>c, <2>1, <3>1
    <2>2. CASE i # 1
        <3>1. i - 1 \in 1..n /\ i - 1 \in 0..n /\ i \in 0..n
            BY <2>2
        <3>0. e[i - 1] \in 0..Len(b) /\ e[i] \in 0..Len(b) /\ e[i - 1] <= e[i]
            BY <1>c, <3>1
        <3>2. e[i - 1] \in 0..Len(b) /\ e[i] \in e[i - 1]..Len(b) /\ Len(b) \in Nat
            BY <1>b, <3>0
        <3>3. SubSeq(b, 1, e[i - 1]) \o SubSeq(b, e[i - 1] + 1, e[i]) = SubSeq(b, 1, e[i])
            <4>1. 1 \in 1..(Len(b) + 1) /\ e[i - 1] \in (1 - 1)..Len(b)
                BY <3>2
            <4> QED BY <3>2, <4>1, ConcatAdjacentSubSeq
        <3> QED BY <1>c, <2>2, <3>1, <3>3
    <2> QED BY <2>1, <2>2
<1>3. IsFlattening(g, parts)
    <2> DEFINE h == [i \in 1..n |-> IF i = 1 THEN parts[i] ELSE g[i - 1] \o parts[i]]
    <2>1. g = [i \in 1..n |-> g[i]]
        OBVIOUS
    <2>2. g = h
        <3>1. \A i \in 1..n : g[i] = h[i]
            <4> HIDE DEF g
            <4> QED BY <1>2
        <3>2. DOMAIN g = 1..n /\ DOMAIN h = 1..n
            OBVIOUS
        <3>3. h = [i \in 1..n |-> h[i]]
            <4> HIDE DEF g
            <4> QED OBVIOUS
        <3> HIDE DEF g, h
        <3> QED BY <2>1, <3>1, <3>3
    <2> HIDE DEF g
    <2> QED BY <1>1, <2>2 DEF IsFlattening
<1> DEFINE f == CHOOSE f : IsFlattening(f, parts)
<1>4. IsFlattening(f, parts)
    BY <1>3
<1>5. FlattenSeq(parts) = f[n]
    BY <1>1 DEF FlattenSeq, IsFlattening
<1> HIDE DEF f
<1> DEFINE Bad == {i \in 1..n : f[i] # g[i]}
<1>6. Bad = {}
    <2> SUFFICES ASSUME Bad # {} PROVE FALSE
        OBVIOUS
    <2>1. PICK i \in Bad : \A j \in Bad : i <= j
        <3>1. Bad \subseteq Nat
            OBVIOUS
        <3> HIDE DEF Bad
        <3> QED BY <3>1, LeastNumber
    <2> HIDE DEF g
    <2>2. f[i] = IF i = 1 THEN parts[i] ELSE f[i - 1] \o parts[i]
        <3>1. f = [k \in 1..n |-> IF k = 1 THEN parts[k] ELSE f[k - 1] \o parts[k]]
            BY <1>1, <1>4 DEF IsFlattening
        <3> QED BY <3>1
    <2>3. i # 1
        BY <1>2, <2>2
    <2>4. i - 1 \in 1..n /\ ~(i <= i - 1)
        BY <2>3
    <2>5. f[i - 1] = g[i - 1]
        BY <2>1, <2>4
    <2>6. i \in 1..n /\ f[i] # g[i]
        OBVIOUS
    <2>7. g[i] = g[i - 1] \o parts[i]
        BY <1>2, <2>3, <2>6
    <2>8. f[i] = f[i - 1] \o parts[i]
        BY <2>2, <2>3
    <2> HIDE DEF Bad, g
    <2> QED BY <2>5, <2>6, <2>7, <2>8
<1>7. n \in 1..n /\ g[n] = SubSeq(b, 1, Len(b))
    <2>1. n \in 1..n
        OBVIOUS
    <2>2. g[n] = SubSeq(b, 1, e[n])
        BY <2>1
    <2> QED BY <1>c, <2>1, <2>2
<1>8. SubSeq(b, 1, Len(b)) = b
    BY SubSeqFull
<1> QED BY <1>5, <1>6, <1>7, <1>8

\* Where fragment i of a frame begins, from 0.
Start(i) == i * MaxPayload

\* Later fragments begin later, a payload after each other.
LEMMA Starts ==
    /\ Start(0) = 0
    /\ \A i \in Nat : Start(i) \in Nat /\ Start(i + 1) = Start(i) + MaxPayload
    /\ \A i, j \in Nat : i <= j => Start(i) <= Start(j)
<1>1. MaxPayload \in Nat
    BY TransportAssumption, WidthAssumption
<1>2. ASSUME NEW i \in Nat PROVE Start(i) \in Nat /\ Start(i + 1) = Start(i) + MaxPayload
    <2>1. i * MaxPayload \in Nat
        BY <1>1
    <2>2. (i + 1) * MaxPayload = i * MaxPayload + MaxPayload
        BY <1>1
    <2> QED BY <2>1, <2>2 DEF Start
<1>3. ASSUME NEW i \in Nat, NEW j \in Nat, i <= j PROVE Start(i) <= Start(j)
    <2>1. PICK k \in Nat : j = i + k
        <3>1. j - i \in Nat /\ j = i + (j - i)
            BY <1>3
        <3> QED BY <3>1
    <2>2. (i + k) * MaxPayload = i * MaxPayload + k * MaxPayload /\ k * MaxPayload \in Nat
        BY <1>1
    <2>3. i * MaxPayload \in Nat
        BY <1>1
    <2> QED BY <2>1, <2>2, <2>3 DEF Start
<1>4. Start(0) = 0
    BY <1>1 DEF Start
<1> QED BY <1>2, <1>3, <1>4

\* A frame has as many fragments as its bytes need, and at least one.
LEMMA CountBounds ==
    ASSUME NEW size \in Nat
    PROVE  LET n == FragmentCount(size)
           IN  /\ n \in Nat \ {0}
               /\ size <= Start(n)
               /\ Start(n - 1) < size \/ (n = 1 /\ size = 0)
<1>1. MaxPayload \in Nat \ {0}
    BY TransportAssumption, WidthAssumption
<1>2. CASE size = 0
    BY <1>2, Starts DEF FragmentCount
<1>3. CASE size # 0
    <2> DEFINE a == size + MaxPayload - 1
               q == a \div MaxPayload
               r == a % MaxPayload
    <2>1. a \in Nat
        BY <1>1
    <2>2. q \in Int /\ r \in 0..(MaxPayload - 1) /\ a = MaxPayload * q + r
        BY <1>1, <2>1
    <2>3. FragmentCount(size) = q
        BY <1>3 DEF FragmentCount
    <2> HIDE DEF q, r
    <2>4. q >= 1
        <3> SUFFICES ASSUME q <= 0 PROVE FALSE
            BY <2>2
        <3>1. MaxPayload * q <= 0
            BY <1>1, <2>2
        <3> QED BY <1>1, <1>3, <2>2, <3>1
    <2>5. Start(q) = MaxPayload * q /\ q \in Nat /\ q - 1 \in Nat
        BY <1>1, <2>2, <2>4 DEF Start
    <2>6. Start((q - 1) + 1) = Start(q - 1) + MaxPayload /\ Start(q - 1) \in Nat /\ (q - 1) + 1 = q
        BY <2>5, Starts
    <2> QED BY <1>1, <2>2, <2>3, <2>4, <2>5, <2>6
<1> QED BY <1>2, <1>3

\* Each fragment ends where the next one begins, the last one with the frame.
LEMMA EndBounds ==
    ASSUME NEW size \in Nat, NEW i \in 0..(FragmentCount(size) - 1)
    PROVE  /\ FragmentEnd(size, i) \in Start(i)..size
           /\ FragmentEnd(size, i) - Start(i) <= MaxPayload
           /\ FragmentEnd(size, i) = IF i + 1 = FragmentCount(size) THEN size ELSE Start(i + 1)
<1> DEFINE n == FragmentCount(size)
<1>1. /\ n \in Nat \ {0} /\ size <= Start(n)
      /\ Start(n - 1) < size \/ (n = 1 /\ size = 0)
    BY CountBounds
<1>2. i \in 0..(n - 1)
    OBVIOUS
<1> HIDE DEF n
<1>3. /\ i \in Nat /\ i + 1 \in Nat /\ n - 1 \in Nat /\ i <= n - 1
      /\ i + 1 <= n - 1 \/ i + 1 = n
    BY <1>1, <1>2
<1>4. Start(i) \in Nat /\ Start(i + 1) = Start(i) + MaxPayload /\ Start(i) <= Start(n - 1)
    BY <1>3, Starts
<1>5. FragmentEnd(size, i) = IF Start(i + 1) < size THEN Start(i + 1) ELSE size
    BY DEF FragmentEnd, Start
<1>6. MaxPayload \in Nat \ {0}
    BY TransportAssumption, WidthAssumption
<1>7. CASE i + 1 = n
    <2>1. FragmentEnd(size, i) = size
        BY <1>1, <1>5, <1>7, <1>4, <1>6
    <2>2. Start(i) <= size
        <3>1. i = n - 1 /\ (n = 1 => i = 0) /\ Start(0) = 0
            BY <1>3, <1>7, Starts
        <3>2. Start(n - 1) = Start(i)
            BY <3>1
        <3>3. n = 1 => Start(i) = 0
            BY <3>1
        <3> QED BY <1>1, <1>4, <3>2, <3>3
    <2> QED BY <1>1, <1>4, <1>6, <1>7, <2>1, <2>2 DEF n
<1>8. CASE i + 1 <= n - 1 /\ i + 1 # n
    <2>1. Start(i + 1) <= Start(n - 1) /\ Start(n - 1) \in Nat
        BY <1>3, <1>8, Starts
    <2>2. Start(i + 1) < size
        BY <1>1, <1>3, <1>4, <1>6, <1>8, <2>1
    <2> QED BY <1>4, <1>5, <1>6, <1>8, <2>2 DEF n
<1> QED BY <1>3, <1>7, <1>8

Frames ==
    {f \in [stamp : Nat, id : 0..(U32 - 1), key : BOOLEAN, size : Nat] :
        FragmentCount(f.size) < U16}

Byte == Nat \X Nat

\* A frame's bytes are a sequence of as many bytes.
LEMMA BytesType ==
    ASSUME NEW f \in Frames
    PROVE  Bytes(f) \in Seq(Byte) /\ Len(Bytes(f)) = f.size
<1>1. f.size \in Nat /\ f.stamp \in Nat
    BY DEF Frames
<1>2. Bytes(f) \in [1..f.size -> Byte]
    BY <1>1 DEF Bytes, Byte
<1> QED BY <1>1, <1>2

\* The payload of fragment i of frame f.
Payload(f, i) == SubSeq(Bytes(f), i * MaxPayload + 1, FragmentEnd(f.size, i))

\* A payload is no longer than a fragment may be.
LEMMA PayloadType ==
    ASSUME NEW f \in Frames, NEW i \in 0..(FragmentCount(f.size) - 1)
    PROVE  Payload(f, i) \in Seq(Byte) /\ Len(Payload(f, i)) \in 0..MaxPayload
<1> DEFINE m == Start(i) + 1
           e == FragmentEnd(f.size, i)
<1>1. f.size \in Nat /\ MaxPayload \in Nat
    BY TransportAssumption, WidthAssumption DEF Frames
<1>2. e \in Start(i)..f.size /\ e - Start(i) <= MaxPayload
    BY <1>1, EndBounds
<1>3. i \in Nat /\ Start(i) \in Nat
    <2>1. FragmentCount(f.size) \in Nat
        BY <1>1, CountBounds
    <2>2. i \in Nat
        BY <2>1
    <2> QED BY <2>2, Starts
<1>4. Payload(f, i) = SubSeq(Bytes(f), m, e)
    BY DEF Payload, Start
<1> HIDE DEF m, e
<1>5. m \in Nat /\ e \in Nat /\ m >= 1 /\ e <= f.size /\ e - m + 1 <= MaxPayload /\ e - m + 1 >= 0
    BY <1>1, <1>2, <1>3 DEF m
<1>6. \A k \in m..e : Bytes(f)[k] \in Byte
    <2> SUFFICES ASSUME NEW k \in m..e PROVE Bytes(f)[k] \in Byte
        OBVIOUS
    <2>1. k \in 1..Len(Bytes(f))
        BY <1>1, <1>5, BytesType
    <2> QED BY <2>1, BytesType, ElementOfSeq
<1>7. /\ SubSeq(Bytes(f), m, e) \in Seq(Byte)
      /\ Len(SubSeq(Bytes(f), m, e)) = IF m <= e THEN e - m + 1 ELSE 0
    <2>1. m \in Int /\ e \in Int
        BY <1>5
    <2> QED BY <1>6, <2>1, SubSeqProperties
<1>8. Len(Payload(f, i)) \in 0..MaxPayload
    BY <1>1, <1>4, <1>5, <1>7
<1> QED BY <1>4, <1>7, <1>8

\* The fragments of a frame one after the other are its bytes.
LEMMA PayloadsMakeFrame ==
    ASSUME NEW f \in Frames
    PROVE  FlattenSeq([i \in 1..FragmentCount(f.size) |-> Payload(f, i - 1)]) = Bytes(f)
<1> DEFINE n == FragmentCount(f.size)
           e == [i \in 0..n |-> IF i = 0 THEN 0 ELSE FragmentEnd(f.size, i - 1)]
           parts == [i \in 1..n |-> Payload(f, i - 1)]
<1>1. f.size \in Nat /\ n \in Nat \ {0}
    BY CountBounds DEF Frames
<1>2. Bytes(f) \in Seq(Byte) /\ Len(Bytes(f)) = f.size
    BY BytesType
<1>3. ASSUME NEW i \in 1..n
      PROVE  /\ i - 1 \in 0..(n - 1) /\ i - 1 \in Nat
             /\ FragmentEnd(f.size, i - 1) \in Start(i - 1)..f.size
             /\ FragmentEnd(f.size, i - 1) = IF i = n THEN f.size ELSE Start(i)
             /\ Start(i - 1) \in Nat
    <2>1. i - 1 \in 0..(n - 1) /\ i - 1 \in Nat /\ (i - 1) + 1 = i
        BY <1>1
    <2>2. /\ FragmentEnd(f.size, i - 1) \in Start(i - 1)..f.size
          /\ FragmentEnd(f.size, i - 1) = IF (i - 1) + 1 = n THEN f.size ELSE Start((i - 1) + 1)
        BY <1>1, <2>1, EndBounds
    <2> HIDE DEF n
    <2> QED BY <2>1, <2>2, Starts
<1> HIDE DEF n
<1>4. \A i \in 1..n : e[i - 1] = Start(i - 1) /\ e[i] = FragmentEnd(f.size, i - 1)
    <2> SUFFICES ASSUME NEW i \in 1..n
                 PROVE  e[i - 1] = Start(i - 1) /\ e[i] = FragmentEnd(f.size, i - 1)
        OBVIOUS
    <2>1. e[i] = FragmentEnd(f.size, i - 1)
        BY <1>1
    <2>2. CASE i = 1
        BY <1>1, <2>1, <2>2, Starts
    <2>3. CASE i # 1
        <3>1. i - 1 \in 1..n /\ i - 1 # n /\ i - 1 # 0
            BY <1>1, <2>3
        <3>2. FragmentEnd(f.size, (i - 1) - 1) = Start(i - 1)
            BY <1>3, <3>1
        <3> QED BY <1>1, <2>1, <3>1, <3>2
    <2> QED BY <2>2, <2>3
<1>5. e \in [0..n -> 0..Len(Bytes(f))]
    <2> SUFFICES ASSUME NEW i \in 0..n
                 PROVE  (IF i = 0 THEN 0 ELSE FragmentEnd(f.size, i - 1)) \in 0..f.size
        BY <1>2
    <2>1. CASE i = 0
        BY <1>1, <2>1
    <2>2. CASE i # 0
        <3>1. i \in 1..n
            BY <1>1, <2>2
        <3> QED BY <1>1, <1>3, <2>2, <3>1
    <2> QED BY <2>1, <2>2
<1>6. e[0] = 0 /\ e[n] = Len(Bytes(f))
    <2>1. n \in 1..n /\ 0 \in 0..n
        BY <1>1
    <2> QED BY <1>2, <1>3, <1>4, <2>1
<1>7. \A i \in 1..n : e[i - 1] <= e[i]
    <2> SUFFICES ASSUME NEW i \in 1..n PROVE e[i - 1] <= e[i]
        OBVIOUS
    <2> HIDE DEF e
    <2> QED BY <1>1, <1>3, <1>4
<1>8. parts = [i \in 1..n |-> SubSeq(Bytes(f), e[i - 1] + 1, e[i])]
    <2> SUFFICES ASSUME NEW i \in 1..n
                 PROVE  Payload(f, i - 1) = SubSeq(Bytes(f), e[i - 1] + 1, e[i])
        OBVIOUS
    <2> HIDE DEF e
    <2> QED BY <1>4 DEF Payload, Start
<1> HIDE DEF e, parts
<1>9. FlattenSeq(parts) = Bytes(f)
    <2> DEFINE b == Bytes(f)
    <2>1. b \in Seq(Byte) /\ Cuts(parts, b, n, e)
        BY <1>2, <1>5, <1>6, <1>7, <1>8 DEF Cuts
    <2> HIDE DEF b
    <2>2. FlattenSeq(parts) = b
        BY <1>1, <2>1, FlattenCuts
    <2> QED BY <2>2 DEF b
<1> QED BY <1>9 DEF parts, n

\* Packet p is a fragment of frame f, with whatever sequence number.
FragmentOf(p, f) ==
    /\ p \in Packets(Byte) /\ CanEncode(p)
    /\ p.stamp = f.stamp /\ p.id = f.id /\ p.key = f.key
    /\ p.type = PacketTypes.Video /\ p.codec = CodecIds.H264 /\ p.layer = 0 /\ p.stream = 1
    /\ p.count = FragmentCount(f.size) /\ p.index \in 0..(FragmentCount(f.size) - 1)
    /\ p.end = (p.index + 1 = FragmentCount(f.size))
    /\ p.payload = Payload(f, p.index)

\* The packetizer's fragments can all be encoded: their numbers and lengths fit.
LEMMA FragmentFacts ==
    ASSUME NEW f \in Frames, NEW s \in Nat, NEW i \in 0..(FragmentCount(f.size) - 1)
    PROVE  FragmentOf(Fragment(f, s, i), f) /\ Fragment(f, s, i).index = i
<1> DEFINE n == FragmentCount(f.size)
           p == [type |-> 1, codec |-> 1, layer |-> 0, stream |-> 1,
                 stamp |-> f.stamp, id |-> f.id, key |-> f.key,
                 seq |-> (s + i) % U32, index |-> i, count |-> n, end |-> (i + 1 = n),
                 payload |-> Payload(f, i), length |-> Len(Payload(f, i))]
<1>1. Fragment(f, s, i) = p
    BY DEF Fragment, Payload, PacketTypes, CodecIds
<1>2. /\ f.stamp \in Nat /\ f.id \in 0..(U32 - 1) /\ f.key \in BOOLEAN /\ f.size \in Nat
      /\ n < U16 /\ n \in Nat \ {0}
    BY CountBounds DEF Frames
<1>3. Payload(f, i) \in Seq(Byte) /\ Len(Payload(f, i)) \in 0..MaxPayload
    BY PayloadType
<1>4. i \in 0..(n - 1)
    OBVIOUS
<1> HIDE DEF n
<1>5. i \in Nat /\ i < n /\ n \in 0..(U16 - 1) /\ i \in 0..(U16 - 1)
    BY <1>2, <1>4, WidthAssumption
<1>6. (s + i) % U32 \in 0..(U32 - 1) /\ 1 \in 0..(U32 - 1)
    BY <1>5, WidthAssumption
<1>7. Len(Payload(f, i)) \in Nat /\ Len(Payload(f, i)) < U16
    <2>1. MaxPayload \in 1..(U16 - 1) /\ U16 \in Nat
        BY TransportAssumption, WidthAssumption
    <2> HIDE DEF p
    <2> QED BY <1>3, <2>1
<1>8. 1 \in {PacketTypes[t] : t \in DOMAIN PacketTypes} /\ 1 \in {CodecIds[c] : c \in DOMAIN CodecIds}
    BY DEF PacketTypes, CodecIds
<1>9. p \in Packets(Byte)
    BY <1>2, <1>3, <1>5, <1>6, <1>7, <1>8 DEF Packets
<1>10. IsValid(p)
    BY <1>2, <1>5 DEF IsValid, PacketTypes, CodecIds
<1>11. CanEncode(p)
    BY <1>7, <1>10 DEF CanEncode
<1>12. /\ p.stamp = f.stamp /\ p.id = f.id /\ p.key = f.key
       /\ p.type = 1 /\ p.codec = 1 /\ p.layer = 0 /\ p.stream = 1
       /\ p.count = n /\ p.index = i /\ p.end = (i + 1 = n)
       /\ p.payload = Payload(f, i)
    OBVIOUS
<1> HIDE DEF p
<1> QED BY <1>1, <1>4, <1>9, <1>11, <1>12 DEF FragmentOf, PacketTypes, CodecIds, n

\* A fragment arrives as it was sent: the relay's decoding and encoding and the
\* viewer's decoding change nothing.
LEMMA FragmentTravels ==
    ASSUME NEW p, NEW f, FragmentOf(p, f)
    PROVE  Decode(Encode(p)) = p /\ CanDecode(Encode(p))
BY CodecRoundTrip DEF FragmentOf

-----------------------------------------------------------------------------
(***************************************************************************)
(* Numbers that wrap around.                                               *)
(***************************************************************************)

\* How far y is behind x.
LEMMA ModDifference ==
    \A x, y \in 0..(U32 - 1) : (x - y) % U32 = IF x >= y THEN x - y ELSE x - y + U32
<1> SUFFICES ASSUME NEW x \in 0..(U32 - 1), NEW y \in 0..(U32 - 1)
             PROVE  (x - y) % U32 = IF x >= y THEN x - y ELSE x - y + U32
    OBVIOUS
<1> DEFINE q == (x - y) \div U32
           r == (x - y) % U32
<1>1. U32 \in Nat /\ U32 > 1 /\ x \in Int /\ y \in Int
    BY WidthAssumption
<1>2. q \in Int /\ r \in 0..(U32 - 1) /\ x - y = U32 * q + r
    BY <1>1
<1> HIDE DEF q, r
<1>3. q <= 0
    <2> SUFFICES ASSUME q >= 1 PROVE FALSE
        BY <1>2
    <2>1. U32 * q >= U32
        BY <1>1, <1>2
    <2> QED BY <1>1, <1>2, <2>1
<1>4. q >= -1
    <2> SUFFICES ASSUME q <= -2 PROVE FALSE
        BY <1>2
    <2>1. U32 * q <= U32 * (-2)
        BY <1>1, <1>2
    <2> QED BY <1>1, <1>2, <2>1
<1>5. CASE q = 0
    <2>1. U32 * q = 0
        BY <1>1, <1>5
    <2>2. r = x - y /\ x >= y
        BY <1>1, <1>2, <2>1
    <2> QED BY <2>2 DEF r
<1>6. CASE q = -1
    <2>1. U32 * q = -U32
        BY <1>1, <1>6
    <2>2. r = x - y + U32 /\ ~(x >= y)
        BY <1>1, <1>2, <2>1
    <2> QED BY <2>2 DEF r
<1>7. q = 0 \/ q = -1
    BY <1>2, <1>3, <1>4
<1> QED BY <1>5, <1>6, <1>7

\* Two steps are together no shorter than the way they lead.
LEMMA ModTriangle ==
    ASSUME NEW a \in 0..(U32 - 1), NEW b \in 0..(U32 - 1), NEW c \in 0..(U32 - 1)
    PROVE  /\ (a - c) % U32 <= ((b - c) % U32) + ((a - b) % U32)
           /\ (a - c) % U32 \in Nat /\ (b - c) % U32 \in Nat /\ (a - b) % U32 \in Nat
<1> DEFINE D(x, y) == (x - y) % U32
<1>1. \A x, y \in 0..(U32 - 1) : D(x, y) = IF x >= y THEN x - y ELSE x - y + U32
    BY ModDifference
<1> HIDE DEF D
<1>2. /\ D(a, c) = IF a >= c THEN a - c ELSE a - c + U32
      /\ D(b, c) = IF b >= c THEN b - c ELSE b - c + U32
      /\ D(a, b) = IF a >= b THEN a - b ELSE a - b + U32
    BY <1>1
<1>3. D(a, c) <= D(b, c) + D(a, b) /\ D(a, c) \in Nat /\ D(b, c) \in Nat /\ D(a, b) \in Nat
    BY <1>2, WidthAssumption
<1> QED BY <1>3 DEF D

-----------------------------------------------------------------------------
(***************************************************************************)
(* What is under way and what is pending are fragments of frames sent.     *)
(***************************************************************************)
FramesOk ==
    /\ joined \in Nat /\ nextSeq \in 0..(U32 - 1)
    /\ sent \in Seq(Frames)
    /\ \A j \in 1..Len(sent) : sent[j].stamp = joined + j /\ sent[j].id = (joined + j) % U32

\* Fragments of frames sent: datagrams under way as they were encoded, and the
\* pending ones under their frame's id.
NetOk ==
    \A d \in net : /\ \E j \in 1..Len(sent) : FragmentOf(Decode(d), sent[j])
                   /\ d = Encode(Decode(d))

PendingOk ==
    /\ IsFiniteSet(DOMAIN pending) /\ DOMAIN pending \subseteq 0..(U32 - 1)
    /\ \A id \in DOMAIN pending :
          /\ IsFiniteSet(pending[id]) /\ pending[id] # {}
          /\ \A p \in pending[id] :
                p.id = id /\ \E j \in 1..Len(sent) : FragmentOf(p, sent[j])

Travel == FramesOk /\ NetOk /\ PendingOk

SameFragment(p, q) == p.stamp = q.stamp /\ p.index = q.index

\* No fragment is in two places, and nothing is left of a frame in front of the
\* viewer once it is delivered.
Unique ==
    /\ \A d, e \in net : SameFragment(Decode(d), Decode(e)) => d = e
    /\ \A d \in net : \A id \in DOMAIN pending : \A p \in pending[id] :
          ~SameFragment(p, Decode(d))
    /\ \A id \in DOMAIN pending : \A p, q \in pending[id] : SameFragment(p, q) => p = q
    /\ \A d \in net : \A k \in 1..Len(delivered) : delivered[k].stamp # Decode(d).stamp

\* The frame the decoder should get for a frame that was sent.
Delivery(f) == [stamp |-> f.stamp, id |-> f.id, key |-> f.key, bytes |-> Bytes(f)]

DeliveredOk == delivered \in Seq({Delivery(f) : f \in Frames}) /\ DeliveredIsSent

Counters ==
    /\ received \in Nat /\ lost \in Nat
    /\ lastSeq = None \/ (lastSeq \in 0..(U32 - 1) /\ firstSeq \in 0..(U32 - 1))
    /\ LossIsCounted

\* The steps of Push, one operator each.
Before(p) == IF p.id \in MakeRoomFor(p.id) THEN pending[p.id] ELSE {}

Held(p) == MakeRoomFor(p.id) \cup {p.id}

IsDuplicate(p) == \E q \in Before(p) : q.index = p.index

Completes(p) == IsComplete(Before(p) \cup {p}, p)

Refused(p) == IsDuplicate(p) \/ (Completes(p) /\ ~Reassembles(Before(p) \cup {p}))

Left(p) == IF IsDuplicate(p) THEN MakeRoomFor(p.id)
           ELSE IF Completes(p) THEN Held(p) \ {p.id}
           ELSE EvictMediaBudget(Held(p))

\* What the buffer holds after a push.
LEMMA PushUnfolds ==
    ASSUME NEW p
    PROVE  /\ DOMAIN Push(p).pending = Left(p)
           /\ \A id \in Left(p) : Push(p).pending[id] =
                 IF ~IsDuplicate(p) /\ id = p.id THEN Before(p) \cup {p} ELSE pending[id]
           /\ Push(p).frame = IF Completes(p) /\ ~Refused(p)
                              THEN <<Reassemble(Before(p) \cup {p})>> ELSE << >>
           /\ Push(p).error = Refused(p)
<1> DEFINE buffer == [id \in Held(p) |-> IF id = p.id THEN Before(p) \cup {p} ELSE pending[id]]
<1>1. buffer[p.id] = Before(p) \cup {p} /\ DOMAIN buffer = Held(p)
    BY DEF Held
<1>2. /\ Push(p).pending = [id \in Left(p) |-> IF IsDuplicate(p) THEN pending[id] ELSE buffer[id]]
      /\ Push(p).frame = IF Completes(p) /\ ~Refused(p) THEN <<Reassemble(buffer[p.id])>> ELSE << >>
      /\ Push(p).error = Refused(p)
    BY <1>1 DEF Push, Left, Completes, Refused, IsDuplicate, Before, Held
<1>3. \A id \in Left(p) : id \in Held(p)
    BY DEF Left, Held, EvictMediaBudget, WithoutSmallest
<1> HIDE DEF buffer
<1>4. \A id \in Held(p) : buffer[id] = IF id = p.id THEN Before(p) \cup {p} ELSE pending[id]
    BY DEF buffer
<1>5. DOMAIN Push(p).pending = Left(p)
    BY <1>2
<1>6. \A id \in Left(p) : Push(p).pending[id] =
         IF ~IsDuplicate(p) /\ id = p.id THEN Before(p) \cup {p} ELSE pending[id]
    <2> SUFFICES ASSUME NEW id \in Left(p)
                 PROVE  Push(p).pending[id] =
                           IF ~IsDuplicate(p) /\ id = p.id THEN Before(p) \cup {p} ELSE pending[id]
        OBVIOUS
    <2>1. Push(p).pending[id] = IF IsDuplicate(p) THEN pending[id] ELSE buffer[id]
        BY <1>2
    <2>2. buffer[id] = IF id = p.id THEN Before(p) \cup {p} ELSE pending[id]
        BY <1>3, <1>4
    <2> QED BY <2>1, <2>2
<1> QED BY <1>1, <1>2, <1>5, <1>6

\* Making room and evicting only take frames away.
LEMMA RoomShrinks ==
    ASSUME NEW p
    PROVE  /\ MakeRoomFor(p.id) \subseteq DOMAIN pending
           /\ Left(p) \subseteq Held(p)
           /\ ~IsDuplicate(p) /\ Completes(p) => Left(p) \subseteq DOMAIN pending
           /\ IsDuplicate(p) => Left(p) \subseteq DOMAIN pending
           /\ Before(p) # {} => p.id \in DOMAIN pending
<1>1. MakeRoomFor(p.id) \subseteq DOMAIN pending
    BY DEF MakeRoomFor, WithoutSmallest
<1>2. Left(p) \subseteq Held(p)
    BY DEF Left, Held, EvictMediaBudget, WithoutSmallest
<1> QED BY <1>1, <1>2 DEF Left, Held, Before

\* The facts about a datagram that the viewer receives.
LEMMA Received ==
    ASSUME Travel, NEW d \in net, Receive(d)
    PROVE  LET p == Decode(d)
           IN  /\ \E j \in 1..Len(sent) : FragmentOf(p, sent[j])
               /\ p.id \in 0..(U32 - 1) /\ p.seq \in 0..(U32 - 1)
               /\ net' = net \ {d}
               /\ RecordPacket(p)
               /\ pending' = Push(p).pending
               /\ delivered' = delivered \o Push(p).frame
               /\ failed' = Refused(p)
               /\ ~failed
               /\ joined' = joined /\ sent' = sent /\ nextSeq' = nextSeq
<1> DEFINE p == Decode(d)
<1>1. PICK j \in 1..Len(sent) : FragmentOf(p, sent[j])
    BY DEF Travel, NetOk
<1>2. d = Encode(p)
    BY DEF Travel, NetOk
<1>3. Relayed(d) = d
    BY <1>2 DEF Relayed
<1>4. CanDecode(d)
    BY <1>1, <1>2, FragmentTravels
<1>5. p.id \in 0..(U32 - 1) /\ p.seq \in 0..(U32 - 1)
    BY <1>1 DEF FragmentOf, Packets
<1>6. /\ net' = net \ {d}
      /\ RecordPacket(p)
      /\ pending' = Push(p).pending
      /\ delivered' = delivered \o Push(p).frame
      /\ failed' = (Push(p).error \/ ~CanDecode(d))
      /\ ~failed
      /\ joined' = joined /\ sent' = sent /\ nextSeq' = nextSeq
    BY <1>3 DEF Receive
<1>7. Push(p).error = Refused(p)
    BY PushUnfolds
<1>8. failed' = Refused(p)
    <2>1. Push(p).error \in BOOLEAN
        BY <1>7 DEF Refused
    <2> QED BY <1>4, <1>6, <1>7, <2>1
<1> QED BY <1>1, <1>5, <1>6, <1>8

\* A frame just sent.
NewFrame(size, requested) ==
    LET stamp == joined + Len(sent) + 1
    IN  [stamp |-> stamp, id |-> stamp % U32, key |-> requested \/ stamp = 1, size |-> size]

\* The facts about sending a frame.
LEMMA Sent ==
    ASSUME Travel, NEW size \in FrameSizes, NEW requested \in KeyChoices, SendFrame(size, requested)
    PROVE  LET f == NewFrame(size, requested)
           IN  /\ f \in Frames /\ f.stamp = joined + Len(sent) + 1 /\ f.id = f.stamp % U32
               /\ Len(sent) \in Nat
               /\ sent' = Append(sent, f) /\ joined' = joined
               /\ sent' \in Seq(Frames) /\ Len(sent') = Len(sent) + 1 /\ sent'[Len(sent) + 1] = f
               /\ \A j \in 1..Len(sent) : sent'[j] = sent[j]
               /\ nextSeq' \in 0..(U32 - 1)
               /\ \A e \in net' \ net : FragmentOf(Decode(e), f) /\ e = Encode(Decode(e))
               /\ \A d, e \in net' \ net : SameFragment(Decode(d), Decode(e)) => d = e
               /\ net \subseteq net'
               /\ pending' = pending /\ delivered' = delivered /\ failed' = failed
               /\ received' = received /\ lost' = lost /\ lastSeq' = lastSeq /\ firstSeq' = firstSeq
<1> DEFINE f == NewFrame(size, requested)
           s == nextSeq
           I == 0..(FragmentCount(f.size) - 1)
<1>1. /\ joined \in Nat /\ sent \in Seq(Frames) /\ Len(sent) \in Nat /\ s \in Nat
      /\ size \in Nat /\ requested \in BOOLEAN
    BY TransportAssumption, WidthAssumption, LenProperties DEF Travel, FramesOk
<1>2. /\ FragmentCount(size) < U16
      /\ sent' = Append(sent, f)
      /\ nextSeq' = (s + FragmentCount(size)) % U32
      /\ net' = net \cup {Encode(p) : p \in Packetize(f, s)}
      /\ joined' = joined /\ pending' = pending /\ delivered' = delivered /\ failed' = failed
      /\ received' = received /\ lost' = lost /\ lastSeq' = lastSeq /\ firstSeq' = firstSeq
    BY DEF SendFrame, NewFrame
<1>3. f.stamp = joined + Len(sent) + 1 /\ f.id = f.stamp % U32 /\ f.size = size
    BY DEF NewFrame
<1>4. f \in Frames
    <2>1. joined + Len(sent) + 1 \in Nat /\ (joined + Len(sent) + 1) % U32 \in 0..(U32 - 1)
        BY <1>1, WidthAssumption
    <2>2. f \in [stamp : Nat, id : 0..(U32 - 1), key : BOOLEAN, size : Nat]
        BY <1>1, <2>1 DEF NewFrame
    <2> HIDE DEF f
    <2> QED BY <1>2, <1>3, <2>2 DEF Frames
<1> HIDE DEF f, s
<1>5. nextSeq' \in 0..(U32 - 1)
    <2>1. FragmentCount(size) \in Nat
        BY <1>1, CountBounds
    <2> QED BY <1>1, <1>2, <2>1, WidthAssumption
<1>6. ASSUME NEW i \in I
      PROVE  LET p == Fragment(f, s, i)
             IN  FragmentOf(p, f) /\ p.index = i /\ Decode(Encode(p)) = p
    <2>1. FragmentOf(Fragment(f, s, i), f) /\ Fragment(f, s, i).index = i
        BY <1>1, <1>4, FragmentFacts
    <2> QED BY <2>1, FragmentTravels
<1>7. \A e \in net' \ net : \E i \in I : e = Encode(Fragment(f, s, i))
    BY <1>2 DEF Packetize
<1>8. \A e \in net' \ net : FragmentOf(Decode(e), f) /\ e = Encode(Decode(e))
    BY <1>6, <1>7
<1>9. ASSUME NEW d \in net' \ net, NEW e \in net' \ net, SameFragment(Decode(d), Decode(e))
      PROVE  d = e
    <2>1. PICK i \in I : d = Encode(Fragment(f, s, i))
        BY <1>7
    <2>2. PICK k \in I : e = Encode(Fragment(f, s, k))
        BY <1>7
    <2>3. Decode(d).index = i /\ Decode(e).index = k
        BY <1>6, <2>1, <2>2
    <2> QED BY <1>9, <2>1, <2>2, <2>3 DEF SameFragment
<1>10. net \subseteq net'
    BY <1>2
<1>11. /\ sent' \in Seq(Frames) /\ Len(sent') = Len(sent) + 1 /\ sent'[Len(sent) + 1] = f
       /\ \A j \in 1..Len(sent) : sent'[j] = sent[j]
    BY <1>1, <1>2, <1>4, AppendProperties
<1> QED BY <1>1, <1>2, <1>3, <1>4, <1>5, <1>8, <1>9, <1>10, <1>11 DEF f

\* A pending frame after a push is the pushed one or one that was pending before.
LEMMA PushedFrames ==
    ASSUME NEW p, NEW id \in Left(p)
    PROVE  \/ ~IsDuplicate(p) /\ id = p.id /\ Push(p).pending[id] = Before(p) \cup {p}
           \/ id \in DOMAIN pending /\ Push(p).pending[id] = pending[id]
<1>1. id \in Held(p) /\ MakeRoomFor(p.id) \subseteq DOMAIN pending
    BY RoomShrinks
<1>2. Push(p).pending[id] =
         IF ~IsDuplicate(p) /\ id = p.id THEN Before(p) \cup {p} ELSE pending[id]
    BY PushUnfolds
<1>3. CASE IsDuplicate(p)
    BY <1>1, <1>2, <1>3 DEF Left
<1>4. CASE ~IsDuplicate(p) /\ id = p.id
    BY <1>2, <1>4
<1>5. CASE ~IsDuplicate(p) /\ id # p.id
    BY <1>1, <1>2, <1>5 DEF Held
<1> QED BY <1>3, <1>4, <1>5

\* The fragments pending with a packet are pending under its id.
LEMMA BeforeIsPending ==
    ASSUME NEW p, NEW q \in Before(p)
    PROVE  p.id \in DOMAIN pending /\ q \in pending[p.id]
BY RoomShrinks DEF Before

\* Initially nothing is under way or pending.
LEMMA TravelInit == Init => Travel
<1> SUFFICES ASSUME Init PROVE Travel
    OBVIOUS
<1>1. joined \in Nat /\ nextSeq \in 0..(U32 - 1) /\ sent = << >>
    <2>1. joined \in Nat /\ nextSeq = (joined + 1) % U32 /\ sent = << >>
        BY TransportAssumption DEF Init
    <2> QED BY <2>1, WidthAssumption
<1>2. sent \in Seq(Frames) /\ Len(sent) = 0
    BY <1>1, EmptySeq
<1>3. DOMAIN pending = {} /\ net = {}
    BY DEF Init
<1>4. FramesOk
    BY <1>1, <1>2 DEF FramesOk
<1>5. NetOk /\ PendingOk
    BY <1>3, FS_EmptySet DEF NetOk, PendingOk
<1> QED BY <1>4, <1>5 DEF Travel

\* What a push leaves pending are fragments of frames sent.
LEMMA PendingStep ==
    ASSUME PendingOk, NEW p, p.id \in 0..(U32 - 1),
           \E j \in 1..Len(sent) : FragmentOf(p, sent[j]),
           pending' = Push(p).pending, sent' = sent
    PROVE  PendingOk'
<1>1. IsFiniteSet(Held(p)) /\ Held(p) \subseteq 0..(U32 - 1)
    <2>1. MakeRoomFor(p.id) \subseteq DOMAIN pending
        BY RoomShrinks
    <2>2. IsFiniteSet(MakeRoomFor(p.id))
        BY <2>1, FS_Subset DEF PendingOk
    <2>3. IsFiniteSet(MakeRoomFor(p.id) \cup {p.id})
        BY <2>2, FS_AddElement
    <2> QED BY <2>1, <2>3 DEF Held, PendingOk
<1>2. DOMAIN pending' = Left(p)
    BY PushUnfolds
<1>3. Left(p) \subseteq Held(p)
    BY RoomShrinks
<1>4. IsFiniteSet(DOMAIN pending') /\ DOMAIN pending' \subseteq 0..(U32 - 1)
    BY <1>1, <1>2, <1>3, FS_Subset
<1>5. IsFiniteSet(Before(p)) /\ \A q \in Before(p) : q.id = p.id /\ \E j \in 1..Len(sent) : FragmentOf(q, sent[j])
    <2>1. CASE Before(p) = {}
        BY <2>1, FS_EmptySet
    <2>2. CASE Before(p) # {}
        <3>1. p.id \in DOMAIN pending /\ Before(p) = pending[p.id]
            BY <2>2, RoomShrinks DEF Before
        <3> QED BY <3>1 DEF PendingOk
    <2> QED BY <2>1, <2>2
<1>6. ASSUME NEW id \in DOMAIN pending'
      PROVE  /\ IsFiniteSet(pending'[id]) /\ pending'[id] # {}
             /\ \A q \in pending'[id] :
                   q.id = id /\ \E j \in 1..Len(sent) : FragmentOf(q, sent[j])
    <2>1. CASE id = p.id /\ pending'[id] = Before(p) \cup {p}
        <3>1. IsFiniteSet(Before(p) \cup {p})
            BY <1>5, FS_AddElement
        <3> QED BY <1>5, <2>1, <3>1
    <2>2. CASE id \in DOMAIN pending /\ pending'[id] = pending[id]
        BY <2>2 DEF PendingOk
    <2> QED BY <1>2, <2>1, <2>2, PushedFrames
<1> QED BY <1>4, <1>6 DEF PendingOk

\* Whatever is sent, lost or received, only fragments of frames sent are under way
\* or pending.
LEMMA TravelStep == Travel /\ [Next]_vars => Travel'
<1> SUFFICES ASSUME Travel, [Next]_vars PROVE Travel'
    OBVIOUS
<1>1. CASE UNCHANGED vars
    BY <1>1 DEF vars, Travel, FramesOk, NetOk, PendingOk
<1>2. ASSUME NEW size \in FrameSizes, NEW requested \in KeyChoices, SendFrame(size, requested)
      PROVE  Travel'
    <2> DEFINE f == NewFrame(size, requested)
    <2>1. /\ f \in Frames /\ f.stamp = joined + Len(sent) + 1 /\ f.id = f.stamp % U32
          /\ Len(sent) \in Nat /\ joined' = joined
          /\ sent' \in Seq(Frames) /\ Len(sent') = Len(sent) + 1 /\ sent'[Len(sent) + 1] = f
          /\ nextSeq' \in 0..(U32 - 1)
          /\ pending' = pending
        BY <1>2, Sent
    <2>2. \A j \in 1..Len(sent) : sent'[j] = sent[j]
        BY <1>2, Sent
    <2>3. \A e \in net' \ net : FragmentOf(Decode(e), f) /\ e = Encode(Decode(e))
        BY <1>2, Sent
    <2> HIDE DEF f
    <2>4. FramesOk'
        <3>1. ASSUME NEW j \in 1..Len(sent')
              PROVE  sent'[j].stamp = joined + j /\ sent'[j].id = (joined + j) % U32
            <4>1. CASE j = Len(sent) + 1
                <5>1. joined + j = joined + Len(sent) + 1
                    <6>1. joined \in Nat
                        BY DEF Travel, FramesOk
                    <6> QED BY <2>1, <4>1, <6>1
                <5> QED BY <2>1, <4>1, <5>1
            <4>2. CASE j \in 1..Len(sent)
                BY <2>2, <4>2 DEF Travel, FramesOk
            <4> QED BY <2>1, <4>1, <4>2
        <3> QED BY <2>1, <3>1 DEF Travel, FramesOk
    <2>5. 1..Len(sent) \subseteq 1..Len(sent') /\ Len(sent) + 1 \in 1..Len(sent')
        BY <2>1
    <2>6. ASSUME NEW q, \E j \in 1..Len(sent) : FragmentOf(q, sent[j])
          PROVE  \E j \in 1..Len(sent') : FragmentOf(q, sent'[j])
        BY <2>2, <2>5, <2>6
    <2>7. NetOk'
        <3>1. ASSUME NEW d \in net'
              PROVE  (\E j \in 1..Len(sent') : FragmentOf(Decode(d), sent'[j])) /\ d = Encode(Decode(d))
            <4>1. CASE d \in net
                BY <2>6, <4>1 DEF Travel, NetOk
            <4>2. CASE d \notin net
                BY <2>1, <2>3, <2>5, <4>2
            <4> QED BY <4>1, <4>2
        <3> QED BY <3>1 DEF NetOk
    <2>8. PendingOk'
        BY <2>1, <2>6 DEF Travel, PendingOk
    <2> QED BY <2>4, <2>7, <2>8 DEF Travel
<1>3. ASSUME NEW d \in net, Lose(d) PROVE Travel'
    BY <1>3 DEF Lose, Travel, FramesOk, NetOk, PendingOk
<1>4. ASSUME NEW d \in net, Receive(d) PROVE Travel'
    <2> DEFINE p == Decode(d)
    <2>1. /\ \E j \in 1..Len(sent) : FragmentOf(p, sent[j])
          /\ p.id \in 0..(U32 - 1) /\ net' = net \ {d} /\ pending' = Push(p).pending
          /\ joined' = joined /\ sent' = sent /\ nextSeq' = nextSeq
        BY <1>4, Received
    <2> HIDE DEF p
    <2>2. PendingOk'
        BY <2>1, PendingStep DEF Travel
    <2>3. FramesOk' /\ NetOk'
        BY <2>1 DEF Travel, FramesOk, NetOk
    <2> QED BY <2>2, <2>3 DEF Travel
<1> QED BY <1>1, <1>2, <1>3, <1>4 DEF Next

\* In every reachable state.
LEMMA TravelHolds == Spec => []Travel
BY TravelInit, TravelStep, PTL DEF Spec

-----------------------------------------------------------------------------
(***************************************************************************)
(* The limits of the buffer.                                               *)
(***************************************************************************)
Smaller(S, id) == {other \in S : other < id}

\* Of a set without its smallest elements, none is smaller than a dropped one.
LEMMA SmallestGo ==
    ASSUME NEW S, IsFiniteSet(S), S \subseteq Nat, NEW n \in Int,
           NEW a \in S \ WithoutSmallest(S, n), NEW b \in WithoutSmallest(S, n)
    PROVE  a < b
<1>1. a \in S /\ b \in S /\ a \in Nat /\ b \in Nat
    BY DEF WithoutSmallest
<1>2. \A x \in S : /\ Smaller(S, x) \in SUBSET S /\ IsFiniteSet(Smaller(S, x))
                   /\ Cardinality(Smaller(S, x)) \in Nat
    BY FS_Subset, FS_CardinalityType DEF Smaller
<1>3. ~(Cardinality(Smaller(S, a)) >= n) /\ Cardinality(Smaller(S, b)) >= n
    BY DEF WithoutSmallest, Smaller
<1> SUFFICES ASSUME ~(a < b) PROVE FALSE
    OBVIOUS
<1>4. Smaller(S, b) \in SUBSET Smaller(S, a)
    <2>1. \A x \in S : x < b => x < a
        BY <1>1
    <2> QED BY <2>1 DEF Smaller
<1>5. Cardinality(Smaller(S, b)) <= Cardinality(Smaller(S, a))
    BY <1>1, <1>2, <1>4, FS_Subset
<1> QED BY <1>1, <1>2, <1>3, <1>5

\* Dropping what is too many leaves no more than allowed.
LEMMA LimitIsKept ==
    ASSUME NEW S, IsFiniteSet(S), S \subseteq Nat, NEW m \in Nat
    PROVE  Cardinality(WithoutSmallest(S, Cardinality(S) - m)) <= m
<1> DEFINE n == Cardinality(S) - m
           T == WithoutSmallest(S, n)
<1>1. Cardinality(S) \in Nat /\ n \in Int /\ T \in SUBSET S
    BY FS_CardinalityType DEF WithoutSmallest
<1>2. IsFiniteSet(T) /\ Cardinality(T) \in Nat
    BY <1>1, FS_Subset, FS_CardinalityType
<1>3. CASE T = {}
    <2>1. Cardinality(T) = 0
        BY <1>3, FS_EmptySet
    <2> QED BY <2>1
<1>4. CASE T # {}
    <2>1. PICK t \in T : \A u \in T : t <= u
        <3>1. T \subseteq Nat
            BY <1>1
        <3> HIDE DEF T
        <3> QED BY <1>4, <3>1, LeastNumber
    <2>2. t \in S /\ Cardinality(Smaller(S, t)) >= n
        BY <1>1, <2>1 DEF WithoutSmallest, Smaller
    <2>3. Smaller(S, t) \in SUBSET S /\ IsFiniteSet(Smaller(S, t)) /\ Cardinality(Smaller(S, t)) \in Nat
        BY FS_Subset, FS_CardinalityType DEF Smaller
    <2>4. T \in SUBSET (S \ Smaller(S, t))
        <3> HIDE DEF T
        <3>1. \A u \in T : u \in S /\ u \in Nat /\ t \in Nat /\ ~(u < t)
            BY <1>1, <2>1
        <3> QED BY <3>1 DEF Smaller
    <2> HIDE DEF T
    <2>5. S \cap Smaller(S, t) = Smaller(S, t)
        BY <2>3
    <2>6. IsFiniteSet(S \ Smaller(S, t))
          /\ Cardinality(S \ Smaller(S, t)) = Cardinality(S) - Cardinality(Smaller(S, t))
        BY <2>5, FS_Difference
    <2>7. Cardinality(T) <= Cardinality(S \ Smaller(S, t))
        BY <2>4, <2>6, FS_Subset
    <2> QED BY <1>1, <1>2, <2>2, <2>3, <2>6, <2>7 DEF T
<1> QED BY <1>3, <1>4

\* The frames that fit into the jitter budget.
Budget == MaxPendingMedia \div FrameInterval

\* The budget is the largest number of frame intervals it has room for.
LEMMA BudgetFits ==
    Budget \in Nat /\ \A k \in Nat : k <= Budget => k * FrameInterval <= MaxPendingMedia
<1> DEFINE q == MaxPendingMedia \div FrameInterval
           r == MaxPendingMedia % FrameInterval
<1>1. MaxPendingMedia \in Nat /\ FrameInterval \in Nat \ {0}
    BY TransportAssumption
<1>2. q \in Int /\ r \in 0..(FrameInterval - 1) /\ MaxPendingMedia = FrameInterval * q + r
    BY <1>1
<1> HIDE DEF q, r
<1>3. q >= 0
    <2> SUFFICES ASSUME q <= -1 PROVE FALSE
        BY <1>2
    <2>1. FrameInterval * q <= FrameInterval * (-1)
        BY <1>1, <1>2
    <2> QED BY <1>1, <1>2, <2>1
<1>4. ASSUME NEW k \in Nat, k <= q PROVE k * FrameInterval <= MaxPendingMedia
    <2>1. PICK l \in Nat : q = k + l
        <3>1. q - k \in Nat /\ q = k + (q - k)
            BY <1>2, <1>4
        <3> QED BY <3>1
    <2>2. FrameInterval * (k + l) = k * FrameInterval + l * FrameInterval /\ l * FrameInterval \in Nat
        BY <1>1
    <2>3. k * FrameInterval \in Nat
        BY <1>1
    <2> QED BY <1>1, <1>2, <2>1, <2>2, <2>3
<1> QED BY <1>2, <1>3, <1>4 DEF Budget, q

\* A push makes room before it adds a frame, and keeps to the budget after it.
LEMMA PushIsBounded ==
    ASSUME PendingOk, NEW p, p.id \in 0..(U32 - 1),
           Cardinality(DOMAIN pending) <= MaxPendingFrames,
           Cardinality(DOMAIN pending) <= Budget
    PROVE  /\ Cardinality(Left(p)) \in Nat
           /\ Cardinality(Left(p)) <= MaxPendingFrames
           /\ Cardinality(Left(p)) <= Budget
<1> DEFINE fresh == {other \in DOMAIN pending : ~OlderThanWindow(other, p.id)}
           kept == MakeRoomFor(p.id)
<1>1. IsFiniteSet(DOMAIN pending) /\ DOMAIN pending \subseteq Nat /\ p.id \in Nat
      /\ Cardinality(DOMAIN pending) \in Nat /\ MaxPendingFrames \in Nat \ {0} /\ Budget \in Nat
    BY FS_CardinalityType, WidthAssumption, TransportAssumption, BudgetFits DEF PendingOk
<1>2. fresh \in SUBSET DOMAIN pending /\ IsFiniteSet(fresh) /\ fresh \subseteq Nat
      /\ Cardinality(fresh) \in Nat /\ Cardinality(fresh) <= Cardinality(DOMAIN pending)
    BY <1>1, FS_Subset, FS_CardinalityType
<1>3. kept = IF p.id \in fresh THEN fresh
             ELSE WithoutSmallest(fresh, Cardinality(fresh) - (MaxPendingFrames - 1))
    BY DEF MakeRoomFor
<1> HIDE DEF fresh
<1>4. kept \in SUBSET DOMAIN pending /\ IsFiniteSet(kept) /\ Cardinality(kept) \in Nat
    BY <1>1, RoomShrinks, FS_Subset, FS_CardinalityType
<1>5. IsFiniteSet(Held(p)) /\ Held(p) \subseteq Nat /\ Cardinality(Held(p)) \in Nat
    <2>1. IsFiniteSet(kept \cup {p.id})
        BY <1>4, FS_AddElement
    <2> QED BY <1>1, <1>4, <2>1, FS_CardinalityType DEF Held
<1>6. Cardinality(Held(p)) <= MaxPendingFrames
    <2>1. CASE p.id \in fresh
        <3>1. Held(p) \in SUBSET DOMAIN pending
            BY <1>2, <1>3, <2>1 DEF Held
        <3>2. Cardinality(Held(p)) <= Cardinality(DOMAIN pending)
            BY <1>1, <3>1, FS_Subset
        <3> QED BY <1>1, <1>5, <3>2
    <2>2. CASE p.id \notin fresh
        <3>1. MaxPendingFrames - 1 \in Nat
            BY <1>1
        <3>2. Cardinality(kept) <= MaxPendingFrames - 1
            BY <1>2, <1>3, <2>2, <3>1, LimitIsKept
        <3>3. Cardinality(kept \cup {p.id}) <= Cardinality(kept) + 1
            BY <1>4, FS_AddElement
        <3> QED BY <1>1, <1>4, <1>5, <3>2, <3>3 DEF Held
    <2> QED BY <2>1, <2>2
<1>7. Left(p) \in SUBSET Held(p)
    BY RoomShrinks
<1>8. Cardinality(Left(p)) \in Nat /\ Cardinality(Left(p)) <= Cardinality(Held(p))
    BY <1>5, <1>7, FS_Subset, FS_CardinalityType
<1>9. Cardinality(Left(p)) <= Budget
    <2>1. CASE IsDuplicate(p) \/ Completes(p)
        <3>1. Left(p) \in SUBSET DOMAIN pending
            BY <2>1, RoomShrinks
        <3>2. Cardinality(Left(p)) <= Cardinality(DOMAIN pending)
            BY <1>1, <3>1, FS_Subset
        <3> QED BY <1>1, <1>8, <3>2
    <2>2. CASE ~IsDuplicate(p) /\ ~Completes(p)
        <3>1. Left(p) = WithoutSmallest(Held(p), Cardinality(Held(p)) - Budget)
            BY <2>2 DEF Left, EvictMediaBudget, Budget
        <3> QED BY <1>1, <1>5, <3>1, LimitIsKept
    <2> QED BY <2>1, <2>2
<1> QED BY <1>1, <1>5, <1>6, <1>8, <1>9

\* The buffer within its limits, counted in frames.
Bounded ==
    /\ Cardinality(DOMAIN pending) \in Nat
    /\ Cardinality(DOMAIN pending) <= MaxPendingFrames
    /\ Cardinality(DOMAIN pending) <= Budget

\* However fragments are lost or reordered, FrameReassemblyBuffer holds no more
\* incomplete frames than max_pending_frames and the jitter budget allow, after
\* every packet it is given.
THEOREM BufferStaysBounded == Spec => []BufferIsBounded
<1>1. Init => Bounded
    <2> SUFFICES ASSUME Init PROVE Bounded
        OBVIOUS
    <2>1. DOMAIN pending = {}
        BY DEF Init
    <2>2. Cardinality(DOMAIN pending) = 0
        BY <2>1, FS_EmptySet
    <2> QED BY <2>2, BudgetFits, TransportAssumption DEF Bounded
<1>2. Travel /\ Bounded /\ [Next]_vars => Bounded'
    <2> SUFFICES ASSUME Travel, Bounded, [Next]_vars PROVE Bounded'
        OBVIOUS
    <2>1. ASSUME pending' = pending PROVE Bounded'
        BY <2>1 DEF Bounded
    <2>2. ASSUME NEW d \in net, Receive(d) PROVE Bounded'
        <3> DEFINE p == Decode(d)
        <3>1. p.id \in 0..(U32 - 1) /\ pending' = Push(p).pending
            BY <2>2, Received
        <3> HIDE DEF p
        <3>2. DOMAIN pending' = Left(p)
            BY <3>1, PushUnfolds
        <3>3. /\ Cardinality(Left(p)) \in Nat
              /\ Cardinality(Left(p)) <= MaxPendingFrames
              /\ Cardinality(Left(p)) <= Budget
            BY <3>1, PushIsBounded DEF Travel, Bounded
        <3> QED BY <3>2, <3>3 DEF Bounded
    <2>3. CASE UNCHANGED vars
        BY <2>1, <2>3 DEF vars
    <2>4. ASSUME NEW size \in FrameSizes, NEW requested \in KeyChoices, SendFrame(size, requested)
          PROVE  Bounded'
        BY <2>1, <2>4 DEF SendFrame
    <2>5. ASSUME NEW d \in net, Lose(d) PROVE Bounded'
        BY <2>1, <2>5 DEF Lose
    <2> QED BY <2>2, <2>3, <2>4, <2>5 DEF Next
<1>3. Bounded => BufferIsBounded
    BY BudgetFits DEF Bounded, BufferIsBounded
<1> QED BY <1>1, <1>2, <1>3, TravelHolds, PTL DEF Spec

-----------------------------------------------------------------------------
(***************************************************************************)
(* The packet counters.                                                    *)
(***************************************************************************)

\* A gap in front of a packet makes up for the way to its number.
LEMMA CountersStep ==
    ASSUME Counters, NEW p, p.seq \in 0..(U32 - 1), RecordPacket(p)
    PROVE  Counters'
<1> DEFINE D(x, y) == (x - y) % U32
           advances == D(p.seq, lastSeq) > 0 /\ D(p.seq, lastSeq) < (U32 - 1) \div 2
<1>1. /\ received' = received + 1
      /\ firstSeq' = IF lastSeq = None THEN p.seq ELSE firstSeq
      /\ lastSeq = None => lastSeq' = p.seq /\ lost' = lost
      /\ lastSeq # None /\ advances =>
            lastSeq' = p.seq /\ lost' = lost + D(p.seq, lastSeq) - 1
      /\ lastSeq # None /\ ~advances => lastSeq' = lastSeq /\ lost' = lost
    BY DEF RecordPacket
<1>2. /\ received \in Nat /\ lost \in Nat
      /\ lastSeq = None \/ (lastSeq \in 0..(U32 - 1) /\ firstSeq \in 0..(U32 - 1))
      /\ lastSeq # None => D(lastSeq, firstSeq) < received + lost
    BY DEF Counters, LossIsCounted
<1>3. \A a, b, c \in 0..(U32 - 1) : /\ D(a, c) <= D(b, c) + D(a, b)
                                    /\ D(a, c) \in Nat
    BY ModTriangle
<1>4. \A x \in 0..(U32 - 1) : D(x, x) = 0 /\ x # None
    BY ModDifference DEF None
<1> HIDE DEF D
<1>5. CASE lastSeq = None
    <2>1. lastSeq' = p.seq /\ firstSeq' = p.seq /\ lost' = lost /\ received' = received + 1
        BY <1>1, <1>5
    <2>2. D(lastSeq', firstSeq') < received' + lost'
        BY <1>2, <1>4, <2>1
    <2> QED BY <1>2, <2>1, <2>2 DEF Counters, LossIsCounted, D
<1>6. CASE lastSeq # None /\ advances
    <2>1. /\ lastSeq' = p.seq /\ firstSeq' = firstSeq /\ received' = received + 1
          /\ lost' = lost + D(p.seq, lastSeq) - 1
        BY <1>1, <1>6
    <2>2. D(p.seq, firstSeq) <= D(lastSeq, firstSeq) + D(p.seq, lastSeq)
          /\ D(p.seq, firstSeq) \in Nat /\ D(lastSeq, firstSeq) \in Nat /\ D(p.seq, lastSeq) \in Nat
        BY <1>2, <1>3, <1>6
    <2>3. D(p.seq, lastSeq) > 0
        BY <1>6
    <2>4. lost' \in Nat /\ received' \in Nat
        BY <1>2, <2>1, <2>2, <2>3
    <2>5. D(p.seq, firstSeq) < received' + lost'
        BY <1>2, <1>6, <2>1, <2>2
    <2>6. D(lastSeq', firstSeq') < received' + lost'
        BY <2>1, <2>5
    <2> QED BY <1>2, <1>6, <2>1, <2>4, <2>6 DEF Counters, LossIsCounted, D
<1>7. CASE lastSeq # None /\ ~advances
    <2>1. lastSeq' = lastSeq /\ firstSeq' = firstSeq /\ lost' = lost /\ received' = received + 1
        BY <1>1, <1>7
    <2>2. D(lastSeq, firstSeq) \in Nat
        BY <1>2, <1>3, <1>7
    <2>3. D(lastSeq', firstSeq') < received' + lost'
        BY <1>2, <1>7, <2>1, <2>2
    <2> QED BY <1>2, <1>7, <2>1, <2>3 DEF Counters, LossIsCounted, D
<1> QED BY <1>5, <1>6, <1>7

\* In whatever order packets arrive, ClientMediaStats::record_packet has counted
\* every sequence number from the first packet to the newest as received or lost.
THEOREM LossStaysCounted == Spec => []LossIsCounted
<1>1. Init => Counters
    BY DEF Init, Counters, LossIsCounted
<1>2. Travel /\ Counters /\ [Next]_vars => Counters'
    <2> SUFFICES ASSUME Travel, Counters, [Next]_vars PROVE Counters'
        OBVIOUS
    <2>1. ASSUME received' = received, lost' = lost, lastSeq' = lastSeq, firstSeq' = firstSeq
          PROVE  Counters'
        BY <2>1 DEF Counters, LossIsCounted
    <2>2. ASSUME NEW d \in net, Receive(d) PROVE Counters'
        <3>1. Decode(d).seq \in 0..(U32 - 1) /\ RecordPacket(Decode(d))
            BY <2>2, Received
        <3> QED BY <3>1, CountersStep
    <2>3. CASE UNCHANGED vars
        BY <2>1, <2>3 DEF vars
    <2>4. ASSUME NEW size \in FrameSizes, NEW requested \in KeyChoices, SendFrame(size, requested)
          PROVE  Counters'
        BY <2>1, <2>4 DEF SendFrame
    <2>5. ASSUME NEW d \in net, Lose(d) PROVE Counters'
        BY <2>1, <2>5 DEF Lose
    <2> QED BY <2>2, <2>3, <2>4, <2>5 DEF Next
<1>3. Counters => LossIsCounted
    BY DEF Counters
<1> QED BY <1>1, <1>2, <1>3, TravelHolds, PTL DEF Spec

-----------------------------------------------------------------------------
(***************************************************************************)
(* What is delivered.                                                      *)
(***************************************************************************)

\* A fragment of a frame sent has the frame's stamp, and the stamp says which
\* frame it is of.
LEMMA StampTellsFrame ==
    ASSUME FramesOk, NEW p, NEW j \in 1..Len(sent), FragmentOf(p, sent[j]),
           NEW q, NEW k \in 1..Len(sent), FragmentOf(q, sent[k])
    PROVE  /\ p.stamp \in Nat /\ p.stamp = joined + j /\ p.stamp < joined + Len(sent) + 1
           /\ p.stamp = q.stamp => j = k
           /\ sent[j] \in Frames
<1>1. /\ joined \in Nat /\ Len(sent) \in Nat
      /\ sent[j].stamp = joined + j /\ sent[k].stamp = joined + k
      /\ sent[j] \in Frames
    BY LenProperties, ElementOfSeq DEF FramesOk
<1>2. p.stamp = sent[j].stamp /\ q.stamp = sent[k].stamp
    BY DEF FragmentOf
<1> QED BY <1>1, <1>2

\* What may be held of p's frame: its fragments, of which some are missing.
Fragments(p) == Before(p) \cup {p}

\* The fragments pending with a packet are fragments of frames sent.
LEMMA FragmentsAreSent ==
    ASSUME PendingOk, NEW p, \E j \in 1..Len(sent) : FragmentOf(p, sent[j]),
           NEW q \in Fragments(p)
    PROVE  (\E j \in 1..Len(sent) : FragmentOf(q, sent[j])) /\ q.id = p.id
<1>1. CASE q = p
    BY <1>1
<1>2. CASE q \in Before(p)
    BY <1>2, BeforeIsPending DEF PendingOk
<1> QED BY <1>1, <1>2 DEF Fragments

\* What reassemble_frame makes of the fragments it accepts is the frame that was
\* sent, and no fragment of it is missing.
LEMMA ReassembledFrame ==
    ASSUME FramesOk, PendingOk, NEW p, NEW j \in 1..Len(sent), FragmentOf(p, sent[j]),
           Completes(p), ~Refused(p)
    PROVE  /\ Reassemble(Fragments(p)) = Delivery(sent[j])
           /\ \A i \in 0..(FragmentCount(sent[j].size) - 1) :
                 \E q \in Fragments(p) : q.index = i /\ q.stamp = p.stamp
<1> DEFINE F == Fragments(p)
           f == sent[j]
           n == FragmentCount(f.size)
           first == CHOOSE q \in F : \A r \in F : q.index <= r.index
           ordered == [i \in 1..n |-> CHOOSE q \in F : q.index = i - 1]
<1>1. Reassembles(F) /\ Cardinality(F) = p.count
    BY DEF Refused, Completes, IsComplete, Fragments
<1>2. /\ Cardinality(F) = first.count
      /\ {q.index : q \in F} = 0..(first.count - 1)
      /\ \A q \in F : SameFrame(q, first)
    BY <1>1 DEF Reassembles
<1>3. p \in F
    BY DEF Fragments
<1> HIDE DEF F, first
<1>4. first.count = p.count /\ \A q \in F : q.stamp = p.stamp
    BY <1>2, <1>3 DEF SameFrame
<1>5. p.count = n /\ f \in Frames
    BY StampTellsFrame DEF FragmentOf
<1>6. ASSUME NEW q \in F PROVE FragmentOf(q, f)
    <2>1. PICK k \in 1..Len(sent) : FragmentOf(q, sent[k])
        BY FragmentsAreSent DEF F
    <2>2. k = j
        BY <1>4, <2>1, StampTellsFrame
    <2> QED BY <2>1, <2>2
<1>7. n \in Nat \ {0}
    BY <1>5, CountBounds DEF Frames
<1> HIDE DEF n
<1>8. \A i \in 0..(n - 1) : \E q \in F : q.index = i
    BY <1>2, <1>4, <1>5
<1>9. ASSUME NEW i \in 1..n
      PROVE  ordered[i] \in F /\ ordered[i].index = i - 1
    <2>1. i - 1 \in 0..(n - 1)
        BY <1>7
    <2>2. \E q \in F : q.index = i - 1
        BY <1>8, <2>1
    <2> QED BY <2>2
<1>10. ASSUME NEW i \in 1..n
       PROVE  /\ ordered[i].payload = Payload(f, i - 1)
              /\ ordered[i].stamp = f.stamp /\ ordered[i].id = f.id /\ ordered[i].key = f.key
    <2>1. FragmentOf(ordered[i], f) /\ ordered[i].index = i - 1
        BY <1>6, <1>9
    <2> HIDE DEF ordered
    <2> QED BY <2>1 DEF FragmentOf
<1>11. [i \in DOMAIN ordered |-> ordered[i].payload] = [i \in 1..n |-> Payload(f, i - 1)]
    <2>1. DOMAIN ordered = 1..n
        OBVIOUS
    <2> HIDE DEF ordered
    <2> QED BY <1>10, <2>1
<1>12. FlattenSeq([i \in DOMAIN ordered |-> ordered[i].payload]) = Bytes(f)
    <2>1. FlattenSeq([i \in 1..n |-> Payload(f, i - 1)]) = Bytes(f)
        BY <1>5, PayloadsMakeFrame DEF n
    <2> HIDE DEF ordered
    <2> QED BY <1>11, <2>1
<1>13. Reassemble(F) =
          [stamp |-> ordered[1].stamp, id |-> ordered[1].id, key |-> ordered[1].key,
           bytes |-> FlattenSeq([i \in DOMAIN ordered |-> ordered[i].payload])]
    BY <1>1, <1>5 DEF Reassemble
<1>14. 1 \in 1..n
    BY <1>7
<1> HIDE DEF ordered
<1>15. Reassemble(F) = Delivery(f)
    BY <1>10, <1>12, <1>13, <1>14 DEF Delivery
<1>16. \A i \in 0..(n - 1) : \E q \in F : q.index = i /\ q.stamp = p.stamp
    BY <1>4, <1>8
<1> QED BY <1>15, <1>16 DEF F, n

\* The stamps of what is under way, pending or delivered are those of frames sent.
LEMMA OldStamps ==
    ASSUME Travel, DeliveredOk
    PROVE  /\ \A d \in net : Decode(d).stamp < joined + Len(sent) + 1
           /\ \A id \in DOMAIN pending : \A p \in pending[id] : p.stamp < joined + Len(sent) + 1
           /\ \A k \in 1..Len(delivered) : delivered[k].stamp < joined + Len(sent) + 1
           /\ joined \in Nat /\ Len(sent) \in Nat
<1>1. ASSUME NEW p, \E j \in 1..Len(sent) : FragmentOf(p, sent[j])
      PROVE  p.stamp < joined + Len(sent) + 1
    BY <1>1, StampTellsFrame DEF Travel
<1>2. joined \in Nat /\ Len(sent) \in Nat /\ DOMAIN sent = 1..Len(sent)
    BY LenProperties DEF Travel, FramesOk
<1>3. ASSUME NEW k \in 1..Len(delivered) PROVE delivered[k].stamp < joined + Len(sent) + 1
    <2>1. k \in DOMAIN delivered
        BY LenProperties DEF DeliveredOk
    <2>2. PICK j \in DOMAIN sent : delivered[k].stamp = sent[j].stamp
        BY <2>1 DEF DeliveredOk, DeliveredIsSent
    <2>3. sent[j].stamp = joined + j /\ j \in 1..Len(sent)
        BY <1>2 DEF Travel, FramesOk
    <2> QED BY <1>2, <2>2, <2>3
<1> QED BY <1>1, <1>2, <1>3 DEF Travel, NetOk, PendingOk

\* Sending: the new fragments are of a frame nobody has seen.
LEMMA SendKeepsUnique ==
    ASSUME Travel, DeliveredOk, Unique,
           NEW size \in FrameSizes, NEW requested \in KeyChoices, SendFrame(size, requested)
    PROVE  Unique' /\ DeliveredOk'
<1> DEFINE f == NewFrame(size, requested)
<1>1. /\ f \in Frames /\ f.stamp = joined + Len(sent) + 1
      /\ sent' \in Seq(Frames) /\ Len(sent') = Len(sent) + 1
      /\ pending' = pending /\ delivered' = delivered
    BY Sent
<1>2. \A j \in 1..Len(sent) : sent'[j] = sent[j]
    BY Sent
<1>3. \A e \in net' \ net : FragmentOf(Decode(e), f)
    BY Sent
<1>4. \A d, e \in net' \ net : SameFragment(Decode(d), Decode(e)) => d = e
    BY Sent
<1> HIDE DEF f
<1>5. \A e \in net' \ net : Decode(e).stamp = joined + Len(sent) + 1
    BY <1>1, <1>3 DEF FragmentOf
<1>6. \A x : x < joined + Len(sent) + 1 => x # joined + Len(sent) + 1
    BY OldStamps
<1>7. \A d, e \in net' : SameFragment(Decode(d), Decode(e)) => d = e
    <2> SUFFICES ASSUME NEW d \in net', NEW e \in net', SameFragment(Decode(d), Decode(e))
                 PROVE  d = e
        OBVIOUS
    <2>1. Decode(d).stamp = Decode(e).stamp
        BY DEF SameFragment
    <2>2. CASE d \in net /\ e \in net
        BY <2>2 DEF Unique
    <2>3. CASE d \notin net /\ e \notin net
        BY <1>4, <2>3
    <2>4. CASE d \in net /\ e \notin net
        BY <1>5, <1>6, <2>1, <2>4, OldStamps
    <2>5. CASE d \notin net /\ e \in net
        BY <1>5, <1>6, <2>1, <2>5, OldStamps
    <2> QED BY <2>2, <2>3, <2>4, <2>5
<1>8. \A d \in net' : \A id \in DOMAIN pending : \A p \in pending[id] : ~SameFragment(p, Decode(d))
    <2> SUFFICES ASSUME NEW d \in net', NEW id \in DOMAIN pending, NEW p \in pending[id],
                        SameFragment(p, Decode(d))
                 PROVE  FALSE
        OBVIOUS
    <2>1. CASE d \in net
        BY <2>1 DEF Unique
    <2>2. CASE d \notin net
        BY <1>5, <1>6, <2>2, OldStamps DEF SameFragment
    <2> QED BY <2>1, <2>2
<1>9. \A d \in net' : \A k \in 1..Len(delivered) : delivered[k].stamp # Decode(d).stamp
    <2> SUFFICES ASSUME NEW d \in net', NEW k \in 1..Len(delivered)
                 PROVE  delivered[k].stamp # Decode(d).stamp
        OBVIOUS
    <2>1. CASE d \in net
        BY <2>1 DEF Unique
    <2>2. CASE d \notin net
        BY <1>5, <1>6, <2>2, OldStamps
    <2> QED BY <2>1, <2>2
<1>10. Unique'
    BY <1>1, <1>7, <1>8, <1>9 DEF Unique
<1>11. DeliveredOk'
    <2>1. sent \in Seq(Frames) /\ Len(sent) \in Nat
        BY LenProperties DEF Travel, FramesOk
    <2>2. \A j \in DOMAIN sent : j \in DOMAIN sent' /\ sent'[j] = sent[j]
        BY <1>1, <1>2, <2>1, LenProperties
    <2> QED BY <1>1, <2>2 DEF DeliveredOk, DeliveredIsSent
<1> QED BY <1>10, <1>11

\* Receiving: the fragment moves from the network to the buffer.
LEMMA ReceiveKeepsPlaces ==
    ASSUME Travel, Unique, NEW d \in net, Receive(d)
    PROVE  /\ \A e \in net' : \A id \in DOMAIN pending' : \A q \in pending'[id] :
                 ~SameFragment(q, Decode(e))
           /\ \A id \in DOMAIN pending' : \A q, r \in pending'[id] : SameFragment(q, r) => q = r
<1> DEFINE p == Decode(d)
<1>1. net' = net \ {d} /\ pending' = Push(p).pending
    BY Received
<1>2. DOMAIN pending' = Left(p)
    BY <1>1, PushUnfolds
<1> HIDE DEF p
<1>3. ASSUME NEW e \in net', NEW id \in DOMAIN pending', NEW q \in pending'[id],
             SameFragment(q, Decode(e))
      PROVE  FALSE
    <2>1. e \in net /\ e # d
        BY <1>1
    <2>2. CASE q = p
        <3>1. SameFragment(Decode(d), Decode(e))
            BY <1>3, <2>2 DEF p
        <3> QED BY <2>1, <3>1 DEF Unique
    <2>3. CASE \E k \in DOMAIN pending : q \in pending[k]
        BY <1>3, <2>1, <2>3 DEF Unique
    <2>4. q = p \/ \E k \in DOMAIN pending : q \in pending[k]
        BY <1>1, <1>2, PushedFrames, BeforeIsPending
    <2> QED BY <2>2, <2>3, <2>4
<1>4. ASSUME NEW id \in DOMAIN pending', NEW q \in pending'[id], NEW r \in pending'[id],
             SameFragment(q, r)
      PROVE  q = r
    <2>1. CASE ~IsDuplicate(p) /\ pending'[id] = Before(p) \cup {p}
        <3>1. \A x \in Before(p) : x.index # p.index
            BY <2>1 DEF IsDuplicate
        <3>2. ASSUME q \in Before(p), r \in Before(p) PROVE q = r
            BY <1>4, <3>2, BeforeIsPending DEF Unique
        <3> QED BY <1>4, <2>1, <3>1, <3>2 DEF SameFragment
    <2>2. CASE id \in DOMAIN pending /\ pending'[id] = pending[id]
        BY <1>4, <2>2 DEF Unique
    <2> QED BY <1>1, <1>2, <2>1, <2>2, PushedFrames
<1> QED BY <1>3, <1>4

\* Receiving the last fragment of a frame: the frame has not been delivered and
\* nothing is left of it under way.
LEMMA ReceiveKeepsDelivered ==
    ASSUME Travel, DeliveredOk, Unique, NEW d \in net, Receive(d)
    PROVE  /\ DeliveredOk'
           /\ \A e \in net' : \A k \in 1..Len(delivered') : delivered'[k].stamp # Decode(e).stamp
<1> DEFINE p == Decode(d)
           S == {Delivery(f) : f \in Frames}
<1>1. /\ net' = net \ {d} /\ sent' = sent
      /\ delivered' = delivered \o Push(p).frame
      /\ \E j \in 1..Len(sent) : FragmentOf(p, sent[j])
    BY Received
<1>2. PICK j \in 1..Len(sent) : FragmentOf(p, sent[j])
    BY <1>1
<1>3. delivered \in Seq(S) /\ Len(delivered) \in Nat /\ DOMAIN delivered = 1..Len(delivered)
    BY LenProperties DEF DeliveredOk
<1>4. DOMAIN sent = 1..Len(sent) /\ sent[j] \in Frames
    BY LenProperties, ElementOfSeq DEF Travel, FramesOk
<1>5. ASSUME NEW e \in net', NEW k \in 1..Len(delivered)
      PROVE  delivered[k].stamp # Decode(e).stamp
    BY <1>1 DEF Unique
<1>6. CASE ~(Completes(p) /\ ~Refused(p))
    <2>1. Push(p).frame = << >>
        BY <1>6, PushUnfolds
    <2>2. delivered' = delivered
        BY <1>1, <1>3, <2>1, ConcatEmptySeq
    <2>3. DeliveredOk'
        BY <1>1, <2>2 DEF DeliveredOk, DeliveredIsSent
    <2> QED BY <1>5, <2>2, <2>3
<1>7. CASE Completes(p) /\ ~Refused(p)
    <2> DEFINE x == Delivery(sent[j])
               n == Len(delivered)
    <2>1. /\ Reassemble(Fragments(p)) = x
          /\ \A i \in 0..(FragmentCount(sent[j].size) - 1) :
                \E q \in Fragments(p) : q.index = i /\ q.stamp = p.stamp
        BY <1>2, <1>7, ReassembledFrame DEF Travel
    <2>2. Push(p).frame = <<x>>
        BY <1>7, <2>1, PushUnfolds DEF Fragments
    <2>3. x \in S
        BY <1>4
    <2>4. x.stamp = p.stamp
        BY <1>2 DEF Delivery, FragmentOf
    <2> HIDE DEF p, S
    <2>5. /\ delivered' \in Seq(S) /\ Len(delivered') = n + 1 /\ delivered'[n + 1] = x
          /\ \A k \in 1..n : delivered'[k] = delivered[k]
        <3> HIDE DEF x
        <3>1. <<x>> \in Seq(S) /\ Len(<<x>>) = 1 /\ <<x>>[1] = x
            BY <2>3
        <3>2. /\ delivered \o <<x>> \in Seq(S)
              /\ Len(delivered \o <<x>>) = Len(delivered) + Len(<<x>>)
              /\ \A k \in 1..(Len(delivered) + Len(<<x>>)) : (delivered \o <<x>>)[k] =
                     IF k <= Len(delivered) THEN delivered[k] ELSE <<x>>[k - Len(delivered)]
            BY <1>3, <3>1, ConcatProperties
        <3> QED BY <1>1, <1>3, <2>2, <3>1, <3>2
    <2>6. \A k \in 1..n : delivered[k].stamp # p.stamp
        BY DEF Unique, p
    <2>7. DeliveredIsSent'
        <3>1. DOMAIN delivered' = 1..(n + 1)
            BY <1>3, <2>5, LenProperties
        <3>2. ASSUME NEW i \in 1..(n + 1)
              PROVE  \E k \in DOMAIN sent : delivered'[i] = Delivery(sent[k])
            <4>1. CASE i \in 1..n
                <5>1. i \in DOMAIN delivered /\ delivered'[i] = delivered[i]
                    BY <1>3, <2>5, <4>1
                <5> QED BY <5>1 DEF DeliveredOk, DeliveredIsSent, Delivery
            <4>2. CASE i = n + 1
                BY <1>4, <2>5, <4>2
            <4> QED BY <1>3, <4>1, <4>2
        <3>3. ASSUME NEW i \in 1..(n + 1), NEW k \in 1..(n + 1),
                     delivered'[i].stamp = delivered'[k].stamp
              PROVE  i = k
            <4>1. CASE i \in 1..n /\ k \in 1..n
                <5>1. /\ i \in DOMAIN delivered /\ k \in DOMAIN delivered
                      /\ delivered[i].stamp = delivered[k].stamp
                    BY <1>3, <2>5, <3>3, <4>1
                <5> QED BY <5>1 DEF DeliveredOk, DeliveredIsSent
            <4>2. CASE i \in 1..n /\ k = n + 1
                BY <2>4, <2>5, <2>6, <3>3, <4>2
            <4>3. CASE i = n + 1 /\ k \in 1..n
                BY <2>4, <2>5, <2>6, <3>3, <4>3
            <4>4. CASE i = n + 1 /\ k = n + 1
                BY <4>4
            <4> QED BY <1>3, <4>1, <4>2, <4>3, <4>4
        <3> QED BY <1>1, <3>1, <3>2, <3>3 DEF DeliveredIsSent, Delivery
    <2>8. DeliveredOk'
        BY <2>5, <2>7 DEF DeliveredOk, S
    <2>9. ASSUME NEW e \in net' PROVE x.stamp # Decode(e).stamp
        <3> SUFFICES ASSUME p.stamp = Decode(e).stamp PROVE FALSE
            BY <2>4
        <3>1. e \in net /\ e # d
            BY <1>1
        <3>2. PICK k \in 1..Len(sent) : FragmentOf(Decode(e), sent[k])
            BY <3>1 DEF Travel, NetOk
        <3>3. k = j
            BY <1>2, <3>2, StampTellsFrame DEF Travel
        <3>4. Decode(e).index \in 0..(FragmentCount(sent[j].size) - 1)
            BY <3>2, <3>3 DEF FragmentOf
        <3>5. PICK q \in Fragments(p) : q.index = Decode(e).index /\ q.stamp = p.stamp
            BY <2>1, <3>4
        <3>6. SameFragment(q, Decode(e))
            BY <3>5 DEF SameFragment
        <3>7. CASE q = p
            BY <3>1, <3>6, <3>7 DEF Unique, p
        <3>8. CASE q \in Before(p)
            <4>1. p.id \in DOMAIN pending /\ q \in pending[p.id]
                BY <3>8, BeforeIsPending
            <4> QED BY <3>1, <3>6, <4>1 DEF Unique
        <3> QED BY <3>7, <3>8 DEF Fragments
    <2> HIDE DEF x, n
    <2>10. ASSUME NEW e \in net', NEW k \in 1..(n + 1) PROVE delivered'[k].stamp # Decode(e).stamp
        <3>1. CASE k \in 1..n
            BY <1>5, <2>5, <3>1 DEF n
        <3>2. CASE k = n + 1
            BY <2>5, <2>9, <3>2
        <3> QED BY <1>3, <3>1, <3>2 DEF n
    <2> QED BY <2>5, <2>8, <2>10
<1> QED BY <1>6, <1>7

\* The inductive invariant: no fragment in two places, and every frame delivered once.
LEMMA DeliveryHolds == Spec => [](Unique /\ DeliveredOk)
<1>1. Init => Unique /\ DeliveredOk
    <2> SUFFICES ASSUME Init PROVE Unique /\ DeliveredOk
        OBVIOUS
    <2>1. net = {} /\ DOMAIN pending = {} /\ delivered = << >>
        BY DEF Init
    <2>2. delivered \in Seq({Delivery(f) : f \in Frames}) /\ DOMAIN delivered = {}
        BY <2>1, EmptySeq
    <2>3. DeliveredOk
        BY <2>2 DEF DeliveredOk, DeliveredIsSent
    <2> QED BY <2>1, <2>3 DEF Unique
<1>2. Travel /\ (Unique /\ DeliveredOk) /\ [Next]_vars => (Unique /\ DeliveredOk)'
    <2> SUFFICES ASSUME Travel, Unique, DeliveredOk, [Next]_vars PROVE Unique' /\ DeliveredOk'
        OBVIOUS
    <2>1. CASE UNCHANGED vars
        BY <2>1 DEF vars, Unique, DeliveredOk, DeliveredIsSent
    <2>2. ASSUME NEW size \in FrameSizes, NEW requested \in KeyChoices, SendFrame(size, requested)
          PROVE  Unique' /\ DeliveredOk'
        BY <2>2, SendKeepsUnique
    <2>3. ASSUME NEW d \in net, Lose(d) PROVE Unique' /\ DeliveredOk'
        BY <2>3 DEF Lose, Unique, DeliveredOk, DeliveredIsSent
    <2>4. ASSUME NEW d \in net, Receive(d) PROVE Unique' /\ DeliveredOk'
        <3>1. net' \subseteq net
            BY <2>4, Received
        <3>2. \A e, g \in net' : SameFragment(Decode(e), Decode(g)) => e = g
            BY <3>1 DEF Unique
        <3>3. /\ \A e \in net' : \A id \in DOMAIN pending' : \A q \in pending'[id] :
                    ~SameFragment(q, Decode(e))
              /\ \A id \in DOMAIN pending' : \A q, r \in pending'[id] : SameFragment(q, r) => q = r
            BY <2>4, ReceiveKeepsPlaces
        <3>4. /\ DeliveredOk'
              /\ \A e \in net' : \A k \in 1..Len(delivered') : delivered'[k].stamp # Decode(e).stamp
            BY <2>4, ReceiveKeepsDelivered
        <3> QED BY <3>2, <3>3, <3>4 DEF Unique
    <2> QED BY <2>1, <2>2, <2>3, <2>4 DEF Next
<1> QED BY <1>1, <1>2, TravelHolds, PTL DEF Spec

\* The decoder gets only frames that were sent, byte for byte, each at most once,
\* however datagrams are lost or reordered and however often ids wrap around:
\* reassemble_frame never mixes two frames.
THEOREM DeliveredWasSent == Spec => []DeliveredIsSent
<1>1. DeliveredOk => DeliveredIsSent
    BY DEF DeliveredOk
<1> QED BY <1>1, DeliveryHolds, PTL

-----------------------------------------------------------------------------
(***************************************************************************)
(* Nothing is refused.                                                     *)
(***************************************************************************)

\* Numbers less than U32 apart have different remainders.
LEMMA ModInjective ==
    ASSUME NEW a \in Nat, NEW b \in Nat, a - b < U32, b - a < U32, a % U32 = b % U32
    PROVE  a = b
<1> DEFINE q == a \div U32
           k == b \div U32
           r == a % U32
<1>1. U32 \in Nat /\ U32 > 1
    BY WidthAssumption
<1>2. q \in Int /\ r \in 0..(U32 - 1) /\ a = U32 * q + r
    BY <1>1
<1>3. k \in Int /\ b = U32 * k + (b % U32)
    BY <1>1
<1>4. b = U32 * k + r
    BY <1>3
<1> HIDE DEF q, k, r
<1>5. a - b = U32 * (q - k)
    <2>1. U32 * (q - k) = U32 * q - U32 * k
        BY <1>1, <1>2, <1>3
    <2>2. U32 * q \in Int /\ U32 * k \in Int
        BY <1>1, <1>2, <1>3
    <2> QED BY <1>2, <1>4, <2>1, <2>2
<1>6. ~(q - k >= 1)
    <2> SUFFICES ASSUME q - k >= 1 PROVE FALSE
        OBVIOUS
    <2>1. U32 * (q - k) >= U32
        BY <1>1, <1>2, <1>3
    <2> QED BY <1>1, <1>5, <2>1
<1>7. ~(q - k <= -1)
    <2> SUFFICES ASSUME q - k <= -1 PROVE FALSE
        OBVIOUS
    <2>1. U32 * (q - k) <= -U32
        BY <1>1, <1>2, <1>3
    <2> QED BY <1>1, <1>5, <2>1
<1>8. q - k = 0
    BY <1>2, <1>3, <1>6, <1>7
<1> QED BY <1>1, <1>5, <1>8

\* As long as fewer frames were sent than there are ids, the id tells the frame.
LEMMA IdTellsFrame ==
    ASSUME FramesOk, Len(sent) < U32,
           NEW p, NEW j \in 1..Len(sent), FragmentOf(p, sent[j]),
           NEW q, NEW k \in 1..Len(sent), FragmentOf(q, sent[k]), p.id = q.id
    PROVE  j = k
<1>1. /\ joined \in Nat /\ Len(sent) \in Nat
      /\ p.id = (joined + j) % U32 /\ q.id = (joined + k) % U32
    BY LenProperties DEF FramesOk, FragmentOf
<1>2. /\ joined + j \in Nat /\ joined + k \in Nat /\ U32 \in Nat
      /\ (joined + j) - (joined + k) < U32 /\ (joined + k) - (joined + j) < U32
    BY <1>1, WidthAssumption
<1>3. joined + j = joined + k
    BY <1>1, <1>2, ModInjective
<1> QED BY <1>1, <1>3

\* A set of fragments of one frame, as many as it has and all different, is
\* accepted by reassemble_frame.
LEMMA CompleteReassembles ==
    ASSUME NEW F, IsFiniteSet(F), NEW f \in Frames, \A q \in F : FragmentOf(q, f),
           Cardinality(F) = FragmentCount(f.size), \A q, r \in F : q.index = r.index => q = r
    PROVE  Reassembles(F)
<1> DEFINE n == FragmentCount(f.size)
           first == CHOOSE q \in F : \A r \in F : q.index <= r.index
           index == [q \in F |-> q.index]
           B == {q.index : q \in F}
<1>1. n \in Nat \ {0}
    BY CountBounds DEF Frames
<1>2. \A q \in F : q.index \in 0..(n - 1) /\ q.index \in Nat
    BY <1>1 DEF FragmentOf
<1>3. F # {}
    BY <1>1, FS_EmptySet
<1>4. first \in F
    <2>1. B \subseteq Nat /\ B # {}
        BY <1>2, <1>3
    <2> HIDE DEF n
    <2>2. \E m \in B : \A l \in B : m <= l
        <3> HIDE DEF B
        <3> QED BY <2>1, LeastNumber
    <2>3. \E q \in F : \A r \in F : q.index <= r.index
        BY <2>2
    <2> QED BY <2>3
<1> HIDE DEF first
<1>5. B = 0..(n - 1)
    <2>1. index \in Injection(F, 0..(n - 1))
        BY <1>2 DEF Injection, IsInjective
    <2>2. IsFiniteSet(0..(n - 1)) /\ Cardinality(0..(n - 1)) = n
        <3> HIDE DEF n
        <3>1. 0 \in Int /\ n - 1 \in Int /\ ~(0 > n - 1) /\ (n - 1) - 0 + 1 = n
            BY <1>1
        <3> QED BY <3>1, FS_Interval
    <2>3. index \in Surjection(F, 0..(n - 1))
        <3> HIDE DEF index
        <3> QED BY <2>1, <2>2, FS_Injection
    <2>4. \A i \in 0..(n - 1) : \E q \in F : index[q] = i
        <3> HIDE DEF index
        <3> QED BY <2>3 DEF Surjection
    <2>5. \A i \in 0..(n - 1) : i \in B
        BY <2>4
    <2> QED BY <1>2, <2>5
<1>6. \A q \in F : IsValid(q)
    BY DEF FragmentOf, CanEncode
<1>7. FragmentOf(first, f)
    BY <1>4
<1>8. first.type # PacketTypes.Probe /\ first.count = n
    BY <1>7 DEF FragmentOf, PacketTypes
<1>9. \A q \in F : SameFrame(q, first) /\ (q.end <=> q.index + 1 = n)
    BY <1>7 DEF FragmentOf, SameFrame
<1> QED BY <1>5, <1>6, <1>8, <1>9 DEF Reassembles, first

\* A fragment under way is neither pending already nor does it complete a frame
\* with fragments of another.
LEMMA PushAccepts ==
    ASSUME Travel, Unique, Len(sent) < U32, NEW d \in net
    PROVE  ~Refused(Decode(d))
<1> DEFINE p == Decode(d)
<1>1. PICK j \in 1..Len(sent) : FragmentOf(p, sent[j])
    BY DEF Travel, NetOk
<1>2. \A id \in DOMAIN pending : \A q \in pending[id] : ~SameFragment(q, p)
    BY DEF Unique
<1> HIDE DEF p
<1>3. sent[j] \in Frames
    BY <1>1, StampTellsFrame DEF Travel
<1>4. ASSUME NEW q \in Fragments(p) PROVE FragmentOf(q, sent[j]) /\ q.stamp = p.stamp
    <2>1. PICK k \in 1..Len(sent) : FragmentOf(q, sent[k])
        BY <1>1, FragmentsAreSent DEF Travel
    <2>2. q.id = p.id
        BY <1>1, FragmentsAreSent DEF Travel
    <2>3. k = j
        BY <1>1, <2>1, <2>2, IdTellsFrame DEF Travel
    <2> QED BY <1>1, <2>1, <2>3 DEF FragmentOf
<1>5. ASSUME NEW q \in Before(p) PROVE q.index # p.index
    <2>1. ~SameFragment(q, p)
        BY <1>2, BeforeIsPending
    <2>2. q.stamp = p.stamp
        BY <1>4 DEF Fragments
    <2> QED BY <2>1, <2>2 DEF SameFragment
<1>6. ~IsDuplicate(p)
    BY <1>5 DEF IsDuplicate
<1>7. ASSUME Completes(p) PROVE Reassembles(Fragments(p))
    <2>1. IsFiniteSet(Fragments(p))
        <3>1. IsFiniteSet(Before(p))
            BY RoomShrinks, FS_EmptySet DEF Before, Travel, PendingOk
        <3> QED BY <3>1, FS_AddElement DEF Fragments
    <2>2. Cardinality(Fragments(p)) = FragmentCount(sent[j].size)
        BY <1>1, <1>7 DEF Completes, IsComplete, Fragments, FragmentOf
    <2>3. ASSUME NEW q \in Fragments(p), NEW r \in Fragments(p), q.index = r.index PROVE q = r
        <3>1. q.stamp = r.stamp
            BY <1>4
        <3>2. ASSUME q \in Before(p), r \in Before(p) PROVE q = r
            BY <2>3, <3>1, <3>2, BeforeIsPending DEF Unique, SameFragment
        <3> QED BY <1>5, <2>3, <3>2 DEF Fragments
    <2> QED BY <1>3, <1>4, <2>1, <2>2, <2>3, CompleteReassembles
<1> QED BY <1>6, <1>7 DEF Refused, Fragments, p

\* FrameReassemblyBuffer::push never fails on what a broadcaster sends, however it
\* is lost, reordered or evicted, so it does not end the viewer's media loop: not
\* before an id is used again.
THEOREM NothingIsRefused == Spec => []NeverRefused
<1>1. Init => NeverRefused
    BY DEF Init, NeverRefused
<1>2. Travel /\ Unique /\ NeverRefused /\ [Next]_vars => NeverRefused'
    <2> SUFFICES ASSUME Travel, Unique, NeverRefused, [Next]_vars PROVE NeverRefused'
        OBVIOUS
    <2>1. CASE UNCHANGED vars
        BY <2>1 DEF vars, NeverRefused
    <2>2. ASSUME NEW size \in FrameSizes, NEW requested \in KeyChoices, SendFrame(size, requested)
          PROVE  NeverRefused'
        <3>1. Len(sent) \in Nat /\ Len(sent') = Len(sent) + 1 /\ failed' = failed
            BY <2>2, Sent
        <3> QED BY <3>1, WidthAssumption DEF NeverRefused
    <2>3. ASSUME NEW d \in net, Lose(d) PROVE NeverRefused'
        BY <2>3 DEF Lose, NeverRefused
    <2>4. ASSUME NEW d \in net, Receive(d) PROVE NeverRefused'
        <3>1. failed' = Refused(Decode(d)) /\ sent' = sent
            BY <2>4, Received
        <3>2. Len(sent) < U32 => ~Refused(Decode(d))
            BY PushAccepts
        <3> QED BY <3>1, <3>2 DEF NeverRefused
    <2> QED BY <2>1, <2>2, <2>3, <2>4 DEF Next
<1> QED BY <1>1, <1>2, TravelHolds, DeliveryHolds, PTL DEF Spec

-----------------------------------------------------------------------------
(***************************************************************************)
(* What the buffer gives up.                                               *)
(***************************************************************************)

\* Less than half of the ids.
Half == (U32 - 1) \div 2

\* Half of the numbers, rounded down.
LEMMA HalfBounds == Half \in Nat /\ 2 * Half < U32
BY WidthAssumption DEF Half

\* The window: of ids less than half of them apart, the ones out of it are older
\* than the ones in it.
LEMMA WindowOrder ==
    ASSUME NEW a \in 0..(U32 - 1), NEW b \in 0..(U32 - 1), NEW c \in 0..(U32 - 1),
           a - c < Half, c - a < Half, b - c < Half, c - b < Half,
           OlderThanWindow(a, c), ~OlderThanWindow(b, c)
    PROVE  a < b
<1> DEFINE D(x, y) == (x - y) % U32
<1>1. /\ D(c, a) = IF c >= a THEN c - a ELSE c - a + U32
      /\ D(c, b) = IF c >= b THEN c - b ELSE c - b + U32
    BY ModDifference
<1>2. D(c, a) > MaxFrameAge /\ D(c, a) < Half /\ ~(D(c, b) > MaxFrameAge /\ D(c, b) < Half)
    BY DEF OlderThanWindow, Half
<1> HIDE DEF D
<1>3. U32 \in Nat /\ MaxFrameAge \in Nat
    BY WidthAssumption, TransportAssumption
<1>4. c >= a
    BY <1>1, <1>2, <1>3, HalfBounds
<1>5. CASE c < b
    BY <1>3, <1>4, <1>5
<1>6. CASE c >= b
    BY <1>1, <1>2, <1>3, <1>4, <1>6
<1> QED BY <1>3, <1>5, <1>6

\* Before ids wrap around, they are the stamps.
LEMMA IdIsStamp ==
    ASSUME FramesOk, joined + Len(sent) < U32, NEW p,
           \E j \in 1..Len(sent) : FragmentOf(p, sent[j])
    PROVE  p.id \in (joined + 1)..(joined + Len(sent)) /\ p.id \in 0..(U32 - 1)
<1>1. PICK j \in 1..Len(sent) : FragmentOf(p, sent[j])
    OBVIOUS
<1>2. joined \in Nat /\ Len(sent) \in Nat /\ p.id = (joined + j) % U32 /\ U32 \in Nat \ {0}
    BY <1>1, LenProperties, WidthAssumption DEF FramesOk, FragmentOf
<1>3. joined + j \in 0..(U32 - 1)
    BY <1>2
<1>4. p.id = joined + j
    BY <1>2, <1>3, FieldKeeps
<1> QED BY <1>2, <1>3, <1>4

\* Frames leave to make room or to keep to the budget, the oldest first.
LEMMA OldestGo ==
    ASSUME Travel, joined + Len(sent) < U32, Len(sent) <= Half,
           NEW p, \E j \in 1..Len(sent) : FragmentOf(p, sent[j]),
           ~IsDuplicate(p), ~Completes(p),
           NEW id \in DOMAIN pending \ Left(p), NEW other \in DOMAIN pending \cap Left(p)
    PROVE  id < other
<1> DEFINE fresh == {x \in DOMAIN pending : ~OlderThanWindow(x, p.id)}
           kept == MakeRoomFor(p.id)
           excess == Cardinality(fresh) - (MaxPendingFrames - 1)
<1>1. IsFiniteSet(DOMAIN pending) /\ DOMAIN pending \subseteq 0..(U32 - 1)
    BY DEF Travel, PendingOk
<1>2. \A x \in DOMAIN pending : x \in (joined + 1)..(joined + Len(sent)) /\ x \in 0..(U32 - 1)
    <2> SUFFICES ASSUME NEW x \in DOMAIN pending
                 PROVE  x \in (joined + 1)..(joined + Len(sent)) /\ x \in 0..(U32 - 1)
        OBVIOUS
    <2>1. PICK q \in pending[x] : q.id = x /\ \E j \in 1..Len(sent) : FragmentOf(q, sent[j])
        BY DEF Travel, PendingOk
    <2> QED BY <2>1, IdIsStamp DEF Travel
<1>3. p.id \in (joined + 1)..(joined + Len(sent)) /\ p.id \in 0..(U32 - 1)
    BY IdIsStamp DEF Travel
<1>4. /\ Left(p) = WithoutSmallest(Held(p), Cardinality(Held(p)) - Budget)
      /\ kept = IF p.id \in fresh THEN fresh ELSE WithoutSmallest(fresh, excess)
    BY DEF Left, EvictMediaBudget, MakeRoomFor, Budget
<1>5. joined \in Nat /\ Len(sent) \in Nat /\ U32 \in Nat /\ MaxPendingFrames \in Nat /\ Budget \in Nat
    BY LenProperties, WidthAssumption, TransportAssumption, BudgetFits DEF Travel, FramesOk
<1>6. fresh \in SUBSET DOMAIN pending /\ IsFiniteSet(fresh) /\ fresh \subseteq Nat /\ excess \in Int
    BY <1>1, <1>5, FS_Subset, FS_CardinalityType
<1>7. p.id \in DOMAIN pending => p.id \in fresh
    <2>1. (p.id - p.id) % U32 = 0
        BY <1>3, ModDifference
    <2>2. ~OlderThanWindow(p.id, p.id)
        BY <2>1, TransportAssumption DEF OlderThanWindow
    <2> QED BY <2>2
<1>8. id \in DOMAIN pending /\ other \in DOMAIN pending /\ id \notin Left(p) /\ other \in Left(p)
    OBVIOUS
<1>9. other \in kept
    <2>1. other \in Held(p)
        BY <1>8, RoomShrinks
    <2>2. CASE other = p.id
        <3> HIDE DEF fresh
        <3> QED BY <1>4, <1>7, <1>8, <2>2
    <2> QED BY <2>1, <2>2 DEF Held
<1>10. CASE id \in Held(p)
    <2>1. IsFiniteSet(Held(p)) /\ Held(p) \subseteq Nat
        <3>1. kept \in SUBSET DOMAIN pending
            BY RoomShrinks
        <3>2. IsFiniteSet(kept)
            BY <1>1, <3>1, FS_Subset
        <3>3. IsFiniteSet(kept \cup {p.id})
            BY <3>2, FS_AddElement
        <3> QED BY <1>1, <1>3, <3>1, <3>3 DEF Held
    <2>2. Cardinality(Held(p)) - Budget \in Int
        BY <1>5, <2>1, FS_CardinalityType
    <2> QED BY <1>4, <1>8, <1>10, <2>1, <2>2, SmallestGo
<1>11. CASE id \notin Held(p) /\ id \in fresh
    <2>1. id \notin kept
        BY <1>11 DEF Held
    <2> HIDE DEF fresh, excess
    <2>2. kept = WithoutSmallest(fresh, excess)
        BY <1>4, <1>11, <2>1
    <2> HIDE DEF kept
    <2> QED BY <1>6, <1>9, <1>11, <2>1, <2>2, SmallestGo
<1>12. CASE id \notin Held(p) /\ id \notin fresh
    <2>1. OlderThanWindow(id, p.id)
        BY <1>8, <1>12
    <2>2. other \in fresh
        <3> HIDE DEF fresh, excess
        <3> QED BY <1>4, <1>9 DEF WithoutSmallest
    <2>3. ~OlderThanWindow(other, p.id)
        BY <2>2
    <2> HIDE DEF fresh, kept
    <2>4. /\ id - p.id < Half /\ p.id - id < Half
          /\ other - p.id < Half /\ p.id - other < Half
        <3>1. /\ id \in (joined + 1)..(joined + Len(sent))
              /\ other \in (joined + 1)..(joined + Len(sent))
            BY <1>2, <1>8
        <3>2. Half \in Nat /\ Len(sent) <= Half
            BY HalfBounds
        <3> HIDE DEF Half
        <3>3. id - p.id < Half /\ p.id - id < Half
            BY <1>3, <1>5, <3>1, <3>2
        <3>4. other - p.id < Half /\ p.id - other < Half
            BY <1>3, <1>5, <3>1, <3>2
        <3> QED BY <3>3, <3>4
    <2>5. id \in 0..(U32 - 1) /\ other \in 0..(U32 - 1)
        BY <1>2, <1>8
    <2> QED BY <1>3, <2>1, <2>3, <2>4, <2>5, WindowOrder
<1> QED BY <1>10, <1>11, <1>12

\* Whatever makes FrameReassemblyBuffer give up an incomplete frame - the frame
\* window, the frame limit or the jitter budget - the frames it keeps are newer,
\* as long as ids have not wrapped around and are less than half of them apart.
THEOREM OldestIsDropped == Spec => DropsOldest
<1> DEFINE A ==
        joined + Len(sent) < U32 /\ Len(sent) <= (U32 - 1) \div 2 =>
           \A id \in DOMAIN pending \ DOMAIN pending' :
              Len(delivered') = Len(delivered) /\ ~failed' =>
                 \A other \in DOMAIN pending \cap DOMAIN pending' : id < other
<1>1. Travel /\ DeliveredOk /\ [Next]_vars => [A]_vars
    <2> SUFFICES ASSUME Travel, DeliveredOk, Next, joined + Len(sent) < U32, Len(sent) <= Half,
                        NEW id \in DOMAIN pending \ DOMAIN pending',
                        Len(delivered') = Len(delivered), ~failed',
                        NEW other \in DOMAIN pending \cap DOMAIN pending'
                 PROVE  id < other
        BY DEF Half
    <2>1. PICK d \in net : Receive(d)
        <3>1. pending' # pending
            OBVIOUS
        <3> QED BY <3>1 DEF Next, SendFrame, Lose
    <2> DEFINE p == Decode(d)
    <2>2. /\ \E j \in 1..Len(sent) : FragmentOf(p, sent[j])
          /\ pending' = Push(p).pending /\ delivered' = delivered \o Push(p).frame
          /\ failed' = Refused(p)
        BY <2>1, Received
    <2> HIDE DEF p
    <2>3. ~IsDuplicate(p) /\ ~Refused(p)
        BY <2>2 DEF Refused
    <2>4. ~Completes(p)
        <3> SUFFICES ASSUME Completes(p) PROVE FALSE
            OBVIOUS
        <3> DEFINE x == Reassemble(Before(p) \cup {p})
                   S == {Delivery(f) : f \in Frames} \cup {x}
        <3>1. Push(p).frame = <<x>>
            BY <2>3, PushUnfolds
        <3>2. delivered \in Seq(S)
            BY SeqMonotonic DEF DeliveredOk
        <3>3. x \in S
            OBVIOUS
        <3> HIDE DEF x, S
        <3>4. <<x>> \in Seq(S) /\ Len(<<x>>) = 1
            BY <3>3
        <3>5. Len(delivered \o <<x>>) = Len(delivered) + 1 /\ Len(delivered) \in Nat
            BY <3>2, <3>4, ConcatProperties, LenProperties
        <3> QED BY <2>2, <3>1, <3>5
    <2>5. DOMAIN pending' = Left(p)
        BY <2>2, PushUnfolds
    <2> QED BY <2>2, <2>3, <2>4, <2>5, OldestGo
<1> QED BY <1>1, TravelHolds, DeliveryHolds, PTL DEF Spec, DropsOldest

=============================================================================
