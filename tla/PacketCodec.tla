----------------------------- MODULE PacketCodec -----------------------------
(***************************************************************************)
(* The media datagram (protocol/src/packet.rs): a header of fixed-width    *)
(* fields followed by the payload.  A datagram is the sequence of its      *)
(* header fields in wire order with the payload bytes appended; lengths    *)
(* count elements.  The times and clock offset of the header are one field *)
(* (its stamp), since every reader compares or copies them together.       *)
(* Fields narrower than 64 bits keep their width.                          *)
(***************************************************************************)
EXTENDS Integers, Sequences

CONSTANTS
    U16,    \* values of a u16 field: fragment numbers and the payload length
    U32     \* values of a u32 field: stream ids, frame ids, sequence numbers

ASSUME WidthAssumption == U16 \in Nat \ {0} /\ U32 \in Nat \ {0, 1}

ProtocolVersion == 1
PacketTypes == [Video |-> 1, Audio |-> 2, Probe |-> 3]
CodecIds == [H264 |-> 1, Av1 |-> 2, Hevc |-> 3, Opus |-> 16]
HeaderLength == 13

\* PacketFlags: bit 0 is KEYFRAME, bit 1 is END_OF_FRAME.
Flags(p) == (IF p.key THEN 1 ELSE 0) + (IF p.end THEN 2 ELSE 0)

\* MediaPacketHeader::validate.
IsValid(p) ==
    /\ p.count # 0 /\ p.index < p.count
    /\ p.layer = 0
    /\ p.type = PacketTypes.Probe => p.codec = CodecIds.H264

\* MediaPacket::encode refuses a packet whose length field would lie.
CanEncode(p) == Len(p.payload) < U16 /\ p.length = Len(p.payload) /\ IsValid(p)

Encode(p) ==
    << ProtocolVersion, p.type, Flags(p), HeaderLength,
       p.stream % U32, p.seq % U32, p.id % U32, p.index % U16, p.count % U16,
       p.stamp, p.codec, p.layer, p.length % U16 >> \o p.payload

\* What MediaPacket::decode reads: a longer header than ours is skipped over.
Decode(d) ==
    [type |-> d[2], key |-> d[3] % 2 = 1, end |-> (d[3] \div 2) % 2 = 1,
     stream |-> d[5], seq |-> d[6], id |-> d[7], index |-> d[8], count |-> d[9],
     stamp |-> d[10], codec |-> d[11], layer |-> d[12], length |-> d[13],
     payload |-> SubSeq(d, d[4] + 1, d[4] + d[13])]

\* ... and when it succeeds: known version, type and codec, a valid header, and
\* exactly as many bytes after it as it announces.
CanDecode(d) ==
    /\ Len(d) >= HeaderLength
    /\ d[1] = ProtocolVersion
    /\ \E t \in DOMAIN PacketTypes : d[2] = PacketTypes[t]
    /\ d[4] >= HeaderLength /\ Len(d) >= d[4]
    /\ \E c \in DOMAIN CodecIds : d[11] = CodecIds[c]
    /\ IsValid(Decode(d))
    /\ Len(d) = d[4] + d[13]

=============================================================================
