--------------------------- MODULE FrameTransport ---------------------------
(***************************************************************************)
(* How encoded frames travel from a broadcaster to a viewer: they are cut  *)
(* into fragments (protocol/src/frame.rs), the fragments are QUIC          *)
(* datagrams (PacketCodec) that may be lost or overtake each other but are *)
(* never duplicated, the relay decodes each one and encodes it again, and  *)
(* the viewer puts them together in its FrameReassemblyBuffer              *)
(* (desktop-client/src/decode/mod.rs).                                     *)
(*                                                                         *)
(* A frame is the number of bytes it has; its k-th byte is the pair        *)
(* <<stamp, k>>, so that two frames never have equal contents.  The stamp  *)
(* stands for the capture time, which the broadcaster's clock makes        *)
(* different for every frame; frame ids and sequence numbers are reused    *)
(* after U32 of them.  The viewer joins a broadcast that has been going on *)
(* for some frames, which may be close to where the numbers wrap around.   *)
(***************************************************************************)
EXTENDS PacketCodec, FiniteSets, SequencesExt

CONSTANTS
    MaxPayload,       \* bytes of a fragment
    FrameSizes,       \* the lengths of encoded frames
    KeyChoices,       \* whether the encoder was asked for a keyframe
    Joined,           \* how many frames the broadcaster has sent when the viewer joins
    MaxPendingFrames, MaxFrameAge,    \* the limits of the buffer
    MaxPendingMedia, FrameInterval,   \* its jitter budget and the frame interval, in ms
    MaxFrames         \* bound on the frames ever sent

ASSUME TransportAssumption ==
    /\ MaxPayload \in 1..(U16 - 1)
    /\ FrameSizes \subseteq Nat /\ KeyChoices \subseteq BOOLEAN
    /\ Joined \subseteq Nat
    /\ MaxPendingFrames \in Nat \ {0} /\ MaxFrameAge \in Nat \ {0}
    /\ FrameInterval \in Nat \ {0}
    /\ MaxPendingMedia \in FrameInterval..65534   \* below the saturation of pending_media_ms
    /\ MaxFrames \in Nat

VARIABLES
    joined,      \* frames sent before the viewer joined
    sent,        \* the frames sent so far, the stamp is the index
    nextSeq,     \* next_sequence_number of the broadcaster
    net,         \* the datagrams under way
    pending,     \* FrameReassemblyBuffer.pending: frame id -> set of fragments
    dropped,     \* frames the buffer reported as dropped
    received, lost, lastSeq,   \* the packet counters of ClientMediaStats
    firstSeq,    \* the sequence number of the first packet (history)
    delivered,   \* the frames handed to the decoder
    failed       \* has an error ended the viewer's media loop?

vars == <<joined, sent, nextSeq, net, pending, dropped, received, lost, lastSeq, firstSeq, delivered, failed>>

None == -1

-----------------------------------------------------------------------------
(***************************************************************************)
(* Packetizing.                                                            *)
(***************************************************************************)
Bytes(frame) == [k \in 1..frame.size |-> <<frame.stamp, k>>]

\* Mutant of FragmentCount: the division rounds down.
FragmentCountFloor(size) == IF size < MaxPayload THEN 1 ELSE size \div MaxPayload

\* A frame without bytes still takes one fragment.
FragmentCount(size) ==
    IF size = 0 THEN 1 ELSE (size + MaxPayload - 1) \div MaxPayload

FragmentEnd(size, i) ==
    IF (i + 1) * MaxPayload < size THEN (i + 1) * MaxPayload ELSE size

\* Fragment i of a frame.
Fragment(frame, seq, i) ==
    LET n == FragmentCount(frame.size)
        payload == SubSeq(Bytes(frame), i * MaxPayload + 1, FragmentEnd(frame.size, i))
    IN  [type |-> PacketTypes.Video, codec |-> CodecIds.H264, layer |-> 0, stream |-> 1,
         stamp |-> frame.stamp, id |-> frame.id, key |-> frame.key,
         seq |-> (seq + i) % U32, index |-> i, count |-> n, end |-> (i + 1 = n),
         payload |-> payload, length |-> Len(payload)]

\* Mutant of Packetize: only the first fragment of a keyframe says so.
PacketizeMarkingFirst(frame, seq) ==
    {[Fragment(frame, seq, i) EXCEPT !.key = frame.key /\ i = 0] :
        i \in 0..(FragmentCount(frame.size) - 1)}

Packetize(frame, seq) ==
    {Fragment(frame, seq, i) : i \in 0..(FragmentCount(frame.size) - 1)}

-----------------------------------------------------------------------------
(***************************************************************************)
(* Reassembly.                                                             *)
(***************************************************************************)

\* The fields every fragment of a frame has to share.
SameFrame(p, q) ==
    /\ p.stamp = q.stamp /\ p.id = q.id
    /\ p.count = q.count /\ p.key = q.key
    /\ p.stream = q.stream /\ p.type = q.type /\ p.codec = q.codec /\ p.layer = q.layer

\* reassemble_frame accepts this set of fragments.
Reassembles(fragments) ==
    LET first == CHOOSE p \in fragments : \A q \in fragments : p.index <= q.index
    IN  /\ \A p \in fragments : IsValid(p)
        /\ first.type # PacketTypes.Probe
        /\ Cardinality(fragments) = first.count
        /\ {p.index : p \in fragments} = 0..(first.count - 1)
        /\ \A p \in fragments : SameFrame(p, first) /\ (p.end <=> p.index + 1 = first.count)

\* The frame it makes of them, whose indexes are 0, 1, ...
Reassemble(fragments) ==
    LET ordered == [i \in 1..Cardinality(fragments) |-> CHOOSE p \in fragments : p.index = i - 1]
    IN  [stamp |-> ordered[1].stamp, id |-> ordered[1].id, key |-> ordered[1].key,
         bytes |-> FlattenSeq([i \in DOMAIN ordered |-> ordered[i].payload])]

\* frame_is_older_than_window, on ids that wrap around.
OlderThanWindow(id, newest) ==
    LET distance == (newest - id) % U32
    IN  distance > MaxFrameAge /\ distance < (U32 - 1) \div 2

\* Mutant of WithoutSmallest: the newest frames go.
WithoutLargest(S, n) ==
    {id \in S : Cardinality({other \in S : other > id}) >= n}

\* The n numerically smallest ids of S go first: a BTreeMap yields its keys in order.
WithoutSmallest(S, n) ==
    {id \in S : Cardinality({other \in S : other < id}) >= n}

\* The ids still pending when a packet of frame id has made room for itself:
\* first the frames out of the window go, then, where this is a new frame and
\* there are too many, the smallest ids.
MakeRoomFor(id) ==
    LET fresh == {other \in DOMAIN pending : ~OlderThanWindow(other, id)}
        excess == Cardinality(fresh) - (MaxPendingFrames - 1)
    IN  IF id \in fresh THEN fresh ELSE WithoutSmallest(fresh, excess)

\* Mutant of EvictMediaBudget: one frame too many is kept.
EvictOverBudget(ids) ==
    WithoutSmallest(ids, Cardinality(ids) - MaxPendingMedia \div FrameInterval - 1)

\* There are as many fragments as packet p says the frame has.
IsComplete(fragments, p) == Cardinality(fragments) = p.count

\* evict_media_budget: the smallest ids go while the budget is exceeded.
EvictMediaBudget(ids) ==
    WithoutSmallest(ids, Cardinality(ids) - MaxPendingMedia \div FrameInterval)

(***************************************************************************)
(* FrameReassemblyBuffer::push: the pending fragments and the frame count  *)
(* after it, the frame it completes (at most one) and whether it           *)
(* fails.  A second fragment with the same index, or fragments that do not *)
(* fit together, are errors.                                               *)
(***************************************************************************)
Push(p) ==
    LET kept   == MakeRoomFor(p.id)
        before == IF p.id \in kept THEN pending[p.id] ELSE {}
        buffer == [id \in kept \cup {p.id} |->
                      IF id = p.id THEN before \cup {p} ELSE pending[id]]
        isDuplicate == \E q \in before : q.index = p.index
        complete == IsComplete(buffer[p.id], p)
        broken == isDuplicate \/ (complete /\ ~Reassembles(buffer[p.id]))
        left == IF isDuplicate THEN kept
                ELSE IF complete THEN DOMAIN buffer \ {p.id}
                ELSE EvictMediaBudget(DOMAIN buffer)
    IN  [pending |-> [id \in left |-> IF isDuplicate THEN pending[id] ELSE buffer[id]],
         drops |-> IF broken THEN 0
                   ELSE Cardinality(DOMAIN pending \ kept)
                           + (IF complete THEN 0 ELSE Cardinality(DOMAIN buffer \ left)),
         frame |-> IF complete /\ ~broken THEN <<Reassemble(buffer[p.id])>> ELSE << >>,
         error |-> broken]

-----------------------------------------------------------------------------
Init ==
    /\ joined \in Joined
    /\ sent = << >>
    /\ nextSeq = (joined + 1) % U32
    /\ net = {}
    /\ pending = [id \in {} |-> {}]
    /\ dropped = 0
    /\ received = 0 /\ lost = 0 /\ lastSeq = None /\ firstSeq = None
    /\ delivered = << >>
    /\ failed = FALSE

\* One round of the broadcaster's loop: the encoder's frame, all its fragments.
\* The first frame is a keyframe, another one if the encoder was asked for it.
\* A frame that needs more fragments than their number can count is an error.
SendFrame(size, requested) ==
    LET stamp == joined + Len(sent) + 1
        frame == [stamp |-> stamp, id |-> stamp % U32, key |-> requested \/ stamp = 1, size |-> size]
    IN  /\ Len(sent) < MaxFrames
        /\ FragmentCount(size) < U16
        /\ \A p \in Packetize(frame, nextSeq) : CanEncode(p)
        /\ sent' = Append(sent, frame)
        /\ nextSeq' = (nextSeq + FragmentCount(size)) % U32
        /\ net' = net \cup {Encode(p) : p \in Packetize(frame, nextSeq)}
        /\ UNCHANGED <<joined, pending, dropped, received, lost, lastSeq, firstSeq, delivered, failed>>

\* A datagram is lost on the way or dropped by the relay.
Lose(d) ==
    /\ d \in net
    /\ net' = net \ {d}
    /\ UNCHANGED <<joined, sent, nextSeq, pending, dropped, received, lost, lastSeq, firstSeq, delivered, failed>>

\* Mutant of RecordPacket: whatever its size, a gap counts as one packet.
RecordGap(p) ==
    LET distance == (p.seq - lastSeq) % U32
        advances == distance > 0 /\ distance < (U32 - 1) \div 2
    IN  /\ received' = received + 1
        /\ firstSeq' = IF lastSeq = None THEN p.seq ELSE firstSeq
        /\ IF lastSeq = None THEN lastSeq' = p.seq /\ lost' = lost
           ELSE IF advances
                THEN lastSeq' = p.seq /\ lost' = lost + (IF distance > 1 THEN 1 ELSE 0)
           ELSE UNCHANGED <<lastSeq, lost>>

\* ClientMediaStats::record_packet: a gap in front of a packet counts as lost,
\* an older packet is counted as received and leaves the rest alone.
RecordPacket(p) ==
    LET distance == (p.seq - lastSeq) % U32
        advances == distance > 0 /\ distance < (U32 - 1) \div 2
    IN  /\ received' = received + 1
        /\ firstSeq' = IF lastSeq = None THEN p.seq ELSE firstSeq
        /\ IF lastSeq = None THEN lastSeq' = p.seq /\ lost' = lost
           ELSE IF advances THEN lastSeq' = p.seq /\ lost' = lost + distance - 1
           ELSE UNCHANGED <<lastSeq, lost>>

\* The relay takes a datagram apart, stamps it with its own times and encodes it
\* again for every viewer.
Relayed(d) == Encode(Decode(d))

\* One round of the viewer's loop, up to the decoder, on a datagram that the
\* relay could read and forwarded.  A datagram the viewer cannot decode, and a
\* fragment the buffer refuses, end the loop.
Receive(d) ==
    LET p == Decode(Relayed(d))
        outcome == Push(p)
    IN  /\ d \in net /\ ~failed
        /\ CanDecode(d) /\ CanEncode(Decode(d))
        /\ net' = net \ {d}
        /\ RecordPacket(p)
        /\ pending' = outcome.pending
        /\ dropped' = dropped + outcome.drops
        /\ delivered' = delivered \o outcome.frame
        /\ failed' = (outcome.error \/ ~CanDecode(Relayed(d)))
        /\ UNCHANGED <<joined, sent, nextSeq>>

Next ==
    \/ \E size \in FrameSizes, requested \in KeyChoices : SendFrame(size, requested)
    \/ \E d \in net : Lose(d) \/ Receive(d)

Spec == Init /\ [][Next]_vars

-----------------------------------------------------------------------------
(***************************************************************************)
(* Properties.                                                             *)
(***************************************************************************)
\* Whatever is lost, overtakes or wraps around, the decoder only ever gets frames
\* that were sent, byte for byte, and gets none of them twice: a frame is never
\* put together from fragments of two frames that share an id.
DeliveredIsSent ==
    /\ \A i \in DOMAIN delivered : \E j \in DOMAIN sent :
          delivered[i] = [stamp |-> sent[j].stamp, id |-> sent[j].id, key |-> sent[j].key,
                          bytes |-> Bytes(sent[j])]
    /\ \A i, j \in DOMAIN delivered : delivered[i].stamp = delivered[j].stamp => i = j

\* Incomplete frames never exceed the frame limit nor the jitter budget: a
\* viewer that loses fragments does not accumulate delay.
BufferIsBounded ==
    /\ Cardinality(DOMAIN pending) <= MaxPendingFrames
    /\ Cardinality(DOMAIN pending) * FrameInterval <= MaxPendingMedia

\* No legal traffic makes the buffer refuse a fragment, which would end the
\* viewer's whole media loop: reordering, loss and the buffer's own evictions
\* never leave it with fragments that do not fit together.  Frames of which
\* fragments are under way or pending are fewer than there are ids.
NeverRefused == Len(sent) < U32 => ~failed

\* The buffer gives up the oldest incomplete frames: a frame that leaves it
\* undelivered is older than every frame that was in it and stays.  Stated for
\* ids that have not wrapped around and are less than half of them apart, since
\* frame_is_older_than_window takes what is further away for newer.
DropsOldest ==
    [][joined + Len(sent) < U32 /\ Len(sent) <= (U32 - 1) \div 2 => \A id \in DOMAIN pending \ DOMAIN pending' :
          Len(delivered') = Len(delivered) /\ ~failed' =>
             \A other \in DOMAIN pending \cap DOMAIN pending' : id < other]_vars

\* The packet counters never hide a loss, in whatever order packets arrive: from
\* the first packet to the newest there are no more sequence numbers than
\* packets received or counted as lost.
LossIsCounted ==
    lastSeq # None => (lastSeq - firstSeq) % U32 < received + lost

=============================================================================
