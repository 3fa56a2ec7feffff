---------------------------- MODULE MediaEgress -----------------------------
(***************************************************************************)
(* The viewers' egress queues of the media relay (relay-server/src/        *)
(* media.rs).  Each registered viewer has a bounded channel, a send task   *)
(* that drains it and, shared by both, the depth of every stream in it:    *)
(* datagrams and milliseconds of media.                                    *)
(*                                                                         *)
(* A datagram is forwarded under the mutex of the egress table, so one at  *)
(* a time, to one viewer after the other: reserve depth, try to send, give *)
(* the depth back if the channel is full.  The send tasks run meanwhile:   *)
(* receive, send, give the depth back.  Only the depths have a lock of     *)
(* their own, hence these are separate steps.                              *)
(***************************************************************************)
EXTENDS Integers, Sequences, FiniteSets, FiniteSetsExt

CONSTANTS
    Viewers, Streams,
    Capacity,        \* egress_queue_capacity
    Budget,          \* viewer_queue_budget_ms
    FrameRates,      \* framerates the streams are published with
    FragmentCounts,  \* fragment counts of the packets
    MaxDatagrams     \* bound on the datagrams ever forwarded

MaxU16 == 65535

ASSUME EgressAssumption ==
    /\ Capacity \in Nat \ {0}
    /\ Budget \in 1..MaxU16
    /\ FrameRates \subseteq Nat
    /\ FragmentCounts \subseteq Nat
    /\ MaxDatagrams \in Nat

VARIABLES
    registered,   \* the viewers with a ViewerEgress
    channel,      \* per viewer, the queued datagrams
    inHand,       \* per viewer, the datagram its send task is busy with, if any
    depth,        \* per viewer and stream: [packets, ms]
    forwarding,   \* the datagram being forwarded, if any, and its audience
    nextId        \* numbers the datagrams in the order of forwarding

vars == <<registered, channel, inHand, depth, forwarding, nextId>>

-----------------------------------------------------------------------------
Larger(a, b)  == IF a >= b THEN a ELSE b
Smaller(a, b) == IF a <= b THEN a ELSE b
CeilDiv(a, b) == (a + b - 1) \div b

\* Mutant of PacketMediaDuration: a fragment may count for nothing.
DurationRoundedDown(fps, fragments) ==
    Smaller(CeilDiv(1000, Larger(fps, 1)), Budget) \div Larger(fragments, 1)

(***************************************************************************)
(* The media time a datagram stands for: its share of a frame, where a     *)
(* frame counts for at most the budget and a fragment for at least 1 ms.   *)
(***************************************************************************)
PacketMediaDuration(fps, fragments) ==
    LET frame == Smaller(CeilDiv(1000, Larger(fps, 1)), Budget)
    IN  Smaller(Larger(frame \div Larger(fragments, 1), 1), MaxU16)

Durations ==
    {PacketMediaDuration(x[1], x[2]) : x \in FrameRates \X FragmentCounts}

Datagram == [id : Nat, stream : Streams, ms : 1..Budget]

NoDepth == [packets |-> 0, ms |-> 0]
Idle == [datagram |-> << >>, audience |-> {}, reserved |-> {}]

Init ==
    /\ registered = {}
    /\ channel = [v \in Viewers |-> << >>]
    /\ inHand = [v \in Viewers |-> << >>]
    /\ depth = [v \in Viewers |-> [s \in Streams |-> NoDepth]]
    /\ forwarding = Idle
    /\ nextId = 1

-----------------------------------------------------------------------------
(***************************************************************************)
(* Registration, under the same mutex as forwarding.                       *)
(***************************************************************************)

\* A second registration replaces the egress: what was queued is lost with the
\* channel, the old send task is aborted when it next waits, and the new one
\* starts with no depth.  The old task still finishes the datagram in its hand,
\* on the old depths, which nobody looks at any more.
FreshEgress(v) ==
    /\ channel' = [channel EXCEPT ![v] = << >>]
    /\ inHand' = [inHand EXCEPT ![v] = << >>]
    /\ depth' = [depth EXCEPT ![v] = [s \in Streams |-> NoDepth]]
    /\ UNCHANGED <<forwarding, nextId>>

Register(v) ==
    /\ forwarding = Idle
    /\ registered' = registered \cup {v}
    /\ FreshEgress(v)

Unregister(v) ==
    /\ forwarding = Idle
    /\ v \in registered
    /\ registered' = registered \ {v}
    /\ FreshEgress(v)

-----------------------------------------------------------------------------
(***************************************************************************)
(* Forwarding.  The audience are the subscribers other than the publisher  *)
(* (for voice, those that are not deafened); those without an egress are   *)
(* skipped.                                                                *)
(***************************************************************************)
Forward(s, ms, audience) ==
    /\ forwarding = Idle
    /\ nextId <= MaxDatagrams
    /\ forwarding' = [datagram |-> <<[id |-> nextId, stream |-> s, ms |-> ms]>>,
                      audience |-> audience \cap registered, reserved |-> {}]
    /\ nextId' = nextId + 1
    /\ UNCHANGED <<registered, channel, inHand, depth>>

\* Mutant of Reserve: the budget is compared with the depth before the datagram.
ReserveBeforeAdding(v) ==
    /\ forwarding # Idle
    /\ v \in forwarding.audience
    /\ forwarding.reserved = {}
    /\ LET d   == forwarding.datagram[1]
           cur == depth[v][d.stream]
       IN  IF cur.ms > Budget
           THEN /\ forwarding' = [forwarding EXCEPT !.audience = @ \ {v}]
                /\ UNCHANGED depth
           ELSE /\ forwarding' = [forwarding EXCEPT !.audience = @ \ {v}, !.reserved = {v}]
                /\ depth' = [depth EXCEPT ![v][d.stream] =
                                [packets |-> cur.packets + 1, ms |-> cur.ms + d.ms]]
    /\ UNCHANGED <<registered, channel, inHand, nextId>>

\* try_reserve_stream_depth for the next viewer: over budget means that the
\* datagram is dropped for this viewer.
Reserve(v) ==
    /\ forwarding # Idle
    /\ v \in forwarding.audience
    /\ forwarding.reserved = {}
    /\ LET d    == forwarding.datagram[1]
           cur  == depth[v][d.stream]
           next == Smaller(cur.ms + d.ms, MaxU16)
       IN  IF next > Budget
           THEN /\ forwarding' = [forwarding EXCEPT !.audience = @ \ {v}]
                /\ UNCHANGED depth
           ELSE /\ forwarding' = [forwarding EXCEPT !.audience = @ \ {v}, !.reserved = {v}]
                /\ depth' = [depth EXCEPT ![v][d.stream] =
                                [packets |-> cur.packets + 1, ms |-> next]]
    /\ UNCHANGED <<registered, channel, inHand, nextId>>

\* release_stream_depth, with its saturating subtractions.
Released(cur, d) ==
    [packets |-> Larger(cur.packets - 1, 0), ms |-> Larger(cur.ms - d.ms, 0)]

Enqueue(v) ==
    /\ v \in forwarding.reserved
    /\ Len(channel[v]) < Capacity
    /\ channel' = [channel EXCEPT ![v] = Append(@, forwarding.datagram[1])]
    /\ forwarding' = [forwarding EXCEPT !.reserved = {}]
    /\ UNCHANGED <<registered, inHand, depth, nextId>>

\* Mutant of DropFull: the reservation is not given back.
DropFullKeepingDepth(v) ==
    /\ v \in forwarding.reserved
    /\ Len(channel[v]) >= Capacity
    /\ forwarding' = [forwarding EXCEPT !.reserved = {}]
    /\ UNCHANGED <<registered, channel, inHand, depth, nextId>>

\* Mutant of DropFull: send instead of try_send, so that it waits for room.
WaitForRoom(v) ==
    /\ v \in forwarding.reserved
    /\ Len(channel[v]) >= Capacity
    /\ UNCHANGED vars

\* A full channel: the datagram is dropped for this viewer.
DropFull(v) ==
    /\ v \in forwarding.reserved
    /\ Len(channel[v]) >= Capacity
    /\ LET d == forwarding.datagram[1]
       IN  depth' = [depth EXCEPT ![v][d.stream] = Released(@, d)]
    /\ forwarding' = [forwarding EXCEPT !.reserved = {}]
    /\ UNCHANGED <<registered, channel, inHand, nextId>>

EndForward ==
    /\ forwarding # Idle
    /\ forwarding.audience = {} /\ forwarding.reserved = {}
    /\ forwarding' = Idle
    /\ UNCHANGED <<registered, channel, inHand, depth, nextId>>

-----------------------------------------------------------------------------
(***************************************************************************)
(* The send task of a viewer.                                              *)
(***************************************************************************)
Receive(v) ==
    /\ v \in registered
    /\ inHand[v] = << >> /\ channel[v] # << >>
    /\ inHand' = [inHand EXCEPT ![v] = <<Head(channel[v])>>]
    /\ channel' = [channel EXCEPT ![v] = Tail(@)]
    /\ UNCHANGED <<registered, depth, forwarding, nextId>>

\* Mutant of Send: the depth is not given back.
SendKeepingDepth(v) ==
    /\ inHand[v] # << >>
    /\ inHand' = [inHand EXCEPT ![v] = << >>]
    /\ UNCHANGED <<registered, channel, depth, forwarding, nextId>>

\* send_datagram does not wait, and its failure is only logged; then the depth
\* is given back.
Send(v) ==
    /\ inHand[v] # << >>
    /\ LET d == inHand[v][1]
       IN  depth' = [depth EXCEPT ![v][d.stream] = Released(@, d)]
    /\ inHand' = [inHand EXCEPT ![v] = << >>]
    /\ UNCHANGED <<registered, channel, forwarding, nextId>>

-----------------------------------------------------------------------------
Step(v) == Reserve(v) \/ Enqueue(v) \/ DropFull(v)
Drain(v) == Receive(v) \/ Send(v)

Next ==
    \/ \E s \in Streams, ms \in Durations, a \in SUBSET Viewers : Forward(s, ms, a)
    \/ \E v \in Viewers : Step(v) \/ Drain(v) \/ Register(v) \/ Unregister(v)
    \/ EndForward

\* Forwarding runs to its end without waiting for anything.
Spec ==
    /\ Init /\ [][Next]_vars
    /\ WF_vars(EndForward)
    /\ \A v \in Viewers : WF_vars(Step(v))

-----------------------------------------------------------------------------
\* Every variable has its shape; a datagram in hand, queued or on its way never
\* counts for more than the budget.
TypeOK ==
    /\ registered \subseteq Viewers
    /\ channel \in [Viewers -> Seq(Datagram)]
    /\ inHand \in [Viewers -> Seq(Datagram)]
    /\ depth \in [Viewers -> [Streams -> [packets : Nat, ms : Nat]]]
    /\ forwarding.datagram \in Seq(Datagram)
    /\ forwarding.audience \subseteq Viewers /\ forwarding.reserved \subseteq Viewers
    /\ nextId \in Nat \ {0}

Elements(q) == {q[i] : i \in DOMAIN q}

\* The datagrams of a stream that count against a viewer's depth.
Outstanding(v, s) ==
    {d \in Elements(channel[v]) \cup Elements(inHand[v])
          \cup (IF v \in forwarding.reserved THEN Elements(forwarding.datagram) ELSE {}) :
        d.stream = s}

\* The depth StreamMetrics reports, and the budget is compared with, is exactly
\* what is queued, being sent or about to be queued: no interleaving of the
\* forwarder and the send task leaks or double-releases a reservation.
DepthIsExact ==
    \A v \in Viewers, s \in Streams :
        /\ depth[v][s].packets = Cardinality(Outstanding(v, s))
        /\ depth[v][s].ms = MapThenSumSet(LAMBDA d : d.ms, Outstanding(v, s))

\* No viewer has datagrams of more than the budget of one stream queued, in hand or
\* about to be queued, nor more of them in its channel than the channel takes.
QueuesAreBounded ==
    \A v \in Viewers :
        /\ \A s \in Streams : MapThenSumSet(LAMBDA d : d.ms, Outstanding(v, s)) <= Budget
        /\ Len(channel[v]) <= Capacity

\* A backed-up stream is never dropped for want of room in the channel on account of
\* its own datagrams, which its budget stops first: whatever the interleaving, when
\* try_send meets a full channel the other streams of the viewer fill all of it but a
\* budget.  The channel is one per viewer, so they can: streams whose budgets together
\* exceed the capacity do crowd each other out.
CrowdedOutByOthers ==
    \A v \in forwarding.reserved :
        Len(channel[v]) >= Capacity =>
            LET s == forwarding.datagram[1].stream
            IN  Cardinality(UNION {Outstanding(v, t) : t \in Streams \ {s}}) > Capacity - Budget

\* The relay comes to the end of every datagram even if no send task ever runs
\* again: a slow viewer delays neither the publisher nor other viewers.
ForwardingNeverBlocks == []<>(forwarding = Idle)

\* Once the traffic stops and tokio keeps polling the send tasks that have
\* something to receive, every depth returns to zero.
DepthReturnsToZero ==
    (\A v \in Viewers : WF_vars(Drain(v))) =>
        ((nextId > MaxDatagrams) ~> (\A v \in Viewers, s \in Streams : depth[v][s] = NoDepth))

=============================================================================
