----------------------------- MODULE ClockSync ------------------------------
(***************************************************************************)
(* How a client learns the relay's clock (desktop-client/src/main.rs,      *)
(* TimeSync) and what it measures with it (desktop-client/src/stats.rs).   *)
(* Times are microseconds; an offset is the relay's clock minus the        *)
(* client's.                                                               *)
(***************************************************************************)
EXTENDS Integers, Sequences

MaxU16 == 65535

AtLeast0(x) == IF x >= 0 THEN x ELSE 0
Capped(x) == IF x <= MaxU16 THEN x ELSE MaxU16

\* micros_to_millis and micros_delta_to_millis.
ToMillis(micros) == Capped(AtLeast0(micros) \div 1000)

\* Mutant of EstimateClockSync: the time the answer took is taken for half the way.
EstimateFromArrival(sent, relayReceived, relaySent, received) ==
    LET elapsed == AtLeast0(received - sent)
        processing == AtLeast0(relaySent - relayReceived)
    IN  [rtt |-> AtLeast0(elapsed - processing),
         offset |-> relayReceived - (sent + elapsed \div 2)]

\* estimate_clock_sync: the middle of the client's interval is taken to be the
\* middle of the relay's.  Only differences of times of one clock saturate.
EstimateClockSync(sent, relayReceived, relaySent, received) ==
    LET elapsed == AtLeast0(received - sent)
        processing == AtLeast0(relaySent - relayReceived)
    IN  [rtt |-> AtLeast0(elapsed - processing),
         offset |-> (relayReceived + processing \div 2) - (sent + elapsed \div 2)]

\* select_best_clock_sync_estimate: the first of those with the shortest round trip.
SelectBest(samples) ==
    LET best == CHOOSE i \in DOMAIN samples :
                   \A j \in DOMAIN samples :
                      \/ samples[i].rtt < samples[j].rtt
                      \/ samples[i].rtt = samples[j].rtt /\ i <= j
    IN  samples[best]

\* Mutant of CalibratedLatency: the receiver's offset is taken for the sender's.
CalibratedBySender(captured, senderOffset, received, receiverOffset, previous) ==
    LET latency == (received + senderOffset) - (captured + senderOffset)
    IN  IF captured = 0 \/ latency < 0 THEN previous ELSE Capped(latency \div 1000)

\* record_calibrated_latency: both times on the relay's clock.  A latency that would
\* be negative is not recorded, and the previous one stays.
CalibratedLatency(captured, senderOffset, received, receiverOffset, previous) ==
    LET latency == (received + receiverOffset) - (captured + senderOffset)
    IN  IF captured = 0 \/ latency < 0 THEN previous ELSE Capped(latency \div 1000)

=============================================================================
