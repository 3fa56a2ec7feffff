-------------------------- MODULE ViewerLoopProofs --------------------------
(***************************************************************************)
(* The viewer's measurements, for all delays, offsets and intervals: how   *)
(* far the estimated clock and the reported latency can be off, and how    *)
(* far behind the relay's reports can be.                                  *)
(***************************************************************************)
EXTENDS ViewerLoop, FiniteSetTheorems, FunctionTheorems, SequenceTheorems, TLAPS

-----------------------------------------------------------------------------
(***************************************************************************)
(* The clock.                                                              *)
(***************************************************************************)

\* Half a number, rounded down.
LEMMA Half ==
    ASSUME NEW n \in Nat
    PROVE  n \div 2 \in Nat /\ 2 * (n \div 2) <= n /\ n <= 2 * (n \div 2) + 1
OBVIOUS

\* One TimeSync: the error of the offset is half the difference of the two ways,
\* which the round trip bounds.
LEMMA OneEstimate ==
    ASSUME NEW o \in Int, NEW a \in Nat, NEW b \in Nat, NEW c \in Nat
    PROVE  LET e == EstimateClockSync(Start - o, Start + a, Start + a + b,
                                      Start + a + b + c - o)
           IN  e.rtt \in Nat /\ e.offset \in Int /\ Within(2 * e.offset, 2 * o, e.rtt + 2)
<1> USE DEF Start
<1>1. AtLeast0((Start + a + b + c - o) - (Start - o)) = a + b + c
    BY DEF AtLeast0
<1>2. AtLeast0((Start + a + b) - (Start + a)) = b
    BY DEF AtLeast0
<1>3. AtLeast0((a + b + c) - b) = a + c
    BY DEF AtLeast0
<1>4. PICK p \in Nat : p = b \div 2 /\ 2 * p <= b /\ b <= 2 * p + 1
    BY Half
<1>5. PICK n \in Nat : n = a + b + c
    OBVIOUS
<1>6. PICK q \in Nat : q = n \div 2 /\ 2 * q <= n /\ n <= 2 * q + 1
    BY Half
<1>7. EstimateClockSync(Start - o, Start + a, Start + a + b, Start + a + b + c - o) =
        [rtt |-> a + c, offset |-> (Start + a + p) - (Start - o + q)]
    BY <1>1, <1>2, <1>3, <1>4, <1>5, <1>6 DEF EstimateClockSync
<1>8. Within(2 * ((Start + a + p) - (Start - o + q)), 2 * o, a + c + 2)
    BY <1>4, <1>5, <1>6 DEF Within
<1> QED BY <1>7, <1>8

Good(e, o) == e.rtt \in Nat /\ e.offset \in Int /\ Within(2 * e.offset, 2 * o, e.rtt + 2)

\* Whatever a client gets from a TimeSync.
LEMMA EveryEstimate ==
    ASSUME NEW o \in Int, NEW e \in Estimates(o)
    PROVE  Good(e, o)
<1>1. PICK d \in Delays \X Processing \X Delays :
        e = EstimateClockSync(Start - o, Start + d[1], Start + d[1] + d[2],
                              Start + d[1] + d[2] + d[3] - o)
    BY DEF Estimates
<1>2. d[1] \in Nat /\ d[2] \in Nat /\ d[3] \in Nat
    BY ViewerAssumption
<1> QED BY <1>1, <1>2, OneEstimate DEF Good

\* A thousandth of a number, rounded down.
LEMMA Thousandth ==
    ASSUME NEW n \in Nat
    PROVE  n \div 1000 \in Nat /\ 1000 * (n \div 1000) <= n /\ n <= 1000 * (n \div 1000) + 999
OBVIOUS

\* What LatencyIsCalibrated says of one frame.
Calibrated(shown, latency, slack) ==
    \/ Within(2000 * shown, 2 * latency, slack + 2000)
    \/ 2 * latency <= slack
    \/ shown = MaxU16 /\ 2 * latency + slack >= 2000 * MaxU16

\* The latency of a frame, from two good estimates.
LEMMA OneLatency ==
    ASSUME NEW s, Good(s, PublisherOffset), NEW e, Good(e, ViewerOffset),
           NEW latency \in Nat, NEW previous \in Int
    PROVE  LET shown == CalibratedLatency(Start - PublisherOffset, s.offset,
                            Start + latency - ViewerOffset, e.offset, previous)
           IN  shown \in Int /\ Calibrated(shown, latency, s.rtt + e.rtt + 4)
<1> USE DEF Start
<1>0. PICK so \in Int, eo \in Int, sr \in Nat, er \in Nat :
        so = s.offset /\ eo = e.offset /\ sr = s.rtt /\ er = e.rtt
    BY DEF Good
<1>1. PICK l \in Int : l = (Start + latency - ViewerOffset + eo) - (Start - PublisherOffset + so)
    BY ViewerAssumption
<1>2. Within(2 * l, 2 * latency, sr + er + 4)
    BY <1>0, <1>1, ViewerAssumption DEF Good, Within
<1>3. Start - PublisherOffset # 0
    BY ViewerAssumption
<1>4. CalibratedLatency(Start - PublisherOffset, so, Start + latency - ViewerOffset, eo, previous)
        = IF l < 0 THEN previous ELSE Capped(l \div 1000)
    BY <1>1, <1>3 DEF CalibratedLatency
<1>5. CASE l < 0
    <2>1. 2 * latency <= sr + er + 4
        BY <1>2, <1>5 DEF Within
    <2> QED BY <1>0, <1>4, <1>5, <2>1 DEF Calibrated
<1>6. CASE ~(l < 0)
    <2>1. PICK m \in Nat : m = l \div 1000 /\ 1000 * m <= l /\ l <= 1000 * m + 999
        BY <1>6, Thousandth
    <2>2. CASE m <= MaxU16
        <3>1. Within(2000 * m, 2 * latency, sr + er + 4 + 2000)
            BY <1>2, <2>1 DEF Within
        <3> QED BY <1>0, <1>4, <1>6, <2>1, <2>2, <3>1 DEF Calibrated, Capped
    <2>3. CASE ~(m <= MaxU16)
        <3>1. 2 * latency + (sr + er + 4) >= 2000 * MaxU16
            BY <1>2, <2>1, <2>3 DEF Within, MaxU16
        <3>2. MaxU16 \in Int
            BY DEF MaxU16
        <3> QED BY <1>0, <1>4, <1>6, <2>1, <2>3, <3>1, <3>2 DEF Calibrated, Capped
    <2> QED BY <2>2, <2>3
<1> QED BY <1>5, <1>6

\* A set of numbers that is not empty has a least one.
LEMMA LeastNumber ==
    ASSUME NEW B, B \subseteq Nat, B # {}
    PROVE  \E n \in B : \A m \in B : n <= m
<1>1. IsWellFoundedOn(OpToRel(<, Nat), Nat)
    BY NatLessThanWellFounded
<1>2. PICK n \in B : \A m \in B : ~(<<m, n>> \in OpToRel(<, Nat))
    BY <1>1, WFMin
<1>3. ASSUME NEW m \in B PROVE n <= m
    <2>1. m \in Nat /\ n \in Nat
        OBVIOUS
    <2>2. ~(m < n)
        BY <1>2, <2>1 DEF OpToRel
    <2> QED BY <2>1, <2>2
<1> QED BY <1>3

\* What SelectBest chooses by.
IsBest(q, i) ==
    \A j \in DOMAIN q : q[i].rtt < q[j].rtt \/ (q[i].rtt = q[j].rtt /\ i <= j)

\* The best of several estimates is one of them.
LEMMA BestIsOne ==
    ASSUME NEW E, \A e \in E : e.rtt \in Nat, NEW q \in Seq(E), q # << >>
    PROVE  SelectBest(q) \in E
<1> DEFINE I == DOMAIN q
           R == {q[i].rtt : i \in I}
<1>1. I = 1..Len(q) /\ Len(q) \in Nat /\ Len(q) # 0 /\ \A i \in I : q[i] \in E
    OBVIOUS
<1>2. R \subseteq Nat /\ R # {}
    <2>1. 1 \in I
        BY <1>1
    <2> QED BY <1>1, <2>1
<1>3. PICK r \in R : \A m \in R : r <= m
    <2> HIDE DEF R
    <2> QED BY <1>2, LeastNumber
<1> DEFINE J == {i \in I : q[i].rtt = r}
<1>4. J \subseteq Nat /\ J # {}
    BY <1>1
<1>5. PICK i \in J : \A j \in J : i <= j
    <2> HIDE DEF J
    <2> QED BY <1>4, LeastNumber
<1>6. IsBest(q, i)
    <2> SUFFICES ASSUME NEW j \in DOMAIN q
                 PROVE  q[i].rtt < q[j].rtt \/ (q[i].rtt = q[j].rtt /\ i <= j)
        BY DEF IsBest
    <2>0. j \in I
        OBVIOUS
    <2>1. q[i].rtt = r /\ r \in Nat /\ q[j].rtt \in Nat /\ q[j].rtt \in R
        BY <1>1, <1>2, <2>0
    <2>2. r <= q[j].rtt
        BY <1>3, <2>1
    <2>3. CASE q[j].rtt = r
        BY <1>5, <2>0, <2>1, <2>3
    <2>4. CASE q[j].rtt # r
        BY <2>1, <2>2, <2>4
    <2> QED BY <2>3, <2>4
<1>7. i \in DOMAIN q
    OBVIOUS
<1> HIDE DEF I, R, J
<1> DEFINE b == CHOOSE k \in DOMAIN q : IsBest(q, k)
<1>8. b \in DOMAIN q
    BY <1>6, <1>7
<1>9. SelectBest(q) = q[b]
    BY DEF SelectBest, IsBest
<1> HIDE DEF b
<1> QED BY <1>1, <1>8, <1>9 DEF I

-----------------------------------------------------------------------------
(***************************************************************************)
(* The state.                                                              *)
(***************************************************************************)
Window ==
    [values : [1..SampleCapacity -> Nat], len : 0..SampleCapacity, next : 1..SampleCapacity]
Stats ==
    [packets : Nat, frames : Nat, decoded : Nat, dropped : Nat, calibrated : Int,
     reassembly : Window]

TypeInv ==
    /\ pc \in {"sync", "loop", "closing", "ended", "failed"}
    /\ target \in [Kinds -> Nat]
    /\ stats \in [Kinds -> Stats]
    /\ truth \in [Kinds -> [latency : Nat, slack : Nat]]
    /\ durations \in [Kinds -> Seq(Nat)]
    /\ reported \in [Kinds -> {NoReport} \cup {<<s>> : s \in Stats}]

\* All the estimates are good, also the sender's.
ClockInv ==
    /\ Good(sender, PublisherOffset)
    /\ samples \in Seq(Estimates(ViewerOffset))
    /\ pc = "loop" => Good(estimate, ViewerOffset)

\* The frame that was last is shown with the latency it had.
LatencyInv ==
    \A k \in Kinds : stats[k].frames > 0 =>
        Calibrated(stats[k].calibrated, truth[k].latency, truth[k].slack + 4)

\* Nothing of a stream nobody waits for is counted or reported.
SilentInv ==
    \A k \in Kinds : target[k] = 0 => stats[k].packets = 0 /\ reported[k] = NoReport

\* The reports to be sent: one inside the loop, those of what was received behind it.
DueInv ==
    /\ \/ due = << >> /\ pc # "closing"
       \/ pc = "loop" /\ \E k \in Kinds : due = <<k>> /\ stats[k].packets > 0
       \/ /\ pc = "closing"
          /\ due \in {<<"Screen">>, <<"Voice">>, <<"Screen", "Voice">>}
    /\ pc = "closing" => \A k \in Kinds :
          \/ stats[k].packets > 0 /\ \E i \in DOMAIN due : due[i] = k
          \/ /\ ~\E i \in DOMAIN due : due[i] = k
             /\ stats[k].packets > 0 => reported[k] = <<stats[k]>>
    /\ pc = "ended" => \A k \in Kinds : stats[k].packets > 0 => reported[k] = <<stats[k]>>

\* The relay has what the last whole interval ended with.
LagInv ==
    StatsInterval > 0 => \A k \in Kinds :
        \/ Unreported(k) <= stats[k].frames % StatsInterval
        \/ Unreported(k) <= StatsInterval /\ (pc = "failed" \/ (pc = "loop" /\ due = <<k>>))

LoopInv == TypeInv /\ ClockInv /\ LatencyInv /\ SilentInv /\ DueInv /\ LagInv

\* The next number modulo an interval.
LEMMA NextModulo ==
    ASSUME NEW f \in Nat, NEW I \in Nat \ {0}
    PROVE  IF (f + 1) % I = 0 THEN f % I = I - 1 ELSE (f + 1) % I = (f % I) + 1
<1>0. ASSUME NEW n \in Nat
      PROVE  \E q \in Nat, r \in Nat : r < I /\ r = n % I /\ n = I * q + r
    <2>1. n = I * (n \div I) + (n % I) /\ n \div I \in Nat /\ n % I \in 0..(I - 1)
        OBVIOUS
    <2> DEFINE q == n \div I
               r == n % I
    <2>2. q \in Nat /\ r \in Nat /\ r < I /\ n = I * q + r
        BY <2>1
    <2>3. r = n % I
        OBVIOUS
    <2> HIDE DEF q, r
    <2> QED BY <2>2, <2>3
<1>1. PICK q \in Nat, r \in Nat : r < I /\ r = f % I /\ f = I * q + r
    BY <1>0
<1>2. PICK g \in Nat : g = f + 1
    OBVIOUS
<1>3. PICK p \in Nat, s \in Nat : s < I /\ s = g % I /\ g = I * p + s
    BY <1>0
<1>4. PICK x, y \in Nat : x = I * q /\ y = I * p
    OBVIOUS
<1>5. ASSUME NEW a \in Nat, NEW b \in Nat, a > b PROVE I * a >= I * b + I
    BY <1>5
<1>6. (p > q => y >= x + I) /\ (q > p => x >= y + I) /\ (p = q => x = y)
    BY <1>4, <1>5
<1>7. f = x + r /\ f + 1 = y + s
    BY <1>1, <1>2, <1>3, <1>4
<1>8. IF s = 0 THEN r = I - 1 ELSE s = r + 1
    BY <1>1, <1>3, <1>6, <1>7
<1> QED BY <1>1, <1>2, <1>3, <1>8

\* What is unreported is a number.
LEMMA UnreportedType ==
    ASSUME TypeInv, NEW k \in Kinds
    PROVE  /\ Unreported(k) \in Int /\ stats[k].frames \in Nat /\ stats[k].packets \in Nat
           /\ StatsInterval > 0 => stats[k].frames % StatsInterval \in 0..(StatsInterval - 1)
<1>1. stats[k] \in Stats /\ stats[k].frames \in Nat /\ stats[k].packets \in Nat
    BY DEF TypeInv, Stats
<1>2. CASE reported[k] = NoReport
    BY <1>1, <1>2, ViewerAssumption DEF Unreported
<1>3. CASE reported[k] # NoReport
    <2>1. PICK s \in Stats : reported[k] = <<s>>
        BY <1>3 DEF TypeInv
    <2>2. s.frames \in Nat /\ reported[k][1].frames = s.frames
        BY <2>1 DEF Stats
    <2> QED BY <1>1, <1>3, <2>2, ViewerAssumption DEF Unreported
<1> QED BY <1>2, <1>3

\* A reassembly time is a number of milliseconds.
LEMMA MillisType ==
    ASSUME NEW n \in Nat
    PROVE  ToMillis(n) \in Nat
<1>1. AtLeast0(n) = n
    BY DEF AtLeast0
<1>2. n \div 1000 \in Nat
    BY Thousandth
<1> QED BY <1>1, <1>2 DEF ToMillis, Capped, MaxU16

\* A ring stays a ring.
LEMMA PushType ==
    ASSUME NEW w \in Window, NEW n \in Nat
    PROVE  Push(w, n) \in Window
<1>1. w.next \in Nat /\ w.next % SampleCapacity \in 0..(SampleCapacity - 1)
    BY CapacityAssumption DEF Window
<1>2. (w.next % SampleCapacity) + 1 \in 1..SampleCapacity
    BY <1>1, CapacityAssumption
<1>3. (IF w.len < SampleCapacity THEN w.len + 1 ELSE w.len) \in 0..SampleCapacity
    BY CapacityAssumption DEF Window
<1>4. [w.values EXCEPT ![w.next] = n] \in [1..SampleCapacity -> Nat]
    BY DEF Window
<1> QED BY <1>2, <1>3, <1>4 DEF Push, Window

\* The statistics after a packet that completes no frame.
LEMMA FragmentStats ==
    ASSUME NEW s \in Stats, NEW n \in {0, 1}
    PROVE  LET new == [s EXCEPT !.packets = @ + 1, !.dropped = @ + n]
           IN  new \in Stats /\ new.frames = s.frames /\ new.calibrated = s.calibrated
                 /\ new.reassembly = s.reassembly
<1> DEFINE new == [s EXCEPT !.packets = @ + 1, !.dropped = @ + n]
<1>1. /\ s.packets \in Nat /\ s.frames \in Nat /\ s.decoded \in Nat /\ s.dropped \in Nat
      /\ s.calibrated \in Int /\ s.reassembly \in Window
    BY DEF Stats
<1>2. new = [packets |-> s.packets + 1, frames |-> s.frames, decoded |-> s.decoded,
             dropped |-> s.dropped + n, calibrated |-> s.calibrated, reassembly |-> s.reassembly]
    <2>1. PICK x, y : x = s.packets + 1 /\ y = s.dropped + n
        OBVIOUS
    <2>2. new = [s EXCEPT !.packets = x, !.dropped = y]
        BY <2>1
    <2> HIDE DEF new
    <2>3. new = [packets |-> x, frames |-> s.frames, decoded |-> s.decoded, dropped |-> y,
                 calibrated |-> s.calibrated, reassembly |-> s.reassembly]
        BY <2>2 DEF Stats
    <2> QED BY <2>1, <2>3
<1>3. s.packets + 1 \in Nat /\ s.dropped + n \in Nat
    BY <1>1
<1> HIDE DEF new
<1>4. new \in Stats /\ new.frames = s.frames /\ new.calibrated = s.calibrated
         /\ new.reassembly = s.reassembly
    BY <1>1, <1>2, <1>3 DEF Stats
<1> QED BY <1>4 DEF new

\* The statistics after a frame.
LEMMA FrameStats ==
    ASSUME NEW s \in Stats, NEW latency \in Nat, NEW duration \in Nat, NEW decodes \in BOOLEAN,
           NEW e, Good(e, ViewerOffset), Good(sender, PublisherOffset), NEW new,
           new = WithFrame([s EXCEPT !.packets = @ + 1], latency, duration, decodes, e)
    PROVE  /\ new \in Stats /\ new.packets > 0 /\ new.frames = s.frames + 1
           /\ Calibrated(new.calibrated, latency, sender.rtt + e.rtt + 4)
           /\ new.reassembly = Push(s.reassembly, ToMillis(duration))
<1> DEFINE t == [s EXCEPT !.packets = @ + 1]
           shown == CalibratedLatency(Start - PublisherOffset, sender.offset,
                        Start + latency - ViewerOffset, e.offset, t.calibrated)
           w == Push(t.reassembly, ToMillis(duration))
           d1 == IF decodes THEN t.decoded + 1 ELSE t.decoded
           d2 == IF decodes THEN t.dropped ELSE t.dropped + 1
<1>1. /\ t \in Stats /\ t.packets > 0 /\ t.frames = s.frames /\ t.calibrated \in Int
      /\ t.reassembly = s.reassembly /\ t.reassembly \in Window
      /\ t.packets \in Nat /\ t.frames \in Nat /\ t.decoded \in Nat /\ t.dropped \in Nat
    BY DEF Stats
<1>2. new = [t EXCEPT !.frames = t.frames + 1, !.decoded = d1, !.dropped = d2,
                      !.calibrated = shown, !.reassembly = w]
    BY DEF WithFrame
<1> HIDE DEF t
<1>3. shown \in Int /\ Calibrated(shown, latency, sender.rtt + e.rtt + 4)
    BY <1>1, OneLatency
<1>4. w \in Window
    BY <1>1, PushType, MillisType
<1>5. d1 \in Nat /\ d2 \in Nat
    BY <1>1
<1> HIDE DEF shown, w, d1, d2
<1>6. new = [packets |-> t.packets, frames |-> t.frames + 1, decoded |-> d1, dropped |-> d2,
             calibrated |-> shown, reassembly |-> w]
    BY <1>1, <1>2 DEF Stats
<1>7. t.frames + 1 \in Nat
    BY <1>1
<1>8. /\ new \in Stats /\ new.packets = t.packets /\ new.frames = t.frames + 1
      /\ new.calibrated = shown /\ new.reassembly = w
    BY <1>1, <1>3, <1>4, <1>5, <1>6, <1>7 DEF Stats
<1> QED BY <1>1, <1>3, <1>8 DEF w

\* The invariant holds at the start.
LEMMA LoopInit == Init => LoopInv
<1> SUFFICES ASSUME Init PROVE LoopInv
    OBVIOUS
<1>1. EmptyWindow \in Window
    BY CapacityAssumption DEF EmptyWindow, Window
<1>2. NoStats \in Stats /\ NoStats.frames = 0 /\ NoStats.packets = 0
    BY <1>1 DEF NoStats, Stats
<1>3. target \in [Kinds -> Nat]
    BY ViewerAssumption DEF Init
<1>4. TypeInv
    <2>1. /\ truth \in [Kinds -> [latency : Nat, slack : Nat]]
          /\ durations \in [Kinds -> Seq(Nat)] /\ stats \in [Kinds -> Stats]
        BY <1>2 DEF Init
    <2> QED BY <1>3, <2>1 DEF Init, TypeInv
<1>5. ClockInv
    <2>1. Good(sender, PublisherOffset)
        BY ViewerAssumption, EveryEstimate DEF Init
    <2> QED BY <2>1 DEF Init, ClockInv
<1>6. \A k \in Kinds : stats[k].frames = 0 /\ stats[k].packets = 0 /\ reported[k] = NoReport
    BY <1>2 DEF Init
<1>7. DueInv
    BY DEF Init, DueInv
<1>8. LagInv
    <2>1. StatsInterval > 0 => 0 % StatsInterval = 0
        BY ViewerAssumption
    <2> QED BY <1>6, <2>1 DEF LagInv, Unreported
<1> QED BY <1>4, <1>5, <1>6, <1>7, <1>8 DEF LoopInv, LatencyInv, SilentInv

\* The estimate after a packet is good, be it new or not.
LEMMA RefreshedIsGood ==
    ASSUME LoopInv, pc = "loop", RefreshIfDue
    PROVE  Good(estimate', ViewerOffset)
<1>1. CASE UNCHANGED <<estimate, refreshes>>
    BY <1>1 DEF LoopInv, ClockInv
<1>2. CASE estimate' \in Estimates(ViewerOffset)
    BY <1>2, EveryEstimate, ViewerAssumption
<1> QED BY <1>1, <1>2 DEF RefreshIfDue

\* A packet keeps the invariant.
LEMMA ReceiveKeeps ==
    ASSUME LoopInv, NEW k \in Kinds, Receive(k)
    PROVE  LoopInv'
<1>0. /\ target \in [Kinds -> Nat] /\ stats \in [Kinds -> Stats]
      /\ truth \in [Kinds -> [latency : Nat, slack : Nat]]
      /\ durations \in [Kinds -> Seq(Nat)]
    BY DEF LoopInv, TypeInv
<1>1. /\ pc = "loop" /\ due = << >> /\ UNCHANGED <<pc, target, samples, sender, reported>>
      /\ RefreshIfDue
    BY DEF Receive
<1>2. Good(estimate', ViewerOffset) /\ Good(sender, PublisherOffset)
    BY <1>1, RefreshedIsGood DEF LoopInv, ClockInv
<1>3. ClockInv'
    BY <1>1, <1>2 DEF LoopInv, ClockInv, Good
<1>4. /\ stats[k] \in Stats /\ stats[k].frames \in Nat /\ stats[k].packets \in Nat
      /\ target[k] \in Nat
    BY <1>0 DEF Stats
<1>5. CASE Below(k) /\ Fragment(k)
    <2>1. target[k] # 0
        BY <1>4, <1>5 DEF Below
    <2>2. PICK dropped \in {0, 1} :
            stats' = [stats EXCEPT ![k].packets = @ + 1, ![k].dropped = @ + dropped]
        BY <1>5 DEF Fragment
    <2> DEFINE new == [stats[k] EXCEPT !.packets = @ + 1, !.dropped = @ + dropped]
    <2>3. new \in Stats /\ new.frames = stats[k].frames /\ new.calibrated = stats[k].calibrated
        BY <1>4, FragmentStats
    <2>4. stats' = [stats EXCEPT ![k] = new]
        BY <1>0, <2>2
    <2> HIDE DEF new
    <2>5. /\ stats' \in [Kinds -> Stats] /\ stats'[k] = new
          /\ \A j \in Kinds : j # k => stats'[j] = stats[j]
        BY <1>0, <2>3, <2>4
    <2>6. UNCHANGED <<truth, durations, due>>
        BY <1>5 DEF Fragment
    <2>7. TypeInv'
        BY <1>0, <1>1, <2>5, <2>6 DEF LoopInv, TypeInv
    <2>8. LatencyInv'
        BY <2>3, <2>5, <2>6 DEF LoopInv, LatencyInv
    <2>9. SilentInv' /\ DueInv'
        BY <1>1, <2>1, <2>5, <2>6 DEF LoopInv, SilentInv, DueInv
    <2>10. LagInv'
        <3>1. \A j \in Kinds : stats'[j].frames = stats[j].frames
            BY <2>3, <2>5
        <3> QED BY <1>1, <2>6, <3>1 DEF LoopInv, LagInv, Unreported
    <2> QED BY <1>3, <2>7, <2>8, <2>9, <2>10 DEF LoopInv
<1>6. ASSUME Below(k), NEW latency \in Delays, NEW duration \in Delays, NEW decodes \in BOOLEAN,
             Frame(k, latency, duration, decodes)
      PROVE  LoopInv'
    <2>1. target[k] # 0
        BY <1>4, <1>6 DEF Below
    <2>2. latency \in Nat /\ duration \in Nat
        BY ViewerAssumption
    <2> DEFINE new == WithFrame([stats[k] EXCEPT !.packets = @ + 1], latency, duration, decodes, estimate')
               real == [latency |-> latency, slack |-> sender.rtt + estimate'.rtt]
    <2>3. stats' = [stats EXCEPT ![k] = new] /\ truth' = [truth EXCEPT ![k] = real]
        BY <1>6 DEF Frame
    <2>4. /\ new \in Stats /\ Calibrated(new.calibrated, latency, sender.rtt + estimate'.rtt + 4)
          /\ new.packets > 0 /\ new.frames = stats[k].frames + 1
        BY <1>2, <1>4, <2>2, FrameStats
    <2>5. /\ real \in [latency : Nat, slack : Nat] /\ real.latency = latency
          /\ real.slack = sender.rtt + estimate'.rtt
        BY <1>2, <2>2 DEF Good
    <2> HIDE DEF new, real
    <2>6. /\ stats' \in [Kinds -> Stats] /\ stats'[k] = new
          /\ truth' \in [Kinds -> [latency : Nat, slack : Nat]] /\ truth'[k] = real
          /\ \A j \in Kinds : j # k => stats'[j] = stats[j] /\ truth'[j] = truth[j]
        BY <1>0, <2>3, <2>4, <2>5
    <2>7. durations' \in [Kinds -> Seq(Nat)]
        <3>1. durations' = [durations EXCEPT ![k] = Append(@, ToMillis(duration))]
            BY <1>6 DEF Frame
        <3>2. Append(durations[k], ToMillis(duration)) \in Seq(Nat)
            BY <1>0, <2>2, MillisType
        <3> QED BY <1>0, <3>1, <3>2
    <2>8. due' = IF StatsInterval > 0 /\ stats'[k].frames % StatsInterval = 0 THEN <<k>> ELSE << >>
        BY <1>6 DEF Frame, IsReportDue
    <2>9. TypeInv'
        BY <1>0, <1>1, <2>6, <2>7 DEF LoopInv, TypeInv
    <2>10. LatencyInv'
        BY <2>4, <2>5, <2>6 DEF LoopInv, LatencyInv
    <2>11. SilentInv' /\ DueInv'
        BY <1>1, <2>1, <2>4, <2>6, <2>8 DEF LoopInv, SilentInv, DueInv
    <2>12. LagInv'
        <3> SUFFICES ASSUME StatsInterval > 0, NEW j \in Kinds
                     PROVE  \/ Unreported(j)' <= stats'[j].frames % StatsInterval
                            \/ Unreported(j)' <= StatsInterval /\ pc' = "loop" /\ due' = <<j>>
            BY DEF LagInv
        <3>1. Unreported(j) <= stats[j].frames % StatsInterval
            BY <1>1 DEF LoopInv, LagInv
        <3>2. CASE j # k
            BY <1>1, <2>6, <3>1, <3>2 DEF Unreported
        <3>3. CASE j = k
            <4>1. PICK f \in Nat : f = stats[k].frames /\ stats'[k].frames = f + 1
                BY <1>4, <2>4, <2>6
            <4>2. PICK u \in Int : u = Unreported(k) /\ Unreported(k)' = u + 1
                <5>1. Unreported(k) \in Int
                    BY UnreportedType DEF LoopInv
                <5>2. PICK r : r = IF reported[k] = NoReport THEN 0 ELSE reported[k][1].frames
                    OBVIOUS
                <5>3. r \in Int
                    <6>1. CASE reported[k] = NoReport
                        BY <5>2, <6>1
                    <6>2. CASE reported[k] # NoReport
                        <7>1. PICK s \in Stats : reported[k] = <<s>>
                            BY <6>2 DEF LoopInv, TypeInv
                        <7>2. s.frames \in Nat /\ r = s.frames
                            BY <5>2, <6>2, <7>1 DEF Stats
                        <7> QED BY <7>2
                    <6> QED BY <6>1, <6>2
                <5>4. Unreported(k) = f - r /\ Unreported(k)' = (f + 1) - r
                    BY <1>1, <4>1, <5>2 DEF Unreported
                <5> QED BY <5>1, <5>3, <5>4
            <4>3. PICK I \in Nat \ {0} : I = StatsInterval
                BY ViewerAssumption
            <4>4. u <= f % I /\ f % I \in 0..(I - 1)
                BY <3>1, <3>3, <4>1, <4>2, <4>3
            <4>5. IF (f + 1) % I = 0 THEN f % I = I - 1 ELSE (f + 1) % I = (f % I) + 1
                BY NextModulo
            <4>6. CASE (f + 1) % I = 0
                <5>1. u + 1 <= I
                    BY <4>4, <4>5, <4>6
                <5>2. due' = <<k>>
                    BY <2>8, <4>1, <4>3, <4>6
                <5> QED BY <1>1, <3>3, <4>2, <4>3, <5>1, <5>2
            <4>7. CASE (f + 1) % I # 0
                <5>1. u + 1 <= (f + 1) % I
                    BY <4>4, <4>5, <4>7
                <5> QED BY <3>3, <4>1, <4>2, <4>3, <5>1
            <4> QED BY <4>6, <4>7
        <3> QED BY <3>2, <3>3
    <2> QED BY <1>3, <2>9, <2>10, <2>11, <2>12 DEF LoopInv
<1>7. CASE Ignored
    <2>1. UNCHANGED <<stats, truth, durations, due>>
        BY <1>7 DEF Ignored
    <2> QED BY <1>0, <1>1, <1>3, <2>1 DEF LoopInv, TypeInv, LatencyInv, SilentInv, DueInv, LagInv,
                                          Unreported
<1> QED BY <1>5, <1>6, <1>7 DEF Receive

\* A report that is sent, or fails, keeps the invariant.
LEMMA ReportKeeps ==
    ASSUME LoopInv, SendViewerStats
    PROVE  LoopInv'
<1> DEFINE stored(k) == [reported EXCEPT ![k] = <<stats[k]>>]
<1>1. PICK k : k = Head(due)
    OBVIOUS
<1>2. /\ due # << >>
      /\ UNCHANGED <<target, samples, estimate, sender, stats, truth, durations>>
      /\ \/ /\ reported' = stored(k) /\ due' = Tail(due)
            /\ pc' = IF pc = "closing" /\ Tail(due) = << >> THEN "ended" ELSE pc
         \/ reported' \in {reported, stored(k)} /\ due' = << >> /\ pc' = "failed"
    BY <1>1 DEF SendViewerStats
<1>3. pc \in {"loop", "closing"} /\ k \in Kinds /\ stats[k].packets > 0
    <2>1. CASE pc = "loop"
        <3>1. PICK j \in Kinds : due = <<j>> /\ stats[j].packets > 0
            BY <1>2, <2>1 DEF LoopInv, DueInv
        <3>2. Head(<<j>>) = j
            OBVIOUS
        <3> QED BY <1>1, <2>1, <3>1, <3>2
    <2>2. CASE pc = "closing"
        <3>1. due \in {<<"Screen">>, <<"Voice">>, <<"Screen", "Voice">>}
            BY <2>2 DEF LoopInv, DueInv
        <3>2. k \in Kinds /\ 1 \in DOMAIN due /\ due[1] = k
            BY <1>1, <3>1 DEF Kinds
        <3>3. stats[k].packets > 0
            BY <2>2, <3>2 DEF LoopInv, DueInv
        <3> QED BY <2>2, <3>2, <3>3
    <2> QED BY <1>2, <2>1, <2>2 DEF LoopInv, DueInv
<1>4. target[k] # 0
    <2>1. stats[k].packets \in Nat
        BY <1>3, UnreportedType DEF LoopInv
    <2> QED BY <1>3, <2>1 DEF LoopInv, SilentInv
<1>5. reported' \in {reported, stored(k)} /\ pc' \in {"loop", "closing", "ended", "failed"}
    BY <1>2, <1>3
<1>6. /\ \A j \in Kinds : j # k => reported'[j] = reported[j]
      /\ reported'[k] \in {reported[k], <<stats[k]>>}
      /\ reported' \in [Kinds -> {NoReport} \cup {<<s>> : s \in Stats}]
    <2>1. /\ reported \in [Kinds -> {NoReport} \cup {<<s>> : s \in Stats}]
          /\ stats[k] \in Stats
        BY <1>3 DEF LoopInv, TypeInv
    <2>2. stored(k) \in [Kinds -> {NoReport} \cup {<<s>> : s \in Stats}]
        BY <1>3, <2>1
    <2> QED BY <1>3, <1>5, <2>1, <2>2
<1>7. TypeInv' /\ ClockInv' /\ LatencyInv'
    <2>1. TypeInv'
        BY <1>2, <1>5, <1>6 DEF LoopInv, TypeInv
    <2>2. pc' = "loop" => pc = "loop"
        BY <1>2
    <2> QED BY <1>2, <2>1, <2>2 DEF LoopInv, ClockInv, LatencyInv, Good
<1>8. SilentInv'
    BY <1>2, <1>4, <1>6 DEF LoopInv, SilentInv
<1>9. CASE pc' = "failed"
    <2>1. due' = << >>
        BY <1>2, <1>3, <1>9
    <2>2. DueInv'
        BY <1>9, <2>1 DEF DueInv
    <2>3. LagInv'
        <3> SUFFICES ASSUME StatsInterval > 0, NEW j \in Kinds
                     PROVE  Unreported(j)' <= StatsInterval
            BY <1>9 DEF LagInv
        <3>1. CASE reported'[j] = reported[j]
            <4>1. Unreported(j)' = Unreported(j)
                BY <1>2, <3>1 DEF Unreported
            <4>2. /\ Unreported(j) \in Int /\ StatsInterval \in Nat
                  /\ stats[j].frames % StatsInterval \in 0..(StatsInterval - 1)
                BY UnreportedType, ViewerAssumption DEF LoopInv
            <4>3. Unreported(j) <= stats[j].frames % StatsInterval \/ Unreported(j) <= StatsInterval
                BY DEF LoopInv, LagInv
            <4> QED BY <4>1, <4>2, <4>3
        <3>2. CASE j = k /\ reported'[j] = <<stats[k]>>
            <4>1. Unreported(j)' = stats[k].frames - stats[k].frames /\ stats[k].frames \in Nat
                BY <1>2, <1>3, <3>2, UnreportedType DEF LoopInv, Unreported, NoReport
            <4> QED BY <4>1, ViewerAssumption
        <3> QED BY <1>6, <3>1, <3>2
    <2> QED BY <1>7, <1>8, <2>2, <2>3 DEF LoopInv
<1>10. CASE pc' # "failed"
    <2>1. /\ reported' = stored(k) /\ due' = Tail(due)
          /\ pc' = IF pc = "closing" /\ Tail(due) = << >> THEN "ended" ELSE pc
        BY <1>2, <1>10
    <2>2. reported'[k] = <<stats[k]>>
        BY <1>3, <2>1 DEF LoopInv, TypeInv
    <2> HIDE DEF stored
    <2>3. DueInv'
        <3>1. CASE pc = "loop"
            <4>1. PICK j \in Kinds : due = <<j>>
                BY <1>2, <3>1 DEF LoopInv, DueInv
            <4>2. due' = << >> /\ pc' = "loop"
                BY <2>1, <3>1, <4>1
            <4> QED BY <4>2 DEF DueInv
        <3>2. CASE pc = "closing" /\ due \in {<<"Screen">>, <<"Voice">>}
            <4>1. due' = << >> /\ pc' = "ended" /\ DOMAIN due = {1} /\ due[1] = k
                BY <1>1, <2>1, <3>2
            <4>2. \A j \in Kinds : stats[j].packets > 0 => reported'[j] = <<stats[j]>>
                BY <1>6, <2>2, <3>2, <4>1 DEF LoopInv, DueInv
            <4> QED BY <1>2, <4>1, <4>2 DEF DueInv
        <3>3. CASE pc = "closing" /\ due = <<"Screen", "Voice">>
            <4>1. /\ due' = <<"Voice">> /\ pc' = "closing" /\ k = "Screen"
                  /\ DOMAIN due = 1..2 /\ due[1] = "Screen" /\ due[2] = "Voice"
                BY <1>1, <2>1, <3>3
            <4>2. DOMAIN due' = {1} /\ due'[1] = "Voice"
                BY <4>1
            <4>3. stats["Voice"].packets > 0
                BY <3>3, <4>1 DEF LoopInv, DueInv, Kinds
            <4> QED BY <1>2, <2>2, <4>1, <4>2, <4>3 DEF DueInv, Kinds
        <3> QED BY <1>3, <3>1, <3>2, <3>3 DEF LoopInv, DueInv
    <2>4. LagInv'
        <3> SUFFICES ASSUME StatsInterval > 0, NEW j \in Kinds
                     PROVE  Unreported(j)' <= stats'[j].frames % StatsInterval
            BY DEF LagInv
        <3>1. CASE j = k
            <4>1. Unreported(j)' = stats[k].frames - stats[k].frames
                BY <1>2, <2>2, <3>1 DEF Unreported, NoReport
            <4>2. /\ stats[k].frames \in Nat
                  /\ stats[k].frames % StatsInterval \in 0..(StatsInterval - 1)
                BY <1>3, UnreportedType DEF LoopInv
            <4> QED BY <1>2, <3>1, <4>1, <4>2, ViewerAssumption
        <3>2. CASE j # k
            <4>1. Unreported(j)' = Unreported(j) /\ stats'[j] = stats[j]
                BY <1>2, <1>6, <3>2 DEF Unreported
            <4>2. ~(pc = "loop" /\ due = <<j>>) /\ pc # "failed"
                BY <1>1, <1>3, <3>2
            <4>3. Unreported(j) <= stats[j].frames % StatsInterval
                BY <4>2 DEF LoopInv, LagInv
            <4> QED BY <4>1, <4>3
        <3> QED BY <3>1, <3>2
    <2> QED BY <1>7, <1>8, <2>3, <2>4 DEF LoopInv
<1> QED BY <1>9, <1>10

\* The end of the loop keeps the invariant.
LEMMA FinishKeeps ==
    ASSUME LoopInv, pc = "loop", due = << >>, Finishes,
           UNCHANGED <<target, samples, estimate, sender, stats, reported, truth, durations>>
    PROVE  LoopInv'
<1>1. pc' \in {"closing", "ended"}
    BY DEF Finishes
<1>2. TypeInv' /\ ClockInv' /\ LatencyInv' /\ SilentInv'
    BY <1>1 DEF LoopInv, TypeInv, ClockInv, LatencyInv, SilentInv, Good
<1>3. DueInv'
    <2>0. ASSUME NEW a \in Kinds, NEW b \in Kinds
          PROVE  <<a>> \o <<b>> = <<a, b>> /\ <<a>> \o << >> = <<a>> /\ << >> \o <<b>> = <<b>>
        <3>1. /\ <<a>> \in Seq(Kinds) /\ <<b>> \in Seq(Kinds) /\ <<a, b>> \in Seq(Kinds)
            OBVIOUS
        <3>2. Append(<<a>>, b) = <<a, b>>
            <4>1. /\ Append(<<a>>, b) \in Seq(Kinds) /\ Len(Append(<<a>>, b)) = 2
                  /\ Append(<<a>>, b)[1] = a /\ Append(<<a>>, b)[2] = b
                BY <3>1
            <4>2. \A i \in 1..2 : i = 1 \/ i = 2
                OBVIOUS
            <4>3. \A i \in 1..2 : Append(<<a>>, b)[i] = <<a, b>>[i]
                BY <4>1, <4>2
            <4> QED BY <3>1, <4>1, <4>3, SeqEqual
        <3> QED BY <3>1, <3>2, AppendIsConcat, ConcatEmptySeq
    <2>1. stats["Screen"].packets \in Nat /\ stats["Voice"].packets \in Nat
        BY UnreportedType DEF LoopInv, Kinds
    <2>2. CASE stats["Screen"].packets > 0 /\ stats["Voice"].packets > 0
        <3>1. due' = <<"Screen", "Voice">>
            BY <2>0, <2>2 DEF Finishes, LastReport, Kinds
        <3>2. due'[1] = "Screen" /\ due'[2] = "Voice" /\ DOMAIN due' = 1..2 /\ due' # << >>
            BY <3>1
        <3>3. pc' = "closing"
            BY <3>2 DEF Finishes
        <3> QED BY <2>2, <3>1, <3>2, <3>3 DEF DueInv, Kinds
    <2>3. CASE stats["Screen"].packets > 0 /\ ~(stats["Voice"].packets > 0)
        <3>1. due' = <<"Screen">>
            BY <2>0, <2>3 DEF Finishes, LastReport, Kinds
        <3>2. due'[1] = "Screen" /\ DOMAIN due' = {1} /\ pc' = "closing"
            BY <3>1 DEF Finishes
        <3> QED BY <2>3, <3>1, <3>2 DEF DueInv, Kinds
    <2>4. CASE ~(stats["Screen"].packets > 0) /\ stats["Voice"].packets > 0
        <3>1. due' = <<"Voice">>
            BY <2>0, <2>4 DEF Finishes, LastReport, Kinds
        <3>2. due'[1] = "Voice" /\ DOMAIN due' = {1} /\ pc' = "closing"
            BY <3>1 DEF Finishes
        <3> QED BY <2>4, <3>1, <3>2 DEF DueInv, Kinds
    <2>5. CASE ~(stats["Screen"].packets > 0) /\ ~(stats["Voice"].packets > 0)
        <3>1. due' = << >> /\ pc' = "ended"
            BY <2>5 DEF Finishes, LastReport
        <3> QED BY <2>5, <3>1 DEF DueInv, Kinds
    <2> QED BY <2>2, <2>3, <2>4, <2>5
<1>4. LagInv'
    <2>1. \A k \in Kinds : due # <<k>>
        OBVIOUS
    <2> QED BY <1>1, <2>1 DEF LoopInv, LagInv, Unreported
<1> QED BY <1>2, <1>3, <1>4 DEF LoopInv

\* Every step keeps the invariant.
LEMMA LoopStep == LoopInv /\ [Next]_vars => LoopInv'
<1> SUFFICES ASSUME LoopInv, [Next]_vars PROVE LoopInv'
    OBVIOUS
<1>1. CASE Sync
    <2>1. UNCHANGED <<target, stats, due, reported, truth, durations, sender>> /\ pc = "sync"
        BY <1>1 DEF Sync
    <2>2. PICK e \in Estimates(ViewerOffset) :
             LET all == Append(samples, e)
             IN  IF Len(all) < SyncSamples
                 THEN samples' = all /\ UNCHANGED <<pc, estimate>>
                 ELSE pc' = "loop" /\ estimate' = SelectBest(all) /\ samples' = << >>
        BY <1>1 DEF Sync
    <2> DEFINE all == Append(samples, e)
    <2>3. all \in Seq(Estimates(ViewerOffset)) /\ all # << >>
        <3>1. samples \in Seq(Estimates(ViewerOffset))
            BY DEF LoopInv, ClockInv
        <3>2. PICK E : E = Estimates(ViewerOffset)
            OBVIOUS
        <3>3. samples \in Seq(E) /\ e \in E
            BY <3>1, <3>2
        <3>4. all \in Seq(E) /\ all # << >>
            BY <3>3
        <3> QED BY <3>2, <3>4
    <2>4. \A x \in Estimates(ViewerOffset) : x.rtt \in Nat
        BY EveryEstimate, ViewerAssumption DEF Good
    <2> HIDE DEF all
    <2>5. SelectBest(all) \in Estimates(ViewerOffset)
        BY <2>3, <2>4, BestIsOne
    <2>6. Good(SelectBest(all), ViewerOffset)
        BY <2>5, EveryEstimate, ViewerAssumption
    <2>7. \/ samples' = all /\ UNCHANGED <<pc, estimate>>
          \/ pc' = "loop" /\ estimate' = SelectBest(all) /\ samples' = << >>
        BY <2>2 DEF all
    <2>8. ClockInv'
        <3>1. CASE samples' = all /\ UNCHANGED <<pc, estimate>>
            BY <2>1, <2>3, <3>1 DEF LoopInv, ClockInv, Good
        <3>2. CASE pc' = "loop" /\ estimate' = SelectBest(all) /\ samples' = << >>
            BY <2>1, <2>6, <3>2 DEF LoopInv, ClockInv, Good
        <3> QED BY <2>7, <3>1, <3>2
    <2>9. pc' \in {"sync", "loop"}
        BY <2>1, <2>7
    <2>10. DueInv' /\ LagInv'
        BY <2>1, <2>9 DEF LoopInv, DueInv, LagInv, Unreported
    <2> QED BY <2>1, <2>8, <2>9, <2>10 DEF LoopInv, TypeInv, LatencyInv, SilentInv
<1>2. ASSUME NEW k \in Kinds, Receive(k) PROVE LoopInv'
    BY <1>2, ReceiveKeeps
<1>3. ASSUME pc = "loop", due = << >>, Finishes,
             UNCHANGED <<target, samples, estimate, sender, stats, reported, truth, durations>>
      PROVE  LoopInv'
    BY <1>3, FinishKeeps
<1>4. ASSUME pc' = "failed", due' = << >>,
             UNCHANGED <<target, samples, estimate, sender, stats, reported, truth, durations>>
      PROVE  LoopInv'
    <2>1. TypeInv' /\ ClockInv' /\ LatencyInv' /\ SilentInv' /\ DueInv'
        BY <1>4 DEF LoopInv, TypeInv, ClockInv, LatencyInv, SilentInv, DueInv, Good
    <2>2. LagInv'
        BY <1>4 DEF LoopInv, LagInv, Unreported
    <2> QED BY <2>1, <2>2 DEF LoopInv
<1>5. CASE AllReceived
    BY <1>3, <1>5 DEF AllReceived
<1>6. CASE IdleTimeout
    BY <1>3, <1>4, <1>6 DEF IdleTimeout
<1>7. CASE Fails
    BY <1>4, <1>7 DEF Fails
<1>8. CASE UNCHANGED vars
    <2>1. TypeInv' /\ ClockInv' /\ LatencyInv' /\ SilentInv'
        BY <1>8 DEF vars, LoopInv, TypeInv, ClockInv, LatencyInv, SilentInv, Good
    <2>2. DueInv' /\ LagInv'
        BY <1>8 DEF vars, LoopInv, DueInv, LagInv, Unreported
    <2> QED BY <2>1, <2>2 DEF LoopInv
<1>9. CASE SendViewerStats
    BY <1>9, ReportKeeps
<1> QED BY <1>1, <1>2, <1>5, <1>6, <1>7, <1>8, <1>9 DEF Next

\* The invariant holds in every state.
LEMMA LoopHolds == Spec => []LoopInv
BY LoopInit, LoopStep, PTL DEF Spec

\* The clock of a viewer: for all delays and processing times, all offsets and any
\* number of samples and refreshes, estimate_clock_sync errs by at most half of the
\* round trip of the estimate in use.
THEOREM OffsetIsWithinRtt == Spec => []OffsetWithinRtt
<1>1. LoopInv => OffsetWithinRtt
    BY DEF LoopInv, ClockInv, Good, OffsetWithinRtt
<1> QED BY <1>1, LoopHolds, PTL

\* The latency record_calibrated_latency shows, for all latencies, those beyond
\* the range of its u16 included.
THEOREM LatencyStaysCalibrated == Spec => []LatencyIsCalibrated
<1>1. LoopInv => LatencyIsCalibrated
    BY DEF LoopInv, LatencyInv, Calibrated, LatencyIsCalibrated
<1> QED BY <1>1, LoopHolds, PTL

\* Reports lag by less than an interval, for all intervals and targets, and the last
\* ones of a viewer that ends well are complete.
THEOREM ReportsStayCurrent == Spec => []ReportsKeepUp
<1>1. LoopInv => ReportsKeepUp
    <2> SUFFICES ASSUME LoopInv, NEW k \in Kinds
                 PROVE  /\ StatsInterval > 0 =>
                            \/ Unreported(k) < StatsInterval
                            \/ /\ Unreported(k) = StatsInterval
                               /\ pc = "failed" \/ \E i \in DOMAIN due : due[i] = k
                        /\ pc = "ended" /\ stats[k].packets > 0 => reported[k] = <<stats[k]>>
                        /\ target[k] = 0 => reported[k] = NoReport
        BY DEF ReportsKeepUp
    <2>1. ASSUME StatsInterval > 0
          PROVE  \/ Unreported(k) < StatsInterval
                 \/ /\ Unreported(k) = StatsInterval
                    /\ pc = "failed" \/ \E i \in DOMAIN due : due[i] = k
        <3>1. /\ Unreported(k) \in Int /\ StatsInterval \in Nat
              /\ stats[k].frames % StatsInterval \in 0..(StatsInterval - 1)
            BY <2>1, UnreportedType, ViewerAssumption DEF LoopInv
        <3>2. CASE Unreported(k) <= stats[k].frames % StatsInterval
            BY <3>1, <3>2
        <3>3. CASE Unreported(k) <= StatsInterval /\ pc = "failed"
            BY <3>1, <3>3
        <3>4. CASE Unreported(k) <= StatsInterval /\ due = <<k>>
            <4>1. 1 \in DOMAIN due /\ due[1] = k
                BY <3>4
            <4> QED BY <3>1, <3>4, <4>1
        <3> QED BY <2>1, <3>2, <3>3, <3>4 DEF LoopInv, LagInv
    <2> QED BY <2>1 DEF LoopInv, DueInv, SilentInv
<1> QED BY <1>1, LoopHolds, PTL

-----------------------------------------------------------------------------
(***************************************************************************)
(* Percentiles.  First of any values, then the ring: its first len slots   *)
(* hold the last measurements in another order.                            *)
(***************************************************************************)
UpTo(n, f, x) == {i \in 1..n : f[i] <= x}

\* The slots with a value up to x are finitely many, more for a greater x.
LEMMA SlotsType ==
    ASSUME NEW n \in Nat, NEW f
    PROVE  \A x : IsFiniteSet(UpTo(n, f, x)) /\ Cardinality(UpTo(n, f, x)) \in 0..n
<1> SUFFICES ASSUME NEW x
             PROVE  IsFiniteSet(UpTo(n, f, x)) /\ Cardinality(UpTo(n, f, x)) \in 0..n
    OBVIOUS
<1>1. IsFiniteSet(1..n) /\ Cardinality(1..n) = n
    BY FS_Interval
<1>2. UpTo(n, f, x) \in SUBSET (1..n)
    BY DEF UpTo
<1>3. IsFiniteSet(UpTo(n, f, x)) /\ Cardinality(UpTo(n, f, x)) <= n
    BY <1>1, <1>2, FS_Subset
<1> QED BY <1>3, FS_CardinalityType

\* Some slot of a set of them has the greatest value.
LEMMA GreatestSlot ==
    ASSUME NEW n \in Nat, NEW f, \A i \in 1..n : f[i] \in Nat,
           NEW T, T \subseteq 1..n, T # {}
    PROVE  \E j \in T : \A i \in T : f[i] <= f[j]
<1> DEFINE K(j) == Cardinality(UpTo(n, f, f[j]))
           G == {n - K(j) : j \in T}
<1>1. \A j \in T : K(j) \in 0..n
    BY SlotsType
<1> HIDE DEF K
<1>2. G \subseteq Nat /\ G # {}
    <2>1. \A j \in T : n - K(j) \in Nat
        BY <1>1
    <2> QED BY <2>1, Zenon
<1>3. PICK g \in G : \A h \in G : g <= h
    <2> HIDE DEF G
    <2> QED BY <1>2, LeastNumber
<1>4. PICK j \in T : g = n - K(j)
    OBVIOUS
<1>5. ASSUME NEW i \in T PROVE f[i] <= f[j]
    <2> SUFFICES ASSUME ~(f[i] <= f[j]) PROVE FALSE
        OBVIOUS
    <2>1. f[i] \in Nat /\ f[j] \in Nat /\ i \in 1..n
        OBVIOUS
    <2>2. UpTo(n, f, f[j]) \cup {i} \in SUBSET UpTo(n, f, f[i]) /\ i \notin UpTo(n, f, f[j])
        BY <2>1 DEF UpTo
    <2>3. Cardinality(UpTo(n, f, f[j]) \cup {i}) = K(j) + 1
        BY <2>2, SlotsType, FS_AddElement DEF K
    <2>4. Cardinality(UpTo(n, f, f[j]) \cup {i}) <= K(i)
        BY <2>2, SlotsType, FS_Subset DEF K
    <2>5. K(i) \in 0..n /\ K(j) \in 0..n /\ K(j) + 1 <= K(i)
        BY <1>1, <2>3, <2>4
    <2>6. g <= n - K(i)
        BY <1>3
    <2> QED BY <1>4, <2>5, <2>6
<1> QED BY <1>5

\* The place of the percentile, counted from 0.
LEMMA PlaceBounds ==
    ASSUME NEW n \in Nat \ {0}, NEW p \in {50, 95}
    PROVE  LET place == ((n - 1) * p + 99) \div 100
           IN  /\ place \in Nat /\ place < n
               /\ 100 * place >= p * (n - 1) /\ 100 * place < 100 + p * (n - 1)
<1>1. CASE p = 50
    <2>1. PICK m \in Nat : m = (n - 1) * 50 + 99
        OBVIOUS
    <2>2. m \div 100 \in Nat /\ 100 * (m \div 100) <= m /\ m <= 100 * (m \div 100) + 99
        OBVIOUS
    <2> QED BY <1>1, <2>1, <2>2
<1>2. CASE p = 95
    <2>1. PICK m \in Nat : m = (n - 1) * 95 + 99
        OBVIOUS
    <2>2. m \div 100 \in Nat /\ 100 * (m \div 100) <= m /\ m <= 100 * (m \div 100) + 99
        OBVIOUS
    <2> QED BY <1>2, <2>1, <2>2
<1> QED BY <1>1, <1>2

\* The values that Percentile takes the least of.
Candidates(n, f, place) ==
    {f[i] : i \in {j \in 1..n : Cardinality(UpTo(n, f, f[j])) > place}}

\* The least value that more than the given number of slots do not exceed.
LEMMA LeastAtPlace ==
    ASSUME NEW n \in Nat \ {0}, NEW f, \A i \in 1..n : f[i] \in Nat, NEW place \in Nat, place < n,
           NEW V, V = Candidates(n, f, place)
    PROVE  \E v \in Nat, i \in 1..n :
              /\ v = Min(V) /\ v = f[i]
              /\ Cardinality(UpTo(n, f, v)) > place
              /\ Cardinality(UpTo(n, f, v - 1)) <= place
<1>1. \A x : IsFiniteSet(UpTo(n, f, x)) /\ Cardinality(UpTo(n, f, x)) \in 0..n
    BY SlotsType
<1>2. \E j \in 1..n : Cardinality(UpTo(n, f, f[j])) > place
    <2>1. 1..n # {}
        OBVIOUS
    <2>2. PICK T : T = 1..n
        OBVIOUS
    <2>3. PICK j \in T : \A i \in T : f[i] <= f[j]
        <3>1. T \subseteq 1..n /\ T # {} /\ n \in Nat
            BY <2>1, <2>2
        <3> HIDE <2>1, <2>2
        <3> QED BY <3>1, GreatestSlot
    <2>4. UpTo(n, f, f[j]) = 1..n
        BY <2>2, <2>3 DEF UpTo
    <2>5. Cardinality(UpTo(n, f, f[j])) = n
        BY <2>4, FS_Interval
    <2> QED BY <2>2, <2>5
<1>3. V \subseteq Nat /\ V # {}
    BY <1>2 DEF Candidates
<1>4. Min(V) \in V /\ \A y \in V : Min(V) <= y
    <2>1. \E x \in V : \A y \in V : x <= y
        BY <1>3, LeastNumber
    <2> QED BY <2>1, Zenon DEF Min
<1>5. PICK i \in 1..n : Min(V) = f[i] /\ Cardinality(UpTo(n, f, f[i])) > place
    BY <1>4 DEF Candidates
<1>6. PICK v \in Nat : v = f[i]
    OBVIOUS
<1>7. Cardinality(UpTo(n, f, v - 1)) <= place
    <2> SUFFICES ASSUME ~(Cardinality(UpTo(n, f, v - 1)) <= place) PROVE FALSE
        OBVIOUS
    <2>1. PICK T : T = UpTo(n, f, v - 1)
        OBVIOUS
    <2>2. IsFiniteSet(T) /\ Cardinality(T) \in 0..n /\ ~(Cardinality(T) <= place)
        BY <1>1, <2>1
    <2>3. Cardinality(T) # 0
        BY <2>2
    <2>4. T # {} /\ T \subseteq 1..n
        BY <2>1, <2>3, FS_EmptySet DEF UpTo
    <2>5. PICK j \in T : \A k \in T : f[k] <= f[j]
        BY <2>4, GreatestSlot
    <2>6. j \in 1..n /\ f[j] <= v - 1 /\ f[j] \in Nat
        BY <2>1, <2>4 DEF UpTo
    <2>7. T \in SUBSET UpTo(n, f, f[j])
        BY <2>4, <2>5 DEF UpTo
    <2>8. Cardinality(T) <= Cardinality(UpTo(n, f, f[j]))
        BY <1>1, <2>7, FS_Subset
    <2>9. Cardinality(UpTo(n, f, f[j])) > place
        BY <1>1, <2>2, <2>8
    <2>10. f[j] \in V
        BY <2>6, <2>9 DEF Candidates
    <2>11. v <= f[j]
        BY <1>4, <1>5, <1>6, <2>10
    <2> QED BY <2>6, <2>11
<1> QED BY <1>5, <1>6, <1>7

\* v is the percentile p of the first n values of f.
IsPercentile(v, p, n, f) ==
    /\ v \in Nat
    /\ \E i \in 1..n : v = f[i]
    /\ 100 * Cardinality(UpTo(n, f, v)) >= 100 + p * (n - 1)
    /\ 100 * Cardinality(UpTo(n, f, v - 1)) < 100 + p * (n - 1)

\* What the percentile of a window is.
LEMMA PercentileOf ==
    ASSUME NEW w \in Window, w.len # 0, NEW p \in {50, 95}
    PROVE  IsPercentile(Percentile(w, p), p, w.len, w.values)
<1>8. PICK n \in Nat \ {0} : n = w.len
    BY CapacityAssumption DEF Window
<1>9. PICK f : f = w.values /\ \A i \in 1..n : f[i] \in Nat
    <2>1. PICK C \in Nat \ {0} : C = SampleCapacity
        BY CapacityAssumption
    <2>2. PICK f \in [1..C -> Nat] : f = w.values
        BY <2>1 DEF Window
    <2>3. n <= C
        BY <1>8, <2>1 DEF Window
    <2>4. \A i \in 1..n : f[i] \in Nat
        BY <2>2, <2>3
    <2> QED BY <2>2, <2>4
<1>1. PICK place \in Nat :
        /\ place = ((n - 1) * p + 99) \div 100 /\ place < n
        /\ 100 * place >= p * (n - 1) /\ 100 * place < 100 + p * (n - 1)
    BY PlaceBounds
<1>2. PICK V : V = Candidates(n, f, place)
    OBVIOUS
<1>3. Percentile(w, p) = Min(V)
    BY <1>1, <1>2, <1>8, <1>9 DEF Percentile, UpTo, Candidates
<1>4. PICK v \in Nat, i \in 1..n :
        /\ v = Min(V) /\ v = f[i]
        /\ Cardinality(UpTo(n, f, v)) > place
        /\ Cardinality(UpTo(n, f, v - 1)) <= place
    <2>1. place < n
        BY <1>1
    <2> QED BY <1>2, <1>9, <2>1, LeastAtPlace
<1>5. PICK a \in Nat, b \in Nat :
        a = Cardinality(UpTo(n, f, v)) /\ b = Cardinality(UpTo(n, f, v - 1))
    BY SlotsType
<1>6. PICK m \in Int : m = p * (n - 1)
    OBVIOUS
<1>7. 100 * a >= 100 + m /\ 100 * b < 100 + m
    BY <1>1, <1>4, <1>5, <1>6
<1> QED BY <1>3, <1>4, <1>5, <1>6, <1>7, <1>8, <1>9 DEF IsPercentile

\* The rest of a division by a number no smaller.
LEMMA Rest ==
    ASSUME NEW C \in Nat \ {0}, NEW n \in 1..C
    PROVE  n % C = IF n = C THEN 0 ELSE n
<1>1. PICK q \in Int, r \in 0..(C - 1) : r = n % C /\ n = C * q + r
    <2>1. n \div C \in Int
        OBVIOUS
    <2>2. n % C \in 0..(C - 1)
        OBVIOUS
    <2>3. n = C * (n \div C) + (n % C)
        OBVIOUS
    <2> QED BY <2>1, <2>2, <2>3
<1>2. q >= 0
    <2> SUFFICES ASSUME q <= -1 PROVE FALSE
        OBVIOUS
    <2>1. C * q <= -C
        OBVIOUS
    <2> QED BY <1>1, <2>1
<1>3. q <= 1
    <2> SUFFICES ASSUME q >= 2 PROVE FALSE
        OBVIOUS
    <2>1. C * q >= C + C
        OBVIOUS
    <2> QED BY <1>1, <2>1
<1>4. CASE q = 0
    BY <1>1, <1>4
<1>5. CASE q = 1
    BY <1>1, <1>5
<1> QED BY <1>2, <1>3, <1>4, <1>5

\* The ring w of the measurements D: from slot 1 up to next the newest ones, after
\* the first round, b measurements ago, and behind them those of the round before.
Ring(D, w) ==
    \E b \in Nat :
        /\ b = 0 \/ b >= SampleCapacity
        /\ Len(D) = b + w.next - 1
        /\ w.len = IF b = 0 THEN w.next - 1 ELSE SampleCapacity
        /\ \A i \in 1..(w.next - 1) : w.values[i] = D[b + i]
        /\ b # 0 => \A i \in w.next..SampleCapacity : w.values[i] = D[b - SampleCapacity + i]

\* A measurement overwrites the oldest one.
LEMMA RingPush ==
    ASSUME NEW w \in Window, NEW D \in Seq(Nat), Ring(D, w), NEW x \in Nat
    PROVE  Ring(Append(D, x), Push(w, x))
<1>0. PICK C \in Nat \ {0} : C = SampleCapacity
    BY CapacityAssumption
<1>1. PICK b \in Nat :
        /\ b = 0 \/ b >= C
        /\ Len(D) = b + w.next - 1
        /\ w.len = IF b = 0 THEN w.next - 1 ELSE C
        /\ \A i \in 1..(w.next - 1) : w.values[i] = D[b + i]
        /\ b # 0 => \A i \in w.next..C : w.values[i] = D[b - C + i]
    BY <1>0 DEF Ring
<1>2. PICK n \in 1..C : n = w.next
    BY <1>0 DEF Window
<1>3. PICK v \in [1..C -> Nat] : v = w.values
    BY <1>0 DEF Window
<1>13. \A i \in 1..(n - 1) : v[i] = D[b + i]
    BY <1>1, <1>2, <1>3
<1>14. ASSUME b # 0 PROVE \A i \in n..C : v[i] = D[b - C + i]
    BY <1>1, <1>2, <1>3, <1>14
<1>4. PICK E \in Seq(Nat) : E = Append(D, x)
    <2>1. Append(D, x) \in Seq(Nat)
        OBVIOUS
    <2> QED BY <2>1
<1>5. /\ Len(E) = b + n /\ E[b + n] = x
      /\ \A i \in 1..(b + n - 1) : E[i] = D[i]
    <2>1. PICK m \in Nat : m = Len(D) /\ m = b + n - 1
        BY <1>1, <1>2
    <2>2. Len(E) = m + 1 /\ E[m + 1] = x /\ \A i \in 1..m : E[i] = D[i]
        <3>1. /\ Len(Append(D, x)) = Len(D) + 1 /\ Append(D, x)[Len(D) + 1] = x
              /\ \A i \in 1..Len(D) : Append(D, x)[i] = D[i]
            BY AppendProperties
        <3> QED BY <1>4, <2>1, <3>1
    <2>3. m + 1 = b + n /\ m = b + n - 1
        BY <2>1
    <2> QED BY <2>2, <2>3
<1>6. PICK z : z = [v EXCEPT ![n] = x]
    OBVIOUS
<1>7. z[n] = x /\ \A i \in 1..C : i # n => z[i] = v[i]
    BY <1>6
<1>8. PICK l : l = IF w.len < C THEN w.len + 1 ELSE w.len
    OBVIOUS
<1>9. n % C = IF n = C THEN 0 ELSE n
    BY <1>0, Rest
<1>10. Push(w, x) = [values |-> z, len |-> l, next |-> (IF n = C THEN 0 ELSE n) + 1]
    BY <1>0, <1>2, <1>3, <1>6, <1>8, <1>9 DEF Push
<1>11. CASE n < C
    <2>1. /\ Push(w, x).next = n + 1 /\ Push(w, x).len = l /\ Push(w, x).values = z
        BY <1>10, <1>11
    <2>2. l = IF b = 0 THEN n ELSE C
        BY <1>1, <1>2, <1>8, <1>11
    <2>3. \A i \in 1..n : z[i] = E[b + i]
        <3> SUFFICES ASSUME NEW i \in 1..n PROVE z[i] = E[b + i]
            OBVIOUS
        <3>1. CASE i = n
            BY <1>5, <1>7, <3>1
        <3>2. CASE i # n
            <4>1. i \in 1..(n - 1) /\ i \in 1..C /\ b + i \in 1..(b + n - 1)
                BY <3>2
            <4> QED BY <1>5, <1>7, <1>13, <3>2, <4>1
        <3> QED BY <3>1, <3>2
    <2>4. ASSUME b # 0, NEW i \in (n + 1)..C PROVE z[i] = E[b - C + i]
        <3>1. i \in n..C /\ i \in 1..C /\ i # n /\ b - C + i \in 1..(b + n - 1)
            BY <1>1, <2>4, SMTT(30)
        <3> QED BY <1>5, <1>7, <1>14, <2>4, <3>1
    <2>5. Len(E) = b + (n + 1) - 1 /\ (n + 1) - 1 = n
        BY <1>5
    <2>6. PICK P : P = Push(w, x)
        OBVIOUS
    <2>7. /\ b = 0 \/ b >= C
          /\ Len(E) = b + P.next - 1
          /\ P.len = IF b = 0 THEN P.next - 1 ELSE C
        BY <1>1, <2>1, <2>2, <2>5, <2>6
    <2>8. \A i \in 1..(P.next - 1) : P.values[i] = E[b + i]
        BY <2>1, <2>3, <2>5, <2>6
    <2>9. b # 0 => \A i \in P.next..C : P.values[i] = E[b - C + i]
        BY <2>1, <2>4, <2>6
    <2>10. Ring(E, P)
        BY <1>0, <2>7, <2>8, <2>9 DEF Ring
    <2> QED BY <1>4, <2>6, <2>10
<1>12. CASE n = C
    <2>1. /\ Push(w, x).next = 1 /\ Push(w, x).len = l /\ Push(w, x).values = z
        BY <1>10, <1>12
    <2>2. PICK c \in Nat : c = b + C
        OBVIOUS
    <2>3. l = C /\ c # 0 /\ c >= C /\ Len(E) = c + 1 - 1
        BY <1>1, <1>2, <1>5, <1>8, <1>12, <2>2
    <2>4. ASSUME NEW i \in 1..C PROVE z[i] = E[c - C + i]
        <3>1. c - C + i = b + i
            BY <2>2
        <3>2. CASE i = n
            BY <1>5, <1>7, <3>1, <3>2
        <3>3. CASE i # n
            <4>1. i \in 1..(n - 1) /\ b + i \in 1..(b + n - 1)
                BY <1>12, <3>3
            <4> QED BY <1>5, <1>7, <1>13, <3>1, <3>3, <4>1
        <3> QED BY <3>2, <3>3
    <2>5. 1..(1 - 1) = {}
        OBVIOUS
    <2>6. PICK P : P = Push(w, x)
        OBVIOUS
    <2>7. /\ c = 0 \/ c >= C
          /\ Len(E) = c + P.next - 1
          /\ P.len = IF c = 0 THEN P.next - 1 ELSE C
        BY <2>1, <2>3, <2>6
    <2>8. \A i \in 1..(P.next - 1) : P.values[i] = E[c + i]
        BY <2>1, <2>5, <2>6
    <2>9. c # 0 => \A i \in P.next..C : P.values[i] = E[c - C + i]
        BY <2>1, <2>4, <2>6
    <2>10. Ring(E, P)
        BY <1>0, <2>7, <2>8, <2>9 DEF Ring
    <2> QED BY <1>4, <2>6, <2>10
<1> QED BY <1>11, <1>12

\* A renumbering of the slots.
Renumbers(f, n) ==
    /\ f \in [1..n -> 1..n]
    /\ \A i, j \in 1..n : f[i] = f[j] => i = j
    /\ \A j \in 1..n : \E i \in 1..n : f[i] = j

\* The first n values of R are those of z, in some order.
Reorders(R, z, n) == \E f : Renumbers(f, n) /\ \A i \in 1..n : R[i] = z[f[i]]

\* The slots of the ring are the last measurements in some order.
LEMMA RingRecent ==
    ASSUME NEW w \in Window, NEW D \in Seq(Nat), Ring(D, w), D # << >>
    PROVE  /\ w.len \in Nat \ {0} /\ w.len <= SampleCapacity
           /\ Last(D, SampleCapacity) \in Seq(Nat) /\ Len(Last(D, SampleCapacity)) = w.len
           /\ Reorders(Last(D, SampleCapacity), w.values, w.len)
<1>0. PICK C \in Nat \ {0} : C = SampleCapacity
    BY CapacityAssumption
<1>1. PICK b \in Nat :
        /\ b = 0 \/ b >= C
        /\ Len(D) = b + w.next - 1
        /\ w.len = IF b = 0 THEN w.next - 1 ELSE C
        /\ \A i \in 1..(w.next - 1) : w.values[i] = D[b + i]
        /\ b # 0 => \A i \in w.next..C : w.values[i] = D[b - C + i]
    BY <1>0 DEF Ring
<1>2. PICK n \in 1..C : n = w.next
    BY <1>0 DEF Window
<1>3. PICK v \in [1..C -> Nat] : v = w.values
    BY <1>0 DEF Window
<1>13. \A i \in 1..(n - 1) : v[i] = D[b + i]
    BY <1>1, <1>2, <1>3
<1>14. ASSUME b # 0 PROVE \A i \in n..C : v[i] = D[b - C + i]
    BY <1>1, <1>2, <1>3, <1>14
<1>4. PICK m \in Nat : m = Len(D) /\ m # 0
    OBVIOUS
<1>5. PICK R : R = Last(D, C)
    OBVIOUS
<1>6. CASE b = 0
    <2>1. m = n - 1 /\ w.len = m /\ m <= C
        BY <1>1, <1>2, <1>4, <1>6
    <2>2. R = D
        BY <1>4, <1>5, <2>1 DEF Last
    <2>3. PICK f : f = [i \in 1..m |-> i]
        OBVIOUS
    <2>4. Renumbers(f, m)
        BY <2>3 DEF Renumbers
    <2>5. ASSUME NEW i \in 1..m PROVE D[i] = v[f[i]]
        <3>1. i \in 1..(n - 1) /\ b + i = i /\ f[i] = i
            BY <1>6, <2>1, <2>3
        <3> QED BY <1>13, <3>1
    <2>6. R \in Seq(Nat) /\ Len(R) = w.len /\ w.len \in Nat \ {0} /\ w.len <= C
        BY <1>4, <2>1, <2>2
    <2>7. Renumbers(f, w.len) /\ \A i \in 1..w.len : R[i] = w.values[f[i]]
        BY <1>3, <2>1, <2>2, <2>4, <2>5
    <2> QED BY <1>0, <1>5, <2>6, <2>7 DEF Reorders
<1>7. CASE b # 0
    <2>1. b >= C /\ m = b + n - 1 /\ m >= C /\ w.len = C
        BY <1>1, <1>2, <1>4, <1>7, SMTT(30)
    <2>2. R \in Seq(Nat) /\ Len(R) = C /\ \A i \in 1..C : R[i] = D[m - C + i]
        <3>1. CASE m = C
            <4>1. R = D
                BY <1>4, <1>5, <3>1 DEF Last
            <4>2. \A i \in 1..C : m - C + i = i
                BY <3>1
            <4> QED BY <1>4, <3>1, <4>1, <4>2
        <3>2. CASE m # C
            <4>1. R = SubSeq(D, m - C + 1, m)
                BY <1>4, <1>5, <2>1, <3>2 DEF Last
            <4>2. PICK a \in Nat : a = m - C + 1 /\ a >= 1 /\ a <= m
                BY <2>1, <3>2
            <4>3. /\ SubSeq(D, a, m) \in Seq(Nat) /\ Len(SubSeq(D, a, m)) = m - a + 1
                  /\ \A i \in 1..(m - a + 1) : SubSeq(D, a, m)[i] = D[a + i - 1]
                BY <1>4, <4>2
            <4>4. m - a + 1 = C /\ \A i \in 1..C : a + i - 1 = m - C + i
                BY <4>2
            <4> QED BY <4>1, <4>2, <4>3, <4>4
        <3> QED BY <3>1, <3>2
    <2>3. PICK f : f = [i \in 1..C |-> IF i <= C - n + 1 THEN n - 1 + i ELSE n - 1 + i - C]
        OBVIOUS
    <2>4. Renumbers(f, C)
        <3>1. f \in [1..C -> 1..C]
            BY <2>3
        <3>2. ASSUME NEW i \in 1..C, NEW j \in 1..C, f[i] = f[j] PROVE i = j
            BY <2>3, <3>2
        <3>3. ASSUME NEW j \in 1..C PROVE \E i \in 1..C : f[i] = j
            <4>1. CASE j >= n
                <5>1. j - n + 1 \in 1..C /\ f[j - n + 1] = j
                    BY <2>3, <4>1
                <5> QED BY <5>1
            <4>2. CASE j < n
                <5>1. j - n + 1 + C \in 1..C /\ f[j - n + 1 + C] = j
                    BY <2>3, <4>2
                <5> QED BY <5>1
            <4> QED BY <4>1, <4>2
        <3> QED BY <3>1, <3>2, <3>3 DEF Renumbers
    <2>5. ASSUME NEW i \in 1..C PROVE R[i] = v[f[i]]
        <3>1. CASE i <= C - n + 1
            <4>1. f[i] = n - 1 + i /\ n - 1 + i \in n..C /\ b - C + (n - 1 + i) = m - C + i
                BY <2>1, <2>3, <3>1
            <4>2. v[n - 1 + i] = D[b - C + (n - 1 + i)]
                BY <1>7, <1>14, <4>1
            <4> QED BY <2>2, <4>1, <4>2
        <3>2. CASE ~(i <= C - n + 1)
            <4>1. f[i] = n - 1 + i - C /\ n - 1 + i - C \in 1..(n - 1) /\ b + (n - 1 + i - C) = m - C + i
                BY <2>1, <2>3, <3>2
            <4>2. v[n - 1 + i - C] = D[b + (n - 1 + i - C)]
                BY <1>13, <4>1
            <4>3. R[i] = D[m - C + i]
                BY <2>2
            <4> QED BY <4>1, <4>2, <4>3
        <3> QED BY <3>1, <3>2
    <2> QED BY <1>0, <1>3, <1>5, <2>1, <2>2, <2>4, <2>5 DEF Reorders
<1> QED BY <1>6, <1>7

\* Counting does not depend on the order.
LEMMA SameCount ==
    ASSUME NEW n \in Nat, NEW R, NEW v, Reorders(R, v, n), NEW x
    PROVE  Cardinality(UpTo(n, R, x)) = Cardinality(UpTo(n, v, x))
<1>0. PICK f : Renumbers(f, n) /\ \A i \in 1..n : R[i] = v[f[i]]
    BY DEF Reorders
<1>1. PICK S : S = {i \in 1..n : R[i] <= x} /\ S = UpTo(n, R, x)
    BY DEF UpTo
<1>2. PICK T : T = UpTo(n, v, x)
    OBVIOUS
<1>3. PICK g : g = [i \in S |-> f[i]]
    OBVIOUS
<1>4. g \in [S -> T]
    BY <1>0, <1>1, <1>2, <1>3 DEF UpTo, Renumbers
<1>5. \A i, j \in S : g[i] = g[j] => i = j
    BY <1>0, <1>1, <1>3 DEF Renumbers
<1>6. ASSUME NEW j \in T PROVE \E i \in S : g[i] = j
    <2>1. j \in 1..n /\ v[j] <= x
        BY <1>2 DEF UpTo
    <2>2. PICK i \in 1..n : f[i] = j
        BY <1>0, <2>1 DEF Renumbers
    <2>3. i \in S
        BY <1>0, <1>1, <2>1, <2>2
    <2> QED BY <1>3, <2>2, <2>3
<1>7. ExistsBijection(S, T)
    BY <1>4, <1>5, <1>6, Fun_IsBij, Fun_ExistsBij
<1>8. IsFiniteSet(S)
    <2>1. IsFiniteSet(1..n) /\ S \in SUBSET (1..n)
        BY <1>1, FS_Interval
    <2> QED BY <2>1, FS_Subset
<1>9. Cardinality(T) = Cardinality(S)
    BY <1>7, <1>8, FS_Bijection
<1> QED BY <1>1, <1>2, <1>9

-----------------------------------------------------------------------------
(***************************************************************************)
(* The windows of the loop.                                                *)
(***************************************************************************)
WindowInv == \A k \in Kinds : Ring(durations[k], stats[k].reassembly)

\* The windows are empty at the start.
LEMMA WindowInit == Init => WindowInv
<1> SUFFICES ASSUME Init, NEW k \in Kinds PROVE Ring(durations[k], stats[k].reassembly)
    BY DEF WindowInv
<1>1. durations[k] = << >> /\ stats[k].reassembly = EmptyWindow
    BY DEF Init, NoStats
<1>2. EmptyWindow.next = 1 /\ EmptyWindow.len = 0
    BY DEF EmptyWindow
<1>3. Ring(<< >>, EmptyWindow)
    <2>1. PICK b \in Nat : b = 0
        OBVIOUS
    <2>2. /\ Len(<< >>) = b + EmptyWindow.next - 1
          /\ EmptyWindow.len = IF b = 0 THEN EmptyWindow.next - 1 ELSE SampleCapacity
        BY <1>2, <2>1
    <2>3. 1..(EmptyWindow.next - 1) = {}
        BY <1>2
    <2> QED BY <2>1, <2>2, <2>3 DEF Ring
<1> QED BY <1>1, <1>3

\* Only a frame moves a window, by its own measurement.
LEMMA WindowStep == LoopInv /\ WindowInv /\ [Next]_vars => WindowInv'
<1> SUFFICES ASSUME LoopInv, WindowInv, [Next]_vars PROVE WindowInv'
    OBVIOUS
<1>0. stats \in [Kinds -> Stats] /\ durations \in [Kinds -> Seq(Nat)]
    BY DEF LoopInv, TypeInv
<1>1. ASSUME UNCHANGED <<stats, durations>> PROVE WindowInv'
    BY <1>1 DEF WindowInv
<1>2. ASSUME NEW k \in Kinds, Receive(k) PROVE WindowInv'
    <2>0. stats[k] \in Stats /\ stats[k].reassembly \in Window /\ durations[k] \in Seq(Nat)
        BY <1>0 DEF Stats
    <2>1. ASSUME Fragment(k) PROVE WindowInv'
        <3>1. PICK dropped \in {0, 1} :
                stats' = [stats EXCEPT ![k].packets = @ + 1, ![k].dropped = @ + dropped]
            BY <2>1 DEF Fragment
        <3> DEFINE new == [stats[k] EXCEPT !.packets = @ + 1, !.dropped = @ + dropped]
        <3>2. new.reassembly = stats[k].reassembly
            BY <2>0, FragmentStats
        <3>3. stats' = [stats EXCEPT ![k] = new]
            BY <1>0, <3>1
        <3> HIDE DEF new
        <3>4. \A j \in Kinds : stats'[j].reassembly = stats[j].reassembly
            BY <1>0, <3>2, <3>3
        <3>5. durations' = durations
            BY <2>1 DEF Fragment
        <3> QED BY <3>4, <3>5 DEF WindowInv
    <2>2. ASSUME NEW latency \in Delays, NEW duration \in Delays, NEW decodes \in BOOLEAN,
                 Frame(k, latency, duration, decodes)
          PROVE  WindowInv'
        <3>1. latency \in Nat /\ duration \in Nat
            BY ViewerAssumption
        <3> DEFINE new == WithFrame([stats[k] EXCEPT !.packets = @ + 1], latency, duration, decodes, estimate')
        <3>2. stats' = [stats EXCEPT ![k] = new]
            BY <2>2 DEF Frame
        <3>3. Good(estimate', ViewerOffset) /\ Good(sender, PublisherOffset)
            BY <1>2, RefreshedIsGood DEF LoopInv, ClockInv, Receive
        <3>4. new.reassembly = Push(stats[k].reassembly, ToMillis(duration))
            BY <2>0, <3>1, <3>3, FrameStats
        <3>5. durations' = [durations EXCEPT ![k] = Append(@, ToMillis(duration))]
            BY <2>2 DEF Frame
        <3>6. ToMillis(duration) \in Nat
            BY <3>1, MillisType
        <3>7. Ring(Append(durations[k], ToMillis(duration)), new.reassembly)
            BY <2>0, <3>4, <3>6, RingPush DEF WindowInv
        <3> HIDE DEF new
        <3>8. /\ stats'[k] = new /\ durations'[k] = Append(durations[k], ToMillis(duration))
              /\ \A j \in Kinds : j # k => stats'[j] = stats[j] /\ durations'[j] = durations[j]
            BY <1>0, <3>2, <3>5
        <3> QED BY <3>7, <3>8 DEF WindowInv
    <2>3. ASSUME Ignored PROVE WindowInv'
        BY <1>1, <2>3 DEF Ignored
    <2> QED BY <1>2, <2>1, <2>2, <2>3 DEF Receive
<1>3. CASE Sync \/ SendViewerStats \/ AllReceived \/ IdleTimeout \/ Fails \/ UNCHANGED vars
    BY <1>1, <1>3 DEF Sync, SendViewerStats, AllReceived, IdleTimeout, Fails, vars
<1> QED BY <1>2, <1>3 DEF Next

\* The percentiles of a ring are those of the last measurements.
LEMMA WindowMeaning == LoopInv /\ WindowInv => WindowIsRecent
<1> SUFFICES ASSUME LoopInv, WindowInv, NEW k \in Kinds, NEW p \in {50, 95}, durations[k] # << >>
             PROVE  LET recent == Last(durations[k], SampleCapacity)
                        v == Percentile(stats[k].reassembly, p)
                    IN  /\ v \in {recent[i] : i \in DOMAIN recent}
                        /\ 100 * Places(recent, v) >= 100 + p * (Len(recent) - 1)
                        /\ 100 * Places(recent, v - 1) < 100 + p * (Len(recent) - 1)
    BY DEF WindowIsRecent
<1>1. PICK w \in Window : w = stats[k].reassembly
    BY DEF LoopInv, TypeInv, Stats
<1>2. PICK D \in Seq(Nat) : D = durations[k] /\ D # << >>
    BY DEF LoopInv, TypeInv
<1>3. Ring(D, w)
    BY <1>1, <1>2 DEF WindowInv
<1>4. PICK R \in Seq(Nat) : R = Last(D, SampleCapacity) /\ Len(R) = w.len
    BY <1>2, <1>3, RingRecent
<1>5. PICK n \in Nat \ {0} : n = w.len
    <2>1. w.len \in Nat \ {0}
        BY <1>2, <1>3, RingRecent
    <2> QED BY <2>1
<1>6. PICK z : z = w.values
    OBVIOUS
<1>7. Reorders(R, z, n)
    BY <1>2, <1>3, <1>4, <1>5, <1>6, RingRecent
<1>8. PICK v : v = Percentile(w, p) /\ IsPercentile(v, p, n, z)
    BY <1>5, <1>6, PercentileOf
<1>9. DOMAIN R = 1..n
    BY <1>4, <1>5
<1>10. ASSUME NEW x PROVE Places(R, x) = Cardinality(UpTo(n, z, x))
    <2>1. Cardinality(UpTo(n, R, x)) = Cardinality(UpTo(n, z, x))
        BY <1>7, SameCount
    <2> QED BY <1>9, <2>1 DEF Places, UpTo
<1>11. v \in {R[i] : i \in DOMAIN R}
    <2>1. PICK j \in 1..n : v = z[j]
        BY <1>8 DEF IsPercentile
    <2>2. PICK f : Renumbers(f, n) /\ \A i \in 1..n : R[i] = z[f[i]]
        BY <1>7 DEF Reorders
    <2>3. PICK i \in 1..n : f[i] = j
        BY <2>2 DEF Renumbers
    <2>4. i \in DOMAIN R /\ v = R[i]
        BY <1>9, <2>1, <2>2, <2>3
    <2> QED BY <2>4
<1>12. /\ 100 * Places(R, v) >= 100 + p * (Len(R) - 1)
       /\ 100 * Places(R, v - 1) < 100 + p * (Len(R) - 1)
    BY <1>4, <1>5, <1>8, <1>10 DEF IsPercentile
<1> QED BY <1>1, <1>2, <1>4, <1>8, <1>11, <1>12

\* The median and the 95th percentile of LatencySamples are those of the last
\* measurements, for all capacities, however often the ring has gone round.
THEOREM WindowStaysRecent == Spec => []WindowIsRecent
<1>1. Spec => []WindowInv
    BY LoopHolds, WindowInit, WindowStep, PTL DEF Spec
<1> QED BY <1>1, LoopHolds, WindowMeaning, PTL

=============================================================================
