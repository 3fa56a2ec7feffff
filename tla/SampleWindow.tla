---------------------------- MODULE SampleWindow ----------------------------
(***************************************************************************)
(* The ring of recent measurements that every timing in a report comes     *)
(* from: LatencySamples (desktop-client/src/stats.rs) and                  *)
(* RouteLatencySamples (relay-server/src/metrics.rs), which are the same.  *)
(***************************************************************************)
EXTENDS Integers, Sequences, FiniteSets, FiniteSetsExt

CONSTANT SampleCapacity   \* LATENCY_SAMPLE_CAPACITY, ROUTE_SAMPLE_CAPACITY (64)

ASSUME CapacityAssumption == SampleCapacity \in Nat \ {0}

EmptyWindow == [values |-> [i \in 1..SampleCapacity |-> 0], len |-> 0, next |-> 1]

\* Mutant of Push: a full ring starts over without its first slot.
PushSkippingSlot(w, value) ==
    [values |-> [w.values EXCEPT ![w.next] = value],
     len |-> IF w.len < SampleCapacity THEN w.len + 1 ELSE w.len,
     next |-> IF w.next < SampleCapacity THEN w.next + 1
              ELSE IF SampleCapacity = 1 THEN 1 ELSE 2]

\* Once the ring is full the oldest value is overwritten.
Push(w, value) ==
    [values |-> [w.values EXCEPT ![w.next] = value],
     len |-> IF w.len < SampleCapacity THEN w.len + 1 ELSE w.len,
     next |-> (w.next % SampleCapacity) + 1]

\* The value at the place ceil((len - 1) * p / 100), from 0, once sorted.
Percentile(w, p) ==
    LET place == ((w.len - 1) * p + 99) \div 100
        UpTo(v) == Cardinality({i \in 1..w.len : w.values[i] <= v})
    IN  IF w.len = 0 THEN 0
        ELSE Min({w.values[i] : i \in {j \in 1..w.len : UpTo(w.values[j]) > place}})

=============================================================================
