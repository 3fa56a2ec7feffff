------------------------- MODULE MediaEgressProofs --------------------------
(***************************************************************************)
(* The egress queues: the depths the relay keeps are exactly what is       *)
(* queued, being sent or about to be queued, and with them the queues are  *)
(* bounded and a stream is crowded out by others only.                     *)
(***************************************************************************)
EXTENDS MediaEgress, FiniteSetTheorems, TLAPS

-----------------------------------------------------------------------------
(***************************************************************************)
(* Sums over finite sets.  What the fold of MapThenSumSet computes is      *)
(* shown by least counterexamples, first that the recursive function it is *)
(* defined by exists, then that the order of the elements does not matter. *)
(***************************************************************************)
Sum(S) == MapThenSumSet(LAMBDA d : d.ms, S)

SumBody(f, T) == IF T = {} THEN 0
                 ELSE LET x == CHOOSE x \in T : TRUE IN x.ms + f[T \ {x}]

IsSumOn(f, D) == f = [T \in D |-> SumBody(f, T)]

\* A set of numbers that is not empty has a least one.
LEMMA LeastNumber ==
    ASSUME NEW B, B \subseteq Nat, B # {}
    PROVE  \E n \in B : \A m \in B : n <= m
<1>1. IsWellFoundedOn(OpToRel(<, Nat), Nat)
    BY NatLessThanWellFounded
<1>2. PICK n \in B : \A m \in B : ~(<<m, n>> \in OpToRel(<, Nat))
    BY <1>1, WFMin
<1>3. ASSUME NEW m \in B PROVE n <= m
    <2>1. m \in Nat /\ n \in Nat
        OBVIOUS
    <2>2. ~(m < n)
        BY <1>2, <2>1 DEF OpToRel
    <2> QED BY <2>1, <2>2
<1> QED BY <1>3

\* The parts of a finite set with at most n elements.
UpToSize(S, n) == {T \in SUBSET S : Cardinality(T) <= n}

\* The function MapThenSumSet is defined by exists on every finite set.
LEMMA SumExists ==
    ASSUME NEW S, IsFiniteSet(S)
    PROVE  \E f : IsSumOn(f, SUBSET S)
<1> DEFINE Bad == {n \in Nat : ~\E f : IsSumOn(f, UpToSize(S, n))}
<1>0. \A T \in SUBSET S : IsFiniteSet(T) /\ Cardinality(T) \in Nat
    BY FS_Subset, FS_CardinalityType
<1>1. CASE Bad = {}
    <2>1. Cardinality(S) \in Nat
        BY FS_CardinalityType
    <2>2. PICK f : IsSumOn(f, UpToSize(S, Cardinality(S)))
        BY <1>1, <2>1
    <2>3. UpToSize(S, Cardinality(S)) = SUBSET S
        BY FS_Subset DEF UpToSize
    <2> QED BY <2>2, <2>3
<1>2. CASE Bad # {}
    <2>1. PICK n \in Bad : \A m \in Bad : n <= m
        <3> HIDE DEF Bad
        <3>1. Bad \subseteq Nat
            BY DEF Bad
        <3> QED BY <1>2, <3>1, LeastNumber
    <2>2. n # 0
        <3> SUFFICES ASSUME n = 0 PROVE FALSE
            OBVIOUS
        <3>1. UpToSize(S, 0) = {{}}
            BY <1>0, FS_EmptySet DEF UpToSize
        <3> DEFINE f == [T \in {{}} |-> 0]
        <3>2. f = [T \in {{}} |-> SumBody(f, T)]
            BY DEF SumBody
        <3> QED BY <3>1, <3>2 DEF IsSumOn
    <2>3. n - 1 \in Nat /\ ~(n <= n - 1)
        BY <2>2
    <2>4. PICK f : IsSumOn(f, UpToSize(S, n - 1))
        BY <2>1, <2>3
    <2> DEFINE g == [T \in UpToSize(S, n) |-> SumBody(f, T)]
    <2>5. ASSUME NEW T \in UpToSize(S, n) PROVE SumBody(g, T) = SumBody(f, T)
        <3>1. CASE T = {}
            BY <3>1 DEF SumBody
        <3>2. CASE T # {}
            <4> DEFINE x == CHOOSE x \in T : TRUE
            <4>1. x \in T
                BY <3>2
            <4> HIDE DEF x
            <4>2. Cardinality(T \ {x}) = Cardinality(T) - 1 /\ Cardinality(T) \in Nat
                BY <1>0, <4>1, FS_RemoveElement DEF UpToSize
            <4>3. T \ {x} \in UpToSize(S, n - 1) /\ T \ {x} \in UpToSize(S, n)
                BY <2>3, <4>2 DEF UpToSize
            <4>4. f[T \ {x}] = SumBody(f, T \ {x})
                BY <2>4, <4>3 DEF IsSumOn
            <4>5. g[T \ {x}] = f[T \ {x}]
                BY <4>3, <4>4
            <4> HIDE DEF g
            <4> QED BY <3>2, <4>5 DEF SumBody, x
        <3> QED BY <3>1, <3>2
    <2>6. g = [T \in UpToSize(S, n) |-> SumBody(g, T)]
        BY <2>5
    <2> QED BY <2>6 DEF IsSumOn
<1> QED BY <1>1, <1>2

\* Two such functions agree where both are defined.
LEMMA SumAgrees ==
    ASSUME NEW S, IsFiniteSet(S), NEW T \in SUBSET S, NEW f, NEW g,
           IsSumOn(f, SUBSET S), IsSumOn(g, SUBSET T)
    PROVE  f[T] = g[T]
<1> DEFINE Differ == {U \in SUBSET T : f[U] # g[U]}
           Bad == {Cardinality(U) : U \in Differ}
<1>0. \A U \in SUBSET S : IsFiniteSet(U) /\ Cardinality(U) \in Nat
    BY FS_Subset, FS_CardinalityType
<1>1. SUFFICES ASSUME Differ # {} PROVE FALSE
    OBVIOUS
<1>2. PICK n \in Bad : \A m \in Bad : n <= m
    <2>1. Bad \subseteq Nat /\ Bad # {}
        BY <1>0, <1>1
    <2> HIDE DEF Bad
    <2> QED BY <2>1, LeastNumber
<1>3. PICK U \in Differ : n = Cardinality(U)
    BY <1>2
<1>4. /\ f[U] = SumBody(f, U) /\ g[U] = SumBody(g, U)
      /\ U \in SUBSET T /\ f[U] # g[U]
    BY <1>3 DEF IsSumOn
<1>5. U # {}
    BY <1>4 DEF SumBody
<1> DEFINE x == CHOOSE x \in U : TRUE
<1>6. x \in U
    BY <1>5
<1>7. f[U] = x.ms + f[U \ {x}] /\ g[U] = x.ms + g[U \ {x}]
    BY <1>4, <1>5 DEF SumBody
<1> HIDE DEF x
<1>8. Cardinality(U \ {x}) = n - 1 /\ n \in Nat
    BY <1>0, <1>3, <1>4, <1>6, FS_RemoveElement
<1>9. U \ {x} \in Differ
    BY <1>4, <1>7
<1>10. n - 1 \in Bad
    BY <1>8, <1>9
<1> HIDE DEF Bad
<1> QED BY <1>2, <1>8, <1>10

\* The recursion of a sum, whatever function computes it.
LEMMA SumUnfolds ==
    ASSUME NEW S, IsFiniteSet(S)
    PROVE  /\ S = {} => Sum(S) = 0
           /\ S # {} => LET x == CHOOSE x \in S : TRUE IN Sum(S) = x.ms + Sum(S \ {x})
<1>1. ASSUME NEW T, IsFiniteSet(T)
      PROVE  LET f == CHOOSE f : IsSumOn(f, SUBSET T)
             IN  Sum(T) = f[T] /\ IsSumOn(f, SUBSET T)
    <2>1. \E f : IsSumOn(f, SUBSET T)
        BY <1>1, SumExists
    <2>2. Sum(T) = (CHOOSE f : f = [U \in SUBSET T |-> SumBody(f, U)])[T]
        BY DEF Sum, MapThenSumSet, MapThenFoldSet, SumBody
    <2>3. Sum(T) = (CHOOSE f : IsSumOn(f, SUBSET T))[T]
        BY <2>2 DEF IsSumOn
    <2> QED BY <2>1, <2>3
<1> DEFINE F(T) == CHOOSE f : IsSumOn(f, SUBSET T)
<1>2. Sum(S) = F(S)[S] /\ IsSumOn(F(S), SUBSET S)
    BY <1>1
<1>3. F(S)[S] = SumBody(F(S), S)
    <2> HIDE DEF F
    <2> QED BY <1>2 DEF IsSumOn
<1>4. CASE S = {}
    BY <1>2, <1>3, <1>4 DEF SumBody
<1>5. CASE S # {}
    <2> DEFINE x == CHOOSE x \in S : TRUE
               T == S \ {x}
    <2>1. Sum(S) = x.ms + F(S)[T]
        <3> HIDE DEF F
        <3> QED BY <1>2, <1>3, <1>5 DEF SumBody
    <2>2. T \in SUBSET S /\ IsFiniteSet(T)
        BY FS_Subset
    <2>3. Sum(T) = F(T)[T] /\ IsSumOn(F(T), SUBSET T)
        <3> HIDE DEF T
        <3> QED BY <1>1, <2>2
    <2>4. F(S)[T] = F(T)[T]
        <3> HIDE DEF F, T
        <3> QED BY <1>2, <2>2, <2>3, SumAgrees
    <2> QED BY <1>5, <2>1, <2>3, <2>4
<1> QED BY <1>4, <1>5

Weighted(S) == IsFiniteSet(S) /\ \A d \in S : d.ms \in Nat \ {0}

\* The sum is a number, no less than there are datagrams, and any element of the
\* set can be taken out of it.
LEMMA SumRemoves ==
    ASSUME NEW S, Weighted(S)
    PROVE  /\ Sum(S) \in Nat /\ Cardinality(S) <= Sum(S)
           /\ \A y \in S : Sum(S) = Sum(S \ {y}) + y.ms
<1> DEFINE Good(T) == /\ Sum(T) \in Nat /\ Cardinality(T) <= Sum(T)
                      /\ \A y \in T : Sum(T) = Sum(T \ {y}) + y.ms
           Wrong == {T \in SUBSET S : ~Good(T)}
           Bad == {Cardinality(T) : T \in Wrong}
<1>0. \A T \in SUBSET S : IsFiniteSet(T) /\ Cardinality(T) \in Nat
    BY FS_Subset, FS_CardinalityType DEF Weighted
<1>1. SUFFICES ASSUME Wrong # {} PROVE FALSE
    OBVIOUS
<1>2. PICK n \in Bad : \A m \in Bad : n <= m
    <2>1. Bad \subseteq Nat /\ Bad # {}
        BY <1>0, <1>1
    <2> HIDE DEF Bad
    <2> QED BY <2>1, LeastNumber
<1>3. PICK T \in Wrong : n = Cardinality(T)
    BY <1>2
<1>4. T \in SUBSET S /\ ~Good(T) /\ IsFiniteSet(T) /\ n \in Nat
    BY <1>0, <1>3
<1>5. ASSUME NEW y \in T PROVE Good(T \ {y}) /\ Cardinality(T \ {y}) = n - 1
    <2>1. Cardinality(T \ {y}) = n - 1
        BY <1>3, <1>4, FS_RemoveElement
    <2>2. T \ {y} \in SUBSET S
        BY <1>4
    <2>3. n - 1 \notin Bad
        <3> HIDE DEF Bad
        <3> QED BY <1>2, <1>4
    <2> HIDE DEF Good
    <2> QED BY <2>1, <2>2, <2>3
<1>6. T # {}
    <2>1. Sum({}) = 0 /\ Cardinality({}) = 0
        BY SumUnfolds, FS_EmptySet
    <2>2. Good({})
        BY <2>1
    <2> QED BY <1>4, <2>2
<1> DEFINE x == CHOOSE x \in T : TRUE
<1>7. x \in T /\ Sum(T) = x.ms + Sum(T \ {x})
    BY <1>4, <1>6, SumUnfolds
<1> HIDE DEF x
<1>8. x.ms \in Nat /\ 1 <= x.ms
    BY <1>4, <1>7 DEF Weighted
<1>9. /\ Sum(T \ {x}) \in Nat /\ Cardinality(T \ {x}) <= Sum(T \ {x})
      /\ Cardinality(T \ {x}) = n - 1
      /\ \A y \in T \ {x} : Sum(T \ {x}) = Sum((T \ {x}) \ {y}) + y.ms
    BY <1>5, <1>7
<1>10. Sum(T) \in Nat /\ Cardinality(T) <= Sum(T)
    <2> DEFINE a == Sum(T \ {x})
    <2>1. a \in Nat /\ n - 1 <= a /\ Sum(T) = x.ms + a
        BY <1>7, <1>9
    <2> HIDE DEF a, Good, Bad
    <2>2. x.ms + a \in Nat /\ n <= x.ms + a
        BY <1>4, <1>8, <2>1
    <2> QED BY <1>3, <2>1, <2>2
<1>11. ASSUME NEW y \in T, y # x PROVE Sum(T) = Sum(T \ {y}) + y.ms
    <2>1. Sum(T \ {x}) = Sum((T \ {x}) \ {y}) + y.ms
        BY <1>9, <1>11
    <2>2. Sum(T \ {y}) = Sum((T \ {y}) \ {x}) + x.ms /\ Sum(T \ {y}) \in Nat
        BY <1>5, <1>7, <1>11
    <2>3. (T \ {x}) \ {y} = (T \ {y}) \ {x} /\ y.ms \in Nat
        BY <1>4 DEF Weighted
    <2>4. Sum((T \ {x}) \ {y}) \in Nat
        <3>1. Good(T \ {x}) /\ y \in T \ {x} /\ T \ {x} \in SUBSET S /\ Cardinality(T \ {x}) = n - 1
            BY <1>4, <1>5, <1>7, <1>11
        <3> DEFINE U == (T \ {x}) \ {y}
        <3>2. U \in SUBSET S /\ Cardinality(U) = n - 2
            <4> DEFINE V == T \ {x}
            <4>1. IsFiniteSet(V) /\ y \in V /\ Cardinality(V) = n - 1 /\ U = V \ {y}
                BY <1>0, <3>1
            <4> HIDE DEF V, U, Good, Bad
            <4>2. Cardinality(U) = (n - 1) - 1
                BY <4>1, FS_RemoveElement
            <4> QED BY <1>4, <4>2 DEF U
        <3>3. n - 2 \notin Bad
            <4> HIDE DEF Bad
            <4> QED BY <1>2, <1>4
        <3> HIDE DEF Good, U
        <3>4. Good(U)
            BY <3>2, <3>3
        <3> QED BY <3>4 DEF Good, U
    <2> DEFINE a == Sum((T \ {x}) \ {y})
    <2>5. a \in Nat /\ Sum(T \ {x}) = a + y.ms /\ Sum(T \ {y}) = a + x.ms
        BY <2>1, <2>2, <2>3, <2>4
    <2> HIDE DEF a
    <2> QED BY <1>7, <1>8, <2>3, <2>5
<1>12. \A y \in T : Sum(T) = Sum(T \ {y}) + y.ms
    <2> DEFINE a == Sum(T \ {x})
    <2>1. a \in Nat /\ Sum(T) = x.ms + a
        BY <1>7, <1>9
    <2> HIDE DEF a, Good, Bad
    <2>2. Sum(T) = a + x.ms
        BY <1>8, <2>1
    <2> QED BY <1>11, <2>2 DEF a
<1> QED BY <1>4, <1>10, <1>12

\* A datagram more.
LEMMA SumAdds ==
    ASSUME NEW S, Weighted(S), NEW d, d \notin S, d.ms \in Nat \ {0}
    PROVE  Weighted(S \cup {d}) /\ Sum(S \cup {d}) = Sum(S) + d.ms
<1>1. Weighted(S \cup {d})
    BY FS_AddElement DEF Weighted
<1>2. (S \cup {d}) \ {d} = S
    OBVIOUS
<1> QED BY <1>1, <1>2, SumRemoves

-----------------------------------------------------------------------------
(***************************************************************************)
(* The datagrams of one stream in a set of them.                           *)
(***************************************************************************)
Of(H, s) == {d \in H : d.stream = s}

\* The counts of a part.
LEMMA OfType ==
    ASSUME NEW H, Weighted(H), NEW s
    PROVE  /\ Weighted(Of(H, s)) /\ Cardinality(Of(H, s)) \in Nat /\ Sum(Of(H, s)) \in Nat
           /\ Cardinality(Of(H, s)) <= Sum(Of(H, s))
<1>1. Weighted(Of(H, s))
    BY FS_Subset DEF Weighted, Of
<1> QED BY <1>1, SumRemoves, FS_CardinalityType DEF Weighted

\* A datagram more counts once, for its stream.
LEMMA OfAdds ==
    ASSUME NEW H, Weighted(H), NEW d, d \notin H, d.ms \in Nat \ {0}
    PROVE  /\ Weighted(H \cup {d})
           /\ Cardinality(H \cup {d}) = Cardinality(H) + 1
           /\ \A s : s # d.stream => Of(H \cup {d}, s) = Of(H, s)
           /\ Cardinality(Of(H \cup {d}, d.stream)) = Cardinality(Of(H, d.stream)) + 1
           /\ Sum(Of(H \cup {d}, d.stream)) = Sum(Of(H, d.stream)) + d.ms
<1>1. Weighted(H \cup {d}) /\ Cardinality(H \cup {d}) = Cardinality(H) + 1
    BY SumAdds, FS_AddElement DEF Weighted
<1>2. \A s : s # d.stream => Of(H \cup {d}, s) = Of(H, s)
    BY DEF Of
<1> DEFINE P == Of(H, d.stream)
<1>3. Of(H \cup {d}, d.stream) = P \cup {d} /\ d \notin P /\ Weighted(P)
    BY OfType DEF Of
<1> HIDE DEF P
<1>4. Cardinality(P \cup {d}) = Cardinality(P) + 1 /\ Sum(P \cup {d}) = Sum(P) + d.ms
    BY <1>3, SumAdds, FS_AddElement DEF Weighted
<1> QED BY <1>1, <1>2, <1>3, <1>4 DEF P

\* A datagram less.
LEMMA OfDrops ==
    ASSUME NEW H, Weighted(H), NEW d \in H
    PROVE  /\ Weighted(H \ {d})
           /\ Cardinality(H \ {d}) = Cardinality(H) - 1
           /\ \A s : s # d.stream => Of(H \ {d}, s) = Of(H, s)
           /\ Cardinality(Of(H, d.stream)) >= 1
           /\ Cardinality(Of(H \ {d}, d.stream)) = Cardinality(Of(H, d.stream)) - 1
           /\ Sum(Of(H, d.stream)) >= d.ms
           /\ Sum(Of(H \ {d}, d.stream)) = Sum(Of(H, d.stream)) - d.ms
<1>1. Weighted(H \ {d}) /\ Cardinality(H \ {d}) = Cardinality(H) - 1
    BY FS_RemoveElement DEF Weighted
<1>2. \A s : s # d.stream => Of(H \ {d}, s) = Of(H, s)
    BY DEF Of
<1> DEFINE P == Of(H, d.stream)
<1>3. /\ Of(H \ {d}, d.stream) = P \ {d} /\ d \in P /\ Weighted(P)
      /\ d.ms \in Nat \ {0}
    BY OfType DEF Of, Weighted
<1> HIDE DEF P
<1>4. Weighted(P \ {d}) /\ Cardinality(P \ {d}) = Cardinality(P) - 1
    BY <1>3, FS_RemoveElement DEF Weighted
<1>5. /\ Sum(P) = Sum(P \ {d}) + d.ms /\ Sum(P \ {d}) \in Nat
      /\ Cardinality(P) \in Nat /\ Cardinality(P \ {d}) \in Nat
    BY <1>3, <1>4, SumRemoves, FS_CardinalityType DEF Weighted
<1>6. Cardinality(P) >= 1 /\ Sum(P) >= d.ms /\ Sum(P \ {d}) = Sum(P) - d.ms
    BY <1>3, <1>4, <1>5
<1> QED BY <1>1, <1>2, <1>3, <1>4, <1>6 DEF P

-----------------------------------------------------------------------------
(***************************************************************************)
(* Queues and durations.                                                   *)
(***************************************************************************)

\* What a queue holds after the operations of the channel.
LEMMA QueueElements ==
    ASSUME NEW S, NEW q \in Seq(S)
    PROVE  /\ Elements(<< >>) = {} /\ Elements(q) \subseteq S
           /\ \A e \in S : Elements(<<e>>) = {e} /\ <<e>>[1] = e
           /\ \A e \in S : Elements(Append(q, e)) = Elements(q) \cup {e}
           /\ q # << >> => /\ Head(q) \in S /\ Elements(q) = {Head(q)} \cup Elements(Tail(q))
                           /\ Tail(q) \in Seq(S) /\ Len(Tail(q)) = Len(q) - 1 /\ Len(q) >= 1
           /\ Len(q) <= 1 /\ q # << >> => Len(q) = 1 /\ q[1] \in S /\ Elements(q) = {q[1]}
<1>1. Elements(<< >>) = {} /\ Elements(q) \subseteq S
    BY DEF Elements
<1>2. ASSUME NEW e \in S PROVE Elements(<<e>>) = {e} /\ <<e>>[1] = e
    BY DEF Elements
<1>3. ASSUME NEW e \in S PROVE Elements(Append(q, e)) = Elements(q) \cup {e}
    <2>1. /\ DOMAIN Append(q, e) = 1..(Len(q) + 1) /\ DOMAIN q = 1..Len(q) /\ Len(q) \in Nat
          /\ Append(q, e)[Len(q) + 1] = e
          /\ \A i \in 1..Len(q) : Append(q, e)[i] = q[i]
        OBVIOUS
    <2>2. 1..(Len(q) + 1) = 1..Len(q) \cup {Len(q) + 1}
        BY <2>1
    <2>3. \A y : y \in Elements(Append(q, e)) => y \in Elements(q) \cup {e}
        BY <2>1, <2>2 DEF Elements
    <2>4. \A y : y \in Elements(q) \cup {e} => y \in Elements(Append(q, e))
        BY <2>1, <2>2 DEF Elements
    <2> QED BY <2>3, <2>4
<1>4. ASSUME q # << >>
      PROVE  /\ Head(q) \in S /\ Elements(q) = {Head(q)} \cup Elements(Tail(q))
             /\ Tail(q) \in Seq(S) /\ Len(Tail(q)) = Len(q) - 1 /\ Len(q) >= 1
    <2>1. /\ Head(q) = q[1] /\ Tail(q) \in Seq(S) /\ Len(Tail(q)) = Len(q) - 1
          /\ Len(q) \in Nat /\ Len(q) >= 1 /\ Head(q) \in S
          /\ DOMAIN q = 1..Len(q) /\ DOMAIN Tail(q) = 1..(Len(q) - 1)
          /\ \A i \in 1..(Len(q) - 1) : Tail(q)[i] = q[i + 1]
        BY <1>4
    <2>2. ASSUME NEW d \in Elements(q) PROVE d \in {Head(q)} \cup Elements(Tail(q))
        <3>1. PICK i \in 1..Len(q) : d = q[i]
            BY <2>1 DEF Elements
        <3>2. CASE i = 1
            BY <2>1, <3>1, <3>2
        <3>3. CASE i # 1
            <4>1. i - 1 \in 1..(Len(q) - 1) /\ (i - 1) + 1 = i
                BY <2>1, <3>3
            <4>2. Tail(q)[i - 1] = d
                BY <2>1, <3>1, <4>1
            <4> QED BY <2>1, <4>1, <4>2 DEF Elements
        <3> QED BY <3>2, <3>3
    <2>3. ASSUME NEW d \in {Head(q)} \cup Elements(Tail(q)) PROVE d \in Elements(q)
        <3>1. CASE d = Head(q)
            BY <2>1, <3>1 DEF Elements
        <3>2. CASE d \in Elements(Tail(q))
            <4>1. PICK i \in 1..(Len(q) - 1) : d = q[i + 1]
                BY <2>1, <3>2 DEF Elements
            <4>2. i + 1 \in 1..Len(q)
                BY <2>1
            <4> QED BY <2>1, <4>1, <4>2 DEF Elements
        <3> QED BY <3>1, <3>2
    <2> QED BY <2>1, <2>2, <2>3
<1>5. ASSUME Len(q) <= 1, q # << >> PROVE Len(q) = 1 /\ q[1] \in S /\ Elements(q) = {q[1]}
    <2>1. Len(q) \in Nat /\ Len(q) # 0 /\ DOMAIN q = 1..Len(q)
        BY <1>5
    <2>2. Len(q) = 1
        BY <1>5, <2>1
    <2>3. DOMAIN q = 1..1 /\ q[1] \in S
        BY <2>1, <2>2
    <2>4. 1..1 = {1}
        OBVIOUS
    <2> QED BY <2>2, <2>3, <2>4 DEF Elements
<1> QED BY <1>1, <1>2, <1>3, <1>4, <1>5

\* A share of a number is no more than the number.
LEMMA QuotientBounds ==
    ASSUME NEW a \in Nat, NEW b \in Nat \ {0}
    PROVE  a \div b \in 0..a /\ (a >= b => a \div b >= 1)
<1> DEFINE q == a \div b
           r == a % b
<1>1. q \in Int /\ r \in 0..(b - 1) /\ a = b * q + r
    OBVIOUS
<1> HIDE DEF q, r
<1>2. q >= 0
    <2> SUFFICES ASSUME q <= -1 PROVE FALSE
        BY <1>1
    <2>1. b * q <= b * (-1)
        BY <1>1
    <2> QED BY <1>1, <2>1
<1>3. q <= a
    <2>1. b * q >= 1 * q
        BY <1>1, <1>2
    <2> QED BY <1>1, <2>1
<1>4. ASSUME a >= b PROVE q >= 1
    <2> SUFFICES ASSUME q = 0 PROVE FALSE
        BY <1>1, <1>2
    <2>1. b * q = 0
        OBVIOUS
    <2> QED BY <1>1, <1>4, <2>1
<1> QED BY <1>1, <1>2, <1>3, <1>4 DEF q

\* A second of at least one frame is rounded up to at least a millisecond each.
LEMMA CeilBounds ==
    ASSUME NEW b \in Nat \ {0}
    PROVE  CeilDiv(1000, b) \in Nat /\ CeilDiv(1000, b) >= 1
<1>1. PICK a \in Nat : a = 1000 + b - 1 /\ a >= b
    OBVIOUS
<1>2. a \div b \in 0..a /\ a \div b >= 1
    BY <1>1, QuotientBounds
<1>3. CeilDiv(1000, b) = a \div b
    BY <1>1 DEF CeilDiv
<1>4. \A x \in 0..a : x \in Nat
    OBVIOUS
<1> QED BY <1>2, <1>3, <1>4

Share(a, b) == a \div b

\* The same without the division, which slows the solver down.
LEMMA ShareBounds == \A a \in Nat, b \in Nat \ {0} : Share(a, b) \in 0..a
<1> SUFFICES ASSUME NEW a \in Nat, NEW b \in Nat \ {0} PROVE a \div b \in 0..a
    BY DEF Share
<1> QED BY QuotientBounds

\* The largest u16 is a number; with its value in sight 1..MaxU16 is a set of
\* 65535 elements to the provers.
LEMMA LargestType == MaxU16 \in Nat
BY DEF MaxU16

\* Zero counts as one.
LEMMA LargerBounds == \A x \in Nat : Larger(x, 1) \in Nat \ {0}
BY DEF Larger

\* A positive number cut off at another one.
LEMMA SmallerBounds == \A x \in Nat \ {0}, m \in Nat \ {0} : Smaller(x, m) \in 1..m
BY DEF Smaller

\* A share made at least one, and cut off at the largest number there is.
LEMMA RoundedBounds ==
    ASSUME NEW m \in Nat \ {0}, NEW top \in Nat, m <= top, NEW x \in 0..m
    PROVE  Smaller(Larger(x, 1), top) \in 1..m
BY DEF Smaller, Larger

\* A datagram counts for at least a millisecond and at most the budget.
LEMMA DurationBounds ==
    Durations \subseteq 1..Budget
<1> SUFFICES ASSUME NEW fps \in FrameRates, NEW n \in FragmentCounts
             PROVE  PacketMediaDuration(fps, n) \in 1..Budget
    BY DEF Durations
<1> DEFINE b == Larger(fps, 1)
           f == Larger(n, 1)
           c == CeilDiv(1000, b)
           frame == Smaller(c, Budget)
           share == Share(frame, f)
<1>0. fps \in Nat /\ n \in Nat
    BY EgressAssumption
<1>1. PacketMediaDuration(fps, n) = Smaller(Larger(share, 1), MaxU16)
    BY DEF PacketMediaDuration, Share
<1>2. b \in Nat \ {0} /\ f \in Nat \ {0}
    BY <1>0, LargerBounds
<1> HIDE DEF b, f
<1>3. c \in Nat \ {0}
    <2>1. c \in Nat /\ c >= 1
        BY <1>2, CeilBounds
    <2> HIDE DEF c
    <2> QED BY <2>1
<1> HIDE DEF c
<1>4. Budget \in Nat \ {0} /\ MaxU16 \in Nat /\ Budget <= MaxU16
    <2>1. Budget \in 1..MaxU16
        BY EgressAssumption
    <2> QED BY <2>1, LargestType
<1>5. frame \in 1..Budget
    BY <1>3, <1>4, SmallerBounds
<1> HIDE DEF frame
<1>6. frame \in Nat \ {0} /\ frame <= MaxU16 /\ \A x \in 1..frame : x \in 1..Budget
    BY <1>4, <1>5
<1>7. share \in 0..frame
    BY <1>2, <1>6, ShareBounds
<1> HIDE DEF share
<1>8. Smaller(Larger(share, 1), MaxU16) \in 1..frame
    BY <1>4, <1>6, <1>7, RoundedBounds
<1> QED BY <1>1, <1>6, <1>8

-----------------------------------------------------------------------------
(***************************************************************************)
(* The shape of the state and the bounds of the counters and of the        *)
(* channels.  These hold for every budget; that a counter counts what is   *)
(* queued does not.                                                        *)
(***************************************************************************)
Forwarding ==
    [datagram : Seq(Datagram), audience : SUBSET Viewers, reserved : SUBSET Viewers]

\* The forwarder has one datagram, and reserves for one viewer at a time; a send
\* task has at most one datagram in its hand.
ShapeInv ==
    /\ TypeOK
    /\ forwarding \in Forwarding
    /\ forwarding = Idle \/ Len(forwarding.datagram) = 1
    /\ \A v \in forwarding.reserved : forwarding.reserved = {v} /\ v \notin forwarding.audience
    /\ \A v \in Viewers : Len(inHand[v]) <= 1

\* The depth kept of a stream never exceeds the budget, nor a channel its capacity.
DepthBound ==
    \A v \in Viewers :
        /\ \A s \in Streams : depth[v][s].ms <= Budget
        /\ Len(channel[v]) <= Capacity

\* The datagram being forwarded exists, and was numbered.
LEMMA ForwardedDatagram ==
    ASSUME ShapeInv, forwarding # Idle
    PROVE  /\ forwarding.datagram[1] \in Datagram
           /\ Elements(forwarding.datagram) = {forwarding.datagram[1]}
           /\ forwarding.datagram # << >>
<1>1. forwarding.datagram \in Seq(Datagram) /\ Len(forwarding.datagram) = 1
    BY DEF ShapeInv, Forwarding
<1> QED BY <1>1, QueueElements

\* Every step keeps the shape and the bounds.
LEMMA ShapeStep ==
    ASSUME ShapeInv, DepthBound, [Next]_vars
    PROVE  ShapeInv' /\ DepthBound'
<1> USE EgressAssumption
<1>0. /\ registered \subseteq Viewers
      /\ channel \in [Viewers -> Seq(Datagram)]
      /\ inHand \in [Viewers -> Seq(Datagram)]
      /\ depth \in [Viewers -> [Streams -> [packets : Nat, ms : Nat]]]
      /\ nextId \in Nat \ {0} /\ forwarding \in Forwarding
    BY DEF ShapeInv, TypeOK
<1>1. ASSUME NEW s \in Streams, NEW ms \in Durations, NEW a \in SUBSET Viewers, Forward(s, ms, a)
      PROVE  ShapeInv' /\ DepthBound'
    <2> DEFINE d == [id |-> nextId, stream |-> s, ms |-> ms]
    <2>1. d \in Datagram
        BY <1>0, DurationBounds DEF Datagram
    <2>2. /\ forwarding' = [datagram |-> <<d>>, audience |-> a \cap registered, reserved |-> {}]
          /\ nextId' = nextId + 1
          /\ UNCHANGED <<registered, channel, inHand, depth>>
        BY <1>1 DEF Forward
    <2> HIDE DEF d
    <2>3. forwarding' \in Forwarding /\ Len(forwarding'.datagram) = 1 /\ forwarding'.reserved = {}
        BY <1>0, <2>1, <2>2 DEF Forwarding
    <2> QED BY <1>0, <2>2, <2>3 DEF ShapeInv, TypeOK, Forwarding, DepthBound
<1>2. ASSUME NEW v \in Viewers, Reserve(v) PROVE ShapeInv' /\ DepthBound'
    <2> DEFINE d == forwarding.datagram[1]
               cur == depth[v][d.stream]
               next == Smaller(cur.ms + d.ms, MaxU16)
    <2>1. d \in Datagram
        BY <1>2, ForwardedDatagram DEF Reserve
    <2>2. d.stream \in Streams /\ d.ms \in 1..Budget
        BY <2>1 DEF Datagram
    <2>3. cur \in [packets : Nat, ms : Nat]
        BY <1>0, <2>2
    <2>4. /\ UNCHANGED <<registered, channel, inHand, nextId>>
          /\ v \in forwarding.audience /\ forwarding.reserved = {} /\ forwarding # Idle
          /\ \/ /\ forwarding' = [forwarding EXCEPT !.audience = @ \ {v}]
                /\ UNCHANGED depth
             \/ /\ ~(next > Budget)
                /\ forwarding' = [forwarding EXCEPT !.audience = @ \ {v}, !.reserved = {v}]
                /\ depth' = [depth EXCEPT ![v][d.stream] =
                                [packets |-> cur.packets + 1, ms |-> next]]
        BY <1>2 DEF Reserve
    <2>5. next \in Nat
        <3> HIDE DEF cur, d
        <3>1. cur.ms \in Nat /\ d.ms \in Nat
            BY <2>2, <2>3
        <3> QED BY <3>1, LargestType DEF Smaller
    <2> HIDE DEF next, cur, d
    <2>6. /\ forwarding' \in Forwarding /\ forwarding'.datagram = forwarding.datagram
          /\ forwarding'.audience = forwarding.audience \ {v}
          /\ forwarding'.reserved \in {{}, {v}}
        <3>1. /\ forwarding \in Forwarding /\ forwarding.reserved = {}
              /\ forwarding.audience \ {v} \subseteq Viewers
            BY <1>0, <2>4 DEF Forwarding
        <3>2. CASE forwarding' = [forwarding EXCEPT !.audience = @ \ {v}]
            BY <3>1, <3>2 DEF Forwarding
        <3>3. CASE forwarding' = [forwarding EXCEPT !.audience = @ \ {v}, !.reserved = {v}]
            BY <3>1, <3>3 DEF Forwarding
        <3> QED BY Zenon, <2>4, <3>2, <3>3
    <2>7. /\ depth' \in [Viewers -> [Streams -> [packets : Nat, ms : Nat]]]
          /\ \A w \in Viewers, s \in Streams : depth'[w][s].ms <= Budget
        <3>1. \A w \in Viewers, s \in Streams : depth[w][s].ms <= Budget
            BY DEF DepthBound
        <3>2. CASE UNCHANGED depth
            BY <1>0, <3>1, <3>2
        <3>3. CASE /\ ~(next > Budget)
                   /\ depth' = [depth EXCEPT ![v][d.stream] =
                                [packets |-> cur.packets + 1, ms |-> next]]
            <4> DEFINE new == [packets |-> cur.packets + 1, ms |-> next]
            <4>1. new \in [packets : Nat, ms : Nat] /\ new.ms <= Budget
                BY <2>3, <2>5, <3>3
            <4>2. depth' = [depth EXCEPT ![v][d.stream] = new]
                BY <3>3
            <4> HIDE DEF new
            <4> QED BY <1>0, <2>2, <3>1, <4>1, <4>2
        <3> QED BY <2>4, <3>2, <3>3
    <2>8. Len(forwarding'.datagram) = 1
        BY <2>4, <2>6 DEF ShapeInv
    <2> QED BY <1>0, <2>4, <2>6, <2>7, <2>8 DEF ShapeInv, TypeOK, Forwarding, DepthBound
<1>3. ASSUME NEW v \in Viewers, Enqueue(v) PROVE ShapeInv' /\ DepthBound'
    <2>1. /\ channel' = [channel EXCEPT ![v] = Append(@, forwarding.datagram[1])]
          /\ forwarding' = [forwarding EXCEPT !.reserved = {}]
          /\ UNCHANGED <<registered, inHand, depth, nextId>>
          /\ Len(channel[v]) < Capacity /\ v \in forwarding.reserved
        BY <1>3 DEF Enqueue
    <2>2. forwarding # Idle
        BY <2>1 DEF Idle
    <2>3. forwarding.datagram[1] \in Datagram /\ Len(forwarding.datagram) = 1
        BY <2>2, ForwardedDatagram DEF ShapeInv
    <2>4. /\ channel' \in [Viewers -> Seq(Datagram)]
          /\ \A w \in Viewers : Len(channel'[w]) <= Capacity
        <3>1. \A w \in Viewers : channel'[w] = IF w = v THEN Append(channel[v], forwarding.datagram[1])
                                               ELSE channel[w]
            BY <1>0, <2>1
        <3>2. \A w \in Viewers : channel'[w] \in Seq(Datagram)
            <4>1. Append(channel[v], forwarding.datagram[1]) \in Seq(Datagram)
                BY <1>0, <2>3
            <4> QED BY <1>0, <3>1, <4>1, Zenon
        <3>3. Len(Append(channel[v], forwarding.datagram[1])) = Len(channel[v]) + 1
                 /\ Len(channel[v]) \in Nat
            BY <1>0, <2>3
        <3>4. \A w \in Viewers : Len(channel'[w]) <= Capacity
            BY <2>1, <3>1, <3>3 DEF DepthBound
        <3> QED BY <1>0, <2>1, <3>2, <3>4
    <2>5. /\ forwarding' \in Forwarding /\ forwarding'.datagram = forwarding.datagram
          /\ forwarding'.reserved = {}
        BY <1>0, <2>1 DEF Forwarding
    <2> QED BY <1>0, <2>1, <2>3, <2>4, <2>5 DEF ShapeInv, TypeOK, Forwarding, DepthBound
<1>4. ASSUME NEW v \in Viewers, NEW d \in Datagram,
             depth' = [depth EXCEPT ![v][d.stream] = Released(@, d)]
      PROVE  /\ depth' \in [Viewers -> [Streams -> [packets : Nat, ms : Nat]]]
             /\ \A w \in Viewers, s \in Streams : depth'[w][s].ms <= Budget
    <2>1. d.stream \in Streams /\ d.ms \in 1..Budget
        BY DEF Datagram
    <2> DEFINE cur == depth[v][d.stream]
               new == Released(cur, d)
    <2>2. cur \in [packets : Nat, ms : Nat] /\ cur.ms <= Budget
        BY <1>0, <2>1 DEF DepthBound
    <2>3. new \in [packets : Nat, ms : Nat] /\ new.ms <= Budget
        <3> HIDE DEF cur
        <3> QED BY <2>1, <2>2 DEF Released, Larger
    <2>4. depth' = [depth EXCEPT ![v][d.stream] = new]
        BY <1>0, <1>4, <2>1
    <2> HIDE DEF new, cur
    <2> QED BY <1>0, <2>1, <2>3, <2>4 DEF DepthBound
<1>5. ASSUME NEW v \in Viewers, DropFull(v) PROVE ShapeInv' /\ DepthBound'
    <2>1. /\ depth' = [depth EXCEPT ![v][forwarding.datagram[1].stream] =
                            Released(@, forwarding.datagram[1])]
          /\ forwarding' = [forwarding EXCEPT !.reserved = {}]
          /\ UNCHANGED <<registered, channel, inHand, nextId>>
          /\ v \in forwarding.reserved
        BY <1>5 DEF DropFull
    <2>2. forwarding # Idle
        BY <2>1 DEF Idle
    <2>3. forwarding.datagram[1] \in Datagram /\ Len(forwarding.datagram) = 1
        BY <2>2, ForwardedDatagram DEF ShapeInv
    <2>4. /\ depth' \in [Viewers -> [Streams -> [packets : Nat, ms : Nat]]]
          /\ \A w \in Viewers, s \in Streams : depth'[w][s].ms <= Budget
        BY <1>4, <2>1, <2>3
    <2>5. /\ forwarding' \in Forwarding /\ forwarding'.datagram = forwarding.datagram
          /\ forwarding'.reserved = {}
        BY <1>0, <2>1 DEF Forwarding
    <2> QED BY <1>0, <2>1, <2>3, <2>4, <2>5 DEF ShapeInv, TypeOK, Forwarding, DepthBound
<1>6. CASE EndForward
    <2>1. forwarding' = Idle /\ UNCHANGED <<registered, channel, inHand, depth, nextId>>
        BY <1>6 DEF EndForward
    <2>2. Idle \in Forwarding /\ Idle.reserved = {}
        BY DEF Idle, Forwarding
    <2> QED BY <1>0, <2>1, <2>2 DEF ShapeInv, TypeOK, Forwarding, DepthBound
<1>7. ASSUME NEW v \in Viewers, Receive(v) PROVE ShapeInv' /\ DepthBound'
    <2>1. /\ inHand[v] = << >> /\ channel[v] # << >>
          /\ inHand' = [inHand EXCEPT ![v] = <<Head(channel[v])>>]
          /\ channel' = [channel EXCEPT ![v] = Tail(@)]
          /\ UNCHANGED <<registered, depth, forwarding, nextId>>
        BY <1>7 DEF Receive
    <2>2. /\ Head(channel[v]) \in Datagram /\ Tail(channel[v]) \in Seq(Datagram)
          /\ Len(Tail(channel[v])) = Len(channel[v]) - 1 /\ Len(channel[v]) \in Nat
          /\ Len(channel[v]) <= Capacity
        BY <1>0, <2>1, QueueElements DEF DepthBound
    <2>3. <<Head(channel[v])>> \in Seq(Datagram) /\ Len(<<Head(channel[v])>>) = 1
        BY <2>2
    <2>4. /\ channel' \in [Viewers -> Seq(Datagram)] /\ inHand' \in [Viewers -> Seq(Datagram)]
          /\ \A w \in Viewers : Len(channel'[w]) <= Capacity /\ Len(inHand'[w]) <= 1
        BY <1>0, <2>1, <2>2, <2>3 DEF ShapeInv, DepthBound
    <2> QED BY <1>0, <2>1, <2>4 DEF ShapeInv, TypeOK, Forwarding, DepthBound
<1>8. ASSUME NEW v \in Viewers, Send(v) PROVE ShapeInv' /\ DepthBound'
    <2>1. /\ inHand[v] # << >>
          /\ depth' = [depth EXCEPT ![v][inHand[v][1].stream] = Released(@, inHand[v][1])]
          /\ inHand' = [inHand EXCEPT ![v] = << >>]
          /\ UNCHANGED <<registered, channel, forwarding, nextId>>
        BY <1>8 DEF Send
    <2>2. inHand[v][1] \in Datagram
        BY <1>0, <2>1, QueueElements DEF ShapeInv
    <2>3. /\ depth' \in [Viewers -> [Streams -> [packets : Nat, ms : Nat]]]
          /\ \A w \in Viewers, s \in Streams : depth'[w][s].ms <= Budget
        BY <1>4, <2>1, <2>2
    <2>4. inHand' \in [Viewers -> Seq(Datagram)] /\ \A w \in Viewers : Len(inHand'[w]) <= 1
        BY <1>0, <2>1 DEF ShapeInv
    <2> QED BY <1>0, <2>1, <2>3, <2>4 DEF ShapeInv, TypeOK, Forwarding, DepthBound
<1>9. ASSUME NEW v \in Viewers, FreshEgress(v), registered' \subseteq Viewers
      PROVE  ShapeInv' /\ DepthBound'
    <2>1. /\ channel' = [channel EXCEPT ![v] = << >>]
          /\ inHand' = [inHand EXCEPT ![v] = << >>]
          /\ depth' = [depth EXCEPT ![v] = [s \in Streams |-> NoDepth]]
          /\ UNCHANGED <<forwarding, nextId>>
        BY <1>9 DEF FreshEgress
    <2>2. /\ channel' \in [Viewers -> Seq(Datagram)] /\ inHand' \in [Viewers -> Seq(Datagram)]
          /\ \A w \in Viewers : Len(channel'[w]) <= Capacity /\ Len(inHand'[w]) <= 1
        BY <1>0, <2>1 DEF ShapeInv, DepthBound
    <2>3. NoDepth \in [packets : Nat, ms : Nat] /\ NoDepth.ms <= Budget
        BY DEF NoDepth
    <2>4. /\ depth' \in [Viewers -> [Streams -> [packets : Nat, ms : Nat]]]
          /\ \A w \in Viewers, s \in Streams : depth'[w][s].ms <= Budget
        BY <1>0, <2>1, <2>3 DEF DepthBound
    <2> QED BY <1>0, <1>9, <2>1, <2>2, <2>4 DEF ShapeInv, TypeOK, Forwarding, DepthBound
<1>10. ASSUME NEW v \in Viewers, Register(v) \/ Unregister(v) PROVE ShapeInv' /\ DepthBound'
    BY <1>0, <1>9, <1>10 DEF Register, Unregister
<1>11. CASE UNCHANGED vars
    BY <1>0, <1>11 DEF vars, ShapeInv, TypeOK, Forwarding, DepthBound
<1> QED BY <1>1, <1>2, <1>3, <1>5, <1>6, <1>7, <1>8, <1>10, <1>11 DEF Next, Step, Drain

\* The specification without its fairness.
LEMMA SpecIsSafe ==
    Spec => Init /\ [][Next]_vars
BY PTL DEF Spec

\* It holds at the start.
LEMMA ShapeInit ==
    Init => ShapeInv /\ DepthBound
<1> USE EgressAssumption
<1> SUFFICES ASSUME Init PROVE ShapeInv /\ DepthBound
    OBVIOUS
<1>1. NoDepth \in [packets : Nat, ms : Nat] /\ NoDepth.ms <= Budget
    BY DEF NoDepth
<1>2. Idle \in Forwarding /\ Idle.reserved = {}
    BY DEF Idle, Forwarding
<1>3. \A v \in Viewers : channel[v] = << >> /\ inHand[v] = << >>
    BY DEF Init
<1>4. depth \in [Viewers -> [Streams -> [packets : Nat, ms : Nat]]]
    BY <1>1 DEF Init
<1>5. \A v \in Viewers, s \in Streams : depth[v][s].ms <= Budget
    BY <1>1 DEF Init
<1> QED BY <1>2, <1>3, <1>4, <1>5 DEF Init, ShapeInv, TypeOK, Forwarding, DepthBound

\* The types, with every datagram between 1 ms and the budget.
THEOREM TypesHold == Spec => []TypeOK
<1>1. ShapeInv /\ DepthBound /\ [Next]_vars => (ShapeInv /\ DepthBound)'
    BY ShapeStep
<1>2. ShapeInv => TypeOK
    BY DEF ShapeInv
<1> QED BY <1>1, <1>2, ShapeInit, SpecIsSafe, PTL

-----------------------------------------------------------------------------
(***************************************************************************)
(* The counts.  A viewer's datagrams are numbered in the order in which    *)
(* they are queued, so no two of them are the same and a set of them can   *)
(* be counted; with that the depths are the counts and sums of the set.    *)
(***************************************************************************)
Held(v) ==
    Elements(channel[v]) \cup Elements(inHand[v])
        \cup (IF v \in forwarding.reserved THEN Elements(forwarding.datagram) ELSE {})

\* The datagrams of a viewer are in order: in hand, in the channel, and the one
\* that is being forwarded after them all.
OrderInv(v) ==
    /\ \A i, j \in DOMAIN channel[v] : i < j => channel[v][i].id < channel[v][j].id
    /\ \A d \in Elements(inHand[v]), e \in Elements(channel[v]) : d.id < e.id
    /\ \A d \in Elements(channel[v]) \cup Elements(inHand[v]) :
           /\ d.id < nextId
           /\ v \in forwarding.audience \cup forwarding.reserved =>
                  d.id < forwarding.datagram[1].id

\* A set of datagrams and the depths that count it.
Counts(H, dep) ==
    /\ Weighted(H)
    /\ \A s \in Streams : dep[s] = [packets |-> Cardinality(Of(H, s)), ms |-> Sum(Of(H, s))]

CountInv(v) ==
    /\ Counts(Held(v), depth[v])
    /\ Cardinality(Held(v)) =
           Len(channel[v]) + Len(inHand[v]) + (IF v \in forwarding.reserved THEN 1 ELSE 0)

\* The datagram being forwarded has been numbered.
NumberInv == forwarding # Idle => forwarding.datagram[1].id < nextId

IInv ==
    /\ ShapeInv /\ DepthBound /\ NumberInv
    /\ \A v \in Viewers : OrderInv(v) /\ CountInv(v)

\* A reservation that does not saturate counts one datagram more.
LEMMA CountsAdd ==
    ASSUME NEW H, NEW dep \in [Streams -> [packets : Nat, ms : Nat]], Counts(H, dep),
           NEW d \in Datagram, d \notin H, NEW new,
           new = [dep EXCEPT ![d.stream] = [packets |-> dep[d.stream].packets + 1,
                                            ms |-> dep[d.stream].ms + d.ms]]
    PROVE  Counts(H \cup {d}, new) /\ Cardinality(H \cup {d}) = Cardinality(H) + 1
<1>1. d.stream \in Streams /\ d.ms \in Nat \ {0}
    BY EgressAssumption DEF Datagram
<1>2. /\ Weighted(H \cup {d})
      /\ Cardinality(H \cup {d}) = Cardinality(H) + 1
      /\ \A s : s # d.stream => Of(H \cup {d}, s) = Of(H, s)
      /\ Cardinality(Of(H \cup {d}, d.stream)) = Cardinality(Of(H, d.stream)) + 1
      /\ Sum(Of(H \cup {d}, d.stream)) = Sum(Of(H, d.stream)) + d.ms
    BY <1>1, OfAdds DEF Counts
<1>3. ASSUME NEW s \in Streams
      PROVE  new[s] = [packets |-> Cardinality(Of(H \cup {d}, s)), ms |-> Sum(Of(H \cup {d}, s))]
    <2>0. dep[s] = [packets |-> Cardinality(Of(H, s)), ms |-> Sum(Of(H, s))]
        BY DEF Counts
    <2>1. CASE s = d.stream
        <3>1. new[s] = [packets |-> dep[s].packets + 1, ms |-> dep[s].ms + d.ms]
            BY <1>1, <2>1
        <3> QED BY <1>2, <2>0, <2>1, <3>1
    <2>2. CASE s # d.stream
        <3>1. new[s] = dep[s]
            BY <1>1, <2>2
        <3> QED BY <1>2, <2>0, <2>2, <3>1
    <2> QED BY <2>1, <2>2
<1> QED BY <1>2, <1>3 DEF Counts

\* release_stream_depth gives back exactly what was reserved: its saturating
\* subtractions never meet zero.
LEMMA CountsDrop ==
    ASSUME NEW H, NEW dep \in [Streams -> [packets : Nat, ms : Nat]], Counts(H, dep),
           NEW d \in Datagram, d \in H, NEW new,
           new = [dep EXCEPT ![d.stream] = Released(dep[d.stream], d)]
    PROVE  Counts(H \ {d}, new) /\ Cardinality(H \ {d}) = Cardinality(H) - 1
<1>1. d.stream \in Streams /\ d.ms \in Nat \ {0}
    BY EgressAssumption DEF Datagram
<1>2. /\ Weighted(H \ {d})
      /\ Cardinality(H \ {d}) = Cardinality(H) - 1
      /\ \A s : s # d.stream => Of(H \ {d}, s) = Of(H, s)
      /\ Cardinality(Of(H, d.stream)) >= 1
      /\ Cardinality(Of(H \ {d}, d.stream)) = Cardinality(Of(H, d.stream)) - 1
      /\ Sum(Of(H, d.stream)) >= d.ms
      /\ Sum(Of(H \ {d}, d.stream)) = Sum(Of(H, d.stream)) - d.ms
    BY OfDrops DEF Counts
<1>3. ASSUME NEW s \in Streams
      PROVE  new[s] = [packets |-> Cardinality(Of(H \ {d}, s)), ms |-> Sum(Of(H \ {d}, s))]
    <2>0. dep[s] = [packets |-> Cardinality(Of(H, s)), ms |-> Sum(Of(H, s))]
        BY DEF Counts
    <2>1. CASE s = d.stream
        <3>1. new[s] = Released(dep[s], d)
            BY <1>1, <2>1
        <3>2. dep[s].packets = Cardinality(Of(H, s)) /\ dep[s].ms = Sum(Of(H, s))
            BY <2>0
        <3>3. dep[s].packets \in Nat /\ dep[s].ms \in Nat
            OBVIOUS
        <3>4. Larger(dep[s].packets - 1, 0) = dep[s].packets - 1 /\ Larger(dep[s].ms - d.ms, 0) = dep[s].ms - d.ms
            <4> DEFINE p == dep[s].packets
                       m == dep[s].ms
            <4>1. p \in Nat /\ p >= 1 /\ m \in Nat /\ m >= d.ms
                BY <1>2, <2>1, <3>2, <3>3
            <4> HIDE DEF p, m
            <4>2. Larger(p - 1, 0) = p - 1 /\ Larger(m - d.ms, 0) = m - d.ms
                BY <1>1, <4>1 DEF Larger
            <4> QED BY <4>2 DEF p, m
        <3> QED BY <1>2, <2>1, <3>1, <3>2, <3>4 DEF Released
    <2>2. CASE s # d.stream
        <3>1. new[s] = dep[s]
            BY <1>1, <2>2
        <3> QED BY <1>2, <2>0, <2>2, <3>1
    <2> QED BY <2>1, <2>2
<1> QED BY <1>2, <1>3 DEF Counts

\* An egress without datagrams.
LEMMA CountsNothing ==
    Counts({}, [s \in Streams |-> NoDepth]) /\ Cardinality({}) = 0
<1>1. Weighted({}) /\ Cardinality({}) = 0 /\ Sum({}) = 0
    BY FS_EmptySet, SumUnfolds DEF Weighted
<1>2. \A s : Of({}, s) = {}
    BY DEF Of
<1> QED BY <1>1, <1>2 DEF Counts, NoDepth

-----------------------------------------------------------------------------
\* The facts about a viewer that every step uses.
LEMMA ViewerFacts ==
    ASSUME IInv, NEW v \in Viewers
    PROVE  /\ channel[v] \in Seq(Datagram) /\ inHand[v] \in Seq(Datagram)
           /\ depth[v] \in [Streams -> [packets : Nat, ms : Nat]]
           /\ Len(channel[v]) \in Nat /\ Len(inHand[v]) \in Nat /\ Len(inHand[v]) <= 1
           /\ DOMAIN channel[v] = 1..Len(channel[v])
           /\ Elements(channel[v]) \subseteq Datagram /\ Elements(inHand[v]) \subseteq Datagram
           /\ OrderInv(v) /\ CountInv(v)
           /\ \A e \in Datagram : e.id \in Nat
<1>1. channel[v] \in Seq(Datagram) /\ inHand[v] \in Seq(Datagram)
    BY DEF IInv, ShapeInv, TypeOK
<1>2. depth[v] \in [Streams -> [packets : Nat, ms : Nat]]
    BY DEF IInv, ShapeInv, TypeOK
<1>3. \A e \in Datagram : e.id \in Nat
    BY DEF Datagram
<1>4. OrderInv(v) /\ CountInv(v) /\ Len(inHand[v]) <= 1
    BY DEF IInv, ShapeInv
<1>5. Elements(channel[v]) \subseteq Datagram /\ Elements(inHand[v]) \subseteq Datagram
    BY <1>1 DEF Elements
<1> QED BY <1>1, <1>2, <1>3, <1>4, <1>5

\* A step that leaves a viewer's queue and depths alone keeps its part of the
\* invariant, be it that a newer datagram is forwarded.
LEMMA ViewerUntouched ==
    ASSUME IInv, NEW v \in Viewers,
           channel'[v] = channel[v], inHand'[v] = inHand[v], depth'[v] = depth[v],
           nextId' \in Nat, nextId' >= nextId,
           v \in forwarding'.reserved <=> v \in forwarding.reserved,
           v \in forwarding.reserved => forwarding'.datagram = forwarding.datagram,
           v \in forwarding'.audience \cup forwarding'.reserved =>
               \/ /\ v \in forwarding.audience \cup forwarding.reserved
                  /\ forwarding'.datagram = forwarding.datagram
               \/ forwarding'.datagram[1].id = nextId
    PROVE  OrderInv(v)' /\ CountInv(v)'
<1>0. nextId \in Nat
    BY DEF IInv, ShapeInv, TypeOK
<1>1. Held(v)' = Held(v)
    BY DEF Held, Elements
<1>2. CountInv(v)'
    BY <1>1, ViewerFacts DEF CountInv, Counts
<1>3. Elements(channel[v])' = Elements(channel[v]) /\ Elements(inHand[v])' = Elements(inHand[v])
    BY DEF Elements
<1>4. ASSUME NEW d \in Elements(channel[v]) \cup Elements(inHand[v])
      PROVE  /\ d.id < nextId'
             /\ v \in forwarding'.audience \cup forwarding'.reserved =>
                  d.id < forwarding'.datagram[1].id
    <2>1. d.id \in Nat /\ d.id < nextId
        BY ViewerFacts DEF OrderInv
    <2>2. v \in forwarding.audience \cup forwarding.reserved => d.id < forwarding.datagram[1].id
        BY ViewerFacts DEF OrderInv
    <2> QED BY <1>0, <2>1, <2>2
<1>5. OrderInv(v)'
    BY <1>3, <1>4, ViewerFacts DEF OrderInv
<1> QED BY <1>2, <1>5

\* A new egress has nothing to count.
LEMMA ViewerFresh ==
    ASSUME NEW v \in Viewers, channel'[v] = << >>, inHand'[v] = << >>,
           depth'[v] = [s \in Streams |-> NoDepth], v \notin forwarding'.reserved
    PROVE  OrderInv(v)' /\ CountInv(v)'
<1>1. /\ Elements(channel[v])' = {} /\ Elements(inHand[v])' = {}
      /\ DOMAIN (channel'[v]) = {} /\ Len(channel'[v]) = 0 /\ Len(inHand'[v]) = 0
    BY DEF Elements
<1>2. Held(v)' = {}
    BY <1>1 DEF Held
<1>3. CountInv(v)'
    BY <1>1, <1>2, CountsNothing DEF CountInv
<1>4. OrderInv(v)'
    BY <1>1 DEF OrderInv
<1> QED BY <1>3, <1>4

\* While it is not saturated, a reservation is exact.
LEMMA ReserveStep ==
    ASSUME Budget < MaxU16, IInv, NEW v \in Viewers, Reserve(v)
    PROVE  \A w \in Viewers : OrderInv(w)' /\ CountInv(w)'
<1> DEFINE d == forwarding.datagram[1]
           cur == depth[v][d.stream]
           next == Smaller(cur.ms + d.ms, MaxU16)
<1>1. /\ UNCHANGED <<registered, channel, inHand, nextId>>
      /\ v \in forwarding.audience /\ forwarding.reserved = {} /\ forwarding # Idle
      /\ \/ /\ forwarding' = [forwarding EXCEPT !.audience = @ \ {v}]
            /\ UNCHANGED depth
         \/ /\ ~(next > Budget)
            /\ forwarding' = [forwarding EXCEPT !.audience = @ \ {v}, !.reserved = {v}]
            /\ depth' = [depth EXCEPT ![v][d.stream] =
                            [packets |-> cur.packets + 1, ms |-> next]]
    BY DEF Reserve
<1>2. d \in Datagram /\ Elements(forwarding.datagram) = {d}
    BY <1>1, ForwardedDatagram DEF IInv
<1>3. d.stream \in Streams /\ d.ms \in Nat
    BY <1>2, EgressAssumption DEF Datagram
<1>4. cur \in [packets : Nat, ms : Nat]
    BY <1>3, ViewerFacts
<1>5. forwarding \in Forwarding /\ nextId \in Nat /\ depth \in [Viewers -> [Streams -> [packets : Nat, ms : Nat]]]
    BY DEF IInv, ShapeInv, TypeOK
<1>6. ~(next > Budget) => next = cur.ms + d.ms
    <2> HIDE DEF cur, d
    <2>1. cur.ms \in Nat
        BY <1>4
    <2> QED BY <1>3, <2>1, EgressAssumption, LargestType DEF Smaller
<1> HIDE DEF next, cur, d
<1>7. CASE /\ forwarding' = [forwarding EXCEPT !.audience = @ \ {v}]
           /\ UNCHANGED depth
    <2>1. /\ forwarding'.reserved = {} /\ forwarding'.audience = forwarding.audience \ {v}
          /\ forwarding'.datagram = forwarding.datagram
        BY <1>1, <1>5, <1>7 DEF Forwarding
    <2> SUFFICES ASSUME NEW w \in Viewers PROVE OrderInv(w)' /\ CountInv(w)'
        OBVIOUS
    <2> QED BY <1>1, <1>5, <1>7, <2>1, ViewerUntouched
<1>8. CASE /\ ~(next > Budget)
           /\ forwarding' = [forwarding EXCEPT !.audience = @ \ {v}, !.reserved = {v}]
           /\ depth' = [depth EXCEPT ![v][d.stream] =
                            [packets |-> cur.packets + 1, ms |-> next]]
    <2>1. /\ forwarding'.reserved = {v} /\ forwarding'.audience = forwarding.audience \ {v}
          /\ forwarding'.datagram = forwarding.datagram
        BY <1>5, <1>8 DEF Forwarding
    <2>2. ASSUME NEW w \in Viewers, w # v PROVE OrderInv(w)' /\ CountInv(w)'
        <3>1. depth'[w] = depth[w]
            BY <1>5, <1>8, <2>2
        <3> QED BY <1>1, <1>5, <2>1, <2>2, <3>1, ViewerUntouched
    <2>3. OrderInv(v)'
        <3>1. Elements(channel[v])' = Elements(channel[v]) /\ Elements(inHand[v])' = Elements(inHand[v])
            BY <1>1 DEF Elements
        <3> QED BY <1>1, <2>1, <3>1, ViewerFacts DEF OrderInv
    <2>4. d \notin Held(v)
        <3>1. \A e \in Held(v) : e.id < d.id /\ e.id \in Nat
            BY <1>1, ViewerFacts DEF Held, OrderInv, d
        <3> QED BY <3>1
    <2>5. Held(v)' = Held(v) \cup {d}
        BY <1>1, <1>2, <2>1 DEF Held, Elements
    <2>6. /\ depth'[v] = [depth[v] EXCEPT ![d.stream] =
                            [packets |-> depth[v][d.stream].packets + 1,
                             ms |-> depth[v][d.stream].ms + d.ms]]
        BY <1>5, <1>6, <1>8 DEF cur
    <2>7. Counts(Held(v) \cup {d}, depth'[v]) /\ Cardinality(Held(v) \cup {d}) = Cardinality(Held(v)) + 1
        BY <1>2, <2>4, <2>6, ViewerFacts, CountsAdd DEF CountInv
    <2>8. Cardinality(Held(v)) = Len(channel[v]) + Len(inHand[v]) + 0
        BY <1>1, ViewerFacts DEF CountInv
    <2>9. CountInv(v)'
        <3>1. Cardinality(Held(v))' = Len(channel'[v]) + Len(inHand'[v]) + 1
            BY <1>1, <2>5, <2>7, <2>8, ViewerFacts
        <3>2. Counts(Held(v), depth[v])'
            BY <2>5, <2>7 DEF Counts
        <3> QED BY <2>1, <3>1, <3>2 DEF CountInv
    <2> QED BY <2>2, <2>3, <2>9
<1> QED BY <1>1, <1>7, <1>8

\* What holds while a viewer has a reservation.
LEMMA ReservedFacts ==
    ASSUME IInv, NEW v \in Viewers, v \in forwarding.reserved
    PROVE  LET d == forwarding.datagram[1]
           IN  /\ d \in Datagram /\ forwarding.reserved = {v} /\ v \notin forwarding.audience
               /\ d \in Held(v) /\ d \notin Elements(channel[v]) \cup Elements(inHand[v])
               /\ Held(v) = Elements(channel[v]) \cup Elements(inHand[v]) \cup {d}
               /\ \A e \in Elements(channel[v]) \cup Elements(inHand[v]) : e.id < d.id
               /\ Cardinality(Held(v)) = Len(channel[v]) + Len(inHand[v]) + 1
<1> DEFINE d == forwarding.datagram[1]
<1>1. forwarding # Idle
    BY DEF Idle
<1>2. d \in Datagram /\ Elements(forwarding.datagram) = {d}
    BY <1>1, ForwardedDatagram DEF IInv
<1>3. forwarding.reserved = {v} /\ v \notin forwarding.audience
    BY DEF IInv, ShapeInv
<1>4. \A e \in Elements(channel[v]) \cup Elements(inHand[v]) : e.id < d.id /\ e.id \in Nat
    BY ViewerFacts DEF OrderInv
<1>5. d \notin Elements(channel[v]) \cup Elements(inHand[v])
    BY <1>4
<1>6. Held(v) = Elements(channel[v]) \cup Elements(inHand[v]) \cup {d}
    BY <1>2 DEF Held
<1>7. Cardinality(Held(v)) = Len(channel[v]) + Len(inHand[v]) + 1
    BY ViewerFacts DEF CountInv
<1> QED BY <1>2, <1>3, <1>4, <1>5, <1>6, <1>7

\* Queueing moves the datagram from the forwarder to the channel.
LEMMA EnqueueStep ==
    ASSUME IInv, NEW v \in Viewers, Enqueue(v)
    PROVE  \A w \in Viewers : OrderInv(w)' /\ CountInv(w)'
<1> DEFINE d == forwarding.datagram[1]
           q == channel[v]
<1>1. /\ channel' = [channel EXCEPT ![v] = Append(@, d)]
      /\ forwarding' = [forwarding EXCEPT !.reserved = {}]
      /\ UNCHANGED <<registered, inHand, depth, nextId>>
      /\ v \in forwarding.reserved
    BY DEF Enqueue
<1>2. /\ d \in Datagram /\ forwarding.reserved = {v} /\ v \notin forwarding.audience
      /\ Held(v) = Elements(q) \cup Elements(inHand[v]) \cup {d}
      /\ \A e \in Elements(q) \cup Elements(inHand[v]) : e.id < d.id
      /\ Cardinality(Held(v)) = Len(q) + Len(inHand[v]) + 1
    BY <1>1, ReservedFacts
<1>3. /\ forwarding \in Forwarding /\ nextId \in Nat /\ channel \in [Viewers -> Seq(Datagram)]
    BY DEF IInv, ShapeInv, TypeOK
<1>4. /\ forwarding'.reserved = {} /\ forwarding'.audience = forwarding.audience
      /\ forwarding'.datagram = forwarding.datagram
    BY <1>1, <1>3 DEF Forwarding
<1>5. channel'[v] = Append(q, d) /\ \A w \in Viewers : w # v => channel'[w] = channel[w]
    BY <1>1, <1>3
<1>6. ASSUME NEW w \in Viewers, w # v PROVE OrderInv(w)' /\ CountInv(w)'
    BY <1>1, <1>2, <1>3, <1>4, <1>5, <1>6, ViewerUntouched
<1>7. d.id < nextId
    BY <1>1 DEF IInv, NumberInv, Idle
<1>8. Elements(channel[v])' = Elements(q) \cup {d} /\ Elements(inHand[v])' = Elements(inHand[v])
    <2>1. Elements(Append(q, d)) = Elements(q) \cup {d}
        BY <1>2, <1>3, QueueElements
    <2> QED BY <1>1, <1>5, <2>1 DEF Elements
<1>9. q \in Seq(Datagram)
    BY <1>3
<1> HIDE DEF d
<1>10. OrderInv(v)'
    <2>1. \A a, b \in DOMAIN (channel'[v]) : a < b => channel'[v][a].id < channel'[v][b].id
        <3> SUFFICES ASSUME NEW a \in 1..(Len(q) + 1), NEW b \in 1..(Len(q) + 1), a < b
                     PROVE  Append(q, d)[a].id < Append(q, d)[b].id
            BY <1>2, <1>5, <1>9
        <3>1. a \in 1..Len(q) /\ Append(q, d)[a] = q[a] /\ Len(q) \in Nat
            BY <1>2, <1>9
        <3>2. CASE b \in 1..Len(q)
            <4>1. Append(q, d)[b] = q[b]
                BY <1>2, <1>9, <3>2
            <4>2. q[a].id < q[b].id
                BY <3>1, <3>2, ViewerFacts DEF OrderInv
            <4> QED BY <3>1, <4>1, <4>2
        <3>3. CASE b \notin 1..Len(q)
            <4>1. b = Len(q) + 1
                BY <3>1, <3>3
            <4>2. Append(q, d)[b] = d
                BY <1>2, <1>9, <4>1
            <4>3. q[a] \in Elements(q)
                BY <1>9, <3>1 DEF Elements
            <4> QED BY <1>2, <3>1, <4>2, <4>3
        <3> QED BY <3>2, <3>3
    <2>2. \A x \in Elements(inHand[v]), e \in Elements(q) \cup {d} : x.id < e.id
        BY <1>2, ViewerFacts DEF OrderInv
    <2>3. \A x \in Elements(q) \cup {d} \cup Elements(inHand[v]) : x.id < nextId
        BY <1>7, ViewerFacts DEF OrderInv
    <2> QED BY <1>1, <1>2, <1>4, <1>8, <2>1, <2>2, <2>3 DEF OrderInv
<1>11. CountInv(v)'
    <2>1. Held(v)' = Held(v)
        BY <1>2, <1>4, <1>8 DEF Held
    <2>2. Len(channel'[v]) = Len(q) + 1 /\ Len(q) \in Nat /\ Len(inHand[v]) \in Nat
        BY <1>2, <1>5, <1>9, ViewerFacts
    <2>3. Cardinality(Held(v)) = Len(channel'[v]) + Len(inHand'[v]) + 0
        <3> DEFINE m == Len(inHand[v])
                   n == Len(q)
        <3>1. inHand'[v] = inHand[v]
            BY <1>1
        <3>2. m \in Nat /\ n \in Nat /\ Cardinality(Held(v)) = n + m + 1 /\ Len(channel'[v]) = n + 1
            BY <1>2, <2>2
        <3> HIDE DEF m, n
        <3>3. Cardinality(Held(v)) = (n + 1) + m + 0
            BY <3>2
        <3> QED BY <3>1, <3>2, <3>3 DEF m
    <2>4. Counts(Held(v), depth[v])'
        BY <1>1, <2>1, ViewerFacts DEF Counts, CountInv
    <2> QED BY <1>4, <2>1, <2>3, <2>4 DEF CountInv
<1> QED BY <1>6, <1>10, <1>11

\* A full channel: the reservation is given back.
LEMMA DropFullStep ==
    ASSUME IInv, NEW v \in Viewers, DropFull(v)
    PROVE  \A w \in Viewers : OrderInv(w)' /\ CountInv(w)'
<1> DEFINE d == forwarding.datagram[1]
<1>1. /\ depth' = [depth EXCEPT ![v][d.stream] = Released(@, d)]
      /\ forwarding' = [forwarding EXCEPT !.reserved = {}]
      /\ UNCHANGED <<registered, channel, inHand, nextId>>
      /\ v \in forwarding.reserved
    BY DEF DropFull
<1>2. /\ d \in Datagram /\ forwarding.reserved = {v} /\ v \notin forwarding.audience
      /\ d \in Held(v) /\ d \notin Elements(channel[v]) \cup Elements(inHand[v])
      /\ Held(v) = Elements(channel[v]) \cup Elements(inHand[v]) \cup {d}
      /\ Cardinality(Held(v)) = Len(channel[v]) + Len(inHand[v]) + 1
    BY <1>1, ReservedFacts
<1>3. /\ forwarding \in Forwarding /\ nextId \in Nat
      /\ depth \in [Viewers -> [Streams -> [packets : Nat, ms : Nat]]]
    BY DEF IInv, ShapeInv, TypeOK
<1>4. /\ forwarding'.reserved = {} /\ forwarding'.audience = forwarding.audience
      /\ forwarding'.datagram = forwarding.datagram
    BY <1>1, <1>3 DEF Forwarding
<1> HIDE DEF d
<1>5. d.stream \in Streams
    BY <1>2 DEF Datagram
<1>6. /\ depth'[v] = [depth[v] EXCEPT ![d.stream] = Released(depth[v][d.stream], d)]
      /\ \A w \in Viewers : w # v => depth'[w] = depth[w]
    BY <1>1, <1>3, <1>5
<1>7. ASSUME NEW w \in Viewers, w # v PROVE OrderInv(w)' /\ CountInv(w)'
    BY <1>1, <1>2, <1>3, <1>4, <1>6, <1>7, ViewerUntouched
<1>8. Elements(channel[v])' = Elements(channel[v]) /\ Elements(inHand[v])' = Elements(inHand[v])
    BY <1>1 DEF Elements
<1>9. OrderInv(v)'
    BY <1>1, <1>2, <1>4, <1>8, ViewerFacts DEF OrderInv
<1>10. CountInv(v)'
    <2>1. Held(v)' = Held(v) \ {d}
        BY <1>2, <1>4, <1>8 DEF Held
    <2>2. Counts(Held(v) \ {d}, depth'[v]) /\ Cardinality(Held(v) \ {d}) = Cardinality(Held(v)) - 1
        BY <1>2, <1>6, ViewerFacts, CountsDrop DEF CountInv
    <2>3. Counts(Held(v), depth[v])'
        BY <2>1, <2>2 DEF Counts
    <2>4. Cardinality(Held(v) \ {d}) = Len(channel'[v]) + Len(inHand'[v]) + 0
        BY <1>1, <1>2, <2>2, ViewerFacts
    <2> QED BY <1>4, <2>1, <2>3, <2>4 DEF CountInv
<1> QED BY <1>7, <1>9, <1>10

\* Receiving moves a datagram from the channel to the hand of the send task.
LEMMA ReceiveStep ==
    ASSUME IInv, NEW v \in Viewers, Receive(v)
    PROVE  \A w \in Viewers : OrderInv(w)' /\ CountInv(w)'
<1> DEFINE q == channel[v]
           d == Head(q)
<1>1. /\ inHand[v] = << >> /\ q # << >>
      /\ inHand' = [inHand EXCEPT ![v] = <<d>>]
      /\ channel' = [channel EXCEPT ![v] = Tail(@)]
      /\ UNCHANGED <<registered, depth, forwarding, nextId>>
    BY DEF Receive
<1>2. /\ nextId \in Nat /\ channel \in [Viewers -> Seq(Datagram)]
      /\ inHand \in [Viewers -> Seq(Datagram)]
    BY DEF IInv, ShapeInv, TypeOK
<1>3. /\ inHand'[v] = <<d>> /\ channel'[v] = Tail(q)
      /\ \A w \in Viewers : w # v => channel'[w] = channel[w] /\ inHand'[w] = inHand[w]
    BY <1>1, <1>2
<1>4. ASSUME NEW w \in Viewers, w # v PROVE OrderInv(w)' /\ CountInv(w)'
    BY <1>1, <1>2, <1>3, <1>4, ViewerUntouched
<1>5. /\ d \in Datagram /\ Elements(q) = {d} \cup Elements(Tail(q))
      /\ Tail(q) \in Seq(Datagram) /\ Len(Tail(q)) = Len(q) - 1 /\ Len(q) >= 1 /\ Len(q) \in Nat
      /\ Elements(<<d>>) = {d} /\ Elements(inHand[v]) = {}
    BY <1>1, <1>2, QueueElements
<1>6. /\ Elements(channel[v])' = Elements(Tail(q)) /\ Elements(inHand[v])' = {d}
    BY <1>3, <1>5 DEF Elements
<1>7. /\ q \in Seq(Datagram) /\ DOMAIN Tail(q) = 1..(Len(q) - 1) /\ DOMAIN q = 1..Len(q)
      /\ d = q[1] /\ \A k \in 1..(Len(q) - 1) : Tail(q)[k] = q[k + 1] /\ k + 1 \in 1..Len(q)
    BY <1>1, <1>2, <1>5
<1>8. \A a, b \in DOMAIN q : a < b => q[a].id < q[b].id
    BY ViewerFacts DEF OrderInv
<1>9. OrderInv(v)'
    <2>1. ASSUME NEW a \in 1..(Len(q) - 1), NEW b \in 1..(Len(q) - 1), a < b
          PROVE  Tail(q)[a].id < Tail(q)[b].id
        <3>1. a + 1 \in DOMAIN q /\ b + 1 \in DOMAIN q /\ a + 1 < b + 1
            BY <1>5, <1>7, <2>1
        <3> QED BY <1>7, <1>8, <3>1
    <2>2. ASSUME NEW e \in Elements(Tail(q)) PROVE d.id < e.id
        <3>1. PICK k \in 1..(Len(q) - 1) : e = q[k + 1]
            BY <1>7 DEF Elements
        <3>2. 1 \in DOMAIN q /\ k + 1 \in DOMAIN q /\ 1 < k + 1
            BY <1>5, <1>7
        <3> QED BY <1>7, <1>8, <3>1, <3>2
    <2>3. \A x \in Elements(Tail(q)) \cup {d} :
            /\ x.id < nextId
            /\ v \in forwarding.audience \cup forwarding.reserved => x.id < forwarding.datagram[1].id
        BY <1>5, ViewerFacts DEF OrderInv
    <2> QED BY <1>1, <1>3, <1>6, <1>7, <2>1, <2>2, <2>3 DEF OrderInv
<1>10. CountInv(v)'
    <2>1. Held(v)' = Held(v)
        BY <1>1, <1>5, <1>6 DEF Held
    <2>2. Len(channel'[v]) = Len(q) - 1 /\ Len(inHand'[v]) = 1 /\ Len(inHand[v]) = 0
        BY <1>1, <1>3, <1>5
    <2> DEFINE r == IF v \in forwarding.reserved THEN 1 ELSE 0
    <2>3. r \in Nat /\ Cardinality(Held(v)) = Len(q) + 0 + r
        BY <2>2, ViewerFacts DEF CountInv
    <2> HIDE DEF r
    <2>4. Cardinality(Held(v)) = Len(channel'[v]) + Len(inHand'[v]) + r
        BY <1>5, <2>2, <2>3
    <2>5. Counts(Held(v), depth[v])'
        BY <1>1, <2>1, ViewerFacts DEF Counts, CountInv
    <2> QED BY <1>1, <2>1, <2>4, <2>5 DEF CountInv, r
<1> QED BY <1>4, <1>9, <1>10

\* Sending gives the depth of the datagram in hand back.
LEMMA SendStep ==
    ASSUME IInv, NEW v \in Viewers, Send(v)
    PROVE  \A w \in Viewers : OrderInv(w)' /\ CountInv(w)'
<1> DEFINE d == inHand[v][1]
<1>1. /\ inHand[v] # << >>
      /\ depth' = [depth EXCEPT ![v][d.stream] = Released(@, d)]
      /\ inHand' = [inHand EXCEPT ![v] = << >>]
      /\ UNCHANGED <<registered, channel, forwarding, nextId>>
    BY DEF Send
<1>2. /\ nextId \in Nat /\ inHand \in [Viewers -> Seq(Datagram)]
      /\ depth \in [Viewers -> [Streams -> [packets : Nat, ms : Nat]]]
    BY DEF IInv, ShapeInv, TypeOK
<1>3. d \in Datagram /\ Elements(inHand[v]) = {d} /\ Len(inHand[v]) = 1
    BY <1>1, ViewerFacts, QueueElements
<1> HIDE DEF d
<1>4. d.stream \in Streams /\ d.id \in Nat
    BY <1>3 DEF Datagram
<1>5. /\ depth'[v] = [depth[v] EXCEPT ![d.stream] = Released(depth[v][d.stream], d)]
      /\ inHand'[v] = << >>
      /\ \A w \in Viewers : w # v => depth'[w] = depth[w] /\ inHand'[w] = inHand[w]
    BY <1>1, <1>2, <1>4
<1>6. ASSUME NEW w \in Viewers, w # v PROVE OrderInv(w)' /\ CountInv(w)'
    BY <1>1, <1>2, <1>5, <1>6, ViewerUntouched
<1>7. Elements(channel[v])' = Elements(channel[v]) /\ Elements(inHand[v])' = {}
    BY <1>1, <1>5 DEF Elements
<1>8. OrderInv(v)'
    BY <1>1, <1>7, ViewerFacts DEF OrderInv
<1>9. d \notin Elements(channel[v])
    BY <1>3, <1>4, ViewerFacts DEF OrderInv
<1>10. v \in forwarding.reserved => d \notin Elements(forwarding.datagram)
    <2> SUFFICES ASSUME v \in forwarding.reserved PROVE d \notin Elements(forwarding.datagram)
        OBVIOUS
    <2>1. forwarding # Idle
        BY DEF Idle
    <2>2. Elements(forwarding.datagram) = {forwarding.datagram[1]}
        BY <2>1, ForwardedDatagram DEF IInv
    <2>3. d.id < forwarding.datagram[1].id
        BY <1>3, ViewerFacts DEF OrderInv
    <2> QED BY <1>4, <2>2, <2>3
<1>11. CountInv(v)'
    <2>1. Held(v)' = Held(v) \ {d} /\ d \in Held(v)
        BY <1>1, <1>3, <1>7, <1>9, <1>10 DEF Held, Elements
    <2>2. Counts(Held(v) \ {d}, depth'[v]) /\ Cardinality(Held(v) \ {d}) = Cardinality(Held(v)) - 1
        BY <1>3, <1>5, <2>1, ViewerFacts, CountsDrop DEF CountInv
    <2> DEFINE r == IF v \in forwarding.reserved THEN 1 ELSE 0
    <2>3. r \in Nat /\ Cardinality(Held(v)) = Len(channel[v]) + 1 + r
        BY <1>3, ViewerFacts DEF CountInv
    <2> HIDE DEF r
    <2>4. Len(channel[v]) \in Nat /\ Len(inHand'[v]) = 0
        BY <1>5, ViewerFacts
    <2>5. Cardinality(Held(v) \ {d}) = Len(channel'[v]) + Len(inHand'[v]) + r
        <3> DEFINE c == Cardinality(Held(v))
                   n == Len(channel[v])
        <3>1. n \in Nat /\ c = n + 1 + r
            BY <2>3, <2>4
        <3> HIDE DEF c, n
        <3>2. c - 1 = n + 0 + r
            BY <2>3, <3>1
        <3>3. channel'[v] = channel[v]
            BY <1>1
        <3> QED BY <2>2, <2>4, <3>2, <3>3 DEF c, n
    <2>6. Counts(Held(v), depth[v])'
        BY <2>1, <2>2 DEF Counts
    <2> QED BY <1>1, <2>1, <2>5, <2>6 DEF CountInv, r
<1> QED BY <1>6, <1>8, <1>11

-----------------------------------------------------------------------------
\* Every step preserves the invariant, as long as the budget leaves room for the
\* sum that is compared with it.
LEMMA CountStep ==
    ASSUME Budget < MaxU16, IInv, [Next]_vars
    PROVE  IInv'
<1>0. ShapeInv' /\ DepthBound'
    BY ShapeStep DEF IInv
<1>1. /\ nextId \in Nat /\ forwarding \in Forwarding
      /\ channel \in [Viewers -> Seq(Datagram)] /\ inHand \in [Viewers -> Seq(Datagram)]
      /\ depth \in [Viewers -> [Streams -> [packets : Nat, ms : Nat]]]
    BY DEF IInv, ShapeInv, TypeOK
<1>2. ASSUME NEW s \in Streams, NEW ms \in Durations, NEW a \in SUBSET Viewers, Forward(s, ms, a)
      PROVE  NumberInv' /\ \A v \in Viewers : OrderInv(v)' /\ CountInv(v)'
    <2> DEFINE d == [id |-> nextId, stream |-> s, ms |-> ms]
    <2>1. /\ forwarding' = [datagram |-> <<d>>, audience |-> a \cap registered, reserved |-> {}]
          /\ nextId' = nextId + 1 /\ forwarding = Idle
          /\ UNCHANGED <<registered, channel, inHand, depth>>
        BY <1>2 DEF Forward
    <2>2. /\ forwarding'.datagram[1].id = nextId /\ forwarding'.reserved = {}
          /\ forwarding.reserved = {} /\ nextId' \in Nat /\ nextId' >= nextId /\ nextId < nextId'
        BY <1>1, <2>1 DEF Idle
    <2>3. NumberInv'
        BY <2>2 DEF NumberInv
    <2>4. ASSUME NEW v \in Viewers PROVE OrderInv(v)' /\ CountInv(v)'
        BY <2>1, <2>2, ViewerUntouched
    <2> QED BY <2>3, <2>4
<1>3. ASSUME NEW v \in Viewers, Reserve(v)
      PROVE  NumberInv' /\ \A w \in Viewers : OrderInv(w)' /\ CountInv(w)'
    <2>1. forwarding'.datagram = forwarding.datagram /\ nextId' = nextId /\ forwarding # Idle
        BY <1>1, <1>3 DEF Reserve, Forwarding
    <2> QED BY <1>3, <2>1, ReserveStep DEF NumberInv, IInv
<1>4. ASSUME NEW v \in Viewers, Enqueue(v) \/ DropFull(v)
      PROVE  NumberInv' /\ \A w \in Viewers : OrderInv(w)' /\ CountInv(w)'
    <2>1. forwarding'.datagram = forwarding.datagram /\ nextId' = nextId /\ forwarding # Idle
        BY <1>1, <1>4 DEF Enqueue, DropFull, Forwarding, Idle
    <2> QED BY <1>4, <2>1, EnqueueStep, DropFullStep DEF NumberInv, IInv
<1>5. ASSUME NEW v \in Viewers, Receive(v) \/ Send(v)
      PROVE  NumberInv' /\ \A w \in Viewers : OrderInv(w)' /\ CountInv(w)'
    <2>1. forwarding' = forwarding /\ nextId' = nextId
        BY <1>5 DEF Receive, Send
    <2> QED BY <1>5, <2>1, ReceiveStep, SendStep DEF NumberInv, IInv
<1>6. ASSUME EndForward
      PROVE  NumberInv' /\ \A w \in Viewers : OrderInv(w)' /\ CountInv(w)'
    <2>1. forwarding' = Idle /\ forwarding.reserved = {} /\ UNCHANGED <<registered, channel, inHand, depth, nextId>>
        BY <1>6 DEF EndForward
    <2>2. forwarding'.reserved = {} /\ forwarding'.audience = {}
        BY <2>1 DEF Idle
    <2>3. ASSUME NEW w \in Viewers PROVE OrderInv(w)' /\ CountInv(w)'
        BY <1>1, <2>1, <2>2, ViewerUntouched
    <2> QED BY <2>1, <2>3 DEF NumberInv
<1>7. ASSUME NEW v \in Viewers, Register(v) \/ Unregister(v)
      PROVE  NumberInv' /\ \A w \in Viewers : OrderInv(w)' /\ CountInv(w)'
    <2>1. /\ channel' = [channel EXCEPT ![v] = << >>]
          /\ inHand' = [inHand EXCEPT ![v] = << >>]
          /\ depth' = [depth EXCEPT ![v] = [s \in Streams |-> NoDepth]]
          /\ UNCHANGED <<forwarding, nextId>> /\ forwarding = Idle
        BY <1>7 DEF Register, Unregister, FreshEgress
    <2>2. forwarding.reserved = {} /\ forwarding.audience = {}
        BY <2>1 DEF Idle
    <2>3. OrderInv(v)' /\ CountInv(v)'
        BY <1>1, <2>1, <2>2, ViewerFresh
    <2>4. ASSUME NEW w \in Viewers, w # v PROVE OrderInv(w)' /\ CountInv(w)'
        BY <1>1, <2>1, <2>2, <2>4, ViewerUntouched
    <2> QED BY <2>1, <2>3, <2>4 DEF NumberInv
<1>8. ASSUME UNCHANGED vars
      PROVE  NumberInv' /\ \A w \in Viewers : OrderInv(w)' /\ CountInv(w)'
    <2>1. ASSUME NEW w \in Viewers PROVE OrderInv(w)' /\ CountInv(w)'
        BY <1>1, <1>8, ViewerUntouched DEF vars
    <2> QED BY <1>8, <2>1 DEF NumberInv, vars, IInv
<1>9. NumberInv' /\ \A w \in Viewers : OrderInv(w)' /\ CountInv(w)'
    BY <1>2, <1>3, <1>4, <1>5, <1>6, <1>7, <1>8 DEF Next, Step, Drain
<1> QED BY <1>0, <1>9 DEF IInv

\* The invariant holds at the start, when nothing is queued.
LEMMA CountInit == Init => IInv
<1> SUFFICES ASSUME Init PROVE IInv
    OBVIOUS
<1>1. NumberInv /\ forwarding.reserved = {}
    BY DEF Init, NumberInv, Idle
<1>2. ASSUME NEW v \in Viewers PROVE OrderInv(v) /\ CountInv(v)
    <2>1. channel[v] = << >> /\ inHand[v] = << >> /\ depth[v] = [s \in Streams |-> NoDepth]
        BY DEF Init
    <2>2. Elements(channel[v]) = {} /\ Elements(inHand[v]) = {} /\ DOMAIN channel[v] = {}
          /\ Len(channel[v]) = 0 /\ Len(inHand[v]) = 0
        BY <2>1 DEF Elements
    <2>3. Held(v) = {}
        BY <1>1, <2>2 DEF Held
    <2> QED BY <1>1, <2>1, <2>2, <2>3, CountsNothing DEF OrderInv, CountInv
<1> QED BY <1>1, <1>2, ShapeInit DEF IInv

\* The invariant holds in every state.
LEMMA CountsHold ==
    ASSUME Budget < MaxU16
    PROVE  Spec => []IInv
<1>1. IInv /\ [Next]_vars => IInv'
    BY CountStep
<1> QED BY <1>1, CountInit, SpecIsSafe, PTL

\* What the invariant says of the depths.
LEMMA ExactDepths == IInv => DepthIsExact
<1> SUFFICES ASSUME IInv, NEW v \in Viewers, NEW s \in Streams
             PROVE  /\ depth[v][s].packets = Cardinality(Outstanding(v, s))
                    /\ depth[v][s].ms = MapThenSumSet(LAMBDA d : d.ms, Outstanding(v, s))
    BY DEF DepthIsExact
<1>1. Outstanding(v, s) = Of(Held(v), s)
    BY DEF Outstanding, Held, Of
<1>2. depth[v][s] = [packets |-> Cardinality(Of(Held(v), s)), ms |-> Sum(Of(Held(v), s))]
    BY ViewerFacts DEF CountInv, Counts
<1>3. depth[v][s].packets = Cardinality(Of(Held(v), s)) /\ depth[v][s].ms = Sum(Of(Held(v), s))
    BY <1>2
<1>4. Sum(Of(Held(v), s)) = MapThenSumSet(LAMBDA d : d.ms, Of(Held(v), s))
    BY DEF Sum
<1> QED BY <1>1, <1>3, <1>4

\* The depth a viewer's egress keeps of a stream is exactly what the viewer has
\* queued, in hand or reserved of it, whatever the interleaving of the forwarder
\* with the send tasks.  The budget must be less than the largest u16: at 65535
\* the saturating sum never exceeds it, is accepted and loses what it cut off.
THEOREM DepthsAreExact ==
    ASSUME Budget < MaxU16
    PROVE  Spec => []DepthIsExact
BY CountsHold, ExactDepths, PTL

\* The datagrams a slow viewer holds of a stream never stand for more than the budget,
\* and its channel never exceeds its capacity: the depth is bounded, and it counts the
\* datagrams.  At a budget of 65535 it does not, and nothing but the channel bounds them.
THEOREM QueuesStayBounded ==
    ASSUME Budget < MaxU16
    PROVE  Spec => []QueuesAreBounded
<1>1. DepthIsExact /\ DepthBound => QueuesAreBounded
    BY DEF DepthIsExact, DepthBound, QueuesAreBounded
<1>2. IInv => DepthBound
    BY DEF IInv
<1> QED BY <1>1, <1>2, CountsHold, ExactDepths, PTL

\* Of one stream a viewer holds at most as many datagrams as the budget has
\* milliseconds, and the others are of the other streams.
LEMMA OthersHeld ==
    ASSUME IInv, NEW v \in Viewers, NEW s \in Streams, Held(v) \subseteq Datagram
    PROVE  LET O == UNION {Outstanding(v, t) : t \in Streams \ {s}}
           IN  /\ Cardinality(O) \in Nat /\ Cardinality(Held(v)) \in Nat
               /\ Cardinality(O) >= Cardinality(Held(v)) - Budget
<1>0. Budget \in Nat
    BY EgressAssumption
<1> DEFINE O == UNION {Outstanding(v, t) : t \in Streams \ {s}}
           H == Held(v)
           P == Of(H, s)
<1>1. O = H \ P
    <2>1. \A t : Outstanding(v, t) = Of(H, t)
        BY DEF Outstanding, Held, Of
    <2>2. \A d \in H : d.stream \in Streams
        BY DEF Datagram
    <2> HIDE DEF H
    <2> QED BY <2>1, <2>2 DEF Of
<1>2. Weighted(H) /\ depth[v][s] = [packets |-> Cardinality(P), ms |-> Sum(P)]
    BY ViewerFacts DEF CountInv, Counts
<1>3. depth[v][s].ms <= Budget
    BY DEF IInv, DepthBound
<1> HIDE DEF H
<1>4. PICK c \in Nat, m \in Nat : c = Cardinality(P) /\ m = Sum(P) /\ c <= m
    BY <1>2, OfType
<1>5. m <= Budget
    BY <1>2, <1>3, <1>4
<1>6. P \subseteq H /\ H \cap P = P
    BY DEF Of
<1>7. IsFiniteSet(H \ P) /\ Cardinality(H \ P) = Cardinality(H) - c
    <2> HIDE DEF P
    <2>1. IsFiniteSet(H)
        BY <1>2 DEF Weighted
    <2>2. Cardinality(H \ P) = Cardinality(H) - Cardinality(H \cap P) /\ IsFiniteSet(H \ P)
        BY <2>1, FS_Difference
    <2> QED BY <1>4, <1>6, <2>2
<1>8. Cardinality(H) \in Nat /\ Cardinality(H \ P) \in Nat
    BY <1>2, <1>7, FS_CardinalityType DEF Weighted
<1> HIDE DEF O, P
<1>9. Cardinality(O) >= Cardinality(H) - Budget
    BY <1>0, <1>1, <1>4, <1>5, <1>7, <1>8
<1> QED BY <1>1, <1>8, <1>9 DEF O, H

\* When try_send meets a full channel, all of the channel but a budget is taken by
\* other streams of the viewer than the datagram's: a stream that is backed up is
\* stopped by its own budget first.
THEOREM CrowdedOutOnlyByOthers ==
    ASSUME Budget < MaxU16
    PROVE  Spec => []CrowdedOutByOthers
<1>1. IInv => CrowdedOutByOthers
    <2> DEFINE s == forwarding.datagram[1].stream
    <2> SUFFICES ASSUME IInv, NEW v \in forwarding.reserved, Len(channel[v]) >= Capacity
                 PROVE  Cardinality(UNION {Outstanding(v, t) : t \in Streams \ {s}})
                            > Capacity - Budget
        BY DEF CrowdedOutByOthers
    <2>1. v \in Viewers /\ Budget \in Nat /\ Capacity \in Nat
        BY EgressAssumption DEF IInv, ShapeInv, TypeOK
    <2>2. s \in Streams /\ Held(v) \subseteq Datagram
        <3> DEFINE d == forwarding.datagram[1]
        <3>1. d \in Datagram /\ Held(v) = Elements(channel[v]) \cup Elements(inHand[v]) \cup {d}
            BY <2>1, ReservedFacts
        <3>2. Elements(channel[v]) \subseteq Datagram /\ Elements(inHand[v]) \subseteq Datagram
            BY <2>1, ViewerFacts
        <3>3. d.stream \in Streams
            BY <3>1 DEF Datagram
        <3> QED BY <3>1, <3>2, <3>3
    <2> HIDE DEF s
    <2> DEFINE o == Cardinality(UNION {Outstanding(v, t) : t \in Streams \ {s}})
               h == Cardinality(Held(v))
    <2>3. h > Capacity
        <3>1. PICK m \in Nat, n \in Nat : m = Len(channel[v]) /\ n = Len(inHand[v])
            BY <2>1, ViewerFacts
        <3>2. h = m + n + 1 /\ m >= Capacity
            BY <2>1, <3>1, ReservedFacts
        <3> HIDE DEF h
        <3> QED BY <2>1, <3>2
    <2>4. o \in Nat /\ h \in Nat /\ o >= h - Budget
        BY <2>1, <2>2, OthersHeld
    <2> HIDE DEF o, h
    <2>5. o > Capacity - Budget
        BY <2>1, <2>3, <2>4
    <2> QED BY <2>5 DEF o
<1> QED BY <1>1, CountsHold, PTL

=============================================================================
