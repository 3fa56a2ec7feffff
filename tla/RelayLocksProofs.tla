-------------------------- MODULE RelayLocksProofs --------------------------
(***************************************************************************)
(* The order of the relay's locks, for any number of connections and       *)
(* control tasks: whatever waits for a lock holds only lower ones.         *)
(***************************************************************************)
EXTENDS RelayLocks, TLAPS

-----------------------------------------------------------------------------
(***************************************************************************)
(* Programs of lock operations.                                            *)
(***************************************************************************)
Op == [op : {"acquire", "release"}, lock : Locks]

Takes(ops, i, l) == ops[i].op = "acquire" /\ ops[i].lock = l
Gives(ops, i, l) == ops[i].op = "release" /\ ops[i].lock = l

\* The lock is given back at j without having been taken between i and j.
GivesHeld(ops, i, j, l) == Gives(ops, j, l) /\ \A m \in i..(j - 1) : ~Takes(ops, m, l)

\* Whoever has these operations left holds the lock.
Owes(ops, l) == \E j \in 1..Len(ops) : GivesHeld(ops, 1, j, l)

\* What is taken is given back, once, ...
GivesBack(ops) ==
    \A i \in 1..Len(ops), l \in Locks : Takes(ops, i, l) =>
        \E j \in (i + 1)..Len(ops) : GivesHeld(ops, i + 1, j, l)
GivesOnce(ops) ==
    \A i \in 1..Len(ops), j \in 1..Len(ops), l \in Locks :
        i < j /\ Gives(ops, i, l) => ~GivesHeld(ops, i + 1, j, l)
\* ... and below it are only locks of lower rank.
Climbs(ops) ==
    \A i \in 1..Len(ops), j \in 1..Len(ops), l \in Locks, k \in Locks :
        i < j /\ Takes(ops, i, l) /\ GivesHeld(ops, i, j, k) => Rank(k) < Rank(l)

Disciplined(ops) == ops \in Seq(Op) /\ GivesBack(ops) /\ GivesOnce(ops) /\ Climbs(ops)

\* A program that begins without locks.
Complete(ops) == Disciplined(ops) /\ \A l \in Locks : ~Owes(ops, l)

\* Every lock it takes is above rank r.
Above(ops, r) == \A i \in 1..Len(ops) : Rank(ops[i].lock) > r

\* The rank of a lock is a number.
LEMMA RankType == \A l \in Locks : Rank(l) \in Nat
BY DEF Rank

\* The empty program.
LEMMA EmptyIsComplete == Complete(<< >>) /\ \A r : Above(<< >>, r)
<1>1. << >> \in Seq(Op) /\ 1..Len(<< >>) = {}
    OBVIOUS
<1> QED BY <1>1 DEF Complete, Disciplined, GivesBack, GivesOnce, Climbs, Owes, Above

\* One program after the other.
LEMMA ConcatIsComplete ==
    ASSUME NEW a, Complete(a), NEW b, Complete(b)
    PROVE  Complete(a \o b)
<1>1. PICK n \in Nat, k \in Nat : n = Len(a) /\ k = Len(b)
    BY DEF Complete, Disciplined
<1>2. PICK s : s = a \o b
    OBVIOUS
<1>3. /\ s \in Seq(Op) /\ Len(s) = n + k
      /\ \A i \in 1..n : s[i] = a[i]
      /\ \A i \in 1..k : s[n + i] = b[i]
    <2>1. a \in Seq(Op) /\ b \in Seq(Op)
        BY DEF Complete, Disciplined
    <2> QED BY <1>1, <1>2, <2>1
<1>4. \A i \in 1..n, l \in Locks : /\ Takes(s, i, l) <=> Takes(a, i, l)
                                   /\ Gives(s, i, l) <=> Gives(a, i, l)
    BY <1>3 DEF Takes, Gives
<1>5. \A i \in 1..k, l \in Locks : /\ Takes(s, n + i, l) <=> Takes(b, i, l)
                                   /\ Gives(s, n + i, l) <=> Gives(b, i, l)
    BY <1>3 DEF Takes, Gives
<1>6. \A i \in 1..(n + 1), j \in 1..n, l \in Locks : GivesHeld(s, i, j, l) <=> GivesHeld(a, i, j, l)
    <2> SUFFICES ASSUME NEW i \in 1..(n + 1), NEW j \in 1..n, NEW l \in Locks
                 PROVE  GivesHeld(s, i, j, l) <=> GivesHeld(a, i, j, l)
        OBVIOUS
    <2>1. \A m \in i..(j - 1) : m \in 1..n
        OBVIOUS
    <2> QED BY <1>4, <2>1 DEF GivesHeld
<1>7. \A i \in 1..(k + 1), j \in 1..k, l \in Locks :
        GivesHeld(s, n + i, n + j, l) <=> GivesHeld(b, i, j, l)
    <2> SUFFICES ASSUME NEW i \in 1..(k + 1), NEW j \in 1..k, NEW l \in Locks
                 PROVE  GivesHeld(s, n + i, n + j, l) <=> GivesHeld(b, i, j, l)
        OBVIOUS
    <2>1. \A m \in i..(j - 1) : m \in 1..k /\ n + m \in (n + i)..(n + j - 1)
        OBVIOUS
    <2>2. \A m \in (n + i)..(n + j - 1) : m - n \in i..(j - 1) /\ m = n + (m - n)
        OBVIOUS
    <2>3. (\A m \in (n + i)..(n + j - 1) : ~Takes(s, m, l)) <=> (\A m \in i..(j - 1) : ~Takes(b, m, l))
        BY <1>5, <2>1, <2>2
    <2> QED BY <1>5, <2>3 DEF GivesHeld
<1>8. ASSUME NEW i \in 1..(n + 1), NEW j \in 1..k, NEW l \in Locks PROVE ~GivesHeld(s, i, n + j, l)
    <2> SUFFICES ASSUME GivesHeld(s, i, n + j, l) PROVE FALSE
        OBVIOUS
    <2>1. GivesHeld(s, n + 1, n + j, l)
        BY DEF GivesHeld
    <2>2. GivesHeld(b, 1, j, l)
        BY <1>7, <2>1
    <2> QED BY <1>1, <2>2 DEF Complete, Owes
<1>9. ASSUME NEW i \in 1..(n + k) PROVE i \in 1..n \/ \E j \in 1..k : i = n + j
    <2>1. i > n => i - n \in 1..k /\ i = n + (i - n)
        OBVIOUS
    <2> QED BY <2>1
<1>10. GivesBack(s)
    <2> SUFFICES ASSUME NEW i \in 1..(n + k), NEW l \in Locks, Takes(s, i, l)
                 PROVE  \E j \in (i + 1)..(n + k) : GivesHeld(s, i + 1, j, l)
        BY <1>3 DEF GivesBack
    <2>1. CASE i \in 1..n
        <3>1. PICK j \in (i + 1)..n : GivesHeld(a, i + 1, j, l)
            BY <1>1, <1>4, <2>1 DEF Complete, Disciplined, GivesBack
        <3>2. j \in (i + 1)..(n + k) /\ j \in 1..n /\ i + 1 \in 1..(n + 1)
            BY <2>1
        <3> QED BY <1>6, <3>1, <3>2
    <2>2. ASSUME NEW h \in 1..k, i = n + h PROVE \E j \in (i + 1)..(n + k) : GivesHeld(s, i + 1, j, l)
        <3>1. PICK j \in (h + 1)..k : GivesHeld(b, h + 1, j, l)
            BY <1>1, <1>5, <2>2 DEF Complete, Disciplined, GivesBack
        <3>2. n + j \in (i + 1)..(n + k) /\ n + (h + 1) = i + 1 /\ j \in 1..k /\ h + 1 \in 1..(k + 1)
            BY <2>2
        <3>3. GivesHeld(s, n + (h + 1), n + j, l)
            BY <1>7, <3>1, <3>2
        <3> QED BY <3>2, <3>3
    <2> QED BY <1>9, <2>1, <2>2
<1>11. GivesOnce(s)
    <2> SUFFICES ASSUME NEW i \in 1..(n + k), NEW j \in 1..(n + k), NEW l \in Locks, i < j,
                        Gives(s, i, l), GivesHeld(s, i + 1, j, l)
                 PROVE  FALSE
        BY <1>3 DEF GivesOnce
    <2>1. CASE j \in 1..n
        <3>1. i \in 1..n /\ i + 1 \in 1..(n + 1)
            BY <2>1
        <3>2. Gives(a, i, l) /\ GivesHeld(a, i + 1, j, l)
            BY <1>4, <1>6, <2>1, <3>1
        <3> QED BY <1>1, <2>1, <3>1, <3>2 DEF Complete, Disciplined, GivesOnce
    <2>2. ASSUME NEW g \in 1..k, j = n + g PROVE FALSE
        <3>1. CASE i \in 1..n
            BY <1>8, <2>2, <3>1
        <3>2. ASSUME NEW h \in 1..k, i = n + h PROVE FALSE
            <4>1. h < g /\ n + (h + 1) = i + 1 /\ h + 1 \in 1..(k + 1)
                BY <2>2, <3>2
            <4>2. GivesHeld(s, n + (h + 1), n + g, l)
                BY <2>2, <4>1
            <4>3. Gives(b, h, l) /\ GivesHeld(b, h + 1, g, l)
                BY <1>5, <1>7, <3>2, <4>1, <4>2
            <4> QED BY <1>1, <4>1, <4>3 DEF Complete, Disciplined, GivesOnce
        <3> QED BY <1>9, <3>1, <3>2
    <2> QED BY <1>9, <2>1, <2>2
<1>12. Climbs(s)
    <2> SUFFICES ASSUME NEW i \in 1..(n + k), NEW j \in 1..(n + k), NEW l \in Locks, NEW x \in Locks, i < j,
                        Takes(s, i, l), GivesHeld(s, i, j, x)
                 PROVE  Rank(x) < Rank(l)
        BY <1>3 DEF Climbs
    <2>1. CASE j \in 1..n
        <3>1. i \in 1..n /\ i \in 1..(n + 1)
            BY <2>1
        <3>2. Takes(a, i, l) /\ GivesHeld(a, i, j, x)
            BY <1>4, <1>6, <2>1, <3>1
        <3> QED BY <1>1, <2>1, <3>1, <3>2 DEF Complete, Disciplined, Climbs
    <2>2. ASSUME NEW g \in 1..k, j = n + g PROVE Rank(x) < Rank(l)
        <3>1. CASE i \in 1..n
            <4>1. i \in 1..(n + 1)
                BY <3>1
            <4> QED BY <1>8, <2>2, <4>1
        <3>2. ASSUME NEW h \in 1..k, i = n + h PROVE Rank(x) < Rank(l)
            <4>1. h < g /\ h \in 1..(k + 1)
                BY <2>2, <3>2
            <4>2. Takes(b, h, l) /\ GivesHeld(b, h, g, x)
                BY <1>5, <1>7, <2>2, <3>2, <4>1
            <4> QED BY <1>1, <4>1, <4>2 DEF Complete, Disciplined, Climbs
        <3> QED BY <1>9, <3>1, <3>2
    <2> QED BY <1>9, <2>1, <2>2
<1>13. ASSUME NEW l \in Locks, Owes(s, l) PROVE FALSE
    <2>1. PICK j \in 1..(n + k) : GivesHeld(s, 1, j, l)
        BY <1>3, <1>13 DEF Owes
    <2>2. 1 \in 1..(n + 1)
        OBVIOUS
    <2>3. CASE j \in 1..n
        <3>1. GivesHeld(a, 1, j, l)
            BY <1>6, <2>1, <2>2, <2>3
        <3> QED BY <1>1, <2>3, <3>1 DEF Complete, Owes
    <2>4. ASSUME NEW g \in 1..k, j = n + g PROVE FALSE
        BY <1>8, <2>1, <2>2, <2>4
    <2> QED BY <1>9, <2>3, <2>4
<1> QED BY <1>2, <1>3, <1>10, <1>11, <1>12, <1>13 DEF Complete, Disciplined

\* What is above r stays so together.
LEMMA ConcatIsAbove ==
    ASSUME NEW a \in Seq(Op), NEW b \in Seq(Op), NEW r, Above(a, r), Above(b, r)
    PROVE  Above(a \o b, r)
<1> SUFFICES ASSUME NEW i \in 1..Len(a \o b) PROVE Rank((a \o b)[i].lock) > r
    BY DEF Above
<1>1. Len(a \o b) = Len(a) + Len(b)
    OBVIOUS
<1>2. CASE i <= Len(a)
    <2>1. i \in 1..Len(a) /\ (a \o b)[i] = a[i]
        BY <1>1, <1>2
    <2> QED BY <2>1 DEF Above
<1>3. CASE i > Len(a)
    <2>1. i - Len(a) \in 1..Len(b) /\ (a \o b)[i] = b[i - Len(a)]
        BY <1>1, <1>3
    <2> QED BY <2>1 DEF Above
<1> QED BY <1>1, <1>2, <1>3

\* A program under a lock of lower rank.
LEMMA WithinIsComplete ==
    ASSUME NEW l \in Locks, NEW a, Complete(a), Above(a, Rank(l))
    PROVE  Complete(Within(l, a))
<1>1. PICK n \in Nat : n = Len(a)
    BY DEF Complete, Disciplined
<1>2. PICK s : s = Within(l, a)
    OBVIOUS
<1>3. /\ s \in Seq(Op) /\ Len(s) = n + 2
      /\ s[1] = Acquire(l) /\ s[n + 2] = Release(l)
      /\ \A i \in 1..n : s[i + 1] = a[i]
    <2>1. a \in Seq(Op) /\ Acquire(l) \in Op /\ Release(l) \in Op
        BY DEF Complete, Disciplined, Op, Acquire, Release
    <2>2. PICK x, y : x = Acquire(l) /\ y = Release(l)
        OBVIOUS
    <2>3. s = (<<x>> \o a) \o <<y>>
        BY <1>2, <2>2 DEF Within
    <2>4. PICK u \in Seq(Op) : u = <<x>> \o a /\ Len(u) = n + 1 /\ u[1] = x /\ \A i \in 1..n : u[i + 1] = a[i]
        <3>1. PICK u : u = <<x>> \o a
            OBVIOUS
        <3>2. u \in Seq(Op) /\ Len(u) = n + 1 /\ u[1] = x /\ \A i \in 1..n : u[i + 1] = a[i]
            BY <1>1, <2>1, <2>2, <3>1
        <3> QED BY <3>1, <3>2
    <2>5. /\ s \in Seq(Op) /\ Len(s) = n + 2 /\ s[n + 2] = y
          /\ \A i \in 1..(n + 1) : s[i] = u[i]
        BY <2>1, <2>2, <2>3, <2>4, SMTT(30)
    <2>6. 1 \in 1..(n + 1) /\ \A i \in 1..n : i + 1 \in 1..(n + 1)
        OBVIOUS
    <2> QED BY <2>2, <2>4, <2>5, <2>6
<1>4. \A x \in Locks : /\ Takes(s, 1, x) <=> x = l
                       /\ ~Gives(s, 1, x)
                       /\ Gives(s, n + 2, x) <=> x = l
                       /\ ~Takes(s, n + 2, x)
    BY <1>3 DEF Takes, Gives, Acquire, Release
<1>5. \A i \in 1..n, x \in Locks : /\ Takes(s, i + 1, x) <=> Takes(a, i, x)
                                   /\ Gives(s, i + 1, x) <=> Gives(a, i, x)
    BY <1>3 DEF Takes, Gives
<1>6. ASSUME NEW i \in 1..n, NEW x \in Locks, Takes(a, i, x) \/ Gives(a, i, x)
      PROVE  x # l /\ Rank(l) < Rank(x)
    BY <1>1, <1>6, RankType DEF Takes, Gives, Above
<1>7. \A i \in 1..(n + 1), j \in 1..n, x \in Locks :
        GivesHeld(s, i + 1, j + 1, x) <=> GivesHeld(a, i, j, x)
    <2> SUFFICES ASSUME NEW i \in 1..(n + 1), NEW j \in 1..n, NEW x \in Locks
                 PROVE  GivesHeld(s, i + 1, j + 1, x) <=> GivesHeld(a, i, j, x)
        OBVIOUS
    <2>1. \A m \in i..(j - 1) : m \in 1..n /\ m + 1 \in (i + 1)..(j + 1 - 1)
        OBVIOUS
    <2>2. \A m \in (i + 1)..(j + 1 - 1) : m - 1 \in i..(j - 1) /\ m = (m - 1) + 1
        OBVIOUS
    <2>3. (\A m \in (i + 1)..(j + 1 - 1) : ~Takes(s, m, x)) <=> (\A m \in i..(j - 1) : ~Takes(a, m, x))
        BY <1>5, <2>1, <2>2
    <2> QED BY <1>5, <2>3 DEF GivesHeld
<1>8. ASSUME NEW j \in 1..n, NEW x \in Locks PROVE ~GivesHeld(s, 1, j + 1, x) /\ ~GivesHeld(s, 2, j + 1, x)
    <2>1. ~GivesHeld(a, 1, j, x)
        BY <1>1 DEF Complete, Owes
    <2>2. ~GivesHeld(s, 1 + 1, j + 1, x)
        BY <1>7, <2>1
    <2> QED BY <2>2 DEF GivesHeld
<1>9. ASSUME NEW i \in 1..(n + 2) PROVE i = 1 \/ i = n + 2 \/ \E h \in 1..n : i = h + 1
    <2>1. i # 1 /\ i # n + 2 => i - 1 \in 1..n /\ i = (i - 1) + 1
        OBVIOUS
    <2> QED BY <2>1
<1>10. GivesBack(s)
    <2> SUFFICES ASSUME NEW i \in 1..(n + 2), NEW x \in Locks, Takes(s, i, x)
                 PROVE  \E j \in (i + 1)..(n + 2) : GivesHeld(s, i + 1, j, x)
        BY <1>3 DEF GivesBack
    <2>1. CASE i = 1
        <3>1. x = l /\ Gives(s, n + 2, x)
            BY <1>4, <2>1
        <3>2. ASSUME NEW m \in 2..(n + 2 - 1) PROVE ~Takes(s, m, x)
            <4>1. PICK h \in 1..n : m = h + 1
                BY <1>9
            <4> QED BY <1>5, <1>6, <3>1, <4>1
        <3> QED BY <2>1, <3>1, <3>2 DEF GivesHeld
    <2>2. ASSUME NEW h \in 1..n, i = h + 1 PROVE \E j \in (i + 1)..(n + 2) : GivesHeld(s, i + 1, j, x)
        <3>1. PICK j \in (h + 1)..n : GivesHeld(a, h + 1, j, x)
            BY <1>1, <1>5, <2>2 DEF Complete, Disciplined, GivesBack
        <3>2. j + 1 \in (i + 1)..(n + 2) /\ (h + 1) + 1 = i + 1 /\ j \in 1..n /\ h + 1 \in 1..(n + 1)
            BY <2>2
        <3>3. GivesHeld(s, (h + 1) + 1, j + 1, x)
            BY <1>7, <3>1, <3>2
        <3> QED BY <3>2, <3>3
    <2>3. i # n + 2
        BY <1>4
    <2> QED BY <1>9, <2>1, <2>2, <2>3
<1>11. GivesOnce(s)
    <2> SUFFICES ASSUME NEW i \in 1..(n + 2), NEW j \in 1..(n + 2), NEW x \in Locks, i < j,
                        Gives(s, i, x), GivesHeld(s, i + 1, j, x)
                 PROVE  FALSE
        BY <1>3 DEF GivesOnce
    <2>1. PICK h \in 1..n : i = h + 1
        BY <1>4, <1>9
    <2>2. Gives(a, h, x)
        BY <1>5, <2>1
    <2>3. j # n + 2
        BY <1>4, <1>6, <2>2 DEF GivesHeld
    <2>4. PICK g \in 1..n : j = g + 1
        BY <1>9, <2>1, <2>3
    <2>5. h < g /\ (h + 1) + 1 = i + 1 /\ h + 1 \in 1..(n + 1)
        BY <2>1, <2>4
    <2>6. GivesHeld(s, (h + 1) + 1, g + 1, x)
        BY <2>4, <2>5
    <2>7. GivesHeld(a, h + 1, g, x)
        BY <1>7, <2>5, <2>6
    <2> QED BY <1>1, <2>2, <2>5, <2>7 DEF Complete, Disciplined, GivesOnce
<1>12. Climbs(s)
    <2> SUFFICES ASSUME NEW i \in 1..(n + 2), NEW j \in 1..(n + 2), NEW x \in Locks, NEW y \in Locks, i < j,
                        Takes(s, i, x), GivesHeld(s, i, j, y)
                 PROVE  Rank(y) < Rank(x)
        BY <1>3 DEF Climbs
    <2>1. CASE i = 1
        <3>1. CASE j = n + 2
            <4>1. x = l /\ y = l /\ 1 \in i..(j - 1)
                BY <1>4, <2>1, <3>1 DEF GivesHeld
            <4> QED BY <1>4, <4>1 DEF GivesHeld
        <3>2. ASSUME NEW g \in 1..n, j = g + 1 PROVE FALSE
            BY <1>8, <2>1, <3>2
        <3> QED BY <1>9, <2>1, <3>1, <3>2
    <2>2. ASSUME NEW h \in 1..n, i = h + 1 PROVE Rank(y) < Rank(x)
        <3>0. Takes(a, h, x)
            BY <1>5, <2>2
        <3>1. CASE j = n + 2
            <4>1. y = l
                BY <1>4, <3>1 DEF GivesHeld
            <4> QED BY <1>6, <3>0, <4>1
        <3>2. ASSUME NEW g \in 1..n, j = g + 1 PROVE Rank(y) < Rank(x)
            <4>1. h < g /\ h \in 1..(n + 1)
                BY <2>2, <3>2
            <4>2. GivesHeld(a, h, g, y)
                BY <1>7, <2>2, <3>2, <4>1
            <4> QED BY <1>1, <3>0, <4>1, <4>2 DEF Complete, Disciplined, Climbs
        <3> QED BY <1>9, <2>2, <3>1, <3>2
    <2>3. i # n + 2
        OBVIOUS
    <2> QED BY <1>9, <2>1, <2>2, <2>3
<1>13. ASSUME NEW x \in Locks, Owes(s, x) PROVE FALSE
    <2>1. PICK j \in 1..(n + 2) : GivesHeld(s, 1, j, x)
        BY <1>3, <1>13 DEF Owes
    <2>2. j # 1
        BY <1>4, <2>1 DEF GivesHeld
    <2>3. j # n + 2
        <3>1. 1 \in 1..(n + 2 - 1)
            OBVIOUS
        <3> QED BY <1>4, <2>1, <3>1 DEF GivesHeld
    <2> QED BY <1>8, <1>9, <2>1, <2>2, <2>3
<1> QED BY <1>2, <1>3, <1>10, <1>11, <1>12, <1>13 DEF Complete, Disciplined

\* A program above r, under a lock above r.
LEMMA WithinIsAbove ==
    ASSUME NEW l \in Locks, NEW a \in Seq(Op), NEW r \in Nat, Above(a, r), r < Rank(l)
    PROVE  Within(l, a) \in Seq(Op) /\ Above(Within(l, a), r)
<1>1. Acquire(l) \in Op /\ Release(l) \in Op /\ Acquire(l).lock = l /\ Release(l).lock = l
    BY DEF Op, Acquire, Release
<1>2. PICK x \in Op, y \in Op : x = Acquire(l) /\ y = Release(l) /\ x.lock = l /\ y.lock = l
    BY <1>1
<1>3. PICK xs \in Seq(Op), ys \in Seq(Op) : xs = <<x>> /\ ys = <<y>> /\ Above(xs, r) /\ Above(ys, r)
    <2>1. <<x>> \in Seq(Op) /\ Above(<<x>>, r)
        BY <1>2, RankType DEF Above
    <2>2. <<y>> \in Seq(Op) /\ Above(<<y>>, r)
        BY <1>2, RankType DEF Above
    <2> QED BY <2>1, <2>2
<1>4. PICK u \in Seq(Op) : u = xs \o a /\ Above(u, r)
    <2>1. Above(xs, r)
        BY <1>3
    <2>2. Above(xs \o a, r)
        BY <2>1, ConcatIsAbove
    <2>3. xs \o a \in Seq(Op)
        OBVIOUS
    <2> QED BY <2>2, <2>3
<1>5. Above(u \o ys, r) /\ u \o ys \in Seq(Op)
    <2>1. Above(u, r) /\ Above(ys, r)
        BY <1>3, <1>4
    <2>2. Above(u \o ys, r)
        BY <2>1, ConcatIsAbove
    <2>3. u \o ys \in Seq(Op)
        OBVIOUS
    <2> QED BY <2>2, <2>3
<1> QED BY <1>2, <1>3, <1>4, <1>5 DEF Within

\* Everything the relay does is such a program.
LEMMA ProgramsAreComplete ==
    ASSUME NEW c \in Connections
    PROVE  \A ops \in {PlainRequest(c), MetricsRequest(c), HelloRequest(c), Datagram(c), Cleanup(c)} :
              Complete(ops)
<1>1. /\ c \in Locks /\ StateLock \in Locks /\ MediaLock \in Locks
      /\ Rank(c) = 1 /\ Rank(StateLock) = 2 /\ Rank(MediaLock) = 3
    BY LockAssumption DEF Locks, Rank
<1>3. Complete(<< >>) /\ << >> \in Seq(Op) /\ \A r : Above(<< >>, r)
    BY EmptyIsComplete
<1>4. PICK none : none = << >>
    OBVIOUS
<1>5. PICK one : one = Within(c, none) /\ Complete(one)
    BY <1>1, <1>3, <1>4, WithinIsComplete
<1>6. PICK media : media = Within(MediaLock, none) /\ Complete(media) /\ media \in Seq(Op)
                      /\ Above(media, 1) /\ Above(media, 2)
    <2>1. Complete(Within(MediaLock, none))
        BY <1>1, <1>3, <1>4, WithinIsComplete
    <2>2. none \in Seq(Op) /\ Above(none, 1) /\ Above(none, 2) /\ 1 < Rank(MediaLock) /\ 2 < Rank(MediaLock)
        BY <1>1, <1>3, <1>4
    <2>3. Within(MediaLock, none) \in Seq(Op) /\ Above(Within(MediaLock, none), 1) /\ Above(Within(MediaLock, none), 2)
        BY <1>1, <2>2, WithinIsAbove
    <2> QED BY <2>1, <2>3
<1>7. PICK state : state = Within(StateLock, none) /\ Complete(state) /\ state \in Seq(Op) /\ Above(state, 1)
    <2>1. Complete(Within(StateLock, none))
        BY <1>1, <1>3, <1>4, WithinIsComplete
    <2>2. none \in Seq(Op) /\ Above(none, 1) /\ 1 < Rank(StateLock)
        BY <1>1, <1>3, <1>4
    <2>3. Within(StateLock, none) \in Seq(Op) /\ Above(Within(StateLock, none), 1)
        BY <1>1, <2>2, WithinIsAbove
    <2> QED BY <2>1, <2>3
<1>8. PICK both : both = Within(StateLock, media) /\ Complete(both) /\ both \in Seq(Op) /\ Above(both, 1)
    <2>1. Complete(Within(StateLock, media))
        BY <1>1, <1>6, WithinIsComplete
    <2>2. 1 < Rank(StateLock)
        BY <1>1
    <2>3. Within(StateLock, media) \in Seq(Op) /\ Above(Within(StateLock, media), 1)
        BY <1>1, <1>6, <2>2, WithinIsAbove
    <2> QED BY <2>1, <2>3
<1>9. PICK plain : plain = Within(c, state) /\ Complete(plain)
    BY <1>1, <1>7, WithinIsComplete
<1>10. PICK twice : twice = state \o both /\ Complete(twice) /\ Above(twice, 1)
    BY <1>7, <1>8, ConcatIsComplete, ConcatIsAbove
<1>11. Complete(Within(c, twice))
    BY <1>1, <1>10, WithinIsComplete
<1>12. Complete(plain \o one \o media)
    BY <1>5, <1>6, <1>9, ConcatIsComplete
<1>13. Complete(one \o both)
    BY <1>5, <1>8, ConcatIsComplete
<1>14. Complete(one \o media \o state)
    BY <1>5, <1>6, <1>7, ConcatIsComplete
<1>15. PlainRequest(c) = plain
    BY <1>4, <1>7, <1>9 DEF PlainRequest
<1>16. MetricsRequest(c) = Within(c, twice)
    BY <1>4, <1>6, <1>7, <1>8, <1>10 DEF MetricsRequest
<1>17. HelloRequest(c) = plain \o one \o media
    BY <1>4, <1>5, <1>6, <1>15 DEF HelloRequest
<1>18. Datagram(c) = one \o both
    BY <1>4, <1>5, <1>6, <1>8 DEF Datagram
<1>19. Cleanup(c) = one \o media \o state
    BY <1>4, <1>5, <1>6, <1>7 DEF Cleanup
<1> QED BY <1>9, <1>11, <1>12, <1>13, <1>14, <1>15, <1>16, <1>17, <1>18, <1>19

\* The rest of a program after its first operation.
LEMMA Rest ==
    ASSUME NEW s, Disciplined(s), s # << >>
    PROVE  /\ Disciplined(Tail(s))
           /\ s[1] = Head(s) /\ s[1] \in Op
           /\ \A l \in Locks :
                 /\ Takes(s, 1, l) => ~Owes(s, l)
                 /\ Gives(s, 1, l) => Owes(s, l)
                 /\ Owes(Tail(s), l) <=> Takes(s, 1, l) \/ (Owes(s, l) /\ ~Gives(s, 1, l))
<1>1. PICK n \in Nat : Len(s) = n + 1 /\ s \in Seq(Op) /\ s[1] = Head(s) /\ s[1] \in Op
    <2>1. s \in Seq(Op)
        BY DEF Disciplined
    <2>2. Len(s) \in Nat /\ Len(s) # 0 /\ s[1] = Head(s) /\ s[1] \in Op
        BY <2>1
    <2>3. Len(s) - 1 \in Nat /\ Len(s) = (Len(s) - 1) + 1
        BY <2>2
    <2> QED BY <2>1, <2>2, <2>3
<1>2. PICK t : t = Tail(s)
    OBVIOUS
<1>3. t \in Seq(Op) /\ Len(t) = n /\ \A i \in 1..n : t[i] = s[i + 1]
    BY <1>1, <1>2
<1>4. \A i \in 1..n, l \in Locks : /\ Takes(s, i + 1, l) <=> Takes(t, i, l)
                                   /\ Gives(s, i + 1, l) <=> Gives(t, i, l)
    BY <1>3 DEF Takes, Gives
<1>5. \A i \in 1..(n + 1), j \in 1..n, l \in Locks :
        GivesHeld(s, i + 1, j + 1, l) <=> GivesHeld(t, i, j, l)
    <2> SUFFICES ASSUME NEW i \in 1..(n + 1), NEW j \in 1..n, NEW l \in Locks
                 PROVE  GivesHeld(s, i + 1, j + 1, l) <=> GivesHeld(t, i, j, l)
        OBVIOUS
    <2>1. \A m \in i..(j - 1) : m \in 1..n /\ m + 1 \in (i + 1)..(j + 1 - 1)
        OBVIOUS
    <2>2. \A m \in (i + 1)..(j + 1 - 1) : m - 1 \in i..(j - 1) /\ m = (m - 1) + 1
        OBVIOUS
    <2>3. (\A m \in (i + 1)..(j + 1 - 1) : ~Takes(s, m, l)) <=> (\A m \in i..(j - 1) : ~Takes(t, m, l))
        BY <1>4, <2>1, <2>2
    <2> QED BY <1>4, <2>3 DEF GivesHeld
<1>6. GivesBack(t)
    <2> SUFFICES ASSUME NEW i \in 1..n, NEW l \in Locks, Takes(t, i, l)
                 PROVE  \E j \in (i + 1)..n : GivesHeld(t, i + 1, j, l)
        BY <1>3 DEF GivesBack
    <2>1. PICK j \in (i + 1 + 1)..(n + 1) : GivesHeld(s, i + 1 + 1, j, l)
        <3>1. i + 1 \in 1..Len(s) /\ Takes(s, i + 1, l)
            BY <1>1, <1>4
        <3> QED BY <1>1, <3>1 DEF Disciplined, GivesBack
    <2>2. PICK h \in (i + 1)..n : j = h + 1
        <3>1. j - 1 \in (i + 1)..n /\ j = (j - 1) + 1
            OBVIOUS
        <3> QED BY <3>1
    <2>3. i + 1 \in 1..(n + 1) /\ h \in 1..n
        OBVIOUS
    <2> QED BY <1>5, <2>1, <2>2, <2>3
<1>7. GivesOnce(t)
    <2> SUFFICES ASSUME NEW i \in 1..n, NEW j \in 1..n, NEW l \in Locks, i < j,
                        Gives(t, i, l), GivesHeld(t, i + 1, j, l)
                 PROVE  FALSE
        BY <1>3 DEF GivesOnce
    <2>1. i + 1 \in 1..(n + 1) /\ j + 1 \in 1..(n + 1) /\ i + 1 < j + 1
        OBVIOUS
    <2>2. Gives(s, i + 1, l) /\ GivesHeld(s, (i + 1) + 1, j + 1, l)
        BY <1>4, <1>5, <2>1
    <2> QED BY <1>1, <2>1, <2>2 DEF Disciplined, GivesOnce
<1>8. Climbs(t)
    <2> SUFFICES ASSUME NEW i \in 1..n, NEW j \in 1..n, NEW l \in Locks, NEW k \in Locks, i < j,
                        Takes(t, i, l), GivesHeld(t, i, j, k)
                 PROVE  Rank(k) < Rank(l)
        BY <1>3 DEF Climbs
    <2>1. i \in 1..(n + 1) /\ i + 1 \in 1..(n + 1) /\ j + 1 \in 1..(n + 1) /\ i + 1 < j + 1
        OBVIOUS
    <2>2. Takes(s, i + 1, l) /\ GivesHeld(s, i + 1, j + 1, k)
        BY <1>4, <1>5, <2>1
    <2> QED BY <1>1, <2>1, <2>2 DEF Disciplined, Climbs
<1>9. ASSUME NEW l \in Locks
      PROVE  /\ Takes(s, 1, l) => ~Owes(s, l)
             /\ Gives(s, 1, l) => Owes(s, l)
             /\ Owes(Tail(s), l) <=> Takes(s, 1, l) \/ (Owes(s, l) /\ ~Gives(s, 1, l))
    <2>1. Owes(t, l) <=> \E j \in 1..n : GivesHeld(s, 2, j + 1, l)
        <3>1. 1 \in 1..(n + 1) /\ 1 + 1 = 2
            OBVIOUS
        <3>2. \A j \in 1..n : GivesHeld(s, 1 + 1, j + 1, l) <=> GivesHeld(t, 1, j, l)
            BY <1>5, <3>1
        <3> QED BY <1>3, <3>1, <3>2 DEF Owes
    <2>2. ASSUME NEW j \in 1..n
          PROVE  GivesHeld(s, 1, j + 1, l) <=> GivesHeld(s, 2, j + 1, l) /\ ~Takes(s, 1, l)
        <3>1. \A m \in 1..(j + 1 - 1) : m = 1 \/ m \in 2..(j + 1 - 1)
            OBVIOUS
        <3>2. 1 \in 1..(j + 1 - 1) /\ \A m \in 2..(j + 1 - 1) : m \in 1..(j + 1 - 1)
            OBVIOUS
        <3> QED BY <3>1, <3>2 DEF GivesHeld
    <2>3. GivesHeld(s, 1, 1, l) <=> Gives(s, 1, l)
        BY DEF GivesHeld
    <2>4. Owes(s, l) <=> Gives(s, 1, l) \/ \E j \in 1..n : GivesHeld(s, 1, j + 1, l)
        <3>1. \A i \in 1..(n + 1) : i = 1 \/ (i - 1 \in 1..n /\ i = (i - 1) + 1)
            OBVIOUS
        <3>2. 1 \in 1..(n + 1) /\ \A j \in 1..n : j + 1 \in 1..(n + 1)
            OBVIOUS
        <3> QED BY <1>1, <2>3, <3>1, <3>2 DEF Owes
    <2>5. ~(Takes(s, 1, l) /\ Gives(s, 1, l))
        BY DEF Takes, Gives
    <2>6. Takes(s, 1, l) => \E j \in 1..n : GivesHeld(s, 2, j + 1, l)
        <3> SUFFICES ASSUME Takes(s, 1, l) PROVE \E j \in 1..n : GivesHeld(s, 2, j + 1, l)
            OBVIOUS
        <3>1. 1 \in 1..(n + 1)
            OBVIOUS
        <3>2. PICK i \in (1 + 1)..(n + 1) : GivesHeld(s, 1 + 1, i, l)
            BY <1>1, <3>1 DEF Disciplined, GivesBack
        <3>3. i - 1 \in 1..n /\ i = (i - 1) + 1 /\ 1 + 1 = 2
            OBVIOUS
        <3> QED BY <3>2, <3>3
    <2>7. Gives(s, 1, l) => ~\E j \in 1..n : GivesHeld(s, 2, j + 1, l)
        <3> SUFFICES ASSUME Gives(s, 1, l), NEW j \in 1..n, GivesHeld(s, 2, j + 1, l) PROVE FALSE
            OBVIOUS
        <3>1. 1 \in 1..(n + 1) /\ j + 1 \in 1..(n + 1) /\ 1 < j + 1 /\ 1 + 1 = 2
            OBVIOUS
        <3>2. GivesHeld(s, 1 + 1, j + 1, l)
            BY <3>1
        <3> QED BY <1>1, <3>1, <3>2 DEF Disciplined, GivesOnce
    <2> QED BY <1>2, <2>1, <2>2, <2>4, <2>5, <2>6, <2>7
<1> QED BY <1>1, <1>2, <1>3, <1>6, <1>7, <1>8, <1>9 DEF Disciplined

-----------------------------------------------------------------------------
(***************************************************************************)
(* The state: what a process has left to do tells which locks it holds.    *)
(***************************************************************************)
TypeInv == todo \in [Procs -> Seq(Op)] /\ queue \in [Locks -> Seq(Procs)]

ProgramInv == \A t \in Procs : Disciplined(todo[t])

\* Nobody is twice in a queue, ...
OnceInv ==
    \A l \in Locks : \A i, j \in 1..Len(queue[l]) : queue[l][i] = queue[l][j] => i = j

\* ... the first is who has to give the lock back, ...
HolderInv == \A t \in Procs, l \in Locks : Owes(todo[t], l) => Holds(t, l)

\* ... or is about to notice that it has it, and all others are waiting.
QueueInv ==
    \A l \in Locks : \A i \in 1..Len(queue[l]) :
        \/ i = 1 /\ Owes(todo[queue[l][i]], l)
        \/ todo[queue[l][i]] # << >> /\ Takes(todo[queue[l][i]], 1, l)

LockInv == TypeInv /\ ProgramInv /\ OnceInv /\ HolderInv /\ QueueInv

\* The invariant holds at the start.
LEMMA LockInit == Init => LockInv
<1> SUFFICES ASSUME Init PROVE LockInv
    OBVIOUS
<1>1. /\ \A t \in Procs : todo[t] = << >>
      /\ \A l \in Locks : queue[l] = << >>
    BY DEF Init
<1>2. TypeInv
    BY DEF Init, TypeInv
<1>3. Disciplined(<< >>) /\ \A l \in Locks : ~Owes(<< >>, l)
    BY EmptyIsComplete DEF Complete
<1>4. \A l \in Locks : 1..Len(queue[l]) = {}
    BY <1>1
<1> QED BY <1>1, <1>2, <1>3, <1>4 DEF LockInv, ProgramInv, OnceInv, HolderInv, QueueInv

\* Beginning a program.
LEMMA StartKeeps ==
    ASSUME LockInv, NEW t \in Procs, NEW ops, Complete(ops), Start(t, ops)
    PROVE  LockInv'
<1>1. todo[t] = << >> /\ todo' = [todo EXCEPT ![t] = ops] /\ queue' = queue
    BY DEF Start
<1>2. /\ todo \in [Procs -> Seq(Op)] /\ queue \in [Locks -> Seq(Procs)] /\ ops \in Seq(Op)
    BY DEF LockInv, TypeInv, Complete, Disciplined
<1>3. todo'[t] = ops /\ \A u \in Procs : u # t => todo'[u] = todo[u]
    BY <1>1, <1>2
<1>4. TypeInv' /\ OnceInv'
    BY <1>1, <1>2 DEF LockInv, TypeInv, OnceInv
<1>5. ProgramInv' /\ HolderInv'
    BY <1>1, <1>3 DEF LockInv, ProgramInv, HolderInv, Complete, Holds
<1>6. QueueInv'
    <2> SUFFICES ASSUME NEW l \in Locks, NEW i \in 1..Len(queue[l])
                 PROVE  \/ i = 1 /\ Owes(todo'[queue[l][i]], l)
                        \/ todo'[queue[l][i]] # << >> /\ Takes(todo'[queue[l][i]], 1, l)
        BY <1>1 DEF QueueInv
    <2>1. queue[l][i] \in Procs
        BY <1>2
    <2>2. ~Owes(<< >>, l)
        BY EmptyIsComplete DEF Complete
    <2>3. queue[l][i] # t
        BY <1>1, <2>2 DEF LockInv, QueueInv
    <2> QED BY <1>3, <2>1, <2>3 DEF LockInv, QueueInv
<1> QED BY <1>4, <1>5, <1>6 DEF LockInv

\* Asking for a lock.
LEMMA AskKeeps ==
    ASSUME LockInv, NEW t \in Procs, Ask(t)
    PROVE  LockInv'
<1>1. PICK s \in Seq(Op) : s = todo[t] /\ s # << >> /\ Disciplined(s)
    BY DEF LockInv, TypeInv, ProgramInv, Ask
<1>2. PICK l \in Locks : l = Head(s).lock /\ Takes(s, 1, l)
    BY <1>1, Rest DEF Ask, Op, Takes
<1>3. PICK q \in Seq(Procs) : q = queue[l]
    BY DEF LockInv, TypeInv
<1>4. /\ ~InQueue(t, l)
      /\ queue' = [queue EXCEPT ![l] = Append(q, t)]
      /\ todo' = [todo EXCEPT ![t] = IF q = << >> THEN Tail(s) ELSE s]
    BY <1>1, <1>2, <1>3 DEF Ask
<1>5. PICK p : p = Append(q, t) /\ p \in Seq(Procs)
    <2>1. Append(q, t) \in Seq(Procs)
        OBVIOUS
    <2> QED BY <2>1
<1>6. PICK r : r = (IF q = << >> THEN Tail(s) ELSE s) /\ r \in Seq(Op)
    <2>1. Tail(s) \in Seq(Op)
        BY <1>1
    <2> QED BY <2>1
<1>7. /\ todo \in [Procs -> Seq(Op)] /\ queue \in [Locks -> Seq(Procs)]
    BY DEF LockInv, TypeInv
<1>8. /\ todo' \in [Procs -> Seq(Op)] /\ todo'[t] = r
      /\ \A u \in Procs : u # t => todo'[u] = todo[u]
      /\ queue' \in [Locks -> Seq(Procs)] /\ queue'[l] = p
      /\ \A k \in Locks : k # l => queue'[k] = queue[k]
    BY <1>4, <1>5, <1>6, <1>7
<1>9. PICK n \in Nat : n = Len(q)
    OBVIOUS
<1>10. Len(p) = n + 1 /\ p[n + 1] = t /\ \A i \in 1..n : p[i] = q[i]
    BY <1>5, <1>9
<1>11. \A i \in 1..n : q[i] # t /\ q[i] \in Procs
    BY <1>3, <1>4, <1>9 DEF InQueue
<1>12. TypeInv'
    BY <1>8 DEF TypeInv
<1>13. Disciplined(r)
    BY <1>1, <1>6, Rest
<1>14. ProgramInv'
    BY <1>8, <1>13 DEF LockInv, ProgramInv
<1>15. OnceInv'
    <2> SUFFICES ASSUME NEW k \in Locks, NEW i \in 1..Len(queue'[k]), NEW j \in 1..Len(queue'[k]),
                        queue'[k][i] = queue'[k][j]
                 PROVE  i = j
        BY DEF OnceInv
    <2>1. CASE k # l
        BY <1>8, <2>1 DEF LockInv, OnceInv
    <2>2. CASE k = l
        <3>1. i \in 1..(n + 1) /\ j \in 1..(n + 1) /\ p[i] = p[j]
            BY <1>8, <1>10, <2>2
        <3>2. CASE i \in 1..n /\ j \in 1..n
            BY <1>3, <1>9, <1>10, <3>1, <3>2 DEF LockInv, OnceInv
        <3>3. CASE ~(i \in 1..n /\ j \in 1..n)
            <4>1. i = n + 1 \/ j = n + 1
                BY <3>1, <3>3
            <4> QED BY <1>10, <1>11, <3>1, <4>1
        <3> QED BY <3>2, <3>3
    <2> QED BY <2>1, <2>2
<1>16. HolderInv'
    <2> SUFFICES ASSUME NEW u \in Procs, NEW k \in Locks, Owes(todo'[u], k)
                 PROVE  queue'[k] # << >> /\ Head(queue'[k]) = u
        BY DEF HolderInv, Holds
    <2>1. ASSUME Owes(todo[u], k) PROVE queue'[k] # << >> /\ Head(queue'[k]) = u
        <3>1. queue[k] # << >> /\ Head(queue[k]) = u
            BY <2>1 DEF LockInv, HolderInv, Holds
        <3>2. CASE k # l
            BY <1>8, <3>1, <3>2
        <3>3. CASE k = l
            <4>1. n # 0 /\ q[1] = u
                BY <1>3, <1>9, <3>1, <3>3
            <4>2. 1 \in 1..n /\ p # << >>
                BY <1>9, <1>10, <4>1
            <4>3. p[1] = u
                BY <1>10, <4>1, <4>2
            <4>4. Head(p) = u
                BY <1>5, <4>2, <4>3
            <4> QED BY <1>8, <3>3, <4>2, <4>4
        <3> QED BY <3>2, <3>3
    <2>2. CASE u # t
        BY <1>8, <2>1, <2>2
    <2>3. CASE u = t /\ q # << >>
        BY <1>1, <1>6, <1>8, <2>1, <2>3
    <2>4. CASE u = t /\ q = << >>
        <3>1. Owes(Tail(s), k)
            BY <1>6, <1>8, <2>4
        <3>2. Takes(s, 1, k) \/ Owes(s, k)
            BY <1>1, <3>1, Rest
        <3>3. CASE Owes(s, k)
            BY <1>1, <2>1, <2>4, <3>3
        <3>4. CASE Takes(s, 1, k)
            <4>1. k = l
                BY <1>2, <3>4 DEF Takes
            <4>2. p = <<t>>
                BY <1>5, <2>4
            <4> QED BY <1>8, <2>4, <4>1, <4>2
        <3> QED BY <3>2, <3>3, <3>4
    <2> QED BY <2>2, <2>3, <2>4
<1>17. QueueInv'
    <2> SUFFICES ASSUME NEW k \in Locks, NEW i \in 1..Len(queue'[k]), NEW u, u = queue'[k][i]
                 PROVE  \/ i = 1 /\ Owes(todo'[u], k)
                        \/ todo'[u] # << >> /\ Takes(todo'[u], 1, k)
        BY DEF QueueInv
    <2>1. CASE k = l /\ i = n + 1
        <3>1. u = t
            BY <1>8, <1>10, <2>1
        <3>2. CASE q # << >>
            BY <1>1, <1>2, <1>6, <1>8, <2>1, <3>1, <3>2
        <3>3. CASE q = << >>
            <4>1. i = 1
                BY <1>9, <2>1, <3>3
            <4>2. Owes(Tail(s), l)
                BY <1>1, <1>2, Rest
            <4> QED BY <1>6, <1>8, <2>1, <3>1, <3>3, <4>1, <4>2
        <3> QED BY <3>2, <3>3
    <2>2. CASE ~(k = l /\ i = n + 1)
        <3>1. i \in 1..Len(queue[k]) /\ u = queue[k][i]
            <4>1. CASE k = l
                <5>1. i \in 1..(n + 1) /\ i # n + 1
                    BY <1>8, <1>10, <2>2, <4>1
                <5>2. i \in 1..n
                    BY <5>1
                <5> QED BY <1>3, <1>8, <1>9, <1>10, <4>1, <5>2
            <4>2. CASE k # l
                BY <1>8, <4>2
            <4> QED BY <4>1, <4>2
        <3>2. u \in Procs
            BY <1>7, <3>1
        <3>3. \/ i = 1 /\ Owes(todo[u], k)
              \/ todo[u] # << >> /\ Takes(todo[u], 1, k)
            BY <3>1 DEF LockInv, QueueInv
        <3>4. CASE u # t
            BY <1>8, <3>2, <3>3, <3>4
        <3>5. CASE u = t
            <4>1. k # l
                BY <1>3, <1>4, <3>1, <3>5 DEF InQueue
            <4>2. i = 1 /\ Owes(s, k)
                BY <1>1, <1>2, <3>3, <3>5, <4>1 DEF Takes
            <4>3. ~Gives(s, 1, k)
                BY <1>2 DEF Takes, Gives
            <4>4. Owes(r, k)
                BY <1>1, <1>6, <4>2, <4>3, Rest
            <4> QED BY <1>8, <3>5, <4>2, <4>4
        <3> QED BY <3>4, <3>5
    <2> QED BY <2>1, <2>2
<1> QED BY <1>12, <1>14, <1>15, <1>16, <1>17 DEF LockInv

\* Noticing that it is one's turn.
LEMMA GrantedKeeps ==
    ASSUME LockInv, NEW t \in Procs, Granted(t)
    PROVE  LockInv'
<1>1. PICK s \in Seq(Op) : s = todo[t] /\ s # << >> /\ Disciplined(s)
    BY DEF LockInv, TypeInv, ProgramInv, Granted
<1>2. PICK l \in Locks : l = Head(s).lock /\ Takes(s, 1, l)
    BY <1>1, Rest DEF Granted, Op, Takes
<1>3. Holds(t, l) /\ queue' = queue /\ todo' = [todo EXCEPT ![t] = Tail(s)]
    BY <1>1, <1>2 DEF Granted
<1>4. PICK r : r = Tail(s) /\ r \in Seq(Op) /\ Disciplined(r)
    <2>1. Disciplined(Tail(s))
        BY <1>1, Rest
    <2> QED BY <2>1 DEF Disciplined
<1>5. /\ todo \in [Procs -> Seq(Op)] /\ queue \in [Locks -> Seq(Procs)]
    BY DEF LockInv, TypeInv
<1>6. /\ todo' \in [Procs -> Seq(Op)] /\ todo'[t] = r
      /\ \A u \in Procs : u # t => todo'[u] = todo[u]
    BY <1>3, <1>4, <1>5
<1>7. TypeInv' /\ ProgramInv' /\ OnceInv'
    BY <1>3, <1>4, <1>5, <1>6 DEF LockInv, TypeInv, ProgramInv, OnceInv
<1>8. \A k \in Locks : Owes(r, k) <=> k = l \/ Owes(s, k)
    BY <1>1, <1>2, <1>4, Rest DEF Takes, Gives
<1>9. HolderInv'
    <2> SUFFICES ASSUME NEW u \in Procs, NEW k \in Locks, Owes(todo'[u], k)
                 PROVE  Holds(u, k)
        BY <1>3 DEF HolderInv, Holds
    <2>1. CASE u # t
        BY <1>6, <2>1 DEF LockInv, HolderInv
    <2>2. CASE u = t
        BY <1>1, <1>3, <1>6, <1>8, <2>2 DEF LockInv, HolderInv
    <2> QED BY <2>1, <2>2
<1>10. QueueInv'
    <2> SUFFICES ASSUME NEW k \in Locks, NEW i \in 1..Len(queue[k]), NEW u, u = queue[k][i]
                 PROVE  \/ i = 1 /\ Owes(todo'[u], k)
                        \/ todo'[u] # << >> /\ Takes(todo'[u], 1, k)
        BY <1>3 DEF QueueInv
    <2>1. u \in Procs
        BY <1>5
    <2>2. \/ i = 1 /\ Owes(todo[u], k)
          \/ todo[u] # << >> /\ Takes(todo[u], 1, k)
        BY DEF LockInv, QueueInv
    <2>3. CASE u # t
        BY <1>6, <2>1, <2>2, <2>3
    <2>4. CASE u = t /\ k # l
        BY <1>1, <1>2, <1>6, <1>8, <2>2, <2>4 DEF Takes
    <2>5. CASE u = t /\ k = l
        <3>1. queue[l] \in Seq(Procs) /\ queue[l] # << >> /\ queue[l][1] = t
            BY <1>3, <1>5 DEF Holds
        <3>2. 1 \in 1..Len(queue[l])
            BY <3>1
        <3>3. i = 1
            BY <2>5, <3>1, <3>2 DEF LockInv, OnceInv
        <3> QED BY <1>6, <1>8, <2>5, <3>3
    <2> QED BY <2>3, <2>4, <2>5
<1> QED BY <1>7, <1>9, <1>10 DEF LockInv

\* Giving a lock back: its holder is the first in the queue.
LEMMA GiveBackKeeps ==
    ASSUME LockInv, NEW t \in Procs, GiveBack(t)
    PROVE  LockInv'
<1>1. PICK s \in Seq(Op) : s = todo[t] /\ s # << >> /\ Disciplined(s)
    BY DEF LockInv, TypeInv, ProgramInv, GiveBack
<1>2. PICK l \in Locks : l = Head(s).lock /\ Gives(s, 1, l)
    BY <1>1, Rest DEF GiveBack, Op, Gives
<1>3. PICK q \in Seq(Procs) : q = queue[l] /\ q # << >> /\ q[1] = t
    <2>1. Owes(s, l)
        BY <1>1, <1>2, Rest
    <2>2. Holds(t, l)
        BY <1>1, <2>1 DEF LockInv, HolderInv
    <2> QED BY <2>2 DEF LockInv, TypeInv, Holds
<1>4. queue' = [queue EXCEPT ![l] = Tail(q)] /\ todo' = [todo EXCEPT ![t] = Tail(s)]
    BY <1>1, <1>2, <1>3 DEF GiveBack
<1>5. PICK r : r = Tail(s) /\ r \in Seq(Op) /\ Disciplined(r)
    <2>1. Disciplined(Tail(s))
        BY <1>1, Rest
    <2> QED BY <2>1 DEF Disciplined
<1>6. PICK n \in Nat : Len(q) = n + 1
    <2>1. Len(q) - 1 \in Nat /\ Len(q) = (Len(q) - 1) + 1
        BY <1>3
    <2> QED BY <2>1
<1>7. PICK p \in Seq(Procs) : p = Tail(q) /\ Len(p) = n /\ \A i \in 1..n : p[i] = q[i + 1]
    <2>1. PICK p : p = Tail(q)
        OBVIOUS
    <2>2. p \in Seq(Procs) /\ Len(p) = n /\ \A i \in 1..n : p[i] = q[i + 1]
        BY <1>3, <1>6, <2>1
    <2> QED BY <2>1, <2>2
<1>8. /\ todo \in [Procs -> Seq(Op)] /\ queue \in [Locks -> Seq(Procs)]
    BY DEF LockInv, TypeInv
<1>9. /\ todo' \in [Procs -> Seq(Op)] /\ todo'[t] = r
      /\ \A u \in Procs : u # t => todo'[u] = todo[u]
      /\ queue' \in [Locks -> Seq(Procs)] /\ queue'[l] = p
      /\ \A k \in Locks : k # l => queue'[k] = queue[k]
    BY <1>4, <1>5, <1>7, <1>8
<1>10. \A k \in Locks : Owes(r, k) <=> k # l /\ Owes(s, k)
    BY <1>1, <1>2, <1>5, Rest DEF Takes, Gives
<1>11. ASSUME NEW i \in 1..n
       PROVE  /\ i + 1 \in 1..Len(queue[l]) /\ queue[l][i + 1] = p[i] /\ i + 1 # 1
              /\ p[i] # t /\ p[i] \in Procs
    <2>1. i + 1 \in 1..Len(queue[l]) /\ 1 \in 1..Len(queue[l]) /\ i + 1 # 1
        BY <1>3, <1>6
    <2>2. queue[l][i + 1] = p[i] /\ queue[l][1] = t
        BY <1>3, <1>7
    <2>3. p[i] # t
        BY <2>1, <2>2 DEF LockInv, OnceInv
    <2>4. p[i] \in Procs
        BY <1>7
    <2> QED BY <2>1, <2>2, <2>3, <2>4
<1>12. TypeInv' /\ ProgramInv'
    BY <1>5, <1>9 DEF LockInv, TypeInv, ProgramInv
<1>13. OnceInv'
    <2> SUFFICES ASSUME NEW k \in Locks, NEW i \in 1..Len(queue'[k]), NEW j \in 1..Len(queue'[k]),
                        queue'[k][i] = queue'[k][j]
                 PROVE  i = j
        BY DEF OnceInv
    <2>1. CASE k # l
        BY <1>9, <2>1 DEF LockInv, OnceInv
    <2>2. CASE k = l
        <3>1. i \in 1..n /\ j \in 1..n /\ p[i] = p[j]
            BY <1>7, <1>9, <2>2
        <3>2. /\ i + 1 \in 1..Len(queue[l]) /\ j + 1 \in 1..Len(queue[l])
              /\ queue[l][i + 1] = queue[l][j + 1]
            BY <1>11, <3>1
        <3>3. i + 1 = j + 1
            BY <3>2 DEF LockInv, OnceInv
        <3> QED BY <3>1, <3>3
    <2> QED BY <2>1, <2>2
<1>14. HolderInv'
    <2> SUFFICES ASSUME NEW u \in Procs, NEW k \in Locks, Owes(todo'[u], k)
                 PROVE  queue'[k] # << >> /\ Head(queue'[k]) = u
        BY DEF HolderInv, Holds
    <2>1. Owes(todo[u], k) /\ (u = t => k # l)
        BY <1>1, <1>9, <1>10
    <2>2. queue[k] # << >> /\ Head(queue[k]) = u
        BY <2>1 DEF LockInv, HolderInv, Holds
    <2>3. k # l
        <3>1. k = l => u = t
            BY <1>3, <2>2
        <3> QED BY <2>1, <3>1
    <2> QED BY <1>9, <2>2, <2>3
<1>15. QueueInv'
    <2> SUFFICES ASSUME NEW k \in Locks, NEW i \in 1..Len(queue'[k]), NEW u, u = queue'[k][i]
                 PROVE  \/ i = 1 /\ Owes(todo'[u], k)
                        \/ todo'[u] # << >> /\ Takes(todo'[u], 1, k)
        BY DEF QueueInv
    <2>1. CASE k = l
        <3>1. i \in 1..n /\ u = p[i]
            BY <1>7, <1>9, <2>1
        <3>2. todo[u] # << >> /\ Takes(todo[u], 1, l)
            BY <1>11, <3>1 DEF LockInv, QueueInv
        <3>3. todo'[u] = todo[u]
            BY <1>9, <1>11, <3>1
        <3> QED BY <2>1, <3>2, <3>3
    <2>2. CASE k # l
        <3>1. i \in 1..Len(queue[k]) /\ u = queue[k][i] /\ u \in Procs
            BY <1>8, <1>9, <2>2
        <3>2. \/ i = 1 /\ Owes(todo[u], k)
              \/ todo[u] # << >> /\ Takes(todo[u], 1, k)
            BY <3>1 DEF LockInv, QueueInv
        <3>3. CASE u # t
            BY <1>9, <3>1, <3>2, <3>3
        <3>4. CASE u = t
            <4>1. ~Takes(s, 1, k)
                BY <1>2 DEF Takes, Gives
            <4> QED BY <1>1, <1>9, <1>10, <2>2, <3>2, <3>4, <4>1
        <3> QED BY <3>3, <3>4
    <2> QED BY <2>1, <2>2
<1> QED BY <1>12, <1>13, <1>14, <1>15 DEF LockInv

\* Every step keeps the invariant.
LEMMA LockStep == LockInv /\ [Next]_vars => LockInv'
<1> SUFFICES ASSUME LockInv, [Next]_vars PROVE LockInv'
    OBVIOUS
<1>1. ASSUME NEW t \in Procs, StartTask(t) PROVE LockInv'
    <2>1. t[1] \in Connections
        BY DEF Procs
    <2>2. PICK ops \in {PlainRequest(t[1]), MetricsRequest(t[1]), HelloRequest(t[1])} : Start(t, ops)
        BY <1>1 DEF StartTask
    <2>3. Complete(ops)
        BY <2>1, ProgramsAreComplete
    <2> QED BY <2>2, <2>3, StartKeeps
<1>2. ASSUME NEW t \in Procs, StartDatagram(t) \/ StartCleanup(t) PROVE LockInv'
    <2>1. t[1] \in Connections
        BY DEF Procs
    <2>2. Complete(Datagram(t[1])) /\ Complete(Cleanup(t[1]))
        BY <2>1, ProgramsAreComplete
    <2>3. Start(t, Datagram(t[1])) \/ Start(t, Cleanup(t[1]))
        BY <1>2 DEF StartDatagram, StartCleanup
    <2> QED BY <2>2, <2>3, StartKeeps
<1>3. ASSUME NEW t \in Procs, Continue(t) PROVE LockInv'
    BY <1>3, AskKeeps, GrantedKeeps, GiveBackKeeps DEF Continue
<1>4. CASE UNCHANGED vars
    BY <1>4 DEF vars, LockInv, TypeInv, ProgramInv, OnceInv, HolderInv, QueueInv, Holds
<1> QED BY <1>1, <1>2, <1>3, <1>4 DEF Next

\* The relay's tasks lock upwards, session before state before egress table, with
\* any number of connections and control streams: what tokio's mutexes and the
\* order of the lock calls in control_stream.rs need for no deadlock.
THEOREM NobodyWaitsDownwards == Spec => []WaitsUpwards
<1>1. LockInv => WaitsUpwards
    <2> SUFFICES ASSUME LockInv, NEW t \in Procs, NEW l \in Locks, Waits(t, l), NEW k \in Locks, Holds(t, k)
                 PROVE  Rank(k) < Rank(l)
        BY DEF WaitsUpwards
    <2>1. queue[l] \in Seq(Procs) /\ queue[k] \in Seq(Procs)
        BY DEF LockInv, TypeInv
    <2>2. PICK i \in 1..Len(queue[l]) : queue[l][i] = t /\ i # 1
        BY <2>1 DEF Waits, InQueue
    <2>3. PICK s : s = todo[t] /\ s # << >> /\ Disciplined(s) /\ Takes(s, 1, l)
        BY <2>2 DEF LockInv, QueueInv, ProgramInv
    <2>4. k # l
        BY DEF Waits, Holds
    <2>5. 1 \in 1..Len(queue[k]) /\ queue[k][1] = t
        BY <2>1 DEF Holds
    <2>6. Owes(s, k)
        BY <2>3, <2>4, <2>5 DEF LockInv, QueueInv, Takes
    <2>7. PICK j \in 1..Len(s) : GivesHeld(s, 1, j, k)
        BY <2>6 DEF Owes
    <2>8. Len(s) \in Nat /\ j # 1
        <3>1. ~Gives(s, 1, k)
            BY <2>3 DEF Takes, Gives
        <3> QED BY <2>3, <2>7, <3>1 DEF GivesHeld, Disciplined
    <2>9. 1 \in 1..Len(s) /\ 1 < j
        BY <2>8
    <2> QED BY <2>3, <2>7, <2>9 DEF Disciplined, Climbs
<1>2. Spec => []LockInv
    BY LockInit, LockStep, PTL DEF Spec
<1> QED BY <1>1, <1>2, PTL

=============================================================================
