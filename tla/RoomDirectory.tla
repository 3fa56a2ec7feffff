---------------------------- MODULE RoomDirectory ----------------------------
(***************************************************************************)
(* What the relay promises its users, without sessions, limits, tables per *)
(* stream or cleanup code: who is in which room, what is on the air there, *)
(* and who watches it.  A room is only ever entered while it is new or     *)
(* somebody is in it, an id is on the air at most once, whoever goes takes *)
(* everything of theirs off the air, and whatever goes off the air loses   *)
(* all its watchers in the same step.                                      *)
(***************************************************************************)
CONSTANTS Users, Rooms, Streams

VARIABLES
    opened,     \* the rooms there have ever been
    present,    \* [room, user]
    onAir,      \* [room, stream, user]
    watching    \* [room, stream, user]

dirVars == <<opened, present, onAir, watching>>

In(u, r) == [room |-> r, user |-> u] \in present

\* The watchers that are left when the streams of gone are off the air.
StillWatching(gone) ==
    {w \in watching : \A a \in gone : ~(a.room = w.room /\ a.stream = w.stream)}

Init == opened = {} /\ present = {} /\ onAir = {} /\ watching = {}

Open(u, r) ==
    /\ r \notin opened
    /\ opened' = opened \cup {r}
    /\ present' = present \cup {[room |-> r, user |-> u]}
    /\ UNCHANGED <<watching, onAir>>

Join(u, r) ==
    /\ \E m \in present : m.room = r
    /\ present' = present \cup {[room |-> r, user |-> u]}
    /\ UNCHANGED <<opened, watching, onAir>>

\* u goes from the rooms R: one of them or, for good, all.
Go(u, R) ==
    LET own == {a \in onAir : a.room \in R /\ a.user = u}
    IN  /\ \E r \in R : In(u, r)
        /\ present' = {m \in present : ~(m.room \in R /\ m.user = u)}
        /\ onAir' = onAir \ own
        /\ watching' = {w \in StillWatching(own) : ~(w.room \in R /\ w.user = u)}
        /\ UNCHANGED opened

Start(u, r, s) ==
    /\ UNCHANGED watching
    /\ \A a \in onAir : a.stream # s
    /\ onAir' = onAir \cup {[room |-> r, stream |-> s, user |-> u]}

Stop(u, r, s) ==
    LET own == {a \in onAir : a.room = r /\ a.stream = s /\ a.user = u}
    IN  /\ watching' = StillWatching(own)
        /\ onAir' = onAir \ own

Watch(u, r, s) ==
    /\ watching' = watching \cup {[room |-> r, stream |-> s, user |-> u]}
    /\ \E a \in onAir : a.room = r /\ a.stream = s
    /\ UNCHANGED onAir

Unwatch(u, r, s) ==
    /\ watching' = watching \ {[room |-> r, stream |-> s, user |-> u]}
    /\ UNCHANGED onAir

\* What those in a room do there.
Programme(u, r) ==
    /\ In(u, r)
    /\ UNCHANGED <<opened, present>>
    /\ \E s \in Streams :
          Unwatch(u, r, s) \/ Watch(u, r, s) \/ Start(u, r, s) \/ Stop(u, r, s)

Next ==
    \E u \in Users :
       \/ \E r \in Rooms : Programme(u, r) \/ Join(u, r) \/ Open(u, r)
       \/ \E R \in {Rooms} \cup {{r} : r \in Rooms} : Go(u, R)

Spec == Init /\ [][Next]_dirVars

=============================================================================
