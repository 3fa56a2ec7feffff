--------------------------- MODULE UiServerProofs ---------------------------
(***************************************************************************)
(* What the channel console promises its user, for any relay limits and    *)
(* any number of other clients.                                            *)
(*                                                                         *)
(* The proof looks at the relay through Mine, the streams of the console,  *)
(* and a little of the room table (Relay).  Each call is reduced to what   *)
(* it does to those, whichever way it is answered; the rest is about the   *)
(* one thread: where its request has got to bounds what is published.      *)
(***************************************************************************)
EXTENDS UiServer, FiniteSetTheorems, FunctionTheorems, TLAPS

\* The console's streams at the relay.
Mine == {[room |-> p.room, stream |-> p.stream] : p \in {q \in published : q.publisher = Me}}

Shown == \E x \in Mine : x.stream = StreamOf["Screen"]

\* The rooms there have been.
PastRooms == 1..(nextRoomId - 1)

\* What the console needs of the relay: users keep apart, room numbers are not
\* used again, streams and participants are in rooms that exist, and a stream
\* id names one stream.
Relay ==
    /\ \A c \in Sessions \ {Console} : user[c] # Me
    /\ nextRoomId \in Nat \ {0}
    /\ rooms \subseteq PastRooms
    /\ \A m \in participants : m.room \in rooms
    /\ \A p \in published : p.room \in rooms
    /\ StreamIdUnique

\* From the first call with a room to the last one of a failed start.
InRoom   == {"enter", "push", "publish", "configure", "bitrate", "framerate", "withdraw", "retreat"}
\* A start that may have published.
Starting == {"configure", "bitrate", "framerate", "withdraw", "retreat"}

\* Which job a step belongs to.
Jobs ==
    /\ job \in Media \cup {"select", "state"}
    /\ pc \in {"find", "leave"} => job = "select"
    /\ pc \in (InRoom \ {"enter", "push"}) \cup
              {"resolve", "create", "locate", "halt", "unpublish", "stopped"} => job \in Media
    /\ sharing \in BOOLEAN
    /\ task \in [Media -> [state : {"none", "running", "failed"}, room : Nat]]

\* The room a request works in, against the selected one.
Where ==
    /\ selected \in Nat
    /\ selected \in {NoRoom, ArgRoom} \cup PastRooms
    /\ pc \in InRoom \cup {"leave"} => room \in PastRooms
    /\ pc \in {"create", "depart"} => selected = NoRoom
    /\ job \in Media /\ pc \in InRoom => selected \in {room, NoRoom}
    /\ job = "state" /\ pc \in {"enter", "push"} =>
          selected \in {room, NoRoom} \cup (PastRooms \ rooms)

\* Who shares or sends has a channel, and it is the selected one.
Senders ==
    /\ sharing => selected # NoRoom
    /\ \A k \in Media : IsActive(k) => selected # NoRoom /\ task[k].room = selected
    /\ job = "select" /\ pc \in {"find", "leave", "enter", "push"} =>
          \A k \in Media : ~IsActive(k)

\* Where the console's streams are.
Places ==
    /\ ~connected => Mine = {}
    /\ \A x \in Mine : x.room = selected \/ (job \in Media /\ pc \in Starting /\ x.room = room)
    /\ job = "select" /\ pc \in {"enter", "push"} /\ selected # room => Mine = {}
    /\ pc \in {"halt", "unpublish"} /\ Mine # {} => room = selected

\* A screen that is published and not shown as shared is one being started.
Screens ==
    /\ Shown /\ ~sharing => job = "Screen" /\ pc \in Starting
    /\ pc = "stopped" /\ job = "Screen" => ~Shown

\* A voice request on its way, or answered well, and the sending task.
Silence ==
    /\ asked = "voice" /\ ~Speaking(localVoice) =>
          \/ ~IsActive("Voice")
          \/ job = "Voice" /\ pc \in {"locate", "halt"}
          \/ pc = "idle" /\ answer # "ok"
    /\ asked = "voice" /\ job = "Voice" /\ pc \in InRoom \cup {"resolve", "create"} =>
          Speaking(localVoice)

\* The first half of VoiceStateIsPushed.
Pushed ==
    pc = "idle" /\ answer = "ok" /\ connected /\ selected \in rooms =>
       \/ [room |-> selected, user |-> Me, flags |-> VoiceRequest] \in voice
       \/ selected = ArgRoom /\ ~IsParticipant(selected, Me)

ConsoleInv == Jobs /\ Where /\ Senders /\ Places /\ Screens /\ Silence /\ Pushed

-----------------------------------------------------------------------------
(***************************************************************************)
(* What the requests do to the relay, as far as the console is concerned.  *)
(***************************************************************************)
\* A step that may create the next room and leaves the console the streams M.
Effect(M) ==
    /\ Relay' /\ user' = user
    /\ nextRoomId' \in {nextRoomId, nextRoomId + 1}
    /\ rooms' \subseteq rooms \cup {nextRoomId}
    /\ Mine' = M

\* A relay that does not change.
LEMMA NoEffect ==
    ASSUME Relay, UNCHANGED vars
    PROVE  Effect(Mine)
BY DEF Effect, Relay, vars, sessionVars, roomVars, streamVars, perStream,
       Mine, Me, PastRooms, StreamIdUnique

\* Streams that stay what they are and where they are.
LEMMA SameStreams ==
    ASSUME Relay, UNCHANGED <<user, nextRoomId, rooms, participants, published>>
    PROVE  Effect(Mine)
BY DEF Effect, Relay, Mine, Me, PastRooms, StreamIdUnique

\* Streams and participants that go, with the rooms that are empty then.
LEMMA Departures ==
    ASSUME Relay, NEW R, NEW V, UNCHANGED <<user, nextRoomId>>,
           participants' \subseteq participants, published' \subseteq published,
           RemoveEmptyRooms(R, V)
    PROVE  /\ Relay' /\ user' = user /\ nextRoomId' \in {nextRoomId, nextRoomId + 1}
           /\ rooms' \subseteq rooms
<1>1. rooms' \subseteq rooms
    BY DEF RemoveEmptyRooms
<1>2. \A m \in participants' : m.room \in rooms'
    BY DEF RemoveEmptyRooms, Relay
<1>3. \A p \in published' : p.room \in rooms'
    BY DEF RemoveEmptyRooms, Relay
<1>4. StreamIdUnique'
    BY DEF StreamIdUnique, Relay
<1> QED BY <1>1, <1>2, <1>3, <1>4 DEF Relay, Me, PastRooms

LEMMA LeaveRoomsEffect ==
    ASSUME Relay, NEW u, NEW R, NEW S, LeaveRooms(u, R, S), user' = user
    PROVE  /\ Relay' /\ nextRoomId' \in {nextRoomId, nextRoomId + 1} /\ rooms' \subseteq rooms
           /\ published' = {p \in published : ~(p.room \in R /\ p.publisher = u)}
<1>1. /\ participants' \subseteq participants
      /\ published' = {p \in published : ~(p.room \in R /\ p.publisher = u)}
      /\ nextRoomId' = nextRoomId
    BY DEF LeaveRooms
<1>2. PICK V : RemoveEmptyRooms(R, V)
    BY DEF LeaveRooms
<1> QED BY <1>1, <1>2, Departures

\* LeaveRoom takes the console's streams in that room, and no others.
LEMMA LeaveEffect ==
    ASSUME Relay, NEW r, LeaveRoom(Console, r)
    PROVE  Effect({x \in Mine : x.room # r})
<1>1. LeaveRooms(Me, {r}, {}) /\ user' = user
    BY DEF LeaveRoom, sessionVars, Me
<1>2. /\ Relay' /\ nextRoomId' \in {nextRoomId, nextRoomId + 1} /\ rooms' \subseteq rooms
      /\ published' = {p \in published : ~(p.room \in {r} /\ p.publisher = Me)}
    BY <1>1, LeaveRoomsEffect
<1>3. Mine' = {x \in Mine : x.room # r}
    BY <1>1, <1>2 DEF Mine, Me
<1> QED BY <1>1, <1>2, <1>3 DEF Effect

\* A connection that is lost takes all of them.
LEMMA DisconnectEffect ==
    ASSUME Relay, Disconnect(Console)
    PROVE  Effect({})
<1> DEFINE R == {r \in rooms : \/ IsParticipant(r, Me)
                               \/ \E p \in published : p.room = r /\ p.publisher = Me}
<1>1. LeaveRooms(Me, R, {v \in viewerStats : v.user = Me}) /\ user' = user
    BY DEF Disconnect, DisconnectUser, Me
<1>2. /\ Relay' /\ nextRoomId' \in {nextRoomId, nextRoomId + 1} /\ rooms' \subseteq rooms
      /\ published' = {p \in published : ~(p.room \in R /\ p.publisher = Me)}
    <2> HIDE DEF R
    <2> QED BY <1>1, LeaveRoomsEffect
<1>3. Mine' = {}
    BY <1>1, <1>2 DEF Mine, Me, Relay
<1> QED BY <1>1, <1>2, <1>3 DEF Effect

LEMMA CreateEffect ==
    ASSUME Relay, NEW c, CreateRoom(c)
    PROVE  Effect(Mine) /\ nextRoomId' = nextRoomId + 1
<1>1. /\ user' = user /\ published' = published /\ nextRoomId' = nextRoomId + 1
      /\ rooms' = rooms \cup {nextRoomId}
      /\ participants' = participants \cup {[room |-> nextRoomId, user |-> user[c]]}
    BY DEF CreateRoom, sessionVars, streamVars
<1>2. nextRoomId' \in Nat \ {0} /\ rooms' \subseteq PastRooms'
    BY <1>1 DEF Relay, PastRooms
<1>3. /\ \A m \in participants' : m.room \in rooms'
      /\ \A p \in published' : p.room \in rooms'
    BY <1>1 DEF Relay
<1>4. Mine' = Mine
    BY <1>1 DEF Mine, Me
<1> QED BY <1>1, <1>2, <1>3, <1>4 DEF Effect, Relay, Me, StreamIdUnique

LEMMA JoinEffect ==
    ASSUME Relay, NEW c, NEW r, JoinRoom(c, r)
    PROVE  Effect(Mine)
<1>1. /\ user' = user /\ published' = published /\ nextRoomId' = nextRoomId /\ rooms' = rooms
      /\ participants' = participants \cup {[room |-> r, user |-> user[c]]} /\ r \in rooms
    BY DEF JoinRoom, sessionVars, streamVars
<1>2. Mine' = Mine
    BY <1>1 DEF Mine, Me
<1> QED BY <1>1, <1>2 DEF Effect, Relay, Me, StreamIdUnique, PastRooms

LEMMA SpeakEffect ==
    ASSUME Relay, NEW c, NEW r, NEW in, SetVoiceState(c, r, in)
    PROVE  Effect(Mine)
BY SameStreams DEF SetVoiceState, sessionVars, streamVars

\* A stream is replaced by itself with another target.
LEMMA ReplaceEffect ==
    ASSUME Relay, NEW p \in published, NEW q, Replace(p, q),
           q.room = p.room, q.stream = p.stream, q.publisher = p.publisher,
           UNCHANGED <<sessionVars, roomVars>>
    PROVE  Effect(Mine)
<1>1. published' = (published \ {p}) \cup {q}
    BY DEF Replace
<1>2. UNCHANGED <<user, nextRoomId, rooms, participants>>
    BY DEF sessionVars, roomVars
<1>3. StreamIdUnique'
    BY <1>1 DEF StreamIdUnique, Relay
<1>4. \A x \in published' : x.room \in rooms'
    BY <1>1, <1>2 DEF Relay
<1>5. Mine' = Mine
    BY <1>1, <1>2 DEF Mine, Me
<1> QED BY <1>2, <1>3, <1>4, <1>5 DEF Effect, Relay, Me, PastRooms

LEMMA ConfigEffect ==
    ASSUME Relay, NEW c, NEW r, NEW s, NEW codec, NEW in, SetStreamConfig(c, r, s, codec, in)
    PROVE  Effect(Mine)
<1>1. PICK p \in published : \E t, f : Replace(p, [p EXCEPT !.target = t, !.config = f])
    BY DEF SetStreamConfig
<1>2. PICK t, f : Replace(p, [p EXCEPT !.target = t, !.config = f])
    BY <1>1
<1>3. UNCHANGED <<sessionVars, roomVars>>
    BY DEF SetStreamConfig
<1> DEFINE q == [p EXCEPT !.target = t, !.config = f]
<1>4. q.room = p.room /\ q.stream = p.stream /\ q.publisher = p.publisher
    OBVIOUS
<1> HIDE DEF q
<1> QED BY <1>2, <1>3, <1>4, ReplaceEffect DEF q

LEMMA RetargetEffect ==
    ASSUME Relay, NEW p \in published, NEW t, Replace(p, WithTarget(p, t)),
           UNCHANGED <<sessionVars, roomVars>>
    PROVE  Effect(Mine)
<1> DEFINE q == WithTarget(p, t)
<1>1. q.room = p.room /\ q.stream = p.stream /\ q.publisher = p.publisher
    BY DEF WithTarget
<1> HIDE DEF q
<1> QED BY <1>1, ReplaceEffect DEF q

LEMMA BitrateEffect ==
    ASSUME Relay, NEW c, NEW r, NEW s, NEW b, SetTargetBitrate(c, r, s, b)
    PROVE  Effect(Mine)
<1>1. PICK p \in published : \E t : Replace(p, WithTarget(p, t))
    BY DEF SetTargetBitrate
<1>2. UNCHANGED <<sessionVars, roomVars>>
    BY DEF SetTargetBitrate
<1> QED BY <1>1, <1>2, RetargetEffect

LEMMA FramerateEffect ==
    ASSUME Relay, NEW c, NEW r, NEW s, NEW f, SetTargetFramerate(c, r, s, f)
    PROVE  Effect(Mine)
<1>1. PICK p \in published : \E t : Replace(p, WithTarget(p, t))
    BY DEF SetTargetFramerate
<1>2. UNCHANGED <<sessionVars, roomVars>>
    BY DEF SetTargetFramerate
<1> QED BY <1>1, <1>2, RetargetEffect

LEMMA PublishEffect ==
    ASSUME Relay, NEW r, NEW s, NEW codec, NEW kind, PublishStream(Console, r, s, codec, kind)
    PROVE  Effect(Mine \cup {[room |-> r, stream |-> s]})
<1> DEFINE q == [room |-> r, stream |-> s, publisher |-> Me, codec |-> codec,
                 kind |-> kind, target |-> DefaultTarget, config |-> NoConfig]
<1>1. /\ published' = published \cup {q}
      /\ UNCHANGED <<user, nextRoomId, rooms, participants>>
      /\ r \in rooms /\ \A p \in published : p.stream # s
    BY DEF PublishStream, sessionVars, roomVars, IsPublished, Me
<1>2. q.room = r /\ q.stream = s /\ q.publisher = Me
    OBVIOUS
<1> HIDE DEF q
<1>3. StreamIdUnique'
    BY <1>1, <1>2 DEF StreamIdUnique, Relay
<1>4. \A x \in published' : x.room \in rooms'
    BY <1>1, <1>2 DEF Relay
<1>5. Mine' = Mine \cup {[room |-> r, stream |-> s]}
    BY <1>1, <1>2 DEF Mine, Me
<1> QED BY <1>1, <1>3, <1>4, <1>5 DEF Effect, Relay, Me, PastRooms

LEMMA UnpublishEffect ==
    ASSUME Relay, NEW r, NEW s, UnpublishStream(Console, r, s)
    PROVE  Effect(Mine \ {[room |-> r, stream |-> s]})
<1>1. PICK p \in published : /\ p.room = r /\ p.stream = s /\ p.publisher = Me
                             /\ published' = published \ {p}
    BY DEF UnpublishStream, Me
<1>2. /\ UNCHANGED <<user, nextRoomId>> /\ participants' = participants
      /\ RemoveEmptyRooms({r}, voice)
    BY DEF UnpublishStream, sessionVars
<1>3. /\ Relay' /\ user' = user /\ nextRoomId' \in {nextRoomId, nextRoomId + 1}
      /\ rooms' \subseteq rooms
    BY <1>1, <1>2, Departures
<1>4. \A q \in published : q.stream = s => q = p
    BY <1>1 DEF Relay, StreamIdUnique
<1>5. Mine' = Mine \ {[room |-> r, stream |-> s]}
    BY <1>1, <1>2, <1>4 DEF Mine, Me
<1> QED BY <1>3, <1>5 DEF Effect

-----------------------------------------------------------------------------
(***************************************************************************)
(* A call has its effect whether it is accepted, late or refused: where it *)
(* is refused there was nothing to do.                                     *)
(***************************************************************************)
LEMMA CallLeave ==
    ASSUME Relay, ~connected => Mine = {}, NEW r, Leave(r) \/ (~connected /\ UNCHANGED vars)
    PROVE  Effect({x \in Mine : x.room # r})
<1>1. CASE LeaveRoom(Console, r)
    BY <1>1, LeaveEffect
<1>2. CASE (~connected \/ r \notin rooms) /\ UNCHANGED vars
    <2>1. Mine = {x \in Mine : x.room # r}
        BY <1>2 DEF Mine, Relay
    <2> QED BY <1>2, <2>1, NoEffect
<1> QED BY <1>1, <1>2 DEF Leave

LEMMA CallUnpublish ==
    ASSUME Relay, ~connected => Mine = {}, NEW r, NEW s,
           \/ UnpublishStream(Console, r, s)
           \/ ~(connected /\ MayChange(r, s)) /\ UNCHANGED vars
    PROVE  Effect(Mine \ {[room |-> r, stream |-> s]})
<1>1. CASE UnpublishStream(Console, r, s)
    BY <1>1, UnpublishEffect
<1>2. CASE ~(connected /\ MayChange(r, s)) /\ UNCHANGED vars
    <2>1. Mine = Mine \ {[room |-> r, stream |-> s]}
        BY <1>2 DEF MayChange, Mine
    <2> QED BY <1>2, <2>1, NoEffect
<1> QED BY <1>1, <1>2

\* The others' requests leave the console's streams, its voice states in rooms
\* that stay, and the rooms it is in.
PeerEffect ==
    /\ Effect(Mine)
    /\ \A v \in voice : v.user = Me /\ v.room \in rooms' => v \in voice'
    /\ \A r : IsParticipant(r, Me)' => IsParticipant(r, Me)

LEMMA PeerCreateEffect ==
    ASSUME Relay, NEW c \in Sessions \ {Console}, CreateRoom(c)
    PROVE  PeerEffect
<1>1. Effect(Mine) /\ user' = user
    BY CreateEffect DEF CreateRoom, sessionVars
<1>2. voice \subseteq voice'
    BY DEF CreateRoom, EnsureVoiceState
<1>3. \A r : IsParticipant(r, Me)' => IsParticipant(r, Me)
    BY <1>1 DEF CreateRoom, IsParticipant, Me, Relay
<1> QED BY <1>1, <1>2, <1>3 DEF PeerEffect

LEMMA PeerRequestEffect ==
    ASSUME Relay, NEW c \in Sessions \ {Console}, PeerRequest(c)
    PROVE  PeerEffect
<1>0. user[c] # Me
    BY DEF Relay
<1>1. ASSUME NEW r, JoinRoom(c, r) PROVE PeerEffect
    <2>1. Effect(Mine) /\ user' = user
        BY <1>1, JoinEffect DEF JoinRoom, sessionVars
    <2>2. voice \subseteq voice'
        BY <1>1 DEF JoinRoom, EnsureVoiceState
    <2>3. \A x : IsParticipant(x, Me)' => IsParticipant(x, Me)
        BY <1>0, <1>1, <2>1 DEF JoinRoom, IsParticipant, Me
    <2> QED BY <2>1, <2>2, <2>3 DEF PeerEffect
<1>2. ASSUME NEW r, LeaveRoom(c, r) PROVE PeerEffect
    <2>1. LeaveRooms(user[c], {r}, {}) /\ user' = user
        BY <1>2 DEF LeaveRoom, sessionVars
    <2>2. /\ Relay' /\ nextRoomId' \in {nextRoomId, nextRoomId + 1} /\ rooms' \subseteq rooms
          /\ published' = {p \in published : ~(p.room \in {r} /\ p.publisher = user[c])}
        BY <2>1, LeaveRoomsEffect
    <2>3. Mine' = Mine
        BY <1>0, <2>1, <2>2 DEF Mine, Me
    <2>4. participants' \subseteq participants
        BY <2>1 DEF LeaveRooms
    <2>5. \A v \in voice : v.user = Me /\ v.room \in rooms' => v \in voice'
        BY <1>0, <2>1 DEF LeaveRooms, RemoveEmptyRooms
    <2> QED BY <2>1, <2>2, <2>3, <2>4, <2>5 DEF PeerEffect, Effect, IsParticipant, Me
<1>3. ASSUME NEW r, NEW s, NEW codec, NEW kind, PublishStream(c, r, s, codec, kind)
      PROVE  PeerEffect
    <2> DEFINE q == [room |-> r, stream |-> s, publisher |-> user[c], codec |-> codec,
                     kind |-> kind, target |-> DefaultTarget, config |-> NoConfig]
    <2>1. /\ published' = published \cup {q}
          /\ UNCHANGED <<user, nextRoomId, rooms, participants, voice>>
          /\ r \in rooms /\ \A p \in published : p.stream # s
        BY <1>3 DEF PublishStream, sessionVars, roomVars, IsPublished
    <2>2. q.room = r /\ q.stream = s /\ q.publisher = user[c]
        OBVIOUS
    <2> HIDE DEF q
    <2>3. StreamIdUnique'
        BY <2>1, <2>2 DEF StreamIdUnique, Relay
    <2>4. \A x \in published' : x.room \in rooms'
        BY <2>1, <2>2 DEF Relay
    <2>5. Mine' = Mine
        BY <1>0, <2>1, <2>2 DEF Mine, Me
    <2> QED BY <2>1, <2>3, <2>4, <2>5 DEF PeerEffect, Effect, Relay, Me, PastRooms, IsParticipant
<1>4. ASSUME NEW r, NEW s, UnpublishStream(c, r, s) PROVE PeerEffect
    <2>1. PICK p \in published : p.publisher = user[c] /\ published' = published \ {p}
        BY <1>4 DEF UnpublishStream
    <2>2. /\ UNCHANGED <<user, nextRoomId>> /\ participants' = participants
          /\ RemoveEmptyRooms({r}, voice)
        BY <1>4 DEF UnpublishStream, sessionVars
    <2>3. /\ Relay' /\ user' = user /\ nextRoomId' \in {nextRoomId, nextRoomId + 1}
          /\ rooms' \subseteq rooms
        BY <2>1, <2>2, Departures
    <2>4. Mine' = Mine
        BY <1>0, <2>1, <2>2 DEF Mine, Me
    <2>5. \A v \in voice : v.user = Me /\ v.room \in rooms' => v \in voice'
        BY <2>2 DEF RemoveEmptyRooms, Relay
    <2> QED BY <2>2, <2>3, <2>4, <2>5 DEF PeerEffect, Effect, IsParticipant, Me
<1> QED BY <1>1, <1>2, <1>3, <1>4 DEF PeerRequest

-----------------------------------------------------------------------------
(***************************************************************************)
(* Rooms.                                                                  *)
(***************************************************************************)
LEMMA PastRoomsType ==
    ASSUME Relay
    PROVE  PastRooms \subseteq Nat /\ NoRoom \notin PastRooms /\ rooms \subseteq PastRooms
BY DEF Relay, PastRooms, NoRoom

\* A room that is gone stays gone.
LEMMA EffectRooms ==
    ASSUME Relay, NEW M, Effect(M)
    PROVE  /\ PastRooms \subseteq PastRooms' /\ PastRooms \ rooms \subseteq PastRooms' \ rooms'
           /\ PastRooms' \subseteq Nat /\ NoRoom \notin PastRooms' /\ rooms' \subseteq PastRooms'
           /\ Relay' /\ user' = user /\ Me' = Me /\ Mine' = M
<1>1. nextRoomId \in Nat /\ (nextRoomId' = nextRoomId \/ nextRoomId' = nextRoomId + 1)
    BY DEF Relay, Effect
<1>2. PastRooms \subseteq PastRooms' /\ nextRoomId \notin PastRooms
    <2> SUFFICES ASSUME NEW r \in 1..(nextRoomId - 1)
                 PROVE  r \in 1..(nextRoomId' - 1) /\ r # nextRoomId
        BY DEF PastRooms
    <2>1. r \in Nat /\ 1 <= r /\ r <= nextRoomId - 1
        BY <1>1
    <2> QED BY <1>1, <2>1
<1>3. PastRooms' \subseteq Nat /\ NoRoom \notin PastRooms' /\ rooms' \subseteq PastRooms'
    <2>1. nextRoomId' \in Nat /\ rooms' \subseteq PastRooms'
        BY DEF Effect, Relay
    <2>2. PastRooms' \subseteq Nat /\ NoRoom \notin PastRooms'
        <3>1. nextRoomId' \in Nat
            BY <2>1
        <3> SUFFICES ASSUME NEW r \in 1..(nextRoomId' - 1) PROVE r \in Nat /\ r # 0
            BY DEF PastRooms, NoRoom
        <3> QED BY <3>1
    <2> QED BY <2>1, <2>2
<1>4. rooms' \subseteq rooms \cup {nextRoomId}
    BY DEF Effect
<1>5. PastRooms \ rooms \subseteq PastRooms' \ rooms'
    BY <1>2, <1>4
<1>6. Relay' /\ user' = user /\ Mine' = M
    BY DEF Effect
<1>7. Me' = Me
    BY <1>6 DEF Me
<1> QED BY <1>2, <1>3, <1>5, <1>6, <1>7

\* The console's streams are in rooms that exist.
LEMMA MineInRooms ==
    ASSUME Relay
    PROVE  \A x \in Mine : x.room \in rooms
BY DEF Relay, Mine

LEMMA PublishedIsMine ==
    ASSUME NEW p \in published, p.publisher = Me
    PROVE  \E x \in Mine : x.room = p.room /\ x.stream = p.stream
<1>1. [room |-> p.room, stream |-> p.stream] \in Mine
    BY DEF Mine
<1> QED BY <1>1

\* Every nonempty set of numbers has a least one.
LEMMA LeastNumber ==
    ASSUME NEW B, B \subseteq Nat, B # {}
    PROVE  \E n \in B : \A m \in B : n <= m
<1>1. IsWellFoundedOn(OpToRel(<, Nat), Nat)
    BY NatLessThanWellFounded
<1>2. PICK n \in B : \A m \in B : ~(<<m, n>> \in OpToRel(<, Nat))
    BY <1>1, WFMin
<1>3. ASSUME NEW m \in B PROVE n <= m
    <2>1. m \in Nat /\ n \in Nat
        OBVIOUS
    <2>2. ~(m < n)
        BY <1>2, <2>1 DEF OpToRel
    <2> QED BY <2>1, <2>2
<1> QED BY <1>3

\* The newest of some rooms is one of them.
LEMMA NewestRoom ==
    ASSUME Relay, NEW S, S \subseteq rooms, S # {}
    PROVE  Max(S) \in S
<1> DEFINE B == {b \in Nat : \A y \in S : b >= y}
<1>1. nextRoomId \in Nat /\ S \subseteq Nat /\ \A y \in S : nextRoomId >= y /\ y >= 1
    BY DEF Relay, PastRooms
<1>2. nextRoomId \in B /\ B \subseteq Nat
    BY <1>1
<1>3. PICK b \in B : \A d \in B : b <= d
    <2> HIDE DEF B
    <2> QED BY <1>2, LeastNumber
<1>4. b \in S
    <2> SUFFICES ASSUME b \notin S PROVE FALSE
        OBVIOUS
    <2>1. b \in Nat /\ \A y \in S : b >= y /\ b # y
        OBVIOUS
    <2>2. b >= 1
        <3>1. PICK y : y \in S
            OBVIOUS
        <3>2. y \in Nat /\ y >= 1 /\ b >= y
            BY <1>1, <2>1, <3>1
        <3> QED BY <2>1, <3>2
    <2>3. b - 1 \in B
        BY <1>1, <2>1, <2>2
    <2> QED BY <1>3, <2>1, <2>3
<1>5. \A y \in S : b >= y
    OBVIOUS
<1> QED BY <1>4, <1>5 DEF Max

LEMMA NamedRooms ==
    ASSUME Relay
    PROVE  RoomsByName \subseteq rooms /\ ChannelsForState \subseteq rooms
<1> DEFINE candidates == IF named \cap rooms = {} /\ Cardinality(rooms) = 1
                         THEN rooms ELSE named \cap rooms
           busy == {r \in candidates : StreamsIn(r) # {}}
<1>1. candidates \subseteq rooms /\ busy \subseteq candidates
    OBVIOUS
<1>2. RoomsByName = IF busy # {} THEN {Max(busy)}
                    ELSE IF candidates # {} THEN {Max(candidates)} ELSE {}
    BY DEF RoomsByName
<1> HIDE DEF candidates, busy
<1>3. busy # {} => Max(busy) \in rooms
    BY <1>1, NewestRoom
<1>4. candidates # {} => Max(candidates) \in rooms
    BY <1>1, NewestRoom
<1>5. RoomsByName \subseteq rooms
    BY <1>2, <1>3, <1>4
<1> QED BY <1>5 DEF ChannelsForState

\* The channel a state request shows is the selected one, unless that is gone or
\* there is none.
LEMMA StateChannel ==
    ASSUME Relay, Where, NEW r \in ChannelsForState
    PROVE  r \in rooms /\ selected \in {r, NoRoom} \cup (PastRooms \ rooms)
<1>1. r \in rooms
    BY NamedRooms
<1>2. CASE selected \in rooms
    BY <1>1, <1>2 DEF ChannelsForState
<1>3. CASE selected \notin rooms
    BY <1>1, <1>3 DEF ChannelsForState, Where
<1> QED BY <1>1, <1>2, <1>3

-----------------------------------------------------------------------------
(***************************************************************************)
(* The initial state: there are enough user ids for everybody.             *)
(***************************************************************************)
LEMMA UsersAreApart ==
    ASSUME UiInit
    PROVE  \A c \in Sessions \ {Console} : user[c] # Me
<1> DEFINE F == {f \in [Sessions -> 1..Cardinality(Sessions)] : IsInjective(f)}
<1>1. IsFiniteSet(Sessions)
    BY InputAssumption
<1>2. ExistsBijection(1..Cardinality(Sessions), Sessions)
    BY <1>1, FS_CardinalityType
<1>3. ExistsBijection(Sessions, 1..Cardinality(Sessions))
    BY <1>2, Fun_ExistsBijSymmetric
<1>4. PICK f \in [Sessions -> 1..Cardinality(Sessions)] : IsInjective(f)
    BY <1>3 DEF ExistsBijection, Bijection, Injection
<1>5. user \in [Sessions -> 1..Cardinality(Sessions)] /\ IsInjective(user)
    BY <1>4 DEF UiInit
<1>6. Console \in Sessions
    BY UiAssumption
<1> QED BY <1>5, <1>6 DEF IsInjective, Me

LEMMA ConsoleInit == UiInit => Relay /\ ConsoleInv
<1> SUFFICES ASSUME UiInit PROVE Relay /\ ConsoleInv
    OBVIOUS
<1>1. Relay
    <2>1. nextRoomId = 1 /\ rooms = {} /\ participants = {} /\ published = {}
        BY DEF UiInit
    <2> QED BY <2>1, UsersAreApart DEF Relay, StreamIdUnique
<1>2. Mine = {} /\ ~Shown
    BY DEF UiInit, Mine, Shown
<1>3. \A k \in Media : ~IsActive(k)
    BY DEF UiInit, IsActive, NoTask
<1>4. Jobs
    BY DEF UiInit, Jobs, NoTask, NoRoom, InRoom
<1>5. Where
    BY UiAssumption DEF UiInit, Where, InRoom
<1>6. Senders
    BY <1>3 DEF UiInit, Senders
<1>7. Places /\ Screens
    BY <1>2 DEF UiInit, Places, Screens
<1>8. Silence /\ Pushed
    BY <1>3 DEF UiInit, Silence, Pushed, Media, InRoom
<1> QED BY <1>1, <1>4, <1>5, <1>6, <1>7, <1>8 DEF ConsoleInv

-----------------------------------------------------------------------------
(***************************************************************************)
(* Requests come in.                                                       *)
(***************************************************************************)
LEMMA ReceiveStateStep ==
    ASSUME Relay, ConsoleInv, ReceiveState
    PROVE  Relay' /\ ConsoleInv'
<1>1. Effect(Mine)
    BY NoEffect DEF ReceiveState
<1> USE DEF ReceiveState, Serve, ConsoleInv, console, world
<1>2. Relay'
    BY <1>1, EffectRooms
<1>3. Jobs'
    BY DEF Jobs, InRoom
<1>4. Where'
    BY <1>1, EffectRooms DEF Where, InRoom
<1>5. Senders'
    BY DEF Senders, IsActive
<1>6. Places'
    BY <1>1, EffectRooms DEF Places, Starting
<1>7. Screens'
    BY <1>1, EffectRooms DEF Screens, Shown, Starting
<1>8. Silence'
    BY DEF Silence, Speaking, IsActive, InRoom
<1>9. Pushed'
    BY DEF Pushed
<1> QED BY <1>2, <1>3, <1>4, <1>5, <1>6, <1>7, <1>8, <1>9

LEMMA ReceiveSelectStep ==
    ASSUME Relay, ConsoleInv, NEW r, ReceiveSelect(r)
    PROVE  Relay' /\ ConsoleInv'
<1>1. Effect(Mine)
    BY NoEffect DEF ReceiveSelect
<1> USE DEF ReceiveSelect, Done, ConsoleInv, console, world
<1>2. Relay'
    BY <1>1, EffectRooms
<1>3. Jobs'
    BY DEF Jobs, InRoom
<1>4. Where'
    BY <1>1, EffectRooms DEF Where, InRoom
<1>5. Senders'
    BY DEF Senders, IsActive
<1>6. Places'
    BY <1>1, EffectRooms DEF Places, Starting
<1>7. Screens'
    BY <1>1, EffectRooms DEF Screens, Shown, Starting
<1>8. Silence' /\ Pushed'
    BY DEF Silence, Pushed, Speaking, IsActive, InRoom
<1> QED BY <1>2, <1>3, <1>4, <1>5, <1>6, <1>7, <1>8

LEMMA ReceiveShareStep ==
    ASSUME Relay, ConsoleInv, NEW on \in BOOLEAN, ReceiveShare(on)
    PROVE  Relay' /\ ConsoleInv'
<1>1. Effect(Mine)
    BY NoEffect DEF ReceiveShare
<1> USE DEF ReceiveShare, Serve, ConsoleInv, console, world
<1>2. Relay'
    BY <1>1, EffectRooms
<1>3. Jobs'
    BY DEF Jobs, InRoom, Media
<1>4. Where'
    BY <1>1, EffectRooms DEF Where, InRoom
<1>5. Senders'
    BY DEF Senders, IsActive
<1>6. Places'
    BY <1>1, EffectRooms DEF Places, Starting
<1>7. Screens'
    BY <1>1, EffectRooms DEF Screens, Shown, Starting
<1>8. Silence' /\ Pushed'
    BY DEF Silence, Pushed, Speaking, IsActive, InRoom
<1> QED BY <1>2, <1>3, <1>4, <1>5, <1>6, <1>7, <1>8

LEMMA ReceiveVoiceStep ==
    ASSUME Relay, ConsoleInv, NEW patch, ReceiveVoice(patch)
    PROVE  Relay' /\ ConsoleInv'
<1>1. Effect(Mine)
    BY NoEffect DEF ReceiveVoice
<1> USE DEF ReceiveVoice, Serve, ConsoleInv, world
<1>2. Relay'
    BY <1>1, EffectRooms
<1>3. Jobs'
    BY DEF Jobs, InRoom, Media
<1>4. Where'
    BY <1>1, EffectRooms DEF Where, InRoom
<1>5. Senders'
    BY DEF Senders, IsActive
<1>6. Places'
    BY <1>1, EffectRooms DEF Places, Starting
<1>7. Screens'
    BY <1>1, EffectRooms DEF Screens, Shown, Starting
<1>8. Silence' /\ Pushed'
    <2> HIDE DEF Speaking
    <2>1. \/ Speaking(localVoice') = IsActive("Voice") /\ pc' = "state" /\ job' = "state"
          \/ Speaking(localVoice') /\ pc' = "resolve" /\ job' = "Voice"
          \/ ~Speaking(localVoice') /\ pc' = "locate" /\ job' = "Voice"
        OBVIOUS
    <2>2. IsActive("Voice")' = IsActive("Voice")
        BY DEF IsActive
    <2> QED BY <2>1, <2>2 DEF Silence, Pushed, InRoom
<1> QED BY <1>2, <1>3, <1>4, <1>5, <1>6, <1>7, <1>8

-----------------------------------------------------------------------------
(***************************************************************************)
(* Channel selection.                                                      *)
(***************************************************************************)
LEMMA FindChannelStep ==
    ASSUME Relay, ConsoleInv, FindChannel
    PROVE  Relay' /\ ConsoleInv'
<1>1. Effect(Mine)
    BY NoEffect DEF FindChannel
<1> USE DEF FindChannel, Goto, Done, ConsoleInv, console, world
<1>2. Relay'
    BY <1>1, EffectRooms
<1>3. Jobs'
    BY DEF Jobs, InRoom
<1>4. Where'
    BY <1>1, EffectRooms, PastRoomsType DEF Where, Jobs, InRoom, Media
<1>5. Senders'
    BY DEF Senders, Jobs, IsActive
<1>6. Places'
    BY <1>1, EffectRooms, PastRoomsType, MineInRooms DEF Places, Jobs, Starting, Media
<1>7. Screens'
    BY <1>1, EffectRooms DEF Screens, Shown, Starting
<1>8. Silence' /\ Pushed'
    BY DEF Silence, Pushed, Jobs, Speaking, IsActive, InRoom
<1> QED BY <1>2, <1>3, <1>4, <1>5, <1>6, <1>7, <1>8

\* Whoever leaves the previous channel, or finds it gone, publishes nothing.
LEMMA LeavePreviousStep ==
    ASSUME Relay, ConsoleInv, LeavePrevious
    PROVE  Relay' /\ ConsoleInv'
<1>1. Effect({x \in Mine : x.room # selected}) /\ Goto("enter")
    BY CallLeave DEF LeavePrevious, Call, ConsoleInv, Places
<1>2. pc = "leave" /\ job = "select" /\ Mine' = {}
    <2>1. pc = "leave" /\ job = "select"
        BY DEF LeavePrevious, ConsoleInv, Jobs
    <2>2. \A x \in Mine : x.room = selected
        BY <2>1 DEF ConsoleInv, Places, Media
    <2>3. Mine' = {x \in Mine : x.room # selected}
        BY <1>1, EffectRooms
    <2> QED BY <2>1, <2>2, <2>3
<1> USE DEF Goto, ConsoleInv, console, world
<1>0. UNCHANGED <<asked, console, world>>
    BY DEF LeavePrevious
<1>3. Jobs'
    BY <1>0, <1>1, <1>2 DEF Jobs, InRoom
<1>4. Relay' /\ Where'
    BY <1>0, <1>1, <1>2, EffectRooms DEF Where, InRoom, Media
<1>5. Senders'
    BY <1>0, <1>1, <1>2 DEF Senders, IsActive
<1>6. Places' /\ Screens'
    BY <1>2 DEF Places, Screens, Shown
<1>8. Silence' /\ Pushed'
    BY <1>0, <1>1, <1>2 DEF Silence, Pushed, Speaking, IsActive, InRoom
<1> QED BY <1>3, <1>4, <1>5, <1>6, <1>8

LEMMA EnterStep ==
    ASSUME Relay, ConsoleInv, Enter
    PROVE  Relay' /\ ConsoleInv'
<1>1. Effect(Mine) /\ (Goto("push") \/ Done("error"))
    BY JoinEffect, NoEffect DEF Enter, Call
<1>0. pc = "enter" /\ UNCHANGED <<asked, console, world>>
    BY DEF Enter
<1> USE DEF Goto, Done, ConsoleInv, console, world
<1>3. Jobs'
    BY <1>0, <1>1 DEF Jobs, InRoom
<1>4. Relay' /\ Where'
    BY <1>0, <1>1, EffectRooms DEF Where, InRoom
<1>5. Senders'
    BY <1>0, <1>1 DEF Senders, IsActive
<1>6. Places'
    BY <1>0, <1>1, EffectRooms DEF Places, Starting
<1>7. Screens'
    BY <1>0, <1>1, EffectRooms DEF Screens, Shown, Starting
<1>8. Silence' /\ Pushed'
    BY <1>0, <1>1 DEF Silence, Pushed, Speaking, IsActive, InRoom
<1> QED BY <1>3, <1>4, <1>5, <1>6, <1>7, <1>8

\* What set_voice_state stores is what it sends: a user that speaks is not muted.
LEMMA VoiceIsStored ==
    ASSUME NEW r, SetVoiceState(Console, r, VoiceRequest)
    PROVE  [room |-> r, user |-> Me, flags |-> VoiceRequest] \in voice'
<1>1. [VoiceRequest EXCEPT !.speaking = @ /\ ~VoiceRequest.muted] = VoiceRequest
    <2>1. (Speaking(localVoice) /\ ~localVoice.muted) = Speaking(localVoice)
        BY DEF Speaking
    <2> QED BY <2>1 DEF VoiceRequest
<1> QED BY <1>1 DEF SetVoiceState, Me

LEMMA PushVoiceStep ==
    ASSUME Relay, ConsoleInv, PushVoice
    PROVE  Relay' /\ ConsoleInv'
<1>0. pc = "push" /\ UNCHANGED <<asked, localVoice, sharing, task, world>>
    BY DEF PushVoice
<1>1. Effect(Mine)
    BY SpeakEffect, NoEffect DEF PushVoice, Call
<1>2. \/ job = "select" /\ Goto("state") /\ selected' = room
      \/ job \in Media /\ Goto("publish") /\ UNCHANGED selected
      \/ /\ job = "state" /\ UNCHANGED selected /\ KeepRoomJoined /\ Done("ok")
         /\ SetVoiceState(Console, room, VoiceRequest)
      \/ job = "state" /\ UNCHANGED selected /\ ~KeepRoomJoined /\ Goto("depart")
      \/ Done("error") /\ UNCHANGED selected
    BY DEF PushVoice, Call
<1> USE DEF Goto, Done, ConsoleInv, world
<1>3. Jobs'
    BY <1>0, <1>2 DEF Jobs, InRoom
<1>4. Relay' /\ Where'
    BY <1>0, <1>1, <1>2, EffectRooms, PastRoomsType DEF Where, Jobs, InRoom, KeepRoomJoined, Media
<1>5. Senders'
    BY <1>0, <1>2, PastRoomsType DEF Senders, Jobs, Where, InRoom, IsActive
<1>6. Places'
    BY <1>0, <1>1, <1>2, EffectRooms DEF Places, Starting
<1>7. Screens'
    BY <1>0, <1>1, <1>2, EffectRooms DEF Screens, Shown, Starting
<1>8. Silence'
    BY <1>0, <1>2 DEF Silence, Jobs, Speaking, IsActive, InRoom
<1>9. Pushed'
    <2> SUFFICES ASSUME pc' = "idle", answer' = "ok", selected' \in rooms'
                 PROVE  [room |-> selected, user |-> Me, flags |-> VoiceRequest]' \in voice'
        BY DEF Pushed
    <2>1. /\ job = "state" /\ selected' = selected
          /\ SetVoiceState(Console, room, VoiceRequest)
        BY <1>2
    <2>2. selected \in rooms'
        BY <2>1
    <2>3. selected = room
        BY <1>0, <1>1, <2>1, <2>2, EffectRooms DEF Where
    <2>4. Me' = Me /\ VoiceRequest' = VoiceRequest
        BY <1>0, <1>1, EffectRooms DEF VoiceRequest, Speaking
    <2>5. [room |-> room, user |-> Me, flags |-> VoiceRequest] \in voice'
        BY <2>1, VoiceIsStored
    <2> QED BY <2>1, <2>3, <2>4, <2>5
<1> QED BY <1>3, <1>4, <1>5, <1>6, <1>7, <1>8, <1>9

-----------------------------------------------------------------------------
(***************************************************************************)
(* Starting.                                                               *)
(***************************************************************************)
LEMMA ResolveStep ==
    ASSUME Relay, ConsoleInv, Resolve
    PROVE  Relay' /\ ConsoleInv'
<1>1. Effect(Mine)
    BY NoEffect DEF Resolve
<1>0. pc = "resolve" /\ UNCHANGED <<asked, console, world>> /\ job \in Media
    BY DEF Resolve, ConsoleInv, Jobs
<1>2. \/ \E r \in rooms : GotoWith("enter", r) /\ selected \in {r, NoRoom}
      \/ selected = NoRoom /\ Goto("create")
      \/ Done("error")
    BY NamedRooms DEF Resolve
<1> USE DEF Goto, GotoWith, Done, ConsoleInv, console, world
<1>3. Jobs'
    BY <1>0, <1>2 DEF Jobs, InRoom
<1>4. Relay' /\ Where'
    BY <1>0, <1>1, <1>2, EffectRooms, PastRoomsType DEF Where, InRoom, Media
<1>5. Senders'
    BY <1>0, <1>2 DEF Senders, IsActive, Media
<1>6. Places'
    BY <1>0, <1>1, <1>2, EffectRooms DEF Places, Starting, Media
<1>7. Screens'
    BY <1>0, <1>1, <1>2, EffectRooms DEF Screens, Shown, Starting
<1>8. Silence' /\ Pushed'
    BY <1>0, <1>2 DEF Silence, Pushed, Speaking, IsActive, InRoom
<1> QED BY <1>3, <1>4, <1>5, <1>6, <1>7, <1>8

LEMMA CreateStep ==
    ASSUME Relay, ConsoleInv, Create
    PROVE  Relay' /\ ConsoleInv'
<1>0. pc = "create" /\ UNCHANGED <<asked, console, config, connected>> /\ job \in Media
    BY DEF Create, ConsoleInv, Jobs
<1>1. Effect(Mine)
    BY CreateEffect, NoEffect DEF Create, Call
<1>2. \/ GotoWith("enter", nextRoomId) /\ nextRoomId \in PastRooms'
      \/ Done("error")
    <2>1. nextRoomId' = nextRoomId + 1 => nextRoomId \in PastRooms'
        BY DEF PastRooms, Relay
    <2> QED BY <2>1, CreateEffect DEF Create, Call
<1> USE DEF Goto, GotoWith, Done, ConsoleInv, console, world
<1>3. Jobs'
    BY <1>0, <1>2 DEF Jobs, InRoom
<1>4. Relay' /\ Where'
    BY <1>0, <1>1, <1>2, EffectRooms, PastRoomsType DEF Where, InRoom, Media
<1>5. Senders'
    BY <1>0, <1>2 DEF Senders, IsActive, Media
<1>6. Places'
    BY <1>0, <1>1, <1>2, EffectRooms DEF Places, Starting, Media
<1>7. Screens'
    BY <1>0, <1>1, <1>2, EffectRooms DEF Screens, Shown, Starting
<1>8. Silence' /\ Pushed'
    BY <1>0, <1>2 DEF Silence, Pushed, Speaking, IsActive, InRoom
<1> QED BY <1>3, <1>4, <1>5, <1>6, <1>7, <1>8

\* A failed start goes on to leave the room, except that voice stays in a room
\* that is the selected one.
LEMMA GivingUp ==
    ASSUME Jobs, Where, Senders, job \in Media, pc \in InRoom, GiveUp
    PROVE  \/ Goto("retreat")
           \/ job = "Voice" /\ selected = room /\ Done("error")
<1>1. KeepRoomJoined => selected # NoRoom
    BY DEF KeepRoomJoined, Senders
<1>2. selected \in {room, NoRoom}
    BY DEF Where
<1> QED BY <1>1, <1>2 DEF GiveUp, Media

\* The step of a start that goes on or gives up, and may have published.
LEMMA StartStep ==
    ASSUME Relay, ConsoleInv, UNCHANGED <<asked, console, world>>, job \in Media,
           pc \in Starting \cup {"publish"},
           \/ \E label \in Starting : Goto(label)
           \/ job = "Voice" /\ selected = room /\ Done("error"),
           NEW M, Effect(M), M \subseteq Mine \cup {[room |-> room, stream |-> StreamOf[job]]},
           ~connected => M = {}
    PROVE  Relay' /\ ConsoleInv'
<1> USE DEF Goto, Done, ConsoleInv, console, world
<1>1. StreamOf["Screen"] # StreamOf["Voice"]
    BY UiAssumption
<1>2. /\ Mine' = M
      /\ \A x \in M : x \in Mine \/ (x.room = room /\ x.stream = StreamOf[job])
    BY EffectRooms
<1>3. Jobs'
    BY DEF Jobs, Starting, InRoom
<1>4. Relay' /\ Where'
    BY EffectRooms DEF Where, Starting, InRoom, Media
<1>5. Senders'
    BY DEF Senders, IsActive, Starting, Media
<1>6. Places'
    BY <1>2 DEF Places, Starting, Media
<1>7. Screens'
    BY <1>1, <1>2 DEF Screens, Shown, Starting, Media
<1>8. Silence'
    BY DEF Silence, Starting, Speaking, IsActive, InRoom
<1>9. Pushed'
    BY DEF Pushed, Starting
<1> QED BY <1>3, <1>4, <1>5, <1>6, <1>7, <1>8, <1>9

LEMMA PublishStep ==
    ASSUME Relay, ConsoleInv, Publish
    PROVE  Relay' /\ ConsoleInv'
<1>1. pc = "publish" /\ UNCHANGED <<asked, console, world>> /\ job \in Media
    BY DEF Publish, ConsoleInv, Jobs, InRoom
<1>2. Goto("configure") \/ Goto("retreat") \/ (job = "Voice" /\ selected = room /\ Done("error"))
    BY <1>1, GivingUp DEF Publish, Call, ConsoleInv, InRoom
<1>3. CASE connected /\ PublishStream(Console, room, StreamOf[job], CodecOf[job], job)
    BY <1>1, <1>2, <1>3, PublishEffect, StartStep DEF Starting
<1>4. CASE UNCHANGED vars
    BY <1>1, <1>2, <1>4, NoEffect, StartStep DEF Starting, ConsoleInv, Places
<1> QED BY <1>3, <1>4 DEF Publish, Call

LEMMA ConfigureStep ==
    ASSUME Relay, ConsoleInv, Configure
    PROVE  Relay' /\ ConsoleInv'
<1>1. pc = "configure" /\ UNCHANGED <<asked, console, world>> /\ job \in Media
    BY DEF Configure, ConsoleInv, Jobs, InRoom
<1>2. Goto("bitrate") \/ Goto("retreat") \/ (job = "Voice" /\ selected = room /\ Done("error"))
    BY <1>1, GivingUp DEF Configure, Call, ConsoleInv, InRoom
<1>3. Effect(Mine)
    BY ConfigEffect, NoEffect DEF Configure, Call
<1> QED BY <1>1, <1>2, <1>3, StartStep DEF Starting, ConsoleInv, Places

LEMMA SetBitrateStep ==
    ASSUME Relay, ConsoleInv, SetBitrate
    PROVE  Relay' /\ ConsoleInv'
<1>1. pc = "bitrate" /\ UNCHANGED <<asked, console, world>> /\ job \in Media
    BY DEF SetBitrate, ConsoleInv, Jobs, InRoom
<1>2. Goto("framerate") \/ Goto("withdraw")
    BY DEF SetBitrate, Call
<1>3. Effect(Mine)
    BY BitrateEffect, NoEffect DEF SetBitrate, Call
<1> QED BY <1>1, <1>2, <1>3, StartStep DEF Starting, ConsoleInv, Places

LEMMA WithdrawStep ==
    ASSUME Relay, ConsoleInv, Withdraw
    PROVE  Relay' /\ ConsoleInv'
<1>1. pc = "withdraw" /\ UNCHANGED <<asked, console, world>> /\ job \in Media
    BY DEF Withdraw, ConsoleInv, Jobs, InRoom
<1>2. Effect(Mine \ {[room |-> room, stream |-> StreamOf[job]]}) /\ GiveUp
    BY CallUnpublish DEF Withdraw, Call, ConsoleInv, Places
<1>3. Goto("retreat") \/ (job = "Voice" /\ selected = room /\ Done("error"))
    BY <1>1, <1>2, GivingUp DEF ConsoleInv, InRoom
<1> QED BY <1>1, <1>2, <1>3, StartStep DEF Starting, ConsoleInv, Places

\* The start succeeds: its room becomes the selected one, and the task's.
LEMMA SetFramerateStep ==
    ASSUME Relay, ConsoleInv, SetFramerate
    PROVE  Relay' /\ ConsoleInv'
<1>1. pc = "framerate" /\ UNCHANGED <<asked, localVoice, world>> /\ job \in Media
    BY DEF SetFramerate, ConsoleInv, Jobs, InRoom
<1>2. Effect(Mine)
    BY FramerateEffect, NoEffect DEF SetFramerate, Call
<1>3. CASE Goto("withdraw") /\ UNCHANGED <<selected, sharing, task>>
    BY <1>1, <1>2, <1>3, StartStep DEF Starting, console, ConsoleInv, Places
<1>4. CASE /\ Goto("state") /\ selected' = room
           /\ sharing' = (sharing \/ job = "Screen")
           /\ task' = [task EXCEPT ![job] = [state |-> "running", room |-> room]]
    <2> USE <1>1, <1>4 DEF Goto, ConsoleInv, world
    <2>1. room \in PastRooms /\ room \in Nat /\ room # NoRoom /\ selected \in {room, NoRoom}
        BY PastRoomsType DEF Where, InRoom
    <2>2. /\ task \in [Media -> [state : {"none", "running", "failed"}, room : Nat]]
          /\ \A k \in Media : task'[k] = IF k = job THEN [state |-> "running", room |-> room]
                                                    ELSE task[k]
        BY DEF Jobs
    <2>3. Jobs'
        BY <2>1 DEF Jobs, InRoom
    <2>4. Relay' /\ Where'
        BY <1>2, <2>1, EffectRooms DEF Where, InRoom
    <2>5. Senders'
        BY <2>1, <2>2 DEF Senders, IsActive
    <2>6. Places'
        BY <1>2, <2>1, EffectRooms, MineInRooms, PastRoomsType DEF Places, Starting
    <2>7. Screens'
        <3>1. Shown' => Shown
            BY <1>2, EffectRooms DEF Shown
        <3>2. sharing \/ job = "Screen" => sharing'
            OBVIOUS
        <3>3. pc' = "state"
            OBVIOUS
        <3> QED BY <3>1, <3>2, <3>3 DEF Screens
    <2>8. Silence' /\ Pushed'
        BY <2>2 DEF Silence, Pushed, Speaking, IsActive, InRoom, Media
    <2> QED BY <2>3, <2>4, <2>5, <2>6, <2>7, <2>8
<1> QED BY <1>3, <1>4 DEF SetFramerate, Call

\* Leaving the room of a failed start takes down all the console publishes.
LEMMA RetreatStep ==
    ASSUME Relay, ConsoleInv, Retreat
    PROVE  Relay' /\ ConsoleInv'
<1>1. pc = "retreat" /\ UNCHANGED <<asked, console, world>> /\ job \in Media
    BY DEF Retreat, ConsoleInv, Jobs, InRoom
<1>2. Effect({x \in Mine : x.room # room}) /\ Done("error")
    BY CallLeave DEF Retreat, Call, ConsoleInv, Places
<1>3. Mine' = {}
    <2>1. \A x \in Mine : x.room = room
        <3>1. selected \in {room, NoRoom}
            BY <1>1 DEF ConsoleInv, Where, InRoom
        <3>2. \A x \in Mine : x.room # NoRoom
            BY MineInRooms, PastRoomsType
        <3> QED BY <3>1, <3>2 DEF ConsoleInv, Places
    <2>2. Mine' = {x \in Mine : x.room # room}
        BY <1>2, EffectRooms
    <2> QED BY <2>1, <2>2
<1> USE <1>1, <1>2 DEF Done, ConsoleInv, console, world
<1>4. Jobs'
    BY DEF Jobs, InRoom
<1>5. Relay' /\ Where'
    BY EffectRooms DEF Where, InRoom
<1>6. Senders'
    BY DEF Senders, IsActive
<1>7. Places' /\ Screens'
    BY <1>3 DEF Places, Screens, Shown
<1>8. Silence' /\ Pushed'
    BY DEF Silence, Pushed, Speaking, IsActive, InRoom
<1> QED BY <1>4, <1>5, <1>6, <1>7, <1>8

-----------------------------------------------------------------------------
(***************************************************************************)
(* Stopping.                                                               *)
(***************************************************************************)
LEMMA LocateStep ==
    ASSUME Relay, ConsoleInv, Locate
    PROVE  Relay' /\ ConsoleInv'
<1>1. pc = "locate" /\ UNCHANGED <<asked, console, world>> /\ job \in Media /\ Effect(Mine)
    BY NoEffect DEF Locate, ConsoleInv, Jobs
<1>2. \/ \E r : GotoWith("halt", r) /\ (Mine # {} => r = selected)
      \/ Done("error")
    <2>1. \A x \in Mine : x.room \in rooms /\ x.room = selected
        BY <1>1, MineInRooms DEF ConsoleInv, Places, Starting
    <2>2. \A r \in ChannelsForState : Mine # {} => r = selected
        BY <2>1 DEF ChannelsForState
    <2> QED BY <2>1, <2>2 DEF Locate
<1> USE <1>1, <1>2 DEF GotoWith, Done, ConsoleInv, console, world
<1>3. Jobs'
    BY DEF Jobs, InRoom
<1>4. Relay' /\ Where'
    BY EffectRooms DEF Where, InRoom
<1>5. Senders'
    BY DEF Senders, IsActive
<1>6. Places'
    BY EffectRooms DEF Places, Starting
<1>7. Screens'
    BY EffectRooms DEF Screens, Shown, Starting
<1>8. Silence' /\ Pushed'
    BY DEF Silence, Pushed, Speaking, IsActive, InRoom
<1> QED BY <1>3, <1>4, <1>5, <1>6, <1>7, <1>8

LEMMA HaltStep ==
    ASSUME Relay, ConsoleInv, Halt
    PROVE  Relay' /\ ConsoleInv'
<1>1. /\ pc = "halt" /\ UNCHANGED <<asked, selected, localVoice, sharing, world>>
      /\ job \in Media /\ Effect(Mine) /\ task' = [task EXCEPT ![job] = NoTask]
    BY NoEffect DEF Halt, ConsoleInv, Jobs
<1>2. \/ room = NoRoom /\ Goto("stopped")
      \/ room # NoRoom /\ Goto("unpublish")
      \/ Done("error")
    BY DEF Halt
<1>3. /\ task' \in [Media -> [state : {"none", "running", "failed"}, room : Nat]]
      /\ \A k \in Media : task'[k] = IF k = job THEN NoTask ELSE task[k]
    BY <1>1 DEF ConsoleInv, Jobs, NoTask, NoRoom
<1> USE <1>1, <1>2 DEF Goto, Done, ConsoleInv, world
<1>4. Jobs'
    BY <1>3 DEF Jobs, InRoom
<1>5. Relay' /\ Where'
    BY EffectRooms DEF Where, InRoom
<1>6. Senders'
    BY <1>3 DEF Senders, IsActive, NoTask
<1>7. Places'
    BY EffectRooms DEF Places, Starting
<1>8. Screens'
    <2>1. room = NoRoom => Mine = {}
        BY MineInRooms, PastRoomsType DEF Places, Starting
    <2> QED BY <2>1, EffectRooms DEF Screens, Shown, Starting
<1>9. Silence' /\ Pushed'
    BY <1>3 DEF Silence, Pushed, Speaking, IsActive, InRoom, NoTask, Media
<1> QED BY <1>4, <1>5, <1>6, <1>7, <1>8, <1>9

\* After the stream is taken down, or found gone, it is not published.
LEMMA UnpublishStep ==
    ASSUME Relay, ConsoleInv, Unpublish
    PROVE  Relay' /\ ConsoleInv'
<1> DEFINE M == Mine \ {[room |-> room, stream |-> StreamOf[job]]}
<1>1. pc = "unpublish" /\ UNCHANGED <<asked, console, world>> /\ job \in Media
    BY DEF Unpublish, ConsoleInv, Jobs
<1>2. Effect(M)
    BY CallUnpublish DEF Unpublish, Call, ConsoleInv, Places
<1>3. Mine' = M /\ (Goto("stopped") \/ Done("error"))
    BY <1>2, EffectRooms DEF Unpublish, Call
<1>4. job = "Screen" => \A x \in M : x.stream # StreamOf["Screen"]
    <2>1. \A x \in Mine : x.room = room /\ x = [room |-> x.room, stream |-> x.stream]
        BY <1>1 DEF ConsoleInv, Places, Starting, Mine
    <2> QED BY <2>1
<1> USE <1>1, <1>2, <1>3 DEF Goto, Done, ConsoleInv, console, world
<1>5. Jobs'
    BY DEF Jobs, InRoom
<1>6. Relay' /\ Where'
    BY EffectRooms DEF Where, InRoom
<1>7. Senders'
    BY DEF Senders, IsActive
<1>8. Places'
    BY <1>3 DEF Places, Starting
<1>9. Screens'
    BY <1>3, <1>4 DEF Screens, Shown, Starting
<1>10. Silence' /\ Pushed'
    BY DEF Silence, Pushed, Speaking, IsActive, InRoom
<1> QED BY <1>5, <1>6, <1>7, <1>8, <1>9, <1>10

LEMMA StoppedStep ==
    ASSUME Relay, ConsoleInv, Stopped
    PROVE  Relay' /\ ConsoleInv'
<1>1. /\ pc = "stopped" /\ UNCHANGED <<asked, selected, localVoice, task, world>>
      /\ job \in Media /\ Effect(Mine) /\ sharing' = (sharing /\ job # "Screen") /\ Goto("state")
    BY NoEffect DEF Stopped, ConsoleInv, Jobs
<1>2. sharing' => sharing
    BY <1>1
<1> USE <1>1 DEF Goto, ConsoleInv, world
<1>3. Jobs'
    BY DEF Jobs, InRoom
<1>4. Relay' /\ Where'
    BY EffectRooms DEF Where, InRoom
<1>5. Senders'
    BY <1>2 DEF Senders, IsActive
<1>6. Places'
    BY EffectRooms DEF Places, Starting
<1>7. Screens'
    <2>1. Shown' => Shown
        BY EffectRooms DEF Shown
    <2>2. sharing /\ job # "Screen" => sharing'
        OBVIOUS
    <2>3. pc' = "state" /\ pc \notin Starting
        BY DEF Starting
    <2> QED BY <1>1, <2>1, <2>2, <2>3 DEF Screens
<1>8. Silence' /\ Pushed'
    BY DEF Silence, Pushed, Speaking, IsActive, InRoom
<1> QED BY <1>3, <1>4, <1>5, <1>6, <1>7, <1>8

-----------------------------------------------------------------------------
(***************************************************************************)
(* The answer.                                                             *)
(***************************************************************************)
LEMMA BuildStateStep ==
    ASSUME Relay, ConsoleInv, BuildState
    PROVE  Relay' /\ ConsoleInv'
<1>1. pc = "state" /\ UNCHANGED <<asked, console, world>> /\ Effect(Mine)
    BY NoEffect DEF BuildState
<1>2. \/ rooms' = {} /\ Done("ok")
      \/ /\ room' \in PastRooms /\ selected \in {room', NoRoom} \cup (PastRooms \ rooms)
         /\ job' = "state" /\ pc' = "enter"
      \/ Done("error")
    BY StateChannel, PastRoomsType DEF BuildState, ConsoleInv, vars, roomVars
<1> USE <1>1, <1>2 DEF Done, ConsoleInv, console, world
<1>3. Jobs'
    BY DEF Jobs, InRoom
<1>4. Relay' /\ Where'
    BY EffectRooms DEF Where, InRoom, Media
<1>5. Senders'
    BY DEF Senders, IsActive
<1>6. Places'
    BY EffectRooms DEF Places, Starting
<1>7. Screens'
    BY EffectRooms DEF Screens, Shown, Starting
<1>8. Silence' /\ Pushed'
    BY DEF Silence, Pushed, Speaking, IsActive, InRoom
<1> QED BY <1>3, <1>4, <1>5, <1>6, <1>7, <1>8

LEMMA DepartStep ==
    ASSUME Relay, ConsoleInv, Depart
    PROVE  Relay' /\ ConsoleInv'
<1>1. pc = "depart" /\ UNCHANGED <<asked, console, world>> /\ selected = NoRoom
    BY DEF Depart, ConsoleInv, Where
<1>2. Effect({x \in Mine : x.room # room}) /\ (Done("ok") \/ Done("error"))
    BY CallLeave DEF Depart, Call, ConsoleInv, Places
<1>3. Mine' \subseteq Mine
    BY <1>2, EffectRooms
<1>4. NoRoom \notin rooms'
    BY <1>2, EffectRooms
<1> USE <1>1, <1>2 DEF Done, ConsoleInv, console, world
<1>5. Jobs'
    BY DEF Jobs, InRoom
<1>6. Relay' /\ Where'
    BY EffectRooms DEF Where, InRoom
<1>7. Senders'
    BY DEF Senders, IsActive
<1>8. Places'
    BY <1>3 DEF Places, Starting
<1>9. Screens'
    BY <1>3 DEF Screens, Shown, Starting
<1>10. Silence' /\ Pushed'
    BY <1>4 DEF Silence, Pushed, Speaking, IsActive, InRoom
<1> QED BY <1>5, <1>6, <1>7, <1>8, <1>9, <1>10

-----------------------------------------------------------------------------
(***************************************************************************)
(* Everything else.                                                        *)
(***************************************************************************)
LEMMA TaskFailsStep ==
    ASSUME Relay, ConsoleInv, NEW k \in Media, TaskFails(k)
    PROVE  Relay' /\ ConsoleInv'
<1>1. /\ UNCHANGED <<thread, selected, localVoice, sharing, world>> /\ Effect(Mine)
      /\ task[k].state = "running" /\ task' = [task EXCEPT ![k].state = "failed"]
    BY NoEffect DEF TaskFails
<1>2. /\ task' \in [Media -> [state : {"none", "running", "failed"}, room : Nat]]
      /\ \A j \in Media : /\ (task'[j].state = "none") = (task[j].state = "none")
                          /\ task'[j].room = task[j].room
    BY <1>1 DEF ConsoleInv, Jobs
<1>3. UNCHANGED voice
    BY DEF TaskFails, vars, roomVars
<1>4. UNCHANGED <<rooms, participants>>
    BY DEF TaskFails, vars, roomVars
<1> USE <1>1 DEF thread, ConsoleInv, world
<1>5. Jobs'
    BY <1>2 DEF Jobs, InRoom
<1>6. Relay' /\ Where'
    BY <1>4, EffectRooms DEF Where
<1>7. Senders'
    BY <1>2 DEF Senders, IsActive
<1>8. Places' /\ Screens'
    BY EffectRooms DEF Places, Screens, Shown
<1>9. Silence'
    BY <1>2 DEF Silence, Speaking, IsActive, Media
<1>10. Pushed'
    BY <1>3, <1>4, EffectRooms DEF Pushed, IsParticipant, VoiceRequest, Speaking
<1> QED BY <1>5, <1>6, <1>7, <1>8, <1>9, <1>10

LEMMA LoseConnectionStep ==
    ASSUME Relay, ConsoleInv, LoseConnection
    PROVE  Relay' /\ ConsoleInv'
<1>1. UNCHANGED <<thread, console>> /\ connected' = FALSE /\ Effect({})
    BY DisconnectEffect DEF LoseConnection
<1> USE <1>1 DEF thread, ConsoleInv, console
<1>2. Jobs'
    BY DEF Jobs
<1>3. Relay' /\ Where'
    BY EffectRooms DEF Where
<1>4. Senders'
    BY DEF Senders, IsActive
<1>5. Places' /\ Screens'
    BY EffectRooms DEF Places, Screens, Shown
<1>6. Silence' /\ Pushed'
    BY DEF Silence, Pushed, Speaking, IsActive
<1> QED BY <1>2, <1>3, <1>4, <1>5, <1>6

\* A room of the command line that comes to exist is not one the console is in.
LEMMA PeerStep ==
    ASSUME Relay, ConsoleInv, PeerEffect, UNCHANGED <<thread, console, connected>>
    PROVE  Relay' /\ ConsoleInv'
<1>1. Effect(Mine)
    BY DEF PeerEffect
<1> USE <1>1 DEF thread, ConsoleInv, console
<1>2. Jobs'
    BY DEF Jobs
<1>3. Relay' /\ Where'
    BY EffectRooms DEF Where
<1>4. Senders'
    BY DEF Senders, IsActive
<1>5. Places' /\ Screens'
    BY EffectRooms DEF Places, Screens, Shown
<1>6. Silence'
    BY DEF Silence, Speaking, IsActive
<1>7. Pushed'
    <2> SUFFICES ASSUME pc = "idle", answer = "ok", connected, selected \in rooms'
                 PROVE  \/ [room |-> selected, user |-> Me, flags |-> VoiceRequest] \in voice'
                        \/ selected = ArgRoom /\ ~IsParticipant(selected, Me)'
        <3>1. Me' = Me /\ VoiceRequest' = VoiceRequest
            BY EffectRooms DEF VoiceRequest, Speaking
        <3> QED BY <3>1 DEF Pushed
    <2>1. CASE selected \in rooms
        BY <2>1 DEF Pushed, PeerEffect
    <2>2. CASE selected \notin rooms
        <3>1. selected = ArgRoom
            BY <2>2, EffectRooms DEF Where
        <3>2. ~IsParticipant(selected, Me)
            BY <2>2 DEF Relay, IsParticipant
        <3> QED BY <3>1, <3>2 DEF PeerEffect
    <2> QED BY <2>1, <2>2
<1> QED BY <1>2, <1>3, <1>4, <1>5, <1>6, <1>7

LEMMA StutterStep ==
    ASSUME Relay, ConsoleInv, UNCHANGED uiVars
    PROVE  Relay' /\ ConsoleInv'
<1>1. PeerEffect
    BY NoEffect DEF PeerEffect, uiVars, vars, roomVars, sessionVars, IsParticipant, Me
<1> QED BY <1>1, PeerStep DEF uiVars, world

LEMMA ConsoleNext == Relay /\ ConsoleInv /\ [UiNext]_uiVars => Relay' /\ ConsoleInv'
<1> SUFFICES ASSUME Relay, ConsoleInv, [UiNext]_uiVars PROVE Relay' /\ ConsoleInv'
    OBVIOUS
<1>1. CASE Receive
    BY <1>1, ReceiveSelectStep, ReceiveShareStep, ReceiveVoiceStep, ReceiveStateStep DEF Receive
<1>2. CASE ThreadStep
    BY <1>2, FindChannelStep, LeavePreviousStep, EnterStep, PushVoiceStep,
       ResolveStep, CreateStep, PublishStep, ConfigureStep, SetBitrateStep, SetFramerateStep,
       WithdrawStep, RetreatStep, LocateStep, HaltStep, UnpublishStep, StoppedStep,
       BuildStateStep, DepartStep DEF ThreadStep
<1>3. CASE \E k \in Media : TaskFails(k)
    BY <1>3, TaskFailsStep
<1>4. CASE LoseConnection
    BY <1>4, LoseConnectionStep
<1>5. ASSUME NEW c \in Sessions \ {Console}, PeerCreates(c) PROVE Relay' /\ ConsoleInv'
    BY <1>5, PeerCreateEffect, PeerStep DEF PeerCreates
<1>6. ASSUME NEW c \in Sessions \ {Console}, PeerRequest(c) PROVE Relay' /\ ConsoleInv'
    BY <1>6, PeerRequestEffect, PeerStep DEF PeerRequest, world
<1>7. CASE UNCHANGED uiVars
    BY <1>7, StutterStep
<1> QED BY <1>1, <1>2, <1>3, <1>4, <1>5, <1>6, <1>7 DEF UiNext

\* The inductive invariant of the console.
LEMMA ConsoleHolds == UiSpec => [](Relay /\ ConsoleInv)
BY ConsoleInit, ConsoleNext, PTL DEF UiSpec

-----------------------------------------------------------------------------
\* No failed start, failed stop or channel switch of the console (start_ui_screen_share,
\* stop_ui_screen_share, apply_ui_channel_selection) leaves the screen published
\* while the console shows no share, whatever the other clients do and whenever
\* an answer is late.
THEOREM NoShareIsHidden == UiSpec => []NoHiddenShare
<1>1. ConsoleInv => NoHiddenShare
    <2>1. Publishes("Screen") => Shown
        BY PublishedIsMine DEF Publishes, Shown
    <2> QED BY <2>1 DEF ConsoleInv, Screens, NoHiddenShare, Starting
<1> QED BY <1>1, ConsoleHolds, PTL

\* No request of the console moves it to another channel under a running media
\* task: apply_ui_channel_selection is refused, and a start stays in the channel.
THEOREM SendersStay == UiSpec => []SendersStayInChannel
<1>1. ConsoleInv => SendersStayInChannel
    BY DEF ConsoleInv, Senders, SendersStayInChannel
<1> QED BY <1>1, ConsoleHolds, PTL

\* Between requests all the console publishes is in the selected channel: leaving
\* the previous channel is not checked for success, and does not have to be.
THEOREM PublishesWhereSelected == UiSpec => []PublishesInSelectedChannel
<1>1. ConsoleInv => PublishesInSelectedChannel
    <2>1. \A p \in published : p.publisher = Me => \E x \in Mine : x.room = p.room
        BY PublishedIsMine
    <2> QED BY <2>1 DEF ConsoleInv, Places, PublishesInSelectedChannel, Starting
<1> QED BY <1>1, ConsoleHolds, PTL

\* After a request that went well the relay has the voice state the console shows
\* (set_voice_state), and a user who silenced himself has no task that sends
\* (apply_ui_voice_media_state).
THEOREM VoiceIsPushed == UiSpec => []VoiceStateIsPushed
<1>1. ConsoleInv => VoiceStateIsPushed
    BY DEF ConsoleInv, Pushed, Silence, VoiceStateIsPushed
<1> QED BY <1>1, ConsoleHolds, PTL

=============================================================================
