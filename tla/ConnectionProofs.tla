-------------------------- MODULE ConnectionProofs --------------------------
(***************************************************************************)
(* The two ends of the connections.  The relay's: the steps of connections *)
(* are steps of the control state, so that what is proved of it holds      *)
(* around any interleaving of tasks and cleanups; a connection without     *)
(* late tasks is forgotten; and an established one has its egress.  The    *)
(* clients': their scripts are in order, so that a client that gets to the *)
(* end has undone what it did, a broadcaster is not refused what it needs  *)
(* and a viewer is not switched to another publisher.                      *)
(***************************************************************************)
EXTENDS RelayRuntime, ClientFlows, RelayControlProofs

\* Every step of a connection or of its tasks is a step of the control state,
\* or none.
LEMMA ControlStep == [RuntimeNext]_allVars => [Next]_vars
<1> SUFFICES ASSUME [RuntimeNext]_allVars PROVE [Next]_vars
    OBVIOUS
<1>1. CASE UNCHANGED allVars
    BY <1>1 DEF allVars
<1>2. ASSUME NEW c \in Sessions, TaskStep(c) PROVE [Next]_vars
    BY <1>2 DEF TaskStep, FailTask, HandleHello, HandleRequest, RegisterEgress, Next, Request
<1>3. ASSUME NEW c \in Sessions, ConnectionStep(c) PROVE [Next]_vars
    BY <1>3 DEF ConnectionStep, AcceptStream, ReceiveDatagram, LoseConnection, Next
<1>4. ASSUME NEW c \in Sessions, CleanupStep(c) PROVE [Next]_vars
    BY <1>4 DEF CleanupStep, ReadUser, UnregisterEgress, CleanUp, Next
<1> QED BY <1>1, <1>2, <1>3, <1>4 DEF RuntimeNext

\* The relay with its connections, tasks and cleanups runs the control state:
\* every theorem about Spec holds of RuntimeSpec as well.
THEOREM RuntimeRunsControl == RuntimeSpec => Spec
<1>1. RuntimeInit => Init
    BY DEF RuntimeInit
<1> QED BY <1>1, ControlStep, PTL DEF RuntimeSpec, Spec

-----------------------------------------------------------------------------
(***************************************************************************)
(* What it takes to be absent, and to stay so.                             *)
(***************************************************************************)

\* Requests other than Hello leave the display names alone.
LEMMA NamesStay ==
    ASSUME NEW c \in Sessions, RoomRequest(c) \/ StreamRequest(c)
    PROVE  names' = names
<1> DEFINE U == names' = names
<1> USE DEF sessionVars
<1>1. RoomRequest(c) => U
    BY DEF RoomRequest, CreateRoom, JoinRoom, LeaveRoom, SetVoiceState
<1>2. ASSUME NEW s \in StreamIds, NEW r \in rooms
      PROVE  /\ UnpublishStream(c, r, s) => U
             /\ SubscribeStream(c, r, s) => U
             /\ UnsubscribeStream(c, r, s) => U
             /\ RequestKeyframe(c, r, s) => U
             /\ SendRemoteInput(c, r, s) => U
             /\ \A n : PollRemoteInput(c, r, s, n) => U
    BY DEF UnpublishStream, SubscribeStream, UnsubscribeStream, RequestKeyframe,
           SendRemoteInput, PollRemoteInput
<1>3. ASSUME NEW s \in StreamIds, NEW r \in rooms
      PROVE  /\ \A codec, kind : PublishStream(c, r, s, codec, kind) => U
             /\ \A codec, in : SetStreamConfig(c, r, s, codec, in) => U
             /\ \A b : SetTargetBitrate(c, r, s, b) => U
             /\ \A f : SetTargetFramerate(c, r, s, f) => U
    BY DEF PublishStream, SetStreamConfig, SetTargetBitrate, SetTargetFramerate
<1>4. ASSUME NEW s \in StreamIds
      PROVE  /\ \A report : ReportViewerStats(c, s, report) => U
             /\ PollPublisherFeedback(c, s) => U
    BY DEF ReportViewerStats, PollPublisherFeedback
<1> HIDE DEF U
<1>5. StreamRequest(c) => U
    BY <1>2, <1>3, <1>4 DEF StreamRequest
<1>6. U
    BY <1>1, <1>5
<1> QED BY <1>6 DEF U

\* Who is in no room has no voice state.
LEMMA VoiceFollowsUsers ==
    ASSUME Consistent', NEW u, \A m \in participants' : m.user # u
    PROVE  \A v \in voice' : v.user # u
<1>1. {<<v.room, v.user>> : v \in voice'} = {<<m.room, m.user>> : m \in participants'}
    BY DEF Consistent, VoiceTracksParticipants
<1>2. ASSUME NEW v \in voice' PROVE \E m \in participants' : m.user = v.user
    <2>1. <<v.room, v.user>> \in {<<m.room, m.user>> : m \in participants'}
        BY <1>1
    <2> QED BY <2>1
<1> QED BY <1>2

\* Steps of other users remind the relay of nobody.
LEMMA AbsentStays ==
    ASSUME Consistent', NEW u, Absent(u), NEW gs, u \notin gs,
           AddsOnly(gs), names' \subseteq names \cup gs
    PROVE  Absent(u)'
<1>1. /\ \A m \in participants' : m.user # u
      /\ \A m \in viewerStats' : m.user # u
      /\ \A m \in subscriptions' : m.user # u
    BY DEF Absent, AddsOnly
<1>2. \A p \in published' : p.publisher # u
    BY DEF Absent, AddsOnly
<1>3. \A v \in voice' : v.user # u
    BY <1>1, VoiceFollowsUsers
<1>4. u \notin names'
    BY DEF Absent
<1> QED BY <1>1, <1>2, <1>3, <1>4 DEF Absent

\* disconnect_user takes the user out of every table but the input queues.
LEMMA DisconnectRemoves ==
    ASSUME TypeOK, Consistent, Consistent', NEW c \in Sessions, Disconnect(c)
    PROVE  Absent(user[c])'
<1> DEFINE u == user[c]
           affected == {r \in rooms : \/ IsParticipant(r, u)
                                      \/ \E p \in published : p.room = r /\ p.publisher = u}
<1>0. user' = user
    BY DEF Disconnect, DisconnectUser
<1>1. ASSUME NEW m \in participants' PROVE m.user # u
    <2>1. m \in participants /\ ~(m.room \in affected /\ m.user = u)
        BY DEF Disconnect, DisconnectUser, LeaveRooms
    <2>2. m = [room |-> m.room, user |-> m.user] /\ m.room \in rooms
        BY <2>1 DEF TypeOK, Consistent, RoomsInhabited
    <2> QED BY <2>1, <2>2 DEF IsParticipant
<1>2. ASSUME NEW m \in subscriptions' PROVE m.user # u
    <2>1. [room |-> m.room, user |-> m.user] \in participants'
        BY DEF Consistent, SubscriptionsAreLive, IsParticipant
    <2> QED BY <1>1, <2>1
<1>3. ASSUME NEW p \in published' PROVE p.publisher # u
    <2>1. [room |-> p.room, user |-> p.publisher] \in participants'
        BY DEF Consistent, PublishersArePresent, IsParticipant
    <2> QED BY <1>1, <2>1
<1>4. \A v \in viewerStats' : v.user # u
    BY DEF Disconnect, DisconnectUser, LeaveRooms, RemoveStreamState
<1>5. \A v \in voice' : v.user # u
    BY <1>1, VoiceFollowsUsers
<1>6. u \notin names'
    BY DEF Disconnect, DisconnectUser
<1> QED BY <1>0, <1>1, <1>2, <1>3, <1>4, <1>5, <1>6 DEF Absent

\* Whatever one session does, the absent users of the others stay absent.
LEMMA OthersStayAbsent ==
    ASSUME TypeOK, TypeOK', Consistent', IdentityUnique, IdentityUnique',
           NEW c \in Sessions, NEW d \in Sessions, d # c, Absent(user[d]),
           Request(c) \/ Forward(c) \/ Disconnect(c) \/ UNCHANGED vars
    PROVE  user'[d] = user[d] /\ Absent(user[d])'
<1> USE DEF sessionVars, roomVars, streamVars, perStream
<1>d. user[c] # NoUser => user[d] # user[c]
    BY DEF IdentityUnique
<1>1. CASE Hello(c)
    <2>1. user'[d] = user[d] /\ user'[c] # NoUser
        BY <1>1 DEF Hello, TypeOK, NoUser
    <2>2. names' = names \cup {user'[c]}
        BY <1>1 DEF Hello, TypeOK
    <2>3. user'[d] # user'[c]
        BY <2>1 DEF IdentityUnique
    <2>4. UNCHANGED <<participants, voice, viewerStats, subscriptions, published>>
        BY <1>1 DEF Hello
    <2> QED BY <2>1, <2>2, <2>3, <2>4 DEF Absent
<1>2. CASE Authenticate(c) \/ Forward(c) \/ UNCHANGED vars
    <2>1. UNCHANGED <<user, names, participants, voice, viewerStats, subscriptions, published>>
        BY <1>2 DEF Authenticate, Forward, RecordForward, vars
    <2> QED BY <2>1 DEF Absent
<1>3. CASE RoomRequest(c) \/ StreamRequest(c)
    <2>1. Authorized(c) /\ AddsOnly({user[c]}) /\ names' = names
        BY <1>3, RoomRequestAdds, StreamRequestAdds, NamesStay
    <2>2. user' = user /\ user[d] \notin {user[c]}
        BY <1>d, <2>1 DEF AddsOnly, Authorized
    <2>3. names' \subseteq names \cup {user[c]}
        BY <2>1
    <2> DEFINE u == user[d]
    <2>4. Absent(u) /\ u \notin {user[c]}
        BY <2>2
    <2> HIDE DEF u
    <2>5. /\ \A m \in participants' \cup voice' \cup viewerStats' \cup subscriptions' : m.user # u
          /\ \A p \in published' : p.publisher # u
          /\ u \notin names'
        BY <2>1, <2>3, <2>4, AbsentStays DEF Absent
    <2> QED BY <2>2, <2>5 DEF u, Absent
<1>4. CASE Disconnect(c)
    <2>1. AddsOnly({}) /\ names' \subseteq names \cup {} /\ user' = user
        BY <1>4, LeaveRoomsAddsNobody DEF Disconnect, DisconnectUser
    <2> DEFINE u == user[d]
    <2>4. Absent(u) /\ u \notin {}
        OBVIOUS
    <2> HIDE DEF u
    <2>5. /\ \A m \in participants' \cup voice' \cup viewerStats' \cup subscriptions' : m.user # u
          /\ \A p \in published' : p.publisher # u
          /\ u \notin names'
        BY <2>1, <2>4, AbsentStays DEF Absent
    <2> QED BY <2>1, <2>5 DEF u, Absent
<1> QED BY <1>1, <1>2, <1>3, <1>4 DEF Request

-----------------------------------------------------------------------------
(***************************************************************************)
(* The inductive invariant.  That a task registers, and that the cleanup   *)
(* goes past its first step, only for a session with a user, and that the  *)
(* egress is gone between the last two steps of the cleanup, is what       *)
(* carries the two properties from step to step.                           *)
(***************************************************************************)
SessionInv(c) ==
    /\ registering[c] > 0 => user[c] # NoUser
    /\ phase[c] \in {"unregister", "disconnect"} => user[c] # NoUser
    /\ phase[c] = "disconnect" /\ ~late[c] => user[c] \notin egress
    /\ phase[c] = "closed" /\ ~late[c] => Absent(user[c]) /\ user[c] \notin egress
    /\ phase[c] = "open" /\ user[c] # NoUser /\ registering[c] = 0 => user[c] \in egress

RuntimeInv == RuntimeTypeOK /\ \A c \in Sessions : SessionInv(c)

\* What a step of connection c leaves of the others alone, and what it may do
\* to the egress table.
StepOf(c) ==
    /\ Request(c) \/ Forward(c) \/ Disconnect(c) \/ UNCHANGED vars
    /\ \A d \in Sessions \ {c} : /\ phase'[d] = phase[d] /\ late'[d] = late[d]
                                 /\ registering'[d] = registering[d]
    /\ \/ egress' = egress
       \/ /\ user[c] # NoUser /\ user' = user
          /\ egress' = egress \cup {user[c]} \/ egress' = egress \ {user[c]}

\* A connection's invariant survives the steps of every other connection.
LEMMA OtherSession ==
    ASSUME RuntimeInv, TypeOK', Consistent', IdentityUnique, IdentityUnique',
           NEW c \in Sessions, NEW d \in Sessions, d # c, StepOf(c)
    PROVE  SessionInv(d)'
<1>1. user'[d] = user[d]
    <2>1. CASE Hello(c)
        BY <2>1 DEF Hello, RuntimeInv, RuntimeTypeOK, TypeOK
    <2>2. CASE RoomRequest(c) \/ StreamRequest(c)
        BY <2>2, RoomRequestAdds, StreamRequestAdds DEF RuntimeInv, RuntimeTypeOK, AddsOnly
    <2>3. CASE Authenticate(c) \/ Forward(c) \/ Disconnect(c) \/ UNCHANGED vars
        BY <2>3 DEF Authenticate, Forward, RecordForward, Disconnect, DisconnectUser, vars,
                    sessionVars
    <2> QED BY <2>1, <2>2, <2>3 DEF StepOf, Request
<1>2. user[c] # NoUser => user[d] # user[c]
    BY DEF IdentityUnique
<1>3. user[d] \in egress' <=> user[d] \in egress
    BY <1>2 DEF StepOf
<1>4. ASSUME Absent(user[d]) PROVE Absent(user[d])'
    BY <1>4, OthersStayAbsent DEF StepOf, RuntimeInv, RuntimeTypeOK
<1>5. phase'[d] = phase[d] /\ registering'[d] = registering[d] /\ late'[d] = late[d]
    BY DEF StepOf
<1>6. SessionInv(d)
    BY DEF RuntimeInv
<1>7. /\ registering'[d] > 0 => user'[d] # NoUser
      /\ phase'[d] \in {"unregister", "disconnect"} => user'[d] # NoUser
      /\ phase'[d] = "open" /\ user'[d] # NoUser /\ registering'[d] = 0 => user'[d] \in egress'
    BY <1>1, <1>3, <1>5, <1>6 DEF SessionInv
<1>8. phase'[d] = "disconnect" /\ ~late'[d] => user'[d] \notin egress'
    BY <1>1, <1>3, <1>5, <1>6, Zenon DEF SessionInv
<1>9. phase'[d] = "closed" /\ ~late'[d] => Absent(user[d])' /\ user'[d] \notin egress'
    BY <1>1, <1>3, <1>4, <1>5, <1>6, Zenon DEF SessionInv
<1> QED BY <1>7, <1>8, <1>9 DEF SessionInv

\* A task that acts marks its connection when the loop is over.
LEMMA LateMark ==
    ASSUME RuntimeTypeOK, NEW c \in Sessions,
           late' = [late EXCEPT ![c] = @ \/ phase[c] # "open"]
    PROVE  /\ late' \in [Sessions -> BOOLEAN]
           /\ phase[c] # "open" => late'[c]
           /\ \A d \in Sessions \ {c} : late'[d] = late[d]
<1>1. late' \in [Sessions -> BOOLEAN]
    BY Zenon DEF RuntimeTypeOK
<1>2. late'[c] = (late[c] \/ phase[c] # "open")
    BY Zenon DEF RuntimeTypeOK
<1>3. \A d \in Sessions \ {c} : late'[d] = late[d]
    BY Zenon DEF RuntimeTypeOK
<1> QED BY <1>1, <1>2, <1>3, Zenon

\* The tasks of a connection.
LEMMA TaskKeeps ==
    ASSUME RuntimeInv, TypeOK', NEW c \in Sessions, TaskStep(c)
    PROVE  RuntimeTypeOK' /\ StepOf(c) /\ SessionInv(c)'
<1>t. /\ phase \in [Sessions -> Phases] /\ tasks \in [Sessions -> Nat]
      /\ registering \in [Sessions -> Nat] /\ egress \subseteq UserIds
      /\ user \in [Sessions -> Nat] /\ late \in [Sessions -> BOOLEAN]
    BY DEF RuntimeInv, RuntimeTypeOK, TypeOK
<1>i. SessionInv(c)
    BY DEF RuntimeInv
<1>1. CASE FailTask(c)
    <2>1. tasks' \in [Sessions -> Nat]
        BY <1>1, <1>t DEF FailTask
    <2>2. UNCHANGED <<vars, phase, registering, egress, late>>
        BY <1>1 DEF FailTask
    <2>3. RuntimeTypeOK'
        BY <1>t, <2>1, <2>2 DEF RuntimeTypeOK
    <2>4. StepOf(c)
        BY <2>2 DEF StepOf
    <2>5. SessionInv(c)'
        BY <1>i, <2>2 DEF SessionInv, Absent, vars, sessionVars, roomVars, streamVars, perStream
    <2> QED BY <2>3, <2>4, <2>5
<1>m. ASSUME late' = [late EXCEPT ![c] = @ \/ phase[c] # "open"], UNCHANGED phase,
             registering'[c] > 0 => user'[c] # NoUser,
             phase[c] \in {"unregister", "disconnect"} => user'[c] # NoUser,
             phase[c] = "open" /\ user'[c] # NoUser /\ registering'[c] = 0 =>
                user'[c] \in egress'
      PROVE  SessionInv(c)'
    <2>1. phase[c] # "open" => late'[c]
        BY <1>m, LateMark DEF RuntimeInv
    <2>2. /\ ~(phase'[c] = "disconnect" /\ ~late'[c])
          /\ ~(phase'[c] = "closed" /\ ~late'[c])
        BY <1>m, <2>1, Zenon
    <2> QED BY <1>m, <2>2 DEF SessionInv
<1>2. CASE HandleHello(c)
    <2>1. /\ tasks' \in [Sessions -> Nat] /\ registering' \in [Sessions -> Nat]
          /\ registering'[c] > 0
          /\ \A d \in Sessions \ {c} : registering'[d] = registering[d]
        BY <1>2, <1>t DEF HandleHello
    <2>2. /\ Hello(c) /\ UNCHANGED <<phase, egress>>
          /\ late' = [late EXCEPT ![c] = @ \/ phase[c] # "open"]
        BY <1>2 DEF HandleHello
    <2>3. user'[c] # NoUser
        BY <2>2 DEF Hello, RuntimeInv, RuntimeTypeOK, TypeOK, NoUser
    <2>4. SessionInv(c)'
        BY <1>m, <2>1, <2>2, <2>3
    <2>5. RuntimeTypeOK'
        BY <1>t, <2>1, <2>2, LateMark DEF RuntimeTypeOK, RuntimeInv
    <2>6. StepOf(c)
        BY <2>1, <2>2, LateMark DEF StepOf, Request, RuntimeInv
    <2> QED BY <2>4, <2>5, <2>6
<1>3. CASE HandleRequest(c)
    <2>1. tasks' \in [Sessions -> Nat]
        BY <1>3, <1>t DEF HandleRequest
    <2>2. /\ Authenticate(c) \/ RoomRequest(c) \/ StreamRequest(c)
          /\ UNCHANGED <<phase, registering, egress>>
          /\ late' = [late EXCEPT ![c] = @ \/ phase[c] # "open"]
        BY <1>3 DEF HandleRequest
    <2>3. user' = user
        BY <2>2, RoomRequestAdds, StreamRequestAdds
        DEF Authenticate, AddsOnly, RuntimeInv, RuntimeTypeOK
    <2>4. SessionInv(c)'
        BY <1>m, <1>i, <2>2, <2>3 DEF SessionInv
    <2>5. RuntimeTypeOK'
        BY <1>t, <2>1, <2>2, LateMark DEF RuntimeTypeOK, RuntimeInv
    <2>6. StepOf(c)
        BY <2>2, LateMark DEF StepOf, Request, RuntimeInv
    <2> QED BY <2>4, <2>5, <2>6
<1>4. CASE RegisterEgress(c)
    <2>1. /\ registering' \in [Sessions -> Nat] /\ user[c] # NoUser
          /\ \A d \in Sessions \ {c} : registering'[d] = registering[d]
        BY <1>4, <1>t, <1>i DEF RegisterEgress, SessionInv
    <2>2. /\ UNCHANGED <<vars, phase, tasks>> /\ egress' = egress \cup {user[c]}
          /\ late' = [late EXCEPT ![c] = @ \/ phase[c] # "open"]
        BY <1>4 DEF RegisterEgress
    <2>3. user' = user /\ user[c] \in UserIds
        BY <1>t, <2>1, <2>2 DEF vars, sessionVars, UserIds
    <2>4. SessionInv(c)'
        BY <1>m, <2>1, <2>2, <2>3
    <2>5. RuntimeTypeOK'
        BY <1>t, <2>1, <2>2, <2>3, LateMark DEF RuntimeTypeOK, RuntimeInv
    <2>6. StepOf(c)
        BY <2>1, <2>2, <2>3, LateMark DEF StepOf, RuntimeInv
    <2> QED BY <2>4, <2>5, <2>6
<1> QED BY <1>1, <1>2, <1>3, <1>4 DEF TaskStep

\* The connection's own loop and its cleanup.
LEMMA ConnectionKeeps ==
    ASSUME RuntimeInv, TypeOK', Consistent, Consistent', NEW c \in Sessions,
           ConnectionStep(c) \/ CleanupStep(c)
    PROVE  RuntimeTypeOK' /\ StepOf(c) /\ SessionInv(c)'
<1>t. /\ phase \in [Sessions -> Phases] /\ tasks \in [Sessions -> Nat]
      /\ registering \in [Sessions -> Nat] /\ egress \subseteq UserIds
      /\ user \in [Sessions -> Nat] /\ late \in [Sessions -> BOOLEAN] /\ TypeOK
    BY DEF RuntimeInv, RuntimeTypeOK, TypeOK
<1>i. SessionInv(c)
    BY DEF RuntimeInv
<1>v. ASSUME UNCHANGED vars
      PROVE  user' = user /\ (Absent(user[c]) => Absent(user[c])')
    BY <1>v DEF vars, sessionVars, roomVars, streamVars, perStream, Absent
<1>1. CASE AcceptStream(c)
    <2>1. tasks' \in [Sessions -> Nat] /\ UNCHANGED <<vars, phase, registering, egress, late>>
        BY <1>1, <1>t DEF AcceptStream
    <2>2. RuntimeTypeOK'
        BY <1>t, <2>1 DEF RuntimeTypeOK
    <2>3. StepOf(c)
        BY <2>1 DEF StepOf
    <2>4. SessionInv(c)'
        BY <1>i, <1>v, <2>1 DEF SessionInv
    <2> QED BY <2>2, <2>3, <2>4
<1>2. CASE ReceiveDatagram(c)
    <2>1. /\ Forward(c) /\ UNCHANGED <<phase, tasks, registering, egress, late>>
          /\ phase[c] = "open" /\ user' = user
        BY <1>2 DEF ReceiveDatagram, runtimeVars, Forward, RecordForward, sessionVars
    <2>2. RuntimeTypeOK'
        BY <1>t, <2>1 DEF RuntimeTypeOK
    <2>3. StepOf(c)
        BY <2>1 DEF StepOf
    <2>4. SessionInv(c)'
        BY <1>i, <2>1 DEF SessionInv
    <2> QED BY <2>2, <2>3, <2>4
<1>3. CASE LoseConnection(c)
    <2>1. /\ phase' = [phase EXCEPT ![c] = "closing"]
          /\ UNCHANGED <<vars, tasks, registering, egress, late>>
        BY <1>3 DEF LoseConnection
    <2>2. phase' \in [Sessions -> Phases] /\ phase'[c] = "closing"
        BY <1>t, <2>1 DEF Phases
    <2>3. RuntimeTypeOK'
        BY <1>t, <2>1, <2>2 DEF RuntimeTypeOK
    <2>4. StepOf(c)
        BY <1>t, <2>1 DEF StepOf
    <2>5. SessionInv(c)'
        BY <1>i, <1>v, <2>1, <2>2 DEF SessionInv
    <2> QED BY <2>3, <2>4, <2>5
<1>4. CASE ReadUser(c)
    <2>1. /\ phase' = [phase EXCEPT ![c] = IF user[c] = NoUser THEN "closed" ELSE "unregister"]
          /\ UNCHANGED <<vars, tasks, registering, egress, late>>
        BY <1>4 DEF ReadUser
    <2>2. /\ phase' \in [Sessions -> Phases]
          /\ phase'[c] = IF user[c] = NoUser THEN "closed" ELSE "unregister"
        BY <1>t, <2>1 DEF Phases
    <2>3. RuntimeTypeOK'
        BY <1>t, <2>1, <2>2 DEF RuntimeTypeOK
    <2>4. StepOf(c)
        BY <1>t, <2>1 DEF StepOf
    <2>5. ASSUME user[c] = NoUser PROVE Absent(user[c]) /\ user[c] \notin egress
        <3>1. NoUser \notin UserIds
            BY DEF UserIds, NoUser
        <3> QED BY <1>t, <2>5, <3>1 DEF Absent, TypeOK, Stream
    <2>6. SessionInv(c)'
        BY <1>i, <1>v, <2>1, <2>2, <2>5 DEF SessionInv
    <2> QED BY <2>3, <2>4, <2>6
<1>5. CASE UnregisterEgress(c)
    <2>1. /\ phase' = [phase EXCEPT ![c] = "disconnect"] /\ egress' = egress \ {user[c]}
          /\ UNCHANGED <<vars, tasks, registering, late>> /\ user[c] # NoUser
        BY <1>5, <1>i DEF UnregisterEgress, SessionInv
    <2>2. phase' \in [Sessions -> Phases] /\ phase'[c] = "disconnect"
        BY <1>t, <2>1 DEF Phases
    <2>3. RuntimeTypeOK'
        BY <1>t, <2>1, <2>2 DEF RuntimeTypeOK
    <2>4. StepOf(c)
        BY <1>t, <1>v, <2>1 DEF StepOf
    <2>5. SessionInv(c)'
        BY <1>i, <1>v, <2>1, <2>2 DEF SessionInv
    <2> QED BY <2>3, <2>4, <2>5
<1>6. CASE CleanUp(c)
    <2>1. /\ phase' = [phase EXCEPT ![c] = "closed"] /\ phase[c] = "disconnect"
          /\ Disconnect(c) /\ UNCHANGED <<tasks, registering, egress, late>>
        BY <1>6 DEF CleanUp
    <2>2. phase' \in [Sessions -> Phases] /\ phase'[c] = "closed"
        BY <1>t, <2>1 DEF Phases
    <2>3. RuntimeTypeOK'
        BY <1>t, <2>1, <2>2 DEF RuntimeTypeOK
    <2>4. StepOf(c)
        BY <1>t, <2>1 DEF StepOf
    <2>5. user' = user /\ Absent(user[c])'
        BY <1>t, <2>1, DisconnectRemoves DEF Disconnect, DisconnectUser
    <2>6. SessionInv(c)'
        BY <1>i, <2>1, <2>2, <2>5 DEF SessionInv
    <2> QED BY <2>3, <2>4, <2>6
<1> QED BY <1>1, <1>2, <1>3, <1>4, <1>5, <1>6 DEF ConnectionStep, CleanupStep

\* Every step keeps the invariant.
LEMMA RuntimeKeeps ==
    ASSUME RuntimeInv, Consistent, Consistent', TypeOK', IdentityUnique, IdentityUnique',
           [RuntimeNext]_allVars
    PROVE  RuntimeInv'
<1>1. CASE UNCHANGED allVars
    BY <1>1 DEF allVars, runtimeVars, vars, sessionVars, roomVars, streamVars, perStream,
                RuntimeInv, RuntimeTypeOK, SessionInv, Absent
<1>2. ASSUME NEW c \in Sessions, TaskStep(c) \/ ConnectionStep(c) \/ CleanupStep(c)
      PROVE  RuntimeInv'
    <2>1. RuntimeTypeOK' /\ StepOf(c) /\ SessionInv(c)'
        BY <1>2, TaskKeeps, ConnectionKeeps
    <2>2. ASSUME NEW d \in Sessions, d # c PROVE SessionInv(d)'
        BY <2>1, <2>2, OtherSession
    <2> QED BY <2>1, <2>2 DEF RuntimeInv
<1> QED BY <1>1, <1>2 DEF RuntimeNext

\* The invariant holds in every state of the relay.
LEMMA RuntimeInvariant == RuntimeSpec => []RuntimeInv
<1>1. RuntimeInit => RuntimeInv
    <2> SUFFICES ASSUME RuntimeInit PROVE RuntimeInv
        OBVIOUS
    <2>1. Init /\ TypeOK
        BY TypeInit DEF RuntimeInit
    <2>2. RuntimeTypeOK
        BY <2>1 DEF RuntimeInit, RuntimeTypeOK, Phases
    <2> QED BY <2>1, <2>2 DEF RuntimeInit, Init, RuntimeInv, SessionInv, NoUser
<1>2. RuntimeInv /\ Consistent /\ Consistent' /\ TypeOK' /\ IdentityUnique /\ IdentityUnique'
         /\ [RuntimeNext]_allVars => RuntimeInv'
    BY RuntimeKeeps
<1> QED BY <1>1, <1>2, RuntimeRunsControl, TypeCorrect, TablesConsistent, IdentitiesAreUnique,
           PTL DEF RuntimeSpec

\* A connection none of whose tasks acts after its loop has ended leaves nothing
\* behind but input for streams that others still publish: neither the three steps
\* of the cleanup, each under its own lock, nor anything other connections do
\* between and after them, brings its user back into a room, a table or the egress,
\* and input it sent goes with the stream it was for.
THEOREM CleanedUp == RuntimeSpec => []CleanWithoutLateTasks
<1>1. RuntimeInv /\ Consistent => CleanWithoutLateTasks
    <2> SUFFICES ASSUME RuntimeInv, Consistent, NEW c \in Sessions,
                        phase[c] = "closed", ~late[c]
                 PROVE  Forgotten(user[c]) /\ user[c] \notin egress
        BY DEF CleanWithoutLateTasks
    <2>1. Absent(user[c]) /\ user[c] \notin egress
        BY Zenon DEF RuntimeInv, SessionInv
    <2>2. ASSUME NEW s \in StreamIds, \E i \in DOMAIN remoteInput[s] : remoteInput[s][i] = user[c]
          PROVE  IsPublished(s)
        <3>1. remoteInput[s] # << >>
            BY <2>2
        <3> QED BY <3>1 DEF Consistent, NoStreamResidue, IsPublished
    <2> QED BY <2>1, <2>2 DEF Forgotten
<1> QED BY <1>1, RuntimeInvariant, RuntimeRunsControl, TablesConsistent, PTL

\* An open connection whose Hello task is through has an egress: the cleanup of
\* other connections never takes it away.
THEOREM EstablishedHaveEgress == RuntimeSpec => []EstablishedHasEgress
<1>1. RuntimeInv => EstablishedHasEgress
    BY DEF RuntimeInv, SessionInv, EstablishedHasEgress
<1> QED BY <1>1, RuntimeInvariant, PTL

-----------------------------------------------------------------------------

(***************************************************************************)
(* Scripts: their calls come in the order of their ranks.                  *)
(***************************************************************************)
Ops == {"Hello", "Authenticate", "CreateRoom", "ListRooms", "JoinRoom", "SetVoiceState",
        "List", "ListStreams", "PublishStream", "SetStreamConfig", "SubscribeStream",
        "PollStreamConfig", "SetTargetBitrate", "SetTargetFramerate", "SendRemoteInput",
        "Media", "UnpublishStream", "UnsubscribeStream", "LeaveRoom"}
Calls == [op : Ops, kind : Media]

\* The op for the media kind k.
For(op, k) == [op |-> op, kind |-> k]

\* Where a call stands in the scripts it is part of.
Rank(x) ==
    LET second == IF x.kind = "Voice" THEN 1 ELSE 0
    IN  CASE x.op = "Hello" -> 1
          [] x.op = "Authenticate" -> 2
          [] x.op \in {"CreateRoom", "ListRooms"} -> 3
          [] x.op = "JoinRoom" -> 4
          [] x.op = "SetVoiceState" -> 5
          [] x.op \in {"List", "ListStreams"} -> 6
          [] x.op = "PublishStream" -> 6 + 2 * second
          [] x.op = "SetStreamConfig" -> 7 + 2 * second
          [] x.op = "SubscribeStream" -> 7 + second
          [] x.op = "PollStreamConfig" -> 9 + second
          [] x.op = "SetTargetBitrate" -> 10 + 2 * second
          [] x.op = "SetTargetFramerate" -> 11 + 2 * second
          [] x.op = "SendRemoteInput" -> 11
          [] x.op = "Media" -> 14
          [] x.op \in {"UnpublishStream", "UnsubscribeStream"} -> 15 + second
          [] x.op = "LeaveRoom" -> 17

InOrder(q) ==
    \A i, j \in DOMAIN q : i < j =>
        Rank(q[i]) < Rank(q[j]) \/ (q[i] = q[j] /\ q[i].op = "SendRemoteInput")

Has(q, x) == \E i \in DOMAIN q : q[i] = x

\* Which calls the command line a asks for.
Suits(a, x) ==
    /\ x.op = "CreateRoom" => a.mode = "broadcast" /\ a.room = NoRoom
    /\ x.op \in {"PublishStream", "SetStreamConfig", "SetTargetBitrate", "SetTargetFramerate",
                 "UnpublishStream"} => a.mode = "broadcast" /\ x.kind \in a.kinds
    /\ x.op \in {"ListStreams", "SubscribeStream", "PollStreamConfig", "SendRemoteInput",
                 "UnsubscribeStream"} => a.mode = "view"
    /\ x.op \in {"SubscribeStream", "UnsubscribeStream"} => x.kind \in a.kinds
    /\ x.op \in {"ListRooms", "List"} => a.mode # "broadcast"
    /\ x.op = "Media" => a.mode \in {"broadcast", "view"}
    /\ x.op \in {"CreateRoom", "JoinRoom", "SendRemoteInput", "LeaveRoom"} => x.kind = "Screen"

\* The calls no script of the command line a may leave out.
Required(a) ==
    {For("JoinRoom", "Screen"), For("LeaveRoom", "Screen")}
    \cup {x \in {For("CreateRoom", "Screen")} : a.mode = "broadcast" /\ a.room = NoRoom}
    \cup {x \in {For("PublishStream", k) : k \in a.kinds} : a.mode = "broadcast"}
    \cup {x \in {For("ListStreams", "Screen")} : a.mode = "view"}
    \cup {x \in {For("UnsubscribeStream", k) : k \in a.kinds} : a.mode = "view"}

\* The rank of the call a client is at; it is past the last one when it is done.
Pos(c) == IF todo[c] = << >> THEN 18 ELSE Rank(todo[c][1])

-----------------------------------------------------------------------------
(***************************************************************************)
(* The inductive invariant, for each client.                               *)
(***************************************************************************)
Statuses == {"running", "done", "refused", "lost", "echo", "closed"}

FlowType ==
    /\ args \in Scenarios
    /\ DOMAIN todo = Sessions /\ DOMAIN room = Sessions
    /\ status \in [Sessions -> Statuses]
    /\ watch \in [Sessions -> [Media -> StreamIds \cup {NoStream}]]
    /\ DOMAIN origin = Sessions /\ \A c \in Sessions : DOMAIN origin[c] = Media
    /\ pending \subseteq Sessions

\* What is left of the script.
ScriptInv(c) ==
    /\ todo[c] \in Seq(Calls)
    /\ InOrder(todo[c])
    /\ \A i \in DOMAIN todo[c] : Suits(args[c], todo[c][i])
    /\ todo[c] # << >> => \A x \in Required(args[c]) : Rank(x) < Pos(c) \/ Has(todo[c], x)
    /\ status[c] = "running" => todo[c] # << >>
    /\ status[c] = "done" => todo[c] = << >>

Running(c) == status[c] = "running"

\* The relay has no subscription, report or input of the user.
Idle(u) ==
    /\ \A m \in subscriptions : m.user # u
    /\ \A v \in viewerStats : v.user # u
    /\ \A s \in StreamIds : \A i \in DOMAIN remoteInput[s] : remoteInput[s][i] # u

NotSwitched(c) ==
    \A k \in Media, p \in published :
       p.stream = watch[c][k] =>
          /\ IsSubscriber(p.room, p.stream, user[c]) => p.publisher = origin[c][k]
          /\ \A i \in DOMAIN remoteInput[p.stream] :
                remoteInput[p.stream][i] = user[c] => p.publisher = origin[c][k]

\* Input of the client waits only at streams it looks at.
InputInPlace(c) ==
    \A s \in StreamIds : \A i \in DOMAIN remoteInput[s] :
       remoteInput[s][i] = user[c] => \E k \in Media : watch[c][k] = s

\* However a client has fared: it is in one room at most, looks at different streams
\* for different kinds, and only a viewer that has listed the streams watches any.
CoreInv(c) ==
    /\ \A m \in participants : m.user = user[c] => m.room = room[c]
    /\ watch[c]["Screen"] = watch[c]["Voice"] => watch[c]["Screen"] = NoStream
    /\ args[c].mode # "view" \/ Pos(c) <= 6 => Idle(user[c])
    /\ NotSwitched(c)
    /\ InputInPlace(c)

\* From its CreateRoom or JoinRoom to its LeaveRoom a client is in its room.
PlaceInv(c) ==
    /\ (Running(c) /\ Pos(c) < 4) \/ status[c] = "done" =>
          \A m \in participants : m.user # user[c]
    /\ Running(c) /\ (Pos(c) = 4 => args[c].mode = "broadcast" /\ args[c].room = NoRoom)
                  /\ Pos(c) >= 4
          => Authorized(c) /\ IsParticipant(room[c], user[c])

\* The client's own stream of kind k is on air.
OnAir(c, k) ==
    \E p \in published : /\ p.room = room[c] /\ p.stream = args[c].stream[k]
                         /\ p.publisher = user[c] /\ p.codec = CodecFor[k] /\ p.kind = k

\* From its PublishStream to its UnpublishStream a broadcaster's stream is on air.
OwnInv(c) ==
    Running(c) /\ args[c].mode = "broadcast" =>
       \A k \in args[c].kinds :
          Rank(For("PublishStream", k)) < Pos(c) /\ Pos(c) <= Rank(For("UnpublishStream", k))
             => OnAir(c, k)

\* A viewer that has listed the streams knows which to watch.
WatchInv(c) ==
    Running(c) /\ args[c].mode = "view" /\ Pos(c) > 6 =>
       \A k \in args[c].kinds : watch[c][k] \in StreamIds

\* A client that has got so far still has to undo the reports that it made.
ReportInv(c) ==
    status[c] \in {"running", "done"} =>
       \A v \in viewerStats : v.user = user[c] =>
          \E k \in args[c].kinds : v.stream = watch[c][k]
                                   /\ Pos(c) <= Rank(For("UnsubscribeStream", k))

GoingInv(c) == PlaceInv(c) /\ OwnInv(c) /\ WatchInv(c) /\ ReportInv(c)

RefusedInv(c) ==
    status[c] = "refused" /\ args[c].mode = "broadcast" =>
        \/ Current(c).op \in {"Authenticate", "CreateRoom", "PublishStream"}
        \/ Current(c).op = "JoinRoom" /\ (args[c].room # NoRoom)

\* Before its CreateRoom or JoinRoom a client is in no room, and after its
\* ListStreams it knows which streams to watch.
Prepared(c) ==
    /\ Pos(c) < 4 => \A m \in participants : m.user # user[c]
    /\ args[c].mode = "view" /\ Pos(c) > 6 => \A k \in args[c].kinds : watch[c][k] \in StreamIds

\* A client that ended with a request on its way is still prepared for it, though its
\* connection may be closed.
PendingInv(c) ==
    c \in pending => status[c] \in {"lost", "closed"} /\ todo[c] # << >> /\ Prepared(c)

ClientInv(c) ==
    ScriptInv(c) /\ CoreInv(c) /\ GoingInv(c) /\ RefusedInv(c) /\ PendingInv(c)

\* A client whose current request may be handled.
Acting(c) == ScriptInv(c) /\ CoreInv(c) /\ Prepared(c) /\ todo[c] # << >>

\* The client gets the answer in time and goes on.
Proceeds(c) == ClientInv(c) /\ Running(c) /\ Advances(c)

FlowRelay == TypeOK /\ Consistent /\ IdentityUnique /\ AccessInv

FlowInv == FlowType /\ \A c \in Sessions : ClientInv(c)

-----------------------------------------------------------------------------
(***************************************************************************)
(* The scripts.                                                            *)
(***************************************************************************)

\* Ranks are numbers from 1 to 17.
LEMMA RankType == \A x \in Calls : Rank(x) \in 1..17
BY DEF Rank, Calls, Ops, Media

\* The ranks of the calls that are made once, and bounds for those of a viewer.
LEMMA RankOf ==
    ASSUME NEW x
    PROVE  /\ x.op = "Hello" => Rank(x) = 1
           /\ x.op = "ListRooms" => Rank(x) = 3
           /\ x.op = "JoinRoom" => Rank(x) = 4
           /\ x.op = "SetVoiceState" => Rank(x) = 5
           /\ x.op = "ListStreams" => Rank(x) = 6
           /\ x.op = "SubscribeStream" => Rank(x) \in 7..8
           /\ x.op = "SendRemoteInput" => Rank(x) = 11
           /\ x.op = "Media" => Rank(x) = 14
           /\ x.op = "UnsubscribeStream" => Rank(x) \in 15..16
           /\ x.op = "LeaveRoom" => Rank(x) = 17
<1>1. x.op = "Hello" => Rank(x) = 1
    BY DEF Rank
<1>2. x.op = "ListRooms" => Rank(x) = 3
    BY DEF Rank
<1>3. x.op = "JoinRoom" => Rank(x) = 4
    BY DEF Rank
<1>4. x.op = "SetVoiceState" => Rank(x) = 5
    BY DEF Rank
<1>5. x.op = "ListStreams" => Rank(x) = 6
    BY DEF Rank
<1>6. x.op = "SubscribeStream" => Rank(x) \in 7..8
    BY DEF Rank
<1>7. x.op = "SendRemoteInput" => Rank(x) = 11
    BY DEF Rank
<1>8. x.op = "Media" => Rank(x) = 14
    BY DEF Rank
<1>9. x.op = "UnsubscribeStream" => Rank(x) \in 15..16
    BY DEF Rank
<1>10. x.op = "LeaveRoom" => Rank(x) = 17
    BY DEF Rank
<1> QED BY <1>1, <1>2, <1>3, <1>4, <1>5, <1>6, <1>7, <1>8, <1>9, <1>10

\* A part of the script of a: calls that suit it, in order, of ranks lo to hi.
Part(a, q, lo, hi) ==
    /\ q \in Seq(Calls)
    /\ InOrder(q)
    /\ \A i \in DOMAIN q : Suits(a, q[i]) /\ lo <= Rank(q[i]) /\ Rank(q[i]) <= hi

\* Two parts one after the other are a part, with the calls of both.
LEMMA PartsJoin ==
    ASSUME NEW a, NEW q, NEW s, NEW lo \in Nat, NEW mid \in Nat, NEW more \in Nat, NEW hi \in Nat,
           Part(a, q, lo, mid), Part(a, s, more, hi), lo <= mid, mid < more, more <= hi
    PROVE  Part(a, q \o s, lo, hi) /\ \A x : Has(q \o s, x) <=> Has(q, x) \/ Has(s, x)
<1> DEFINE t == q \o s
<1>1. q \in Seq(Calls) /\ s \in Seq(Calls) /\ t \in Seq(Calls) /\ Len(t) = Len(q) + Len(s)
    BY DEF Part
<1>2. \A i \in 1..Len(q) : t[i] = q[i]
    BY <1>1
<1>3. \A i \in 1..Len(s) : t[Len(q) + i] = s[i]
    BY <1>1
<1>4. DOMAIN t = 1..Len(t) /\ DOMAIN q = 1..Len(q) /\ DOMAIN s = 1..Len(s)
    BY <1>1
<1>5. Len(q) \in Nat /\ Len(s) \in Nat
    BY <1>1
<1>6. \A i \in DOMAIN t : \/ i \in DOMAIN q /\ t[i] = q[i]
                          \/ i - Len(q) \in DOMAIN s /\ t[i] = s[i - Len(q)] /\ i > Len(q)
    <2> TAKE i \in DOMAIN t
    <2>1. CASE i <= Len(q)
        BY <2>1, <1>1, <1>2, <1>4, <1>5
    <2>2. CASE i > Len(q)
        <3>1. i - Len(q) \in 1..Len(s) /\ i = Len(q) + (i - Len(q))
            BY <2>2, <1>1, <1>4, <1>5
        <3> QED BY <3>1, <2>2, <1>3, <1>4
    <2> QED BY <2>1, <2>2, <1>4, <1>5
<1> HIDE DEF t
<1>7. \A x : Has(t, x) <=> Has(q, x) \/ Has(s, x)
    <2>1. \A i \in DOMAIN q : i \in DOMAIN t
        BY <1>1, <1>4, <1>5
    <2>2. \A i \in DOMAIN s : Len(q) + i \in DOMAIN t
        BY <1>1, <1>4, <1>5
    <2> QED BY <2>1, <2>2, <1>2, <1>3, <1>4, <1>6 DEF Has
<1>r. \A i \in DOMAIN t : Rank(t[i]) \in Nat
    <2> TAKE i \in DOMAIN t
    <2>1. t[i] \in Calls
        BY <1>1
    <2> QED BY <2>1, RankType
<1>8. \A i \in DOMAIN t : /\ Suits(a, t[i]) /\ lo <= Rank(t[i]) /\ Rank(t[i]) <= hi
                          /\ i <= Len(q) => Rank(t[i]) <= mid
                          /\ i > Len(q) => more <= Rank(t[i])
    <2> TAKE i \in DOMAIN t
    <2>1. Rank(t[i]) \in Nat
        BY <1>r
    <2>2. CASE i \in DOMAIN q /\ t[i] = q[i]
        BY <2>1, <2>2, <1>4, <1>5 DEF Part
    <2>3. CASE i - Len(q) \in DOMAIN s /\ t[i] = s[i - Len(q)] /\ i > Len(q)
        BY <2>1, <2>3, <1>4, <1>5 DEF Part
    <2> QED BY <2>2, <2>3, <1>6
<1>9. InOrder(t)
    <2> SUFFICES ASSUME NEW i \in DOMAIN t, NEW j \in DOMAIN t, i < j
                 PROVE  Rank(t[i]) < Rank(t[j]) \/ (t[i] = t[j] /\ t[i].op = "SendRemoteInput")
        BY DEF InOrder
    <2>1. Rank(t[i]) \in Nat /\ Rank(t[j]) \in Nat
        BY <1>r
    <2>2. CASE j <= Len(q)
        <3>1. i \in DOMAIN q /\ j \in DOMAIN q /\ t[i] = q[i] /\ t[j] = q[j]
            BY <2>2, <1>1, <1>2, <1>4, <1>5
        <3> QED BY <3>1 DEF Part, InOrder
    <2>3. CASE i <= Len(q) /\ j > Len(q)
        BY <2>1, <2>3, <1>8
    <2>4. CASE i > Len(q)
        <3>1. i - Len(q) \in DOMAIN s /\ j - Len(q) \in DOMAIN s /\ i - Len(q) < j - Len(q)
              /\ t[i] = s[i - Len(q)] /\ t[j] = s[j - Len(q)]
            BY <2>4, <1>1, <1>4, <1>5, <1>6
        <3> QED BY <3>1 DEF Part, InOrder
    <2> QED BY <2>2, <2>3, <2>4, <1>1, <1>4, <1>5
<1> QED BY <1>1, <1>7, <1>8, <1>9 DEF Part, t

\* A part of one call, of two, and of none.
LEMMA SmallParts ==
    ASSUME NEW a
    PROVE  /\ \A lo, hi : Part(a, << >>, lo, hi)
           /\ \A x : ~Has(<< >>, x)
           /\ \A x \in Calls : Suits(a, x) =>
                 Part(a, <<x>>, Rank(x), Rank(x)) /\ \A y : Has(<<x>>, y) <=> y = x
           /\ \A x, z \in Calls : Suits(a, x) /\ Suits(a, z) /\ Rank(x) < Rank(z) =>
                 /\ Part(a, <<x, z>>, Rank(x), Rank(z))
                 /\ \A y : Has(<<x, z>>, y) <=> y \in {x, z}
<1>1. \A lo, hi : Part(a, << >>, lo, hi)
    BY DEF Part, InOrder
<1>2. \A x : ~Has(<< >>, x)
    BY DEF Has
<1>3. ASSUME NEW x \in Calls, Suits(a, x)
      PROVE  Part(a, <<x>>, Rank(x), Rank(x)) /\ \A y : Has(<<x>>, y) <=> y = x
    <2> DEFINE q == <<x>>
    <2>1. q \in Seq(Calls) /\ DOMAIN q = {1} /\ q[1] = x
        OBVIOUS
    <2>2. Rank(x) \in Nat
        BY RankType
    <2> HIDE DEF q
    <2>3. Part(a, q, Rank(x), Rank(x))
        BY <1>3, <2>1, <2>2 DEF Part, InOrder
    <2>4. \A y : Has(q, y) <=> y = x
        BY <2>1 DEF Has
    <2> QED BY <2>3, <2>4 DEF q
<1>4. ASSUME NEW x \in Calls, NEW z \in Calls, Suits(a, x), Suits(a, z), Rank(x) < Rank(z)
      PROVE  /\ Part(a, <<x, z>>, Rank(x), Rank(z))
             /\ \A y : Has(<<x, z>>, y) <=> y \in {x, z}
    <2> DEFINE q == <<x, z>>
    <2>1. q \in Seq(Calls) /\ DOMAIN q = {1, 2} /\ q[1] = x /\ q[2] = z
        OBVIOUS
    <2>2. Rank(x) \in Nat /\ Rank(z) \in Nat
        BY RankType
    <2> HIDE DEF q
    <2>3. InOrder(q)
        BY <1>4, <2>1, <2>2 DEF InOrder
    <2>4. Part(a, q, Rank(x), Rank(z))
        BY <1>4, <2>1, <2>2, <2>3 DEF Part
    <2>5. \A y : Has(q, y) <=> y \in {x, z}
        BY <2>1 DEF Has
    <2> QED BY <2>4, <2>5 DEF q
<1> QED BY <1>1, <1>2, <1>3, <1>4

\* A part that is made only under a condition.
LEMMA OnlyIfPart ==
    ASSUME NEW a, NEW cond \in BOOLEAN, NEW q, NEW lo, NEW hi, cond => Part(a, q, lo, hi)
    PROVE  /\ Part(a, OnlyIf(cond, q), lo, hi)
           /\ \A x : Has(OnlyIf(cond, q), x) <=> cond /\ Has(q, x)
BY SmallParts DEF OnlyIf

\* One call, made once.
LEMMA OncePart ==
    ASSUME NEW a, NEW op \in Ops, Suits(a, For(op, "Screen"))
    PROVE  /\ Part(a, Once(<<op>>), Rank(For(op, "Screen")), Rank(For(op, "Screen")))
           /\ \A x : Has(Once(<<op>>), x) <=> x = For(op, "Screen")
<1>1. Once(<<op>>) = <<For(op, "Screen")>>
    BY DEF Once, For
<1>2. For(op, "Screen") \in Calls
    BY DEF For, Calls, Media
<1> QED BY <1>1, <1>2, SmallParts

\* One call, for each kind.
LEMMA ForEachKindPart ==
    ASSUME NEW a, NEW op \in Ops, a.kinds \subseteq Media,
           \A k \in a.kinds : Suits(a, For(op, k)),
           Rank(For(op, "Screen")) < Rank(For(op, "Voice"))
    PROVE  /\ Part(a, ForEachKind(a, <<op>>), Rank(For(op, "Screen")), Rank(For(op, "Voice")))
           /\ \A k \in a.kinds : Has(ForEachKind(a, <<op>>), For(op, k))
<1> DEFINE one(k) == OnlyIf(k \in a.kinds, <<For(op, k)>>)
<1>1. \A k \in Media : For(op, k) \in Calls
    BY DEF For, Calls
<1>2. ForEachKind(a, <<op>>) = one("Screen") \o one("Voice")
    <2>1. \A k : [i \in DOMAIN <<op>> |-> [op |-> <<op>>[i], kind |-> k]] = <<For(op, k)>>
        BY DEF For
    <2> QED BY <2>1 DEF ForEachKind
<1>3. \A k \in Media : /\ Part(a, one(k), Rank(For(op, k)), Rank(For(op, k)))
                       /\ k \in a.kinds => Has(one(k), For(op, k))
    <2> TAKE k \in Media
    <2>1. For(op, k) \in Calls
        BY <1>1
    <2>2. k \in a.kinds => /\ Part(a, <<For(op, k)>>, Rank(For(op, k)), Rank(For(op, k)))
                           /\ Has(<<For(op, k)>>, For(op, k))
        BY <2>1, SmallParts
    <2>3. CASE k \in a.kinds
        BY <2>2, <2>3 DEF OnlyIf
    <2>4. CASE k \notin a.kinds
        BY <2>4, SmallParts DEF OnlyIf
    <2> QED BY <2>3, <2>4
<1>4. \A k \in Media : Rank(For(op, k)) \in Nat
    BY <1>1, RankType
<1> HIDE DEF one
<1>5. "Screen" \in Media /\ "Voice" \in Media
    BY DEF Media
<1>6. /\ Part(a, one("Screen") \o one("Voice"), Rank(For(op, "Screen")), Rank(For(op, "Voice")))
      /\ \A x : Has(one("Screen") \o one("Voice"), x) <=> Has(one("Screen"), x) \/ Has(one("Voice"), x)
    BY <1>3, <1>4, <1>5, PartsJoin
<1> QED BY <1>2, <1>3, <1>6 DEF Media

\* Two calls, for each kind.
LEMMA ForEachKindPairs ==
    ASSUME NEW a, NEW op \in Ops, NEW second \in Ops, a.kinds \subseteq Media,
           \A k \in a.kinds : Suits(a, For(op, k)) /\ Suits(a, For(second, k)),
           \A k \in Media : Rank(For(op, k)) < Rank(For(second, k)),
           Rank(For(second, "Screen")) < Rank(For(op, "Voice"))
    PROVE  /\ Part(a, ForEachKind(a, <<op, second>>),
                   Rank(For(op, "Screen")), Rank(For(second, "Voice")))
           /\ \A k \in a.kinds : Has(ForEachKind(a, <<op, second>>), For(op, k))
<1> DEFINE both(k) == OnlyIf(k \in a.kinds, <<For(op, k), For(second, k)>>)
<1>1. \A k \in Media : For(op, k) \in Calls /\ For(second, k) \in Calls
    BY DEF For, Calls
<1>2. ForEachKind(a, <<op, second>>) = both("Screen") \o both("Voice")
    <2>1. \A k : [i \in DOMAIN <<op, second>> |-> [op |-> <<op, second>>[i], kind |-> k]]
                    = <<For(op, k), For(second, k)>>
        BY DEF For
    <2> QED BY <2>1 DEF ForEachKind
<1>3. \A k \in Media : /\ Part(a, both(k), Rank(For(op, k)), Rank(For(second, k)))
                       /\ k \in a.kinds => Has(both(k), For(op, k))
    <2> TAKE k \in Media
    <2>1. For(op, k) \in Calls /\ For(second, k) \in Calls /\ Rank(For(op, k)) < Rank(For(second, k))
        BY <1>1
    <2>2. k \in a.kinds =>
             /\ Part(a, <<For(op, k), For(second, k)>>, Rank(For(op, k)), Rank(For(second, k)))
             /\ Has(<<For(op, k), For(second, k)>>, For(op, k))
        BY <2>1, SmallParts
    <2>3. CASE k \in a.kinds
        BY <2>2, <2>3 DEF OnlyIf
    <2>4. CASE k \notin a.kinds
        BY <2>4, SmallParts DEF OnlyIf
    <2> QED BY <2>3, <2>4
<1>4. \A k \in Media : Rank(For(op, k)) \in Nat /\ Rank(For(second, k)) \in Nat
    BY <1>1, RankType
<1> HIDE DEF both
<1>5. "Screen" \in Media /\ "Voice" \in Media
    BY DEF Media
<1>6. /\ Rank(For(op, "Screen")) <= Rank(For(second, "Screen"))
      /\ Rank(For(op, "Voice")) <= Rank(For(second, "Voice"))
    BY <1>4, <1>5
<1>7. /\ Part(a, both("Screen") \o both("Voice"), Rank(For(op, "Screen")), Rank(For(second, "Voice")))
      /\ \A x : Has(both("Screen") \o both("Voice"), x)
                   <=> Has(both("Screen"), x) \/ Has(both("Voice"), x)
    BY <1>3, <1>4, <1>5, <1>6, PartsJoin
<1> QED BY <1>2, <1>3, <1>7 DEF Media

\* The ranks of the calls of which the scripts are made.
LEMMA RanksInScripts ==
    /\ Rank(For("Hello", "Screen")) = 1 /\ Rank(For("Authenticate", "Screen")) = 2
    /\ Rank(For("CreateRoom", "Screen")) = 3 /\ Rank(For("ListRooms", "Screen")) = 3
    /\ Rank(For("JoinRoom", "Screen")) = 4 /\ Rank(For("SetVoiceState", "Screen")) = 5
    /\ Rank(For("List", "Screen")) = 6 /\ Rank(For("ListStreams", "Screen")) = 6
    /\ Rank(For("PublishStream", "Screen")) = 6 /\ Rank(For("PublishStream", "Voice")) = 8
    /\ Rank(For("SetStreamConfig", "Screen")) = 7 /\ Rank(For("SetStreamConfig", "Voice")) = 9
    /\ Rank(For("SubscribeStream", "Screen")) = 7 /\ Rank(For("SubscribeStream", "Voice")) = 8
    /\ Rank(For("PollStreamConfig", "Screen")) = 9 /\ Rank(For("PollStreamConfig", "Voice")) = 10
    /\ Rank(For("SetTargetBitrate", "Screen")) = 10 /\ Rank(For("SetTargetBitrate", "Voice")) = 12
    /\ Rank(For("SetTargetFramerate", "Screen")) = 11
    /\ Rank(For("SetTargetFramerate", "Voice")) = 13
    /\ Rank(For("SendRemoteInput", "Screen")) = 11 /\ Rank(For("Media", "Screen")) = 14
    /\ Rank(For("UnpublishStream", "Screen")) = 15 /\ Rank(For("UnpublishStream", "Voice")) = 16
    /\ Rank(For("UnsubscribeStream", "Screen")) = 15
    /\ Rank(For("UnsubscribeStream", "Voice")) = 16
    /\ Rank(For("LeaveRoom", "Screen")) = 17
BY DEF Rank, For

\* Every script begins with Hello, and Authenticate where a token is given.
LEMMA ProloguePart ==
    ASSUME NEW a \in CommandLine
    PROVE  Part(a, Prologue(a), 1, 2)
<1>1. Part(a, Once(<<"Hello">>), 1, 1) /\ Part(a, Once(<<"Authenticate">>), 2, 2)
    BY OncePart, RanksInScripts DEF Suits, For, Ops
<1>2. Part(a, OnlyIf(a.token # "none", Once(<<"Authenticate">>)), 2, 2)
    BY <1>1, OnlyIfPart
<1> QED BY <1>1, <1>2, PartsJoin DEF Prologue

\* At most one SetVoiceState.
LEMMA VoicePart ==
    ASSUME NEW a \in CommandLine
    PROVE  Part(a, VoiceScript(a), 5, 5)
<1>1. Part(a, Once(<<"SetVoiceState">>), 5, 5)
    BY OncePart, RanksInScripts DEF Suits, For, Ops
<1> QED BY <1>1, SmallParts DEF VoiceScript, OnlyIf

\* A broadcaster creates its room where it names none, joins it, publishes each
\* stream and leaves in the end.
LEMMA BroadcasterPart ==
    ASSUME NEW a \in CommandLine, a.mode = "broadcast"
    PROVE  /\ Part(a, BroadcasterScript(a), 3, 17)
           /\ \A x \in Required(a) : Has(BroadcasterScript(a), x)
<1> DEFINE create == OnlyIf(a.room = NoRoom, Once(<<"CreateRoom">>))
           publish == ForEachKind(a, <<"PublishStream", "SetStreamConfig">>)
           targets == ForEachKind(a, <<"SetTargetBitrate", "SetTargetFramerate">>)
           media == OnlyIf(a.media, targets \o Once(<<"Media">>))
           unpublish == ForEachKind(a, <<"UnpublishStream">>)
           s2 == create \o Once(<<"JoinRoom">>)
           s3 == s2 \o VoiceScript(a)
           s4 == s3 \o publish
           s5 == s4 \o media
           s6 == s5 \o unpublish
           s7 == s6 \o Once(<<"LeaveRoom">>)
<1>0. a.kinds \subseteq Media /\ a.room \in Nat /\ a.media \in BOOLEAN
    BY DEF CommandLine
<1>1. /\ Part(a, create, 3, 3)
      /\ a.room = NoRoom => Has(create, For("CreateRoom", "Screen"))
    <2>1. CASE a.room = NoRoom
        BY <2>1, OncePart, RanksInScripts DEF Suits, For, Ops, OnlyIf
    <2>2. CASE a.room # NoRoom
        BY <2>2, SmallParts DEF OnlyIf
    <2> QED BY <2>1, <2>2
<1>2. /\ Part(a, Once(<<"JoinRoom">>), 4, 4) /\ Part(a, Once(<<"LeaveRoom">>), 17, 17)
      /\ Part(a, Once(<<"Media">>), 14, 14)
      /\ Has(Once(<<"JoinRoom">>), For("JoinRoom", "Screen"))
      /\ Has(Once(<<"LeaveRoom">>), For("LeaveRoom", "Screen"))
    BY OncePart, RanksInScripts DEF Suits, For, Ops
<1>3. /\ Part(a, publish, 6, 9)
      /\ \A k \in a.kinds : Has(publish, For("PublishStream", k))
    <2>1. \A k \in a.kinds : /\ Suits(a, For("PublishStream", k))
                             /\ Suits(a, For("SetStreamConfig", k))
        BY DEF Suits, For
    <2>2. \A k \in Media : Rank(For("PublishStream", k)) < Rank(For("SetStreamConfig", k))
        BY RanksInScripts DEF Media
    <2>3. "PublishStream" \in Ops /\ "SetStreamConfig" \in Ops
        BY DEF Ops
    <2>4. Rank(For("SetStreamConfig", "Screen")) < Rank(For("PublishStream", "Voice"))
        BY RanksInScripts
    <2>5. /\ Part(a, ForEachKind(a, <<"PublishStream", "SetStreamConfig">>),
                   Rank(For("PublishStream", "Screen")), Rank(For("SetStreamConfig", "Voice")))
          /\ \A k \in a.kinds :
                Has(ForEachKind(a, <<"PublishStream", "SetStreamConfig">>), For("PublishStream", k))
        BY <1>0, <2>1, <2>2, <2>3, <2>4, ForEachKindPairs, Zenon
    <2> QED BY <2>5, RanksInScripts
<1>4. Part(a, targets, 10, 13)
    <2>1. \A k \in a.kinds : /\ Suits(a, For("SetTargetBitrate", k))
                             /\ Suits(a, For("SetTargetFramerate", k))
        BY DEF Suits, For
    <2>2. \A k \in Media : Rank(For("SetTargetBitrate", k)) < Rank(For("SetTargetFramerate", k))
        BY RanksInScripts DEF Media
    <2>3. "SetTargetBitrate" \in Ops /\ "SetTargetFramerate" \in Ops
        BY DEF Ops
    <2>4. Rank(For("SetTargetFramerate", "Screen")) < Rank(For("SetTargetBitrate", "Voice"))
        BY RanksInScripts
    <2>5. /\ Part(a, ForEachKind(a, <<"SetTargetBitrate", "SetTargetFramerate">>),
                   Rank(For("SetTargetBitrate", "Screen")), Rank(For("SetTargetFramerate", "Voice")))
          /\ \A k \in a.kinds :
                Has(ForEachKind(a, <<"SetTargetBitrate", "SetTargetFramerate">>), For("SetTargetBitrate", k))
        BY <1>0, <2>1, <2>2, <2>3, <2>4, ForEachKindPairs, Zenon
    <2> QED BY <2>5, RanksInScripts
<1>5. Part(a, unpublish, 15, 16)
    <2>1. \A k \in a.kinds : Suits(a, For("UnpublishStream", k))
        BY DEF Suits, For
    <2> QED BY <1>0, <2>1, ForEachKindPart, RanksInScripts DEF Ops
<1>6. Part(a, VoiceScript(a), 5, 5)
    BY VoicePart
<1> HIDE DEF create, publish, targets, unpublish
<1>7. Part(a, media, 10, 14)
    <2>1. Part(a, targets \o Once(<<"Media">>), 10, 14)
        BY <1>2, <1>4, PartsJoin
    <2> QED BY <1>0, <2>1, OnlyIfPart
<1> HIDE DEF media
<1>8. Part(a, s2, 3, 4) /\ \A x : Has(s2, x) <=> Has(create, x) \/ Has(Once(<<"JoinRoom">>), x)
    BY <1>1, <1>2, PartsJoin
<1> HIDE DEF s2
<1>9. Part(a, s3, 3, 5) /\ \A x : Has(s3, x) <=> Has(s2, x) \/ Has(VoiceScript(a), x)
    BY <1>8, <1>6, PartsJoin
<1> HIDE DEF s3
<1>10. Part(a, s4, 3, 9) /\ \A x : Has(s4, x) <=> Has(s3, x) \/ Has(publish, x)
    BY <1>9, <1>3, PartsJoin
<1> HIDE DEF s4
<1>11. Part(a, s5, 3, 14) /\ \A x : Has(s5, x) <=> Has(s4, x) \/ Has(media, x)
    BY <1>10, <1>7, PartsJoin
<1> HIDE DEF s5
<1>12. Part(a, s6, 3, 16) /\ \A x : Has(s6, x) <=> Has(s5, x) \/ Has(unpublish, x)
    BY <1>11, <1>5, PartsJoin
<1> HIDE DEF s6
<1>13. Part(a, s7, 3, 17) /\ \A x : Has(s7, x) <=> Has(s6, x) \/ Has(Once(<<"LeaveRoom">>), x)
    BY <1>12, <1>2, PartsJoin
<1>14. BroadcasterScript(a) = s7
    BY DEF BroadcasterScript, create, publish, targets, media, unpublish, s2, s3, s4, s5, s6
<1> HIDE DEF s7
<1>15. \A x \in Required(a) : \/ x = For("JoinRoom", "Screen") \/ x = For("LeaveRoom", "Screen")
                              \/ x = For("CreateRoom", "Screen") /\ a.room = NoRoom
                              \/ \E k \in a.kinds : x = For("PublishStream", k)
    BY DEF Required
<1>16. \A x \in Required(a) : Has(s7, x)
    BY <1>1, <1>2, <1>3, <1>8, <1>9, <1>10, <1>11, <1>12, <1>13, <1>15
<1> QED BY <1>13, <1>14, <1>16

\* Whoever is no broadcaster finds a room and joins it.
LEMMA EnterPart ==
    ASSUME NEW a \in CommandLine, a.mode # "broadcast"
    PROVE  Part(a, EnterScript(a), 3, 4) /\ Has(EnterScript(a), For("JoinRoom", "Screen"))
<1>1. /\ Part(a, Once(<<"JoinRoom">>), 4, 4) /\ Part(a, Once(<<"ListRooms">>), 3, 3)
      /\ Has(Once(<<"JoinRoom">>), For("JoinRoom", "Screen"))
    BY OncePart, RanksInScripts DEF Suits, For, Ops
<1>2. Part(a, OnlyIf(a.room = NoRoom, Once(<<"ListRooms">>)), 3, 3)
    BY <1>1, SmallParts DEF OnlyIf
<1> QED BY <1>1, <1>2, PartsJoin DEF EnterScript

\* A viewer joins the room, lists its streams, unsubscribes from every stream and
\* leaves in the end.
LEMMA ViewerPart ==
    ASSUME NEW a \in CommandLine, a.mode = "view"
    PROVE  /\ Part(a, ViewerScript(a), 3, 17)
           /\ \A x \in Required(a) : Has(ViewerScript(a), x)
<1> DEFINE subscribe == ForEachKind(a, <<"SubscribeStream">>)
           poll == ForEachKind(a, <<"PollStreamConfig">>)
           inputs == [i \in 1..a.inputs |-> [op |-> "SendRemoteInput", kind |-> "Screen"]]
           media == OnlyIf(a.media, Once(<<"Media">>))
           unsubscribe == ForEachKind(a, <<"UnsubscribeStream">>)
           s2 == EnterScript(a) \o VoiceScript(a)
           s3 == s2 \o Once(<<"ListStreams">>)
           s4 == s3 \o subscribe
           s5 == s4 \o poll
           s6 == s5 \o inputs
           s7 == s6 \o media
           s8 == s7 \o unsubscribe
           s9 == s8 \o Once(<<"LeaveRoom">>)
<1>0. a.kinds \subseteq Media /\ a.inputs \in Nat /\ a.media \in BOOLEAN
    BY DEF CommandLine
<1>1. Part(a, EnterScript(a), 3, 4) /\ Has(EnterScript(a), For("JoinRoom", "Screen"))
    BY EnterPart
<1>2. /\ Part(a, Once(<<"ListStreams">>), 6, 6) /\ Part(a, Once(<<"LeaveRoom">>), 17, 17)
      /\ Part(a, Once(<<"Media">>), 14, 14)
      /\ Has(Once(<<"ListStreams">>), For("ListStreams", "Screen"))
      /\ Has(Once(<<"LeaveRoom">>), For("LeaveRoom", "Screen"))
    BY OncePart, RanksInScripts DEF Suits, For, Ops
<1>3. Part(a, subscribe, 7, 8)
    <2>1. \A k \in a.kinds : Suits(a, For("SubscribeStream", k))
        BY DEF Suits, For
    <2> QED BY <1>0, <2>1, ForEachKindPart, RanksInScripts DEF Ops
<1>4. Part(a, poll, 9, 10)
    <2>1. \A k \in a.kinds : Suits(a, For("PollStreamConfig", k))
        BY DEF Suits, For
    <2> QED BY <1>0, <2>1, ForEachKindPart, RanksInScripts DEF Ops
<1>5. /\ Part(a, unsubscribe, 15, 16)
      /\ \A k \in a.kinds : Has(unsubscribe, For("UnsubscribeStream", k))
    <2>1. \A k \in a.kinds : Suits(a, For("UnsubscribeStream", k))
        BY DEF Suits, For
    <2> QED BY <1>0, <2>1, ForEachKindPart, RanksInScripts DEF Ops
<1>6. Part(a, inputs, 11, 11)
    <2>1. For("SendRemoteInput", "Screen") \in Calls /\ Suits(a, For("SendRemoteInput", "Screen"))
        BY DEF For, Calls, Ops, Media, Suits
    <2>2. inputs = [i \in 1..a.inputs |-> For("SendRemoteInput", "Screen")]
        BY DEF For
    <2>3. inputs \in Seq(Calls) /\ DOMAIN inputs = 1..a.inputs
        BY <1>0, <2>1, <2>2
    <2>4. \A i \in DOMAIN inputs : inputs[i] = For("SendRemoteInput", "Screen")
        BY <2>2
    <2> HIDE DEF inputs
    <2>5. For("SendRemoteInput", "Screen").op = "SendRemoteInput"
        BY DEF For
    <2> QED BY <2>1, <2>3, <2>4, <2>5, RanksInScripts DEF Part, InOrder
<1>7. Part(a, VoiceScript(a), 5, 5)
    BY VoicePart
<1>8. Part(a, media, 14, 14)
    BY <1>0, <1>2, OnlyIfPart
<1> HIDE DEF subscribe, poll, inputs, media, unsubscribe
<1>9. Part(a, s2, 3, 5) /\ \A x : Has(s2, x) <=> Has(EnterScript(a), x) \/ Has(VoiceScript(a), x)
    BY <1>1, <1>7, PartsJoin
<1> HIDE DEF s2
<1>10. Part(a, s3, 3, 6) /\ \A x : Has(s3, x) <=> Has(s2, x) \/ Has(Once(<<"ListStreams">>), x)
    BY <1>2, <1>9, PartsJoin
<1> HIDE DEF s3
<1>11. Part(a, s4, 3, 8) /\ \A x : Has(s4, x) <=> Has(s3, x) \/ Has(subscribe, x)
    BY <1>3, <1>10, PartsJoin
<1> HIDE DEF s4
<1>12. Part(a, s5, 3, 10) /\ \A x : Has(s5, x) <=> Has(s4, x) \/ Has(poll, x)
    BY <1>4, <1>11, PartsJoin
<1> HIDE DEF s5
<1>13. Part(a, s6, 3, 11) /\ \A x : Has(s6, x) <=> Has(s5, x) \/ Has(inputs, x)
    BY <1>6, <1>12, PartsJoin
<1> HIDE DEF s6
<1>14. Part(a, s7, 3, 14) /\ \A x : Has(s7, x) <=> Has(s6, x) \/ Has(media, x)
    BY <1>8, <1>13, PartsJoin
<1> HIDE DEF s7
<1>15. Part(a, s8, 3, 16) /\ \A x : Has(s8, x) <=> Has(s7, x) \/ Has(unsubscribe, x)
    BY <1>5, <1>14, PartsJoin
<1> HIDE DEF s8
<1>16. Part(a, s9, 3, 17) /\ \A x : Has(s9, x) <=> Has(s8, x) \/ Has(Once(<<"LeaveRoom">>), x)
    BY <1>2, <1>15, PartsJoin
<1>17. ViewerScript(a) = s9
    BY DEF ViewerScript, subscribe, poll, inputs, media, unsubscribe,
           s2, s3, s4, s5, s6, s7, s8
<1> HIDE DEF s9
<1>18. \A x \in Required(a) : \/ x = For("JoinRoom", "Screen") \/ x = For("LeaveRoom", "Screen")
                              \/ x = For("ListStreams", "Screen")
                              \/ \E k \in a.kinds : x = For("UnsubscribeStream", k)
    BY DEF Required
<1>19. \A x \in Required(a) : Has(s9, x)
    BY <1>1, <1>2, <1>5, <1>9, <1>10, <1>11, <1>12, <1>13, <1>14, <1>15, <1>16, <1>18
<1> QED BY <1>16, <1>17, <1>19

\* The listings join the room and leave it.
LEMMA ListingPart ==
    ASSUME NEW a \in CommandLine, a.mode # "broadcast"
    PROVE  /\ Part(a, StreamListScript(a), 3, 17) /\ Part(a, ParticipantListScript(a), 3, 17)
           /\ \A x \in {For("JoinRoom", "Screen"), For("LeaveRoom", "Screen")} :
                 Has(StreamListScript(a), x) /\ Has(ParticipantListScript(a), x)
<1> DEFINE last == Once(<<"List", "LeaveRoom">>)
           entered == EnterScript(a) \o VoiceScript(a)
<1>1. Part(a, EnterScript(a), 3, 4) /\ Has(EnterScript(a), For("JoinRoom", "Screen"))
    BY EnterPart
<1>2. Part(a, last, 6, 17) /\ Has(last, For("LeaveRoom", "Screen"))
    <2> DEFINE x == For("List", "Screen")
               z == For("LeaveRoom", "Screen")
    <2>1. last = <<x, z>>
        BY DEF Once, For
    <2>2. x \in Calls /\ z \in Calls /\ Suits(a, x) /\ Suits(a, z)
        BY DEF For, Calls, Ops, Media, Suits
    <2>3. Rank(x) = 6 /\ Rank(z) = 17
        BY RanksInScripts
    <2> HIDE DEF x, z
    <2>4. Part(a, <<x, z>>, Rank(x), Rank(z)) /\ Has(<<x, z>>, z)
        BY <2>2, <2>3, SmallParts
    <2> QED BY <2>1, <2>3, <2>4 DEF z
<1>3. Part(a, VoiceScript(a), 5, 5)
    BY VoicePart
<1> HIDE DEF last
<1>4. /\ Part(a, entered, 3, 5)
      /\ \A x : Has(entered, x) <=> Has(EnterScript(a), x) \/ Has(VoiceScript(a), x)
    BY <1>1, <1>3, PartsJoin
<1>5. /\ Part(a, EnterScript(a) \o last, 3, 17)
      /\ \A x : Has(EnterScript(a) \o last, x) <=> Has(EnterScript(a), x) \/ Has(last, x)
    BY <1>1, <1>2, PartsJoin
<1> HIDE DEF entered
<1>6. /\ Part(a, entered \o last, 3, 17)
      /\ \A x : Has(entered \o last, x) <=> Has(entered, x) \/ Has(last, x)
    BY <1>2, <1>4, PartsJoin
<1>7. StreamListScript(a) = EnterScript(a) \o last /\ ParticipantListScript(a) = entered \o last
    BY DEF StreamListScript, ParticipantListScript, last, entered
<1> QED BY <1>1, <1>2, <1>4, <1>5, <1>6, <1>7

\* Every script is in order, made of calls that suit the command line, and leaves
\* out none that is required.
LEMMA ScriptPart ==
    ASSUME NEW a \in CommandLine
    PROVE  /\ Part(a, Script(a), 1, 17) /\ Script(a) # << >>
           /\ \A x \in Required(a) : Has(Script(a), x)
<1> DEFINE rest == CASE a.mode = "broadcast"    -> BroadcasterScript(a)
                     [] a.mode = "view"         -> ViewerScript(a)
                     [] a.mode = "streams"      -> StreamListScript(a)
                     [] a.mode = "participants" -> ParticipantListScript(a)
<1>1. Part(a, rest, 3, 17) /\ \A x \in Required(a) : Has(rest, x)
    <2>1. CASE a.mode = "broadcast"
        BY <2>1, BroadcasterPart
    <2>2. CASE a.mode = "view"
        BY <2>2, ViewerPart
    <2>3. CASE a.mode \in {"streams", "participants"}
        <3>1. \A x \in Required(a) : x \in {For("JoinRoom", "Screen"), For("LeaveRoom", "Screen")}
            BY <2>3 DEF Required
        <3> QED BY <2>3, <3>1, ListingPart
    <2>4. a.mode \in {"broadcast", "view", "streams", "participants"}
        BY DEF CommandLine
    <2> QED BY <2>1, <2>2, <2>3, <2>4
<1> HIDE DEF rest
<1>2. Part(a, Prologue(a), 1, 2)
    BY ProloguePart
<1>3. /\ Part(a, Prologue(a) \o rest, 1, 17)
      /\ \A x : Has(Prologue(a) \o rest, x) <=> Has(Prologue(a), x) \/ Has(rest, x)
    BY <1>1, <1>2, PartsJoin
<1>4. Script(a) = Prologue(a) \o rest
    BY DEF Script, rest
<1>5. For("LeaveRoom", "Screen") \in Required(a)
    BY DEF Required
<1>6. Has(Script(a), For("LeaveRoom", "Screen"))
    BY <1>1, <1>3, <1>4, <1>5
<1>7. Script(a) # << >>
    BY <1>6, SmallParts
<1> QED BY <1>1, <1>3, <1>4, <1>7

-----------------------------------------------------------------------------
(***************************************************************************)
(* A client at its call.                                                   *)
(***************************************************************************)

\* What is required are calls.
LEMMA RequiredCalls ==
    ASSUME NEW a \in CommandLine
    PROVE  Required(a) \subseteq Calls
BY DEF Required, CommandLine, For, Calls, Ops, Media

\* Every client has a command line.
LEMMA ArgsType ==
    ASSUME FlowType, NEW c \in Sessions
    PROVE  args[c] \in CommandLine
BY FlowAssumption DEF FlowType

\* The call a client that has not ended is at.
LEMMA AtHead ==
    ASSUME NEW c, ScriptInv(c), todo[c] # << >>
    PROVE  /\ Current(c) = todo[c][1] /\ todo[c][1] \in Calls /\ Suits(args[c], todo[c][1])
           /\ Pos(c) = Rank(todo[c][1]) /\ Pos(c) \in 1..17
<1>1. Len(todo[c]) > 0 /\ 1 \in DOMAIN todo[c] /\ todo[c][1] \in Calls /\ Head(todo[c]) = todo[c][1]
    BY DEF ScriptInv
<1> QED BY <1>1, RankType DEF ScriptInv, Current, Pos

\* Requests are handled of clients that run, and of those that ended with one on its
\* way; a client is never both.
LEMMA ActingClient ==
    ASSUME NEW c, ClientInv(c)
    PROVE  /\ Running(c) \/ c \in pending => Acting(c)
           /\ Running(c) => c \notin pending
<1>1. Running(c) => Prepared(c)
    BY DEF ClientInv, GoingInv, PlaceInv, WatchInv, Prepared
<1>2. c \in pending => Prepared(c) /\ todo[c] # << >>
    BY DEF ClientInv, PendingInv
<1>3. Running(c) => todo[c] # << >> /\ c \notin pending
    BY DEF ClientInv, ScriptInv, PendingInv, Running
<1> QED BY <1>1, <1>2, <1>3 DEF ClientInv, Acting

\* The client goes to its next call: none that is required is skipped, and the
\* last call is the LeaveRoom.
LEMMA Advance ==
    ASSUME FlowType, NEW c \in Sessions, ScriptInv(c), Running(c), Advances(c)
    PROVE  /\ ScriptInv(c)' /\ args' = args
           /\ Pos(c)' \in 1..18 /\ Pos(c) <= Pos(c)'
           /\ todo[c][1].op # "SendRemoteInput" => Pos(c) < Pos(c)'
           /\ \A x \in Required(args[c]) : Pos(c) <= Rank(x) =>
                 todo[c][1] = x \/ Pos(c)' <= Rank(x)
           /\ status'[c] = IF todo[c][1] = For("LeaveRoom", "Screen") THEN "done" ELSE "running"
           /\ todo'[c] # << >> => todo[c][1] # For("LeaveRoom", "Screen")
<1> DEFINE q == todo[c]
           t == todo'[c]
<1>1. /\ q \in Seq(Calls) /\ q # << >> /\ InOrder(q) /\ Len(q) \in Nat \ {0} /\ q[1] \in Calls
      /\ \A x \in Required(args[c]) : Rank(x) < Pos(c) \/ Has(q, x)
      /\ \A i \in DOMAIN q : Suits(args[c], q[i])
    BY DEF ScriptInv, Running
<1>2. t = Tail(q) /\ args' = args /\ status'[c] = IF Len(q) = 1 THEN "done" ELSE status[c]
    BY DEF Advances, FlowType
<1>3. /\ t \in Seq(Calls) /\ Len(t) = Len(q) - 1 /\ DOMAIN t = 1..(Len(q) - 1)
      /\ \A i \in DOMAIN t : i + 1 \in DOMAIN q /\ t[i] = q[i + 1]
    BY <1>1, <1>2
<1>4. Pos(c) = Rank(q[1]) /\ Pos(c)' = IF t = << >> THEN 18 ELSE Rank(t[1])
    BY <1>1 DEF Pos
<1>5. \A x \in Required(args[c]) : x \in Calls /\ Rank(x) \in 1..17
    BY ArgsType, RequiredCalls, RankType
<1>6. DOMAIN q = 1..Len(q) /\ \A i \in DOMAIN q : q[i] \in Calls /\ Rank(q[i]) \in 1..17
    <2>1. DOMAIN q = 1..Len(q) /\ \A i \in DOMAIN q : q[i] \in Calls
        BY <1>1
    <2> QED BY <2>1, RankType
<1> HIDE DEF q, t
<1>7. InOrder(t) /\ \A i \in DOMAIN t : Suits(args[c], t[i])
    <2>1. ASSUME NEW i \in DOMAIN t, NEW j \in DOMAIN t, i < j
          PROVE  Rank(t[i]) < Rank(t[j]) \/ (t[i] = t[j] /\ t[i].op = "SendRemoteInput")
        BY <1>1, <1>3, <2>1 DEF InOrder
    <2> QED BY <1>1, <1>3, <2>1 DEF InOrder
<1>8. ASSUME t # << >>
      PROVE  /\ 1 \in DOMAIN t /\ t[1] = q[2] /\ 2 \in DOMAIN q
             /\ Rank(q[1]) < Rank(t[1]) \/ (q[1] = t[1] /\ q[1].op = "SendRemoteInput")
    <2>1. 1 \in DOMAIN t /\ t[1] = q[2] /\ 2 \in DOMAIN q /\ 1 \in DOMAIN q
        BY <1>1, <1>3, <1>6, <1>8
    <2> QED BY <1>1, <2>1 DEF InOrder
<1>9. Pos(c) \in 1..17 /\ Pos(c)' \in 1..18 /\ Pos(c) <= Pos(c)'
      /\ (q[1].op # "SendRemoteInput" => Pos(c) < Pos(c)')
    <2>1. 1 \in DOMAIN q
        BY <1>1, <1>6
    <2>2. CASE t = << >>
        BY <1>4, <1>6, <2>1, <2>2
    <2>3. CASE t # << >>
        <3>1. Rank(q[1]) \in 1..17 /\ Rank(t[1]) \in 1..17
            BY <1>6, <1>8, <2>1, <2>3
        <3>2. Rank(q[1]) < Rank(t[1]) \/ (q[1] = t[1] /\ q[1].op = "SendRemoteInput")
            BY <1>8, <2>3
        <3>3. Rank(q[1]) <= Rank(t[1])
            BY <3>1, <3>2
        <3> QED BY <1>4, <2>3, <3>1, <3>2, <3>3
    <2> QED BY <2>2, <2>3
<1>10. ASSUME NEW x \in Required(args[c]), Pos(c) <= Rank(x), q[1] # x
       PROVE  Has(t, x)
    <2>1. ~(Rank(x) < Pos(c))
        BY <1>5, <1>9, <1>10
    <2>2. PICK i \in DOMAIN q : q[i] = x
        BY <1>1, <2>1 DEF Has
    <2>3. i - 1 \in DOMAIN t /\ t[i - 1] = q[i]
        BY <1>1, <1>3, <1>6, <1>10, <2>2
    <2> QED BY <2>2, <2>3 DEF Has
<1>11. ASSUME NEW x \in Calls, Has(t, x)
       PROVE  Pos(c)' <= Rank(x) /\ t # << >>
    <2>1. PICK i \in DOMAIN t : t[i] = x
        BY <1>11 DEF Has
    <2>2. t # << >> /\ 1 \in DOMAIN t /\ i \in Nat /\ 1 <= i
        BY <1>3, <2>1
    <2>3. Rank(t[1]) <= Rank(t[i])
        <3>1. t[1] \in Calls /\ t[i] \in Calls
            BY <1>3, <2>2
        <3>2. Rank(t[1]) \in Nat /\ Rank(t[i]) \in Nat
            BY <3>1, RankType
        <3>3. CASE i = 1
            BY <3>2, <3>3
        <3>4. CASE 1 < i
            BY <1>7, <2>2, <3>2, <3>4 DEF InOrder
        <3> QED BY <2>2, <3>3, <3>4
    <2> QED BY <1>4, <2>1, <2>2, <2>3
<1>12. \A x \in Required(args[c]) : Pos(c) <= Rank(x) => q[1] = x \/ Pos(c)' <= Rank(x)
    BY <1>5, <1>10, <1>11
<1>13. t # << >> => \A x \in Required(args[c]) : Rank(x) < Pos(c)' \/ Has(t, x)
    <2> SUFFICES ASSUME t # << >>, NEW x \in Required(args[c]), ~Has(t, x)
                 PROVE  Rank(x) < Pos(c)'
        OBVIOUS
    <2>1. Rank(x) < Pos(c) \/ q[1] = x
        BY <1>5, <1>9, <1>10
    <2>2. q[1] = x => q[1] # t[1]
        BY <1>8 DEF Has
    <2>3. q[1] = x => Rank(x) < Pos(c)'
        BY <1>4, <1>8, <2>2
    <2>4. /\ Rank(x) \in Nat /\ Pos(c) \in Nat /\ Pos(c)' \in Nat
          /\ Pos(c) <= Pos(c)'
        BY <1>5, <1>9
    <2>5. Rank(x) < Pos(c) => Rank(x) < Pos(c)'
        BY <2>4
    <2> QED BY <2>1, <2>3, <2>5
<1>14. For("LeaveRoom", "Screen") \in Required(args[c])
       /\ Rank(For("LeaveRoom", "Screen")) = 17
    BY RanksInScripts DEF Required
<1>15. t = << >> => q[1] = For("LeaveRoom", "Screen")
    BY <1>4, <1>9, <1>12, <1>14
<1>16. t # << >> => q[1] # For("LeaveRoom", "Screen")
    <2> SUFFICES ASSUME t # << >>, q[1] = For("LeaveRoom", "Screen")
                 PROVE  FALSE
        OBVIOUS
    <2>1. q[1].op = "LeaveRoom" /\ Rank(q[1]) = 17
        BY <1>14 DEF For
    <2>2. 2 \in DOMAIN q /\ Rank(q[1]) < Rank(q[2])
        BY <1>8, <2>1
    <2> QED BY <1>6, <2>1, <2>2
<1>17. (Len(q) = 1) <=> (t = << >>)
    BY <1>1, <1>3
<1>18. status'[c] = IF q[1] = For("LeaveRoom", "Screen") THEN "done" ELSE "running"
    BY <1>2, <1>15, <1>16, <1>17 DEF Running
<1>19. ScriptInv(c)'
    <2>1. t \in Seq(Calls) /\ InOrder(t) /\ \A i \in DOMAIN t : Suits(args[c], t[i])
        BY <1>3, <1>7
    <2>2. (status'[c] = "running" => t # << >>) /\ (status'[c] = "done" => t = << >>)
        BY <1>15, <1>16, <1>18
    <2> QED BY <1>2, <1>13, <2>1, <2>2 DEF ScriptInv, t
<1> QED BY <1>2, <1>9, <1>12, <1>16, <1>18, <1>19 DEF q, t

-----------------------------------------------------------------------------
(***************************************************************************)
(* What the steps of a session leave alone.                                *)
(***************************************************************************)

\* Two states of one publication: only target and config differ.
SameStream(p, q) ==
    /\ p.room = q.room /\ p.stream = q.stream /\ p.publisher = q.publisher
    /\ p.codec = q.codec /\ p.kind = q.kind

\* A stream on the air was there before the step, or its id was free.
NothingReplaced ==
    \A q \in published' : ~IsPublished(q.stream) \/ \E p \in published : SameStream(p, q)

\* The step keeps the user in its rooms and its streams on the air, and adds
\* nothing in its name.
Spares(u) ==
    /\ \A m \in participants : m.user = u => m \in participants'
    /\ \A m \in participants' : m.user = u => m \in participants
    /\ \A p \in published : p.publisher = u => \E q \in published' : SameStream(p, q)
    /\ \A m \in subscriptions' : m.user = u => m \in subscriptions
    /\ \A v \in viewerStats' : v.user = u => v \in viewerStats
    /\ \A s \in StreamIds : \A i \in DOMAIN remoteInput'[s] : remoteInput'[s][i] = u =>
          \E j \in DOMAIN remoteInput[s] : remoteInput[s][j] = u

\* Changing target and config changes nothing else of a stream.
LEMMA WithTargetSame ==
    ASSUME NEW p \in Stream, NEW t
    PROVE  SameStream(p, WithTarget(p, t))
BY DEF SameStream, WithTarget, Stream

\* Replacing a stream by one that differs in target and config only.
LEMMA ReplaceSame ==
    ASSUME NEW p \in published, NEW q, SameStream(p, q), Replace(p, q)
    PROVE  /\ NothingReplaced
           /\ \A x \in published : \E y \in published' : SameStream(x, y)
BY DEF Replace, NothingReplaced, SameStream

\* The requests that change targets and configs.
LEMMA RetuningSame ==
    ASSUME TypeOK, NEW c \in Sessions, NEW s, NEW r,
           \/ \E codec, in : SetStreamConfig(c, r, s, codec, in)
           \/ \E b : SetTargetBitrate(c, r, s, b)
           \/ \E f : SetTargetFramerate(c, r, s, f)
           \/ PollPublisherFeedback(c, s)
    PROVE  /\ NothingReplaced
           /\ \A x \in published : \E y \in published' : SameStream(x, y)
           /\ UNCHANGED <<sessionVars, roomVars, subscriptions, viewerStats, remoteInput>>
<1> DEFINE Goal == /\ NothingReplaced
                   /\ \A x \in published : \E y \in published' : SameStream(x, y)
<1>0. \A x \in published : SameStream(x, x)
    BY DEF SameStream
<1>1. ASSUME NEW codec, NEW in, SetStreamConfig(c, r, s, codec, in) PROVE Goal
    <2>1. PICK p \in published :
             LET t == [ClampTarget(p.target.bitrate, in.fps, in.width, in.height)
                           EXCEPT !.bitrate = p.target.bitrate]
             IN  Replace(p, [p EXCEPT !.target = t,
                                      !.config = [fps |-> t.fps, width |-> t.width,
                                                  height |-> t.height]])
        BY <1>1 DEF SetStreamConfig
    <2>2. p \in Stream
        BY DEF TypeOK
    <2>3. \A t, g : SameStream(p, [p EXCEPT !.target = t, !.config = g])
        BY <2>2 DEF SameStream, Stream
    <2> QED BY <2>1, <2>3, ReplaceSame
<1>2. ASSUME NEW b, SetTargetBitrate(c, r, s, b) PROVE Goal
    <2>1. PICK p \in published : \E t : Replace(p, WithTarget(p, t))
        BY <1>2 DEF SetTargetBitrate
    <2> QED BY <2>1, ReplaceSame, WithTargetSame DEF TypeOK
<1>3. ASSUME NEW f, SetTargetFramerate(c, r, s, f) PROVE Goal
    <2>1. PICK p \in published : \E t : Replace(p, WithTarget(p, t))
        BY <1>3 DEF SetTargetFramerate
    <2> QED BY <2>1, ReplaceSame, WithTargetSame DEF TypeOK
<1>4. ASSUME PollPublisherFeedback(c, s) PROVE Goal
    <2>1. PICK p \in published : IF Overloaded(s)
                                 THEN Replace(p, WithTarget(p, LowerTarget(p.target)))
                                 ELSE UNCHANGED published
        BY <1>4 DEF PollPublisherFeedback
    <2>2. CASE Overloaded(s)
        BY <2>1, <2>2, ReplaceSame, WithTargetSame DEF TypeOK
    <2>3. CASE ~Overloaded(s)
        BY <2>1, <2>3, <1>0 DEF NothingReplaced
    <2> QED BY <2>2, <2>3
<1>5. UNCHANGED <<sessionVars, roomVars, subscriptions, viewerStats, remoteInput>>
    BY DEF SetStreamConfig, SetTargetBitrate, SetTargetFramerate, PollPublisherFeedback, perStream
<1> QED BY <1>1, <1>2, <1>3, <1>4, <1>5

\* The step spares the user, whoever it is, if it leaves these tables alone.
LEMMA SparesByFrame ==
    ASSUME UNCHANGED <<participants, published, subscriptions, viewerStats, remoteInput>>
    PROVE  NothingReplaced /\ \A u : Spares(u)
BY DEF NothingReplaced, Spares, SameStream

\* The requests that take nothing from anybody, not even from their own user,
\* and add nothing in its name but a stream.
LEMMA SparesAll ==
    ASSUME TypeOK, NEW c \in Sessions, NEW r, NEW s,
           \/ UNCHANGED vars \/ Hello(c) \/ Authenticate(c)
           \/ \E in : SetVoiceState(c, r, in)
           \/ \E codec, kind : PublishStream(c, r, s, codec, kind)
           \/ \E codec, in : SetStreamConfig(c, r, s, codec, in)
           \/ \E b : SetTargetBitrate(c, r, s, b)
           \/ \E f : SetTargetFramerate(c, r, s, f)
           \/ PollPublisherFeedback(c, s)
           \/ UnsubscribeStream(c, r, s)
           \/ RequestKeyframe(c, r, s)
           \/ \E n \in Nat : PollRemoteInput(c, r, s, n)
           \/ RecordForward(c, s)
    PROVE  NothingReplaced /\ \A u : Spares(u)
<1> DEFINE Goal == NothingReplaced /\ \A u : Spares(u)
<1>1. CASE \/ UNCHANGED vars \/ Hello(c) \/ Authenticate(c) \/ \E in : SetVoiceState(c, r, in)
           \/ RequestKeyframe(c, r, s) \/ RecordForward(c, s)
    BY <1>1, SparesByFrame DEF vars, Hello, Authenticate, SetVoiceState, RequestKeyframe,
       RecordForward, sessionVars, roomVars, streamVars, perStream
<1>2. CASE \/ \E codec, in : SetStreamConfig(c, r, s, codec, in)
           \/ \E b : SetTargetBitrate(c, r, s, b)
           \/ \E f : SetTargetFramerate(c, r, s, f)
           \/ PollPublisherFeedback(c, s)
    BY <1>2, RetuningSame DEF Spares, roomVars
<1>3. ASSUME NEW codec, NEW kind, PublishStream(c, r, s, codec, kind) PROVE Goal
    <2>1. ~IsPublished(s) /\ published \subseteq published'
          /\ (\A q \in published' : q \in published \/ q.stream = s)
          /\ UNCHANGED <<participants, subscriptions, viewerStats, remoteInput>>
        BY <1>3 DEF PublishStream, roomVars, perStream
    <2> QED BY <2>1 DEF NothingReplaced, Spares, SameStream
<1>4. CASE UnsubscribeStream(c, r, s)
    BY <1>4 DEF UnsubscribeStream, roomVars, NothingReplaced, Spares, SameStream
<1>5. ASSUME NEW n \in Nat, PollRemoteInput(c, r, s, n) PROVE Goal
    <2>1. UNCHANGED <<participants, published, subscriptions, viewerStats>>
        BY <1>5 DEF PollRemoteInput, roomVars, streamVars
    <2>2. PICK p \in published : p.stream = s
        BY <1>5 DEF PollRemoteInput
    <2>3. s \in StreamIds
        BY <2>2 DEF TypeOK, Stream
    <2> DEFINE m == Smaller(Larger(n, 1), MaxInputBatch)
               q == remoteInput[s]
               z == SubSeq(q, m + 1, Len(q))
    <2>4. m + 1 \in Nat \ {0} /\ q \in Seq(UserIds)
        BY <2>3, LimitAssumption DEF Smaller, Larger, TypeOK
    <2>5. \A i \in DOMAIN z : \E j \in DOMAIN q : z[i] = q[j]
        BY <2>4, SubSeqElements
    <2>6. /\ remoteInput'[s] = z
          /\ \A x \in StreamIds \ {s} : remoteInput'[x] = remoteInput[x]
        BY <1>5, <2>3 DEF PollRemoteInput, TypeOK
    <2> HIDE DEF m, z
    <2>7. \A x \in StreamIds : \A i \in DOMAIN remoteInput'[x] :
             \E j \in DOMAIN remoteInput[x] : remoteInput'[x][i] = remoteInput[x][j]
        <3> TAKE x \in StreamIds
        <3>1. CASE x = s
            BY <2>5, <2>6, <3>1
        <3>2. CASE x # s
            BY <2>6, <3>2
        <3> QED BY <3>1, <3>2
    <2> QED BY <2>1, <2>7 DEF NothingReplaced, Spares, SameStream
<1> QED BY <1>1, <1>2, <1>3, <1>4, <1>5

\* Leaving rooms takes from the user that leaves only, and adds nothing.
LEMMA LeaveRoomsSpares ==
    ASSUME TypeOK, NEW u, NEW R, NEW stale, LeaveRooms(u, R, stale)
    PROVE  /\ NothingReplaced
           /\ \A w : w # u => Spares(w)
           /\ participants' = {m \in participants : ~(m.room \in R /\ m.user = u)}
           /\ subscriptions' \subseteq subscriptions
           /\ viewerStats' \subseteq viewerStats
           /\ \A s \in StreamIds : remoteInput'[s] \in {<< >>, remoteInput[s]}
<1>1. /\ participants' = {m \in participants : ~(m.room \in R /\ m.user = u)}
      /\ subscriptions' \subseteq subscriptions
      /\ published' = published \ {p \in published : p.room \in R /\ p.publisher = u}
      /\ viewerStats' \subseteq viewerStats
    BY DEF LeaveRooms, RemoveStreamState
<1>2. \A s \in StreamIds : remoteInput'[s] \in {<< >>, remoteInput[s]}
    BY DEF LeaveRooms, RemoveStreamState
<1>3. \A s \in StreamIds : \A i \in DOMAIN remoteInput'[s] : 
         i \in DOMAIN remoteInput[s] /\ remoteInput'[s][i] = remoteInput[s][i]
    <2> TAKE s \in StreamIds
    <2>1. DOMAIN << >> = {}
        OBVIOUS
    <2> QED BY <1>2, <2>1
<1>4. NothingReplaced
    BY <1>1 DEF NothingReplaced, SameStream
<1>5. ASSUME NEW w, w # u PROVE Spares(w)
    <2>1. \A p \in published : p.publisher = w => p \in published'
        BY <1>1, <1>5
    <2> QED BY <1>1, <1>3, <1>5, <2>1 DEF Spares, SameStream
<1> QED BY <1>1, <1>2, <1>4, <1>5

\* The requests that add to what their own user has, or take from it.
LEMMA SparesOthers ==
    ASSUME TypeOK, NEW c \in Sessions, NEW r, NEW s, NEW u, u # user[c],
           \/ CreateRoom(c) \/ JoinRoom(c, r)
           \/ SubscribeStream(c, r, s)
           \/ SendRemoteInput(c, r, s)
           \/ \E report : ReportViewerStats(c, s, report)
           \/ UnpublishStream(c, r, s)
           \/ LeaveRoom(c, r) \/ Disconnect(c)
    PROVE  NothingReplaced /\ Spares(u)
<1>1. CASE CreateRoom(c) \/ JoinRoom(c, r)
    <2>1. PICK x : participants' = participants \cup {[room |-> x, user |-> user[c]]}
        BY <1>1 DEF CreateRoom, JoinRoom
    <2>2. UNCHANGED <<published, subscriptions, viewerStats, remoteInput>>
        BY <1>1 DEF CreateRoom, JoinRoom, streamVars, perStream
    <2> QED BY <2>1, <2>2 DEF NothingReplaced, Spares, SameStream
<1>2. CASE SubscribeStream(c, r, s)
    BY <1>2 DEF SubscribeStream, roomVars, NothingReplaced, Spares, SameStream
<1>3. CASE SendRemoteInput(c, r, s)
    <2>1. UNCHANGED <<participants, published, subscriptions, viewerStats>>
        BY <1>3 DEF SendRemoteInput, roomVars, streamVars
    <2>2. PICK p \in published : p.stream = s
        BY <1>3 DEF SendRemoteInput
    <2>3. s \in StreamIds
        BY <2>2 DEF TypeOK, Stream
    <2> DEFINE q == MakeRoom(remoteInput[s])
    <2>4. q \in Seq(UserIds) /\ remoteInput[s] \in Seq(UserIds)
        BY <2>3, InputQueueType DEF TypeOK
    <2>5. \A i \in DOMAIN q : \E j \in DOMAIN remoteInput[s] : q[i] = remoteInput[s][j]
        <3>1. CASE Len(remoteInput[s]) < MaxInputQueue
            BY <3>1 DEF MakeRoom
        <3>2. CASE ~(Len(remoteInput[s]) < MaxInputQueue)
            <4>1. Len(remoteInput[s]) - MaxInputQueue + 2 \in Nat \ {0}
                BY <2>4, <3>2, LimitAssumption
            <4> QED BY <2>4, <3>2, <4>1, SubSeqElements DEF MakeRoom
        <3> QED BY <3>1, <3>2
    <2>6. /\ remoteInput'[s] = Append(q, user[c])
          /\ \A x \in StreamIds \ {s} : remoteInput'[x] = remoteInput[x]
        BY <1>3, <2>3 DEF SendRemoteInput, TypeOK
    <2> HIDE DEF q
    <2>7. \A i \in DOMAIN remoteInput'[s] : remoteInput'[s][i] = u =>
             \E j \in DOMAIN remoteInput[s] : remoteInput[s][j] = u
        <3> TAKE i \in DOMAIN remoteInput'[s]
        <3>1. (i \in DOMAIN q /\ remoteInput'[s][i] = q[i]) \/ remoteInput'[s][i] = user[c]
            BY <2>4, <2>6
        <3> QED BY <2>5, <3>1
    <2>8. \A x \in StreamIds : \A i \in DOMAIN remoteInput'[x] : remoteInput'[x][i] = u =>
             \E j \in DOMAIN remoteInput[x] : remoteInput[x][j] = u
        BY <2>6, <2>7
    <2> QED BY <2>1, <2>8 DEF NothingReplaced, Spares, SameStream
<1>4. ASSUME NEW report, ReportViewerStats(c, s, report) PROVE NothingReplaced /\ Spares(u)
    BY <1>4 DEF ReportViewerStats, roomVars, streamVars, NothingReplaced, Spares, SameStream
<1>5. CASE UnpublishStream(c, r, s)
    <2>1. /\ UNCHANGED participants /\ subscriptions' \subseteq subscriptions
          /\ viewerStats' \subseteq viewerStats
          /\ published' \subseteq published
          /\ \A p \in published : p.publisher = u => p \in published'
        BY <1>5 DEF UnpublishStream, RemoveStreamState
    <2>2. \A x \in StreamIds : remoteInput'[x] = IF x \in {s} THEN << >> ELSE remoteInput[x]
        BY <1>5 DEF UnpublishStream, RemoveStreamState
    <2>3. DOMAIN << >> = {}
        OBVIOUS
    <2>4. \A x \in StreamIds : \A i \in DOMAIN remoteInput'[x] :
             i \in DOMAIN remoteInput[x] /\ remoteInput'[x][i] = remoteInput[x][i]
        BY <2>2, <2>3
    <2> QED BY <2>1, <2>4 DEF NothingReplaced, Spares, SameStream
<1>6. CASE LeaveRoom(c, r)
    BY <1>6, LeaveRoomsSpares DEF LeaveRoom
<1>7. CASE Disconnect(c)
    BY <1>7, LeaveRoomsSpares DEF Disconnect, DisconnectUser
<1> QED BY <1>1, <1>2, <1>3, <1>4, <1>5, <1>6, <1>7

-----------------------------------------------------------------------------
(***************************************************************************)
(* The calls are requests of RelayControl.                                 *)
(***************************************************************************)

\* What the command line gives is input the relay may get.
LEMMA CommandLineInputs ==
    ASSUME FlowType, NEW c \in Sessions, NEW k \in Media
    PROVE  /\ args[c].stream[k] \in StreamIds /\ args[c].config[k] \in ConfigInputs
           /\ args[c].config[k].fps \in FpsInputs /\ args[c].bitrate \in BitrateInputs
           /\ args[c].voice \in VoiceInputs /\ CodecFor[k] \in Codecs /\ k \in Kinds
           /\ args[c].kinds \subseteq Media
           /\ args[c].stream["Screen"] # args[c].stream["Voice"]
<1>1. args[c] \in CommandLine
    BY ArgsType
<1>2. /\ args[c].stream["Screen"] # args[c].stream["Voice"]
      /\ args[c].config[k].fps \in FpsInputs
    BY FlowAssumption DEF FlowType
<1>3. CodecFor[k] \in Codecs /\ k \in Kinds
    BY FlowAssumption
<1> QED BY <1>1, <1>2, <1>3 DEF CommandLine

\* Where a stream is published there is a room.
LEMMA PublishedPlace ==
    ASSUME TypeOK, Consistent, NEW p \in published
    PROVE  p.room \in rooms /\ p.stream \in StreamIds
BY DEF TypeOK, Stream, Consistent, PublishersArePresent

\* Who is in a room is in a room there is.
LEMMA ParticipantPlace ==
    ASSUME Consistent, NEW r, NEW u, IsParticipant(r, u)
    PROVE  r \in rooms
BY DEF Consistent, RoomsInhabited, IsParticipant

\* The call a client makes is a request of its session, or a query.
LEMMA CallIsRequest ==
    ASSUME FlowRelay, FlowType, NEW c \in Sessions, Acting(c),
           NEW op, NEW k, Current(c).op = op, Current(c).kind = k, Call(c, op, k)
    PROVE  Request(c) \/ UNCHANGED vars
<1> DEFINE r == room[c]
           s == args[c].stream[k]
           w == watch[c][k]
<1>1. /\ Current(c) = todo[c][1] /\ Current(c) \in Calls /\ Suits(args[c], Current(c))
      /\ Pos(c) = Rank(Current(c))
    BY AtHead DEF Acting
<1>2. k \in Media
    BY <1>1 DEF Calls
<1>3. /\ s \in StreamIds /\ args[c].config[k] \in ConfigInputs
      /\ args[c].config[k].fps \in FpsInputs /\ args[c].bitrate \in BitrateInputs
      /\ args[c].voice \in VoiceInputs /\ CodecFor[k] \in Codecs /\ k \in Kinds
    BY <1>2, CommandLineInputs
<1>4. op = "UnsubscribeStream" => w \in StreamIds
    <2> SUFFICES ASSUME op = "UnsubscribeStream" PROVE w \in StreamIds
        OBVIOUS
    <2>1. Pos(c) > 6
        <3>1. Rank(Current(c)) \in 15..16
            BY RankOf
        <3> QED BY <1>1, <3>1
    <2>2. args[c].mode = "view" /\ k \in args[c].kinds
        BY <1>1 DEF Suits
    <2> QED BY <2>1, <2>2 DEF Acting, Prepared
<1>5. \A p \in published : p.room \in rooms /\ p.stream \in StreamIds
    BY PublishedPlace DEF FlowRelay
<1>7. CASE Hello(c) \/ Authenticate(c)
    BY <1>7 DEF Request
<1>8. CASE CreateRoom(c) \/ JoinRoom(c, r) \/ SetVoiceState(c, r, args[c].voice)
           \/ (r \in rooms /\ LeaveRoom(c, r))
    <2>1. JoinRoom(c, r) \/ SetVoiceState(c, r, args[c].voice) => r \in rooms
        BY DEF JoinRoom, SetVoiceState
    <2> QED BY <1>3, <1>8, <2>1 DEF Request, RoomRequest
<1>9. CASE \/ PublishStream(c, r, s, CodecFor[k], k)
           \/ SetStreamConfig(c, r, s, CodecFor[k], args[c].config[k])
           \/ SetTargetBitrate(c, r, s, args[c].bitrate)
           \/ SetTargetFramerate(c, r, s, args[c].config[k].fps)
           \/ UnpublishStream(c, r, s)
    <2>1. r \in rooms
        BY <1>5, <1>9 DEF PublishStream, SetStreamConfig, SetTargetBitrate,
           SetTargetFramerate, UnpublishStream
    <2>2. StreamRequest(c)
        BY <1>3, <1>9, <2>1 DEF StreamRequest
    <2> QED BY <2>2 DEF Request
<1>10. CASE SubscribeStream(c, r, w) \/ SendRemoteInput(c, r, w)
    <2>1. r \in rooms /\ w \in StreamIds
        BY <1>5, <1>10 DEF SubscribeStream, SendRemoteInput
    <2>2. StreamRequest(c)
        BY <1>10, <2>1 DEF StreamRequest
    <2> QED BY <2>2 DEF Request
<1>11. CASE op = "UnsubscribeStream" /\ r \in rooms /\ UnsubscribeStream(c, r, w)
    <2>1. StreamRequest(c)
        BY <1>4, <1>11 DEF StreamRequest
    <2> QED BY <2>1 DEF Request
<1>12. CASE UNCHANGED vars
    BY <1>12
<1> DEFINE Made ==
              \/ Hello(c) \/ Authenticate(c)
              \/ CreateRoom(c) \/ JoinRoom(c, r) \/ SetVoiceState(c, r, args[c].voice)
              \/ (r \in rooms /\ LeaveRoom(c, r))
              \/ PublishStream(c, r, s, CodecFor[k], k)
              \/ SetStreamConfig(c, r, s, CodecFor[k], args[c].config[k])
              \/ SetTargetBitrate(c, r, s, args[c].bitrate)
              \/ SetTargetFramerate(c, r, s, args[c].config[k].fps)
              \/ UnpublishStream(c, r, s)
              \/ SubscribeStream(c, r, w) \/ SendRemoteInput(c, r, w)
              \/ op = "UnsubscribeStream" /\ r \in rooms /\ UnsubscribeStream(c, r, w)
              \/ UNCHANGED vars
<1>13. Made
    <2>1. ASSUME \/ op = "CreateRoom" /\ CreateRoomCall(c)
                 \/ op = "ListRooms" /\ ListRoomsCall(c)
                 \/ op = "ListStreams" /\ ListStreamsCall(c)
                 \/ op = "SubscribeStream" /\ SubscribeCall(c, k)
          PROVE  Made
        BY <2>1 DEF CreateRoomCall, ListRoomsCall, ListStreamsCall, SubscribeCall, ReadsOnly
    <2>2. ASSUME PlainCall(c, op, k) PROVE Made
        BY <2>2 DEF PlainCall, UnsubscribeCall, LeaveCall, PollConfigCall, ReadsOnly
    <2> HIDE DEF Made
    <2> QED BY <2>1, <2>2 DEF Call
<1> QED BY <1>7, <1>8, <1>9, <1>10, <1>11, <1>12, <1>13

-----------------------------------------------------------------------------
(***************************************************************************)
(* A client and a step of the relay.                                       *)
(***************************************************************************)

\* CoreInv after a step, before the client goes on to its next call.
CoreAfter(c) ==
    /\ \A m \in participants' : m.user = user'[c] => m.room = room'[c]
    /\ watch'[c]["Screen"] = watch'[c]["Voice"] => watch'[c]["Screen"] = NoStream
    /\ args[c].mode # "view" \/ Pos(c) <= 6 => Idle(user[c])'
    /\ NotSwitched(c)'
    /\ InputInPlace(c)'

\* The step adds no subscription, report or input of the user.
AddsNothing(u) ==
    /\ \A m \in subscriptions' : m.user = u => m \in subscriptions
    /\ \A v \in viewerStats' : v.user = u => v \in viewerStats
    /\ \A s \in StreamIds : \A i \in DOMAIN remoteInput'[s] : remoteInput'[s][i] = u =>
          \E j \in DOMAIN remoteInput[s] : remoteInput[s][j] = u

\* Who has nothing at the relay, and gets nothing, has nothing.
LEMMA IdleStays ==
    ASSUME NEW u, Idle(u), AddsNothing(u)
    PROVE  /\ \A m \in subscriptions' : m.user # u
           /\ \A v \in viewerStats' : v.user # u
           /\ \A s \in StreamIds : \A i \in DOMAIN remoteInput'[s] : remoteInput'[s][i] # u
BY DEF Idle, AddsNothing

\* Where the relay subscribes the user to a stream, or has its input, the stream
\* is published.
LEMMA WatchedIsPublished ==
    ASSUME Consistent, NEW u, NEW r, NEW s \in StreamIds,
           IsSubscriber(r, s, u) \/ \E j \in DOMAIN remoteInput[s] : remoteInput[s][j] = u
    PROVE  IsPublished(s)
<1>1. CASE IsSubscriber(r, s, u)
    BY <1>1 DEF IsSubscriber, Consistent, SubscriptionsAreLive, IsPublished
<1>2. ASSUME NEW j \in DOMAIN remoteInput[s] PROVE IsPublished(s)
    <2>1. remoteInput[s] # << >>
        BY <1>2
    <2> QED BY <2>1 DEF Consistent, NoStreamResidue, IsPublished
<1> QED BY <1>1, <1>2

\* As long as the client looks at the same streams and its own step or another's
\* adds nothing for it, it is not switched: a stream of that id is the same one, or
\* is new and then nobody watched it before.
LEMMA StaysUnswitched ==
    ASSUME TypeOK', Consistent, NEW c \in Sessions, NotSwitched(c), NothingReplaced,
           AddsNothing(user[c]), user'[c] = user[c], watch'[c] = watch[c], origin'[c] = origin[c]
    PROVE  NotSwitched(c)'
<1> SUFFICES ASSUME NEW k \in Media, NEW q \in published', q.stream = watch'[c][k],
                    \/ IsSubscriber(q.room, q.stream, user[c])'
                    \/ \E i \in DOMAIN remoteInput'[q.stream] :
                          remoteInput'[q.stream][i] = user'[c]
             PROVE  q.publisher = origin'[c][k]
    BY DEF NotSwitched, IsSubscriber
<1>1. q.stream \in StreamIds
    BY DEF TypeOK, Stream
<1>2. \/ IsSubscriber(q.room, q.stream, user[c])
      \/ \E j \in DOMAIN remoteInput[q.stream] : remoteInput[q.stream][j] = user[c]
    BY <1>1 DEF AddsNothing, IsSubscriber
<1>3. IsPublished(q.stream)
    BY <1>1, <1>2, WatchedIsPublished
<1>4. PICK p \in published : SameStream(p, q)
    BY <1>3 DEF NothingReplaced
<1> QED BY <1>2, <1>4 DEF NotSwitched, SameStream

\* A step that adds nothing for a client, and leaves it in its one room, keeps
\* CoreInv.
LEMMA CoreStep ==
    ASSUME TypeOK', Consistent, NEW c \in Sessions, CoreInv(c), NothingReplaced,
           AddsNothing(user[c]), user'[c] = user[c], watch'[c] = watch[c], origin'[c] = origin[c],
           \A m \in participants' : m.user = user[c] => m.room = room'[c]
    PROVE  CoreAfter(c)
<1>1. NotSwitched(c)'
    BY StaysUnswitched DEF CoreInv
<1>2. ASSUME Idle(user[c]) PROVE Idle(user[c])'
    BY <1>2, IdleStays DEF Idle
<1>3. InputInPlace(c)'
    BY DEF CoreInv, InputInPlace, AddsNothing
<1> QED BY <1>1, <1>2, <1>3 DEF CoreInv, CoreAfter

\* The relay takes a step that spares the client's user.
Steady(c) ==
    /\ user'[c] = user[c] /\ (access[c] => access'[c])
    /\ NothingReplaced /\ Spares(user[c])

\* So does a step that spares its user.
LEMMA SteadyCore ==
    ASSUME TypeOK', Consistent, NEW c \in Sessions, CoreInv(c), Steady(c),
           room'[c] = room[c], watch'[c] = watch[c], origin'[c] = origin[c]
    PROVE  CoreAfter(c)
<1>1. AddsNothing(user[c]) /\ \A m \in participants' : m.user = user[c] => m.room = room'[c]
    BY DEF Steady, Spares, AddsNothing, CoreInv
<1> QED BY <1>1, CoreStep DEF Steady

\* A client that stays where it is, while nothing happens.
LEMMA NothingHappens ==
    ASSUME FlowRelay, TypeOK', NEW c \in Sessions, CoreInv(c), UNCHANGED vars,
           UNCHANGED <<room, watch, origin>>
    PROVE  Steady(c) /\ CoreAfter(c)
<1>1. Steady(c)
    BY SparesByFrame DEF Steady, vars, sessionVars, roomVars, streamVars, perStream
<1> QED BY <1>1, SteadyCore DEF FlowRelay

\* What a client holds at the relay, after a step that spares its user.
LEMMA SteadyHoldings ==
    ASSUME NEW c \in Sessions, Steady(c), room'[c] = room[c], args' = args
    PROVE  /\ Authorized(c) => Authorized(c)'
           /\ IsParticipant(room[c], user[c]) => IsParticipant(room[c], user[c])'
           /\ \A k : OnAir(c, k) => OnAir(c, k)'
           /\ (\A m \in participants : m.user # user[c]) =>
                 \A m \in participants' : m.user # user'[c]
<1>1. Authorized(c) => Authorized(c)'
    BY DEF Steady, Authorized
<1>2. IsParticipant(room[c], user[c]) => IsParticipant(room[c], user[c])'
    BY DEF Steady, Spares, IsParticipant
<1>3. ASSUME NEW k, OnAir(c, k) PROVE OnAir(c, k)'
    <2>1. PICK p \in published : /\ p.room = room[c] /\ p.stream = args[c].stream[k]
                                 /\ p.publisher = user[c] /\ p.codec = CodecFor[k] /\ p.kind = k
        BY <1>3 DEF OnAir
    <2>2. PICK q \in published' : SameStream(p, q)
        BY <2>1 DEF Steady, Spares
    <2> QED BY <2>1, <2>2 DEF OnAir, SameStream, Steady
<1>4. (\A m \in participants : m.user # user[c]) => \A m \in participants' : m.user # user'[c]
    BY DEF Steady, Spares
<1> QED BY <1>1, <1>2, <1>3, <1>4

\* The client does nothing meanwhile.
LEMMA SteadyClient ==
    ASSUME TypeOK', Consistent, NEW c \in Sessions, ClientInv(c), Steady(c), args' = args,
           room'[c] = room[c], watch'[c] = watch[c], origin'[c] = origin[c],
           todo'[c] = todo[c], status'[c] = status[c],
           c \in pending' => c \in pending
    PROVE  ClientInv(c)'
<1>1. Pos(c)' = Pos(c) /\ Running(c)' = Running(c)
    BY DEF Pos, Running
<1>2. ScriptInv(c)' /\ RefusedInv(c)'
    BY <1>1 DEF ClientInv, ScriptInv, RefusedInv, Current
<1>3. CoreAfter(c)
    BY SteadyCore DEF ClientInv
<1>4. CoreInv(c)'
    BY <1>1, <1>3 DEF CoreInv, CoreAfter
<1>5. PlaceInv(c)' /\ OwnInv(c)'
    BY <1>1, SteadyHoldings DEF ClientInv, GoingInv, PlaceInv, OwnInv, Running
<1>6. WatchInv(c)'
    BY <1>1 DEF ClientInv, GoingInv, WatchInv, Running
<1>7. ReportInv(c)'
    BY <1>1 DEF ClientInv, GoingInv, ReportInv, Steady, Spares
<1>8. PendingInv(c)'
    BY <1>1, SteadyHoldings DEF ClientInv, PendingInv, Prepared
<1> QED BY <1>2, <1>4, <1>5, <1>6, <1>7, <1>8 DEF ClientInv, GoingInv

\* Sessions that have users have different ones.
LEMMA OtherUser ==
    ASSUME TypeOK, IdentityUnique, NEW c \in Sessions, NEW d \in Sessions, c # d, user[d] # NoUser
    PROVE  user[c] # user[d]
BY DEF IdentityUnique

\* Requests about rooms spare the users of other sessions.
LEMMA RoomRequestSpares ==
    ASSUME TypeOK, NEW d \in Sessions, NEW u, u # user[d], RoomRequest(d)
    PROVE  NothingReplaced /\ Spares(u)
<1>1. CASE CreateRoom(d)
    BY <1>1, SparesOthers
<1>2. ASSUME NEW r \in rooms, JoinRoom(d, r) \/ LeaveRoom(d, r) PROVE NothingReplaced /\ Spares(u)
    BY <1>2, SparesOthers
<1>3. ASSUME NEW r \in rooms, NEW in, SetVoiceState(d, r, in) PROVE NothingReplaced /\ Spares(u)
    BY <1>3, SparesAll
<1> QED BY <1>1, <1>2, <1>3 DEF RoomRequest

\* Requests about streams do.
LEMMA StreamRequestSpares ==
    ASSUME TypeOK, NEW d \in Sessions, NEW u, u # user[d], StreamRequest(d)
    PROVE  NothingReplaced /\ Spares(u)
<1> DEFINE Goal == NothingReplaced /\ Spares(u)
<1>1. ASSUME NEW s \in StreamIds, NEW r \in rooms,
             \/ UnpublishStream(d, r, s) \/ SubscribeStream(d, r, s) \/ SendRemoteInput(d, r, s)
      PROVE  Goal
    BY <1>1, SparesOthers
<1>2. ASSUME NEW s \in StreamIds, NEW r \in rooms,
             \/ UnsubscribeStream(d, r, s) \/ RequestKeyframe(d, r, s)
             \/ \E n \in PollSizes : PollRemoteInput(d, r, s, n)
      PROVE  Goal
    <2>1. PollSizes \subseteq Nat
        BY InputAssumption
    <2> QED BY <1>2, <2>1, SparesAll
<1>3. ASSUME NEW s \in StreamIds, NEW r \in rooms,
             \/ \E codec \in Codecs, kind \in Kinds : PublishStream(d, r, s, codec, kind)
             \/ \E codec \in Codecs, in \in ConfigInputs : SetStreamConfig(d, r, s, codec, in)
             \/ \E b \in BitrateInputs : SetTargetBitrate(d, r, s, b)
             \/ \E f \in FpsInputs : SetTargetFramerate(d, r, s, f)
      PROVE  Goal
    BY <1>3, SparesAll
<1>4. ASSUME NEW s \in StreamIds, NEW report \in Reports, ReportViewerStats(d, s, report)
      PROVE  Goal
    BY <1>4, SparesOthers
<1>5. ASSUME NEW s \in StreamIds, PollPublisherFeedback(d, s) PROVE Goal
    BY <1>5, SparesAll
<1> HIDE DEF Goal
<1>6. Goal
    BY <1>1, <1>2, <1>3, <1>4, <1>5 DEF StreamRequest
<1> QED BY <1>6 DEF Goal

\* What one session does spares the users of the others.
LEMMA OthersAreSpared ==
    ASSUME TypeOK, IdentityUnique, NEW d \in Sessions, NEW c \in Sessions, c # d,
           Request(d) \/ Forward(d) \/ Disconnect(d) \/ UNCHANGED vars
    PROVE  Steady(c)
<1>1. CASE UNCHANGED vars
    BY <1>1, SparesByFrame DEF Steady, vars, sessionVars, roomVars, streamVars, perStream
<1>2. CASE Hello(d) \/ Authenticate(d)
    <2>1. user'[c] = user[c] /\ access'[c] = access[c]
        BY <1>2 DEF Hello, Authenticate, TypeOK
    <2> QED BY <1>2, <2>1, SparesAll DEF Steady
<1>3. CASE RoomRequest(d)
    <2>1. Authorized(d) /\ AddsOnly({user[d]})
        BY <1>3, RoomRequestAdds
    <2>2. UNCHANGED <<user, access>> /\ user[d] # NoUser
        BY <2>1 DEF AddsOnly, Authorized
    <2> QED BY <1>3, <2>2, OtherUser, RoomRequestSpares DEF Steady
<1>4. CASE StreamRequest(d)
    <2>1. Authorized(d) /\ AddsOnly({user[d]})
        BY <1>4, StreamRequestAdds
    <2>2. UNCHANGED <<user, access>> /\ user[d] # NoUser
        BY <2>1 DEF AddsOnly, Authorized
    <2> QED BY <1>4, <2>2, OtherUser, StreamRequestSpares DEF Steady
<1>5. ASSUME NEW s \in StreamIds, RecordForward(d, s) PROVE Steady(c)
    <2>1. UNCHANGED <<user, access>>
        BY <1>5 DEF RecordForward, sessionVars
    <2> QED BY <1>5, <2>1, SparesAll DEF Steady
<1>6. CASE Disconnect(d)
    <2>1. UNCHANGED <<user, access>> /\ user[d] # NoUser
        BY <1>6 DEF Disconnect, DisconnectUser
    <2> QED BY <1>6, <2>1, OtherUser, SparesOthers DEF Steady
<1> QED BY <1>1, <1>2, <1>3, <1>4, <1>5, <1>6 DEF Request, Forward

-----------------------------------------------------------------------------
(***************************************************************************)
(* The client's own calls.                                                 *)
(***************************************************************************)

\* Which calls are required, by kind of client.
LEMMA RequiredOnes ==
    ASSUME FlowType, NEW c \in Sessions
    PROVE  /\ For("JoinRoom", "Screen") \in Required(args[c])
           /\ For("LeaveRoom", "Screen") \in Required(args[c])
           /\ args[c].mode = "broadcast" /\ args[c].room = NoRoom =>
                 For("CreateRoom", "Screen") \in Required(args[c])
           /\ args[c].mode = "broadcast" =>
                 \A k \in args[c].kinds : For("PublishStream", k) \in Required(args[c])
           /\ args[c].mode = "view" =>
                 /\ For("ListStreams", "Screen") \in Required(args[c])
                 /\ \A k \in args[c].kinds : For("UnsubscribeStream", k) \in Required(args[c])
BY DEF Required

\* Where the calls stand that are made for each kind.
LEMMA KindRanks ==
    ASSUME NEW k \in Media
    PROVE  /\ Rank(For("PublishStream", k)) \in 6..8 /\ Rank(For("UnpublishStream", k)) \in 15..16
           /\ Rank(For("UnsubscribeStream", k)) \in 15..16
BY RanksInScripts DEF Media

\* The client goes on after a call in its room that takes nothing from it but a
\* stream it unpublishes.
LEMMA GoingStep ==
    ASSUME FlowType, NEW c \in Sessions, ClientInv(c), Running(c), Advances(c),
           todo[c][1].op \notin {"Hello", "CreateRoom", "ListRooms", "JoinRoom", "LeaveRoom"},
           user'[c] = user[c], access[c] => access'[c], room'[c] = room[c],
           \A m \in participants' : m.user = user[c] => m \in participants,
           IsParticipant(room[c], user[c]) => IsParticipant(room[c], user[c])',
           \A k \in args[c].kinds :
              \/ todo[c][1] = For("PublishStream", k)
              \/ OnAir(c, k) /\ todo[c][1] # For("UnpublishStream", k)
              => OnAir(c, k)',
           IF todo[c][1].op = "ListStreams" THEN \A k \in args[c].kinds : watch'[c][k] \in StreamIds
           ELSE watch'[c] = watch[c],
           \A v \in viewerStats' : v.user = user[c] =>
              /\ v \in viewerStats
              /\ \A k \in args[c].kinds :
                    todo[c][1] = For("UnsubscribeStream", k) => v.stream # watch[c][k]
    PROVE  GoingInv(c)'
<1> DEFINE x == todo[c][1]
<1>1. /\ args' = args /\ Pos(c)' \in 1..18 /\ Pos(c) <= Pos(c)'
      /\ x.op # "SendRemoteInput" => Pos(c) < Pos(c)'
      /\ \A y \in Required(args[c]) : Pos(c) <= Rank(y) => x = y \/ Pos(c)' <= Rank(y)
      /\ status'[c] = "running"
    <2>1. x # For("LeaveRoom", "Screen")
        BY DEF For
    <2> QED BY <2>1, Advance DEF ClientInv
<1>2. Pos(c) = Rank(x) /\ Pos(c) \in 1..17
    BY AtHead DEF ClientInv, ScriptInv, Running
<1>3. args[c].kinds \subseteq Media
    BY ArgsType DEF CommandLine
<1>4. x # For("JoinRoom", "Screen") /\ x # For("CreateRoom", "Screen")
    BY DEF For
<1>5. Rank(For("JoinRoom", "Screen")) = 4 /\ Rank(For("CreateRoom", "Screen")) = 3
      /\ Rank(For("ListStreams", "Screen")) = 6
    BY RanksInScripts
<1>6. PlaceInv(c)'
    <2>1. ASSUME Running(c)', Pos(c)' < 4 PROVE \A m \in participants' : m.user # user'[c]
        BY <1>1, <1>2, <2>1 DEF ClientInv, GoingInv, PlaceInv
    <2>2. ASSUME Pos(c)' = 4 => args[c].mode = "broadcast" /\ args[c].room = NoRoom, Pos(c)' >= 4
          PROVE  Authorized(c)' /\ IsParticipant(room[c], user[c])'
        <3>1. Pos(c) >= 4
            <4>1. Pos(c)' # 4 => Pos(c) > 4
                BY <1>1, <1>2, <1>4, <1>5, <2>2, RequiredOnes
            <4>2. Pos(c)' = 4 => Pos(c) > 3
                BY <1>1, <1>2, <1>4, <1>5, <2>2, RequiredOnes
            <4> QED BY <1>2, <4>1, <4>2
        <3>2. Pos(c) = 4 => Pos(c)' = 4
            BY <1>1, <1>2, <1>4, <1>5, <2>2, RequiredOnes
        <3>3. Authorized(c) /\ IsParticipant(room[c], user[c])
            BY <2>2, <3>1, <3>2 DEF ClientInv, GoingInv, PlaceInv
        <3> QED BY <3>3 DEF Authorized
    <2> QED BY <1>1, <2>1, <2>2 DEF PlaceInv, Running
<1>7. OwnInv(c)'
    <2> SUFFICES ASSUME args[c].mode = "broadcast", NEW k \in args[c].kinds,
                        Rank(For("PublishStream", k)) < Pos(c)',
                        Pos(c)' <= Rank(For("UnpublishStream", k))
                 PROVE  OnAir(c, k)'
        BY <1>1 DEF OwnInv
    <2>1. Rank(For("PublishStream", k)) \in Nat /\ Rank(For("UnpublishStream", k)) \in Nat
        BY <1>3, KindRanks
    <2>2. CASE x = For("PublishStream", k)
        BY <2>2
    <2>3. CASE x # For("PublishStream", k)
        <3>1. Rank(For("PublishStream", k)) < Pos(c)
            BY <1>1, <1>2, <2>1, <2>3, RequiredOnes
        <3>2. Pos(c) <= Rank(For("UnpublishStream", k))
            BY <1>1, <1>2, <2>1
        <3>3. x # For("UnpublishStream", k)
            <4>1. For("UnpublishStream", k).op # "SendRemoteInput"
                BY DEF For
            <4> QED BY <1>1, <1>2, <2>1, <4>1
        <3>4. OnAir(c, k)
            BY <3>1, <3>2 DEF ClientInv, GoingInv, OwnInv
        <3> QED BY <3>3, <3>4
    <2> QED BY <2>2, <2>3
<1>8. WatchInv(c)'
    <2> SUFFICES ASSUME args[c].mode = "view", Pos(c)' > 6, NEW k \in args[c].kinds
                 PROVE  watch'[c][k] \in StreamIds
        BY <1>1 DEF WatchInv
    <2>1. CASE x.op = "ListStreams"
        BY <2>1
    <2>2. CASE x.op # "ListStreams"
        <3>1. x # For("ListStreams", "Screen")
            BY <2>2 DEF For
        <3>2. Pos(c) > 6
            BY <1>1, <1>2, <1>5, <3>1, RequiredOnes
        <3> QED BY <2>2, <3>2 DEF ClientInv, GoingInv, WatchInv
    <2> QED BY <2>1, <2>2
<1>9. ReportInv(c)'
    <2> SUFFICES ASSUME NEW v \in viewerStats', v.user = user[c]
                 PROVE  \E k \in args[c].kinds : v.stream = watch'[c][k]
                           /\ Pos(c)' <= Rank(For("UnsubscribeStream", k))
        BY <1>1 DEF ReportInv
    <2>1. v \in viewerStats
        OBVIOUS
    <2>2. args[c].mode = "view" /\ ~(Pos(c) <= 6)
        BY <2>1 DEF ClientInv, CoreInv, Idle
    <2>3. x.op # "ListStreams"
        <3>1. x.op = "ListStreams" => Rank(x) = 6
            BY RankOf
        <3> QED BY <1>2, <2>2, <3>1
    <2>4. PICK k \in args[c].kinds : v.stream = watch[c][k]
                                     /\ Pos(c) <= Rank(For("UnsubscribeStream", k))
        BY <2>1 DEF ClientInv, GoingInv, ReportInv, Running
    <2>5. x # For("UnsubscribeStream", k)
        BY <2>4
    <2>6. Pos(c)' <= Rank(For("UnsubscribeStream", k))
        BY <1>1, <2>2, <2>4, <2>5, RequiredOnes
    <2> QED BY <2>3, <2>4, <2>6
<1> QED BY <1>6, <1>7, <1>8, <1>9 DEF GoingInv

\* The client goes on after a call that spares its own user.
LEMMA SteadyCall ==
    ASSUME FlowRelay, TypeOK', FlowType, NEW c \in Sessions, Acting(c), Steady(c),
           room'[c] = room[c], watch'[c] = watch[c], origin'[c] = origin[c],
           todo[c][1].op \notin {"Hello", "CreateRoom", "ListRooms", "JoinRoom", "LeaveRoom",
                                 "ListStreams"},
           \A k \in args[c].kinds : todo[c][1] = For("PublishStream", k) /\ args' = args =>
              OnAir(c, k)',
           Proceeds(c) => \A k \in args[c].kinds : todo[c][1] = For("UnsubscribeStream", k) =>
              \A v \in viewerStats' : v.user = user[c] => v.stream # watch[c][k]
    PROVE  CoreAfter(c) /\ (Proceeds(c) => GoingInv(c)')
<1>1. CoreAfter(c)
    BY SteadyCore DEF Acting, FlowRelay
<1>2. ASSUME Proceeds(c) PROVE GoingInv(c)'
    <2>1. args' = args
        BY <1>2 DEF Proceeds, Advances
    <2>2. /\ IsParticipant(room[c], user[c]) => IsParticipant(room[c], user[c])'
          /\ \A k : OnAir(c, k) => OnAir(c, k)'
        BY <2>1, SteadyHoldings
    <2>3. /\ \A m \in participants' : m.user = user[c] => m \in participants
          /\ \A v \in viewerStats' : v.user = user[c] => v \in viewerStats
          /\ user'[c] = user[c] /\ (access[c] => access'[c])
        BY DEF Steady, Spares
    <2> QED BY <1>2, <2>1, <2>2, <2>3, GoingStep DEF Proceeds
<1> QED BY <1>1, <1>2

\* The tables name nobody who has no id yet.
LEMMA NewcomerUnknown ==
    ASSUME FlowRelay
    PROVE  (\A m \in participants : m.user # nextUserId) /\ Idle(nextUserId)
<1>1. \A u : Granted(u) => u # nextUserId
    BY DEF FlowRelay, IdentityUnique, Granted, TypeOK
<1> QED BY <1>1 DEF FlowRelay, AccessInv, OnlyGrantedUsers, Idle

\* The client goes on before it has a room: a broadcaster that names none has yet to
\* create one.
LEMMA EarlyStep ==
    ASSUME FlowType, NEW c \in Sessions, ClientInv(c), Running(c), Advances(c),
           Pos(c) < 4, todo[c][1] # For("CreateRoom", "Screen"),
           \A m \in participants' : m.user # user'[c],
           \A v \in viewerStats' : v.user # user'[c]
    PROVE  GoingInv(c)'
<1> DEFINE x == todo[c][1]
<1>1. Pos(c) = Rank(x) /\ Pos(c) \in 1..17
    BY AtHead DEF ClientInv, ScriptInv, Running
<1>2. Rank(For("JoinRoom", "Screen")) = 4 /\ Rank(For("CreateRoom", "Screen")) = 3
      /\ Rank(For("LeaveRoom", "Screen")) = 17
    BY RanksInScripts
<1>3. x # For("JoinRoom", "Screen") /\ x # For("LeaveRoom", "Screen")
    BY <1>1, <1>2
<1>4. /\ args' = args /\ Pos(c)' \in 1..18
      /\ \A y \in Required(args[c]) : Pos(c) <= Rank(y) => x = y \/ Pos(c)' <= Rank(y)
      /\ status'[c] = "running"
    BY <1>3, Advance DEF ClientInv
<1>5. Pos(c)' <= 4
    BY <1>1, <1>2, <1>3, <1>4, RequiredOnes
<1>6. args[c].mode = "broadcast" /\ args[c].room = NoRoom => Pos(c)' <= 3
    BY <1>1, <1>2, <1>4, RequiredOnes
<1>7. PlaceInv(c)'
    BY <1>4, <1>5, <1>6 DEF PlaceInv
<1>8. OwnInv(c)'
    <2>1. args[c].kinds \subseteq Media
        BY ArgsType DEF CommandLine
    <2> QED BY <1>4, <1>5, <2>1, KindRanks DEF OwnInv
<1>9. WatchInv(c)' /\ ReportInv(c)'
    BY <1>4, <1>5 DEF WatchInv, ReportInv
<1> QED BY <1>7, <1>8, <1>9 DEF GoingInv

\* Hello, and a listing of the rooms.
LEMMA EarlyCalls ==
    ASSUME FlowRelay, TypeOK', FlowType, NEW c \in Sessions, Acting(c),
           watch'[c] = watch[c], origin'[c] = origin[c],
           \/ todo[c][1].op = "Hello" /\ Hello(c) /\ room'[c] = room[c]
           \/ todo[c][1].op = "ListRooms" /\ UNCHANGED vars
    PROVE  CoreAfter(c) /\ (Proceeds(c) => GoingInv(c)')
<1>1. /\ Pos(c) \in 1..3 /\ todo[c][1] # For("CreateRoom", "Screen")
    <2>1. Pos(c) = Rank(todo[c][1])
        BY AtHead DEF Acting
    <2>2. Rank(todo[c][1]) \in {1, 3}
        BY RankOf
    <2>3. todo[c][1] # For("CreateRoom", "Screen")
        BY DEF For
    <2> QED BY <2>1, <2>2, <2>3
<1>2. \A m \in participants : m.user # user[c]
    BY <1>1 DEF Acting, Prepared
<1>3. Idle(user[c])
    BY <1>1 DEF Acting, CoreInv
<1>4. /\ UNCHANGED <<participants, published, subscriptions, viewerStats, remoteInput>>
      /\ user'[c] \in {user[c], nextUserId}
    BY DEF Hello, vars, sessionVars, roomVars, streamVars, perStream, FlowRelay, TypeOK
<1>5. (\A m \in participants' : m.user # user'[c]) /\ Idle(user'[c])
    BY <1>2, <1>3, <1>4, NewcomerUnknown
<1>6. Idle(user[c])'
    BY <1>4, <1>5 DEF Idle
<1>7. NotSwitched(c)'
    <2>1. \A p \in published' : p.stream \in StreamIds
        BY DEF TypeOK, Stream
    <2>2. \A p \in published' : ~IsSubscriber(p.room, p.stream, user[c])'
        BY <1>6 DEF Idle, IsSubscriber
    <2> QED BY <1>6, <2>1, <2>2 DEF NotSwitched, Idle
<1>10. InputInPlace(c)'
    BY <1>6 DEF InputInPlace, Idle
<1>8. CoreAfter(c)
    BY <1>5, <1>6, <1>7, <1>10 DEF CoreAfter, Acting, CoreInv
<1>9. ASSUME Proceeds(c) PROVE GoingInv(c)'
    BY <1>1, <1>5, <1>6, <1>9, EarlyStep DEF Idle, Proceeds
<1> QED BY <1>8, <1>9

\* The client enters a room, which it creates or joins.
LEMMA EnterStep ==
    ASSUME FlowRelay, TypeOK', FlowType, NEW c \in Sessions, Acting(c),
           watch'[c] = watch[c], origin'[c] = origin[c],
           \/ todo[c][1] = For("CreateRoom", "Screen") /\ CreateRoom(c) /\ room'[c] = nextRoomId
           \/ todo[c][1] = For("JoinRoom", "Screen") /\ JoinRoom(c, room[c]) /\ room'[c] = room[c]
    PROVE  CoreAfter(c) /\ (Proceeds(c) => GoingInv(c)')
<1> DEFINE x == todo[c][1]
<1>1. Pos(c) = Rank(x)
    BY AtHead DEF Acting
<1>2. /\ x = For("CreateRoom", "Screen") => Pos(c) = 3
      /\ x = For("JoinRoom", "Screen") => Pos(c) = 4
    BY <1>1, RanksInScripts
<1>3. Pos(c) \in {3, 4}
    BY <1>2
<1>4. /\ UNCHANGED <<sessionVars, streamVars, perStream>>
      /\ participants' = participants \cup {[room |-> room'[c], user |-> user[c]]}
      /\ Authorized(c)
    BY DEF CreateRoom, JoinRoom
<1>5. UNCHANGED <<user, access, published, subscriptions, viewerStats, remoteInput>>
    BY <1>4 DEF sessionVars, streamVars, perStream
<1>6. \A m \in participants' : m.user = user[c] => m.room = room'[c]
    <2>1. x = For("CreateRoom", "Screen") => \A m \in participants : m.user # user[c]
        BY <1>2 DEF Acting, Prepared
    <2>2. x # For("CreateRoom", "Screen") => room'[c] = room[c]
        OBVIOUS
    <2> QED BY <1>4, <2>1, <2>2 DEF Acting, CoreInv
<1>7. CoreAfter(c)
    <2>1. NothingReplaced
        BY <1>5 DEF NothingReplaced, SameStream
    <2>2. AddsNothing(user[c])
        BY <1>5 DEF AddsNothing
    <2> QED BY <1>5, <1>6, <2>1, <2>2, CoreStep DEF Acting, FlowRelay
<1>8. ASSUME Proceeds(c) PROVE GoingInv(c)'
    <2>1. x # For("LeaveRoom", "Screen") /\ x.op # "SendRemoteInput"
        BY DEF For
    <2>2. /\ args' = args /\ Pos(c)' \in 1..18 /\ Pos(c) < Pos(c)'
          /\ \A y \in Required(args[c]) : Pos(c) <= Rank(y) => x = y \/ Pos(c)' <= Rank(y)
          /\ status'[c] = "running"
        BY <1>8, <2>1, Advance DEF Proceeds, ClientInv
    <2>3. Authorized(c)' /\ IsParticipant(room[c], user[c])'
        BY <1>4, <1>5 DEF Authorized, IsParticipant
    <2>4. PlaceInv(c)'
        BY <1>3, <2>2, <2>3 DEF PlaceInv
    <2>5. OwnInv(c)'
        <3> SUFFICES ASSUME args[c].mode = "broadcast", NEW k \in args[c].kinds,
                            Rank(For("PublishStream", k)) < Pos(c)'
                     PROVE  FALSE
            BY <2>2 DEF OwnInv
        <3>1. k \in Media
            BY ArgsType DEF CommandLine
        <3>2. Rank(For("PublishStream", k)) \in 6..8
            BY <3>1, KindRanks
        <3>3. x # For("PublishStream", k)
            BY DEF For
        <3> QED BY <1>3, <2>2, <3>2, <3>3, RequiredOnes
    <2>6. WatchInv(c)'
        <3> SUFFICES ASSUME args[c].mode = "view", Pos(c)' > 6 PROVE FALSE
            BY <2>2 DEF WatchInv
        <3>1. x # For("ListStreams", "Screen") /\ Rank(For("ListStreams", "Screen")) = 6
            BY RanksInScripts DEF For
        <3> QED BY <1>3, <2>2, <3>1, RequiredOnes
    <2>7. ReportInv(c)'
        <3>1. Idle(user[c])
            BY <1>3 DEF Acting, CoreInv
        <3> QED BY <1>5, <3>1 DEF Idle, ReportInv
    <2> QED BY <2>4, <2>5, <2>6, <2>7 DEF GoingInv
<1> QED BY <1>7, <1>8

\* The streams a viewer finds for a kind are published and of that kind.
LEMMA StreamsForKind ==
    ASSUME NEW a, NEW r, NEW k
    PROVE  \A s \in StreamsFor(a, r, k) : \E p \in published : p.stream = s /\ p.kind = k
BY DEF StreamsFor, StreamsIn

\* The viewer lists the streams, when it watches none yet.
LEMMA ListStreamsStep ==
    ASSUME FlowRelay, TypeOK', FlowType, NEW c \in Sessions, Acting(c),
           todo[c][1].op = "ListStreams", ListStreamsCall(c)
    PROVE  CoreAfter(c) /\ (Proceeds(c) => GoingInv(c)')
<1>1. PICK w \in [Media -> StreamIds \cup {NoStream}] :
         /\ \A k \in Media : IF k \in args[c].kinds THEN w[k] \in StreamsFor(args[c], room[c], k)
                             ELSE w[k] = NoStream
         /\ watch' = [watch EXCEPT ![c] = w]
    BY DEF ListStreamsCall
<1>2. watch'[c] = w /\ UNCHANGED vars /\ UNCHANGED <<room, origin>>
    BY <1>1 DEF FlowType, ListStreamsCall, ReadsOnly
<1>3. UNCHANGED <<user, access, participants, published, subscriptions, viewerStats, remoteInput>>
    BY <1>2 DEF vars, sessionVars, roomVars, streamVars, perStream
<1>4. Pos(c) = 6
    <2>1. Pos(c) = Rank(todo[c][1])
        BY AtHead DEF Acting
    <2> QED BY <2>1, RankOf
<1>5. Idle(user[c])
    BY <1>4 DEF Acting, CoreInv
<1>6. w["Screen"] = w["Voice"] => w["Screen"] = NoStream
    <2> SUFFICES ASSUME w["Screen"] = w["Voice"], w["Screen"] # NoStream PROVE FALSE
        OBVIOUS
    <2>1. w["Screen"] \in StreamsFor(args[c], room[c], "Screen")
          /\ w["Voice"] \in StreamsFor(args[c], room[c], "Voice")
        BY <1>1 DEF Media
    <2>2. PICK p \in published : p.stream = w["Screen"] /\ p.kind = "Screen"
        BY <2>1, StreamsForKind
    <2>3. PICK q \in published : q.stream = w["Voice"] /\ q.kind = "Voice"
        BY <2>1, StreamsForKind
    <2> QED BY <2>2, <2>3 DEF FlowRelay, Consistent, StreamIdUnique
<1>7. Idle(user[c])'
    BY <1>3, <1>5 DEF Idle
<1>8. NotSwitched(c)'
    <2>1. \A p \in published' : p.stream \in StreamIds
        BY DEF TypeOK, Stream
    <2>2. \A p \in published' : ~IsSubscriber(p.room, p.stream, user[c])'
        BY <1>7 DEF Idle, IsSubscriber
    <2> QED BY <1>7, <2>1, <2>2 DEF NotSwitched, Idle
<1>11. InputInPlace(c)'
    BY <1>7 DEF InputInPlace, Idle
<1>9. CoreAfter(c)
    BY <1>2, <1>3, <1>6, <1>7, <1>8, <1>11 DEF CoreAfter, Acting, CoreInv
<1>10. ASSUME Proceeds(c) PROVE GoingInv(c)'
    <2>1. \A k \in args[c].kinds : watch'[c][k] \in StreamIds
        <3> TAKE k \in args[c].kinds
        <3>1. k \in Media
            BY ArgsType DEF CommandLine
        <3>2. \E p \in published : p.stream = w[k]
            BY <1>1, <3>1, StreamsForKind
        <3> QED BY <1>2, <3>2 DEF FlowRelay, TypeOK, Stream
    <2>2. \A k \in args[c].kinds : todo[c][1] # For("PublishStream", k)
                                   /\ todo[c][1] # For("UnsubscribeStream", k)
        BY DEF For
    <2>3. args' = args /\ \A k : OnAir(c, k) => OnAir(c, k)'
        BY <1>2, <1>3, <1>10 DEF OnAir, Proceeds, Advances
    <2>4. IsParticipant(room[c], user[c]) => IsParticipant(room[c], user[c])'
        BY <1>2, <1>3 DEF IsParticipant
    <2> QED BY <1>2, <1>3, <1>10, <2>1, <2>2, <2>3, <2>4, GoingStep DEF Proceeds
<1> QED BY <1>9, <1>10

\* The calls that take nothing from the client, and the call that gives up a
\* subscription.
LEMMA SteadyCalls ==
    ASSUME FlowRelay, TypeOK', FlowType, NEW c \in Sessions, Acting(c),
           NEW op, NEW k \in Media, todo[c][1] = For(op, k), PlainCall(c, op, k),
           op \in {"Authenticate", "SetVoiceState", "PublishStream", "SetStreamConfig",
                   "SetTargetBitrate", "SetTargetFramerate", "PollStreamConfig",
                   "UnsubscribeStream", "List"}
    PROVE  CoreAfter(c) /\ (Proceeds(c) => GoingInv(c)')
<1> DEFINE r == room[c]
           s == args[c].stream[k]
           w == watch[c][k]
<1>1. UNCHANGED <<room, watch, origin>>
    BY DEF PlainCall
<1>2. \/ op = "Authenticate" /\ Authenticate(c)
      \/ SetVoiceState(c, r, args[c].voice)
      \/ op = "PublishStream" /\ PublishStream(c, r, s, CodecFor[k], k)
      \/ SetStreamConfig(c, r, s, CodecFor[k], args[c].config[k])
      \/ SetTargetBitrate(c, r, s, args[c].bitrate)
      \/ SetTargetFramerate(c, r, s, args[c].config[k].fps)
      \/ op \in {"PollStreamConfig", "List"} /\ UNCHANGED vars
      \/ op = "UnsubscribeStream" /\ UnsubscribeCall(c, k)
    BY DEF PlainCall, PollConfigCall, ReadsOnly
<1>3. op = "UnsubscribeStream" => UnsubscribeStream(c, r, w) \/ UNCHANGED vars
    BY DEF PlainCall, UnsubscribeCall, ReadsOnly
<1>4. Proceeds(c) /\ op = "UnsubscribeStream" => UnsubscribeStream(c, r, w)
    <2> SUFFICES ASSUME Proceeds(c), op = "UnsubscribeStream"
                 PROVE  r \in rooms /\ UnsubscribeCall(c, k)
        BY DEF UnsubscribeCall
    <2>1. Pos(c) >= 15
        <3>1. Pos(c) = Rank(For(op, k))
            BY AtHead DEF Acting
        <3> QED BY <3>1, KindRanks
    <2>2. Pos(c) \in 1..17
        BY AtHead DEF Acting
    <2>3. IsParticipant(r, user[c])
        BY <2>1, <2>2 DEF Proceeds, ClientInv, GoingInv, PlaceInv
    <2>4. r \in rooms
        BY <2>3, ParticipantPlace DEF FlowRelay
    <2> QED BY <2>4 DEF PlainCall
<1>5. NothingReplaced /\ \A u : Spares(u)
    <2>0. TypeOK
        BY DEF FlowRelay
    <2>1. CASE SetVoiceState(c, r, args[c].voice)
        BY <2>0, <2>1, SparesAll
    <2>2. CASE PublishStream(c, r, s, CodecFor[k], k)
        BY <2>0, <2>2, SparesAll
    <2>3. CASE \/ SetStreamConfig(c, r, s, CodecFor[k], args[c].config[k])
               \/ SetTargetBitrate(c, r, s, args[c].bitrate)
               \/ SetTargetFramerate(c, r, s, args[c].config[k].fps)
        BY <2>0, <2>3, SparesAll
    <2>4. CASE UNCHANGED vars \/ Authenticate(c) \/ UnsubscribeStream(c, r, w)
        BY <2>0, <2>4, SparesAll
    <2> QED BY <1>2, <1>3, <2>1, <2>2, <2>3, <2>4
<1>6. user'[c] = user[c] /\ (access[c] => access'[c])
    <2>1. CASE Authenticate(c)
        BY <2>1 DEF Authenticate, FlowRelay, TypeOK
    <2>2. CASE UNCHANGED <<user, access>>
        BY <2>2
    <2>3. Authenticate(c) \/ UNCHANGED <<user, access>>
        BY <1>2, <1>3 DEF SetVoiceState, PublishStream, SetStreamConfig, SetTargetBitrate,
           SetTargetFramerate, UnsubscribeStream, vars, sessionVars
    <2> QED BY <2>1, <2>2, <2>3
<1>7. Steady(c)
    BY <1>5, <1>6 DEF Steady
<1>8. ASSUME NEW j \in args[c].kinds, todo[c][1] = For("PublishStream", j), args' = args
      PROVE  OnAir(c, j)'
    <2>1. op = "PublishStream" /\ j = k
        BY <1>8 DEF For
    <2>2. PublishStream(c, r, s, CodecFor[k], k)
        BY <2>1 DEF PlainCall
    <2> DEFINE p == [room |-> r, stream |-> s, publisher |-> user[c], codec |-> CodecFor[k],
                     kind |-> k, target |-> DefaultTarget, config |-> NoConfig]
    <2>3. p \in published'
        BY <2>2 DEF PublishStream
    <2>4. /\ p.room = room'[c] /\ p.stream = args'[c].stream[k]
          /\ p.publisher = user'[c] /\ p.codec = CodecFor[k] /\ p.kind = k
        BY <1>1, <1>6, <1>8
    <2> HIDE DEF p
    <2> QED BY <2>1, <2>3, <2>4 DEF OnAir
<1>9. ASSUME Proceeds(c), NEW j \in args[c].kinds, todo[c][1] = For("UnsubscribeStream", j)
      PROVE  \A v \in viewerStats' : v.user = user[c] => v.stream # watch[c][j]
    <2>1. op = "UnsubscribeStream" /\ j = k
        BY <1>9 DEF For
    <2> QED BY <1>4, <1>9, <2>1 DEF UnsubscribeStream
<1>10. todo[c][1].op \notin {"Hello", "CreateRoom", "ListRooms", "JoinRoom", "LeaveRoom",
                             "ListStreams"}
    BY DEF For
<1> QED BY <1>1, <1>7, <1>8, <1>9, <1>10, SteadyCall

\* The position of a client whose next call is For(op, k).
LEMMA AtCallFor ==
    ASSUME NEW c, ScriptInv(c), todo[c] # << >>, NEW op, NEW k, todo[c][1] = For(op, k)
    PROVE  /\ Pos(c) = Rank(For(op, k)) /\ Pos(c) \in 1..17
           /\ k \in Media /\ op \in Ops /\ Suits(args[c], For(op, k))
<1>1. Pos(c) = Rank(For(op, k)) /\ Pos(c) \in 1..17 /\ Suits(args[c], For(op, k))
      /\ For(op, k) \in Calls
    BY AtHead
<1> QED BY <1>1 DEF For, Calls

\* The viewer subscribes: from now on the stream is its publisher's.
LEMMA SubscribeStep ==
    ASSUME FlowRelay, TypeOK', FlowType, NEW c \in Sessions, Acting(c),
           NEW k \in Media, todo[c][1] = For("SubscribeStream", k), SubscribeCall(c, k)
    PROVE  CoreAfter(c) /\ (Proceeds(c) => GoingInv(c)')
<1> DEFINE w == watch[c][k]
<1>1. PICK p \in published : /\ p.stream = w
                             /\ origin' = [origin EXCEPT ![c][k] = p.publisher]
    BY DEF SubscribeCall, StreamsIn
<1>2. /\ subscriptions' = subscriptions \cup {[room |-> room[c], stream |-> w, user |-> user[c]]}
      /\ UNCHANGED <<sessionVars, roomVars, published, viewerStats, remoteInput>>
      /\ UNCHANGED <<room, watch>>
    BY DEF SubscribeCall, SubscribeStream
<1>3. UNCHANGED <<user, access, participants>>
    BY <1>2 DEF sessionVars, roomVars
<1>4. args[c].mode = "view" /\ ~(Pos(c) <= 6)
    <2>1. Pos(c) = Rank(For("SubscribeStream", k)) /\ Suits(args[c], For("SubscribeStream", k))
        BY AtCallFor DEF Acting
    <2>2. For("SubscribeStream", k).op = "SubscribeStream"
        BY DEF For
    <2>3. Pos(c) \in 7..8
        BY <2>1, <2>2, RankOf
    <2> QED BY <2>1, <2>2, <2>3 DEF Suits
<1>5. origin'[c][k] = p.publisher /\ \A j \in Media : j # k => origin'[c][j] = origin[c][j]
    BY <1>1 DEF FlowType
<1>6. NotSwitched(c)'
    <2> SUFFICES ASSUME NEW j \in Media, NEW q \in published, q.stream = watch[c][j],
                        \/ IsSubscriber(q.room, q.stream, user[c])'
                        \/ \E i \in DOMAIN remoteInput[q.stream] :
                              remoteInput[q.stream][i] = user[c]
                 PROVE  q.publisher = origin'[c][j]
        BY <1>2, <1>3 DEF NotSwitched, IsSubscriber
    <2>1. CASE j = k
        <3>1. q = p
            BY <1>1, <2>1 DEF FlowRelay, Consistent, StreamIdUnique
        <3> QED BY <1>5, <2>1, <3>1
    <2>2. CASE j # k
        <3>1. q.stream \in StreamIds
            BY DEF FlowRelay, TypeOK, Stream
        <3>2. q.stream # w
            BY <2>2, <3>1, FlowAssumption DEF Acting, CoreInv, Media
        <3>3. \/ IsSubscriber(q.room, q.stream, user[c])
              \/ \E i \in DOMAIN remoteInput[q.stream] : remoteInput[q.stream][i] = user[c]
            BY <1>2, <1>3, <3>2 DEF IsSubscriber
        <3>4. q.publisher = origin[c][j]
            BY <3>3 DEF Acting, CoreInv, NotSwitched
        <3> QED BY <1>5, <2>2, <3>4
    <2> QED BY <2>1, <2>2
<1>9. InputInPlace(c)'
    BY <1>2, <1>3 DEF Acting, CoreInv, InputInPlace
<1>7. CoreAfter(c)
    BY <1>2, <1>3, <1>4, <1>6, <1>9 DEF CoreAfter, Acting, CoreInv
<1>8. ASSUME Proceeds(c) PROVE GoingInv(c)'
    <2>1. todo[c][1].op = "SubscribeStream"
          /\ \A j : todo[c][1] # For("PublishStream", j) /\ todo[c][1] # For("UnsubscribeStream", j)
        BY DEF For
    <2>2. args' = args /\ \A j : OnAir(c, j) => OnAir(c, j)'
        BY <1>2, <1>3, <1>8 DEF OnAir, Proceeds, Advances
    <2>3. IsParticipant(room[c], user[c]) => IsParticipant(room[c], user[c])'
        BY <1>2, <1>3 DEF IsParticipant
    <2> QED BY <1>2, <1>3, <1>8, <2>1, <2>2, <2>3, GoingStep DEF Proceeds
<1> QED BY <1>7, <1>8

\* The viewer sends input, to a stream it is subscribed to.
LEMMA RemoteInputStep ==
    ASSUME FlowRelay, TypeOK', FlowType, NEW c \in Sessions, Acting(c),
           NEW k \in Media, todo[c][1] = For("SendRemoteInput", k),
           SendRemoteInput(c, room[c], watch[c][k]), UNCHANGED <<room, watch, origin>>
    PROVE  CoreAfter(c) /\ (Proceeds(c) => GoingInv(c)')
<1> DEFINE w == watch[c][k]
<1>1. PICK p \in published : p.room = room[c] /\ p.stream = w
    BY DEF SendRemoteInput
<1>2. /\ IsSubscriber(room[c], w, user[c])
      /\ UNCHANGED <<sessionVars, roomVars, streamVars, viewerStats>>
      /\ \A s \in StreamIds \ {w} : remoteInput'[s] = remoteInput[s]
    BY DEF SendRemoteInput, FlowRelay, TypeOK
<1>3. UNCHANGED <<user, access, participants, published, subscriptions, viewerStats>>
    BY <1>2 DEF sessionVars, roomVars, streamVars
<1>4. args[c].mode = "view" /\ ~(Pos(c) <= 6)
    <2>1. Pos(c) = Rank(For("SendRemoteInput", k)) /\ Suits(args[c], For("SendRemoteInput", k))
        BY AtCallFor DEF Acting
    <2>2. For("SendRemoteInput", k).op = "SendRemoteInput"
        BY DEF For
    <2>3. Pos(c) = 11
        BY <2>1, <2>2, RankOf
    <2> QED BY <2>1, <2>2, <2>3 DEF Suits
<1>5. NotSwitched(c)'
    <2> SUFFICES ASSUME NEW j \in Media, NEW q \in published, q.stream = watch[c][j],
                        \/ IsSubscriber(q.room, q.stream, user[c])
                        \/ \E i \in DOMAIN remoteInput'[q.stream] :
                              remoteInput'[q.stream][i] = user[c]
                 PROVE  q.publisher = origin[c][j]
        BY <1>3 DEF NotSwitched, IsSubscriber
    <2>1. q.stream \in StreamIds
        BY DEF FlowRelay, TypeOK, Stream
    <2>2. CASE q.stream = w
        <3>1. q = p
            BY <1>1, <2>2 DEF FlowRelay, Consistent, StreamIdUnique
        <3>2. IsSubscriber(q.room, q.stream, user[c])
            BY <1>1, <1>2, <2>2, <3>1
        <3> QED BY <3>2 DEF Acting, CoreInv, NotSwitched
    <2>3. CASE q.stream # w
        BY <1>2, <2>1, <2>3 DEF Acting, CoreInv, NotSwitched
    <2> QED BY <2>2, <2>3
<1>8. InputInPlace(c)'
    BY <1>2, <1>3 DEF Acting, CoreInv, InputInPlace
<1>6. CoreAfter(c)
    BY <1>3, <1>4, <1>5, <1>8 DEF CoreAfter, Acting, CoreInv
<1>7. ASSUME Proceeds(c) PROVE GoingInv(c)'
    <2>1. todo[c][1].op = "SendRemoteInput"
          /\ \A j : todo[c][1] # For("PublishStream", j) /\ todo[c][1] # For("UnsubscribeStream", j)
        BY DEF For
    <2>2. args' = args /\ \A j : OnAir(c, j) => OnAir(c, j)'
        BY <1>3, <1>7 DEF OnAir, Proceeds, Advances
    <2>3. IsParticipant(room[c], user[c]) => IsParticipant(room[c], user[c])'
        BY <1>3 DEF IsParticipant
    <2> QED BY <1>3, <1>7, <2>1, <2>2, <2>3, GoingStep DEF Proceeds
<1> QED BY <1>6, <1>7

\* The broadcaster ends one of its streams.
LEMMA UnpublishStep ==
    ASSUME FlowRelay, TypeOK', FlowType, NEW c \in Sessions, Acting(c),
           NEW k \in Media, todo[c][1] = For("UnpublishStream", k),
           UnpublishStream(c, room[c], args[c].stream[k]), UNCHANGED <<room, watch, origin>>
    PROVE  CoreAfter(c) /\ (Proceeds(c) => GoingInv(c)')
<1> DEFINE s == args[c].stream[k]
<1>1. /\ UNCHANGED sessionVars /\ UNCHANGED participants /\ subscriptions' \subseteq subscriptions
      /\ viewerStats' \subseteq viewerStats
      /\ published' \subseteq published
      /\ \A p \in published : p.stream # s => p \in published'
    BY DEF UnpublishStream, RemoveStreamState
<1>2. UNCHANGED <<user, access>>
    BY <1>1 DEF sessionVars
<1>3. \A x \in StreamIds : \A i \in DOMAIN remoteInput'[x] :
         i \in DOMAIN remoteInput[x] /\ remoteInput'[x][i] = remoteInput[x][i]
    <2>1. \A x \in StreamIds : remoteInput'[x] = IF x \in {s} THEN << >> ELSE remoteInput[x]
        BY DEF UnpublishStream, RemoveStreamState
    <2>2. DOMAIN << >> = {}
        OBVIOUS
    <2> QED BY <2>1, <2>2
<1>4. NothingReplaced /\ AddsNothing(user[c])
    BY <1>1, <1>3 DEF NothingReplaced, AddsNothing, SameStream
<1>5. CoreAfter(c)
    <2>1. \A m \in participants' : m.user = user[c] => m.room = room'[c]
        BY <1>1 DEF Acting, CoreInv
    <2> QED BY <1>2, <1>4, <2>1, CoreStep DEF Acting, FlowRelay
<1>6. ASSUME Proceeds(c) PROVE GoingInv(c)'
    <2>1. todo[c][1].op = "UnpublishStream"
          /\ \A j : todo[c][1] # For("PublishStream", j) /\ todo[c][1] # For("UnsubscribeStream", j)
        BY DEF For
    <2>2. args' = args
        BY <1>6 DEF Proceeds, Advances
    <2>3. ASSUME NEW j \in args[c].kinds, OnAir(c, j), todo[c][1] # For("UnpublishStream", j)
          PROVE  OnAir(c, j)'
        <3>1. j \in Media /\ j # k
            BY <2>3, ArgsType DEF CommandLine
        <3>2. args[c].stream[j] # s
            BY <3>1, CommandLineInputs DEF Media
        <3>3. PICK p \in published :
                 /\ p.room = room[c] /\ p.stream = args[c].stream[j]
                 /\ p.publisher = user[c] /\ p.codec = CodecFor[j] /\ p.kind = j
            BY <2>3 DEF OnAir
        <3>4. p \in published'
            BY <1>1, <3>2, <3>3
        <3> QED BY <1>2, <2>2, <3>3, <3>4 DEF OnAir
    <2>4. IsParticipant(room[c], user[c]) => IsParticipant(room[c], user[c])'
        BY <1>1, <1>2 DEF IsParticipant
    <2> QED BY <1>1, <1>2, <1>6, <2>1, <2>3, <2>4, GoingStep DEF Proceeds
<1> QED BY <1>5, <1>6

\* The client leaves its room, with its last call.
LEMMA LeaveStep ==
    ASSUME FlowRelay, TypeOK', FlowType, NEW c \in Sessions, Acting(c),
           todo[c][1] = For("LeaveRoom", "Screen"), LeaveCall(c), UNCHANGED <<room, watch, origin>>
    PROVE  CoreAfter(c) /\ (Proceeds(c) => GoingInv(c)')
<1>1. Pos(c) = 17
    BY AtCallFor, RanksInScripts DEF Acting
<1>2. Proceeds(c) => room[c] \in rooms
    <2>1. Proceeds(c) => IsParticipant(room[c], user[c])
        BY <1>1 DEF Proceeds, ClientInv, GoingInv, PlaceInv
    <2> QED BY <2>1, ParticipantPlace DEF FlowRelay
<1>n. CASE room[c] \notin rooms
    <2>1. CoreAfter(c)
        BY <1>n, NothingHappens DEF LeaveCall, ReadsOnly, Acting
    <2> QED BY <1>2, <1>n, <2>1
<1> SUFFICES ASSUME room[c] \in rooms
             PROVE  CoreAfter(c) /\ (Proceeds(c) => GoingInv(c)')
    BY <1>n
<1>3. LeaveRooms(user[c], {room[c]}, {}) /\ UNCHANGED sessionVars
    BY DEF LeaveCall, LeaveRoom
<1>4. UNCHANGED <<user, access>>
    BY <1>3 DEF sessionVars
<1>5. /\ NothingReplaced
      /\ participants' = {m \in participants : ~(m.room \in {room[c]} /\ m.user = user[c])}
      /\ subscriptions' \subseteq subscriptions
      /\ viewerStats' \subseteq viewerStats
      /\ \A s \in StreamIds : remoteInput'[s] \in {<< >>, remoteInput[s]}
    BY <1>3, LeaveRoomsSpares DEF FlowRelay
<1>6. AddsNothing(user[c])
    <2>1. DOMAIN << >> = {}
        OBVIOUS
    <2> QED BY <1>5, <2>1 DEF AddsNothing
<1>7. \A m \in participants' : m.user # user[c]
    BY <1>5 DEF Acting, CoreInv
<1>8. CoreAfter(c)
    BY <1>4, <1>5, <1>6, <1>7, CoreStep DEF Acting, FlowRelay
<1>9. ASSUME Proceeds(c) PROVE GoingInv(c)'
    <2>1. status'[c] = "done"
        BY <1>9, Advance DEF Proceeds, ClientInv
    <2>2. \A v \in viewerStats' : v.user # user[c]
        <3>1. \A v \in viewerStats : v.user # user[c]
            <4> SUFFICES ASSUME NEW v \in viewerStats, v.user = user[c] PROVE FALSE
                OBVIOUS
            <4>1. PICK k \in args[c].kinds : Pos(c) <= Rank(For("UnsubscribeStream", k))
                BY <1>9 DEF Proceeds, ClientInv, GoingInv, ReportInv, Running
            <4>2. k \in Media
                BY ArgsType DEF CommandLine
            <4> QED BY <1>1, <4>1, <4>2, KindRanks
        <3> QED BY <1>5, <3>1
    <2>3. PlaceInv(c)' /\ OwnInv(c)' /\ WatchInv(c)'
        BY <1>4, <1>7, <2>1 DEF PlaceInv, OwnInv, WatchInv, Running
    <2>4. ReportInv(c)'
        BY <1>4, <2>2 DEF ReportInv
    <2> QED BY <2>3, <2>4 DEF GoingInv
<1> QED BY <1>8, <1>9

\* Whatever the next call, answering it leaves the client in order.
LEMMA OwnCall ==
    ASSUME FlowRelay, TypeOK', FlowType, NEW c \in Sessions, Acting(c),
           NEW op, NEW k, Current(c).op = op, Current(c).kind = k, Call(c, op, k)
    PROVE  CoreAfter(c) /\ (Proceeds(c) => GoingInv(c)')
<1> DEFINE Goal == CoreAfter(c) /\ (Proceeds(c) => GoingInv(c)')
<1>1. todo[c][1] = For(op, k)
    <2>1. Current(c) = todo[c][1] /\ Current(c) \in Calls
        BY AtHead DEF Acting
    <2> QED BY <2>1 DEF Calls, For
<1>2. op \in Ops /\ k \in Media /\ Suits(args[c], For(op, k))
    BY <1>1, AtCallFor DEF Acting
<1>3. op \in {"CreateRoom", "JoinRoom", "LeaveRoom"} => k = "Screen"
    BY <1>2 DEF Suits, For
<1>4. todo[c][1].op = op
    BY <1>1 DEF For
<1>5. ASSUME op = "CreateRoom", CreateRoomCall(c) PROVE Goal
    <2>1. CreateRoom(c) /\ room'[c] = nextRoomId /\ UNCHANGED <<watch, origin>>
        BY <1>5 DEF CreateRoomCall, FlowType
    <2> QED BY <1>1, <1>3, <1>5, <2>1, EnterStep
<1>6. ASSUME op = "ListRooms", ListRoomsCall(c) PROVE Goal
    BY <1>4, <1>6, EarlyCalls DEF ListRoomsCall, ReadsOnly
<1>7. ASSUME op = "ListStreams", ListStreamsCall(c) PROVE Goal
    BY <1>4, <1>7, ListStreamsStep
<1>8. ASSUME op = "SubscribeStream", SubscribeCall(c, k) PROVE Goal
    BY <1>1, <1>2, <1>8, SubscribeStep
<1>9. ASSUME PlainCall(c, op, k) PROVE Goal
    <2>0. UNCHANGED <<room, watch, origin>>
        BY <1>9 DEF PlainCall
    <2>1. CASE op = "Hello"
        <3>1. Hello(c)
            BY <1>9, <2>1 DEF PlainCall
        <3> QED BY <1>4, <2>0, <2>1, <3>1, EarlyCalls
    <2>2. CASE op = "JoinRoom"
        <3>1. JoinRoom(c, room[c])
            BY <1>9, <2>2 DEF PlainCall
        <3> QED BY <1>1, <1>3, <2>0, <2>2, <3>1, EnterStep
    <2>3. CASE op = "UnpublishStream"
        <3>1. UnpublishStream(c, room[c], args[c].stream[k])
            BY <1>9, <2>3 DEF PlainCall
        <3> QED BY <1>1, <1>2, <2>0, <2>3, <3>1, UnpublishStep
    <2>4. CASE op = "SendRemoteInput"
        <3>1. SendRemoteInput(c, room[c], watch[c][k])
            BY <1>9, <2>4 DEF PlainCall
        <3> QED BY <1>1, <1>2, <2>0, <2>4, <3>1, RemoteInputStep
    <2>5. CASE op = "LeaveRoom"
        <3>1. LeaveCall(c)
            BY <1>9, <2>5 DEF PlainCall
        <3> QED BY <1>1, <1>3, <2>0, <2>5, <3>1, LeaveStep
    <2>6. CASE op \in {"Authenticate", "SetVoiceState", "PublishStream", "SetStreamConfig",
                       "SetTargetBitrate", "SetTargetFramerate", "PollStreamConfig",
                       "UnsubscribeStream", "List"}
        BY <1>1, <1>2, <1>9, <2>6, SteadyCalls
    <2>7. op \in {"Hello", "JoinRoom", "UnpublishStream", "SendRemoteInput", "LeaveRoom",
                  "Authenticate", "SetVoiceState", "PublishStream", "SetStreamConfig",
                  "SetTargetBitrate", "SetTargetFramerate", "PollStreamConfig",
                  "UnsubscribeStream", "List"}
        BY <1>9 DEF PlainCall
    <2> QED BY <2>1, <2>2, <2>3, <2>4, <2>5, <2>6, <2>7
<1> HIDE DEF Goal
<1>10. Goal
    BY <1>5, <1>6, <1>7, <1>8, <1>9 DEF Call
<1> QED BY <1>10 DEF Goal

\* A client that has ended, other than by finishing its script, keeps its place.
LEMMA EndedClient ==
    ASSUME NEW c, ScriptInv(c), CoreAfter(c), args' = args, todo'[c] = todo[c],
           status'[c] \in {"refused", "lost", "echo", "closed"},
           c \in pending' => status'[c] \in {"lost", "closed"} /\ todo[c] # << >> /\ Prepared(c)'
    PROVE  ScriptInv(c)' /\ CoreInv(c)' /\ GoingInv(c)' /\ PendingInv(c)'
<1>1. Pos(c)' = Pos(c) /\ ~Running(c)'
    BY DEF Pos, Running
<1>2. ScriptInv(c)'
    BY <1>1 DEF ScriptInv
<1>3. CoreInv(c)'
    BY <1>1 DEF CoreInv, CoreAfter
<1>4. GoingInv(c)'
    BY <1>1 DEF GoingInv, PlaceInv, OwnInv, WatchInv, ReportInv
<1>5. PendingInv(c)'
    BY DEF PendingInv
<1> QED BY <1>2, <1>3, <1>4, <1>5

\* The client goes on to its next call.
LEMMA GoneOn ==
    ASSUME FlowType, NEW c \in Sessions, Proceeds(c), CoreAfter(c), GoingInv(c)'
    PROVE  ClientInv(c)'
<1>1. /\ ScriptInv(c)' /\ args' = args /\ Pos(c)' \in 1..18 /\ Pos(c) <= Pos(c)'
      /\ status'[c] \in {"done", "running"}
    BY Advance DEF Proceeds, ClientInv
<1>2. Pos(c) \in 1..17
    BY AtHead DEF Proceeds, ClientInv, ScriptInv, Running
<1>3. CoreInv(c)'
    BY <1>1, <1>2 DEF CoreInv, CoreAfter
<1>4. RefusedInv(c)'
    BY <1>1 DEF RefusedInv
<1>5. PendingInv(c)'
    BY ActingClient DEF Proceeds, Advances, PendingInv
<1> QED BY <1>1, <1>3, <1>4, <1>5 DEF ClientInv

\* The relay answers.
LEMMA AnswerStep ==
    ASSUME FlowRelay, TypeOK', FlowType, NEW c \in Sessions, ClientInv(c), Answer(c)
    PROVE  ClientInv(c)'
<1>0. Running(c) /\ Acting(c) /\ c \notin pending
    BY ActingClient DEF Answer, AtCall, Running
<1>1. PICK op \in {Current(c).op}, k \in {Current(c).kind} :
         /\ Call(c, op, k)
         /\ IF EchoDiffers(c, op, k) THEN Ends(c, "echo") ELSE Advances(c)
    BY DEF Answer
<1>2. CoreAfter(c) /\ (Proceeds(c) => GoingInv(c)')
    BY <1>0, <1>1, OwnCall
<1>3. CASE Ends(c, "echo")
    <2>1. args' = args /\ todo'[c] = todo[c] /\ status'[c] = "echo" /\ pending' = pending
        BY <1>3 DEF Ends, FlowType
    <2>2. RefusedInv(c)'
        BY <2>1 DEF RefusedInv
    <2> QED BY <1>0, <1>2, <2>1, <2>2, EndedClient DEF ClientInv
<1>4. CASE Advances(c)
    <2>1. Proceeds(c)
        BY <1>0, <1>4 DEF Proceeds
    <2> QED BY <1>2, <2>1, GoneOn
<1> QED BY <1>1, <1>3, <1>4

\* A broadcaster whose stream is on the air is in its room.
LEMMA OnAirAtCall ==
    ASSUME FlowRelay, FlowType, NEW c \in Sessions, ClientInv(c), Running(c),
           args[c].mode = "broadcast", NEW op, NEW k, todo[c][1] = For(op, k),
           op \in {"SetStreamConfig", "SetTargetBitrate", "SetTargetFramerate", "UnpublishStream"}
    PROVE  \E p \in OwnStreams(c, k) : p.room = room[c] /\ p.codec = CodecFor[k]
<1>1. Pos(c) = Rank(For(op, k)) /\ k \in Media /\ k \in args[c].kinds
    <2>1. Pos(c) = Rank(For(op, k)) /\ k \in Media /\ Suits(args[c], For(op, k))
        BY AtCallFor DEF ClientInv, ScriptInv, Running
    <2> QED BY <2>1 DEF Suits, For
<1>2. Rank(For("PublishStream", k)) < Pos(c) /\ Pos(c) <= Rank(For("UnpublishStream", k))
    BY <1>1, RanksInScripts DEF Media
<1>3. OnAir(c, k)
    BY <1>1, <1>2 DEF ClientInv, GoingInv, OwnInv
<1> QED BY <1>3 DEF OnAir, OwnStreams

\* A broadcaster is refused only what it may be refused.
LEMMA RefuseStep ==
    ASSUME FlowRelay, TypeOK', FlowType, NEW c \in Sessions, ClientInv(c), Refuse(c)
    PROVE  ClientInv(c)'
<1>1. /\ Running(c) /\ args' = args /\ todo' = todo /\ status'[c] = "refused"
      /\ UNCHANGED vars /\ UNCHANGED <<room, watch, origin, pending>>
    BY DEF Refuse, AtCall, Running, Ends, FlowType
<1>2. ScriptInv(c)' /\ CoreInv(c)' /\ GoingInv(c)' /\ PendingInv(c)'
    BY <1>1, ActingClient, NothingHappens, EndedClient DEF ClientInv
<1>3. RefusedInv(c)'
    <2> SUFFICES ASSUME args[c].mode = "broadcast",
                        Current(c).op \notin {"Authenticate", "CreateRoom", "PublishStream"},
                        ~(Current(c).op = "JoinRoom" /\ (args[c].room # NoRoom))
                 PROVE  FALSE
        BY <1>1 DEF RefusedInv, Current
    <2> DEFINE op == Current(c).op
               k == Current(c).kind
    <2>1. ~Allowed(c, op, k)
        BY DEF Refuse
    <2>2. Current(c) = todo[c][1] /\ Current(c) \in Calls
        BY <1>1, AtHead DEF ClientInv, ScriptInv, Running
    <2>3. todo[c][1] = For(op, k)
        BY <2>2 DEF Calls, For
    <2> HIDE DEF op, k
    <2>4. /\ Pos(c) = Rank(For(op, k)) /\ Pos(c) \in 1..17
          /\ k \in Media /\ op \in Ops /\ Suits(args[c], For(op, k))
        BY <1>1, <2>3, AtCallFor DEF ClientInv, ScriptInv, Running
    <2>5. op \in {"Hello", "JoinRoom", "SetVoiceState", "SetStreamConfig", "SetTargetBitrate",
                  "SetTargetFramerate", "UnpublishStream", "LeaveRoom"}
        <3>1. op # "Media"
            BY DEF Refuse, AtCall, op
        <3> QED BY <2>4, <3>1 DEF Suits, For, Ops, op
    <2>6. op = "Hello" => Allowed(c, op, k)
        BY DEF Allowed
    <2>7. ASSUME op # "Hello" PROVE Authorized(c) /\ IsParticipant(room[c], user[c])
        <3>1. Pos(c) >= 4 /\ (Pos(c) = 4 => op = "JoinRoom")
            <4>1. CASE op \in {"JoinRoom", "SetVoiceState", "LeaveRoom"}
                <5>1. /\ op = "JoinRoom" => Rank(For(op, k)) = 4
                      /\ op = "SetVoiceState" => Rank(For(op, k)) = 5
                      /\ op = "LeaveRoom" => Rank(For(op, k)) = 17
                    <6>1. For(op, k).op = op
                        BY DEF For
                    <6> QED BY <6>1, RankOf
                <5> QED BY <2>4, <4>1, <5>1
            <4>2. CASE op \in {"SetStreamConfig", "SetTargetBitrate", "SetTargetFramerate",
                               "UnpublishStream"}
                BY <2>4, <4>2, RanksInScripts DEF Media
            <4> QED BY <2>5, <2>7, <4>1, <4>2
        <3>2. Pos(c) = 4 => args[c].room = NoRoom
            BY <3>1 DEF op
        <3> QED BY <1>1, <3>1, <3>2 DEF ClientInv, GoingInv, PlaceInv
    <2>8. op # "Hello" => IsIn(c)
        BY <2>7, ParticipantPlace DEF IsIn, FlowRelay
    <2>9. op \in {"JoinRoom", "SetVoiceState", "LeaveRoom"} => Allowed(c, op, k)
        BY <2>7, <2>8 DEF Allowed, IsIn
    <2>10. ASSUME op \in {"SetStreamConfig", "SetTargetBitrate", "SetTargetFramerate",
                          "UnpublishStream"}
           PROVE  Allowed(c, op, k)
        <3>1. \E p \in OwnStreams(c, k) : p.room = room[c] /\ p.codec = CodecFor[k]
            BY <1>1, <2>3, <2>10, OnAirAtCall
        <3> QED BY <2>7, <2>10, <3>1 DEF Allowed
    <2> QED BY <2>1, <2>5, <2>6, <2>9, <2>10
<1> QED BY <1>2, <1>3 DEF ClientInv

\* A client in its media loops.
LEMMA MediaPlace ==
    ASSUME FlowRelay, FlowType, NEW c \in Sessions, ClientInv(c), InMedia(c)
    PROVE  /\ Running(c) /\ todo[c][1].op = "Media" /\ Pos(c) = 14
           /\ args[c].mode \in {"broadcast", "view"}
           /\ Authorized(c) /\ IsIn(c)
           /\ args[c].mode = "broadcast" => \A k \in args[c].kinds : OnAir(c, k)
           /\ args[c].mode = "view" => \A k \in args[c].kinds : watch[c][k] \in StreamIds
<1>1. /\ Running(c) /\ todo[c][1].op = "Media" /\ Pos(c) = Rank(todo[c][1])
      /\ Suits(args[c], todo[c][1])
    BY AtHead DEF ClientInv, ScriptInv, InMedia, Running
<1>2. Pos(c) = 14 /\ args[c].mode \in {"broadcast", "view"}
    <2>1. Rank(todo[c][1]) = 14
        BY <1>1, RankOf
    <2> QED BY <1>1, <2>1 DEF Suits
<1>3. Authorized(c) /\ IsParticipant(room[c], user[c])
    BY <1>1, <1>2 DEF ClientInv, GoingInv, PlaceInv
<1>4. IsIn(c)
    BY <1>3, ParticipantPlace DEF IsIn, FlowRelay
<1>5. ASSUME args[c].mode = "broadcast", NEW k \in args[c].kinds PROVE OnAir(c, k)
    <2>1. k \in Media
        BY ArgsType DEF CommandLine
    <2>2. Rank(For("PublishStream", k)) < Pos(c) /\ Pos(c) <= Rank(For("UnpublishStream", k))
        BY <1>2, <2>1, KindRanks
    <2> QED BY <1>1, <1>5, <2>2 DEF ClientInv, GoingInv, OwnInv
<1>6. args[c].mode = "view" => \A k \in args[c].kinds : watch[c][k] \in StreamIds
    BY <1>1, <1>2 DEF ClientInv, GoingInv, WatchInv
<1> QED BY <1>1, <1>2, <1>3, <1>4, <1>5, <1>6

\* No poll of a broadcaster's media loop is refused.
LEMMA MediaRefusedStep ==
    ASSUME FlowRelay, TypeOK', FlowType, NEW c \in Sessions, ClientInv(c), MediaRefused(c)
    PROVE  ClientInv(c)'
<1>1. /\ InMedia(c) /\ args' = args /\ todo' = todo /\ status'[c] = "refused"
      /\ UNCHANGED vars /\ UNCHANGED <<room, watch, origin, pending>>
    BY DEF MediaRefused, Ends, FlowType
<1>2. ScriptInv(c)' /\ CoreInv(c)' /\ GoingInv(c)' /\ PendingInv(c)'
    BY <1>1, ActingClient, NothingHappens, EndedClient DEF ClientInv, InMedia, Running
<1>3. args[c].mode # "broadcast"
    <2> SUFFICES ASSUME args[c].mode = "broadcast" PROVE FALSE
        OBVIOUS
    <2>1. PICK k \in args[c].kinds : ~MayPoll(c, k) \/ ~HasMetrics(c, k)
        BY DEF MediaRefused, Loops
    <2>2. Authorized(c) /\ IsIn(c) /\ OnAir(c, k)
        BY <1>1, MediaPlace
    <2> QED BY <2>1, <2>2 DEF MayPoll, HasMetrics, OnAir, OwnStreams, StreamsIn
<1>4. RefusedInv(c)'
    BY <1>1, <1>3 DEF RefusedInv
<1> QED BY <1>2, <1>4 DEF ClientInv

\* The media loops end and the client goes on to undo what it did.
LEMMA MediaEndStep ==
    ASSUME FlowRelay, TypeOK', FlowType, NEW c \in Sessions, ClientInv(c), MediaEnd(c)
    PROVE  ClientInv(c)'
<1>1. InMedia(c) /\ Advances(c) /\ UNCHANGED vars /\ UNCHANGED <<room, watch, origin>>
    BY DEF MediaEnd
<1>2. Running(c) /\ todo[c][1].op = "Media"
    BY <1>1, MediaPlace
<1>3. Steady(c) /\ Acting(c) /\ Proceeds(c)
    BY <1>1, <1>2, ActingClient, NothingHappens DEF ClientInv, Proceeds
<1>4. \A k : todo[c][1] # For("PublishStream", k) /\ todo[c][1] # For("UnsubscribeStream", k)
    BY <1>2 DEF For
<1>5. CoreAfter(c) /\ GoingInv(c)'
    BY <1>1, <1>2, <1>3, <1>4, SteadyCall
<1> QED BY <1>3, <1>5, GoneOn

\* The client ends with its request on its way.
LEMMA LoseStep ==
    ASSUME FlowRelay, TypeOK', FlowType, NEW c \in Sessions, ClientInv(c), Lose(c)
    PROVE  ClientInv(c)'
<1>1. /\ args' = args /\ todo' = todo /\ status'[c] = "lost" /\ Running(c)
      /\ UNCHANGED vars /\ UNCHANGED <<room, watch, origin>>
    BY DEF Lose, FlowType, Running
<1>2. Acting(c)
    BY <1>1, ActingClient
<1>3. Prepared(c)'
    BY <1>1, <1>2 DEF Acting, Prepared, Pos, vars, sessionVars, roomVars
<1>4. ScriptInv(c)' /\ CoreInv(c)' /\ GoingInv(c)' /\ PendingInv(c)'
    BY <1>1, <1>2, <1>3, NothingHappens, EndedClient DEF Acting
<1>5. RefusedInv(c)'
    BY <1>1 DEF RefusedInv
<1> QED BY <1>4, <1>5 DEF ClientInv

\* A client at its media loops, whether it runs or its last request is on its way.
LEMMA AtMedia ==
    ASSUME FlowType, NEW c \in Sessions, Acting(c), Current(c).op = "Media"
    PROVE  /\ Pos(c) = 14 /\ args[c].mode \in {"broadcast", "view"}
           /\ args[c].kinds \subseteq Media
           /\ args[c].mode = "view" => \A k \in args[c].kinds : watch[c][k] \in StreamIds
<1>1. todo[c][1].op = "Media" /\ Pos(c) = Rank(todo[c][1]) /\ Suits(args[c], todo[c][1])
    BY AtHead DEF Acting
<1>2. Pos(c) = 14 /\ args[c].mode \in {"broadcast", "view"}
    <2>1. Rank(todo[c][1]) = 14
        BY <1>1, RankOf
    <2> QED BY <1>1, <2>1 DEF Suits
<1>3. args[c].kinds \subseteq Media
    BY ArgsType DEF CommandLine
<1> QED BY <1>2, <1>3 DEF Acting, Prepared

\* Of what the media loops do only a viewer's report adds anything for its own user.
LEMMA MediaCases ==
    ASSUME FlowRelay, FlowType, NEW c \in Sessions, SendsFrame(c) \/ MediaCall(c)
    PROVE  \/ Steady(c)
           \/ /\ args[c].mode # "broadcast"
              /\ \E k \in args[c].kinds, report \in Reports :
                    ReportViewerStats(c, watch[c][k], report)
<1>1. ASSUME NEW s, NEW r,
             \/ RecordForward(c, s) \/ PollPublisherFeedback(c, s)
             \/ PollRemoteInput(c, r, s, PollSize)
             \/ RequestKeyframe(c, r, s)
      PROVE  Steady(c)
    <2>1. UNCHANGED <<user, access>>
        BY <1>1 DEF RecordForward, PollPublisherFeedback, PollRemoteInput, RequestKeyframe,
           sessionVars
    <2>2. PollSize \in Nat /\ TypeOK
        BY DEF PollSize, FlowRelay
    <2>3. NothingReplaced /\ \A u : Spares(u)
        BY <1>1, <2>2, SparesAll
    <2> QED BY <2>1, <2>3 DEF Steady
<1>2. SendsFrame(c) => Steady(c)
    BY <1>1 DEF SendsFrame
<1>3. ASSUME NEW k, BroadcastRound(c, k) PROVE Steady(c)
    BY <1>1, <1>3 DEF BroadcastRound
<1>4. ASSUME NEW k, ViewRound(c, k)
      PROVE  Steady(c) \/ \E report \in Reports : ReportViewerStats(c, watch[c][k], report)
    BY <1>1, <1>4 DEF ViewRound
<1> QED BY <1>2, <1>3, <1>4 DEF MediaCall, Loops

\* A viewer's report leaves it where it is.
LEMMA ReportCore ==
    ASSUME NEW c \in Sessions, CoreInv(c), args[c].mode = "view", ~(Pos(c) <= 6),
           NEW s, NEW report, ReportViewerStats(c, s, report), UNCHANGED <<room, watch, origin>>
    PROVE  CoreAfter(c)
<1>1. UNCHANGED <<user, participants, published, subscriptions, remoteInput>>
    BY DEF ReportViewerStats, sessionVars, roomVars, streamVars
<1>2. NotSwitched(c)'
    BY <1>1 DEF CoreInv, NotSwitched, IsSubscriber
<1>3. InputInPlace(c)'
    BY <1>1 DEF CoreInv, InputInPlace
<1> QED BY <1>1, <1>2, <1>3 DEF CoreInv, CoreAfter

\* A call of the media loops, in time or late.
LEMMA MediaCore ==
    ASSUME FlowRelay, TypeOK', FlowType, NEW c \in Sessions, Acting(c), Current(c).op = "Media",
           SendsFrame(c) \/ MediaCall(c), UNCHANGED <<room, watch, origin>>
    PROVE  CoreAfter(c)
<1>1. Pos(c) = 14 /\ args[c].mode \in {"broadcast", "view"}
    BY AtMedia
<1>2. CASE Steady(c)
    BY <1>2, SteadyCore DEF Acting, FlowRelay
<1>3. ASSUME args[c].mode # "broadcast", NEW k, NEW report,
             ReportViewerStats(c, watch[c][k], report)
      PROVE  CoreAfter(c)
    BY <1>1, <1>3, ReportCore DEF Acting
<1> QED BY <1>2, <1>3, MediaCases

\* A round of the media loops: what a viewer reports it will undo.
LEMMA MediaRoundStep ==
    ASSUME FlowRelay, TypeOK', FlowType, NEW c \in Sessions, ClientInv(c), MediaRound(c)
    PROVE  ClientInv(c)'
<1>1. /\ UNCHANGED flow /\ args' = args /\ InMedia(c) /\ (SendsFrame(c) \/ MediaCall(c))
    BY DEF MediaRound
<1>2. /\ UNCHANGED <<todo, status, room, watch, origin, pending>>
      /\ Pos(c)' = Pos(c) /\ Running(c)' = Running(c)
    BY <1>1 DEF flow, Pos, Running
<1>3. /\ Running(c) /\ Pos(c) = 14 /\ args[c].mode \in {"broadcast", "view"}
      /\ Acting(c) /\ c \notin pending /\ Current(c).op = "Media"
    BY <1>1, MediaPlace, ActingClient DEF InMedia
<1>4. CoreAfter(c)
    BY <1>1, <1>2, <1>3, MediaCore
<1>5. CASE Steady(c)
    BY <1>1, <1>2, <1>5, SteadyClient DEF FlowRelay
<1>6. ASSUME args[c].mode = "view", NEW k \in args[c].kinds, NEW report,
             ReportViewerStats(c, watch[c][k], report)
      PROVE  ClientInv(c)'
    <2> DEFINE w == watch[c][k]
    <2>1. /\ viewerStats' = {v \in viewerStats : ~(v.stream = w /\ v.user = user[c])} \cup
                            {[stream |-> w, user |-> user[c], report |-> report]}
          /\ UNCHANGED <<user, access, participants, published>>
        BY <1>6 DEF ReportViewerStats, sessionVars, roomVars, streamVars
    <2>2. ScriptInv(c)' /\ RefusedInv(c)'
        BY <1>1, <1>2, <1>3 DEF ClientInv, ScriptInv, RefusedInv, Running
    <2>3. CoreInv(c)'
        BY <1>1, <1>2, <1>4 DEF CoreAfter, CoreInv
    <2>4. PlaceInv(c)' /\ WatchInv(c)' /\ OwnInv(c)'
        BY <1>1, <1>2, <1>3, <1>6, <2>1
           DEF ClientInv, GoingInv, PlaceInv, WatchInv, OwnInv, Authorized, IsParticipant, Running
    <2>5. ReportInv(c)'
        <3> SUFFICES ASSUME NEW v \in viewerStats', v.user = user[c]
                     PROVE  \E j \in args[c].kinds : v.stream = watch[c][j]
                               /\ Pos(c) <= Rank(For("UnsubscribeStream", j))
            BY <1>1, <1>2, <2>1 DEF ReportInv
        <3>1. CASE v \in viewerStats
            BY <1>3, <3>1 DEF ClientInv, GoingInv, ReportInv, Running
        <3>2. CASE v \notin viewerStats
            <4>1. v.stream = w
                BY <2>1, <3>2
            <4>2. k \in Media
                BY ArgsType DEF CommandLine
            <4>3. Pos(c) <= Rank(For("UnsubscribeStream", k))
                BY <1>3, <4>2, KindRanks
            <4> QED BY <4>1, <4>3
        <3> QED BY <3>1, <3>2
    <2>6. PendingInv(c)'
        BY <1>2, <1>3 DEF PendingInv
    <2> QED BY <2>2, <2>3, <2>4, <2>5, <2>6 DEF ClientInv, GoingInv
<1> QED BY <1>1, <1>3, <1>5, <1>6, MediaCases

\* The request of a client that has ended is handled: the client is where it was.
LEMMA LateStep ==
    ASSUME FlowRelay, TypeOK', FlowType, NEW c \in Sessions, ClientInv(c), Late(c)
    PROVE  ClientInv(c)'
<1>1. /\ c \in pending /\ c \notin pending'
      /\ UNCHANGED <<todo, status, args>>
    BY DEF Late
<1>2. Acting(c) /\ status[c] \in {"lost", "closed"}
    BY <1>1, ActingClient DEF ClientInv, PendingInv
<1>3. CoreAfter(c)
    <2>1. CASE Current(c).op = "Media"
        BY <1>2, <2>1, MediaCore DEF Late
    <2>2. CASE Current(c).op # "Media"
        BY <1>2, <2>2, OwnCall DEF Late
    <2> QED BY <2>1, <2>2
<1>4. ScriptInv(c)' /\ CoreInv(c)' /\ GoingInv(c)' /\ PendingInv(c)'
    BY <1>1, <1>2, <1>3, EndedClient DEF Acting
<1>5. RefusedInv(c)'
    BY <1>1, <1>2 DEF RefusedInv
<1> QED BY <1>4, <1>5 DEF ClientInv

\* The connection is closed: the client is in no room any more.
LEMMA CloseStep ==
    ASSUME FlowRelay, TypeOK', FlowType, NEW c \in Sessions, ClientInv(c), Close(c)
    PROVE  ClientInv(c)'
<1>1. /\ status'[c] = "closed" /\ UNCHANGED <<todo, room, watch, origin, pending, args>>
    BY DEF Close, FlowType
<1>2. /\ AddsNothing(user[c]) /\ NothingReplaced /\ user'[c] = user[c]
      /\ \A m \in participants' : m.user # user[c]
    <2>1. CASE user[c] = NoUser
        <3>1. UNCHANGED vars
            BY <2>1 DEF Close
        <3>2. \A m \in participants : m.user # NoUser
            BY DEF FlowRelay, TypeOK, UserIds
        <3> QED BY <2>1, <3>1, <3>2
            DEF vars, sessionVars, roomVars, streamVars, perStream, AddsNothing, NothingReplaced, SameStream
    <2>2. CASE user[c] # NoUser
        <3> DEFINE R == {r \in rooms : \/ IsParticipant(r, user[c])
                                       \/ \E p \in published : p.room = r /\ p.publisher = user[c]}
        <3>1. LeaveRooms(user[c], R, {v \in viewerStats : v.user = user[c]}) /\ UNCHANGED user
            BY <2>2 DEF Close, Disconnect, DisconnectUser
        <3>2. \A m \in participants : m.user = user[c] => m.room \in R
            <4> SUFFICES ASSUME NEW m \in participants, m.user = user[c] PROVE m.room \in R
                OBVIOUS
            <4>1. m = [room |-> m.room, user |-> user[c]]
                BY DEF FlowRelay, TypeOK
            <4>2. IsParticipant(m.room, user[c])
                BY <4>1 DEF IsParticipant
            <4> QED BY <4>2, ParticipantPlace DEF FlowRelay
        <3> HIDE DEF R
        <3>3. /\ NothingReplaced
              /\ participants' = {m \in participants : ~(m.room \in R /\ m.user = user[c])}
              /\ subscriptions' \subseteq subscriptions
              /\ viewerStats' \subseteq viewerStats
              /\ \A s \in StreamIds : remoteInput'[s] \in {<< >>, remoteInput[s]}
            BY <3>1, LeaveRoomsSpares DEF FlowRelay
        <3>4. AddsNothing(user[c])
            <4>1. DOMAIN << >> = {}
                OBVIOUS
            <4> QED BY <3>3, <4>1 DEF AddsNothing
        <3> QED BY <3>1, <3>2, <3>3, <3>4
    <2> QED BY <2>1, <2>2
<1>3. CoreAfter(c)
    BY <1>1, <1>2, CoreStep DEF ClientInv, FlowRelay
<1>4. c \in pending => todo[c] # << >> /\ Prepared(c)'
    BY <1>1, <1>2 DEF ClientInv, PendingInv, Prepared, Pos
<1>5. ScriptInv(c)' /\ CoreInv(c)' /\ GoingInv(c)' /\ PendingInv(c)'
    BY <1>1, <1>3, <1>4, EndedClient DEF ClientInv
<1>6. RefusedInv(c)'
    BY <1>1 DEF RefusedInv
<1> QED BY <1>5, <1>6 DEF ClientInv

-----------------------------------------------------------------------------
(***************************************************************************)
(* All clients.                                                            *)
(***************************************************************************)

\* A call of the media loops is a request.
LEMMA MediaIsRequest ==
    ASSUME FlowRelay, FlowType, NEW c \in Sessions, Acting(c), Current(c).op = "Media",
           MediaCall(c)
    PROVE  Request(c)
<1>1. PICK k \in args[c].kinds : IF args[c].mode = "broadcast" THEN BroadcastRound(c, k)
                                 ELSE ViewRound(c, k)
    BY DEF MediaCall, Loops
<1>2. /\ k \in Media /\ args[c].mode \in {"broadcast", "view"}
      /\ args[c].mode = "view" => watch[c][k] \in StreamIds
    BY AtMedia
<1>3. args[c].stream[k] \in StreamIds /\ PollSize \in PollSizes
    BY <1>2, CommandLineInputs, FlowAssumption
<1>4. \A p \in published : p.room \in rooms
    BY PublishedPlace DEF FlowRelay
<1>5. CASE args[c].mode = "broadcast"
    <2>1. PollRemoteInput(c, room[c], args[c].stream[k], PollSize) => room[c] \in rooms
        BY <1>4 DEF PollRemoteInput
    <2> QED BY <1>1, <1>3, <1>5, <2>1 DEF BroadcastRound, Request, StreamRequest
<1>6. CASE args[c].mode = "view"
    <2>1. RequestKeyframe(c, room[c], watch[c][k]) => room[c] \in rooms
        BY <1>4 DEF RequestKeyframe
    <2> QED BY <1>1, <1>2, <1>6, <2>1 DEF ViewRound, Request, StreamRequest
<1> QED BY <1>2, <1>5, <1>6

\* What a client does at the relay is a step of RelayControl, by its session.
LEMMA ClientIsSession ==
    ASSUME FlowRelay, FlowInv, NEW c \in Sessions,
           \/ Answer(c) \/ Refuse(c) \/ MediaRound(c) \/ MediaRefused(c) \/ MediaEnd(c)
           \/ Lose(c) \/ Late(c) \/ Close(c)
    PROVE  Request(c) \/ Forward(c) \/ Disconnect(c) \/ UNCHANGED vars
<1>0. FlowType /\ ClientInv(c)
    BY DEF FlowInv
<1>1. CASE Answer(c)
    <2>1. PICK op, k : Current(c).op = op /\ Current(c).kind = k /\ Call(c, op, k)
        BY <1>1 DEF Answer
    <2>2. Acting(c)
        BY <1>0, <1>1, ActingClient DEF Answer, AtCall, Running
    <2> QED BY <1>0, <2>1, <2>2, CallIsRequest
<1>2. CASE Refuse(c) \/ MediaRefused(c) \/ MediaEnd(c) \/ Lose(c) \/ Close(c)
    BY <1>2 DEF Refuse, MediaRefused, MediaEnd, Lose, Close
<1>3. CASE MediaRound(c)
    <2>1. Acting(c) /\ Current(c).op = "Media"
        BY <1>0, <1>3, ActingClient DEF MediaRound, InMedia, Running
    <2>2. MediaCall(c) => Request(c)
        BY <1>0, <2>1, MediaIsRequest
    <2>3. SendsFrame(c) => Forward(c)
        <3>1. \A k \in args[c].kinds : args[c].stream[k] \in StreamIds
            BY <1>0, <2>1, AtMedia, CommandLineInputs
        <3> QED BY <3>1 DEF SendsFrame, Loops, Forward
    <2> QED BY <1>3, <2>2, <2>3 DEF MediaRound
<1>4. CASE Late(c)
    <2>1. Acting(c)
        BY <1>0, <1>4, ActingClient DEF Late
    <2>2. CASE Current(c).op = "Media"
        BY <1>0, <1>4, <2>1, <2>2, MediaIsRequest DEF Late
    <2>3. CASE Current(c).op # "Media"
        BY <1>0, <1>4, <2>1, <2>3, CallIsRequest DEF Late
    <2> QED BY <2>2, <2>3
<1> QED BY <1>1, <1>2, <1>3, <1>4

\* The steps of a client change its own entries, and leave the types alone.
LEMMA ClientFrame ==
    ASSUME FlowType, NEW c \in Sessions,
           \/ Answer(c) \/ Refuse(c) \/ MediaRound(c) \/ MediaRefused(c) \/ MediaEnd(c)
           \/ Lose(c) \/ Late(c) \/ Close(c)
    PROVE  /\ FlowType' /\ args' = args
           /\ \A d \in Sessions : d # c =>
                 /\ todo'[d] = todo[d] /\ status'[d] = status[d] /\ room'[d] = room[d]
                 /\ watch'[d] = watch[d] /\ origin'[d] = origin[d]
                 /\ d \in pending' => d \in pending
<1> DEFINE Moves == /\ args' = args /\ DOMAIN todo' = Sessions /\ status' \in [Sessions -> Statuses]
                    /\ \A d \in Sessions : d # c => todo'[d] = todo[d] /\ status'[d] = status[d]
                    /\ pending' \subseteq pending \cup {c}
           Looks == /\ DOMAIN room' = Sessions /\ DOMAIN origin' = Sessions
                    /\ watch' \in [Sessions -> [Media -> StreamIds \cup {NoStream}]]
                    /\ \A d \in Sessions : DOMAIN origin'[d] = Media
                    /\ \A d \in Sessions : d # c => /\ room'[d] = room[d] /\ watch'[d] = watch[d]
                                                   /\ origin'[d] = origin[d]
<1>1. ASSUME Moves, Looks
      PROVE  /\ FlowType' /\ args' = args
             /\ \A d \in Sessions : d # c =>
                   /\ todo'[d] = todo[d] /\ status'[d] = status[d] /\ room'[d] = room[d]
                   /\ watch'[d] = watch[d] /\ origin'[d] = origin[d]
                   /\ d \in pending' => d \in pending
    BY <1>1 DEF FlowType
<1>2. ASSUME UNCHANGED <<room, watch, origin>> PROVE Looks
    BY <1>2 DEF FlowType
<1>3. ASSUME UNCHANGED <<args, todo, status, pending>> PROVE Moves
    BY <1>3 DEF FlowType
<1>4. ASSUME NEW how \in Statuses, Ends(c, how) PROVE Moves
    BY <1>4 DEF Ends, FlowType
<1>5. ASSUME Advances(c) PROVE Moves
    BY <1>5 DEF Advances, FlowType, Statuses
<1>6. ASSUME NEW op, NEW k, Call(c, op, k) PROVE Looks
    <2>1. CASE CreateRoomCall(c) \/ ListRoomsCall(c)
        BY <2>1 DEF CreateRoomCall, ListRoomsCall, FlowType
    <2>2. CASE ListStreamsCall(c)
        BY <2>2 DEF ListStreamsCall, FlowType
    <2>3. CASE SubscribeCall(c, k)
        BY <2>3 DEF SubscribeCall, FlowType
    <2>4. CASE PlainCall(c, op, k)
        BY <1>2, <2>4 DEF PlainCall
    <2> QED BY <1>6, <2>1, <2>2, <2>3, <2>4 DEF Call
<1>7. CASE Close(c)
    <2>1. Moves
        BY <1>7 DEF Close, FlowType, Statuses
    <2>2. Looks
        BY <1>7 DEF Close, FlowType
    <2> QED BY <1>1, <2>1, <2>2
<1>12. Lose(c) \/ Late(c) => Moves
    BY DEF Lose, Late, FlowType, Statuses
<1> HIDE DEF Moves, Looks
<1>8. "echo" \in Statuses /\ "refused" \in Statuses
    BY DEF Statuses
<1>9. CASE Answer(c)
    <2>1. PICK op, k : /\ Call(c, op, k)
                       /\ Ends(c, "echo") \/ Advances(c)
        BY <1>9 DEF Answer
    <2> QED BY <1>1, <1>4, <1>5, <1>6, <1>8, <2>1
<1>10. CASE Refuse(c) \/ MediaRefused(c) \/ MediaEnd(c)
    <2>1. /\ UNCHANGED <<room, watch, origin>>
          /\ Ends(c, "refused") \/ Advances(c)
        BY <1>10 DEF Refuse, MediaRefused, MediaEnd
    <2> QED BY <1>1, <1>2, <1>4, <1>5, <1>8, <2>1
<1>11. CASE MediaRound(c)
    BY <1>1, <1>2, <1>3, <1>11 DEF MediaRound, flow
<1>13. CASE Lose(c) \/ Late(c)
    <2>1. \/ UNCHANGED <<room, watch, origin>>
          \/ \E op, k : Call(c, op, k)
        BY <1>13 DEF Lose, Late
    <2> QED BY <1>1, <1>2, <1>6, <1>12, <1>13, <2>1
<1> QED BY <1>7, <1>9, <1>10, <1>11, <1>13

\* One step of the relay and its clients.
LEMMA FlowStep ==
    ASSUME FlowRelay, FlowInv, [FlowNext]_flowVars
    PROVE  FlowRelay' /\ FlowInv' /\ [Next]_vars
<1>1. CASE UNCHANGED flowVars
    <2>1. UNCHANGED vars /\ UNCHANGED <<todo, status, room, watch, origin, args, pending>>
        BY <1>1 DEF flowVars, flow
    <2>2. FlowRelay'
        BY <2>1, TypeNext, ConsistentNext, IdentityNext, AccessNext DEF FlowRelay
    <2>3. FlowType' /\ TypeOK'
        BY <2>1, <2>2 DEF FlowInv, FlowType, FlowRelay
    <2>4. ASSUME NEW c \in Sessions PROVE ClientInv(c)'
        <3>1. Steady(c)
            BY <2>1, <2>3, NothingHappens DEF FlowInv, ClientInv
        <3> QED BY <2>1, <2>3, <3>1, SteadyClient DEF FlowInv, FlowRelay
    <2> QED BY <2>1, <2>2, <2>3, <2>4 DEF FlowInv
<1>2. ASSUME NEW c \in Sessions,
             \/ Answer(c) \/ Refuse(c) \/ MediaRound(c) \/ MediaRefused(c) \/ MediaEnd(c)
             \/ Lose(c) \/ Late(c) \/ Close(c)
      PROVE  FlowRelay' /\ FlowInv' /\ [Next]_vars
    <2>1. Request(c) \/ Forward(c) \/ Disconnect(c) \/ UNCHANGED vars
        BY <1>2, ClientIsSession
    <2>2. [Next]_vars
        BY <2>1 DEF Next
    <2>3. FlowRelay'
        BY <2>2, TypeNext, ConsistentNext, IdentityNext, AccessNext DEF FlowRelay
    <2>4. FlowType /\ ClientInv(c) /\ TypeOK /\ Consistent /\ IdentityUnique /\ TypeOK'
        BY <2>3 DEF FlowInv, FlowRelay
    <2>5. /\ FlowType' /\ args' = args
          /\ \A d \in Sessions : d # c =>
                /\ todo'[d] = todo[d] /\ status'[d] = status[d] /\ room'[d] = room[d]
                /\ watch'[d] = watch[d] /\ origin'[d] = origin[d]
                /\ d \in pending' => d \in pending
        BY <1>2, <2>4, ClientFrame
    <2>6. ClientInv(c)'
        BY <1>2, <2>4, AnswerStep, RefuseStep, MediaRoundStep, MediaRefusedStep, MediaEndStep,
           LoseStep, LateStep, CloseStep
    <2>7. ASSUME NEW d \in Sessions, d # c PROVE ClientInv(d)'
        <3>1. Steady(d)
            BY <2>1, <2>4, <2>7, OthersAreSpared
        <3>2. ClientInv(d)
            BY DEF FlowInv
        <3> QED BY <2>4, <2>5, <2>7, <3>1, <3>2, SteadyClient
    <2> QED BY <2>2, <2>3, <2>5, <2>6, <2>7 DEF FlowInv
<1> QED BY <1>1, <1>2 DEF FlowNext

\* The clients start with their whole scripts and a relay that knows nobody.
LEMMA FlowStart == FlowInit => FlowRelay /\ FlowInv
<1> SUFFICES ASSUME FlowInit PROVE FlowRelay /\ FlowInv
    OBVIOUS
<1>1. Init
    BY DEF FlowInit
<1>2. FlowRelay
    BY <1>1, TypeInit, ConsistentInit, AccessInit DEF FlowRelay, Init, IdentityUnique, NoUser
<1>3. FlowType
    BY DEF FlowInit, FlowType, Statuses
<1>4. ASSUME NEW c \in Sessions PROVE ClientInv(c)
    <2>1. args[c] \in CommandLine /\ todo[c] = Script(args[c]) /\ status[c] = "running"
          /\ (\A k \in Media : watch[c][k] = NoStream) /\ c \notin pending
        BY <1>3, ArgsType DEF FlowInit
    <2>2. /\ Part(args[c], todo[c], 1, 17) /\ todo[c] # << >>
          /\ \A x \in Required(args[c]) : Has(todo[c], x)
        BY <2>1, ScriptPart
    <2>3. ScriptInv(c)
        BY <2>1, <2>2 DEF ScriptInv, Part
    <2>4. /\ participants = {} /\ subscriptions = {} /\ viewerStats = {} /\ published = {}
          /\ \A s \in StreamIds : remoteInput[s] = << >>
        BY <1>1 DEF Init
    <2>5. CoreInv(c)
        BY <2>1, <2>4 DEF CoreInv, Idle, NotSwitched, InputInPlace, Media
    <2>6. \A x \in Required(args[c]) : Pos(c) <= Rank(x)
        <3> TAKE x \in Required(args[c])
        <3> DEFINE q == todo[c]
        <3>1. q \in Seq(Calls) /\ InOrder(q) /\ Pos(c) = Rank(q[1])
            BY <2>2, <2>3 DEF ScriptInv, Pos
        <3>2. PICK i \in DOMAIN q : q[i] = x
            BY <2>2 DEF Has
        <3>3. i \in Nat /\ 1 <= i /\ 1 \in DOMAIN q /\ q[1] \in Calls /\ q[i] \in Calls
            BY <3>1, <3>2
        <3>4. Rank(q[1]) \in Nat /\ Rank(q[i]) \in Nat
            BY <3>3, RankType
        <3> HIDE DEF q
        <3>5. Rank(q[1]) <= Rank(q[i])
            <4>1. CASE i = 1
                BY <3>4, <4>1
            <4>2. CASE 1 < i
                BY <3>1, <3>3, <3>4, <4>2 DEF InOrder
            <4> QED BY <3>3, <4>1, <4>2
        <3> QED BY <3>1, <3>2, <3>5
    <2>7. Pos(c) \in 1..17
        BY <2>2, <2>3, AtHead
    <2>8. Pos(c) <= 4
          /\ (args[c].mode = "broadcast" /\ args[c].room = NoRoom => Pos(c) <= 3)
        BY <1>3, <2>6, RequiredOnes, RanksInScripts
    <2>9. PlaceInv(c)
        BY <2>1, <2>4, <2>7, <2>8 DEF PlaceInv
    <2>10. OwnInv(c)
        <3>1. args[c].kinds \subseteq Media
            BY <2>1 DEF CommandLine
        <3> QED BY <2>7, <2>8, <3>1, KindRanks DEF OwnInv
    <2>11. WatchInv(c) /\ ReportInv(c)
        BY <2>4, <2>7, <2>8 DEF WatchInv, ReportInv
    <2> QED BY <2>1, <2>3, <2>5, <2>9, <2>10, <2>11 DEF ClientInv, GoingInv, RefusedInv, PendingInv
<1> QED BY <1>2, <1>3, <1>4 DEF FlowInv

\* What the clients do at the relay is what its sessions may do: all that is proved
\* of RelayControl holds while they run.
THEOREM FlowsUseControl == FlowSpec => Spec
<1>1. FlowInit => Init /\ FlowRelay /\ FlowInv
    BY FlowStart DEF FlowInit
<1>2. FlowRelay /\ FlowInv /\ [FlowNext]_flowVars => (FlowRelay /\ FlowInv)' /\ [Next]_vars
    BY FlowStep
<1> QED BY <1>1, <1>2, PTL DEF FlowSpec, Spec

\* The invariant holds of every behaviour.
LEMMA FlowInvariant == FlowSpec => [](FlowRelay /\ FlowInv)
<1>1. FlowRelay /\ FlowInv /\ [FlowNext]_flowVars => (FlowRelay /\ FlowInv)'
    BY FlowStep
<1> QED BY <1>1, FlowStart, PTL DEF FlowSpec

\* A client that got through its script has undone all it did at the relay,
\* whatever the others did meanwhile; input it sent waits only for the publisher it
\* subscribed to.
THEOREM ClientsEndClean == FlowSpec => []EndsClean
<1>1. FlowRelay /\ FlowInv => EndsClean
    <2> SUFFICES ASSUME FlowRelay, FlowInv, NEW c \in Sessions, status[c] = "done"
                 PROVE  NoTraceOf(user[c]) /\ InputIsWhereMeant(c)
        BY DEF EndsClean
    <2>1. ClientInv(c) /\ FlowType /\ TypeOK /\ Consistent
        BY DEF FlowInv, FlowRelay
    <2>2. \A m \in participants : m.user # user[c]
        BY <2>1 DEF ClientInv, GoingInv, PlaceInv
    <2>3. \A r : ~IsParticipant(r, user[c])
        BY <2>2 DEF IsParticipant
    <2>4. \A m \in subscriptions : m.user # user[c]
        BY <2>1, <2>3 DEF Consistent, SubscriptionsAreLive
    <2>5. \A p \in published : p.publisher # user[c]
        BY <2>1, <2>3 DEF Consistent, PublishersArePresent
    <2>6. \A v \in voice : v.user # user[c]
        <3> SUFFICES ASSUME NEW v \in voice, v.user = user[c] PROVE FALSE
            OBVIOUS
        <3>1. <<v.room, v.user>> \in {<<m.room, m.user>> : m \in participants}
            BY <2>1 DEF Consistent, VoiceTracksParticipants
        <3> QED BY <2>2, <3>1
    <2>7. \A v \in viewerStats : v.user # user[c]
        <3> SUFFICES ASSUME NEW v \in viewerStats, v.user = user[c] PROVE FALSE
            OBVIOUS
        <3>1. PICK k \in args[c].kinds : Pos(c) <= Rank(For("UnsubscribeStream", k))
            BY <2>1 DEF ClientInv, GoingInv, ReportInv
        <3>2. k \in Media
            BY <2>1, ArgsType DEF CommandLine
        <3>3. Pos(c) = 18
            BY <2>1 DEF ClientInv, ScriptInv, Pos
        <3> QED BY <3>1, <3>2, <3>3, KindRanks
    <2>8. ASSUME NEW s \in StreamIds, NEW i \in DOMAIN remoteInput[s], remoteInput[s][i] = user[c]
          PROVE  \E p \in published, k \in Media :
                    p.stream = s /\ watch[c][k] = s /\ p.publisher = origin[c][k]
        <3>1. PICK k \in Media : watch[c][k] = s
            BY <2>1, <2>8 DEF ClientInv, CoreInv, InputInPlace
        <3>2. PICK p \in published : p.stream = s
            BY <2>1, <2>8, WatchedIsPublished DEF IsPublished
        <3>3. p.publisher = origin[c][k]
            BY <2>1, <2>8, <3>1, <3>2 DEF ClientInv, CoreInv, NotSwitched
        <3> QED BY <3>1, <3>2, <3>3
    <2> QED BY <2>2, <2>4, <2>5, <2>6, <2>7, <2>8 DEF NoTraceOf, InputIsWhereMeant
<1> QED BY <1>1, FlowInvariant, PTL

\* A viewer is never switched to another publisher, though stream ids are reused.
THEOREM ViewersAreNeverSwitched == FlowSpec => []NeverSwitched
<1>1. FlowInv => NeverSwitched
    BY DEF FlowInv, ClientInv, CoreInv, NotSwitched, NeverSwitched
<1> QED BY <1>1, FlowInvariant, PTL

\* Once its stream is accepted no call of a broadcaster is refused.
THEOREM PublishersAreNeverRefused == FlowSpec => []PublisherIsNeverRefused
<1>1. FlowInv => PublisherIsNeverRefused
    BY DEF FlowInv, ClientInv, RefusedInv, PublisherIsNeverRefused
<1> QED BY <1>1, FlowInvariant, PTL

=============================================================================
