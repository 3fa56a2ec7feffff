---------------------------- MODULE RelayControl ----------------------------
(***************************************************************************)
(* The relay's control state (relay-server/src/control.rs, room.rs,        *)
(* session.rs): sessions, rooms, published streams, subscriptions, voice   *)
(* states, viewer reports, keyframe requests and remote input.             *)
(*                                                                         *)
(* ControlState is behind one mutex, so every handler is one atomic step.  *)
(* A request that is answered with an error changes nothing and is not a   *)
(* step; neither are the pure queries (Ping, TimeSync, the lists and the   *)
(* polls of config and metrics).  DisconnectUser may come between any two  *)
(* requests of a session, also before the last one: the tasks serving a    *)
(* connection are not awaited when it closes (see RelayRuntime).           *)
(*                                                                         *)
(* The maps of the code are relations here, sets of records.  A map entry  *)
(* that holds an empty map, set or queue is the absence of records.        *)
(***************************************************************************)
EXTENDS MediaTargets, FiniteSets, Sequences

CONSTANTS
    Sessions,        \* connections, one Session each
    StreamIds,       \* the stream ids clients choose
    Codecs,          \* codec ids clients choose
    Kinds,           \* media kinds clients choose
    TokenRequired,   \* is the relay started with an access token?
    MaxRooms, MaxParticipants, MaxStreams,   \* ControlLimits
    MaxInputQueue,   \* MAX_REMOTE_INPUT_QUEUE_EVENTS
    MaxInputBatch,   \* MAX_REMOTE_INPUT_BATCH_EVENTS
    MaxRoomId,       \* bound on the rooms ever created
    VoiceInputs,     \* the flags of SetVoiceState requests
    Reports,         \* what viewers report: "healthy", "degraded"
    BitrateInputs, FpsInputs,   \* values of SetTargetBitrate / SetTargetFramerate
    ConfigInputs,    \* [fps, width, height] of SetStreamConfig
    PollSizes        \* max_events of PollRemoteInput

VoiceFlags ==
    [muted : BOOLEAN, deafened : BOOLEAN, ptt : BOOLEAN, speaking : BOOLEAN]

ASSUME LimitAssumption ==
    /\ MaxRooms \in Nat \ {0}
    /\ MaxParticipants \in Nat \ {0}
    /\ MaxStreams \in Nat \ {0}
    /\ MaxInputQueue \in Nat \ {0}
    /\ MaxInputBatch \in Nat \ {0}
    /\ MaxRoomId \in Nat
    /\ TokenRequired \in BOOLEAN

ASSUME InputAssumption ==
    /\ IsFiniteSet(Sessions)
    /\ Kinds \subseteq {"Screen", "Voice", "Probe"}
    /\ VoiceInputs \subseteq VoiceFlags
    /\ Reports \subseteq {"healthy", "degraded"}
    /\ BitrateInputs \subseteq Nat
    /\ FpsInputs \subseteq Nat
    /\ ConfigInputs \subseteq [fps : Nat, width : Nat, height : Nat]
    /\ PollSizes \subseteq Nat

VARIABLES
    user,           \* Session.user_id of each session, NoUser before Hello
    access,         \* Session.access_granted
    nextUserId, nextRoomId,
    names,          \* the users with an entry in display_names
    rooms,          \* the ids of the rooms that exist
    participants,   \* [room, user]
    published,      \* every Room.published_streams
    subscriptions,  \* [room, stream, user]
    voice,          \* [room, user, flags]: voice_states
    viewerStats,    \* [stream, user, report]
    keyframes,      \* the streams with a pending keyframe request
    remoteInput,    \* per stream, the senders of the queued input events
    metered         \* the streams with an entry in stream_metrics

sessionVars == <<user, access, nextUserId, names>>
roomVars    == <<nextRoomId, rooms, participants, voice>>
streamVars  == <<published, subscriptions>>
perStream   == <<viewerStats, keyframes, remoteInput, metered>>
vars == <<sessionVars, roomVars, streamVars, perStream>>

NoUser   == 0
NoConfig == [fps |-> 0, width |-> 0, height |-> 0]
DefaultVoice ==
    [muted |-> FALSE, deafened |-> FALSE, ptt |-> FALSE, speaking |-> TRUE]

-----------------------------------------------------------------------------
(***************************************************************************)
(* Lookups.                                                                *)
(***************************************************************************)
IsParticipant(r, u) == [room |-> r, user |-> u] \in participants

IsSubscriber(r, s, u) == [room |-> r, stream |-> s, user |-> u] \in subscriptions

IsPublished(s) == \E p \in published : p.stream = s

StreamsIn(r) == {p \in published : p.room = r}

\* The viewers of a stream, in whichever room it is published.
SubscribersOf(s) ==
    {m.user : m \in {x \in subscriptions :
                       x.stream = s /\ \E p \in published : p.room = x.room /\ p.stream = s}}

\* Mutant of Authorized: a Hello is enough, the token is not asked for.
AuthorizedByHello(c) == user[c] # NoUser

\* Every request but Hello, Ping, TimeSync and Authenticate needs this.
Authorized(c) == user[c] # NoUser /\ (TokenRequired => access[c])

-----------------------------------------------------------------------------
Init ==
    /\ user = [c \in Sessions |-> NoUser]
    /\ access = [c \in Sessions |-> FALSE]
    /\ nextUserId = 1
    /\ nextRoomId = 1
    /\ names = {}
    /\ rooms = {}
    /\ participants = {}
    /\ published = {}
    /\ subscriptions = {}
    /\ voice = {}
    /\ viewerStats = {}
    /\ keyframes = {}
    /\ remoteInput = [s \in StreamIds |-> << >>]
    /\ metered = {}

-----------------------------------------------------------------------------
(***************************************************************************)
(* Identity and access.                                                    *)
(***************************************************************************)

\* Mutant of Hello: ids are counted from the users there are, not from those
\* there have been.
HelloReusingIds(c) ==
    LET u == IF user[c] = NoUser THEN Cardinality(names) + 1 ELSE user[c]
    IN  /\ user' = [user EXCEPT ![c] = u]
        /\ access' = [access EXCEPT
                         ![c] = IF user[c] = NoUser THEN ~TokenRequired ELSE @]
        /\ nextUserId' = Cardinality(names) + 2
        /\ names' = names \cup {u}
        /\ UNCHANGED <<roomVars, streamVars, perStream>>

\* The first Hello of a session gives it a user id, a later one only renames
\* the user; both (re)enter the name.
Hello(c) ==
    LET u == IF user[c] = NoUser THEN nextUserId ELSE user[c]
    IN  /\ user' = [user EXCEPT ![c] = u]
        /\ access' = [access EXCEPT
                         ![c] = IF user[c] = NoUser THEN ~TokenRequired ELSE @]
        /\ nextUserId' = IF user[c] = NoUser THEN nextUserId + 1 ELSE nextUserId
        /\ names' = names \cup {u}
        /\ UNCHANGED <<roomVars, streamVars, perStream>>

\* An Authenticate with the right token (or any token where none is needed).
Authenticate(c) ==
    /\ user[c] # NoUser
    /\ access' = [access EXCEPT ![c] = TRUE]
    /\ UNCHANGED <<user, nextUserId, names, roomVars, streamVars, perStream>>

-----------------------------------------------------------------------------
(***************************************************************************)
(* Rooms.                                                                  *)
(***************************************************************************)

\* A participant has a voice state from the moment it is in the room.
EnsureVoiceState(r, u) ==
    voice' = IF \E v \in voice : v.room = r /\ v.user = u
             THEN voice
             ELSE voice \cup {[room |-> r, user |-> u, flags |-> DefaultVoice]}

\* Mutant of CreateRoom: the number of a room that is gone is used again.
CreateRoomAgain(c) ==
    LET r == IF 1 \in rooms THEN nextRoomId ELSE 1
    IN  /\ Authorized(c)
        /\ Cardinality(rooms) < MaxRooms
        /\ nextRoomId <= MaxRoomId
        /\ nextRoomId' = nextRoomId + 1
        /\ rooms' = rooms \cup {r}
        /\ participants' = participants \cup {[room |-> r, user |-> user[c]]}
        /\ EnsureVoiceState(r, user[c])
        /\ UNCHANGED <<sessionVars, streamVars, perStream>>

CreateRoom(c) ==
    /\ Authorized(c)
    /\ Cardinality(rooms) < MaxRooms
    /\ nextRoomId <= MaxRoomId
    /\ nextRoomId' = nextRoomId + 1
    /\ rooms' = rooms \cup {nextRoomId}
    /\ participants' = participants \cup {[room |-> nextRoomId, user |-> user[c]]}
    /\ EnsureVoiceState(nextRoomId, user[c])
    /\ UNCHANGED <<sessionVars, streamVars, perStream>>

JoinRoom(c, r) ==
    /\ Authorized(c)
    /\ r \in rooms
    /\ \/ IsParticipant(r, user[c])
       \/ Cardinality({m \in participants : m.room = r}) < MaxParticipants
    /\ participants' = participants \cup {[room |-> r, user |-> user[c]]}
    /\ EnsureVoiceState(r, user[c])
    /\ UNCHANGED <<sessionVars, nextRoomId, rooms, streamVars, perStream>>

\* Mutant of RemoveStreamState: only the reports the caller names go.
RemoveStreamStateKeepingReports(ids, stale) ==
    /\ viewerStats' = viewerStats \ stale
    /\ keyframes' = keyframes \ ids
    /\ remoteInput' = [s \in StreamIds |-> IF s \in ids THEN << >> ELSE remoteInput[s]]
    /\ metered' = metered \ ids

\* remove_stream_state for every stream of ids, after the reports in stale
\* have been removed.
RemoveStreamState(ids, stale) ==
    /\ viewerStats' = {v \in viewerStats \ stale : v.stream \notin ids}
    /\ keyframes' = keyframes \ ids
    /\ remoteInput' = [s \in StreamIds |-> IF s \in ids THEN << >> ELSE remoteInput[s]]
    /\ metered' = metered \ ids

\* remove_room_if_empty for every room of R, given the new participants and
\* streams and the voice states that are left by then.
RemoveEmptyRooms(R, remaining) ==
    LET empty == {r \in R : /\ \A m \in participants' : m.room # r
                            /\ \A p \in published' : p.room # r}
    IN  /\ rooms' = rooms \ empty
        /\ voice' = {v \in remaining : v.room \notin empty}

(***************************************************************************)
(* The user leaves the rooms in R: its subscriptions there go with its     *)
(* reports on them, its own streams with all their state, its voice state, *)
(* and the rooms it leaves empty.  alsoStale are further reports the       *)
(* caller removes.                                                         *)
(***************************************************************************)
LeaveRooms(u, R, alsoStale) ==
    LET own    == {p \in published : p.room \in R /\ p.publisher = u}
        ownIds == {p.stream : p \in own}
        mine   == {m \in subscriptions : m.room \in R /\ m.user = u}
        orphan == {m \in subscriptions :
                      \E p \in own : p.room = m.room /\ p.stream = m.stream}
        stale  == {v \in viewerStats :
                      v.user = u /\ \E m \in mine : m.stream = v.stream}
    IN  /\ participants' = {m \in participants : ~(m.room \in R /\ m.user = u)}
        /\ published' = published \ own
        /\ subscriptions' = subscriptions \ (mine \cup orphan)
        /\ RemoveStreamState(ownIds, stale \cup alsoStale)
        /\ RemoveEmptyRooms(R, {v \in voice : ~(v.room \in R /\ v.user = u)})
        /\ UNCHANGED nextRoomId

\* Mutant of LeaveRoom: a publisher that leaves keeps its streams in the room.
LeaveRoomKeepingStreams(c, r) ==
    /\ Authorized(c)
    /\ r \in rooms
    /\ participants' = participants \ {[room |-> r, user |-> user[c]]}
    /\ RemoveStreamState({}, {})
    /\ UNCHANGED <<streamVars, nextRoomId, sessionVars>>
    /\ RemoveEmptyRooms({r}, {v \in voice : ~(v.room = r /\ v.user = user[c])})

LeaveRoom(c, r) ==
    /\ Authorized(c)
    /\ r \in rooms
    /\ LeaveRooms(user[c], {r}, {})
    /\ UNCHANGED sessionVars

\* Mutant of DisconnectUser: only the reports on subscribed streams go.
DisconnectKeepingReports(u) ==
    /\ LeaveRooms(u, {r \in rooms : IsParticipant(r, u)}, {})
    /\ names' = names \ {u}
    /\ UNCHANGED <<user, access, nextUserId>>

\* disconnect_user: leave every room the user is in or publishes in, then
\* forget its remaining reports and its name.
DisconnectUser(u) ==
    LET affected == {r \in rooms : \/ IsParticipant(r, u)
                                   \/ \E p \in published : p.room = r /\ p.publisher = u}
    IN  /\ LeaveRooms(u, affected, {v \in viewerStats : v.user = u})
        /\ names' = names \ {u}
        /\ UNCHANGED <<user, access, nextUserId>>

Disconnect(c) ==
    /\ user[c] # NoUser
    /\ DisconnectUser(user[c])

\* A muted participant is stored as not speaking, whatever it asked for.
SetVoiceState(c, r, in) ==
    /\ Authorized(c)
    /\ r \in rooms
    /\ IsParticipant(r, user[c])
    /\ voice' = {v \in voice : ~(v.room = r /\ v.user = user[c])} \cup
                {[room |-> r, user |-> user[c],
                  flags |-> [in EXCEPT !.speaking = @ /\ ~in.muted]]}
    /\ UNCHANGED <<sessionVars, nextRoomId, rooms, participants, streamVars, perStream>>

-----------------------------------------------------------------------------
(***************************************************************************)
(* Streams.                                                                *)
(***************************************************************************)
PublishStream(c, r, s, codec, kind) ==
    /\ Authorized(c)
    /\ ~IsPublished(s)
    /\ r \in rooms
    /\ IsParticipant(r, user[c])
    /\ Cardinality(StreamsIn(r)) < MaxStreams
    /\ published' = published \cup
           {[room |-> r, stream |-> s, publisher |-> user[c], codec |-> codec,
             kind |-> kind, target |-> DefaultTarget, config |-> NoConfig]}
    /\ UNCHANGED <<sessionVars, roomVars, subscriptions, perStream>>

\* Mutant of UnpublishStream: the subscriptions stay.
UnpublishKeepingViewers(c, r, s) ==
    /\ Authorized(c)
    /\ \E p \in published :
          /\ p.room = r /\ p.stream = s /\ p.publisher = user[c]
          /\ published' = published \ {p}
    /\ UNCHANGED <<subscriptions, participants>>
    /\ RemoveStreamState({s}, {})
    /\ RemoveEmptyRooms({r}, voice)
    /\ UNCHANGED <<sessionVars, nextRoomId>>

UnpublishStream(c, r, s) ==
    /\ Authorized(c)
    /\ \E p \in published :
          /\ p.room = r /\ p.stream = s /\ p.publisher = user[c]
          /\ published' = published \ {p}
    /\ subscriptions' = {m \in subscriptions : ~(m.room = r /\ m.stream = s)}
    /\ participants' = participants
    /\ RemoveStreamState({s}, {})
    /\ RemoveEmptyRooms({r}, voice)
    /\ UNCHANGED <<sessionVars, nextRoomId>>

\* The first subscription to a screen stream asks for a keyframe.
SubscribeStream(c, r, s) ==
    /\ Authorized(c)
    /\ IsParticipant(r, user[c])
    /\ \E p \in published :
          /\ p.room = r /\ p.stream = s
          /\ keyframes' = IF ~IsSubscriber(r, s, user[c]) /\ p.kind = "Screen"
                          THEN keyframes \cup {s} ELSE keyframes
    /\ subscriptions' = subscriptions \cup {[room |-> r, stream |-> s, user |-> user[c]]}
    /\ UNCHANGED <<sessionVars, roomVars, published, viewerStats, remoteInput, metered>>

\* The viewer's report goes even where there was no subscription to remove.
UnsubscribeStream(c, r, s) ==
    /\ Authorized(c)
    /\ r \in rooms
    /\ subscriptions' = subscriptions \ {[room |-> r, stream |-> s, user |-> user[c]]}
    /\ viewerStats' = {v \in viewerStats : ~(v.stream = s /\ v.user = user[c])}
    /\ UNCHANGED <<sessionVars, roomVars, published, keyframes, remoteInput, metered>>

\* A keyframe request of the publisher or of a subscribed viewer.
RequestKeyframe(c, r, s) ==
    /\ Authorized(c)
    /\ IsParticipant(r, user[c])
    /\ \E p \in published :
          /\ p.room = r /\ p.stream = s
          /\ p.publisher = user[c] \/ IsSubscriber(r, s, user[c])
    /\ keyframes' = keyframes \cup {s}
    /\ UNCHANGED <<sessionVars, roomVars, streamVars, viewerStats, remoteInput, metered>>

\* A report is stored for whatever stream id it names: the handler checks
\* neither the room, nor the stream, nor the subscription.
ReportViewerStats(c, s, report) ==
    /\ Authorized(c)
    /\ viewerStats' = {v \in viewerStats : ~(v.stream = s /\ v.user = user[c])} \cup
                      {[stream |-> s, user |-> user[c], report |-> report]}
    /\ UNCHANGED <<sessionVars, roomVars, streamVars, keyframes, remoteInput, metered>>

-----------------------------------------------------------------------------
(***************************************************************************)
(* Targets and adaptation.                                                 *)
(***************************************************************************)

\* Mutant of WithTarget: the config is forgotten.
WithTargetOnly(p, t) == [p EXCEPT !.target = t]

\* The stored config always repeats the framerate and the resolution.
WithTarget(p, t) ==
    [p EXCEPT !.target = t,
              !.config = IF @ = NoConfig THEN NoConfig
                         ELSE [fps |-> t.fps, width |-> t.width, height |-> t.height]]

Replace(p, q) == published' = (published \ {p}) \cup {q}

\* The codec of the config has to be the published one; the bitrate target is
\* not part of a config and stays.
SetStreamConfig(c, r, s, codec, in) ==
    /\ Authorized(c)
    /\ \E p \in published :
          /\ p.room = r /\ p.stream = s /\ p.publisher = user[c] /\ p.codec = codec
          /\ LET t == [ClampTarget(p.target.bitrate, in.fps, in.width, in.height)
                           EXCEPT !.bitrate = p.target.bitrate]
             IN  Replace(p, [p EXCEPT !.target = t,
                                      !.config = [fps |-> t.fps, width |-> t.width,
                                                  height |-> t.height]])
    /\ UNCHANGED <<sessionVars, roomVars, subscriptions, perStream>>

SetTargetBitrate(c, r, s, bitrate) ==
    /\ Authorized(c)
    /\ \E p \in published :
          /\ p.room = r /\ p.stream = s /\ p.publisher = user[c]
          /\ Replace(p, WithTarget(p, ClampTarget(bitrate, p.target.fps,
                                                  p.target.width, p.target.height)))
    /\ UNCHANGED <<sessionVars, roomVars, subscriptions, perStream>>

SetTargetFramerate(c, r, s, fps) ==
    /\ Authorized(c)
    /\ \E p \in published :
          /\ p.room = r /\ p.stream = s /\ p.publisher = user[c]
          /\ Replace(p, WithTarget(p, ClampTarget(p.target.bitrate, fps,
                                                  p.target.width, p.target.height)))
    /\ UNCHANGED <<sessionVars, roomVars, subscriptions, perStream>>

\* The users counted as degraded viewers: everyone with such a report.
DegradedViewers(s) ==
    {v.user : v \in {x \in viewerStats : x.stream = s /\ x.report = "degraded"}}

Overloaded(s) ==
    /\ SubscribersOf(s) # {}
    /\ 2 * Cardinality(DegradedViewers(s)) >= Cardinality(SubscribersOf(s))

\* The publisher's poll lowers the targets of an overloaded stream by one rung
\* and consumes the pending keyframe request.
PollPublisherFeedback(c, s) ==
    /\ Authorized(c)
    /\ \E p \in published :
          /\ p.stream = s /\ p.publisher = user[c]
          /\ IF Overloaded(s)
             THEN Replace(p, WithTarget(p, LowerTarget(p.target)))
             ELSE UNCHANGED published
    /\ keyframes' = keyframes \ {s}
    /\ UNCHANGED <<sessionVars, roomVars, subscriptions, viewerStats, remoteInput, metered>>

-----------------------------------------------------------------------------
(***************************************************************************)
(* Remote input and forwarding metrics.                                    *)
(***************************************************************************)

\* Mutant of MakeRoom: one event too few is dropped.
MakeRoomOffByOne(q) == IF Len(q) <= MaxInputQueue THEN q
                       ELSE SubSeq(q, Len(q) - MaxInputQueue + 1, Len(q))

\* The queue without the events that are dropped to make room for one more.
MakeRoom(q) == IF Len(q) < MaxInputQueue THEN q
               ELSE SubSeq(q, Len(q) - MaxInputQueue + 2, Len(q))

SendRemoteInput(c, r, s) ==
    /\ Authorized(c)
    /\ IsParticipant(r, user[c])
    /\ \E p \in published : p.room = r /\ p.stream = s /\ p.kind = "Screen"
    /\ IsSubscriber(r, s, user[c])
    /\ remoteInput' = [remoteInput EXCEPT ![s] = Append(MakeRoom(@), user[c])]
    /\ UNCHANGED <<sessionVars, roomVars, streamVars, viewerStats, keyframes, metered>>

PollRemoteInput(c, r, s, max) ==
    /\ Authorized(c)
    /\ \E p \in published : /\ p.room = r /\ p.stream = s
                            /\ p.publisher = user[c] /\ p.kind = "Screen"
    /\ LET n == Smaller(Larger(max, 1), MaxInputBatch)
       IN  remoteInput' = [remoteInput EXCEPT ![s] = SubSeq(@, n + 1, Len(@))]
    /\ UNCHANGED <<sessionVars, roomVars, streamVars, viewerStats, keyframes, metered>>

\* record_media_forward_summary, after a datagram of any session that has
\* access: the stream has to be published, the sender need not publish it.
RecordForward(c, s) ==
    /\ user[c] # NoUser /\ access[c]
    /\ IsPublished(s)
    /\ metered' = metered \cup {s}
    /\ UNCHANGED <<sessionVars, roomVars, streamVars, viewerStats, keyframes, remoteInput>>

-----------------------------------------------------------------------------
\* The requests of one session.
RoomRequest(c) ==
    \/ CreateRoom(c)
    \/ \E r \in rooms : JoinRoom(c, r) \/ LeaveRoom(c, r)
    \/ \E r \in rooms, in \in VoiceInputs : SetVoiceState(c, r, in)

StreamRequest(c) ==
    \E s \in StreamIds :
       \/ \E r \in rooms :
             \/ \E codec \in Codecs, kind \in Kinds : PublishStream(c, r, s, codec, kind)
             \/ UnpublishStream(c, r, s)
             \/ SubscribeStream(c, r, s)
             \/ UnsubscribeStream(c, r, s)
             \/ RequestKeyframe(c, r, s)
             \/ SendRemoteInput(c, r, s)
             \/ \E n \in PollSizes : PollRemoteInput(c, r, s, n)
             \/ \E codec \in Codecs, in \in ConfigInputs : SetStreamConfig(c, r, s, codec, in)
             \/ \E b \in BitrateInputs : SetTargetBitrate(c, r, s, b)
             \/ \E f \in FpsInputs : SetTargetFramerate(c, r, s, f)
       \/ \E report \in Reports : ReportViewerStats(c, s, report)
       \/ PollPublisherFeedback(c, s)

Request(c) == Hello(c) \/ Authenticate(c) \/ RoomRequest(c) \/ StreamRequest(c)

Forward(c) == \E s \in StreamIds : RecordForward(c, s)

Next == \E c \in Sessions : Request(c) \/ Forward(c) \/ Disconnect(c)

Spec == Init /\ [][Next]_vars

-----------------------------------------------------------------------------
(***************************************************************************)
(* Properties.                                                             *)
(***************************************************************************)
UserIds == Nat \ {NoUser}
RoomIds == Nat \ {0}
Config  == [fps : MinFps..MaxFps, width : {0} \cup MinWidth..MaxWidth,
            height : {0} \cup MinHeight..MaxHeight]
Stream  == [room : RoomIds, stream : StreamIds, publisher : UserIds, codec : Codecs,
            kind : Kinds, target : Target, config : Config \cup {NoConfig}]

\* Every variable has its shape; in particular every stored target and config
\* stays inside the limits of control.rs, whatever clients ask for.
TypeOK ==
    /\ user \in [Sessions -> Nat]
    /\ access \in [Sessions -> BOOLEAN]
    /\ nextUserId \in Nat \ {0}
    /\ nextRoomId \in Nat \ {0}
    /\ names \subseteq UserIds
    /\ rooms \subseteq RoomIds
    /\ participants \subseteq [room : RoomIds, user : UserIds]
    /\ published \subseteq Stream
    /\ subscriptions \subseteq [room : RoomIds, stream : StreamIds, user : UserIds]
    /\ voice \subseteq [room : RoomIds, user : UserIds, flags : VoiceFlags]
    /\ viewerStats \subseteq [stream : StreamIds, user : UserIds, report : Reports]
    /\ keyframes \subseteq StreamIds
    /\ remoteInput \in [StreamIds -> Seq(UserIds)]
    /\ metered \subseteq StreamIds

\* Two sessions never share a user id: a Hello hands out a fresh one once.
IdentityUnique ==
    /\ \A c \in Sessions : user[c] < nextUserId
    /\ \A c, d \in Sessions : user[c] = user[d] /\ user[c] # NoUser => c = d

\* A stream id names one stream in the whole relay: datagrams carry no room id,
\* so publish_stream has to refuse an id that any room publishes.
StreamIdUnique ==
    \A p, q \in published : p.stream = q.stream => p = q

\* A publisher is in the room of its stream: leaving, by request or by
\* disconnect, takes the stream down.
PublishersArePresent ==
    \A p \in published : p.room \in rooms /\ IsParticipant(p.room, p.publisher)

\* A subscription is held by a participant and is for a stream its room
\* publishes: neither the viewer's nor the publisher's departure leaves one.
SubscriptionsAreLive ==
    \A m \in subscriptions :
        /\ IsParticipant(m.room, m.user)
        /\ \E p \in published : p.room = m.room /\ p.stream = m.stream

\* Room discovery shows the rooms somebody is in, and nobody is in a room that
\* is gone: remove_room_if_empty runs in every path that can empty a room.
RoomsInhabited ==
    /\ rooms = {m.room : m \in participants}
    /\ \A r \in rooms : r < nextRoomId

\* The participants of a room, and nobody else, have exactly one voice state.
VoiceTracksParticipants ==
    /\ {<<v.room, v.user>> : v \in voice} = {<<m.room, m.user>> : m \in participants}
    /\ \A v, w \in voice : v.room = w.room /\ v.user = w.user => v = w

\* Keyframe requests, queued input and metrics belong to a stream that is
\* published now (input to a screen): a later stream that takes over the id
\* inherits none of them.
NoStreamResidue ==
    /\ \A s \in keyframes \cup metered : IsPublished(s)
    /\ \A s \in StreamIds : remoteInput[s] # << >> =>
           \E p \in published : p.stream = s /\ p.kind = "Screen"

\* The tables of the control state fit together: the inductive invariant behind
\* the properties above.
Consistent ==
    /\ StreamIdUnique /\ PublishersArePresent /\ SubscriptionsAreLive
    /\ RoomsInhabited /\ VoiceTracksParticipants /\ NoStreamResidue

\* ControlLimits hold at all times, and so does the bound on queued input.
WithinLimits ==
    /\ Cardinality(rooms) <= MaxRooms
    /\ \A r \in rooms : /\ Cardinality({m \in participants : m.room = r}) <= MaxParticipants
                        /\ Cardinality(StreamsIn(r)) <= MaxStreams
    /\ \A s \in StreamIds : Len(remoteInput[s]) <= MaxInputQueue

\* The user of a session that has access.
Granted(u) == \E c \in Sessions : user[c] = u /\ access[c]

\* Everyone who is in a room, publishes, watches, reports or has input queued
\* is the user of a session that was granted access.
OnlyGrantedUsers ==
    /\ \A x \in participants \cup viewerStats \cup subscriptions : Granted(x.user)
    /\ \A p \in published : Granted(p.publisher)
    /\ \A s \in StreamIds : \A i \in DOMAIN remoteInput[s] : Granted(remoteInput[s][i])

\* Where the relay needs no token, access comes with the user id.
OpenAccess == ~TokenRequired => \A c \in Sessions : user[c] # NoUser => access[c]

\* What PollStreamConfig shows viewers is what the relay adapts: a config, once
\* sent, carries the framerate and resolution of the current target.
ConfigMirrorsTarget ==
    \A p \in published : p.config # NoConfig =>
        p.config = [fps |-> p.target.fps, width |-> p.target.width,
                    height |-> p.target.height]

-----------------------------------------------------------------------------
\* The publisher of stream p polled, which changed its target: it is now q.
Retargeted(p, q) ==
    /\ p.room = q.room /\ p.stream = q.stream
    /\ p.target # q.target
    /\ \E c \in Sessions : PollPublisherFeedback(c, p.stream)

\* A poll never raises a target, touches the framerate only once the bitrate is
\* at its floor, and the resolution only once both are; a change of resolution
\* keeps both dimensions known and no larger.
LadderInOrder ==
    [][\A p \in published, q \in published' : Retargeted(p, q) =>
          /\ q.target.bitrate <= p.target.bitrate
          /\ q.target.fps <= p.target.fps
          /\ q.target.fps # p.target.fps => p.target.bitrate = MinBitrate
          /\ <<q.target.width, q.target.height>> # <<p.target.width, p.target.height>> =>
                /\ p.target.bitrate = MinBitrate /\ p.target.fps = MinFps
                /\ q.target.width \in MinWidth..p.target.width
                /\ q.target.height \in MinHeight..p.target.height]_vars

\* Some stream gets a target that is higher in some field.
TargetRises ==
    \E p \in published, q \in published' :
       /\ p.room = q.room /\ p.stream = q.stream
       /\ \/ q.target.bitrate > p.target.bitrate \/ q.target.fps > p.target.fps
          \/ q.target.width > p.target.width \/ q.target.height > p.target.height

\* A stream ends whole, be it unpublished or its publisher gone: the step that ends it
\* takes along every report on its id, also those of users who never watched it, with
\* the subscriptions, the keyframe request, the queued input and the metrics.  So a
\* stream that takes over the id is not lowered for what its predecessor's viewers saw.
StreamsEndWhole ==
    [][\A s \in StreamIds : IsPublished(s) /\ ~IsPublished(s)' =>
          /\ \A v \in viewerStats' \cup subscriptions' : v.stream # s
          /\ s \notin keyframes' \cup metered' /\ remoteInput'[s] = << >>]_vars

\* The stream is at the bottom of the ladder.
AtFloor(s) ==
    \A p \in published : p.stream = s =>
        /\ p.target.bitrate = MinBitrate /\ p.target.fps = MinFps
        /\ ReduceResolution(p.target.width, p.target.height)
              = <<p.target.width, p.target.height>>

\* Adaptation converges: a stream that stays overloaded and whose publisher
\* stops raising its targets ends at the bottom of the ladder, so no rounding of
\* the 80% steps leaves it stuck above.
LadderReachesFloor ==
    \A s \in StreamIds :
       (<>[]Overloaded(s) /\ <>[][~TargetRises]_vars) => <>[]AtFloor(s)

=============================================================================
