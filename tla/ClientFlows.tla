---------------------------- MODULE ClientFlows -----------------------------
(***************************************************************************)
(* The command-line clients (desktop-client/src/main.rs): broadcasters,    *)
(* viewers and the listings, each a script of calls to the relay that ends *)
(* at the first call that fails.                                           *)
(*                                                                         *)
(* A call is answered by the action of RelayControl or refused where the   *)
(* relay does not allow it.  A client may give up on an answer             *)
(* (CONTROL_STREAM_TIMEOUT), lose its connection or be killed, between two *)
(* calls or with a request on its way.  Whatever ends a client closes its  *)
(* connection, and the relay disconnects the user; a request that was on   *)
(* its way is handled before that, after it, by a task that nobody waits   *)
(* for, or never.  Clients do not retry, reconnect or undo: all cleanup    *)
(* after a failure is the relay's.                                         *)
(*                                                                         *)
(* The calls that are never refused and change nothing (TimeSync, Ping)    *)
(* are left out; they can only fail the way every call can.                *)
(***************************************************************************)
EXTENDS RelayControl, FiniteSetsExt

CONSTANTS
    Scenarios,      \* what the clients may be started with: a command line for each
    StoredName,     \* sanitize_room_name: the name a room gets for a name asked for
    CodecFor,       \* per media kind
    MaxFaults       \* bound on the requests given up and the connections lost

NoRoom   == 0        \* selected_room_id without --room-id and --channel-id
NoStream == "none"
Media    == {"Screen", "Voice"}
PollSize == 64       \* max_events of every poll_remote_input

\* What a client does with its command line.  room is NoRoom where neither
\* --room-id nor --channel-id is given; stream has --stream-id and
\* --voice-stream-id; media says whether --media-frames or --media-run-ms is.
CommandLine ==
    [mode : {"broadcast", "view", "streams", "participants"},
     kinds : SUBSET Media \ {{}},
     room : Nat, channel : DOMAIN StoredName, token : {"none", "right", "wrong"},
     stream : [Media -> StreamIds],
     config : [Media -> ConfigInputs],
     bitrate : BitrateInputs, voice : VoiceInputs, inputs : Nat, media : BOOLEAN]

ASSUME FlowAssumption ==
    /\ \A f \in Scenarios :
          /\ DOMAIN f = Sessions
          /\ \A c \in Sessions :
                /\ f[c] \in CommandLine
                /\ f[c].stream["Screen"] # f[c].stream["Voice"]   \* else voice_stream_id bails
                /\ \A k \in Media : f[c].config[k].fps \in FpsInputs
    /\ NoStream \notin StreamIds
    /\ Media \subseteq Kinds
    /\ PollSize \in PollSizes
    /\ CodecFor \in [Media -> Codecs]
    /\ MaxFaults \in Nat

VARIABLES
    args,     \* the command line of each client
    todo,     \* the calls of its script that have not been answered
    status,   \* "running", "done", or how it failed; "closed" once disconnected
    room,     \* the room_id it works in
    watch,    \* per media kind, the stream_id a viewer resolved
    origin,   \* history: per media kind, who published that stream at Subscribe
    pending,  \* the clients that ended with their current request on its way
    ghosts,   \* history: those whose request acted when the relay had cleaned up
    named,    \* [room, name]: the names of the rooms created so far
    faults    \* counts the requests given up and the connections lost

flow == <<todo, status, room, watch, origin, pending, ghosts>>
flowVars == <<vars, flow, args, named, faults>>

-----------------------------------------------------------------------------
(***************************************************************************)
(* Scripts.                                                                *)
(***************************************************************************)
Once(ops) == [i \in DOMAIN ops |-> [op |-> ops[i], kind |-> "Screen"]]

OnlyIf(condition, script) == IF condition THEN script ELSE << >>

\* The calls ops for each media kind of the command line, screen first.
ForEachKind(a, ops) ==
    LET calls(k) == OnlyIf(k \in a.kinds, [i \in DOMAIN ops |-> [op |-> ops[i], kind |-> k]])
    IN  calls("Screen") \o calls("Voice")

\* main, up to the choice of the flow.
Prologue(a) ==
    Once(<<"Hello">>) \o OnlyIf(a.token # "none", Once(<<"Authenticate">>))

\* voice_state_requested: --muted, --deafened, --push-to-talk or --ptt-active.
VoiceScript(a) ==
    OnlyIf(a.voice.muted \/ a.voice.deafened \/ a.voice.ptt, Once(<<"SetVoiceState">>))

\* Mutant of BroadcasterScript: the targets are set before the streams are
\* published.
BroadcasterScriptTargetsFirst(a) ==
    OnlyIf(a.room = NoRoom, Once(<<"CreateRoom">>))
    \o Once(<<"JoinRoom">>) \o VoiceScript(a)
    \o OnlyIf(a.media, ForEachKind(a, <<"SetTargetBitrate", "SetTargetFramerate">>))
    \o ForEachKind(a, <<"PublishStream", "SetStreamConfig">>)
    \o OnlyIf(a.media, Once(<<"Media">>))
    \o ForEachKind(a, <<"UnpublishStream">>)
    \o Once(<<"LeaveRoom">>)

\* run_broadcaster_control_flow and its variant for two streams.
BroadcasterScript(a) ==
    OnlyIf(a.room = NoRoom, Once(<<"CreateRoom">>))
    \o Once(<<"JoinRoom">>) \o VoiceScript(a)
    \o ForEachKind(a, <<"PublishStream", "SetStreamConfig">>)
    \o OnlyIf(a.media, ForEachKind(a, <<"SetTargetBitrate", "SetTargetFramerate">>)
                       \o Once(<<"Media">>))
    \o ForEachKind(a, <<"UnpublishStream">>)
    \o Once(<<"LeaveRoom">>)

\* resolve_viewer_room_id and the JoinRoom that follows it everywhere.
EnterScript(a) == OnlyIf(a.room = NoRoom, Once(<<"ListRooms">>)) \o Once(<<"JoinRoom">>)

\* Mutant of ViewerScript: leaving the room is left to undo the subscriptions.
ViewerScriptWithoutUnsubscribe(a) ==
    EnterScript(a) \o VoiceScript(a) \o Once(<<"ListStreams">>)
    \o ForEachKind(a, <<"SubscribeStream">>) \o ForEachKind(a, <<"PollStreamConfig">>)
    \o [i \in 1..a.inputs |-> [op |-> "SendRemoteInput", kind |-> "Screen"]]
    \o OnlyIf(a.media, Once(<<"Media">>))
    \o Once(<<"LeaveRoom">>)

\* run_viewer_control_flow and its variant for two streams.
ViewerScript(a) ==
    EnterScript(a) \o VoiceScript(a) \o Once(<<"ListStreams">>)
    \o ForEachKind(a, <<"SubscribeStream">>) \o ForEachKind(a, <<"PollStreamConfig">>)
    \o [i \in 1..a.inputs |-> [op |-> "SendRemoteInput", kind |-> "Screen"]]
    \o OnlyIf(a.media, Once(<<"Media">>))
    \o ForEachKind(a, <<"UnsubscribeStream">>)
    \o Once(<<"LeaveRoom">>)

StreamListScript(a) == EnterScript(a) \o Once(<<"List", "LeaveRoom">>)

ParticipantListScript(a) ==
    EnterScript(a) \o VoiceScript(a) \o Once(<<"List", "LeaveRoom">>)

Script(a) ==
    Prologue(a) \o CASE a.mode = "broadcast"    -> BroadcasterScript(a)
                     [] a.mode = "view"         -> ViewerScript(a)
                     [] a.mode = "streams"      -> StreamListScript(a)
                     [] a.mode = "participants" -> ParticipantListScript(a)

FlowInit ==
    /\ Init
    /\ args \in Scenarios
    /\ todo = [c \in Sessions |-> Script(args[c])]
    /\ status = [c \in Sessions |-> "running"]
    /\ room = [c \in Sessions |-> args[c].room]
    /\ watch = [c \in Sessions |-> [k \in Media |-> NoStream]]
    /\ origin = [c \in Sessions |-> [k \in Media |-> NoUser]]
    /\ pending = {}
    /\ ghosts = {}
    /\ named = {}
    /\ faults = 0

Current(c) == Head(todo[c])

-----------------------------------------------------------------------------
(***************************************************************************)
(* Discovery.                                                              *)
(***************************************************************************)
\* select_viewer_room: the rooms of that name, or else the only room there is;
\* one with streams if possible, the newest of those.  (No room is empty.)
RoomsFor(name) ==
    LET matching == {r \in rooms : [room |-> r, name |-> name] \in named}
        found == IF matching = {} /\ Cardinality(rooms) = 1 THEN rooms ELSE matching
        busy  == {r \in found : StreamsIn(r) # {}}
    IN  IF busy # {} THEN {Max(busy)} ELSE IF found # {} THEN {Max(found)} ELSE {}

\* resolve_viewer_stream_id and resolve_stream_id_for_kind: the id asked for, if
\* it has the right kind; a viewer of one kind, where nobody publishes that id,
\* takes the only stream of its kind.
StreamsFor(a, r, k) ==
    LET exact == {p \in StreamsIn(r) : p.stream = a.stream[k]}
        alike == {p \in StreamsIn(r) : p.kind = k}
    IN  IF exact # {} THEN {p.stream : p \in {q \in exact : q.kind = k}}
        ELSE IF Cardinality(a.kinds) = 1 /\ Cardinality(alike) = 1
        THEN {p.stream : p \in alike} ELSE {}

-----------------------------------------------------------------------------
(***************************************************************************)
(* The calls.  k is the media kind a call is for.                          *)
(***************************************************************************)
ReadsOnly(c) == Authorized(c) /\ UNCHANGED vars
IsIn(c) == room[c] \in rooms /\ IsParticipant(room[c], user[c])

AuthenticateCall(c) == args[c].token # "wrong" \/ ~TokenRequired

CreateRoomCall(c) ==
    /\ CreateRoom(c)
    /\ room' = [room EXCEPT ![c] = nextRoomId]
    /\ named' = named \cup {[room |-> nextRoomId, name |-> StoredName[args[c].channel]]}
    /\ UNCHANGED <<watch, origin>>

ListRoomsCall(c) ==
    /\ ReadsOnly(c)
    /\ \E r \in RoomsFor(args[c].channel) : room' = [room EXCEPT ![c] = r]
    /\ UNCHANGED <<watch, origin, named>>

ListStreamsCall(c) ==
    /\ ReadsOnly(c) /\ IsIn(c)
    /\ \E w \in [Media -> StreamIds \cup {NoStream}] :
          /\ \A k \in Media : IF k \in args[c].kinds THEN w[k] \in StreamsFor(args[c], room[c], k)
                              ELSE w[k] = NoStream
          /\ watch' = [watch EXCEPT ![c] = w]
    /\ UNCHANGED <<room, origin, named>>

SubscribeCall(c, k) ==
    /\ SubscribeStream(c, room[c], watch[c][k])
    /\ \E p \in StreamsIn(room[c]) :
          /\ p.stream = watch[c][k]
          /\ origin' = [origin EXCEPT ![c][k] = p.publisher]
    /\ UNCHANGED <<room, watch, named>>

\* poll_stream_config: whoever is in the room may ask, subscribed or not.
PollConfigCall(c, k) ==
    /\ ReadsOnly(c) /\ IsIn(c)
    /\ \E p \in StreamsIn(room[c]) : p.stream = watch[c][k] /\ p.config # NoConfig

\* Neither of these is ever refused: where the room is gone nothing happens.
UnsubscribeCall(c, k) ==
    IF room[c] \in rooms THEN UnsubscribeStream(c, room[c], watch[c][k]) ELSE ReadsOnly(c)
LeaveCall(c) ==
    IF room[c] \in rooms THEN LeaveRoom(c, room[c]) ELSE ReadsOnly(c)

\* The calls whose answer the client only looks at for an error.
PlainCall(c, op, k) ==
    LET r == room[c]
        s == args[c].stream[k]
    IN  /\ \/ op = "Hello" /\ Hello(c)
           \/ op = "Authenticate" /\ AuthenticateCall(c) /\ Authenticate(c)
           \/ op = "JoinRoom" /\ JoinRoom(c, r)
           \/ op = "SetVoiceState" /\ SetVoiceState(c, r, args[c].voice)
           \/ op = "PublishStream" /\ PublishStream(c, r, s, CodecFor[k], k)
           \/ op = "SetStreamConfig" /\ SetStreamConfig(c, r, s, CodecFor[k], args[c].config[k])
           \/ op = "SetTargetBitrate" /\ SetTargetBitrate(c, r, s, args[c].bitrate)
           \/ op = "SetTargetFramerate" /\ SetTargetFramerate(c, r, s, args[c].config[k].fps)
           \/ op = "UnpublishStream" /\ UnpublishStream(c, r, s)
           \/ op = "PollStreamConfig" /\ PollConfigCall(c, k)
           \/ op = "SendRemoteInput" /\ SendRemoteInput(c, r, watch[c][k])
           \/ op = "UnsubscribeStream" /\ UnsubscribeCall(c, k)
           \/ op = "LeaveRoom" /\ LeaveCall(c)
           \/ op = "List" /\ ReadsOnly(c) /\ IsIn(c)
        /\ UNCHANGED <<room, watch, origin, named>>

Call(c, op, k) ==
    \/ op = "CreateRoom" /\ CreateRoomCall(c)
    \/ op = "ListRooms" /\ ListRoomsCall(c)
    \/ op = "ListStreams" /\ ListStreamsCall(c)
    \/ op = "SubscribeStream" /\ SubscribeCall(c, k)
    \/ PlainCall(c, op, k)

\* The stream a broadcaster publishes is its own to configure, poll and end.
OwnStreams(c, k) ==
    {p \in published : p.stream = args[c].stream[k] /\ p.publisher = user[c]}

\* The conditions under which the relay answers the call without an error.
Allowed(c, op, k) ==
    LET found == {p \in StreamsIn(room[c]) : p.stream = watch[c][k]}
    IN  /\ op = "Authenticate" => user[c] # NoUser /\ AuthenticateCall(c)
        /\ op \notin {"Hello", "Authenticate"} => Authorized(c)
        /\ op = "CreateRoom" => Cardinality(rooms) < MaxRooms /\ nextRoomId <= MaxRoomId
        /\ op = "ListRooms" => RoomsFor(args[c].channel) # {}
        /\ op = "JoinRoom" =>
              /\ room[c] \in rooms
              /\ \/ IsParticipant(room[c], user[c])
                 \/ Cardinality({m \in participants : m.room = room[c]}) < MaxParticipants
        /\ op \in {"SetVoiceState", "PublishStream", "ListStreams", "SubscribeStream",
                  "PollStreamConfig", "SendRemoteInput", "List"} => IsIn(c)
        /\ op = "PublishStream" =>
              ~IsPublished(args[c].stream[k]) /\ Cardinality(StreamsIn(room[c])) < MaxStreams
        /\ op \in {"SetStreamConfig", "SetTargetBitrate", "SetTargetFramerate",
                  "UnpublishStream"} => \E p \in OwnStreams(c, k) : p.room = room[c]
        /\ op = "SetStreamConfig" => \E p \in OwnStreams(c, k) : p.codec = CodecFor[k]
        /\ op = "ListStreams" =>
              \A j \in args[c].kinds : StreamsFor(args[c], room[c], j) # {}
        /\ op = "SubscribeStream" => found # {}
        /\ op = "PollStreamConfig" => \E p \in found : p.config # NoConfig
        /\ op = "SendRemoteInput" =>
              /\ \E p \in found : p.kind = "Screen"
              /\ IsSubscriber(room[c], watch[c][k], user[c])

\* publish_configured_stream takes a config that is not repeated for an error.
EchoDiffers(c, op, k) ==
    /\ op = "SetStreamConfig"
    /\ \E p \in published' : /\ p.room = room[c] /\ p.stream = args[c].stream[k]
                             /\ p.config # args[c].config[k]

-----------------------------------------------------------------------------
(***************************************************************************)
(* Steps of a client.                                                      *)
(***************************************************************************)
Ends(c, how) ==
    /\ status' = [status EXCEPT ![c] = how]
    /\ UNCHANGED <<todo, pending, ghosts, args, faults>>

Advances(c) ==
    /\ todo' = [todo EXCEPT ![c] = Tail(@)]
    /\ status' = [status EXCEPT ![c] = IF Len(todo[c]) = 1 THEN "done" ELSE @]
    /\ UNCHANGED <<pending, ghosts, args, faults>>

AtCall(c) == status[c] = "running" /\ Current(c).op # "Media"
InMedia(c) == status[c] = "running" /\ Current(c).op = "Media"

\* The relay answers the next call of the script.
Answer(c) ==
    /\ AtCall(c)
    /\ \E op \in {Current(c).op}, k \in {Current(c).kind} :
          /\ Call(c, op, k)
          /\ IF EchoDiffers(c, op, k) THEN Ends(c, "echo") ELSE Advances(c)

Refuse(c) ==
    /\ AtCall(c)
    /\ ~Allowed(c, Current(c).op, Current(c).kind)
    /\ Ends(c, "refused")
    /\ UNCHANGED <<vars, room, watch, origin, named>>

\* The kinds whose media loop runs: one who does not speak sends no voice, and
\* one who is deafened receives none.  (voice_speaking ignores --deafened.)
Loops(c) ==
    {k \in args[c].kinds : k = "Voice" =>
        IF args[c].mode = "broadcast"
        THEN ~args[c].voice.muted /\ (args[c].voice.ptt => args[c].voice.speaking)
        ELSE ~args[c].voice.deafened}

\* The calls of a broadcaster's media loop: the feedback is polled and, for a
\* screen, the queued input.  (The config sent after a change of resolution repeats
\* the target just polled and changes nothing.)
BroadcastRound(c, k) ==
    LET s == args[c].stream[k]
    IN  \/ PollPublisherFeedback(c, s)
        \/ k = "Screen" /\ PollRemoteInput(c, room[c], s, PollSize)

\* The calls of a viewer's media loop.
ViewRound(c, k) ==
    \/ k = "Screen" /\ RequestKeyframe(c, room[c], watch[c][k])
    \/ \E report \in Reports : ReportViewerStats(c, watch[c][k], report)

MediaCall(c) ==
    \E k \in Loops(c) : IF args[c].mode = "broadcast" THEN BroadcastRound(c, k)
                        ELSE ViewRound(c, k)

\* A frame of a broadcaster goes out.
SendsFrame(c) ==
    args[c].mode = "broadcast" /\ \E k \in Loops(c) : RecordForward(c, args[c].stream[k])

MediaRound(c) ==
    /\ InMedia(c)
    /\ SendsFrame(c) \/ MediaCall(c)
    /\ UNCHANGED <<flow, args, named, faults>>

\* poll_stream_metrics, at the end of a broadcaster's loop: whoever is in the room
\* may ask.
HasMetrics(c, k) == IsIn(c) /\ \E p \in StreamsIn(room[c]) : p.stream = args[c].stream[k]

\* PollPublisherFeedback and, for a screen, PollRemoteInput.
MayPoll(c, k) ==
    /\ Authorized(c)
    /\ OwnStreams(c, k) # {}
    /\ k = "Screen" => \E p \in OwnStreams(c, k) : p.room = room[c] /\ p.kind = "Screen"

MayRequestKeyframe(c, k) ==
    /\ Authorized(c) /\ IsIn(c)
    /\ \E p \in StreamsIn(room[c]) :
          /\ p.stream = watch[c][k]
          /\ p.publisher = user[c] \/ IsSubscriber(room[c], p.stream, user[c])

\* A call of a media loop is refused, which ends the client.
MediaRefused(c) ==
    /\ InMedia(c)
    /\ \E k \in Loops(c) :
          IF args[c].mode = "broadcast"
          THEN ~MayPoll(c, k) \/ ~HasMetrics(c, k)
          ELSE k = "Screen" /\ ~MayRequestKeyframe(c, k)
    /\ Ends(c, "refused")
    /\ UNCHANGED <<vars, room, watch, origin, named>>

\* The media loops have sent or received their frames, or waited long enough.
MediaEnd(c) ==
    /\ InMedia(c)
    /\ Advances(c)
    /\ UNCHANGED <<vars, room, watch, origin, named>>

\* The client gives up on its request, its connection is lost, a loop fails or the
\* process is killed.  Its current request may be on its way.
Lose(c) ==
    /\ status[c] = "running"
    /\ faults < MaxFaults
    /\ faults' = faults + 1
    /\ status' = [status EXCEPT ![c] = "lost"]
    /\ pending' = pending \cup {c}
    /\ UNCHANGED <<vars, todo, room, watch, origin, ghosts, args, named>>

\* The request of a client that has ended is handled, by a task the relay detached:
\* whether the connection still exists is not looked at, and nobody gets the answer.
Late(c) ==
    /\ c \in pending
    /\ IF Current(c).op = "Media"
       THEN MediaCall(c) /\ UNCHANGED <<room, watch, origin, named>>
       ELSE Call(c, Current(c).op, Current(c).kind)
    /\ vars' # vars
    /\ pending' = pending \ {c}
    /\ ghosts' = IF status[c] = "closed" THEN ghosts \cup {c} ELSE ghosts
    /\ UNCHANGED <<todo, status, args, faults>>

\* Mutant of Close: a connection that breaks ends its loop without the cleanup.
CloseUnlessLost(c) ==
    /\ status[c] \notin {"running", "closed"}
    /\ IF user[c] = NoUser \/ status[c] = "lost" THEN UNCHANGED vars ELSE Disconnect(c)
    /\ status' = [status EXCEPT ![c] = "closed"]
    /\ UNCHANGED <<todo, room, watch, origin, pending, ghosts, args, named, faults>>

\* The connection of a client that has ended is closed, and the relay cleans up.  It
\* does not wait for a request that is on its way.
Close(c) ==
    /\ status[c] \notin {"running", "closed"}
    /\ IF user[c] = NoUser THEN UNCHANGED vars ELSE Disconnect(c)
    /\ status' = [status EXCEPT ![c] = "closed"]
    /\ UNCHANGED <<todo, room, watch, origin, pending, ghosts, args, named, faults>>

FlowNext ==
    \E c \in Sessions :
       \/ Answer(c) \/ Refuse(c)
       \/ MediaRound(c) \/ MediaRefused(c) \/ MediaEnd(c)
       \/ Lose(c) \/ Late(c) \/ Close(c)

FlowSpec == FlowInit /\ [][FlowNext]_flowVars

\* Every call is answered or times out, the media loops are bounded by their frame
\* targets and idle timeouts, and a process that ends closes its connection.  A
\* request on its way may never be handled.
FlowFairness ==
    \A c \in Sessions : /\ WF_flowVars(Answer(c) \/ Refuse(c))
                        /\ WF_flowVars(MediaEnd(c)) /\ WF_flowVars(Close(c))

FairFlowSpec == FlowSpec /\ FlowFairness

-----------------------------------------------------------------------------
(***************************************************************************)
(* Properties.                                                             *)
(***************************************************************************)

\* The user is in no room, publishes, watches and reports nothing.
NoTraceOf(u) ==
    /\ \A x \in participants \cup subscriptions \cup viewerStats \cup voice : x.user # u
    /\ \A p \in published : p.publisher # u

\* Input of the client waits only at a stream it watches, and for the publisher it
\* subscribed to.
InputIsWhereMeant(c) ==
    \A s \in StreamIds : (\E i \in DOMAIN remoteInput[s] : remoteInput[s][i] = user[c]) =>
        \E p \in published, k \in Media :
            p.stream = s /\ watch[c][k] = s /\ p.publisher = origin[c][k]

\* A client that got through its script has undone all it did at the relay, before
\* its connection closes: whoever published, left or took over its stream in the
\* meantime, and though its last report may be on a stream that is gone.  What is
\* left of it is input that the publisher it was meant for has not polled yet.
EndsClean ==
    \A c \in Sessions : status[c] = "done" => NoTraceOf(user[c]) /\ InputIsWhereMeant(c)

\* Once the relay has accepted a broadcaster's stream, no later call about it is
\* refused: nobody can take its room or its stream from it.  (The PublishStream of a
\* second stream may still be refused.)
PublisherIsNeverRefused ==
    \A c \in Sessions : status[c] = "refused" /\ args[c].mode = "broadcast" =>
        \/ Current(c).op \in {"Authenticate", "CreateRoom", "PublishStream"}
        \/ Current(c).op = "JoinRoom" /\ (args[c].room # NoRoom)

\* A viewer is never switched to another publisher: as long as it is subscribed the
\* stream is the one it subscribed to, and input it sent waits for nobody else.
\* (Stream ids are reused, and the viewer is not told that a stream has ended.)
NeverSwitched ==
    \A c \in Sessions, k \in Media, p \in published :
       p.stream = watch[c][k] =>
          /\ IsSubscriber(p.room, p.stream, user[c]) => p.publisher = origin[c][k]
          /\ \A i \in DOMAIN remoteInput[p.stream] :
                remoteInput[p.stream][i] = user[c] => p.publisher = origin[c][k]

\* The relay has forgotten everybody but these users.  Of them a name, a place in a
\* room with its voice state, and a report may be left, never a stream, a
\* subscription or input.
DrainedBut(users) ==
    /\ published = {} /\ subscriptions = {} /\ keyframes = {} /\ metered = {}
    /\ \A s \in StreamIds : remoteInput[s] = << >>
    /\ names \subseteq users
    /\ \A x \in participants \cup voice \cup viewerStats : x.user \in users
    /\ rooms = {m.room : m \in participants}

\* However the clients end, all of them do, and nothing of them stays at the relay,
\* except of those whose last request was handled when the relay had already cleaned
\* up after them.
EverythingDrains ==
    <>[](/\ \A c \in Sessions : status[c] = "closed"
         /\ DrainedBut({user[c] : c \in ghosts}))

=============================================================================
