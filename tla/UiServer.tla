------------------------------ MODULE UiServer ------------------------------
(***************************************************************************)
(* The channel console of a broadcaster (--serve-ui, --media-kind both;    *)
(* desktop-client/src/main.rs) as a client of the relay.                   *)
(*                                                                         *)
(* One thread serves one HTTP request after the other.  A request is a     *)
(* series of calls to the relay; between two calls the other clients of    *)
(* the relay and the console's own media tasks go on.  A call is answered  *)
(* by an action of RelayControl, by an error where the relay refuses the   *)
(* request, and by an error once the connection is lost: the console does  *)
(* not reconnect.  Where the answer does not come within                   *)
(* CONTROL_STREAM_TIMEOUT the console takes it for an error although the   *)
(* request took effect.  (Assumed: a request that arrives, arrives before  *)
(* the console gives up on it.)                                            *)
(***************************************************************************)
EXTENDS RelayControl, FiniteSetsExt   \* Max, and of Functions IsInjective

CONSTANTS
    Console,         \* the session of the console
    StreamOf,        \* its stream id, per media kind: --stream-id, --voice-stream-id
    CodecOf,         \* per media kind
    ScreenConfigs,   \* the configs its command line may ask for
    VoiceConfig,
    ArgRoom,         \* --channel-id or --room-id, NoRoom where absent
    VoicePatches     \* bodies of POST /api/voice-state: partial voice states

NoRoom == 0
Media  == {"Screen", "Voice"}

ASSUME UiAssumption ==
    /\ Console \in Sessions
    /\ StreamOf \in [Media -> StreamIds] /\ StreamOf["Screen"] # StreamOf["Voice"]
    /\ CodecOf \in [Media -> Codecs]
    /\ ArgRoom \in Nat

VARIABLES
    pc, job, room,    \* the HTTP thread: its next call, what for, and its room_id
    asked, answer,    \* was the last request a voice request, and its answer
    selected,         \* UiServerState.selected_channel_id
    localVoice,       \* UiServerState.local_voice
    sharing,          \* UiServerState.local_screen_share.sharing
    task,             \* screen_media_task and voice_media_task
    config,           \* per media kind, the config of the command line
    named,            \* the rooms that carry the console's channel name
    connected         \* is there a connection to the relay?

thread  == <<pc, job, room, asked, answer>>
console == <<selected, localVoice, sharing, task>>
world   == <<config, named, connected>>
uiVars  == <<vars, thread, console, world>>

Me == user[Console]
NoTask == [state |-> "none", room |-> NoRoom]
IsActive(k) == task[k].state # "none"

\* A relay where everybody has said Hello, and a console that was just started.
UiInit ==
    /\ user = CHOOSE f \in [Sessions -> 1..Cardinality(Sessions)] : IsInjective(f)
    /\ access = [c \in Sessions |-> TRUE]
    /\ nextUserId = Cardinality(Sessions) + 1 /\ nextRoomId = 1
    /\ names = {user[c] : c \in Sessions}
    /\ rooms = {} /\ participants = {} /\ voice = {}
    /\ published = {} /\ subscriptions = {}
    /\ viewerStats = {} /\ keyframes = {} /\ metered = {}
    /\ remoteInput = [s \in StreamIds |-> << >>]
    /\ pc = "idle" /\ job = "state" /\ room = NoRoom
    /\ asked = "other" /\ answer = "none"
    /\ selected = ArgRoom
    /\ localVoice = [muted |-> FALSE, deafened |-> FALSE, ptt |-> FALSE, active |-> FALSE]
    /\ sharing = FALSE
    /\ task = [k \in Media |-> NoTask]
    /\ config \in {[k \in Media |-> IF k = "Screen" THEN s ELSE VoiceConfig] : s \in ScreenConfigs}
    /\ named = {}
    /\ connected = TRUE

-----------------------------------------------------------------------------
(***************************************************************************)
(* Local state.                                                            *)
(***************************************************************************)
Speaking(v) == ~v.muted /\ ~v.deafened /\ (v.ptt => v.active)

\* update_voice: who is deafened is muted, and push-to-talk is only active where
\* it is in use and not muted.
UpdatedVoice(patch) ==
    LET v == [f \in DOMAIN localVoice |-> IF f \in DOMAIN patch THEN patch[f] ELSE localVoice[f]]
        muted == v.muted \/ v.deafened
    IN  [v EXCEPT !.muted = muted, !.active = @ /\ ~muted /\ v.ptt]

\* What set_voice_state sends.
VoiceRequest ==
    [muted |-> localVoice.muted, deafened |-> localVoice.deafened,
     ptt |-> localVoice.ptt, speaking |-> Speaking(localVoice)]

KeepRoomJoined == sharing \/ selected # NoRoom \/ \E k \in Media : IsActive(k)

\* select_viewer_room: the rooms of that name or else the only room there is;
\* one with streams if possible, the newest of those.  (No room is empty.)
RoomsByName ==
    LET candidates == IF named \cap rooms = {} /\ Cardinality(rooms) = 1
                      THEN rooms ELSE named \cap rooms
        busy == {r \in candidates : StreamsIn(r) # {}}
    IN  IF busy # {} THEN {Max(busy)}
        ELSE IF candidates # {} THEN {Max(candidates)} ELSE {}

\* select_ui_state_channel_id in a list that is not empty: no room is an error.
ChannelsForState ==
    IF selected \in rooms THEN {selected}
    ELSE IF ArgRoom # NoRoom THEN {ArgRoom} \cap rooms
    ELSE RoomsByName

-----------------------------------------------------------------------------
(***************************************************************************)
(* Steps of the thread.                                                    *)
(***************************************************************************)
Goto(label) == pc' = label /\ UNCHANGED <<room, job, answer>>
GotoWith(label, r) == pc' = label /\ room' = r /\ UNCHANGED <<job, answer>>
Done(status) == pc' = "idle" /\ answer' = status /\ room' = NoRoom /\ job' = "state"

\* A call of the relay: request is its action, accepted and failed are what the
\* thread does with the two kinds of answer; an answer that is late is a failure.
\* The relay refuses the request where it is not allowed.
Call(request, allowed, accepted, failed) ==
    \/ connected /\ request /\ (accepted \/ failed)
    \/ ~(connected /\ allowed) /\ UNCHANGED vars /\ failed

\* LeaveRoom is never refused: where the room is gone nothing happens.
Leave(r) == IF r \in rooms THEN LeaveRoom(Console, r) ELSE UNCHANGED vars

\* What the relay allows the console, which has said Hello and has access.
MayCreate == Cardinality(rooms) < MaxRooms /\ nextRoomId <= MaxRoomId
MayJoin(r) ==
    /\ r \in rooms
    /\ \/ IsParticipant(r, Me)
       \/ Cardinality({m \in participants : m.room = r}) < MaxParticipants
MaySpeak(r) == r \in rooms /\ IsParticipant(r, Me)
MayPublish(r, s) ==
    /\ ~IsPublished(s)
    /\ r \in rooms /\ IsParticipant(r, Me)
    /\ Cardinality(StreamsIn(r)) < MaxStreams
MayConfigure(r, s, codec) ==
    \E p \in published : p.room = r /\ p.stream = s /\ p.publisher = Me /\ p.codec = codec
MayChange(r, s) ==
    \E p \in published : p.room = r /\ p.stream = s /\ p.publisher = Me

\* A request comes in and is served from label on.
Serve(label, forJob) ==
    pc' = label /\ job' = forJob /\ answer' = "none" /\ UNCHANGED room

\* Mutant of ReceiveSelect: running media tasks are not looked for.
ReceiveSelectAnyTime(r) ==
    /\ pc = "idle"
    /\ pc' = "find" /\ job' = "select" /\ answer' = "none" /\ room' = r
    /\ asked' = "other"
    /\ UNCHANGED <<vars, console, world>>

\* POST /api/select-channel.
ReceiveSelect(r) ==
    /\ pc = "idle"
    /\ IF \E k \in Media : IsActive(k)
       THEN Done("error")
       ELSE pc' = "find" /\ job' = "select" /\ answer' = "none" /\ room' = r
    /\ asked' = "other"
    /\ UNCHANGED <<vars, console, world>>

\* POST /api/screen-share.
ReceiveShare(on) ==
    /\ pc = "idle"
    /\ IF on = sharing THEN Serve("state", "state")
       ELSE IF on THEN Serve("resolve", "Screen")
       ELSE Serve("locate", "Screen")
    /\ asked' = "other"
    /\ UNCHANGED <<vars, console, world>>

\* Mutant of ReceiveVoice: where the media task need not change, the answer is
\* given at once.
ReceiveVoiceAnswering(patch) ==
    /\ pc = "idle"
    /\ localVoice' = UpdatedVoice(patch)
    /\ IF Speaking(localVoice') = IsActive("Voice")
          THEN Done("ok")
       ELSE IF Speaking(localVoice') THEN Serve("resolve", "Voice")
       ELSE Serve("locate", "Voice")
    /\ asked' = "voice"
    /\ UNCHANGED <<vars, selected, sharing, task, world>>

\* POST /api/voice-state: the media task follows whether the user speaks.
ReceiveVoice(patch) ==
    /\ pc = "idle"
    /\ localVoice' = UpdatedVoice(patch)
    /\ IF Speaking(localVoice') = IsActive("Voice") THEN Serve("state", "state")
       ELSE IF Speaking(localVoice') THEN Serve("resolve", "Voice")
       ELSE Serve("locate", "Voice")
    /\ asked' = "voice"
    /\ UNCHANGED <<vars, selected, sharing, task, world>>

\* GET /state.json.
ReceiveState ==
    /\ pc = "idle"
    /\ Serve("state", "state")
    /\ asked' = "other"
    /\ UNCHANGED <<vars, console, world>>

-----------------------------------------------------------------------------
(***************************************************************************)
(* Channel selection; the steps enter and push are shared by all jobs.     *)
(***************************************************************************)
\* Mutant of FindChannel: the previous channel is not left.
FindChannelOnly ==
    /\ pc = "find"
    /\ \/ connected /\ room \in rooms /\ Goto("enter")
       \/ Done("error")
    /\ UNCHANGED <<vars, asked, console, world>>

\* Like every list_rooms it fails where the answer is an error or late.
FindChannel ==
    /\ pc = "find"
    /\ \/ /\ connected /\ room \in rooms
          /\ Goto(IF selected \in {NoRoom, room} THEN "enter" ELSE "leave")
       \/ Done("error")
    /\ UNCHANGED <<vars, asked, console, world>>

\* Whether this succeeds is not looked at.
LeavePrevious ==
    /\ pc = "leave"
    /\ Call(Leave(selected), TRUE, Goto("enter"), Goto("enter"))
    /\ UNCHANGED <<asked, console, world>>

Enter ==
    /\ pc = "enter"
    /\ Call(JoinRoom(Console, room), MayJoin(room), Goto("push"), Done("error"))
    /\ UNCHANGED <<asked, console, world>>

\* set_voice_state, and on to what the job is about.
PushVoice ==
    /\ pc = "push"
    /\ Call(SetVoiceState(Console, room, VoiceRequest), MaySpeak(room),
            \/ job = "select" /\ Goto("state") /\ selected' = room
            \/ job \in Media /\ Goto("publish") /\ UNCHANGED selected
            \/ /\ job = "state" /\ UNCHANGED selected
               /\ IF KeepRoomJoined THEN Done("ok") ELSE Goto("depart"),
            Done("error") /\ UNCHANGED selected)
    /\ UNCHANGED <<asked, localVoice, sharing, task, world>>

-----------------------------------------------------------------------------
(***************************************************************************)
(* Starting a screen share or voice: job is the media kind.                *)
(***************************************************************************)
\* resolve_or_create_ui_channel_id, up to the creation.  (A room given on the
\* command line is selected from the start.)
Resolve ==
    /\ pc = "resolve"
    /\ LET found == IF selected # NoRoom THEN {selected} \cap rooms ELSE RoomsByName
       IN  \/ connected /\ \E r \in found : GotoWith("enter", r)
           \/ connected /\ found = {} /\ selected = NoRoom /\ Goto("create")
           \/ Done("error")
    /\ UNCHANGED <<vars, asked, console, world>>

Create ==
    /\ pc = "create"
    /\ Call(CreateRoom(Console), MayCreate,
            GotoWith("enter", nextRoomId),
            Done("error"))
    /\ named' = named \cup (rooms' \ rooms)
    /\ UNCHANGED <<asked, console, config, connected>>

\* A failed start: the screen path leaves the room in any case, the voice path
\* only if nothing else keeps it.
GiveUp ==
    IF job = "Screen" \/ ~KeepRoomJoined THEN Goto("retreat") ELSE Done("error")

Publish ==
    /\ pc = "publish"
    /\ Call(PublishStream(Console, room, StreamOf[job], CodecOf[job], job),
            MayPublish(room, StreamOf[job]), Goto("configure"), GiveUp)
    /\ UNCHANGED <<asked, console, world>>

\* A config that comes back changed, because the relay clamped it, is a failure
\* too: the stream has it, and is published.
Configure ==
    /\ pc = "configure"
    /\ Call(SetStreamConfig(Console, room, StreamOf[job], CodecOf[job], config[job]),
            MayConfigure(room, StreamOf[job], CodecOf[job]),
            IF \E p \in published' : p.stream = StreamOf[job] /\ p.config = config[job]
            THEN Goto("bitrate") ELSE GiveUp,
            GiveUp)
    /\ UNCHANGED <<asked, console, world>>

SetBitrate ==
    /\ pc = "bitrate"
    /\ \E b \in BitrateInputs :
          Call(SetTargetBitrate(Console, room, StreamOf[job], b),
               MayChange(room, StreamOf[job]), Goto("framerate"), Goto("withdraw"))
    /\ UNCHANGED <<asked, console, world>>

\* The last call, then the media task is spawned.
SetFramerate ==
    /\ pc = "framerate"
    /\ Call(SetTargetFramerate(Console, room, StreamOf[job], config[job].fps),
            MayChange(room, StreamOf[job]),
            /\ Goto("state")
            /\ selected' = room
            /\ sharing' = (sharing \/ job = "Screen")
            /\ task' = [task EXCEPT ![job] = [state |-> "running", room |-> room]],
            Goto("withdraw") /\ UNCHANGED <<selected, sharing, task>>)
    /\ UNCHANGED <<asked, localVoice, world>>

Withdraw ==
    /\ pc = "withdraw"
    /\ Call(UnpublishStream(Console, room, StreamOf[job]),
            MayChange(room, StreamOf[job]), GiveUp, GiveUp)
    /\ UNCHANGED <<asked, console, world>>

Retreat ==
    /\ pc = "retreat"
    /\ Call(Leave(room), TRUE, Done("error"), Done("error"))
    /\ UNCHANGED <<asked, console, world>>

-----------------------------------------------------------------------------
(***************************************************************************)
(* Stopping.                                                               *)
(***************************************************************************)
Locate ==
    /\ pc = "locate"
    /\ \/ connected /\ rooms = {} /\ GotoWith("halt", NoRoom)
       \/ connected /\ rooms # {} /\ \E r \in ChannelsForState : GotoWith("halt", r)
       \/ Done("error")
    /\ UNCHANGED <<vars, asked, console, world>>

Publishes(k) == \E p \in published : p.stream = StreamOf[k] /\ p.publisher = Me

\* A media task that is told to stop polls once more, which the relay refuses
\* unless the stream is still there and still the console's.
EndsWell(k) == task[k].state = "running" /\ connected /\ Publishes(k)

\* Mutant of Halt: a task that failed ends the share as well.
HaltClearing ==
    /\ pc = "halt"
    /\ task' = [task EXCEPT ![job] = NoTask]
    /\ \/ /\ ~IsActive(job) \/ EndsWell(job)
          /\ Goto(IF room = NoRoom THEN "stopped" ELSE "unpublish")
          /\ UNCHANGED sharing
       \/ IsActive(job) /\ Done("error") /\ sharing' = (sharing /\ job # "Screen")
    /\ UNCHANGED <<vars, asked, selected, localVoice, world>>

\* stop_ui_screen_media_task and stop_ui_voice_media_task: the task is taken out
\* of the state, told to stop and awaited; it may have failed, or fail now.
Halt ==
    /\ pc = "halt"
    /\ task' = [task EXCEPT ![job] = NoTask]
    /\ \/ /\ ~IsActive(job) \/ EndsWell(job)
          /\ Goto(IF room = NoRoom THEN "stopped" ELSE "unpublish")
       \/ IsActive(job) /\ Done("error")
    /\ UNCHANGED <<vars, asked, selected, localVoice, sharing, world>>

\* A stream that is gone already is as good as unpublished.
Unpublish ==
    /\ pc = "unpublish"
    /\ \/ Call(UnpublishStream(Console, room, StreamOf[job]),
               MayChange(room, StreamOf[job]), Goto("stopped"), Done("error"))
       \/ /\ connected /\ ~MayChange(room, StreamOf[job])
          /\ UNCHANGED vars /\ Goto("stopped")
    /\ UNCHANGED <<asked, console, world>>

\* Whoever has shared or spoken has a channel selected, so the room is kept.
Stopped ==
    /\ pc = "stopped"
    /\ sharing' = (sharing /\ job # "Screen")
    /\ Goto("state")
    /\ UNCHANGED <<vars, asked, selected, localVoice, task, world>>

-----------------------------------------------------------------------------
(***************************************************************************)
(* build_ui_state_json_for_ui, which answers every request that went well. *)
(***************************************************************************)
BuildState ==
    /\ pc = "state"
    /\ \/ connected /\ rooms = {} /\ Done("ok")
       \/ /\ connected /\ rooms # {}
          /\ room' \in ChannelsForState /\ job' = "state"
          /\ pc' = "enter" /\ UNCHANGED answer
       \/ Done("error")
    /\ UNCHANGED <<vars, asked, console, world>>

\* Without a channel of its own the console only looks into the room.
Depart ==
    /\ pc = "depart"
    /\ Call(Leave(room), TRUE, Done("ok"), Done("error"))
    /\ UNCHANGED <<asked, console, world>>

-----------------------------------------------------------------------------
(***************************************************************************)
(* Everything else that happens meanwhile.                                 *)
(***************************************************************************)
\* Capture, encoding or a poll fails and ends the media task.  Nobody notices
\* until it is awaited.
TaskFails(k) ==
    /\ task[k].state = "running"
    /\ task' = [task EXCEPT ![k].state = "failed"]
    /\ UNCHANGED <<vars, thread, selected, localVoice, sharing, world>>

\* The relay forgets the console.
LoseConnection ==
    /\ connected
    /\ connected' = FALSE
    /\ Disconnect(Console)
    /\ UNCHANGED <<thread, console, config, named>>

PeerCreates(c) ==
    /\ CreateRoom(c)
    /\ named' \in {named, named \cup {nextRoomId}}
    /\ UNCHANGED <<thread, console, config, connected>>

PeerRequest(c) ==
    /\ \E r \in rooms :
          \/ JoinRoom(c, r)
          \/ LeaveRoom(c, r)
          \/ \E k \in Media : PublishStream(c, r, StreamOf[k], CodecOf[k], k)
          \/ \E k \in Media : UnpublishStream(c, r, StreamOf[k])
    /\ UNCHANGED <<thread, console, world>>

Receive ==
    \/ \E r \in 1..MaxRoomId : ReceiveSelect(r)
    \/ \E on \in BOOLEAN : ReceiveShare(on)
    \/ \E patch \in VoicePatches : ReceiveVoice(patch)
    \/ ReceiveState

ThreadStep ==
    \/ FindChannel \/ LeavePrevious \/ Enter \/ PushVoice
    \/ Resolve \/ Create \/ Publish \/ Configure \/ SetBitrate \/ SetFramerate
    \/ Withdraw \/ Retreat
    \/ Locate \/ Halt \/ Unpublish \/ Stopped
    \/ BuildState \/ Depart

UiNext ==
    \/ Receive \/ ThreadStep
    \/ \E k \in Media : TaskFails(k)
    \/ LoseConnection
    \/ \E c \in Sessions \ {Console} : PeerCreates(c) \/ PeerRequest(c)

UiSpec == UiInit /\ [][UiNext]_uiVars

-----------------------------------------------------------------------------
(***************************************************************************)
(* Properties.                                                             *)
(***************************************************************************)
\* Between requests, a console that shows no screen share has none at the relay:
\* no failed start, failed stop or channel switch leaves the screen published
\* behind the user's back.
NoHiddenShare == pc = "idle" /\ ~sharing => ~Publishes("Screen")

\* A media task that has not been stopped sends into the selected channel: no
\* request moves the console elsewhere under a task.
SendersStayInChannel ==
    \A k \in Media : IsActive(k) => task[k].room = selected

\* Between requests, what the console publishes is in the selected channel, also
\* after a stop that failed halfway and a switch of channels after it.
PublishesInSelectedChannel ==
    pc = "idle" => \A p \in published : p.publisher = Me => p.room = selected

\* After a request that went well the relay shows the others in the selected
\* channel the voice state the user sees, and a voice request that silences the
\* user leaves no task that sends the microphone: who mutes is seen as muted and
\* is not heard, whether or not a media task had to be stopped for it.  (A room
\* of the command line is selected before it exists; it may come to exist, and
\* the console is not in it.)
VoiceStateIsPushed ==
    pc = "idle" /\ answer = "ok" =>
        /\ connected /\ selected \in rooms =>
              \/ [room |-> selected, user |-> Me, flags |-> VoiceRequest] \in voice
              \/ selected = ArgRoom /\ ~IsParticipant(selected, Me)
        /\ asked = "voice" /\ ~Speaking(localVoice) => ~IsActive("Voice")

=============================================================================
