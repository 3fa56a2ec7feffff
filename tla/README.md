# teamview: a TLA+ model of the relay and its clients

teamview is a small screen- and voice-sharing system: a QUIC **relay**
(`crates/relay-server`) and a **desktop client** (`crates/desktop-client`) that
broadcasts, watches, or serves a local channel console. This directory holds
TLA+ modules translated from the Rust sources, the TLC configurations that check
them on small instances, and TLAPS proofs about the relay, its media egress, the
frames it carries and its clients.

## 1. Inventory

| Component | State it keeps | Operations | Interacts with | Hard behaviour | Correct when |
|---|---|---|---|---|---|
| Control state (`control.rs`, `room.rs`, `session.rs`) | sessions, rooms, participants, streams with target and config, subscriptions, voice states, viewer reports, keyframe requests, input queues, metrics | one handler per `ClientControl` message, `disconnect_user`, `record_media_forward_summary` | called by every control task and datagram under one mutex | ten tables that have to agree after every leave, unpublish and disconnect; ids chosen by clients; limits | tables consistent, ids unique, nobody in without access, limits kept |
| Degradation ladder (`control.rs` 745–828, 1392–1418) | the target of a stream | lowering a target, clamping | publisher's poll | integer percentages, floors, parity | legal, in order, reaches its floor |
| Connection runtime (`control_stream.rs`) | per connection a loop, detached control tasks, cleanup | accept, handle, register egress, datagram, cleanup | control state, egress table, three locks | tasks that outlive the connection; cleanup in three steps; lock order | a closed connection is forgotten; no deadlock |
| Media egress (`media.rs`) | per viewer a bounded channel, a send task, depth per stream | register, unregister, forward, send | called under the egress mutex; send tasks run on their own | reservation, queueing and release are separate steps | exact depth, bounded, ordered, forwarding never waits |
| Frames and packets (`frame.rs`, `packet.rs`, `decode/mod.rs`, `stats.rs`) | reassembly buffer, loss counters | packetize, encode, decode, push, record packet | datagrams between broadcaster, relay and viewer | loss, reordering, eviction, ids that wrap around | only whole sent frames come out, nothing honest is refused; bounded; losses counted |
| Keyframe recovery (`main.rs`, `control.rs`, codecs) | encoder flag, pending request, stored report, viewer's wait | send frame, poll, adapt, receive, report | three processes | lost requests and keyframes; a viewer asks once | every viewer gets its picture back |
| Command-line clients (`main.rs` 1836–2880) | a script of calls, the room and streams found | broadcast or view a screen, a voice or both; list streams or participants | the relay, call by call; other clients in between | ids that change hands between listing and subscribing; failing halfway; requests handled after their client gave up | a script that ends well leaves nothing but input on its way, one that fails leaves it to the relay |
| Voice path (`main.rs`, `audio.rs`, `audio_capture.rs`) | capture buffers, the sending and the receiving loop, playback buffers | record, tick, poll, stop, receive, play | two devices that own buffers of the process; the relay's mute gate | buffers reused while a device runs; devices that fail or fall silent | no echo, no freed buffer in use, every call ends |
| Viewer loop, statistics and clock (`main.rs`, `stats.rs`) | clock estimate, counters and sample windows per stream, the last reports | time sync, refresh, receive, report, end | relay's clock, publisher's clock in every packet | asymmetric delays, integer rounding, two streams that end one loop | measurements right up to the round trips; final reports complete |
| UI server (`main.rs` 800–1835) | selected channel, local voice, sharing flag, two media tasks | `/state.json`, `select-channel`, `screen-share`, `voice-state` | relay calls one by one; media tasks | calls that fail halfway, answers that are late, tasks that fail, other clients in between | what the console shows is what the relay has |
| Remote input (`remote_input.rs`, `control.rs` 879–1017) | bounded queue at the relay | send, poll | viewer, publisher | overflow drops the oldest; ids that change hands | bounded, gone with the stream, never delivered to another publisher |

Section 7 says which parts are not modelled.
`PROJECT.json` lists the hazards of this code line by line; the properties below
are aimed at them.

## 2. Modules

| Module | Models | Composes |
|---|---|---|
| `MediaTargets` | targets, their limits, `LowerTarget` | |
| `RelayControl` | the whole control state; one action per request that changes it | `MediaTargets` |
| `RoomDirectory` | abstract: who is in which room, what is on the air, who watches it | |
| `RelayRefinement` | the mapping under which `RelayControl` implements `RoomDirectory` | both |
| `RelayRuntime` | connections, their tasks and their cleanup | `RelayControl` |
| `RelayLocks` | which locks the tasks of a connection take, in which order | |
| `MediaEgress` | egress queues, forwarding, send tasks | |
| `PacketCodec` | the media datagram: encoding, decoding, validation | |
| `FrameTransport` | packetizing, a lossy reordering network with the relay in it, the reassembly buffer, loss counters | `PacketCodec` |
| `KeyframeRecovery` | the loop viewer – relay – broadcaster that repairs a picture | |
| `UiServer` | the channel console as a client of the relay | `RelayControl` |
| `ClientFlows` | the command-line clients as clients of the relay | `RelayControl` |
| `VoicePath` | a voice from a microphone to a speaker | |
| `ClockSync`, `SampleWindow` | pure: clock estimates and calibrated latency; the ring of samples and its percentiles | |
| `ViewerLoop` | the viewer's media loop with its clock and statistics | `ClockSync`, `SampleWindow` |
| `MCRelayRooms`, `MCRelayAdapt`, `MCRelayRuntime`, `MCUiServer`, `MCClientFlows` | instances for TLC | the above |
| `RelayControlProofs` | theorems: types, consistency, access, ladder and limits of the control state, refinement of the directory | `RelayControl`, `RelayRefinement` |
| `ConnectionProofs` | theorems about both ends of the connections: the concurrent relay and the command-line clients | `RelayRuntime`, `ClientFlows`, `RelayControlProofs` |
| `RelayLocksProofs`, `MediaEgressProofs`, `FrameTransportProofs`, `UiServerProofs`, `ViewerLoopProofs`, `VoicePathProofs` | theorems about the module of that name | that module |

Some modules contain definitions that start with "Mutant of X": variants of X with
a plausible bug. They are not part of any specification; each one shows that some
property really depends on X.

### How the modules correspond to the code

*RelayControl.* `ControlState` is behind one `tokio::sync::Mutex`, so a handler is
one atomic action. The maps of the code become sets of records (`participants`,
`published`, `subscriptions`, `voice`, `viewerStats`), sets of stream ids
(`keyframes`, `metered`) and a queue per stream (`remoteInput`, which remembers
only the sender of an event). `user` and `access` are the two fields of `Session`
that matter. Requests answered with an error change nothing and are not steps.
`LeaveRooms` is `leave_room` including the calls that trail it
(`remove_stream_state`, `remove_room_if_empty`), `DisconnectUser` is
`disconnect_user`. A poll is `PollPublisherFeedback`: it lowers the target of an
overloaded stream and consumes the keyframe request, as the code does in one call.
Names of users and rooms and the percentile windows of the metrics are left out.

*RoomDirectory and RelayRefinement.* What the relay promises its users, in seven
short actions: rooms are entered while new or inhabited, an id is on the air once,
and whoever goes takes everything of theirs, watchers included, along in one step.
`RelayRefinement` maps the control state to it (`opened` is the room ids handed out,
`onAir` forgets codec, kind, target and config). The cleanup of `leave_room`,
`remove_stream_state`, `remove_room_if_empty` and `disconnect_user`, spread over ten
tables in the code, has to add up to that one step.

*RelayRuntime.* `phase[c]` is where `serve_connection` is; `tasks[c]` counts control
tasks that have not handled their request, `registering[c]` those between the Hello
and the registration of the egress. The cleanup takes three steps because each is
under a different lock. `late` is history: did a task act after the loop ended?
`disconnect_user` does not look into the input queues of other publishers' streams, so
`Forgotten` allows for events of the user that wait at a stream still on the air.

*RelayLocks.* A task is the list of locks it takes and gives back. The locks of the
code are the session, the control state and the egress table; tokio's mutexes are
first come, first served.

*MediaEgress.* `Forward` starts a datagram, `Reserve`, `Enqueue` or `DropFull`
handle one viewer after the other, `EndForward` ends it: the egress mutex is held
throughout, so registration waits. The send task is `Receive` and `Send`. Depths
are per viewer and stream in packets and milliseconds; `PacketMediaDuration` keeps
the rounding of the code. The channel is one per viewer, for all of its streams.

*PacketCodec and FrameTransport.* A frame is its number of bytes; the bytes are
distinct tokens so that mixing two frames shows. A fragment is encoded into a
datagram (header fields in wire order, then the payload), the relay decodes it and
encodes it again, the viewer decodes it; `CanEncode`, `CanDecode` and `IsValid` are
the checks of `packet.rs`, and a failure of any ends the viewer's loop (`failed`).
`Packetize`, `Reassembles` and `Push` are translated with every check. The network
is a set of datagrams any of which may be received or lost. Fields keep their width:
ids and sequence numbers wrap at `U32`, and a viewer may join close to that point.

*KeyframeRecovery.* One datagram per frame. `requested` and `reported` are the two
things at the relay that make a poll ask for a keyframe; a change of resolution
(`Adapted`) makes one as well. `viewer[v]` is the state of a viewer's loop.

*UiServer.* The HTTP thread has a program counter: every call to the relay is a step, an
action of `RelayControl` by the console's session, and other clients act in between. A
call is refused where the relay does not allow it (the conditions of its handlers,
spelled out), fails where the connection is lost, and may succeed with an answer that is
late (`CONTROL_STREAM_TIMEOUT`), which the console takes for a failure. Assumed: a
request takes effect before the console gives up on it. Media tasks are running or
failed; their datagrams and polls do not change what the properties speak about.

*ClientFlows.* A client is its command line (`args`) and the rest of its script
(`todo`): `BroadcasterScript`, `ViewerScript` and the two listings are the sequences
of calls of `run_broadcaster_control_flow`, `run_viewer_control_flow` and their
variants for two streams. Each call is the action of `RelayControl`, or a refusal where
the relay does not allow it (`Allowed`: the conditions under which
`handle_client_envelope` answers without an error), which ends the client. `RoomsFor`
and `StreamsFor` are the discovery of rooms and streams, whose result is used in
later calls. `Lose` is a fault: the client gives up on its request, loses its connection
or is killed, and its current request is on its way (`pending`). Nothing is retried;
`Close` is the relay's cleanup, which waits for no request. `Late` is the request of a
client that has ended, handled by a detached task before the cleanup or after it, or
never. `origin` and `ghosts` are history: whose stream a viewer subscribed to, and
whose request was handled after the cleanup.

*VoicePath.* The microphone fills the buffers it was given in order and the loop
takes the finished one with the lowest index; the speaker plays the buffers lent to
it and `play` reclaims, resets or reopens, and may fail at any of those calls
(`PlayFails`). `DropSpeaker` is the speaker's Drop at the end of the loop, which ignores
a `waveOutReset` that fails and frees the buffers all the same; `speaker.freed` remembers
it. `gate` is what mute, push-to-talk and
deafen of the two ends make of a datagram at the relay. `sent`, `heard` and `lagged`
are history. External: the devices, which work at their own pace and may fail.

*ViewerLoop, ClockSync and SampleWindow.* `EstimateClockSync`, `SelectBest`,
`CalibratedLatency` and `Percentile` keep the integer arithmetic of the code.
`Estimates(offset)` is every answer a client whose clock is off by `offset` can get
with the given delays; publisher and viewer synchronise independently. A packet
completes a frame or not, belongs to a screen or a voice, decodes or not. A report is a
call of its own (`SendViewerStats`): `due` holds those to be sent before the loop goes
on, or, behind the loop, the last one of each stream, the screen first. Each may fail,
and then the relay may or may not have stored it.

## 3. Runs

| Run | Question | Instance |
|---|---|---|
| `relay_rooms` | Do the tables of the control state stay consistent, is access enforced, do limits hold, and does the relay implement the directory? | 2 sessions, 2 rooms at a time, 3 ever, 2 stream ids, 1 stream per room, queue of 1, token required |
| `relay_adapt` | Are targets mirrored in the config, lowered in order and to the floor; does a stream that ends take every report on its id along? | a publisher, 2 viewers, the real limits of the ladder, a stream id used again |
| `relay_runtime` | Is a connection forgotten after its cleanup, has every established viewer an egress? | 2 connections with 2 tasks each, a screen stream with input |
| `relay_ghost` | *(violated)* … even if a task was still running? | 2 connections with a task each |
| `relay_locks` | Can the tasks of the relay deadlock or starve? | 2 connections, a task of every kind |
| `media_egress` | Is the accounting exact, the queue bounded; does forwarding ever wait; who fills a channel that drops a datagram? | 2 viewers, 2 streams, capacity 3, budget 2 ms, 4 datagrams |
| `frame_transport` | Does only what was sent come out, is the buffer bounded, are the oldest frames given up, are losses counted, is anything honest refused? | 4 frames of 1 or 2 fragments, a viewer from the start or 3 frames before the ids wrap |
| `keyframe_recovery` | Does every viewer get a picture, and get it back after a loss? | 2 viewers, polls and reports every 2 frames |
| `ui_console` | Does the console ever publish behind the user's back, or show another voice state than the relay? | a console, another client, 2 rooms ever, a config the relay accepts and one it does not |
| `client_flows` | Do scripts clean up after themselves, can a broadcaster lose its stream, can a viewer be switched to another, whom does the relay not forget? | 3 clients in 4 casts, 2 rooms ever, 1 fault |
| `voice_path` | Is speech repeated or reordered, is a buffer freed while it is played, does a call end? | 2 capture buffers, 3 chunks, 2 playback buffers, 2 formats |
| `viewer_loop` | Are offset, latency and percentiles right, do the relay's reports keep up, are the last ones complete? | a screen of 3 frames and a voice of 1, 4 packets, window of 2, delays of 0 and 3001 µs |

### Why the bounds are enough

* *Control state.* Two rooms and two stream ids are what it takes to publish an id in
  one room that is, or was, used in another; a third room id is what it takes to refuse
  a room at the limit and to open one after another was closed. One stream per room and
  a queue of one put both at their limits. States with input queued for both streams are
  checked but not explored further (`OneInputQueue`). Two users never find a room of two
  full; `client_flows`, with three clients and the same limit, does.
* *Ladder.* The limits are those of `control.rs`, so every rung and rounding occurs.
* *Runtime and egress.* Two tasks per connection let one act while, and after, the
  connection is cleaned up; states in which a task of each connection has acted late are
  checked but not explored further (`SomethingToClaim`), nor are those with four
  unfinished tasks (`FewTasks`). A channel for three datagrams is more than the budget
  of one stream and less than that of two: durations of half and the whole budget exceed
  the budget, and four datagrams fill the channel with both streams and have one dropped
  for want of room.
* *Frames.* Four frames exceed the window and the media budget of the reassembly buffer,
  and with 16 ids three frames before the wrap-around cross it. The frame limit is not
  met: the media budget binds first, as the default of 150 ms does in the code.
  `BufferStaysBounded` proves the bound for every limit.
* *Clients.* The four casts are: a rival who waits for the id a viewer watches; both
  media kinds, a deafened viewer and somebody without a token; a listing and a muted
  voice in a room whose stored name differs from the one asked for; broadcasters that
  are refused or whose config the relay changes. Targets start at the floor of the
  ladder, which `relay_adapt` covers. One fault at any point of any script is enough
  for every way to fail halfway, and leaves one request to be handled at any later time.
* *Voice.* Three chunks use both buffers and one of them again; a speaker with two
  buffers is reset by the third frame behind.
* *Viewer.* Delays of nothing and of 3001 µs on either way are as asymmetric as the
  range allows, and odd numbers exercise every rounding; three frames wrap a window of
  two. Four packets are the targets of both streams, so either may end the loop.

`MaxRoomId`, `MaxTasks`, `MaxDatagrams`, `MaxFrames`, `MaxInFlight`, `MaxFaults`,
`MaxChunks`, `MaxRefreshes` and `MaxPackets` bound what is unbounded in the code.
Permutations of sessions and stream ids are used as symmetry in runs without
liveness properties only. `CHECK_DEADLOCK FALSE` stands where the instance comes to
rest when a bound is reached or the clients have ended; the relay itself waits for
requests then.

### Fairness

* `relay_adapt`: the publisher keeps polling (weak fairness); the broadcaster's loop
  polls every `feedback_interval_frames` frames. Viewers need not do anything.
* `relay_locks`: a task that holds or is granted a lock goes on; tokio's mutex is fair.
* `media_egress`: forwarding goes on. `ForwardingNeverBlocks` assumes nothing of the
  send tasks; `DepthReturnsToZero` states its own assumption, that they are polled.
* `keyframe_recovery`: the broadcaster's loop goes on, frames are captured again and
  again at rounds that poll, and the network lets some datagrams and some keyframes
  through (strong fairness): without that no protocol could repair anything.
* `client_flows`: a call is answered, refused or times out (`CONTROL_STREAM_TIMEOUT`);
  a media loop ends because its frame target and its idle timeout bound it; a process
  that ends closes its connection, which the relay notices at the latest by QUIC's
  idle timeout. Nothing is assumed of a request whose client has ended: it may be
  handled at any time or never.
* `voice_path`: the sender's ticker ticks and its calls are answered or time out, a
  datagram arrives or is lost, and the receiver's loop takes what is there or times
  out. Nothing is assumed of the devices: they may never record or play anything.

## 4. What the violated run shows, and other divergences

`relay_ghost`. Control tasks are detached (`control_stream.rs:95`) and the cleanup
does not wait for them. A request that was being handled when the connection broke
takes effect after `disconnect_user`; its user stays in the room for ever.
`relay_runtime` shows that the cleanup is right for connections without such tasks. The
same happens to the command-line clients of `client_flows`: `EverythingDrains` excepts
the users whose last request was handled after their cleanup, and says that a name, a
place in a room with its voice state and a report are all that can stay of them.

Met while modelling, and not the subject of a run:

* `ViewerStatsReport` is stored for whatever stream it names (`control.rs:723`), so a
  client that does not subscribe counts as a degraded viewer, where
  `docs/protocol.md:75` speaks of subscribed ones.
* Streams of one viewer can crowd each other out. `docs/architecture.md:18` speaks of
  "per-viewer per-stream bounded egress queues", and line 7 of streams that drop their own
  datagrams only; `docs/protocol.md:85` says that "other subscribed streams for the same
  viewer keep their own budget". The budget is per stream, but the channel is one per
  viewer (`media.rs:63`): where the budgets of its streams together exceed the capacity,
  one stream fills it and another one's datagrams are dropped. `CrowdedOutByOthers` says
  what does hold, that no stream crowds itself out.
* A `waveOutReset` that fails when the speaker is dropped is ignored (`audio.rs:542`), and
  the pending buffers are freed while the device may play them. `DeviceOwnsPending`
  excepts this case, and `SpeechIsSentOnce` claims nothing of what is heard afterwards.
  The Drop of the microphone (`audio_capture.rs:346`) ignores errors as well; there
  the buffers are not modelled beyond the end of the loop.
* `disconnect_user` (`control.rs:522`) leaves input of the user who went queued at streams
  that others publish; the publisher still gets it.
* A voice task that failed makes the first mute of the console return before the
  stream is unpublished (`main.rs:1560`), and every later one at once because there is
  no task any more; the stream stays, and voice cannot be started again in that room.
* A screen share that fails leaves the room (`main.rs:1394`) and takes a voice stream
  that was running in it down.
* Once two capture buffers are finished the one with the lower index is sent first
  (`audio_capture.rs:311`), whichever was recorded first: `SpeechIsSentOnce` claims
  order only while the sender keeps up.
* Room names are sanitized when a room is created, but viewers look for the raw name
  (`control.rs:1426`): such a room is found only if it is the only one.
* After a wrap-around of frame ids the smallest id is not the oldest frame
  (`decode/mod.rs:160`). `DropsOldest` is therefore stated of the numerical order and of
  ids less than half the id space apart (section 5); the
  properties about what is delivered and counted hold across the wrap-around.

## 5. Refinement and proofs

`relay_rooms` checks `ImplementsDirectory`: under the mapping of `RelayRefinement` every
step of `RelayControl` is one step of `RoomDirectory` or a stutter;
`RelayImplementsDirectory` proves it.

Every theorem holds for all values of the constants that satisfy the named assumptions
of the modules (`LimitAssumption`, `InputAssumption`, `DirectoryAssumption`,
`TaskAssumption`, `LockAssumption`, `EgressAssumption`, `ViewerAssumption`,
`VoiceAssumption`, `WidthAssumption`, `TransportAssumption`, `UiAssumption`,
`FlowAssumption`). They give types and exclude the zeros that the code replaces or
refuses, and intervals of zero in `KeyframeRecovery` only, where nothing would be asked
for. Some say more. `DirectoryAssumption`: the directory knows the ids the relay can
hand out. `ViewerAssumption`: the offsets are earlier than `Start`, because times of the
code are unsigned. `TransportAssumption`: the jitter budget holds a frame and is below
the saturation of `pending_media_ms`. `UiAssumption` and `FlowAssumption`: a client has
different stream ids for its screen and its voice, which `voice_stream_id` enforces.
Three theorems about the egress have a hypothesis of their own, see below. Each
inductive invariant was checked by TLC on the instance of its run first.

### Control state (`RelayControlProofs`)

* `TypeCorrect`: `Spec => []TypeOK`. One lemma per action; targets and configs need
  that `ClampTarget` and `LowerTarget` stay in range, which are lemmas about
  `MediaTargets`.
* `TablesConsistent`: `Spec => []Consistent`. None of the consistency properties is
  inductive alone: that a leave keeps `RoomsInhabited` needs `PublishersArePresent`
  (a room without participants has no streams), `NoStreamResidue` needs
  `StreamIdUnique` (the state of a stream goes with *the* stream of that id), and
  `SubscriptionsAreLive` needs both. Their conjunction with `TypeOK` is inductive.
  `StreamIdsUnique` and `StreamsLeaveNothing` are the two parts worth naming.
* `StreamsGoWhole`: `Spec => StreamsEndWhole`, an action property. Reports are stored for
  any id, published or not, so no invariant can say that they belong to a stream; what
  holds is that the step that ends a stream takes along every report on its id, with
  the rest of its state. The rest is `NoStreamResidue` after the step; for the
  reports `ReportsGo` goes through the ways a stream ends.
* `AccessIsEnforced`: everyone in a room, publishing, watching, reporting or with
  input queued is the user of a session with access. The invariant adds that user
  ids below `nextUserId` are the ones handed out, and that sessions do not share one;
  a session never loses access, so every other action only has to add granted users.
  `IdentitiesAreUnique` is its identity part.
* `ConfigsMirrorTargets`: what viewers poll is what the relay adapts. The invariant
  also says which targets a config can have been derived from.
* `LadderIsOrdered`: `Spec => LadderInOrder`, an action property: a poll never raises
  a target and touches a rung only when the one before is at its floor. It rests on
  `LowerTargetOrder`, a lemma about the arithmetic, and on the type invariant.
* `LimitsHold`: `Spec => []WithinLimits`. The invariant adds that the tables are
  finite, without which a cardinality says nothing. A request is sorted by its shape:
  those that add one element are guarded by the limit they could exceed, the others
  shrink the tables or leave them alone.
* `RelayImplementsDirectory`: a lemma per action. Departures are the work:
  `LeaveRooms` and `DisconnectUser` compute their tables in stages, and each stage has
  to come out as the one set the directory takes away. It uses `Consistent` (a viewer
  of a stream that goes is found through the stream), `IdentityUnique` and an
  invariant of its own, `IdsInv`: users are numbered by the sessions that have said
  Hello, so they are users of the directory.

### The concurrent relay (`ConnectionProofs`, `RelayLocksProofs`)

* `RuntimeRunsControl`: `RuntimeSpec => Spec`. Every step of a connection, a task or a
  cleanup is a step of the control state or leaves it alone, so all of the theorems
  above hold of the concurrent relay; the next two use them.
* `CleanedUp` and `EstablishedHaveEgress`. `RuntimeInv` adds what holds between the
  steps of the cleanup: it goes past its first step only for a session with a user,
  and between the last two the egress is gone. After the last step the user is in no
  table (`Absent`), and by `Consistent` what input of theirs is left waits at a stream that
  is published. What other connections do is
  harmless because users differ (`IdentitiesAreUnique`) and because a step of one
  session adds nothing of another's user to any table.
* `NobodyWaitsDownwards`: session before control state before egress table, for any
  number of connections and tasks. The programs of `RelayLocks` are concatenations and
  nestings of locked sections, and the argument follows them: a `Complete` program
  gives back what it takes, once, and takes a lock only above those it holds; the empty
  program is complete, and so is one program after another, and a program within a
  lock below all of its own. What is left of a complete program after some steps is
  still `Disciplined`, and says which locks its task holds (`Owes`). `LockInv` ties
  that to the owners and queues of the locks.

### Media egress (`MediaEgressProofs`)

* `TypesHold`: for every capacity and budget, and with it that the depth counter is at most
  the budget and the channel within its capacity; these are inductive together.
* `DepthsAreExact`: the depth of a stream is the sum over what is queued, in hand and
  reserved of it, wherever the forwarder and the send tasks are. The invariant says that
  a datagram is in one of those places only, so that each step moves one datagram and
  the sums change by its duration. Sums are `MapThenSumSet`, a fold of the community
  modules, and hence defined by recursion; that adding an element adds its duration is
  proved by a least counterexample among the sizes of sets, which needs no induction
  theorem.
* `QueuesStayBounded`, `CrowdedOutOnlyByOthers`: what the datagrams themselves add up to
  is bounded because the depth is and because it is exact. Every datagram counts for at
  least a millisecond, so a stream has at most a budget of them, and the other streams
  fill the rest of a full channel.
* All but `TypesHold` assume `Budget < MaxU16`. The attempt without that assumption failed
  for a reason in the code: `try_reserve_stream_depth` compares a *saturating* u16 sum with
  the budget (`media.rs:336`), and with `--viewer-queue-budget-ms 65535` the saturated sum
  passes. Nothing is refused any more and the depth loses what was cut off; TLC
  confirms it on an instance. Only the channel bounds what is queued then.

### Frames (`FrameTransportProofs`)

* `CodecRoundTrip`: decoding gives back what was encoded, for every packet whose fields
  fit their widths, so the relay may take datagrams apart. A lemma about the fields in
  wire order; the other theorems see datagrams only through it.
* `DeliveredWasSent`, `NothingIsRefused`. `Travel` says what is on its way: every
  datagram, and every fragment in the buffer, is a fragment `Packetize` made of a frame
  that was sent, and the fragments under one id are of one frame as long as ids are
  not used again. `Unique` says that no fragment is in two places and nothing of a
  delivered frame is still to come. Hence a complete set of fragments is one frame, cut
  at the right places, and it is delivered once. `NeverRefused` has the hypothesis
  that fewer frames than ids have been sent, `DeliveredIsSent` has none: that ids come
  round again costs frames, but never mixes them.
* `BufferStaysBounded`: by cardinalities; every eviction leaves room for the frame that
  comes. `LossStaysCounted`: modular arithmetic on sequence numbers, in whatever order
  they arrive.
* `OldestIsDropped`: an action property. The proof needed a hypothesis that the model's
  first statement did not have: `frame_is_older_than_window` compares ids by their
  distance modulo 2^32, so an id half the id space or more behind is taken for newer and
  is kept, while the two evictions after it compare numbers. `DropsOldest` therefore
  speaks of at most half as many frames as there are ids, and of no wrap-around.

### Command-line clients (`ConnectionProofs`)

* `FlowsUseControl`: `FlowSpec => Spec`. What a client does at the relay is a request, a
  forwarded datagram or a disconnect of its session with inputs the relay may get; the
  theorems about the control state hold while the clients run, and are used.
* `ClientsEndClean`, `ViewersAreNeverSwitched`, `PublishersAreNeverRefused`: for every set
  of clients, every command line and every fault. The argument has three parts.
  - *Scripts.* Every call has a `Rank`, and a script is in the order of ranks
    (`InOrder`), made of calls that suit the command line (`Suits`) and complete
    (`Required`: JoinRoom, LeaveRoom, a CreateRoom, PublishStream or
    UnsubscribeStream where the client needs it). `ScriptPart` shows it of all scripts
    by joining parts of ascending ranks. What is left of a script stays so (`Advance`), and
    therefore the rank of the next call (`Pos`) tells which calls have been made.
  - *The client.* `CoreInv` holds however it fares: one room at most, different streams
    for different kinds, nothing watched, sent or reported before the streams were
    listed, input only at streams it watches, and `NotSwitched`. It has to survive a
    request that is handled late, before or after the cleanup: `PendingInv` says that
    the client of such a request was `Prepared` for it when it sent it, and still is, so
    the request is what an `Acting` client does. `GoingInv` holds while it goes on, and
    says by rank what it has at the relay: it is in its room from CreateRoom or JoinRoom
    to LeaveRoom, its stream is on the air from PublishStream to UnpublishStream, and a
    report that is stored is one a later UnsubscribeStream will remove. At the end
    nothing is left but input, which by `NotSwitched` waits for the right publisher.
  - *The others.* A step of another session is `Steady`: it takes nobody else's place or
    stream away and adds nothing in their name (`Spares`), and a stream on the air after it
    was there before or its id was free (`NothingReplaced`). Somebody may take over
    the id of a stream that ended, but then nobody watches it (`Consistent`): that
    is why nobody is switched.

### Console (`UiServerProofs`)

* `NoShareIsHidden`, `SendersStay`, `PublishesWhereSelected`, `VoiceIsPushed`. The relay is
  seen through `Mine`, the console's own streams, and a few facts about rooms (`Relay`);
  each call is reduced to its effect on those, however it is answered, and other
  clients have none. The rest is about the one thread: `ConsoleInv` says for each of its
  steps what may be published and where (`Where`, `Places`, `Screens`), which tasks may
  run (`Senders`, `Silence`) and when the voice state the console shows is the one at the
  relay (`Pushed`).

### Media loops (`ViewerLoopProofs`, `VoicePathProofs`)

* `OffsetIsWithinRtt`, `LatencyStaysCalibrated`: linear arithmetic with the divisions
  of the code, for all delays, processing times and offsets and any number of samples
  and refreshes. Frames slower than 65 s saturate the field that shows them, which
  the statement of `LatencyIsCalibrated` has a case for.
* `ReportsStayCurrent`: for every interval, zero among them, and all targets. The invariant
  adds which reports are due where: none or the one of the stream just counted inside the
  loop, and behind it those of the streams received and not yet reported, in order.
* `WindowStaysRecent`: for every capacity. The ring invariant says where in the ring
  the i-th of the last measurements is; a rotation of a sequence has as many elements
  up to a value as the sequence itself, by counting through a bijection of their
  places; and a percentile is characterised by those counts.
* `SpeechStaysSentOnce`: a chunk is in at most one capture buffer, and in none once it
  has been sent; on the way it is in one of the four places (to the relay, from the
  relay, playing, heard). As long as the sender keeps up everything in a buffer is newer
  than everything sent.
* `DeviceStaysOwner`: inductive with the types, and with what `freed` means: the loop has
  ended and the speaker is closed.

### Only model-checked

* Liveness, which is out of the prover's reach: `LadderReachesFloor`,
  `EverythingFinishes`, `ForwardingNeverBlocks`,
  `DepthReturnsToZero`, `EverythingDrains`, `CallEnds`, and the two properties of
  `KeyframeRecovery`, `LossIsRepaired` and `NewViewerSeesPicture`. Every other property
  of a passing run is stated by a theorem.
* What a recursive definition computes for every input, beyond the sums above.
* That the conditions in `Allowed`, and those of the console's refusals, are exactly those
  under which the relay's actions are not enabled: the prover does not know `ENABLED`.
  TLC compared `Allowed` with `ENABLED` in every reachable state of `client_flows`.

## 6. Plan

1. *(done)* control state, ladder, runtime, locks, egress, frames, keyframe recovery,
   console; type, consistency, access and ladder theorems.
2. *(done)* packet codec and wrap-around; the command-line clients composed with the
   relay, with faults; the voice path with its devices; the viewer's loop, clock and
   statistics; the abstract directory and its refinement.
3. *(done)* limits, refinement of the directory, the concurrent relay as an instance of
   the control state, its cleanup and its locks; egress accounting; clock, latency,
   percentiles and reports; the voice path.
4. *(done)* codec, reassembly and loss accounting; the console; the command-line clients
   as users of the control state.

What is left for TLC is listed at the end of section 5.

## 7. Not modelled

* `router.rs`: not used by the relay.
* The encoding of control messages (`protocol/control.rs`, `codec.rs`): serde
  derivations without control flow. A request is a choice of its fields here.
* Capturing, scaling, encoding and drawing pixels (`capture/`, `encode/`,
  `decode/h264.rs` but for which frames it can decode, `playback/`,
  `media_foundation.rs`): computation and adapters around operating-system libraries.
* `remote_input.rs`: converting and injecting events is I/O; the queue it is fed from,
  the viewer that fills it and the broadcaster that polls it are modelled.
* The counters of `metrics.rs`: they only grow and nothing reads them but a report; its
  window of route latencies is the same code as the viewer's, which `SampleWindow` is.
* HTTP parsing and the rendering of the state in the UI server, `apps/desktop-ui`.
* `main.rs`, `config.rs`, `transport.rs` of the relay: command line and sockets.
* `load-test`: a driver.
