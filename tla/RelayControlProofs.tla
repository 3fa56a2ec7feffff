------------------------- MODULE RelayControlProofs -------------------------
(***************************************************************************)
(* Proofs about the relay's control state, for every number of sessions,   *)
(* streams and rooms and every value of the limits: its type invariant,    *)
(* the consistency of its tables, who has access, how the targets of a     *)
(* stream are adapted, its limits, and that it implements the directory of *)
(* rooms.                                                                  *)
(***************************************************************************)
EXTENDS RelayRefinement, FiniteSetTheorems, TLAPS

-----------------------------------------------------------------------------
(***************************************************************************)
(* Arithmetic of the targets.                                              *)
(***************************************************************************)

\* The limits of control.rs are in order.
LEMMA Limits ==
    /\ MinBitrate \in Nat /\ MaxBitrate \in Nat /\ MinBitrate <= MaxBitrate
    /\ MinFps \in Nat /\ MaxFps \in Nat /\ MinFps <= MaxFps
    /\ MinWidth \in Nat /\ MaxWidth \in Nat /\ MinWidth <= MaxWidth
    /\ MinHeight \in Nat /\ MaxHeight \in Nat /\ MinHeight <= MaxHeight
    /\ DegradedPercent \in Nat
BY SMT DEF MinBitrate, MaxBitrate, MinFps, MaxFps, MinWidth, MaxWidth, MinHeight, MaxHeight,
           DegradedPercent

\* The default target of publish_stream is legal.
LEMMA DefaultTargetType == DefaultTarget \in Target
<1>1. DefaultBitrate \in Nat /\ MinBitrate <= DefaultBitrate /\ DefaultBitrate <= MaxBitrate
    BY SMT DEF DefaultBitrate, MinBitrate, MaxBitrate
<1>2. DefaultFps \in Nat /\ MinFps <= DefaultFps /\ DefaultFps <= MaxFps
    BY SMT DEF DefaultFps, MinFps, MaxFps
<1> QED BY <1>1, <1>2, Limits DEF DefaultTarget, Target

\* Rust's clamp stays within the limits it is given.
LEMMA ClampType ==
    ASSUME NEW x \in Int, NEW lo \in Int, NEW hi \in Int, lo <= hi
    PROVE  Clamp(x, lo, hi) \in lo..hi
BY DEF Clamp, Larger, Smaller

\* Clamping, as the handlers of targets and configs do it, yields legal targets.
LEMMA ClampTargetType ==
    ASSUME NEW b \in Int, NEW f \in Int, NEW w \in Int, NEW h \in Int
    PROVE  ClampTarget(b, f, w, h) \in Target
<1>1. /\ Clamp(b, MinBitrate, MaxBitrate) \in MinBitrate..MaxBitrate
      /\ Clamp(f, MinFps, MaxFps) \in MinFps..MaxFps
      /\ Clamp(w, MinWidth, MaxWidth) \in MinWidth..MaxWidth
      /\ Clamp(h, MinHeight, MaxHeight) \in MinHeight..MaxHeight
    BY Limits, ClampType
<1>2. /\ ClampWidth(w, h) \in {0} \cup MinWidth..MaxWidth
      /\ ClampHeight(w, h) \in {0} \cup MinHeight..MaxHeight
    BY <1>1 DEF ClampWidth, ClampHeight
<1> QED BY <1>1, <1>2 DEF ClampTarget, Target

\* A resolution step keeps both dimensions integers.
LEMMA ReduceResolutionType ==
    ASSUME NEW w \in Nat, NEW h \in Nat
    PROVE  ReduceResolution(w, h)[1] \in Int /\ ReduceResolution(w, h)[2] \in Int
<1>1. CASE w = 0 \/ h = 0
    BY <1>1 DEF ReduceResolution
<1>2. CASE ~(w = 0 \/ h = 0)
    <2> DEFINE w1 == Smaller(Larger(Percent(w), MinWidth), w)
               h1 == Smaller(Larger((w1 * h) \div w, MinHeight), h)
               w2 == IF h1 = h THEN Smaller(Larger((h1 * w) \div h, MinWidth), w) ELSE w1
    <2>1. w1 \in Int
        BY Limits DEF Smaller, Larger, Percent
    <2>2. (w1 * h) \div w \in Int
        BY <1>2, <2>1
    <2>3. h1 \in Int
        BY <2>2, Limits DEF Smaller, Larger
    <2>4. (h1 * w) \div h \in Int
        BY <1>2, <2>3
    <2>5. w2 \in Int
        BY <2>1, <2>4, Limits DEF Smaller, Larger
    <2>6. ReduceResolution(w, h) = IF w1 = w /\ h1 = h THEN <<w, h>>
                                   ELSE <<ClampWidth(w2, h1), ClampHeight(w2, h1)>>
        BY <1>2 DEF ReduceResolution
    <2> HIDE DEF w1, h1, w2
    <2>7. ClampWidth(w2, h1) \in Int /\ ClampHeight(w2, h1) \in Int
        <3>1. Clamp(w2, MinWidth, MaxWidth) \in Int /\ Clamp(h1, MinHeight, MaxHeight) \in Int
            BY <2>3, <2>5, Limits, ClampType
        <3> QED BY <3>1 DEF ClampWidth, ClampHeight
    <2> QED BY <2>6, <2>7
<1> QED BY <1>1, <1>2

\* A rung of the ladder leads from a legal target to a legal target.
LEMMA LowerTargetType ==
    ASSUME NEW t \in Target
    PROVE  LowerTarget(t) \in Target
<1> DEFINE b == Larger(Percent(t.bitrate), MinBitrate)
           f == IF b = t.bitrate /\ t.fps > MinFps THEN Larger(Percent(t.fps), MinFps)
                ELSE t.fps
           r == IF b = t.bitrate /\ f = t.fps THEN ReduceResolution(t.width, t.height)
                ELSE <<t.width, t.height>>
<1>1. /\ t.bitrate \in Nat /\ t.fps \in Nat
      /\ t.width \in Nat /\ t.height \in Nat
    BY Limits DEF Target
<1>2. b \in Int /\ f \in Int
    BY <1>1, Limits DEF Larger, Percent
<1>3. r[1] \in Int /\ r[2] \in Int
    BY <1>1, ReduceResolutionType
<1>4. LowerTarget(t) = ClampTarget(b, f, r[1], r[2])
    BY DEF LowerTarget
<1> QED BY <1>2, <1>3, <1>4, ClampTargetType

-----------------------------------------------------------------------------
(***************************************************************************)
(* The type invariant.                                                     *)
(***************************************************************************)

\* Dropping queued input, or taking a batch of it, leaves a queue of users.
LEMMA InputQueueType ==
    ASSUME NEW q \in Seq(UserIds), NEW n \in Nat \ {0}
    PROVE  /\ MakeRoom(q) \in Seq(UserIds)
           /\ SubSeq(q, n + 1, Len(q)) \in Seq(UserIds)
<1>1. MakeRoom(q) \in Seq(UserIds)
    BY LimitAssumption DEF MakeRoom
<1>2. SubSeq(q, n + 1, Len(q)) \in Seq(UserIds)
    OBVIOUS
<1> QED BY <1>1, <1>2

\* An authorized session has a user.
LEMMA AuthorizedUser ==
    ASSUME TypeOK, NEW c \in Sessions, Authorized(c)
    PROVE  user[c] \in UserIds
BY DEF TypeOK, Authorized, UserIds

\* The voice state a participant starts with.
LEMMA DefaultVoiceType == DefaultVoice \in VoiceFlags
BY DEF DefaultVoice, VoiceFlags

\* Removing rooms, streams and reports keeps the types of the tables.
LEMMA LeaveRoomsType ==
    ASSUME TypeOK, NEW u, NEW R, NEW stale, LeaveRooms(u, R, stale),
           UNCHANGED <<user, access, nextUserId>>, names' \subseteq names
    PROVE  TypeOK'
<1> USE DEF LeaveRooms
<1>1. participants' \subseteq participants /\ published' \subseteq published
    OBVIOUS
<1>2. subscriptions' \subseteq subscriptions
    OBVIOUS
<1>3. /\ viewerStats' \subseteq viewerStats /\ keyframes' \subseteq keyframes
      /\ metered' \subseteq metered
    BY DEF RemoveStreamState
<1>4. remoteInput' \in [StreamIds -> Seq(UserIds)]
    BY DEF RemoveStreamState, TypeOK
<1>5. rooms' \subseteq rooms /\ voice' \subseteq voice
    BY DEF RemoveEmptyRooms
<1>6. nextRoomId' = nextRoomId
    OBVIOUS
<1> HIDE DEF LeaveRooms
<1> QED BY <1>1, <1>2, <1>3, <1>4, <1>5, <1>6 DEF TypeOK

\* The initial tables are empty.
LEMMA TypeInit == Init => TypeOK
BY DEF Init, TypeOK, NoUser

\* A legal target makes a legal stream, with or without a config.
LEMMA WithTargetType ==
    ASSUME NEW p \in Stream, NEW t \in Target
    PROVE  WithTarget(p, t) \in Stream
<1>1. [fps |-> t.fps, width |-> t.width, height |-> t.height] \in Config
    BY DEF Config, Target
<1> QED BY <1>1 DEF WithTarget, Stream

\* No request and no datagram of a session breaks the types.
LEMMA TypeRequest ==
    ASSUME TypeOK, NEW c \in Sessions, Request(c) \/ Forward(c)
    PROVE  TypeOK'
<1>1. CASE Hello(c)
    <2>1. access' \in [Sessions -> BOOLEAN]
        BY <1>1, LimitAssumption, Zenon DEF Hello, TypeOK
    <2> DEFINE u == IF user[c] = NoUser THEN nextUserId ELSE user[c]
    <2>2. u \in UserIds
        BY DEF TypeOK, UserIds, NoUser
    <2>3. /\ user' = [user EXCEPT ![c] = u] /\ names' = names \cup {u}
          /\ nextUserId' \in Nat \ {0}
        BY <1>1 DEF Hello, TypeOK
    <2> HIDE DEF u
    <2>4. user' \in [Sessions -> Nat] /\ names' \subseteq UserIds
        BY <2>2, <2>3 DEF TypeOK, UserIds
    <2> QED BY <1>1, <2>1, <2>3, <2>4 DEF Hello, TypeOK, roomVars, streamVars, perStream
<1>2. CASE Authenticate(c)
    BY <1>2 DEF Authenticate, TypeOK, roomVars, streamVars, perStream
<1>3. CASE Forward(c)
    <2>1. PICK s \in StreamIds : RecordForward(c, s)
        BY <1>3 DEF Forward
    <2> QED BY <2>1 DEF RecordForward, TypeOK, sessionVars, roomVars, streamVars
<1>4. CASE RoomRequest(c)
    <2>1. CASE CreateRoom(c)
        <3>1. user[c] \in UserIds
            BY <2>1, AuthorizedUser DEF CreateRoom
        <3>2. voice' \subseteq [room : RoomIds, user : UserIds, flags : VoiceFlags]
            BY <2>1, <3>1, DefaultVoiceType DEF CreateRoom, EnsureVoiceState, TypeOK, RoomIds
        <3> QED BY <2>1, <3>1, <3>2
                DEF CreateRoom, TypeOK, RoomIds, sessionVars, streamVars, perStream
    <2>2. ASSUME NEW r \in rooms, JoinRoom(c, r) PROVE TypeOK'
        <3>1. user[c] \in UserIds
            BY <2>2, AuthorizedUser DEF JoinRoom
        <3>2. voice' \subseteq [room : RoomIds, user : UserIds, flags : VoiceFlags]
            BY <2>2, <3>1, DefaultVoiceType DEF JoinRoom, EnsureVoiceState, TypeOK, RoomIds
        <3> QED BY <2>2, <3>1, <3>2
                DEF JoinRoom, TypeOK, RoomIds, sessionVars, streamVars, perStream
    <2>3. ASSUME NEW r \in rooms, LeaveRoom(c, r) PROVE TypeOK'
        BY <2>3, LeaveRoomsType DEF LeaveRoom, sessionVars
    <2>4. ASSUME NEW r \in rooms, NEW in \in VoiceInputs, SetVoiceState(c, r, in)
          PROVE  TypeOK'
        <3>1. user[c] \in UserIds
            BY <2>4, AuthorizedUser DEF SetVoiceState
        <3> DEFINE flags == [in EXCEPT !.speaking = @ /\ ~in.muted]
        <3>2. flags \in VoiceFlags
            BY InputAssumption DEF VoiceFlags
        <3>3. voice' = {v \in voice : ~(v.room = r /\ v.user = user[c])} \cup
                       {[room |-> r, user |-> user[c], flags |-> flags]}
            BY <2>4 DEF SetVoiceState
        <3> HIDE DEF flags
        <3>4. voice' \subseteq [room : RoomIds, user : UserIds, flags : VoiceFlags]
            BY <3>1, <3>2, <3>3 DEF TypeOK
        <3> QED BY <2>4, <3>4 DEF SetVoiceState, TypeOK, sessionVars, streamVars, perStream
    <2> QED BY <1>4, <2>1, <2>2, <2>3, <2>4 DEF RoomRequest
<1>5. CASE StreamRequest(c)
    <2>1. PICK s \in StreamIds : 
            \/ \E r \in rooms :
                  \/ \E codec \in Codecs, kind \in Kinds : PublishStream(c, r, s, codec, kind)
                  \/ UnpublishStream(c, r, s)
                  \/ SubscribeStream(c, r, s)
                  \/ UnsubscribeStream(c, r, s)
                  \/ RequestKeyframe(c, r, s)
                  \/ SendRemoteInput(c, r, s)
                  \/ \E n \in PollSizes : PollRemoteInput(c, r, s, n)
                  \/ \E codec \in Codecs, in \in ConfigInputs : SetStreamConfig(c, r, s, codec, in)
                  \/ \E b \in BitrateInputs : SetTargetBitrate(c, r, s, b)
                  \/ \E f \in FpsInputs : SetTargetFramerate(c, r, s, f)
            \/ \E report \in Reports : ReportViewerStats(c, s, report)
            \/ PollPublisherFeedback(c, s)
        BY <1>5 DEF StreamRequest
    <2>2. ASSUME Authorized(c) PROVE user[c] \in UserIds
        BY <2>2, AuthorizedUser
    <2>3. ASSUME NEW r \in rooms, NEW codec \in Codecs, NEW kind \in Kinds,
                 PublishStream(c, r, s, codec, kind)
          PROVE  TypeOK'
        <3>1. user[c] \in UserIds
            BY <2>2, <2>3 DEF PublishStream
        <3> QED BY <2>3, <3>1, DefaultTargetType
                DEF PublishStream, TypeOK, Stream, sessionVars, roomVars, perStream
    <2>4. ASSUME NEW r \in rooms, UnpublishStream(c, r, s) PROVE TypeOK'
        <3>1. published' \subseteq published /\ subscriptions' \subseteq subscriptions
            BY <2>4 DEF UnpublishStream
        <3>2. /\ viewerStats' \subseteq viewerStats /\ keyframes' \subseteq keyframes
              /\ metered' \subseteq metered
            BY <2>4 DEF UnpublishStream, RemoveStreamState
        <3>3. remoteInput' \in [StreamIds -> Seq(UserIds)]
            BY <2>4 DEF UnpublishStream, RemoveStreamState, TypeOK
        <3>4. rooms' \subseteq rooms /\ voice' \subseteq voice
            BY <2>4 DEF UnpublishStream, RemoveEmptyRooms
        <3> QED BY <2>4, <3>1, <3>2, <3>3, <3>4 DEF UnpublishStream, TypeOK, sessionVars
    <2>5. ASSUME NEW r \in rooms, SubscribeStream(c, r, s) PROVE TypeOK'
        <3>1. user[c] \in UserIds
            BY <2>2, <2>5 DEF SubscribeStream
        <3> QED BY <2>5, <3>1 DEF SubscribeStream, TypeOK, sessionVars, roomVars
    <2>6. ASSUME NEW r \in rooms, UnsubscribeStream(c, r, s) PROVE TypeOK'
        BY <2>6 DEF UnsubscribeStream, TypeOK, sessionVars, roomVars
    <2>7. ASSUME NEW r \in rooms, RequestKeyframe(c, r, s) PROVE TypeOK'
        BY <2>7 DEF RequestKeyframe, TypeOK, sessionVars, roomVars, streamVars
    <2>8. ASSUME NEW r \in rooms, SendRemoteInput(c, r, s) PROVE TypeOK'
        <3>1. user[c] \in UserIds /\ remoteInput[s] \in Seq(UserIds)
            BY <2>2, <2>8 DEF SendRemoteInput, TypeOK
        <3>2. Append(MakeRoom(remoteInput[s]), user[c]) \in Seq(UserIds)
            BY <3>1, InputQueueType, SMTT(30)
        <3> QED BY <2>8, <3>2 DEF SendRemoteInput, TypeOK, sessionVars, roomVars, streamVars
    <2>9. ASSUME NEW r \in rooms, NEW n \in PollSizes, PollRemoteInput(c, r, s, n)
          PROVE  TypeOK'
        <3> DEFINE k == Smaller(Larger(n, 1), MaxInputBatch)
        <3>1. k \in Nat \ {0}
            BY InputAssumption, LimitAssumption DEF Smaller, Larger
        <3>2. SubSeq(remoteInput[s], k + 1, Len(remoteInput[s])) \in Seq(UserIds)
            BY <3>1, InputQueueType DEF TypeOK
        <3> QED BY <2>9, <3>2 DEF PollRemoteInput, TypeOK, sessionVars, roomVars, streamVars
    <2>10. ASSUME NEW report \in Reports, ReportViewerStats(c, s, report) PROVE TypeOK'
        <3>1. user[c] \in UserIds
            BY <2>2, <2>10 DEF ReportViewerStats
        <3> QED BY <2>10, <3>1 DEF ReportViewerStats, TypeOK, sessionVars, roomVars, streamVars
    <2>11. ASSUME NEW p \in published, NEW q \in Stream, Replace(p, q)
           PROVE  published' \subseteq Stream
        BY <2>11 DEF Replace, TypeOK
    <2>12. ASSUME NEW p \in published
           PROVE  /\ p \in Stream /\ p.target \in Target
                  /\ p.target.bitrate \in Nat /\ p.target.fps \in Nat
                  /\ p.target.width \in Nat /\ p.target.height \in Nat
        <3>1. p \in Stream /\ p.target \in Target
            BY DEF TypeOK, Stream
        <3> QED BY <3>1, Limits DEF Target
    <2>13. ASSUME NEW r \in rooms, NEW codec \in Codecs, NEW in \in ConfigInputs,
                  SetStreamConfig(c, r, s, codec, in)
           PROVE  TypeOK'
        <3>1. in.fps \in Nat /\ in.width \in Nat /\ in.height \in Nat
            BY InputAssumption
        <3> DEFINE t(p) == [ClampTarget(p.target.bitrate, in.fps, in.width, in.height)
                               EXCEPT !.bitrate = p.target.bitrate]
                   q(p) == [p EXCEPT !.target = t(p),
                                     !.config = [fps |-> t(p).fps, width |-> t(p).width,
                                                 height |-> t(p).height]]
        <3>2. PICK p \in published : Replace(p, q(p))
            BY <2>13 DEF SetStreamConfig
        <3>3. t(p) \in Target
            <4>1. ClampTarget(p.target.bitrate, in.fps, in.width, in.height) \in Target
                BY <2>12, <3>1, ClampTargetType
            <4>2. p.target \in Target
                BY <2>12
            <4> QED BY <4>1, <4>2 DEF Target
        <3>4. q(p) \in Stream
            <4>1. [fps |-> t(p).fps, width |-> t(p).width, height |-> t(p).height] \in Config
                BY <3>3 DEF Config, Target
            <4>2. p \in Stream
                BY <2>12
            <4> HIDE DEF t
            <4> QED BY <3>3, <4>1, <4>2 DEF Stream
        <3>5. published' \subseteq Stream
            BY <2>11, <3>2, <3>4
        <3> QED BY <2>13, <3>5 DEF SetStreamConfig, TypeOK, sessionVars, roomVars, perStream
    <2>14. ASSUME NEW r \in rooms, NEW b \in BitrateInputs, SetTargetBitrate(c, r, s, b)
           PROVE  TypeOK'
        <3> DEFINE t(p) == ClampTarget(b, p.target.fps, p.target.width, p.target.height)
        <3>1. PICK p \in published : Replace(p, WithTarget(p, t(p)))
            BY <2>14 DEF SetTargetBitrate
        <3>2. WithTarget(p, t(p)) \in Stream
            <4>1. t(p) \in Target
                BY <2>12, InputAssumption, ClampTargetType
            <4> QED BY <2>12, <4>1, WithTargetType
        <3>3. published' \subseteq Stream
            BY <2>11, <3>1, <3>2
        <3> QED BY <2>14, <3>3 DEF SetTargetBitrate, TypeOK, sessionVars, roomVars, perStream
    <2>15. ASSUME NEW r \in rooms, NEW f \in FpsInputs, SetTargetFramerate(c, r, s, f)
           PROVE  TypeOK'
        <3> DEFINE t(p) == ClampTarget(p.target.bitrate, f, p.target.width, p.target.height)
        <3>1. PICK p \in published : Replace(p, WithTarget(p, t(p)))
            BY <2>15 DEF SetTargetFramerate
        <3>2. WithTarget(p, t(p)) \in Stream
            <4>1. t(p) \in Target
                BY <2>12, InputAssumption, ClampTargetType
            <4> QED BY <2>12, <4>1, WithTargetType
        <3>3. published' \subseteq Stream
            BY <2>11, <3>1, <3>2
        <3> QED BY <2>15, <3>3 DEF SetTargetFramerate, TypeOK, sessionVars, roomVars, perStream
    <2>16. CASE PollPublisherFeedback(c, s)
        <3>1. PICK p \in published : IF Overloaded(s)
                                     THEN Replace(p, WithTarget(p, LowerTarget(p.target)))
                                     ELSE UNCHANGED published
            BY <2>16 DEF PollPublisherFeedback
        <3>2. WithTarget(p, LowerTarget(p.target)) \in Stream
            BY <2>12, LowerTargetType, WithTargetType
        <3>3. published' \subseteq Stream
            BY <2>11, <3>1, <3>2 DEF TypeOK
        <3> QED BY <2>16, <3>3 DEF PollPublisherFeedback, TypeOK, sessionVars, roomVars
    <2> QED BY <2>1, <2>3, <2>4, <2>5, <2>6, <2>7, <2>8, <2>9, <2>10, <2>13, <2>14, <2>15,
               <2>16
<1> QED BY <1>1, <1>2, <1>3, <1>4, <1>5 DEF Request


\* The end of a connection keeps the types as well.
LEMMA TypeDisconnect ==
    ASSUME TypeOK, NEW c \in Sessions, Disconnect(c)
    PROVE  TypeOK'
<1> DEFINE u == user[c]
           affected == {r \in rooms : \/ IsParticipant(r, u)
                                      \/ \E p \in published : p.room = r /\ p.publisher = u}
           stale == {v \in viewerStats : v.user = u}
<1>1. /\ LeaveRooms(u, affected, stale) /\ names' = names \ {u}
      /\ UNCHANGED <<user, access, nextUserId>>
    BY DEF Disconnect, DisconnectUser
<1> HIDE DEF u, affected, stale
<1> QED BY <1>1, LeaveRoomsType

\* Every step keeps the types.
LEMMA TypeNext == TypeOK /\ [Next]_vars => TypeOK'
<1> SUFFICES ASSUME TypeOK, [Next]_vars PROVE TypeOK'
    OBVIOUS
<1>1. CASE Next
    BY <1>1, TypeRequest, TypeDisconnect DEF Next
<1>2. CASE UNCHANGED vars
    BY <1>2 DEF vars, sessionVars, roomVars, streamVars, perStream, TypeOK
<1> QED BY <1>1, <1>2

\* Whatever clients ask for and whenever their connections end, the tables of
\* the relay keep their shape and every stored target stays within the limits
\* of control.rs.
THEOREM TypeCorrect == Spec => []TypeOK
BY TypeInit, TypeNext, PTL DEF Spec


-----------------------------------------------------------------------------
(***************************************************************************)
(* The relay's tables stay consistent with each other: Consistent is an    *)
(* inductive invariant of RelayControl.  Its parts are not inductive one   *)
(* by one: a room is removed only where no stream is left in it, so that   *)
(* RoomsInhabited needs PublishersArePresent, NoStreamResidue needs        *)
(* StreamIdUnique, and so on.                                              *)
(***************************************************************************)

\* The tables are empty at the start.
LEMMA ConsistentInit == Init => Consistent
BY DEF Init, Consistent, StreamIdUnique, PublishersArePresent, SubscriptionsAreLive,
       RoomsInhabited, VoiceTracksParticipants, NoStreamResidue

\* The two inclusions of VoiceTracksParticipants.
LEMMA VoicePairs ==
    VoiceTracksParticipants =>
        /\ \A v \in voice : \E m \in participants : m.room = v.room /\ m.user = v.user
        /\ \A m \in participants : \E v \in voice : m.room = v.room /\ m.user = v.user
<1> SUFFICES ASSUME VoiceTracksParticipants
             PROVE  /\ \A v \in voice : \E m \in participants :
                          m.room = v.room /\ m.user = v.user
                    /\ \A m \in participants : \E v \in voice :
                          m.room = v.room /\ m.user = v.user
    OBVIOUS
<1>1. {<<v.room, v.user>> : v \in voice} = {<<m.room, m.user>> : m \in participants}
    BY DEF VoiceTracksParticipants
<1>2. ASSUME NEW v \in voice
      PROVE  \E m \in participants : m.room = v.room /\ m.user = v.user
    <2>1. <<v.room, v.user>> \in {<<m.room, m.user>> : m \in participants}
        BY <1>1
    <2> QED BY <2>1
<1>3. ASSUME NEW m \in participants
      PROVE  \E v \in voice : m.room = v.room /\ m.user = v.user
    <2>1. <<m.room, m.user>> \in {<<v.room, v.user>> : v \in voice}
        BY <1>1
    <2> QED BY <2>1
<1> QED BY <1>2, <1>3

-----------------------------------------------------------------------------
(***************************************************************************)
(* Leaving rooms, by request or by disconnect.                             *)
(***************************************************************************)
LEMMA LeaveRoomsConsistent ==
    ASSUME TypeOK, Consistent, NEW u, NEW R, NEW alsoStale, LeaveRooms(u, R, alsoStale)
    PROVE  Consistent'
<1> DEFINE own    == {p \in published : p.room \in R /\ p.publisher = u}
           ownIds == {p.stream : p \in own}
           mine   == {m \in subscriptions : m.room \in R /\ m.user = u}
           orphan == {m \in subscriptions :
                         \E p \in own : p.room = m.room /\ p.stream = m.stream}
           stale  == {v \in viewerStats :
                         v.user = u /\ \E m \in mine : m.stream = v.stream}
           stays  == {v \in voice : ~(v.room \in R /\ v.user = u)}
           empty  == {r \in R : /\ \A m \in participants' : m.room # r
                                /\ \A p \in published' : p.room # r}
<1>1. participants' = {m \in participants : ~(m.room \in R /\ m.user = u)}
    BY DEF LeaveRooms
<1>2. published' = published \ own
    BY DEF LeaveRooms
<1>3. subscriptions' = subscriptions \ (mine \cup orphan)
    BY DEF LeaveRooms
<1>4. /\ keyframes' = keyframes \ ownIds /\ metered' = metered \ ownIds
      /\ remoteInput' = [s \in StreamIds |-> IF s \in ownIds THEN << >> ELSE remoteInput[s]]
    BY DEF LeaveRooms, RemoveStreamState
<1>5. rooms' = rooms \ empty /\ voice' = {v \in stays : v.room \notin empty}
    BY DEF LeaveRooms, RemoveEmptyRooms
<1>6. nextRoomId' = nextRoomId
    BY DEF LeaveRooms
<1>7. StreamIdUnique'
    BY <1>2 DEF StreamIdUnique, Consistent
<1>8. PublishersArePresent'
    BY <1>1, <1>2, <1>5 DEF PublishersArePresent, IsParticipant, Consistent
<1>9. SubscriptionsAreLive'
    <2> SUFFICES ASSUME NEW m \in subscriptions'
                 PROVE  /\ IsParticipant(m.room, m.user)'
                        /\ \E p \in published' : p.room = m.room /\ p.stream = m.stream
        BY DEF SubscriptionsAreLive
    <2>1. PICK p \in published : p.room = m.room /\ p.stream = m.stream
        BY <1>3 DEF Consistent, SubscriptionsAreLive
    <2>2. p \notin own
        BY <1>3, <2>1
    <2>3. IsParticipant(m.room, m.user)'
        BY <1>1, <1>3 DEF Consistent, SubscriptionsAreLive, IsParticipant
    <2> QED BY <1>2, <2>1, <2>2, <2>3
<1>10. RoomsInhabited'
    <2>1. ASSUME NEW r \in rooms' PROVE \E m \in participants' : m.room = r
        <3>1. PICK m \in participants : m.room = r
            BY <1>5 DEF Consistent, RoomsInhabited
        <3>2. CASE r \notin R
            BY <1>1, <3>1, <3>2
        <3>3. CASE r \in R
            <4>1. \/ \E n \in participants' : n.room = r
                  \/ \E p \in published' : p.room = r
                BY <1>5, <3>3
            <4>2. ASSUME NEW p \in published', p.room = r
                  PROVE  [room |-> r, user |-> p.publisher] \in participants'
                BY <1>8, <4>2 DEF PublishersArePresent, IsParticipant
            <4> QED BY <4>1, <4>2
        <3> QED BY <3>2, <3>3
    <2>2. ASSUME NEW m \in participants' PROVE m.room \in rooms'
        BY <1>1, <1>5 DEF Consistent, RoomsInhabited
    <2>3. \A r \in rooms' : r < nextRoomId'
        BY <1>5, <1>6 DEF Consistent, RoomsInhabited
    <2> QED BY <2>1, <2>2, <2>3 DEF RoomsInhabited
<1>11. VoiceTracksParticipants'
    <2>1. ASSUME NEW v \in voice'
          PROVE  \E m \in participants' : m.room = v.room /\ m.user = v.user
        <3>1. PICK m \in participants : m.room = v.room /\ m.user = v.user
            BY <1>5, VoicePairs DEF Consistent
        <3> QED BY <1>1, <1>5, <3>1
    <2>2. ASSUME NEW m \in participants'
          PROVE  \E v \in voice' : m.room = v.room /\ m.user = v.user
        <3>1. PICK v \in voice : m.room = v.room /\ m.user = v.user
            BY <1>1, VoicePairs DEF Consistent
        <3> QED BY <1>1, <1>5, <3>1
    <2>3. \A v, w \in voice' : v.room = w.room /\ v.user = w.user => v = w
        BY <1>5 DEF Consistent, VoiceTracksParticipants
    <2> QED BY <2>1, <2>2, <2>3 DEF VoiceTracksParticipants
<1>12. NoStreamResidue'
    <2>1. ASSUME NEW p \in published, p.stream \notin ownIds PROVE p \in published'
        BY <1>2, <2>1
    <2>2. \A s \in keyframes' \cup metered' : IsPublished(s)'
        BY <1>4, <2>1 DEF Consistent, NoStreamResidue, IsPublished
    <2>3. ASSUME NEW s \in StreamIds, remoteInput'[s] # << >>
          PROVE  \E p \in published' : p.stream = s /\ p.kind = "Screen"
        BY <1>4, <2>1, <2>3 DEF Consistent, NoStreamResidue
    <2> QED BY <2>2, <2>3 DEF NoStreamResidue
<1> QED BY <1>7, <1>8, <1>9, <1>10, <1>11, <1>12 DEF Consistent

\* LeaveRoom and the cleanup of a connection.
LEMMA DepartureConsistent ==
    ASSUME TypeOK, Consistent, NEW c \in Sessions,
           Disconnect(c) \/ \E r \in rooms : LeaveRoom(c, r)
    PROVE  Consistent'
<1>1. ASSUME NEW r \in rooms, LeaveRoom(c, r) PROVE Consistent'
    BY <1>1, LeaveRoomsConsistent DEF LeaveRoom
<1>2. CASE Disconnect(c)
    <2> DEFINE u == user[c]
               affected == {r \in rooms : \/ IsParticipant(r, u)
                                          \/ \E p \in published :
                                                p.room = r /\ p.publisher = u}
               stale == {v \in viewerStats : v.user = u}
    <2>1. LeaveRooms(u, affected, stale)
        BY <1>2 DEF Disconnect, DisconnectUser
    <2> HIDE DEF u, affected, stale
    <2> QED BY <2>1, LeaveRoomsConsistent
<1> QED BY <1>1, <1>2

-----------------------------------------------------------------------------
(***************************************************************************)
(* Entering rooms.                                                         *)
(***************************************************************************)

\* A user enters a room that exists or is new, and has a voice state there.
LEMMA EnterConsistent ==
    ASSUME TypeOK, Consistent, NEW r \in RoomIds, NEW u \in UserIds,
           participants' = participants \cup {[room |-> r, user |-> u]},
           EnsureVoiceState(r, u),
           rooms' = rooms \cup {r}, r < nextRoomId', nextRoomId <= nextRoomId',
           nextRoomId' \in Nat,
           UNCHANGED <<streamVars, perStream>>
    PROVE  Consistent'
<1> USE DEF streamVars, perStream
<1>1. StreamIdUnique'
    BY DEF Consistent, StreamIdUnique
<1>2. PublishersArePresent'
    BY DEF Consistent, PublishersArePresent, IsParticipant
<1>3. SubscriptionsAreLive'
    BY DEF Consistent, SubscriptionsAreLive, IsParticipant
<1>4. RoomsInhabited'
    <2>1. \A x \in rooms' : x < nextRoomId'
        BY DEF Consistent, RoomsInhabited, TypeOK, RoomIds
    <2>2. rooms = {m.room : m \in participants}
        BY DEF Consistent, RoomsInhabited
    <2>3. ASSUME NEW x \in rooms' PROVE \E m \in participants' : m.room = x
        <3>1. CASE x \in rooms
            BY <2>2, <3>1
        <3>2. CASE x = r
            <4>1. [room |-> r, user |-> u] \in participants'
                OBVIOUS
            <4> QED BY <3>2, <4>1
        <3> QED BY <3>1, <3>2
    <2>4. ASSUME NEW m \in participants' PROVE m.room \in rooms'
        <3>1. CASE m \in participants
            BY <2>2, <3>1
        <3>2. CASE m = [room |-> r, user |-> u]
            BY <3>2
        <3> QED BY <3>1, <3>2
    <2> QED BY <2>1, <2>3, <2>4 DEF RoomsInhabited
<1>5. VoiceTracksParticipants'
    <2> DEFINE new == [room |-> r, user |-> u, flags |-> DefaultVoice]
    <2>0. /\ voice \subseteq voice' /\ voice' \subseteq voice \cup {new}
          /\ \E v \in voice' : v.room = r /\ v.user = u
        <3>1. CASE \E v \in voice : v.room = r /\ v.user = u
            BY <3>1 DEF EnsureVoiceState
        <3>2. CASE ~\E v \in voice : v.room = r /\ v.user = u
            <4>1. voice' = voice \cup {new}
                BY <3>2 DEF EnsureVoiceState
            <4>2. new \in voice' /\ new.room = r /\ new.user = u
                BY <4>1
            <4> QED BY <4>1, <4>2
        <3> QED BY <3>1, <3>2
    <2>1. ASSUME NEW v \in voice'
          PROVE  \E m \in participants' : m.room = v.room /\ m.user = v.user
        <3>1. CASE v \in voice
            BY <3>1, VoicePairs DEF Consistent
        <3>2. CASE v = new
            <4>1. [room |-> r, user |-> u] \in participants'
                OBVIOUS
            <4> QED BY <3>2, <4>1
        <3> QED BY <2>0, <3>1, <3>2
    <2>2. ASSUME NEW m \in participants'
          PROVE  \E v \in voice' : m.room = v.room /\ m.user = v.user
        <3>1. CASE m \in participants
            BY <2>0, <3>1, VoicePairs DEF Consistent
        <3>2. CASE m = [room |-> r, user |-> u]
            BY <2>0, <3>2
        <3> QED BY <3>1, <3>2
    <2>3. \A v, w \in voice' : v.room = w.room /\ v.user = w.user => v = w
        BY DEF Consistent, EnsureVoiceState, VoiceTracksParticipants
    <2> QED BY <2>1, <2>2, <2>3 DEF VoiceTracksParticipants
<1>6. NoStreamResidue'
    BY DEF Consistent, NoStreamResidue, IsPublished
<1> QED BY <1>1, <1>2, <1>3, <1>4, <1>5, <1>6 DEF Consistent

\* CreateRoom, JoinRoom and SetVoiceState.
LEMMA RoomRequestConsistent ==
    ASSUME TypeOK, Consistent, NEW c \in Sessions, RoomRequest(c)
    PROVE  Consistent'
<1>1. CASE CreateRoom(c)
    <2>1. user[c] \in UserIds
        BY <1>1, AuthorizedUser DEF CreateRoom
    <2>2. nextRoomId \in RoomIds /\ nextRoomId < nextRoomId + 1 /\ nextRoomId + 1 \in Nat
        BY DEF TypeOK, RoomIds
    <2>3. /\ participants' = participants \cup {[room |-> nextRoomId, user |-> user[c]]}
          /\ EnsureVoiceState(nextRoomId, user[c]) /\ rooms' = rooms \cup {nextRoomId}
          /\ nextRoomId' = nextRoomId + 1 /\ UNCHANGED <<streamVars, perStream>>
        BY <1>1 DEF CreateRoom
    <2>4. /\ nextRoomId < nextRoomId' /\ nextRoomId <= nextRoomId' /\ nextRoomId' \in Nat
        BY <2>2, <2>3 DEF RoomIds
    <2> QED BY <2>1, <2>2, <2>3, <2>4, EnterConsistent
<1>2. ASSUME NEW r \in rooms, JoinRoom(c, r) PROVE Consistent'
    <2>1. user[c] \in UserIds
        BY <1>2, AuthorizedUser DEF JoinRoom
    <2>2. r \in RoomIds /\ r < nextRoomId /\ nextRoomId \in Nat /\ rooms = rooms \cup {r}
        BY DEF TypeOK, Consistent, RoomsInhabited
    <2> QED BY <1>2, <2>1, <2>2, EnterConsistent DEF JoinRoom
<1>3. ASSUME NEW r \in rooms, LeaveRoom(c, r) PROVE Consistent'
    BY <1>3, DepartureConsistent
<1>4. ASSUME NEW r \in rooms, NEW in \in VoiceInputs, SetVoiceState(c, r, in)
      PROVE  Consistent'
    <2> DEFINE u == user[c]
               flags == [in EXCEPT !.speaking = @ /\ ~in.muted]
               others == {v \in voice : ~(v.room = r /\ v.user = u)}
    <2>1. /\ voice' = others \cup {[room |-> r, user |-> u, flags |-> flags]}
          /\ [room |-> r, user |-> u] \in participants
          /\ UNCHANGED <<nextRoomId, rooms, participants, streamVars, perStream>>
        BY <1>4 DEF SetVoiceState, IsParticipant
    <2> HIDE DEF u, flags
    <2>2. VoiceTracksParticipants'
        <3>1. ASSUME NEW v \in voice'
              PROVE  \E m \in participants' : m.room = v.room /\ m.user = v.user
            BY <2>1, VoicePairs DEF Consistent
        <3>2. ASSUME NEW m \in participants'
              PROVE  \E v \in voice' : m.room = v.room /\ m.user = v.user
            <4>1. PICK v \in voice : m.room = v.room /\ m.user = v.user
                BY <2>1, VoicePairs DEF Consistent
            <4>2. CASE v \in others
                BY <2>1, <4>1, <4>2
            <4>3. CASE v \notin others
                <5>1. m.room = r /\ m.user = u
                    BY <4>1, <4>3
                <5>2. [room |-> r, user |-> u, flags |-> flags] \in voice'
                    BY <2>1
                <5> QED BY <5>1, <5>2
            <4> QED BY <4>2, <4>3
        <3>3. \A v, w \in voice' : v.room = w.room /\ v.user = w.user => v = w
            BY <2>1 DEF Consistent, VoiceTracksParticipants
        <3> QED BY <3>1, <3>2, <3>3 DEF VoiceTracksParticipants
    <2> QED BY <2>1, <2>2 DEF Consistent, StreamIdUnique, PublishersArePresent, IsParticipant,
               SubscriptionsAreLive, RoomsInhabited, NoStreamResidue, IsPublished,
               streamVars, perStream
<1> QED BY <1>1, <1>2, <1>3, <1>4 DEF RoomRequest


-----------------------------------------------------------------------------
(***************************************************************************)
(* Streams.                                                                *)
(***************************************************************************)

\* A change of target or config leaves the identity of a stream alone.
LEMMA ReplaceConsistent ==
    ASSUME TypeOK, Consistent, NEW p \in published, NEW q,
           q.room = p.room, q.stream = p.stream, q.publisher = p.publisher, q.kind = p.kind,
           Replace(p, q), keyframes' \subseteq keyframes,
           UNCHANGED <<roomVars, subscriptions, remoteInput, metered>>
    PROVE  Consistent'
<1> USE DEF roomVars
<1>1. published' = (published \ {p}) \cup {q}
    BY DEF Replace
<1>2. ASSUME NEW x \in published
      PROVE  \E y \in published' : /\ y.room = x.room /\ y.stream = x.stream
                                   /\ y.publisher = x.publisher /\ y.kind = x.kind
    BY <1>1
<1>3. ASSUME NEW y \in published'
      PROVE  \E x \in published : /\ y.room = x.room /\ y.stream = x.stream
                                  /\ y.publisher = x.publisher /\ y.kind = x.kind
    BY <1>1
<1>4. StreamIdUnique'
    BY <1>1 DEF Consistent, StreamIdUnique
<1>5. PublishersArePresent'
    BY <1>3 DEF Consistent, PublishersArePresent, IsParticipant
<1>6. SubscriptionsAreLive'
    <2> SUFFICES ASSUME NEW m \in subscriptions
                 PROVE  /\ [room |-> m.room, user |-> m.user] \in participants
                        /\ \E y \in published' : y.room = m.room /\ y.stream = m.stream
        BY DEF SubscriptionsAreLive, IsParticipant
    <2>1. [room |-> m.room, user |-> m.user] \in participants
        BY DEF Consistent, SubscriptionsAreLive, IsParticipant
    <2>2. PICK x \in published : x.room = m.room /\ x.stream = m.stream
        BY DEF Consistent, SubscriptionsAreLive
    <2> QED BY <1>2, <2>1, <2>2
<1>7. RoomsInhabited' /\ VoiceTracksParticipants'
    BY DEF Consistent, RoomsInhabited, VoiceTracksParticipants
<1>8. NoStreamResidue'
    <2>1. \A s \in keyframes' \cup metered' : IsPublished(s)'
        BY <1>2 DEF Consistent, NoStreamResidue, IsPublished
    <2>2. ASSUME NEW s \in StreamIds, remoteInput'[s] # << >>
          PROVE  \E y \in published' : y.stream = s /\ y.kind = "Screen"
        BY <1>2, <2>2 DEF Consistent, NoStreamResidue
    <2> QED BY <2>1, <2>2 DEF NoStreamResidue
<1> QED BY <1>4, <1>5, <1>6, <1>7, <1>8 DEF Consistent

\* Requests that only touch reports, keyframe requests and input of a stream.
LEMMA PerStreamConsistent ==
    ASSUME TypeOK, Consistent, UNCHANGED <<roomVars, published>>,
           subscriptions' \subseteq subscriptions,
           NoStreamResidue'
    PROVE  Consistent'
BY DEF roomVars, Consistent, StreamIdUnique, PublishersArePresent, IsParticipant,
       SubscriptionsAreLive, RoomsInhabited, VoiceTracksParticipants

\* Publishing and unpublishing.
LEMMA PublishConsistent ==
    ASSUME TypeOK, Consistent, NEW c \in Sessions, NEW r \in rooms, NEW s \in StreamIds
    PROVE  /\ UnpublishStream(c, r, s) => Consistent'
           /\ \A codec \in Codecs, kind \in Kinds :
                 PublishStream(c, r, s, codec, kind) => Consistent'
<1>1. ASSUME NEW codec \in Codecs, NEW kind \in Kinds, PublishStream(c, r, s, codec, kind)
      PROVE  Consistent'
    <2> DEFINE new == [room |-> r, stream |-> s, publisher |-> user[c], codec |-> codec,
                       kind |-> kind, target |-> DefaultTarget, config |-> NoConfig]
    <2>1. published' = published \cup {new} /\ ~IsPublished(s)
        BY <1>1 DEF PublishStream
    <2>2. new.room = r /\ new.stream = s /\ new.publisher = user[c]
        OBVIOUS
    <2>3. UNCHANGED <<roomVars, subscriptions, perStream>>
        BY <1>1 DEF PublishStream
    <2>4. IsParticipant(r, user[c])
        BY <1>1 DEF PublishStream
    <2> HIDE DEF new
    <2> USE <2>3 DEF roomVars, perStream
    <2>5. StreamIdUnique'
        BY <2>1, <2>2 DEF Consistent, StreamIdUnique, IsPublished
    <2>6. PublishersArePresent'
        BY <2>1, <2>2, <2>4 DEF Consistent, PublishersArePresent, IsParticipant
    <2>7. SubscriptionsAreLive'
        BY <2>1 DEF Consistent, SubscriptionsAreLive, IsParticipant
    <2>8. RoomsInhabited' /\ VoiceTracksParticipants'
        BY DEF Consistent, RoomsInhabited, VoiceTracksParticipants
    <2>9. NoStreamResidue'
        BY <2>1 DEF Consistent, NoStreamResidue, IsPublished
    <2> QED BY <2>5, <2>6, <2>7, <2>8, <2>9 DEF Consistent
<1>2. ASSUME UnpublishStream(c, r, s) PROVE Consistent'
    <2>1. PICK p \in published : /\ p.room = r /\ p.stream = s /\ p.publisher = user[c]
                                 /\ published' = published \ {p}
        BY <1>2 DEF UnpublishStream
    <2>2. /\ subscriptions' = {m \in subscriptions : ~(m.room = r /\ m.stream = s)}
          /\ participants' = participants /\ nextRoomId' = nextRoomId
        BY <1>2 DEF UnpublishStream
    <2>3. [room |-> r, user |-> user[c]] \in participants
        BY <2>1 DEF Consistent, PublishersArePresent, IsParticipant
    <2>4. rooms' = rooms /\ voice' = voice
        <3> DEFINE empty == {x \in {r} : /\ \A m \in participants' : m.room # x
                                         /\ \A y \in published' : y.room # x}
        <3>1. rooms' = rooms \ empty /\ voice' = {v \in voice : v.room \notin empty}
            BY <1>2 DEF UnpublishStream, RemoveEmptyRooms
        <3>2. empty = {}
            BY <2>2, <2>3
        <3> QED BY <3>1, <3>2
    <2>5. /\ keyframes' = keyframes \ {s} /\ metered' = metered \ {s}
          /\ remoteInput' = [x \in StreamIds |-> IF x \in {s} THEN << >> ELSE remoteInput[x]]
        BY <1>2 DEF UnpublishStream, RemoveStreamState
    <2>6. ASSUME NEW x \in published, x.stream # s PROVE x \in published'
        BY <2>1, <2>6
    <2>7. StreamIdUnique'
        BY <2>1 DEF Consistent, StreamIdUnique
    <2>8. PublishersArePresent'
        BY <2>1, <2>2, <2>4 DEF Consistent, PublishersArePresent, IsParticipant
    <2>9. SubscriptionsAreLive'
        BY <2>1, <2>2 DEF Consistent, SubscriptionsAreLive, IsParticipant
    <2>10. RoomsInhabited' /\ VoiceTracksParticipants'
        BY <2>2, <2>4 DEF Consistent, RoomsInhabited, VoiceTracksParticipants
    <2>11. NoStreamResidue'
        <3>1. \A x \in keyframes' \cup metered' : IsPublished(x)'
            BY <2>5, <2>6 DEF Consistent, NoStreamResidue, IsPublished
        <3>2. ASSUME NEW x \in StreamIds, remoteInput'[x] # << >>
              PROVE  \E y \in published' : y.stream = x /\ y.kind = "Screen"
            BY <2>5, <2>6, <3>2 DEF Consistent, NoStreamResidue
        <3> QED BY <3>1, <3>2 DEF NoStreamResidue
    <2> QED BY <2>7, <2>8, <2>9, <2>10, <2>11 DEF Consistent
<1> QED BY <1>1, <1>2


\* Every other request about a stream.
LEMMA StreamRequestConsistent ==
    ASSUME TypeOK, Consistent, NEW c \in Sessions, StreamRequest(c)
    PROVE  Consistent'
<1>1. PICK s \in StreamIds :
        \/ \E r \in rooms :
              \/ \E codec \in Codecs, kind \in Kinds : PublishStream(c, r, s, codec, kind)
              \/ UnpublishStream(c, r, s)
              \/ SubscribeStream(c, r, s)
              \/ UnsubscribeStream(c, r, s)
              \/ RequestKeyframe(c, r, s)
              \/ SendRemoteInput(c, r, s)
              \/ \E n \in PollSizes : PollRemoteInput(c, r, s, n)
              \/ \E codec \in Codecs, in \in ConfigInputs : SetStreamConfig(c, r, s, codec, in)
              \/ \E b \in BitrateInputs : SetTargetBitrate(c, r, s, b)
              \/ \E f \in FpsInputs : SetTargetFramerate(c, r, s, f)
        \/ \E report \in Reports : ReportViewerStats(c, s, report)
        \/ PollPublisherFeedback(c, s)
    BY DEF StreamRequest
<1>2. ASSUME NEW r \in rooms, SubscribeStream(c, r, s) PROVE Consistent'
    <2> DEFINE new == [room |-> r, stream |-> s, user |-> user[c]]
    <2>1. PICK p \in published : p.room = r /\ p.stream = s
        BY <1>2 DEF SubscribeStream
    <2>2. /\ IsParticipant(r, user[c]) /\ subscriptions' = subscriptions \cup {new}
          /\ keyframes' \subseteq keyframes \cup {s}
          /\ UNCHANGED <<roomVars, published, remoteInput, metered>>
        BY <1>2 DEF SubscribeStream
    <2>3. new.room = r /\ new.stream = s /\ new.user = user[c]
        OBVIOUS
    <2> HIDE DEF new
    <2>4. SubscriptionsAreLive'
        BY <2>1, <2>2, <2>3 DEF Consistent, SubscriptionsAreLive, IsParticipant, roomVars
    <2>5. NoStreamResidue'
        BY <2>1, <2>2 DEF Consistent, NoStreamResidue, IsPublished
    <2> QED BY <2>2, <2>4, <2>5
            DEF roomVars, Consistent, StreamIdUnique, PublishersArePresent, IsParticipant,
                RoomsInhabited, VoiceTracksParticipants
<1>3. ASSUME NEW r \in rooms, UnsubscribeStream(c, r, s) PROVE Consistent'
    <2>1. NoStreamResidue'
        BY <1>3 DEF UnsubscribeStream, Consistent, NoStreamResidue, IsPublished
    <2> QED BY <1>3, <2>1, PerStreamConsistent DEF UnsubscribeStream
<1>4. ASSUME NEW r \in rooms, RequestKeyframe(c, r, s) PROVE Consistent'
    <2>1. NoStreamResidue'
        BY <1>4 DEF RequestKeyframe, Consistent, NoStreamResidue, IsPublished, streamVars
    <2> QED BY <1>4, <2>1, PerStreamConsistent DEF RequestKeyframe, streamVars
<1>5. ASSUME NEW r \in rooms, SendRemoteInput(c, r, s) PROVE Consistent'
    <2>1. PICK p \in published : p.stream = s /\ p.kind = "Screen"
        BY <1>5 DEF SendRemoteInput
    <2>2. \A x \in StreamIds : x # s => remoteInput'[x] = remoteInput[x]
        BY <1>5 DEF SendRemoteInput, TypeOK
    <2>3. NoStreamResidue'
        BY <1>5, <2>1, <2>2 DEF SendRemoteInput, Consistent, NoStreamResidue, IsPublished,
                                streamVars
    <2> QED BY <1>5, <2>3, PerStreamConsistent DEF SendRemoteInput, streamVars
<1>6. ASSUME NEW r \in rooms, NEW n \in PollSizes, PollRemoteInput(c, r, s, n)
      PROVE  Consistent'
    <2>1. PICK p \in published : p.stream = s /\ p.kind = "Screen"
        BY <1>6 DEF PollRemoteInput
    <2>2. \A x \in StreamIds : x # s => remoteInput'[x] = remoteInput[x]
        BY <1>6 DEF PollRemoteInput, TypeOK
    <2>3. NoStreamResidue'
        BY <1>6, <2>1, <2>2 DEF PollRemoteInput, Consistent, NoStreamResidue, IsPublished,
                                streamVars
    <2> QED BY <1>6, <2>3, PerStreamConsistent DEF PollRemoteInput, streamVars
<1>7. ASSUME NEW report \in Reports, ReportViewerStats(c, s, report) PROVE Consistent'
    <2>1. NoStreamResidue'
        BY <1>7 DEF ReportViewerStats, Consistent, NoStreamResidue, IsPublished, streamVars
    <2> QED BY <1>7, <2>1, PerStreamConsistent DEF ReportViewerStats, streamVars
<1>8. ASSUME NEW p \in published, NEW t
      PROVE  LET q == WithTarget(p, t)
             IN  /\ q.room = p.room /\ q.stream = p.stream
                 /\ q.publisher = p.publisher /\ q.kind = p.kind
    BY DEF WithTarget, TypeOK, Stream
<1>9. ASSUME NEW r \in rooms, NEW codec \in Codecs, NEW in \in ConfigInputs,
             SetStreamConfig(c, r, s, codec, in)
      PROVE  Consistent'
    <2> DEFINE t(p) == [ClampTarget(p.target.bitrate, in.fps, in.width, in.height)
                           EXCEPT !.bitrate = p.target.bitrate]
               cfg(p) == [fps |-> t(p).fps, width |-> t(p).width, height |-> t(p).height]
               q(p) == [p EXCEPT !.target = t(p), !.config = cfg(p)]
    <2>1. PICK p \in published : Replace(p, q(p))
        BY <1>9 DEF SetStreamConfig
    <2> HIDE DEF t, cfg
    <2>2. /\ q(p).room = p.room /\ q(p).stream = p.stream
          /\ q(p).publisher = p.publisher /\ q(p).kind = p.kind
        BY DEF TypeOK, Stream
    <2> HIDE DEF q
    <2> QED BY <1>9, <2>1, <2>2, ReplaceConsistent DEF SetStreamConfig, perStream
<1>10. ASSUME NEW r \in rooms, NEW b \in BitrateInputs, SetTargetBitrate(c, r, s, b)
       PROVE  Consistent'
    <2>1. PICK p \in published :
             Replace(p, WithTarget(p, ClampTarget(b, p.target.fps, p.target.width,
                                                  p.target.height)))
        BY <1>10 DEF SetTargetBitrate
    <2> QED BY <1>8, <1>10, <2>1, ReplaceConsistent DEF SetTargetBitrate, perStream
<1>11. ASSUME NEW r \in rooms, NEW f \in FpsInputs, SetTargetFramerate(c, r, s, f)
       PROVE  Consistent'
    <2>1. PICK p \in published :
             Replace(p, WithTarget(p, ClampTarget(p.target.bitrate, f, p.target.width,
                                                  p.target.height)))
        BY <1>11 DEF SetTargetFramerate
    <2> QED BY <1>8, <1>11, <2>1, ReplaceConsistent DEF SetTargetFramerate, perStream
<1>12. CASE PollPublisherFeedback(c, s)
    <2>1. PICK p \in published : IF Overloaded(s)
                                 THEN Replace(p, WithTarget(p, LowerTarget(p.target)))
                                 ELSE UNCHANGED published
        BY <1>12 DEF PollPublisherFeedback
    <2>2. /\ keyframes' \subseteq keyframes
          /\ UNCHANGED <<roomVars, subscriptions, remoteInput, metered>>
        BY <1>12 DEF PollPublisherFeedback
    <2>3. CASE Replace(p, WithTarget(p, LowerTarget(p.target)))
        BY <1>8, <2>2, <2>3, ReplaceConsistent
    <2>4. CASE UNCHANGED published
        <3>1. NoStreamResidue'
            BY <2>2, <2>4 DEF Consistent, NoStreamResidue, IsPublished
        <3> QED BY <2>2, <2>4, <3>1, PerStreamConsistent
    <2> QED BY <2>1, <2>3, <2>4
<1> QED BY <1>1, <1>2, <1>3, <1>4, <1>5, <1>6, <1>7, <1>9, <1>10, <1>11, <1>12,
           PublishConsistent

-----------------------------------------------------------------------------
\* Every step keeps the tables consistent.
LEMMA ConsistentNext == TypeOK /\ Consistent /\ [Next]_vars => Consistent'
<1> SUFFICES ASSUME TypeOK, Consistent, [Next]_vars PROVE Consistent'
    OBVIOUS
<1>1. ASSUME UNCHANGED <<roomVars, streamVars, keyframes, remoteInput>>,
             metered' = metered \/ \E s \in StreamIds : IsPublished(s) /\ metered' = metered \cup {s}
      PROVE  Consistent'
    <2>1. NoStreamResidue'
        BY <1>1 DEF Consistent, NoStreamResidue, IsPublished, streamVars
    <2> QED BY <1>1, <2>1, PerStreamConsistent DEF streamVars
<1>2. ASSUME NEW c \in Sessions, Hello(c) PROVE Consistent'
    BY <1>1, <1>2 DEF Hello, perStream
<1>3. ASSUME NEW c \in Sessions, Authenticate(c) PROVE Consistent'
    BY <1>1, <1>3 DEF Authenticate, perStream
<1>4. ASSUME NEW c \in Sessions, Forward(c) PROVE Consistent'
    BY <1>1, <1>4 DEF Forward, RecordForward
<1>5. CASE UNCHANGED vars
    BY <1>1, <1>5 DEF vars, perStream
<1> QED BY <1>2, <1>3, <1>4, <1>5, RoomRequestConsistent, StreamRequestConsistent,
           DepartureConsistent DEF Next, Request

\* The tables of the relay fit together in every reachable state: stream ids are
\* unique, publishers and subscribers are in the room, rooms are inhabited,
\* participants have one voice state, and no stream leaves anything behind.
THEOREM TablesConsistent == Spec => []Consistent
<1>1. Init => TypeOK /\ Consistent
    BY TypeInit, ConsistentInit
<1>2. TypeOK /\ Consistent /\ [Next]_vars => (TypeOK /\ Consistent)'
    BY TypeNext, ConsistentNext
<1> QED BY <1>1, <1>2, PTL DEF Spec

\* A datagram names its stream by its id alone, and the id names one stream.
THEOREM StreamIdsUnique == Spec => []StreamIdUnique
<1>1. Consistent => StreamIdUnique
    BY DEF Consistent
<1> QED BY <1>1, TablesConsistent, PTL

\* A stream that takes over an id inherits no keyframe request, no queued input
\* and no metrics from the one before (for reports see StreamsGoWhole).
THEOREM StreamsLeaveNothing == Spec => []NoStreamResidue
<1>1. Consistent => NoStreamResidue
    BY DEF Consistent
<1> QED BY <1>1, TablesConsistent, PTL


-----------------------------------------------------------------------------
(***************************************************************************)
(* Identity and access: no two sessions share a user, and only users that  *)
(* were granted access are in any table of the relay.  The strengthening   *)
(* is OpenAccess: a relay without a token grants access with the user id.  *)
(***************************************************************************)

AccessInv == OnlyGrantedUsers /\ OpenAccess

\* Who passes authorization_error has been granted access.
LEMMA AuthorizedHasAccess ==
    ASSUME TypeOK, AccessInv, NEW c \in Sessions, Authorized(c)
    PROVE  Granted(user[c])
BY LimitAssumption DEF Granted, AccessInv, OpenAccess, Authorized

\* A user keeps its grant: no step revokes access or changes a user id.
LEMMA GrantsLast ==
    ASSUME TypeOK, NEW u \in UserIds, Granted(u),
           \/ UNCHANGED <<user, access>>
           \/ \E c \in Sessions : Hello(c) \/ Authenticate(c)
    PROVE  Granted(u)'
<1>1. PICK d \in Sessions : user[d] = u /\ access[d]
    BY DEF Granted
<1>2. CASE UNCHANGED <<user, access>>
    BY <1>1, <1>2 DEF Granted
<1>3. ASSUME NEW c \in Sessions, Hello(c) PROVE Granted(u)'
    <2>1. user'[d] = u
        BY <1>1, <1>3 DEF Hello, TypeOK, UserIds
    <2>2. access'[d]
        BY <1>1, <1>3, Zenon DEF Hello, TypeOK, UserIds
    <2> QED BY <2>1, <2>2 DEF Granted
<1>4. ASSUME NEW c \in Sessions, Authenticate(c) PROVE Granted(u)'
    <2>1. access'[d]
        BY <1>1, <1>4 DEF Authenticate, TypeOK
    <2> QED BY <1>1, <1>4, <2>1 DEF Granted, Authenticate
<1> QED BY <1>2, <1>3, <1>4

\* A step after which the tables name no user they did not name before, other
\* than those in gs.
AddsOnly(gs) ==
    /\ UNCHANGED <<user, access>>
    /\ \A x \in participants' : x \in participants \/ x.user \in gs
    /\ \A x \in viewerStats' : x \in viewerStats \/ x.user \in gs
    /\ \A x \in subscriptions' : x \in subscriptions \/ x.user \in gs
    /\ \A q \in published' :
          q.publisher \in gs \/ \E p \in published : q.publisher = p.publisher
    /\ \A s \in StreamIds : \A i \in DOMAIN remoteInput'[s] :
          \/ remoteInput'[s][i] \in gs
          \/ \E j \in DOMAIN remoteInput[s] : remoteInput'[s][i] = remoteInput[s][j]

\* Adding granted users keeps the invariant.
LEMMA GrantedStep ==
    ASSUME TypeOK, AccessInv, NEW gs, \A g \in gs : Granted(g), AddsOnly(gs)
    PROVE  AccessInv'
<1>1. \A u : Granted(u) => \E c \in Sessions : user'[c] = u /\ access'[c]
    BY DEF Granted, AddsOnly
<1> DEFINE G(u) == \E c \in Sessions : user'[c] = u /\ access'[c]
<1>g. \A u : Granted(u) => G(u)
    BY <1>1
<1> HIDE DEF G
<1>2. \A x \in participants' \cup viewerStats' \cup subscriptions' : G(x.user)
    BY <1>g DEF AddsOnly, AccessInv, OnlyGrantedUsers
<1>3. \A p \in published' : G(p.publisher)
    BY <1>g DEF AddsOnly, AccessInv, OnlyGrantedUsers
<1>4. \A s \in StreamIds : \A i \in DOMAIN remoteInput'[s] : G(remoteInput'[s][i])
    BY <1>g DEF AddsOnly, AccessInv, OnlyGrantedUsers
<1>5. OpenAccess'
    BY DEF AccessInv, OpenAccess, AddsOnly
<1> USE DEF G
<1>6. OnlyGrantedUsers'
    BY <1>2, <1>3, <1>4 DEF OnlyGrantedUsers, Granted
<1> QED BY <1>5, <1>6 DEF AccessInv

\* Leaving rooms only removes users.
LEMMA LeaveRoomsAddsNobody ==
    ASSUME TypeOK, NEW u, NEW R, NEW S, LeaveRooms(u, R, S), UNCHANGED <<user, access>>,
           NEW gs
    PROVE  AddsOnly(gs)
<1>1. /\ participants' \subseteq participants
      /\ viewerStats' \subseteq viewerStats
      /\ subscriptions' \subseteq subscriptions
      /\ published' \subseteq published
    BY DEF LeaveRooms, RemoveStreamState
<1>2. ASSUME NEW s \in StreamIds, NEW i \in DOMAIN remoteInput'[s]
      PROVE  \E j \in DOMAIN remoteInput[s] : remoteInput'[s][i] = remoteInput[s][j]
    <2> DEFINE ids == {p.stream : p \in {p \in published : p.room \in R /\ p.publisher = u}}
    <2>1. remoteInput'[s] = IF s \in ids THEN << >> ELSE remoteInput[s]
        BY DEF LeaveRooms, RemoveStreamState
    <2> HIDE DEF ids
    <2>2. CASE s \in ids
        BY <2>1, <2>2
    <2>3. CASE s \notin ids
        BY <2>1, <2>3
    <2> QED BY <2>2, <2>3
<1> QED BY <1>1, <1>2 DEF AddsOnly

\* The room requests of a session add at most its own user.
LEMMA RoomRequestAdds ==
    ASSUME TypeOK, NEW c \in Sessions, RoomRequest(c)
    PROVE  Authorized(c) /\ AddsOnly({user[c]})
<1>1. CASE CreateRoom(c)
    BY <1>1 DEF CreateRoom, AddsOnly, sessionVars, streamVars, perStream
<1>2. ASSUME NEW r \in rooms, JoinRoom(c, r) PROVE Authorized(c) /\ AddsOnly({user[c]})
    BY <1>2 DEF JoinRoom, AddsOnly, sessionVars, streamVars, perStream
<1>3. ASSUME NEW r \in rooms, LeaveRoom(c, r) PROVE Authorized(c) /\ AddsOnly({user[c]})
    BY <1>3, LeaveRoomsAddsNobody DEF LeaveRoom, sessionVars
<1>4. ASSUME NEW r \in rooms, NEW in \in VoiceInputs, SetVoiceState(c, r, in) PROVE Authorized(c) /\ AddsOnly({user[c]})
    BY <1>4 DEF SetVoiceState, AddsOnly, sessionVars, streamVars, perStream
<1> QED BY <1>1, <1>2, <1>3, <1>4 DEF RoomRequest

\* A stretch of a sequence holds only elements of the sequence.
LEMMA SubSeqElements ==
    ASSUME NEW S, NEW q \in Seq(S), NEW m \in Nat \ {0}, NEW i \in DOMAIN SubSeq(q, m, Len(q))
    PROVE  \E j \in DOMAIN q : SubSeq(q, m, Len(q))[i] = q[j]
<1>1. /\ m + i - 1 \in DOMAIN q
      /\ SubSeq(q, m, Len(q))[i] = q[m + i - 1]
    OBVIOUS
<1> QED BY <1>1

\* The input requests queue nobody but the sender.
LEMMA InputAdds ==
    ASSUME TypeOK, NEW c \in Sessions, NEW r \in rooms, NEW s \in StreamIds,
           SendRemoteInput(c, r, s) \/ \E n \in PollSizes : PollRemoteInput(c, r, s, n)
    PROVE  Authorized(c) /\ AddsOnly({user[c]})
<1>t. /\ remoteInput \in [StreamIds -> Seq(UserIds)]
      /\ remoteInput[s] \in Seq(UserIds)
    BY DEF TypeOK
<1>1. CASE SendRemoteInput(c, r, s)
    <2> DEFINE q == remoteInput[s]
               m == MakeRoom(q)
    <2>1. /\ remoteInput' = [remoteInput EXCEPT ![s] = Append(m, user[c])]
          /\ Authorized(c) /\ user[c] \in UserIds
          /\ UNCHANGED <<user, access, participants, viewerStats, subscriptions, published>>
        BY <1>1, AuthorizedUser DEF SendRemoteInput, sessionVars, roomVars, streamVars
    <2>2. /\ m \in Seq(UserIds)
          /\ \A i \in DOMAIN m : \E j \in DOMAIN q : m[i] = q[j]
        <3>1. CASE Len(q) < MaxInputQueue
            BY <1>t, <3>1 DEF MakeRoom
        <3>2. CASE ~(Len(q) < MaxInputQueue)
            <4>1. /\ Len(q) - MaxInputQueue + 2 \in Nat \ {0}
                  /\ m = SubSeq(q, Len(q) - MaxInputQueue + 2, Len(q))
                BY <1>t, <3>2, LimitAssumption DEF MakeRoom
            <4>2. m \in Seq(UserIds)
                BY <1>t, <4>1
            <4> QED BY <1>t, <4>1, <4>2, SubSeqElements
        <3> QED BY <3>1, <3>2
    <2>3. \A i \in DOMAIN remoteInput'[s] :
             \/ remoteInput'[s][i] \in {user[c]}
             \/ \E j \in DOMAIN q : remoteInput'[s][i] = q[j]
        <3> HIDE DEF m
        <3>1. remoteInput'[s] = Append(m, user[c])
            BY <1>t, <2>1
        <3>2. DOMAIN Append(m, user[c]) = 1..(Len(m) + 1) /\ DOMAIN m = 1..Len(m) /\ Len(m) \in Nat
            BY <2>1, <2>2
        <3>3. ASSUME NEW i \in 1..(Len(m) + 1)
              PROVE  Append(m, user[c])[i] = user[c] \/ (i \in DOMAIN m /\ Append(m, user[c])[i] = m[i])
            BY <2>1, <2>2, <3>2
        <3> QED BY <2>2, <3>1, <3>2, <3>3
    <2>4. \A z \in StreamIds \ {s} : remoteInput'[z] = remoteInput[z]
        BY <1>t, <2>1
    <2> QED BY <2>1, <2>3, <2>4 DEF AddsOnly
<1>2. ASSUME NEW n \in PollSizes, PollRemoteInput(c, r, s, n) PROVE Authorized(c) /\ AddsOnly({user[c]})
    <2> DEFINE k == Smaller(Larger(n, 1), MaxInputBatch)
    <2>1. k \in Nat
        BY InputAssumption, LimitAssumption DEF Smaller, Larger
    <2>2. /\ remoteInput' = [remoteInput EXCEPT ![s] = SubSeq(@, k + 1, Len(@))]
          /\ Authorized(c)
          /\ UNCHANGED <<user, access, participants, viewerStats, subscriptions, published>>
        BY <1>2 DEF PollRemoteInput, sessionVars, roomVars, streamVars
    <2> HIDE DEF k
    <2>3. k + 1 \in Nat \ {0} /\ remoteInput'[s] = SubSeq(remoteInput[s], k + 1, Len(remoteInput[s]))
        BY <1>t, <2>1, <2>2
    <2>4. \A i \in DOMAIN remoteInput'[s] :
             \E j \in DOMAIN remoteInput[s] : remoteInput'[s][i] = remoteInput[s][j]
        BY <1>t, <2>3, SubSeqElements, SMTT(30)
    <2>5. \A z \in StreamIds \ {s} : remoteInput'[z] = remoteInput[z]
        BY <1>t, <2>2
    <2>6. \A z \in StreamIds : \A i \in DOMAIN remoteInput'[z] :
             \E j \in DOMAIN remoteInput[z] : remoteInput'[z][i] = remoteInput[z][j]
        BY <2>4, <2>5, Zenon
    <2> QED BY <2>2, <2>6 DEF AddsOnly
<1> QED BY <1>1, <1>2

\* A request about streams adds at most the user of its session.
LEMMA StreamRequestAdds ==
    ASSUME TypeOK, NEW c \in Sessions, StreamRequest(c)
    PROVE  Authorized(c) /\ AddsOnly({user[c]})
<1> PICK s \in StreamIds :
       \/ \E r \in rooms :
             \/ \E codec \in Codecs, kind \in Kinds : PublishStream(c, r, s, codec, kind)
             \/ UnpublishStream(c, r, s)
             \/ SubscribeStream(c, r, s)
             \/ UnsubscribeStream(c, r, s)
             \/ RequestKeyframe(c, r, s)
             \/ SendRemoteInput(c, r, s)
             \/ \E n \in PollSizes : PollRemoteInput(c, r, s, n)
             \/ \E codec \in Codecs, in \in ConfigInputs : SetStreamConfig(c, r, s, codec, in)
             \/ \E b \in BitrateInputs : SetTargetBitrate(c, r, s, b)
             \/ \E f \in FpsInputs : SetTargetFramerate(c, r, s, f)
       \/ \E report \in Reports : ReportViewerStats(c, s, report)
       \/ PollPublisherFeedback(c, s)
    BY DEF StreamRequest
<1>r. ASSUME NEW p \in published, NEW q, q.publisher = p.publisher, Replace(p, q), Authorized(c),
             UNCHANGED <<user, access, participants, viewerStats, subscriptions, remoteInput>>
      PROVE  Authorized(c) /\ AddsOnly({user[c]})
    BY <1>r DEF AddsOnly, Replace
<1>w. ASSUME NEW p \in published, NEW t PROVE WithTarget(p, t).publisher = p.publisher
    BY DEF WithTarget, TypeOK, Stream
<1> USE DEF sessionVars, roomVars, streamVars, perStream
<1>1. ASSUME NEW r \in rooms, NEW codec \in Codecs, NEW kind \in Kinds,
             PublishStream(c, r, s, codec, kind)
      PROVE  Authorized(c) /\ AddsOnly({user[c]})
    BY <1>1 DEF PublishStream, AddsOnly
<1>2. ASSUME NEW r \in rooms, UnpublishStream(c, r, s)
      PROVE  Authorized(c) /\ AddsOnly({user[c]})
    <2>1. /\ participants' = participants /\ published' \subseteq published
          /\ subscriptions' \subseteq subscriptions /\ viewerStats' \subseteq viewerStats
          /\ UNCHANGED <<user, access>> /\ Authorized(c)
        BY <1>2 DEF UnpublishStream, RemoveStreamState
    <2>2. remoteInput' = [z \in StreamIds |-> IF z \in {s} THEN << >> ELSE remoteInput[z]]
        BY <1>2 DEF UnpublishStream, RemoveStreamState
    <2>3. ASSUME NEW z \in StreamIds, NEW i \in DOMAIN remoteInput'[z]
          PROVE  \E j \in DOMAIN remoteInput[z] : remoteInput'[z][i] = remoteInput[z][j]
        <3>1. CASE z = s
            BY <2>2, <3>1
        <3>2. CASE z # s
            BY <2>2, <3>2
        <3> QED BY <3>1, <3>2
    <2> QED BY <2>1, <2>3 DEF AddsOnly
<1>3. ASSUME NEW r \in rooms, SubscribeStream(c, r, s)
      PROVE  Authorized(c) /\ AddsOnly({user[c]})
    BY <1>3 DEF SubscribeStream, AddsOnly
<1>4. ASSUME NEW r \in rooms, UnsubscribeStream(c, r, s) \/ RequestKeyframe(c, r, s)
      PROVE  Authorized(c) /\ AddsOnly({user[c]})
    BY <1>4 DEF UnsubscribeStream, RequestKeyframe, AddsOnly
<1>5. ASSUME NEW r \in rooms, NEW codec \in Codecs, NEW in \in ConfigInputs,
             SetStreamConfig(c, r, s, codec, in)
      PROVE  Authorized(c) /\ AddsOnly({user[c]})
    <2>1. PICK p \in published :
             LET t == [ClampTarget(p.target.bitrate, in.fps, in.width, in.height)
                           EXCEPT !.bitrate = p.target.bitrate]
             IN  Replace(p, [p EXCEPT !.target = t,
                                      !.config = [fps |-> t.fps, width |-> t.width,
                                                  height |-> t.height]])
        BY <1>5 DEF SetStreamConfig
    <2> DEFINE t == [ClampTarget(p.target.bitrate, in.fps, in.width, in.height)
                           EXCEPT !.bitrate = p.target.bitrate]
               q == [p EXCEPT !.target = t, !.config = [fps |-> t.fps, width |-> t.width,
                                                        height |-> t.height]]
    <2>2. Replace(p, q)
        BY <2>1
    <2>3. q.publisher = p.publisher
        <3> HIDE DEF t
        <3> QED BY DEF TypeOK, Stream
    <2> HIDE DEF q
    <2> QED BY <1>5, <1>r, <2>2, <2>3 DEF SetStreamConfig
<1>6. ASSUME NEW r \in rooms, NEW b \in BitrateInputs, SetTargetBitrate(c, r, s, b)
      PROVE  Authorized(c) /\ AddsOnly({user[c]})
    BY <1>6, <1>r, <1>w DEF SetTargetBitrate
<1>7. ASSUME NEW r \in rooms, NEW f \in FpsInputs, SetTargetFramerate(c, r, s, f)
      PROVE  Authorized(c) /\ AddsOnly({user[c]})
    BY <1>7, <1>r, <1>w DEF SetTargetFramerate
<1>8. ASSUME NEW report \in Reports, ReportViewerStats(c, s, report)
      PROVE  Authorized(c) /\ AddsOnly({user[c]})
    BY <1>8 DEF ReportViewerStats, AddsOnly
<1>9. CASE PollPublisherFeedback(c, s)
    <2>1. PICK p \in published : \/ Replace(p, WithTarget(p, LowerTarget(p.target)))
                                 \/ UNCHANGED published
        BY <1>9 DEF PollPublisherFeedback
    <2>2. CASE UNCHANGED published
        BY <1>9, <2>2 DEF PollPublisherFeedback, AddsOnly
    <2> QED BY <1>9, <1>r, <1>w, <2>1, <2>2 DEF PollPublisherFeedback
<1> QED BY <1>1, <1>2, <1>3, <1>4, <1>5, <1>6, <1>7, <1>8, <1>9, InputAdds

\* The invariant holds initially and is kept by every step.
LEMMA AccessInit == Init => AccessInv
BY DEF Init, AccessInv, OnlyGrantedUsers, OpenAccess

\* Every request, datagram and disconnect keeps the access invariant.
LEMMA AccessNext ==
    ASSUME TypeOK, AccessInv, [Next]_vars
    PROVE  AccessInv'
<1> USE DEF sessionVars, roomVars, streamVars, perStream
<1>u. ASSUME UNCHANGED <<user, access, participants, viewerStats, subscriptions, published,
                         remoteInput>>
      PROVE  AccessInv'
    <2>1. AddsOnly({})
        BY <1>u DEF AddsOnly
    <2> QED BY <2>1, GrantedStep
<1>1. CASE UNCHANGED vars
    BY <1>1, <1>u DEF vars
<1>2. ASSUME NEW c \in Sessions, Hello(c) \/ Authenticate(c) PROVE AccessInv'
    <2> DEFINE G(u) == \E d \in Sessions : user'[d] = u /\ access'[d]
    <2>1. ASSUME NEW u \in UserIds, Granted(u) PROVE G(u)
        <3>1. Granted(u)'
            BY <1>2, <2>1, GrantsLast
        <3> QED BY <3>1 DEF Granted
    <2>2. UNCHANGED <<participants, viewerStats, subscriptions, published, remoteInput>>
        BY <1>2 DEF Hello, Authenticate
    <2> HIDE DEF G
    <2>3. \A x \in participants' \cup viewerStats' \cup subscriptions' : G(x.user)
        BY <2>1, <2>2 DEF AccessInv, OnlyGrantedUsers, TypeOK
    <2>4. \A p \in published' : G(p.publisher)
        BY <2>1, <2>2 DEF AccessInv, OnlyGrantedUsers, TypeOK, Stream
    <2>5. ASSUME NEW s \in StreamIds, NEW i \in DOMAIN remoteInput'[s]
          PROVE  G(remoteInput'[s][i])
        <3>1. remoteInput[s] \in Seq(UserIds) /\ i \in DOMAIN remoteInput[s]
            BY <2>2 DEF TypeOK
        <3>2. remoteInput[s][i] \in UserIds
            BY <3>1
        <3> QED BY <2>1, <2>2, <3>1, <3>2 DEF AccessInv, OnlyGrantedUsers
    <2>6. OnlyGrantedUsers'
        BY <2>3, <2>4, <2>5 DEF G, OnlyGrantedUsers, Granted
    <2>7. CASE Hello(c)
        <3>1. ASSUME ~TokenRequired, NEW d \in Sessions, user'[d] # NoUser PROVE access'[d]
            <4>1. CASE d = c
                <5>1. access'[c] = IF user[c] = NoUser THEN ~TokenRequired ELSE access[c]
                    BY <2>7, Zenon DEF Hello, TypeOK
                <5> QED BY <3>1, <4>1, <5>1, Zenon DEF AccessInv, OpenAccess
            <4>2. CASE d # c
                <5>1. access'[d] = access[d]
                    BY <2>7, <4>2, Zenon DEF Hello, TypeOK
                <5>2. user'[d] = user[d]
                    BY <2>7, <4>2, Zenon DEF Hello, TypeOK
                <5> QED BY <3>1, <5>1, <5>2, Zenon DEF AccessInv, OpenAccess
            <4> QED BY <4>1, <4>2
        <3>2. OpenAccess'
            BY <3>1 DEF OpenAccess
        <3> QED BY <2>6, <3>2 DEF AccessInv
    <2>8. CASE Authenticate(c)
        <3>1. \A d \in Sessions : access[d] => access'[d]
            BY <2>8, Zenon DEF Authenticate, TypeOK
        <3>2. OpenAccess'
            BY <2>8, <3>1, Zenon DEF Authenticate, AccessInv, OpenAccess
        <3> QED BY <2>6, <3>2 DEF AccessInv
    <2> QED BY <1>2, <2>7, <2>8
<1>3. ASSUME NEW c \in Sessions, RoomRequest(c) \/ StreamRequest(c) PROVE AccessInv'
    BY <1>3, RoomRequestAdds, StreamRequestAdds, AuthorizedHasAccess, GrantedStep
<1>4. ASSUME NEW c \in Sessions, Forward(c) PROVE AccessInv'
    BY <1>4, <1>u DEF Forward, RecordForward
<1>5. ASSUME NEW c \in Sessions, Disconnect(c) PROVE AccessInv'
    <2>1. AddsOnly({})
        BY <1>5, LeaveRoomsAddsNobody DEF Disconnect, DisconnectUser
    <2> QED BY <2>1, GrantedStep
<1> QED BY <1>1, <1>2, <1>3, <1>4, <1>5 DEF Next, Request

\* Nobody gets into a table of the relay without access: every participant,
\* publisher, viewer, reporter and input sender is the user of a session that
\* was granted access, for any number of sessions, rooms and streams.
THEOREM AccessIsEnforced == Spec => []OnlyGrantedUsers
<1>1. Init => AccessInv
    BY AccessInit
<1>2. TypeOK /\ AccessInv /\ [Next]_vars => AccessInv'
    BY AccessNext
<1>3. AccessInv => OnlyGrantedUsers
    BY DEF AccessInv
<1> QED BY <1>1, <1>2, <1>3, TypeCorrect, PTL DEF Spec

\* Only Hello hands out user ids, and each of them once.
LEMMA IdentityNext ==
    ASSUME TypeOK, IdentityUnique, [Next]_vars
    PROVE  IdentityUnique'
<1>1. CASE UNCHANGED <<user, nextUserId>>
    BY <1>1 DEF IdentityUnique
<1>2. ASSUME NEW c \in Sessions, Hello(c) PROVE IdentityUnique'
    <2>1. CASE user[c] = NoUser
        <3>1. user' = [user EXCEPT ![c] = nextUserId] /\ nextUserId' = nextUserId + 1
            BY <1>2, <2>1 DEF Hello
        <3> QED BY <3>1 DEF IdentityUnique, TypeOK, NoUser
    <2>2. CASE user[c] # NoUser
        <3>1. user' = user /\ nextUserId' = nextUserId
            BY <1>2, <2>2 DEF Hello, TypeOK
        <3> QED BY <3>1, <1>1
    <2> QED BY <2>1, <2>2
<1>3. ASSUME NEW c \in Sessions, RoomRequest(c) PROVE UNCHANGED <<user, nextUserId>>
    BY <1>3 DEF RoomRequest, CreateRoom, JoinRoom, LeaveRoom, SetVoiceState, sessionVars
<1>4. ASSUME NEW c \in Sessions, StreamRequest(c) PROVE UNCHANGED <<user, nextUserId>>
    <2> DEFINE U == UNCHANGED <<user, nextUserId>>
    <2>1. ASSUME NEW s \in StreamIds, NEW r \in rooms
          PROVE  /\ UnpublishStream(c, r, s) => U
                 /\ SubscribeStream(c, r, s) => U
                 /\ UnsubscribeStream(c, r, s) => U
                 /\ RequestKeyframe(c, r, s) => U
                 /\ SendRemoteInput(c, r, s) => U
                 /\ \A n : PollRemoteInput(c, r, s, n) => U
        BY DEF UnpublishStream, SubscribeStream, UnsubscribeStream, RequestKeyframe,
               SendRemoteInput, PollRemoteInput, sessionVars
    <2>2. ASSUME NEW s \in StreamIds, NEW r \in rooms
          PROVE  /\ \A codec, kind : PublishStream(c, r, s, codec, kind) => U
                 /\ \A codec, in : SetStreamConfig(c, r, s, codec, in) => U
                 /\ \A b : SetTargetBitrate(c, r, s, b) => U
                 /\ \A f : SetTargetFramerate(c, r, s, f) => U
        BY DEF PublishStream, SetStreamConfig, SetTargetBitrate, SetTargetFramerate, sessionVars
    <2>3. ASSUME NEW s \in StreamIds
          PROVE  /\ \A report : ReportViewerStats(c, s, report) => U
                 /\ PollPublisherFeedback(c, s) => U
        BY DEF ReportViewerStats, PollPublisherFeedback, sessionVars
    <2> HIDE DEF U
    <2>4. U
        BY <1>4, <2>1, <2>2, <2>3 DEF StreamRequest
    <2> QED BY <2>4 DEF U
<1>5. ASSUME NEW c \in Sessions, Authenticate(c) \/ Forward(c) \/ Disconnect(c)
      PROVE  UNCHANGED <<user, nextUserId>>
    BY <1>5 DEF Authenticate, Forward, RecordForward, Disconnect, DisconnectUser, sessionVars
<1>6. CASE UNCHANGED vars
    BY <1>1, <1>6 DEF vars, sessionVars
<1> QED BY <1>1, <1>2, <1>3, <1>4, <1>5, <1>6 DEF Next, Request

\* Two sessions never share a user id, however many there are.
THEOREM IdentitiesAreUnique == Spec => []IdentityUnique
<1>1. Init => IdentityUnique
    BY DEF Init, IdentityUnique, NoUser
<1>2. TypeOK /\ IdentityUnique /\ [Next]_vars => IdentityUnique'
    BY IdentityNext
<1> QED BY <1>1, <1>2, TypeCorrect, PTL DEF Spec

-----------------------------------------------------------------------------
(***************************************************************************)
(* Adaptation: a poll of the publisher moves a stream's target down one    *)
(* rung of the ladder and never out of order, and the config viewers poll  *)
(* always shows the target.  The order needs two facts about all targets:  *)
(* a width is known when the height is, and one stream has a stream id     *)
(* (StreamIdUnique, shown above), or a poll could change another stream    *)
(* than the one it looked at.                                              *)
(***************************************************************************)

\* Width and height of a target are known together.
Known(t) == t.width = 0 <=> t.height = 0

\* The config, once set, repeats the target.
Mirrors(p) ==
    p.config # NoConfig =>
        p.config = [fps |-> p.target.fps, width |-> p.target.width, height |-> p.target.height]

TargetInv == \A p \in published : Known(p.target) /\ Mirrors(p)

-----------------------------------------------------------------------------
\* The floors are positive.
LEMMA Floors == MinBitrate > 0 /\ MinFps > 0 /\ MinWidth > 0 /\ MinHeight > 0
BY SMT DEF MinBitrate, MinFps, MinWidth, MinHeight

\* A degraded value is a smaller one.
LEMMA PercentLowers ==
    ASSUME NEW x \in Nat
    PROVE  Percent(x) \in Nat /\ Percent(x) <= x /\ (x > 0 => Percent(x) < x)
BY SMT DEF Percent, DegradedPercent

\* Clamping a value that is legal changes nothing.
LEMMA ClampLegal ==
    ASSUME NEW lo \in Int, NEW hi \in Int, NEW x \in lo..hi
    PROVE  Clamp(x, lo, hi) = x
BY DEF Clamp, Larger, Smaller

\* Clamping keeps both dimensions or forgets both.
LEMMA ClampKnown ==
    ASSUME NEW b \in Int, NEW f \in Int, NEW w \in Int, NEW h \in Int
    PROVE  Known(ClampTarget(b, f, w, h))
<1>1. /\ Clamp(w, MinWidth, MaxWidth) \in MinWidth..MaxWidth
      /\ Clamp(h, MinHeight, MaxHeight) \in MinHeight..MaxHeight
    BY Limits, ClampType
<1>2. ClampWidth(w, h) = 0 <=> ClampHeight(w, h) = 0
    BY <1>1, Floors, Limits DEF ClampWidth, ClampHeight
<1>3. /\ ClampTarget(b, f, w, h).width = ClampWidth(w, h)
      /\ ClampTarget(b, f, w, h).height = ClampHeight(w, h)
    BY DEF ClampTarget
<1> QED BY <1>2, <1>3 DEF Known

\* A resolution step leaves an unknown resolution unknown and makes neither
\* dimension of a known one larger or illegal.
LEMMA ReduceResolutionOrder ==
    ASSUME NEW w \in MinWidth..MaxWidth, NEW h \in MinHeight..MaxHeight
    PROVE  /\ ReduceResolution(w, h)[1] \in MinWidth..w
           /\ ReduceResolution(w, h)[2] \in MinHeight..h
<1> DEFINE w1 == Smaller(Larger(Percent(w), MinWidth), w)
           h1 == Smaller(Larger((w1 * h) \div w, MinHeight), h)
           w2 == IF h1 = h THEN Smaller(Larger((h1 * w) \div h, MinWidth), w) ELSE w1
<1>1. w \in Nat /\ w > 0 /\ h \in Nat /\ h > 0
    BY Limits, Floors
<1>2. w1 \in MinWidth..w
    BY <1>1, PercentLowers, Limits DEF Smaller, Larger
<1>3. (w1 * h) \div w \in Int
    BY <1>1, <1>2, Limits
<1>4. h1 \in MinHeight..h
    BY <1>1, <1>3, Limits DEF Smaller, Larger
<1>5. (h1 * w) \div h \in Int
    BY <1>1, <1>4, Limits
<1>6. w2 \in MinWidth..w
    BY <1>1, <1>2, <1>5, Limits DEF Smaller, Larger
<1>7. ReduceResolution(w, h) = IF w1 = w /\ h1 = h THEN <<w, h>>
                               ELSE <<ClampWidth(w2, h1), ClampHeight(w2, h1)>>
    BY <1>1 DEF ReduceResolution
<1> HIDE DEF w1, h1, w2
<1>8. ClampWidth(w2, h1) = w2 /\ ClampHeight(w2, h1) = h1
    <2>1. w2 \in MinWidth..MaxWidth /\ h1 \in MinHeight..MaxHeight /\ w2 # 0 /\ h1 # 0
        BY <1>1, <1>4, <1>6, Limits, Floors
    <2>2. Clamp(w2, MinWidth, MaxWidth) = w2 /\ Clamp(h1, MinHeight, MaxHeight) = h1
        BY <2>1, Limits, ClampLegal
    <2> QED BY <2>1, <2>2 DEF ClampWidth, ClampHeight
<1> QED BY <1>1, <1>2, <1>4, <1>6, <1>7, <1>8, Limits

\* What a rung may change: LadderInOrder, as a relation between two targets.
Rung(t, q) ==
    /\ q.bitrate <= t.bitrate
    /\ q.fps <= t.fps
    /\ q.fps # t.fps => t.bitrate = MinBitrate
    /\ <<q.width, q.height>> # <<t.width, t.height>> =>
          /\ t.bitrate = MinBitrate /\ t.fps = MinFps
          /\ q.width \in MinWidth..t.width
          /\ q.height \in MinHeight..t.height

\* One step of adaptation goes down the ladder in order.
LEMMA LowerTargetOrder ==
    ASSUME NEW t \in Target, Known(t)
    PROVE  Rung(t, LowerTarget(t))
<1> DEFINE b == Larger(Percent(t.bitrate), MinBitrate)
           f == IF b = t.bitrate /\ t.fps > MinFps THEN Larger(Percent(t.fps), MinFps)
                ELSE t.fps
           r == IF b = t.bitrate /\ f = t.fps THEN ReduceResolution(t.width, t.height)
                ELSE <<t.width, t.height>>
           q == LowerTarget(t)
<1>1. /\ t.bitrate \in MinBitrate..MaxBitrate /\ t.fps \in MinFps..MaxFps
      /\ t.width \in {0} \cup MinWidth..MaxWidth /\ t.height \in {0} \cup MinHeight..MaxHeight
    BY DEF Target
<1>2. /\ b \in MinBitrate..t.bitrate
      /\ b = t.bitrate => t.bitrate = MinBitrate
    <2>1. t.bitrate \in Nat /\ t.bitrate > 0
        BY <1>1, Limits, Floors
    <2> QED BY <1>1, <2>1, PercentLowers, Limits DEF Larger
<1>3. /\ f \in MinFps..t.fps
      /\ f # t.fps => b = t.bitrate
      /\ b = t.bitrate /\ f = t.fps => t.fps = MinFps
    <2>1. t.fps \in Nat /\ t.fps > 0
        BY <1>1, Limits, Floors
    <2>2. /\ Percent(t.fps) \in Nat /\ Percent(t.fps) < t.fps
        BY <2>1, PercentLowers
    <2> HIDE DEF b
    <2> QED BY <1>1, <2>1, <2>2, Limits DEF Larger
<1>4. q = ClampTarget(b, f, r[1], r[2])
    BY DEF LowerTarget
<1> HIDE DEF b, f, q
<1>5. /\ q.bitrate = b /\ q.fps = f
      /\ q.width = ClampWidth(r[1], r[2]) /\ q.height = ClampHeight(r[1], r[2])
    <2>1. /\ b \in MinBitrate..MaxBitrate /\ f \in MinFps..MaxFps
        BY <1>1, <1>2, <1>3, Limits
    <2>2. Clamp(b, MinBitrate, MaxBitrate) = b /\ Clamp(f, MinFps, MaxFps) = f
        BY <2>1, Limits, ClampLegal
    <2> HIDE DEF r
    <2> QED BY <1>4, <2>2 DEF ClampTarget
<1>6. CASE t.width = 0
    <2>1. t.height = 0
        BY <1>6 DEF Known
    <2>2. r = <<0, 0>>
        BY <1>6, <2>1 DEF ReduceResolution
    <2>3. q.width = 0 /\ q.height = 0
        BY <1>5, <2>2 DEF ClampWidth, ClampHeight
    <2> QED BY <1>1, <1>2, <1>3, <1>5, <1>6, <2>1, <2>3, Limits DEF Rung, q
<1>7. CASE t.width # 0
    <2>1. t.width \in MinWidth..MaxWidth /\ t.height \in MinHeight..MaxHeight
        BY <1>1, <1>7 DEF Known
    <2>2. /\ r[1] \in MinWidth..t.width /\ r[2] \in MinHeight..t.height
          /\ r # <<t.width, t.height>> => b = t.bitrate /\ f = t.fps
        BY <2>1, ReduceResolutionOrder, Limits
    <2> HIDE DEF r
    <2>3. q.width = r[1] /\ q.height = r[2]
        <3>1. /\ r[1] \in MinWidth..MaxWidth /\ r[2] \in MinHeight..MaxHeight
              /\ r[1] # 0 /\ r[2] # 0
            BY <2>1, <2>2, Limits, Floors
        <3>2. Clamp(r[1], MinWidth, MaxWidth) = r[1] /\ Clamp(r[2], MinHeight, MaxHeight) = r[2]
            BY <3>1, Limits, ClampLegal
        <3> QED BY <1>5, <3>1, <3>2 DEF ClampWidth, ClampHeight
    <2> QED BY <1>1, <1>2, <1>3, <1>5, <2>1, <2>2, <2>3, Limits DEF Rung, q
<1> QED BY <1>6, <1>7

-----------------------------------------------------------------------------
\* Whatever changes a target keeps the config in step with it.
LEMMA WithTargetInv ==
    ASSUME TypeOK, NEW p \in published, NEW t, Known(t)
    PROVE  Known(WithTarget(p, t).target) /\ Mirrors(WithTarget(p, t))
<1>1. p \in Stream
    BY DEF TypeOK
<1>2. /\ WithTarget(p, t).target = t
      /\ WithTarget(p, t).config = IF p.config = NoConfig THEN NoConfig
                                   ELSE [fps |-> t.fps, width |-> t.width, height |-> t.height]
    BY <1>1 DEF WithTarget, Stream
<1> QED BY <1>2 DEF Mirrors

\* Replacing one stream by one whose target and config are in order.
LEMMA ReplaceInv ==
    ASSUME TargetInv, NEW p \in published, NEW q, Replace(p, q), Known(q.target), Mirrors(q)
    PROVE  TargetInv'
<1>1. \A x \in published' : Known(x.target) /\ Mirrors(x)
    BY DEF TargetInv, Replace
<1> QED BY <1>1 DEF TargetInv

\* Removing streams keeps the invariant.
LEMMA FewerStreamsInv ==
    ASSUME TargetInv, published' \subseteq published
    PROVE  TargetInv'
<1>1. \A x \in published' : Known(x.target) /\ Mirrors(x)
    BY DEF TargetInv
<1> QED BY <1>1 DEF TargetInv

\* The requests that set a target or a config.
LEMMA TargetRequestInv ==
    ASSUME TypeOK, TargetInv, NEW c \in Sessions, NEW s \in StreamIds, NEW r \in rooms
    PROVE  /\ \A codec \in Codecs, in \in ConfigInputs :
                 SetStreamConfig(c, r, s, codec, in) => TargetInv'
           /\ \A b \in BitrateInputs : SetTargetBitrate(c, r, s, b) => TargetInv'
           /\ \A f \in FpsInputs : SetTargetFramerate(c, r, s, f) => TargetInv'
<1>t. ASSUME NEW p \in published
      PROVE  /\ p.target.bitrate \in Int /\ p.target.fps \in Int
             /\ p.target.width \in Int /\ p.target.height \in Int
    BY Limits, SMTT(30) DEF TypeOK, Stream, Target
<1>1. ASSUME NEW codec \in Codecs, NEW in \in ConfigInputs, SetStreamConfig(c, r, s, codec, in)
      PROVE  TargetInv'
    <2>1. PICK p \in published :
             LET t == [ClampTarget(p.target.bitrate, in.fps, in.width, in.height)
                           EXCEPT !.bitrate = p.target.bitrate]
             IN  Replace(p, [p EXCEPT !.target = t,
                                      !.config = [fps |-> t.fps, width |-> t.width,
                                                  height |-> t.height]])
        BY <1>1 DEF SetStreamConfig
    <2> DEFINE k == ClampTarget(p.target.bitrate, in.fps, in.width, in.height)
               t == [k EXCEPT !.bitrate = p.target.bitrate]
               q == [p EXCEPT !.target = t, !.config = [fps |-> t.fps, width |-> t.width,
                                                        height |-> t.height]]
    <2>2. in.fps \in Int /\ in.width \in Int /\ in.height \in Int
        BY InputAssumption
    <2>3. Known(k) /\ k \in Target
        BY <1>t, <2>2, ClampKnown, ClampTargetType
    <2>4. Replace(p, q)
        BY <2>1
    <2> HIDE DEF k
    <2>5. Known(t)
        BY <2>3 DEF Known, Target
    <2> HIDE DEF t
    <2>6. q.target = t /\ q.config = [fps |-> t.fps, width |-> t.width, height |-> t.height]
        BY DEF TypeOK, Stream
    <2> HIDE DEF q
    <2>7. Known(q.target) /\ Mirrors(q)
        BY <2>5, <2>6 DEF Mirrors
    <2> QED BY <2>4, <2>7, ReplaceInv
<1>2. ASSUME NEW b \in BitrateInputs, SetTargetBitrate(c, r, s, b) PROVE TargetInv'
    <2>1. PICK p \in published :
             Replace(p, WithTarget(p, ClampTarget(b, p.target.fps, p.target.width,
                                                  p.target.height)))
        BY <1>2 DEF SetTargetBitrate
    <2>2. Known(ClampTarget(b, p.target.fps, p.target.width, p.target.height))
        BY <1>t, ClampKnown, InputAssumption
    <2> QED BY <2>1, <2>2, WithTargetInv, ReplaceInv
<1>3. ASSUME NEW f \in FpsInputs, SetTargetFramerate(c, r, s, f) PROVE TargetInv'
    <2>1. PICK p \in published :
             Replace(p, WithTarget(p, ClampTarget(p.target.bitrate, f, p.target.width,
                                                  p.target.height)))
        BY <1>3 DEF SetTargetFramerate
    <2>2. Known(ClampTarget(p.target.bitrate, f, p.target.width, p.target.height))
        BY <1>t, ClampKnown, InputAssumption
    <2> QED BY <2>1, <2>2, WithTargetInv, ReplaceInv
<1> QED BY <1>1, <1>2, <1>3

\* A step of adaptation yields a target whose dimensions are known together.
LEMMA LowerTargetKnown ==
    ASSUME NEW t \in Target
    PROVE  Known(LowerTarget(t))
<1> DEFINE b == Larger(Percent(t.bitrate), MinBitrate)
           f == IF b = t.bitrate /\ t.fps > MinFps THEN Larger(Percent(t.fps), MinFps)
                ELSE t.fps
           r == IF b = t.bitrate /\ f = t.fps THEN ReduceResolution(t.width, t.height)
                ELSE <<t.width, t.height>>
<1>1. t.bitrate \in Nat /\ t.fps \in Nat /\ t.width \in Nat /\ t.height \in Nat
    BY Limits DEF Target
<1>2. b \in Int /\ f \in Int
    BY <1>1, Limits DEF Larger, Percent
<1>3. r[1] \in Int /\ r[2] \in Int
    BY <1>1, ReduceResolutionType
<1>4. LowerTarget(t) = ClampTarget(b, f, r[1], r[2])
    BY DEF LowerTarget
<1> HIDE DEF b, f, r
<1> QED BY <1>2, <1>3, <1>4, ClampKnown

\* The publisher's poll.
LEMMA PollInv ==
    ASSUME TypeOK, TargetInv, NEW c \in Sessions, NEW s \in StreamIds,
           PollPublisherFeedback(c, s)
    PROVE  TargetInv'
<1>1. PICK p \in published : \/ Replace(p, WithTarget(p, LowerTarget(p.target)))
                             \/ UNCHANGED published
    BY DEF PollPublisherFeedback
<1>2. p.target \in Target
    BY DEF TypeOK, Stream
<1>3. Known(LowerTarget(p.target))
    BY <1>2, LowerTargetKnown
<1> QED BY <1>1, <1>3, WithTargetInv, ReplaceInv, FewerStreamsInv

\* Every step keeps targets known and configs in step.
LEMMA TargetNext ==
    ASSUME TypeOK, TargetInv, [Next]_vars
    PROVE  TargetInv'
<1> USE DEF streamVars
<1>1. CASE UNCHANGED vars
    BY <1>1, FewerStreamsInv DEF vars
<1>2. ASSUME NEW c \in Sessions, Hello(c) \/ Authenticate(c) \/ Forward(c)
      PROVE  TargetInv'
    BY <1>2, FewerStreamsInv DEF Hello, Authenticate, Forward, RecordForward
<1>3. ASSUME NEW c \in Sessions, Disconnect(c) PROVE TargetInv'
    BY <1>3, FewerStreamsInv DEF Disconnect, DisconnectUser, LeaveRooms
<1>4. ASSUME NEW c \in Sessions, RoomRequest(c) PROVE TargetInv'
    BY <1>4, FewerStreamsInv DEF RoomRequest, CreateRoom, JoinRoom, LeaveRoom, LeaveRooms,
                                 SetVoiceState
<1>5. ASSUME NEW c \in Sessions, StreamRequest(c) PROVE TargetInv'
    <2>1. ASSUME NEW s \in StreamIds, NEW r \in rooms, NEW codec \in Codecs, NEW kind \in Kinds,
                 PublishStream(c, r, s, codec, kind)
          PROVE  TargetInv'
        <3> DEFINE q == [room |-> r, stream |-> s, publisher |-> user[c], codec |-> codec,
                         kind |-> kind, target |-> DefaultTarget, config |-> NoConfig]
        <3>1. published' = published \cup {q}
            BY <2>1 DEF PublishStream
        <3>2. Known(q.target) /\ Mirrors(q)
            BY DEF Known, Mirrors, DefaultTarget
        <3> HIDE DEF q
        <3>3. \A x \in published' : Known(x.target) /\ Mirrors(x)
            BY <3>1, <3>2 DEF TargetInv
        <3> QED BY <3>3 DEF TargetInv
    <2>2. ASSUME NEW s \in StreamIds, NEW r \in rooms
          PROVE  /\ UnpublishStream(c, r, s) => TargetInv'
                 /\ SubscribeStream(c, r, s) => TargetInv'
                 /\ UnsubscribeStream(c, r, s) => TargetInv'
                 /\ RequestKeyframe(c, r, s) => TargetInv'
                 /\ SendRemoteInput(c, r, s) => TargetInv'
                 /\ \A n : PollRemoteInput(c, r, s, n) => TargetInv'
        BY FewerStreamsInv DEF UnpublishStream, SubscribeStream, UnsubscribeStream,
                               RequestKeyframe, SendRemoteInput, PollRemoteInput
    <2>3. ASSUME NEW s \in StreamIds
          PROVE  \A report : ReportViewerStats(c, s, report) => TargetInv'
        BY FewerStreamsInv DEF ReportViewerStats
    <2> QED BY <1>5, <2>1, <2>2, <2>3, TargetRequestInv, PollInv DEF StreamRequest
<1> QED BY <1>1, <1>2, <1>3, <1>4, <1>5 DEF Next, Request

\* In every reachable state targets are known and configs in step.
LEMMA TargetInvariant == Spec => []TargetInv
<1>1. Init => TargetInv
    BY DEF Init, TargetInv
<1>2. TypeOK /\ TargetInv /\ [Next]_vars => TargetInv'
    BY TargetNext
<1> QED BY <1>1, <1>2, TypeCorrect, PTL DEF Spec

\* PollStreamConfig shows viewers the target the relay adapts, whatever targets
\* and configs the publisher asks for and however often the relay lowers them.
THEOREM ConfigsMirrorTargets == Spec => []ConfigMirrorsTarget
<1>1. TargetInv => ConfigMirrorsTarget
    BY DEF TargetInv, Mirrors, ConfigMirrorsTarget
<1> QED BY <1>1, TargetInvariant, PTL

\* No poll raises a target or skips a rung of the ladder, for every legal
\* bitrate, framerate and resolution.
THEOREM LadderIsOrdered == Spec => LadderInOrder
<1>1. ASSUME TypeOK, Consistent, TargetInv, NEW p \in published, NEW q \in published',
             Retargeted(p, q)
      PROVE  Rung(p.target, q.target)
    <2>1. PICK c \in Sessions : PollPublisherFeedback(c, p.stream)
        BY <1>1 DEF Retargeted
    <2>2. PICK x \in published : /\ x.stream = p.stream
                                 /\ \/ Replace(x, WithTarget(x, LowerTarget(x.target)))
                                    \/ UNCHANGED published
        BY <2>1 DEF PollPublisherFeedback
    <2>3. \A y \in published : y.stream = p.stream => y = p
        BY <1>1 DEF Consistent, StreamIdUnique
    <2>4. x = p /\ q.stream = p.stream /\ q.target # p.target
        BY <1>1, <2>2, <2>3 DEF Retargeted
    <2>5. q = WithTarget(p, LowerTarget(p.target))
        BY <2>2, <2>3, <2>4 DEF Replace
    <2>6. p \in Stream /\ p.target \in Target /\ Known(p.target)
        BY <1>1 DEF TypeOK, Stream, TargetInv
    <2>7. q.target = LowerTarget(p.target)
        BY <2>5, <2>6 DEF WithTarget, Stream
    <2> QED BY <2>6, <2>7, LowerTargetOrder
<1>2. TypeOK /\ Consistent /\ TargetInv /\ [Next]_vars =>
         [\A p \in published, q \in published' : Retargeted(p, q) =>
             /\ q.target.bitrate <= p.target.bitrate
             /\ q.target.fps <= p.target.fps
             /\ q.target.fps # p.target.fps => p.target.bitrate = MinBitrate
             /\ <<q.target.width, q.target.height>> # <<p.target.width, p.target.height>> =>
                   /\ p.target.bitrate = MinBitrate /\ p.target.fps = MinFps
                   /\ q.target.width \in MinWidth..p.target.width
                   /\ q.target.height \in MinHeight..p.target.height]_vars
    BY <1>1 DEF Rung
<1> QED BY <1>2, TypeCorrect, TablesConsistent, TargetInvariant, PTL DEF Spec, LadderInOrder

-----------------------------------------------------------------------------
(***************************************************************************)
(* The limits.  The tables are finite, so that counting them means         *)
(* something.  This and the directory rest on Consistent: a room is        *)
(* entered when it is new or inhabited, and a stream id names one stream.  *)
(***************************************************************************)
FiniteTables == IsFiniteSet(rooms) /\ IsFiniteSet(participants) /\ IsFiniteSet(published)

LimitsInv == FiniteTables /\ WithinLimits

\* Dropping the oldest input makes room for one more event.
LEMMA MakeRoomLength ==
    ASSUME NEW q \in Seq(UserIds)
    PROVE  Len(MakeRoom(q)) < MaxInputQueue
<1>1. Len(q) \in Nat /\ MaxInputQueue \in Nat \ {0}
    BY LimitAssumption
<1>2. CASE Len(q) < MaxInputQueue
    BY <1>2 DEF MakeRoom
<1>3. CASE ~(Len(q) < MaxInputQueue)
    <2> DEFINE m == Len(q) - MaxInputQueue + 2
    <2>1. m \in Int /\ 1 <= m /\ m <= Len(q) + 1 /\ Len(q) - m + 1 = MaxInputQueue - 1
        BY <1>1, <1>3
    <2>2. MakeRoom(q) = SubSeq(q, m, Len(q))
        BY <1>3 DEF MakeRoom
    <2> HIDE DEF m
    <2>3. Len(SubSeq(q, m, Len(q))) = IF m <= Len(q) THEN Len(q) - m + 1 ELSE 0
        BY <1>1, <2>1
    <2> QED BY <1>1, <2>1, <2>2, <2>3
<1> QED BY <1>2, <1>3

\* Tables that do not grow stay within the limits.
LEMMA ShrinkLimits ==
    ASSUME TypeOK, LimitsInv,
           rooms' \subseteq rooms, participants' \subseteq participants,
           published' \subseteq published,
           \A s \in StreamIds : Len(remoteInput'[s]) <= MaxInputQueue
    PROVE  LimitsInv'
<1>1. FiniteTables'
    BY FS_Subset DEF LimitsInv, FiniteTables
<1>2. Cardinality(rooms') <= MaxRooms
    <2>1. /\ Cardinality(rooms') <= Cardinality(rooms)
          /\ Cardinality(rooms) \in Nat /\ Cardinality(rooms') \in Nat
        BY <1>1, FS_Subset, FS_CardinalityType DEF LimitsInv, FiniteTables
    <2> QED BY <2>1, LimitAssumption DEF LimitsInv, WithinLimits
<1>3. ASSUME NEW r \in rooms' PROVE Cardinality({m \in participants' : m.room = r}) <= MaxParticipants
    <2> DEFINE A == {m \in participants : m.room = r}
               B == {m \in participants' : m.room = r}
    <2>1. IsFiniteSet(A) /\ B \subseteq A
        BY FS_Subset DEF LimitsInv, FiniteTables
    <2>2. Cardinality(A) <= MaxParticipants
        BY DEF LimitsInv, WithinLimits
    <2> HIDE DEF A, B
    <2>3. IsFiniteSet(B) /\ Cardinality(B) <= Cardinality(A)
        BY <2>1, FS_Subset
    <2>4. Cardinality(B) <= MaxParticipants
        BY <2>1, <2>2, <2>3, FS_CardinalityType, LimitAssumption
    <2> QED BY <2>4 DEF B
<1>4. ASSUME NEW r \in rooms' PROVE Cardinality({p \in published' : p.room = r}) <= MaxStreams
    <2> DEFINE A == {p \in published : p.room = r}
               B == {p \in published' : p.room = r}
    <2>1. IsFiniteSet(A) /\ B \subseteq A
        BY FS_Subset DEF LimitsInv, FiniteTables
    <2>2. Cardinality(A) <= MaxStreams
        BY DEF LimitsInv, WithinLimits, StreamsIn
    <2> HIDE DEF A, B
    <2>3. IsFiniteSet(B) /\ Cardinality(B) <= Cardinality(A)
        BY <2>1, FS_Subset
    <2>4. Cardinality(B) <= MaxStreams
        BY <2>1, <2>2, <2>3, FS_CardinalityType, LimitAssumption
    <2> QED BY <2>4 DEF B
<1> QED BY <1>1, <1>2, <1>3, <1>4 DEF LimitsInv, WithinLimits, StreamsIn

\* Entering a room that has a free place, or one's own, or that is new.
LEMMA EnterLimits ==
    ASSUME TypeOK, Consistent, LimitsInv, NEW r \in RoomIds, NEW u,
           participants' = participants \cup {[room |-> r, user |-> u]},
           \/ r \in rooms /\ rooms' = rooms /\
                 (\/ IsParticipant(r, u)
                  \/ Cardinality({m \in participants : m.room = r}) < MaxParticipants)
           \/ r = nextRoomId /\ rooms' = rooms \cup {r} /\ Cardinality(rooms) < MaxRooms,
           UNCHANGED <<published, remoteInput>>
    PROVE  LimitsInv'
<1> DEFINE new == [room |-> r, user |-> u]
           P(x) == {m \in participants : m.room = x}
<1>1. IsFiniteSet(rooms) /\ IsFiniteSet(participants) /\ IsFiniteSet(published)
    BY DEF LimitsInv, FiniteTables
<1>2. FiniteTables'
    BY <1>1, FS_AddElement DEF FiniteTables
<1>3. Cardinality(rooms') <= MaxRooms
    <2>1. Cardinality(rooms) \in Nat
        BY <1>1, FS_CardinalityType
    <2>2. /\ Cardinality(rooms) <= MaxRooms
          /\ Cardinality(rooms \cup {r}) \in {Cardinality(rooms), Cardinality(rooms) + 1}
        BY <1>1, FS_AddElement DEF LimitsInv, WithinLimits
    <2>3. rooms' = rooms \/ (rooms' = rooms \cup {r} /\ Cardinality(rooms) < MaxRooms)
        OBVIOUS
    <2>4. CASE rooms' = rooms
        BY <2>2, <2>4
    <2>5. CASE rooms' = rooms \cup {r} /\ Cardinality(rooms) < MaxRooms
        <3>1. Cardinality(rooms') \in {Cardinality(rooms), Cardinality(rooms) + 1}
            BY <2>2, <2>5
        <3> QED BY <2>1, <2>5, <3>1, LimitAssumption
    <2> QED BY <2>3, <2>4, <2>5
<1>4. ASSUME NEW x \in rooms'
      PROVE  Cardinality({m \in participants' : m.room = x}) <= MaxParticipants
    <2> DEFINE Q == {m \in participants' : m.room = x}
    <2>1. IsFiniteSet(P(x)) /\ Cardinality(P(x)) \in Nat
        BY <1>1, FS_Subset, FS_CardinalityType
    <2>2. CASE x # r
        <3>1. Q = P(x) /\ x \in rooms
            BY <2>2
        <3> QED BY <3>1 DEF LimitsInv, WithinLimits
    <2>3. CASE x = r /\ r \in rooms /\ IsParticipant(r, u)
        <3>1. Q = P(x)
            BY <2>3 DEF IsParticipant
        <3> QED BY <2>3, <3>1 DEF LimitsInv, WithinLimits
    <2>4. CASE x = r /\ r \in rooms /\ Cardinality(P(r)) < MaxParticipants
        <3>1. Q = P(x) \cup {new}
            BY <2>4
        <3> HIDE DEF P, Q
        <3>2. Cardinality(Q) \in {Cardinality(P(x)), Cardinality(P(x)) + 1}
            BY <2>1, <3>1, FS_AddElement
        <3>3. Cardinality(Q) <= MaxParticipants
            BY <2>1, <2>4, <3>2, LimitAssumption
        <3> QED BY <3>3 DEF Q
    <2>5. CASE x = r /\ r = nextRoomId
        <3>1. ASSUME NEW m \in participants PROVE m.room # r
            <4>1. m.room \in rooms
                BY DEF Consistent, RoomsInhabited
            <4>2. m.room < nextRoomId /\ nextRoomId \in Nat
                BY <4>1 DEF Consistent, RoomsInhabited, TypeOK
            <4> QED BY <2>5, <4>2
        <3>2. Q = {new}
            BY <2>5, <3>1
        <3>3. Cardinality(Q) = 1
            BY <3>2, FS_Singleton
        <3> QED BY <3>3, LimitAssumption
    <2> QED BY <2>2, <2>3, <2>4, <2>5
<1>5. ASSUME NEW x \in rooms'
      PROVE  Cardinality({p \in published' : p.room = x}) <= MaxStreams
    <2>1. CASE x \in rooms
        BY <2>1 DEF LimitsInv, WithinLimits, StreamsIn
    <2>2. CASE x = r /\ r = nextRoomId
        <3>1. ASSUME NEW p \in published PROVE p.room # r
            <4>1. p.room \in rooms /\ p.room < nextRoomId /\ nextRoomId \in Nat
                BY DEF Consistent, PublishersArePresent, RoomsInhabited, TypeOK
            <4> QED BY <2>2, <4>1
        <3>2. {p \in published' : p.room = x} = {}
            BY <2>2, <3>1
        <3>3. Cardinality({p \in published' : p.room = x}) = 0
            BY <3>2, FS_EmptySet
        <3> QED BY <3>3, LimitAssumption
    <2> QED BY <2>1, <2>2
<1>6. \A s \in StreamIds : Len(remoteInput'[s]) <= MaxInputQueue
    BY DEF LimitsInv, WithinLimits
<1> QED BY <1>2, <1>3, <1>4, <1>5, <1>6 DEF LimitsInv, WithinLimits, StreamsIn

\* A change in the published streams of one room.
LEMMA StreamLimits ==
    ASSUME TypeOK, LimitsInv, NEW r, IsFiniteSet(published'),
           Cardinality({p \in published' : p.room = r}) <= MaxStreams,
           \A x : x # r => {p \in published' : p.room = x} = {p \in published : p.room = x},
           UNCHANGED <<rooms, participants, remoteInput>>
    PROVE  LimitsInv'
<1>1. FiniteTables'
    BY DEF LimitsInv, FiniteTables
<1>2. ASSUME NEW x \in rooms'
      PROVE  Cardinality({p \in published' : p.room = x}) <= MaxStreams
    BY DEF LimitsInv, WithinLimits, StreamsIn
<1> QED BY <1>1, <1>2 DEF LimitsInv, WithinLimits, StreamsIn

\* Publishing is refused in a full room.
LEMMA PublishLimits ==
    ASSUME TypeOK, LimitsInv, NEW c \in Sessions, NEW r \in rooms, NEW s \in StreamIds,
           NEW codec, NEW kind, PublishStream(c, r, s, codec, kind)
    PROVE  LimitsInv'
<1> DEFINE new == [room |-> r, stream |-> s, publisher |-> user[c], codec |-> codec,
                   kind |-> kind, target |-> DefaultTarget, config |-> NoConfig]
           S == {p \in published : p.room = r}
           T == {p \in published' : p.room = r}
<1>1. /\ published' = published \cup {new} /\ new.room = r
      /\ UNCHANGED <<rooms, participants, remoteInput>>
      /\ Cardinality(S) < MaxStreams
    BY DEF PublishStream, roomVars, perStream, StreamsIn
<1> HIDE DEF new
<1>2. IsFiniteSet(published) /\ IsFiniteSet(published')
    BY <1>1, FS_AddElement DEF LimitsInv, FiniteTables
<1>3. IsFiniteSet(S) /\ Cardinality(S) \in Nat
    BY <1>2, FS_Subset, FS_CardinalityType
<1>4. T = S \cup {new}
    BY <1>1
<1>5. \A x : x # r => {p \in published' : p.room = x} = {p \in published : p.room = x}
    BY <1>1
<1>6. Cardinality(T) <= MaxStreams
    <2> HIDE DEF S, T
    <2>1. Cardinality(T) \in {Cardinality(S), Cardinality(S) + 1}
        BY <1>3, <1>4, FS_AddElement
    <2> QED BY <1>1, <1>3, <2>1, LimitAssumption
<1> QED BY <1>1, <1>2, <1>5, <1>6, StreamLimits

\* Replacing a stream by one of the same room changes no count.
LEMMA ReplaceLimits ==
    ASSUME TypeOK, LimitsInv, NEW p \in published, NEW q, q.room = p.room, p.room \in rooms,
           Replace(p, q), UNCHANGED <<rooms, participants, remoteInput>>
    PROVE  LimitsInv'
<1> DEFINE r == p.room
           S == {x \in published : x.room = r}
           T == {x \in published' : x.room = r}
<1>1. published' = (published \ {p}) \cup {q}
    BY DEF Replace
<1>2. IsFiniteSet(published) /\ IsFiniteSet(published')
    BY <1>1, FS_AddElement, FS_RemoveElement DEF LimitsInv, FiniteTables
<1>3. IsFiniteSet(S) /\ Cardinality(S) \in Nat
    BY <1>2, FS_Subset, FS_CardinalityType
<1>4. T = (S \ {p}) \cup {q} /\ p \in S
    BY <1>1
<1>5. Cardinality(S) <= MaxStreams
    BY DEF LimitsInv, WithinLimits, StreamsIn
<1>6. \A x : x # r => {y \in published' : y.room = x} = {y \in published : y.room = x}
    BY <1>1
<1>7. Cardinality(T) <= MaxStreams
    <2> HIDE DEF S, T, r
    <2>1. IsFiniteSet(S \ {p}) /\ Cardinality(S \ {p}) = Cardinality(S) - 1
        BY <1>3, <1>4, FS_RemoveElement
    <2>2. Cardinality(T) \in {Cardinality(S \ {p}), Cardinality(S \ {p}) + 1}
        BY <1>4, <2>1, FS_AddElement
    <2> QED BY <1>3, <1>5, <2>1, <2>2, LimitAssumption
<1> QED BY <1>2, <1>6, <1>7, StreamLimits

-----------------------------------------------------------------------------
(***************************************************************************)
(* The shape of the requests about streams, for the limits and for the     *)
(* refinement: what a request does to the tables other than the reports.   *)
(***************************************************************************)

\* A stream is replaced by one with the same room, id and publisher.
Retuned ==
    /\ \E p \in published : \E q :
          /\ q.room = p.room /\ q.stream = p.stream
          /\ q.publisher = p.publisher /\ Replace(p, q)
    /\ UNCHANGED <<sessionVars, roomVars, subscriptions, remoteInput>>

\* Only input is queued or taken.
Queued ==
    /\ \E s \in StreamIds : \E q :
          /\ remoteInput' = [remoteInput EXCEPT ![s] = q]
          /\ Len(q) <= MaxInputQueue
    /\ UNCHANGED <<sessionVars, roomVars, streamVars>>

\* Nothing but reports, keyframe requests and metrics changes.
Untouched == UNCHANGED <<sessionVars, roomVars, streamVars, remoteInput>>

\* What the requests that change targets and configs do.
LEMMA RetuneShape ==
    ASSUME TypeOK, NEW c \in Sessions, NEW s \in StreamIds,
           \/ \E r \in rooms, codec \in Codecs, in \in ConfigInputs :
                 SetStreamConfig(c, r, s, codec, in)
           \/ \E r \in rooms, b \in BitrateInputs : SetTargetBitrate(c, r, s, b)
           \/ \E r \in rooms, f \in FpsInputs : SetTargetFramerate(c, r, s, f)
           \/ PollPublisherFeedback(c, s)
    PROVE  Retuned \/ Untouched
<1>1. ASSUME NEW p \in published, NEW t
      PROVE  LET q == WithTarget(p, t)
             IN  q.room = p.room /\ q.stream = p.stream /\ q.publisher = p.publisher
    BY DEF WithTarget, TypeOK, Stream
<1>2. ASSUME NEW r \in rooms, NEW codec \in Codecs, NEW in \in ConfigInputs,
             SetStreamConfig(c, r, s, codec, in)
      PROVE  Retuned
    <2> DEFINE t(p) == [ClampTarget(p.target.bitrate, in.fps, in.width, in.height)
                           EXCEPT !.bitrate = p.target.bitrate]
               cfg(p) == [fps |-> t(p).fps, width |-> t(p).width, height |-> t(p).height]
               q(p) == [p EXCEPT !.target = t(p), !.config = cfg(p)]
    <2>1. PICK p \in published : Replace(p, q(p))
        BY <1>2 DEF SetStreamConfig
    <2> HIDE DEF t, cfg
    <2>2. q(p).room = p.room /\ q(p).stream = p.stream /\ q(p).publisher = p.publisher
        BY DEF TypeOK, Stream
    <2> HIDE DEF q
    <2> QED BY <1>2, <2>1, <2>2 DEF SetStreamConfig, Retuned, perStream
<1>3. ASSUME NEW r \in rooms, NEW b \in BitrateInputs, SetTargetBitrate(c, r, s, b)
      PROVE  Retuned
    <2>1. PICK p \in published :
             Replace(p, WithTarget(p, ClampTarget(b, p.target.fps, p.target.width,
                                                  p.target.height)))
        BY <1>3 DEF SetTargetBitrate
    <2> QED BY <1>1, <1>3, <2>1 DEF SetTargetBitrate, Retuned, perStream
<1>4. ASSUME NEW r \in rooms, NEW f \in FpsInputs, SetTargetFramerate(c, r, s, f)
      PROVE  Retuned
    <2>1. PICK p \in published :
             Replace(p, WithTarget(p, ClampTarget(p.target.bitrate, f, p.target.width,
                                                  p.target.height)))
        BY <1>4 DEF SetTargetFramerate
    <2> QED BY <1>1, <1>4, <2>1 DEF SetTargetFramerate, Retuned, perStream
<1>5. CASE PollPublisherFeedback(c, s)
    <2>1. PICK p \in published : IF Overloaded(s)
                                 THEN Replace(p, WithTarget(p, LowerTarget(p.target)))
                                 ELSE UNCHANGED published
        BY <1>5 DEF PollPublisherFeedback
    <2>2. CASE Replace(p, WithTarget(p, LowerTarget(p.target)))
        BY <1>1, <1>5, <2>2 DEF PollPublisherFeedback, Retuned
    <2>3. CASE UNCHANGED published
        BY <1>5, <2>3 DEF PollPublisherFeedback, Untouched, streamVars
    <2> QED BY <2>1, <2>2, <2>3
<1> QED BY <1>2, <1>3, <1>4, <1>5

\* What the input requests do to the queues.
LEMMA InputShape ==
    ASSUME TypeOK, WithinLimits, NEW c \in Sessions, NEW r \in rooms, NEW s \in StreamIds,
           SendRemoteInput(c, r, s) \/ \E n \in PollSizes : PollRemoteInput(c, r, s, n)
    PROVE  Queued
<1>1. remoteInput[s] \in Seq(UserIds) /\ Len(remoteInput[s]) <= MaxInputQueue
    BY DEF TypeOK, WithinLimits
<1>2. CASE SendRemoteInput(c, r, s)
    <2> DEFINE m == MakeRoom(remoteInput[s])
    <2>1. m \in Seq(UserIds) /\ Len(m) < MaxInputQueue /\ user[c] \in UserIds
        <3>1. user[c] \in UserIds
            BY <1>2, AuthorizedUser DEF SendRemoteInput
        <3>2. m \in Seq(UserIds)
            <4>1. 1 \in Nat \ {0}
                OBVIOUS
            <4> QED BY <1>1, <4>1, InputQueueType
        <3> QED BY <1>1, <3>1, <3>2, MakeRoomLength
    <2>2. remoteInput' = [remoteInput EXCEPT ![s] = Append(m, user[c])]
        BY <1>2 DEF SendRemoteInput
    <2> HIDE DEF m
    <2>3. Len(Append(m, user[c])) <= MaxInputQueue
        BY <2>1, LimitAssumption
    <2> QED BY <1>2, <2>2, <2>3 DEF SendRemoteInput, Queued
<1>3. ASSUME NEW n \in PollSizes, PollRemoteInput(c, r, s, n) PROVE Queued
    <2> DEFINE k == Smaller(Larger(n, 1), MaxInputBatch)
               rest == SubSeq(remoteInput[s], k + 1, Len(remoteInput[s]))
    <2>1. k \in Nat \ {0}
        BY InputAssumption, LimitAssumption DEF Smaller, Larger
    <2>2. remoteInput' = [remoteInput EXCEPT ![s] = rest]
        BY <1>3 DEF PollRemoteInput
    <2> HIDE DEF k
    <2>3. Len(rest) <= Len(remoteInput[s]) /\ Len(rest) \in Nat
        BY <1>1, <2>1
    <2>4. Len(rest) <= MaxInputQueue
        <3> HIDE DEF rest
        <3>1. Len(remoteInput[s]) \in Nat /\ MaxInputQueue \in Nat
            BY <1>1, LimitAssumption
        <3> QED BY <1>1, <2>3, <3>1
    <2> QED BY <1>3, <2>2, <2>4 DEF PollRemoteInput, Queued
<1> QED BY <1>2, <1>3

\* Every request about streams is one of these or changes who publishes or
\* watches what.
LEMMA StreamRequestShape ==
    ASSUME TypeOK, WithinLimits, NEW c \in Sessions, StreamRequest(c)
    PROVE  \/ Retuned \/ Queued \/ Untouched
           \/ \E s \in StreamIds, r \in rooms :
                 \/ \E codec \in Codecs, kind \in Kinds : PublishStream(c, r, s, codec, kind)
                 \/ UnpublishStream(c, r, s)
                 \/ SubscribeStream(c, r, s)
                 \/ UnsubscribeStream(c, r, s)
<1>1. ASSUME NEW s \in StreamIds, NEW r \in rooms, RequestKeyframe(c, r, s) PROVE Untouched
    BY <1>1 DEF RequestKeyframe, Untouched
<1>2. ASSUME NEW s \in StreamIds, NEW report \in Reports, ReportViewerStats(c, s, report)
      PROVE  Untouched
    BY <1>2 DEF ReportViewerStats, Untouched
<1> QED BY <1>1, <1>2, RetuneShape, InputShape DEF StreamRequest

\* Every step stays within the limits.
LEMMA LimitsNext ==
    ASSUME TypeOK, Consistent, LimitsInv, [Next]_vars
    PROVE  LimitsInv'
<1>0. \A s \in StreamIds : /\ Len(remoteInput[s]) <= MaxInputQueue
                           /\ Len(<< >>) <= MaxInputQueue
    BY LimitAssumption DEF LimitsInv, WithinLimits
<1>u. ASSUME UNCHANGED <<rooms, participants, published, remoteInput>> PROVE LimitsInv'
    BY <1>u, <1>0, ShrinkLimits
<1>l. ASSUME NEW u, NEW R, NEW stale, LeaveRooms(u, R, stale) PROVE LimitsInv'
    <2> DEFINE ids == {p.stream : p \in {p \in published : p.room \in R /\ p.publisher = u}}
    <2>1. /\ rooms' \subseteq rooms /\ participants' \subseteq participants
          /\ published' \subseteq published
          /\ remoteInput' = [s \in StreamIds |-> IF s \in ids THEN << >> ELSE remoteInput[s]]
        BY <1>l DEF LeaveRooms, RemoveEmptyRooms, RemoveStreamState
    <2> HIDE DEF ids
    <2>2. \A s \in StreamIds : Len(remoteInput'[s]) <= MaxInputQueue
        BY <1>0, <2>1
    <2> QED BY <2>1, <2>2, ShrinkLimits
<1>1. CASE UNCHANGED vars
    BY <1>1, <1>u DEF vars, roomVars, streamVars, perStream
<1>2. ASSUME NEW c \in Sessions, Hello(c) \/ Authenticate(c) \/ Forward(c) PROVE LimitsInv'
    BY <1>2, <1>u DEF Hello, Authenticate, Forward, RecordForward, roomVars, streamVars,
                      perStream
<1>3. ASSUME NEW c \in Sessions, Disconnect(c) PROVE LimitsInv'
    BY <1>3, <1>l DEF Disconnect, DisconnectUser
<1>4. ASSUME NEW c \in Sessions, RoomRequest(c) PROVE LimitsInv'
    <2>1. CASE CreateRoom(c)
        <3>1. nextRoomId \in RoomIds
            BY DEF TypeOK, RoomIds
        <3>2. /\ participants' = participants \cup {[room |-> nextRoomId, user |-> user[c]]}
              /\ rooms' = rooms \cup {nextRoomId} /\ Cardinality(rooms) < MaxRooms
              /\ UNCHANGED <<published, remoteInput>>
            BY <2>1 DEF CreateRoom, streamVars, perStream
        <3> QED BY <3>1, <3>2, EnterLimits
    <2>2. ASSUME NEW r \in rooms, JoinRoom(c, r) PROVE LimitsInv'
        <3>1. r \in RoomIds
            BY DEF TypeOK
        <3> QED BY <2>2, <3>1, EnterLimits DEF JoinRoom, streamVars, perStream
    <2>3. ASSUME NEW r \in rooms, LeaveRoom(c, r) PROVE LimitsInv'
        BY <2>3, <1>l DEF LeaveRoom
    <2>4. ASSUME NEW r \in rooms, NEW in \in VoiceInputs, SetVoiceState(c, r, in)
          PROVE  LimitsInv'
        BY <2>4, <1>u DEF SetVoiceState, streamVars, perStream
    <2> QED BY <1>4, <2>1, <2>2, <2>3, <2>4 DEF RoomRequest
<1>5. ASSUME NEW c \in Sessions, StreamRequest(c) PROVE LimitsInv'
    <2>1. CASE Retuned
        <3>0. PICK p \in published : \E q : q.room = p.room /\ Replace(p, q)
            BY <2>1 DEF Retuned
        <3>1. PICK q : q.room = p.room /\ Replace(p, q)
            BY <3>0
        <3>2. p.room \in rooms
            BY DEF Consistent, PublishersArePresent
        <3> QED BY <2>1, <3>1, <3>2, ReplaceLimits DEF Retuned, roomVars
    <2>2. CASE Queued
        <3>0. PICK s \in StreamIds : \E q : /\ remoteInput' = [remoteInput EXCEPT ![s] = q]
                                            /\ Len(q) <= MaxInputQueue
            BY <2>2 DEF Queued
        <3>1. PICK q : /\ remoteInput' = [remoteInput EXCEPT ![s] = q]
                       /\ Len(q) <= MaxInputQueue
            BY <3>0
        <3>2. \A x \in StreamIds : Len(remoteInput'[x]) <= MaxInputQueue
            BY <1>0, <3>1 DEF TypeOK
        <3> QED BY <2>2, <3>2, ShrinkLimits DEF Queued, roomVars, streamVars
    <2>3. CASE Untouched
        BY <1>u, <2>3 DEF Untouched, roomVars, streamVars
    <2>4. ASSUME NEW s \in StreamIds, NEW r \in rooms, UnpublishStream(c, r, s)
          PROVE  LimitsInv'
        <3>1. /\ rooms' \subseteq rooms /\ participants' = participants
              /\ published' \subseteq published
              /\ remoteInput' = [x \in StreamIds |-> IF x \in {s} THEN << >> ELSE remoteInput[x]]
            BY <2>4 DEF UnpublishStream, RemoveEmptyRooms, RemoveStreamState
        <3>2. \A x \in StreamIds : Len(remoteInput'[x]) <= MaxInputQueue
            BY <1>0, <3>1
        <3> QED BY <3>1, <3>2, ShrinkLimits
    <2>5. ASSUME NEW s \in StreamIds, NEW r \in rooms,
                 SubscribeStream(c, r, s) \/ UnsubscribeStream(c, r, s)
          PROVE  LimitsInv'
        BY <1>u, <2>5 DEF SubscribeStream, UnsubscribeStream, roomVars
    <2> QED BY <1>5, <2>1, <2>2, <2>3, <2>4, <2>5, StreamRequestShape, PublishLimits
            DEF LimitsInv
<1> QED BY <1>1, <1>2, <1>3, <1>4, <1>5 DEF Next, Request

\* No order of requests and disconnects gets the relay over its limits: the
\* counts of rooms, of a room's participants and streams, and the length of a
\* queue of remote input, whatever the limits are.
THEOREM LimitsHold == Spec => []WithinLimits
<1>1. Init => LimitsInv
    <2> SUFFICES ASSUME Init PROVE LimitsInv
        OBVIOUS
    <2>1. FiniteTables
        BY FS_EmptySet DEF Init, FiniteTables
    <2>2. Cardinality(rooms) <= MaxRooms /\ rooms = {}
        BY FS_EmptySet, LimitAssumption DEF Init
    <2>3. \A s \in StreamIds : Len(remoteInput[s]) <= MaxInputQueue
        BY LimitAssumption DEF Init
    <2> QED BY <2>1, <2>2, <2>3 DEF LimitsInv, WithinLimits
<1>2. TypeOK /\ Consistent /\ LimitsInv /\ [Next]_vars => LimitsInv'
    BY LimitsNext
<1>3. LimitsInv => WithinLimits
    BY DEF LimitsInv
<1> QED BY <1>1, <1>2, <1>3, TypeCorrect, TablesConsistent, PTL DEF Spec

-----------------------------------------------------------------------------
(***************************************************************************)
(* The end of a stream.                                                    *)
(***************************************************************************)

\* A step that takes a stream off the air removes the reports on its id.
LEMMA ReportsGo ==
    ASSUME TypeOK, WithinLimits, [Next]_vars, NEW s \in StreamIds,
           IsPublished(s), ~IsPublished(s)'
    PROVE  \A v \in viewerStats' : v.stream # s
<1> USE DEF IsPublished
<1>1. published' # published
    OBVIOUS
<1>2. ASSUME NEW u, NEW R, NEW stale, LeaveRooms(u, R, stale)
      PROVE  \A v \in viewerStats' : v.stream # s
    <2> DEFINE own == {p \in published : p.room \in R /\ p.publisher = u}
               ids == {p.stream : p \in own}
    <2>1. published' = published \ own /\ \A v \in viewerStats' : v.stream \notin ids
        BY <1>2 DEF LeaveRooms, RemoveStreamState
    <2>2. s \in ids
        BY <2>1
    <2> QED BY <2>1, <2>2
<1>3. ASSUME NEW c \in Sessions, Disconnect(c) PROVE \A v \in viewerStats' : v.stream # s
    BY <1>2, <1>3 DEF Disconnect, DisconnectUser
<1>4. ASSUME NEW c \in Sessions, RoomRequest(c) PROVE \A v \in viewerStats' : v.stream # s
    <2>1. PICK r \in rooms : LeaveRoom(c, r)
        BY <1>1, <1>4 DEF RoomRequest, CreateRoom, JoinRoom, SetVoiceState, streamVars
    <2> QED BY <1>2, <2>1 DEF LeaveRoom
<1>5. ASSUME NEW c \in Sessions, StreamRequest(c) PROVE \A v \in viewerStats' : v.stream # s
    <2>1. ~Retuned
        <3> SUFFICES ASSUME Retuned PROVE FALSE
            OBVIOUS
        <3>1. PICK p \in published : \E q : q.stream = p.stream /\ Replace(p, q)
            BY DEF Retuned
        <3>2. PICK q : q.stream = p.stream /\ Replace(p, q)
            BY <3>1
        <3> QED BY <3>2 DEF Replace
    <2>2. ~Queued /\ ~Untouched
        BY <1>1 DEF Queued, Untouched, streamVars
    <2>3. PICK t \in StreamIds, r \in rooms :
             \/ \E codec \in Codecs, kind \in Kinds : PublishStream(c, r, t, codec, kind)
             \/ UnpublishStream(c, r, t)
             \/ SubscribeStream(c, r, t)
             \/ UnsubscribeStream(c, r, t)
        BY <1>5, <2>1, <2>2, StreamRequestShape
    <2>4. UnpublishStream(c, r, t)
        BY <1>1, <2>3 DEF PublishStream, SubscribeStream, UnsubscribeStream
    <2>5. /\ \E p \in published : p.stream = t /\ published' = published \ {p}
          /\ \A v \in viewerStats' : v.stream # t
        BY <2>4 DEF UnpublishStream, RemoveStreamState
    <2> QED BY <2>5
<1> QED BY <1>1, <1>3, <1>4, <1>5
        DEF Next, Request, Hello, Authenticate, Forward, RecordForward, vars, streamVars

\* A stream takes everything with it, however it ends: an unpublish, the publisher's
\* departure from the room or its disconnect.  Reports are the part no invariant
\* speaks of, because the relay stores them for any stream id, published or not.
THEOREM StreamsGoWhole == Spec => StreamsEndWhole
<1>1. TypeOK /\ Consistent /\ WithinLimits /\ Consistent' /\ [Next]_vars =>
          [\A s \in StreamIds : IsPublished(s) /\ ~IsPublished(s)' =>
              /\ \A v \in viewerStats' \cup subscriptions' : v.stream # s
              /\ s \notin keyframes' \cup metered' /\ remoteInput'[s] = << >>]_vars
    <2> SUFFICES ASSUME TypeOK, Consistent, WithinLimits, Consistent', [Next]_vars,
                        NEW s \in StreamIds, IsPublished(s), ~IsPublished(s)'
                 PROVE  /\ \A v \in viewerStats' \cup subscriptions' : v.stream # s
                        /\ s \notin keyframes' \cup metered' /\ remoteInput'[s] = << >>
        OBVIOUS
    <2>1. \A v \in viewerStats' : v.stream # s
        BY ReportsGo
    <2>2. \A v \in subscriptions' : v.stream # s
        BY DEF Consistent, SubscriptionsAreLive, IsPublished
    <2>3. s \notin keyframes' \cup metered' /\ remoteInput'[s] = << >>
        BY DEF Consistent, NoStreamResidue, IsPublished
    <2> QED BY <2>1, <2>2, <2>3
<1> QED BY <1>1, TypeCorrect, TablesConsistent, LimitsHold, PTL DEF Spec, StreamsEndWhole

-----------------------------------------------------------------------------
(***************************************************************************)
(* User and room ids stay within those of the directory: a session says    *)
(* its first Hello once, and rooms are numbered up to the bound.           *)
(***************************************************************************)
Named == {c \in Sessions : user[c] # NoUser}

IdsInv ==
    /\ nextUserId = Cardinality(Named) + 1
    /\ nextRoomId <= MaxRoomId + 1

\* The users of the relay are users of the directory, and so are its rooms.
LEMMA IdsInDirectory ==
    ASSUME TypeOK, IdentityUnique, IdsInv, Consistent
    PROVE  /\ \A c \in Sessions : user[c] # NoUser => user[c] \in DirectoryUsers
           /\ rooms \subseteq DirectoryRooms
<1>1. /\ IsFiniteSet(Named) /\ Cardinality(Named) <= Cardinality(Sessions)
      /\ Cardinality(Named) \in Nat /\ Cardinality(Sessions) \in Nat
    BY InputAssumption, FS_Subset, FS_CardinalityType DEF Named
<1>2. ASSUME NEW c \in Sessions, user[c] # NoUser PROVE user[c] \in DirectoryUsers
    <2>1. user[c] \in Nat /\ user[c] # 0 /\ user[c] < nextUserId
        BY <1>2 DEF TypeOK, IdentityUnique, NoUser
    <2>2. user[c] \in 1..Cardinality(Sessions)
        BY <1>1, <2>1 DEF IdsInv
    <2> QED BY <2>2, DirectoryAssumption
<1>3. ASSUME NEW r \in rooms PROVE r \in DirectoryRooms
    <2>1. r \in Nat \ {0} /\ r < nextRoomId /\ nextRoomId \in Nat
        BY DEF TypeOK, RoomIds, Consistent, RoomsInhabited
    <2>2. r \in 1..MaxRoomId
        BY <2>1, LimitAssumption DEF IdsInv
    <2> QED BY <2>2, DirectoryAssumption
<1> QED BY <1>2, <1>3

\* A step that is neither a Hello nor a CreateRoom hands out no id.
LEMMA IdsStep ==
    ASSUME TypeOK, [Next]_vars,
           \A c \in Sessions : ~Hello(c) /\ ~CreateRoom(c)
    PROVE  UNCHANGED <<user, nextUserId, nextRoomId>>
<1> DEFINE U == UNCHANGED <<user, nextUserId, nextRoomId>>
<1> USE DEF sessionVars, roomVars
<1>1. CASE UNCHANGED vars
    BY <1>1 DEF vars
<1>2. ASSUME NEW c \in Sessions, RoomRequest(c) PROVE U
    BY <1>2 DEF RoomRequest, JoinRoom, LeaveRoom, LeaveRooms, SetVoiceState
<1>3. ASSUME NEW c \in Sessions, StreamRequest(c) PROVE U
    <2>1. ASSUME NEW s \in StreamIds, NEW r \in rooms
          PROVE  /\ UnpublishStream(c, r, s) => U
                 /\ SubscribeStream(c, r, s) => U
                 /\ UnsubscribeStream(c, r, s) => U
                 /\ RequestKeyframe(c, r, s) => U
                 /\ SendRemoteInput(c, r, s) => U
                 /\ \A n : PollRemoteInput(c, r, s, n) => U
        BY DEF UnpublishStream, SubscribeStream, UnsubscribeStream, RequestKeyframe,
               SendRemoteInput, PollRemoteInput
    <2>2. ASSUME NEW s \in StreamIds, NEW r \in rooms
          PROVE  /\ \A codec, kind : PublishStream(c, r, s, codec, kind) => U
                 /\ \A codec, in : SetStreamConfig(c, r, s, codec, in) => U
                 /\ \A b : SetTargetBitrate(c, r, s, b) => U
                 /\ \A f : SetTargetFramerate(c, r, s, f) => U
        BY DEF PublishStream, SetStreamConfig, SetTargetBitrate, SetTargetFramerate
    <2>3. ASSUME NEW s \in StreamIds
          PROVE  /\ \A report : ReportViewerStats(c, s, report) => U
                 /\ PollPublisherFeedback(c, s) => U
        BY DEF ReportViewerStats, PollPublisherFeedback
    <2> HIDE DEF U
    <2> QED BY <1>3, <2>1, <2>2, <2>3 DEF StreamRequest
<1>4. ASSUME NEW c \in Sessions, Authenticate(c) \/ Forward(c) PROVE U
    BY <1>4 DEF Authenticate, Forward, RecordForward
<1>5. ASSUME NEW c \in Sessions, Disconnect(c) PROVE U
    BY <1>5 DEF Disconnect, DisconnectUser, LeaveRooms
<1> QED BY <1>1, <1>2, <1>3, <1>4, <1>5 DEF Next, Request

\* Ids are handed out one by one.
LEMMA IdsNext ==
    ASSUME TypeOK, IdsInv, [Next]_vars
    PROVE  IdsInv'
<1>1. CASE \A c \in Sessions : ~Hello(c) /\ ~CreateRoom(c)
    BY <1>1, IdsStep DEF IdsInv, Named
<1>2. ASSUME NEW c \in Sessions, CreateRoom(c) PROVE IdsInv'
    <2>1. UNCHANGED <<user, nextUserId>> /\ nextRoomId' <= MaxRoomId + 1
        BY <1>2, LimitAssumption DEF CreateRoom, sessionVars, TypeOK
    <2> QED BY <2>1 DEF IdsInv, Named
<1>3. ASSUME NEW c \in Sessions, Hello(c) PROVE IdsInv'
    <2>1. nextRoomId' = nextRoomId
        BY <1>3 DEF Hello, roomVars
    <2>2. CASE user[c] # NoUser
        <3>1. user' = user /\ nextUserId' = nextUserId
            BY <1>3, <2>2 DEF Hello, TypeOK
        <3> QED BY <2>1, <3>1 DEF IdsInv, Named
    <2>3. CASE user[c] = NoUser
        <3>1. user' = [user EXCEPT ![c] = nextUserId] /\ nextUserId' = nextUserId + 1
            BY <1>3, <2>3 DEF Hello
        <3>2. Named' = Named \cup {c} /\ c \notin Named
            BY <2>3, <3>1 DEF Named, TypeOK, NoUser
        <3>3. IsFiniteSet(Named) /\ Cardinality(Named) \in Nat
            BY InputAssumption, FS_Subset, FS_CardinalityType DEF Named
        <3>4. Cardinality(Named') = Cardinality(Named) + 1
            BY <3>2, <3>3, FS_AddElement
        <3> QED BY <2>1, <3>1, <3>4 DEF IdsInv
    <2> QED BY <2>2, <2>3
<1> QED BY <1>1, <1>2, <1>3

-----------------------------------------------------------------------------
(***************************************************************************)
(* The refinement, handler by handler.                                     *)
(***************************************************************************)

\* What is on the air when the streams in P are published.
Air(P) == {[room |-> p.room, stream |-> p.stream, user |-> p.publisher] : p \in P}

\* Where the relay stands in the directory.
DirectoryState == <<nextRoomId, participants, Air(published), subscriptions>>

\* A step that leaves these alone leaves the directory alone.
LEMMA DirectoryStutter ==
    ASSUME UNCHANGED DirectoryState
    PROVE  UNCHANGED Directory!dirVars
BY DEF DirectoryState, Directory!dirVars, Air

\* A change of target or config is none of the directory's business.
LEMMA RetunedStutters ==
    ASSUME Retuned
    PROVE  UNCHANGED DirectoryState
<1>0. PICK p \in published : \E q : /\ q.room = p.room /\ q.stream = p.stream
                                    /\ q.publisher = p.publisher /\ Replace(p, q)
    BY DEF Retuned
<1>1. PICK q : /\ q.room = p.room /\ q.stream = p.stream
               /\ q.publisher = p.publisher /\ Replace(p, q)
    BY <1>0
<1>2. published' = (published \ {p}) \cup {q}
    BY <1>1 DEF Replace
<1>3. ASSUME NEW a PROVE a \in Air(published') <=> a \in Air(published)
    <2>1. ASSUME a \in Air(published') PROVE a \in Air(published)
        <3>1. PICK x \in published' :
                 a = [room |-> x.room, stream |-> x.stream, user |-> x.publisher]
            BY <2>1 DEF Air
        <3>2. CASE x \in published
            BY <3>1, <3>2 DEF Air
        <3>3. CASE x = q
            BY <1>1, <3>1, <3>3 DEF Air
        <3> QED BY <1>2, <3>2, <3>3
    <2>2. ASSUME a \in Air(published) PROVE a \in Air(published')
        <3>1. PICK x \in published :
                 a = [room |-> x.room, stream |-> x.stream, user |-> x.publisher]
            BY <2>2 DEF Air
        <3>2. CASE x # p
            BY <1>2, <3>1, <3>2 DEF Air
        <3>3. CASE x = p
            <4>1. q \in published' /\ a = [room |-> q.room, stream |-> q.stream, user |-> q.publisher]
                BY <1>1, <1>2, <3>1, <3>3
            <4> QED BY <4>1 DEF Air
        <3> QED BY <3>2, <3>3
    <2> QED BY <2>1, <2>2
<1>4. Air(published') = Air(published)
    BY <1>3
<1> QED BY <1>4 DEF Retuned, roomVars, DirectoryState, Air

\* Taking streams off the air, in the relay and in the directory.
LEMMA AirMinus ==
    ASSUME NEW P, NEW own \in SUBSET P, NEW gone,
           \A p \in P : [room |-> p.room, stream |-> p.stream, user |-> p.publisher] \in gone
                           <=> p \in own
    PROVE  Air(P \ own) = Air(P) \ gone
BY DEF Air

\* LeaveRoom and the cleanup of a connection are departures.  Q are the rooms as
\* the directory sees it; for what the user has there, they are those of R.
LEMMA LeaveRoomsGoes ==
    ASSUME TypeOK, Consistent, NEW u, NEW R, NEW Q, NEW alsoStale, LeaveRooms(u, R, alsoStale),
           \A m \in participants : m.user = u => (m.room \in R <=> m.room \in Q),
           \A p \in published : p.publisher = u => (p.room \in R <=> p.room \in Q),
           \A m \in subscriptions : m.user = u => (m.room \in R <=> m.room \in Q)
    PROVE  UNCHANGED Directory!dirVars \/ Directory!Go(u, Q)
<1> DEFINE own    == {p \in published : p.room \in R /\ p.publisher = u}
           mine   == {m \in subscriptions : m.room \in R /\ m.user = u}
           orphan == {m \in subscriptions :
                         \E p \in own : p.room = m.room /\ p.stream = m.stream}
           gone   == {a \in Air(published) : a.room \in Q /\ a.user = u}
<1>1. /\ participants' = {m \in participants : ~(m.room \in R /\ m.user = u)}
      /\ published' = published \ own
      /\ subscriptions' = subscriptions \ (mine \cup orphan)
      /\ nextRoomId' = nextRoomId
    BY DEF LeaveRooms
<1>2. participants' = {m \in participants : ~(m.room \in Q /\ m.user = u)}
    BY <1>1
<1>3. ASSUME NEW p \in published
      PROVE  LET a == [room |-> p.room, stream |-> p.stream, user |-> p.publisher]
             IN  a \in Air(published) /\ (a \in gone <=> p \in own)
    <2> DEFINE a == [room |-> p.room, stream |-> p.stream, user |-> p.publisher]
    <2>1. a \in Air(published) /\ a.room = p.room /\ a.user = p.publisher
        BY DEF Air
    <2> QED BY <2>1
<1>4. Air(published') = Air(published) \ gone
    <2>1. own \in SUBSET published
        OBVIOUS
    <2> HIDE DEF own, gone
    <2> QED BY <1>1, <1>3, <2>1, AirMinus
<1>5. subscriptions' = {w \in {x \in subscriptions :
                                 \A a \in gone : ~(a.room = x.room /\ a.stream = x.stream)} :
                          ~(w.room \in Q /\ w.user = u)}
    <2>1. ASSUME NEW w \in subscriptions
          PROVE  w \in orphan <=> ~\A a \in gone : ~(a.room = w.room /\ a.stream = w.stream)
        <3>1. ASSUME NEW p \in own, p.room = w.room, p.stream = w.stream
              PROVE  \E a \in gone : a.room = w.room /\ a.stream = w.stream
            <4> DEFINE a == [room |-> p.room, stream |-> p.stream, user |-> p.publisher]
            <4>1. a \in gone /\ a.room = w.room /\ a.stream = w.stream
                BY <1>3, <3>1
            <4> QED BY <4>1
        <3>2. ASSUME NEW a \in gone, a.room = w.room, a.stream = w.stream
              PROVE  \E p \in own : p.room = w.room /\ p.stream = w.stream
            <4>1. PICK p \in published :
                     a = [room |-> p.room, stream |-> p.stream, user |-> p.publisher]
                BY DEF Air
            <4>2. p \in own
                BY <1>3, <4>1
            <4> QED BY <3>2, <4>1, <4>2
        <3> QED BY <3>1, <3>2
    <2>2. ASSUME NEW w \in subscriptions PROVE w \in mine <=> w.room \in Q /\ w.user = u
        OBVIOUS
    <2> HIDE DEF mine, orphan, gone
    <2> QED BY <1>1, <2>1, <2>2
<1>6. CASE \E r \in Q : [room |-> r, user |-> u] \in participants
    <2>1. \E r \in Q : Directory!In(u, r)
        BY <1>6 DEF Directory!In
    <2> QED BY <1>1, <1>2, <1>4, <1>5, <2>1 DEF Directory!Go, Directory!StillWatching, Air
<1>7. CASE ~\E r \in Q : [room |-> r, user |-> u] \in participants
    <2>1. ASSUME NEW m \in participants PROVE ~(m.room \in Q /\ m.user = u)
        <3>1. m = [room |-> m.room, user |-> m.user]
            BY DEF TypeOK
        <3> QED BY <1>7, <3>1
    <2>2. participants' = participants
        BY <1>2, <2>1
    <2>3. ASSUME NEW p \in published PROVE p \notin own
        BY <1>7 DEF Consistent, PublishersArePresent, IsParticipant
    <2>4. own = {} /\ orphan = {}
        BY <2>3
    <2>5. ASSUME NEW m \in subscriptions PROVE m \notin mine
        BY <1>7 DEF Consistent, SubscriptionsAreLive, IsParticipant
    <2>6. UNCHANGED <<published, subscriptions>>
        BY <1>1, <2>4, <2>5
    <2> QED BY <1>1, <2>2, <2>6, DirectoryStutter DEF DirectoryState, Air
<1> QED BY <1>6, <1>7

\* Creating and joining rooms.
LEMMA EnteringIsOpenOrJoin ==
    ASSUME TypeOK, Consistent, NEW c \in Sessions
    PROVE  /\ CreateRoom(c) => Directory!Open(user[c], nextRoomId)
           /\ \A r \in rooms : JoinRoom(c, r) => Directory!Join(user[c], r)
<1>1. ASSUME CreateRoom(c) PROVE Directory!Open(user[c], nextRoomId)
    <2>1. nextRoomId \in Nat \ {0} /\ nextRoomId' = nextRoomId + 1
        BY <1>1 DEF CreateRoom, TypeOK
    <2>2. /\ nextRoomId \notin 1..(nextRoomId - 1)
          /\ 1..(nextRoomId' - 1) = 1..(nextRoomId - 1) \cup {nextRoomId}
        BY <2>1
    <2> QED BY <1>1, <2>2 DEF CreateRoom, Directory!Open, streamVars
<1>2. ASSUME NEW r \in rooms, JoinRoom(c, r) PROVE Directory!Join(user[c], r)
    <2>1. \E m \in participants : m.room = r
        BY DEF Consistent, RoomsInhabited
    <2> QED BY <1>2, <2>1 DEF JoinRoom, Directory!Join, streamVars
<1> QED BY <1>1, <1>2

\* Publishing and unpublishing.
LEMMA PublishingIsStartOrStop ==
    ASSUME TypeOK, Consistent, NEW c \in Sessions, NEW r \in rooms, NEW s \in StreamIds
    PROVE  /\ \A codec \in Codecs, kind \in Kinds : PublishStream(c, r, s, codec, kind) =>
                 Directory!Programme(user[c], r)
           /\ UnpublishStream(c, r, s) => Directory!Programme(user[c], r)
<1>1. ASSUME NEW codec \in Codecs, NEW kind \in Kinds, PublishStream(c, r, s, codec, kind)
      PROVE  Directory!Programme(user[c], r)
    <2> DEFINE new == [room |-> r, stream |-> s, publisher |-> user[c], codec |-> codec,
                       kind |-> kind, target |-> DefaultTarget, config |-> NoConfig]
    <2>1. published' = published \cup {new} /\ ~IsPublished(s) /\ IsParticipant(r, user[c])
        BY <1>1 DEF PublishStream
    <2>2. new.room = r /\ new.stream = s /\ new.publisher = user[c]
        OBVIOUS
    <2> HIDE DEF new
    <2>3. Air(published') = Air(published) \cup {[room |-> r, stream |-> s, user |-> user[c]]}
        BY <2>1, <2>2 DEF Air
    <2>4. \A a \in Air(published) : a.stream # s
        BY <2>1 DEF Air, IsPublished
    <2>5. Directory!Start(user[c], r, s)
        BY <1>1, <2>3, <2>4 DEF PublishStream, Directory!Start, Air
    <2> QED BY <1>1, <2>1, <2>5
            DEF PublishStream, Directory!Programme, Directory!In, IsParticipant, roomVars
<1>2. ASSUME UnpublishStream(c, r, s) PROVE Directory!Programme(user[c], r)
    <2>1. PICK p \in published : /\ p.room = r /\ p.stream = s /\ p.publisher = user[c]
                                 /\ published' = published \ {p}
        BY <1>2 DEF UnpublishStream
    <2> DEFINE gone == {a \in Air(published) : a.room = r /\ a.stream = s /\ a.user = user[c]}
               off == [room |-> r, stream |-> s, user |-> user[c]]
    <2>2. ASSUME NEW x \in published
          PROVE  [room |-> x.room, stream |-> x.stream, user |-> x.publisher] \in gone
                    <=> x \in {p}
        <3> DEFINE a == [room |-> x.room, stream |-> x.stream, user |-> x.publisher]
        <3>1. /\ a \in Air(published) /\ a.room = x.room /\ a.stream = x.stream
              /\ a.user = x.publisher
            BY DEF Air
        <3>2. x.stream = s => x = p
            BY <2>1 DEF Consistent, StreamIdUnique
        <3> QED BY <2>1, <3>1, <3>2
    <2>3. Air(published') = Air(published) \ gone
        <3>1. {p} \in SUBSET published
            OBVIOUS
        <3> HIDE DEF gone
        <3> QED BY <2>1, <2>2, <3>1, AirMinus
    <2>4. off \in gone /\ \A a \in gone : a.room = r /\ a.stream = s
        BY <2>1 DEF Air
    <2>5. subscriptions' = {w \in subscriptions :
                              \A a \in gone : ~(a.room = w.room /\ a.stream = w.stream)}
        <3>1. subscriptions' = {m \in subscriptions : ~(m.room = r /\ m.stream = s)}
            BY <1>2 DEF UnpublishStream
        <3>2. off.room = r /\ off.stream = s
            OBVIOUS
        <3> HIDE DEF gone, off
        <3> QED BY <2>4, <3>1, <3>2
    <2>6. Directory!Stop(user[c], r, s)
        BY <2>3, <2>5 DEF Directory!Stop, Directory!StillWatching, Air
    <2>7. [room |-> r, user |-> user[c]] \in participants
        BY <2>1 DEF Consistent, PublishersArePresent, IsParticipant
    <2> QED BY <1>2, <2>6, <2>7 DEF UnpublishStream, Directory!Programme, Directory!In
<1> QED BY <1>1, <1>2

\* Subscribing and unsubscribing; the latter is refused to nobody, and changes
\* nothing for those who are not in the room.
LEMMA SubscribingIsWatching ==
    ASSUME TypeOK, Consistent, NEW c \in Sessions, NEW r \in rooms, NEW s \in StreamIds
    PROVE  /\ SubscribeStream(c, r, s) => Directory!Programme(user[c], r)
           /\ UnsubscribeStream(c, r, s) =>
                 Directory!Programme(user[c], r) \/ UNCHANGED Directory!dirVars
<1> USE DEF roomVars
<1>1. ASSUME SubscribeStream(c, r, s) PROVE Directory!Programme(user[c], r)
    <2>1. PICK p \in published : p.room = r /\ p.stream = s
        BY <1>1 DEF SubscribeStream
    <2>2. \E a \in Air(published) : a.room = r /\ a.stream = s
        <3>1. [room |-> p.room, stream |-> p.stream, user |-> p.publisher] \in Air(published)
            BY DEF Air
        <3> QED BY <2>1, <3>1
    <2>3. Directory!Watch(user[c], r, s)
        BY <1>1, <2>2 DEF SubscribeStream, Directory!Watch, Air
    <2> QED BY <1>1, <2>3 DEF SubscribeStream, Directory!Programme, Directory!In, IsParticipant
<1>2. ASSUME UnsubscribeStream(c, r, s)
      PROVE  Directory!Programme(user[c], r) \/ UNCHANGED Directory!dirVars
    <2>1. CASE IsParticipant(r, user[c])
        <3>1. Directory!Unwatch(user[c], r, s)
            BY <1>2 DEF UnsubscribeStream, Directory!Unwatch
        <3> QED BY <1>2, <2>1, <3>1
                DEF UnsubscribeStream, Directory!Programme, Directory!In, IsParticipant
    <2>2. CASE ~IsParticipant(r, user[c])
        <3>1. [room |-> r, stream |-> s, user |-> user[c]] \notin subscriptions
            BY <2>2 DEF Consistent, SubscriptionsAreLive
        <3>2. subscriptions' = subscriptions
            BY <1>2, <3>1 DEF UnsubscribeStream
        <3> QED BY <1>2, <3>2, DirectoryStutter DEF UnsubscribeStream, DirectoryState, Air
    <2> QED BY <2>1, <2>2
<1> QED BY <1>1, <1>2

\* Every step of a handler is a step of the directory, or none.
LEMMA DirectoryStep ==
    ASSUME TypeOK, Consistent, WithinLimits, IdentityUnique, IdsInv, [Next]_vars
    PROVE  [Directory!Next]_(Directory!dirVars)
<1> DEFINE Step == Directory!Next \/ UNCHANGED Directory!dirVars
<1>0. /\ \A c \in Sessions : user[c] # NoUser => user[c] \in DirectoryUsers
      /\ rooms \subseteq DirectoryRooms
    BY IdsInDirectory
<1>u. ASSUME UNCHANGED <<roomVars, streamVars>> PROVE Step
    BY <1>u, DirectoryStutter DEF DirectoryState, Air, roomVars, streamVars
<1>p. ASSUME NEW u \in DirectoryUsers, NEW r \in DirectoryRooms,
             \/ Directory!Programme(u, r) \/ Directory!Join(u, r) \/ Directory!Open(u, r)
      PROVE  Step
    BY <1>p DEF Directory!Next
<1>g. ASSUME NEW u \in DirectoryUsers, NEW R,
             R = DirectoryRooms \/ \E r \in DirectoryRooms : R = {r},
             Directory!Go(u, R)
      PROVE  Step
    <2>1. R \in {DirectoryRooms} \cup {{r} : r \in DirectoryRooms}
        BY <1>g
    <2> QED BY <1>g, <2>1 DEF Directory!Next
<1>1. CASE UNCHANGED vars
    BY <1>1, <1>u DEF vars
<1>2. ASSUME NEW c \in Sessions, Hello(c) \/ Authenticate(c) \/ Forward(c) PROVE Step
    BY <1>2, <1>u DEF Hello, Authenticate, Forward, RecordForward
<1>3. ASSUME NEW c \in Sessions, CreateRoom(c) PROVE Step
    <2>1. user[c] \in DirectoryUsers
        BY <1>0, <1>3 DEF CreateRoom, Authorized
    <2>2. nextRoomId \in 1..MaxRoomId
        BY <1>3, LimitAssumption DEF CreateRoom, TypeOK
    <2>3. nextRoomId \in DirectoryRooms
        BY <2>2, DirectoryAssumption
    <2> QED BY <1>3, <1>p, <2>1, <2>3, EnteringIsOpenOrJoin
<1>4. ASSUME NEW c \in Sessions, NEW r \in rooms, JoinRoom(c, r) PROVE Step
    <2>1. user[c] \in DirectoryUsers /\ r \in DirectoryRooms
        BY <1>0, <1>4 DEF JoinRoom, Authorized
    <2> QED BY <1>4, <1>p, <2>1, EnteringIsOpenOrJoin
<1>5. ASSUME NEW c \in Sessions, NEW r \in rooms, LeaveRoom(c, r) PROVE Step
    <2>1. user[c] \in DirectoryUsers /\ r \in DirectoryRooms
        BY <1>0, <1>5 DEF LeaveRoom, Authorized
    <2>2. LeaveRooms(user[c], {r}, {})
        BY <1>5 DEF LeaveRoom
    <2>3. UNCHANGED Directory!dirVars \/ Directory!Go(user[c], {r})
        BY <2>2, LeaveRoomsGoes
    <2> QED BY <1>g, <2>1, <2>3
<1>6. ASSUME NEW c \in Sessions, NEW r \in rooms, NEW in \in VoiceInputs, SetVoiceState(c, r, in)
      PROVE  Step
    BY <1>6, DirectoryStutter DEF SetVoiceState, DirectoryState, Air, streamVars
<1>7. ASSUME NEW c \in Sessions, Disconnect(c) PROVE Step
    <2> DEFINE u == user[c]
               affected == {r \in rooms : \/ IsParticipant(r, u)
                                          \/ \E p \in published :
                                                p.room = r /\ p.publisher = u}
               stale == {v \in viewerStats : v.user = u}
    <2>1. LeaveRooms(u, affected, stale) /\ u \in DirectoryUsers
        BY <1>0, <1>7 DEF Disconnect, DisconnectUser
    <2>2. ASSUME NEW m \in participants, m.user = u
          PROVE  m.room \in affected /\ m.room \in DirectoryRooms
        <3>1. m = [room |-> m.room, user |-> m.user]
            BY DEF TypeOK
        <3>2. m.room \in rooms /\ m.room \in DirectoryRooms
            BY <1>0 DEF Consistent, RoomsInhabited
        <3> QED BY <2>2, <3>1, <3>2 DEF IsParticipant
    <2>3. ASSUME NEW p \in published, p.publisher = u
          PROVE  p.room \in affected /\ p.room \in DirectoryRooms
        BY <1>0, <2>3 DEF Consistent, PublishersArePresent
    <2>4. ASSUME NEW m \in subscriptions, m.user = u
          PROVE  m.room \in affected /\ m.room \in DirectoryRooms
        <3> DEFINE n == [room |-> m.room, user |-> m.user]
        <3>1. n \in participants /\ n.room = m.room /\ n.user = u
            BY <2>4 DEF Consistent, SubscriptionsAreLive, IsParticipant
        <3> HIDE DEF n, affected, u
        <3> QED BY <2>2, <3>1
    <2> HIDE DEF u, affected, stale
    <2>5. UNCHANGED Directory!dirVars \/ Directory!Go(u, DirectoryRooms)
        BY <2>1, <2>2, <2>3, <2>4, LeaveRoomsGoes
    <2> QED BY <1>g, <2>1, <2>5
<1>8. ASSUME NEW c \in Sessions, StreamRequest(c) PROVE Step
    <2>1. CASE Retuned
        BY <2>1, RetunedStutters, DirectoryStutter
    <2>2. CASE Queued \/ Untouched
        BY <1>u, <2>2 DEF Queued, Untouched
    <2>3. ASSUME NEW s \in StreamIds, NEW r \in rooms,
                 \/ \E codec \in Codecs, kind \in Kinds : PublishStream(c, r, s, codec, kind)
                 \/ UnpublishStream(c, r, s)
                 \/ SubscribeStream(c, r, s)
                 \/ UnsubscribeStream(c, r, s)
          PROVE  Step
        <3>1. user[c] # NoUser
            BY <2>3 DEF PublishStream, UnpublishStream, SubscribeStream, UnsubscribeStream,
                        Authorized
        <3>2. user[c] \in DirectoryUsers /\ r \in DirectoryRooms
            BY <1>0, <3>1
        <3>3. Directory!Programme(user[c], r) \/ UNCHANGED Directory!dirVars
            BY <2>3, PublishingIsStartOrStop, SubscribingIsWatching
        <3> QED BY <1>p, <3>2, <3>3
    <2> QED BY <1>8, <2>1, <2>2, <2>3, StreamRequestShape
<1>9. ASSUME NEW c \in Sessions, RoomRequest(c) PROVE Step
    BY <1>3, <1>4, <1>5, <1>6, <1>9 DEF RoomRequest
<1>10. ASSUME NEW c \in Sessions, Request(c) \/ Forward(c) \/ Disconnect(c) PROVE Step
    BY <1>2, <1>7, <1>8, <1>9, <1>10 DEF Request
<1> QED BY <1>1, <1>10 DEF Next

\* The control state implements the directory of rooms, for any number of
\* sessions, rooms and streams: a departure, by request or by the cleanup of a
\* lost connection, ends at once everything it has to end, a stream takes all
\* its viewers with it, no id is on the air twice, and nobody enters a room that
\* is gone.
THEOREM RelayImplementsDirectory == Spec => ImplementsDirectory
<1>1. Init => Directory!Init
    <2> SUFFICES ASSUME Init PROVE Directory!Init
        OBVIOUS
    <2>1. 1..(nextRoomId - 1) = {}
        BY DEF Init
    <2> QED BY <2>1 DEF Init, Directory!Init
<1>2. Init => IdsInv
    <2> SUFFICES ASSUME Init PROVE IdsInv
        OBVIOUS
    <2>1. Named = {}
        BY DEF Init, Named
    <2> QED BY <2>1, FS_EmptySet, LimitAssumption DEF Init, IdsInv
<1>3. TypeOK /\ IdsInv /\ [Next]_vars => IdsInv'
    BY IdsNext
<1>4. TypeOK /\ Consistent /\ WithinLimits /\ IdentityUnique /\ IdsInv /\ [Next]_vars
         => [Directory!Next]_(Directory!dirVars)
    BY DirectoryStep
<1> QED BY <1>1, <1>2, <1>3, <1>4, TypeCorrect, TablesConsistent, LimitsHold,
           IdentitiesAreUnique, PTL DEF Spec, ImplementsDirectory, Directory!Spec

=============================================================================
