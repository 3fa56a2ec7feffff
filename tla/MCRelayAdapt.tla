---------------------------- MODULE MCRelayAdapt ----------------------------
(***************************************************************************)
(* A publisher and its viewers in one room, with the real limits of the    *)
(* degradation ladder.  The runs start where everybody has said Hello and  *)
(* joined and the publisher has published, and then take the requests that *)
(* bear on adaptation, everybody's departures and a second stream of the   *)
(* same id included.                                                       *)
(***************************************************************************)
EXTENDS RelayControl

CONSTANTS Publisher, Viewers

\* A full-HD screen, and a strip whose height is at its floor.
MCConfigInputs ==
    {[fps |-> 200, width |-> 1920, height |-> 1080],
     [fps |-> 0, width |-> 900, height |-> 100]}

AdaptInit ==
    /\ user = CHOOSE f \in [Sessions -> 1..Cardinality(Sessions)] :
                 \A c, d \in Sessions : f[c] = f[d] => c = d
    /\ access = [c \in Sessions |-> TRUE]
    /\ nextUserId = Cardinality(Sessions) + 1
    /\ nextRoomId = 2
    /\ names = {user[c] : c \in Sessions}
    /\ rooms = {1}
    /\ participants = {[room |-> 1, user |-> user[c]] : c \in Sessions}
    /\ voice = {[room |-> 1, user |-> user[c], flags |-> DefaultVoice] : c \in Sessions}
    /\ published = {[room |-> 1, stream |-> s, publisher |-> user[Publisher],
                     codec |-> "h264", kind |-> "Screen", target |-> DefaultTarget,
                     config |-> NoConfig] : s \in StreamIds}
    /\ subscriptions = {}
    /\ viewerStats = {}
    /\ keyframes = {}
    /\ remoteInput = [s \in StreamIds |-> << >>]
    /\ metered = {}

ViewerStep(c, s) ==
    \/ SubscribeStream(c, 1, s)
    \/ UnsubscribeStream(c, 1, s)
    \/ \E report \in Reports : ReportViewerStats(c, s, report)
    \/ RequestKeyframe(c, 1, s)
    \/ Disconnect(c)

PublisherStep(s) ==
    \/ \E codec \in Codecs, in \in ConfigInputs : SetStreamConfig(Publisher, 1, s, codec, in)
    \/ \E b \in BitrateInputs : SetTargetBitrate(Publisher, 1, s, b)
    \/ \E f \in FpsInputs : SetTargetFramerate(Publisher, 1, s, f)
    \/ PollPublisherFeedback(Publisher, s)
    \/ UnpublishStream(Publisher, 1, s)
    \/ \E codec \in Codecs, kind \in Kinds : PublishStream(Publisher, 1, s, codec, kind)
    \/ LeaveRoom(Publisher, 1) \/ JoinRoom(Publisher, 1) \/ Disconnect(Publisher)

AdaptNext ==
    \E s \in StreamIds : PublisherStep(s) \/ \E c \in Viewers : ViewerStep(c, s)

\* The publisher keeps polling: the broadcaster loops poll at an interval.
AdaptSpec ==
    /\ AdaptInit /\ [][AdaptNext]_vars
    /\ \A s \in StreamIds : WF_vars(PollPublisherFeedback(Publisher, s))
=============================================================================
