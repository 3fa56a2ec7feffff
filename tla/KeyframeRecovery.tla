-------------------------- MODULE KeyframeRecovery --------------------------
(***************************************************************************)
(* The loop that brings a picture back after a loss.  A viewer that misses *)
(* a packet or cannot decode asks the relay for a keyframe, once, and then *)
(* waits for one (desktop-client/src/main.rs, run_synthetic_screen_viewer_ *)
(* media).  The relay keeps the request until the broadcaster polls its    *)
(* feedback, every FeedbackInterval frames, and the encoder makes the next *)
(* frame a keyframe.  That keyframe may be lost as well, and the viewer    *)
(* does not ask again: what saves it are the statistics it reports every   *)
(* StatsInterval frames, since a report of any loss requests a keyframe at *)
(* every poll.                                                             *)
(*                                                                         *)
(* A frame is one datagram here (FrameTransport models the fragments), and *)
(* the datagrams of a viewer stay in order.                                *)
(***************************************************************************)
EXTENDS Integers, Sequences

CONSTANTS
    Viewers,
    FeedbackInterval,   \* --feedback-interval-frames
    StatsInterval,      \* --stats-interval-frames
    MaxInFlight         \* bound on the datagrams under way to a viewer

ASSUME IntervalAssumption ==
    /\ FeedbackInterval \in Nat \ {0}
    /\ StatsInterval \in Nat \ {0}
    /\ MaxInFlight \in Nat \ {0}

VARIABLES
    encoderFlag,   \* H264Encoder.keyframe_requested
    frames,        \* frames sent since the last poll was due
    pollDue,       \* is the broadcaster about to poll its feedback?
    requested,     \* the relay's pending keyframe request for the stream
    reported,      \* per viewer: does the relay store a report with losses?
    inFlight,      \* per viewer, the datagrams under way: is it a keyframe?
    viewer         \* per viewer, the state of its media loop

vars == <<encoderFlag, frames, pollDue, requested, reported, inFlight, viewer>>

\* A viewer before its media loop starts.  started: has it a sequence number to
\* compare with; gap: is a datagram missing in front of the next one; lossy: do
\* its statistics count a lost packet or a dropped frame.
Idle ==
    [watching |-> FALSE, started |-> FALSE, gap |-> FALSE, lossy |-> FALSE,
     configured |-> FALSE, awaiting |-> FALSE, frames |-> 0, reportDue |-> FALSE]

-----------------------------------------------------------------------------
\* The broadcaster asks its encoder for a keyframe before its first frame.
Init ==
    /\ encoderFlag = TRUE
    /\ frames = 0
    /\ pollDue = FALSE
    /\ requested = FALSE
    /\ reported = [v \in Viewers |-> FALSE]
    /\ inFlight = [v \in Viewers |-> << >>]
    /\ viewer = [v \in Viewers |-> Idle]

\* The broadcaster's loop starts a round; the bound on what is under way makes
\* it wait for the network, as its ticker does.
Tick == ~pollDue /\ \A v \in Viewers : Len(inFlight[v]) < MaxInFlight

\* H264Encoder::encode: a keyframe where one was asked for, which settles that.
\* (Frame 1 always is one, and the loop asks for it as well.)
Encoded == [key |-> encoderFlag, flag |-> FALSE]

\* A round of the broadcaster's loop: the frame goes to all who watch.
SendFrame ==
    /\ Tick
    /\ inFlight' = [v \in Viewers |->
                      IF viewer[v].watching THEN Append(inFlight[v], Encoded.key)
                      ELSE inFlight[v]]
    /\ encoderFlag' = Encoded.flag
    /\ frames' = (frames + 1) % FeedbackInterval
    /\ pollDue' = (frames' = 0)
    /\ UNCHANGED <<requested, reported, viewer>>

\* The rest of a round in which no frame was captured: without a frame there is
\* no poll, even where one was due.
SkipFrame ==
    /\ Tick
    /\ frames' = (frames + 1) % FeedbackInterval
    /\ UNCHANGED <<encoderFlag, pollDue, requested, reported, inFlight, viewer>>

\* Mutant of KeyframeWanted: losses viewers report are ignored.
OnlyRequested == requested

\* aggregate_publisher_feedback: a pending request, or a report with losses.
KeyframeWanted == requested \/ \E v \in Viewers : reported[v]

\* Mutant of Poll: the feedback does not reach the encoder.
PollIgnored ==
    /\ pollDue
    /\ pollDue' = FALSE
    /\ requested' = FALSE
    /\ UNCHANGED <<encoderFlag, frames, reported, inFlight, viewer>>

\* apply_publisher_feedback: a new resolution starts with a keyframe too.
Adapted(flag, resized) == flag \/ resized

\* The poll consumes the pending request, not the reports.
Poll ==
    /\ pollDue
    /\ pollDue' = FALSE
    /\ \E resized \in BOOLEAN :
          encoderFlag' = Adapted(encoderFlag \/ KeyframeWanted, resized)
    /\ requested' = FALSE
    /\ UNCHANGED <<frames, reported, inFlight, viewer>>

-----------------------------------------------------------------------------
\* The first subscription of a viewer to a screen stream asks for a keyframe.
Subscribe(v) ==
    /\ ~viewer[v].watching
    /\ viewer' = [viewer EXCEPT ![v] = [Idle EXCEPT !.watching = TRUE]]
    /\ requested' = TRUE
    /\ UNCHANGED <<encoderFlag, frames, pollDue, reported, inFlight>>

\* The viewer's loop ends; unsubscribing removes its report.
Unsubscribe(v) ==
    /\ viewer[v].watching
    /\ viewer' = [viewer EXCEPT ![v] = Idle]
    /\ reported' = [reported EXCEPT ![v] = FALSE]
    /\ inFlight' = [inFlight EXCEPT ![v] = << >>]
    /\ UNCHANGED <<encoderFlag, frames, pollDue, requested>>

\* A datagram is lost, which is settled when the viewer is about to read it.
\* Before its first packet the viewer cannot notice.
Lose(v) ==
    /\ inFlight[v] # << >>
    /\ ~viewer[v].reportDue
    /\ inFlight' = [inFlight EXCEPT ![v] = Tail(@)]
    /\ viewer' = [viewer EXCEPT ![v].gap = viewer[v].started]
    /\ UNCHANGED <<encoderFlag, frames, pollDue, requested, reported>>

\* The decoder needs a keyframe to start with.
Decodes(v, key) == key \/ viewer[v].configured

\* A round of the viewer's loop: notice a loss, decode, count the frame.
Receive(v) ==
    LET now  == viewer[v]
        key  == Head(inFlight[v])
        ok   == Decodes(v, key)
        asks == ~now.awaiting /\ (now.gap \/ ~ok)
    IN  /\ inFlight[v] # << >>
        /\ ~now.reportDue
        /\ inFlight' = [inFlight EXCEPT ![v] = Tail(@)]
        /\ requested' = (requested \/ asks)
        /\ viewer' = [viewer EXCEPT ![v] =
              [now EXCEPT !.started = TRUE, !.gap = FALSE,
                          !.lossy = @ \/ now.gap \/ ~ok,
                          !.configured = @ \/ key,
                          !.awaiting = (@ \/ asks) /\ ~key,
                          !.frames = (@ + 1) % StatsInterval,
                          !.reportDue = (now.frames + 1) % StatsInterval = 0]]
        /\ UNCHANGED <<encoderFlag, frames, pollDue, reported>>

ReceiveKeyframe(v) == Receive(v) /\ Head(inFlight[v])

\* The viewer reports its statistics, which count from the start of its loop.
Report(v) ==
    /\ viewer[v].reportDue
    /\ viewer' = [viewer EXCEPT ![v].reportDue = FALSE]
    /\ reported' = [reported EXCEPT ![v] = viewer[v].lossy]
    /\ UNCHANGED <<encoderFlag, frames, pollDue, requested, inFlight>>

Next ==
    \/ SendFrame \/ SkipFrame \/ Poll
    \/ \E v \in Viewers :
          Subscribe(v) \/ Unsubscribe(v) \/ Lose(v) \/ Receive(v) \/ Report(v)

Spec == Init /\ [][Next]_vars

(***************************************************************************)
(* The broadcaster's loop goes on, frames are captured now and then at     *)
(* rounds in which a poll is due, and the network lets some datagrams, and *)
(* some of the keyframes, through.                                         *)
(***************************************************************************)
Fairness ==
    /\ WF_vars(SendFrame) /\ SF_vars(SendFrame /\ pollDue') /\ WF_vars(Poll)
    /\ \A v \in Viewers :
          SF_vars(Receive(v)) /\ SF_vars(ReceiveKeyframe(v)) /\ WF_vars(Report(v))

FairSpec == Spec /\ Fairness

-----------------------------------------------------------------------------
(***************************************************************************)
(* Properties.                                                             *)
(***************************************************************************)

\* Every variable has its shape.
TypeOK ==
    /\ {encoderFlag, pollDue, requested} \subseteq BOOLEAN
    /\ frames \in 0..(FeedbackInterval - 1)
    /\ reported \in [Viewers -> BOOLEAN]
    /\ inFlight \in [Viewers -> Seq(BOOLEAN)]
    /\ viewer \in [Viewers -> [watching : BOOLEAN, started : BOOLEAN, gap : BOOLEAN,
                               lossy : BOOLEAN, configured : BOOLEAN, awaiting : BOOLEAN,
                               frames : 0..(StatsInterval - 1), reportDue : BOOLEAN]]

\* A viewer that waits for a recovery keyframe, and stays, gets one: though it
\* asks only once and both the keyframe and further frames may be lost.
LossIsRepaired ==
    \A v \in Viewers : viewer[v].awaiting ~> ~viewer[v].awaiting

\* A viewer that subscribes late, and stays, eventually has a picture.
NewViewerSeesPicture ==
    \A v \in Viewers : viewer[v].watching ~> (viewer[v].configured \/ ~viewer[v].watching)

=============================================================================
