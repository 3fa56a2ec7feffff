----------------------------- MODULE ViewerLoop -----------------------------
(***************************************************************************)
(* The media loop of a viewer (desktop-client/src/main.rs): of a screen, a *)
(* voice or both on one connection (run_synthetic_screen_viewer_media,     *)
(* run_synthetic_voice_viewer_media, run_synthetic_dual_viewer_media), the *)
(* clock it measures with and the statistics it reports.                   *)
(*                                                                         *)
(* A packet completes a frame or does not (FrameTransport says when), and  *)
(* asking for keyframes is left to KeyframeRecovery.  All the timings of a *)
(* report are windows of the same kind; the reassembly time stands for     *)
(* them.                                                                   *)
(***************************************************************************)
EXTENDS ClockSync, SampleWindow

CONSTANTS
    SyncSamples,      \* --time-sync-samples
    StatsInterval,    \* --stats-interval-frames; 0 for no reports inside the loop
    ScreenTarget, VoiceTarget,   \* frames to wait for
    OpenEnded,        \* are the targets from --media-run-ms, with --media-frames 0?
    Delays,           \* how long a message or a frame takes, in microseconds
    Processing,       \* how long the relay takes to answer
    MaxRefreshes,     \* bound on the refreshes of the clock
    ViewerOffset, PublisherOffset,   \* the relay's clock minus theirs
    MaxPackets        \* bound on the packets received

Start == 1000000   \* a moment on the relay's clock, later than all offsets

\* Times are unsigned: at Start no clock shows zero or less.
ASSUME ViewerAssumption ==
    /\ {SyncSamples, MaxPackets} \subseteq Nat \ {0} /\ StatsInterval \in Nat
    /\ ScreenTarget \in Nat /\ VoiceTarget \in Nat
    /\ OpenEnded \in BOOLEAN
    /\ Delays \subseteq Nat /\ Delays # {} /\ Processing \subseteq Nat /\ Processing # {}
    /\ MaxRefreshes \in Nat
    /\ ViewerOffset \in Int /\ PublisherOffset \in Int
    /\ ViewerOffset < Start /\ PublisherOffset < Start

Kinds == {"Screen", "Voice"}

VARIABLES
    pc,          \* "sync", "loop", "closing", "ended" or "failed"
    target,      \* per kind, the frames to wait for
    samples,     \* the estimates of the clock synchronisation
    estimate,    \* ClockSyncTracker.estimate
    sender,      \* the publisher's estimate, which it puts in its packets
    stats,       \* per kind, ClientMediaStats
    due,         \* the kinds whose reports are to be sent before anything else
    reported,    \* per kind, the report the relay has, if any
    arrived,     \* counts the packets
    refreshes,   \* counts the refreshes of the clock
    truth,       \* history: per kind, the latency of the last frame, and the slack
    durations    \* history: per kind, every reassembly time

vars == <<pc, target, samples, estimate, sender, stats, due, reported, arrived, refreshes, truth,
          durations>>

NoStats ==
    [packets |-> 0, frames |-> 0, decoded |-> 0, dropped |-> 0, calibrated |-> 0,
     reassembly |-> EmptyWindow]
NoReport == << >>

-----------------------------------------------------------------------------
(***************************************************************************)
(* Clock synchronisation.                                                  *)
(***************************************************************************)
\* What a client whose clock is off by offset may get from one TimeSync.
Estimates(offset) ==
    {EstimateClockSync(Start - offset, Start + d[1], Start + d[1] + d[2],
                       Start + d[1] + d[2] + d[3] - offset) : d \in Delays \X Processing \X Delays}

\* A deafened viewer waits for no voice.
Init ==
    /\ pc = "sync"
    /\ \E deafened \in BOOLEAN :
          target = [k \in Kinds |-> IF k = "Screen" THEN ScreenTarget
                                    ELSE IF deafened THEN 0 ELSE VoiceTarget]
    /\ samples = << >>
    /\ estimate = [rtt |-> 0, offset |-> 0]
    /\ sender \in Estimates(PublisherOffset)
    /\ stats = [k \in Kinds |-> NoStats]
    /\ due = << >>
    /\ reported = [k \in Kinds |-> NoReport]
    /\ arrived = 0 /\ refreshes = 0
    /\ truth = [k \in Kinds |-> [latency |-> 0, slack |-> 0]]
    /\ durations = [k \in Kinds |-> << >>]

\* sync_control_clock, one sample after the other.
Sync ==
    /\ pc = "sync"
    /\ \E e \in Estimates(ViewerOffset) :
          LET all == Append(samples, e)
          IN  IF Len(all) < SyncSamples
              THEN samples' = all /\ UNCHANGED <<pc, estimate>>
              ELSE pc' = "loop" /\ estimate' = SelectBest(all) /\ samples' = << >>
    /\ UNCHANGED <<target, sender, stats, due, reported, arrived, refreshes, truth, durations>>

-----------------------------------------------------------------------------
(***************************************************************************)
(* The loop.                                                               *)
(***************************************************************************)
Below(k) == stats[k].frames < target[k]
\* A deafened viewer of a voice alone does not wait at all.
Waiting == \E k \in Kinds : Below(k)

\* refresh_if_due: a refresh is a single sample, good or bad.
RefreshIfDue ==
    \/ UNCHANGED <<estimate, refreshes>>
    \/ /\ refreshes < MaxRefreshes
       /\ refreshes' = refreshes + 1
       /\ estimate' \in Estimates(ViewerOffset)

\* What a complete frame adds to the statistics.
WithFrame(s, latency, duration, decodes, e) ==
    [s EXCEPT !.frames = @ + 1,
              !.decoded = IF decodes THEN @ + 1 ELSE @,
              !.dropped = IF decodes THEN @ ELSE @ + 1,
              !.calibrated = CalibratedLatency(Start - PublisherOffset, sender.offset,
                                Start + latency - ViewerOffset, e.offset, @),
              !.reassembly = Push(@, ToMillis(duration))]

\* Mutant of IsReportDue: the frames of both streams are counted together.
IsReportDueForAll(k) ==
    StatsInterval > 0 /\ (stats["Screen"].frames + stats["Voice"].frames) % StatsInterval = 0

\* Every StatsInterval frames of a stream there is a report of it.
IsReportDue(k) == StatsInterval > 0 /\ stats[k].frames % StatsInterval = 0

\* A packet that completes a frame.
Frame(k, latency, duration, decodes) ==
    /\ LET s == [stats[k] EXCEPT !.packets = @ + 1]
       IN  stats' = [stats EXCEPT ![k] = WithFrame(s, latency, duration, decodes, estimate')]
    /\ truth' = [truth EXCEPT ![k] =
          [latency |-> latency, slack |-> sender.rtt + estimate'.rtt]]
    /\ durations' = [durations EXCEPT ![k] = Append(@, ToMillis(duration))]
    /\ due' = IF IsReportDue(k)' THEN <<k>> ELSE << >>

\* A packet that completes none; it may cost a pending frame.
Fragment(k) ==
    /\ \E dropped \in {0, 1} :
          stats' = [stats EXCEPT ![k].packets = @ + 1, ![k].dropped = @ + dropped]
    /\ UNCHANGED <<truth, durations, due>>

\* A packet of a stream that has all its frames, or of a deafened viewer's voice.
Ignored == UNCHANGED <<stats, truth, durations, due>>

\* A frame is captured before its first fragment arrives, so that its reassembly
\* takes no longer than its way here.
Receive(k) ==
    /\ pc = "loop" /\ due = << >> /\ Waiting
    /\ arrived < MaxPackets
    /\ arrived' = arrived + 1
    /\ RefreshIfDue
    /\ IF Below(k)
       THEN \/ Fragment(k)
            \/ \E latency, duration \in Delays, decodes \in BOOLEAN :
                  /\ duration <= latency
                  /\ Frame(k, latency, duration, decodes)
       ELSE Ignored
    /\ UNCHANGED <<pc, target, samples, sender, reported>>

\* send_viewer_stats, awaited: a call that fails, or whose answer is late, may have
\* stored the report all the same, and ends the viewer before the other reports.
SendViewerStats ==
    LET k == Head(due)
        stored == [reported EXCEPT ![k] = <<stats[k]>>]
    IN  /\ due # << >>
        /\ \/ /\ reported' = stored
              /\ due' = Tail(due)
              /\ pc' = IF pc = "closing" /\ Tail(due) = << >> THEN "ended" ELSE pc
           \/ /\ reported' \in {reported, stored}
              /\ due' = << >>
              /\ pc' = "failed"
        /\ UNCHANGED <<target, samples, estimate, sender, stats, arrived, refreshes, truth, durations>>

\* The reports behind the loop, of the streams that sent anything, the screen first.
LastReport(k) == IF stats[k].packets > 0 THEN <<k>> ELSE << >>

Finishes ==
    /\ due' = LastReport("Screen") \o LastReport("Voice")
    /\ pc' = IF due' = << >> THEN "ended" ELSE "closing"

AllReceived ==
    /\ pc = "loop" /\ due = << >> /\ ~Waiting
    /\ Finishes
    /\ UNCHANGED <<target, samples, estimate, sender, stats, reported, arrived, refreshes, truth,
                   durations>>

\* Nothing arrives for --media-idle-timeout-ms, of either stream.
IdleTimeout ==
    /\ pc = "loop" /\ due = << >> /\ Waiting
    /\ IF OpenEnded /\ \E k \in Kinds : stats[k].packets > 0
       THEN Finishes
       ELSE pc' = "failed" /\ UNCHANGED due
    /\ UNCHANGED <<target, samples, estimate, sender, stats, reported, arrived, refreshes, truth,
                   durations>>

\* A call is refused or times out, the reassembly buffer refuses the fragment, or the
\* decoder or the output fails.
Fails ==
    /\ pc \in {"sync", "loop"} /\ due = << >>
    /\ pc' = "failed"
    /\ UNCHANGED <<target, samples, estimate, sender, stats, due, reported, arrived, refreshes, truth,
                   durations>>

Next ==
    \/ Sync
    \/ \E k \in Kinds : Receive(k)
    \/ SendViewerStats
    \/ AllReceived
    \/ IdleTimeout
    \/ Fails

Spec == Init /\ [][Next]_vars

-----------------------------------------------------------------------------
(***************************************************************************)
(* Properties.                                                             *)
(***************************************************************************)
Within(x, y, bound) == x - y <= bound /\ y - x <= bound

\* The estimated offset is off by at most half the round trip it came with, give or
\* take a rounding of each half, however unevenly the delays of the two ways are
\* spread and however long the relay took: also after a refresh, which may replace
\* a good estimate by a bad one.
OffsetWithinRtt ==
    pc = "loop" => Within(2 * estimate.offset, 2 * ViewerOffset, estimate.rtt + 2)

\* The latency a viewer reports is the time between capture and receipt up to the
\* error of both clocks (half of each round trip, rounding, and the millisecond),
\* unless the frame was faster than that error, where the last latency stays, or
\* took, up to that error, as long as the field can tell, which it then shows.
LatencyIsCalibrated ==
    \A k \in Kinds : stats[k].frames > 0 =>
        LET slack == truth[k].slack + 4
        IN  \/ Within(2000 * stats[k].calibrated, 2 * truth[k].latency, slack + 2000)
            \/ 2 * truth[k].latency <= slack
            \/ /\ stats[k].calibrated = MaxU16
               /\ 2 * truth[k].latency + slack >= 2000 * MaxU16

Last(s, n) == IF Len(s) <= n THEN s ELSE SubSeq(s, Len(s) - n + 1, Len(s))
Places(s, v) == Cardinality({i \in DOMAIN s : s[i] <= v})

\* The percentiles of a report are those of the last SampleCapacity measurements:
\* p percent of them, but for one, are no greater and the rest no smaller.
WindowIsRecent ==
    \A k \in Kinds, p \in {50, 95} : durations[k] # << >> =>
        LET recent == Last(durations[k], SampleCapacity)
            v == Percentile(stats[k].reassembly, p)
        IN  /\ v \in {recent[i] : i \in DOMAIN recent}
            /\ 100 * Places(recent, v) >= 100 + p * (Len(recent) - 1)
            /\ 100 * Places(recent, v - 1) < 100 + p * (Len(recent) - 1)

Unreported(k) == stats[k].frames - (IF reported[k] = NoReport THEN 0 ELSE reported[k][1].frames)

\* However the frames of the two streams alternate and whichever call fails, the relay
\* lags behind a stream by less than an interval, but for a report that is being sent
\* or has failed; a viewer that ends well has left it with its last statistics of
\* every stream it received anything of, and a deafened one with none of its voice.
ReportsKeepUp ==
    \A k \in Kinds :
        /\ StatsInterval > 0 =>
              \/ Unreported(k) < StatsInterval
              \/ Unreported(k) = StatsInterval /\ (pc = "failed" \/ \E i \in DOMAIN due : due[i] = k)
        /\ pc = "ended" /\ stats[k].packets > 0 => reported[k] = <<stats[k]>>
        /\ target[k] = 0 => reported[k] = NoReport

=============================================================================
