---------------------------- MODULE MediaTargets ----------------------------
(***************************************************************************)
(* The media targets a relay keeps for each published stream and the pure  *)
(* arithmetic on them: clamping, the degradation ladder (bitrate, then     *)
(* framerate, then resolution) and the resolution step.  The numbers are   *)
(* the constants at the top of relay-server/src/control.rs.                *)
(***************************************************************************)
EXTENDS Integers

DefaultBitrate == 4000000
DefaultFps     == 30
MinBitrate     == 16000
MaxBitrate     == 16000000
MinFps         == 5
MaxFps         == 120
DegradedPercent == 80
MinWidth  == 320
MinHeight == 180
MaxWidth  == 7680
MaxHeight == 4320

\* Rust's a.max(b), a.min(b) and x.clamp(lo, hi).
Larger(a, b)  == IF a >= b THEN a ELSE b
Smaller(a, b) == IF a <= b THEN a ELSE b
Clamp(x, lo, hi) == Smaller(Larger(x, lo), hi)

\* The 80% of a value, rounded down.
Percent(x) == (x * DegradedPercent) \div 100

(***************************************************************************)
(* A target: bitrate, framerate and a resolution, where 0 x 0 means that   *)
(* the publisher has not told the relay its resolution.                    *)
(***************************************************************************)
Target ==
    [bitrate : MinBitrate..MaxBitrate, fps : MinFps..MaxFps,
     width : {0} \cup MinWidth..MaxWidth, height : {0} \cup MinHeight..MaxHeight]

DefaultTarget ==
    [bitrate |-> DefaultBitrate, fps |-> DefaultFps, width |-> 0, height |-> 0]

ClampWidth(w, h)  == IF w = 0 \/ h = 0 THEN 0 ELSE Clamp(w, MinWidth, MaxWidth)
ClampHeight(w, h) == IF w = 0 \/ h = 0 THEN 0 ELSE Clamp(h, MinHeight, MaxHeight)

\* A target with every field forced into its legal range.
ClampTarget(b, f, w, h) ==
    [bitrate |-> Clamp(b, MinBitrate, MaxBitrate), fps |-> Clamp(f, MinFps, MaxFps),
     width |-> ClampWidth(w, h), height |-> ClampHeight(w, h)]

(***************************************************************************)
(* One resolution step.  The width goes down to 80% and the height follows *)
(* the aspect ratio; where the height is already at its floor the width is *)
(* recomputed from the height, which restores it.                          *)
(***************************************************************************)
ReduceResolution(w, h) ==
    IF w = 0 \/ h = 0 THEN <<w, h>>
    ELSE LET w1 == Smaller(Larger(Percent(w), MinWidth), w)
             h1 == Smaller(Larger((w1 * h) \div w, MinHeight), h)
             w2 == IF h1 = h
                   THEN Smaller(Larger((h1 * w) \div h, MinWidth), w)
                   ELSE w1
         IN  IF w1 = w /\ h1 = h
             THEN <<w, h>>
             ELSE <<ClampWidth(w2, h1), ClampHeight(w2, h1)>>

\* Mutant of LowerTarget: bitrate and framerate fall together.
LowerTargetTogether(t) ==
    ClampTarget(Percent(t.bitrate), Percent(t.fps), t.width, t.height)

\* Mutant of LowerTarget: the resolution is left alone.
LowerTargetKeepingResolution(t) ==
    LET b == Larger(Percent(t.bitrate), MinBitrate)
    IN  ClampTarget(b, IF b = t.bitrate THEN Percent(t.fps) ELSE t.fps, t.width, t.height)

(***************************************************************************)
(* One rung of the ladder: the bitrate falls until it is at its floor,     *)
(* then the framerate, and only then the resolution.                       *)
(***************************************************************************)
LowerTarget(t) ==
    LET b == Larger(Percent(t.bitrate), MinBitrate)
        f == IF b = t.bitrate /\ t.fps > MinFps
             THEN Larger(Percent(t.fps), MinFps)
             ELSE t.fps
        r == IF b = t.bitrate /\ f = t.fps
             THEN ReduceResolution(t.width, t.height)
             ELSE <<t.width, t.height>>
    IN  ClampTarget(b, f, r[1], r[2])

=============================================================================
