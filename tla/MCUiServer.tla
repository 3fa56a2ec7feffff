----------------------------- MODULE MCUiServer -----------------------------
(***************************************************************************)
(* A console and one other client, which publishes under the same ids.     *)
(***************************************************************************)
EXTENDS UiServer

MCStreamOf == [k \in Media |-> IF k = "Screen" THEN "s1" ELSE "s2"]
MCCodecOf  == [k \in Media |-> IF k = "Screen" THEN "h264" ELSE "opus"]

\* A full-HD screen, and one whose framerate the relay does not accept.
MCScreenConfigs ==
    {[fps |-> 60, width |-> 1920, height |-> 1080],
     [fps |-> 500, width |-> 1920, height |-> 1080]}
MCVoiceConfig == [fps |-> 50, width |-> 0, height |-> 0]

MCVoicePatches ==
    {[deafened |-> TRUE], [deafened |-> FALSE, muted |-> FALSE]}
=============================================================================
