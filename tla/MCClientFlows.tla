--------------------------- MODULE MCClientFlows ----------------------------
(***************************************************************************)
(* A broadcaster of both kinds, another that wants the same stream ids,    *)
(* and a viewer or a listing.  Targets start at the floor of the ladder.   *)
(***************************************************************************)
EXTENDS ClientFlows

Floor(fps) == [k \in Media |-> IF k = "Screen"
                               THEN [fps |-> fps, width |-> 320, height |-> 180]
                               ELSE [fps |-> 5, width |-> 0, height |-> 0]]

Quiet == [muted |-> FALSE, deafened |-> FALSE, ptt |-> FALSE, speaking |-> TRUE]
Muted == [Quiet EXCEPT !.muted = TRUE]

Base ==
    [mode |-> "broadcast", kinds |-> Media, room |-> NoRoom,
     channel |-> "den", token |-> "right",
     stream |-> [k \in Media |-> IF k = "Screen" THEN "s1" ELSE "s2"],
     config |-> Floor(5), bitrate |-> 16000, voice |-> Quiet, inputs |-> 0, media |-> TRUE]

MCStoredName == [n \in {"den", "two  spaces"} |-> IF n = "den" THEN "den" ELSE "two spaces"]
MCCodecFor == [k \in Media |-> IF k = "Screen" THEN "h264" ELSE "opus"]

Screen == [Base EXCEPT !.kinds = {"Screen"}]
Viewer == [Screen EXCEPT !.mode = "view", !.inputs = 1]

Three(a, b, v) == [c \in Sessions |-> CASE c = "a" -> a [] c = "b" -> b [] c = "v" -> v]

\* A rival waits in room 1 for the stream id, and the viewer watches whoever has it;
\* both kinds, with a deafened viewer and somebody who has no token; a listing and
\* a muted voice in a second room, whose name the relay changes; broadcasters that
\* are refused, or whose config the relay changes.
MCScenarios ==
    {Three(Screen, [Screen EXCEPT !.room = 1, !.media = FALSE], Viewer),
     Three(Base, [Screen EXCEPT !.token = "none"],
           [Base EXCEPT !.mode = "view", !.voice = [Quiet EXCEPT !.deafened = TRUE]]),
     Three([Screen EXCEPT !.media = FALSE],
           [Base EXCEPT !.kinds = {"Voice"}, !.channel = "two  spaces", !.media = FALSE,
                         !.voice = Muted],
           [Base EXCEPT !.mode = "participants", !.channel = "two  spaces", !.voice = Muted]),
     Three([Screen EXCEPT !.config = Floor(500)], [Screen EXCEPT !.token = "wrong"],
           [Base EXCEPT !.mode = "streams", !.room = 1])}

\* The requests of these clients.
MCVoiceInputs == {Quiet, Muted, [Quiet EXCEPT !.deafened = TRUE]}
MCConfigInputs == {Floor(fps)[k] : fps \in {5, 500}, k \in Media}
=============================================================================
