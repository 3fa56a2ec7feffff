----------------------------- MODULE VoicePath ------------------------------
(***************************************************************************)
(* A voice from the microphone of one client to the speaker of another:    *)
(* the capture device (desktop-client/src/audio_capture.rs), the loop that *)
(* sends (main.rs, run_voice_broadcaster_media_loop), the relay's gate     *)
(* (control.rs and media.rs), the loop that receives (main.rs,             *)
(* run_synthetic_voice_viewer_media) and the playback device (audio.rs).   *)
(*                                                                         *)
(* Speech comes in chunks, numbered in the order of recording; a chunk is  *)
(* what one capture buffer holds and becomes one frame.  The devices run   *)
(* on their own: they fill and play the buffers they were given, in the    *)
(* order they were given them.  Every call of a device or of the relay may *)
(* fail; a device that refuses a reset keeps its buffers.                  *)
(***************************************************************************)
EXTENDS Integers, Sequences, FiniteSets, FiniteSetsExt, SequencesExt

CONSTANTS
    Buffers,            \* the buffers of the microphone (3)
    MaxPending,         \* MAX_PENDING_SPEAKER_BUFFERS (6)
    Formats,            \* sample rates and channel counts a frame can have
    FrameRates,         \* target framerates the relay's feedback can carry
    FeedbackInterval,   \* --feedback-interval-frames; 0 for no polls inside the loop
    TargetFrames,       \* frames the viewer waits for
    OpenEnded,          \* is the target from --media-run-ms, with --media-frames 0?
    MaxChunks,          \* bound on the chunks recorded
    MaxInFlight         \* bound on the frames under way to the relay, and from it

Nothing == 0
Closed  == "closed"

ASSUME VoiceAssumption ==
    /\ {Buffers, MaxPending, TargetFrames, MaxInFlight} \subseteq Nat \ {0}
    /\ FeedbackInterval \in Nat
    /\ FrameRates \subseteq Nat \ {0} /\ FrameRates # {}
    /\ OpenEnded \in BOOLEAN
    /\ MaxChunks \in Nat
    /\ Closed \notin Formats

VARIABLES
    mic,      \* held: per buffer, the chunk in it or Nothing; queued: the buffers
              \* the device may fill; recorded: chunks so far
    sender,   \* the loop that sends: pc, count, empty, fps, and the flag stop
    lagged,   \* history: did the sender ever find two finished buffers?
    sent,     \* history: the chunks in the order in which they were sent
    gate,     \* at the relay: may the speaker send and the viewer hear?
    up, down, \* the frames on their way to the relay and from it
    viewer,   \* the loop that receives: pc, got
    speaker,  \* open: the device's format or Closed; pending: the buffers lent to it;
              \* freed: history, were buffers freed that the device had not given back?
    playing,  \* the chunks the device still owns, next first
    heard     \* history: the chunks in the order in which they were heard

senderVars == <<mic, sender, lagged, sent>>
viewerVars == <<viewer, speaker, playing, heard>>
vars == <<senderVars, gate, up, down, viewerVars>>

-----------------------------------------------------------------------------
\* Win32WaveInCapture::open queues the buffers in order and starts the device.
OpenMic ==
    [held |-> [b \in 1..Buffers |-> Nothing], queued |-> [b \in 1..Buffers |-> b],
     recorded |-> 0]

Init ==
    /\ mic = OpenMic
    /\ \E fps \in FrameRates :
          sender = [pc |-> "loop", count |-> 0, empty |-> 0, fps |-> fps, stop |-> FALSE]
    /\ lagged = FALSE
    /\ sent = << >>
    /\ gate = TRUE
    /\ up = {} /\ down = {}
    /\ viewer = [pc |-> "loop", got |-> 0]
    /\ speaker = [open |-> Closed, pending |-> << >>, freed |-> FALSE]
    /\ playing = << >>
    /\ heard = << >>

-----------------------------------------------------------------------------
(***************************************************************************)
(* The microphone and the loop that sends.                                 *)
(***************************************************************************)
\* The microphone is open as long as the loop runs; Drop stops, resets and closes it,
\* and ignores a device that refuses (one that goes on recording is not modelled).
Running == sender.pc \in {"loop", "poll", "final"}

\* The device fills the first buffer in its queue; without one the chunk is lost.
Record ==
    /\ Running
    /\ mic.recorded < MaxChunks
    /\ mic' = IF mic.queued = << >> THEN [mic EXCEPT !.recorded = @ + 1]
              ELSE [held |-> [mic.held EXCEPT ![Head(mic.queued)] = mic.recorded + 1],
                    queued |-> Tail(mic.queued), recorded |-> mic.recorded + 1]
    /\ UNCHANGED <<sender, lagged, sent, gate, up, down, viewerVars>>

Finished == {b \in 1..Buffers : mic.held[b] # Nothing}

\* next_frame: the finished buffer with the lowest index, whichever was filled
\* first.  (The queue of captured frames in front of the device stays empty.)
NextBuffer == Min(Finished)

\* Mutant of Requeued: WHDR_DONE is not cleared.
RequeuedStillDone(b) == [mic EXCEPT !.queued = Append(@, b)]

\* requeue_buffer: the device may fill the buffer again, after the others.
Requeued(b) == [mic EXCEPT !.held[b] = Nothing, !.queued = Append(@, b)]

\* The checks at the head of the loop and after its tick: the flag ends it.
StopRequested ==
    /\ sender.pc = "loop"
    /\ sender.stop
    /\ sender' = [sender EXCEPT !.pc = "final"]
    /\ UNCHANGED <<mic, lagged, sent, gate, up, down, viewerVars>>

\* Mutant of EmptyTick: a round without a chunk is not counted.
EmptyTickUncounted ==
    /\ sender.pc = "loop" /\ ~sender.stop
    /\ Finished = {}
    /\ UNCHANGED vars

\* next_frame has nothing; more than a second of that is an error.
EmptyTick ==
    /\ sender.pc = "loop" /\ ~sender.stop
    /\ Finished = {}
    /\ sender' = [sender EXCEPT !.empty = @ + 1,
                                !.pc = IF sender.empty + 1 > sender.fps THEN "failed" ELSE @]
    /\ UNCHANGED <<mic, lagged, sent, gate, up, down, viewerVars>>

\* Datagrams are lost where there are too many of them.
Carried(line, f) == IF Cardinality(line) < MaxInFlight THEN line \cup {f} ELSE line

\* A chunk is taken from the microphone, encoded and sent.
SendTick(format) ==
    /\ sender.pc = "loop" /\ ~sender.stop
    /\ Finished # {}
    /\ LET b == NextBuffer
       IN  /\ mic' = Requeued(b)
           /\ sent' = Append(sent, mic.held[b])
           /\ up' = Carried(up, [chunk |-> mic.held[b], format |-> format])
    /\ lagged' = (lagged \/ \E b, c \in Finished : b # c)
    /\ LET count == IF FeedbackInterval > 0 THEN (sender.count + 1) % FeedbackInterval ELSE 1
       IN  sender' = [sender EXCEPT !.empty = 0, !.count = count,
                                    !.pc = IF count = 0 THEN "poll" ELSE @]
    /\ UNCHANGED <<gate, down, viewerVars>>

\* apply_audio_publisher_feedback: the loop ticks at the rate it is told.
Obeyed(fps) == [sender EXCEPT !.fps = fps]

\* poll_publisher_feedback, on time or once more when the loop has ended, with the
\* metrics.
PollFeedback ==
    /\ sender.pc \in {"poll", "final"}
    /\ \E fps \in FrameRates :
          sender' = [Obeyed(fps) EXCEPT !.pc = IF @ = "poll" THEN "loop" ELSE "ended"]
    /\ UNCHANGED <<mic, lagged, sent, gate, up, down, viewerVars>>

\* A call of the device or the relay fails, and the loop with it.
SenderFails ==
    /\ Running
    /\ sender' = [sender EXCEPT !.pc = "failed"]
    /\ UNCHANGED <<mic, lagged, sent, gate, up, down, viewerVars>>

\* stop_ui_voice_media_task, or the end of the frames asked for.
Stop ==
    /\ Running
    /\ ~sender.stop
    /\ sender' = [sender EXCEPT !.stop = TRUE]
    /\ UNCHANGED <<mic, lagged, sent, gate, up, down, viewerVars>>

-----------------------------------------------------------------------------
(***************************************************************************)
(* The network and the relay.                                              *)
(***************************************************************************)
VoiceState == [muted : BOOLEAN, deafened : BOOLEAN, ptt : BOOLEAN, speaking : BOOLEAN]

\* voice_publisher_can_send: not muted and, with push-to-talk, speaking.  A viewer
\* hears unless it is deafened.
Passes(speaking, viewing) ==
    ~speaking.muted /\ (speaking.ptt => speaking.speaking) /\ ~viewing.deafened

Gates == {Passes(pair[1], pair[2]) : pair \in VoiceState \X VoiceState}

\* SetVoiceState of the speaker or of the viewer.
SetVoice ==
    /\ gate' \in Gates
    /\ UNCHANGED <<senderVars, up, down, viewerVars>>

\* The relay drops what an inactive speaker sends and what a deafened viewer
\* would get.
Forward(f) ==
    /\ f \in up
    /\ up' = up \ {f}
    /\ down' = IF gate THEN Carried(down, f) ELSE down
    /\ UNCHANGED <<senderVars, gate, viewerVars>>

Lose(f) ==
    /\ f \in up \cup down
    /\ up' = up \ {f} /\ down' = down \ {f}
    /\ UNCHANGED <<senderVars, gate, viewerVars>>

-----------------------------------------------------------------------------
(***************************************************************************)
(* The loop that receives and the speaker.                                 *)
(***************************************************************************)
\* Mutant of Reset: the buffers are freed while the device plays them.
ResetPendingOnly == [pending |-> << >>, playing |-> playing]

\* reset_pending_buffers that succeeds: the device gives all buffers back unplayed.
Reset == [pending |-> << >>, playing |-> << >>]

IsDone(chunk) == \A i \in DOMAIN playing : playing[i] # chunk

\* reclaim_finished_buffers: those in front that have been played.
Reclaimed ==
    LET waiting == {i \in DOMAIN speaker.pending : ~IsDone(speaker.pending[i])}
        first == IF waiting = {} THEN Len(speaker.pending) + 1 ELSE Min(waiting)
    IN  [pending |-> SubSeq(speaker.pending, first, Len(speaker.pending)),
         playing |-> playing]

\* What play does before it lends the device another buffer: ensure_open closes a
\* device of another format, finished buffers are reclaimed, and a device that is
\* MaxPending behind is reset.
BeforePlay(format) ==
    IF speaker.open # format THEN Reset
    ELSE IF Len(Reclaimed.pending) >= MaxPending THEN Reset ELSE Reclaimed

\* SpeakerAudioPlayback::play: the device gets a buffer with the chunk.
Play(f) ==
    /\ speaker' = [speaker EXCEPT !.open = f.format,
                                  !.pending = Append(BeforePlay(f.format).pending, f.chunk)]
    /\ playing' = Append(BeforePlay(f.format).playing, f.chunk)

\* play that fails: in its first reset, which then has freed nothing yet, or behind
\* it; a device that was to change its format may be closed by then.
PlayFails(f) ==
    \/ UNCHANGED <<speaker, playing>>
    \/ /\ speaker' = [speaker EXCEPT !.open = IF @ = f.format THEN @ ELSE Closed,
                                     !.pending = BeforePlay(f.format).pending]
       /\ playing' = BeforePlay(f.format).playing

\* A frame arrives, is decoded and played, and the last one ends the loop.
Receive(f) ==
    /\ viewer.pc = "loop"
    /\ viewer.got < TargetFrames
    /\ f \in down
    /\ down' = down \ {f}
    /\ viewer' = [viewer EXCEPT !.got = @ + 1]
    /\ Play(f)
    /\ UNCHANGED <<senderVars, gate, up, heard>>

ViewerEnds(how) == viewer' = [viewer EXCEPT !.pc = how]

AllReceived ==
    /\ viewer.pc = "loop"
    /\ viewer.got = TargetFrames
    /\ ViewerEnds("ended")
    /\ UNCHANGED <<senderVars, gate, up, down, speaker, playing, heard>>

\* recv_media_packet_with_keepalive waits for --media-idle-timeout-ms in vain.
IdleTimeout ==
    /\ viewer.pc = "loop"
    /\ viewer.got < TargetFrames /\ down = {}
    /\ ViewerEnds(IF OpenEnded /\ viewer.got > 0 THEN "ended" ELSE "failed")
    /\ UNCHANGED <<senderVars, gate, up, down, speaker, playing, heard>>

\* The decoder or a call of the relay fails, or the device with the frame it is given.
ViewerFails ==
    /\ viewer.pc = "loop"
    /\ ViewerEnds("failed")
    /\ UNCHANGED <<speaker, playing>> \/ \E f \in down : PlayFails(f)
    /\ UNCHANGED <<senderVars, gate, up, down, heard>>

\* Drop: the speaker is closed when the loop has returned, however it did.  A reset
\* that fails is ignored, and the buffers are freed all the same.
DropSpeaker ==
    /\ viewer.pc # "loop" /\ speaker.open # Closed
    /\ \/ /\ playing' = Reset.playing
          /\ speaker' = [speaker EXCEPT !.open = Closed, !.pending = Reset.pending]
       \/ /\ speaker' = [open |-> Closed, pending |-> << >>, freed |-> TRUE]
          /\ UNCHANGED playing
    /\ UNCHANGED <<senderVars, gate, up, down, viewer, heard>>

\* The device comes to the end of a buffer and sets WHDR_DONE.  Nothing stands for
\* whatever is heard of a buffer that has been freed.
PlayOut ==
    /\ playing # << >>
    /\ heard' = Append(heard, IF speaker.freed THEN Nothing ELSE Head(playing))
    /\ playing' = Tail(playing)
    /\ UNCHANGED <<senderVars, gate, up, down, viewer, speaker>>

-----------------------------------------------------------------------------
\* encode_pcm_i16 writes the microphone's format and the chunk into the frame.
Send == \E format \in Formats : SendTick(format)

Next ==
    \/ Record \/ Stop \/ StopRequested \/ EmptyTick \/ Send \/ PollFeedback \/ SenderFails
    \/ SetVoice
    \/ \E f \in up : Forward(f)
    \/ \E f \in down : Receive(f)
    \/ \E f \in up \cup down : Lose(f)
    \/ AllReceived \/ IdleTimeout \/ ViewerFails
    \/ DropSpeaker \/ PlayOut

Spec == Init /\ [][Next]_vars

\* The ticker ticks, calls are answered or time out, datagrams arrive or are lost.
Fairness ==
    /\ WF_vars(StopRequested \/ EmptyTick \/ Send \/ PollFeedback)
    /\ WF_vars(\E f \in up : Forward(f) \/ Lose(f))
    /\ WF_vars((\E f \in down : Receive(f)) \/ AllReceived \/ IdleTimeout)

FairSpec == Spec /\ Fairness

-----------------------------------------------------------------------------
(***************************************************************************)
(* Properties.                                                             *)
(***************************************************************************)
InOrder(s) == \A i, j \in DOMAIN s : i < j => s[i] < s[j]
NoRepeats(s) == \A i, j \in DOMAIN s : i # j => s[i] # s[j]

\* Speech is sent in the order spoken as long as the sender keeps up with the
\* microphone, and nothing is sent twice even where it does not, though buffers
\* are reused while the device goes on recording.  (Once two buffers are finished,
\* the one with the lower index goes first, and may go first forever.)  Nor is
\* anything heard twice, or that was not sent, from memory that is still the
\* speaker's: an echo would need a datagram or a buffer used again.
SpeechIsSentOnce ==
    /\ NoRepeats(sent) /\ (lagged \/ InOrder(sent))
    /\ ~speaker.freed => ToSet(heard) \subseteq ToSet(sent) /\ NoRepeats(heard)

\* The playback device owns only memory the speaker still holds.  No buffer is freed
\* while it is played, when the format changes, when the device is too far behind,
\* when play fails at any of its calls, a reset among them, nor after the loop: but
\* for a Drop whose own reset fails, which frees what the device goes on playing.
\* And what it is lent is bounded.
DeviceOwnsPending ==
    /\ ToSet(playing) \subseteq ToSet(speaker.pending)
          \/ (speaker.freed /\ viewer.pc # "loop" /\ speaker.open = Closed)
    /\ speaker.open = Closed /\ ~speaker.freed => playing = << >>
    /\ Len(speaker.pending) <= MaxPending

\* A call ends by itself: the sender notices a microphone that delivers nothing any
\* more (here: after MaxChunks) and a stop, even one it cannot see while it polls,
\* and the viewer notices that nobody sends.
CallEnds == <>[](sender.pc \in {"ended", "failed"} /\ viewer.pc # "loop")

=============================================================================
