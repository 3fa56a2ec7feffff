---------------------------- MODULE MCRelayRooms ----------------------------
(***************************************************************************)
(* Two sessions, the rooms and streams they can make, no media tuning.     *)
(* Voice states are set to what they start with: which flags are set is of *)
(* no account here, only that their table follows the participants.        *)
(***************************************************************************)
EXTENDS RelayRefinement, TLC

MCVoiceInputs == {DefaultVoice}

\* Input is queued for one stream at a time: a state with two queues is checked, and
\* not explored further.
OneInputQueue == \E s \in StreamIds : remoteInput[s] = << >>

Symmetry == Permutations(Sessions) \cup Permutations(StreamIds)
=============================================================================
