--------------------------- MODULE RelayRefinement ---------------------------
(***************************************************************************)
(* The relay's control state implements the directory of rooms.  Rooms are *)
(* numbered in the order they are opened; a published stream is on the air *)
(* whatever its codec, kind, target and config.                            *)
(***************************************************************************)
EXTENDS RelayControl

CONSTANTS
    DirectoryUsers,   \* the user ids the directory knows
    DirectoryRooms    \* and its rooms

\* The directory has room for every user id and room id the relay hands out: one
\* user per session at most, and as many rooms as the bound allows.
ASSUME DirectoryAssumption ==
    /\ 1..Cardinality(Sessions) \subseteq DirectoryUsers
    /\ 1..MaxRoomId \subseteq DirectoryRooms

Directory == INSTANCE RoomDirectory WITH
    Users    <- DirectoryUsers,
    Rooms    <- DirectoryRooms,
    Streams  <- StreamIds,
    opened   <- 1..(nextRoomId - 1),
    present  <- participants,
    onAir    <- {[room |-> p.room, stream |-> p.stream, user |-> p.publisher] : p \in published},
    watching <- subscriptions

\* Every step of a control handler, disconnect cleanup included, is one step of
\* the directory or leaves it alone: what a departure ends, it ends at once, no
\* room comes back from the dead and no id is on the air twice.
ImplementsDirectory == Directory!Spec

=============================================================================
