---------------------------- MODULE RelayRuntime ----------------------------
(***************************************************************************)
(* The relay's connections (relay-server/src/control_stream.rs) around the *)
(* control state and the egress table of media.rs.                         *)
(*                                                                         *)
(* serve_connection spawns one detached task per control stream and        *)
(* handles datagrams inline.  A task reads its request, handles it under   *)
(* the session lock and, after a Hello, registers the viewer's egress in a *)
(* step of its own.  When the connection ends the loop cleans up in three  *)
(* steps, each under a different lock; it does not wait for the tasks.     *)
(***************************************************************************)
EXTENDS RelayControl

CONSTANT MaxTasks   \* bound on the unfinished control tasks of a connection

ASSUME TaskAssumption == MaxTasks \in Nat \ {0}

VARIABLES
    phase,         \* where serve_connection is
    tasks,         \* tasks whose request has not been handled yet
    registering,   \* tasks that answered a Hello and have yet to register
    egress,        \* the users in MediaRelay.egress
    late           \* history: did a task act after the loop ended?

runtimeVars == <<phase, tasks, registering, egress, late>>
allVars == <<vars, runtimeVars>>

Phases == {"open", "closing", "unregister", "disconnect", "closed"}

RuntimeInit ==
    /\ Init
    /\ phase = [c \in Sessions |-> "open"]
    /\ tasks = [c \in Sessions |-> 0]
    /\ registering = [c \in Sessions |-> 0]
    /\ egress = {}
    /\ late = [c \in Sessions |-> FALSE]

-----------------------------------------------------------------------------
\* A new control stream: its task is spawned and not joined.
AcceptStream(c) ==
    /\ phase[c] = "open"
    /\ tasks[c] + registering[c] < MaxTasks
    /\ tasks' = [tasks EXCEPT ![c] = @ + 1]
    /\ UNCHANGED <<vars, phase, registering, egress, late>>

\* The task ends without an effect on the control state: no complete request
\* within CONTROL_STREAM_IDLE_TIMEOUT, an undecodable one, or an error reply.
FailTask(c) ==
    /\ tasks[c] > 0
    /\ tasks' = [tasks EXCEPT ![c] = @ - 1]
    /\ UNCHANGED <<vars, phase, registering, egress, late>>

\* Mutant of HandleHello: only the first Hello of the relay registers.
HandleHelloOnce(c) ==
    /\ tasks[c] > 0
    /\ Hello(c)
    /\ tasks' = [tasks EXCEPT ![c] = @ - 1]
    /\ registering' = [registering EXCEPT ![c] = IF names = {} THEN @ + 1 ELSE @]
    /\ late' = [late EXCEPT ![c] = @ \/ phase[c] # "open"]
    /\ UNCHANGED <<phase, egress>>

\* The task handles its request.  Whether the connection is still open is not
\* looked at.
HandleHello(c) ==
    /\ tasks[c] > 0
    /\ Hello(c)
    /\ tasks' = [tasks EXCEPT ![c] = @ - 1]
    /\ registering' = [registering EXCEPT ![c] = @ + 1]
    /\ late' = [late EXCEPT ![c] = @ \/ phase[c] # "open"]
    /\ UNCHANGED <<phase, egress>>

HandleRequest(c) ==
    /\ tasks[c] > 0
    /\ Authenticate(c) \/ RoomRequest(c) \/ StreamRequest(c)
    /\ tasks' = [tasks EXCEPT ![c] = @ - 1]
    /\ late' = [late EXCEPT ![c] = @ \/ phase[c] # "open"]
    /\ UNCHANGED <<phase, registering, egress>>

RegisterEgress(c) ==
    /\ registering[c] > 0
    /\ egress' = egress \cup {user[c]}
    /\ registering' = [registering EXCEPT ![c] = @ - 1]
    /\ late' = [late EXCEPT ![c] = @ \/ phase[c] # "open"]
    /\ UNCHANGED <<vars, phase, tasks>>

\* A datagram is handled in the connection's own loop.
ReceiveDatagram(c) ==
    /\ phase[c] = "open"
    /\ Forward(c)
    /\ UNCHANGED runtimeVars

-----------------------------------------------------------------------------
\* The loop ends, for whatever reason.
LoseConnection(c) ==
    /\ phase[c] = "open"
    /\ phase' = [phase EXCEPT ![c] = "closing"]
    /\ UNCHANGED <<vars, tasks, registering, egress, late>>

\* Cleanup, first step: who was this?  Nobody, if no Hello has been handled.
ReadUser(c) ==
    /\ phase[c] = "closing"
    /\ phase' = [phase EXCEPT ![c] = IF user[c] = NoUser THEN "closed" ELSE "unregister"]
    /\ UNCHANGED <<vars, tasks, registering, egress, late>>

UnregisterEgress(c) ==
    /\ phase[c] = "unregister"
    /\ egress' = egress \ {user[c]}
    /\ phase' = [phase EXCEPT ![c] = "disconnect"]
    /\ UNCHANGED <<vars, tasks, registering, late>>

CleanUp(c) ==
    /\ phase[c] = "disconnect"
    /\ Disconnect(c)
    /\ phase' = [phase EXCEPT ![c] = "closed"]
    /\ UNCHANGED <<tasks, registering, egress, late>>

-----------------------------------------------------------------------------
TaskStep(c) == FailTask(c) \/ HandleHello(c) \/ HandleRequest(c) \/ RegisterEgress(c)

ConnectionStep(c) ==
    AcceptStream(c) \/ ReceiveDatagram(c) \/ LoseConnection(c)

CleanupStep(c) == ReadUser(c) \/ UnregisterEgress(c) \/ CleanUp(c)

RuntimeNext ==
    \E c \in Sessions : TaskStep(c) \/ ConnectionStep(c) \/ CleanupStep(c)

RuntimeSpec == RuntimeInit /\ [][RuntimeNext]_allVars

-----------------------------------------------------------------------------
\* Every variable has its shape; only users have an egress.
RuntimeTypeOK ==
    /\ TypeOK
    /\ phase \in [Sessions -> Phases]
    /\ tasks \in [Sessions -> Nat]
    /\ registering \in [Sessions -> Nat]
    /\ egress \subseteq UserIds
    /\ late \in [Sessions -> BOOLEAN]

\* The user is in no room, watches, reports and publishes nothing, and has no name.
Absent(u) ==
    /\ \A m \in participants \cup voice \cup viewerStats \cup subscriptions : m.user # u
    /\ \A p \in published : p.publisher # u
    /\ u \notin names

\* All that may be left of the user is input it sent to streams that others still
\* publish: disconnect_user does not look into the queues, and the events wait there
\* for the publisher's poll or the end of the stream.
Forgotten(u) ==
    /\ Absent(u)
    /\ \A s \in StreamIds : (\E i \in DOMAIN remoteInput[s] : remoteInput[s][i] = u) =>
           IsPublished(s)

\* A connection whose tasks were done when its loop ended has no egress any more and
\* is forgotten by the control state, but for input it sent to streams of others that
\* are still on the air: the order of the three cleanup steps and the steps of the
\* other connections between them make no difference.
CleanWithoutLateTasks ==
    \A c \in Sessions : phase[c] = "closed" /\ ~late[c] =>
        Forgotten(user[c]) /\ user[c] \notin egress

\* On an open connection a user whose Hello task is through has an egress, so
\* what it subscribes to can be forwarded to it.
EstablishedHasEgress ==
    \A c \in Sessions :
        phase[c] = "open" /\ user[c] # NoUser /\ registering[c] = 0 => user[c] \in egress

\* docs/protocol.md, "the relay applies the same cleanup when a connection
\* disconnects unexpectedly": once a closed connection has no task left, its
\* user is in no room, subscribes to nothing and publishes nothing.
CleanAfterDisconnect ==
    \A c \in Sessions :
        phase[c] = "closed" /\ tasks[c] = 0 /\ registering[c] = 0 =>
           /\ \A m \in participants \cup subscriptions : m.user # user[c]
           /\ \A p \in published : p.publisher # user[c]

=============================================================================
