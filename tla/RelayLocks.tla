----------------------------- MODULE RelayLocks -----------------------------
(***************************************************************************)
(* The three kinds of lock of the relay runtime and the order in which its *)
(* tasks take them (relay-server/src/control_stream.rs): the mutex of each *)
(* session, the mutex of the control state and the mutex of the egress     *)
(* table.  They are tokio mutexes, which are granted in the order of the   *)
(* requests and are held across await points.                              *)
(*                                                                         *)
(* Each connection has its loop, which handles datagrams one at a time and *)
(* finally cleans up, and the tasks it has spawned for control streams.    *)
(***************************************************************************)
EXTENDS Naturals, Sequences

CONSTANTS
    Connections,   \* each stands for its session's mutex, too
    StateLock, MediaLock,
    TaskCount      \* bound on the concurrent control tasks of a connection

ASSUME LockAssumption ==
    /\ StateLock # MediaLock
    /\ StateLock \notin Connections /\ MediaLock \notin Connections
    /\ TaskCount \in Nat

Locks == Connections \cup {StateLock, MediaLock}

\* <<c, 0>> is the loop of connection c, <<c, i>> one of its control tasks.
Procs == Connections \X (0..TaskCount)

VARIABLES
    todo,     \* the lock operations left in what each process is doing
    queue,    \* per lock, its holder followed by the processes waiting for it
    closed    \* the connections whose loop has cleaned up

vars == <<todo, queue, closed>>

Acquire(l) == [op |-> "acquire", lock |-> l]
Release(l) == [op |-> "release", lock |-> l]
Within(l, ops) == <<Acquire(l)>> \o ops \o <<Release(l)>>

-----------------------------------------------------------------------------
(***************************************************************************)
(* What the code does under which lock.                                    *)
(***************************************************************************)

\* handle_control_stream: the session is locked while the request is handled.
PlainRequest(c) == Within(c, Within(StateLock, << >>))

\* A poll of stream metrics looks at the state a second time, now with the
\* egress table, to add the depth of the queues.
MetricsRequest(c) ==
    Within(c, Within(StateLock, << >>) \o Within(StateLock, Within(MediaLock, << >>)))

\* An accepted Hello is followed by the registration of the egress.
HelloRequest(c) == PlainRequest(c) \o Within(c, << >>) \o Within(MediaLock, << >>)

\* Mutant of Datagram: the egress table is locked first.
DatagramMediaFirst(c) == Within(c, << >>) \o Within(MediaLock, Within(StateLock, << >>))

\* handle_media_datagram lets go of the session before it routes the packet.
Datagram(c) == Within(c, << >>) \o Within(StateLock, Within(MediaLock, << >>))

\* Mutant of Cleanup: the egress table stays locked until all is cleaned up.
CleanupUnderMedia(c) == Within(c, << >>) \o Within(MediaLock, Within(StateLock, << >>))

\* The end of serve_connection.
Cleanup(c) == Within(c, << >>) \o Within(MediaLock, << >>) \o Within(StateLock, << >>)

-----------------------------------------------------------------------------
Init ==
    /\ todo = [t \in Procs |-> << >>]
    /\ queue = [l \in Locks |-> << >>]
    /\ closed = {}

Start(t, ops) ==
    /\ todo[t] = << >>
    /\ t[1] \notin closed
    /\ todo' = [todo EXCEPT ![t] = ops]
    /\ UNCHANGED queue

StartTask(t) ==
    /\ t[2] # 0
    /\ \E ops \in {PlainRequest(t[1]), MetricsRequest(t[1]), HelloRequest(t[1])} :
          Start(t, ops)
    /\ UNCHANGED closed

StartDatagram(t) == t[2] = 0 /\ Start(t, Datagram(t[1])) /\ UNCHANGED closed

StartCleanup(t) ==
    t[2] = 0 /\ Start(t, Cleanup(t[1])) /\ closed' = closed \cup {t[1]}

InQueue(t, l) == \E i \in DOMAIN queue[l] : queue[l][i] = t

Holds(t, l) == queue[l] # << >> /\ Head(queue[l]) = t

\* A process takes a free lock at once and otherwise queues for it, goes on when
\* it is the first in the queue, and gives the lock back.
Ask(t) ==
    /\ todo[t] # << >> /\ Head(todo[t]).op = "acquire"
    /\ LET l == Head(todo[t]).lock
       IN  /\ ~InQueue(t, l)
           /\ queue' = [queue EXCEPT ![l] = Append(@, t)]
           /\ todo' = [todo EXCEPT ![t] = IF queue[l] = << >> THEN Tail(@) ELSE @]
    /\ UNCHANGED closed

Granted(t) ==
    /\ todo[t] # << >> /\ Head(todo[t]).op = "acquire"
    /\ Holds(t, Head(todo[t]).lock)
    /\ todo' = [todo EXCEPT ![t] = Tail(@)]
    /\ UNCHANGED <<queue, closed>>

GiveBack(t) ==
    /\ todo[t] # << >> /\ Head(todo[t]).op = "release"
    /\ queue' = [queue EXCEPT ![Head(todo[t]).lock] = Tail(@)]
    /\ todo' = [todo EXCEPT ![t] = Tail(@)]
    /\ UNCHANGED closed

Continue(t) == Ask(t) \/ Granted(t) \/ GiveBack(t)

Next ==
    \E t \in Procs : StartTask(t) \/ StartDatagram(t) \/ StartCleanup(t) \/ Continue(t)

\* Tokio polls every task that can go on; no task need be started.
Spec == Init /\ [][Next]_vars /\ \A t \in Procs : WF_vars(Continue(t))

-----------------------------------------------------------------------------
\* The process waits for the lock: it asked and someone else holds it.
Waits(t, l) == InQueue(t, l) /\ Head(queue[l]) # t

Rank(l) == CASE l = StateLock -> 2 [] l = MediaLock -> 3 [] OTHER -> 1

\* A process that waits for a lock holds only locks of lower rank (session,
\* then state, then egress table): no chain of waiting processes can close.
WaitsUpwards ==
    \A t \in Procs : \A l \in Locks : Waits(t, l) =>
        \A k \in Locks : Holds(t, k) => Rank(k) < Rank(l)

\* Every process is idle again and again: each request, datagram and cleanup
\* that has begun is eventually finished,
\* whatever the other connections go on to do.
EverythingFinishes == \A t \in Procs : []<>(todo[t] = << >>)

=============================================================================
