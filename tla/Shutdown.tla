------------------------------ MODULE Shutdown ------------------------------
(***************************************************************************)
(* src/index.ts: the life of the process.  main() builds the server,       *)
(* installs the signal handlers and listens; stopGracefully answers the    *)
(* first SIGTERM or SIGINT by closing the server under a backstop timer    *)
(* and the second one by leaving at once.                                  *)
(*                                                                         *)
(* Fastify's close() is external: it refuses new requests, resolves once   *)
(* no connection has a request under way, and may reject.                  *)
(***************************************************************************)
EXTENDS Integers, FiniteSets

CONSTANTS
    Requests,  \* clients, each sending one request after another
    Grace,     \* SHUTDOWN_GRACE_MS
    MaxNow     \* bound: the clock before the first signal

VARIABLES
    now,
    phase,     \* main(): "starting", "listening", "failed"
    closing,   \* close(): "open", "closing", "closed", "rejected"
    stopping,  \* the variable of stopGracefully
    backstop,  \* when the backstop timer fires, -1 while it is not set
    signals,   \* ghost: stop signals delivered
    first,     \* ghost: when the first one was, -1 before that
    request,   \* request[r]: "new", "open", "answered", "refused", "dropped"
    exit       \* the exit code, -1 while the process runs

vars == <<now, phase, closing, stopping, backstop, signals, first, request, exit>>

Running == exit = -1

Init ==
    /\ now = 0
    /\ phase = "starting"
    /\ closing = "open"
    /\ stopping = FALSE
    /\ backstop = -1
    /\ signals = 0
    /\ first = -1
    /\ request = [r \in Requests |-> "new"]
    /\ exit = -1

Open == {r \in Requests : request[r] = "open"}

\* process.exit: what is still open dies on the wire.
Exit(code) ==
    /\ exit' = code
    /\ request' = [r \in Requests |-> IF request[r] = "open" THEN "dropped" ELSE request[r]]

-----------------------------------------------------------------------------
(* main().                                                                  *)

\* listen() succeeds, unless the server was closed meanwhile.
Listen ==
    /\ Running /\ phase = "starting" /\ closing = "open"
    /\ phase' = "listening"
    /\ UNCHANGED <<now, closing, stopping, backstop, signals, first, request, exit>>

\* listen() rejects (the port is taken, or the server is closing): main closes
\* the server, and the process ends by itself, with code 1, once it is closed.
ListenFails ==
    /\ Running /\ phase = "starting"
    /\ phase' = "failed"
    /\ closing' = IF closing = "open" THEN "closing" ELSE closing
    /\ UNCHANGED <<now, stopping, backstop, signals, first, request, exit>>

DrainsAndEnds ==
    /\ Running /\ phase = "failed" /\ ~stopping
    /\ closing \in {"closed", "rejected"}
    /\ Exit(1)
    /\ UNCHANGED <<now, phase, closing, stopping, backstop, signals, first>>

-----------------------------------------------------------------------------
(* Requests, and close() (external).                                        *)

Accepts(r) ==
    /\ Running /\ phase = "listening"
    /\ request[r] \in {"new", "answered"}
    /\ request' = [request EXCEPT ![r] = IF closing = "open" THEN "open" ELSE "refused"]
    /\ UNCHANGED <<now, phase, closing, stopping, backstop, signals, first, exit>>

Answers(r) ==
    /\ Running
    /\ request[r] = "open"
    /\ request' = [request EXCEPT ![r] = "answered"]
    /\ UNCHANGED <<now, phase, closing, stopping, backstop, signals, first, exit>>

\* close() settles; only when nothing is open does it resolve.
CloseSettles ==
    /\ Running /\ closing = "closing"
    /\ closing' \in {"rejected"} \cup (IF Open = {} THEN {"closed"} ELSE {})
    /\ UNCHANGED <<now, phase, stopping, backstop, signals, first, request, exit>>

-----------------------------------------------------------------------------
(* stopGracefully.                                                          *)

\* A second signal means someone is impatient.
Impatient == stopping

\* Mutant of Deadline: no timer.
DeadlineNever == -1

Deadline == now + Grace

\* The signal handler.
Signal ==
    /\ Running
    /\ signals' = signals + 1
    /\ \/ /\ Impatient
          /\ Exit(1)
          /\ UNCHANGED <<closing, stopping, backstop, first>>
       \/ /\ ~Impatient
          /\ stopping' = TRUE
          /\ backstop' = Deadline
          /\ closing' = IF closing = "open" THEN "closing" ELSE closing
          /\ first' = IF first = -1 THEN now ELSE first
          /\ UNCHANGED <<request, exit>>
    /\ UNCHANGED <<now, phase>>

BackstopFires ==
    /\ Running
    /\ backstop # -1 /\ now >= backstop
    /\ Exit(1)
    /\ UNCHANGED <<now, phase, closing, stopping, backstop, signals, first>>

\* Mutant of Drained: the process leaves as soon as close() was called.
DrainedAtOnce == closing \in {"closing", "closed"}

Drained == closing = "closed"

\* close().then
StoppedCleanly ==
    /\ Running /\ stopping
    /\ Drained
    /\ Exit(0)
    /\ UNCHANGED <<now, phase, closing, stopping, backstop, signals, first>>

\* close().catch
StopFailed ==
    /\ Running /\ stopping
    /\ closing = "rejected"
    /\ Exit(1)
    /\ UNCHANGED <<now, phase, closing, stopping, backstop, signals, first>>

\* A timer that is due fires before the clock goes on.
Tick ==
    /\ Running
    /\ now < MaxNow \/ first # -1
    /\ backstop # -1 => now < backstop
    /\ now' = now + 1
    /\ UNCHANGED <<phase, closing, stopping, backstop, signals, first, request, exit>>

Next ==
    \/ Listen \/ ListenFails \/ DrainsAndEnds
    \/ \E r \in Requests : Accepts(r)
    \/ \E r \in Requests : Answers(r)
    \/ CloseSettles
    \/ Signal \/ BackstopFires \/ StoppedCleanly \/ StopFailed
    \/ Tick

Spec == Init /\ [][Next]_vars

-----------------------------------------------------------------------------
(* Properties.                                                              *)

\* A request that was accepted is dropped only after a second signal, after the
\* whole grace period, or because close() itself failed, and never by a process
\* that leaves with code 0: a submit under way at a rolling deploy is answered.
DroppedOnlyAfterGrace ==
    (\E r \in Requests : request[r] = "dropped") =>
        /\ exit = 1
        /\ \/ signals > 1
           \/ now - first >= Grace
           \/ closing = "rejected"

\* The process never outlives the first signal by more than the grace period,
\* with a request wedged, close() pending or the start still under way.
GoneByDeadline == first # -1 => now - first <= Grace
=============================================================================
