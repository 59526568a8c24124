----------------------------- MODULE PriceFetch -----------------------------
(***************************************************************************)
(* The calls of the GeckoTerminal client: fetchJsonOrNotFound of           *)
(* src/prices/http.ts over the fetchImpl of src/prices/geckoterminal.ts,   *)
(* which waits for the shared bucket (TokenBucket) and then fetches with   *)
(* the signal it was given.  That signal's timeout was started before the  *)
(* wait, and acquire() does not listen to it.                              *)
(***************************************************************************)
EXTENDS TokenBucket

CONSTANT TimeoutMs   \* DEFAULT_TIMEOUT_MS of geckoterminal.ts

\* The state of each call.  st: "new", "acquiring", "sent", "done", "failed" or
\* "aborted unsent".  left: the milliseconds until its signal aborts.
VARIABLE calls

vars == <<bucketVars, calls>>

Init ==
    /\ BucketInit
    /\ calls = [c \in Clients |-> [st |-> "new", left |-> 0]]

\* Time passes.  Timers are on time here (the event loop does not stall and the
\* clock is not set), so what a call waits for is only its turn.
Pass ==
    /\ \A c \in Clients :
          /\ clients[c].st # "granted"
          /\ clients[c].st = "asleep" => clients[c].left > 0
          /\ calls[c].st = "sent" => calls[c].left > 0
    /\ Tick
    /\ calls' = [c \in Clients |->
          [calls[c] EXCEPT !.left = IF @ > 0 THEN @ - 1 ELSE 0]]

\* AbortSignal.timeout(opts.timeoutMs)
Deadline == TimeoutMs

\* fetchJsonOrNotFound(): start the timeout, then call fetchImpl(), which
\* awaits the bucket.
Begin(c) ==
    /\ calls[c].st = "new"
    /\ Acquire(c)
    /\ calls' = [calls EXCEPT ![c] = [st |-> "acquiring", left |-> Deadline]]

TimerFires(c) == Wake(c) /\ UNCHANGED calls

\* acquire() resolved: fetch() with an aborted signal rejects at once and asks
\* upstream nothing; otherwise the request goes out.
Fetch(c) ==
    /\ Proceed(c)
    /\ calls' = [calls EXCEPT ![c].st = IF calls[c].left = 0 THEN "aborted unsent" ELSE "sent"]

\* A response that can be used, and a 404, which is one as well.
Answered(c) ==
    /\ calls[c].st = "sent"
    /\ calls' = [calls EXCEPT ![c].st = "done"]
    /\ UNCHANGED bucketVars

\* The signal aborts the request or its body, or it fails otherwise; there is
\* no retry.
Fails(c) ==
    /\ calls[c].st = "sent"
    /\ calls' = [calls EXCEPT ![c].st = "failed"]
    /\ UNCHANGED bucketVars

Next ==
    \/ Pass
    \/ \E c \in Clients : Begin(c)
    \/ \E c \in Clients : TimerFires(c)
    \/ \E c \in Clients : Fetch(c)
    \/ \E c \in Clients : Answered(c)
    \/ \E c \in Clients : Fails(c)

Spec == Init /\ [][Next]_vars

-----------------------------------------------------------------------------
(* Properties.                                                              *)

\* geckoterminal.ts on its bucket: "It lets a small burst through and then
\* paces the rest at a sustained rate".  A call that is paced does go out: its
\* time is not used up by the wait for its turn.
PacedCallGoesOut == \A c \in Clients : calls[c].st # "aborted unsent"
=============================================================================
