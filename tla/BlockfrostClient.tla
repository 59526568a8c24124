-------------------------- MODULE BlockfrostClient --------------------------
(***************************************************************************)
(* createBlockfrostClient of src/providers/blockfrost/client.ts: calls that*)
(* share one rate limiter (TokenBucket), with two nested retry loops.      *)
(* request() resends a read that got a 429, read() repeats a read after a  *)
(* transient failure, and submit() does neither.                           *)
(*                                                                         *)
(* A response is abstracted to what the loops distinguish.  Time is in the *)
(* milliseconds of TokenBucket.                                            *)
(***************************************************************************)
EXTENDS TokenBucket

CONSTANTS
    ReadAttempts,     \* readAttempts
    RateLimitRetries, \* rateLimitRetries
    BackoffMs,        \* retryBackoffMs
    MaxRetryAfterMs,  \* MAX_RETRY_AFTER_MS
    RetryAfters       \* the waits a 429 may name

ASSUME ClientAssumption ==
    /\ ReadAttempts \in Nat \ {0}
    /\ RateLimitRetries \in Nat
    /\ BackoffMs \in Nat
    /\ MaxRetryAfterMs \in Nat
    /\ RetryAfters \subseteq Nat

VARIABLES
    calls,     \* the state of each call
    allowance  \* ghost: an ideal bucket charged for every request that is sent

clientVars == <<calls, allowance>>

vars == <<bucketVars, clientVars>>

NoHeader == -1

\* attempt: the counter of read(), from 1.  again: the counter of request(),
\* from 0.  left: the running delay().  sends: requests sent (ghost).
\* embargo: what is left of the wait the server named (ghost).
Call == [kind : {"get", "getOrUndefined", "submit"},
         st : {"new", "acquiring", "sent", "cooling", "backing off", "done", "failed"},
         attempt : 1..ReadAttempts, again : 0..RateLimitRetries, left : Nat,
         sends : Nat, embargo : Nat]

NewCall == [kind |-> "get", st |-> "new", attempt |-> 1, again |-> 0,
            left |-> 0, sends |-> 0, embargo |-> 0]

Init ==
    /\ BucketInit
    /\ calls = [c \in Clients |-> NewCall]
    /\ allowance = Full

Down(n) == IF n > 0 THEN n - 1 ELSE 0

\* Time passes between callbacks: a caller whose acquire() resolved goes on in
\* the same turn of the event loop.
Pass ==
    /\ \A c \in Clients : clients[c].st # "granted"
    /\ Tick
    /\ allowance' = Min({allowance + 1, Full})
    /\ calls' = [c \in Clients |->
          [calls[c] EXCEPT !.left = Down(@), !.embargo = Down(@)]]

\* The clock is looked at again in a later turn.
ClockPutForward ==
    /\ \A c \in Clients : clients[c].st # "granted"
    /\ \E ms \in 1..MaxStep :
          PutForward(ms) /\ allowance' = Min({allowance + ms, Full})
    /\ UNCHANGED calls

ClockSetBack == SetBack /\ UNCHANGED clientVars

\* Enter fetchOnce(): it takes a token before every attempt.
Fetch(c, call) ==
    /\ Acquire(c)
    /\ calls' = [calls EXCEPT ![c] = [call EXCEPT !.st = "acquiring"]]
    /\ UNCHANGED allowance

Begin(c, kind) ==
    /\ calls[c].st = "new"
    /\ Fetch(c, [NewCall EXCEPT !.kind = kind])

TimerFires(c) == Wake(c) /\ UNCHANGED clientVars

\* acquire() resolved: doFetch().
Send(c) ==
    /\ Proceed(c)
    /\ calls' = [calls EXCEPT ![c].st = "sent", ![c].sends = @ + 1]
    /\ allowance' = allowance - Interval

Ends(c, st) ==
    /\ calls' = [calls EXCEPT ![c].st = st]
    /\ UNCHANGED <<bucketVars, allowance>>

\* A 2xx with a well-formed body.
Answered(c) == calls[c].st = "sent" /\ Ends(c, "done")

\* A 404: an answer to getOrUndefined(), an error to the others.
NotFound(c) ==
    /\ calls[c].st = "sent"
    /\ Ends(c, IF calls[c].kind = "getOrUndefined" THEN "done" ELSE "failed")

\* Any other 4xx but a 429.
Rejected(c) == calls[c].st = "sent" /\ Ends(c, "failed")

\* Mutant of Resends: the kind of the call is not looked at.
ResendsAny(call, after) ==
    call.again < RateLimitRetries /\ after <= MaxRetryAfterMs

\* request(): whether a 429 is retried, given the wait it names.  A wait over
\* the cap is never shortened: that 429 is surfaced.
Resends(call, after) ==
    /\ call.kind # "submit"
    /\ call.again < RateLimitRetries
    /\ after <= MaxRetryAfterMs

\* Mutant of Cooling: the header is ignored.
CoolingOwn(call, after) == Min({BackoffMs * (call.again + 1), MaxRetryAfterMs})

\* The wait before the retry: the server's, or a capped linear backoff.
Cooling(call, after) ==
    IF after = NoHeader
    THEN Min({BackoffMs * (call.again + 1), MaxRetryAfterMs})
    ELSE after

\* A 429, with or without Retry-After.
TooManyRequests(c, after) ==
    LET call == calls[c] IN
    /\ call.st = "sent"
    /\ \/ /\ Resends(call, after)
          /\ calls' = [calls EXCEPT ![c] =
                [call EXCEPT !.st = "cooling", !.left = Cooling(call, after),
                             !.embargo = IF after = NoHeader THEN 0 ELSE after]]
          /\ UNCHANGED <<bucketVars, allowance>>
       \/ /\ ~Resends(call, after)
          /\ Ends(c, "failed")

\* read(): whether a transient failure is repeated.
Repeats(call) == call.kind # "submit" /\ call.attempt < ReadAttempts

\* A timeout, a transport failure, a 5xx or a malformed body.
Unwell(c) ==
    LET call == calls[c] IN
    /\ call.st = "sent"
    /\ \/ /\ Repeats(call)
          /\ calls' = [calls EXCEPT ![c] =
                [call EXCEPT !.st = "backing off", !.left = BackoffMs * call.attempt]]
          /\ UNCHANGED <<bucketVars, allowance>>
       \/ /\ ~Repeats(call)
          /\ Ends(c, "failed")

\* Mutant of Resent: the request goes out without a token.
ResentUnpaced(c, call) ==
    /\ calls' = [calls EXCEPT ![c] = [call EXCEPT !.st = "sent", !.sends = @ + 1]]
    /\ allowance' = allowance - Interval
    /\ UNCHANGED bucketVars

\* The next turn of a retry loop goes through fetchOnce() again.
Resent(c, call) == Fetch(c, call)

\* The delay after a 429 is over.
Cooled(c) ==
    /\ calls[c].st = "cooling" /\ calls[c].left = 0
    /\ Resent(c, [calls[c] EXCEPT !.again = @ + 1])

\* Mutant of Repeated: the counter of read() stands still.
RepeatedSame(call) == [call EXCEPT !.again = 0]

\* The next turn of read() calls request() afresh.
Repeated(call) == [call EXCEPT !.attempt = @ + 1, !.again = 0]

\* The delay of read() is over.
BackedOff(c) ==
    /\ calls[c].st = "backing off" /\ calls[c].left = 0
    /\ Resent(c, Repeated(calls[c]))

Next ==
    \/ Pass
    \/ ClockPutForward
    \/ ClockSetBack
    \/ \E c \in Clients, kind \in {"get", "getOrUndefined", "submit"} : Begin(c, kind)
    \/ \E c \in Clients : TimerFires(c)
    \/ \E c \in Clients : Send(c)
    \/ \E c \in Clients : Answered(c)
    \/ \E c \in Clients : NotFound(c)
    \/ \E c \in Clients : Rejected(c)
    \/ \E c \in Clients, after \in RetryAfters \cup {NoHeader} : TooManyRequests(c, after)
    \/ \E c \in Clients : Unwell(c)
    \/ \E c \in Clients : Cooled(c)
    \/ \E c \in Clients : BackedOff(c)

Spec == Init /\ [][Next]_vars

-----------------------------------------------------------------------------
(* Properties.                                                              *)

\* The counters of both loops stay within the configured numbers.
TypeOK ==
    /\ BucketTypeOK
    /\ calls \in [Clients -> Call]
    /\ allowance \in Int

\* A transaction is put on the wire at most once, whatever comes back: a 429
\* with or without Retry-After, a timeout, a 5xx or a garbled body.  A read is
\* sent at most readAttempts times (rateLimitRetries + 1) times by the two
\* loops together: the inner counter starts over only when the outer one moves.
SendBudget ==
    \A c \in Clients :
        calls[c].sends <= IF calls[c].kind = "submit" THEN 1
                          ELSE ReadAttempts * (RateLimitRetries + 1)

\* Nothing is resent before the moment the server named in Retry-After.
HonorsRetryAfter ==
    [][\A c \in Clients : calls'[c].sends > calls[c].sends => calls[c].embargo = 0]_vars

\* Retries count against the rate like first attempts: in every window of time
\* no more requests are sent, by all calls together, than one burst plus one
\* per Interval, where a clock that is put forward counts as time.
SendsWithinRate == allowance >= 0

\* Retries are counted: neither one call nor all of them together send more
\* than they may.
SendsWithinBudget == SendBudget /\ SendsWithinRate
=============================================================================
