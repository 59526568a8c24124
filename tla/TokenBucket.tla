----------------------------- MODULE TokenBucket -----------------------------
(***************************************************************************)
(* The token bucket that paces calls to an upstream: createRateLimiter in  *)
(* src/providers/blockfrost/rate-limiter.ts and createTokenBucket in       *)
(* src/prices/rate-limit.ts, which are the same algorithm.                 *)
(*                                                                         *)
(* The level is kept in units of one millisecond of refill, so a token is  *)
(* Interval units and the fractional tokens of the code are exact.  Time   *)
(* is relative: ahead is what the next refill() will see as elapsed.       *)
(*                                                                         *)
(* ideal is a ghost: an ideal bucket that runs on real time, is refilled   *)
(* at every millisecond and is charged for every grant.  Its level is the  *)
(* least, over all windows that end now, of a full burst plus the length   *)
(* of the window minus what was granted in it.  refill() reads Date.now(), *)
(* so a clock that is put forward refills the bucket at once; the ideal    *)
(* one is credited with as much.                                           *)
(***************************************************************************)
EXTENDS Integers, FiniteSetsExt

CONSTANTS
    Clients,      \* callers of acquire()
    Capacity,     \* burst size in tokens
    Interval,     \* milliseconds per token
    MaxStep,      \* how far the wall clock may be set at a time
    MaxClockSteps \* bound: how often it is

ASSUME BucketAssumption ==
    /\ Capacity \in Nat \ {0}
    /\ Interval \in Nat \ {0}
    /\ MaxStep \in Nat
    /\ MaxClockSteps \in Nat

VARIABLES
    tokens,     \* the code's tokens, times Interval
    ahead,      \* now() - last: negative after the clock was set back
    clients,    \* what each caller of acquire() does, and its timer
    clockSteps, \* how often the clock was set
    ideal       \* ghost: the ideal bucket

bucketVars == <<tokens, ahead, clients, clockSteps, ideal>>

Full == Capacity * Interval

\* More than this ahead makes no difference to the code, wherever the clock is
\* set later.
Far == Full + MaxStep * MaxClockSteps

\* left: milliseconds until the timer of clock.delay() may fire.
Client == [st : {"idle", "asleep", "granted"}, left : Nat]

Idle == [st |-> "idle", left |-> 0]

BucketInit ==
    /\ tokens = Full
    /\ ahead = 0
    /\ clients = [c \in Clients |-> Idle]
    /\ clockSteps = 0
    /\ ideal = Full

\* One millisecond.  Timers never fire early; a stalled event loop may let any
\* number of milliseconds pass after they are due.
Tick ==
    /\ ahead' = Min({ahead + 1, Far})
    /\ ideal' = Min({ideal + 1, Full})
    /\ clients' = [c \in Clients |->
          [clients[c] EXCEPT !.left = IF @ > 0 THEN @ - 1 ELSE 0]]
    /\ UNCHANGED <<tokens, clockSteps>>

\* The wall clock that now() reads is put forward; timers are not affected.
PutForward(ms) ==
    /\ clockSteps < MaxClockSteps
    /\ clockSteps' = clockSteps + 1
    /\ ahead' = Min({ahead + ms, Far})
    /\ ideal' = Min({ideal + ms, Full})
    /\ UNCHANGED <<tokens, clients>>

\* It is set back.
SetBack ==
    /\ clockSteps < MaxClockSteps
    /\ clockSteps' = clockSteps + 1
    /\ \E ms \in 1..MaxStep :
          /\ ahead - ms >= -MaxStep
          /\ ahead' = ahead - ms
    /\ UNCHANGED <<tokens, clients, ideal>>

\* Mutant of Refilled: a set-back clock is read as elapsed time.
RefilledBackwards == Min({Full, tokens + (IF ahead < 0 THEN -ahead ELSE ahead)})

\* refill(): what the bucket holds afterwards.  Time that ran backwards is
\* ignored and last is then kept.
Refilled == IF ahead <= 0 THEN tokens ELSE Min({Full, tokens + ahead})

\* Math.max(1, Math.ceil((1 - tokens) / refillPerMs))
WaitMs(level) == Max({1, Interval - level})

\* One turn of the loop of acquire(): refill, then spend a token or sleep.
\* Nothing is awaited in between.
Turn(c) ==
    /\ ahead' = IF ahead <= 0 THEN ahead ELSE 0
    /\ \/ /\ Refilled >= Interval
          /\ tokens' = Refilled - Interval
          /\ ideal' = ideal - Interval
          /\ clients' = [clients EXCEPT ![c] = [st |-> "granted", left |-> 0]]
       \/ /\ Refilled < Interval
          /\ tokens' = Refilled
          /\ clients' = [clients EXCEPT ![c] =
                            [st |-> "asleep", left |-> WaitMs(Refilled)]]
          /\ UNCHANGED ideal
    /\ UNCHANGED clockSteps

\* acquire() is called.
Acquire(c) == clients[c].st = "idle" /\ Turn(c)

\* The timer fires and the loop looks at the live bucket again.
Wake(c) == clients[c].st = "asleep" /\ clients[c].left = 0 /\ Turn(c)

\* The caller makes its upstream call.
Proceed(c) ==
    /\ clients[c].st = "granted"
    /\ clients' = [clients EXCEPT ![c] = Idle]
    /\ UNCHANGED <<tokens, ahead, clockSteps, ideal>>

BucketNext ==
    \/ Tick
    \/ \E ms \in 1..MaxStep : PutForward(ms)
    \/ SetBack
    \/ \E c \in Clients : Acquire(c)
    \/ \E c \in Clients : Wake(c)
    \/ \E c \in Clients : Proceed(c)

BucketSpec == BucketInit /\ [][BucketNext]_bucketVars

-----------------------------------------------------------------------------
(* Properties.                                                              *)

\* The bucket holds between nothing and one burst.
BucketTypeOK ==
    /\ tokens \in 0..Full
    /\ ahead \in -MaxStep..Far
    /\ clients \in [Clients -> Client]
    /\ clockSteps \in 0..MaxClockSteps
    /\ ideal \in Int

\* In every window of real time, however timers bunched up and however the
\* wall clock was set back in it, no more calls are granted than one burst
\* plus one per Interval of the window and of what the clock was put forward
\* in it: a step forward costs the upstream its own length, and never more
\* than one burst.
WithinBudget == ideal >= 0
=============================================================================
