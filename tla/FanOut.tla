------------------------------- MODULE FanOut -------------------------------
(***************************************************************************)
(* A read that fans out: filterUsedAddresses of                            *)
(* src/providers/blockfrost/addresses.ts asks about every address through  *)
(* mapWithConcurrency (WorkerPool), and each of its calls goes through the *)
(* Blockfrost client (BlockfrostClient) and its rate limiter (TokenBucket),*)
(* which other requests of the process use at the same time.               *)
(*                                                                         *)
(* A worker of the pool is a client: calls[w] is the call for the address  *)
(* that worker awaits.  The other clients make one call of any kind each.  *)
(***************************************************************************)
EXTENDS WorkerPool, BlockfrostClient

CONSTANT OtherKinds  \* the kinds of request the other clients may make

ASSUME FanAssumption ==
    /\ Workers \subseteq Clients
    /\ OtherKinds \subseteq {"get", "getOrUndefined", "submit"}

Others == Clients \ Workers

fanVars == <<poolVars, vars>>

FanInit == PoolInit /\ Init

\* The worker function: client.getOrUndefined(), up to its first await.
AsksUpstream(w) ==
    \/ TakesItem /\ Fetch(w, [NewCall EXCEPT !.kind = "getOrUndefined"])
    \/ ~TakesItem /\ UNCHANGED vars

\* mapWithConcurrency starts its workers in one piece.
FanStart(w) == Start(w) /\ AsksUpstream(w)

BetweenTurns == AllStarted \/ \A w \in Workers : ~Started(w)

\* The worker's await returns, and the loop pulls the next address.
FanResolves(w) ==
    /\ calls[w].st = "done"
    /\ CallResolves(w)
    /\ AsksUpstream(w)

\* The worker's await throws.
FanRejects(w) ==
    /\ calls[w].st = "failed"
    /\ CallRejects(w)
    /\ UNCHANGED vars

FanEnds == Resolve /\ UNCHANGED vars

\* What runs in the turn of the event loop that ended a call.
Continues == FanEnds \/ \E w \in Workers : FanResolves(w) \/ FanRejects(w)

Awaited(w) == running[w] # 0 /\ calls[w].st \in {"done", "failed"}

\* Time passes, the clock is set and another request comes in when no
\* promise job is left to run.
FanPass ==
    /\ BetweenTurns /\ (\A w \in Workers : ~Awaited(w))
    /\ Pass /\ UNCHANGED poolVars

FanPutForward == BetweenTurns /\ ClockPutForward /\ UNCHANGED poolVars

FanSetBack == BetweenTurns /\ ClockSetBack /\ UNCHANGED poolVars

OtherBegins(c) ==
    /\ BetweenTurns
    /\ \E kind \in OtherKinds : Begin(c, kind)
    /\ UNCHANGED poolVars

\* One action per step of BlockfrostClient.
FanWakes(c) == BetweenTurns /\ TimerFires(c) /\ UNCHANGED poolVars
FanSends(c) == BetweenTurns /\ Send(c) /\ UNCHANGED poolVars
FanAnswered(c) == BetweenTurns /\ Answered(c) /\ UNCHANGED poolVars
FanNotFound(c) == BetweenTurns /\ NotFound(c) /\ UNCHANGED poolVars
FanRefused(c) == BetweenTurns /\ Rejected(c) /\ UNCHANGED poolVars
FanThrottled(c) ==
    /\ BetweenTurns
    /\ \E after \in RetryAfters \cup {NoHeader} : TooManyRequests(c, after)
    /\ UNCHANGED poolVars
FanUnwell(c) == BetweenTurns /\ Unwell(c) /\ UNCHANGED poolVars
FanCooled(c) == BetweenTurns /\ Cooled(c) /\ UNCHANGED poolVars
FanBackedOff(c) == BetweenTurns /\ BackedOff(c) /\ UNCHANGED poolVars

FanSteps(c) ==
    \/ FanWakes(c) \/ FanSends(c) \/ FanCooled(c) \/ FanBackedOff(c)
    \/ FanAnswered(c) \/ FanNotFound(c) \/ FanRefused(c)
    \/ FanThrottled(c) \/ FanUnwell(c)

FanNext ==
    \/ \E w \in Workers : FanStart(w)
    \/ \E w \in Workers : FanResolves(w)
    \/ \E w \in Workers : FanRejects(w)
    \/ FanEnds
    \/ FanPass
    \/ FanPutForward
    \/ FanSetBack
    \/ \E c \in Others : OtherBegins(c)
    \/ \E c \in Clients : FanWakes(c)
    \/ \E c \in Clients : FanSends(c)
    \/ \E c \in Clients : FanAnswered(c)
    \/ \E c \in Clients : FanNotFound(c)
    \/ \E c \in Clients : FanRefused(c)
    \/ \E c \in Clients : FanThrottled(c)
    \/ \E c \in Clients : FanUnwell(c)
    \/ \E c \in Clients : FanCooled(c)
    \/ \E c \in Clients : FanBackedOff(c)

FanSpec == FanInit /\ [][FanNext]_fanVars

\* The batch is called, promise jobs run, time passes, a due timer fires, and
\* a request settles: it carries AbortSignal.timeout.
FanFairness ==
    /\ WF_fanVars(\E w \in Workers : FanStart(w))
    /\ WF_fanVars(Continues)
    /\ WF_fanVars(FanPass)
    /\ \A c \in Clients : WF_fanVars(FanSteps(c))

FairFanSpec == FanSpec /\ FanFairness
=============================================================================
