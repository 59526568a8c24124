---------------------------- MODULE FanOutProofs ----------------------------
(***************************************************************************)
(* The Blockfrost client, its rate limiter and the batches of reads that   *)
(* go through it, for every capacity, pace, number of retries and of       *)
(* addresses, every limit, set of clients and amount the wall clock is set *)
(* back or put forward.                                                    *)
(*                                                                         *)
(* The bucket.  WithinBudget alone is not inductive: nothing in it relates *)
(* the ideal bucket to the code's.  Conforms does: what the code's bucket  *)
(* would hold after a refill now never exceeds the ideal one.  Time that   *)
(* ran backwards only lowers the left-hand side, time that passed or that  *)
(* the clock was put forward is credited to both sides, and the spending   *)
(* step follows its own refill without an await, so both sides drop by one *)
(* token.                                                                  *)
(*                                                                         *)
(* The client.  SendsWithinBudget has an ideal bucket of its own, charged  *)
(* when a request is sent: Paced relates the two through the callers that  *)
(* hold a token.                                                           *)
(*                                                                         *)
(* The pool.  Its invariant accounts for every entry the iterator has      *)
(* handed out: as long as nothing was rejected it is in the results or in  *)
(* some worker's hands, and entries not handed out were never asked for.   *)
(*                                                                         *)
(* The composition adds no step to its parts: FanSpec implements the pool  *)
(* (PoolSpec) and the rate limiter (BucketSpec), so what is proved of them *)
(* holds of the batch.                                                     *)
(***************************************************************************)
EXTENDS FanOut, FiniteSetTheorems, TLAPS

-----------------------------------------------------------------------------
(* The rate limiter.                                                        *)

\* What the code's bucket would hold after a refill is covered by the ideal
\* bucket: the strengthening that makes WithinBudget inductive.
Conforms == Refilled <= ideal

BucketInv == BucketTypeOK /\ Conforms /\ ideal <= Full

\* Min of two integers, which the CHOOSE of FiniteSetsExt hides from the provers.
LEMMA MinOfTwo ==
    ASSUME NEW a \in Int, NEW b \in Int
    PROVE  Min({a, b}) = IF a <= b THEN a ELSE b
<1>1. CASE a <= b
  <2>1. \E x \in {a, b} : \A y \in {a, b} : x =< y
    BY <1>1
  <2>2. \A x \in {a, b} : (\A y \in {a, b} : x =< y) => x = a
    BY <1>1
  <2> QED BY <1>1, <2>1, <2>2 DEF Min
<1>2. CASE ~(a <= b)
  <2>1. \E x \in {a, b} : \A y \in {a, b} : x =< y
    BY <1>2
  <2>2. \A x \in {a, b} : (\A y \in {a, b} : x =< y) => x = b
    BY <1>2
  <2> QED BY <1>2, <2>1, <2>2 DEF Min
<1> QED BY <1>1, <1>2

\* Max of two integers.
LEMMA MaxOfTwo ==
    ASSUME NEW a \in Int, NEW b \in Int
    PROVE  Max({a, b}) = IF a >= b THEN a ELSE b
<1>1. CASE a >= b
  <2>1. \E x \in {a, b} : \A y \in {a, b} : x >= y
    BY <1>1
  <2>2. \A x \in {a, b} : (\A y \in {a, b} : x >= y) => x = a
    BY <1>1
  <2> QED BY <1>1, <2>1, <2>2 DEF Max
<1>2. CASE ~(a >= b)
  <2>1. \E x \in {a, b} : \A y \in {a, b} : x >= y
    BY <1>2
  <2>2. \A x \in {a, b} : (\A y \in {a, b} : x >= y) => x = b
    BY <1>2
  <2> QED BY <1>2, <2>1, <2>2 DEF Max
<1> QED BY <1>1, <1>2

\* A capped refill grows with the time it covers.
LEMMA CappedMonotone ==
    ASSUME NEW t \in Int, NEW x \in Int, NEW y \in Int, NEW f \in Int, x <= y
    PROVE  /\ (IF f <= t + x THEN f ELSE t + x) \in Int
           /\ (IF f <= t + x THEN f ELSE t + x) <= (IF f <= t + y THEN f ELSE t + y)
OBVIOUS

\* A full bucket is a natural number of refill units.
LEMMA FullNat == Full \in Nat /\ Full >= 1 /\ Interval \in Nat \ {0}
BY BucketAssumption DEF Full

\* What is left of a clock ahead of the bucket is counted up to a natural number.
LEMMA FarNat == Far \in Nat /\ Full <= Far
<1>1. \A a, b \in Nat : a * b \in Nat
  OBVIOUS
<1>2. MaxStep * MaxClockSteps \in Nat
  BY <1>1, BucketAssumption
<1> QED BY <1>2, FullNat DEF Far

\* refill() keeps the level within the burst and never lowers it.
LEMMA RefilledRange ==
    ASSUME BucketTypeOK
    PROVE  /\ Refilled \in 0..Full
           /\ Refilled >= tokens
           /\ Refilled = IF ahead <= 0 THEN tokens
                         ELSE IF Full <= tokens + ahead THEN Full ELSE tokens + ahead
<1>1. tokens \in 0..Full /\ ahead \in Int /\ Full \in Nat
  BY FullNat, BucketAssumption DEF BucketTypeOK
<1>2. Min({Full, tokens + ahead})
        = IF Full <= tokens + ahead THEN Full ELSE tokens + ahead
  BY <1>1, MinOfTwo
<1> QED BY <1>1, <1>2 DEF Refilled

\* One turn of acquire()'s loop keeps the invariant: it spends only what its
\* own refill put on record.
LEMMA TurnPreserves ==
    ASSUME BucketInv, NEW c \in Clients, Turn(c)
    PROVE  BucketInv'
<1> USE FullNat, FarNat, BucketAssumption
<1>1. tokens \in 0..Full /\ ahead \in -MaxStep..Far /\ ideal \in Int
      /\ Refilled \in 0..Full /\ Refilled <= ideal /\ ideal <= Full
  BY RefilledRange DEF BucketInv, BucketTypeOK, Conforms
<1>2. ahead' \in -MaxStep..Far /\ ahead' <= 0
  BY <1>1 DEF Turn
<1>3. clockSteps' \in 0..MaxClockSteps
  BY DEF Turn, BucketInv, BucketTypeOK
<1>4. Refilled' = tokens'
  BY <1>2 DEF Refilled
<1>5. tokens' \in 0..Full /\ ideal' \in Int /\ tokens' <= ideal' /\ ideal' <= Full
  BY <1>1 DEF Turn
<1>6. clients' \in [Clients -> Client]
  <2>1. WaitMs(Refilled) \in Nat
    BY <1>1, MaxOfTwo, Interval - Refilled \in Int DEF WaitMs
  <2>2. clients \in [Clients -> Client]
    BY DEF BucketInv, BucketTypeOK
  <2>3. \A r \in Client : [clients EXCEPT ![c] = r] \in [Clients -> Client]
    BY <2>2
  <2>4. [st |-> "granted", left |-> 0] \in Client
        /\ [st |-> "asleep", left |-> WaitMs(Refilled)] \in Client
    BY <2>1 DEF Client
  <2> QED BY <2>3, <2>4 DEF Turn
<1> QED BY <1>2, <1>3, <1>4, <1>5, <1>6 DEF BucketInv, BucketTypeOK, Conforms

\* Time that passes, or a clock that is put forward by as much, is credited to
\* the ideal bucket too.
LEMMA TimePasses ==
    ASSUME BucketInv, NEW ms \in Nat, tokens' = tokens,
           ahead' = Min({ahead + ms, Far}), ideal' = Min({ideal + ms, Full})
    PROVE  /\ ahead' \in -MaxStep..Far /\ ideal' \in Int
           /\ Conforms' /\ ideal' <= Full
<1>1. /\ tokens \in 0..Full /\ ahead \in -MaxStep..Far /\ ideal \in Int
      /\ Refilled \in 0..Full /\ Refilled >= tokens
      /\ Refilled <= ideal /\ ideal <= Full
      /\ Full \in Nat /\ Far \in Nat /\ MaxStep \in Nat
  BY RefilledRange, FullNat, FarNat, BucketAssumption
     DEF BucketInv, BucketTypeOK, Conforms
<1>2. ahead' = IF ahead + ms <= Far THEN ahead + ms ELSE Far
  BY <1>1, MinOfTwo, ahead + ms \in Int
<1>3. ideal' = IF ideal + ms <= Full THEN ideal + ms ELSE Full
  BY <1>1, MinOfTwo, ideal + ms \in Int
<1>4. ahead' \in -MaxStep..Far /\ ahead' <= ahead + ms /\ ideal' \in Int
  BY <1>1, <1>2, <1>3
<1>5. Refilled' = IF ahead' <= 0 THEN tokens
                  ELSE IF Full <= tokens + ahead' THEN Full ELSE tokens + ahead'
  <2>1. Min({Full, tokens' + ahead'})
          = IF Full <= tokens' + ahead' THEN Full ELSE tokens' + ahead'
    BY <1>1, <1>4, MinOfTwo, tokens' + ahead' \in Int
  <2> QED BY <2>1 DEF Refilled
<1>6. Refilled = IF ahead <= 0 THEN tokens
                 ELSE IF Full <= tokens + ahead THEN Full ELSE tokens + ahead
  BY RefilledRange DEF BucketInv
<1>7. Refilled' <= ideal' /\ ideal' <= Full
  <2>1. CASE ahead' <= 0
    BY <1>1, <1>3, <1>5, <2>1
  <2>2. CASE ~(ahead' <= 0) /\ ahead <= 0
    BY <1>1, <1>3, <1>4, <1>5, <2>2
  <2>3. CASE ~(ahead' <= 0) /\ ~(ahead <= 0)
    BY <1>1, <1>3, <1>4, <1>5, <1>6, <2>3
  <2> QED BY <2>1, <2>2, <2>3
<1> QED BY <1>4, <1>7 DEF Conforms

\* Every step of the bucket keeps the invariant.
LEMMA BucketStep == BucketInv /\ [BucketNext]_bucketVars => BucketInv'
<1> SUFFICES ASSUME BucketInv, [BucketNext]_bucketVars PROVE BucketInv'
  OBVIOUS
<1>0. /\ tokens \in 0..Full /\ ahead \in -MaxStep..Far /\ ideal \in Int
      /\ Refilled \in 0..Full /\ Refilled >= tokens
      /\ Refilled <= ideal /\ ideal <= Full
      /\ clients \in [Clients -> Client] /\ clockSteps \in 0..MaxClockSteps
      /\ Full \in Nat /\ Far \in Nat /\ MaxStep \in Nat /\ MaxClockSteps \in Nat
  BY RefilledRange, FullNat, FarNat, BucketAssumption
     DEF BucketInv, BucketTypeOK, Conforms
<1>1. CASE Tick
  <2>1. /\ ahead' \in -MaxStep..Far /\ ideal' \in Int
        /\ Conforms' /\ ideal' <= Full
    BY <1>1, TimePasses, 1 \in Nat DEF Tick
  <2>2. tokens' = tokens /\ clockSteps' = clockSteps
    BY <1>1 DEF Tick
  <2>3. clients' \in [Clients -> Client]
    BY <1>0, <1>1 DEF Tick, Client
  <2> QED BY <1>0, <2>1, <2>2, <2>3 DEF BucketInv, BucketTypeOK
<1>6. ASSUME NEW ms \in 1..MaxStep, PutForward(ms) PROVE BucketInv'
  <2>1. ms \in Nat
    BY <1>0
  <2>2. /\ ahead' \in -MaxStep..Far /\ ideal' \in Int
        /\ Conforms' /\ ideal' <= Full
    BY <1>6, <2>1, TimePasses DEF PutForward
  <2>3. tokens' = tokens /\ clients' = clients /\ clockSteps' \in 0..MaxClockSteps
    BY <1>0, <1>6 DEF PutForward
  <2> QED BY <1>0, <2>2, <2>3 DEF BucketInv, BucketTypeOK
<1>2. CASE SetBack
  <2>1. tokens' = tokens /\ ideal' = ideal /\ clients' = clients
    BY <1>2 DEF SetBack
  <2>2. ahead' \in -MaxStep..Far /\ ahead' <= ahead
    BY <1>0, <1>2 DEF SetBack
  <2>3. clockSteps' \in 0..MaxClockSteps
    BY <1>0, <1>2 DEF SetBack
  <2>4. BucketTypeOK'
    BY <1>0, <2>1, <2>2, <2>3 DEF BucketTypeOK
  <2>5. Min({Full, tokens' + ahead'})
          = IF Full <= tokens' + ahead' THEN Full ELSE tokens' + ahead'
    <3>1. tokens' \in Int /\ ahead' \in Int /\ Full \in Int
      BY <1>0, <2>1, <2>2
    <3>2. tokens' + ahead' \in Int
      BY <3>1
    <3> QED BY <3>1, <3>2, MinOfTwo
  <2>6. Refilled = IF ahead <= 0 THEN tokens
                   ELSE IF Full <= tokens + ahead THEN Full ELSE tokens + ahead
    BY RefilledRange DEF BucketInv
  <2>7. Refilled' <= ideal'
    <3>1. Refilled' = IF ahead' <= 0 THEN tokens'
                      ELSE IF Full <= tokens' + ahead' THEN Full ELSE tokens' + ahead'
      BY <2>5 DEF Refilled
    <3>2. /\ ahead' \in Int /\ ahead \in Int /\ ahead' <= ahead
          /\ tokens \in Int /\ Full \in Int /\ Refilled \in Int /\ ideal \in Int
          /\ tokens <= Refilled /\ Refilled <= ideal
      BY <1>0, <2>2
    <3>3. CASE ahead' <= 0
      BY <2>1, <3>1, <3>2, <3>3
    <3>4. CASE ~(ahead' <= 0)
      <4>1. ~(ahead <= 0)
        BY <3>2, <3>4
      <4>2. Refilled = IF Full <= tokens + ahead THEN Full ELSE tokens + ahead
        BY <2>6, <4>1
      <4>3. Refilled' = IF Full <= tokens + ahead' THEN Full ELSE tokens + ahead'
        BY <2>1, <3>1, <3>4
      <4>4. Refilled' <= Refilled /\ Refilled' \in Int
        BY <3>2, <4>2, <4>3, CappedMonotone
      <4> QED BY <2>1, <3>2, <4>4
    <3> QED BY <3>2, <3>3, <3>4
  <2> QED BY <1>0, <2>1, <2>4, <2>7 DEF BucketInv, Conforms
<1>3. ASSUME NEW c \in Clients, Acquire(c) \/ Wake(c) PROVE BucketInv'
  BY <1>3, TurnPreserves DEF Acquire, Wake
<1>4. ASSUME NEW c \in Clients, Proceed(c) PROVE BucketInv'
  <2>1. clients' \in [Clients -> Client]
    BY <1>0, <1>4 DEF Proceed, Idle, Client
  <2>2. UNCHANGED <<tokens, ahead, clockSteps, ideal>>
    BY <1>4 DEF Proceed
  <2> QED BY <1>0, <2>1, <2>2 DEF BucketInv, BucketTypeOK, Conforms, Refilled
<1>5. CASE UNCHANGED bucketVars
  BY <1>5 DEF bucketVars, BucketInv, BucketTypeOK, Conforms, Refilled
<1> QED BY <1>1, <1>2, <1>3, <1>4, <1>5, <1>6 DEF BucketNext

\* Both rate limiters, for every burst, pace and set of callers: the bucket
\* stays between empty and one burst, and in no window of real time are more
\* calls granted than one burst plus one per interval of the window and of
\* what the wall clock was put forward in it, however late the timers fire and
\* however the clock is set back.
THEOREM BucketBudget == BucketSpec => [](BucketTypeOK /\ WithinBudget)
<1>1. BucketInit => BucketInv
  <2> SUFFICES ASSUME BucketInit PROVE BucketInv
    OBVIOUS
  <2>1. clients \in [Clients -> Client]
    BY DEF BucketInit, Idle, Client
  <2>2. Refilled = Full
    BY FullNat DEF BucketInit, Refilled
  <2> QED BY <2>1, <2>2, FullNat, FarNat, BucketAssumption
          DEF BucketInit, BucketInv, BucketTypeOK, Conforms
<1>2. BucketInv /\ [BucketNext]_bucketVars => BucketInv'
  BY BucketStep
<1>3. BucketInv => BucketTypeOK /\ WithinBudget
  <2> SUFFICES ASSUME BucketInv PROVE BucketTypeOK /\ WithinBudget
    OBVIOUS
  <2>1. Refilled \in 0..Full /\ Refilled <= ideal /\ ideal \in Int
    BY RefilledRange DEF BucketInv, Conforms, BucketTypeOK
  <2> QED BY <2>1, FullNat DEF BucketInv, WithinBudget
<1> QED BY <1>1, <1>2, <1>3, PTL DEF BucketSpec

-----------------------------------------------------------------------------
(* The retry loops of one call.                                             *)

\* What the attempts of read() before attempt number n may have sent.
SentBefore(n) == (n - 1) * (RateLimitRetries + 1)

\* Every request is counted by one of the two loops, a submission by none; only
\* a call that waits out the header is under an embargo, and no longer than it
\* waits; a call waits for a token exactly when it is at the rate limiter.
CallFits(call, client) ==
    /\ call.st = "acquiring" <=> client.st # "idle"
    /\ call.sends <= SentBefore(call.attempt) + call.again
                       + (IF call.st \in {"new", "acquiring"} THEN 0 ELSE 1)
    /\ call.st = "cooling" => call.again < RateLimitRetries
    /\ call.st = "backing off" => call.attempt < ReadAttempts
    /\ call.kind = "submit" =>
          call.attempt = 1 /\ call.again = 0 /\ call.st \notin {"cooling", "backing off"}
    /\ IF call.st = "cooling" THEN call.embargo <= call.left ELSE call.embargo = 0

CallsFit == \A c \in Clients : CallFits(calls[c], clients[c])

\* Clients that were given a token and have not sent yet.
Granted == {c \in Clients : clients[c].st = "granted"}

\* A token is charged when it is given, a request when it is sent.
Paced ==
    /\ IsFiniteSet(Granted)
    /\ allowance >= ideal + Interval * Cardinality(Granted)

ClientInv == BucketInv /\ TypeOK /\ CallsFit /\ Paced

\* Products of the two counters.
LEMMA SentBeforeGrows ==
    ASSUME NEW n \in 1..ReadAttempts
    PROVE  /\ SentBefore(n) \in Nat /\ SentBefore(1) = 0
           /\ SentBefore(n + 1) = SentBefore(n) + RateLimitRetries + 1
           /\ SentBefore(n) + RateLimitRetries + 1 <= ReadAttempts * (RateLimitRetries + 1)
<1> USE ClientAssumption
<1> DEFINE K == RateLimitRetries + 1
<1>1. K \in Nat /\ n - 1 \in Nat /\ ReadAttempts - n \in Nat
  OBVIOUS
<1>2. \A a, b \in Nat : a * b \in Nat
  OBVIOUS
<1>3. (n - 1) * K \in Nat /\ (ReadAttempts - n) * K \in Nat
  BY <1>1, <1>2
<1>4. \A k \in Int : /\ (n + 1 - 1) * k = (n - 1) * k + k
                     /\ ReadAttempts * k = (n - 1) * k + k + (ReadAttempts - n) * k
  OBVIOUS
<1>5. (n + 1 - 1) * K = (n - 1) * K + K /\ ReadAttempts * K = (n - 1) * K + K + (ReadAttempts - n) * K
  BY <1>1, <1>4
<1>6. SentBefore(1) = 0
  BY <1>1 DEF SentBefore
<1> QED BY <1>1, <1>3, <1>5, <1>6 DEF SentBefore

\* The fields of a call.
LEMMA CallFields ==
    ASSUME NEW call \in Call
    PROVE  /\ call.kind \in {"get", "getOrUndefined", "submit"}
           /\ call.st \in {"new", "acquiring", "sent", "cooling", "backing off", "done", "failed"}
           /\ call.attempt \in 1..ReadAttempts /\ call.again \in 0..RateLimitRetries
           /\ call.left \in Nat /\ call.sends \in Nat /\ call.embargo \in Nat
           /\ SentBefore(call.attempt) \in Nat
           /\ call.again \in Int /\ call.sends \in Int /\ SentBefore(call.attempt) \in Int
           /\ SentBefore(call.attempt) + call.again \in Int
<1>1. /\ call.kind \in {"get", "getOrUndefined", "submit"}
      /\ call.st \in {"new", "acquiring", "sent", "cooling", "backing off", "done", "failed"}
      /\ call.attempt \in 1..ReadAttempts /\ call.again \in 0..RateLimitRetries
      /\ call.left \in Nat /\ call.sends \in Nat /\ call.embargo \in Nat
  BY DEF Call
<1>2. SentBefore(call.attempt) \in Nat
  BY <1>1, SentBeforeGrows
<1>3. call.again \in Int
  <2>1. call.again \in 0..RateLimitRetries
    BY <1>1
  <2>2. \A n \in 0..RateLimitRetries : n \in Int
    BY ClientAssumption
  <2> QED BY <2>1, <2>2
<1>4. call.sends \in Int
  <2>1. call.sends \in Nat
    BY <1>1
  <2>2. \A n \in Nat : n \in Int
    OBVIOUS
  <2> QED BY <2>1, <2>2
<1>5. SentBefore(call.attempt) \in Int /\ SentBefore(call.attempt) + call.again \in Int
  BY <1>2, <1>3
<1> QED BY <1>1, <1>2, <1>3, <1>4, <1>5

LEMMA NewCallFits ==
    ASSUME NEW kind \in {"get", "getOrUndefined", "submit"}
    PROVE  /\ NewCall \in Call /\ [NewCall EXCEPT !.kind = kind] \in Call
           /\ [NewCall EXCEPT !.kind = kind] =
                 [kind |-> kind, st |-> "new", attempt |-> 1, again |-> 0,
                  left |-> 0, sends |-> 0, embargo |-> 0]
           /\ CallFits(NewCall, Idle)
<1>0. 1 \in 1..ReadAttempts /\ 0 \in 0..RateLimitRetries /\ 0 \in Nat
  BY ClientAssumption
<1>1. /\ [NewCall EXCEPT !.kind = kind] =
            [kind |-> kind, st |-> "new", attempt |-> 1, again |-> 0,
             left |-> 0, sends |-> 0, embargo |-> 0]
  BY DEF NewCall
<1>4. NewCall \in Call
  BY <1>0 DEF NewCall, Call
<1>5. [NewCall EXCEPT !.kind = kind] \in Call
  BY <1>0, <1>1 DEF Call
<1>2. SentBefore(1) = 0
  BY <1>0, SentBeforeGrows
<1>3. CallFits(NewCall, Idle)
  BY <1>2 DEF NewCall, Idle, CallFits
<1> QED BY <1>1, <1>3, <1>4, <1>5

LEMMA ClientStarts == Init => ClientInv
<1> SUFFICES ASSUME Init PROVE ClientInv
  OBVIOUS
<1>1. clients = [c \in Clients |-> Idle] /\ calls = [c \in Clients |-> NewCall]
      /\ allowance = Full /\ ideal = Full
  BY DEF Init, BucketInit
<1>2. BucketInv
  <2>1. clients \in [Clients -> Client]
    BY <1>1 DEF Idle, Client
  <2>2. Refilled = Full
    BY FullNat DEF Init, BucketInit, Refilled
  <2> QED BY <2>1, <2>2, FullNat, FarNat, BucketAssumption
          DEF Init, BucketInit, BucketInv, BucketTypeOK, Conforms
<1>3. TypeOK /\ CallsFit
  <2>1. NewCall \in Call /\ CallFits(NewCall, Idle)
    BY NewCallFits
  <2> QED BY <1>1, <1>2, <2>1, FullNat DEF TypeOK, BucketInv, CallsFit
<1>4. Paced
  <2>1. Granted = {}
    BY <1>1 DEF Granted, Idle
  <2> QED BY <1>1, <2>1, FS_EmptySet, FullNat DEF Paced
<1> QED BY <1>2, <1>3, <1>4 DEF ClientInv

-----------------------------------------------------------------------------
(* Steps.                                                                   *)

LEMMA Numbers ==
    ASSUME ClientInv
    PROVE  /\ allowance \in Int /\ ideal \in Int /\ Full \in Nat /\ Interval \in Nat
           /\ clients \in [Clients -> Client] /\ calls \in [Clients -> Call]
           /\ Cardinality(Granted) \in Nat /\ Interval * Cardinality(Granted) \in Nat
<1>1. Cardinality(Granted) \in Nat
  BY FS_CardinalityType DEF ClientInv, Paced
<1>2. Interval \in Nat /\ Full \in Nat
  BY FullNat
<1>3. \A a, b \in Nat : a * b \in Nat
  OBVIOUS
<1> QED BY <1>1, <1>2, <1>3 DEF ClientInv, TypeOK, BucketTypeOK

\* A turn of acquire() charges the ideal bucket for the token it gives.
LEMMA TurnPaces ==
    ASSUME ClientInv, NEW c \in Clients, clients[c].st # "granted", Turn(c), UNCHANGED allowance
    PROVE  Paced' /\ \E client \in [st : {"granted", "asleep"}, left : Int] :
                          clients' = [clients EXCEPT ![c] = client]
<1> USE Numbers
<1>1. CASE /\ ideal' = ideal - Interval
           /\ clients' = [clients EXCEPT ![c] = [st |-> "granted", left |-> 0]]
  <2>1. Granted' = Granted \cup {c} /\ c \notin Granted
    BY <1>1 DEF Granted
  <2>2. IsFiniteSet(Granted') /\ Cardinality(Granted') = Cardinality(Granted) + 1
    BY <2>1, FS_AddElement DEF ClientInv, Paced
  <2>3. Interval * Cardinality(Granted') = Interval * Cardinality(Granted) + Interval
    <3>1. \A a, b \in Nat : a * (b + 1) = a * b + a
      OBVIOUS
    <3> QED BY <2>2, <3>1
  <2>4. [st |-> "granted", left |-> 0] \in [st : {"granted", "asleep"}, left : Int]
    OBVIOUS
  <2>5. allowance >= ideal + Interval * Cardinality(Granted)
    BY DEF ClientInv, Paced
  <2>6. allowance' >= ideal' + Interval * Cardinality(Granted')
    BY <1>1, <2>3, <2>5
  <2> QED BY <1>1, <2>2, <2>4, <2>6 DEF Paced
<1>2. CASE /\ ideal' = ideal
           /\ clients' = [clients EXCEPT ![c] = [st |-> "asleep", left |-> WaitMs(Refilled)]]
  <2>1. Granted' = Granted
    BY <1>2 DEF Granted
  <2>2. WaitMs(Refilled) \in Int
    <3>1. Refilled \in 0..Full
      BY RefilledRange DEF ClientInv, BucketInv
    <3>2. Interval - Refilled \in Int
      BY <3>1
    <3> QED BY <3>2, MaxOfTwo DEF WaitMs
  <2>3. [st |-> "asleep", left |-> WaitMs(Refilled)] \in [st : {"granted", "asleep"}, left : Int]
    BY <2>2
  <2> QED BY <1>2, <2>1, <2>3 DEF ClientInv, Paced
<1> QED BY <1>1, <1>2 DEF Turn

\* What is left to show when one call moves.
LEMMA OneCallMoves ==
    ASSUME ClientInv, BucketInv', Paced', allowance' \in Int,
           NEW c \in Clients, calls' \in [Clients -> Call],
           \A d \in Clients : d # c => calls'[d] = calls[d] /\ clients'[d] = clients[d],
           CallFits(calls'[c], clients'[c])
    PROVE  ClientInv'
<1>1. \A d \in Clients : CallFits(calls'[d], clients'[d])
  BY DEF ClientInv, CallsFit
<1> QED BY <1>1 DEF ClientInv, TypeOK, BucketInv, CallsFit

\* Every attempt goes through acquire().
LEMMA FetchKeeps ==
    ASSUME ClientInv, NEW c \in Clients, NEW call \in Call, Fetch(c, call),
           call.embargo = 0, call.sends <= SentBefore(call.attempt) + call.again,
           call.kind = "submit" => call.attempt = 1 /\ call.again = 0
    PROVE  ClientInv'
<1>1. Acquire(c) /\ Turn(c) /\ clients[c].st # "granted" /\ UNCHANGED allowance
      /\ calls' = [calls EXCEPT ![c] = [call EXCEPT !.st = "acquiring"]]
  BY DEF Fetch, Acquire
<1>2. BucketInv'
  BY <1>1, TurnPreserves DEF ClientInv
<1>3. Paced' /\ \E client \in [st : {"granted", "asleep"}, left : Int] :
                    clients' = [clients EXCEPT ![c] = client]
  BY <1>1, TurnPaces
<1>4. PICK client \in [st : {"granted", "asleep"}, left : Int] :
         clients' = [clients EXCEPT ![c] = client]
  BY <1>3
<1> DEFINE next1 == [call EXCEPT !.st = "acquiring"]
<1>5. next1 \in Call /\ next1.st = "acquiring" /\ next1.kind = call.kind
      /\ next1.attempt = call.attempt /\ next1.again = call.again
      /\ next1.sends = call.sends /\ next1.embargo = call.embargo
  BY DEF Call
<1>6. CallFits(next1, client)
  <2>1. client.st # "idle"
    OBVIOUS
  <2>2. call.sends <= SentBefore(call.attempt) + call.again + 0
    <3>1. call.again \in Int /\ SentBefore(call.attempt) \in Int
      <4>1. call.again \in 0..RateLimitRetries
        BY CallFields
      <4>2. SentBefore(call.attempt) \in Nat
        BY CallFields
      <4> QED BY <4>1, <4>2, ClientAssumption
    <3>2. SentBefore(call.attempt) + call.again \in Int
      BY <3>1
    <3> QED BY <3>2
  <2> HIDE DEF next1
  <2>3. next1.sends <= SentBefore(next1.attempt) + next1.again + 0
    BY <1>5, <2>2
  <2> QED BY <1>5, <2>1, <2>3 DEF CallFits
<1>7. allowance' \in Int
  BY <1>1, Numbers
<1>8. calls' = [calls EXCEPT ![c] = next1]
  BY <1>1
<1> HIDE DEF next1
<1>9. calls' \in [Clients -> Call] /\ calls'[c] = next1 /\ clients'[c] = client
      /\ \A d \in Clients : d # c => calls'[d] = calls[d] /\ clients'[d] = clients[d]
  BY <1>4, <1>5, <1>8, Numbers
<1>10. CallFits(calls'[c], clients'[c])
  BY <1>6, <1>9
<1> QED BY <1>2, <1>3, <1>7, <1>9, <1>10, OneCallMoves

\* Time passes when nobody holds a token it has not used.
LEMMA PassKeeps == ClientInv /\ Pass => ClientInv'
<1> SUFFICES ASSUME ClientInv, Pass PROVE ClientInv'
  OBVIOUS
<1> USE Numbers
<1>0. /\ \A c \in Clients : clients[c].st # "granted"
      /\ Tick /\ allowance' = Min({allowance + 1, Full}) /\ ideal' = Min({ideal + 1, Full})
      /\ calls' = [c \in Clients |->
             [calls[c] EXCEPT !.left = Down(@), !.embargo = Down(@)]]
      /\ clients' = [c \in Clients |->
             [clients[c] EXCEPT !.left = IF @ > 0 THEN @ - 1 ELSE 0]]
  BY DEF Pass, Tick
<1>1. BucketInv'
  BY <1>0, BucketStep DEF ClientInv, BucketNext
<1>2. \A c \in Clients : clients'[c].st = clients[c].st
  BY <1>0 DEF Client
<1>3. Paced' /\ allowance' \in Int
  <2>1. Granted = {} /\ Granted' = {}
    BY <1>0, <1>2 DEF Granted
  <2>2. Interval * Cardinality({}) = 0
    BY FS_EmptySet
  <2>3. allowance >= ideal
    BY <2>1, <2>2 DEF ClientInv, Paced
  <2>4. /\ allowance' = IF allowance + 1 <= Full THEN allowance + 1 ELSE Full
        /\ ideal' = IF ideal + 1 <= Full THEN ideal + 1 ELSE Full
    <3>1. allowance + 1 \in Int /\ ideal + 1 \in Int /\ Full \in Int
      OBVIOUS
    <3> QED BY <1>0, <3>1, MinOfTwo
  <2>5. allowance' >= ideal' /\ allowance' \in Int /\ ideal' \in Int
    BY <2>3, <2>4
  <2> QED BY <2>1, <2>2, <2>5, FS_EmptySet DEF Paced
<1>4. ASSUME NEW c \in Clients PROVE calls'[c] \in Call /\ CallFits(calls'[c], clients'[c])
  <2>1. calls[c] \in Call /\ CallFits(calls[c], clients[c])
    BY DEF ClientInv, CallsFit
  <2>2. /\ calls[c].left \in Nat /\ calls[c].embargo \in Nat
    BY <2>1, CallFields
  <2>3. \A n \in Nat : Down(n) \in Nat /\ Down(0) = 0
    BY DEF Down
  <2>4. \A m, n \in Nat : m <= n => Down(m) <= Down(n)
    BY DEF Down
  <2>5. calls'[c] = [calls[c] EXCEPT !.left = Down(@), !.embargo = Down(@)]
    BY <1>0
  <2>6. /\ calls'[c] \in Call
        /\ calls'[c].st = calls[c].st /\ calls'[c].kind = calls[c].kind
        /\ calls'[c].attempt = calls[c].attempt /\ calls'[c].again = calls[c].again
        /\ calls'[c].sends = calls[c].sends
        /\ calls'[c].left = Down(calls[c].left) /\ calls'[c].embargo = Down(calls[c].embargo)
    BY <2>1, <2>2, <2>3, <2>5 DEF Call
  <2> QED BY <1>2, <2>1, <2>2, <2>3, <2>4, <2>6 DEF CallFits
<1>5. calls' \in [Clients -> Call]
  BY <1>0, <1>4
<1> QED BY <1>1, <1>3, <1>4, <1>5 DEF ClientInv, TypeOK, BucketInv, CallsFit

\* Timers run on real time.
LEMMA SetBackKeeps == ClientInv /\ ClockSetBack => ClientInv'
<1> SUFFICES ASSUME ClientInv, ClockSetBack PROVE ClientInv'
  OBVIOUS
<1>1. SetBack /\ UNCHANGED <<calls, allowance, clients, ideal>>
  BY DEF ClockSetBack, SetBack, clientVars
<1>2. BucketInv'
  BY <1>1, BucketStep DEF ClientInv, BucketNext
<1> QED BY <1>1, <1>2 DEF ClientInv, TypeOK, BucketInv, CallsFit, Paced, Granted

\* A clock that is put forward refills both buckets by as much.
LEMMA PutForwardKeeps == ClientInv /\ ClockPutForward => ClientInv'
<1> SUFFICES ASSUME ClientInv, ClockPutForward PROVE ClientInv'
  OBVIOUS
<1> USE Numbers
<1>0. PICK ms \in 1..MaxStep : PutForward(ms) /\ allowance' = Min({allowance + ms, Full})
  BY DEF ClockPutForward
<1>1. /\ \A c \in Clients : clients[c].st # "granted"
      /\ calls' = calls /\ clients' = clients /\ ideal' = Min({ideal + ms, Full})
  BY <1>0 DEF ClockPutForward, PutForward
<1>2. BucketInv'
  BY <1>0, BucketStep DEF ClientInv, BucketNext
<1>3. Paced' /\ allowance' \in Int
  <2>1. Granted = {} /\ Granted' = {}
    BY <1>1 DEF Granted
  <2>2. Interval * Cardinality({}) = 0
    BY FS_EmptySet
  <2>3. allowance >= ideal
    BY <2>1, <2>2 DEF ClientInv, Paced
  <2>4. ms \in Nat
    BY BucketAssumption
  <2>5. /\ allowance' = IF allowance + ms <= Full THEN allowance + ms ELSE Full
        /\ ideal' = IF ideal + ms <= Full THEN ideal + ms ELSE Full
    <3>1. allowance + ms \in Int /\ ideal + ms \in Int /\ Full \in Int
      BY <2>4
    <3> QED BY <1>0, <1>1, <3>1, MinOfTwo
  <2>6. allowance' >= ideal' /\ allowance' \in Int /\ ideal' \in Int
    BY <2>3, <2>4, <2>5
  <2> QED BY <2>1, <2>2, <2>6, FS_EmptySet DEF Paced
<1> QED BY <1>1, <1>2, <1>3 DEF ClientInv, TypeOK, BucketInv, CallsFit

\* A caller that slept is given its token, or sleeps again.
LEMMA WakeKeeps == ASSUME ClientInv, NEW c \in Clients, TimerFires(c) PROVE ClientInv'
<1> USE Numbers
<1>1. Turn(c) /\ clients[c].st = "asleep" /\ UNCHANGED <<calls, allowance>>
  BY DEF TimerFires, Wake, clientVars
<1>2. BucketInv'
  BY <1>1, TurnPreserves DEF ClientInv
<1>3. Paced' /\ \E client \in [st : {"granted", "asleep"}, left : Int] :
                    clients' = [clients EXCEPT ![c] = client]
  BY <1>1, TurnPaces
<1>4. clients'[c].st \in {"granted", "asleep"} /\ \A d \in Clients : d # c => clients'[d] = clients[d]
  BY <1>3
<1>5. CallFits(calls[c], clients[c])
  BY DEF ClientInv, CallsFit
<1>6. CallFits(calls'[c], clients'[c])
  BY <1>1, <1>4, <1>5 DEF CallFits
<1> QED BY <1>1, <1>2, <1>3, <1>4, <1>6, OneCallMoves

\* A request that is sent uses the token it was given.
LEMMA SendKeeps == ASSUME ClientInv, NEW c \in Clients, Send(c) PROVE ClientInv'
<1> USE Numbers
<1>1. /\ clients[c].st = "granted" /\ clients' = [clients EXCEPT ![c] = Idle]
      /\ UNCHANGED <<tokens, ahead, clockSteps, ideal>>
      /\ allowance' = allowance - Interval
      /\ calls' = [calls EXCEPT ![c].st = "sent", ![c].sends = @ + 1]
  BY DEF Send, Proceed
<1>2. BucketInv'
  BY BucketStep DEF ClientInv, BucketNext, Send
<1>3. Paced' /\ allowance' \in Int
  <2>1. Granted' = Granted \ {c} /\ c \in Granted
    BY <1>1 DEF Granted, Idle
  <2>2. IsFiniteSet(Granted') /\ Cardinality(Granted') = Cardinality(Granted) - 1
    BY <2>1, FS_RemoveElement DEF ClientInv, Paced
  <2>3. Cardinality(Granted') \in Nat
    BY <2>2, FS_CardinalityType
  <2>4. Interval * Cardinality(Granted) = Interval * Cardinality(Granted') + Interval
        /\ Interval * Cardinality(Granted') \in Int
    <3>1. \A a, b \in Nat : a * (b + 1) = a * b + a /\ a * b \in Int
      OBVIOUS
    <3>2. Cardinality(Granted) = Cardinality(Granted') + 1
      BY <2>2, <2>3
    <3> QED BY <2>3, <3>1, <3>2
  <2>5. allowance >= ideal + Interval * Cardinality(Granted)
    BY DEF ClientInv, Paced
  <2>6. allowance' >= ideal' + Interval * Cardinality(Granted') /\ allowance' \in Int
    BY <1>1, <2>4, <2>5
  <2> QED BY <2>2, <2>6 DEF Paced
<1>4. calls[c] \in Call /\ CallFits(calls[c], clients[c])
  BY DEF ClientInv, CallsFit
<1>5. /\ calls[c].st = "acquiring" /\ calls[c].embargo = 0
      /\ calls[c].sends <= SentBefore(calls[c].attempt) + calls[c].again
  <2>1. calls[c].st = "acquiring"
    BY <1>1, <1>4 DEF CallFits
  <2>2. SentBefore(calls[c].attempt) + calls[c].again + 0 = SentBefore(calls[c].attempt) + calls[c].again
    <3>1. SentBefore(calls[c].attempt) + calls[c].again \in Int
      BY <1>4, CallFields
    <3> QED BY <3>1
  <2> QED BY <1>4, <2>1, <2>2 DEF CallFits
<1>6. /\ calls'[c] \in Call
      /\ calls'[c].st = "sent" /\ calls'[c].kind = calls[c].kind
      /\ calls'[c].attempt = calls[c].attempt /\ calls'[c].again = calls[c].again
      /\ calls'[c].sends = calls[c].sends + 1 /\ calls'[c].embargo = calls[c].embargo
  <2>1. calls'[c] = [calls[c] EXCEPT !.st = "sent", !.sends = @ + 1]
    BY <1>1, Zenon
  <2>2. calls[c].sends + 1 \in Nat
    <3>1. calls[c].sends \in Nat
      BY <1>4, CallFields
    <3> QED BY <3>1
  <2> QED BY <1>4, <2>1, <2>2 DEF Call
<1>7. CallFits(calls'[c], clients'[c])
  <2>1. clients'[c].st = "idle"
    BY <1>1 DEF Idle
  <2>2. calls[c].sends + 1 <= SentBefore(calls[c].attempt) + calls[c].again + 1
    <3>1. SentBefore(calls[c].attempt) + calls[c].again \in Int /\ calls[c].sends \in Int
      BY <1>4, CallFields
    <3> QED BY <1>5, <3>1
  <2> QED BY <1>4, <1>5, <1>6, <2>1, <2>2 DEF CallFits
<1>8. calls' \in [Clients -> Call] /\ \A d \in Clients : d # c => calls'[d] = calls[d] /\ clients'[d] = clients[d]
  BY <1>1, <1>6
<1> QED BY <1>2, <1>3, <1>7, <1>8, OneCallMoves

\* A response ends a call or begins a wait; nothing is sent and no token taken.
LEMMA ResponseKeeps ==
    ASSUME ClientInv, NEW c \in Clients, calls[c].st = "sent", UNCHANGED <<bucketVars, allowance>>,
           NEW call \in Call, calls' = [calls EXCEPT ![c] = call],
           call.kind = calls[c].kind, call.attempt = calls[c].attempt,
           call.again = calls[c].again, call.sends = calls[c].sends,
           \/ call.st \in {"done", "failed"} /\ call.embargo = 0
           \/ /\ call.st = "cooling" /\ call.kind # "submit"
              /\ call.again < RateLimitRetries /\ call.embargo <= call.left
           \/ /\ call.st = "backing off" /\ call.kind # "submit"
              /\ call.attempt < ReadAttempts /\ call.embargo = 0
    PROVE  ClientInv'
<1> USE Numbers
<1>1. UNCHANGED <<clients, ideal, allowance>> /\ BucketInv'
  BY BucketStep DEF bucketVars, ClientInv
<1>2. Paced'
  BY <1>1 DEF ClientInv, Paced, Granted
<1>3. CallFits(calls[c], clients[c])
  BY DEF ClientInv, CallsFit
<1>4. calls'[c] = call /\ \A d \in Clients : d # c => calls'[d] = calls[d] /\ clients'[d] = clients[d]
  BY <1>1
<1>5. calls' \in [Clients -> Call] /\ allowance' \in Int
  BY <1>1
<1>6. CallFits(call, clients[c])
  BY <1>3 DEF CallFits
<1> QED BY <1>1, <1>2, <1>4, <1>5, <1>6, OneCallMoves

\* An answer, a 404, another 4xx, and whatever is not retried.
LEMMA EndsKeeps ==
    ASSUME ClientInv, NEW c \in Clients, calls[c].st = "sent",
           NEW st \in {"done", "failed"}, Ends(c, st)
    PROVE  ClientInv'
<1> DEFINE call == [calls[c] EXCEPT !.st = st]
<1>1. calls[c] \in Call /\ CallFits(calls[c], clients[c])
  BY DEF ClientInv, TypeOK, CallsFit
<1>2. calls[c].embargo = 0
  BY <1>1 DEF CallFits
<1>3. /\ call \in Call /\ call.st = st /\ call.kind = calls[c].kind /\ call.attempt = calls[c].attempt
      /\ call.again = calls[c].again /\ call.sends = calls[c].sends /\ call.embargo = calls[c].embargo
  BY <1>1 DEF Call
<1>4. calls' = [calls EXCEPT ![c] = call] /\ UNCHANGED <<bucketVars, allowance>>
  BY Zenon DEF Ends
<1> HIDE DEF call
<1> QED BY <1>2, <1>3, <1>4, ResponseKeeps

\* A 429.
LEMMA TooManyKeeps ==
    ASSUME ClientInv, NEW c \in Clients, NEW after \in RetryAfters \cup {NoHeader},
           TooManyRequests(c, after)
    PROVE  ClientInv'
<1>0. calls[c].st = "sent" /\ calls[c] \in Call
  BY DEF TooManyRequests, ClientInv, TypeOK
<1>1. CASE Ends(c, "failed")
  BY <1>0, <1>1, EndsKeeps
<1>2. CASE Resends(calls[c], after)
           /\ calls' = [calls EXCEPT ![c] =
                [calls[c] EXCEPT !.st = "cooling", !.left = Cooling(calls[c], after),
                                 !.embargo = IF after = NoHeader THEN 0 ELSE after]]
           /\ UNCHANGED <<bucketVars, allowance>>
  <2> DEFINE embargo == IF after = NoHeader THEN 0 ELSE after
             left == Cooling(calls[c], after)
             call == [calls[c] EXCEPT !.st = "cooling", !.left = left, !.embargo = embargo]
  <2>1. left \in Nat /\ embargo \in Nat /\ embargo <= left
    <3>1. CASE after = NoHeader
      <4>1. BackoffMs * (calls[c].again + 1) \in Nat
        <5>1. calls[c].again \in 0..RateLimitRetries
          BY <1>0, CallFields
        <5>2. calls[c].again + 1 \in Nat /\ BackoffMs \in Nat
          BY <5>1, ClientAssumption
        <5>3. \A a, b \in Nat : a * b \in Nat
          OBVIOUS
        <5> QED BY <5>2, <5>3
      <4>2. Min({BackoffMs * (calls[c].again + 1), MaxRetryAfterMs}) \in Nat
        BY <4>1, MinOfTwo, ClientAssumption
      <4> QED BY <3>1, <4>2 DEF Cooling
    <3>2. CASE after # NoHeader
      BY <3>2, ClientAssumption DEF Cooling
    <3> QED BY <3>1, <3>2
  <2> HIDE DEF embargo, left
  <2>2. /\ call \in Call /\ call.st = "cooling" /\ call.kind = calls[c].kind
        /\ call.attempt = calls[c].attempt /\ call.again = calls[c].again
        /\ call.sends = calls[c].sends /\ call.embargo = embargo /\ call.left = left
    BY <1>0, <2>1 DEF Call
  <2>3. call.kind # "submit" /\ call.again < RateLimitRetries
    BY <1>2, <2>2 DEF Resends
  <2>4. calls' = [calls EXCEPT ![c] = call] /\ UNCHANGED <<bucketVars, allowance>>
    BY <1>2 DEF embargo, left
  <2> HIDE DEF call
  <2> QED BY <1>0, <2>1, <2>2, <2>3, <2>4, ResponseKeeps
<1> QED BY <1>1, <1>2 DEF TooManyRequests

\* A timeout, a transport failure, a 5xx or a malformed body.
LEMMA UnwellKeeps == ASSUME ClientInv, NEW c \in Clients, Unwell(c) PROVE ClientInv'
<1>0. calls[c].st = "sent" /\ calls[c] \in Call /\ CallFits(calls[c], clients[c])
  BY DEF Unwell, ClientInv, TypeOK, CallsFit
<1>1. CASE Ends(c, "failed")
  BY <1>0, <1>1, EndsKeeps
<1>2. CASE Repeats(calls[c])
           /\ calls' = [calls EXCEPT ![c] =
                [calls[c] EXCEPT !.st = "backing off", !.left = BackoffMs * calls[c].attempt]]
           /\ UNCHANGED <<bucketVars, allowance>>
  <2> DEFINE left == BackoffMs * calls[c].attempt
             call == [calls[c] EXCEPT !.st = "backing off", !.left = left]
  <2>1. left \in Nat
    <3>1. calls[c].attempt \in Nat /\ BackoffMs \in Nat
      <4>1. calls[c].attempt \in 1..ReadAttempts
        BY <1>0, CallFields
      <4>2. \A n \in 1..ReadAttempts : n \in Nat
        BY ClientAssumption
      <4> QED BY <4>1, <4>2, ClientAssumption
    <3>2. \A a, b \in Nat : a * b \in Nat
      OBVIOUS
    <3> QED BY <3>1, <3>2
  <2> HIDE DEF left
  <2>2. /\ call \in Call /\ call.st = "backing off" /\ call.kind = calls[c].kind
        /\ call.attempt = calls[c].attempt /\ call.again = calls[c].again
        /\ call.sends = calls[c].sends /\ call.embargo = calls[c].embargo
    BY <1>0, <2>1 DEF Call
  <2>3. call.kind # "submit" /\ call.attempt < ReadAttempts /\ call.embargo = 0
    BY <1>0, <1>2, <2>2 DEF Repeats, CallFits
  <2>4. calls' = [calls EXCEPT ![c] = call] /\ UNCHANGED <<bucketVars, allowance>>
    BY <1>2 DEF left
  <2> HIDE DEF call
  <2> QED BY <1>0, <2>2, <2>3, <2>4, ResponseKeeps
<1> QED BY <1>1, <1>2 DEF Unwell

\* The wait after a 429 is over, and with it the embargo.
LEMMA CooledKeeps == ASSUME ClientInv, NEW c \in Clients, Cooled(c) PROVE ClientInv'
<1> DEFINE call == [calls[c] EXCEPT !.again = @ + 1]
<1>1. calls[c] \in Call /\ CallFits(calls[c], clients[c]) /\ Fetch(c, call)
      /\ calls[c].st = "cooling" /\ calls[c].left = 0
  BY DEF Cooled, Resent, ClientInv, TypeOK, CallsFit
<1>2. /\ calls[c].again \in 0..RateLimitRetries /\ calls[c].again < RateLimitRetries
      /\ calls[c].embargo \in Nat /\ calls[c].embargo <= 0 /\ calls[c].kind # "submit"
      /\ calls[c].sends <= SentBefore(calls[c].attempt) + calls[c].again + 1
  BY <1>1, CallFields DEF CallFits
<1>3. calls[c].again + 1 \in 0..RateLimitRetries
  BY <1>2, ClientAssumption
<1>4. /\ call \in Call /\ call.again = calls[c].again + 1 /\ call.attempt = calls[c].attempt
      /\ call.sends = calls[c].sends /\ call.embargo = calls[c].embargo /\ call.kind = calls[c].kind
  BY <1>1, <1>3 DEF Call
<1>5. calls[c].embargo = 0
  BY <1>2
<1>6. calls[c].sends <= SentBefore(calls[c].attempt) + (calls[c].again + 1)
  <2>1. SentBefore(calls[c].attempt) \in Int /\ calls[c].again \in Int
    BY <1>1, CallFields
  <2> QED BY <1>2, <2>1
<1> HIDE DEF call
<1> QED BY <1>1, <1>2, <1>4, <1>5, <1>6, FetchKeeps

\* The next turn of read() has a budget of its own.
LEMMA BackedOffKeeps == ASSUME ClientInv, NEW c \in Clients, BackedOff(c) PROVE ClientInv'
<1> DEFINE call == [calls[c] EXCEPT !.attempt = @ + 1, !.again = 0]
<1>1. calls[c] \in Call /\ CallFits(calls[c], clients[c]) /\ Fetch(c, call)
      /\ calls[c].st = "backing off"
  BY DEF BackedOff, Resent, Repeated, ClientInv, TypeOK, CallsFit
<1>2. /\ calls[c].again \in 0..RateLimitRetries /\ calls[c].attempt \in 1..ReadAttempts
      /\ calls[c].attempt < ReadAttempts
      /\ calls[c].embargo = 0 /\ calls[c].kind # "submit"
      /\ calls[c].sends <= SentBefore(calls[c].attempt) + calls[c].again + 1
  BY <1>1, CallFields DEF CallFits
<1>3. calls[c].attempt + 1 \in 1..ReadAttempts /\ 0 \in 0..RateLimitRetries
  BY <1>2, ClientAssumption
<1>4. /\ call \in Call /\ call.again = 0 /\ call.attempt = calls[c].attempt + 1
      /\ call.sends = calls[c].sends /\ call.embargo = calls[c].embargo /\ call.kind = calls[c].kind
  BY <1>1, <1>3 DEF Call
<1>5. calls[c].sends <= SentBefore(calls[c].attempt + 1) + 0
  <2>1. /\ SentBefore(calls[c].attempt + 1) = SentBefore(calls[c].attempt) + RateLimitRetries + 1
        /\ SentBefore(calls[c].attempt) \in Nat
    BY <1>2, SentBeforeGrows
  <2>2. calls[c].sends \in Int /\ calls[c].again \in Int
    BY <1>1, CallFields
  <2>3. calls[c].again <= RateLimitRetries /\ RateLimitRetries \in Int
    BY <1>2, ClientAssumption
  <2> QED BY <1>2, <2>1, <2>2, <2>3
<1> HIDE DEF call
<1> QED BY <1>1, <1>2, <1>4, <1>5, FetchKeeps

\* A call begins afresh.
LEMMA BeginKeeps ==
    ASSUME ClientInv, NEW c \in Clients, NEW kind \in {"get", "getOrUndefined", "submit"},
           Fetch(c, [NewCall EXCEPT !.kind = kind])
    PROVE  ClientInv'
<1> DEFINE call == [NewCall EXCEPT !.kind = kind]
<1>1. call \in Call
      /\ call = [kind |-> kind, st |-> "new", attempt |-> 1, again |-> 0,
                 left |-> 0, sends |-> 0, embargo |-> 0]
  BY NewCallFits
<1> HIDE DEF call
<1>2. call.attempt = 1 /\ call.again = 0 /\ call.sends = 0 /\ call.embargo = 0
  BY <1>1
<1>3. SentBefore(1) = 0
  <2>1. 1 \in 1..ReadAttempts
    BY ClientAssumption
  <2> QED BY <2>1, SentBeforeGrows
<1>4. call.sends <= SentBefore(call.attempt) + call.again
  BY <1>2, <1>3
<1>5. Fetch(c, call)
  BY DEF call
<1> QED BY <1>1, <1>2, <1>4, <1>5, FetchKeeps
\* Every step of the Blockfrost client keeps the invariant.
LEMMA ClientStep == ClientInv /\ [Next]_vars => ClientInv'
<1> SUFFICES ASSUME ClientInv, [Next]_vars PROVE ClientInv'
  OBVIOUS
<1>1. CASE Pass
  BY <1>1, PassKeeps
<1>2. CASE ClockSetBack \/ ClockPutForward
  BY <1>2, SetBackKeeps, PutForwardKeeps
<1>3. ASSUME NEW c \in Clients, NEW kind \in {"get", "getOrUndefined", "submit"}, Begin(c, kind)
      PROVE  ClientInv'
  BY <1>3, BeginKeeps DEF Begin
<1>4. ASSUME NEW c \in Clients, TimerFires(c) PROVE ClientInv'
  BY <1>4, WakeKeeps
<1>5. ASSUME NEW c \in Clients, Send(c) PROVE ClientInv'
  BY <1>5, SendKeeps
<1>6. ASSUME NEW c \in Clients, Answered(c) \/ NotFound(c) \/ Rejected(c) PROVE ClientInv'
  BY <1>6, EndsKeeps DEF Answered, NotFound, Rejected
<1>7. ASSUME NEW c \in Clients, NEW after \in RetryAfters \cup {NoHeader}, TooManyRequests(c, after)
      PROVE  ClientInv'
  BY <1>7, TooManyKeeps
<1>8. ASSUME NEW c \in Clients, Unwell(c) PROVE ClientInv'
  BY <1>8, UnwellKeeps
<1>9. ASSUME NEW c \in Clients, Cooled(c) PROVE ClientInv'
  BY <1>9, CooledKeeps
<1>10. ASSUME NEW c \in Clients, BackedOff(c) PROVE ClientInv'
  BY <1>10, BackedOffKeeps
<1>11. CASE UNCHANGED vars
  <2>1. UNCHANGED <<bucketVars, calls, allowance>>
    BY <1>11 DEF vars, clientVars
  <2>2. BucketInv'
    BY <2>1, BucketStep DEF ClientInv
  <2> QED BY <2>1, <2>2 DEF bucketVars, ClientInv, TypeOK, BucketInv, CallsFit, Paced, Granted
<1> QED BY <1>1, <1>2, <1>3, <1>4, <1>5, <1>6, <1>7, <1>8, <1>9, <1>10, <1>11 DEF Next

\* What the invariant says of the requests that were sent.
LEMMA ClientSendsWithin == ClientInv => SendsWithinBudget
<1> SUFFICES ASSUME ClientInv PROVE SendsWithinBudget
  OBVIOUS
<1>1. ASSUME NEW c \in Clients
      PROVE  calls[c].sends <= IF calls[c].kind = "submit" THEN 1
                               ELSE ReadAttempts * (RateLimitRetries + 1)
  <2>1. calls[c] \in Call /\ CallFits(calls[c], clients[c])
    BY DEF ClientInv, TypeOK, CallsFit
  <2>2. calls[c].attempt \in 1..ReadAttempts /\ calls[c].again \in 0..RateLimitRetries
    BY <2>1, CallFields
  <2>3. calls[c].sends \in Int /\ calls[c].again \in Int /\ SentBefore(calls[c].attempt) \in Int
        /\ SentBefore(calls[c].attempt) + calls[c].again \in Int
    BY <2>1, CallFields
  <2>4. calls[c].sends <= SentBefore(calls[c].attempt) + calls[c].again + 1
    <3>1. \A k \in Int : k + 0 <= k + 1
      OBVIOUS
    <3>2. \/ calls[c].sends <= SentBefore(calls[c].attempt) + calls[c].again + 0
          \/ calls[c].sends <= SentBefore(calls[c].attempt) + calls[c].again + 1
      BY <2>1 DEF CallFits
    <3> QED BY <2>3, <3>1, <3>2
  <2>5. CASE calls[c].kind = "submit"
    <3>1. calls[c].attempt = 1 /\ calls[c].again = 0
      BY <2>1, <2>5 DEF CallFits
    <3>2. SentBefore(1) = 0
      BY <2>2, <3>1, SentBeforeGrows
    <3> QED BY <2>4, <2>5, <3>1, <3>2
  <2>6. CASE calls[c].kind # "submit"
    <3>1. SentBefore(calls[c].attempt) + RateLimitRetries + 1 <= ReadAttempts * (RateLimitRetries + 1)
      BY <2>2, SentBeforeGrows
    <3>2. calls[c].again <= RateLimitRetries /\ RateLimitRetries \in Int
      BY <2>2, ClientAssumption
    <3>3. ReadAttempts * (RateLimitRetries + 1) \in Int
      <4>1. RateLimitRetries + 1 \in Int /\ ReadAttempts \in Int
        BY ClientAssumption
      <4>2. \A a, b \in Int : a * b \in Int
        OBVIOUS
      <4> QED BY <4>1, <4>2
    <3> QED BY <2>3, <2>4, <2>6, <3>1, <3>2, <3>3
  <2> QED BY <2>5, <2>6
<1>2. allowance >= 0
  <2>1. ideal >= 0
    <3>1. Refilled \in 0..Full /\ Refilled <= ideal
      BY RefilledRange DEF ClientInv, BucketInv, Conforms
    <3> QED BY <3>1, Numbers
  <2>2. allowance >= ideal + Interval * Cardinality(Granted)
    BY DEF ClientInv, Paced
  <2> QED BY <2>1, <2>2, Numbers
<1> QED BY <1>1, <1>2 DEF SendsWithinBudget, SendBudget, SendsWithinRate

\* A call that is about to send waited out what the server named.
SendsUnderNoEmbargo == \A c \in Clients : calls'[c].sends > calls[c].sends => calls[c].embargo = 0

LEMMA SendHonors == ASSUME ClientInv, NEW c \in Clients, Send(c) PROVE SendsUnderNoEmbargo
<1>1. clients[c].st = "granted" /\ \A d \in Clients : d # c => calls'[d] = calls[d]
  BY Numbers DEF Send, Proceed
<1>2. CallFits(calls[c], clients[c])
  BY DEF ClientInv, CallsFit
<1>3. calls[c].embargo = 0
  BY <1>1, <1>2 DEF CallFits
<1>4. \A d \in Clients : calls[d].sends \in Int
  BY CallFields, Numbers
<1> QED BY <1>1, <1>3, <1>4 DEF SendsUnderNoEmbargo

\* Nothing but Send() sends: a call that begins or goes on keeps its count, or
\* counts from nothing.
LEMMA NobodySends ==
    ASSUME ClientInv, \A c \in Clients : calls'[c].sends = calls[c].sends \/ calls'[c].sends = 0
    PROVE  SendsUnderNoEmbargo
<1>1. ASSUME NEW c \in Clients PROVE ~(calls'[c].sends > calls[c].sends)
  <2>1. calls[c].sends \in Nat
    BY CallFields, Numbers
  <2> QED BY <2>1
<1> QED BY <1>1 DEF SendsUnderNoEmbargo

LEMMA FetchHonors ==
    ASSUME ClientInv, NEW c \in Clients, NEW call \in Call, Fetch(c, call),
           call.sends = 0 \/ call.sends = calls[c].sends
    PROVE  SendsUnderNoEmbargo
<1>1. calls' = [calls EXCEPT ![c] = [call EXCEPT !.st = "acquiring"]]
  BY DEF Fetch
<1>2. [call EXCEPT !.st = "acquiring"].sends = call.sends
  BY DEF Call
<1>3. \A d \in Clients : calls'[d].sends = calls[d].sends \/ calls'[d].sends = 0
  BY <1>1, <1>2, Numbers
<1> QED BY <1>3, NobodySends

LEMMA ClientHonors == ClientInv /\ [Next]_vars => SendsUnderNoEmbargo
<1> SUFFICES ASSUME ClientInv, [Next]_vars PROVE SendsUnderNoEmbargo
  OBVIOUS
<1> USE Numbers
<1>0. \A c \in Clients : calls[c] \in Call
  OBVIOUS
<1>1. CASE Pass
  <2>1. ASSUME NEW c \in Clients PROVE calls'[c].sends = calls[c].sends
    BY <1>0, <1>1 DEF Pass, Call
  <2> QED BY <2>1, NobodySends
<1>2. CASE calls' = calls
  BY <1>2, NobodySends
<1>3. ASSUME NEW c \in Clients, NEW kind \in {"get", "getOrUndefined", "submit"}, Begin(c, kind)
      PROVE  SendsUnderNoEmbargo
  <2>1. [NewCall EXCEPT !.kind = kind] \in Call /\ [NewCall EXCEPT !.kind = kind].sends = 0
    BY NewCallFits
  <2> QED BY <1>3, <2>1, FetchHonors DEF Begin
<1>4. ASSUME NEW c \in Clients, Send(c) PROVE SendsUnderNoEmbargo
  BY <1>4, SendHonors
<1>5. ASSUME NEW c \in Clients, NEW st, Ends(c, st) PROVE SendsUnderNoEmbargo
  <2>1. calls' = [calls EXCEPT ![c] = [calls[c] EXCEPT !.st = st]]
    BY <1>5, Zenon DEF Ends
  <2>2. [calls[c] EXCEPT !.st = st].sends = calls[c].sends
    BY <1>0 DEF Call
  <2>3. \A d \in Clients : calls'[d].sends = calls[d].sends
    BY <2>1, <2>2
  <2> QED BY <2>3, NobodySends
<1>6. ASSUME NEW c \in Clients, NEW after \in RetryAfters \cup {NoHeader}, TooManyRequests(c, after)
      PROVE  SendsUnderNoEmbargo
  <2>1. CASE Ends(c, "failed")
    BY <1>5, <2>1
  <2>2. ASSUME NEW left, NEW embargo,
               calls' = [calls EXCEPT ![c] = [calls[c] EXCEPT !.st = "cooling", !.left = left,
                                                              !.embargo = embargo]]
        PROVE  SendsUnderNoEmbargo
    <3>1. [calls[c] EXCEPT !.st = "cooling", !.left = left, !.embargo = embargo].sends = calls[c].sends
      BY <1>0 DEF Call
    <3>2. \A d \in Clients : calls'[d].sends = calls[d].sends
      BY <2>2, <3>1
    <3> QED BY <3>2, NobodySends
  <2> QED BY <1>6, <2>1, <2>2 DEF TooManyRequests
<1>7. ASSUME NEW c \in Clients, Unwell(c) PROVE SendsUnderNoEmbargo
  <2>1. CASE Ends(c, "failed")
    BY <1>5, <2>1
  <2>2. ASSUME NEW left,
               calls' = [calls EXCEPT ![c] = [calls[c] EXCEPT !.st = "backing off", !.left = left]]
        PROVE  SendsUnderNoEmbargo
    <3>1. [calls[c] EXCEPT !.st = "backing off", !.left = left].sends = calls[c].sends
      BY <1>0 DEF Call
    <3>2. \A d \in Clients : calls'[d].sends = calls[d].sends
      BY <2>2, <3>1
    <3> QED BY <3>2, NobodySends
  <2> QED BY <1>7, <2>1, <2>2 DEF Unwell
<1>8. ASSUME NEW c \in Clients, Cooled(c) PROVE SendsUnderNoEmbargo
  <2>1. calls[c].again + 1 \in 0..RateLimitRetries
    <3>1. calls[c].again < RateLimitRetries
      BY <1>8 DEF ClientInv, CallsFit, CallFits, Cooled
    <3>2. calls[c].again \in 0..RateLimitRetries
      BY <1>0, CallFields
    <3> QED BY <3>1, <3>2, ClientAssumption
  <2>2. [calls[c] EXCEPT !.again = @ + 1] \in Call
        /\ [calls[c] EXCEPT !.again = @ + 1].sends = calls[c].sends
    BY <1>0, <2>1 DEF Call
  <2> QED BY <1>8, <2>2, FetchHonors DEF Cooled, Resent
<1>9. ASSUME NEW c \in Clients, BackedOff(c) PROVE SendsUnderNoEmbargo
  <2>1. calls[c].attempt + 1 \in 1..ReadAttempts /\ 0 \in 0..RateLimitRetries
    <3>1. calls[c].attempt < ReadAttempts
      BY <1>9 DEF ClientInv, CallsFit, CallFits, BackedOff
    <3>2. calls[c].attempt \in 1..ReadAttempts
      BY <1>0, CallFields
    <3> QED BY <3>1, <3>2, ClientAssumption
  <2>2. Repeated(calls[c]) \in Call /\ Repeated(calls[c]).sends = calls[c].sends
    BY <1>0, <2>1 DEF Call, Repeated
  <2> QED BY <1>9, <2>2, FetchHonors DEF BackedOff, Resent
<1>10. CASE ClockSetBack \/ ClockPutForward \/ UNCHANGED vars
            \/ \E c \in Clients : TimerFires(c)
  BY <1>2, <1>10 DEF ClockSetBack, ClockPutForward, TimerFires, vars, clientVars
<1>11. ASSUME NEW c \in Clients, Answered(c) \/ NotFound(c) \/ Rejected(c)
       PROVE  SendsUnderNoEmbargo
  BY <1>5, <1>11 DEF Answered, NotFound, Rejected
<1> QED BY <1>1, <1>3, <1>4, <1>6, <1>7, <1>8, <1>9, <1>10, <1>11 DEF Next
\* The Blockfrost client, for every number of attempts and retries, every
\* backoff and every rate: a transaction is sent at most once, a read at most
\* readAttempts * (rateLimitRetries + 1) times, and retries count against the
\* rate like first attempts.
THEOREM ClientBudget == Spec => [](TypeOK /\ SendsWithinBudget)
<1>1. ClientInv => TypeOK /\ SendsWithinBudget
  BY ClientSendsWithin DEF ClientInv
<1> QED BY <1>1, ClientStarts, ClientStep, PTL DEF Spec

\* No retry of the client is earlier than the server asked.
THEOREM ClientHonorsRetryAfter == Spec => HonorsRetryAfter
<1>1. ClientInv /\ [Next]_vars => [SendsUnderNoEmbargo]_vars
  BY ClientHonors
<1>2. Spec => [][SendsUnderNoEmbargo]_vars
  BY <1>1, ClientStarts, ClientStep, PTL DEF Spec
<1> QED BY <1>2 DEF HonorsRetryAfter, SendsUnderNoEmbargo

\* Every step of the client is a step of its rate limiter, or none of its
\* business.
LEMMA ClientStepsBucket == [Next]_vars => [BucketNext]_bucketVars
<1> SUFFICES ASSUME [Next]_vars PROVE [BucketNext]_bucketVars
  OBVIOUS
<1>1. ASSUME NEW c \in Clients, NEW call, Fetch(c, call) PROVE [BucketNext]_bucketVars
  BY <1>1 DEF Fetch, BucketNext
<1>2. ASSUME NEW c \in Clients, NEW st, Ends(c, st) PROVE [BucketNext]_bucketVars
  BY <1>2 DEF Ends
<1>3. CASE Pass \/ ClockPutForward \/ ClockSetBack \/ UNCHANGED vars
  BY <1>3 DEF Pass, ClockPutForward, ClockSetBack, vars, BucketNext
<1>4. ASSUME NEW c \in Clients, TimerFires(c) \/ Send(c) PROVE [BucketNext]_bucketVars
  BY <1>4 DEF TimerFires, Send, BucketNext
<1>5. ASSUME NEW c \in Clients, NEW after \in RetryAfters \cup {NoHeader},
             TooManyRequests(c, after) \/ Unwell(c)
      PROVE  [BucketNext]_bucketVars
  BY <1>2, <1>5 DEF TooManyRequests, Unwell
<1>6. ASSUME NEW c \in Clients, Unwell(c) PROVE [BucketNext]_bucketVars
  BY <1>2, <1>6 DEF Unwell
<1>7. ASSUME NEW c \in Clients, Answered(c) \/ NotFound(c) \/ Rejected(c)
      PROVE  [BucketNext]_bucketVars
  BY <1>2, <1>7 DEF Answered, NotFound, Rejected
<1>8. ASSUME NEW c \in Clients, Cooled(c) \/ BackedOff(c) PROVE [BucketNext]_bucketVars
  BY <1>1, <1>8 DEF Cooled, BackedOff, Resent
<1>9. ASSUME NEW c \in Clients, NEW kind, Begin(c, kind) PROVE [BucketNext]_bucketVars
  BY <1>1, <1>9 DEF Begin
<1> QED BY <1>3, <1>4, <1>5, <1>6, <1>7, <1>8, <1>9 DEF Next

\* The client is paced by its rate limiter, whatever is retried.
THEOREM ClientImplementsBucket == Spec => BucketSpec
<1>1. Init => BucketInit
  BY DEF Init
<1> QED BY <1>1, ClientStepsBucket, PTL DEF Spec, BucketSpec

-----------------------------------------------------------------------------
(* The pool.                                                                *)

\* Entries still in the iterator were not asked for.
Untouched == \A i \in Items : i >= next => called[i] = 0

\* An entry that was handed out is not lost, unless the pool was aborted.
Accounted ==
    ~aborted => /\ failed = {}
                /\ \A i \in Items : i < next =>
                      i \in results \/ \E w \in Workers : running[w] = i

\* A worker that left its loop awaits nothing; one that returned normally saw
\* the iterator exhausted or the abort flag; one that rejected raised it.
Leaving ==
    \A w \in Workers :
        /\ ended[w] # "no" => running[w] = 0
        /\ ended[w] = "returned" /\ ~aborted => next = N + 1
        /\ ended[w] = "rejected" => aborted

\* The batch rejects exactly when the flag is up, and resolves only when every
\* worker returned.
Settling ==
    /\ aborted <=> outcome = "rejected"
    /\ outcome = "resolved" => \A w \in Workers : ended[w] = "returned"

PoolInv ==
    /\ PoolTypeOK
    /\ CalledAtMostOnce
    /\ Untouched
    /\ Accounted
    /\ Leaving
    /\ Settling

\* There is always a worker, also for an empty batch or a limit below one.
LEMMA SomeWorker == 1 \in Workers
<1>1. \A m \in Int : Max({1, m}) \in Int /\ Max({1, m}) >= 1
  <2> SUFFICES ASSUME NEW m \in Int
               PROVE  Max({1, m}) \in Int /\ Max({1, m}) >= 1
    OBVIOUS
  <2>1. \E x \in {1, m} : \A y \in {1, m} : x >= y
    OBVIOUS
  <2>2. Max({1, m}) \in {1, m} /\ \A y \in {1, m} : Max({1, m}) >= y
    BY <2>1 DEF Max
  <2> QED BY <2>2
<1>2. Min({Limit, N}) \in Int
  <2>1. \E x \in {Limit, N} : \A y \in {Limit, N} : x =< y
    BY PoolAssumption
  <2>2. Min({Limit, N}) \in {Limit, N}
    BY <2>1 DEF Min
  <2> QED BY <2>2, PoolAssumption
<1>3. workerCount \in Int /\ workerCount >= 1
  BY <1>1, <1>2 DEF workerCount
<1> QED BY <1>3 DEF Workers

\* Pulling an entry keeps what the invariant says of the iterator, when the
\* worker's previous item is in the results already.
LEMMA PullPreserves ==
    ASSUME PoolInv, NEW w \in Workers, Pull(w), outcome # "rejected",
           UNCHANGED <<aborted, failed, outcome>>,
           results \subseteq results', results' \subseteq Items,
           running[w] # 0 => running[w] \in results',
           ended[w] = "no"
    PROVE  PoolInv'
<1> USE PoolAssumption DEF Items
<1>1. ~aborted /\ ~aborted'
  BY DEF PoolInv, Settling
<1>2. CASE TakesItem
  <2>1. /\ next \in 1..N
        /\ next' = next + 1
        /\ running' = [running EXCEPT ![w] = next]
        /\ called' = [called EXCEPT ![next] = @ + 1]
        /\ ended' = ended
    BY <1>2 DEF Pull, TakesItem, Advanced, PoolInv, PoolTypeOK
  <2>2. PoolTypeOK'
    BY <2>1 DEF PoolInv, PoolTypeOK
  <2>3. called[next] = 0
    BY <2>1 DEF PoolInv, Untouched
  <2>4. CalledAtMostOnce' /\ Untouched'
    BY <2>1, <2>3 DEF PoolInv, PoolTypeOK, CalledAtMostOnce, Untouched
  <2>5. Accounted'
    <3> SUFFICES ASSUME NEW i \in Items, i < next'
                 PROVE  i \in results' \/ \E v \in Workers : running'[v] = i
      BY DEF PoolInv, Accounted
    <3>1. CASE i = next
      BY <2>1, <3>1 DEF PoolInv, PoolTypeOK
    <3>2. CASE i < next
      <4>1. i \in results \/ \E v \in Workers : running[v] = i
        BY <1>1, <3>2 DEF PoolInv, Accounted
      <4> QED BY <2>1, <4>1 DEF PoolInv, PoolTypeOK
    <3> QED BY <2>1, <3>1, <3>2
  <2>6. Leaving'
    BY <1>1, <2>1 DEF PoolInv, PoolTypeOK, Leaving
  <2>7. Settling'
    BY <2>1 DEF PoolInv, Settling
  <2> QED BY <2>2, <2>4, <2>5, <2>6, <2>7 DEF PoolInv
<1>3. CASE ~TakesItem
  <2>1. /\ next = N + 1 /\ next' = next
        /\ running' = [running EXCEPT ![w] = 0]
        /\ ended' = [ended EXCEPT ![w] = "returned"]
        /\ called' = called
    BY <1>1, <1>3 DEF Pull, TakesItem, Advanced, PoolInv, PoolTypeOK
  <2>2. PoolTypeOK'
    BY <2>1 DEF PoolInv, PoolTypeOK
  <2>3. CalledAtMostOnce' /\ Untouched'
    BY <2>1 DEF PoolInv, CalledAtMostOnce, Untouched
  <2>4. Accounted'
    <3> SUFFICES ASSUME NEW i \in Items, i < next'
                 PROVE  i \in results' \/ \E v \in Workers : running'[v] = i
      BY DEF PoolInv, Accounted
    <3>1. i \in results \/ \E v \in Workers : running[v] = i
      BY <1>1, <2>1 DEF PoolInv, Accounted
    <3> QED BY <2>1, <3>1 DEF PoolInv, PoolTypeOK
  <2>5. Leaving'
    BY <2>1 DEF PoolInv, PoolTypeOK, Leaving
  <2>6. Settling'
    BY <2>1 DEF PoolInv, PoolTypeOK, Settling
  <2> QED BY <2>2, <2>3, <2>4, <2>5, <2>6 DEF PoolInv
<1> QED BY <1>2, <1>3

\* In an aborted pool a worker only leaves: it drops at most one entry.
LEMMA PullAborted ==
    ASSUME PoolInv, NEW w \in Workers, Pull(w), aborted,
           UNCHANGED <<aborted, failed, outcome>>,
           results' \subseteq Items
    PROVE  PoolInv'
<1> USE PoolAssumption DEF Items
<1>1. /\ next' \in 1..(N + 1) /\ next' >= next
      /\ running' = [running EXCEPT ![w] = 0]
      /\ ended' = [ended EXCEPT ![w] = "returned"]
      /\ called' = called
  BY DEF Pull, TakesItem, Advanced, PoolInv, PoolTypeOK
<1>2. PoolTypeOK'
  BY <1>1 DEF PoolInv, PoolTypeOK
<1>3. CalledAtMostOnce' /\ Untouched'
  BY <1>1 DEF PoolInv, PoolTypeOK, CalledAtMostOnce, Untouched
<1>4. Accounted' /\ Leaving' /\ Settling'
  BY <1>1 DEF PoolInv, PoolTypeOK, Accounted, Leaving, Settling
<1> QED BY <1>2, <1>3, <1>4 DEF PoolInv

\* Every step of the pool keeps the invariant.
LEMMA PoolStep == PoolInv /\ [PoolNext]_poolVars => PoolInv'
<1> SUFFICES ASSUME PoolInv, [PoolNext]_poolVars PROVE PoolInv'
  OBVIOUS
<1> USE PoolAssumption DEF Items
<1>1. ASSUME NEW w \in Workers, Start(w) PROVE PoolInv'
  <2>1. Pull(w) /\ UNCHANGED <<results, aborted, failed, outcome>>
        /\ running[w] = 0 /\ ended[w] = "no"
    BY <1>1 DEF Start, Started, PoolInv, PoolTypeOK
  <2>2. results' = results /\ results' \subseteq Items
    BY <2>1 DEF PoolInv, PoolTypeOK
  <2>3. CASE aborted
    BY <2>1, <2>2, <2>3, PullAborted
  <2>4. CASE ~aborted
    <3>1. outcome # "rejected"
      BY <2>4 DEF PoolInv, Settling
    <3> QED BY <2>1, <2>2, <3>1, PullPreserves
  <2> QED BY <2>3, <2>4
<1>2. ASSUME NEW w \in Workers, CallResolves(w) PROVE PoolInv'
  <2>1. Pull(w) /\ UNCHANGED <<aborted, failed, outcome>>
        /\ running[w] \in Items /\ results' = results \cup {running[w]}
    BY <1>2 DEF CallResolves, PoolInv, PoolTypeOK
  <2>2. ended[w] = "no" /\ results' \subseteq Items
    BY <1>2, <2>1 DEF CallResolves, PoolInv, PoolTypeOK, Leaving
  <2>3. CASE aborted
    BY <2>1, <2>2, <2>3, PullAborted
  <2>4. CASE ~aborted
    <3>1. outcome # "rejected"
      BY <2>4 DEF PoolInv, Settling
    <3> QED BY <2>1, <2>2, <3>1, PullPreserves
  <2> QED BY <2>3, <2>4
<1>3. ASSUME NEW w \in Workers, CallRejects(w) PROVE PoolInv'
  <2>1. /\ aborted' /\ outcome' = "rejected"
        /\ running' = [running EXCEPT ![w] = 0]
        /\ ended' = [ended EXCEPT ![w] = "rejected"]
        /\ failed' = failed \cup {running[w]} /\ running[w] \in Items
        /\ UNCHANGED <<next, results, called>>
    BY <1>3 DEF CallRejects, BatchAfterRejection, PoolInv, PoolTypeOK
  <2>2. aborted' \in BOOLEAN
    BY <1>3 DEF CallRejects
  <2>3. PoolTypeOK'
    <3>1. next' \in 1..(N + 1) /\ results' \subseteq Items /\ called' \in [Items -> Nat]
      BY <2>1 DEF PoolInv, PoolTypeOK
    <3>2. running' \in [Workers -> 0..N]
          /\ ended' \in [Workers -> {"no", "returned", "rejected"}]
      BY <2>1 DEF PoolInv, PoolTypeOK
    <3>3. failed' \subseteq Items /\ outcome' \in {"pending", "resolved", "rejected"}
      BY <2>1 DEF PoolInv, PoolTypeOK
    <3> QED BY <2>2, <3>1, <3>2, <3>3, Zenon DEF PoolTypeOK
  <2>4. CalledAtMostOnce' /\ Untouched'
    BY <2>1 DEF PoolInv, CalledAtMostOnce, Untouched
  <2>5. Accounted' /\ Leaving' /\ Settling'
    BY <2>1 DEF PoolInv, PoolTypeOK, Accounted, Leaving, Settling
  <2> QED BY <2>3, <2>4, <2>5 DEF PoolInv
<1>4. CASE Resolve
  <2>1. ~aborted
    BY <1>4 DEF Resolve, PoolInv, Settling
  <2> QED BY <1>4, <2>1 DEF Resolve, PoolInv, PoolTypeOK, CalledAtMostOnce, Untouched,
                           Accounted, Leaving, Settling
<1>5. CASE UNCHANGED poolVars
  BY <1>5 DEF poolVars, PoolInv, PoolTypeOK, CalledAtMostOnce, Untouched, Accounted,
              Leaving, Settling
<1> QED BY <1>1, <1>2, <1>3, <1>4, <1>5 DEF PoolNext

\* mapWithConcurrency, for every batch size and limit: the worker function is
\* called at most once per item, and a batch that resolves has every result.
THEOREM PoolSafety == PoolSpec => [](PoolTypeOK /\ CalledAtMostOnce /\ ResolvedIsComplete)
<1>1. PoolInit => PoolInv
  <2> SUFFICES ASSUME PoolInit PROVE PoolInv
    OBVIOUS
  <2>1. PoolTypeOK
    <3>1. next \in 1..(N + 1) /\ running \in [Workers -> 0..N]
          /\ called \in [Items -> Nat]
      BY PoolAssumption DEF PoolInit
    <3>2. aborted \in BOOLEAN
      BY DEF PoolInit
    <3> QED BY <3>1, <3>2, Zenon DEF PoolInit, PoolTypeOK
  <2>2. CalledAtMostOnce /\ Untouched /\ Accounted /\ Leaving /\ Settling
    BY PoolAssumption DEF PoolInit, CalledAtMostOnce, Untouched, Accounted, Leaving,
                          Settling, Items
  <2> QED BY <2>1, <2>2 DEF PoolInv
<1>2. PoolInv /\ [PoolNext]_poolVars => PoolInv'
  BY PoolStep
<1>3. PoolInv => PoolTypeOK /\ CalledAtMostOnce /\ ResolvedIsComplete
  <2> SUFFICES ASSUME PoolInv, outcome = "resolved"
               PROVE  results = Items /\ failed = {}
    BY DEF PoolInv, ResolvedIsComplete
  <2>1. ~aborted /\ \A w \in Workers : ended[w] = "returned" /\ running[w] = 0
    BY DEF PoolInv, Settling, Leaving
  <2>2. next = N + 1
    BY <2>1, SomeWorker DEF PoolInv, Leaving
  <2>3. failed = {} /\ \A i \in Items : i \in results
    BY <2>1, <2>2, PoolAssumption DEF PoolInv, Accounted, Items
  <2>4. results \subseteq Items
    BY DEF PoolInv, PoolTypeOK
  <2> QED BY <2>3, <2>4
<1> QED BY <1>1, <1>2, <1>3, PTL DEF PoolSpec

\* After the first rejection the pool never asks for another item.
THEOREM PoolStopsOnFailure == PoolSpec => NothingStartsAfterAbort
<1>1. [PoolNext]_poolVars => [aborted => called' = called]_poolVars
  BY DEF PoolNext, poolVars, Start, CallResolves, CallRejects, Resolve, Pull, TakesItem
<1> QED BY <1>1, PTL DEF PoolSpec, NothingStartsAfterAbort

-----------------------------------------------------------------------------
(* The batch.                                                               *)

\* A worker of the batch is one of the client's callers: it asks for the next
\* address, or leaves the client alone.
LEMMA FanStepsClient ==
    ASSUME [FanNext]_fanVars
    PROVE  \/ [Next]_vars
           \/ \E c \in Clients : Fetch(c, [NewCall EXCEPT !.kind = "getOrUndefined"])
<1>1. ASSUME NEW w \in Workers, AsksUpstream(w)
      PROVE  \/ [Next]_vars
             \/ \E c \in Clients : Fetch(c, [NewCall EXCEPT !.kind = "getOrUndefined"])
  BY <1>1, FanAssumption DEF AsksUpstream
<1>2. ASSUME NEW w \in Workers, FanStart(w) \/ FanResolves(w)
      PROVE  \/ [Next]_vars
             \/ \E c \in Clients : Fetch(c, [NewCall EXCEPT !.kind = "getOrUndefined"])
  BY <1>1, <1>2 DEF FanStart, FanResolves
<1>3. ASSUME NEW w \in Workers, FanRejects(w) PROVE [Next]_vars
  BY <1>3 DEF FanRejects
<1>4. CASE FanEnds \/ FanPass \/ FanPutForward \/ FanSetBack \/ UNCHANGED fanVars
  BY <1>4 DEF FanEnds, FanPass, FanPutForward, FanSetBack, fanVars, Next
<1>5. ASSUME NEW c \in Others, OtherBegins(c) PROVE [Next]_vars
  BY <1>5, FanAssumption DEF OtherBegins, Others, Next
<1>6. ASSUME NEW c \in Clients, FanSteps(c) PROVE [Next]_vars
  BY <1>6 DEF FanSteps, FanWakes, FanSends, FanCooled, FanBackedOff, FanAnswered, FanNotFound,
              FanRefused, FanThrottled, FanUnwell, Next
<1> QED BY <1>2, <1>3, <1>4, <1>5, <1>6 DEF FanNext, FanSteps

LEMMA FanStep == ClientInv /\ [FanNext]_fanVars => ClientInv' /\ [SendsUnderNoEmbargo]_vars
<1> SUFFICES ASSUME ClientInv, [FanNext]_fanVars PROVE ClientInv' /\ SendsUnderNoEmbargo
  OBVIOUS
<1>1. CASE [Next]_vars
  BY <1>1, ClientStep, ClientHonors
<1>2. ASSUME NEW c \in Clients, Fetch(c, [NewCall EXCEPT !.kind = "getOrUndefined"])
      PROVE  ClientInv' /\ SendsUnderNoEmbargo
  <2>1. [NewCall EXCEPT !.kind = "getOrUndefined"] \in Call
        /\ [NewCall EXCEPT !.kind = "getOrUndefined"].sends = 0
    BY NewCallFits
  <2> QED BY <1>2, <2>1, BeginKeeps, FetchHonors
<1> QED BY <1>1, <1>2, FanStepsClient

\* Every step of the batch is a step of the rate limiter, or none of its business.
LEMMA FanStepsBucket == [FanNext]_fanVars => [BucketNext]_bucketVars
<1> SUFFICES ASSUME [FanNext]_fanVars PROVE [BucketNext]_bucketVars
  OBVIOUS
<1>1. ASSUME NEW c \in Clients, Fetch(c, [NewCall EXCEPT !.kind = "getOrUndefined"])
      PROVE  [BucketNext]_bucketVars
  BY <1>1 DEF Fetch, BucketNext
<1> QED BY <1>1, FanStepsClient, ClientStepsBucket

\* Every step of the batch is a step of the pool, or one of the client's only.
LEMMA FanStepsPool == [FanNext]_fanVars => [PoolNext]_poolVars
<1> SUFFICES ASSUME [FanNext]_fanVars PROVE [PoolNext]_poolVars
  OBVIOUS
<1>1. ASSUME NEW w \in Workers, FanStart(w) \/ FanResolves(w) \/ FanRejects(w)
      PROVE  [PoolNext]_poolVars
  BY <1>1 DEF FanStart, FanResolves, FanRejects, PoolNext
<1>2. CASE FanEnds \/ FanPass \/ FanPutForward \/ FanSetBack \/ UNCHANGED fanVars
  BY <1>2 DEF FanEnds, FanPass, FanPutForward, FanSetBack, fanVars, PoolNext
<1>3. ASSUME NEW c, OtherBegins(c) \/ FanSteps(c) PROVE [PoolNext]_poolVars
  BY <1>3 DEF OtherBegins, FanSteps, FanWakes, FanSends, FanCooled, FanBackedOff, FanAnswered,
              FanNotFound, FanRefused, FanThrottled, FanUnwell
<1> QED BY <1>1, <1>2, <1>3 DEF FanNext, FanSteps

\* The batch is a pool of workers behind a rate limiter, and so is whatever was
\* proved of either.
THEOREM FanOutImplements == FanSpec => PoolSpec /\ BucketSpec
<1>1. FanInit => PoolInit /\ BucketInit
  BY DEF FanInit, Init
<1> QED BY <1>1, FanStepsPool, FanStepsBucket, PTL DEF FanSpec, PoolSpec, BucketSpec

\* filterUsedAddresses, for every number of addresses and every limit, next to
\* any number of other calls: the two retry loops and the rate are kept by all
\* calls together.
THEOREM FanOutBudget == FanSpec => [](TypeOK /\ SendsWithinBudget /\ WithinBudget)
<1>1. FanInit => ClientInv
  BY ClientStarts DEF FanInit
<1>2. ClientInv => TypeOK /\ SendsWithinBudget
  BY ClientSendsWithin DEF ClientInv
<1> QED BY <1>1, <1>2, FanStep, FanOutImplements, BucketBudget, PTL DEF FanSpec

\* No call of the batch, and none next to it, is resent before the server allows.
THEOREM FanOutHonorsRetryAfter == FanSpec => HonorsRetryAfter
<1>1. FanInit => ClientInv
  BY ClientStarts DEF FanInit
<1>2. FanSpec => [][SendsUnderNoEmbargo]_vars
  BY <1>1, FanStep, PTL DEF FanSpec
<1> QED BY <1>2 DEF HonorsRetryAfter, SendsUnderNoEmbargo

\* No address is asked for twice, and a batch that resolves skipped none,
\* whatever the client retried on the way.
THEOREM FanOutSafety == FanSpec => [](PoolTypeOK /\ CalledAtMostOnce /\ ResolvedIsComplete)
BY FanOutImplements, PoolSafety, PTL

\* After the first failure the batch asks for nothing more.
THEOREM FanOutStopsOnFailure == FanSpec => NothingStartsAfterAbort
BY FanOutImplements, PoolStopsOnFailure, PTL
=============================================================================
