-------------------------- MODULE CachedReadsProofs --------------------------
(***************************************************************************)
(* The reads that callers share, for any number of callers.                *)
(*                                                                         *)
(* The tip and the protocol parameters, for any number of recoveries, any  *)
(* TTL, length of an epoch and lag of upstream: one recovery at a time,    *)
(* and no answer from an epoch that was over before the reads behind it    *)
(* could begin.  An answer is judged by the moment its call began, and is  *)
(* a value that was read before: for this call, for the tip in the cache   *)
(* or for a recovery that others started.  The invariant dates each.       *)
(*                                                                         *)
(* The pages of the pool list, for any finite set of pools, any stakes and *)
(* any sizes of a page: pages under one epoch are cut from one ranking of  *)
(* rows that were listed in one scan.  A page outlives the readers it was  *)
(* read for, so the invariant says it of a page in each place it can be.   *)
(*                                                                         *)
(* The pages of DReps and of proposals, for any numbers of them, of votes  *)
(* and of rows, and any sizes: the walks hold what was there throughout    *)
(* them, and the rows were true during the call.  The invariant says of    *)
(* each place where rows wait what was true of them since when.            *)
(***************************************************************************)
EXTENDS CachedReads, FiniteSetTheorems, TLAPS

Epochs == PP!Epochs
now == Len(history)

-----------------------------------------------------------------------------
(* The invariant.                                                           *)

\* Epoch e was not over at time s, nor at any time before, for an instance that
\* lags as far as one may.
Fresh(e, s) == \A t \in 1..now : t <= s => history[t] - lag <= e

\* Epochs follow one another, and at most one ends within MinEpoch.
Chain ==
    \A i, j \in 1..now : i <= j =>
        /\ history[i] <= history[j]
        /\ j - i <= MinEpoch => history[j] <= history[i] + 1

\* A read that began at time s and has not timed out.
Reading(s) == s \in 1..now /\ now - s <= LoadMax

\* The reads in flight.  Parameters are read for an epoch that has begun.
Reads ==
    /\ tipLoad # 0 => Reading(tipLoad)
    /\ \A e \in Epochs : paramsLoad[e] # 0 =>
          Reading(paramsLoad[e]) /\ e <= history[paramsLoad[e]]
    /\ \A r \in Recoveries : recoveries[r].st # "idle" => Reading(recoveries[r].since)

\* A recovery that is under way is the registered one.
OnlyRegistered == \A r \in Recoveries : recoveries[r].st # "idle" => r = protocolParamsRecovery

\* A tip in the cache was read no earlier than its expiry says; parameters are
\* cached under their own epoch.
CacheFits ==
    /\ tip.epoch # 0 =>
          /\ tip.expiresAt <= now + TipTtl
          /\ tip.epoch <= history[now]
          /\ Fresh(tip.epoch, tip.expiresAt - TipTtl - LoadMax)
    /\ \A e \in Epochs : params[e] \in {0, e}

Calm == lag = 0 /\ MinEpoch >= LoadMax

\* A caller waits for a read that is under way and that was begun no earlier
\* than its answer has to be from.
CallerFits(call) ==
    /\ call.asked <= now
    /\ call.st = "tip" => tipLoad # 0
    /\ call.st = "params" =>
          /\ call.tip \in Epochs /\ paramsLoad[call.tip] # 0
          /\ Fresh(call.tip, call.asked - PP!Window)
    /\ call.st = "recovery" =>
          /\ call.on \in Recoveries /\ recoveries[call.on].st # "idle"
          /\ call.asked - LoadMax <= recoveries[call.on].since
          /\ Calm => call.tip <= history[recoveries[call.on].since]
    /\ call.st = "done" =>
          /\ Fresh(call.answer, call.asked - PP!Window)
          /\ Calm => call.tip <= call.answer

CallersFit == \A c \in Callers : CallerFits(callers[c])

Caller ==
    [st : {"idle", "tip", "params", "recovery", "done", "failed"}, want : {"tip", "params"},
     asked : Nat, tip : 0..MaxEpoch, on : Recoveries \cup {NoRecovery}, answer : 0..MaxEpoch]

Recovery == [st : {"idle", "tip", "params"}, since : Nat, tip : 0..MaxEpoch]

\* The type invariant, in the names of this module.
ParamsTyped ==
    /\ lag \in Nat /\ lag \in 0..MaxLag /\ history \in Seq(Epochs)
    /\ tip \in [epoch : 0..MaxEpoch, expiresAt : Nat] /\ tipLoad \in Nat
    /\ params \in [Epochs -> 0..MaxEpoch] /\ paramsLoad \in [Epochs -> Nat]
    /\ protocolParamsRecovery \in Recoveries \cup {NoRecovery}
    /\ recoveries \in [Recoveries -> Recovery] /\ callers \in [Callers -> Caller]
    /\ protocolParamsRecovery # NoRecovery =>
          protocolParamsRecovery \in Recoveries /\ recoveries[protocolParamsRecovery].st # "idle"

ParamsInv ==
    /\ ParamsTyped /\ now >= 1 /\ Chain
    /\ Reads /\ OnlyRegistered /\ CacheFits /\ CallersFit

-----------------------------------------------------------------------------
(* The constants and the shape of the state.                                *)

\* Max of two integers, which the CHOOSE of FiniteSetsExt hides from the provers.
LEMMA MaxOfTwo ==
    ASSUME NEW a \in Int, NEW b \in Int
    PROVE  PP!Max({a, b}) = IF a >= b THEN a ELSE b
<1>1. CASE a >= b
  <2>1. \E x \in {a, b} : \A y \in {a, b} : x >= y
    BY <1>1
  <2>2. \A x \in {a, b} : (\A y \in {a, b} : x >= y) => x = a
    BY <1>1
  <2> QED BY <1>1, <2>1, <2>2 DEF PP!Max
<1>2. CASE ~(a >= b)
  <2>1. \E x \in {a, b} : \A y \in {a, b} : x >= y
    BY <1>2
  <2>2. \A x \in {a, b} : (\A y \in {a, b} : x >= y) => x = b
    BY <1>2
  <2> QED BY <1>2, <2>1, <2>2 DEF PP!Max
<1> QED BY <1>1, <1>2

LEMMA ParamsNumbers ==
    /\ TipTtl \in Nat /\ LoadMax \in Nat \ {0} /\ MinEpoch \in Nat \ {0} /\ MaxEpoch \in Nat \ {0}
    /\ MaxLag \in Nat /\ NoRecovery \notin Recoveries /\ Epochs = 1..MaxEpoch
    /\ PP!Window \in Nat /\ PP!Window >= TipTtl + LoadMax /\ PP!Window >= LoadMax
<1>1. /\ TipTtl \in Nat /\ LoadMax \in Nat \ {0} /\ MinEpoch \in Nat \ {0}
      /\ MaxEpoch \in Nat \ {0} /\ MaxLag \in Nat /\ NoRecovery \notin Recoveries
  BY CachedAssumption
<1>2. TipTtl + LoadMax \in Int /\ 2 * LoadMax \in Int
  BY <1>1
<1>3. PP!Window = IF TipTtl + LoadMax >= 2 * LoadMax THEN TipTtl + LoadMax ELSE 2 * LoadMax
  BY <1>2, MaxOfTwo DEF PP!Window
<1> QED BY <1>1, <1>3 DEF Epochs, PP!Epochs

\* The clock and the epochs on it.
LEMMA Clock ==
    ASSUME ParamsInv
    PROVE  /\ now \in Nat \ {0} /\ lag \in Nat /\ DOMAIN history = 1..now
           /\ \A t \in 1..now : history[t] \in Epochs /\ history[t] \in Nat /\ history[t] >= 1
<1>1. history \in Seq(Epochs) /\ now >= 1 /\ lag \in Nat
  BY DEF ParamsInv, ParamsTyped
<1>2. now \in Nat /\ DOMAIN history = 1..now /\ \A t \in 1..now : history[t] \in Epochs
  BY <1>1 DEF now
<1>3. \A e \in Epochs : e \in Nat /\ e >= 1
  BY ParamsNumbers
<1> QED BY <1>1, <1>2, <1>3

LEMMA FreshOlder ==
    ASSUME ParamsInv, NEW e \in Int, NEW s \in Int, NEW r \in Int, Fresh(e, s), r <= s
    PROVE  Fresh(e, r)
BY Clock DEF Fresh

\* An answer is at least as new as the moment it was asked for.
LEMMA AnswersAreFresh ==
    ASSUME ParamsInv, NEW s, Reading(s), NEW e, e \in PP!Answers(s)
    PROVE  /\ e \in Nat \ {0} /\ Fresh(e, s) /\ Fresh(e, now - LoadMax)
           /\ e <= history[now] /\ (lag = 0 => history[s] <= e)
<1>1. PICK t \in s..now, l \in 0..lag : e = PP!Max({1, history[t] - l})
  <2> DEFINE A(t, l) == PP!Max({1, history[t] - l})
  <2>1. PP!Answers(s) = {A(t, l) : t \in s..now, l \in 0..lag}
    BY DEF PP!Answers, PP!now, now
  <2>2. ASSUME NEW S, NEW L, e \in {A(t, l) : t \in S, l \in L}
        PROVE  \E t \in S, l \in L : e = A(t, l)
    <3> HIDE DEF A
    <3> QED BY <2>2
  <2>3. e \in {A(t, l) : t \in s..now, l \in 0..lag}
    <3> HIDE DEF A
    <3> QED BY <2>1
  <2>4. \E t \in s..now, l \in 0..lag : e = A(t, l)
    <3> HIDE DEF A
    <3> QED BY <2>2, <2>3
  <2> QED BY <2>4
<1>2. /\ s \in 1..now /\ now \in Nat \ {0} /\ t \in 1..now /\ s <= t /\ lag \in Nat
      /\ l \in Nat /\ l <= lag /\ history[t] \in Nat /\ history[t] >= 1 /\ now - LoadMax <= s
      /\ s \in Int /\ now - LoadMax \in Int
  BY <1>1, Clock, ParamsNumbers DEF Reading
<1>3. e = IF 1 >= history[t] - l THEN 1 ELSE history[t] - l
  BY <1>1, <1>2, MaxOfTwo
<1>4. \A u \in 1..now : u <= t => history[u] <= history[t]
  BY <1>2 DEF ParamsInv, Chain
<1>5. \A u \in 1..now : history[u] \in Nat /\ history[u] >= 1
  BY Clock
<1>6. Fresh(e, s)
  <2> SUFFICES ASSUME NEW u \in 1..now, u <= s PROVE history[u] - lag <= e
    BY DEF Fresh
  <2>1. history[u] <= history[t] /\ history[u] \in Nat
    BY <1>2, <1>4, <1>5
  <2> QED BY <1>2, <1>3, <2>1
<1>7. e <= history[now] /\ e \in Nat \ {0}
  <2>1. history[t] <= history[now] /\ history[now] \in Nat /\ history[now] >= 1
    BY <1>2, <1>5 DEF ParamsInv, Chain
  <2> QED BY <1>2, <1>3, <2>1
<1>8. ASSUME lag = 0 PROVE history[s] <= e
  BY <1>2, <1>3, <1>4, <1>5, <1>8
<1>9. Fresh(e, now - LoadMax)
  BY <1>2, <1>6, <1>7, FreshOlder
<1> QED BY <1>6, <1>7, <1>8, <1>9

\* No step but that of the clock changes what was when.
LEMMA SameClock ==
    ASSUME UNCHANGED <<lag, history>>
    PROVE  /\ now' = now /\ (Calm' <=> Calm) /\ (Chain => Chain')
           /\ \A e, s : Fresh(e, s)' <=> Fresh(e, s)
           /\ \A s : Reading(s)' <=> Reading(s)
BY DEF now, Calm, Chain, Fresh, Reading

LEMMA IdleTyped == PP!IdleCaller \in Caller /\ PP!IdleRecovery \in Recovery
BY ParamsNumbers DEF PP!IdleCaller, PP!IdleRecovery, Caller, Recovery

\* What the invariant says of each part of the state.
LEMMA Ranges ==
    ASSUME ParamsInv
    PROVE  /\ tip.epoch \in 0..MaxEpoch /\ tip.expiresAt \in Nat /\ tipLoad \in Nat
           /\ \A e \in Epochs : params[e] \in 0..MaxEpoch /\ paramsLoad[e] \in Nat
           /\ \A r \in Recoveries : recoveries[r] \in Recovery /\ recoveries[r].since \in Nat
           /\ \A c \in Callers : callers[c] \in Caller /\ callers[c].asked \in Nat
BY DEF ParamsInv, ParamsTyped, Recovery, Caller

\* The steps but that of the clock are judged part by part.
LEMMA PartsSuffice ==
    ASSUME ParamsInv, UNCHANGED <<lag, history>>,
           ParamsTyped', Reads', OnlyRegistered', CacheFits', CallersFit'
    PROVE  ParamsInv'
BY SameClock DEF ParamsInv

LEMMA CacheStays ==
    ASSUME ParamsInv, UNCHANGED <<lag, history, tip, params>>
    PROVE  CacheFits'
BY DEF ParamsInv, CacheFits, Fresh, now

LEMMA RecoveriesStay ==
    ASSUME ParamsInv, UNCHANGED <<protocolParamsRecovery, recoveries>>
    PROVE  OnlyRegistered'
BY DEF ParamsInv, OnlyRegistered

\* A caller that a step leaves where it is still waits for a read in flight.
LEMMA CallerStays ==
    ASSUME ParamsInv, UNCHANGED <<lag, history>>, NEW c \in Callers, callers'[c] = callers[c],
           callers[c].st = "tip" => tipLoad' # 0,
           callers[c].st = "params" => paramsLoad'[callers[c].tip] # 0,
           callers[c].st = "recovery" =>
               /\ recoveries'[callers[c].on].st # "idle"
               /\ recoveries'[callers[c].on].since \in {recoveries[callers[c].on].since, now}
    PROVE  CallerFits(callers[c])'
<1>1. CallerFits(callers[c])
  BY DEF ParamsInv, CallersFit
<1>2. now' = now /\ (Calm' <=> Calm)
  BY SameClock
<1>3. callers[c].st = "params" => Fresh(callers[c].tip, callers[c].asked - PP!Window)'
  BY <1>1 DEF CallerFits, Fresh, now
<1>4. callers[c].st = "done" => Fresh(callers[c].answer, callers[c].asked - PP!Window)'
  BY <1>1 DEF CallerFits, Fresh, now
<1>5. ASSUME callers[c].st = "recovery"
      PROVE  /\ callers[c].asked - LoadMax <= recoveries'[callers[c].on].since
             /\ Calm => callers[c].tip <= history[recoveries'[callers[c].on].since]
  <2> DEFINE was == recoveries[callers[c].on].since
             is == recoveries'[callers[c].on].since
  <2>1. /\ callers[c].on \in Recoveries /\ recoveries[callers[c].on].st # "idle"
        /\ callers[c].asked - LoadMax <= was /\ (Calm => callers[c].tip <= history[was])
    BY <1>1, <1>5 DEF CallerFits
  <2>2. was \in 1..now
    BY <2>1 DEF ParamsInv, Reads, Reading
  <2>3. is \in {was, now} /\ now \in Nat \ {0} /\ is \in 1..now /\ was <= is
    BY <1>5, <2>2, Clock
  <2>4. history[was] <= history[is] /\ history[was] \in Nat /\ history[is] \in Nat
    BY <2>2, <2>3, Clock DEF ParamsInv, Chain
  <2>5. callers[c].asked \in Nat /\ callers[c].tip \in Nat
    BY Ranges, ParamsNumbers DEF Caller
  <2>6. callers[c].asked - LoadMax <= is
    <3>1. LoadMax \in Int
      BY ParamsNumbers
    <3> QED BY <2>1, <2>2, <2>3, <2>5, <3>1
  <2>7. Calm => callers[c].tip <= history[is]
    BY <2>1, <2>4, <2>5
  <2> QED BY <2>6, <2>7
<1>6. CallerFits(callers[c])' <=>
        /\ callers'[c].asked <= now'
        /\ callers'[c].st = "tip" => tipLoad' # 0
        /\ callers'[c].st = "params" =>
              /\ callers'[c].tip \in Epochs /\ paramsLoad'[callers'[c].tip] # 0
              /\ Fresh(callers[c].tip, callers[c].asked - PP!Window)'
        /\ callers'[c].st = "recovery" =>
              /\ callers'[c].on \in Recoveries /\ recoveries'[callers'[c].on].st # "idle"
              /\ callers'[c].asked - LoadMax <= recoveries'[callers'[c].on].since
              /\ Calm' => callers'[c].tip <= history'[recoveries'[callers'[c].on].since]
        /\ callers'[c].st = "done" =>
              /\ Fresh(callers[c].answer, callers[c].asked - PP!Window)'
              /\ Calm' => callers'[c].tip <= callers'[c].answer
  BY DEF CallerFits
<1> QED BY <1>1, <1>2, <1>3, <1>4, <1>5, <1>6 DEF CallerFits

\* A caller that a step ends: with an error, or with an answer that is fresh enough.
LEMMA CallerFails ==
    ASSUME ParamsInv, UNCHANGED <<lag, history>>, NEW c \in Callers,
           callers'[c] = [callers[c] EXCEPT !.st = "failed"]
    PROVE  CallerFits(callers[c])' /\ callers'[c] \in Caller
<1>1. callers[c] \in Caller /\ callers[c].asked <= now
  BY Ranges DEF ParamsInv, CallersFit, CallerFits
<1>2. callers'[c] \in Caller /\ callers'[c].st = "failed" /\ callers'[c].asked = callers[c].asked
  BY <1>1 DEF Caller
<1>3. now' = now
  BY DEF now
<1> QED BY <1>1, <1>2, <1>3 DEF CallerFits

LEMMA CallerAnswered ==
    ASSUME ParamsInv, UNCHANGED <<lag, history>>, NEW c \in Callers, NEW e,
           callers'[c].st = "done", callers'[c].asked = callers[c].asked, callers'[c].answer = e,
           Fresh(e, callers[c].asked - PP!Window), Calm => callers'[c].tip <= e
    PROVE  CallerFits(callers[c])'
<1>1. callers[c].asked <= now /\ now' = now
  BY DEF ParamsInv, CallersFit, CallerFits, now
<1>2. Fresh(callers[c].answer, callers[c].asked - PP!Window)'
  BY <1>1 DEF Fresh, now
<1> QED BY <1>1, <1>2, SameClock DEF CallerFits

-----------------------------------------------------------------------------
(* Every step keeps the invariant.                                          *)

LEMMA ParamsInit == PP!Init => ParamsInv
<1> SUFFICES ASSUME PP!Init PROVE ParamsInv
  OBVIOUS
<1>1. history = <<1>> /\ now = 1 /\ history[1] = 1 /\ lag \in Nat
  BY ParamsNumbers DEF PP!Init, now
<1>2. ParamsTyped
  <2>1. /\ lag \in 0..MaxLag /\ tipLoad = 0 /\ tip = [epoch |-> 0, expiresAt |-> 0]
        /\ params = [e \in Epochs |-> 0] /\ paramsLoad = [e \in Epochs |-> 0]
        /\ protocolParamsRecovery = NoRecovery
        /\ recoveries = [r \in Recoveries |-> PP!IdleRecovery]
        /\ callers = [c \in Callers |-> PP!IdleCaller]
    BY DEF PP!Init, Epochs, PP!Epochs
  <2>2. 1 \in Epochs /\ 0 \in 0..MaxEpoch /\ history \in Seq(Epochs)
    BY <1>1, ParamsNumbers
  <2>3. PP!IdleRecovery \in Recovery /\ PP!IdleCaller \in Caller
    BY IdleTyped
  <2>4. recoveries \in [Recoveries -> Recovery] /\ callers \in [Callers -> Caller]
    BY <2>1, <2>3
  <2>5. tip \in [epoch : 0..MaxEpoch, expiresAt : Nat]
    BY <2>1, <2>2
  <2>6. params \in [Epochs -> 0..MaxEpoch] /\ paramsLoad \in [Epochs -> Nat]
    BY <2>1, <2>2
  <2> QED BY <1>1, <2>1, <2>2, <2>4, <2>5, <2>6 DEF ParamsTyped
<1>3. Chain
  BY <1>1 DEF Chain
<1>4. Reads /\ OnlyRegistered /\ CacheFits
  BY DEF PP!Init, PP!IdleRecovery, Reads, OnlyRegistered, CacheFits, Epochs, PP!Epochs
<1>5. CallersFit
  BY <1>1 DEF PP!Init, PP!IdleCaller, CallersFit, CallerFits
<1> QED BY <1>1, <1>2, <1>3, <1>4, <1>5 DEF ParamsInv

\* The clock: a read in flight has not timed out, and an epoch ends only when it
\* is old enough.
LEMMA StepTick == ASSUME ParamsInv, PP!Tick PROVE ParamsInv'
<1>1. /\ \A u \in PP!Outstanding : now - u < LoadMax
      /\ UNCHANGED <<lag, tip, tipLoad, params, paramsLoad, protocolParamsRecovery,
                     recoveries, callers>>
  BY DEF PP!Tick, PP!now, now
<1>2. PICK e \in {history[now]} \cup (IF PP!EpochMayEnd THEN {history[now] + 1} ELSE {}) :
          history' = Append(history, e)
  BY DEF PP!Tick, PP!Last, now
<1>3. /\ now \in Nat \ {0} /\ history \in Seq(Epochs) /\ DOMAIN history = 1..now
      /\ \A t \in 1..now : history[t] \in Epochs /\ history[t] \in Nat
  BY Clock DEF ParamsInv, ParamsTyped
<1>4. /\ e \in Epochs /\ e \in Nat /\ history[now] <= e /\ e <= history[now] + 1
      /\ e # history[now] =>
            \A t \in 1..now : now - t < MinEpoch => history[t] = history[now]
  <2>1. history[now] \in Nat /\ history[now] \in Epochs
    BY <1>3
  <2>2. CASE e = history[now]
    BY <2>1, <2>2
  <2>3. CASE e # history[now]
    <3>1. PP!EpochMayEnd /\ e = history[now] + 1
      BY <1>2, <2>3
    <3>2. /\ history[now] < MaxEpoch
          /\ \A t \in (now - MinEpoch + 1)..now : history[t] = history[now]
      BY <3>1 DEF PP!EpochMayEnd, PP!Last, PP!now, now
    <3>3. \A t \in 1..now : now - t < MinEpoch => t \in (now - MinEpoch + 1)..now
      BY <1>3, ParamsNumbers
    <3> QED BY <2>1, <3>1, <3>2, <3>3, ParamsNumbers
  <2> QED BY <2>2, <2>3
<1>5. /\ now' = now + 1 /\ history'[now + 1] = e
      /\ \A t \in 1..now : history'[t] = history[t]
      /\ history' \in Seq(Epochs)
  BY <1>2, <1>3, <1>4 DEF now
<1>6. ParamsTyped'
  BY <1>1, <1>5 DEF ParamsInv, ParamsTyped
<1>7. Chain'
  <2> SUFFICES ASSUME NEW i \in 1..now + 1, NEW j \in 1..now + 1, i <= j
               PROVE  /\ history'[i] <= history'[j]
                      /\ j - i <= MinEpoch => history'[j] <= history'[i] + 1
    BY <1>5 DEF Chain
  <2>1. CASE j \in 1..now
    <3>1. i \in 1..now
      BY <1>3, <2>1
    <3> QED BY <1>5, <2>1, <3>1 DEF ParamsInv, Chain
  <2>2. CASE j = now + 1 /\ i = now + 1
    BY <1>4, <1>5, <2>2
  <2>3. CASE j = now + 1 /\ i \in 1..now
    <3>1. history[i] <= history[now] /\ history[i] \in Nat /\ history[now] \in Nat
      BY <1>3, <2>3 DEF ParamsInv, Chain
    <3>2. now - i <= MinEpoch => history[now] <= history[i] + 1
      BY <1>3, <2>3 DEF ParamsInv, Chain
    <3>3. e # history[now] /\ now - i < MinEpoch => history[i] = history[now]
      BY <1>4, <2>3
    <3>4. j - i <= MinEpoch => now - i < MinEpoch /\ now - i <= MinEpoch
      BY <1>3, <2>3, ParamsNumbers
    <3>5. history'[i] = history[i] /\ history'[j] = e
      BY <1>5, <2>3
    <3> QED BY <1>4, <3>1, <3>2, <3>3, <3>4, <3>5
  <2>4. j \in 1..now \/ j = now + 1
    BY <1>3
  <2>5. i \in 1..now \/ i = now + 1
    BY <1>3
  <2> QED BY <1>3, <2>1, <2>2, <2>3, <2>4, <2>5
<1>8. Reads'
  <2>1. tipLoad # 0 => tipLoad \in PP!Outstanding
    BY DEF PP!Outstanding
  <2>2. \A x \in Epochs : paramsLoad[x] # 0 => paramsLoad[x] \in PP!Outstanding
    BY DEF PP!Outstanding, Epochs, PP!Epochs
  <2>3. \A r \in Recoveries : recoveries[r].st # "idle" /\ recoveries[r].since # 0
            => recoveries[r].since \in PP!Outstanding
    BY DEF PP!Outstanding, PP!Running
  <2>5. tipLoad' # 0 => Reading(tipLoad)'
    BY <1>1, <1>3, <1>5, <2>1, ParamsNumbers DEF ParamsInv, Reads, Reading
  <2>6. ASSUME NEW x \in Epochs, paramsLoad'[x] # 0
        PROVE  Reading(paramsLoad[x])' /\ x <= history'[paramsLoad'[x]]
    <3>1. /\ Reading(paramsLoad[x]) /\ x <= history[paramsLoad[x]]
          /\ paramsLoad[x] \in PP!Outstanding /\ paramsLoad'[x] = paramsLoad[x]
      BY <1>1, <2>2, <2>6 DEF ParamsInv, Reads
    <3>2. paramsLoad[x] \in 1..now /\ history'[paramsLoad[x]] = history[paramsLoad[x]]
      BY <1>5, <3>1 DEF Reading
    <3>3. now - paramsLoad[x] < LoadMax
      BY <1>1, <3>1
    <3> QED BY <1>3, <1>5, <3>1, <3>2, <3>3, ParamsNumbers DEF Reading
  <2>7. ASSUME NEW r \in Recoveries, recoveries'[r].st # "idle"
        PROVE  Reading(recoveries[r].since)'
    <3>1. Reading(recoveries[r].since) /\ recoveries' = recoveries
      BY <1>1, <2>7 DEF ParamsInv, Reads
    <3>2. recoveries[r].since \in 1..now
      BY <3>1 DEF Reading
    <3>3. now - recoveries[r].since < LoadMax
      BY <1>1, <1>3, <2>3, <2>7, <3>1, <3>2
    <3> QED BY <1>3, <1>5, <3>1, <3>2, <3>3, ParamsNumbers DEF Reading
  <2> QED BY <2>5, <2>6, <2>7 DEF Reads, Epochs, PP!Epochs
<1>9. OnlyRegistered'
  BY <1>1, RecoveriesStay
<1>10. CacheFits'
  <2>1. ASSUME tip.epoch # 0
        PROVE  /\ tip.expiresAt <= now + 1 + TipTtl /\ tip.epoch <= e
               /\ Fresh(tip.epoch, tip.expiresAt - TipTtl - LoadMax)'
    <3>1. /\ tip.expiresAt <= now + TipTtl /\ tip.epoch <= history[now]
          /\ Fresh(tip.epoch, tip.expiresAt - TipTtl - LoadMax)
      BY <2>1 DEF ParamsInv, CacheFits
    <3>2. /\ tip.expiresAt \in Nat /\ tip.epoch \in Nat /\ TipTtl \in Nat /\ LoadMax \in Nat
          /\ history[now] \in Nat
      BY <1>3, Ranges, ParamsNumbers
    <3>3. /\ tip.expiresAt - TipTtl - LoadMax \in Int
          /\ tip.expiresAt - TipTtl - LoadMax <= now
      BY <1>3, <3>1, <3>2
    <3>4. \A t \in 1..now + 1 : t <= tip.expiresAt - TipTtl - LoadMax
              => t \in 1..now /\ history'[t] - lag <= tip.epoch
      <4> SUFFICES ASSUME NEW t \in 1..now + 1, t <= tip.expiresAt - TipTtl - LoadMax
                   PROVE  t \in 1..now /\ history'[t] - lag <= tip.epoch
        OBVIOUS
      <4>1. t \in 1..now
        BY <1>3, <3>3
      <4> QED BY <1>5, <3>1, <4>1 DEF Fresh
    <3>5. Fresh(tip.epoch, tip.expiresAt - TipTtl - LoadMax)'
      BY <1>1, <1>5, <3>4 DEF Fresh
    <3> QED BY <1>3, <1>4, <3>1, <3>2, <3>5
  <2> QED BY <1>1, <1>5, <2>1 DEF ParamsInv, CacheFits
<1>11. CallersFit'
  <2> SUFFICES ASSUME NEW c \in Callers PROVE CallerFits(callers[c])'
    BY DEF CallersFit
  <2>1. CallerFits(callers[c]) /\ callers' = callers /\ callers[c] \in Caller
    BY <1>1, Ranges DEF ParamsInv, CallersFit
  <2>2. callers[c].asked \in Nat /\ callers[c].asked <= now /\ PP!Window \in Nat
    BY <2>1, ParamsNumbers DEF CallerFits, Caller
  <2>3. callers[c].asked - PP!Window \in Int /\ callers[c].asked - PP!Window <= now
    BY <1>3, <2>2
  <2>4. \A x : Fresh(x, callers[c].asked - PP!Window) => Fresh(x, callers[c].asked - PP!Window)'
    <3> SUFFICES ASSUME NEW x, Fresh(x, callers[c].asked - PP!Window),
                        NEW t \in 1..now + 1, t <= callers[c].asked - PP!Window
                 PROVE  history'[t] - lag <= x
      BY <1>1, <1>5 DEF Fresh
    <3>1. t \in 1..now
      BY <1>3, <2>3
    <3> QED BY <1>5, <3>1 DEF Fresh
  <2>5. callers[c].asked <= now'
    BY <1>3, <1>5, <2>2
  <2>6. callers[c].st = "recovery" => history'[recoveries[callers[c].on].since]
                                          = history[recoveries[callers[c].on].since]
    BY <1>5, <2>1 DEF CallerFits, ParamsInv, Reads, Reading
  <2>7. Calm' <=> Calm
    BY <1>1 DEF Calm
  <2> QED BY <1>1, <2>1, <2>4, <2>5, <2>6, <2>7 DEF CallerFits
<1>12. now' >= 1
  BY <1>3, <1>5
<1> QED BY <1>6, <1>7, <1>8, <1>9, <1>10, <1>11, <1>12 DEF ParamsInv

\* A call that finds the tip in the cache: it is as fresh as its expiry says, and
\* so are the parameters under its epoch.
LEMMA StepCallWithTipCached ==
    ASSUME ParamsInv, NEW c \in Callers, NEW want \in {"tip", "params"},
           PP!CallWithTipCached(c, want)
    PROVE  ParamsInv'
<1> DEFINE e == tip.epoch
           ends == want = "tip" \/ params[e] # 0
           call == [PP!IdleCaller EXCEPT !.st = "tip", !.want = want, !.asked = now]
           answer == IF want = "tip" THEN e ELSE params[e]
<1>1. /\ tip.epoch # 0 /\ tip.expiresAt > now /\ callers[c].st = "idle"
      /\ UNCHANGED <<lag, history, tip, tipLoad, params, protocolParamsRecovery, recoveries>>
  BY DEF PP!CallWithTipCached, PP!TipLive, PP!now, now
<1>2. /\ ends => /\ callers' = [[callers EXCEPT ![c] = call] EXCEPT ![c].st = "done", ![c].tip = e,
                                   ![c].answer = answer]
                  /\ paramsLoad' = paramsLoad
      /\ ~ends => /\ callers' = [[callers EXCEPT ![c] = call] EXCEPT ![c].st = "params", ![c].tip = e]
                   /\ paramsLoad' = IF paramsLoad[e] = 0
                                    THEN [paramsLoad EXCEPT ![e] = now] ELSE paramsLoad
  BY DEF PP!CallWithTipCached, PP!CachedParams, PP!now, now
<1>3. /\ now \in Nat \ {0} /\ e \in Epochs /\ e \in 0..MaxEpoch /\ e \in Nat
      /\ answer \in 0..MaxEpoch /\ (ends => answer = e)
      /\ e <= history[now] /\ history[now] \in Nat
  BY <1>1, Clock, Ranges, ParamsNumbers DEF ParamsInv, CacheFits
<1>4. Fresh(e, now - PP!Window)
  <2>1. Fresh(e, tip.expiresAt - TipTtl - LoadMax)
    BY <1>1 DEF ParamsInv, CacheFits
  <2>2. /\ now - PP!Window \in Int /\ tip.expiresAt - TipTtl - LoadMax \in Int
        /\ now - PP!Window <= tip.expiresAt - TipTtl - LoadMax
    BY <1>1, <1>3, Ranges, ParamsNumbers
  <2> QED BY <1>3, <2>1, <2>2, FreshOlder
<1>5. /\ callers \in [Callers -> Caller] /\ paramsLoad \in [Epochs -> Nat]
  BY DEF ParamsInv, ParamsTyped
<1>6. /\ callers' \in [Callers -> Caller]
      /\ \A d \in Callers : d # c => callers'[d] = callers[d]
      /\ callers'[c].asked = now /\ callers'[c].tip = e
      /\ ends => callers'[c].st = "done" /\ callers'[c].answer = e
      /\ ~ends => callers'[c].st = "params"
  <2>1. call \in Caller /\ call.asked = now
    BY <1>3, IdleTyped DEF Caller
  <2>2. CASE ends
    <3>1. callers' = [callers EXCEPT ![c] =
                         [call EXCEPT !.st = "done", !.tip = e, !.answer = answer]]
      <4> HIDE DEF call
      <4> QED BY <1>2, <1>5, <2>2
    <3>2. /\ [call EXCEPT !.st = "done", !.tip = e, !.answer = answer] \in Caller
          /\ [call EXCEPT !.st = "done", !.tip = e, !.answer = answer].asked = now
          /\ [call EXCEPT !.st = "done", !.tip = e, !.answer = answer].tip = e
          /\ [call EXCEPT !.st = "done", !.tip = e, !.answer = answer].st = "done"
          /\ [call EXCEPT !.st = "done", !.tip = e, !.answer = answer].answer = answer
      <4> HIDE DEF call, e, answer
      <4> QED BY <1>3, <2>1 DEF Caller
    <3> DEFINE x == [call EXCEPT !.st = "done", !.tip = e, !.answer = answer]
    <3> HIDE DEF e, answer, call, ends, x
    <3>3. x \in Caller /\ callers' = [callers EXCEPT ![c] = x]
      BY <3>1, <3>2 DEF x
    <3>4. x.asked = now /\ x.tip = e /\ x.st = "done" /\ x.answer = e
      BY <1>3, <2>2, <3>2 DEF x
    <3> QED BY <1>5, <2>2, <3>3, <3>4
  <2>3. CASE ~ends
    <3>1. callers' = [callers EXCEPT ![c] = [call EXCEPT !.st = "params", !.tip = e]]
      <4> HIDE DEF call
      <4> QED BY <1>2, <1>5, <2>3
    <3>2. /\ [call EXCEPT !.st = "params", !.tip = e] \in Caller
          /\ [call EXCEPT !.st = "params", !.tip = e].asked = now
          /\ [call EXCEPT !.st = "params", !.tip = e].tip = e
          /\ [call EXCEPT !.st = "params", !.tip = e].st = "params"
      <4> HIDE DEF call, e
      <4> QED BY <1>3, <2>1 DEF Caller
    <3> DEFINE x == [call EXCEPT !.st = "params", !.tip = e]
    <3> HIDE DEF e, answer, call, ends, x
    <3>3. x \in Caller /\ callers' = [callers EXCEPT ![c] = x]
      BY <3>1, <3>2 DEF x
    <3>4. x.asked = now /\ x.tip = e /\ x.st = "params"
      BY <3>2 DEF x
    <3> QED BY <1>5, <2>3, <3>3, <3>4
  <2> QED BY <2>2, <2>3
<1>7. /\ paramsLoad' \in [Epochs -> Nat]
      /\ \A x \in Epochs : paramsLoad'[x] # paramsLoad[x] => x = e /\ paramsLoad'[x] = now
      /\ \A x \in Epochs : paramsLoad[x] # 0 => paramsLoad'[x] # 0
      /\ ~ends => paramsLoad'[e] # 0
  BY <1>2, <1>3, <1>5
<1>8. ParamsTyped'
  BY <1>1, <1>6, <1>7 DEF ParamsInv, ParamsTyped
<1>9. Reads'
  <2>1. \A x \in Epochs : paramsLoad'[x] # 0 =>
            Reading(paramsLoad'[x]) /\ x <= history[paramsLoad'[x]]
    <3>1. Reading(now)
      BY <1>3, ParamsNumbers DEF Reading
    <3> HIDE DEF e, ends
    <3> QED BY <1>3, <1>7, <3>1 DEF ParamsInv, Reads, e
  <2> QED BY <1>1, <2>1 DEF ParamsInv, Reads, Reading, now, Epochs, PP!Epochs
<1>10. CallersFit'
  <2> SUFFICES ASSUME NEW d \in Callers PROVE CallerFits(callers[d])'
    BY DEF CallersFit
  <2>1. CASE d # c
    <3>1. callers[d].st = "params" => callers[d].tip \in Epochs /\ paramsLoad[callers[d].tip] # 0
      BY DEF ParamsInv, CallersFit, CallerFits
    <3>2. callers[d].st = "tip" => tipLoad' # 0
      BY <1>1 DEF ParamsInv, CallersFit, CallerFits
    <3>3. callers[d].st = "recovery" => recoveries'[callers[d].on].st # "idle"
      BY <1>1 DEF ParamsInv, CallersFit, CallerFits
    <3>4. callers'[d] = callers[d]
      BY <1>6, <2>1
    <3>5. callers[d].st = "params" => paramsLoad'[callers[d].tip] # 0
      BY <1>7, <3>1
    <3>6. recoveries' = recoveries
      BY <1>1
    <3> HIDE DEF ends
    <3> QED BY <1>1, <3>2, <3>3, <3>4, <3>5, <3>6, CallerStays
  <2>2. CASE d = c
    <3>1. now' = now /\ Fresh(e, now - PP!Window)'
      BY <1>1, <1>4 DEF Fresh, now
    <3> HIDE DEF e, ends
    <3>2. Fresh(callers[c].tip, callers[c].asked - PP!Window)'
      BY <1>1, <1>6, <3>1 DEF Fresh, e, now
    <3>3. ends => Fresh(callers[c].answer, callers[c].asked - PP!Window)'
      BY <1>1, <1>6, <3>1 DEF Fresh, e, now
    <3> QED BY <1>3, <1>6, <1>7, <2>2, <3>1, <3>2, <3>3 DEF CallerFits
  <2> QED BY <2>1, <2>2
<1> QED BY <1>1, <1>8, <1>9, <1>10, PartsSuffice, CacheStays, RecoveriesStay

\* A call without it joins the read in flight, or begins one.
LEMMA StepCallWithoutTip ==
    ASSUME ParamsInv, NEW c \in Callers, NEW want \in {"tip", "params"},
           PP!CallWithoutTip(c, want)
    PROVE  ParamsInv'
<1> DEFINE call == [PP!IdleCaller EXCEPT !.st = "tip", !.want = want, !.asked = now]
<1>1. /\ callers' = [callers EXCEPT ![c] = call]
      /\ tipLoad' = IF tipLoad = 0 THEN now ELSE tipLoad
      /\ UNCHANGED <<lag, history, tip, params, paramsLoad, protocolParamsRecovery, recoveries>>
  BY DEF PP!CallWithoutTip, PP!now, now
<1>2. now \in Nat \ {0} /\ tipLoad' \in Nat /\ tipLoad' # 0 /\ Reading(tipLoad')
  BY <1>1, Clock, Ranges, ParamsNumbers DEF ParamsInv, Reads, Reading
<1>3. /\ call \in Caller /\ call.st = "tip" /\ call.asked = now
      /\ callers \in [Callers -> Caller] /\ callers' \in [Callers -> Caller]
  <2>1. call \in Caller /\ call.st = "tip" /\ call.asked = now
    BY <1>2, IdleTyped DEF Caller
  <2> HIDE DEF call
  <2> QED BY <1>1, <2>1 DEF ParamsInv, ParamsTyped
<1> HIDE DEF call
<1>4. ParamsTyped'
  BY <1>1, <1>2, <1>3 DEF ParamsInv, ParamsTyped
<1>5. Reads'
  BY <1>1, <1>2 DEF ParamsInv, Reads, Reading, now, Epochs, PP!Epochs
<1>6. CallersFit'
  <2> SUFFICES ASSUME NEW d \in Callers PROVE CallerFits(callers[d])'
    BY DEF CallersFit
  <2>1. CASE d # c
    <3>1. callers'[d] = callers[d]
      BY <1>1, <2>1 DEF ParamsInv, ParamsTyped
    <3>2. callers[d].st = "params" => paramsLoad'[callers[d].tip] # 0
      BY <1>1 DEF ParamsInv, CallersFit, CallerFits
    <3>3. callers[d].st = "recovery" => recoveries'[callers[d].on].st # "idle"
      BY <1>1 DEF ParamsInv, CallersFit, CallerFits
    <3>4. recoveries' = recoveries
      BY <1>1
    <3> QED BY <1>1, <1>2, <3>1, <3>2, <3>3, <3>4, CallerStays
  <2>2. CASE d = c
    <3>1. callers'[c].st = "tip" /\ callers'[c].asked = now /\ now' = now
      BY <1>1, <1>3 DEF now
    <3> QED BY <1>2, <2>2, <3>1 DEF CallerFits
  <2> QED BY <2>1, <2>2
<1> QED BY <1>1, <1>4, <1>5, <1>6, PartsSuffice, CacheStays, RecoveriesStay

\* The tip arrives.  It is as new as the read behind it is old, and those who wait
\* for it go on to the parameters of its epoch.
LEMMA StepTipLoaded ==
    ASSUME ParamsInv, NEW e, PP!TipLoaded(e)
    PROVE  ParamsInv'
<1> DEFINE waits == PP!AwaitingTip
<1>1. /\ tipLoad # 0 /\ e \in PP!Answers(tipLoad) /\ tipLoad' = 0
      /\ tip' = [epoch |-> e, expiresAt |-> now + TipTtl]
      /\ callers' = PP!WithTip(waits, e) /\ paramsLoad' = PP!ParamsLoadAfter(waits, e)
      /\ UNCHANGED <<lag, history, params, protocolParamsRecovery, recoveries>>
  BY DEF PP!TipLoaded, PP!TipRead, PP!PublishedTip, PP!now, now
<1>2. /\ Reading(tipLoad) /\ e \in Nat \ {0} /\ Fresh(e, now - LoadMax) /\ e <= history[now]
      /\ now \in Nat \ {0} /\ history[now] \in Epochs
  <2>1. Reading(tipLoad)
    BY <1>1 DEF ParamsInv, Reads
  <2> QED BY <1>1, <2>1, AnswersAreFresh, Clock
<1>3. e \in Epochs /\ e \in 0..MaxEpoch /\ params[e] \in {0, e}
  <2>1. e \in Epochs /\ e \in 0..MaxEpoch
    BY <1>2, ParamsNumbers
  <2> QED BY <2>1 DEF ParamsInv, CacheFits
<1>4. \A c \in Callers : callers[c].asked <= now /\ callers[c].asked \in Nat
  BY Ranges DEF ParamsInv, CallersFit, CallerFits
<1>5. \A c \in Callers : c \notin waits => callers'[c] = callers[c] /\ callers[c].st # "tip"
  BY <1>1 DEF PP!WithTip, PP!AwaitingTip
<1>6. ASSUME NEW c \in Callers, c \in waits
      PROVE  /\ callers'[c] \in Caller /\ callers'[c].asked = callers[c].asked
             /\ callers'[c].tip = e
             /\ \/ callers'[c].st = "done" /\ callers'[c].answer = e
                \/ callers'[c].st = "params" /\ paramsLoad'[e] # 0
  <2> DEFINE call == callers[c]
  <2>1. call \in Caller
    BY Ranges
  <2>2. CASE call.want = "tip"
    <3>1. callers'[c] = [call EXCEPT !.st = "done", !.tip = e, !.answer = e]
      BY <1>1, <1>6, <2>2 DEF PP!WithTip
    <3>2. LET y == [callers[c] EXCEPT !.st = "done", !.tip = e, !.answer = e]
          IN  y \in Caller /\ y.st = "done" /\ y.asked = callers[c].asked /\ y.tip = e /\ y.answer = e
      BY <1>3, <2>1 DEF Caller
    <3> QED BY <3>1, <3>2
  <2>3. CASE call.want # "tip" /\ params[e] # 0
    <3>1. callers'[c] = [call EXCEPT !.st = "done", !.tip = e, !.answer = params[e]]
      BY <1>1, <1>6, <2>3 DEF PP!WithTip, PP!CachedParams
    <3>2. params[e] = e
      BY <1>3, <2>3
    <3>3. callers'[c] = [call EXCEPT !.st = "done", !.tip = e, !.answer = e]
      BY <3>1, <3>2
    <3>4. LET y == [callers[c] EXCEPT !.st = "done", !.tip = e, !.answer = e]
          IN  y \in Caller /\ y.st = "done" /\ y.asked = callers[c].asked /\ y.tip = e /\ y.answer = e
      BY <1>3, <2>1 DEF Caller
    <3> QED BY <3>3, <3>4
  <2>4. CASE call.want # "tip" /\ params[e] = 0
    <3>1. callers'[c] = [call EXCEPT !.st = "params", !.tip = e]
      BY <1>1, <1>6, <2>4 DEF PP!WithTip, PP!CachedParams
    <3>2. paramsLoad'[e] # 0
      <4>1. call.want = "params"
        BY <2>1, <2>4 DEF Caller
      <4>2. paramsLoad[e] = 0 => PP!StartsParams(waits, e)
        BY <1>6, <2>4, <4>1 DEF PP!StartsParams, PP!CachedParams
      <4>3. paramsLoad \in [Epochs -> Nat]
        BY DEF ParamsInv, ParamsTyped
      <4> QED BY <1>1, <1>2, <1>3, <4>2, <4>3 DEF PP!ParamsLoadAfter, PP!now, now
    <3>3. LET y == [callers[c] EXCEPT !.st = "params", !.tip = e]
          IN  y \in Caller /\ y.st = "params" /\ y.asked = callers[c].asked /\ y.tip = e
      BY <1>3, <2>1 DEF Caller
    <3> QED BY <3>1, <3>2, <3>3
  <2> QED BY <2>2, <2>3, <2>4
<1>7. /\ paramsLoad' \in [Epochs -> Nat]
      /\ \A x \in Epochs : paramsLoad'[x] # paramsLoad[x] => x = e /\ paramsLoad'[x] = now
      /\ \A x \in Epochs : paramsLoad[x] # 0 => paramsLoad'[x] # 0
  <2>1. paramsLoad \in [Epochs -> Nat]
    BY DEF ParamsInv, ParamsTyped
  <2>2. \/ paramsLoad' = paramsLoad
        \/ paramsLoad[e] = 0 /\ paramsLoad' = [paramsLoad EXCEPT ![e] = now]
    BY <1>1 DEF PP!ParamsLoadAfter, PP!StartsParams, PP!now, now
  <2> QED BY <1>2, <1>3, <2>1, <2>2
<1> HIDE DEF waits
<1>8. ParamsTyped'
  <2>1. callers' \in [Callers -> Caller]
    <3>1. \A c \in Callers : callers'[c] \in Caller
      BY <1>5, <1>6, Ranges
    <3>2. callers' = [c \in Callers |-> callers'[c]]
      BY <1>1 DEF PP!WithTip
    <3> QED BY <3>1, <3>2
  <2>2. tip' \in [epoch : 0..MaxEpoch, expiresAt : Nat] /\ tipLoad' \in Nat
    <3>1. now + TipTtl \in Nat
      BY <1>2, ParamsNumbers
    <3> QED BY <1>1, <1>3, <3>1
  <2> QED BY <1>1, <1>7, <2>1, <2>2 DEF ParamsInv, ParamsTyped
<1>9. Reads'
  <2>1. \A x \in Epochs : paramsLoad'[x] # 0 =>
            Reading(paramsLoad'[x]) /\ x <= history[paramsLoad'[x]]
    <3>1. Reading(now)
      BY <1>2, ParamsNumbers DEF Reading
    <3> QED BY <1>2, <1>7, <3>1 DEF ParamsInv, Reads
  <2> QED BY <1>1, <2>1 DEF ParamsInv, Reads, Reading, now, Epochs, PP!Epochs
<1>10. CacheFits'
  <2>1. tip'.epoch = e /\ tip'.expiresAt = now + TipTtl
    BY <1>1
  <2>2. now' = now /\ tip'.expiresAt - TipTtl - LoadMax = now - LoadMax
    BY <1>1, <1>2, <2>1, ParamsNumbers DEF now
  <2>3. Fresh(tip.epoch, tip.expiresAt - TipTtl - LoadMax)'
    BY <1>1, <1>2, <2>1, <2>2 DEF Fresh
  <2>4. now + TipTtl <= now + TipTtl
    BY <1>2, ParamsNumbers
  <2> QED BY <1>1, <1>2, <2>1, <2>2, <2>3, <2>4 DEF ParamsInv, CacheFits, Epochs, PP!Epochs
<1>11. CallersFit'
  <2> SUFFICES ASSUME NEW c \in Callers PROVE CallerFits(callers[c])'
    BY DEF CallersFit
  <2>1. CASE c \notin waits
    <3>1. callers[c].st = "params" => callers[c].tip \in Epochs /\ paramsLoad[callers[c].tip] # 0
      BY DEF ParamsInv, CallersFit, CallerFits
    <3>2. callers[c].st = "params" => paramsLoad'[callers[c].tip] # 0
      BY <1>7, <3>1
    <3>3. callers[c].st = "recovery" => recoveries'[callers[c].on].st # "idle"
      BY <1>1 DEF ParamsInv, CallersFit, CallerFits
    <3>4. recoveries' = recoveries /\ UNCHANGED <<lag, history>>
      BY <1>1
    <3> QED BY <1>5, <2>1, <3>2, <3>3, <3>4, CallerStays
  <2>2. CASE c \in waits
    <3> DEFINE from == callers[c].asked - PP!Window
    <3>1. Fresh(e, from)
      <4>1. from \in Int /\ now - LoadMax \in Int /\ from <= now - LoadMax
        BY <1>2, <1>4, ParamsNumbers
      <4> HIDE DEF from
      <4> QED BY <1>2, <4>1, FreshOlder
    <3>2. CASE callers'[c].st = "done"
      BY <1>1, <1>2, <1>6, <2>2, <3>1, <3>2, CallerAnswered
    <3>3. CASE callers'[c].st # "done"
      <4>1. /\ callers'[c].st = "params" /\ callers'[c].tip = e /\ paramsLoad'[e] # 0
            /\ callers'[c].asked = callers[c].asked /\ now' = now
        BY <1>1, <1>6, <2>2, <3>3 DEF now
      <4>2. Fresh(callers[c].tip, callers[c].asked - PP!Window)'
        BY <1>1, <3>1, <4>1 DEF Fresh
      <4> QED BY <1>3, <1>4, <4>1, <4>2 DEF CallerFits
    <3> QED BY <3>2, <3>3
  <2> QED BY <2>1, <2>2
<1> QED BY <1>1, <1>8, <1>9, <1>10, <1>11, PartsSuffice, RecoveriesStay

LEMMA StepTipFails == ASSUME ParamsInv, PP!TipFails PROVE ParamsInv'
<1>1. /\ tipLoad' = 0 /\ callers' = PP!Failed(PP!AwaitingTip)
      /\ UNCHANGED <<lag, history, tip, params, paramsLoad, protocolParamsRecovery, recoveries>>
  BY DEF PP!TipFails
<1>2. \A c \in Callers :
        callers'[c] = IF callers[c].st = "tip" THEN [callers[c] EXCEPT !.st = "failed"] ELSE callers[c]
  BY <1>1 DEF PP!Failed, PP!AwaitingTip
<1>3. CallersFit' /\ \A c \in Callers : callers'[c] \in Caller
  <2> SUFFICES ASSUME NEW c \in Callers PROVE CallerFits(callers[c])' /\ callers'[c] \in Caller
    BY DEF CallersFit
  <2>1. CASE callers[c].st = "tip"
    BY <1>1, <1>2, <2>1, CallerFails
  <2>2. CASE callers[c].st # "tip"
    <3>1. callers'[c] = callers[c] /\ callers[c] \in Caller /\ recoveries' = recoveries
      BY <1>1, <1>2, <2>2, Ranges
    <3>2. callers[c].st = "params" => paramsLoad'[callers[c].tip] # 0
      BY <1>1 DEF ParamsInv, CallersFit, CallerFits
    <3>3. callers[c].st = "recovery" => recoveries'[callers[c].on].st # "idle"
      BY <1>1 DEF ParamsInv, CallersFit, CallerFits
    <3> QED BY <1>1, <2>2, <3>1, <3>2, <3>3, CallerStays
  <2> QED BY <2>1, <2>2
<1>4. ParamsTyped'
  <2>1. callers' = [c \in Callers |-> callers'[c]]
    BY <1>1 DEF PP!Failed
  <2>2. callers' \in [Callers -> Caller]
    BY <1>3, <2>1
  <2> QED BY <1>1, <2>2 DEF ParamsInv, ParamsTyped
<1>5. Reads'
  BY <1>1 DEF ParamsInv, Reads, Reading, now, Epochs, PP!Epochs
<1> QED BY <1>1, <1>3, <1>4, <1>5, PartsSuffice, CacheStays, RecoveriesStay

\* A load of parameters that ends leaves one key, and no caller waits for it.
LEMMA KeyLeaves ==
    ASSUME ParamsInv, NEW key \in Epochs, paramsLoad' = [paramsLoad EXCEPT ![key] = 0]
    PROVE  /\ paramsLoad' \in [Epochs -> Nat]
           /\ \A x \in Epochs : paramsLoad'[x] # 0 => paramsLoad'[x] = paramsLoad[x]
           /\ \A c \in Callers : callers[c].st = "params" /\ callers[c].tip # key
                                  => paramsLoad'[callers[c].tip] # 0
<1>1. paramsLoad \in [Epochs -> Nat]
  BY DEF ParamsInv, ParamsTyped
<1>2. \A c \in Callers : callers[c].st = "params"
            => callers[c].tip \in Epochs /\ paramsLoad[callers[c].tip] # 0
  BY DEF ParamsInv, CallersFit, CallerFits
<1> QED BY <1>1, <1>2

\* Parameters of the epoch they were asked under.
LEMMA StepParamsLoaded ==
    ASSUME ParamsInv, NEW key \in Epochs, NEW e, PP!ParamsLoaded(key, e)
    PROVE  ParamsInv'
<1>1. /\ e = key /\ params' = [params EXCEPT ![key] = key]
      /\ paramsLoad' = [paramsLoad EXCEPT ![key] = 0]
      /\ callers' = [c \in Callers |-> IF c \in PP!AwaitingParams(key)
                                       THEN [callers[c] EXCEPT !.st = "done", !.answer = key]
                                       ELSE callers[c]]
      /\ UNCHANGED <<lag, history, tip, tipLoad, protocolParamsRecovery, recoveries>>
  BY DEF PP!ParamsLoaded, PP!Matches
<1>2. key \in 0..MaxEpoch
  BY ParamsNumbers
<1>3. CallersFit' /\ \A c \in Callers : callers'[c] \in Caller
  <2> SUFFICES ASSUME NEW c \in Callers PROVE CallerFits(callers[c])' /\ callers'[c] \in Caller
    BY DEF CallersFit
  <2>1. callers[c] \in Caller /\ CallerFits(callers[c])
    BY Ranges DEF ParamsInv, CallersFit
  <2>2. CASE c \in PP!AwaitingParams(key)
    <3>1. callers[c].st = "params" /\ callers[c].tip = key
      BY <2>2 DEF PP!AwaitingParams
    <3>2. callers'[c] = [callers[c] EXCEPT !.st = "done", !.answer = key]
      BY <1>1, <2>2
    <3>3. LET y == [callers[c] EXCEPT !.st = "done", !.answer = key]
          IN  y \in Caller /\ y.st = "done" /\ y.asked = callers[c].asked /\ y.tip = callers[c].tip
              /\ y.answer = key
      BY <1>2, <2>1 DEF Caller
    <3>4. /\ callers'[c] \in Caller /\ callers'[c].st = "done" /\ callers'[c].asked = callers[c].asked
          /\ callers'[c].tip = key /\ callers'[c].answer = key
      BY <3>1, <3>2, <3>3
    <3>5. Fresh(key, callers[c].asked - PP!Window)
      BY <2>1, <3>1 DEF CallerFits
    <3>6. key <= key
      BY ParamsNumbers
    <3> QED BY <1>1, <3>4, <3>5, <3>6, CallerAnswered
  <2>3. CASE c \notin PP!AwaitingParams(key)
    <3>1. callers'[c] = callers[c] /\ recoveries' = recoveries
      BY <1>1, <2>3
    <3>2. callers[c].st = "params" => paramsLoad'[callers[c].tip] # 0
      BY <1>1, <2>3, KeyLeaves DEF PP!AwaitingParams
    <3>3. callers[c].st = "tip" => tipLoad' # 0
      BY <1>1, <2>1 DEF CallerFits
    <3>4. callers[c].st = "recovery" => recoveries'[callers[c].on].st # "idle"
      BY <1>1, <2>1 DEF CallerFits
    <3> QED BY <1>1, <2>1, <3>1, <3>2, <3>3, <3>4, CallerStays
  <2> QED BY <2>2, <2>3
<1>4. ParamsTyped'
  <2>1. callers' = [c \in Callers |-> callers'[c]]
    BY <1>1
  <2>2. callers' \in [Callers -> Caller]
    BY <1>3, <2>1
  <2>3. params' \in [Epochs -> 0..MaxEpoch]
    BY <1>1, <1>2 DEF ParamsInv, ParamsTyped
  <2> QED BY <1>1, <2>2, <2>3, KeyLeaves DEF ParamsInv, ParamsTyped
<1>5. Reads'
  <2>1. \A x \in Epochs : paramsLoad'[x] # 0 =>
            Reading(paramsLoad'[x]) /\ x <= history[paramsLoad'[x]]
    BY <1>1, KeyLeaves DEF ParamsInv, Reads
  <2> QED BY <1>1, <2>1 DEF ParamsInv, Reads, Reading, now, Epochs, PP!Epochs
<1>6. CacheFits'
  <2>1. \A x \in Epochs : params'[x] \in {0, x}
    BY <1>1 DEF ParamsInv, ParamsTyped, CacheFits
  <2> QED BY <1>1, <2>1 DEF ParamsInv, CacheFits, Fresh, now, Epochs, PP!Epochs
<1> QED BY <1>1, <1>3, <1>4, <1>5, <1>6, PartsSuffice, RecoveriesStay

LEMMA StepParamsFail ==
    ASSUME ParamsInv, NEW key \in Epochs, PP!ParamsFail(key)
    PROVE  ParamsInv'
<1>1. /\ paramsLoad' = [paramsLoad EXCEPT ![key] = 0]
      /\ callers' = PP!Failed(PP!AwaitingParams(key))
      /\ UNCHANGED <<lag, history, tip, tipLoad, params, protocolParamsRecovery, recoveries>>
  BY DEF PP!ParamsFail
<1>2. \A c \in Callers :
        callers'[c] = IF c \in PP!AwaitingParams(key)
                      THEN [callers[c] EXCEPT !.st = "failed"] ELSE callers[c]
  BY <1>1 DEF PP!Failed
<1>3. CallersFit' /\ \A c \in Callers : callers'[c] \in Caller
  <2> SUFFICES ASSUME NEW c \in Callers PROVE CallerFits(callers[c])' /\ callers'[c] \in Caller
    BY DEF CallersFit
  <2>1. CASE c \in PP!AwaitingParams(key)
    BY <1>1, <1>2, <2>1, CallerFails
  <2>2. CASE c \notin PP!AwaitingParams(key)
    <3>1. callers'[c] = callers[c] /\ callers[c] \in Caller /\ recoveries' = recoveries
      BY <1>1, <1>2, <2>2, Ranges
    <3>2. callers[c].st = "params" => paramsLoad'[callers[c].tip] # 0
      BY <1>1, <2>2, KeyLeaves DEF PP!AwaitingParams
    <3>3. callers[c].st = "tip" => tipLoad' # 0
      BY <1>1 DEF ParamsInv, CallersFit, CallerFits
    <3>4. callers[c].st = "recovery" => recoveries'[callers[c].on].st # "idle"
      BY <1>1 DEF ParamsInv, CallersFit, CallerFits
    <3> QED BY <1>1, <3>1, <3>2, <3>3, <3>4, CallerStays
  <2> QED BY <2>1, <2>2
<1>4. ParamsTyped'
  <2>1. callers' = [c \in Callers |-> callers'[c]]
    BY <1>1 DEF PP!Failed
  <2>2. callers' \in [Callers -> Caller]
    BY <1>3, <2>1
  <2> QED BY <1>1, <2>2, KeyLeaves DEF ParamsInv, ParamsTyped
<1>5. Reads'
  <2>1. \A x \in Epochs : paramsLoad'[x] # 0 =>
            Reading(paramsLoad'[x]) /\ x <= history[paramsLoad'[x]]
    BY <1>1, KeyLeaves DEF ParamsInv, Reads
  <2> QED BY <1>1, <2>1 DEF ParamsInv, Reads, Reading, now, Epochs, PP!Epochs
<1> QED BY <1>1, <1>3, <1>4, <1>5, PartsSuffice, CacheStays, RecoveriesStay

\* Parameters of another epoch.  Those who asked wait for the recovery that is under
\* way, or for one that begins now; either began so late that what it reads is not
\* behind their tip.
LEMMA StepParamsMismatch ==
    ASSUME ParamsInv, NEW key \in Epochs, NEW e, PP!ParamsMismatch(key, e)
    PROVE  ParamsInv'
<1>1. /\ paramsLoad[key] # 0 /\ e \in PP!Answers(paramsLoad[key]) /\ e # key
      /\ paramsLoad' = [paramsLoad EXCEPT ![key] = 0]
      /\ UNCHANGED <<lag, history, tip, tipLoad, params>>
  BY DEF PP!ParamsMismatch, PP!ParamsRead, PP!Matches
<1>2. PICK r \in Recoveries :
          /\ \/ /\ protocolParamsRecovery # NoRecovery
                /\ r = protocolParamsRecovery /\ recoveries' = recoveries
             \/ /\ protocolParamsRecovery = NoRecovery /\ recoveries[r].st = "idle"
                /\ recoveries' = [recoveries EXCEPT ![r] = [st |-> "tip", since |-> now, tip |-> 0]]
          /\ protocolParamsRecovery' = r
          /\ callers' = [c \in Callers |-> IF c \in PP!AwaitingParams(key)
                                          THEN [callers[c] EXCEPT !.st = "recovery", !.on = r]
                                          ELSE callers[c]]
  BY DEF PP!ParamsMismatch, PP!JoinsRecovery, PP!now, now
<1>3. now \in Nat \ {0} /\ now' = now /\ history[now] \in Nat /\ NoRecovery \notin Recoveries
  BY <1>1, Clock, ParamsNumbers DEF now
<1>4. /\ recoveries' \in [Recoveries -> Recovery] /\ recoveries'[r].st # "idle"
      /\ Reading(recoveries'[r].since)
      /\ \A q \in Recoveries : recoveries'[q].st # "idle" => q = r
      /\ \A q \in Recoveries : recoveries[q].st # "idle" =>
              q = r /\ recoveries'[q] = recoveries[q]
  <2>1. recoveries \in [Recoveries -> Recovery]
    BY DEF ParamsInv, ParamsTyped
  <2>2. CASE protocolParamsRecovery # NoRecovery
    <3>1. r = protocolParamsRecovery /\ recoveries' = recoveries
      BY <1>2, <2>2
    <3>2. recoveries[r].st # "idle"
      BY <2>2, <3>1 DEF ParamsInv, ParamsTyped
    <3> QED BY <2>1, <3>1, <3>2 DEF ParamsInv, OnlyRegistered, Reads
  <2>3. CASE protocolParamsRecovery = NoRecovery
    <3>1. recoveries' = [recoveries EXCEPT ![r] = [st |-> "tip", since |-> now, tip |-> 0]]
      BY <1>2, <2>3
    <3>2. \A q \in Recoveries : recoveries[q].st = "idle"
      BY <1>3, <2>3 DEF ParamsInv, OnlyRegistered
    <3>3. [st |-> "tip", since |-> now, tip |-> 0] \in Recovery
      BY <1>3, ParamsNumbers DEF Recovery
    <3>4. Reading(now)
      BY <1>3, ParamsNumbers DEF Reading
    <3> QED BY <2>1, <3>1, <3>2, <3>3, <3>4
  <2> QED BY <2>2, <2>3
<1>5. Calm => key <= history[recoveries'[r].since]
  <2> SUFFICES ASSUME Calm PROVE key <= history[recoveries'[r].since]
    OBVIOUS
  <2> DEFINE s == recoveries'[r].since
             u == paramsLoad[key]
  <2>1. Reading(u) /\ key <= history[u]
    BY <1>1 DEF ParamsInv, Reads
  <2>2. history[u] <= e /\ e <= history[now] /\ e \in Nat /\ history[u] \in Nat
    <3>1. u \in 1..now /\ lag = 0
      BY <2>1 DEF Reading, Calm
    <3>2. /\ e \in Nat \ {0} /\ e <= history[now]
          /\ (lag = 0 => history[u] <= e)
      BY <1>1, <2>1, AnswersAreFresh
    <3> QED BY <3>1, <3>2, Clock
  <2>3. s \in 1..now /\ now - s <= LoadMax /\ LoadMax <= MinEpoch
    BY <1>4, ParamsNumbers DEF Reading, Calm
  <2>4. history[s] \in Nat /\ now - s <= MinEpoch
    BY <1>3, <2>3, Clock, ParamsNumbers
  <2>5. history[now] <= history[s] + 1
    BY <1>3, <2>3, <2>4 DEF ParamsInv, Chain
  <2>6. key \in Nat /\ key < e
    BY <1>1, <2>1, <2>2, ParamsNumbers
  <2> HIDE DEF s, u
  <2>7. key <= history[s]
    BY <1>3, <2>2, <2>4, <2>5, <2>6
  <2> QED BY <2>7 DEF s
<1>6. CallersFit' /\ \A c \in Callers : callers'[c] \in Caller
  <2> SUFFICES ASSUME NEW c \in Callers PROVE CallerFits(callers[c])' /\ callers'[c] \in Caller
    BY DEF CallersFit
  <2>1. callers[c] \in Caller /\ CallerFits(callers[c])
    BY Ranges DEF ParamsInv, CallersFit
  <2>2. CASE c \in PP!AwaitingParams(key)
    <3>1. callers[c].st = "params" /\ callers[c].tip = key
      BY <2>2 DEF PP!AwaitingParams
    <3>2. callers'[c] = [callers[c] EXCEPT !.st = "recovery", !.on = r]
      BY <1>2, <2>2
    <3>3. LET y == [callers[c] EXCEPT !.st = "recovery", !.on = r]
          IN  y \in Caller /\ y.st = "recovery" /\ y.asked = callers[c].asked
              /\ y.tip = callers[c].tip /\ y.on = r
      BY <2>1 DEF Caller
    <3>4. /\ callers'[c] \in Caller /\ callers'[c].st = "recovery"
          /\ callers'[c].asked = callers[c].asked /\ callers'[c].tip = key /\ callers'[c].on = r
      BY <3>1, <3>2, <3>3
    <3>5. callers[c].asked - LoadMax <= recoveries'[r].since
      <4>1. /\ callers[c].asked <= now /\ callers[c].asked \in Nat
            /\ recoveries'[r].since \in 1..now /\ now - recoveries'[r].since <= LoadMax
        BY <1>4, <2>1, Ranges DEF CallerFits, Reading
      <4> QED BY <1>3, <4>1, ParamsNumbers
    <3>6. callers[c].asked <= now
      BY <2>1 DEF CallerFits
    <3>7. (Calm' <=> Calm) /\ history' = history
      BY <1>1, SameClock
    <3> QED BY <1>3, <1>4, <1>5, <3>4, <3>5, <3>6, <3>7 DEF CallerFits
  <2>3. CASE c \notin PP!AwaitingParams(key)
    <3>1. callers'[c] = callers[c]
      BY <1>2, <2>3
    <3>2. callers[c].st = "params" => paramsLoad'[callers[c].tip] # 0
      BY <1>1, <2>3, KeyLeaves DEF PP!AwaitingParams
    <3>3. callers[c].st = "tip" => tipLoad' # 0
      BY <1>1, <2>1 DEF CallerFits
    <3>4. callers[c].st = "recovery" =>
              callers[c].on \in Recoveries /\ recoveries[callers[c].on].st # "idle"
      BY <2>1 DEF CallerFits
    <3>5. callers[c].st = "recovery" =>
              /\ recoveries'[callers[c].on].st # "idle"
              /\ recoveries'[callers[c].on].since = recoveries[callers[c].on].since
      BY <1>4, <3>4
    <3> QED BY <1>1, <2>1, <3>1, <3>2, <3>3, <3>5, CallerStays
  <2> QED BY <2>2, <2>3
<1>7. ParamsTyped'
  <2>1. callers' = [c \in Callers |-> callers'[c]]
    BY <1>2
  <2>2. callers' \in [Callers -> Caller]
    BY <1>6, <2>1
  <2>3. protocolParamsRecovery' = r /\ r \in Recoveries
    BY <1>2
  <2> QED BY <1>1, <1>4, <2>2, <2>3, KeyLeaves DEF ParamsInv, ParamsTyped
<1>8. Reads'
  <2>1. \A x \in Epochs : paramsLoad'[x] # 0 =>
            Reading(paramsLoad'[x]) /\ x <= history[paramsLoad'[x]]
    BY <1>1, KeyLeaves DEF ParamsInv, Reads
  <2>2. \A q \in Recoveries : recoveries'[q].st # "idle" => Reading(recoveries'[q].since)
    BY <1>4
  <2> QED BY <1>1, <2>1, <2>2 DEF ParamsInv, Reads, Reading, now, Epochs, PP!Epochs
<1>9. OnlyRegistered'
  BY <1>2, <1>4 DEF OnlyRegistered
<1> QED BY <1>1, <1>6, <1>7, <1>8, <1>9, PartsSuffice, CacheStays

\* A recovery has its tip, and reads the parameters from now on.
LEMMA StepRecoveryTip ==
    ASSUME ParamsInv, NEW r \in Recoveries, NEW e \in Epochs, PP!RecoveryTip(r, e)
    PROVE  ParamsInv'
<1>1. /\ recoveries[r].st = "tip"
      /\ recoveries' = [recoveries EXCEPT ![r] = [st |-> "params", since |-> now, tip |-> e]]
      /\ UNCHANGED <<lag, history, tip, tipLoad, params, paramsLoad, protocolParamsRecovery, callers>>
  BY DEF PP!RecoveryTip, PP!now, now
<1>2. now \in Nat \ {0} /\ Reading(now)
  BY Clock, ParamsNumbers DEF Reading
<1>3. /\ recoveries' \in [Recoveries -> Recovery]
      /\ recoveries'[r].st = "params" /\ recoveries'[r].since = now
      /\ \A q \in Recoveries : q # r => recoveries'[q] = recoveries[q]
  <2>1. [st |-> "params", since |-> now, tip |-> e] \in Recovery
    BY <1>2, ParamsNumbers DEF Recovery
  <2> QED BY <1>1, <2>1 DEF ParamsInv, ParamsTyped
<1>4. \A q \in Recoveries : /\ recoveries[q].st # "idle" <=> recoveries'[q].st # "idle"
                            /\ recoveries'[q].since \in {recoveries[q].since, now}
  BY <1>1, <1>3
<1>5. ParamsTyped'
  BY <1>1, <1>3, <1>4 DEF ParamsInv, ParamsTyped
<1>6. Reads'
  <2>1. \A q \in Recoveries : recoveries'[q].st # "idle" => Reading(recoveries'[q].since)
    BY <1>2, <1>3 DEF ParamsInv, Reads
  <2> QED BY <1>1, <2>1 DEF ParamsInv, Reads, Reading, now
<1>7. OnlyRegistered'
  BY <1>1, <1>4 DEF ParamsInv, OnlyRegistered
<1>8. CallersFit'
  <2> SUFFICES ASSUME NEW c \in Callers PROVE CallerFits(callers[c])'
    BY DEF CallersFit
  <2>1. CallerFits(callers[c])
    BY DEF ParamsInv, CallersFit
  <2>2. callers[c].st = "recovery" =>
            /\ recoveries'[callers[c].on].st # "idle"
            /\ recoveries'[callers[c].on].since \in {recoveries[callers[c].on].since, now}
    BY <1>4, <2>1 DEF CallerFits
  <2>3. callers[c].st = "tip" => tipLoad' # 0
    BY <1>1, <2>1 DEF CallerFits
  <2>4. callers[c].st = "params" => paramsLoad'[callers[c].tip] # 0
    BY <1>1, <2>1 DEF CallerFits
  <2>5. callers'[c] = callers[c]
    BY <1>1
  <2> QED BY <1>1, <2>2, <2>3, <2>4, <2>5, CallerStays
<1> QED BY <1>1, <1>5, <1>6, <1>7, <1>8, PartsSuffice, CacheStays

\* A recovery that ends was the registered one, and none is registered after it.
LEMMA RecoveryEnds ==
    ASSUME ParamsInv, NEW r \in Recoveries, recoveries[r].st # "idle",
           protocolParamsRecovery' = PP!Cleared(r),
           recoveries' = [recoveries EXCEPT ![r] = PP!IdleRecovery]
    PROVE  /\ protocolParamsRecovery' = NoRecovery
           /\ recoveries' \in [Recoveries -> Recovery]
           /\ \A q \in Recoveries : recoveries'[q].st = "idle"
           /\ \A c \in Callers : callers[c].st = "recovery" => callers[c].on = r
           /\ OnlyRegistered'
<1>1. r = protocolParamsRecovery /\ \A q \in Recoveries : q # r => recoveries[q].st = "idle"
  BY DEF ParamsInv, OnlyRegistered
<1>2. recoveries \in [Recoveries -> Recovery] /\ PP!IdleRecovery \in Recovery
  BY IdleTyped DEF ParamsInv, ParamsTyped
<1>3. PP!IdleRecovery.st = "idle"
  BY DEF PP!IdleRecovery
<1>4. recoveries' \in [Recoveries -> Recovery] /\ \A q \in Recoveries : recoveries'[q].st = "idle"
  BY <1>1, <1>2, <1>3
<1>5. \A c \in Callers : callers[c].st = "recovery" => callers[c].on = r
  BY <1>1 DEF ParamsInv, CallersFit, CallerFits
<1> QED BY <1>1, <1>4, <1>5 DEF PP!Cleared, OnlyRegistered

\* A recovery publishes a pair of one epoch, and answers those who wait for it.
LEMMA StepRecoveryPublishes ==
    ASSUME ParamsInv, NEW r \in Recoveries, PP!RecoveryPublishes(r)
    PROVE  ParamsInv'
<1> DEFINE s == recoveries[r].since
<1>1. PICK e : /\ e = recoveries[r].tip /\ e \in PP!Answers(s)
               /\ recoveries[r].st # "idle"
               /\ tip' = [epoch |-> e, expiresAt |-> now + TipTtl]
               /\ params' = [params EXCEPT ![e] = e]
               /\ protocolParamsRecovery' = PP!Cleared(r)
               /\ recoveries' = [recoveries EXCEPT ![r] = PP!IdleRecovery]
               /\ callers' = [c \in Callers |-> IF c \in PP!AwaitingRecovery(r)
                                               THEN [callers[c] EXCEPT !.st = "done", !.answer = e]
                                               ELSE callers[c]]
               /\ UNCHANGED <<lag, history, tipLoad, paramsLoad>>
  BY DEF PP!RecoveryPublishes, PP!ParamsRead, PP!PublishedTip, PP!now, now
<1>2. /\ Reading(s) /\ e \in Nat \ {0} /\ Fresh(e, s) /\ Fresh(e, now - LoadMax)
      /\ e <= history[now] /\ (lag = 0 => history[s] <= e)
      /\ now \in Nat \ {0} /\ history[now] \in Epochs
  <2>1. Reading(s)
    BY <1>1 DEF ParamsInv, Reads
  <2>2. /\ e \in Nat \ {0} /\ Fresh(e, s) /\ Fresh(e, now - LoadMax)
        /\ e <= history[now] /\ (lag = 0 => history[s] <= e)
    <3>1. e \in PP!Answers(s)
      BY <1>1
    <3> HIDE DEF s
    <3> QED BY <2>1, <3>1, AnswersAreFresh
  <2>3. now \in Nat \ {0} /\ history[now] \in Epochs
    BY Clock
  <2> QED BY <2>1, <2>2, <2>3
<1>3. e \in Epochs /\ e \in 0..MaxEpoch
  BY <1>2, ParamsNumbers
<1>4. CallersFit' /\ \A c \in Callers : callers'[c] \in Caller
  <2> SUFFICES ASSUME NEW c \in Callers PROVE CallerFits(callers[c])' /\ callers'[c] \in Caller
    BY DEF CallersFit
  <2>1. callers[c] \in Caller /\ CallerFits(callers[c])
    BY Ranges DEF ParamsInv, CallersFit
  <2>2. CASE c \in PP!AwaitingRecovery(r)
    <3>1. callers[c].st = "recovery" /\ callers[c].on = r
      BY <2>2 DEF PP!AwaitingRecovery
    <3>2. callers'[c] = [callers[c] EXCEPT !.st = "done", !.answer = e]
      BY <1>1, <2>2
    <3>3. LET y == [callers[c] EXCEPT !.st = "done", !.answer = e]
          IN  y \in Caller /\ y.st = "done" /\ y.asked = callers[c].asked /\ y.tip = callers[c].tip
              /\ y.answer = e
      BY <1>3, <2>1 DEF Caller
    <3>4. /\ callers'[c] \in Caller /\ callers'[c].st = "done" /\ callers'[c].asked = callers[c].asked
          /\ callers'[c].tip = callers[c].tip /\ callers'[c].answer = e
      BY <3>2, <3>3
    <3>5. callers[c].asked - LoadMax <= s /\ (Calm => callers[c].tip <= history[s])
      BY <2>1, <3>1 DEF CallerFits
    <3>6. Fresh(e, callers[c].asked - PP!Window)
      <4>1. s \in Int /\ callers[c].asked \in Nat
        BY <1>2, Ranges DEF Reading
      <4>2. callers[c].asked - PP!Window \in Int /\ callers[c].asked - PP!Window <= s
        BY <3>5, <4>1, ParamsNumbers
      <4> QED BY <1>2, <4>1, <4>2, FreshOlder
    <3>7. Calm => callers'[c].tip <= e
      <4>1. callers[c].tip \in Nat /\ history[s] \in Nat
        BY <1>2, <2>1, Clock, ParamsNumbers DEF Caller, Reading
      <4> HIDE DEF s
      <4> QED BY <1>2, <3>4, <3>5, <4>1 DEF Calm
    <3> QED BY <1>1, <3>4, <3>6, <3>7, CallerAnswered
  <2>3. CASE c \notin PP!AwaitingRecovery(r)
    <3>1. callers'[c] = callers[c]
      BY <1>1, <2>3
    <3>2. callers[c].st # "recovery"
      BY <1>1, <2>3, RecoveryEnds DEF PP!AwaitingRecovery
    <3>3. callers[c].st = "tip" => tipLoad' # 0
      BY <1>1, <2>1 DEF CallerFits
    <3>4. callers[c].st = "params" => paramsLoad'[callers[c].tip] # 0
      BY <1>1, <2>1 DEF CallerFits
    <3> QED BY <1>1, <2>1, <3>1, <3>2, <3>3, <3>4, CallerStays
  <2> QED BY <2>2, <2>3
<1>5. ParamsTyped'
  <2>1. callers' = [c \in Callers |-> callers'[c]]
    BY <1>1
  <2>2. callers' \in [Callers -> Caller]
    BY <1>4, <2>1
  <2>3. params' \in [Epochs -> 0..MaxEpoch]
    BY <1>1, <1>3 DEF ParamsInv, ParamsTyped
  <2>4. tip' \in [epoch : 0..MaxEpoch, expiresAt : Nat]
    <3>1. now + TipTtl \in Nat
      BY <1>2, ParamsNumbers
    <3> QED BY <1>1, <1>3, <3>1
  <2>5. protocolParamsRecovery' = NoRecovery /\ recoveries' \in [Recoveries -> Recovery]
    BY <1>1, RecoveryEnds
  <2> QED BY <1>1, <2>2, <2>3, <2>4, <2>5 DEF ParamsInv, ParamsTyped
<1>6. Reads'
  <2>1. \A q \in Recoveries : recoveries'[q].st = "idle"
    BY <1>1, RecoveryEnds
  <2> QED BY <1>1, <2>1 DEF ParamsInv, Reads, Reading, now
<1>7. CacheFits'
  <2>1. tip'.epoch = e /\ tip'.expiresAt = now + TipTtl
    BY <1>1
  <2>2. now' = now /\ tip'.expiresAt - TipTtl - LoadMax = now - LoadMax
    <3>1. now' = now
      BY <1>1 DEF now
    <3>2. now \in Int /\ TipTtl \in Int /\ LoadMax \in Int
      BY <1>2, ParamsNumbers
    <3> QED BY <2>1, <3>1, <3>2
  <2>3. Fresh(tip.epoch, tip.expiresAt - TipTtl - LoadMax)'
    BY <1>1, <1>2, <2>1, <2>2 DEF Fresh
  <2>4. now + TipTtl <= now + TipTtl
    BY <1>2, ParamsNumbers
  <2>5. \A x \in Epochs : params'[x] \in {0, x}
    BY <1>1 DEF ParamsInv, ParamsTyped, CacheFits
  <2> QED BY <1>1, <1>2, <2>1, <2>2, <2>3, <2>4, <2>5 DEF CacheFits, Epochs, PP!Epochs
<1> QED BY <1>1, <1>4, <1>5, <1>6, <1>7, PartsSuffice, RecoveryEnds

LEMMA StepRecoveryFails ==
    ASSUME ParamsInv, NEW r \in Recoveries, PP!RecoveryFails(r)
    PROVE  ParamsInv'
<1>1. /\ recoveries[r].st # "idle" /\ protocolParamsRecovery' = PP!Cleared(r)
      /\ recoveries' = [recoveries EXCEPT ![r] = PP!IdleRecovery]
      /\ callers' = PP!Failed(PP!AwaitingRecovery(r))
      /\ UNCHANGED <<lag, history, tip, tipLoad, params, paramsLoad>>
  BY DEF PP!RecoveryFails, PP!ClearedAfterFailure
<1>2. \A c \in Callers :
        callers'[c] = IF c \in PP!AwaitingRecovery(r)
                      THEN [callers[c] EXCEPT !.st = "failed"] ELSE callers[c]
  BY <1>1 DEF PP!Failed
<1>3. CallersFit' /\ \A c \in Callers : callers'[c] \in Caller
  <2> SUFFICES ASSUME NEW c \in Callers PROVE CallerFits(callers[c])' /\ callers'[c] \in Caller
    BY DEF CallersFit
  <2>1. CASE c \in PP!AwaitingRecovery(r)
    BY <1>1, <1>2, <2>1, CallerFails
  <2>2. CASE c \notin PP!AwaitingRecovery(r)
    <3>1. callers'[c] = callers[c] /\ callers[c] \in Caller
      BY <1>2, <2>2, Ranges
    <3>2. callers[c].st # "recovery"
      BY <1>1, <2>2, RecoveryEnds DEF PP!AwaitingRecovery
    <3>3. callers[c].st = "tip" => tipLoad' # 0
      BY <1>1 DEF ParamsInv, CallersFit, CallerFits
    <3>4. callers[c].st = "params" => paramsLoad'[callers[c].tip] # 0
      BY <1>1 DEF ParamsInv, CallersFit, CallerFits
    <3> QED BY <1>1, <3>1, <3>2, <3>3, <3>4, CallerStays
  <2> QED BY <2>1, <2>2
<1>4. ParamsTyped'
  <2>1. callers' = [c \in Callers |-> callers'[c]]
    BY <1>1 DEF PP!Failed
  <2>2. callers' \in [Callers -> Caller]
    BY <1>3, <2>1
  <2>3. protocolParamsRecovery' = NoRecovery /\ recoveries' \in [Recoveries -> Recovery]
    BY <1>1, RecoveryEnds
  <2> QED BY <1>1, <2>2, <2>3 DEF ParamsInv, ParamsTyped
<1>5. Reads'
  <2>1. \A q \in Recoveries : recoveries'[q].st = "idle"
    BY <1>1, RecoveryEnds
  <2> QED BY <1>1, <2>1 DEF ParamsInv, Reads, Reading, now
<1> QED BY <1>1, <1>3, <1>4, <1>5, PartsSuffice, CacheStays, RecoveryEnds

LEMMA StepReturns ==
    ASSUME ParamsInv, NEW c \in Callers, PP!Returns(c)
    PROVE  ParamsInv'
<1>1. /\ callers' = [callers EXCEPT ![c] = PP!IdleCaller]
      /\ UNCHANGED <<lag, history, tip, tipLoad, params, paramsLoad, protocolParamsRecovery,
                     recoveries>>
  BY DEF PP!Returns
<1>2. /\ callers \in [Callers -> Caller] /\ PP!IdleCaller \in Caller
      /\ PP!IdleCaller.st = "idle" /\ PP!IdleCaller.asked = 0
  BY IdleTyped DEF ParamsInv, ParamsTyped, PP!IdleCaller
<1>3. ParamsTyped'
  BY <1>1, <1>2 DEF ParamsInv, ParamsTyped
<1>4. Reads'
  BY <1>1 DEF ParamsInv, Reads, Reading, now
<1>5. CallersFit'
  <2> SUFFICES ASSUME NEW d \in Callers PROVE CallerFits(callers[d])'
    BY DEF CallersFit
  <2>1. CASE d = c
    <3>1. callers'[d].st = "idle" /\ callers'[d].asked = 0 /\ 0 <= now'
      BY <1>1, <1>2, <2>1, Clock DEF now
    <3> QED BY <3>1 DEF CallerFits
  <2>2. CASE d # c
    <3>1. callers'[d] = callers[d] /\ recoveries' = recoveries
      BY <1>1, <1>2, <2>2
    <3>2. callers[d].st = "tip" => tipLoad' # 0
      BY <1>1 DEF ParamsInv, CallersFit, CallerFits
    <3>3. callers[d].st = "params" => paramsLoad'[callers[d].tip] # 0
      BY <1>1 DEF ParamsInv, CallersFit, CallerFits
    <3>4. callers[d].st = "recovery" => recoveries'[callers[d].on].st # "idle"
      BY <1>1 DEF ParamsInv, CallersFit, CallerFits
    <3> QED BY <1>1, <3>1, <3>2, <3>3, <3>4, CallerStays
  <2> QED BY <2>1, <2>2
<1> QED BY <1>1, <1>3, <1>4, <1>5, PartsSuffice, CacheStays, RecoveriesStay

\* A step that concerns another read, or none.
LEMMA StepElsewhere == ASSUME ParamsInv, UNCHANGED paramsVars PROVE ParamsInv'
BY DEF paramsVars, ParamsInv, ParamsTyped, Chain, Reads, Reading, OnlyRegistered, CacheFits,
       CallersFit, CallerFits, Calm, Fresh, now

LEMMA ParamsStep == ParamsInv /\ [Next]_vars => ParamsInv'
<1> SUFFICES ASSUME ParamsInv, [Next]_vars PROVE ParamsInv'
  OBVIOUS
<1>1. PP!Next \/ UNCHANGED paramsVars
  BY DEF Next, vars, Params, PoolPages, DrepPages, ProposalPages, Tokens
<1>2. ASSUME PP!Next PROVE ParamsInv'
  <2>1. CASE PP!Tick
    BY <2>1, StepTick
  <2>2. CASE \E c \in Callers, want \in {"tip", "params"} : PP!CallWithTipCached(c, want)
    BY <2>2, StepCallWithTipCached
  <2>3. CASE \E c \in Callers, want \in {"tip", "params"} : PP!CallWithoutTip(c, want)
    BY <2>3, StepCallWithoutTip
  <2>4. CASE \E e \in PP!Epochs : PP!TipLoaded(e)
    BY <2>4, StepTipLoaded
  <2>5. CASE PP!TipFails
    BY <2>5, StepTipFails
  <2>6. ASSUME NEW key \in PP!Epochs, PP!ParamsSettle(key) PROVE ParamsInv'
    BY <2>6, StepParamsLoaded, StepParamsMismatch, StepParamsFail DEF PP!ParamsSettle, Epochs
  <2>7. ASSUME NEW r \in Recoveries, PP!RecoverySettles(r) PROVE ParamsInv'
    BY <2>7, StepRecoveryTip, StepRecoveryPublishes, StepRecoveryFails DEF PP!RecoverySettles, Epochs
  <2>8. CASE \E c \in Callers : PP!Returns(c)
    BY <2>8, StepReturns
  <2> QED BY <1>2, <2>1, <2>2, <2>3, <2>4, <2>5, <2>6, <2>7, <2>8 DEF PP!Next
<1> QED BY <1>1, <1>2, StepElsewhere

LEMMA ParamsInvariant == Spec => []ParamsInv
<1>1. Init => ParamsInv
  BY ParamsInit DEF Init
<1> QED BY <1>1, ParamsStep, PTL DEF Spec

-----------------------------------------------------------------------------
(* What follows.                                                            *)

\* Concurrent mismatches of tip and parameters share one recovery, however many
\* callers there are: getProtocolParams() of cached.ts joins the promise that is
\* registered, and clearRecovery() takes the registration away only with the
\* recovery it belongs to.
THEOREM OneRecoveryAtATime == Spec => []OneRecovery
<1>1. ParamsInv => OneRecovery
  <2> SUFFICES ASSUME ParamsInv PROVE OneRecovery
    OBVIOUS
  <2>1. PP!Running = {} \/ PP!Running = {protocolParamsRecovery}
    BY DEF ParamsInv, OnlyRegistered, PP!Running
  <2>2. Cardinality(PP!Running) <= 1
    <3>1. Cardinality({}) = 0 /\ Cardinality({protocolParamsRecovery}) = 1
      BY FS_EmptySet, FS_Singleton
    <3> QED BY <2>1, <3>1
  <2> QED BY <2>2 DEF OneRecovery, PP!OneRecovery, PP!Cardinality, Cardinality
<1> QED BY <1>1, ParamsInvariant, PTL

\* Every answer was current within the TTL of the tip and the reads behind it, for
\* any TTL, timeout and length of an epoch and any lag of upstream; and while an
\* epoch outlasts a read and no instance lags, getProtocolParams() does not answer
\* from before the tip it was given, also for a caller that joins a recovery which
\* others started.
THEOREM AnswersStayCurrent == Spec => []AnswersAreCurrent
<1>1. ParamsInv => AnswersAreCurrent
  <2> SUFFICES ASSUME ParamsInv PROVE AnswersAreCurrent
    OBVIOUS
  <2>1. PP!AnswerIsRecent
    <3> SUFFICES ASSUME NEW c \in Callers, callers[c].st = "done",
                        callers[c].asked - PP!Window \in DOMAIN history
                 PROVE  callers[c].answer >= history[callers[c].asked - PP!Window] - lag
      BY DEF PP!AnswerIsRecent
    <3> DEFINE at == callers[c].asked - PP!Window
    <3>1. at \in 1..now
      BY Clock
    <3>2. Fresh(callers[c].answer, at)
      BY DEF ParamsInv, CallersFit, CallerFits
    <3>3. history[at] - lag <= callers[c].answer
      BY <3>1, <3>2 DEF Fresh
    <3>4. history[at] \in Nat /\ lag \in Nat /\ callers[c].answer \in Nat
      BY <3>1, Clock, Ranges, ParamsNumbers DEF Caller
    <3> HIDE DEF at
    <3>5. callers[c].answer >= history[at] - lag
      BY <3>3, <3>4
    <3> QED BY <3>5 DEF at
  <2>2. PP!AnswerNotBehindTip
    <3> SUFFICES ASSUME lag = 0 /\ MinEpoch >= LoadMax, NEW c \in Callers, callers[c].st = "done"
                 PROVE  callers[c].answer >= callers[c].tip
      BY DEF PP!AnswerNotBehindTip
    <3>1. callers[c].tip <= callers[c].answer
      BY DEF ParamsInv, CallersFit, CallerFits, Calm
    <3>2. callers[c].answer \in Nat /\ callers[c].tip \in Nat
      BY Ranges, ParamsNumbers DEF Caller
    <3> QED BY <3>1, <3>2
  <2> QED BY <2>1, <2>2 DEF AnswersAreCurrent
<1> QED BY <1>1, ParamsInvariant, PTL

-----------------------------------------------------------------------------
(* Sorting.  The place of an element is the number of those up to it; in a  *)
(* finite set with a strict total order the places are 1 to its size, each  *)
(* taken once, because an injection between sets of one size is onto.       *)

IsOrder(S, ord) ==
    /\ \A x, y \in S : x # y => <<x, y>> \in ord \/ <<y, x>> \in ord
    /\ \A x, y \in S : <<x, y>> \in ord => <<y, x>> \notin ord
    /\ \A x, y, z \in S : <<x, y>> \in ord /\ <<y, z>> \in ord => <<x, z>> \in ord

UpTo(S, ord, x) == {y \in S : y = x \/ <<y, x>> \in ord}

LEMMA PlacesGrow ==
    ASSUME NEW S, IsFiniteSet(S), NEW ord, IsOrder(S, ord),
           NEW x \in S, NEW y \in S, <<x, y>> \in ord
    PROVE  Cardinality(UpTo(S, ord, x)) < Cardinality(UpTo(S, ord, y))
<1>1. UpTo(S, ord, x) \subseteq UpTo(S, ord, y)
  BY DEF UpTo, IsOrder
<1>2. y \in UpTo(S, ord, y) /\ y \notin UpTo(S, ord, x)
  BY DEF UpTo, IsOrder
<1>3. IsFiniteSet(UpTo(S, ord, y)) /\ UpTo(S, ord, y) \subseteq S
  BY FS_Subset DEF UpTo
<1>4. /\ IsFiniteSet(UpTo(S, ord, x))
      /\ Cardinality(UpTo(S, ord, x)) <= Cardinality(UpTo(S, ord, y))
      /\ Cardinality(UpTo(S, ord, y)) = Cardinality(UpTo(S, ord, x))
            => UpTo(S, ord, y) = UpTo(S, ord, x)
  BY <1>1, <1>3, FS_Subset
<1>5. Cardinality(UpTo(S, ord, x)) \in Nat /\ Cardinality(UpTo(S, ord, y)) \in Nat
  BY <1>3, <1>4, FS_CardinalityType
<1> QED BY <1>2, <1>4, <1>5

LEMMA PlacesTaken ==
    ASSUME NEW S, IsFiniteSet(S), NEW ord, IsOrder(S, ord)
    PROVE  /\ Cardinality(S) \in Nat
           /\ \A x \in S : Cardinality(UpTo(S, ord, x)) \in 1..Cardinality(S)
           /\ \A n \in 1..Cardinality(S) : \E x \in S : Cardinality(UpTo(S, ord, x)) = n
<1> DEFINE N == Cardinality(S)
           f == [x \in S |-> Cardinality(UpTo(S, ord, x))]
<1>1. N \in Nat
  BY FS_CardinalityType
<1>2. ASSUME NEW x \in S PROVE Cardinality(UpTo(S, ord, x)) \in 1..N
  <2>1. /\ UpTo(S, ord, x) \subseteq S /\ x \in UpTo(S, ord, x)
    BY DEF UpTo
  <2>2. /\ IsFiniteSet(UpTo(S, ord, x)) /\ Cardinality(UpTo(S, ord, x)) <= N
    BY <2>1, FS_Subset
  <2>3. Cardinality(UpTo(S, ord, x)) \in Nat /\ Cardinality(UpTo(S, ord, x)) # 0
    BY <2>1, <2>2, FS_CardinalityType, FS_EmptySet
  <2> QED BY <1>1, <2>2, <2>3
<1>3. f \in Injection(S, 1..N)
  <2>1. f \in [S -> 1..N]
    BY <1>2
  <2>2. ASSUME NEW x \in S, NEW y \in S, f[x] = f[y] PROVE x = y
    <3>1. Cardinality(UpTo(S, ord, x)) = Cardinality(UpTo(S, ord, y))
      BY <2>2
    <3>2. Cardinality(UpTo(S, ord, x)) \in Int
      BY <1>2
    <3>3. <<x, y>> \notin ord /\ <<y, x>> \notin ord
      BY <3>1, <3>2, PlacesGrow
    <3> QED BY <3>3 DEF IsOrder
  <2> HIDE DEF f
  <2> QED BY <2>1, <2>2 DEF Injection, IsInjective
<1>4. IsFiniteSet(1..N) /\ Cardinality(1..N) = N
  BY <1>1, FS_Interval
<1>5. f \in Surjection(S, 1..N)
  <2> HIDE DEF f
  <2> QED BY <1>3, <1>4, FS_Injection
<1>6. ASSUME NEW n \in 1..N PROVE \E x \in S : f[x] = n
  <2> HIDE DEF f
  <2> QED BY <1>5 DEF Surjection
<1> QED BY <1>1, <1>2, <1>6

\* What is found at a place, and that what is found at a later place comes later.
LEMMA PlaceFound ==
    ASSUME NEW S, IsFiniteSet(S), NEW ord, IsOrder(S, ord), NEW g,
           \A n \in 1..Cardinality(S) :
               g[n] = CHOOSE x \in S : Cardinality(UpTo(S, ord, x)) = n
    PROVE  /\ \A n \in 1..Cardinality(S) : g[n] \in S
           /\ \A m, n \in 1..Cardinality(S) : m < n => <<g[m], g[n]>> \in ord
           /\ \A x \in S : \E n \in 1..Cardinality(S) : g[n] = x
<1>1. \A n \in 1..Cardinality(S) : g[n] \in S /\ Cardinality(UpTo(S, ord, g[n])) = n
  BY PlacesTaken
<1>2. ASSUME NEW m \in 1..Cardinality(S), NEW n \in 1..Cardinality(S), m < n
      PROVE  <<g[m], g[n]>> \in ord
  <2>1. g[m] # g[n] /\ ~(n < m)
    BY <1>1, <1>2, PlacesTaken
  <2>2. <<g[n], g[m]>> \notin ord
    BY <1>1, <2>1, PlacesGrow
  <2> QED BY <1>1, <2>1, <2>2 DEF IsOrder
<1>3. ASSUME NEW x \in S PROVE \E n \in 1..Cardinality(S) : g[n] = x
  <2> DEFINE n == Cardinality(UpTo(S, ord, x))
  <2>1. n \in 1..Cardinality(S)
    BY PlacesTaken
  <2>2. g[n] \in S /\ Cardinality(UpTo(S, ord, g[n])) = n
    BY <1>1, <2>1
  <2>3. n \in Int /\ ~(n < n)
    BY <2>1
  <2>4. g[n] = x
    BY <2>2, <2>3, PlacesGrow DEF IsOrder
  <2> QED BY <2>1, <2>4
<1> QED BY <1>1, <1>2, <1>3

\* Each instance has a cardinality of its own, defined alike.
LEMMA PoolCardinality == ASSUME NEW T PROVE PL!Cardinality(T) = Cardinality(T)
BY DEF Cardinality, PL!Cardinality

LEMMA InOrderIs ==
    ASSUME NEW S \in SUBSET Nat, IsFiniteSet(S)
    PROVE  /\ PL!InOrder(S) \in Seq(S) /\ Len(PL!InOrder(S)) = Cardinality(S)
           /\ \A m, n \in 1..Cardinality(S) : m < n => PL!InOrder(S)[m] < PL!InOrder(S)[n]
           /\ \A x \in S : \E n \in 1..Cardinality(S) : PL!InOrder(S)[n] = x
<1> DEFINE ord == {w \in S \X S : w[1] < w[2]}
           g == PL!InOrder(S)
<1>1. \A x, y \in S : <<x, y>> \in ord <=> x < y
  OBVIOUS
<1>2. IsOrder(S, ord)
  <2> HIDE DEF ord
  <2>1. \A x \in S : x \in Int
    OBVIOUS
  <2> QED BY <1>1, <2>1 DEF IsOrder
<1>3. \A x \in S : UpTo(S, ord, x) = {q \in S : q <= x}
  <2> HIDE DEF ord
  <2>1. \A x, y \in S : y = x \/ y < x <=> y <= x
    OBVIOUS
  <2> QED BY <1>1, <2>1 DEF UpTo
<1>4. /\ g = [n \in 1..Cardinality(S) |-> g[n]]
      /\ \A n \in 1..Cardinality(S) :
            g[n] = CHOOSE p \in S : Cardinality({q \in S : q <= p}) = n
  <2>1. PL!Cardinality(S) = Cardinality(S)
    BY PoolCardinality
  <2>2. g = [n \in 1..Cardinality(S) |-> g[n]]
    BY <2>1 DEF PL!InOrder
  <2>3. ASSUME NEW n \in 1..Cardinality(S)
        PROVE  g[n] = CHOOSE p \in S : Cardinality({q \in S : q <= p}) = n
    <3>1. g[n] = CHOOSE p \in S : PL!Cardinality({q \in S : q <= p}) = n
      BY <2>1 DEF PL!InOrder
    <3> HIDE DEF g
    <3>2. \A p \in S : PL!Cardinality({q \in S : q <= p}) = Cardinality({q \in S : q <= p})
      BY PoolCardinality
    <3>3. (CHOOSE p \in S : PL!Cardinality({q \in S : q <= p}) = n)
              = CHOOSE p \in S : Cardinality({q \in S : q <= p}) = n
      BY <3>2
    <3> QED BY <3>1, <3>3
  <2> QED BY <2>2, <2>3
<1>5. \A n \in 1..Cardinality(S) :
          g[n] = CHOOSE x \in S : Cardinality(UpTo(S, ord, x)) = n
  <2> HIDE DEF ord, g
  <2> TAKE n \in 1..Cardinality(S)
  <2>1. \A x \in S : (Cardinality({q \in S : q <= x}) = n) <=> (Cardinality(UpTo(S, ord, x)) = n)
    BY <1>3
  <2>2. g[n] = CHOOSE p \in S : Cardinality({q \in S : q <= p}) = n
    BY <1>4
  <2> QED BY <2>1, <2>2
<1>6. Cardinality(S) \in Nat
  BY FS_CardinalityType
<1>7. /\ \A n \in 1..Cardinality(S) : g[n] \in S
      /\ \A m, n \in 1..Cardinality(S) : m < n => <<g[m], g[n]>> \in ord
      /\ \A x \in S : \E n \in 1..Cardinality(S) : g[n] = x
  <2> HIDE DEF ord, g
  <2> QED BY <1>2, <1>5, PlaceFound
<1>8. g \in [1..Cardinality(S) -> S]
  <2> HIDE DEF ord
  <2>1. DOMAIN g = 1..Cardinality(S)
    BY <1>4
  <2> QED BY <1>4, <1>7
<1> HIDE DEF ord, g
<1>9. g \in Seq(S) /\ Len(g) = Cardinality(S)
  BY <1>6, <1>8
<1>10. \A m, n \in 1..Cardinality(S) : m < n => g[m] < g[n]
  BY <1>1, <1>7
<1> QED BY <1>7, <1>9, <1>10 DEF g

Row == [id : Pools, at : 1..LastEpoch]

LEMMA PoolNumbers ==
    /\ IsFiniteSet(Pools) /\ Pools \subseteq Nat /\ LastEpoch \in Nat
    /\ Limit \in Nat /\ Limit >= 1 /\ Offsets \subseteq Nat /\ 0 \in Offsets
    /\ \A r \in Row : r.id \in Nat /\ r.at \in Nat /\ r.at >= 1 /\ Stake[r.at][r.id] \in Nat
<1>1. /\ IsFiniteSet(Pools) /\ Pools \subseteq Nat /\ LastEpoch \in Nat
      /\ Limit \in Nat /\ Limit >= 1 /\ Offsets \subseteq Nat /\ 0 \in Offsets
      /\ \A e \in 1..LastEpoch : Stake[e] \in [Pools -> Nat]
  BY CachedAssumption
<1>2. ASSUME NEW r \in Row
      PROVE  r.id \in Nat /\ r.at \in Nat /\ r.at >= 1 /\ Stake[r.at][r.id] \in Nat
  <2>1. r.id \in Pools /\ r.at \in 1..LastEpoch
    BY DEF Row
  <2>2. Stake[r.at] \in [Pools -> Nat]
    BY <1>1, <2>1
  <2> QED BY <1>1, <2>1, <2>2
<1> QED BY <1>1, <1>2

\* A ranking holds the rows that were listed, each in one place, and none before
\* a row that comes before it.
LEMMA RankedIs ==
    ASSUME NEW rows \in Seq(Row)
    PROVE  /\ PL!Ranked(rows) \in Seq(Row) /\ Len(PL!Ranked(rows)) = Len(rows)
           /\ \A n \in 1..Len(rows) : \E i \in 1..Len(rows) : PL!Ranked(rows)[n] = rows[i]
           /\ \A m, n \in 1..Len(rows) : m < n =>
                 /\ ~PL!Before(PL!Ranked(rows)[n], PL!Ranked(rows)[m])
                 /\ \E i, j \in 1..Len(rows) : /\ i # j /\ PL!Ranked(rows)[m] = rows[i]
                                               /\ PL!Ranked(rows)[n] = rows[j]
<1> DEFINE D == DOMAIN rows
           R == PL!Ranked(rows)
           ord == {w \in D \X D : PL!Outranks(rows, w[1], w[2])}
           g == [n \in D |-> CHOOSE x \in D : Cardinality(UpTo(D, ord, x)) = n]
<1>1. D = 1..Len(rows) /\ Len(rows) \in Nat /\ IsFiniteSet(D) /\ Cardinality(D) = Len(rows)
  <2>1. D = 1..Len(rows) /\ Len(rows) \in Nat
    OBVIOUS
  <2>2. IsFiniteSet(1..Len(rows)) /\ Cardinality(1..Len(rows)) = Len(rows)
    BY <2>1, FS_Interval
  <2> QED BY <2>1, <2>2
<1>2. \A i, j \in D : <<i, j>> \in ord <=> PL!Outranks(rows, i, j)
  OBVIOUS
<1>3. IsOrder(D, ord)
  <2> DEFINE s == [i \in D |-> Stake[rows[i].at][rows[i].id]]
             d == [i \in D |-> rows[i].id]
  <2>1. \A i \in D : rows[i] \in Row /\ i \in Int /\ s[i] \in Int /\ d[i] \in Int
    BY <1>1, PoolNumbers
  <2>2. \A i, j \in D : <<i, j>> \in ord <=>
            \/ s[i] > s[j] \/ (s[i] = s[j] /\ d[i] < d[j])
            \/ ~(s[j] > s[i] \/ (s[j] = s[i] /\ d[j] < d[i])) /\ i < j
    <3> HIDE DEF ord
    <3> QED BY <1>2 DEF PL!Outranks, PL!Before
  <2> HIDE DEF s, d, ord, D
  <2>3. \A i, j \in D : <<i, j>> \in ord <=>
            \/ s[i] > s[j] \/ (s[i] = s[j] /\ d[i] < d[j])
            \/ (s[i] = s[j] /\ d[i] = d[j] /\ i < j)
    <3> TAKE i, j \in D
    <3>1. s[i] \in Int /\ s[j] \in Int /\ d[i] \in Int /\ d[j] \in Int
      BY <2>1
    <3>2. ~(s[j] > s[i] \/ (s[j] = s[i] /\ d[j] < d[i]))
            <=> s[i] > s[j] \/ (s[i] = s[j] /\ (d[i] < d[j] \/ d[i] = d[j]))
      BY <3>1
    <3> QED BY <2>2, <3>2
  <2>4. \A i, j \in D : i # j => <<i, j>> \in ord \/ <<j, i>> \in ord
    BY <2>1, <2>3
  <2>5. \A i, j \in D : <<i, j>> \in ord => <<j, i>> \notin ord
    BY <2>1, <2>3
  <2>6. ASSUME NEW i \in D, NEW j \in D, NEW k \in D, <<i, j>> \in ord, <<j, k>> \in ord
        PROVE  <<i, k>> \in ord
    BY <2>1, <2>3, <2>6
  <2> QED BY <2>4, <2>5, <2>6 DEF IsOrder
<1>4. \A i \in D : UpTo(D, ord, i) = {j \in D : j = i \/ PL!Outranks(rows, j, i)}
  <2> HIDE DEF ord
  <2> QED BY <1>2 DEF UpTo
<1>5. \A n \in D : R[n] = rows[g[n]]
  <2> TAKE n \in D
  <2>1. R[n] = rows[CHOOSE i \in D :
                  Cardinality({j \in D : j = i \/ PL!Outranks(rows, j, i)}) = n]
    BY PoolCardinality DEF PL!Ranked
  <2>2. g[n] = CHOOSE x \in D : Cardinality(UpTo(D, ord, x)) = n
    OBVIOUS
  <2> HIDE DEF ord, R, D, g
  <2>3. \A i \in D : (Cardinality({j \in D : j = i \/ PL!Outranks(rows, j, i)}) = n)
                        <=> (Cardinality(UpTo(D, ord, i)) = n)
    BY <1>4
  <2>4. (CHOOSE i \in D : Cardinality({j \in D : j = i \/ PL!Outranks(rows, j, i)}) = n)
            = CHOOSE x \in D : Cardinality(UpTo(D, ord, x)) = n
    BY <2>3
  <2> QED BY <2>1, <2>2, <2>4
<1>6. DOMAIN R = D
  BY DEF PL!Ranked
<1>7. \A n \in 1..Cardinality(D) : g[n] = CHOOSE x \in D : Cardinality(UpTo(D, ord, x)) = n
  BY <1>1
<1>8. /\ \A n \in D : g[n] \in D
      /\ \A m, n \in D : m < n => <<g[m], g[n]>> \in ord
  <2> HIDE DEF ord, D, g
  <2>1. D = 1..Cardinality(D)
    BY <1>1
  <2> QED BY <1>1, <1>3, <1>7, <2>1, PlaceFound
<1> HIDE DEF R, g
<1>9. \A n \in D : R[n] \in Row
  BY <1>5, <1>8
<1>10. R \in [D -> Row]
  BY <1>6, <1>9 DEF R, PL!Ranked
<1>11. R \in Seq(Row) /\ Len(R) = Len(rows)
  BY <1>1, <1>10
<1>12. ASSUME NEW m \in D, NEW n \in D, m < n
       PROVE  /\ ~PL!Before(R[n], R[m])
              /\ \E i, j \in D : i # j /\ R[m] = rows[i] /\ R[n] = rows[j]
  <2>1. /\ <<g[m], g[n]>> \in ord /\ <<g[n], g[m]>> \notin ord /\ g[m] # g[n]
        /\ g[m] \in D /\ g[n] \in D
    <3> HIDE DEF ord
    <3> QED BY <1>3, <1>8, <1>12 DEF IsOrder
  <2>2. ~PL!Outranks(rows, g[n], g[m])
    BY <1>2, <2>1
  <2>3. ~PL!Before(rows[g[n]], rows[g[m]])
    BY <2>2 DEF PL!Outranks
  <2> QED BY <1>5, <2>1, <2>3
<1> HIDE DEF ord
<1>13. \A n \in D : \E i \in D : R[n] = rows[i]
  BY <1>5, <1>8
<1> HIDE DEF D
<1>14. /\ R \in Seq(Row) /\ Len(R) = Len(rows)
       /\ \A n \in 1..Len(rows) : \E i \in 1..Len(rows) : R[n] = rows[i]
       /\ \A m, n \in 1..Len(rows) : m < n =>
             /\ ~PL!Before(R[n], R[m])
             /\ \E i, j \in 1..Len(rows) : i # j /\ R[m] = rows[i] /\ R[n] = rows[j]
  BY <1>1, <1>11, <1>12, <1>13
<1> QED BY <1>14 DEF R

-----------------------------------------------------------------------------
(* The pages of the pool list: the invariant.                               *)

PageKeys == PL!Keys

Scan == [st : {"idle", "reading", "probe", "done"}, page : Nat \ {0}, rows : Seq(Row),
         throughout : SUBSET Pools]

Attempt == [st : {"idle", "ranking", "hydrate"}, page : Seq(Row)]

Asker == [st : {"idle", "waiting", "done", "failed"}, offset : Offsets, epoch : 0..LastEpoch,
          key : PageKeys, answer : Seq(Row)]

PoolsTyped ==
    /\ driver \in {"koios", "blockfrost"}
    /\ epoch \in 1..LastEpoch /\ poolTip \in 1..epoch /\ registered \subseteq Pools
    /\ scans \in [PageKeys -> Scan] /\ attempts \in [PageKeys -> Attempt]
    /\ pages \in [PageKeys -> [held : BOOLEAN, page : Seq(Row)]]
    /\ askers \in [Askers -> Asker]

\* A Koios scan lists ids in order, and has those that were there throughout as
\* far as it has come.
KeysetScan(scan) ==
    /\ \A i, j \in 1..Len(scan.rows) : i < j => scan.rows[i].id < scan.rows[j].id
    /\ scan.st \in {"reading", "probe"} => scan.throughout \subseteq registered
    /\ \A p \in scan.throughout :
          \/ \E i \in 1..Len(scan.rows) : scan.rows[i].id = p
          \/ scan.st # "done" /\ (scan.rows = <<>> \/ scan.rows[Len(scan.rows)].id < p)

\* The scan for the ranking of an epoch began when that epoch had.
ScanFits(k) ==
    /\ scans[k].st = "idle" => scans[k].rows = <<>> /\ scans[k].throughout = {}
    /\ scans[k].st # "idle" => k[1] <= epoch
    /\ \A i \in 1..Len(scans[k].rows) : k[1] <= scans[k].rows[i].at
    /\ driver = "koios" => KeysetScan(scans[k])

PageOf(k) ==
    LET ranked == PL!Ranked(scans[PL!Ranking(k)].rows)
    IN  SubSeq(ranked, k[2] + 1, PL!Min({k[2] + Limit, Len(ranked)}))

\* Page p was cut from the ranking of k, which is still there.
CutFor(k, p) == scans[PL!Ranking(k)].st = "done" /\ p = PageOf(k)

\* Pages under an epoch are cut from its ranking, wherever they are by now.
PagesFit ==
    /\ \A k \in PageKeys : k[1] # 0 =>
          /\ attempts[k].st = "hydrate" => CutFor(k, attempts[k].page)
          /\ pages[k].held => CutFor(k, pages[k].page)
    /\ \A c \in Askers : askers[c].st \in {"waiting", "done"} =>
          /\ askers[c].key = <<askers[c].epoch, askers[c].offset>>
          /\ askers[c].st = "done" /\ askers[c].epoch # 0 => CutFor(askers[c].key, askers[c].answer)

PoolsInv == PoolsTyped /\ (\A k \in PageKeys : ScanFits(k)) /\ PagesFit

LEMMA MinOfTwo ==
    ASSUME NEW a \in Int, NEW b \in Int
    PROVE  PL!Min({a, b}) = IF a <= b THEN a ELSE b
<1>1. CASE a <= b
  <2>1. \E x \in {a, b} : \A y \in {a, b} : x <= y
    BY <1>1
  <2>2. \A x \in {a, b} : (\A y \in {a, b} : x <= y) => x = a
    BY <1>1
  <2> QED BY <1>1, <2>1, <2>2 DEF PL!Min
<1>2. CASE ~(a <= b)
  <2>1. \E x \in {a, b} : \A y \in {a, b} : x <= y
    BY <1>2
  <2>2. \A x \in {a, b} : (\A y \in {a, b} : x <= y) => x = b
    BY <1>2
  <2> QED BY <1>2, <2>1, <2>2 DEF PL!Min
<1> QED BY <1>1, <1>2

LEMMA KeyFields ==
    /\ \A k \in PageKeys : k[1] \in 0..LastEpoch /\ k[2] \in Offsets /\ k[2] \in Nat
                           /\ k = <<k[1], k[2]>> /\ PL!Ranking(k) \in PageKeys
                           /\ PL!Ranking(k)[1] = k[1]
    /\ \A e \in 0..LastEpoch, o \in Offsets : <<e, o>> \in PageKeys
<1>1. PageKeys = (0..LastEpoch) \X Offsets /\ 0 \in Offsets /\ Offsets \subseteq Nat
  BY PoolNumbers DEF PageKeys, PL!Keys, PL!Undefined
<1>2. \A e \in 0..LastEpoch, o \in Offsets : <<e, o>> \in PageKeys
  BY <1>1
<1>3. ASSUME NEW k \in PageKeys
      PROVE  /\ k[1] \in 0..LastEpoch /\ k[2] \in Offsets /\ k[2] \in Nat /\ k = <<k[1], k[2]>>
             /\ PL!Ranking(k) \in PageKeys /\ PL!Ranking(k)[1] = k[1]
  <2>1. k[1] \in 0..LastEpoch /\ k[2] \in Offsets /\ k = <<k[1], k[2]>>
    BY <1>1
  <2>2. PL!Ranking(k) = k \/ PL!Ranking(k) = <<k[1], 0>>
    BY DEF PL!Ranking
  <2>3. <<k[1], 0>> \in PageKeys /\ <<k[1], 0>>[1] = k[1]
    BY <1>1, <1>2, <2>1
  <2> QED BY <1>1, <2>1, <2>2, <2>3
<1> QED BY <1>2, <1>3

LEMMA IdleFits ==
    /\ PL!IdleScan \in Scan /\ PL!IdleAttempt \in Attempt /\ PL!IdleAsker \in Asker
    /\ PL!NoPage \in [held : BOOLEAN, page : Seq(Row)]
    /\ PL!IdleScan.st = "idle" /\ PL!IdleScan.rows = <<>> /\ PL!IdleScan.throughout = {}
    /\ PL!IdleAttempt.st = "idle" /\ PL!IdleAsker.st = "idle" /\ ~PL!NoPage.held
<1>1. <<>> \in Seq(Row) /\ <<0, 0>> \in PageKeys /\ 0 \in 0..LastEpoch /\ 0 \in Offsets
  BY KeyFields, PoolNumbers
<1> QED BY <1>1 DEF PL!IdleScan, PL!IdleAttempt, PL!IdleAsker, PL!NoPage, Scan, Attempt, Asker,
                PL!Undefined

\* The parts of the state that a step does not take away keep their pages.
RankingsStay ==
    \A k \in PageKeys : k[1] # 0 /\ scans[k].st = "done" =>
        scans'[k].st = "done" /\ scans'[k].rows = scans[k].rows

LEMMA CutStays ==
    ASSUME RankingsStay, NEW k \in PageKeys, k[1] # 0, NEW p, CutFor(k, p)
    PROVE  CutFor(k, p)'
<1>1. scans'[PL!Ranking(k)].st = "done" /\ scans'[PL!Ranking(k)].rows = scans[PL!Ranking(k)].rows
  BY KeyFields DEF RankingsStay, CutFor
<1>2. PageOf(k)' = PageOf(k)
  BY <1>1 DEF PageOf, PL!Ranked, PL!Outranks, PL!Before, PL!Ranking
<1> QED BY <1>1, <1>2 DEF CutFor, PL!Ranking

LEMMA PoolsStart == PL!Init => PoolsInv
<1> SUFFICES ASSUME PL!Init PROVE PoolsInv
  OBVIOUS
<1>1. /\ driver \in {"koios", "blockfrost"} /\ epoch = 1 /\ poolTip = 1
      /\ registered \in FirstPools
      /\ scans = [k \in PageKeys |-> PL!IdleScan] /\ attempts = [k \in PageKeys |-> PL!IdleAttempt]
      /\ pages = [k \in PageKeys |-> PL!NoPage] /\ askers = [c \in Askers |-> PL!IdleAsker]
  BY DEF PL!Init, PageKeys
<1>2. LastEpoch >= 1 /\ LastEpoch \in Nat /\ FirstPools \subseteq SUBSET Pools
  BY CachedAssumption
<1>3. PoolsTyped
  <2>1. epoch \in 1..LastEpoch /\ poolTip \in 1..epoch /\ registered \subseteq Pools
    BY <1>1, <1>2
  <2> QED BY <1>1, <2>1, IdleFits DEF PoolsTyped
<1>4. ASSUME NEW k \in PageKeys PROVE ScanFits(k)
  <2>1. scans[k] = PL!IdleScan /\ k[1] \in 0..LastEpoch
    BY <1>1, KeyFields
  <2>2. /\ scans[k].st = "idle" /\ scans[k].rows = <<>> /\ scans[k].throughout = {}
        /\ Len(scans[k].rows) = 0
    BY <2>1, IdleFits
  <2> QED BY <2>2 DEF ScanFits, KeysetScan
<1>5. PagesFit
  BY <1>1, IdleFits DEF PagesFit
<1> QED BY <1>3, <1>4, <1>5 DEF PoolsInv

LEMMA PoolRanges ==
    ASSUME PoolsInv
    PROVE  /\ driver \in {"koios", "blockfrost"} /\ epoch \in Nat /\ epoch >= 1 /\ epoch <= LastEpoch
           /\ poolTip \in Nat /\ poolTip >= 1 /\ poolTip <= epoch /\ registered \subseteq Pools
           /\ \A k \in PageKeys :
                 /\ scans[k] \in Scan /\ scans[k].rows \in Seq(Row) /\ ScanFits(k)
                 /\ scans[k].throughout \subseteq Pools
                 /\ attempts[k] \in Attempt /\ attempts[k].page \in Seq(Row)
                 /\ pages[k] \in [held : BOOLEAN, page : Seq(Row)] /\ pages[k].page \in Seq(Row)
           /\ \A c \in Askers :
                 /\ askers[c] \in Asker /\ askers[c].key \in PageKeys /\ askers[c].answer \in Seq(Row)
                 /\ askers[c].epoch \in 0..LastEpoch /\ askers[c].offset \in Offsets
<1>1. epoch \in Nat /\ epoch >= 1 /\ epoch <= LastEpoch /\ poolTip \in Nat /\ poolTip >= 1
      /\ poolTip <= epoch
  BY PoolNumbers DEF PoolsInv, PoolsTyped
<1>2. \A s \in Scan : s.rows \in Seq(Row) /\ s.throughout \subseteq Pools
  BY DEF Scan
<1>3. \A a \in Attempt : a.page \in Seq(Row)
  BY DEF Attempt
<1>4. \A a \in Asker : a.key \in PageKeys /\ a.answer \in Seq(Row)
                       /\ a.epoch \in 0..LastEpoch /\ a.offset \in Offsets
  BY DEF Asker
<1>5. \A k \in PageKeys : /\ scans[k] \in Scan /\ attempts[k] \in Attempt /\ ScanFits(k)
                          /\ pages[k] \in [held : BOOLEAN, page : Seq(Row)]
  BY DEF PoolsInv, PoolsTyped
<1>6. \A c \in Askers : askers[c] \in Asker
  BY DEF PoolsInv, PoolsTyped
<1> QED BY <1>1, <1>2, <1>3, <1>4, <1>5, <1>6 DEF PoolsInv, PoolsTyped

-----------------------------------------------------------------------------
(* What every step keeps of the pool list.                                  *)

\* Steps are judged part by part: the scans, and the pages cut from them.
LEMMA PagesStay ==
    ASSUME PoolsInv, RankingsStay, UNCHANGED <<attempts, pages, askers>>
    PROVE  PagesFit'
<1>1. ASSUME NEW k \in PageKeys, k[1] # 0
      PROVE  /\ attempts[k].st = "hydrate" => CutFor(k, attempts[k].page)'
             /\ pages[k].held => CutFor(k, pages[k].page)'
  BY <1>1, CutStays DEF PoolsInv, PagesFit
<1>2. ASSUME NEW c \in Askers, askers[c].st = "done", askers[c].epoch # 0
      PROVE  CutFor(askers[c].key, askers[c].answer)'
  <2>1. askers[c].key \in PageKeys /\ askers[c].key = <<askers[c].epoch, askers[c].offset>>
        /\ CutFor(askers[c].key, askers[c].answer)
    BY <1>2, PoolRanges DEF PoolsInv, PagesFit
  <2>2. askers[c].key[1] # 0
    BY <1>2, <2>1
  <2> QED BY <2>1, <2>2, CutStays
<1>3. \A c \in Askers : askers[c].st \in {"waiting", "done"} =>
          askers[c].key = <<askers[c].epoch, askers[c].offset>>
  BY DEF PoolsInv, PagesFit
<1> QED BY <1>1, <1>2, <1>3 DEF PagesFit, CutFor

LEMMA ScanStays ==
    ASSUME PoolsInv, NEW k \in PageKeys, scans'[k] = scans[k], driver' = driver,
           registered' = registered, epoch' \in {epoch, epoch + 1}
    PROVE  ScanFits(k)'
<1>1. ScanFits(k) /\ epoch \in Nat /\ k[1] \in Int
  BY PoolRanges, KeyFields, PoolNumbers
<1>2. k[1] <= epoch => k[1] <= epoch'
  BY <1>1
<1> QED BY <1>1, <1>2 DEF ScanFits, KeysetScan

LEMMA ChurnKeeps == ASSUME PoolsInv, NEW p \in Pools, PL!Churns(p) PROVE PoolsInv'
<1>1. /\ UNCHANGED <<driver, epoch, poolTip, attempts, pages, askers>>
      /\ registered' = IF p \in registered THEN registered \ {p} ELSE registered \cup {p}
      /\ scans' = [k \in PageKeys |-> IF scans[k].st \in {"reading", "probe"}
                                THEN [scans[k] EXCEPT !.throughout = @ \ {p}] ELSE scans[k]]
  BY DEF PL!Churns, PageKeys
<1>2. \A k \in PageKeys :
         /\ scans'[k] \in Scan /\ scans'[k].st = scans[k].st /\ scans'[k].rows = scans[k].rows
         /\ scans'[k].throughout \subseteq scans[k].throughout
         /\ scans[k].st \in {"reading", "probe"} => p \notin scans'[k].throughout
  <2> TAKE k \in PageKeys
  <2>1. scans[k] \in Scan
    BY PoolRanges
  <2> QED BY <1>1, <2>1 DEF Scan
<1>3. registered' \subseteq Pools /\ registered \ {p} \subseteq registered'
  BY <1>1, PoolRanges
<1>4. PoolsTyped'
  <2>1. scans' \in [PageKeys -> Scan]
    BY <1>1, <1>2
  <2> QED BY <1>1, <1>3, <2>1 DEF PoolsInv, PoolsTyped
<1>5. ASSUME NEW k \in PageKeys PROVE ScanFits(k)'
  <2>1. ScanFits(k)
    BY PoolRanges
  <2>2. driver = "koios" => KeysetScan(scans[k])'
    BY <1>2, <1>3, <2>1 DEF ScanFits, KeysetScan
  <2> QED BY <1>1, <1>2, <2>1, <2>2 DEF ScanFits
<1>6. PagesFit'
  BY <1>1, <1>2, PagesStay DEF RankingsStay
<1> QED BY <1>4, <1>5, <1>6 DEF PoolsInv

LEMMA ChainKeeps == ASSUME PoolsInv, PL!EpochEnds \/ PL!TipReads PROVE PoolsInv'
<1>1. /\ UNCHANGED <<driver, registered, scans, attempts, pages, askers>>
      /\ epoch' \in {epoch, epoch + 1} /\ epoch' \in 1..LastEpoch /\ poolTip' \in 1..epoch'
  <2>1. epoch \in Nat /\ epoch >= 1 /\ epoch <= LastEpoch /\ LastEpoch \in Nat
        /\ poolTip \in Nat /\ poolTip >= 1 /\ poolTip <= epoch
    BY PoolRanges, PoolNumbers
  <2>2. CASE PL!EpochEnds
    <3>1. /\ UNCHANGED <<driver, registered, scans, attempts, pages, askers>>
          /\ epoch < LastEpoch /\ epoch' = epoch + 1 /\ poolTip' = poolTip
      BY <2>2 DEF PL!EpochEnds
    <3> QED BY <2>1, <3>1
  <2>3. CASE PL!TipReads
    <3>1. /\ UNCHANGED <<driver, registered, scans, attempts, pages, askers>>
          /\ epoch' = epoch /\ poolTip' = epoch
      BY <2>3 DEF PL!TipReads, PL!upstreamPools
    <3> QED BY <2>1, <3>1
  <2> QED BY <2>2, <2>3
<1>2. PoolsTyped'
  BY <1>1 DEF PoolsInv, PoolsTyped
<1>3. \A k \in PageKeys : ScanFits(k)'
  BY <1>1, ScanStays
<1>4. PagesFit'
  BY <1>1, PagesStay DEF RankingsStay
<1> QED BY <1>2, <1>3, <1>4 DEF PoolsInv

\* One response of the list: rows of the present epoch; in Koios the next ids.
LEMMA ResponseIs ==
    ASSUME PoolsInv, NEW k \in PageKeys, NEW size \in Nat \ {0}
    PROVE  LET r == PL!Response(scans[k], size)
               rows == scans[k].rows
               After(p) == rows = <<>> \/ p > rows[Len(rows)].id
           IN  /\ r \in Seq(Row) /\ Len(r) <= size
               /\ \A i \in 1..Len(r) : r[i].at = epoch
               /\ driver = "koios" =>
                     /\ \A i \in 1..Len(r) : After(r[i].id)
                     /\ \A i, j \in 1..Len(r) : i < j => r[i].id < r[j].id
                     /\ \A p \in registered : After(p) =>
                           \/ \E i \in 1..Len(r) : r[i].id = p
                           \/ Len(r) = size /\ r[Len(r)].id < p
<1> DEFINE rows == scans[k].rows
           after == {p \in registered : rows = <<>> \/ p > rows[Len(rows)].id}
           rest == IF driver = "koios" THEN PL!InOrder(after)
                   ELSE SubSeq(PL!Listing, (scans[k].page - 1) * PoolPageSize + 1, Len(PL!Listing))
           n == PL!Min({size, Len(rest)})
           r == PL!Response(scans[k], size)
<1>1. r = [i \in 1..n |-> [id |-> rest[i], at |-> epoch]]
  BY DEF PL!Response, PL!RowsAfter, PL!Last
<1>2. /\ registered \subseteq Nat /\ IsFiniteSet(registered) /\ registered \subseteq Pools
      /\ rows \in Seq(Row) /\ epoch \in 1..LastEpoch /\ PoolPageSize \in Nat \ {0} /\ scans[k].page \in Nat \ {0}
  <2>1. registered \subseteq Pools /\ epoch \in 1..LastEpoch /\ rows \in Seq(Row)
    BY PoolRanges DEF PoolsInv, PoolsTyped
  <2>2. scans[k].page \in Nat \ {0}
    BY PoolRanges DEF Scan
  <2>3. IsFiniteSet(registered) /\ registered \subseteq Nat
    BY <2>1, PoolNumbers, FS_Subset
  <2> QED BY <2>1, <2>2, <2>3, CachedAssumption
<1>3. /\ PL!Listing \in Seq(registered)
  BY <1>2, InOrderIs DEF PL!Listing
<1>4. after \subseteq Nat /\ IsFiniteSet(after) /\ after \subseteq registered
  BY <1>2, FS_Subset
<1>5. /\ PL!InOrder(after) \in Seq(after) /\ Len(PL!InOrder(after)) = Cardinality(after)
      /\ \A i, j \in 1..Cardinality(after) : i < j => PL!InOrder(after)[i] < PL!InOrder(after)[j]
      /\ \A x \in after : \E i \in 1..Cardinality(after) : PL!InOrder(after)[i] = x
  <2> HIDE DEF after
  <2> QED BY <1>4, InOrderIs
<1>6. rest \in Seq(registered)
  <2>1. CASE driver = "koios"
    <3> DEFINE f == PL!InOrder(after)
    <3>1. f \in Seq(after) /\ after \subseteq registered
      BY <1>4, <1>5
    <3>2. rest = f
      BY <2>1
    <3> HIDE DEF after, f, rest
    <3>3. Len(f) \in Nat /\ f \in [1..Len(f) -> registered]
      BY <3>1
    <3>4. f \in Seq(registered)
      BY <3>3
    <3> QED BY <3>2, <3>4
  <2>2. CASE driver # "koios"
    <3>1. rest = SubSeq(PL!Listing, (scans[k].page - 1) * PoolPageSize + 1, Len(PL!Listing))
      BY <2>2
    <3> DEFINE from == (scans[k].page - 1) * PoolPageSize + 1
    <3>2. from \in Nat \ {0}
      <4>1. \A a, b \in Nat : a * b \in Nat
        OBVIOUS
      <4>2. scans[k].page - 1 \in Nat
        BY <1>2
      <4>3. (scans[k].page - 1) * PoolPageSize \in Nat
        BY <1>2, <4>1, <4>2
      <4> QED BY <4>3
    <3>3. SubSeq(PL!Listing, from, Len(PL!Listing)) \in Seq(registered)
      <4> HIDE DEF from
      <4> DEFINE list == PL!Listing
      <4>1. list \in Seq(registered) /\ Len(list) \in Nat
        BY <1>3
      <4> HIDE DEF list
      <4>2. SubSeq(list, from, Len(list)) \in Seq(registered)
        BY <3>2, <4>1
      <4> QED BY <4>2 DEF list
    <3> QED BY <3>1, <3>3
  <2> QED BY <2>1, <2>2
<1> HIDE DEF rest
<1>7. Len(rest) \in Nat /\ n \in Nat /\ n <= size /\ n <= Len(rest) /\ (n = size \/ n = Len(rest))
  <2>1. Len(rest) \in Nat
    BY <1>6
  <2>2. n = IF size <= Len(rest) THEN size ELSE Len(rest)
    BY <2>1, MinOfTwo
  <2> HIDE DEF n
  <2> QED BY <2>1, <2>2
<1> HIDE DEF n, r
<1>8. \A i \in 1..n : rest[i] \in registered /\ rest[i] \in Pools /\ rest[i] \in Nat
  <2>1. \A i \in 1..n : i \in 1..Len(rest)
    BY <1>7
  <2>2. \A i \in 1..Len(rest) : rest[i] \in registered
    BY <1>6
  <2> QED BY <1>2, <2>1, <2>2
<1>9. r \in Seq(Row) /\ Len(r) = n /\ \A i \in 1..n : r[i].id = rest[i] /\ r[i].at = epoch
  <2>1. \A i \in 1..n : [id |-> rest[i], at |-> epoch] \in Row
    BY <1>2, <1>8 DEF Row
  <2> QED BY <1>1, <1>7, <2>1
<1>10. ASSUME driver = "koios"
       PROVE  /\ \A i \in 1..n : rest[i] \in after
              /\ \A i, j \in 1..n : i < j => rest[i] < rest[j]
              /\ \A p \in after : \/ \E i \in 1..n : rest[i] = p
                                  \/ n = size /\ rest[n] < p
  <2>1. rest = PL!InOrder(after)
    BY <1>10 DEF rest
  <2> HIDE DEF after
  <2>2. Len(rest) = Cardinality(after)
    BY <1>5, <2>1
  <2>3. \A i \in 1..Len(rest) : rest[i] \in after
    BY <1>5, <2>1
  <2>4. \A i, j \in 1..Len(rest) : i < j => rest[i] < rest[j]
    BY <1>5, <2>1, <2>2
  <2>5. \A x \in after : \E i \in 1..Len(rest) : rest[i] = x
    BY <1>5, <2>1, <2>2
  <2>6. ASSUME NEW p \in after, \A i \in 1..n : rest[i] # p
        PROVE  n = size /\ rest[n] < p
    <3>1. PICK i \in 1..Len(rest) : rest[i] = p
      BY <2>5
    <3>2. n < i /\ n = size /\ n \in 1..Len(rest)
      BY <1>7, <2>6, <3>1
    <3> QED BY <2>4, <3>1, <3>2
  <2>7. \A i \in 1..n : i \in 1..Len(rest)
    BY <1>7
  <2> QED BY <2>3, <2>4, <2>6, <2>7
<1>11. driver = "koios" =>
           /\ \A i \in 1..n : rows = <<>> \/ r[i].id > rows[Len(rows)].id
           /\ \A i, j \in 1..n : i < j => r[i].id < r[j].id
           /\ \A p \in registered : (rows = <<>> \/ p > rows[Len(rows)].id) =>
                 \/ \E i \in 1..n : r[i].id = p
                 \/ n = size /\ r[n].id < p
  <2> SUFFICES ASSUME driver = "koios"
               PROVE /\ \A i \in 1..n : rows = <<>> \/ r[i].id > rows[Len(rows)].id
                     /\ \A i, j \in 1..n : i < j => r[i].id < r[j].id
                     /\ \A p \in registered : (rows = <<>> \/ p > rows[Len(rows)].id) =>
                           \/ \E i \in 1..n : r[i].id = p
                           \/ n = size /\ r[n].id < p
    OBVIOUS
  <2>1. n \in 1..n \/ n = 0
    BY <1>7
  <2>2. \A p \in after : n = size => n # 0
    BY <1>7
  <2>3. \A i \in 1..n : rows = <<>> \/ r[i].id > rows[Len(rows)].id
    BY <1>9, <1>10
  <2>4. \A i, j \in 1..n : i < j => r[i].id < r[j].id
    BY <1>9, <1>10
  <2>5. ASSUME NEW p \in after
        PROVE  (\E i \in 1..n : r[i].id = p) \/ (n = size /\ r[n].id < p)
    <3> HIDE DEF after
    <3>1. (\E i \in 1..n : rest[i] = p) \/ (n = size /\ rest[n] < p)
      BY <1>10
    <3>2. n = size => n \in 1..n
      BY <1>7
    <3> QED BY <1>9, <3>1, <3>2
  <2> QED BY <2>3, <2>4, <2>5
<1> QED BY <1>7, <1>9, <1>11 DEF r

\* What a step of one scan has to show: the others stay as they are.
LEMMA OneScanSteps ==
    ASSUME PoolsInv, NEW k \in PageKeys, UNCHANGED <<driver, epoch, poolTip, registered>>,
           NEW s \in Scan, scans' = [scans EXCEPT ![k] = s], ScanFits(k)'
    PROVE  /\ scans' \in [PageKeys -> Scan] /\ \A x \in PageKeys : ScanFits(x)'
           /\ scans[k].st # "done" => RankingsStay
<1>1. /\ scans \in [PageKeys -> Scan] /\ scans' \in [PageKeys -> Scan]
      /\ \A x \in PageKeys \ {k} : scans'[x] = scans[x]
  BY DEF PoolsInv, PoolsTyped
<1>2. \A x \in PageKeys : ScanFits(x)'
  BY <1>1, ScanStays
<1>3. scans[k].st # "done" => RankingsStay
  BY <1>1 DEF RankingsStay
<1> QED BY <1>1, <1>2, <1>3

LEMMA ScanPageKeeps == ASSUME PoolsInv, NEW k \in PageKeys, PL!ScanPage(k) PROVE PoolsInv'
<1> DEFINE old == scans[k].rows
           r == PL!Response(scans[k], PoolPageSize)
           all == old \o r
           s == [scans[k] EXCEPT !.rows = all, !.page = @ + 1,
                    !.st = IF Len(r) < PoolPageSize THEN "done"
                           ELSE IF scans[k].page = PoolMaxPages THEN "probe" ELSE "reading"]
           After(p) == old = <<>> \/ p > old[Len(old)].id
<1>1. /\ scans[k].st = "reading" /\ scans' = [scans EXCEPT ![k] = s]
      /\ UNCHANGED <<driver, epoch, poolTip, registered, attempts, pages, askers>>
  BY DEF PL!ScanPage, PL!upstreamPools
<1>2. PoolPageSize \in Nat \ {0}
  BY CachedAssumption
<1>3. /\ r \in Seq(Row) /\ Len(r) <= PoolPageSize
      /\ \A i \in 1..Len(r) : r[i].at = epoch
      /\ driver = "koios" =>
            /\ \A i \in 1..Len(r) : After(r[i].id)
            /\ \A i, j \in 1..Len(r) : i < j => r[i].id < r[j].id
            /\ \A p \in registered : After(p) =>
                  \/ \E i \in 1..Len(r) : r[i].id = p
                  \/ Len(r) = PoolPageSize /\ r[Len(r)].id < p
  BY <1>2, ResponseIs
<1>4. /\ scans[k] \in Scan /\ old \in Seq(Row) /\ ScanFits(k) /\ scans[k].page \in Nat \ {0}
      /\ epoch \in Nat /\ epoch >= 1 /\ scans \in [PageKeys -> Scan] /\ registered \subseteq Nat
  <2>1. scans[k].page \in Nat \ {0}
    BY PoolRanges DEF Scan
  <2> QED BY <2>1, PoolRanges, PoolNumbers DEF PoolsInv, PoolsTyped
<1> HIDE DEF r
<1>5. /\ all \in Seq(Row) /\ Len(all) = Len(old) + Len(r)
      /\ \A i \in 1..Len(old) : all[i] = old[i]
      /\ \A i \in 1..Len(r) : all[Len(old) + i] = r[i]
      /\ \A i \in 1..Len(all) : i \in 1..Len(old) \/ i - Len(old) \in 1..Len(r)
  <2>1. /\ all \in Seq(Row) /\ Len(all) = Len(old) + Len(r)
        /\ \A i \in 1..Len(old) : all[i] = old[i]
    BY <1>3, <1>4
  <2>2. \A i \in 1..Len(r) : all[Len(old) + i] = r[i]
    BY <1>3, <1>4
  <2>3. Len(old) \in Nat /\ Len(r) \in Nat
    BY <1>3, <1>4
  <2> HIDE DEF all, old
  <2>4. \A i \in 1..Len(all) : i \in 1..Len(old) \/ i - Len(old) \in 1..Len(r)
    BY <2>1, <2>3
  <2> QED BY <2>1, <2>2, <2>4
<1> HIDE DEF all
<1>6. /\ s \in Scan /\ s.rows = all /\ s.throughout = scans[k].throughout
      /\ s.st \in {"reading", "probe", "done"} /\ (s.st = "done" <=> Len(r) < PoolPageSize)
  <2>1. scans[k].page + 1 \in Nat \ {0}
    BY <1>4
  <2> QED BY <1>4, <1>5, <2>1 DEF Scan
<1> HIDE DEF s
<1>7. scans'[k] = s
  BY <1>1, <1>4
<1>8. Len(old) \in Nat /\ Len(r) \in Nat /\ Len(all) \in Nat
      /\ (\A i \in 1..Len(old) : old[i] \in Row) /\ (\A i \in 1..Len(r) : r[i] \in Row)
  BY <1>3, <1>4, <1>5
<1> HIDE DEF old
<1>9. \A i \in 1..Len(all) : k[1] <= all[i].at
  <2>1. k[1] <= epoch /\ \A i \in 1..Len(old) : k[1] <= old[i].at
    BY <1>1, <1>4 DEF ScanFits, old
  <2> TAKE i \in 1..Len(all)
  <2>2. CASE i \in 1..Len(old)
    BY <1>5, <2>1, <2>2
  <2>3. CASE i - Len(old) \in 1..Len(r)
    <3>1. all[i] = r[i - Len(old)]
      <4>1. i = Len(old) + (i - Len(old))
        BY <1>8
      <4> QED BY <1>5, <2>3, <4>1
    <3> QED BY <1>3, <2>1, <2>3, <3>1
  <2> QED BY <1>5, <2>2, <2>3
<1>10. ASSUME driver = "koios"
       PROVE  /\ \A i, j \in 1..Len(all) : i < j => all[i].id < all[j].id
              /\ \A p \in s.throughout :
                    \/ \E i \in 1..Len(all) : all[i].id = p
                    \/ s.st # "done" /\ (all = <<>> \/ all[Len(all)].id < p)
  <2>1. /\ \A i, j \in 1..Len(old) : i < j => old[i].id < old[j].id
        /\ scans[k].throughout \subseteq registered
        /\ \A p \in scans[k].throughout :
              (\E i \in 1..Len(old) : old[i].id = p) \/ old = <<>> \/ old[Len(old)].id < p
    BY <1>1, <1>4, <1>10 DEF ScanFits, KeysetScan, old
  <2>2. /\ \A i \in 1..Len(old) : old[i].id \in Nat
        /\ \A i \in 1..Len(r) : r[i].id \in Nat
    BY <1>8, PoolNumbers
  <2>3. \A i \in 1..Len(old), j \in 1..Len(r) : old[i].id < r[j].id
    <3> TAKE i \in 1..Len(old), j \in 1..Len(r)
    <3>1. Len(old) \in 1..Len(old) /\ old # <<>>
      BY <1>8
    <3>2. r[j].id > old[Len(old)].id
      BY <1>3, <1>10, <3>1
    <3>3. i = Len(old) \/ old[i].id < old[Len(old)].id
      BY <1>8, <2>1, <3>1
    <3> QED BY <2>2, <3>1, <3>2, <3>3
  <2>4. ASSUME NEW i \in 1..Len(all), NEW j \in 1..Len(all), i < j
        PROVE  all[i].id < all[j].id
    <3>1. CASE j \in 1..Len(old)
      <4>1. i \in 1..Len(old)
        BY <1>8, <2>4, <3>1
      <4> QED BY <1>5, <2>1, <2>4, <3>1, <4>1
    <3>2. CASE j - Len(old) \in 1..Len(r)
      <4>1. all[j] = r[j - Len(old)]
        <5>1. j = Len(old) + (j - Len(old))
          BY <1>8
        <5> QED BY <1>5, <3>2, <5>1
      <4>2. CASE i \in 1..Len(old)
        BY <1>5, <2>3, <3>2, <4>1, <4>2
      <4>3. CASE i - Len(old) \in 1..Len(r)
        <5>1. all[i] = r[i - Len(old)]
          <6>1. i = Len(old) + (i - Len(old))
            BY <1>8
          <6> QED BY <1>5, <4>3, <6>1
        <5>2. i - Len(old) < j - Len(old)
          BY <1>8, <2>4
        <5> QED BY <1>3, <1>10, <3>2, <4>1, <4>3, <5>1, <5>2
      <4> QED BY <1>5, <4>2, <4>3
    <3> QED BY <1>5, <3>1, <3>2
  <2>5. ASSUME NEW p \in s.throughout
        PROVE  \/ \E i \in 1..Len(all) : all[i].id = p
               \/ s.st # "done" /\ (all = <<>> \/ all[Len(all)].id < p)
    <3>1. p \in scans[k].throughout /\ p \in registered
      BY <1>6, <2>1, <2>5
    <3>2. CASE \E i \in 1..Len(old) : old[i].id = p
      <4>1. PICK i \in 1..Len(old) : old[i].id = p
        BY <3>2
      <4>2. i \in 1..Len(all)
        BY <1>5, <1>8
      <4> QED BY <1>5, <4>1, <4>2
    <3>3. CASE After(p)
      <4>1. CASE \E i \in 1..Len(r) : r[i].id = p
        <5>1. PICK i \in 1..Len(r) : r[i].id = p
          BY <4>1
        <5>2. Len(old) + i \in 1..Len(all) /\ all[Len(old) + i] = r[i]
          BY <1>5, <1>8
        <5> QED BY <5>1, <5>2
      <4>2. CASE Len(r) = PoolPageSize /\ r[Len(r)].id < p
        <5>1. s.st # "done"
          BY <1>2, <1>6, <4>2
        <5>2. Len(r) \in 1..Len(r) /\ Len(all) = Len(old) + Len(r)
          BY <1>2, <1>5, <1>8, <4>2
        <5>3. all[Len(all)] = r[Len(r)]
          BY <1>5, <5>2
        <5> QED BY <4>2, <5>1, <5>3
      <4> QED BY <1>3, <1>10, <3>1, <3>3, <4>1, <4>2
    <3>4. registered \subseteq Nat /\ p \in Nat
      BY <1>4, <3>1
    <3>5. (\E i \in 1..Len(old) : old[i].id = p) \/ After(p)
      <4>1. CASE old # <<>>
        <5>1. Len(old) \in 1..Len(old)
          BY <1>4, <1>8, <4>1 DEF old
        <5>2. old[Len(old)].id \in Nat
          BY <2>2, <5>1
        <5> QED BY <2>1, <3>1, <3>4, <4>1, <5>2
      <4> QED BY <4>1
    <3> QED BY <3>2, <3>3, <3>5
  <2> QED BY <2>4, <2>5
<1>11. ScanFits(k)'
  <2>1. /\ scans'[k].rows = all /\ scans'[k].st # "idle" /\ k[1] <= epoch'
        /\ driver' = driver /\ registered' = registered
    BY <1>1, <1>4, <1>6, <1>7 DEF ScanFits
  <2>2. driver = "koios" => KeysetScan(scans[k])'
    <3> SUFFICES ASSUME driver = "koios" PROVE KeysetScan(scans[k])'
      OBVIOUS
    <3>1. scans[k].throughout \subseteq registered
      BY <1>1, <1>4 DEF ScanFits, KeysetScan
    <3> QED BY <1>6, <1>7, <1>10, <2>1, <3>1 DEF KeysetScan
  <2> QED BY <1>9, <2>1, <2>2 DEF ScanFits
<1>12. /\ scans' \in [PageKeys -> Scan] /\ (\A x \in PageKeys : ScanFits(x)') /\ RankingsStay
  BY <1>1, <1>6, <1>11, OneScanSteps
<1>13. PagesFit'
  BY <1>1, <1>12, PagesStay
<1> QED BY <1>1, <1>12, <1>13 DEF PoolsInv, PoolsTyped

LEMMA ProbeEndsKeeps == ASSUME PoolsInv, NEW k \in PageKeys, PL!ProbeEnds(k) PROVE PoolsInv'
<1> DEFINE old == scans[k].rows
           r == PL!Response(scans[k], 1)
           s == [scans[k] EXCEPT !.st = "done"]
<1>1. /\ scans[k].st = "probe" /\ r = <<>> /\ scans' = [scans EXCEPT ![k] = s]
      /\ UNCHANGED <<driver, epoch, poolTip, registered, attempts, pages, askers>>
  BY DEF PL!ProbeEnds, PL!upstreamPools
<1>2. driver = "koios" => \A p \in registered : ~(old = <<>> \/ p > old[Len(old)].id)
  <2>1. driver = "koios" => \A p \in registered : (old = <<>> \/ p > old[Len(old)].id) =>
                  \/ \E i \in 1..Len(r) : r[i].id = p
                  \/ Len(r) = 1 /\ r[Len(r)].id < p
    <3> DEFINE one == 1
    <3>1. one \in Nat \ {0}
      OBVIOUS
    <3> HIDE DEF one
    <3>2. LET q == PL!Response(scans[k], one)
          IN  driver = "koios" => \A p \in registered : (old = <<>> \/ p > old[Len(old)].id) =>
                  \/ \E i \in 1..Len(q) : q[i].id = p
                  \/ Len(q) = one /\ q[Len(q)].id < p
      BY <3>1, ResponseIs
    <3> QED BY <3>2 DEF one
  <2>2. Len(r) = 0 /\ 1..0 = {}
    BY <1>1
  <2> QED BY <2>1, <2>2
<1>3. /\ scans[k] \in Scan /\ old \in Seq(Row) /\ ScanFits(k) /\ scans \in [PageKeys -> Scan]
      /\ registered \subseteq Nat
  BY PoolRanges, PoolNumbers DEF PoolsInv, PoolsTyped
<1>4. s \in Scan /\ s.rows = old /\ s.throughout = scans[k].throughout /\ s.st = "done"
  BY <1>3 DEF Scan
<1> HIDE DEF s, r
<1>5. scans'[k] = s
  BY <1>1, <1>3
<1>6. driver = "koios" => \A p \in s.throughout : \E i \in 1..Len(old) : old[i].id = p
  <2> SUFFICES ASSUME driver = "koios", NEW p \in s.throughout
               PROVE  \E i \in 1..Len(old) : old[i].id = p
    OBVIOUS
  <2>1. p \in registered /\ p \in Nat
    BY <1>1, <1>3, <1>4 DEF ScanFits, KeysetScan
  <2>2. (\E i \in 1..Len(old) : old[i].id = p) \/ old = <<>> \/ old[Len(old)].id < p
    BY <1>3, <1>4 DEF ScanFits, KeysetScan
  <2>3. ~(old = <<>>) /\ ~(p > old[Len(old)].id)
    BY <1>2, <2>1
  <2>4. Len(old) \in 1..Len(old) /\ old[Len(old)] \in Row
    BY <1>3, <2>3
  <2>5. old[Len(old)].id \in Nat
    BY <2>4, PoolNumbers
  <2> HIDE DEF old
  <2> QED BY <2>1, <2>2, <2>3, <2>5
<1>7. ScanFits(k)'
  <2>1. driver = "koios" => KeysetScan(scans[k])'
    BY <1>1, <1>3, <1>4, <1>5, <1>6 DEF ScanFits, KeysetScan
  <2> QED BY <1>1, <1>3, <1>4, <1>5, <2>1 DEF ScanFits
<1>8. /\ scans' \in [PageKeys -> Scan] /\ (\A x \in PageKeys : ScanFits(x)') /\ RankingsStay
  BY <1>1, <1>4, <1>7, OneScanSteps
<1>9. PagesFit'
  BY <1>1, <1>8, PagesStay
<1> QED BY <1>1, <1>8, <1>9 DEF PoolsInv, PoolsTyped

\* The pages of the readers of one key.
LEMMA AnsweredIs ==
    ASSUME PoolsInv, NEW k, NEW page \in Seq(Row), NEW c \in Askers
    PROVE  /\ PL!Answered(k, page)[c] \in Asker
           /\ IF askers[c].st = "waiting" /\ askers[c].key = k
              THEN /\ PL!Answered(k, page)[c].st = "done" /\ PL!Answered(k, page)[c].answer = page
                   /\ PL!Answered(k, page)[c].key = askers[c].key
                   /\ PL!Answered(k, page)[c].epoch = askers[c].epoch
                   /\ PL!Answered(k, page)[c].offset = askers[c].offset
              ELSE PL!Answered(k, page)[c] = askers[c]
<1>1. askers[c] \in Asker
  BY PoolRanges
<1>2. CASE askers[c].st = "waiting" /\ askers[c].key = k
  <2>1. PL!Answered(k, page)[c] = [askers[c] EXCEPT !.st = "done", !.answer = page]
    BY <1>2 DEF PL!Answered, PL!Waiting
  <2> QED BY <1>1, <1>2, <2>1 DEF Asker
<1>3. CASE ~(askers[c].st = "waiting" /\ askers[c].key = k)
  <2>1. PL!Answered(k, page)[c] = askers[c]
    BY <1>3 DEF PL!Answered, PL!Waiting
  <2> QED BY <1>1, <1>3, <2>1
<1> QED BY <1>2, <1>3

LEMMA FailedIs ==
    ASSUME PoolsInv, NEW ks, NEW usable \in SUBSET PL!HeldPages(ks), NEW c \in Askers
    PROVE  LET a == PL!Failed(ks, usable)[c]
           IN  /\ a \in Asker
               /\ \/ a = askers[c]
                  \/ a.st = "failed"
                  \/ /\ a.st = "done" /\ askers[c].st = "waiting" /\ a.key = askers[c].key
                     /\ a.epoch = askers[c].epoch /\ a.offset = askers[c].offset
                     /\ a.key \in PageKeys /\ pages[a.key].held /\ a.answer = pages[a.key].page
<1> DEFINE k == askers[c].key
           a == PL!Failed(ks, usable)[c]
<1>1. askers[c] \in Asker /\ k \in PageKeys /\ pages[k].page \in Seq(Row)
  BY PoolRanges
<1>2. k \in usable => pages[k].held
  BY DEF PL!HeldPages
<1>3. CASE k \notin ks \/ c \notin PL!Waiting(k)
  <2>1. a = askers[c]
    BY <1>3 DEF PL!Failed
  <2> QED BY <1>1, <2>1
<1>4. CASE ~(k \notin ks \/ c \notin PL!Waiting(k)) /\ k \in usable
  <2>1. a = [askers[c] EXCEPT !.st = "done", !.answer = pages[k].page]
    BY <1>4 DEF PL!Failed
  <2>2. askers[c].st = "waiting"
    BY <1>4 DEF PL!Waiting
  <2> HIDE DEF a
  <2>3. /\ a \in Asker /\ a.st = "done" /\ a.key = k /\ a.epoch = askers[c].epoch
        /\ a.offset = askers[c].offset /\ a.answer = pages[k].page
    BY <1>1, <2>1 DEF Asker
  <2> QED BY <1>1, <1>2, <1>4, <2>2, <2>3 DEF a
<1>5. CASE ~(k \notin ks \/ c \notin PL!Waiting(k)) /\ k \notin usable
  <2>1. a = [askers[c] EXCEPT !.st = "failed"]
    BY <1>5 DEF PL!Failed
  <2> HIDE DEF a
  <2>2. a \in Asker /\ a.st = "failed"
    BY <1>1, <2>1 DEF Asker
  <2> QED BY <2>2 DEF a
<1> QED BY <1>3, <1>4, <1>5

\* A step that takes away no ranking, and leaves no page that is not cut for its key.
LEMMA AskersFit ==
    ASSUME PoolsInv, RankingsStay,
           \A k \in PageKeys : k[1] # 0 =>
               /\ attempts'[k].st = "hydrate" => CutFor(k, attempts'[k].page)
               /\ pages'[k].held => CutFor(k, pages'[k].page),
           \A c \in Askers :
               \/ askers'[c] = askers[c]
               \/ askers'[c].st \in {"waiting", "done"} =>
                     /\ askers'[c].key = <<askers'[c].epoch, askers'[c].offset>>
                     /\ askers'[c].key \in PageKeys
                     /\ askers'[c].st = "done" /\ askers'[c].epoch # 0 =>
                           CutFor(askers'[c].key, askers'[c].answer)
    PROVE  PagesFit'
<1>1. ASSUME NEW k \in PageKeys, k[1] # 0, scans[PL!Ranking(k)].st = "done"
      PROVE  scans'[PL!Ranking(k)].st = "done" /\ PageOf(k)' = PageOf(k)
  <2>1. /\ scans'[PL!Ranking(k)].st = "done"
        /\ scans'[PL!Ranking(k)].rows = scans[PL!Ranking(k)].rows
    BY <1>1, KeyFields DEF RankingsStay
  <2> QED BY <2>1 DEF PageOf, PL!Ranked, PL!Outranks, PL!Before, PL!Ranking
<1>2. \A k \in PageKeys : PL!Ranking(k)' = PL!Ranking(k)
  BY DEF PL!Ranking
<1>3. ASSUME NEW k \in PageKeys, k[1] # 0
      PROVE  /\ attempts'[k].st = "hydrate" => CutFor(k, attempts[k].page)'
             /\ pages'[k].held => CutFor(k, pages[k].page)'
  BY <1>1, <1>2, <1>3 DEF CutFor
<1>4. ASSUME NEW c \in Askers
      PROVE  /\ askers'[c].st \in {"waiting", "done"} =>
                    askers'[c].key = <<askers'[c].epoch, askers'[c].offset>>
             /\ askers'[c].st = "done" /\ askers'[c].epoch # 0 =>
                    CutFor(askers[c].key, askers[c].answer)'
  <2>1. askers'[c].st \in {"waiting", "done"} =>
            /\ askers'[c].key = <<askers'[c].epoch, askers'[c].offset>>
            /\ askers'[c].key \in PageKeys
            /\ askers'[c].st = "done" /\ askers'[c].epoch # 0 =>
                  CutFor(askers'[c].key, askers'[c].answer)
    BY PoolRanges DEF PoolsInv, PagesFit
  <2>2. ASSUME askers'[c].st = "done", askers'[c].epoch # 0
        PROVE  CutFor(askers[c].key, askers[c].answer)'
    <3>1. ASSUME NEW x \in PageKeys, x = askers'[c].key
          PROVE  CutFor(askers[c].key, askers[c].answer)'
      <4>1. /\ x[1] # 0 /\ scans[PL!Ranking(x)].st = "done" /\ askers'[c].answer = PageOf(x)
        BY <2>1, <2>2, <3>1 DEF CutFor
      <4>2. scans'[PL!Ranking(x)].st = "done" /\ PageOf(x)' = PageOf(x)
        BY <1>1, <4>1
      <4>3. PL!Ranking(askers[c].key)' = PL!Ranking(x) /\ PL!Ranking(x)' = PL!Ranking(x)
        BY <3>1 DEF PL!Ranking
      <4>4. PageOf(askers[c].key)' = PageOf(x)'
        BY <3>1, <4>3 DEF PageOf
      <4> QED BY <4>1, <4>2, <4>3, <4>4 DEF CutFor
    <3> QED BY <2>1, <2>2, <3>1
  <2> QED BY <2>1, <2>2
<1> QED BY <1>3, <1>4 DEF PagesFit

LEMMA SliceKeeps == ASSUME PoolsInv, NEW k \in PageKeys, PL!Slice(k) PROVE PoolsInv'
<1>1. /\ scans[PL!Ranking(k)].st = "done"
      /\ attempts' = [attempts EXCEPT ![k] = [st |-> "hydrate", page |-> PageOf(k)]]
      /\ scans' = IF k[1] = 0 THEN [scans EXCEPT ![k] = PL!IdleScan] ELSE scans
      /\ UNCHANGED <<driver, epoch, poolTip, registered, pages, askers>>
  BY DEF PL!Slice, PageOf, PL!upstreamPools, PL!Undefined
<1>2. /\ scans \in [PageKeys -> Scan] /\ attempts \in [PageKeys -> Attempt]
      /\ PL!IdleScan \in Scan
  BY IdleFits DEF PoolsInv, PoolsTyped
<1>3. \A x \in PageKeys : scans'[x] = scans[x] \/ (x = k /\ k[1] = 0 /\ scans'[x] = PL!IdleScan)
  BY <1>1, <1>2
<1>4. scans' \in [PageKeys -> Scan]
  BY <1>1, <1>2
<1>5. RankingsStay
  BY <1>3 DEF RankingsStay
<1>6. ASSUME NEW x \in PageKeys PROVE ScanFits(x)'
  <2>1. CASE scans'[x] = scans[x]
    BY <1>1, <2>1, ScanStays
  <2>2. CASE scans'[x] = PL!IdleScan
    <3>1. /\ scans'[x].st = "idle" /\ scans'[x].rows = <<>> /\ scans'[x].throughout = {}
          /\ Len(scans'[x].rows) = 0
      BY <2>2, IdleFits
    <3> QED BY <3>1 DEF ScanFits, KeysetScan
  <2> QED BY <1>3, <2>1, <2>2
<1>7. PageOf(k) \in Seq(Row)
  <2> DEFINE rows == scans[PL!Ranking(k)].rows
             ranked == PL!Ranked(rows)
             from == k[2] + 1
             to == PL!Min({k[2] + Limit, Len(ranked)})
  <2>1. rows \in Seq(Row)
    BY KeyFields, PoolRanges
  <2>2. ranked \in Seq(Row) /\ Len(ranked) \in Nat
    <3> HIDE DEF rows
    <3> QED BY <2>1, RankedIs
  <2> HIDE DEF ranked
  <2>3. from \in Nat \ {0} /\ k[2] + Limit \in Int
    BY KeyFields, PoolNumbers
  <2>4. to \in Int /\ to <= Len(ranked)
    <3>1. to = IF k[2] + Limit <= Len(ranked) THEN k[2] + Limit ELSE Len(ranked)
      BY <2>2, <2>3, MinOfTwo
    <3> HIDE DEF to
    <3> QED BY <2>2, <2>3, <3>1
  <2> HIDE DEF from, to
  <2>5. SubSeq(ranked, from, to) \in Seq(Row)
    BY <2>2, <2>3, <2>4
  <2> QED BY <2>5 DEF PageOf, ranked, from, to
<1>8. /\ attempts' \in [PageKeys -> Attempt]
      /\ attempts'[k].page = PageOf(k) /\ \A x \in PageKeys \ {k} : attempts'[x] = attempts[x]
  <2>1. [st |-> "hydrate", page |-> PageOf(k)] \in Attempt
    BY <1>7 DEF Attempt
  <2> QED BY <1>1, <1>2, <2>1
<1>9. PagesFit'
  <2>1. ASSUME NEW x \in PageKeys, x[1] # 0
        PROVE  /\ attempts'[x].st = "hydrate" => CutFor(x, attempts'[x].page)
               /\ pages'[x].held => CutFor(x, pages'[x].page)
    <3>1. attempts'[x].st = "hydrate" => CutFor(x, attempts'[x].page)
      <4>1. CASE x = k
        BY <1>1, <1>8, <4>1 DEF CutFor
      <4>2. CASE x # k
        BY <1>8, <2>1, <4>2 DEF PoolsInv, PagesFit
      <4> QED BY <4>1, <4>2
    <3>2. pages'[x].held => CutFor(x, pages'[x].page)
      BY <1>1, <2>1 DEF PoolsInv, PagesFit
    <3> QED BY <3>1, <3>2
  <2>2. \A c \in Askers : askers'[c] = askers[c]
    BY <1>1
  <2> QED BY <1>5, <2>1, <2>2, AskersFit
<1>10. PoolsTyped'
  BY <1>1, <1>4, <1>8 DEF PoolsInv, PoolsTyped
<1> QED BY <1>6, <1>9, <1>10 DEF PoolsInv

\* The readers a page was read for are answered with it.
LEMMA HydratedKeeps == ASSUME PoolsInv, NEW k \in PageKeys, PL!Hydrated(k) PROVE PoolsInv'
<1> DEFINE page == attempts[k].page
<1>1. /\ attempts[k].st = "hydrate"
      /\ pages' \in {pages, [pages EXCEPT ![k] = [held |-> TRUE, page |-> page]]}
      /\ askers' = PL!Answered(k, page)
      /\ attempts' = [attempts EXCEPT ![k] = PL!IdleAttempt]
      /\ UNCHANGED <<driver, epoch, poolTip, registered, scans>>
  BY DEF PL!Hydrated, PL!upstreamPools
<1>2. /\ attempts \in [PageKeys -> Attempt] /\ page \in Seq(Row)
      /\ pages \in [PageKeys -> [held : BOOLEAN, page : Seq(Row)]]
      /\ PL!IdleAttempt \in Attempt /\ PL!IdleAttempt.st = "idle"
  BY IdleFits, PoolRanges DEF PoolsInv, PoolsTyped
<1>3. k[1] # 0 => CutFor(k, page)
  BY <1>1 DEF PoolsInv, PagesFit
<1> HIDE DEF page
<1>4. /\ attempts' \in [PageKeys -> Attempt]
      /\ \A x \in PageKeys : attempts'[x] = attempts[x] \/ attempts'[x].st = "idle"
  BY <1>1, <1>2
<1>5. /\ pages' \in [PageKeys -> [held : BOOLEAN, page : Seq(Row)]]
      /\ \A x \in PageKeys : pages'[x] = pages[x] \/ (x = k /\ pages'[x].page = page)
  <2> DEFINE new == [held |-> TRUE, page |-> page]
  <2>1. new \in [held : BOOLEAN, page : Seq(Row)] /\ new.page = page
    BY <1>2
  <2>2. pages' = pages \/ pages' = [pages EXCEPT ![k] = new]
    BY <1>1
  <2> HIDE DEF new
  <2>3. \A x \in PageKeys : pages'[x] = pages[x] \/ (x = k /\ pages'[x] = new)
    BY <1>2, <2>2
  <2>4. pages' \in [PageKeys -> [held : BOOLEAN, page : Seq(Row)]]
    BY <1>2, <2>1, <2>2
  <2> QED BY <2>1, <2>3, <2>4
<1>6. \A c \in Askers :
         /\ askers'[c] \in Asker
         /\ \/ askers'[c] = askers[c]
            \/ /\ askers[c].st = "waiting" /\ askers[c].key = k
               /\ askers'[c].st = "done" /\ askers'[c].answer = page
               /\ askers'[c].key = askers[c].key /\ askers'[c].epoch = askers[c].epoch
               /\ askers'[c].offset = askers[c].offset
  BY <1>1, <1>2, AnsweredIs
<1>7. askers' \in [Askers -> Asker]
  <2>1. askers' = [c \in Askers |-> askers'[c]]
    BY <1>1 DEF PL!Answered
  <2> QED BY <1>6, <2>1
<1>8. PagesFit'
  <2>1. RankingsStay
    BY <1>1 DEF RankingsStay
  <2>2. ASSUME NEW x \in PageKeys, x[1] # 0
        PROVE  /\ attempts'[x].st = "hydrate" => CutFor(x, attempts'[x].page)
               /\ pages'[x].held => CutFor(x, pages'[x].page)
    BY <1>3, <1>4, <1>5, <2>2 DEF PoolsInv, PagesFit
  <2>3. ASSUME NEW c \in Askers
        PROVE  \/ askers'[c] = askers[c]
               \/ askers'[c].st \in {"waiting", "done"} =>
                     /\ askers'[c].key = <<askers'[c].epoch, askers'[c].offset>>
                     /\ askers'[c].key \in PageKeys
                     /\ askers'[c].st = "done" /\ askers'[c].epoch # 0 =>
                           CutFor(askers'[c].key, askers'[c].answer)
    <3>1. askers[c].st = "waiting" => askers[c].key = <<askers[c].epoch, askers[c].offset>>
      BY DEF PoolsInv, PagesFit
    <3>2. askers[c].st = "waiting" /\ askers[c].key = k /\ askers[c].epoch # 0 => k[1] # 0
      BY <3>1
    <3> QED BY <1>3, <1>6, <3>1, <3>2
  <2> QED BY <2>1, <2>2, <2>3, AskersFit
<1>9. PoolsTyped'
  BY <1>1, <1>4, <1>5, <1>7 DEF PoolsInv, PoolsTyped
<1>10. \A x \in PageKeys : ScanFits(x)'
  BY <1>1, ScanStays
<1> QED BY <1>8, <1>9, <1>10 DEF PoolsInv

\* Reads that fail answer with a page that is held, or with the error.
LEMMA FailureKeeps ==
    ASSUME PoolsInv, RankingsStay, NEW ks, NEW usable \in SUBSET PL!HeldPages(ks),
           askers' = PL!Failed(ks, usable), UNCHANGED <<driver, epoch, poolTip, registered, pages>>,
           attempts' \in [PageKeys -> Attempt],
           \A x \in PageKeys : attempts'[x] = attempts[x] \/ attempts'[x].st = "idle",
           scans' \in [PageKeys -> Scan], \A x \in PageKeys : ScanFits(x)'
    PROVE  PoolsInv'
<1>1. \A c \in Askers :
         /\ askers'[c] \in Asker
         /\ \/ askers'[c] = askers[c]
            \/ askers'[c].st = "failed"
            \/ /\ askers'[c].st = "done" /\ askers[c].st = "waiting"
               /\ askers'[c].key = askers[c].key /\ askers'[c].epoch = askers[c].epoch
               /\ askers'[c].offset = askers[c].offset /\ askers'[c].key \in PageKeys
               /\ pages[askers'[c].key].held /\ askers'[c].answer = pages[askers'[c].key].page
  BY FailedIs
<1>2. askers' \in [Askers -> Asker]
  <2>1. askers' = [c \in Askers |-> askers'[c]]
    BY DEF PL!Failed
  <2> QED BY <1>1, <2>1
<1>3. ASSUME NEW x \in PageKeys, x[1] # 0
      PROVE  /\ attempts'[x].st = "hydrate" => CutFor(x, attempts'[x].page)
             /\ pages'[x].held => CutFor(x, pages'[x].page)
  BY <1>3 DEF PoolsInv, PagesFit
<1>4. ASSUME NEW c \in Askers
      PROVE  \/ askers'[c] = askers[c]
             \/ askers'[c].st \in {"waiting", "done"} =>
                   /\ askers'[c].key = <<askers'[c].epoch, askers'[c].offset>>
                   /\ askers'[c].key \in PageKeys
                   /\ askers'[c].st = "done" /\ askers'[c].epoch # 0 =>
                         CutFor(askers'[c].key, askers'[c].answer)
  <2>1. CASE /\ askers'[c].st = "done" /\ askers[c].st = "waiting"
             /\ askers'[c].key = askers[c].key /\ askers'[c].epoch = askers[c].epoch
             /\ askers'[c].offset = askers[c].offset /\ askers'[c].key \in PageKeys
             /\ pages[askers'[c].key].held /\ askers'[c].answer = pages[askers'[c].key].page
    <3>1. askers'[c].key = <<askers'[c].epoch, askers'[c].offset>>
      BY <2>1 DEF PoolsInv, PagesFit
    <3>2. askers'[c].epoch # 0 => askers'[c].key[1] # 0
      BY <3>1
    <3>3. \A x \in PageKeys : x[1] # 0 /\ pages[x].held => CutFor(x, pages[x].page)
      BY DEF PoolsInv, PagesFit
    <3> QED BY <2>1, <3>1, <3>2, <3>3
  <2> QED BY <1>1, <2>1
<1>5. PagesFit'
  BY <1>3, <1>4, AskersFit
<1>6. PoolsTyped'
  BY <1>2 DEF PoolsInv, PoolsTyped
<1> QED BY <1>5, <1>6 DEF PoolsInv

LEMMA HydrationFailsKeeps ==
    ASSUME PoolsInv, NEW k \in PageKeys, PL!HydrationFails(k) PROVE PoolsInv'
<1>1. /\ attempts' = [attempts EXCEPT ![k] = PL!IdleAttempt]
      /\ UNCHANGED <<driver, epoch, poolTip, registered, scans, pages>>
  BY DEF PL!HydrationFails, PL!upstreamPools
<1>2. PICK usable \in SUBSET PL!HeldPages({k}) : askers' = PL!Failed({k}, usable)
  BY DEF PL!HydrationFails
<1>3. /\ attempts' \in [PageKeys -> Attempt]
      /\ \A x \in PageKeys : attempts'[x] = attempts[x] \/ attempts'[x].st = "idle"
  BY <1>1, IdleFits DEF PoolsInv, PoolsTyped
<1>4. scans' \in [PageKeys -> Scan] /\ RankingsStay
  BY <1>1 DEF PoolsInv, PoolsTyped, RankingsStay
<1>5. \A x \in PageKeys : ScanFits(x)'
  BY <1>1, ScanStays
<1> QED BY <1>1, <1>2, <1>3, <1>4, <1>5, FailureKeeps

LEMMA ScanFailsKeeps == ASSUME PoolsInv, NEW k \in PageKeys, PL!ScanFails(k) PROVE PoolsInv'
<1> DEFINE of == {p \in PageKeys : PL!Ranking(p) = k /\ attempts[p].st = "ranking"}
<1>1. /\ scans[k].st # "done" /\ scans' = [scans EXCEPT ![k] = PL!IdleScan]
      /\ attempts' = [p \in PageKeys |-> IF p \in of THEN PL!IdleAttempt ELSE attempts[p]]
      /\ UNCHANGED <<driver, epoch, poolTip, registered, pages>>
  BY DEF PL!ScanFails, PL!upstreamPools, PageKeys
<1>2. PICK usable \in SUBSET PL!HeldPages(of) : askers' = PL!Failed(of, usable)
  BY DEF PL!ScanFails, PageKeys
<1>3. /\ attempts' \in [PageKeys -> Attempt]
      /\ \A x \in PageKeys : attempts'[x] = attempts[x] \/ attempts'[x].st = "idle"
  <2> HIDE DEF of
  <2> QED BY <1>1, IdleFits DEF PoolsInv, PoolsTyped
<1>4. scans'[k] = PL!IdleScan
  BY <1>1 DEF PoolsInv, PoolsTyped
<1>5. ScanFits(k)'
  <2>1. /\ scans'[k].st = "idle" /\ scans'[k].rows = <<>> /\ scans'[k].throughout = {}
        /\ Len(scans'[k].rows) = 0
    BY <1>4, IdleFits
  <2> QED BY <2>1 DEF ScanFits, KeysetScan
<1>6. /\ scans' \in [PageKeys -> Scan] /\ (\A x \in PageKeys : ScanFits(x)') /\ RankingsStay
  BY <1>1, <1>5, IdleFits, OneScanSteps
<1> QED BY <1>1, <1>2, <1>3, <1>6, FailureKeeps

\* A call is answered from the cache, joins the read of its page, or begins it,
\* with the scan for its ranking where there is none.
LEMMA AsksKeeps ==
    ASSUME PoolsInv, NEW c \in Askers, NEW offset \in Offsets, NEW e \in 0..LastEpoch,
           PL!Asks(c, offset, e)
    PROVE  PoolsInv'
<1> DEFINE k == <<e, offset>>
           g == PL!Ranking(k)
           asker(st, page) == [st |-> st, offset |-> offset, epoch |-> e, key |-> k, answer |-> page]
           begun == [PL!IdleScan EXCEPT !.st = "reading", !.throughout = registered]
           old == pages[k].page
           joined == asker("waiting", <<>>)
           served == asker("done", old)
<1>1. k \in PageKeys /\ k[1] = e /\ g \in PageKeys /\ g[1] = e
  BY KeyFields
<1>2. /\ e \in {poolTip, 0} /\ UNCHANGED <<driver, epoch, poolTip, registered, pages>>
      /\ \/ /\ pages[k].held /\ askers' = [askers EXCEPT ![c] = served]
            /\ UNCHANGED <<scans, attempts>>
         \/ /\ askers' = [askers EXCEPT ![c] = joined]
            /\ \/ UNCHANGED <<scans, attempts>>
               \/ /\ attempts' = [attempts EXCEPT ![k].st = "ranking"]
                  /\ \/ scans' = scans
                     \/ scans[g].st = "idle" /\ scans' = [scans EXCEPT ![g] = begun]
  BY DEF PL!Asks, PL!PageKey, PL!upstreamPools, PL!Undefined
<1>3. /\ scans \in [PageKeys -> Scan] /\ attempts \in [PageKeys -> Attempt]
      /\ askers \in [Askers -> Asker] /\ old \in Seq(Row) /\ <<>> \in Seq(Row)
      /\ attempts[k] \in Attempt
  BY <1>1, PoolRanges DEF PoolsInv, PoolsTyped
<1>4. /\ served \in Asker /\ served.st = "done" /\ served.key = k /\ served.epoch = e
      /\ served.offset = offset /\ served.answer = old
  BY <1>1, <1>3 DEF Asker
<1>5. /\ joined \in Asker /\ joined.st = "waiting" /\ joined.key = k /\ joined.epoch = e
      /\ joined.offset = offset
  BY <1>1, <1>3 DEF Asker
<1>6. /\ begun \in Scan /\ begun.st = "reading" /\ begun.rows = <<>> /\ begun.throughout = registered
  BY IdleFits, PoolRanges DEF Scan
<1> HIDE DEF served, joined, begun
<1>7. /\ askers' \in [Askers -> Asker]
      /\ \A d \in Askers : askers'[d] = askers[d] \/ askers'[d] = joined
                           \/ (askers'[d] = served /\ pages[k].held)
  BY <1>2, <1>3, <1>4, <1>5
<1>8. /\ attempts' \in [PageKeys -> Attempt]
      /\ \A x \in PageKeys : attempts'[x] = attempts[x] \/ attempts'[x].st = "ranking"
  <2> DEFINE new == [attempts[k] EXCEPT !.st = "ranking"]
  <2>1. new \in Attempt /\ new.st = "ranking"
    BY <1>3 DEF Attempt
  <2>2. attempts' = attempts \/ attempts' = [attempts EXCEPT ![k] = new]
    BY <1>2
  <2> HIDE DEF new
  <2> QED BY <1>3, <2>1, <2>2
<1>9. ScanFits(g)' \/ scans' = scans
  <2> SUFFICES ASSUME scans[g].st = "idle", scans' = [scans EXCEPT ![g] = begun]
               PROVE  ScanFits(g)'
    BY <1>2
  <2>1. scans'[g] = begun
    BY <1>1, <1>3
  <2>2. g[1] <= epoch' /\ registered' = registered /\ Len(<<>>) = 0
    <3> HIDE DEF g
    <3>1. poolTip \in Nat /\ poolTip >= 1 /\ poolTip <= epoch /\ epoch \in Nat
      BY PoolRanges
    <3>2. g[1] = poolTip \/ g[1] = 0
      BY <1>1, <1>2
    <3> QED BY <1>2, <3>1, <3>2
  <2> HIDE DEF g
  <2> QED BY <1>6, <2>1, <2>2 DEF ScanFits, KeysetScan
<1>10. /\ scans' \in [PageKeys -> Scan] /\ (\A x \in PageKeys : ScanFits(x)') /\ RankingsStay
  <2>1. CASE scans' = scans
    BY <1>2, <1>3, <2>1, ScanStays DEF RankingsStay
  <2>2. CASE scans' # scans
    <3>1. /\ scans[g].st # "done" /\ scans' = [scans EXCEPT ![g] = begun] /\ ScanFits(g)'
      BY <1>2, <1>9, <2>2
    <3> HIDE DEF g
    <3> QED BY <1>1, <1>2, <1>6, <3>1, OneScanSteps
  <2> QED BY <2>1, <2>2
<1>11. ASSUME NEW x \in PageKeys, x[1] # 0
       PROVE  /\ attempts'[x].st = "hydrate" => CutFor(x, attempts'[x].page)
              /\ pages'[x].held => CutFor(x, pages'[x].page)
  BY <1>2, <1>8, <1>11 DEF PoolsInv, PagesFit
<1>12. ASSUME NEW d \in Askers
       PROVE  \/ askers'[d] = askers[d]
              \/ askers'[d].st \in {"waiting", "done"} =>
                    /\ askers'[d].key = <<askers'[d].epoch, askers'[d].offset>>
                    /\ askers'[d].key \in PageKeys
                    /\ askers'[d].st = "done" /\ askers'[d].epoch # 0 =>
                          CutFor(askers'[d].key, askers'[d].answer)
  <2>1. pages[k].held /\ e # 0 => CutFor(k, old)
    BY <1>1 DEF PoolsInv, PagesFit
  <2> QED BY <1>1, <1>4, <1>5, <1>7, <2>1
<1>13. PagesFit'
  BY <1>10, <1>11, <1>12, AskersFit
<1>14. PoolsTyped'
  BY <1>2, <1>7, <1>8, <1>10 DEF PoolsInv, PoolsTyped
<1> QED BY <1>10, <1>13, <1>14 DEF PoolsInv

LEMMA PoolsElsewhere ==
    ASSUME PoolsInv, UNCHANGED <<driver, poolsVars>> PROVE PoolsInv'
<1>1. UNCHANGED <<driver, epoch, poolTip, registered, scans, attempts, pages, askers>>
  BY DEF poolsVars
<1>2. PoolsTyped'
  BY <1>1 DEF PoolsInv, PoolsTyped
<1>3. \A k \in PageKeys : ScanFits(k)'
  BY <1>1, ScanStays
<1>4. PagesFit'
  BY <1>1, PagesStay DEF RankingsStay
<1> QED BY <1>2, <1>3, <1>4 DEF PoolsInv

\* The other lists read the driver that was configured.
LEMMA DriverStays == ASSUME DL!Next \/ PR!Next \/ TM!Next PROVE driver' = driver
<1>1. CASE DL!Next
  BY <1>1 DEF DL!Next, DL!Changes, DL!ReadsMembers, DL!ReadsFar, DL!Begins, DL!CallStep,
              DL!Reader, DL!OwnScan, DL!OwnScanFails, DL!ParamsRead, DL!RequestFails,
              DL!InfoRead, DL!NamesRead, DL!Returns, DL!SharedWalk, DL!Refresh, DL!RefreshEnds,
              DL!RefreshFails
<1>2. CASE PR!Next
  BY <1>2 DEF PR!Next, PR!Chain, PR!Submits, PR!Decides, PR!Votes, PR!Event, PR!CallSteps,
              PR!Asked, PR!ListRead, PR!PageRead, PR!Probed, PR!ListFails, PR!TallyRead,
              PR!DetailRead, PR!DetailFails, PR!DocumentRead, PR!Returns
<1>3. CASE TM!Next
  BY <1>3 DEF TM!Next, TM!Mints, TM!Registers, TM!Editing, TM!Asks, TM!Call, TM!CallSteps,
              TM!RowArrives, TM!RowFails, TM!Resolves
<1> QED BY <1>1, <1>2, <1>3

LEMMA PoolsStep == PoolsInv /\ [Next]_vars => PoolsInv'
<1> SUFFICES ASSUME PoolsInv, [Next]_vars PROVE PoolsInv'
  OBVIOUS
<1>1. CASE UNCHANGED vars
  BY <1>1, PoolsElsewhere DEF vars
<1>2. CASE Params(PP!Next)
  BY <1>2, PoolsElsewhere DEF Params
<1>3. CASE DrepPages(DL!Next)
  BY <1>3, DriverStays, PoolsElsewhere DEF DrepPages
<1>4. CASE ProposalPages(PR!Next)
  BY <1>4, DriverStays, PoolsElsewhere DEF ProposalPages
<1>5. CASE Tokens(TM!Next)
  BY <1>5, DriverStays, PoolsElsewhere DEF Tokens
<1>6. CASE PoolPages(PL!Next)
  <2>1. \/ \E p \in Pools : PL!Churns(p)
        \/ PL!EpochEnds \/ PL!TipReads
        \/ \E c \in Askers, offset \in Offsets, e \in 0..LastEpoch : PL!Asks(c, offset, e)
        \/ \E k \in PageKeys : PL!Serves(k)
    BY <1>6 DEF PoolPages, PL!Next, PL!Undefined, PageKeys
  <2>2. ASSUME NEW k \in PageKeys, PL!Serves(k) PROVE PoolsInv'
    BY <2>2, ScanPageKeeps, ProbeEndsKeeps, ScanFailsKeeps, SliceKeeps, HydratedKeeps,
       HydrationFailsKeeps DEF PL!Serves
  <2> QED BY <2>1, <2>2, ChurnKeeps, ChainKeeps, AsksKeeps
<1> QED BY <1>1, <1>2, <1>3, <1>4, <1>5, <1>6 DEF Next

LEMMA PoolsInvariant == Spec => []PoolsInv
<1>1. Init => PoolsInv
  BY PoolsStart DEF Init
<1> QED BY <1>1, PoolsStep, PTL DEF Spec

\* The rows of a page stand in its ranking, at the places the page was asked for.
LEMMA PageElements ==
    ASSUME PoolsInv, NEW k \in PageKeys, NEW p, CutFor(k, p), NEW x \in PL!ToSet(p)
    PROVE  LET ranked == PL!Ranked(scans[PL!Ranking(k)].rows)
           IN  \E m \in 1..Len(ranked) : x = ranked[m] /\ k[2] < m /\ m <= k[2] + Limit
<1> DEFINE rows == scans[PL!Ranking(k)].rows
           ranked == PL!Ranked(rows)
           to == PL!Min({k[2] + Limit, Len(ranked)})
<1>1. ranked \in Seq(Row) /\ Len(ranked) \in Nat
  <2>1. rows \in Seq(Row)
    BY KeyFields, PoolRanges
  <2> HIDE DEF rows
  <2> QED BY <2>1, RankedIs
<1>2. p = SubSeq(ranked, k[2] + 1, to)
  BY DEF CutFor, PageOf
<1> HIDE DEF ranked
<1>3. k[2] \in Nat /\ Limit \in Nat
  BY KeyFields, PoolNumbers
<1>4. to \in Int /\ to <= Len(ranked) /\ to <= k[2] + Limit
  <2>1. to = IF k[2] + Limit <= Len(ranked) THEN k[2] + Limit ELSE Len(ranked)
    BY <1>1, <1>3, MinOfTwo
  <2> HIDE DEF to
  <2> QED BY <1>1, <1>3, <2>1
<1> HIDE DEF to
<1>5. PICK i \in DOMAIN p : x = p[i]
  BY DEF PL!ToSet
<1>6. i \in 1..(to - k[2]) /\ p[i] = ranked[k[2] + i]
  BY <1>1, <1>2, <1>3, <1>4, <1>5, SMTT(30)
<1>7. k[2] + i \in 1..Len(ranked) /\ k[2] < k[2] + i /\ k[2] + i <= k[2] + Limit
  BY <1>1, <1>3, <1>4, <1>6
<1> QED BY <1>5, <1>6, <1>7 DEF ranked

\* Pages that callers of getPoolList() were given for one epoch are pages of one
\* ranking, by no earlier snapshot than that epoch's, whatever registered, retired
\* or expired between them: also a page that was held for a failed refresh.
THEOREM PagesStayOfOneRanking == Spec => []PagesOfOneRanking
<1>1. PoolsInv => PL!RankedByItsEpoch
  <2> SUFFICES ASSUME PoolsInv, NEW c \in Askers, PL!Served(c), NEW a \in PL!ToSet(askers[c].answer)
               PROVE  a.at >= askers[c].epoch
    BY DEF PL!RankedByItsEpoch
  <2> DEFINE k == askers[c].key
             rows == scans[PL!Ranking(k)].rows
  <2>1. k = <<askers[c].epoch, askers[c].offset>> /\ k \in PageKeys /\ CutFor(k, askers[c].answer)
    BY PoolRanges DEF PoolsInv, PagesFit, PL!Served, PL!Undefined
  <2>2. PL!Ranking(k) \in PageKeys /\ PL!Ranking(k)[1] = k[1] /\ k[1] = askers[c].epoch
        /\ k[1] \in Nat
    BY <2>1, KeyFields
  <2>3. rows \in Seq(Row) /\ \A i \in 1..Len(rows) : k[1] <= rows[i].at
    BY <2>2, PoolRanges DEF ScanFits
  <2>4. PICK m \in 1..Len(PL!Ranked(rows)) : a = PL!Ranked(rows)[m]
    <3> HIDE DEF k
    <3> QED BY <2>1, PageElements
  <2> HIDE DEF k, rows
  <2>5. PICK i \in 1..Len(rows) : a = rows[i]
    BY <2>3, <2>4, RankedIs
  <2>6. rows[i].at \in Nat
    BY <2>3, PoolNumbers
  <2> QED BY <2>2, <2>3, <2>5, <2>6
<1>2. PoolsInv => PL!PagesAgree
  <2> SUFFICES ASSUME PoolsInv, NEW c \in Askers, NEW d \in Askers, PL!Served(c), PL!Served(d),
                      askers[c].epoch = askers[d].epoch,
                      askers[c].offset + Limit <= askers[d].offset,
                      NEW a \in PL!ToSet(askers[c].answer), NEW b \in PL!ToSet(askers[d].answer)
               PROVE  ~PL!Before(b, a) /\ (driver = "koios" => a.id # b.id)
    BY DEF PL!PagesAgree
  <2> DEFINE e == askers[c].epoch
             from == askers[c].offset
             later == askers[d].offset
             g == <<e, 0>>
             rows == scans[g].rows
             ranked == PL!Ranked(rows)
  <2>1. /\ askers[c].key = <<e, from>> /\ <<e, from>> \in PageKeys /\ e # 0
        /\ CutFor(<<e, from>>, askers[c].answer)
        /\ askers[d].key = <<e, later>> /\ <<e, later>> \in PageKeys
        /\ CutFor(<<e, later>>, askers[d].answer)
    BY PoolRanges DEF PoolsInv, PagesFit, PL!Served, PL!Undefined
  <2>2. /\ PL!Ranking(<<e, from>>) = g /\ PL!Ranking(<<e, later>>) = g /\ g \in PageKeys
        /\ from \in Nat /\ later \in Nat /\ Limit \in Nat /\ from + Limit <= later
    <3>1. PL!Ranking(<<e, from>>) = g /\ PL!Ranking(<<e, later>>) = g
      BY <2>1 DEF PL!Ranking, PL!Undefined
    <3>2. g \in PageKeys
      BY <2>1, <3>1, KeyFields
    <3>3. from \in Nat /\ later \in Nat /\ Limit \in Nat
      BY <2>1, KeyFields, PoolNumbers
    <3> QED BY <3>1, <3>2, <3>3
  <2>3. rows \in Seq(Row) /\ ScanFits(g)
    BY <2>2, PoolRanges
  <2>4. PICK m \in 1..Len(ranked) : a = ranked[m] /\ from < m /\ m <= from + Limit
    <3>1. \E m \in 1..Len(ranked) : a = ranked[m] /\ <<e, from>>[2] < m /\ m <= <<e, from>>[2] + Limit
      <4> DEFINE k == <<e, from>>
      <4> HIDE DEF k
      <4>1. k \in PageKeys /\ CutFor(k, askers[c].answer) /\ PL!Ranking(k) = g
        BY <2>1, <2>2 DEF k
      <4> QED BY <4>1, PageElements DEF k
    <3> QED BY <3>1
  <2>5. PICK n \in 1..Len(ranked) : b = ranked[n] /\ later < n
    <3>1. \E n \in 1..Len(ranked) : b = ranked[n] /\ <<e, later>>[2] < n /\ n <= <<e, later>>[2] + Limit
      <4> DEFINE k == <<e, later>>
      <4> HIDE DEF k
      <4>1. k \in PageKeys /\ CutFor(k, askers[d].answer) /\ PL!Ranking(k) = g
        BY <2>1, <2>2 DEF k
      <4> QED BY <4>1, PageElements DEF k
    <3> QED BY <3>1
  <2>6. m < n
    BY <2>2, <2>4, <2>5
  <2> HIDE DEF rows
  <2>7. /\ ~PL!Before(ranked[n], ranked[m])
        /\ \E i, j \in 1..Len(rows) : i # j /\ ranked[m] = rows[i] /\ ranked[n] = rows[j]
    <3>1. Len(ranked) = Len(rows)
      BY <2>3, RankedIs
    <3>2. \A x, y \in 1..Len(rows) : x < y =>
              /\ ~PL!Before(ranked[y], ranked[x])
              /\ \E i, j \in 1..Len(rows) : i # j /\ ranked[x] = rows[i] /\ ranked[y] = rows[j]
      BY <2>3, RankedIs
    <3> HIDE DEF ranked
    <3> QED BY <2>6, <3>1, <3>2
  <2>8. driver = "koios" => a.id # b.id
    <3> SUFFICES ASSUME driver = "koios" PROVE a.id # b.id
      OBVIOUS
    <3>1. PICK i \in 1..Len(rows), j \in 1..Len(rows) : i # j /\ a = rows[i] /\ b = rows[j]
      BY <2>4, <2>5, <2>7
    <3>2. \A x, y \in 1..Len(rows) : x < y => rows[x].id < rows[y].id
      BY <2>3 DEF ScanFits, KeysetScan, rows
    <3>3. rows[i].id \in Nat /\ rows[j].id \in Nat
      BY <2>3, PoolNumbers
    <3>4. i < j \/ j < i
      BY <3>1
    <3> QED BY <3>1, <3>2, <3>3, <3>4
  <2> QED BY <2>4, <2>5, <2>7, <2>8
<1> QED BY <1>1, <1>2, PoolsInvariant, PTL DEF PagesOfOneRanking

\* A Koios ranking holds every pool that was registered throughout its scan, once,
\* whatever came and went behind and before the cursor of its requests: "a missed
\* pool with large stake would be absent from page one" (koios/pools.ts).
THEOREM PoolScansAreWhole == Spec => []PL!ListedWhole
<1>1. PoolsInv => PL!ListedWhole
  <2> SUFFICES ASSUME PoolsInv, driver = "koios", NEW k \in PageKeys, scans[k].st = "done",
                      NEW p \in scans[k].throughout
               PROVE  PL!Cardinality({i \in DOMAIN scans[k].rows : scans[k].rows[i].id = p}) = 1
    BY DEF PL!ListedWhole, PageKeys
  <2> DEFINE rows == scans[k].rows
             at == {i \in DOMAIN rows : rows[i].id = p}
  <2>1. rows \in Seq(Row) /\ KeysetScan(scans[k])
    BY PoolRanges DEF ScanFits
  <2>2. PICK i \in 1..Len(rows) : rows[i].id = p
    BY <2>1 DEF KeysetScan
  <2>3. ASSUME NEW j \in 1..Len(rows), rows[j].id = p PROVE j = i
    <3>1. rows[i].id \in Nat
      BY <2>1, PoolNumbers
    <3>2. \A x, y \in 1..Len(rows) : x < y => rows[x].id < rows[y].id
      BY <2>1 DEF KeysetScan
    <3> HIDE DEF rows
    <3>3. ~(i < j) /\ ~(j < i)
      BY <2>2, <2>3, <3>1, <3>2
    <3> QED BY <3>3
  <2>4. DOMAIN rows = 1..Len(rows)
    BY <2>1
  <2>5. at = {i}
    BY <2>2, <2>3, <2>4
  <2>6. Cardinality({i}) = 1
    BY FS_Singleton
  <2>7. PL!Cardinality(at) = Cardinality(at)
    BY PoolCardinality
  <2> QED BY <2>5, <2>6, <2>7
<1> QED BY <1>1, PoolsInvariant, PTL

-----------------------------------------------------------------------------
(* The DReps.                                                               *)

\* The same order, in the other list.
LEMMA DrepOrderIs ==
    ASSUME NEW S \in SUBSET Nat, IsFiniteSet(S)
    PROVE  /\ DL!InOrder(S) \in Seq(S) /\ Len(DL!InOrder(S)) = Cardinality(S)
           /\ \A m, n \in 1..Cardinality(S) : m < n => DL!InOrder(S)[m] < DL!InOrder(S)[n]
           /\ \A x \in S : \E n \in 1..Cardinality(S) : DL!InOrder(S)[n] = x
<1>1. ASSUME NEW T PROVE DL!Cardinality(T) = PL!Cardinality(T)
  BY DEF DL!Cardinality, PL!Cardinality
<1>2. \A n : (CHOOSE x \in S : DL!Cardinality({y \in S : y <= x}) = n)
                 = CHOOSE x \in S : PL!Cardinality({y \in S : y <= x}) = n
  <2>1. \A x \in S : DL!Cardinality({y \in S : y <= x}) = PL!Cardinality({y \in S : y <= x})
    BY <1>1
  <2> QED BY <2>1
<1>3. DL!InOrder(S) = PL!InOrder(S)
  <2> DEFINE f == DL!InOrder(S)
             g == PL!InOrder(S)
             N == PL!Cardinality(S)
  <2>1. f = [n \in 1..N |-> f[n]] /\ g = [n \in 1..N |-> g[n]]
    <3>1. DL!Cardinality(S) = N
      BY <1>1
    <3>2. f = [n \in 1..N |-> f[n]]
      BY <3>1 DEF DL!InOrder
    <3>3. g = [n \in 1..N |-> g[n]]
      BY DEF PL!InOrder
    <3> QED BY <3>2, <3>3
  <2>2. ASSUME NEW n \in 1..N PROVE f[n] = g[n]
    <3>1. f[n] = CHOOSE x \in S : DL!Cardinality({y \in S : y <= x}) = n
      BY <1>1 DEF DL!InOrder
    <3>2. g[n] = CHOOSE x \in S : PL!Cardinality({y \in S : y <= x}) = n
      BY DEF PL!InOrder
    <3> QED BY <1>2, <3>1, <3>2
  <2> HIDE DEF f, g, N
  <2>3. [n \in 1..N |-> f[n]] = [n \in 1..N |-> g[n]]
    BY <2>2
  <2>4. f = g
    BY <2>1, <2>3
  <2> QED BY <2>4 DEF f, g
<1> QED BY <1>3, InOrderIs

LEMMA MinOfTwoRows ==
    ASSUME NEW a \in Nat, NEW b \in Nat
    PROVE  /\ DL!Min({a, b}) \in Nat /\ DL!Min({a, b}) <= a /\ DL!Min({a, b}) <= b
           /\ DL!Min({a, b}) = a \/ DL!Min({a, b}) = b
<1>1. DL!Min({a, b}) = PL!Min({a, b})
  BY DEF DL!Min, PL!Min
<1>2. PL!Min({a, b}) = IF a <= b THEN a ELSE b
  BY MinOfTwo
<1> QED BY <1>1, <1>2

Ascends(s) == \A i, j \in 1..Len(s) : i < j => s[i] < s[j]

Holds(s, x) == \E i \in 1..Len(s) : s[i] = x

\* What follows a sequence beyond its greatest element keeps it in order.
LEMMA Appends ==
    ASSUME NEW S \in SUBSET Nat, NEW s \in Seq(S), NEW t \in Seq(S)
    PROVE  /\ s \o t \in Seq(S) /\ Len(s \o t) = Len(s) + Len(t)
           /\ \A x : Holds(s \o t, x) <=> Holds(s, x) \/ Holds(t, x)
           /\ Ascends(s) /\ Ascends(t) /\ (\A i \in 1..Len(s), j \in 1..Len(t) : s[i] < t[j])
                => Ascends(s \o t)
<1> DEFINE u == s \o t
<1>1. /\ u \in Seq(S) /\ Len(u) = Len(s) + Len(t) /\ Len(s) \in Nat /\ Len(t) \in Nat
      /\ \A i \in 1..Len(s) : u[i] = s[i]
      /\ \A i \in 1..Len(u) : i > Len(s) => u[i] = t[i - Len(s)]
  OBVIOUS
<1> HIDE DEF u
<1>2. \A j \in 1..Len(t) : Len(s) + j \in 1..Len(u) /\ u[Len(s) + j] = t[j]
  <2> TAKE j \in 1..Len(t)
  <2>1. Len(s) + j \in 1..Len(u) /\ Len(s) + j > Len(s) /\ (Len(s) + j) - Len(s) = j
    BY <1>1
  <2> QED BY <1>1, <2>1
<1>3. \A i \in 1..Len(u) : i \in 1..Len(s) \/ (i > Len(s) /\ i - Len(s) \in 1..Len(t))
  BY <1>1
<1>4. ASSUME NEW x PROVE Holds(u, x) <=> Holds(s, x) \/ Holds(t, x)
  <2>1. \A i \in 1..Len(s) : i \in 1..Len(u)
    BY <1>1
  <2> QED BY <1>1, <1>2, <1>3, <2>1 DEF Holds
<1>5. ASSUME Ascends(s), Ascends(t), \A i \in 1..Len(s), j \in 1..Len(t) : s[i] < t[j],
             NEW i \in 1..Len(u), NEW j \in 1..Len(u), i < j
      PROVE  u[i] < u[j]
  <2>1. CASE j \in 1..Len(s)
    <3>1. i \in 1..Len(s)
      BY <1>1, <1>5, <2>1
    <3> QED BY <1>1, <1>5, <2>1, <3>1 DEF Ascends
  <2>2. CASE j > Len(s) /\ j - Len(s) \in 1..Len(t)
    <3>1. CASE i \in 1..Len(s)
      BY <1>1, <1>5, <2>2, <3>1
    <3>2. CASE i > Len(s) /\ i - Len(s) \in 1..Len(t)
      <4>1. i - Len(s) < j - Len(s)
        BY <1>1, <1>5
      <4> QED BY <1>1, <1>5, <2>2, <3>2, <4>1 DEF Ascends
    <3> QED BY <1>3, <3>1, <3>2
  <2> QED BY <1>3, <2>1, <2>2
<1>6. Ascends(s) /\ Ascends(t) /\ (\A i \in 1..Len(s), j \in 1..Len(t) : s[i] < t[j])
          => Ascends(u)
  BY <1>5 DEF Ascends
<1> QED BY <1>1, <1>4, <1>6 DEF u

-----------------------------------------------------------------------------
(* The invariant.                                                           *)

Walk ==
    [st : {"idle", "reading", "probe", "done"}, needed : Nat, page : Nat \ {0}, after : Nat,
     kept : Seq(Dreps), throughout : SUBSET Dreps]

DrepReader ==
    [st : {"idle", "members", "params", "scan", "hydrate", "done", "failed"}, offset : Nat,
     scan : Walk, page : Seq(Dreps), info : BOOLEAN, names : BOOLEAN,
     standing : [Dreps -> DL!Standings], answer : Seq(Dreps)]

DrepsTyped ==
    /\ driver \in {"koios", "blockfrost"} /\ caching \in BOOLEAN
    /\ standing \in [Dreps -> DL!Standings]
    /\ refresh \in Walk /\ membership \in [held : BOOLEAN, list : Seq(Dreps)]
    /\ readers \in [Readers -> DrepReader]
    /\ during \in [Readers -> [Dreps -> SUBSET DL!Standings]]

\* A Koios walk keeps ids in order, and of those that are registered throughout
\* it the ones up to its cursor; one that was not enough has met the end of the list.
WalkFits(scan) ==
    /\ Ascends(scan.kept)
    /\ scan.st \in {"reading", "probe"} =>
          /\ scan.throughout \subseteq DL!Registered
          /\ Len(scan.kept) < scan.needed
          /\ \A i \in 1..Len(scan.kept) : scan.kept[i] <= scan.after
    /\ \A x \in scan.throughout :
          Holds(scan.kept, x) <=>
              x <= scan.after \/ (scan.st = "done" /\ Len(scan.kept) < scan.needed)

\* What a reader has heard of a DRep was true while it asked.
ReaderFits(c) ==
    LET r == readers[c] IN
    /\ DL!Asking(c) => \A x \in Dreps : standing[x] \in during[c][x]
    /\ r.st = "scan" =>
          /\ driver = "koios" => WalkFits(r.scan)
          /\ driver = "blockfrost" =>
                \A i \in 1..Len(r.scan.kept) : "registered" \in during[c][r.scan.kept[i]]
    /\ DL!Asking(c) /\ r.info => \A x \in Dreps : r.standing[x] \in during[c][x]
    /\ r.st = "done" => \A x \in DL!ToSet(r.page) :
          /\ x \in DL!ToSet(r.answer) => "registered" \in during[c][x]
          /\ during[c][x] = {"registered"} => x \in DL!ToSet(r.answer)

DrepsInv ==
    /\ DrepsTyped
    /\ driver = "koios" => WalkFits(refresh)
    /\ \A c \in Readers : ReaderFits(c)

LEMMA DrepNumbers ==
    /\ IsFiniteSet(Dreps) /\ Dreps \subseteq Nat /\ \A x \in Dreps : x \in Nat /\ x > 0
    /\ DrepLimit \in Nat /\ DrepLimit > 0 /\ DrepOffsets \subseteq Nat
    /\ DrepPageSize \in Nat \ {0} /\ DL!EndOfList \in Nat /\ DL!EndOfList > 0
<1>1. /\ IsFiniteSet(Dreps) /\ Dreps \subseteq Nat \ {0} /\ DrepLimit \in Nat \ {0}
      /\ DrepOffsets \subseteq Nat /\ DrepPageSize \in Nat \ {0}
  BY CachedAssumption
<1>2. DL!Cardinality(Dreps) = Cardinality(Dreps)
  BY DEF Cardinality, DL!Cardinality
<1>3. Cardinality(Dreps) \in Nat
  BY <1>1, FS_CardinalityType
<1>4. DL!EndOfList \in Nat /\ DL!EndOfList > 0
  BY <1>2, <1>3 DEF DL!EndOfList
<1> QED BY <1>1, <1>4

LEMMA DrepRanges ==
    ASSUME DrepsInv
    PROVE  /\ driver \in {"koios", "blockfrost"} /\ caching \in BOOLEAN
           /\ standing \in [Dreps -> DL!Standings]
           /\ refresh \in Walk /\ refresh.kept \in Seq(Dreps)
           /\ membership.held \in BOOLEAN /\ membership.list \in Seq(Dreps)
           /\ \A c \in Readers :
                 /\ readers[c] \in DrepReader /\ readers[c].scan \in Walk
                 /\ readers[c].offset \in Nat /\ readers[c].scan.kept \in Seq(Dreps)
                 /\ readers[c].page \in Seq(Dreps) /\ ReaderFits(c)
                 /\ readers[c].standing \in [Dreps -> DL!Standings]
                 /\ during[c] \in [Dreps -> SUBSET DL!Standings]
<1>1. \A w \in Walk : w.kept \in Seq(Dreps)
  BY DEF Walk
<1>2. \A r \in DrepReader : /\ r.scan \in Walk /\ r.offset \in Nat /\ r.page \in Seq(Dreps)
                            /\ r.standing \in [Dreps -> DL!Standings]
  BY DEF DrepReader
<1>3. \A c \in Readers : readers[c] \in DrepReader
  BY DEF DrepsInv, DrepsTyped
<1> QED BY <1>1, <1>2, <1>3 DEF DrepsInv, DrepsTyped

\* One response of the list: in Koios the next ids.
LEMMA DrepResponseIs ==
    ASSUME DrepsInv, NEW scan \in Walk, NEW size \in Nat \ {0}
    PROVE  LET r == DL!Response(scan, size)
           IN  /\ r \in Seq(Dreps) /\ Len(r) <= size
               /\ driver = "koios" =>
                     /\ \A i \in 1..Len(r) : r[i] > scan.after
                     /\ Ascends(r)
                     /\ \A x \in DL!Registered : x > scan.after =>
                           Holds(r, x) \/ (Len(r) = size /\ r[size] < x)
<1> DEFINE next == {x \in DL!Known : x > scan.after}
           known == DL!Known
           list == DL!InOrder(known)
           from == (scan.page - 1) * DrepPageSize + 1
           rest == IF driver = "koios" THEN DL!InOrder(next)
                   ELSE SubSeq(list, from, DL!Cardinality(known))
           n == DL!Min({size, Len(rest)})
           r == DL!Response(scan, size)
<1>1. r = SubSeq(rest, 1, n)
  BY DEF DL!Response
<1>2. /\ known \subseteq Dreps /\ known \in SUBSET Nat /\ IsFiniteSet(known)
      /\ next \subseteq Dreps /\ next \in SUBSET Nat /\ IsFiniteSet(next)
  <2>1. known \subseteq Dreps /\ next \subseteq Dreps
    BY DEF DL!Known
  <2> HIDE DEF next, known
  <2> QED BY <2>1, DrepNumbers, FS_Subset
<1>3. scan.page \in Nat \ {0} /\ DrepPageSize \in Nat \ {0} /\ scan.after \in Nat
  BY DrepNumbers DEF Walk
<1>4. list \in Seq(known) /\ Len(list) = Cardinality(known) /\ Cardinality(known) \in Nat
      /\ DL!Cardinality(known) = Cardinality(known)
  <2> HIDE DEF known
  <2>1. DL!Cardinality(known) = Cardinality(known)
    BY DEF Cardinality, DL!Cardinality
  <2> QED BY <1>2, <2>1, DrepOrderIs, FS_CardinalityType
<1>5. /\ DL!InOrder(next) \in Seq(next) /\ Ascends(DL!InOrder(next))
      /\ \A x \in next : Holds(DL!InOrder(next), x)
  <2> HIDE DEF next
  <2>1. Len(DL!InOrder(next)) = Cardinality(next)
    BY <1>2, DrepOrderIs
  <2> QED BY <1>2, <2>1, DrepOrderIs DEF Ascends, Holds
<1>6. rest \in Seq(Dreps)
  <2>1. CASE driver = "koios"
    <3> DEFINE f == DL!InOrder(next)
    <3>1. f \in Seq(next) /\ next \subseteq Dreps /\ rest = f
      BY <1>2, <1>5, <2>1
    <3> HIDE DEF next, f, rest
    <3>2. Len(f) \in Nat /\ f \in [1..Len(f) -> Dreps]
      BY <3>1
    <3> QED BY <3>1, <3>2
  <2>2. CASE driver # "koios"
    <3>1. from \in Nat \ {0}
      <4>1. \A a, b \in Nat : a * b \in Nat
        OBVIOUS
      <4>2. scan.page - 1 \in Nat
        BY <1>3
      <4>3. (scan.page - 1) * DrepPageSize \in Nat
        BY <1>3, <4>1, <4>2
      <4> QED BY <4>3
    <3>2. list \in Seq(Dreps) /\ Len(list) = DL!Cardinality(known)
      <4>1. list \in [1..Len(list) -> Dreps] /\ Len(list) \in Nat
        <5>1. list \in Seq(known) /\ known \subseteq Dreps
          BY <1>2, <1>4
        <5> HIDE DEF known, list
        <5>2. \A i \in 1..Len(list) : list[i] \in Dreps
          BY <5>1
        <5> QED BY <5>1, <5>2
      <4> HIDE DEF list
      <4> QED BY <1>4, <4>1
    <3>3. rest = SubSeq(list, from, Len(list))
      BY <2>2, <3>2
    <3> HIDE DEF list, from, rest
    <3>4. SubSeq(list, from, Len(list)) \in Seq(Dreps)
      BY <3>1, <3>2
    <3> QED BY <3>3, <3>4
  <2> QED BY <2>1, <2>2
<1>7. Len(rest) \in Nat /\ n \in Nat /\ n <= size /\ n <= Len(rest) /\ (n = size \/ n = Len(rest))
  <2> HIDE DEF rest
  <2>1. Len(rest) \in Nat
    BY <1>6
  <2> QED BY <2>1, MinOfTwoRows
<1>8. rest = DL!InOrder(next) \/ driver # "koios"
  OBVIOUS
<1> HIDE DEF rest, n, r
<1>9. r \in Seq(Dreps) /\ Len(r) = n /\ \A i \in 1..n : r[i] = rest[i] /\ i \in 1..Len(rest)
  BY <1>1, <1>6, <1>7
<1>10. ASSUME driver = "koios"
       PROVE  /\ \A i \in 1..Len(r) : r[i] > scan.after
              /\ Ascends(r)
              /\ \A x \in DL!Registered : x > scan.after =>
                    Holds(r, x) \/ (Len(r) = size /\ r[size] < x)
  <2>1. rest \in Seq(next) /\ Ascends(rest) /\ \A x \in next : Holds(rest, x)
    BY <1>5, <1>8, <1>10
  <2>2. \A i \in 1..Len(rest) : rest[i] \in next
    <3> HIDE DEF next
    <3> QED BY <2>1
  <2>3. Ascends(r)
    BY <1>9, <2>1 DEF Ascends
  <2>4. ASSUME NEW x \in DL!Registered, x > scan.after, ~Holds(r, x)
        PROVE  Len(r) = size /\ r[size] < x
    <3>1. x \in next
      BY <2>4 DEF DL!Registered, DL!Known
    <3>2. PICK i \in 1..Len(rest) : rest[i] = x
      BY <2>1, <3>1 DEF Holds
    <3>3. i \notin 1..n
      BY <1>9, <2>4, <3>2 DEF Holds
    <3>4. n < i /\ n = size /\ n \in 1..n
      BY <1>7, <3>3
    <3>5. rest[n] < rest[i]
      BY <1>9, <2>1, <3>4 DEF Ascends
    <3> QED BY <1>9, <3>2, <3>4, <3>5
  <2> QED BY <1>9, <2>2, <2>3, <2>4
<1> QED BY <1>7, <1>9, <1>10 DEF r

\* A walk after one more response.
LEMMA ScannedIs ==
    ASSUME DrepsInv, NEW scan \in Walk, scan.st = "reading", driver = "koios" => WalkFits(scan)
    PROVE  LET s == DL!Scanned(scan)
           IN  /\ s \in Walk /\ (driver = "koios" => WalkFits(s))
               /\ \A i \in 1..Len(s.kept) :
                     Holds(scan.kept, s.kept[i]) \/ s.kept[i] \in DL!Registered
<1> DEFINE rows == DL!Response(scan, DrepPageSize)
           new == DL!ToSet(rows) \cap DL!Registered
           more == DL!InOrder(new)
           kept == scan.kept \o more
           after == DL!CursorAfter(rows, kept)
           s == DL!Scanned(scan)
<1>1. /\ s = [scan EXCEPT !.kept = kept, !.page = @ + 1, !.after = after,
                 !.st = IF Len(rows) < DrepPageSize \/ Len(kept) >= scan.needed THEN "done"
                        ELSE IF scan.page = DrepMaxPages THEN "probe" ELSE "reading"]
  BY DEF DL!Scanned
<1>2. /\ rows \in Seq(Dreps) /\ Len(rows) <= DrepPageSize
      /\ driver = "koios" =>
            /\ \A i \in 1..Len(rows) : rows[i] > scan.after
            /\ Ascends(rows)
            /\ \A x \in DL!Registered : x > scan.after =>
                  Holds(rows, x) \/ (Len(rows) = DrepPageSize /\ rows[DrepPageSize] < x)
  BY DrepNumbers, DrepResponseIs
<1> HIDE DEF rows
<1>3. /\ Len(rows) \in Nat /\ \A i \in 1..Len(rows) : rows[i] \in Dreps /\ rows[i] \in Nat
      /\ DL!ToSet(rows) = {rows[i] : i \in 1..Len(rows)}
      /\ rows # <<>> => Len(rows) \in 1..Len(rows)
  <2>1. Len(rows) \in Nat /\ DOMAIN rows = 1..Len(rows)
    BY <1>2
  <2>2. \A i \in 1..Len(rows) : rows[i] \in Dreps
    BY <1>2
  <2>3. rows # <<>> => Len(rows) \in 1..Len(rows)
    BY <1>2
  <2> QED BY <2>1, <2>2, <2>3, DrepNumbers DEF DL!ToSet
<1>4. new \subseteq Dreps /\ new \in SUBSET Nat /\ IsFiniteSet(new)
      /\ \A x : x \in new <=> Holds(rows, x) /\ x \in DL!Registered
  <2>1. new \subseteq Dreps /\ \A x : x \in new <=> Holds(rows, x) /\ x \in DL!Registered
    BY <1>3 DEF Holds
  <2> HIDE DEF new
  <2> QED BY <2>1, DrepNumbers, FS_Subset
<1> HIDE DEF new
<1>5. more \in Seq(Dreps) /\ Ascends(more) /\ \A x : x \in new <=> Holds(more, x)
  <2>1. /\ more \in Seq(new) /\ Len(more) = Cardinality(new)
        /\ \A m, n \in 1..Cardinality(new) : m < n => more[m] < more[n]
        /\ \A x \in new : \E n \in 1..Cardinality(new) : more[n] = x
    BY <1>4, DrepOrderIs
  <2> HIDE DEF more
  <2>2. more \in [1..Len(more) -> Dreps] /\ Len(more) \in Nat
    <3>1. more \in Seq(new) /\ new \subseteq Dreps
      BY <1>4, <2>1
    <3>2. \A i \in 1..Len(more) : more[i] \in Dreps
      BY <3>1
    <3> QED BY <3>1, <3>2
  <2>3. \A i \in 1..Len(more) : more[i] \in new
    BY <2>1
  <2> QED BY <2>1, <2>2, <2>3 DEF Ascends, Holds
<1> HIDE DEF more
<1>6. scan.kept \in Seq(Dreps) /\ scan.page \in Nat \ {0} /\ scan.after \in Nat
      /\ scan.needed \in Nat /\ scan.throughout \subseteq Dreps
  BY DEF Walk
<1>7. /\ kept \in Seq(Dreps) /\ Len(kept) \in Nat
      /\ \A x : Holds(kept, x) <=> Holds(scan.kept, x) \/ x \in new
      /\ Ascends(scan.kept) /\ (\A i \in 1..Len(scan.kept), j \in 1..Len(more) : scan.kept[i] < more[j])
           => Ascends(kept)
  <2>1. Dreps \in SUBSET Nat
    BY DrepNumbers
  <2>2. kept \in Seq(Dreps)
    BY <1>5, <1>6, <2>1, Appends
  <2>3. Len(kept) \in Nat
    <3> HIDE DEF kept
    <3> QED BY <2>2
  <2>4. \A x : Holds(kept, x) <=> Holds(scan.kept, x) \/ Holds(more, x)
    BY <1>5, <1>6, <2>1, Appends
  <2> QED BY <1>5, <1>6, <2>1, <2>2, <2>3, <2>4, Appends
<1> HIDE DEF kept
<1>8. after \in Nat /\ (rows = <<>> => after = 0) /\ (rows # <<>> => after = rows[Len(rows)])
  BY <1>3 DEF DL!CursorAfter, DL!Last
<1> HIDE DEF after
<1>9. /\ s \in Walk /\ s.kept = kept /\ s.after = after /\ s.throughout = scan.throughout
      /\ s.needed = scan.needed
      /\ s.st = IF Len(rows) < DrepPageSize \/ Len(kept) >= scan.needed THEN "done"
                ELSE IF scan.page = DrepMaxPages THEN "probe" ELSE "reading"
  <2>1. /\ s.kept = kept /\ s.after = after /\ s.throughout = scan.throughout
        /\ s.needed = scan.needed
        /\ s.st = IF Len(rows) < DrepPageSize \/ Len(kept) >= scan.needed THEN "done"
                  ELSE IF scan.page = DrepMaxPages THEN "probe" ELSE "reading"
    BY <1>1 DEF Walk
  <2>2. s \in Walk
    <3>1. s.st \in {"reading", "probe", "done"} /\ s.page \in Nat \ {0}
      BY <1>1, <1>6, <2>1 DEF Walk
    <3>2. s = [st |-> s.st, needed |-> scan.needed, page |-> s.page, after |-> after,
               kept |-> kept, throughout |-> scan.throughout]
      BY <1>1, <2>1 DEF Walk
    <3> HIDE DEF s
    <3> QED BY <1>6, <1>7, <1>8, <3>1, <3>2 DEF Walk
  <2> QED BY <2>1, <2>2
<1> HIDE DEF s
<1>10. ASSUME driver = "koios" PROVE WalkFits(s)
  <2>1. /\ Ascends(scan.kept) /\ scan.throughout \subseteq DL!Registered
        /\ Len(scan.kept) < scan.needed
        /\ \A i \in 1..Len(scan.kept) : scan.kept[i] <= scan.after
        /\ \A x \in scan.throughout : Holds(scan.kept, x) <=> x <= scan.after
    BY <1>10 DEF WalkFits
  <2>2. \A x \in new : x > scan.after /\ x \in Nat /\ (rows # <<>> /\ x <= rows[Len(rows)])
    <3> TAKE x \in new
    <3>1. PICK i \in 1..Len(rows) : rows[i] = x
      BY <1>4 DEF Holds
    <3>2. x > scan.after /\ x \in Nat
      BY <1>2, <1>3, <1>10, <3>1
    <3>3. rows # <<>> /\ Len(rows) \in 1..Len(rows)
      BY <1>3, <3>1
    <3>4. i = Len(rows) \/ i < Len(rows)
      BY <1>3, <3>1
    <3>5. rows[i] <= rows[Len(rows)]
      BY <1>2, <1>3, <1>10, <3>3, <3>4 DEF Ascends
    <3> QED BY <3>1, <3>2, <3>3, <3>5
  <2>3. \A i \in 1..Len(scan.kept) : scan.kept[i] \in Nat
    <3>1. \A i \in 1..Len(scan.kept) : scan.kept[i] \in Dreps
      BY <1>6
    <3> QED BY <3>1, DrepNumbers
  <2>4. Ascends(kept)
    <3>1. ASSUME NEW i \in 1..Len(scan.kept), NEW j \in 1..Len(more)
          PROVE  scan.kept[i] < more[j]
      <4>1. more[j] \in new
        BY <1>5 DEF Holds
      <4> QED BY <1>6, <2>1, <2>2, <2>3, <4>1
    <3> QED BY <1>7, <2>1, <3>1
  <2>5. s.st \in {"reading", "probe"} => Len(rows) = DrepPageSize /\ rows # <<>>
                                         /\ Len(kept) < scan.needed
    <3>1. DrepPageSize \in Nat \ {0}
      BY DrepNumbers
    <3>2. rows = <<>> => Len(rows) = 0
      OBVIOUS
    <3> QED BY <1>2, <1>3, <1>6, <1>7, <1>9, <3>1, <3>2
  <2>6. rows # <<>> => after > scan.after
    BY <1>2, <1>3, <1>8, <1>10
  <2>7. ASSUME s.st \in {"reading", "probe"}, NEW i \in 1..Len(kept) PROVE kept[i] <= after
    <3>1. rows # <<>> /\ after = rows[Len(rows)]
      BY <1>8, <2>5, <2>7
    <3>2. Holds(scan.kept, kept[i]) \/ kept[i] \in new
      BY <1>7 DEF Holds
    <3>3. CASE kept[i] \in new
      BY <2>2, <3>1, <3>3
    <3>4. CASE Holds(scan.kept, kept[i])
      <4>1. PICK j \in 1..Len(scan.kept) : scan.kept[j] = kept[i]
        BY <3>4 DEF Holds
      <4> QED BY <1>6, <1>8, <2>1, <2>3, <2>6, <3>1, <4>1
    <3> QED BY <3>2, <3>3, <3>4
  <2>8. ASSUME NEW x \in scan.throughout
        PROVE  Holds(kept, x) <=> x <= after \/ (s.st = "done" /\ Len(kept) < scan.needed)
    <3>1. x \in DL!Registered /\ x \in Nat /\ x > 0
      BY <1>6, <2>1, DrepNumbers
    <3>2. CASE Holds(scan.kept, x)
      <4>1. x <= scan.after /\ Holds(kept, x)
        BY <1>7, <2>1, <3>2
      <4>2. rows # <<>> => x <= after
        BY <1>6, <1>8, <2>6, <3>1, <4>1
      <4>3. CASE rows # <<>>
        BY <4>1, <4>2, <4>3
      <4>4. CASE rows = <<>>
        <5>1. new = {}
          BY <2>2, <4>4
        <5>2. Len(more) = 0
          <6>1. \A i \in 1..Len(more) : FALSE
            BY <1>5, <5>1 DEF Holds
          <6>2. Len(more) \in Nat
            BY <1>5
          <6> QED BY <6>1, <6>2
        <5>3. Len(kept) = Len(scan.kept) + Len(more)
          BY <1>5, <1>6, DrepNumbers, Appends DEF kept
        <5>4. Len(kept) < scan.needed
          <6>1. Len(scan.kept) \in Nat
            BY <1>6
          <6> QED BY <2>1, <5>2, <5>3, <6>1
        <5>5. s.st = "done"
          BY <2>5, <4>4, <1>9
        <5> QED BY <4>1, <5>4, <5>5
      <4> QED BY <4>3, <4>4
    <3>3. CASE ~Holds(scan.kept, x)
      <4>1. x > scan.after
        BY <1>6, <2>1, <3>1, <3>3
      <4>2. Holds(kept, x) <=> Holds(rows, x)
        BY <1>4, <1>7, <3>1, <3>3
      <4>3. Holds(rows, x) => x <= after
        BY <1>4, <1>8, <2>2, <3>1
      <4>4. Holds(rows, x) \/ (Len(rows) = DrepPageSize /\ rows[DrepPageSize] < x)
        BY <1>2, <1>10, <3>1, <4>1
      <4>5. CASE Holds(rows, x)
        BY <4>2, <4>3, <4>5
      <4>6. CASE ~Holds(rows, x)
        <5>1. Len(rows) = DrepPageSize /\ rows[DrepPageSize] < x /\ DrepPageSize \in Nat \ {0}
          BY <4>4, <4>6, DrepNumbers
        <5>2. rows # <<>>
          BY <5>1
        <5>3. after < x /\ ~(x <= after)
          BY <1>8, <3>1, <5>1, <5>2
        <5>4. ~(s.st = "done" /\ Len(kept) < scan.needed)
          BY <1>6, <1>7, <1>9, <5>1
        <5> QED BY <4>2, <4>6, <5>3, <5>4
      <4> QED BY <4>5, <4>6
    <3> QED BY <3>2, <3>3
  <2> QED BY <1>9, <2>1, <2>4, <2>5, <2>7, <2>8 DEF WalkFits
<1>11. ASSUME NEW i \in 1..Len(kept) PROVE Holds(scan.kept, kept[i]) \/ kept[i] \in DL!Registered
  <2>1. Holds(kept, kept[i])
    BY <1>11 DEF Holds
  <2> QED BY <1>4, <1>7, <2>1
<1> QED BY <1>9, <1>10, <1>11 DEF s

LEMMA NewWalkFits ==
    /\ DL!IdleScan \in Walk /\ WalkFits(DL!IdleScan) /\ DL!IdleScan.kept = <<>>
    /\ \A needed \in Nat : needed > 0 =>
          /\ DL!NewScan(needed) \in Walk /\ WalkFits(DL!NewScan(needed))
          /\ DL!NewScan(needed).kept = <<>>
<1>1. <<>> \in Seq(Dreps) /\ Len(<<>>) = 0 /\ Ascends(<<>>) /\ \A x : ~Holds(<<>>, x)
  BY DEF Ascends, Holds
<1>2. DL!EndOfList \in Nat /\ DL!Registered \subseteq Dreps
  BY DrepNumbers DEF DL!Registered
<1>3. DL!IdleScan \in Walk /\ WalkFits(DL!IdleScan) /\ DL!IdleScan.kept = <<>>
  BY <1>1, <1>2 DEF DL!IdleScan, Walk, WalkFits
<1>4. ASSUME NEW needed \in Nat, needed > 0
      PROVE  /\ DL!NewScan(needed) \in Walk /\ WalkFits(DL!NewScan(needed))
             /\ DL!NewScan(needed).kept = <<>>
  <2> DEFINE s == DL!NewScan(needed)
  <2>1. /\ s \in Walk /\ s.st = "reading" /\ s.needed = needed /\ s.throughout = DL!Registered
        /\ s.after = 0 /\ s.kept = <<>>
    <3> DEFINE i == DL!IdleScan
    <3>1. i.after = 0 /\ i.kept = <<>> /\ i \in Walk
      BY <1>3 DEF DL!IdleScan
    <3>2. s = [i EXCEPT !.st = "reading", !.needed = needed, !.throughout = DL!Registered]
      BY DEF DL!NewScan
    <3> HIDE DEF i, s
    <3> QED BY <1>2, <3>1, <3>2 DEF Walk
  <2> HIDE DEF s
  <2>3. \A x \in DL!Registered : ~(x <= 0)
    BY <1>2, DrepNumbers
  <2>4. WalkFits(s)
    BY <1>1, <1>4, <2>1, <2>3 DEF WalkFits
  <2> QED BY <2>1, <2>4 DEF s
<1> QED BY <1>3, <1>4

LEMMA IdleReaderFits ==
    /\ DL!IdleReader \in DrepReader /\ DL!IdleReader.st = "idle" /\ DL!IdleReader.info = FALSE
    /\ DL!NoMembership \in [held : BOOLEAN, list : Seq(Dreps)]
<1>1. <<>> \in Seq(Dreps) /\ [x \in Dreps |-> "unknown"] \in [Dreps -> DL!Standings]
  BY DEF DL!Standings
<1> QED BY <1>1, NewWalkFits DEF DL!IdleReader, DL!NoMembership, DrepReader

\* A page is a slice of the list that it is cut from.
LEMMA SlicedIs ==
    ASSUME NEW r \in DrepReader, NEW list \in Seq(Dreps)
    PROVE  LET s == DL!Sliced(r, list)
           IN  /\ s \in DrepReader /\ s.st = "hydrate" /\ s.info = r.info
               /\ s.standing = r.standing
               /\ \A x \in DL!ToSet(s.page) : Holds(list, x)
<1> DEFINE to == DL!Min({r.offset + DrepLimit, Len(list)})
           page == SubSeq(list, r.offset + 1, to)
           s == DL!Sliced(r, list)
<1>1. s = [r EXCEPT !.st = "hydrate", !.page = page]
  BY DEF DL!Sliced
<1>2. r.offset \in Nat /\ DrepLimit \in Nat /\ Len(list) \in Nat
  BY DrepNumbers DEF DrepReader
<1>3. to \in Nat /\ to <= Len(list)
  <2>1. r.offset + DrepLimit \in Nat
    BY <1>2
  <2> QED BY <1>2, <2>1, MinOfTwoRows
<1> HIDE DEF to
<1>4. r.offset + 1 \in Nat \ {0}
  BY <1>2
<1>5. page \in Seq(Dreps)
  BY <1>3, <1>4
<1>6. ASSUME NEW x \in DL!ToSet(page) PROVE Holds(list, x)
  <2>1. PICK i \in DOMAIN page : x = page[i]
    BY DEF DL!ToSet
  <2>2. i \in 1..(to - r.offset) /\ page[i] = list[r.offset + i]
    <3> DEFINE from == r.offset + 1
    <3>1. from \in Nat \ {0} /\ from - 1 = r.offset
      BY <1>2, <1>4
    <3> HIDE DEF from
    <3>2. i \in 1..(to - from + 1) /\ page[i] = list[from + i - 1]
      BY <1>3, <2>1, <3>1, SMTT(30)
    <3> QED BY <1>2, <1>3, <3>1, <3>2
  <2>3. r.offset + i \in 1..Len(list)
    BY <1>2, <1>3, <2>2
  <2> QED BY <2>1, <2>2, <2>3 DEF Holds
<1> HIDE DEF page, s
<1>7. s \in DrepReader /\ s.st = "hydrate" /\ s.info = r.info /\ s.standing = r.standing
      /\ s.page = page
  BY <1>1, <1>5 DEF DrepReader
<1> QED BY <1>6, <1>7 DEF s

\* Who is not concerned by a step stays as it is.
LEMMA ReaderStays ==
    ASSUME DrepsInv, NEW c \in Readers, readers'[c] = readers[c], during'[c] = during[c],
           standing' = standing, driver' = driver
    PROVE  ReaderFits(c)'
<1>1. ReaderFits(c)
  BY DEF DrepsInv
<1>2. DL!Registered' = DL!Registered
  BY DEF DL!Registered
<1> QED BY <1>1, <1>2 DEF ReaderFits, WalkFits, DL!Asking

\* A step of one reader.
LEMMA OneReaderSteps ==
    ASSUME DrepsInv, NEW c \in Readers, NEW r \in DrepReader, DL!Reader(c, r), ReaderFits(c)'
    PROVE  DrepsInv'
<1>1. /\ readers' = [readers EXCEPT ![c] = r]
      /\ UNCHANGED <<driver, caching, standing, refresh, membership, during>>
  BY DEF DL!Reader, DL!ledger
<1>2. DrepsTyped'
  BY <1>1 DEF DrepsInv, DrepsTyped
<1>3. driver' = "koios" => WalkFits(refresh)'
  <2>1. DL!Registered' = DL!Registered
    BY <1>1 DEF DL!Registered
  <2> QED BY <1>1, <2>1 DEF DrepsInv, WalkFits
<1>4. ASSUME NEW d \in Readers PROVE ReaderFits(d)'
  <2>1. CASE d = c
    BY <2>1
  <2>2. CASE d # c
    <3>1. readers'[d] = readers[d] /\ during'[d] = during[d]
      BY <1>1, <2>2, DrepRanges DEF DrepsInv, DrepsTyped
    <3> QED BY <1>1, <3>1, ReaderStays
  <2> QED BY <2>1, <2>2
<1> QED BY <1>2, <1>3, <1>4 DEF DrepsInv

LEMMA DrepsStart == DL!Init => DrepsInv
<1> SUFFICES ASSUME DL!Init PROVE DrepsInv
  OBVIOUS
<1>1. /\ driver \in {"koios", "blockfrost"} /\ caching \in BOOLEAN
      /\ standing \in FirstStandings /\ refresh = DL!IdleScan /\ membership = DL!NoMembership
      /\ readers = [c \in Readers |-> DL!IdleReader]
      /\ during = [c \in Readers |-> [x \in Dreps |-> {}]]
  BY DEF DL!Init
<1>2. FirstStandings \subseteq [Dreps -> DL!Standings]
  BY FirstStatesAssumption
<1>3. DrepsTyped
  BY <1>1, <1>2, NewWalkFits, IdleReaderFits DEF DrepsTyped
<1>4. ASSUME NEW c \in Readers PROVE ReaderFits(c)
  BY <1>1, IdleReaderFits DEF ReaderFits, DL!Asking
<1> QED BY <1>1, <1>3, <1>4, NewWalkFits DEF DrepsInv

\* A DRep comes or goes.
LEMMA DrepChanges == ASSUME DrepsInv, NEW x \in Dreps, DL!Changes(x) PROVE DrepsInv'
<1> DEFINE to == IF standing[x] = "registered" THEN "deregistered" ELSE "registered"
<1>1. /\ UNCHANGED <<driver, caching, membership>>
      /\ standing' = [standing EXCEPT ![x] = to]
      /\ during' = [c \in Readers |-> IF DL!Asking(c) THEN [during[c] EXCEPT ![x] = @ \cup {to}]
                                      ELSE during[c]]
      /\ refresh' = DL!Without(refresh, x)
      /\ readers' = [c \in Readers |-> IF readers[c].st = "scan"
                                       THEN [readers[c] EXCEPT !.scan = DL!Without(@, x)]
                                       ELSE readers[c]]
  BY DEF DL!Changes
<1>2. to \in DL!Standings
  BY DEF DL!Standings
<1> HIDE DEF to
<1>3. standing' \in [Dreps -> DL!Standings] /\ standing'[x] = to
      /\ \A y \in Dreps : y # x => standing'[y] = standing[y]
  BY <1>1, <1>2, DrepRanges
<1>4. \A y \in DL!Registered : y # x => y \in DL!Registered'
  BY <1>3 DEF DL!Registered
<1>5. ASSUME NEW scan \in Walk
      PROVE  /\ DL!Without(scan, x) \in Walk
             /\ DL!Without(scan, x).st = scan.st /\ DL!Without(scan, x).kept = scan.kept
             /\ DL!Without(scan, x).after = scan.after /\ DL!Without(scan, x).needed = scan.needed
             /\ DL!Without(scan, x).throughout = scan.throughout \ {x}
  BY DEF DL!Without, Walk
<1>6. driver = "koios" => WalkFits(refresh)'
  <2>1. refresh \in Walk /\ (driver = "koios" => WalkFits(refresh))
    BY DrepRanges DEF DrepsInv
  <2> QED BY <1>1, <1>4, <1>5, <2>1 DEF WalkFits
<1>7. ASSUME NEW c \in Readers
      PROVE  /\ readers'[c] \in DrepReader /\ readers'[c].st = readers[c].st
             /\ readers'[c].page = readers[c].page /\ readers'[c].answer = readers[c].answer
             /\ readers'[c].info = readers[c].info /\ readers'[c].standing = readers[c].standing
             /\ readers[c].st = "scan" => readers'[c].scan = DL!Without(readers[c].scan, x)
  <2>1. readers[c] \in DrepReader /\ readers[c].scan \in Walk
    BY DrepRanges
  <2>2. CASE readers[c].st = "scan"
    <3>1. readers'[c] = [readers[c] EXCEPT !.scan = DL!Without(readers[c].scan, x)]
      BY <1>1, <2>2
    <3>2. DL!Without(readers[c].scan, x) \in Walk
      BY <1>5, <2>1
    <3> QED BY <2>1, <3>1, <3>2 DEF DrepReader
  <2>3. CASE readers[c].st # "scan"
    BY <1>1, <2>1, <2>3
  <2> QED BY <2>2, <2>3
<1>8. ASSUME NEW c \in Readers
      PROVE  /\ during'[c] \in [Dreps -> SUBSET DL!Standings]
             /\ \A y \in Dreps : during[c][y] \subseteq during'[c][y]
             /\ DL!Asking(c) => to \in during'[c][x]
             /\ ~DL!Asking(c) => during'[c] = during[c]
  <2>1. during[c] \in [Dreps -> SUBSET DL!Standings]
    BY DrepRanges
  <2>2. during'[c] = IF DL!Asking(c) THEN [during[c] EXCEPT ![x] = @ \cup {to}] ELSE during[c]
    BY <1>1
  <2> QED BY <1>2, <2>1, <2>2
<1>9. DrepsTyped'
  <2>1. readers' \in [Readers -> DrepReader]
    BY <1>1, <1>7
  <2>2. during' \in [Readers -> [Dreps -> SUBSET DL!Standings]]
    BY <1>1, <1>8
  <2>3. refresh' \in Walk
    BY <1>1, <1>5, DrepRanges
  <2> QED BY <1>1, <1>3, <2>1, <2>2, <2>3 DEF DrepsInv, DrepsTyped
<1>10. ASSUME NEW c \in Readers PROVE ReaderFits(c)'
  <2>1. ReaderFits(c) /\ readers[c] \in DrepReader /\ readers[c].scan \in Walk
    BY DrepRanges
  <2>2. DL!Asking(c)' <=> DL!Asking(c)
    BY <1>7 DEF DL!Asking
  <2>3. DL!Asking(c) => \A y \in Dreps : standing'[y] \in during'[c][y]
    BY <1>3, <1>8, <2>1 DEF ReaderFits
  <2>4. ASSUME readers[c].st = "scan"
        PROVE  /\ driver = "koios" => WalkFits(readers[c].scan)'
               /\ driver = "blockfrost" => \A i \in 1..Len(readers'[c].scan.kept) :
                      "registered" \in during'[c][readers'[c].scan.kept[i]]
    <3>1. readers'[c].scan = DL!Without(readers[c].scan, x)
      BY <1>7, <2>4
    <3>2. driver = "koios" => WalkFits(readers[c].scan)'
      BY <1>4, <1>5, <2>1, <2>4, <3>1 DEF WalkFits, ReaderFits
    <3>3. \A i \in 1..Len(readers[c].scan.kept) : readers[c].scan.kept[i] \in Dreps
      BY DrepRanges
    <3> QED BY <1>5, <1>8, <2>1, <2>4, <3>1, <3>2, <3>3 DEF ReaderFits
  <2>5. DL!Asking(c) /\ readers[c].info => \A y \in Dreps : readers[c].standing[y] \in during'[c][y]
    BY <1>8, <2>1 DEF ReaderFits
  <2>6. readers[c].st = "done" => during'[c] = during[c]
    BY <1>8 DEF DL!Asking
  <2> QED BY <1>1, <1>7, <2>1, <2>2, <2>3, <2>4, <2>5, <2>6 DEF ReaderFits
<1> QED BY <1>1, <1>6, <1>9, <1>10 DEF DrepsInv

LEMMA ToSetIs == ASSUME NEW S, NEW s \in Seq(S) PROVE \A x : x \in DL!ToSet(s) <=> Holds(s, x)
<1>1. DOMAIN s = 1..Len(s)
  OBVIOUS
<1> QED BY <1>1 DEF DL!ToSet, Holds

\* A call that has asked for nothing yet, or only has a page to hydrate.
LEMMA HydratesFit ==
    ASSUME DrepsInv, NEW c \in Readers, DL!Asking(c), NEW list \in Seq(Dreps),
           UNCHANGED <<driver, standing, during>>,
           readers'[c] = DL!Sliced(readers[c], list)
    PROVE  readers'[c] \in DrepReader /\ ReaderFits(c)'
<1>1. ReaderFits(c) /\ readers[c] \in DrepReader
  BY DrepRanges
<1>2. readers'[c] \in DrepReader /\ readers'[c].st = "hydrate" /\ readers'[c].info = readers[c].info
      /\ readers'[c].standing = readers[c].standing
  BY <1>1, SlicedIs
<1> QED BY <1>1, <1>2 DEF ReaderFits, DL!Asking

\* The probe after the last page allowed has met the end of the list.
LEMMA ProbedIs ==
    ASSUME DrepsInv, NEW scan \in Walk, DL!ProbedEmpty(scan), driver = "koios" => WalkFits(scan)
    PROVE  LET s == [scan EXCEPT !.st = "done"]
           IN  s \in Walk /\ s.kept = scan.kept /\ (driver = "koios" => WalkFits(s))
<1> DEFINE s == [scan EXCEPT !.st = "done"]
<1>1. scan.st = "probe" /\ DL!Response(scan, 1) = <<>>
  BY DEF DL!ProbedEmpty
<1>2. /\ s \in Walk /\ s.kept = scan.kept /\ s.after = scan.after /\ s.needed = scan.needed
      /\ s.throughout = scan.throughout /\ s.st = "done"
  BY DEF Walk
<1> HIDE DEF s
<1>3. ASSUME driver = "koios" PROVE WalkFits(s)
  <2>1. /\ Ascends(scan.kept) /\ scan.throughout \subseteq DL!Registered
        /\ Len(scan.kept) < scan.needed
        /\ \A x \in scan.throughout : Holds(scan.kept, x) <=> x <= scan.after
    BY <1>1, <1>3 DEF WalkFits
  <2>2. \A x \in DL!Registered : ~(x > scan.after)
    <3>1. Len(DL!Response(scan, 1)) = 0 /\ \A x : ~Holds(DL!Response(scan, 1), x)
      BY <1>1 DEF Holds
    <3> QED BY <1>3, <3>1, DrepResponseIs
  <2>3. \A x \in scan.throughout : x <= scan.after
    <3>1. scan.after \in Nat /\ scan.throughout \subseteq Dreps
      BY DEF Walk
    <3> QED BY <2>1, <2>2, <3>1, DrepNumbers
  <2> QED BY <1>2, <2>1, <2>3 DEF WalkFits
<1> QED BY <1>2, <1>3 DEF s

LEMMA OwnScanKeeps == ASSUME DrepsInv, NEW c \in Readers, DL!OwnScan(c) PROVE DrepsInv'
<1> DEFINE r == readers[c]
<1>1. r.st = "scan" /\ DL!Asking(c)
  BY DEF DL!OwnScan, DL!Asking
<1>2. /\ r \in DrepReader /\ r.scan \in Walk /\ r.scan.kept \in Seq(Dreps) /\ ReaderFits(c)
      /\ during[c] \in [Dreps -> SUBSET DL!Standings] /\ driver \in {"koios", "blockfrost"}
  BY DrepRanges
<1>3. /\ \A x \in Dreps : standing[x] \in during[c][x]
      /\ driver = "koios" => WalkFits(r.scan)
      /\ driver = "blockfrost" => \A i \in 1..Len(r.scan.kept) : "registered" \in during[c][r.scan.kept[i]]
      /\ r.info => \A x \in Dreps : r.standing[x] \in during[c][x]
  BY <1>1, <1>2 DEF ReaderFits
<1>4. ASSUME NEW s \in Walk, DL!Reader(c, [r EXCEPT !.scan = s]),
             driver = "koios" => WalkFits(s),
             driver = "blockfrost" => \A i \in 1..Len(s.kept) : "registered" \in during[c][s.kept[i]]
      PROVE  DrepsInv'
  <2> DEFINE n == [r EXCEPT !.scan = s]
  <2>1. /\ n \in DrepReader /\ n.st = "scan" /\ n.scan = s /\ n.info = r.info
        /\ n.standing = r.standing
    BY <1>1, <1>2 DEF DrepReader
  <2>2. UNCHANGED <<driver, standing, during>> /\ readers'[c] = n
    BY <1>4 DEF DL!Reader, DL!ledger, DrepsInv, DrepsTyped
  <2> HIDE DEF n
  <2>3. WalkFits(s) => WalkFits(s)'
    BY <2>2 DEF WalkFits, DL!Registered
  <2>4. driver = "koios" => WalkFits(readers[c].scan)'
    BY <1>4, <2>1, <2>2 DEF WalkFits, DL!Registered
  <2>5. ReaderFits(c)'
    BY <1>1, <1>3, <1>4, <2>1, <2>2, <2>4 DEF ReaderFits, DL!Asking
  <2> QED BY <1>4, <2>1, <2>5, OneReaderSteps DEF n
<1>5. CASE r.scan.st = "reading" /\ DL!Reader(c, [r EXCEPT !.scan = DL!Scanned(@)])
  <2> DEFINE s == DL!Scanned(r.scan)
  <2>1. /\ s \in Walk /\ (driver = "koios" => WalkFits(s))
        /\ \A i \in 1..Len(s.kept) : Holds(r.scan.kept, s.kept[i]) \/ s.kept[i] \in DL!Registered
    BY <1>2, <1>3, <1>5, ScannedIs
  <2> HIDE DEF s
  <2>2. ASSUME driver = "blockfrost", NEW i \in 1..Len(s.kept)
        PROVE  "registered" \in during[c][s.kept[i]]
    <3>1. CASE Holds(r.scan.kept, s.kept[i])
      BY <1>3, <2>2, <3>1 DEF Holds
    <3>2. CASE s.kept[i] \in DL!Registered
      BY <1>3, <3>2 DEF DL!Registered
    <3> QED BY <2>1, <3>1, <3>2
  <2>3. DL!Reader(c, [r EXCEPT !.scan = s])
    BY <1>5 DEF s
  <2> QED BY <1>4, <2>1, <2>2, <2>3
<1>6. CASE DL!ProbedEmpty(r.scan) /\ DL!Reader(c, [r EXCEPT !.scan.st = "done"])
  <2> DEFINE s == [r.scan EXCEPT !.st = "done"]
  <2>1. DL!Reader(c, [r EXCEPT !.scan = s])
    BY <1>2, <1>6
  <2>2. s \in Walk /\ s.kept = r.scan.kept /\ (driver = "koios" => WalkFits(s))
    BY <1>2, <1>3, <1>6, ProbedIs
  <2> HIDE DEF s
  <2> QED BY <1>3, <1>4, <2>1, <2>2
<1>7. CASE r.scan.st = "done" /\ driver = "koios" /\ DL!Reader(c, DL!Sliced(r, r.scan.kept))
  <2>1. UNCHANGED <<driver, standing, during>> /\ readers'[c] = DL!Sliced(readers[c], r.scan.kept)
    BY <1>7 DEF DL!Reader, DL!ledger, DrepsInv, DrepsTyped
  <2>2. readers'[c] \in DrepReader /\ ReaderFits(c)'
    BY <1>1, <1>2, <2>1, HydratesFit
  <2> QED BY <1>7, <2>1, <2>2, OneReaderSteps
<1>8. CASE /\ r.scan.st = "done" /\ driver = "blockfrost"
           /\ LET page == DL!Sliced(r, r.scan.kept).page
              IN  DL!Reader(c, [r EXCEPT !.st = "done", !.page = page, !.answer = page])
  <2> DEFINE page == DL!Sliced(r, r.scan.kept).page
             n == [r EXCEPT !.st = "done", !.page = page, !.answer = page]
  <2>1. page \in Seq(Dreps) /\ \A x \in DL!ToSet(page) : Holds(r.scan.kept, x)
    BY <1>2, SlicedIs DEF DrepReader
  <2>2. DL!Reader(c, n)
    BY <1>8
  <2> HIDE DEF page
  <2>3. n \in DrepReader /\ n.st = "done" /\ n.page = page /\ n.answer = page
    BY <1>2, <2>1 DEF DrepReader
  <2> HIDE DEF n
  <2>4. UNCHANGED <<driver, standing, during>> /\ readers'[c] = n
    BY <2>2 DEF DL!Reader, DL!ledger, DrepsInv, DrepsTyped
  <2>5. \A x \in DL!ToSet(page) : "registered" \in during[c][x]
    BY <1>3, <1>8, <2>1 DEF Holds
  <2>6. ReaderFits(c)'
    BY <2>3, <2>4, <2>5 DEF ReaderFits, DL!Asking
  <2> QED BY <2>2, <2>3, <2>6, OneReaderSteps
<1> QED BY <1>5, <1>6, <1>7, <1>8 DEF DL!OwnScan

LEMMA ReaderMoves ==
    ASSUME DrepsInv, NEW c \in Readers, DL!Asking(c), NEW n \in DrepReader, DL!Reader(c, n),
           n.st \in {"scan", "hydrate", "failed"},
           n.st = "scan" => WalkFits(n.scan) /\ n.scan.kept = <<>>,
           n.info => \A x \in Dreps : n.standing[x] \in during[c][x]
    PROVE  DrepsInv'
<1>1. UNCHANGED <<driver, standing, during>> /\ readers'[c] = n
  BY DEF DL!Reader, DL!ledger, DrepsInv, DrepsTyped
<1>2. ReaderFits(c)
  BY DrepRanges
<1>3. n.st = "scan" => WalkFits(readers[c].scan)' /\ Len(n.scan.kept) = 0
  BY <1>1 DEF WalkFits, DL!Registered
<1>4. ReaderFits(c)'
  BY <1>1, <1>2, <1>3 DEF ReaderFits, DL!Asking
<1> QED BY <1>4, OneReaderSteps

\* A call goes on without a walk, or fails.
LEMMA CallKeeps ==
    ASSUME DrepsInv, NEW c \in Readers,
           \/ DL!OwnScanFails(c) \/ DL!ParamsRead(c) \/ DL!RequestFails(c)
           \/ DL!InfoRead(c) \/ DL!NamesRead(c)
    PROVE  DrepsInv'
<1> DEFINE r == readers[c]
<1>1. r \in DrepReader /\ ReaderFits(c) /\ r.offset \in Nat /\ standing \in [Dreps -> DL!Standings]
  BY DrepRanges
<1>2. ASSUME DL!Asking(c), DL!Reader(c, [r EXCEPT !.st = "failed"]) PROVE DrepsInv'
  <2> DEFINE n == [r EXCEPT !.st = "failed"]
  <2>1. n \in DrepReader /\ n.st = "failed" /\ n.info = r.info /\ n.standing = r.standing
    BY <1>1 DEF DrepReader
  <2>2. r.info => \A x \in Dreps : r.standing[x] \in during[c][x]
    BY <1>1, <1>2 DEF ReaderFits
  <2>3. DL!Reader(c, n)
    BY <1>2
  <2> HIDE DEF n
  <2> QED BY <1>2, <2>1, <2>2, <2>3, ReaderMoves
<1>3. CASE DL!OwnScanFails(c)
  BY <1>2, <1>3 DEF DL!OwnScanFails, DL!Asking
<1>4. CASE DL!RequestFails(c)
  BY <1>2, <1>4 DEF DL!RequestFails, DL!Asking
<1>5. CASE DL!ParamsRead(c)
  <2> DEFINE walk == DL!NewScan(r.offset + DrepLimit)
             n == [r EXCEPT !.st = "scan", !.scan = walk]
  <2>1. walk \in Walk /\ WalkFits(walk) /\ walk.kept = <<>>
    <3>1. r.offset + DrepLimit \in Nat /\ r.offset + DrepLimit > 0
      BY <1>1, DrepNumbers
    <3> QED BY <3>1, NewWalkFits
  <2>2. DL!Reader(c, n) /\ DL!Asking(c)
    BY <1>5 DEF DL!ParamsRead, DL!Asking
  <2> HIDE DEF walk
  <2>3. n \in DrepReader /\ n.st = "scan" /\ n.scan = walk /\ n.info = r.info /\ n.standing = r.standing
    BY <1>1, <2>1 DEF DrepReader
  <2>4. r.info => \A x \in Dreps : r.standing[x] \in during[c][x]
    BY <1>1, <2>2 DEF ReaderFits
  <2> HIDE DEF n
  <2> QED BY <2>1, <2>2, <2>3, <2>4, ReaderMoves
<1>6. CASE DL!InfoRead(c)
  <2> DEFINE n == [r EXCEPT !.info = TRUE, !.standing = standing]
  <2>1. DL!Reader(c, n) /\ DL!Asking(c) /\ r.st = "hydrate"
    BY <1>6 DEF DL!InfoRead, DL!Asking
  <2>2. n \in DrepReader /\ n.st = "hydrate" /\ n.standing = standing
    BY <1>1, <2>1 DEF DrepReader
  <2>3. \A x \in Dreps : standing[x] \in during[c][x]
    BY <1>1, <2>1 DEF ReaderFits
  <2> HIDE DEF n
  <2> QED BY <2>1, <2>2, <2>3, ReaderMoves
<1>7. CASE DL!NamesRead(c)
  <2> DEFINE n == [r EXCEPT !.names = TRUE]
  <2>1. DL!Reader(c, n) /\ DL!Asking(c) /\ r.st = "hydrate"
    BY <1>7 DEF DL!NamesRead, DL!Asking
  <2>2. n \in DrepReader /\ n.st = "hydrate" /\ n.info = r.info /\ n.standing = r.standing
    BY <1>1, <2>1 DEF DrepReader
  <2>3. r.info => \A x \in Dreps : r.standing[x] \in during[c][x]
    BY <1>1, <2>1 DEF ReaderFits
  <2> HIDE DEF n
  <2> QED BY <2>1, <2>2, <2>3, ReaderMoves
<1> QED BY <1>3, <1>4, <1>5, <1>6, <1>7

LEMMA DrepReturnsKeeps == ASSUME DrepsInv, NEW c \in Readers, DL!Returns(c) PROVE DrepsInv'
<1> DEFINE r == readers[c]
           S == {x \in DL!ToSet(r.page) : DL!Serves(r, x)}
           answer == DL!InOrder(S)
           n == [r EXCEPT !.st = "done", !.answer = answer]
<1>1. r.st = "hydrate" /\ r.info /\ DL!Reader(c, n) /\ DL!Asking(c)
  BY DEF DL!Returns, DL!Asking
<1>2. r \in DrepReader /\ ReaderFits(c) /\ r.page \in Seq(Dreps)
      /\ during[c] \in [Dreps -> SUBSET DL!Standings]
  BY DrepRanges
<1>3. S \subseteq Dreps /\ S \in SUBSET Nat /\ IsFiniteSet(S)
      /\ DL!ToSet(r.page) \subseteq Dreps
  <2>1. \A x \in DL!ToSet(r.page) : x \in Dreps
    <3>1. \A i \in 1..Len(r.page) : r.page[i] \in Dreps
      BY <1>2
    <3> QED BY <1>2, <3>1, ToSetIs DEF Holds
  <2>2. S \subseteq Dreps
    BY <2>1
  <2> HIDE DEF S
  <2> QED BY <2>1, <2>2, DrepNumbers, FS_Subset
<1>4. answer \in Seq(Dreps) /\ \A x : x \in DL!ToSet(answer) <=> x \in S
  <2> HIDE DEF S
  <2>1. /\ answer \in Seq(S) /\ Len(answer) = Cardinality(S)
        /\ \A x \in S : \E i \in 1..Cardinality(S) : answer[i] = x
    BY <1>3, DrepOrderIs
  <2> HIDE DEF answer
  <2>2. \A i \in 1..Len(answer) : answer[i] \in S /\ answer[i] \in Dreps
    <3>1. \A i \in 1..Len(answer) : answer[i] \in S
      BY <2>1
    <3> QED BY <1>3, <3>1
  <2>3. answer \in Seq(Dreps)
    BY <2>1, <2>2
  <2> QED BY <2>1, <2>2, <2>3, ToSetIs DEF Holds
<1>5. \A x \in DL!ToSet(r.page) : x \in S <=> r.standing[x] = "registered"
  BY DEF DL!Serves
<1> HIDE DEF S, answer
<1>6. n \in DrepReader /\ n.st = "done" /\ n.page = r.page /\ n.answer = answer
  BY <1>2, <1>4 DEF DrepReader
<1> HIDE DEF n
<1>7. UNCHANGED <<driver, standing, during>> /\ readers'[c] = n
  BY <1>1 DEF DL!Reader, DL!ledger, DrepsInv, DrepsTyped
<1>8. \A x \in Dreps : r.standing[x] \in during[c][x]
  BY <1>1, <1>2 DEF ReaderFits
<1>9. ASSUME NEW x \in DL!ToSet(r.page)
      PROVE  /\ x \in DL!ToSet(answer) => "registered" \in during[c][x]
             /\ during[c][x] = {"registered"} => x \in DL!ToSet(answer)
  BY <1>3, <1>4, <1>5, <1>8
<1>10. ReaderFits(c)'
  BY <1>6, <1>7, <1>9 DEF ReaderFits, DL!Asking
<1> QED BY <1>1, <1>6, <1>10, OneReaderSteps

\* What happens to the walk that readers share, and to who waits for it.
LEMMA SharedKeeps ==
    ASSUME DrepsInv, UNCHANGED <<driver, caching, standing, during>>, refresh' \in Walk,
           driver = "koios" => WalkFits(refresh'),
           membership' \in [held : BOOLEAN, list : Seq(Dreps)],
           readers' = [c \in Readers |-> readers'[c]],
           \A c \in Readers :
               \/ readers'[c] = readers[c]
               \/ /\ readers[c].st = "members"
                  /\ \/ readers'[c] = [readers[c] EXCEPT !.st = "failed"]
                     \/ \E list \in Seq(Dreps) : readers'[c] = DL!Sliced(readers[c], list)
    PROVE  DrepsInv'
<1>1. ASSUME NEW c \in Readers PROVE readers'[c] \in DrepReader /\ ReaderFits(c)'
  <2>1. CASE readers'[c] = readers[c]
    BY <2>1, DrepRanges, ReaderStays
  <2>2. CASE readers[c].st = "members" /\ readers'[c] = [readers[c] EXCEPT !.st = "failed"]
    <3>1. readers[c] \in DrepReader
      BY DrepRanges
    <3>2. readers'[c] \in DrepReader /\ readers'[c].st = "failed"
      BY <2>2, <3>1 DEF DrepReader
    <3> QED BY <3>2 DEF ReaderFits, DL!Asking
  <2>3. ASSUME readers[c].st = "members", NEW list \in Seq(Dreps),
               readers'[c] = DL!Sliced(readers[c], list)
        PROVE  readers'[c] \in DrepReader /\ ReaderFits(c)'
    <3>1. DL!Asking(c)
      BY <2>3 DEF DL!Asking
    <3> QED BY <2>3, <3>1, HydratesFit
  <2> QED BY <2>1, <2>2, <2>3
<1>2. readers' \in [Readers -> DrepReader]
  BY <1>1
<1>3. DrepsTyped'
  BY <1>2 DEF DrepsInv, DrepsTyped
<1>4. driver' = "koios" => WalkFits(refresh)'
  <2>1. DL!Registered' = DL!Registered
    BY DEF DL!Registered
  <2> QED BY <2>1 DEF WalkFits
<1> QED BY <1>1, <1>3, <1>4 DEF DrepsInv

LEMMA SharedWalkKeeps == ASSUME DrepsInv, DL!SharedWalk PROVE DrepsInv'
<1>1. /\ refresh \in Walk /\ refresh.kept \in Seq(Dreps) /\ membership.held \in BOOLEAN
      /\ membership.list \in Seq(Dreps) /\ (driver = "koios" => WalkFits(refresh))
      /\ membership \in [held : BOOLEAN, list : Seq(Dreps)] /\ readers = [c \in Readers |-> readers[c]]
  BY DrepRanges DEF DrepsInv, DrepsTyped
<1>2. CASE DL!Refresh
  <2>1. /\ refresh.st = "reading" /\ refresh' = DL!Scanned(refresh)
        /\ UNCHANGED <<driver, caching, standing, membership, readers, during>>
    BY <1>2 DEF DL!Refresh, DL!ledger
  <2>2. refresh' \in Walk /\ (driver = "koios" => WalkFits(refresh'))
    <3> DEFINE s == DL!Scanned(refresh)
    <3>1. s \in Walk /\ (driver = "koios" => WalkFits(s))
      BY <1>1, <2>1, ScannedIs
    <3> HIDE DEF s
    <3>2. refresh' = s
      BY <2>1 DEF s
    <3> QED BY <3>1, <3>2
  <2> QED BY <1>1, <2>1, <2>2, SharedKeeps
<1>3. CASE DL!RefreshEnds
  <2>1. /\ membership' = [held |-> TRUE, list |-> refresh.kept] /\ refresh' = DL!IdleScan
        /\ readers' = [c \in Readers |-> IF readers[c].st = "members"
                                         THEN DL!Sliced(readers[c], refresh.kept) ELSE readers[c]]
        /\ UNCHANGED <<driver, caching, standing, during>>
    BY <1>3 DEF DL!RefreshEnds, DL!ledger
  <2>2. refresh' \in Walk /\ WalkFits(refresh')
    BY <2>1, NewWalkFits
  <2>3. membership' \in [held : BOOLEAN, list : Seq(Dreps)]
    BY <1>1, <2>1
  <2> QED BY <1>1, <2>1, <2>2, <2>3, SharedKeeps
<1>4. CASE DL!RefreshFails
  <2>1. PICK usable \in {FALSE, membership.held} :
            readers' = [c \in Readers |->
                IF readers[c].st # "members" THEN readers[c]
                ELSE IF usable THEN DL!Sliced(readers[c], membership.list)
                ELSE [readers[c] EXCEPT !.st = "failed"]]
    BY <1>4 DEF DL!RefreshFails
  <2>2. refresh' = DL!IdleScan /\ UNCHANGED <<driver, caching, standing, membership, during>>
    BY <1>4 DEF DL!RefreshFails, DL!ledger
  <2>3. refresh' \in Walk /\ WalkFits(refresh')
    BY <2>2, NewWalkFits
  <2> QED BY <1>1, <2>1, <2>2, <2>3, SharedKeeps
<1> QED BY <1>2, <1>3, <1>4 DEF DL!SharedWalk

\* A call begins: what it may be told from now on is what stands now.
LEMMA BeginsKeeps ==
    ASSUME DrepsInv, NEW c \in Readers, NEW r \in DrepReader, DL!Begins(c, r), ~r.info,
           r.st \in {"hydrate", "members", "params", "scan"},
           r.st = "scan" => WalkFits(r.scan) /\ r.scan.kept = <<>>,
           refresh' \in Walk, driver = "koios" => WalkFits(refresh')
    PROVE  DrepsInv'
<1>1. /\ readers' = [readers EXCEPT ![c] = r]
      /\ during' = [during EXCEPT ![c] = [x \in Dreps |-> {standing[x]}]]
      /\ UNCHANGED <<driver, caching, standing, membership>>
  BY DEF DL!Begins, DL!ledger
<1>2. DL!Registered' = DL!Registered
  BY <1>1 DEF DL!Registered
<1>3. DrepsTyped'
  <2>1. [x \in Dreps |-> {standing[x]}] \in [Dreps -> SUBSET DL!Standings]
    BY DrepRanges
  <2> QED BY <1>1, <2>1 DEF DrepsInv, DrepsTyped
<1>4. driver' = "koios" => WalkFits(refresh)'
  BY <1>1, <1>2 DEF WalkFits
<1>5. ASSUME NEW d \in Readers PROVE ReaderFits(d)'
  <2>1. CASE d = c
    <3>1. readers'[c] = r /\ during'[c] = [x \in Dreps |-> {standing[x]}]
      BY <1>1 DEF DrepsInv, DrepsTyped
    <3>2. r.st = "scan" => WalkFits(readers[c].scan)' /\ Len(r.scan.kept) = 0
      BY <1>2, <3>1 DEF WalkFits
    <3>3. \A x \in Dreps : standing'[x] \in during'[c][x]
      BY <1>1, <3>1
    <3> QED BY <2>1, <3>1, <3>2, <3>3 DEF ReaderFits, DL!Asking
  <2>2. CASE d # c
    <3>1. readers'[d] = readers[d] /\ during'[d] = during[d]
      BY <1>1, <2>2 DEF DrepsInv, DrepsTyped
    <3> QED BY <1>1, <3>1, ReaderStays
  <2> QED BY <2>1, <2>2
<1> QED BY <1>3, <1>4, <1>5 DEF DrepsInv

LEMMA ReadsKeep ==
    ASSUME DrepsInv, NEW c \in Readers, NEW offset \in DrepOffsets,
           DL!ReadsMembers(c, offset) \/ DL!ReadsFar(c, offset)
    PROVE  DrepsInv'
<1> DEFINE idle == DL!IdleReader
           r == [idle EXCEPT !.offset = offset]
<1>1. idle \in DrepReader /\ ~idle.info /\ offset \in Nat
  BY IdleReaderFits, DrepNumbers
<1>2. /\ refresh \in Walk /\ (driver = "koios" => WalkFits(refresh))
      /\ membership.list \in Seq(Dreps) /\ driver \in {"koios", "blockfrost"}
  BY DrepRanges DEF DrepsInv
<1>3. CASE DL!ReadsMembers(c, offset)
  <2> HIDE DEF idle
  <2>1. r \in DrepReader /\ ~r.info
    BY <1>1 DEF DrepReader
  <2>2. \/ DL!Begins(c, DL!Sliced(r, membership.list)) /\ refresh' = refresh
        \/ /\ DL!Begins(c, [r EXCEPT !.st = "members"])
           /\ refresh' = IF refresh.st = "idle" THEN DL!NewScan(DL!EndOfList) ELSE refresh
    BY <1>3 DEF DL!ReadsMembers, idle
  <2> HIDE DEF r
  <2>3. CASE DL!Begins(c, DL!Sliced(r, membership.list)) /\ refresh' = refresh
    <3> DEFINE s == DL!Sliced(r, membership.list)
    <3>1. s \in DrepReader /\ s.st = "hydrate" /\ ~s.info
      BY <1>2, <2>1, SlicedIs
    <3>2. DL!Begins(c, s)
      BY <2>3
    <3> HIDE DEF s
    <3> QED BY <1>2, <2>3, <3>1, <3>2, BeginsKeeps
  <2>4. CASE /\ DL!Begins(c, [r EXCEPT !.st = "members"])
             /\ refresh' = IF refresh.st = "idle" THEN DL!NewScan(DL!EndOfList) ELSE refresh
    <3> DEFINE s == [r EXCEPT !.st = "members"]
    <3>1. s \in DrepReader /\ s.st = "members" /\ ~s.info
      BY <2>1 DEF DrepReader
    <3>2. DL!Begins(c, s)
      BY <2>4
    <3>3. refresh' \in Walk /\ (driver = "koios" => WalkFits(refresh'))
      BY <1>2, <2>4, NewWalkFits, DrepNumbers
    <3> HIDE DEF s
    <3> QED BY <3>1, <3>2, <3>3, BeginsKeeps
  <2> QED BY <2>2, <2>3, <2>4
<1>4. CASE DL!ReadsFar(c, offset)
  <2> DEFINE st == IF driver = "koios" THEN "scan" ELSE "params"
             walk == IF driver = "koios" THEN DL!NewScan(offset + DrepLimit) ELSE DL!IdleScan
             s == [idle EXCEPT !.offset = offset, !.st = st, !.scan = walk]
  <2>1. DL!Begins(c, s) /\ refresh' = refresh
    BY <1>4 DEF DL!ReadsFar
  <2>2. walk \in Walk /\ WalkFits(walk) /\ walk.kept = <<>>
    <3>1. offset + DrepLimit \in Nat /\ offset + DrepLimit > 0
      BY <1>1, DrepNumbers
    <3> QED BY <3>1, NewWalkFits
  <2>3. st \in {"params", "scan"}
    OBVIOUS
  <2> HIDE DEF idle, walk, st
  <2>4. s \in DrepReader /\ s.st = st /\ s.scan = walk /\ ~s.info
    BY <1>1, <2>2, <2>3 DEF DrepReader
  <2> HIDE DEF s
  <2> QED BY <1>2, <2>1, <2>2, <2>3, <2>4, BeginsKeeps
<1> QED BY <1>3, <1>4

LEMMA DrepsElsewhere == ASSUME DrepsInv, UNCHANGED <<driver, drepsVars>> PROVE DrepsInv'
<1>1. UNCHANGED <<driver, caching, standing, changes, refresh, membership, readers, during>>
  BY DEF drepsVars
<1>2. DrepsTyped'
  BY <1>1 DEF DrepsInv, DrepsTyped
<1>3. driver' = "koios" => WalkFits(refresh)'
  BY <1>1 DEF DrepsInv, WalkFits, DL!Registered
<1>4. \A c \in Readers : ReaderFits(c)'
  BY <1>1, ReaderStays
<1> QED BY <1>2, <1>3, <1>4 DEF DrepsInv

LEMMA PoolsDriverStays == ASSUME PL!Next PROVE driver' = driver
BY DEF PL!Next, PL!Churns, PL!EpochEnds, PL!TipReads, PL!Asks, PL!Serves, PL!ScanPage,
       PL!ProbeEnds, PL!ScanFails, PL!Slice, PL!Hydrated, PL!HydrationFails

LEMMA DrepsStep == DrepsInv /\ [Next]_vars => DrepsInv'
<1> SUFFICES ASSUME DrepsInv, [Next]_vars PROVE DrepsInv'
  OBVIOUS
<1>1. CASE UNCHANGED vars
  BY <1>1, DrepsElsewhere DEF vars
<1>2. CASE Params(PP!Next)
  BY <1>2, DrepsElsewhere DEF Params
<1>3. CASE PoolPages(PL!Next)
  BY <1>3, PoolsDriverStays, DrepsElsewhere DEF PoolPages
<1>4. CASE ProposalPages(PR!Next)
  BY <1>4, DriverStays, DrepsElsewhere DEF ProposalPages
<1>5. CASE Tokens(TM!Next)
  BY <1>5, DriverStays, DrepsElsewhere DEF Tokens
<1>6. CASE DrepPages(DL!Next)
  <2>1. \/ \E x \in Dreps : DL!Changes(x)
        \/ \E c \in Readers, offset \in DrepOffsets :
              DL!ReadsMembers(c, offset) \/ DL!ReadsFar(c, offset)
        \/ \E c \in Readers : DL!CallStep(c)
        \/ DL!SharedWalk
    BY <1>6 DEF DrepPages, DL!Next
  <2>2. ASSUME NEW c \in Readers, DL!CallStep(c) PROVE DrepsInv'
    BY <2>2, OwnScanKeeps, CallKeeps, DrepReturnsKeeps DEF DL!CallStep
  <2> QED BY <2>1, <2>2, DrepChanges, ReadsKeep, SharedWalkKeeps
<1> QED BY <1>1, <1>2, <1>3, <1>4, <1>5, <1>6 DEF Next

LEMMA DrepsInvariant == Spec => []DrepsInv
<1>1. Init => DrepsInv
  BY DrepsStart DEF Init
<1> QED BY <1>1, DrepsStep, PTL DEF Spec

\* What a walk that has stopped kept.
LEMMA WalkIsWhole ==
    ASSUME DrepsInv, NEW scan \in Walk, scan.st = "done", WalkFits(scan)
    PROVE  DL!KeptWhole(scan)
<1> SUFFICES ASSUME NEW x \in scan.throughout
             PROVE  DL!Cardinality({i \in DOMAIN scan.kept : scan.kept[i] = x}) =
                        IF x <= scan.after \/ Len(scan.kept) < scan.needed THEN 1 ELSE 0
  BY DEF DL!KeptWhole
<1> DEFINE kept == scan.kept
           at == {i \in DOMAIN kept : kept[i] = x}
<1>1. /\ kept \in Seq(Dreps) /\ DOMAIN kept = 1..Len(kept) /\ Ascends(kept)
      /\ Holds(kept, x) <=> x <= scan.after \/ Len(kept) < scan.needed
  BY DEF Walk, WalkFits
<1>2. DL!Cardinality(at) = Cardinality(at)
  BY DEF DL!Cardinality, Cardinality
<1> HIDE DEF kept
<1>3. CASE Holds(kept, x)
  <2>1. PICK i \in 1..Len(kept) : kept[i] = x
    BY <1>3 DEF Holds
  <2>2. \A j \in 1..Len(kept) : kept[j] \in Nat
    <3>1. \A j \in 1..Len(kept) : kept[j] \in Dreps
      BY <1>1
    <3> QED BY <3>1, DrepNumbers
  <2>3. ASSUME NEW j \in 1..Len(kept), kept[j] = x PROVE j = i
    <3>1. ~(i < j) /\ ~(j < i)
      BY <1>1, <2>1, <2>2, <2>3 DEF Ascends
    <3> QED BY <3>1
  <2>4. at = {i}
    BY <1>1, <2>1, <2>3
  <2>5. Cardinality({i}) = 1
    BY FS_Singleton
  <2>6. DL!Cardinality(at) = 1
    BY <1>2, <2>4, <2>5
  <2> HIDE DEF at
  <2> QED BY <1>1, <1>3, <2>6 DEF at, kept
<1>4. CASE ~Holds(kept, x)
  <2>1. at = {}
    BY <1>1, <1>4 DEF Holds
  <2>2. DL!Cardinality(at) = 0
    BY <1>2, <2>1, FS_EmptySet
  <2> HIDE DEF at
  <2> QED BY <1>1, <1>4, <2>2 DEF at, kept
<1> QED BY <1>3, <1>4

LEMMA DrepPagesAreTrue == DrepsInv => DL!ListedWhole /\ DL!ServesRegistered
<1> SUFFICES ASSUME DrepsInv PROVE DL!ListedWhole /\ DL!ServesRegistered
  OBVIOUS
<1>1. DL!ListedWhole
  BY WalkIsWhole, DrepRanges DEF DL!ListedWhole, DrepsInv, ReaderFits
<1>2. DL!ServesRegistered
  BY DEF DL!ServesRegistered, DrepsInv, ReaderFits
<1> QED BY <1>1, <1>2

-----------------------------------------------------------------------------
(* The proposals.                                                           *)

Statuses == {"enacted", "ratified", "dropped", "expired", "open"}

Votes == [of : PR!All, votes : Nat]

ProposalRow == [id : PR!All, tally : SUBSET Votes, status : Statuses]

ProposalCall ==
    [st : {"list", "probe", "rows", "done", "failed"}, offset : Nat, page : Nat \ {0},
     rows : Seq(PR!All), parts : Seq({"none", "detail", "ready"}),
     fields : Seq(SUBSET Statuses), tallies : Seq(SUBSET Votes), answer : Seq(ProposalRow)]

ProposalsTyped ==
    /\ driver \in {"koios", "blockfrost"}
    /\ submitted \in 0..LastProposal
    /\ fate \in [PR!All -> PR!Fates] /\ ballots \in [PR!All -> Nat]
    /\ asked \in ProposalCall
    /\ past \in [submitted : Nat, ballots : [PR!All -> Nat],
                 standings : [PR!All -> SUBSET Statuses]]

\* What the chain was when the call began is what it has come from.
PastFits ==
    /\ past.submitted <= submitted
    /\ \A p \in PR!All : past.ballots[p] <= ballots[p] /\ PR!Standing(p) \in past.standings[p]

\* The list was the same whenever it was asked.
OneList == driver = "koios" \/ submitted = past.submitted

\* A walk by page numbers has read the newest proposals, as many as its pages hold.
WalkedSoFar ==
    /\ driver = "koios" => asked.rows = <<>>
    /\ OneList =>
          /\ Len(asked.rows) = (asked.page - 1) * ProposalPageSize
          /\ Len(asked.rows) <= submitted
          /\ \A i \in 1..Len(asked.rows) : asked.rows[i] = submitted + 1 - i
    /\ asked.st = "probe" => driver = "blockfrost" /\ asked.page = ProposalMaxPages + 1

SliceOfOneMoment(rows) ==
    OneList => \E n \in past.submitted..submitted :
                   rows = PR!Slice(PR!Newest(n), asked.offset, ProposalLimit)

OwnVotes(p, tally) ==
    \A t \in tally : t.of = p /\ t.votes \in past.ballots[p]..ballots[p]

\* What is there of the rows was true of them during the call.
RowsFit ==
    /\ Len(asked.parts) = Len(asked.rows) /\ Len(asked.fields) = Len(asked.rows)
    /\ Len(asked.tallies) = Len(asked.rows)
    /\ SliceOfOneMoment(asked.rows)
    /\ \A i \in 1..Len(asked.rows) :
          /\ driver = "koios" \/ asked.parts[i] # "none" =>
                PR!StatusOf(asked.fields[i]) \in past.standings[asked.rows[i]]
          /\ OwnVotes(asked.rows[i], asked.tallies[i])

AnswerFits ==
    /\ SliceOfOneMoment([i \in DOMAIN asked.answer |-> asked.answer[i].id])
    /\ \A i \in DOMAIN asked.answer :
          /\ asked.answer[i].status \in past.standings[asked.answer[i].id]
          /\ OwnVotes(asked.answer[i].id, asked.answer[i].tally)

ProposalsInv ==
    /\ ProposalsTyped /\ PastFits
    /\ asked.st \in {"list", "probe"} => WalkedSoFar
    /\ asked.st = "rows" => RowsFit
    /\ asked.st = "done" => AnswerFits
    /\ asked.st # "done" => asked.answer = <<>>

LEMMA ProposalNumbers ==
    /\ FirstProposals \in Nat /\ LastProposal \in Nat /\ FirstProposals <= LastProposal
    /\ ProposalLimit \in Nat \ {0} /\ ProposalOffsets \subseteq Nat
    /\ ProposalPageSize \in Nat \ {0} /\ ProposalMaxPages \in Nat \ {0}
    /\ PR!All = 1..LastProposal
BY CachedAssumption DEF PR!All

LEMMA MinIs ==
    ASSUME NEW S \in SUBSET Int, NEW m \in S, \A x \in S : m <= x PROVE PR!Min(S) = m
<1>1. \A y \in S : (\A x \in S : y <= x) => y = m
  OBVIOUS
<1> QED BY <1>1 DEF PR!Min

Precedence == <<"enacted", "ratified", "dropped", "expired", "open">>

LEMMA StatusIs ==
    ASSUME NEW fields, NEW i \in 1..5, Precedence[i] \in fields \/ i = 5,
           \A j \in 1..(i - 1) : Precedence[j] \notin fields
    PROVE  PR!StatusOf(fields) = Precedence[i]
<1> DEFINE at == {k \in DOMAIN Precedence : Precedence[k] \in fields \/ k = Len(Precedence)}
<1>1. DOMAIN Precedence = 1..5 /\ Len(Precedence) = 5
  BY DEF Precedence
<1>2. at \in SUBSET Int /\ i \in at
  BY <1>1
<1>3. \A k \in at : i <= k
  BY <1>1
<1> HIDE DEF at
<1>4. PR!Min(at) = i
  BY <1>2, <1>3, MinIs
<1>5. PR!StatusOf(fields) = Precedence[PR!Min(at)]
  BY DEF PR!StatusOf, PR!Foremost, at, Precedence
<1> QED BY <1>4, <1>5

LEMMA StatusByPrecedence ==
    ASSUME NEW fields
    PROVE  PR!StatusOf(fields) =
               IF "enacted" \in fields THEN "enacted"
               ELSE IF "ratified" \in fields THEN "ratified"
               ELSE IF "dropped" \in fields THEN "dropped"
               ELSE IF "expired" \in fields THEN "expired" ELSE "open"
<1>1. CASE "enacted" \in fields
  <2>1. /\ 1 \in 1..5 /\ (Precedence[1] \in fields \/ 1 = 5)
        /\ \A j \in 1..(1 - 1) : Precedence[j] \notin fields
    BY <1>1 DEF Precedence
  <2>2. PR!StatusOf(fields) = Precedence[1]
    BY <2>1, StatusIs
  <2> QED BY <1>1, <2>2 DEF Precedence
<1>2. CASE "enacted" \notin fields /\ "ratified" \in fields
  <2>1. /\ 2 \in 1..5 /\ (Precedence[2] \in fields \/ 2 = 5)
        /\ \A j \in 1..(2 - 1) : Precedence[j] \notin fields
    BY <1>2 DEF Precedence
  <2>2. PR!StatusOf(fields) = Precedence[2]
    BY <2>1, StatusIs
  <2> QED BY <1>2, <2>2 DEF Precedence
<1>3. CASE "enacted" \notin fields /\ "ratified" \notin fields /\ "dropped" \in fields
  <2>1. /\ 3 \in 1..5 /\ (Precedence[3] \in fields \/ 3 = 5)
        /\ \A j \in 1..(3 - 1) : Precedence[j] \notin fields
    BY <1>3 DEF Precedence
  <2>2. PR!StatusOf(fields) = Precedence[3]
    BY <2>1, StatusIs
  <2> QED BY <1>3, <2>2 DEF Precedence
<1>4. CASE "enacted" \notin fields /\ "ratified" \notin fields /\ "dropped" \notin fields /\ "expired" \in fields
  <2>1. /\ 4 \in 1..5 /\ (Precedence[4] \in fields \/ 4 = 5)
        /\ \A j \in 1..(4 - 1) : Precedence[j] \notin fields
    BY <1>4 DEF Precedence
  <2>2. PR!StatusOf(fields) = Precedence[4]
    BY <2>1, StatusIs
  <2> QED BY <1>4, <2>2 DEF Precedence
<1>5. CASE "enacted" \notin fields /\ "ratified" \notin fields /\ "dropped" \notin fields /\ "expired" \notin fields
  <2>1. /\ 5 \in 1..5 /\ (Precedence[5] \in fields \/ 5 = 5)
        /\ \A j \in 1..(5 - 1) : Precedence[j] \notin fields
    BY <1>5 DEF Precedence
  <2>2. PR!StatusOf(fields) = Precedence[5]
    BY <2>1, StatusIs
  <2> QED BY <1>5, <2>2 DEF Precedence
<1> QED BY <1>1, <1>2, <1>3, <1>4, <1>5

\* The status by precedence of the fields is the latest decision.
LEMMA StatusOfFields ==
    ASSUME NEW p \in PR!All, fate[p] \in PR!Fates
    PROVE  /\ PR!StatusOf(PR!ToSet(fate[p])) = PR!Standing(p)
           /\ PR!ToSet(fate[p]) \subseteq Statuses /\ PR!Standing(p) \in Statuses
<1> DEFINE f == fate[p]
<1>1. f \in {<<>>, <<"ratified">>, <<"ratified", "enacted">>, <<"expired">>,
             <<"expired", "dropped">>, <<"dropped">>}
  BY DEF PR!Fates
<1>2. PR!Standing(p) = IF f = <<>> THEN "open" ELSE f[Len(f)]
  BY DEF PR!Standing, PR!Last
<1>3. CASE f = <<>>
  <2>1. PR!ToSet(f) = {} /\ PR!Standing(p) = "open"
    BY <1>2, <1>3 DEF PR!ToSet
  <2>2. PR!StatusOf(PR!ToSet(f)) = "open"
    BY <2>1, StatusByPrecedence
  <2> QED BY <2>1, <2>2 DEF Statuses
<1>4. CASE f = <<"ratified">>
  <2>1. PR!ToSet(f) = {"ratified"} /\ PR!Standing(p) = "ratified"
    BY <1>2, <1>4 DEF PR!ToSet
  <2>2. PR!StatusOf(PR!ToSet(f)) = "ratified"
    BY <2>1, StatusByPrecedence
  <2> QED BY <2>1, <2>2 DEF Statuses
<1>5. CASE f = <<"ratified", "enacted">>
  <2>1. PR!ToSet(f) = {"ratified", "enacted"} /\ PR!Standing(p) = "enacted"
    BY <1>2, <1>5 DEF PR!ToSet
  <2>2. PR!StatusOf(PR!ToSet(f)) = "enacted"
    BY <2>1, StatusByPrecedence
  <2> QED BY <2>1, <2>2 DEF Statuses
<1>6. CASE f = <<"expired">>
  <2>1. PR!ToSet(f) = {"expired"} /\ PR!Standing(p) = "expired"
    BY <1>2, <1>6 DEF PR!ToSet
  <2>2. PR!StatusOf(PR!ToSet(f)) = "expired"
    BY <2>1, StatusByPrecedence
  <2> QED BY <2>1, <2>2 DEF Statuses
<1>7. CASE f = <<"expired", "dropped">>
  <2>1. PR!ToSet(f) = {"expired", "dropped"} /\ PR!Standing(p) = "dropped"
    BY <1>2, <1>7 DEF PR!ToSet
  <2>2. PR!StatusOf(PR!ToSet(f)) = "dropped"
    BY <2>1, StatusByPrecedence
  <2> QED BY <2>1, <2>2 DEF Statuses
<1>8. CASE f = <<"dropped">>
  <2>1. PR!ToSet(f) = {"dropped"} /\ PR!Standing(p) = "dropped"
    BY <1>2, <1>8 DEF PR!ToSet
  <2>2. PR!StatusOf(PR!ToSet(f)) = "dropped"
    BY <2>1, StatusByPrecedence
  <2> QED BY <2>1, <2>2 DEF Statuses
<1> QED BY <1>1, <1>3, <1>4, <1>5, <1>6, <1>7, <1>8

LEMMA NewestIs ==
    ASSUME NEW n \in 0..LastProposal
    PROVE  /\ PR!Newest(n) \in Seq(PR!All) /\ Len(PR!Newest(n)) = n
           /\ \A i \in 1..n : PR!Newest(n)[i] = n + 1 - i
<1>1. PR!Newest(n) = [i \in 1..n |-> n + 1 - i] /\ n \in Nat
  BY ProposalNumbers DEF PR!Newest
<1>2. \A i \in 1..n : n + 1 - i \in PR!All
  BY ProposalNumbers
<1> QED BY <1>1, <1>2

LEMMA SliceIs ==
    ASSUME NEW S, NEW s \in Seq(S), NEW from \in Nat, NEW size \in Nat \ {0}
    PROVE  LET c == PR!Slice(s, from, size)
           IN  /\ c \in Seq(S) /\ Len(c) \in Nat /\ Len(c) <= size
               /\ Len(c) < size => Len(c) = 0 \/ from + Len(c) = Len(s)
               /\ Len(c) < size => Len(s) <= from + Len(c)
               /\ Len(c) # 0 => from + Len(c) <= Len(s)
               /\ \A i \in 1..Len(c) : c[i] = s[from + i]
<1> DEFINE to == IF Len(s) < from + size THEN Len(s) ELSE from + size
           m == from + 1
           c == PR!Slice(s, from, size)
<1>1. c = SubSeq(s, m, to)
  BY DEF PR!Slice
<1>2. Len(s) \in Nat /\ m \in Nat \ {0} /\ to \in Nat /\ to <= Len(s) /\ to <= from + size
      /\ m - 1 = from /\ (to = Len(s) \/ to = from + size)
  OBVIOUS
<1> HIDE DEF c, m, to
<1>3. c \in Seq(S)
  BY <1>1, <1>2
<1>4. Len(c) = IF m <= to + 1 THEN to - m + 1 ELSE 0
  BY <1>1, <1>2
<1>5. \A i \in 1..Len(c) : c[i] = s[m + i - 1]
  BY <1>1, <1>2, <1>4
<1>6. \A i \in 1..Len(c) : c[i] = s[from + i]
  BY <1>2, <1>4, <1>5
<1>7. Len(c) \in Nat
  BY <1>3
<1> QED BY <1>2, <1>3, <1>4, <1>6, <1>7 DEF c

\* A prefix has the same slice, if it is long enough.
LEMMA SameSlice ==
    ASSUME NEW S, NEW s \in Seq(S), NEW t \in Seq(S), NEW from \in Nat, NEW size \in Nat \ {0},
           Len(s) <= Len(t), \A i \in 1..Len(s) : s[i] = t[i],
           Len(s) = Len(t) \/ Len(s) >= from + size
    PROVE  PR!Slice(s, from, size) = PR!Slice(t, from, size)
<1>1. CASE Len(s) = Len(t)
  <2>1. s = t
    <3>1. DOMAIN s = 1..Len(s) /\ DOMAIN t = 1..Len(s)
      BY <1>1
    <3>2. s = [i \in 1..Len(s) |-> s[i]] /\ t = [i \in 1..Len(s) |-> t[i]]
      BY <3>1
    <3> QED BY <3>2
  <2> QED BY <2>1
<1>2. CASE Len(s) >= from + size
  <2> DEFINE m == from + 1
             to == from + size
  <2>1. Len(s) \in Nat /\ Len(t) \in Nat /\ Len(t) >= to /\ Len(s) >= to /\ to \in Nat /\ m \in Nat \ {0}
    BY <1>2
  <2>2. PR!Slice(s, from, size) = SubSeq(s, m, to) /\ PR!Slice(t, from, size) = SubSeq(t, m, to)
    BY <2>1 DEF PR!Slice
  <2> HIDE DEF m, to
  <2>3. SubSeq(s, m, to) = SubSeq(t, m, to)
    <3>1. SubSeq(s, m, to) = [i \in 1..(to - m + 1) |-> s[i + m - 1]]
          /\ SubSeq(t, m, to) = [i \in 1..(to - m + 1) |-> t[i + m - 1]]
      BY <2>1
    <3>2. \A i \in 1..(to - m + 1) : i + m - 1 \in 1..Len(s)
      BY <2>1
    <3> QED BY <3>1, <3>2
  <2> QED BY <2>2, <2>3
<1> QED BY <1>1, <1>2

LEMMA ProposalRanges ==
    ASSUME ProposalsInv
    PROVE  /\ driver \in {"koios", "blockfrost"} /\ submitted \in 0..LastProposal /\ submitted \in Nat
           /\ fate \in [PR!All -> PR!Fates] /\ ballots \in [PR!All -> Nat]
           /\ asked \in ProposalCall /\ asked.offset \in Nat /\ asked.page \in Nat \ {0}
           /\ asked.rows \in Seq(PR!All) /\ asked.parts \in Seq({"none", "detail", "ready"})
           /\ asked.fields \in Seq(SUBSET Statuses) /\ asked.tallies \in Seq(SUBSET Votes)
           /\ asked.answer \in Seq(ProposalRow)
           /\ past.submitted \in Nat /\ past.submitted <= submitted
           /\ past.ballots \in [PR!All -> Nat] /\ past.standings \in [PR!All -> SUBSET Statuses]
<1>1. /\ driver \in {"koios", "blockfrost"} /\ submitted \in 0..LastProposal
      /\ fate \in [PR!All -> PR!Fates] /\ ballots \in [PR!All -> Nat]
      /\ asked \in ProposalCall
      /\ past \in [submitted : Nat, ballots : [PR!All -> Nat],
                   standings : [PR!All -> SUBSET Statuses]]
      /\ past.submitted <= submitted
  BY DEF ProposalsInv, ProposalsTyped, PastFits
<1>2. submitted \in Nat
  BY <1>1, ProposalNumbers
<1>3. \A c \in ProposalCall :
         /\ c.offset \in Nat /\ c.page \in Nat \ {0}
         /\ c.rows \in Seq(PR!All) /\ c.parts \in Seq({"none", "detail", "ready"})
         /\ c.fields \in Seq(SUBSET Statuses) /\ c.tallies \in Seq(SUBSET Votes)
         /\ c.answer \in Seq(ProposalRow)
  BY DEF ProposalCall
<1> QED BY <1>1, <1>2, <1>3

LEMMA ProposalsStart == PR!Init => ProposalsInv
<1> SUFFICES ASSUME PR!Init PROVE ProposalsInv
  OBVIOUS
<1>1. PICK o \in ProposalOffsets : asked = PR!Call("list", o)
  BY DEF PR!Init
<1>2. /\ asked \in ProposalCall /\ asked.st = "list" /\ asked.rows = <<>> /\ asked.page = 1
      /\ asked.answer = <<>>
  <2>1. o \in Nat /\ \A S : <<>> \in Seq(S)
    BY ProposalNumbers
  <2> QED BY <1>1, <2>1 DEF PR!Call, ProposalCall
<1>3. /\ driver \in {"koios", "blockfrost"} /\ submitted = FirstProposals
      /\ fate \in FirstFates /\ ballots = [p \in PR!All |-> 0]
      /\ past = [submitted |-> submitted, ballots |-> ballots,
                 standings |-> [p \in PR!All |-> {PR!Standing(p)}]]
  BY DEF PR!Init
<1>4. fate \in [PR!All -> PR!Fates]
  BY <1>3, FirstStatesAssumption
<1>5. \A p \in PR!All : PR!Standing(p) \in Statuses
  BY <1>4, StatusOfFields
<1>6. submitted \in 0..LastProposal /\ submitted \in Nat
  BY <1>3, ProposalNumbers
<1>7. ProposalsTyped
  BY <1>2, <1>3, <1>4, <1>5, <1>6 DEF ProposalsTyped
<1>8. PastFits
  BY <1>3, <1>6 DEF PastFits
<1>9. WalkedSoFar
  <2>1. (asked.page - 1) * ProposalPageSize = 0 /\ Len(asked.rows) = 0
    BY <1>2, ProposalNumbers
  <2> QED BY <1>2, <1>6, <2>1 DEF WalkedSoFar
<1> QED BY <1>2, <1>7, <1>8, <1>9 DEF ProposalsInv

-----------------------------------------------------------------------------
(* The chain moves.                                                         *)

\* What was true during the call stays so, whatever is added to it.
LEMMA ChainMoves ==
    ASSUME ProposalsInv, UNCHANGED <<driver, asked>>, PR!Going, ProposalsTyped', PastFits',
           past'.submitted = past.submitted,
           submitted' = submitted \/ submitted' = submitted + 1,
           \A p \in PR!All : /\ past.standings[p] \subseteq past'.standings[p]
                             /\ past'.ballots[p] = past.ballots[p] /\ ballots[p] <= ballots'[p]
    PROVE  ProposalsInv'
<1>1. submitted \in Nat /\ past.submitted \in Nat /\ past.submitted <= submitted
  BY ProposalRanges
<1>2. (driver' = "koios" \/ submitted' = past'.submitted) =>
          OneList /\ (driver = "koios" \/ submitted' = submitted)
  BY <1>1 DEF OneList
<1>3. asked.st \in {"list", "probe"} => WalkedSoFar'
  <2>1. driver = "koios" => submitted' \in Nat /\ Len(<<>>) = 0
    BY <1>1
  <2> QED BY <1>1, <1>2, <2>1 DEF ProposalsInv, WalkedSoFar, OneList
<1>4. asked.st = "rows" => RowsFit'
  <2> SUFFICES ASSUME asked.st = "rows" PROVE RowsFit'
    OBVIOUS
  <2>1. RowsFit
    BY DEF ProposalsInv
  <2>2. SliceOfOneMoment(asked.rows)'
    <3>1. \A n \in past.submitted..submitted : n \in past'.submitted..submitted'
      BY <1>1
    <3> QED BY <1>2, <2>1, <3>1 DEF RowsFit, SliceOfOneMoment, OneList
  <2>3. ASSUME NEW i \in 1..Len(asked.rows)
        PROVE  /\ driver' = "koios" \/ asked'.parts[i] # "none" =>
                     PR!StatusOf(asked'.fields[i]) \in past'.standings[asked'.rows[i]]
               /\ OwnVotes(asked.rows[i], asked.tallies[i])'
    <3>1. asked.rows[i] \in PR!All /\ asked.tallies[i] \in SUBSET Votes
      <4>1. Len(asked.tallies) = Len(asked.rows)
        BY <2>1 DEF RowsFit
      <4> QED BY <4>1, ProposalRanges
    <3>2. past.ballots[asked.rows[i]] \in Nat /\ ballots[asked.rows[i]] \in Nat
          /\ ballots'[asked.rows[i]] \in Nat /\ ballots[asked.rows[i]] <= ballots'[asked.rows[i]]
      BY <3>1, ProposalRanges DEF ProposalsTyped
    <3>3. OwnVotes(asked.rows[i], asked.tallies[i])
      BY <2>1 DEF RowsFit
    <3>4. OwnVotes(asked.rows[i], asked.tallies[i])'
      BY <3>1, <3>2, <3>3 DEF OwnVotes
    <3> QED BY <2>1, <3>1, <3>4 DEF RowsFit
  <2> QED BY <2>1, <2>2, <2>3 DEF RowsFit
<1> QED BY <1>3, <1>4 DEF ProposalsInv, PR!Going

LEMMA ProposalChainKeeps == ASSUME ProposalsInv, PR!Chain PROVE ProposalsInv'
<1>1. /\ submitted \in 0..LastProposal /\ submitted \in Nat /\ LastProposal \in Nat
      /\ PR!All = 1..LastProposal
      /\ ballots \in [PR!All -> Nat] /\ fate \in [PR!All -> PR!Fates]
      /\ past.submitted \in Nat /\ past.submitted <= submitted
      /\ \A p \in PR!All : /\ past.ballots[p] <= ballots[p] /\ PR!Standing(p) \in past.standings[p]
                           /\ past.ballots[p] \in Nat /\ ballots[p] \in Nat
  BY ProposalRanges, ProposalNumbers DEF ProposalsInv, PastFits
<1>2. CASE PR!Submits
  <2>1. /\ UNCHANGED <<driver, asked, fate, ballots, past>> /\ PR!Going
        /\ submitted < LastProposal /\ submitted' = submitted + 1
    BY <1>2 DEF PR!Submits, PR!Event
  <2>2. ProposalsTyped'
    <3>1. submitted' \in 0..LastProposal
      BY <1>1, <2>1
    <3> QED BY <2>1, <3>1 DEF ProposalsInv, ProposalsTyped
  <2>3. PastFits'
    BY <1>1, <2>1 DEF PastFits, PR!Standing
  <2> QED BY <1>1, <2>1, <2>2, <2>3, ChainMoves
<1>3. ASSUME NEW p \in PR!All, PR!Votes(p) PROVE ProposalsInv'
  <2>1. /\ UNCHANGED <<driver, asked, submitted, fate, past>> /\ PR!Going
        /\ ballots' = [ballots EXCEPT ![p] = @ + 1]
    BY <1>3 DEF PR!Votes, PR!Event
  <2>2. ballots' \in [PR!All -> Nat] /\ \A q \in PR!All : ballots[q] <= ballots'[q] /\ ballots'[q] \in Nat
    BY <1>1, <2>1
  <2>3. ProposalsTyped'
    BY <2>1, <2>2 DEF ProposalsInv, ProposalsTyped
  <2>4. PastFits'
    BY <1>1, <2>1, <2>2 DEF PastFits, PR!Standing
  <2> QED BY <1>1, <2>1, <2>2, <2>3, <2>4, ChainMoves
<1>4. ASSUME NEW p \in PR!All, PR!Decides(p) PROVE ProposalsInv'
  <2>1. PICK f \in PR!Fates : /\ f # <<>> /\ fate' = [fate EXCEPT ![p] = f]
                              /\ past' = [past EXCEPT !.standings[p] = @ \cup {PR!Last(f)}]
    BY <1>4 DEF PR!Decides
  <2>2. UNCHANGED <<driver, asked, submitted, ballots>> /\ PR!Going
    BY <1>4 DEF PR!Decides, PR!Event
  <2>3. fate' \in [PR!All -> PR!Fates] /\ fate'[p] = f
        /\ \A q \in PR!All : q # p => fate'[q] = fate[q]
    BY <1>1, <2>1
  <2>4. PR!Standing(p)' = PR!Last(f) /\ PR!Last(f) \in Statuses
        /\ \A q \in PR!All : q # p => PR!Standing(q)' = PR!Standing(q)
    <3>1. PR!Standing(p)' = PR!Last(f)
      BY <2>1, <2>3 DEF PR!Standing
    <3>2. f \in {<<"ratified">>, <<"ratified", "enacted">>, <<"expired">>,
                 <<"expired", "dropped">>, <<"dropped">>}
      BY <2>1 DEF PR!Fates
    <3>3. PR!Last(f) \in Statuses
      BY <3>2 DEF PR!Last, Statuses
    <3> QED BY <2>3, <3>1, <3>3 DEF PR!Standing
  <2>5. /\ past' \in [submitted : Nat, ballots : [PR!All -> Nat],
                      standings : [PR!All -> SUBSET Statuses]]
        /\ past'.submitted = past.submitted /\ past'.ballots = past.ballots
        /\ past'.standings = [past.standings EXCEPT ![p] = @ \cup {PR!Last(f)}]
    <3>1. past \in [submitted : Nat, ballots : [PR!All -> Nat],
                    standings : [PR!All -> SUBSET Statuses]]
      BY DEF ProposalsInv, ProposalsTyped
    <3> DEFINE s == [past.standings EXCEPT ![p] = @ \cup {PR!Last(f)}]
    <3>2. s \in [PR!All -> SUBSET Statuses]
      BY <2>4, <3>1
    <3>3. past' = [past EXCEPT !.standings = s]
      BY <2>1, <3>1
    <3> QED BY <3>1, <3>2, <3>3
  <2>6. \A q \in PR!All : /\ past.standings[q] \subseteq past'.standings[q]
                          /\ PR!Standing(q)' \in past'.standings[q]
    <3>1. past.standings \in [PR!All -> SUBSET Statuses]
      BY ProposalRanges
    <3>2. /\ past'.standings[p] = past.standings[p] \cup {PR!Last(f)}
          /\ \A q \in PR!All : q # p => past'.standings[q] = past.standings[q]
      BY <2>5, <3>1
    <3> QED BY <1>1, <2>4, <3>2
  <2>7. ProposalsTyped'
    BY <2>2, <2>3, <2>5 DEF ProposalsInv, ProposalsTyped
  <2>8. PastFits'
    BY <1>1, <2>2, <2>5, <2>6 DEF PastFits
  <2> QED BY <1>1, <2>2, <2>5, <2>6, <2>7, <2>8, ChainMoves
<1> QED BY <1>2, <1>3, <1>4 DEF PR!Chain

\* The call moves.
LEMMA AskedMoves ==
    ASSUME ProposalsInv, NEW c \in ProposalCall, PR!Asked(c),
           c.st \in {"list", "probe"} => WalkedSoFar',
           c.st = "rows" => RowsFit',
           c.st = "done" => AnswerFits',
           c.st # "done" => c.answer = <<>>
    PROVE  ProposalsInv'
<1>1. asked' = c /\ UNCHANGED <<driver, submitted, fate, ballots, past>>
  BY DEF PR!Asked, PR!governance
<1>2. ProposalsTyped' /\ PastFits'
  BY <1>1 DEF ProposalsInv, ProposalsTyped, PastFits, PR!Standing
<1> QED BY <1>1, <1>2 DEF ProposalsInv

LEMMA CallFails ==
    ASSUME ProposalsInv, PR!Going, PR!Asked([asked EXCEPT !.st = "failed"]) PROVE ProposalsInv'
<1> DEFINE c == [asked EXCEPT !.st = "failed"]
<1>1. asked \in ProposalCall /\ asked.answer = <<>>
  BY ProposalRanges DEF ProposalsInv, PR!Going
<1>2. c \in ProposalCall /\ c.st = "failed" /\ c.answer = <<>>
  BY <1>1 DEF ProposalCall
<1>3. PR!Asked(c)
  OBVIOUS
<1> HIDE DEF c
<1> QED BY <1>2, <1>3, AskedMoves

\* The page is known; in Koios with the fields of its rows.
LEMMA PageKnownKeeps ==
    ASSUME ProposalsInv, asked.st \in {"list", "probe"}, NEW page \in Seq(PR!All),
           SliceOfOneMoment(page), NEW fields \in Seq(SUBSET Statuses),
           page # <<>> =>
               /\ Len(fields) = Len(page)
               /\ driver = "koios" =>
                     \A i \in 1..Len(page) : PR!StatusOf(fields[i]) \in past.standings[page[i]],
           PR!Asked([PR!PageKnown(page) EXCEPT !.fields = fields])
    PROVE  ProposalsInv'
<1> DEFINE k == PR!PageKnown(page)
           c == [k EXCEPT !.fields = fields]
<1>1. asked \in ProposalCall /\ asked.answer = <<>>
  BY ProposalRanges DEF ProposalsInv
<1>2. PR!Asked(c)
  OBVIOUS
<1>3. UNCHANGED <<driver, submitted, fate, ballots, past>> /\ asked' = c
  BY <1>2 DEF PR!Asked, PR!governance
<1>4. CASE page = <<>>
  <2>1. k = [asked EXCEPT !.st = "done"]
    BY <1>4 DEF PR!PageKnown
  <2> HIDE DEF k
  <2>2. c \in ProposalCall /\ c.st = "done" /\ c.offset = asked.offset /\ c.answer = <<>>
    BY <1>1, <2>1 DEF ProposalCall
  <2> HIDE DEF c
  <2>3. DOMAIN asked'.answer = {} /\ [i \in DOMAIN asked'.answer |-> asked'.answer[i].id] = page
    <3>1. asked'.answer = <<>>
      BY <1>3, <2>2
    <3>2. DOMAIN asked'.answer = {}
      BY <3>1
    <3>3. [i \in DOMAIN asked'.answer |-> asked'.answer[i].id] = <<>>
      BY <3>2
    <3> QED BY <1>4, <3>2, <3>3
  <2>4. AnswerFits'
    <3>1. SliceOfOneMoment([i \in DOMAIN asked.answer |-> asked.answer[i].id])'
      BY <1>3, <2>2, <2>3 DEF SliceOfOneMoment, OneList
    <3> QED BY <2>3, <3>1 DEF AnswerFits
  <2> QED BY <1>2, <2>2, <2>4, AskedMoves
<1>5. CASE page # <<>>
  <2> DEFINE parts == [i \in DOMAIN page |-> "none"]
             none == [i \in DOMAIN page |-> {}]
  <2>1. k = [asked EXCEPT !.st = "rows", !.rows = page, !.parts = parts, !.fields = none,
                          !.tallies = none]
    BY <1>5 DEF PR!PageKnown
  <2>2. DOMAIN page = 1..Len(page) /\ Len(page) \in Nat
    OBVIOUS
  <2>3. parts \in Seq({"none", "detail", "ready"}) /\ Len(parts) = Len(page)
        /\ \A i \in 1..Len(page) : parts[i] = "none"
    BY <2>2
  <2>4. none \in Seq(SUBSET Statuses) /\ none \in Seq(SUBSET Votes) /\ Len(none) = Len(page)
        /\ \A i \in 1..Len(page) : none[i] = {}
    BY <2>2
  <2> HIDE DEF parts, none, k
  <2>5. k \in ProposalCall /\ k.st = "rows" /\ k.rows = page /\ k.parts = parts
        /\ k.tallies = none /\ k.offset = asked.offset /\ k.answer = <<>>
    <3>1. /\ k.st = "rows" /\ k.rows = page /\ k.parts = parts /\ k.fields = none
          /\ k.tallies = none /\ k.offset = asked.offset /\ k.answer = <<>> /\ k.page = asked.page
      BY <1>1, <2>1 DEF ProposalCall
    <3>2. k \in ProposalCall
      BY <1>1, <2>1, <2>3, <2>4 DEF ProposalCall
    <3> QED BY <3>1, <3>2
  <2>6. c \in ProposalCall /\ c.st = "rows" /\ c.rows = page /\ c.parts = parts
        /\ c.tallies = none /\ c.offset = asked.offset /\ c.answer = <<>> /\ c.fields = fields
    BY <2>5 DEF ProposalCall
  <2> HIDE DEF c
  <2>7. SliceOfOneMoment(asked.rows)'
    BY <1>3, <2>6 DEF SliceOfOneMoment, OneList
  <2>8. ASSUME NEW i \in 1..Len(page)
        PROVE  /\ driver = "koios" \/ parts[i] # "none" =>
                     PR!StatusOf(fields[i]) \in past.standings[page[i]]
               /\ none[i] = {}
    BY <1>5, <2>3, <2>4
  <2>9. RowsFit'
    BY <1>3, <1>5, <2>3, <2>4, <2>6, <2>7, <2>8 DEF RowsFit, OwnVotes
  <2> QED BY <1>2, <2>6, <2>9, AskedMoves
<1> QED BY <1>4, <1>5

LEMMA ListReadKeeps == ASSUME ProposalsInv, PR!ListRead PROVE ProposalsInv'
<1> DEFINE list == PR!Newest(submitted)
           page == PR!Slice(list, asked.offset, ProposalLimit)
           k == PR!PageKnown(page)
           fields == [i \in DOMAIN k.rows |-> PR!ToSet(fate[k.rows[i]])]
<1>1. driver = "koios" /\ asked.st = "list" /\ PR!Asked([k EXCEPT !.fields = fields])
  BY DEF PR!ListRead
<1>2. page \in Seq(PR!All) /\ asked.rows \in Seq(PR!All)
  <2>1. list \in Seq(PR!All) /\ asked.offset \in Nat /\ ProposalLimit \in Nat \ {0}
    BY ProposalRanges, NewestIs, ProposalNumbers
  <2> HIDE DEF list
  <2> QED BY <2>1, SliceIs, ProposalRanges
<1>3. SliceOfOneMoment(page)
  <2>1. submitted \in past.submitted..submitted
    BY ProposalRanges
  <2> QED BY <2>1 DEF SliceOfOneMoment
<1> HIDE DEF page
<1>4. k.rows \in Seq(PR!All) /\ (page # <<>> => k.rows = page)
  <2>1. asked \in ProposalCall
    BY ProposalRanges
  <2> QED BY <1>2, <2>1 DEF PR!PageKnown, ProposalCall
<1> HIDE DEF k
<1>5. \A p \in PR!All : /\ PR!ToSet(fate[p]) \subseteq Statuses
                        /\ PR!StatusOf(PR!ToSet(fate[p])) \in past.standings[p]
  <2>1. \A p \in PR!All : fate[p] \in PR!Fates /\ PR!Standing(p) \in past.standings[p]
    BY ProposalRanges DEF ProposalsInv, PastFits
  <2> QED BY <2>1, StatusOfFields
<1>6. fields \in Seq(SUBSET Statuses) /\ Len(fields) = Len(k.rows)
      /\ \A i \in 1..Len(k.rows) : PR!StatusOf(fields[i]) \in past.standings[k.rows[i]]
  <2>1. DOMAIN k.rows = 1..Len(k.rows) /\ Len(k.rows) \in Nat
    BY <1>4
  <2>2. \A i \in 1..Len(k.rows) : k.rows[i] \in PR!All
    BY <1>4
  <2> QED BY <1>5, <2>1, <2>2
<1> HIDE DEF fields
<1>7. PR!Asked([PR!PageKnown(page) EXCEPT !.fields = fields])
  BY <1>1 DEF k
<1> QED BY <1>1, <1>2, <1>3, <1>4, <1>6, <1>7, PageKnownKeeps

\* In Blockfrost the page is sliced from the rows that were read.
LEMMA WalkEnds ==
    ASSUME ProposalsInv, driver = "blockfrost", asked.st \in {"list", "probe"},
           NEW all \in Seq(PR!All),
           OneList => /\ Len(all) <= submitted
                      /\ \A i \in 1..Len(all) : all[i] = submitted + 1 - i
                      /\ Len(all) = submitted \/ Len(all) >= PR!Needed(asked),
           PR!Asked(PR!PageKnown(PR!Slice(all, asked.offset, ProposalLimit)))
    PROVE  ProposalsInv'
<1> DEFINE page == PR!Slice(all, asked.offset, ProposalLimit)
           k == PR!PageKnown(page)
           list == PR!Newest(submitted)
<1>1. asked.offset \in Nat /\ ProposalLimit \in Nat \ {0} /\ submitted \in 0..LastProposal
      /\ asked \in ProposalCall /\ asked.fields \in Seq(SUBSET Statuses)
      /\ past.submitted \in Nat /\ past.submitted <= submitted /\ submitted \in Nat
  BY ProposalRanges, ProposalNumbers
<1>2. page \in Seq(PR!All)
  BY <1>1, SliceIs
<1>3. SliceOfOneMoment(page)
  <2> SUFFICES ASSUME OneList PROVE page = PR!Slice(list, asked.offset, ProposalLimit)
    <3>1. submitted \in past.submitted..submitted
      BY <1>1
    <3> QED BY <3>1 DEF SliceOfOneMoment
  <2>1. list \in Seq(PR!All) /\ Len(list) = submitted
        /\ \A i \in 1..submitted : list[i] = submitted + 1 - i
    BY <1>1, NewestIs
  <2>2. Len(all) <= Len(list) /\ \A i \in 1..Len(all) : all[i] = list[i]
    <3>1. \A i \in 1..Len(all) : i \in 1..submitted
      BY <1>1
    <3> QED BY <2>1, <3>1
  <2>3. Len(all) = Len(list) \/ Len(all) >= asked.offset + ProposalLimit
    BY <2>1 DEF PR!Needed
  <2> HIDE DEF list
  <2> QED BY <1>1, <2>1, <2>2, <2>3, SameSlice
<1> HIDE DEF page
<1>4. k \in ProposalCall /\ k.fields \in Seq(SUBSET Statuses)
      /\ (page # <<>> => Len(k.fields) = Len(page))
  <2>1. CASE page = <<>>
    BY <1>1, <2>1 DEF PR!PageKnown, ProposalCall
  <2>2. CASE page # <<>>
    <3> DEFINE parts == [i \in DOMAIN page |-> "none"]
               none == [i \in DOMAIN page |-> {}]
    <3>1. k = [asked EXCEPT !.st = "rows", !.rows = page, !.parts = parts, !.fields = none,
                            !.tallies = none]
      BY <2>2 DEF PR!PageKnown
    <3>2. DOMAIN page = 1..Len(page) /\ Len(page) \in Nat
      BY <1>2
    <3>3. parts \in Seq({"none", "detail", "ready"})
      BY <3>2
    <3>4. none \in Seq(SUBSET Statuses) /\ none \in Seq(SUBSET Votes) /\ Len(none) = Len(page)
      BY <3>2
    <3> HIDE DEF parts, none, k
    <3> QED BY <1>1, <1>2, <3>1, <3>3, <3>4 DEF ProposalCall
  <2> QED BY <2>1, <2>2
<1>5. [k EXCEPT !.fields = k.fields] = k
  <2> HIDE DEF k
  <2> QED BY <1>4 DEF ProposalCall
<1>6. PR!Asked([PR!PageKnown(page) EXCEPT !.fields = k.fields])
  BY <1>5 DEF page
<1> DEFINE fields == k.fields
<1>7. fields \in Seq(SUBSET Statuses) /\ (page # <<>> => Len(fields) = Len(page))
      /\ PR!Asked([PR!PageKnown(page) EXCEPT !.fields = fields]) /\ driver # "koios"
  BY <1>4, <1>6
<1> HIDE DEF fields
<1> QED BY <1>2, <1>3, <1>7, PageKnownKeeps

LEMMA PageReadKeeps == ASSUME ProposalsInv, PR!PageRead PROVE ProposalsInv'
<1> DEFINE list == PR!Newest(submitted)
           base == (asked.page - 1) * ProposalPageSize
           rows == PR!Slice(list, base, ProposalPageSize)
           all == asked.rows \o rows
           n == [asked EXCEPT !.rows = all, !.page = @ + 1,
                              !.st = IF asked.page = ProposalMaxPages THEN "probe" ELSE "list"]
<1>1. /\ driver = "blockfrost" /\ asked.st = "list"
      /\ \/ /\ Len(rows) < ProposalPageSize \/ Len(all) >= PR!Needed(asked)
            /\ PR!Asked(PR!PageKnown(PR!Slice(all, asked.offset, ProposalLimit)))
         \/ Len(rows) = ProposalPageSize /\ PR!Asked(n)
  BY DEF PR!PageRead
<1>2. /\ asked \in ProposalCall /\ asked.rows \in Seq(PR!All) /\ asked.page \in Nat \ {0}
      /\ submitted \in 0..LastProposal /\ submitted \in Nat /\ ProposalPageSize \in Nat \ {0}
      /\ asked.answer = <<>> /\ ProposalMaxPages \in Nat \ {0}
  BY <1>1, ProposalRanges, ProposalNumbers DEF ProposalsInv
<1>3. /\ list \in Seq(PR!All) /\ Len(list) = submitted
      /\ \A i \in 1..submitted : list[i] = submitted + 1 - i
  BY <1>2, NewestIs
<1>4. base \in Nat /\ ((asked.page + 1) - 1) * ProposalPageSize = base + ProposalPageSize
  <2>1. \A a, b \in Nat : a * b \in Nat /\ (a + 1) * b = a * b + b
    OBVIOUS
  <2> DEFINE a == asked.page - 1
  <2>2. a \in Nat /\ a + 1 = (asked.page + 1) - 1
    BY <1>2
  <2>3. base = a * ProposalPageSize
    OBVIOUS
  <2> HIDE DEF a, base
  <2> QED BY <1>2, <2>1, <2>2, <2>3
<1>5. OneList => /\ Len(asked.rows) = base /\ base <= submitted
                 /\ \A i \in 1..base : asked.rows[i] = submitted + 1 - i
  <2>1. WalkedSoFar
    BY <1>1 DEF ProposalsInv
  <2> QED BY <2>1 DEF WalkedSoFar
<1> HIDE DEF base, list
<1>6. /\ rows \in Seq(PR!All) /\ Len(rows) \in Nat /\ Len(rows) <= ProposalPageSize
      /\ Len(rows) < ProposalPageSize => submitted <= base + Len(rows)
      /\ Len(rows) # 0 => base + Len(rows) <= submitted
      /\ \A i \in 1..Len(rows) : rows[i] = list[base + i]
  BY <1>2, <1>3, <1>4, SliceIs
<1> HIDE DEF rows
<1>7. /\ all \in Seq(PR!All) /\ Len(all) = Len(asked.rows) + Len(rows)
      /\ \A i \in 1..Len(asked.rows) : all[i] = asked.rows[i]
      /\ \A i \in 1..Len(all) : i > Len(asked.rows) => all[i] = rows[i - Len(asked.rows)]
  BY <1>2, <1>6
<1> HIDE DEF all
<1>8. OneList => /\ Len(all) = base + Len(rows) /\ Len(all) <= submitted
                 /\ \A i \in 1..Len(all) : all[i] = submitted + 1 - i
  <2> SUFFICES ASSUME OneList
               PROVE  /\ Len(all) = base + Len(rows) /\ Len(all) <= submitted
                      /\ \A i \in 1..Len(all) : all[i] = submitted + 1 - i
    OBVIOUS
  <2>1. Len(all) = base + Len(rows) /\ Len(all) <= submitted
    <3>1. Len(asked.rows) = base /\ base <= submitted
      BY <1>5
    <3>2. Len(all) = base + Len(rows)
      BY <1>7, <3>1
    <3> QED BY <1>2, <1>4, <1>6, <3>1, <3>2
  <2>2. ASSUME NEW i \in 1..Len(all) PROVE all[i] = submitted + 1 - i
    <3>1. CASE i \in 1..base
      BY <1>5, <1>7, <3>1
    <3>2. CASE i > base
      <4>1. i - base \in 1..Len(rows) /\ base + (i - base) = i /\ i \in 1..submitted
        BY <1>2, <1>4, <1>6, <2>1, <2>2, <3>2
      <4>2. all[i] = rows[i - base] /\ rows[i - base] = list[i]
        <5>1. Len(asked.rows) = base
          BY <1>5
        <5>2. all[i] = rows[i - Len(asked.rows)]
          <6>1. i > Len(asked.rows)
            BY <3>2, <5>1
          <6> QED BY <1>7, <2>2, <6>1
        <5>3. rows[i - base] = list[base + (i - base)]
          BY <1>6, <4>1
        <5> QED BY <4>1, <5>1, <5>2, <5>3
      <4> QED BY <1>3, <4>1, <4>2
    <3>3. base \in Nat /\ Len(all) \in Nat
      BY <1>4, <1>7
    <3> QED BY <3>1, <3>2, <3>3
  <2> QED BY <2>1, <2>2
<1>9. CASE /\ Len(rows) < ProposalPageSize \/ Len(all) >= PR!Needed(asked)
           /\ PR!Asked(PR!PageKnown(PR!Slice(all, asked.offset, ProposalLimit)))
  <2>1. OneList => Len(all) = submitted \/ Len(all) >= PR!Needed(asked)
    BY <1>2, <1>4, <1>6, <1>8, <1>9
  <2> QED BY <1>1, <1>7, <1>8, <1>9, <2>1, WalkEnds
<1>10. CASE Len(rows) = ProposalPageSize /\ PR!Asked(n)
  <2>1. /\ n \in ProposalCall /\ n.rows = all /\ n.page = asked.page + 1 /\ n.answer = <<>>
        /\ n.st = IF asked.page = ProposalMaxPages THEN "probe" ELSE "list"
    <3> DEFINE st == IF asked.page = ProposalMaxPages THEN "probe" ELSE "list"
               next == asked.page + 1
    <3>1. st \in {"list", "probe"} /\ next \in Nat \ {0}
      BY <1>2
    <3>2. n = [asked EXCEPT !.rows = all, !.page = next, !.st = st]
      BY <1>2 DEF ProposalCall
    <3> HIDE DEF st, n, next
    <3>3. n \in ProposalCall /\ n.rows = all /\ n.page = next /\ n.answer = <<>> /\ n.st = st
      BY <1>2, <1>7, <3>1, <3>2 DEF ProposalCall
    <3> QED BY <3>3 DEF st, next
  <2>2. PR!Asked(n)
    BY <1>10
  <2> HIDE DEF n
  <2>3. UNCHANGED <<driver, submitted, fate, ballots, past>> /\ asked' = n
    BY <2>2 DEF PR!Asked, PR!governance
  <2>4. OneList' = OneList
    BY <2>3 DEF OneList
  <2>5. OneList => Len(all) = ((asked.page + 1) - 1) * ProposalPageSize
    BY <1>4, <1>8, <1>10
  <2>6. WalkedSoFar'
    BY <1>1, <1>8, <2>1, <2>3, <2>4, <2>5 DEF WalkedSoFar
  <2> QED BY <2>1, <2>2, <2>6, AskedMoves
<1> QED BY <1>1, <1>9, <1>10

LEMMA ProbedKeeps == ASSUME ProposalsInv, PR!Probed PROVE ProposalsInv'
<1>1. asked.st = "probe" /\ WalkedSoFar
  BY DEF PR!Probed, ProposalsInv
<1>2. driver = "blockfrost" /\ asked.page = ProposalMaxPages + 1
  BY <1>1 DEF WalkedSoFar
<1>3. CASE submitted > ProposalMaxPages * ProposalPageSize
  BY <1>1, <1>3, CallFails DEF PR!Probed, PR!Going
<1>4. CASE ~(submitted > ProposalMaxPages * ProposalPageSize)
  <2>1. PR!Asked(PR!PageKnown(PR!Slice(asked.rows, asked.offset, ProposalLimit)))
    BY <1>4 DEF PR!Probed
  <2>2. asked.rows \in Seq(PR!All) /\ submitted \in Nat
    BY ProposalRanges
  <2>3. ProposalMaxPages * ProposalPageSize \in Nat
    <3>1. \A a, b \in Nat : a * b \in Nat
      OBVIOUS
    <3> QED BY <3>1, ProposalNumbers
  <2>4. (asked.page - 1) * ProposalPageSize = ProposalMaxPages * ProposalPageSize
    <3>1. asked.page - 1 = ProposalMaxPages
      BY <1>2, ProposalNumbers
    <3> QED BY <3>1
  <2>5. OneList => /\ Len(asked.rows) = submitted
                   /\ \A i \in 1..Len(asked.rows) : asked.rows[i] = submitted + 1 - i
    BY <1>1, <1>4, <2>2, <2>3, <2>4 DEF WalkedSoFar
  <2> QED BY <1>1, <1>2, <2>1, <2>2, <2>5, WalkEnds
<1> QED BY <1>3, <1>4

\* One row gets a part.
LEMMA RowMoves ==
    ASSUME ProposalsInv, asked.st = "rows", NEW i \in DOMAIN asked.parts,
           NEW part \in {"none", "detail", "ready"}, NEW fields \in SUBSET Statuses,
           NEW tally \in SUBSET Votes, NEW c \in ProposalCall,
           c.st = "rows", c.rows = asked.rows, c.offset = asked.offset, c.answer = asked.answer,
           c.parts = [asked.parts EXCEPT ![i] = part],
           c.fields = [asked.fields EXCEPT ![i] = fields],
           c.tallies = [asked.tallies EXCEPT ![i] = tally],
           driver = "koios" \/ part # "none" =>
               PR!StatusOf(fields) \in past.standings[asked.rows[i]],
           OwnVotes(asked.rows[i], tally), PR!Asked(c)
    PROVE  ProposalsInv'
<1>1. RowsFit /\ asked.answer = <<>>
  BY DEF ProposalsInv
<1>2. UNCHANGED <<driver, submitted, fate, ballots, past>> /\ asked' = c
  BY DEF PR!Asked, PR!governance
<1>3. /\ asked.parts \in Seq({"none", "detail", "ready"}) /\ asked.fields \in Seq(SUBSET Statuses)
      /\ asked.tallies \in Seq(SUBSET Votes)
  BY ProposalRanges
<1>4. /\ Len(c.parts) = Len(c.rows) /\ Len(c.fields) = Len(c.rows) /\ Len(c.tallies) = Len(c.rows)
      /\ i \in 1..Len(c.rows)
      /\ c.parts[i] = part /\ c.fields[i] = fields /\ c.tallies[i] = tally
      /\ \A j \in 1..Len(c.rows) : j # i =>
            c.parts[j] = asked.parts[j] /\ c.fields[j] = asked.fields[j] /\ c.tallies[j] = asked.tallies[j]
  <2>1. DOMAIN asked.parts = 1..Len(c.rows) /\ DOMAIN asked.fields = 1..Len(c.rows)
        /\ DOMAIN asked.tallies = 1..Len(c.rows)
    BY <1>1, <1>3 DEF RowsFit
  <2> QED BY <1>1, <1>3, <2>1 DEF RowsFit
<1>5. SliceOfOneMoment(asked.rows)'
  BY <1>1, <1>2 DEF RowsFit, SliceOfOneMoment, OneList
<1>6. ASSUME NEW j \in 1..Len(c.rows)
      PROVE  /\ driver = "koios" \/ c.parts[j] # "none" =>
                   PR!StatusOf(c.fields[j]) \in past.standings[c.rows[j]]
             /\ OwnVotes(c.rows[j], c.tallies[j])
  BY <1>1, <1>4 DEF RowsFit
<1>7. RowsFit'
  BY <1>2, <1>4, <1>5, <1>6 DEF RowsFit, OwnVotes
<1> QED BY <1>1, <1>7, AskedMoves

LEMMA RowStepsKeep ==
    ASSUME ProposalsInv, NEW i \in DOMAIN asked.parts,
           PR!TallyRead(i) \/ PR!DetailRead(i) \/ PR!DetailFails(i) \/ PR!DocumentRead(i)
    PROVE  ProposalsInv'
<1> DEFINE p == asked.rows[i]
<1>1. asked.st = "rows" /\ RowsFit /\ PR!Going
  BY DEF PR!TallyRead, PR!DetailRead, PR!DetailFails, PR!DocumentRead, PR!Awaited, ProposalsInv,
         PR!Going
<1>2. /\ asked \in ProposalCall
      /\ asked.parts \in Seq({"none", "detail", "ready"}) /\ asked.fields \in Seq(SUBSET Statuses)
      /\ asked.tallies \in Seq(SUBSET Votes) /\ asked.rows \in Seq(PR!All)
      /\ driver \in {"koios", "blockfrost"}
  BY ProposalRanges
<1>3. /\ i \in 1..Len(asked.rows) /\ i \in DOMAIN asked.fields /\ i \in DOMAIN asked.tallies
      /\ p \in PR!All /\ asked.parts[i] \in {"none", "detail", "ready"}
      /\ asked.fields[i] \in SUBSET Statuses /\ asked.tallies[i] \in SUBSET Votes
  <2>1. DOMAIN asked.parts = 1..Len(asked.rows) /\ DOMAIN asked.fields = 1..Len(asked.rows)
        /\ DOMAIN asked.tallies = 1..Len(asked.rows)
    BY <1>1, <1>2 DEF RowsFit
  <2> QED BY <1>2, <2>1
<1>4. /\ driver = "koios" \/ asked.parts[i] # "none" =>
            PR!StatusOf(asked.fields[i]) \in past.standings[p]
      /\ OwnVotes(p, asked.tallies[i])
  BY <1>1, <1>3 DEF RowsFit
<1>5. /\ asked.fields = [asked.fields EXCEPT ![i] = asked.fields[i]]
      /\ asked.tallies = [asked.tallies EXCEPT ![i] = asked.tallies[i]]
  <2>1. \A S : \A s \in Seq(S) : \A j \in DOMAIN s : s = [s EXCEPT ![j] = s[j]]
    OBVIOUS
  <2> QED BY <1>2, <1>3, <2>1
<1>6. /\ past.ballots[p] \in Nat /\ ballots[p] \in Nat /\ past.ballots[p] <= ballots[p]
      /\ PR!StatusOf(PR!ToSet(fate[p])) \in past.standings[p] /\ PR!ToSet(fate[p]) \subseteq Statuses
  <2>1. fate[p] \in PR!Fates /\ PR!Standing(p) \in past.standings[p]
        /\ past.ballots[p] <= ballots[p]
    BY <1>3, ProposalRanges DEF ProposalsInv, PastFits
  <2> QED BY <1>3, <2>1, ProposalRanges, StatusOfFields
<1>7. CASE PR!TallyRead(i)
  <2>1. PICK tally \in {{}, {[of |-> p, votes |-> ballots[p]]}} :
            PR!Asked([asked EXCEPT !.parts[i] = "ready", !.tallies[i] = tally])
    BY <1>7 DEF PR!TallyRead
  <2> DEFINE parts == [asked.parts EXCEPT ![i] = "ready"]
             tallies == [asked.tallies EXCEPT ![i] = tally]
             c == [asked EXCEPT !.parts = parts, !.tallies = tallies]
  <2>2. tally \in SUBSET Votes /\ OwnVotes(p, tally)
    BY <1>3, <1>6 DEF Votes, OwnVotes
  <2>3. parts \in Seq({"none", "detail", "ready"}) /\ tallies \in Seq(SUBSET Votes)
    BY <1>2, <1>3, <2>2
  <2>4. PR!Asked(c)
    BY <1>2, <2>1 DEF ProposalCall
  <2> HIDE DEF parts, tallies
  <2>5. /\ c \in ProposalCall /\ c.st = "rows" /\ c.rows = asked.rows /\ c.offset = asked.offset
        /\ c.answer = asked.answer /\ c.parts = parts /\ c.fields = asked.fields /\ c.tallies = tallies
    BY <1>1, <1>2, <2>3 DEF ProposalCall
  <2> HIDE DEF c
  <2>6. driver = "koios"
    BY <1>7 DEF PR!TallyRead
  <2> QED BY <1>1, <1>3, <1>4, <1>5, <2>2, <2>4, <2>5, <2>6, RowMoves, ZenonT(60) DEF parts, tallies
<1>8. CASE PR!DetailRead(i)
  <2> DEFINE new == PR!ToSet(fate[p])
             parts == [asked.parts EXCEPT ![i] = "detail"]
             fields == [asked.fields EXCEPT ![i] = new]
             c == [asked EXCEPT !.parts = parts, !.fields = fields]
  <2>1. PR!Asked([asked EXCEPT !.parts[i] = "detail", !.fields[i] = new])
    BY <1>8 DEF PR!DetailRead
  <2>2. new \in SUBSET Statuses /\ PR!StatusOf(new) \in past.standings[p]
    BY <1>6
  <2> HIDE DEF new
  <2>3. parts \in Seq({"none", "detail", "ready"}) /\ fields \in Seq(SUBSET Statuses)
    BY <1>2, <1>3, <2>2
  <2>4. PR!Asked(c)
    BY <1>2, <2>1 DEF ProposalCall
  <2> HIDE DEF parts, fields
  <2>5. /\ c \in ProposalCall /\ c.st = "rows" /\ c.rows = asked.rows /\ c.offset = asked.offset
        /\ c.answer = asked.answer /\ c.parts = parts /\ c.fields = fields
        /\ c.tallies = asked.tallies
    BY <1>1, <1>2, <2>3 DEF ProposalCall
  <2> HIDE DEF c
  <2>6. /\ c.parts = [asked.parts EXCEPT ![i] = "detail"]
        /\ c.fields = [asked.fields EXCEPT ![i] = new]
        /\ c.tallies = [asked.tallies EXCEPT ![i] = asked.tallies[i]]
    BY <1>5, <2>5 DEF parts, fields
  <2>7. OwnVotes(asked.rows[i], asked.tallies[i]) /\ "detail" \in {"none", "detail", "ready"}
    BY <1>4
  <2> QED BY <1>1, <1>3, <2>2, <2>4, <2>5, <2>6, <2>7, RowMoves
<1>9. CASE PR!DocumentRead(i)
  <2> DEFINE parts == [asked.parts EXCEPT ![i] = "ready"]
             c == [asked EXCEPT !.parts = parts]
  <2>1. PR!Asked([asked EXCEPT !.parts[i] = "ready"]) /\ asked.parts[i] = "detail"
    BY <1>9 DEF PR!DocumentRead
  <2>2. parts \in Seq({"none", "detail", "ready"})
    BY <1>2, <1>3
  <2>3. PR!Asked(c)
    BY <1>2, <2>1 DEF ProposalCall
  <2> HIDE DEF parts
  <2>4. /\ c \in ProposalCall /\ c.st = "rows" /\ c.rows = asked.rows /\ c.offset = asked.offset
        /\ c.answer = asked.answer /\ c.parts = parts /\ c.fields = asked.fields
        /\ c.tallies = asked.tallies
    BY <1>1, <1>2, <2>2 DEF ProposalCall
  <2> HIDE DEF c
  <2>5. PR!StatusOf(asked.fields[i]) \in past.standings[p]
    BY <1>4, <2>1
  <2>6. /\ c.parts = [asked.parts EXCEPT ![i] = "ready"]
        /\ c.fields = [asked.fields EXCEPT ![i] = asked.fields[i]]
        /\ c.tallies = [asked.tallies EXCEPT ![i] = asked.tallies[i]]
    BY <1>5, <2>4 DEF parts
  <2>7. OwnVotes(asked.rows[i], asked.tallies[i]) /\ "ready" \in {"none", "detail", "ready"}
    BY <1>4
  <2> QED BY <1>1, <1>3, <2>3, <2>4, <2>5, <2>6, <2>7, RowMoves
<1>10. CASE PR!DetailFails(i)
  BY <1>1, <1>10, CallFails DEF PR!DetailFails
<1> QED BY <1>7, <1>8, <1>9, <1>10

LEMMA ProposalReturnsKeeps == ASSUME ProposalsInv, PR!Returns PROVE ProposalsInv'
<1> DEFINE rows == asked.rows
           answer == [i \in DOMAIN rows |-> PR!Reported(i)]
           c == [asked EXCEPT !.st = "done", !.answer = answer]
<1>1. /\ asked.st = "rows" /\ PR!Asked(c)
      /\ \A i \in DOMAIN asked.parts : asked.parts[i] = "ready"
  BY DEF PR!Returns
<1>2. RowsFit
  BY <1>1 DEF ProposalsInv
<1>3. /\ asked \in ProposalCall
      /\ rows \in Seq(PR!All) /\ asked.parts \in Seq({"none", "detail", "ready"})
      /\ asked.tallies \in Seq(SUBSET Votes) /\ past.standings \in [PR!All -> SUBSET Statuses]
  BY ProposalRanges
<1>4. DOMAIN rows = 1..Len(rows) /\ DOMAIN asked.parts = 1..Len(rows)
      /\ DOMAIN asked.tallies = 1..Len(rows) /\ Len(rows) \in Nat
  BY <1>2, <1>3 DEF RowsFit
<1>5. ASSUME NEW i \in 1..Len(rows)
      PROVE  /\ answer[i].id = rows[i] /\ answer[i] \in ProposalRow
             /\ answer[i].status \in past.standings[rows[i]]
             /\ OwnVotes(rows[i], answer[i].tally)
  <2>1. answer[i] = [id |-> rows[i], tally |-> asked.tallies[i],
                     status |-> PR!StatusOf(asked.fields[i])]
    BY <1>4 DEF PR!Reported, PR!Tally
  <2>2. rows[i] \in PR!All /\ asked.tallies[i] \in SUBSET Votes /\ asked.parts[i] # "none"
    BY <1>1, <1>3, <1>4
  <2>3. PR!StatusOf(asked.fields[i]) \in past.standings[rows[i]] /\ OwnVotes(rows[i], asked.tallies[i])
    BY <1>2, <2>2 DEF RowsFit
  <2>4. PR!StatusOf(asked.fields[i]) \in Statuses
    BY <1>3, <2>2, <2>3
  <2> HIDE DEF answer
  <2> QED BY <2>1, <2>2, <2>3, <2>4 DEF ProposalRow
<1>6. DOMAIN answer = 1..Len(rows)
  BY <1>4
<1>7. answer \in Seq(ProposalRow)
  <2>1. \A S, f : f = [i \in 1..Len(rows) |-> f[i]] /\ (\A i \in 1..Len(rows) : f[i] \in S) => f \in Seq(S)
    BY <1>4
  <2>2. answer = [i \in 1..Len(rows) |-> answer[i]]
    BY <1>6
  <2> HIDE DEF answer
  <2> QED BY <1>5, <2>1, <2>2
<1>8. [i \in DOMAIN answer |-> answer[i].id] = rows
  <2> HIDE DEF answer
  <2>1. [i \in DOMAIN answer |-> answer[i].id] = [i \in 1..Len(rows) |-> rows[i]]
    BY <1>5, <1>6
  <2>2. rows = [i \in 1..Len(rows) |-> rows[i]]
    BY <1>3, <1>4
  <2> QED BY <2>1, <2>2
<1> HIDE DEF answer
<1>9. c \in ProposalCall /\ c.st = "done" /\ c.answer = answer /\ c.offset = asked.offset
  BY <1>3, <1>7 DEF ProposalCall
<1> HIDE DEF c
<1>10. UNCHANGED <<driver, submitted, fate, ballots, past>> /\ asked' = c
  BY <1>1 DEF PR!Asked, PR!governance
<1>11. SliceOfOneMoment([i \in DOMAIN asked.answer |-> asked.answer[i].id])'
  <2>1. SliceOfOneMoment(rows)
    BY <1>2 DEF RowsFit
  <2>2. [i \in DOMAIN asked'.answer |-> asked'.answer[i].id] = rows
    BY <1>8, <1>9, <1>10
  <2> HIDE DEF rows
  <2> QED BY <1>9, <1>10, <2>1, <2>2 DEF SliceOfOneMoment, OneList
<1>12. AnswerFits'
  BY <1>5, <1>6, <1>9, <1>10, <1>11 DEF AnswerFits, OwnVotes
<1> QED BY <1>1, <1>9, <1>12, AskedMoves

LEMMA ProposalsElsewhere == ASSUME ProposalsInv, UNCHANGED <<driver, proposalsVars>> PROVE ProposalsInv'
<1>1. UNCHANGED <<driver, submitted, fate, ballots, asked, past>>
  BY DEF proposalsVars
<1> QED BY <1>1, SMTT(30) DEF ProposalsInv, ProposalsTyped, PastFits, PR!Standing, WalkedSoFar, OneList,
                    RowsFit, SliceOfOneMoment, OwnVotes, AnswerFits

LEMMA ProposalsStep == ProposalsInv /\ [Next]_vars => ProposalsInv'
<1> SUFFICES ASSUME ProposalsInv, [Next]_vars PROVE ProposalsInv'
  OBVIOUS
<1>1. CASE UNCHANGED vars
  BY <1>1, ProposalsElsewhere DEF vars
<1>2. CASE Params(PP!Next)
  BY <1>2, ProposalsElsewhere DEF Params
<1>3. CASE PoolPages(PL!Next)
  BY <1>3, PoolsDriverStays, ProposalsElsewhere DEF PoolPages
<1>4. CASE DrepPages(DL!Next)
  BY <1>4, DriverStays, ProposalsElsewhere DEF DrepPages
<1>5. CASE Tokens(TM!Next)
  BY <1>5, DriverStays, ProposalsElsewhere DEF Tokens
<1>6. CASE ProposalPages(PR!Next)
  <2>1. PR!Chain \/ PR!CallSteps
    BY <1>6 DEF ProposalPages, PR!Next
  <2>2. CASE PR!CallSteps
    <3>1. ASSUME PR!ListFails PROVE ProposalsInv'
      BY <3>1, CallFails DEF PR!ListFails, PR!Going
    <3> QED BY <2>2, <3>1, ListReadKeeps, PageReadKeeps, ProbedKeeps, RowStepsKeep,
               ProposalReturnsKeeps DEF PR!CallSteps
  <2> QED BY <2>1, <2>2, ProposalChainKeeps
<1> QED BY <1>1, <1>2, <1>3, <1>4, <1>5, <1>6 DEF Next

LEMMA ProposalsInvariant == Spec => []ProposalsInv
<1>1. Init => ProposalsInv
  BY ProposalsStart DEF Init
<1> QED BY <1>1, ProposalsStep, PTL DEF Spec

LEMMA ProposalPagesAreTrue == ProposalsInv => PR!PageOfOneMoment /\ PR!FateWasTrue
<1> SUFFICES ASSUME ProposalsInv PROVE PR!PageOfOneMoment /\ PR!FateWasTrue
  OBVIOUS
<1>1. PR!PageOfOneMoment
  BY DEF ProposalsInv, AnswerFits, SliceOfOneMoment, OneList, PR!PageOfOneMoment
<1>2. PR!FateWasTrue
  BY DEF ProposalsInv, AnswerFits, OwnVotes, PR!FateWasTrue
<1> QED BY <1>1, <1>2

\* A keyset walk over pools or DReps holds everything that was registered
\* throughout it, once, up to the row it was to reach; a page of DReps holds
\* those of its slice that were registered during the call and none that was
\* gone all along; a page of proposals is the slice of the list at one moment,
\* and shows each with a decision and with votes it had during the call.  So
\* the lists of koios/governance.ts and koios/pools.ts are never silently short,
\* nor those of blockfrost/governance.ts wrong about a row.
THEOREM RowsStayTrue == Spec => []RowsWereTrue
<1>1. DrepsInv /\ ProposalsInv /\ PL!ListedWhole => RowsWereTrue
  BY DrepPagesAreTrue, ProposalPagesAreTrue DEF RowsWereTrue
<1> QED BY <1>1, PoolScansAreWhole, DrepsInvariant, ProposalsInvariant, PTL
=============================================================================
