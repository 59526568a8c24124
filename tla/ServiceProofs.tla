---------------------------- MODULE ServiceProofs ----------------------------
(***************************************************************************)
(* The process around its requests, for every set of callers, every        *)
(* timeout, window and grace period, and every environment it may be       *)
(* started in.                                                             *)
(*                                                                         *)
(* The composition adds no step to its parts: ServiceSpec implements the   *)
(* specification of the remote configuration and that of the stop, so what *)
(* is proved of a part holds of the process.  ConfigSurvivesStop relates   *)
(* the two, and has an invariant of its own.                               *)
(*                                                                         *)
(* Of the HTTP server in front of the routes it is proved for every length *)
(* of an address, every environment and every limit.  What an entry of     *)
(* TRUST_PROXY trusts depends on no state; it is proved of the operators,  *)
(* and whose budget a request is charged to follows.                       *)
(*                                                                         *)
(* What a discovery answers is proved of every list of inputs, any size of *)
(* a group and any number of workers: none of them ever loses track of a   *)
(* credential that was used, and no group is left without a worker.        *)
(***************************************************************************)
EXTENDS Service, SequenceLemmas, SequenceTheorems, FiniteSetTheorems, WellFoundedInduction, TLAPS

-----------------------------------------------------------------------------
(* The remote configuration.                                                *)

\* Documents are replaced in order, each at a moment that has passed.
Replaced ==
    \A v \in 1..MaxVersion :
        IF v < published THEN until[v] \in 0..now ELSE until[v] = -1

\* Document v was published, and not replaced before t.
CurrentAt(v, t) ==
    v \in 1..published /\ (until[v] # -1 => until[v] >= t)

\* What a call holds was current when it began; a call that ended was answered
\* with what was current within the outage window and one fetch.
CallCurrent(c) ==
    /\ call[c].at <= now /\ call[c].floor <= served
    /\ call[c].st = "loading" =>
          /\ now - call[c].at <= Timeout
          /\ call[c].got # 0 => CurrentAt(call[c].got, call[c].at)
    /\ call[c].st = "done" =>
          CurrentAt(call[c].got, call[c].at - StaleIfError - Timeout)

CallsCurrent == \A c \in Callers : CallCurrent(c)

\* What is kept was current one fetch before it was stored.
KeptCurrent ==
    /\ lastGood.at <= now
    /\ lastGood.v # 0 => CurrentAt(lastGood.v, lastGood.at - Timeout)
    /\ entry.expires <= now + Ttl
    /\ entry.v # 0 => CurrentAt(entry.v, entry.expires - Ttl - Timeout)

\* lastGood is there since the last fetch that succeeded.
Remembers ==
    /\ landed = -1 <=> lastGood.v = 0
    /\ landed # -1 => landed = lastGood.at

\* With the cache there is one fetch at a time, so the newest document that was
\* served is the one that is kept, and a response on its way is no older.
Forward ==
    /\ served <= published
    /\ cached =>
          /\ served = lastGood.v
          /\ entry.v # 0 => entry.v = lastGood.v
          /\ \A c, d \in Pending : c = d
          /\ \A c \in Callers :
                /\ call[c].st = "loading" /\ call[c].got # 0 => call[c].got >= served
                /\ call[c].st = "done" => call[c].got >= call[c].floor

ConfigInv ==
    TypeOK /\ Replaced /\ CallsCurrent /\ KeptCurrent /\ Remembers /\ Forward

\* At the start nothing was fetched.
LEMMA ConfigStarts == Init => ConfigInv
<1> SUFFICES ASSUME Init PROVE ConfigInv
  OBVIOUS
<1> USE ConfigAssumption
<1>1. \A c \in Callers : call[c] = [st |-> "idle", got |-> 0, floor |-> 0, at |-> 0]
  BY DEF Init
<1>2. TypeOK
  BY <1>1 DEF Init, TypeOK, Call
<1>3. Replaced /\ CallsCurrent /\ KeptCurrent /\ Remembers /\ Forward
  BY <1>1 DEF Init, Replaced, CallsCurrent, CallCurrent, KeptCurrent, Remembers, Forward, Pending
<1> QED BY <1>2, <1>3 DEF ConfigInv

\* The ranges the other proofs count with.
LEMMA ConfigRanges ==
    ASSUME ConfigInv
    PROVE  /\ now \in 0..MaxNow /\ published \in 1..MaxVersion
           /\ until \in [1..MaxVersion -> -1..MaxNow]
           /\ entry.v \in 0..MaxVersion /\ entry.expires \in Int
           /\ lastGood.v \in 0..MaxVersion /\ lastGood.at \in 0..MaxNow
           /\ served \in 0..MaxVersion
           /\ \A c \in Callers :
                 /\ call[c] \in Call
                 /\ call[c].st \in {"idle", "loading", "joined", "done", "failed"}
                 /\ call[c].got \in 0..MaxVersion /\ call[c].floor \in 0..MaxVersion
                 /\ call[c].at \in 0..MaxNow
<1>1. \A c \in Callers : call[c] \in Call
  BY DEF ConfigInv, TypeOK
<1>2. \A r \in Call :
          /\ r.st \in {"idle", "loading", "joined", "done", "failed"}
          /\ r.got \in 0..MaxVersion /\ r.floor \in 0..MaxVersion
          /\ r.at \in 0..MaxNow
  BY DEF Call
<1>3. /\ now \in 0..MaxNow /\ published \in 1..MaxVersion
      /\ until \in [1..MaxVersion -> -1..MaxNow]
      /\ lastGood.v \in 0..MaxVersion /\ lastGood.at \in 0..MaxNow
      /\ served \in 0..MaxVersion
  BY DEF ConfigInv, TypeOK
<1>4. entry.v \in 0..MaxVersion /\ entry.expires \in Int
  BY ConfigAssumption DEF ConfigInv, TypeOK
<1> QED BY <1>1, <1>2, <1>3, <1>4

\* A document that is replaced now was current until now.
LEMMA PublishKeepsConfig == ConfigInv /\ Publish => ConfigInv'
<1> SUFFICES ASSUME ConfigInv, Publish PROVE ConfigInv'
  OBVIOUS
<1> USE ConfigAssumption
<1>0. /\ published \in 1..MaxVersion /\ published' = published + 1 /\ published' \in 1..MaxVersion
      /\ now \in 0..MaxNow /\ until \in [1..MaxVersion -> -1..MaxNow]
      /\ until' = [until EXCEPT ![published] = now]
      /\ UNCHANGED <<cached, now, entry, lastGood, call, served, landed>>
  BY DEF Publish, ConfigInv, TypeOK
<1>1. TypeOK'
  BY <1>0 DEF ConfigInv, TypeOK, Pending
<1>2. Replaced'
  BY <1>0 DEF ConfigInv, Replaced
<1>3. ASSUME NEW v, NEW t \in Int, CurrentAt(v, t), t <= now
      PROVE  v \in 1..published' /\ (until'[v] # -1 => until'[v] >= t)
  BY <1>0, <1>3 DEF CurrentAt, ConfigInv, Replaced
<1>4. CallsCurrent'
  <2>1. ASSUME NEW c \in Callers
        PROVE  call[c].at \in Int /\ call[c].at <= now /\ call[c].floor <= served
               /\ call[c].at - StaleIfError - Timeout \in Int
               /\ call[c].at - StaleIfError - Timeout <= now
    <3>1. call[c].at \in 0..MaxNow /\ call[c].floor \in Int /\ served \in Int
      BY ConfigRanges
    <3>2. call[c].at <= now /\ call[c].floor <= served
      BY DEF ConfigInv, CallsCurrent, CallCurrent
    <3>3. call[c].at - StaleIfError - Timeout \in Int
      BY <3>1
    <3>4. call[c].at - StaleIfError - Timeout <= now
      <4>1. StaleIfError \in Nat /\ Timeout \in Nat /\ now \in Int /\ call[c].at \in Int
        BY <1>0, <3>1 DEF ConfigAssumption
      <4>2. \A a, n \in Int : \A s, t \in Nat : a <= n => a - s - t <= n
        OBVIOUS
      <4> QED BY <3>2, <4>1, <4>2
    <3> QED BY <1>0, <3>1, <3>2, <3>3, <3>4
  <2> QED BY <1>0, <1>3, <2>1 DEF ConfigInv, CallsCurrent, CallCurrent, CurrentAt
<1>5. KeptCurrent'
  <2>1. lastGood.at - Timeout \in Int /\ entry.expires - Ttl - Timeout \in Int
    BY DEF ConfigInv, TypeOK
  <2>2. lastGood.at - Timeout <= now /\ entry.expires - Ttl - Timeout <= now
    <3>1. lastGood.at <= now /\ entry.expires <= now + Ttl
      BY DEF ConfigInv, KeptCurrent
    <3>2. /\ lastGood.at \in Int /\ entry.expires \in Int /\ now \in Int
          /\ Timeout \in Nat /\ Ttl \in Nat
      BY <1>0, ConfigRanges DEF ConfigAssumption
    <3> QED BY <3>1, <3>2
  <2> QED BY <1>0, <1>3, <2>1, <2>2 DEF ConfigInv, KeptCurrent, CurrentAt
<1>6. Remembers' /\ Forward'
  BY <1>0 DEF ConfigInv, TypeOK, Remembers, Forward, Pending
<1> QED BY <1>1, <1>2, <1>4, <1>5, <1>6 DEF ConfigInv

\* A document that was not replaced before t was not before anything earlier.
LEMMA CurrentEarlier ==
    ASSUME ConfigInv, NEW v, NEW t \in Int, NEW u \in Int, CurrentAt(v, t), u <= t
    PROVE  CurrentAt(v, u)
<1>1. v \in 1..MaxVersion
  BY ConfigRanges, ConfigAssumption DEF CurrentAt
<1>2. until[v] \in -1..MaxNow
  BY <1>1, ConfigRanges
<1>3. until[v] \in Int
  BY <1>2, ConfigAssumption
<1> QED BY <1>3 DEF CurrentAt

\* The response of a fetch is the document of this moment.
LEMMA RespondKeepsConfig == ASSUME ConfigInv, NEW c \in Callers, Respond(c) PROVE ConfigInv'
<1> USE ConfigAssumption
<1>0. /\ call[c].st = "loading" /\ call[c].got = 0
      /\ call' = [call EXCEPT ![c].got = published]
      /\ UNCHANGED <<cached, now, published, until, entry, lastGood, served, landed>>
  BY DEF Respond
<1>1. \A d \in Callers :
          /\ call'[d].st = call[d].st /\ call'[d].at = call[d].at
          /\ call'[d].floor = call[d].floor
          /\ call'[d].got = IF d = c THEN published ELSE call[d].got
          /\ call'[d] \in Call
  <2> SUFFICES ASSUME NEW d \in Callers
               PROVE  /\ call'[d].st = call[d].st /\ call'[d].at = call[d].at
                      /\ call'[d].floor = call[d].floor
                      /\ call'[d].got = IF d = c THEN published ELSE call[d].got
                      /\ call'[d] \in Call
    OBVIOUS
  <2>1. CASE d # c
    BY <1>0, <2>1, ConfigRanges DEF ConfigInv, TypeOK
  <2>2. CASE d = c
    <3>1. call'[d] = [call[d] EXCEPT !.got = published]
      BY <1>0, <2>2 DEF ConfigInv, TypeOK
    <3>2. call[d] \in Call /\ published \in 0..MaxVersion
      BY ConfigRanges
    <3> QED BY <2>2, <3>1, <3>2 DEF Call
  <2> QED BY <2>1, <2>2
<1>2. Pending' = Pending
  BY <1>1 DEF Pending
<1>3. TypeOK'
  <2>1. call' \in [Callers -> Call]
    BY <1>0, <1>1 DEF ConfigInv, TypeOK
  <2> QED BY <1>0, <1>1, <1>2, <2>1 DEF ConfigInv, TypeOK
<1>4. Replaced' /\ KeptCurrent' /\ Remembers'
  BY <1>0 DEF ConfigInv, Replaced, KeptCurrent, CurrentAt, Remembers
<1>5. CurrentAt(published, call[c].at)
  BY ConfigRanges DEF CurrentAt, ConfigInv, Replaced
<1>6. CallsCurrent'
  BY <1>0, <1>1, <1>5 DEF ConfigInv, CallsCurrent, CallCurrent, CurrentAt
<1>7. Forward'
  BY <1>0, <1>1, <1>2, ConfigRanges DEF ConfigInv, Forward
<1> QED BY <1>3, <1>4, <1>6, <1>7 DEF ConfigInv

\* An eviction only forgets.
LEMMA EvictKeepsConfig == ConfigInv /\ Evict => ConfigInv'
<1> SUFFICES ASSUME ConfigInv, Evict PROVE ConfigInv'
  OBVIOUS
<1> USE ConfigAssumption
<1>0. /\ entry' = [v |-> 0, expires |-> 0]
      /\ UNCHANGED <<cached, now, published, until, lastGood, call, served, landed>>
  BY DEF Evict
<1>1. TypeOK'
  BY <1>0 DEF ConfigInv, TypeOK, Pending
<1>2. Replaced' /\ CallsCurrent' /\ Remembers'
  BY <1>0 DEF ConfigInv, Replaced, CallsCurrent, CallCurrent, CurrentAt, Remembers
<1>3. KeptCurrent'
  BY <1>0, ConfigRanges DEF ConfigInv, KeptCurrent, CurrentAt
<1>4. Forward'
  BY <1>0 DEF ConfigInv, Forward, Pending
<1> QED BY <1>1, <1>2, <1>3, <1>4 DEF ConfigInv

\* Time goes on only while every fetch is within its timeout.
LEMMA TickKeepsConfig == ConfigInv /\ Tick => ConfigInv'
<1> SUFFICES ASSUME ConfigInv, Tick PROVE ConfigInv'
  OBVIOUS
<1> USE ConfigAssumption
<1>0. /\ now < MaxNow /\ now' = now + 1
      /\ \A c \in Callers : call[c].st = "loading" => now - call[c].at < Timeout
      /\ UNCHANGED <<cached, published, until, entry, lastGood, call, served, landed>>
  BY DEF Tick, InTime
<1>1. TypeOK'
  BY <1>0, ConfigRanges DEF ConfigInv, TypeOK, Pending
<1>2. Replaced'
  BY <1>0, ConfigRanges DEF ConfigInv, Replaced
<1>3. CallsCurrent'
  <2> SUFFICES ASSUME NEW c \in Callers PROVE CallCurrent(c)'
    BY DEF CallsCurrent
  <2>1. CallCurrent(c)
    BY DEF ConfigInv, CallsCurrent
  <2>2. call[c].at \in Int /\ now \in Int
    BY ConfigRanges
  <2> QED BY <1>0, <2>1, <2>2 DEF CallCurrent, CurrentAt
<1>4. KeptCurrent'
  <2>1. KeptCurrent
    BY DEF ConfigInv
  <2>2. lastGood.at <= now' /\ entry.expires <= now' + Ttl
    <3>1. lastGood.at \in Int /\ entry.expires \in Int /\ now \in Int /\ Ttl \in Int
      BY ConfigRanges DEF ConfigAssumption
    <3>2. lastGood.at <= now /\ entry.expires <= now + Ttl
      BY <2>1 DEF KeptCurrent
    <3> QED BY <1>0, <3>1, <3>2
  <2> QED BY <1>0, <2>1, <2>2 DEF KeptCurrent, CurrentAt
<1>5. Remembers' /\ Forward'
  BY <1>0 DEF ConfigInv, Remembers, Forward, Pending
<1> QED BY <1>1, <1>2, <1>3, <1>4, <1>5 DEF ConfigInv

\* get() answers from the cache, or waits for a fetch that began now or before.
LEMMA GetKeepsConfig == ASSUME ConfigInv, NEW c \in Callers, Get(c) PROVE ConfigInv'
<1> USE ConfigAssumption
<1> DEFINE begun(st, got) == [st |-> st, got |-> got, floor |-> served, at |-> now]
<1>0. /\ call[c].st \in {"idle", "done", "failed"}
      /\ UNCHANGED <<cached, now, published, until, entry, lastGood, landed>>
  BY DEF Get, Ended
<1>1. PICK st \in {"done", "joined", "loading"}, got \in {0, entry.v} :
          /\ call' = [call EXCEPT ![c] = begun(st, got)]
          /\ st = "done" => Hit /\ got = entry.v /\ served' = Newest(served, entry.v)
          /\ st # "done" => got = 0 /\ served' = served
          /\ st = "joined" => Joins
          /\ st = "loading" => ~Joins
  BY DEF Get
<1>2. begun(st, got) \in Call
  <2>1. /\ st \in {"done", "joined", "loading"} /\ got \in 0..MaxVersion
        /\ served \in 0..MaxVersion /\ now \in 0..MaxNow
    BY <1>1, ConfigRanges
  <2> QED BY <2>1 DEF Call
<1>3. \A d \in Callers :
          /\ d # c => call'[d] = call[d]
          /\ d = c => call'[d] = begun(st, got)
  BY <1>1 DEF ConfigInv, TypeOK
<1>4. Pending' = IF st = "loading" THEN Pending \cup {c} ELSE Pending
  BY <1>0, <1>3 DEF Pending
<1>5. served \in Int /\ served' \in 0..MaxVersion /\ served <= served'
  BY <1>1, ConfigRanges DEF Newest
<1>6. TypeOK'
  <2>1. call' \in [Callers -> Call]
    BY <1>1, <1>2 DEF ConfigInv, TypeOK
  <2>2. \A d \in Callers : call'[d].st = "joined" => Pending' # {}
    BY <1>1, <1>3, <1>4 DEF ConfigInv, TypeOK, Joins
  <2> QED BY <1>0, <1>5, <2>1, <2>2 DEF ConfigInv, TypeOK
<1>7. Replaced' /\ KeptCurrent' /\ Remembers'
  BY <1>0 DEF ConfigInv, Replaced, KeptCurrent, CurrentAt, Remembers
<1>8. CallsCurrent'
  <2> SUFFICES ASSUME NEW d \in Callers PROVE CallCurrent(d)'
    BY DEF CallsCurrent
  <2>1. CallCurrent(d)
    BY DEF ConfigInv, CallsCurrent
  <2>2. CASE d # c
    <3>1. call'[d] = call[d] /\ call[d].floor \in Int /\ served' \in Int
      BY <1>3, <1>5, <2>2, ConfigRanges
    <3> QED BY <1>0, <1>5, <2>1, <3>1 DEF CallCurrent, CurrentAt
  <2>3. CASE d = c
    <3>1. call'[d].st = st /\ call'[d].got = got /\ call'[d].floor = served /\ call'[d].at = now
      BY <1>3, <2>3
    <3>2. now \in Int /\ now - now <= Timeout
      BY ConfigRanges
    <3>3. st = "done" => CurrentAt(got, now - StaleIfError - Timeout)
      <4> SUFFICES ASSUME st = "done" PROVE CurrentAt(got, now - StaleIfError - Timeout)
        OBVIOUS
      <4>1. got = entry.v /\ entry.v # 0 /\ now < entry.expires
        BY <1>1 DEF Hit
      <4>2. entry.expires \in Int
        BY ConfigRanges
      <4>3. CurrentAt(entry.v, entry.expires - Ttl - Timeout)
        BY <4>1 DEF ConfigInv, KeptCurrent
      <4>4. /\ entry.expires - Ttl - Timeout \in Int
            /\ now - StaleIfError - Timeout \in Int
            /\ now - StaleIfError - Timeout <= entry.expires - Ttl - Timeout
        BY <3>2, <4>1, <4>2
      <4> QED BY <4>1, <4>3, <4>4, CurrentEarlier
    <3>4. st = "loading" => got = 0
      BY <1>1
    <3> QED BY <1>0, <1>5, <3>1, <3>2, <3>3, <3>4 DEF CallCurrent, CurrentAt
  <2> QED BY <2>2, <2>3
<1>9. Forward'
  <2>1. served' <= published'
    BY <1>0, <1>1, <1>5, ConfigRanges DEF ConfigInv, Forward, KeptCurrent, CurrentAt, Newest, Hit
  <2> SUFFICES ASSUME cached
               PROVE  /\ served' = lastGood.v
                      /\ \A d, e \in Pending' : d = e
                      /\ \A d \in Callers :
                            /\ call'[d].st = "loading" /\ call'[d].got # 0 => call'[d].got >= served'
                            /\ call'[d].st = "done" => call'[d].got >= call'[d].floor
    BY <1>0, <2>1 DEF ConfigInv, Forward
  <2>2. served' = served /\ served = lastGood.v
    BY <1>1, ConfigRanges DEF ConfigInv, Forward, Hit, Newest
  <2>3. \A d, e \in Pending' : d = e
    BY <1>1, <1>4 DEF ConfigInv, Forward, Joins
  <2>4. ASSUME NEW d \in Callers
        PROVE  /\ call'[d].st = "loading" /\ call'[d].got # 0 => call'[d].got >= served'
               /\ call'[d].st = "done" => call'[d].got >= call'[d].floor
    <3>1. CASE d # c
      BY <1>3, <2>2, <3>1 DEF ConfigInv, Forward
    <3>2. CASE d = c
      <4>1. call'[d].st = st /\ call'[d].got = got /\ call'[d].floor = served
        BY <1>3, <3>2
      <4>2. st = "done" => got = served
        BY <1>1, <2>2 DEF Hit, ConfigInv, Forward
      <4> QED BY <1>1, <1>5, <4>1, <4>2
    <3> QED BY <3>1, <3>2
  <2> QED BY <2>2, <2>3, <2>4
<1> QED BY <1>6, <1>7, <1>8, <1>9 DEF ConfigInv

\* A fetch that ends takes every get() that waits for it along.
LEMMA EndingCalls ==
    ASSUME ConfigInv, NEW c \in Callers, call[c].st = "loading",
           NEW st \in {"done", "failed"}, NEW v \in 0..MaxVersion, EndAll(c, st, v)
    PROVE  /\ call' \in [Callers -> Call]
           /\ \A d \in Callers :
                 /\ call'[d].floor = call[d].floor
                 /\ \/ call'[d].st = st /\ call'[d].got = v /\ call'[d].at = now
                    \/ call'[d] = call[d] /\ d # c
                 /\ call'[d].st # "joined"
           /\ Pending' = Pending \ {c}
<1> USE ConfigAssumption
<1>1. ASSUME NEW d \in Callers
      PROVE  /\ call'[d].floor = call[d].floor /\ call'[d] \in Call
             /\ \/ call'[d].st = st /\ call'[d].got = v /\ call'[d].at = now
                \/ call'[d] = call[d] /\ d # c
             /\ call'[d].st # "joined"
             /\ call'[d].st = "loading" <=> call[d].st = "loading" /\ d # c
  <2>1. call[d] \in Call /\ now \in 0..MaxNow
    BY ConfigRanges
  <2>2. CASE d \in Awaiting(c)
    <3>1. call'[d] = [call[d] EXCEPT !.st = st, !.got = v, !.at = now]
      BY <2>2 DEF EndAll
    <3>2. d = c \/ call[d].st = "joined"
      BY <2>2 DEF Awaiting
    <3> QED BY <2>1, <3>1, <3>2 DEF Call
  <2>3. CASE d \notin Awaiting(c)
    <3>1. call'[d] = call[d] /\ d # c /\ call[d].st # "joined"
      BY <2>3 DEF EndAll, Awaiting
    <3> QED BY <2>1, <3>1
  <2> QED BY <2>2, <2>3
<1>2. call' \in [Callers -> Call]
  BY <1>1 DEF EndAll
<1>3. Pending' = Pending \ {c}
  BY <1>1 DEF Pending
<1> QED BY <1>1, <1>2, <1>3

\* A fetch that succeeds answers with a document of its own time.
LEMMA LandKeepsConfig == ASSUME ConfigInv, NEW c \in Callers, Land(c) PROVE ConfigInv'
<1> USE ConfigAssumption
<1> DEFINE got == call[c].got
<1>0. /\ call[c].st = "loading" /\ got # 0
      /\ lastGood' = [v |-> got, at |-> now]
      /\ entry' = IF cached THEN [v |-> got, expires |-> now + Ttl] ELSE entry
      /\ served' = Newest(served, got) /\ landed' = now
      /\ UNCHANGED <<cached, now, published, until>>
  BY DEF Land, Remembered
<1>1. /\ got \in 1..MaxVersion /\ call[c].at \in 0..MaxNow /\ now \in 0..MaxNow
      /\ served \in 0..MaxVersion /\ published \in 1..MaxVersion
  BY <1>0, ConfigRanges
<1>2. /\ call' \in [Callers -> Call]
      /\ \A d \in Callers :
            /\ call'[d].floor = call[d].floor
            /\ \/ call'[d].st = "done" /\ call'[d].got = got /\ call'[d].at = now
               \/ call'[d] = call[d] /\ d # c
            /\ call'[d].st # "joined"
      /\ Pending' = Pending \ {c}
  BY <1>0, <1>1, EndingCalls DEF Land
<1>3. served' \in 0..MaxVersion /\ served <= served'
  BY <1>0, <1>1 DEF Newest
<1>4. CurrentAt(got, now - Timeout)
  <2>1. CurrentAt(got, call[c].at) /\ now - call[c].at <= Timeout
    BY <1>0 DEF ConfigInv, CallsCurrent, CallCurrent
  <2>2. now - Timeout \in Int /\ now - Timeout <= call[c].at
    BY <1>1, <2>1
  <2> QED BY <1>1, <2>1, <2>2, CurrentEarlier
<1>5. CurrentAt(got, now - StaleIfError - Timeout)
  <2>1. /\ now - Timeout \in Int /\ now - StaleIfError - Timeout \in Int
        /\ now - StaleIfError - Timeout <= now - Timeout
    BY <1>1
  <2> QED BY <1>4, <2>1, CurrentEarlier
<1>6. TypeOK'
  <2>1. entry' \in [v : 0..MaxVersion, expires : 0..MaxNow + Ttl]
    <3>1. now + Ttl \in 0..MaxNow + Ttl
      BY <1>1
    <3> QED BY <1>0, <1>1, <3>1 DEF ConfigInv, TypeOK
  <2>2. lastGood' \in [v : 0..MaxVersion, at : 0..MaxNow] /\ landed' \in -1..MaxNow
    BY <1>0, <1>1
  <2>3. \A d \in Callers : call'[d].st = "joined" => Pending' # {}
    BY <1>2
  <2>4. cached' \in BOOLEAN /\ now' \in 0..MaxNow /\ published' \in 1..MaxVersion
        /\ until' \in [1..MaxVersion -> -1..MaxNow]
    BY <1>0 DEF ConfigInv, TypeOK
  <2> QED BY <1>2, <1>3, <2>1, <2>2, <2>3, <2>4 DEF TypeOK
<1>7. Replaced' /\ Remembers'
  BY <1>0, <1>1 DEF ConfigInv, Replaced, Remembers
<1>8. KeptCurrent'
  <2>1. now + Ttl - Ttl - Timeout = now - Timeout /\ now + Ttl <= now + Ttl /\ now <= now
    BY <1>1
  <2>2. lastGood'.v = got /\ lastGood'.at = now
    BY <1>0
  <2>3. /\ cached => entry'.v = got /\ entry'.expires = now + Ttl
        /\ ~cached => entry' = entry
    BY <1>0
  <2>4. KeptCurrent
    BY DEF ConfigInv
  <2> HIDE DEF got
  <2>5. CASE cached
    <3>1. got \in 1..published' /\ (until'[got] # -1 => until'[got] >= now - Timeout)
      BY <1>0, <1>4 DEF CurrentAt
    <3>2. lastGood'.at <= now' /\ entry'.expires <= now' + Ttl
      BY <1>0, <2>1, <2>2, <2>3, <2>5
    <3>3. entry'.v = got /\ entry'.expires - Ttl - Timeout = now - Timeout
      <4>1. entry'.v = got /\ entry'.expires = now + Ttl
        BY <2>3, <2>5
      <4> QED BY <1>1, <4>1
    <3> QED BY <2>2, <3>1, <3>2, <3>3 DEF KeptCurrent, CurrentAt
  <2>6. CASE ~cached
    BY <1>0, <1>4, <2>1, <2>2, <2>3, <2>4, <2>6 DEF KeptCurrent, CurrentAt
  <2> QED BY <2>5, <2>6
<1>9. CallsCurrent'
  <2> SUFFICES ASSUME NEW d \in Callers PROVE CallCurrent(d)'
    BY DEF CallsCurrent
  <2>1. CallCurrent(d)
    BY DEF ConfigInv, CallsCurrent
  <2>2. call'[d].floor <= served'
    <3>1. call[d].floor \in Int /\ call'[d].floor = call[d].floor /\ call[d].floor <= served
      BY <1>2, <2>1, ConfigRanges DEF CallCurrent
    <3> QED BY <1>1, <1>3, <3>1
  <2>3. CASE call'[d] = call[d]
    BY <1>0, <2>1, <2>2, <2>3 DEF CallCurrent, CurrentAt
  <2>4. CASE call'[d].st = "done" /\ call'[d].got = got /\ call'[d].at = now
    BY <1>0, <1>1, <1>5, <2>2, <2>4 DEF CallCurrent, CurrentAt
  <2> QED BY <1>2, <2>3, <2>4
<1>10. Forward'
  <2>1. got <= published /\ served' <= published
    BY <1>0, <1>1, <1>4 DEF CurrentAt, Newest, ConfigInv, Forward
  <2> SUFFICES ASSUME cached
               PROVE  /\ served' = lastGood'.v /\ entry'.v = lastGood'.v
                      /\ \A d, e \in Pending' : d = e
                      /\ \A d \in Callers :
                            /\ call'[d].st # "loading"
                            /\ call'[d].st = "done" => call'[d].got >= call'[d].floor
    BY <1>0, <2>1 DEF ConfigInv, Forward
  <2>2. got >= served
    BY <1>0 DEF ConfigInv, Forward
  <2>3. served' = got
    BY <1>0, <1>1, <2>2 DEF Newest
  <2>4. c \in Pending /\ \A d, e \in Pending : d = e
    BY <1>0 DEF Pending, ConfigInv, Forward
  <2>5. Pending' = {}
    BY <1>2, <2>4
  <2>6. ASSUME NEW d \in Callers
        PROVE  call'[d].st # "loading" /\ (call'[d].st = "done" => call'[d].got >= call'[d].floor)
    <3>1. call'[d].st # "loading"
      BY <2>5 DEF Pending
    <3>2. call[d].floor \in Int /\ call[d].floor <= served
      BY ConfigRanges DEF ConfigInv, CallsCurrent, CallCurrent
    <3>3. got >= call[d].floor
      BY <1>1, <2>2, <3>2
    <3>4. call[d].st = "done" => call[d].got >= call[d].floor
      BY DEF ConfigInv, Forward
    <3> QED BY <1>2, <3>1, <3>3, <3>4
  <2> QED BY <1>0, <2>3, <2>5, <2>6
<1> QED BY <1>6, <1>7, <1>8, <1>9, <1>10 DEF ConfigInv

\* A fetch that fails answers with what is kept, while that is recent.
LEMMA FailureKeepsConfig == ASSUME ConfigInv, NEW c \in Callers, FetchFails(c) PROVE ConfigInv'
<1> USE ConfigAssumption
<1>0. /\ call[c].st = "loading"
      /\ UNCHANGED <<cached, now, published, until, entry, lastGood, landed>>
  BY DEF FetchFails, KeptOnFailure
<1>1. /\ lastGood.v \in 0..MaxVersion /\ lastGood.at \in 0..MaxNow /\ now \in 0..MaxNow
      /\ served \in 0..MaxVersion /\ published \in 1..MaxVersion
  BY ConfigRanges
<1>2. PICK st \in {"done", "failed"}, v \in 0..MaxVersion :
          /\ EndAll(c, st, v)
          /\ st = "done" => Recent /\ v = lastGood.v /\ served' = Newest(served, v)
          /\ st = "failed" => served' = served
  <2>1. CASE Recent /\ EndAll(c, "done", lastGood.v) /\ served' = Newest(served, lastGood.v)
    BY <1>1, <2>1
  <2>2. CASE EndAll(c, "failed", 0) /\ served' = served
    BY <2>2
  <2> QED BY <2>1, <2>2 DEF FetchFails
<1>3. /\ call' \in [Callers -> Call]
      /\ \A d \in Callers :
            /\ call'[d].floor = call[d].floor
            /\ \/ call'[d].st = st /\ call'[d].got = v /\ call'[d].at = now
               \/ call'[d] = call[d] /\ d # c
            /\ call'[d].st # "joined"
      /\ Pending' = Pending \ {c}
  BY <1>0, <1>2, EndingCalls
<1>4. served' \in 0..MaxVersion /\ served <= served'
  BY <1>1, <1>2 DEF Newest
<1>5. st = "done" => CurrentAt(v, now - StaleIfError - Timeout)
  <2> SUFFICES ASSUME st = "done" PROVE CurrentAt(v, now - StaleIfError - Timeout)
    OBVIOUS
  <2>1. v = lastGood.v /\ lastGood.v # 0 /\ now - lastGood.at < StaleIfError
    BY <1>2 DEF Recent
  <2>2. CurrentAt(v, lastGood.at - Timeout)
    BY <2>1 DEF ConfigInv, KeptCurrent
  <2>3. /\ lastGood.at - Timeout \in Int /\ now - StaleIfError - Timeout \in Int
        /\ now - StaleIfError - Timeout <= lastGood.at - Timeout
    BY <1>1, <2>1
  <2> QED BY <2>2, <2>3, CurrentEarlier
<1>6. TypeOK'
  BY <1>0, <1>3, <1>4 DEF ConfigInv, TypeOK
<1>7. Replaced' /\ KeptCurrent' /\ Remembers'
  BY <1>0 DEF ConfigInv, Replaced, KeptCurrent, CurrentAt, Remembers
<1>8. CallsCurrent'
  <2> SUFFICES ASSUME NEW d \in Callers PROVE CallCurrent(d)'
    BY DEF CallsCurrent
  <2>1. CallCurrent(d)
    BY DEF ConfigInv, CallsCurrent
  <2>2. call'[d].floor <= served'
    <3>1. call[d].floor \in Int /\ call'[d].floor = call[d].floor /\ call[d].floor <= served
      BY <1>3, <2>1, ConfigRanges DEF CallCurrent
    <3> QED BY <1>1, <1>4, <3>1
  <2>3. CASE call'[d] = call[d]
    BY <1>0, <2>1, <2>2, <2>3 DEF CallCurrent, CurrentAt
  <2>4. CASE call'[d].st = st /\ call'[d].got = v /\ call'[d].at = now
    BY <1>0, <1>1, <1>5, <2>2, <2>4 DEF CallCurrent, CurrentAt
  <2> QED BY <1>3, <2>3, <2>4
<1>9. Forward'
  <2>1. served' <= published
    BY <1>1, <1>2, <1>5 DEF CurrentAt, Newest, ConfigInv, Forward
  <2> SUFFICES ASSUME cached
               PROVE  /\ served' = lastGood.v
                      /\ \A d, e \in Pending' : d = e
                      /\ \A d \in Callers :
                            /\ call'[d].st # "loading"
                            /\ call'[d].st = "done" => call'[d].got >= call'[d].floor
    BY <1>0, <2>1 DEF ConfigInv, Forward
  <2>2. served = lastGood.v /\ served' = served
    BY <1>1, <1>2 DEF ConfigInv, Forward, Newest
  <2>3. c \in Pending /\ \A d, e \in Pending : d = e
    BY <1>0 DEF Pending, ConfigInv, Forward
  <2>4. Pending' = {}
    BY <1>3, <2>3
  <2>5. ASSUME NEW d \in Callers
        PROVE  call'[d].st # "loading" /\ (call'[d].st = "done" => call'[d].got >= call'[d].floor)
    <3>1. call'[d].st # "loading"
      BY <2>4 DEF Pending
    <3>2. call[d].floor \in Int /\ call[d].floor <= served
      BY ConfigRanges DEF ConfigInv, CallsCurrent, CallCurrent
    <3>3. st = "done" => v = served
      BY <1>2, <2>2
    <3>4. call[d].st = "done" => call[d].got >= call[d].floor
      BY DEF ConfigInv, Forward
    <3> QED BY <1>1, <1>3, <3>1, <3>2, <3>3, <3>4
  <2> QED BY <2>2, <2>4, <2>5
<1> QED BY <1>6, <1>7, <1>8, <1>9 DEF ConfigInv

LEMMA ConfigStep == ConfigInv /\ [Next]_vars => ConfigInv'
<1> SUFFICES ASSUME ConfigInv, [Next]_vars PROVE ConfigInv'
  OBVIOUS
<1>1. CASE Publish
  BY <1>1, PublishKeepsConfig
<1>2. CASE Tick
  BY <1>2, TickKeepsConfig
<1>3. CASE Evict
  BY <1>3, EvictKeepsConfig
<1>4. CASE \E c \in Callers : Get(c)
  BY <1>4, GetKeepsConfig
<1>5. CASE \E c \in Callers : Respond(c)
  BY <1>5, RespondKeepsConfig
<1>6. CASE \E c \in Callers : Land(c)
  BY <1>6, LandKeepsConfig
<1>7. CASE \E c \in Callers : FetchFails(c)
  BY <1>7, FailureKeepsConfig
<1>8. CASE UNCHANGED vars
  BY <1>8 DEF vars, ConfigInv, TypeOK, Replaced, CallsCurrent, CallCurrent, KeptCurrent,
              CurrentAt, Remembers, Forward, Pending
<1> QED BY <1>1, <1>2, <1>3, <1>4, <1>5, <1>6, <1>7, <1>8 DEF Next

\* What the invariant says of an answer: it is no older than the outage window
\* and one fetch, and with the cache no older than an earlier answer.
LEMMA ConfigIsCurrent == ConfigInv => DocumentsStayCurrent
<1> SUFFICES ASSUME ConfigInv PROVE NotAncient /\ NeverGoesBack
  BY DEF DocumentsStayCurrent
<1> USE ConfigAssumption
<1>1. ASSUME NEW c \in Callers, call[c].st = "done", until[call[c].got] # -1
      PROVE  call[c].at - until[call[c].got] <= StaleIfError + Timeout
  <2>1. CurrentAt(call[c].got, call[c].at - StaleIfError - Timeout)
    BY <1>1 DEF ConfigInv, CallsCurrent, CallCurrent
  <2>2. call[c].got \in 1..MaxVersion /\ call[c].at \in 0..MaxNow
    BY <2>1, ConfigRanges DEF CurrentAt
  <2>3. until[call[c].got] \in -1..MaxNow
    BY <2>2, ConfigRanges
  <2> QED BY <1>1, <2>1, <2>2, <2>3 DEF CurrentAt
<1>2. NeverGoesBack
  BY DEF ConfigInv, Forward, NeverGoesBack
<1> QED BY <1>1, <1>2 DEF NotAncient

\* A get() fails only when nothing was fetched within the outage window.
LEMMA FailureMeansOutage ==
    ASSUME ConfigInv, [Next]_vars, NEW c \in Callers, ~Ended(c), call'[c].st = "failed"
    PROVE  landed = -1 \/ now - landed >= StaleIfError
<1> USE ConfigAssumption
<1>1. PICK d \in Callers : FetchFails(d)
  <2>1. call[c].st # "failed" /\ call[c].st # "done" /\ call[c].st # "idle"
    BY DEF Ended
  <2>2. call'[c] # call[c] /\ call # call'
    BY <2>1
  <2>3. CASE \E d \in Callers : Get(d)
    <3>1. PICK d \in Callers : Get(d)
      BY <2>3
    <3>2. d = c \/ call'[c] = call[c]
      BY <3>1 DEF Get, ConfigInv, TypeOK
    <3> QED BY <2>2, <3>1, <3>2 DEF Get
  <2>4. CASE \E d \in Callers : Respond(d)
    <3>1. PICK d \in Callers : Respond(d)
      BY <2>4
    <3>2. call'[c] = call[c] \/ call'[c] = [call[c] EXCEPT !.got = published]
      BY <3>1 DEF Respond, ConfigInv, TypeOK
    <3>3. call[c] \in Call
      BY ConfigRanges
    <3> QED BY <2>1, <3>2, <3>3 DEF Call
  <2>5. CASE \E d \in Callers : Land(d)
    <3>1. PICK d \in Callers : Land(d)
      BY <2>5
    <3>2. call'[c].st = "done" \/ call'[c] = call[c]
      <4>1. call[d].st = "loading" /\ call[d].got \in 0..MaxVersion /\ EndAll(d, "done", call[d].got)
        BY <3>1, ConfigRanges DEF Land
      <4> QED BY <4>1, EndingCalls
    <3> QED BY <2>2, <3>2
  <2>6. CASE Publish \/ Tick \/ Evict \/ UNCHANGED vars
    BY <2>2, <2>6 DEF Publish, Tick, Evict, vars
  <2> QED BY <2>3, <2>4, <2>5, <2>6 DEF Next
<1>2. ~Recent
  <2>1. call[d].st = "loading" /\ lastGood.v \in 0..MaxVersion
    BY <1>1, ConfigRanges DEF FetchFails
  <2>2. ~EndAll(d, "done", lastGood.v)
    <3>1. call[c].st # "failed"
      BY DEF Ended
    <3> QED BY <2>1, <3>1, EndingCalls
  <2> QED BY <1>1, <2>2 DEF FetchFails
<1>3. lastGood.v = 0 \/ ~(now - lastGood.at < StaleIfError)
  BY <1>2 DEF Recent
<1>4. now \in Int /\ lastGood.at \in Int
  BY ConfigRanges
<1> QED BY <1>3, <1>4 DEF ConfigInv, Remembers

\* A step of the service is a step of the remote configuration, or none.
LEMMA ServiceStepsConfig == [ServiceNext]_<<part, processVars, frontVars, discoveryVars>> => [Next]_vars
<1> SUFFICES ASSUME ServiceNext \/ UNCHANGED <<part, processVars, frontVars, discoveryVars>>
             PROVE  Next \/ UNCHANGED vars
  OBVIOUS
<1>1. CASE \E c \in Callers : ConfigRequest(c)
  BY <1>1 DEF ConfigRequest, S!Accepts, Next, vars, configVars
<1>2. CASE \E c \in Callers : ConfigResponse(c)
  BY <1>2 DEF ConfigResponse, S!Answers, vars, configVars
<1>3. CASE Fetching
  BY <1>3 DEF Fetching, Next
<1>4. CASE Process
  BY <1>4 DEF Process, vars, configVars, S!Listen, S!ListenFails, S!DrainsAndEnds, S!CloseSettles,
              S!Signal, S!BackstopFires, S!StoppedCleanly, S!StopFailed, S!Accepts, S!Answers
<1>5. CASE Clock
  BY <1>5 DEF Clock, Next
<1>6. CASE UNCHANGED processVars
  BY <1>6 DEF processVars, configVars, vars
<1> QED BY <1>1, <1>2, <1>3, <1>4, <1>5, <1>6
        DEF ServiceNext, Runs, Answers, Discovers, ProcessNext

\* The process never answers with a document that was replaced longer ago than
\* the outage window and one fetch, nor, with the cache, with an older one than
\* before (get() of src/remote-config/index.ts).
THEOREM ServiceStaysCurrent == ServiceSpec => []DocumentsStayCurrent
<1>1. ServiceInit => ConfigInv
  BY ConfigStarts DEF ServiceInit
<1>2. ConfigInv /\ [ServiceNext]_<<part, processVars, frontVars, discoveryVars>> => ConfigInv'
  BY ServiceStepsConfig, ConfigStep
<1> QED BY <1>1, <1>2, ConfigIsCurrent, PTL DEF ServiceSpec

\* A get() of the process fails only when no fetch of any caller has succeeded
\* within the outage window (the catch of fetchAndRemember).
THEOREM ServiceFailsOnlyInOutage == ServiceSpec => FailsOnlyInOutage
<1>1. ServiceInit => ConfigInv
  BY ConfigStarts DEF ServiceInit
<1>2. ConfigInv /\ [ServiceNext]_<<part, processVars, frontVars, discoveryVars>> => ConfigInv'
  BY ServiceStepsConfig, ConfigStep
<1>3. ConfigInv /\ [ServiceNext]_<<part, processVars, frontVars, discoveryVars>> =>
        [\A c \in Callers : (~Ended(c) /\ call'[c].st = "failed") =>
            landed = -1 \/ now - landed >= StaleIfError]_vars
  BY ServiceStepsConfig, FailureMeansOutage
<1> QED BY <1>1, <1>2, <1>3, PTL DEF ServiceSpec, FailsOnlyInOutage

-----------------------------------------------------------------------------
(* The stop.                                                                *)

Clients == Callers \cup Others

\* The first signal sets the backstop, and the clock does not pass it.
BackstopSet ==
    /\ now \in Nat /\ signals \in Nat /\ first \in -1..now
    /\ stopping <=> first # -1
    /\ backstop = IF first = -1 THEN -1 ELSE first + Grace
    /\ first # -1 => signals >= 1 /\ closing # "open" /\ now - first <= Grace

\* close() resolves only when nothing is open, and nothing is accepted after it
\* began; a request is dropped by an exit with code 1.
NothingLost ==
    /\ request \in [Clients -> {"new", "open", "answered", "refused", "dropped"}]
    /\ closing = "closed" => \A r \in Clients : request[r] # "open"
    /\ S!DroppedOnlyAfterGrace

StopInv == BackstopSet /\ NothingLost

LEMMA StopStarts == S!Init => StopInv
<1> SUFFICES ASSUME S!Init PROVE StopInv
  OBVIOUS
<1>1. BackstopSet
  BY ServiceAssumption DEF S!Init, BackstopSet
<1>2. NothingLost
  BY DEF S!Init, NothingLost, Clients, S!DroppedOnlyAfterGrace
<1> QED BY <1>1, <1>2 DEF StopInv

\* An exit with code 1, for one of the reasons a request may be dropped for.
LEMMA ExitsForReason ==
    ASSUME NothingLost, S!Exit(1),
           UNCHANGED <<now, closing, first>>,
           \/ \A r \in Clients : request[r] # "open"
           \/ signals' > 1 \/ now - first >= Grace \/ closing = "rejected",
           exit = -1
    PROVE  NothingLost'
<1>1. /\ request' \in [Clients -> {"new", "open", "answered", "refused", "dropped"}]
      /\ \A r \in Clients : request'[r] # "open"
      /\ \A r \in Clients : request'[r] = "dropped" => request[r] \in {"open", "dropped"}
      /\ exit' = 1
  BY DEF NothingLost, S!Exit, Clients
<1>2. \A r \in Clients : request[r] # "dropped"
  BY DEF NothingLost, S!DroppedOnlyAfterGrace, Clients
<1> QED BY <1>1, <1>2 DEF NothingLost, S!DroppedOnlyAfterGrace, Clients

LEMMA StopStep == StopInv /\ [S!Next]_(S!vars) => StopInv'
<1> SUFFICES ASSUME StopInv, [S!Next]_(S!vars) PROVE StopInv'
  OBVIOUS
<1> USE ServiceAssumption DEF StopInv
<1>0. ASSUME S!Running, UNCHANGED <<now, signals, first, exit>>
      PROVE  S!DroppedOnlyAfterGrace /\ \A r \in Clients : request[r] # "dropped"
  BY <1>0 DEF NothingLost, S!DroppedOnlyAfterGrace, S!Running, Clients
<1>1. CASE S!Listen
  BY <1>1 DEF S!Listen, S!Running, BackstopSet, NothingLost, S!DroppedOnlyAfterGrace, Clients
<1>2. CASE S!ListenFails
  BY <1>2, <1>0 DEF S!ListenFails, BackstopSet, NothingLost, S!DroppedOnlyAfterGrace, Clients
<1>3. CASE S!DrainsAndEnds
  <2>1. BackstopSet'
    BY <1>3 DEF S!DrainsAndEnds, BackstopSet
  <2> QED BY <1>3, <2>1, ExitsForReason DEF S!DrainsAndEnds, S!Running, NothingLost
<1>4. CASE \E r \in Callers \cup Others : S!Accepts(r)
  <2> PICK r \in Clients : S!Accepts(r)
    BY <1>4 DEF Clients
  <2>1. BackstopSet'
    BY DEF S!Accepts, BackstopSet
  <2>2. \A q \in Clients : request[q] # "dropped"
    BY <1>0 DEF S!Accepts
  <2> QED BY <2>1, <2>2 DEF S!Accepts, NothingLost, S!DroppedOnlyAfterGrace, Clients
<1>5. CASE \E r \in Callers \cup Others : S!Answers(r)
  <2> PICK r \in Clients : S!Answers(r)
    BY <1>5 DEF Clients
  <2>1. BackstopSet'
    BY DEF S!Answers, BackstopSet
  <2>2. \A q \in Clients : request[q] # "dropped"
    BY <1>0 DEF S!Answers
  <2> QED BY <2>1, <2>2 DEF S!Answers, NothingLost, S!DroppedOnlyAfterGrace, Clients
<1>6. CASE S!CloseSettles
  <2>1. BackstopSet'
    BY <1>6 DEF S!CloseSettles, BackstopSet
  <2>2. \A q \in Clients : request[q] # "dropped"
    BY <1>0, <1>6 DEF S!CloseSettles
  <2> QED BY <1>6, <2>1, <2>2 DEF S!CloseSettles, S!Open, NothingLost, S!DroppedOnlyAfterGrace, Clients
<1>7. CASE S!Signal
  <2>1. CASE stopping
    <3>1. S!Exit(1) /\ UNCHANGED <<now, closing, stopping, backstop, first>> /\ signals' = signals + 1
          /\ exit = -1
      BY <1>7, <2>1 DEF S!Signal, S!Impatient, S!Running
    <3>2. BackstopSet' /\ signals' > 1
      BY <2>1, <3>1 DEF BackstopSet
    <3> QED BY <3>1, <3>2, ExitsForReason
  <2>2. CASE ~stopping
    <3>1. /\ stopping' = TRUE /\ backstop' = now + Grace /\ signals' = signals + 1
          /\ closing' = IF closing = "open" THEN "closing" ELSE closing
          /\ first' = IF first = -1 THEN now ELSE first
          /\ UNCHANGED <<now, request, exit>> /\ exit = -1
      BY <1>7, <2>2 DEF S!Signal, S!Impatient, S!Deadline, S!Running
    <3>2. BackstopSet'
      BY <2>2, <3>1 DEF BackstopSet
    <3>3. \A q \in Clients : request[q] # "dropped"
      BY <3>1 DEF NothingLost, S!DroppedOnlyAfterGrace, Clients
    <3> QED BY <3>1, <3>2, <3>3 DEF NothingLost, S!DroppedOnlyAfterGrace, Clients
  <2> QED BY <2>1, <2>2
<1>8. CASE S!BackstopFires
  <2>1. BackstopSet' /\ now - first >= Grace
    BY <1>8 DEF S!BackstopFires, BackstopSet
  <2> QED BY <1>8, <2>1, ExitsForReason DEF S!BackstopFires, S!Running
<1>9. CASE S!StoppedCleanly
  <2>1. BackstopSet'
    BY <1>9 DEF S!StoppedCleanly, BackstopSet
  <2>2. \A q \in Clients : request[q] # "dropped" /\ request[q] # "open"
    BY <1>9 DEF S!StoppedCleanly, S!Drained, S!Running, NothingLost, S!DroppedOnlyAfterGrace, Clients
  <2>3. request' = request
    BY <1>9, <2>2 DEF S!StoppedCleanly, S!Exit, NothingLost, Clients
  <2> QED BY <1>9, <2>1, <2>2, <2>3 DEF S!StoppedCleanly, NothingLost, S!DroppedOnlyAfterGrace, Clients
<1>10. CASE S!StopFailed
  <2>1. BackstopSet'
    BY <1>10 DEF S!StopFailed, BackstopSet
  <2> QED BY <1>10, <2>1, ExitsForReason DEF S!StopFailed, S!Running
<1>11. CASE S!Tick
  <2>1. BackstopSet'
    BY <1>11 DEF S!Tick, BackstopSet
  <2>2. \A q \in Clients : request[q] # "dropped"
    BY <1>11 DEF S!Tick, S!Running, NothingLost, S!DroppedOnlyAfterGrace, Clients
  <2> QED BY <1>11, <2>1, <2>2 DEF S!Tick, NothingLost, S!DroppedOnlyAfterGrace, Clients
<1>12. CASE UNCHANGED S!vars
  BY <1>12 DEF S!vars, BackstopSet, NothingLost, S!DroppedOnlyAfterGrace, Clients
<1> QED BY <1>1, <1>2, <1>3, <1>4, <1>5, <1>6, <1>7, <1>8, <1>9, <1>10, <1>11, <1>12 DEF S!Next

\* A step of the service is a step of the stop, or none.
LEMMA ServiceStepsStop == [ServiceNext]_<<part, processVars, frontVars, discoveryVars>> => [S!Next]_(S!vars)
<1> SUFFICES ASSUME ServiceNext \/ UNCHANGED <<part, processVars, frontVars, discoveryVars>>
             PROVE  S!Next \/ UNCHANGED S!vars
  OBVIOUS
<1>1. CASE \E c \in Callers : ConfigRequest(c)
  BY <1>1 DEF ConfigRequest, S!Next
<1>2. CASE \E c \in Callers : ConfigResponse(c)
  BY <1>2 DEF ConfigResponse, S!Next
<1>3. CASE Fetching
  BY <1>3 DEF Fetching, Publish, Evict, Respond, Land, FetchFails, S!vars, stopVars
<1>4. CASE Process
  BY <1>4 DEF Process, S!Next
<1>5. CASE Clock
  BY <1>5 DEF Clock, S!Next
<1>6. CASE UNCHANGED processVars
  BY <1>6 DEF processVars, stopVars, S!vars
<1> QED BY <1>1, <1>2, <1>3, <1>4, <1>5, <1>6
        DEF ServiceNext, Runs, Answers, Discovers, ProcessNext

\* A request that was accepted is dropped only after a second signal, after the
\* whole grace period or because close() failed, never by a clean exit, and the
\* process is gone when the grace period is over (stopGracefully of
\* src/index.ts).
THEOREM ServiceStopsWithinGrace == ServiceSpec => []StopsWithinGrace
<1>1. ServiceInit => StopInv
  BY StopStarts DEF ServiceInit
<1>2. StopInv /\ [ServiceNext]_<<part, processVars, frontVars, discoveryVars>> => StopInv'
  BY ServiceStepsStop, StopStep
<1>3. StopInv => StopsWithinGrace
  BY DEF StopInv, BackstopSet, NothingLost, StopsWithinGrace, S!GoneByDeadline
<1> QED BY <1>1, <1>2, <1>3, PTL DEF ServiceSpec

-----------------------------------------------------------------------------
(* A request for the configuration under a stop.                            *)

\* No fetch begins after the first signal, so a request that still waits for
\* one has waited no longer than a fetch takes.
AnswersInTime ==
    /\ first # -1 =>
          \A c \in Callers :
             /\ call[c].st = "loading" => call[c].at <= first
             /\ request[c] = "open" => now - first <= Timeout
    /\ ConfigSurvivesStop

SurviveInv == ConfigInv /\ StopInv /\ AnswersInTime

LEMMA SurviveStarts == ServiceInit => SurviveInv
<1> SUFFICES ASSUME ServiceInit PROVE SurviveInv
  OBVIOUS
<1>1. ConfigInv /\ StopInv
  BY ConfigStarts, StopStarts DEF ServiceInit
<1>2. AnswersInTime
  BY DEF ServiceInit, S!Init, AnswersInTime, ConfigSurvivesStop
<1> QED BY <1>1, <1>2 DEF SurviveInv

\* No configuration request is open when the backstop is due.
LEMMA NoneOpenAtBackstop ==
    ASSUME SurviveInv, first # -1, now >= backstop, NEW c \in Callers
    PROVE  request[c] # "open"
<1>1. backstop = first + Grace /\ now \in Nat /\ first \in Int
  BY DEF SurviveInv, StopInv, BackstopSet
<1>2. ~(now - first <= Timeout)
  BY <1>1, ServiceAssumption, ConfigAssumption
<1> QED BY <1>2 DEF SurviveInv, AnswersInTime

\* A step of the process that touches neither the clock nor a fetch.
LEMMA StopStepsSurvive ==
    ASSUME SurviveInv, StopInv',
           S!Running, UNCHANGED <<now, call>>, first' # -1 => first = first' \/ first' = now,
           \A c \in Callers : request'[c] = "open" => request[c] = "open",
           first = first' \/ first = -1,
           \A c \in Callers :
              request'[c] = "dropped" => signals' > 1 \/ closing' = "rejected"
    PROVE  AnswersInTime'
<1> USE ServiceAssumption, ConfigAssumption
<1>1. ASSUME first' # -1, NEW c \in Callers
      PROVE  /\ call'[c].st = "loading" => call'[c].at <= first'
             /\ request'[c] = "open" => now' - first' <= Timeout
  <2>1. CASE first' = first
    BY <1>1, <2>1 DEF SurviveInv, AnswersInTime
  <2>2. CASE first' = now
    <3>1. call[c].at <= now /\ now \in Nat
      BY DEF SurviveInv, ConfigInv, CallsCurrent, CallCurrent, StopInv, BackstopSet
    <3> QED BY <2>2, <3>1
  <2> QED BY <1>1, <2>1, <2>2
<1> QED BY <1>1 DEF AnswersInTime, ConfigSurvivesStop

LEMMA SurviveStep ==
    SurviveInv /\ [ServiceNext]_<<part, processVars, frontVars, discoveryVars>> => SurviveInv'
<1> SUFFICES ASSUME SurviveInv, [ServiceNext]_<<part, processVars, frontVars, discoveryVars>>
             PROVE  SurviveInv'
  OBVIOUS
<1> USE ServiceAssumption, ConfigAssumption
<1>1. ConfigInv' /\ StopInv'
  BY ServiceStepsConfig, ConfigStep, ServiceStepsStop, StopStep DEF SurviveInv
<1>2. /\ now \in Nat /\ first \in Int /\ signals \in Nat
      /\ stopping <=> first # -1
      /\ first # -1 => signals >= 1 /\ closing # "open"
      /\ backstop = IF first = -1 THEN -1 ELSE first + Grace
      /\ closing = "closed" => \A c \in Callers : request[c] # "open"
      /\ DOMAIN request = Clients
  BY DEF SurviveInv, StopInv, BackstopSet, NothingLost, Clients
<1>3. S!Running => \A c \in Callers : request[c] # "dropped"
  BY DEF SurviveInv, StopInv, NothingLost, S!DroppedOnlyAfterGrace, S!Running
<1>4. \A code : S!Exit(code) =>
         \A c \in Callers : /\ request'[c] # "open"
                            /\ request'[c] = "dropped" => request[c] \in {"open", "dropped"}
  BY DEF S!Exit
<1>5. CASE \E c \in Callers : ConfigRequest(c)
  <2> PICK c \in Callers : ConfigRequest(c)
    BY <1>5
  <2>1. /\ S!Running /\ UNCHANGED <<signals, first, closing, now>>
        /\ request' = [request EXCEPT ![c] = IF closing = "open" THEN "open" ELSE "refused"]
        /\ closing # "open" => UNCHANGED call
    BY DEF ConfigRequest, S!Accepts, Get, configVars
  <2>2. \A d \in Callers :
           /\ request'[d] # "dropped"
           /\ closing # "open" /\ request'[d] = "open" => request[d] = "open"
    BY <1>2, <1>3, <2>1 DEF Clients
  <2>3. first' # -1 => \A d \in Callers :
           /\ call'[d].st = "loading" => call'[d].at <= first'
           /\ request'[d] = "open" => now' - first' <= Timeout
    BY <1>2, <2>1, <2>2 DEF SurviveInv, AnswersInTime
  <2> QED BY <1>1, <2>2, <2>3 DEF SurviveInv, AnswersInTime, ConfigSurvivesStop
<1>6. CASE \E c \in Callers : ConfigResponse(c)
  <2> PICK c \in Callers : ConfigResponse(c)
    BY <1>6
  <2>1. /\ S!Running /\ UNCHANGED <<signals, first, closing, now, call>>
        /\ request' = [request EXCEPT ![c] = "answered"]
    BY DEF ConfigResponse, S!Answers, configVars
  <2>2. \A d \in Callers : request'[d] \in {"answered", request[d]}
    BY <2>1
  <2> QED BY <1>1, <1>3, <2>1, <2>2, StopStepsSurvive DEF SurviveInv
<1>7. CASE Fetching
  <2>1. S!Running /\ UNCHANGED <<now, signals, first, closing, request>>
    BY <1>7 DEF Fetching, stopVars, Publish, Evict, Respond, Land, FetchFails
  <2>2. \A d \in Callers : call'[d].st = "loading" => call[d].st = "loading" /\ call'[d].at = call[d].at
    <3>1. CASE Publish \/ Evict
      BY <3>1 DEF Publish, Evict
    <3>2. CASE \E c \in Callers : Respond(c)
      <4>1. \A d \in Callers : call'[d] = call[d] \/ call'[d] = [call[d] EXCEPT !.got = published]
        BY <3>2 DEF Respond, SurviveInv, ConfigInv, TypeOK
      <4> QED BY <4>1, ConfigRanges DEF SurviveInv, Call
    <3>3. CASE \E c \in Callers : Land(c)
      <4> PICK c \in Callers : Land(c)
        BY <3>3
      <4>1. call[c].st = "loading" /\ call[c].got \in 0..MaxVersion /\ EndAll(c, "done", call[c].got)
        BY ConfigRanges DEF Land, SurviveInv
      <4> QED BY <4>1, EndingCalls DEF SurviveInv
    <3>4. CASE \E c \in Callers : FetchFails(c)
      <4> PICK c \in Callers : FetchFails(c)
        BY <3>4
      <4>1. /\ call[c].st = "loading" /\ lastGood.v \in 0..MaxVersion /\ 0 \in 0..MaxVersion
            /\ EndAll(c, "done", lastGood.v) \/ EndAll(c, "failed", 0)
        BY ConfigRanges DEF FetchFails, SurviveInv
      <4> QED BY <4>1, EndingCalls DEF SurviveInv
    <3> QED BY <1>7, <3>1, <3>2, <3>3, <3>4 DEF Fetching
  <2> QED BY <1>1, <2>1, <2>2 DEF SurviveInv, AnswersInTime, ConfigSurvivesStop
<1>8. CASE Process
  <2>0. S!Running /\ UNCHANGED <<now, call>>
    BY <1>8 DEF Process, configVars, S!Listen, S!ListenFails, S!DrainsAndEnds, S!CloseSettles,
              S!Signal, S!BackstopFires, S!StoppedCleanly, S!StopFailed, S!Accepts, S!Answers
  <2>1. first = first' \/ (first = -1 /\ first' = now)
    BY <1>8 DEF Process, S!Listen, S!ListenFails, S!DrainsAndEnds, S!CloseSettles,
              S!Signal, S!BackstopFires, S!StoppedCleanly, S!StopFailed, S!Accepts, S!Answers
  <2>2. /\ \A c \in Callers : request'[c] = "open" => request[c] = "open"
        /\ \A c \in Callers : request'[c] = "dropped" => signals' > 1 \/ closing' = "rejected"
    <3>1. CASE S!Listen \/ S!ListenFails \/ S!CloseSettles
      BY <1>3, <2>0, <3>1 DEF S!Listen, S!ListenFails, S!CloseSettles
    <3>2. CASE S!DrainsAndEnds \/ S!StoppedCleanly \/ S!StopFailed
      <4>1. closing \in {"closed", "rejected"} /\ closing' = closing /\ \E code : S!Exit(code)
        BY <3>2 DEF S!DrainsAndEnds, S!StoppedCleanly, S!StopFailed, S!Drained
      <4> QED BY <1>2, <1>3, <1>4, <2>0, <4>1
    <3>3. CASE S!BackstopFires
      <4>1. first # -1 /\ now >= backstop /\ S!Exit(1)
        BY <1>2, <3>3 DEF S!BackstopFires
      <4> QED BY <1>3, <1>4, <2>0, <4>1, NoneOpenAtBackstop
    <3>4. CASE S!Signal
      <4>1. CASE stopping
        <5>1. signals' > 1 /\ S!Exit(1)
          BY <1>2, <3>4, <4>1 DEF S!Signal, S!Impatient
        <5> QED BY <1>4, <5>1
      <4>2. CASE ~stopping
        BY <1>3, <2>0, <3>4, <4>2 DEF S!Signal, S!Impatient
      <4> QED BY <4>1, <4>2
    <3>5. CASE \E r \in Others : S!Accepts(r) \/ S!Answers(r)
      <4>1. \A c \in Callers : request'[c] = request[c]
        BY <1>2, <3>5 DEF S!Accepts, S!Answers, Clients
      <4> QED BY <1>3, <2>0, <4>1
    <3> QED BY <1>8, <3>1, <3>2, <3>3, <3>4, <3>5 DEF Process
  <2> QED BY <1>1, <2>0, <2>1, <2>2, StopStepsSurvive DEF SurviveInv
<1>9. CASE Clock
  <2>1. /\ now' = now + 1 /\ UNCHANGED <<call, request, first, signals, closing>> /\ S!Running
        /\ \A c \in Callers : InTime(c)
        /\ \A c \in Callers : Ended(c) => request[c] # "open"
    BY <1>9 DEF Clock, Tick, S!Tick
  <2>2. ASSUME first # -1, NEW c \in Callers, request[c] = "open"
        PROVE  now + 1 - first <= Timeout
    <3>1. call[c].st \in {"loading", "joined"}
      BY <2>1, <2>2, ConfigRanges DEF Ended, SurviveInv
    <3>2. PICK d \in Callers : call[d].st = "loading"
      BY <3>1 DEF SurviveInv, ConfigInv, TypeOK, Pending
    <3>3. call[d].at <= first /\ now - call[d].at < Timeout /\ call[d].at \in Int
      <4>1. call[d].at <= first
        BY <2>2, <3>2 DEF SurviveInv, AnswersInTime
      <4>2. now - call[d].at < Timeout
        BY <2>1, <3>2 DEF InTime
      <4>3. call[d].at \in Int
        BY ConfigRanges DEF SurviveInv
      <4> QED BY <4>1, <4>2, <4>3
    <3> QED BY <1>2, <3>3
  <2> QED BY <1>1, <1>2, <2>1, <2>2 DEF SurviveInv, AnswersInTime, ConfigSurvivesStop
<1>10. CASE UNCHANGED processVars
  BY <1>1, <1>10 DEF processVars, configVars, stopVars, SurviveInv, AnswersInTime, ConfigSurvivesStop
<1> QED BY <1>5, <1>6, <1>7, <1>8, <1>9, <1>10 DEF ServiceNext, Runs, Answers, Discovers, ProcessNext

\* A request that waits for nothing but the configuration survives a single stop
\* signal whose close() does not fail, whatever other request is wedged
\* (TIMEOUT_MS of src/remote-config/index.ts, SHUTDOWN_GRACE_MS of src/index.ts).
THEOREM ServiceConfigSurvivesStop == ServiceSpec => []ConfigSurvivesStop
<1>1. SurviveInv => ConfigSurvivesStop
  BY DEF SurviveInv, AnswersInTime
<1> QED BY <1>1, SurviveStarts, SurviveStep, PTL DEF ServiceSpec

-----------------------------------------------------------------------------
(* The server in front.                                                     *)

LEMMA FrontRanges ==
    /\ V4Bits \in Nat /\ MinTrustedPrefix \in 1..V4Bits
    /\ MappedPrefix \in Seq({0, 1}) /\ Len(MappedPrefix) \in Nat
    /\ Len(MappedPrefix) > MinTrustedPrefix
    /\ NoPrefix \notin Nat
    /\ Envs # {} /\ Envs \subseteq F!Environments
    /\ {Proxy} \cup People \cup Claims \subseteq F!V4 /\ Proxy \notin People
    /\ Words \subseteq F!Identifiers
    /\ NFTCDN_SIZES # {} /\ NFTCDN_SIZES \subseteq Nat /\ Wanted \subseteq Nat \ {0}
BY ServiceAssumption, LenProperties
   DEF F!FrontConstants, F!ConfigurationConstants, F!Bit

-----------------------------------------------------------------------------
(* TRUST_PROXY.                                                             *)

\* What an address behind the IPv4-mapped prefix looks like.
LEMMA MappedAddress ==
    ASSUME NEW caller \in F!V4
    PROVE  \A i \in 1..(Len(MappedPrefix) + V4Bits) :
              (MappedPrefix \o caller)[i] =
                 IF i <= Len(MappedPrefix) THEN MappedPrefix[i] ELSE caller[i - Len(MappedPrefix)]
<1>1. caller \in [1..V4Bits -> {0, 1}]
  BY DEF F!V4, F!Bit
<1>2. caller \in Seq({0, 1}) /\ Len(caller) = V4Bits
  BY <1>1, FrontRanges
<1> QED BY <1>2, FrontRanges, ConcatProperties

\* The fields of an entry.
LEMMA EntryFields ==
    ASSUME NEW e \in F!Entries, ~F!TooLong(e)
    PROVE  \/ /\ e.family = 4 /\ e.address \in F!V4
              /\ F!Width(e) \in 0..V4Bits
           \/ /\ e.family = 6 /\ e.address \in [1..(Len(MappedPrefix) + V4Bits) -> {0, 1}]
              /\ F!Width(e) \in 0..(Len(MappedPrefix) + V4Bits)
<1>1. CASE e \in [family : {4}, address : F!V4, prefix : {NoPrefix} \cup 0..(V4Bits + 1)]
  BY <1>1, FrontRanges DEF F!TooLong, F!Width, F!Bits
<1>2. CASE e \in [family : {6}, address : F!V6, prefix : {NoPrefix} \cup 0..(F!V6Bits + 1)]
  BY <1>2, FrontRanges DEF F!TooLong, F!Width, F!Bits, F!V6, F!V6Bits, F!Bit
<1> QED BY <1>1, <1>2 DEF F!Entries

\* A range within the mapped block, recorded as the IPv4 range it is.
LEMMA RecordedRange ==
    ASSUME NEW e \in F!Entries, ~F!TooLong(e), F!IsMapped(e)
    PROVE  /\ F!Recorded(e).family = 4
           /\ F!Width(F!Recorded(e)) = F!Width(e) - Len(MappedPrefix)
           /\ F!Width(e) \in (Len(MappedPrefix) + 1)..(Len(MappedPrefix) + V4Bits)
           /\ \A i \in 1..V4Bits : F!Recorded(e).address[i] = e.address[Len(MappedPrefix) + i]
<1> DEFINE L == Len(MappedPrefix)
<1>1. /\ e.family = 6 /\ e.address \in [1..(L + V4Bits) -> {0, 1}]
      /\ F!Width(e) \in 0..(L + V4Bits)
  BY EntryFields DEF F!IsMapped
<1>2. F!Width(e) \in (L + 1)..(L + V4Bits)
  BY <1>1, FrontRanges DEF F!IsMapped
<1>3. F!Recorded(e) =
        [family |-> 4, address |-> SubSeq(e.address, L + 1, L + V4Bits),
         prefix |-> IF e.prefix = NoPrefix THEN NoPrefix ELSE e.prefix - L]
  BY DEF F!Recorded, F!V6Bits
<1>4. F!Width(F!Recorded(e)) = F!Width(e) - L
  <2>1. CASE e.prefix = NoPrefix
    <3>1. F!Width(e) = L + V4Bits
      BY <1>1, <2>1 DEF F!Width, F!Bits, F!V6Bits
    <3>2. F!Width(F!Recorded(e)) = V4Bits
      BY <1>3, <2>1 DEF F!Width, F!Bits
    <3> QED BY <3>1, <3>2, FrontRanges
  <2>2. CASE e.prefix # NoPrefix
    <3>1. F!Width(e) = e.prefix
      BY <2>2 DEF F!Width
    <3>2. e.prefix - L \in Nat
      BY <1>2, <3>1, FrontRanges
    <3>3. F!Recorded(e).prefix = e.prefix - L /\ e.prefix - L # NoPrefix
      BY <1>3, <2>2, <3>2, FrontRanges
    <3> QED BY <3>1, <3>3 DEF F!Width
  <2> QED BY <2>1, <2>2
<1>5. \A i \in 1..V4Bits : SubSeq(e.address, L + 1, L + V4Bits)[i] = e.address[L + i]
  <2>1. \A i \in (L + 1)..(L + V4Bits) : e.address[i] \in {0, 1}
    BY <1>1, FrontRanges
  <2>2. L + 1 \in Int /\ L + V4Bits \in Int
    BY FrontRanges
  <2>3. \A i \in 1..((L + V4Bits) - (L + 1) + 1) :
           SubSeq(e.address, L + 1, L + V4Bits)[i] = e.address[(L + 1) + i - 1]
    BY <2>1, <2>2, SubSeqProperties
  <2> QED BY <2>3, FrontRanges
<1>6. F!Recorded(e).family = 4 /\ F!Recorded(e).address = SubSeq(e.address, L + 1, L + V4Bits)
  BY DEF F!Recorded, F!V6Bits
<1> QED BY <1>2, <1>4, <1>5, <1>6

\* An entry is recorded as what it says.
LEMMA RecordedMatches ==
    ASSUME NEW e \in F!Entries, ~F!TooLong(e), NEW caller \in F!V4
    PROVE  F!Matches(F!Recorded(e), caller) <=> F!Matches(e, caller)
<1> DEFINE L == Len(MappedPrefix)
           W == F!Width(e)
<1>1. CASE ~F!IsMapped(e)
  BY <1>1 DEF F!Recorded
<1>2. CASE F!IsMapped(e)
  <2>1. /\ F!Recorded(e).family = 4 /\ F!Width(F!Recorded(e)) = W - L
        /\ W \in (L + 1)..(L + V4Bits) /\ e.family = 6
        /\ \A i \in 1..V4Bits : F!Recorded(e).address[i] = e.address[L + i]
    BY <1>2, RecordedRange DEF F!IsMapped
  <2>2. \A i \in 1..L : e.address[i] = MappedPrefix[i]
    BY <1>2 DEF F!IsMapped, F!sharesPrefix
  <2>3. F!Matches(e, caller) <=> \A i \in 1..W : e.address[i] = (MappedPrefix \o caller)[i]
    BY <2>1 DEF F!Matches, F!sharesPrefix
  <2>4. F!Matches(F!Recorded(e), caller) <=> \A i \in 1..(W - L) : e.address[L + i] = caller[i]
    BY <2>1, FrontRanges DEF F!Matches, F!sharesPrefix
  <2>5. \A i \in 1..W : (MappedPrefix \o caller)[i] =
                          IF i <= L THEN MappedPrefix[i] ELSE caller[i - L]
    <3>1. \A i \in 1..W : i \in 1..(L + V4Bits)
      BY <2>1, FrontRanges
    <3> QED BY <3>1, MappedAddress
  <2> HIDE DEF W
  <2>6. ASSUME F!Matches(e, caller), NEW i \in 1..(W - L) PROVE e.address[L + i] = caller[i]
    <3>1. L + i \in 1..W /\ ~(L + i <= L) /\ (L + i) - L = i
      BY <2>1, FrontRanges
    <3> QED BY <2>3, <2>5, <2>6, <3>1
  <2>7. ASSUME F!Matches(F!Recorded(e), caller), NEW i \in 1..W
        PROVE  e.address[i] = (MappedPrefix \o caller)[i]
    <3>1. CASE i <= L
      BY <2>1, <2>2, <2>5, <3>1, FrontRanges
    <3>2. CASE ~(i <= L)
      <4>1. i - L \in 1..(W - L) /\ L + (i - L) = i
        BY <2>1, <3>2, FrontRanges
      <4> QED BY <2>4, <2>5, <2>7, <3>2, <4>1
    <3> QED BY <3>1, <3>2
  <2> QED BY <2>3, <2>4, <2>6, <2>7
<1> QED BY <1>1, <1>2

\* An accepted range fixes at least MinTrustedPrefix bits of a caller, or
\* matches none.
LEMMA AcceptedIsNarrow ==
    ASSUME NEW e \in F!Entries, ~F!Rejects(e), NEW a \in F!V4, NEW b \in F!V4,
           F!Matches(F!Recorded(e), a), F!Matches(F!Recorded(e), b)
    PROVE  \A i \in 1..MinTrustedPrefix : a[i] = b[i]
<1> DEFINE L == Len(MappedPrefix)
<1>0. ~F!TooLong(e) /\ ~F!HoldsMapped(e) /\ ~F!Short(F!Recorded(e).prefix)
  BY DEF F!Rejects
<1>1. CASE F!Recorded(e).family = 4
  <2>1. F!Width(F!Recorded(e)) \in 0..V4Bits
    <3>1. CASE F!IsMapped(e)
      BY <1>0, <3>1, RecordedRange, FrontRanges
    <3>2. CASE ~F!IsMapped(e)
      BY <1>0, <1>1, <3>2, EntryFields DEF F!Recorded
    <3> QED BY <3>1, <3>2
  <2>2. F!Width(F!Recorded(e)) >= MinTrustedPrefix
    <3>1. CASE F!Recorded(e).prefix = NoPrefix
      BY <1>1, <3>1, FrontRanges DEF F!Width, F!Bits
    <3>2. CASE F!Recorded(e).prefix # NoPrefix
      BY <1>0, <2>1, <3>2, FrontRanges DEF F!Width, F!Short
    <3> QED BY <3>1, <3>2
  <2>3. \A i \in 1..F!Width(F!Recorded(e)) :
           F!Recorded(e).address[i] = a[i] /\ F!Recorded(e).address[i] = b[i]
    BY <1>1 DEF F!Matches, F!sharesPrefix
  <2> QED BY <2>1, <2>2, <2>3, FrontRanges
<1>2. CASE F!Recorded(e).family # 4
  <2>1. F!Recorded(e) = e /\ ~F!IsMapped(e)
    BY <1>2 DEF F!Recorded
  <2>2. e.family = 6 /\ F!Width(e) \in 0..(L + V4Bits)
    BY <1>0, <1>2, <2>1, EntryFields
  <2>3. \A i \in 1..F!Width(e) : e.address[i] = (MappedPrefix \o a)[i]
    BY <1>2, <2>1, <2>2 DEF F!Matches, F!sharesPrefix
  <2>4. \A i \in 1..(L + V4Bits) : i <= L => (MappedPrefix \o a)[i] = MappedPrefix[i]
    BY MappedAddress
  <2>5. \A i \in 1..F!Width(e) : i <= L => e.address[i] = MappedPrefix[i]
    BY <2>2, <2>3, <2>4, FrontRanges
  <2>6. CASE F!Width(e) <= L
    <3>1. F!sharesPrefix(e.address, MappedPrefix, F!Width(e))
      BY <2>2, <2>5, <2>6, FrontRanges DEF F!sharesPrefix
    <3> QED BY <1>0, <2>2, <2>6, <3>1 DEF F!HoldsMapped
  <2>7. CASE ~(F!Width(e) <= L)
    <3>1. F!sharesPrefix(e.address, MappedPrefix, L)
      BY <2>2, <2>5, <2>7, FrontRanges DEF F!sharesPrefix
    <3>2. F!Width(e) > L
      BY <2>2, <2>7, FrontRanges
    <3> QED BY <2>1, <2>2, <3>1, <3>2 DEF F!IsMapped
  <2> QED BY <2>6, <2>7
<1> QED BY <1>1, <1>2

\* Callers that agree on that many bits are as many as the other bits allow.
LEMMA NarrowIsSmall ==
    ASSUME NEW T \in SUBSET F!V4,
           \A a, b \in T : \A i \in 1..MinTrustedPrefix : a[i] = b[i]
    PROVE  Cardinality(T) <= 2 ^ (V4Bits - MinTrustedPrefix)
<1> DEFINE Rest == (MinTrustedPrefix + 1)..V4Bits
           Ones == [a \in T |-> {i \in Rest : a[i] = 1}]
<1>1. IsFiniteSet(Rest) /\ Cardinality(Rest) = V4Bits - MinTrustedPrefix
  <2>1. MinTrustedPrefix + 1 \in Int /\ V4Bits \in Int
    BY FrontRanges
  <2>2. /\ IsFiniteSet(Rest)
        /\ Cardinality(Rest) = IF MinTrustedPrefix + 1 > V4Bits THEN 0
                               ELSE V4Bits - (MinTrustedPrefix + 1) + 1
    BY <2>1, FS_Interval
  <2> QED BY <2>2, FrontRanges
<1>2. IsFiniteSet(SUBSET Rest) /\ Cardinality(SUBSET Rest) = 2 ^ (V4Bits - MinTrustedPrefix)
  BY <1>1, FS_SUBSET
<1>3. Ones \in Injection(T, SUBSET Rest)
  <2>1. Ones \in [T -> SUBSET Rest]
    OBVIOUS
  <2>2. ASSUME NEW a \in T, NEW b \in T, Ones[a] = Ones[b] PROVE a = b
    <3>1. a \in [1..V4Bits -> {0, 1}] /\ b \in [1..V4Bits -> {0, 1}]
      BY DEF F!V4, F!Bit
    <3>2. \A i \in Rest : a[i] = 1 <=> b[i] = 1
      BY <2>2
    <3>3. \A i \in 1..V4Bits : i \in 1..MinTrustedPrefix \/ i \in Rest
      BY FrontRanges
    <3>4. \A i \in Rest : i \in 1..V4Bits
      BY FrontRanges
    <3>5. ASSUME NEW i \in 1..V4Bits PROVE a[i] = b[i]
      <4>1. a[i] \in {0, 1} /\ b[i] \in {0, 1}
        BY <3>1
      <4>2. CASE i \in Rest
        BY <3>2, <4>1, <4>2
      <4>3. CASE i \in 1..MinTrustedPrefix
        BY <4>3
      <4> QED BY <3>3, <4>2, <4>3
    <3>6. a = [i \in 1..V4Bits |-> a[i]] /\ b = [i \in 1..V4Bits |-> b[i]]
      BY <3>1
    <3>7. [i \in 1..V4Bits |-> a[i]] = [i \in 1..V4Bits |-> b[i]]
      BY <3>5
    <3> QED BY <3>6, <3>7
  <2> QED BY <2>1, <2>2 DEF Injection, IsInjective
<1> QED BY <1>2, <1>3, FS_Injection

\* The cardinality the instance brings along is the one the lemmas are about.
LEMMA FrontCardinality == ASSUME NEW T PROVE F!Cardinality(T) = Cardinality(T)
BY DEF F!Cardinality, Cardinality

LEMMA TrustHolds == ASSUME env \in F!Environments PROVE F!TrustIsAsWritten
<1> SUFFICES ASSUME F!Loads(env), NEW e \in env.trustProxy
             PROVE  /\ {caller \in F!V4 : F!Matches(F!Recorded(e), caller)}
                          = {caller \in F!V4 : F!Matches(e, caller)}
                    /\ Cardinality({caller \in F!V4 : F!Matches(F!Recorded(e), caller)})
                          <= 2 ^ (V4Bits - MinTrustedPrefix)
  BY FrontCardinality DEF F!TrustIsAsWritten
<1> DEFINE trusted == {caller \in F!V4 : F!Matches(F!Recorded(e), caller)}
<1>1. e \in F!Entries /\ ~F!Rejects(e) /\ ~F!TooLong(e)
  BY DEF F!Environments, F!Loads, F!Rejects
<1>2. trusted = {caller \in F!V4 : F!Matches(e, caller)}
  BY <1>1, RecordedMatches
<1>3. Cardinality(trusted) <= 2 ^ (V4Bits - MinTrustedPrefix)
  BY <1>1, AcceptedIsNarrow, NarrowIsSmall
<1> QED BY <1>2, <1>3

-----------------------------------------------------------------------------
(* Whose budget a request is charged to.                                    *)

\* The limiter counts a caller's requests in the caller's own window.
Charged ==
    /\ env \in Envs
    /\ current \in [{Proxy} \cup People \cup Claims -> Nat]
    /\ admitted \in [People -> Nat]
    /\ F!OneBudgetPerCaller

\* A range of the other notation that matches an IPv4 caller is within the mapped
\* block or holds it, and then it is not accepted: who is not named is not trusted.
LEMMA NotNamedNotTrusted ==
    ASSUME env \in F!Environments, F!Loads(env), NEW c \in People,
           \A e \in env.trustProxy : ~F!Names(e, c)
    PROVE  ~F!Trusted(c)
<1> SUFFICES ASSUME F!Trusted(c) PROVE FALSE
  OBVIOUS
<1>1. PICK e \in env.trustProxy : F!Matches(F!Recorded(e), c)
  BY DEF F!Trusted, F!config, F!loadConfig
<1>2. e \in F!Entries /\ ~F!TooLong(e) /\ ~F!HoldsMapped(e) /\ c \in F!V4
  BY FrontRanges DEF F!Environments, F!Loads, F!Rejects
<1>3. F!Matches(e, c)
  BY <1>1, <1>2, RecordedMatches
<1>4. e.family # 4 /\ ~F!IsMapped(e)
  BY <1>3 DEF F!Names
<1> DEFINE L == Len(MappedPrefix)
           W == F!Width(e)
<1>5. e.family = 6 /\ W \in 0..(L + V4Bits)
  BY <1>2, <1>4, EntryFields
<1>6. \A i \in 1..W : e.address[i] = (MappedPrefix \o c)[i]
  BY <1>3, <1>4 DEF F!Matches, F!sharesPrefix
<1> HIDE DEF W
<1>7. \A i \in 1..W : i <= L => e.address[i] = MappedPrefix[i]
  <2>1. \A i \in 1..W : i \in 1..(L + V4Bits)
    BY <1>5, FrontRanges
  <2> QED BY <1>2, <1>6, <2>1, MappedAddress
<1>8. CASE W <= L
  <2>1. \A i \in 1..W : e.address[i] = MappedPrefix[i]
    BY <1>5, <1>7, <1>8, FrontRanges
  <2>2. F!HoldsMapped(e)
    BY <1>5, <1>8, <2>1 DEF W, F!HoldsMapped, F!sharesPrefix
  <2> QED BY <1>2, <2>2
<1>9. CASE W > L
  <2>1. \A i \in 1..L : e.address[i] = MappedPrefix[i]
    BY <1>5, <1>7, <1>9, FrontRanges
  <2>2. F!IsMapped(e)
    BY <1>5, <1>9, <2>1 DEF W, F!IsMapped, F!sharesPrefix
  <2> QED BY <1>4, <2>2
<1> QED BY <1>5, <1>8, <1>9, FrontRanges

\* Behind a proxy that is named, or without one, a request of a caller who is no
\* trusted host is charged to the caller, whatever it claims.
LEMMA ChargedToCaller ==
    ASSUME env \in F!Environments, F!Loads(env),
           NEW c \in People, ~F!Trusted(c),
           NEW proxied \in {FALSE} \cup {F!Named}, NEW claim \in {F!Nobody} \cup Claims
    PROVE  F!ip(F!Hops(c, proxied, claim)) = c
<1> DEFINE hops == F!Hops(c, proxied, claim)
           Stops(i) == /\ i = Len(hops) \/ ~F!Trusted(hops[i])
                       /\ \A j \in 1..(i - 1) : F!Trusted(hops[j])
<1>1. proxied => F!Trusted(Proxy)
  <2> SUFFICES ASSUME proxied PROVE F!Trusted(Proxy)
    OBVIOUS
  <2>1. PICK e \in env.trustProxy : F!Matches(e, Proxy)
    BY DEF F!Named
  <2>2. e \in F!Entries /\ ~F!TooLong(e) /\ Proxy \in F!V4
    BY FrontRanges DEF F!Environments, F!Loads, F!Rejects
  <2>3. F!Matches(F!Recorded(e), Proxy)
    BY <2>1, <2>2, RecordedMatches
  <2> QED BY <2>3 DEF F!Trusted, F!config, F!loadConfig
<1>2. \E tail : /\ tail = <<>> \/ tail = <<claim>>
                /\ proxied => hops = <<Proxy, c>> \o tail
                /\ ~proxied => hops = <<c>> \o tail
  BY Zenon DEF F!Hops
<1> PICK tail : /\ tail = <<>> \/ tail = <<claim>>
                /\ proxied => hops = <<Proxy, c>> \o tail
                /\ ~proxied => hops = <<c>> \o tail
  BY <1>2
<1>3. CASE ~proxied
  <2>0. hops = <<c>> \o tail
    BY <1>3
  <2> HIDE DEF hops
  <2>1. hops[1] = c /\ 1 \in DOMAIN hops /\ DOMAIN hops \subseteq Nat \ {0}
    <3>1. CASE tail = <<>>
      BY <2>0, <3>1
    <3>2. CASE tail = <<claim>>
      BY <2>0, <3>2
    <3> QED BY <3>1, <3>2
  <2>2. Stops(1)
    BY <2>1
  <2>3. \A i \in DOMAIN hops : Stops(i) => i = 1
    BY <2>1
  <2>4. (CHOOSE i \in DOMAIN hops : Stops(i)) = 1
    BY <2>1, <2>2, <2>3
  <2> QED BY <2>1, <2>4 DEF F!ip, hops
<1>4. CASE proxied
  <2>0. hops = <<Proxy, c>> \o tail
    BY <1>4
  <2> HIDE DEF hops
  <2>1. hops[1] = Proxy /\ hops[2] = c /\ 2 \in DOMAIN hops /\ DOMAIN hops \subseteq Nat \ {0}
        /\ Len(hops) # 1
    <3>1. CASE tail = <<>>
      BY <2>0, <3>1
    <3>2. CASE tail = <<claim>>
      BY <2>0, <3>2
    <3> QED BY <3>1, <3>2
  <2>2. Stops(2)
    BY <1>1, <1>4, <2>1
  <2>3. \A i \in DOMAIN hops : Stops(i) => i = 2
    BY <1>1, <1>4, <2>1
  <2>4. (CHOOSE i \in DOMAIN hops : Stops(i)) = 2
    BY <2>1, <2>2, <2>3
  <2> QED BY <2>1, <2>4 DEF F!ip, hops
<1> QED BY <1>3, <1>4

LEMMA ChargedStarts == env \in Envs /\ F!FrontStart => Charged
<1> SUFFICES ASSUME env \in Envs, F!FrontStart PROVE Charged
  OBVIOUS
<1>1. /\ current = [key \in {Proxy} \cup People \cup Claims |-> 0]
      /\ admitted = [c \in People |-> 0]
  BY DEF F!FrontStart
<1>2. F!config.rateLimit \in Nat
  BY FrontRanges DEF F!config, F!loadConfig, F!Environments
<1> QED BY <1>1, <1>2 DEF Charged, F!OneBudgetPerCaller

LEMMA ChargedStep == Charged /\ F!FrontNext => Charged'
<1> SUFFICES ASSUME Charged, F!FrontNext PROVE Charged'
  OBVIOUS
<1>0. /\ env' = env /\ env \in Envs /\ env \in F!Environments /\ F!Loads(env)
      /\ current \in [{Proxy} \cup People \cup Claims -> Nat]
      /\ admitted \in [People -> Nat]
  BY FrontRanges DEF Charged, F!FrontNext
<1>1. F!config' = F!config /\ F!config.rateLimit \in Nat
  BY <1>0 DEF F!config, F!loadConfig, F!Environments
<1>2. (F!Limited' <=> F!Limited) /\ env'.trustProxy = env.trustProxy /\ (F!Loads(env))'
  BY <1>0, <1>1 DEF F!Limited
<1> DEFINE Counts(cur, adm) == \A c \in People : adm[c] <= F!config.rateLimit /\ cur[c] = adm[c]
           Alone == F!Limited /\ \A c \in People, e \in env.trustProxy : ~F!Names(e, c)
<1>3. Alone => Counts(current, admitted)
  BY <1>0 DEF Charged, F!OneBudgetPerCaller
<1> SUFFICES /\ current' \in [{Proxy} \cup People \cup Claims -> Nat]
             /\ admitted' \in [People -> Nat]
             /\ Alone => Counts(current', admitted')
  BY <1>0, <1>1, <1>2 DEF Charged, F!OneBudgetPerCaller
<1>4. CASE UNCHANGED <<current, admitted>>
  BY <1>0, <1>3, <1>4
<1>5. ASSUME NEW c \in People, NEW proxied \in {FALSE} \cup {F!Named},
             NEW claim \in {F!Nobody} \cup Claims, F!Requests(c, proxied, claim)
      PROVE  /\ current' \in [{Proxy} \cup People \cup Claims -> Nat]
             /\ admitted' \in [People -> Nat]
             /\ Alone => Counts(current', admitted')
  <2> DEFINE key == F!ip(F!Hops(c, proxied, claim))
  <2>1. CASE F!Limited /\ current[key] < F!config.rateLimit
             /\ current' = [current EXCEPT ![key] = @ + 1] /\ admitted' = [admitted EXCEPT ![c] = @ + 1]
    <3>1. Alone => key = c
      BY <1>0, <1>5, NotNamedNotTrusted, ChargedToCaller
    <3> HIDE DEF key
    <3>2. current' \in [{Proxy} \cup People \cup Claims -> Nat]
      <4>1. \A k \in {Proxy} \cup People \cup Claims : current[k] \in Nat /\ current[k] + 1 \in Nat
        BY <1>0
      <4> QED BY <1>0, <2>1, <4>1
    <3>4. admitted' \in [People -> Nat]
      <4>1. admitted[c] + 1 \in Nat
        BY <1>0
      <4> QED BY <1>0, <2>1, <4>1
    <3>3. Alone => Counts(current', admitted')
      BY <1>0, <1>1, <1>3, <2>1, <3>1
    <3> QED BY <3>2, <3>4, <3>3
  <2>2. CASE UNCHANGED <<current, admitted>>
    BY <1>0, <1>3, <2>2
  <2> QED BY <1>5, <2>1, <2>2 DEF F!Requests
<1>6. ASSUME NEW key \in DOMAIN current, F!WindowEnds(key)
      PROVE  /\ current' \in [{Proxy} \cup People \cup Claims -> Nat]
             /\ admitted' \in [People -> Nat]
             /\ Alone => Counts(current', admitted')
  <2>1. /\ current' = [current EXCEPT ![key] = 0]
        /\ admitted' = [c \in People |-> IF c = key THEN 0 ELSE admitted[c]]
    BY <1>6 DEF F!WindowEnds
  <2> QED BY <1>0, <1>1, <1>3, <2>1
<1>7. F!NotFound \/ F!BadUrls \/ F!Health => UNCHANGED <<current, admitted>>
  BY DEF F!NotFound, F!BadUrls, F!Health
<1> QED BY <1>4, <1>5, <1>6, <1>7 DEF F!FrontNext

-----------------------------------------------------------------------------
(* What leaves the process.                                                 *)

\* Each kind of identifier has a pattern it cannot escape when it stands alone.
LEMMA Scrubbed ==
    ASSUME NEW text \in SUBSET Words
    PROVE  \A word \in F!scrubMessage(text) : ~F!Personal(word)
<1> SUFFICES ASSUME NEW word \in text, F!Personal(word)
             PROVE  word \notin F!scrubMessage(text)
  BY DEF F!scrubMessage
<1>1. word \in F!Identifiers
  BY FrontRanges
<1>2. word.glued = {} /\ word.what \in {"stake", "addr", "hash", "byron"}
  BY DEF F!Personal, F!Wallet
<1>3. CASE word \in F!Spelled("stake", "stake", "bech32", {53}, FALSE)
  <2>1. word.head = "stake" /\ word.size = 53
    BY <1>3 DEF F!Spelled
  <2>2. F!WALLET_BECH32(word)
    BY <1>2, <2>1 DEF F!WALLET_BECH32
  <2> QED BY <2>2 DEF F!scrubMessage
<1>4. CASE word \in F!Spelled("addr", "addr", "bech32", 53..103, FALSE)
  <2>1. word.head = "addr" /\ word.size \in 53..103
    BY <1>4 DEF F!Spelled
  <2>2. F!WALLET_BECH32(word)
    BY <1>2, <2>1 DEF F!WALLET_BECH32
  <2> QED BY <2>2 DEF F!scrubMessage
<1>5. CASE word \in F!Spelled("hash", "", "hex", {64}, FALSE)
  <2>1. word.alphabet = "hex" /\ word.size = 64
    BY <1>5 DEF F!Spelled
  <2>2. F!HASH_HEX(word)
    BY <1>2, <2>1 DEF F!HASH_HEX, F!TX_HASH
  <2> QED BY <2>2 DEF F!scrubMessage
<1>6. CASE word \in F!Spelled("byron", "", "base58", 50..200, TRUE)
  <2>1. word.alphabet = "base58" /\ word.size \in 50..200 /\ word.decodes
    BY <1>6 DEF F!Spelled
  <2>2. F!BYRON_CANDIDATE(word)
    BY <1>2, <2>1 DEF F!BYRON_CANDIDATE
  <2> QED BY <2>1, <2>2 DEF F!scrubMessage
<1>7. CASE word \in F!Spelled("drep", "", "base58", {57}, FALSE)
  BY <1>2, <1>7 DEF F!Spelled
<1> QED BY <1>1, <1>3, <1>4, <1>5, <1>6, <1>7 DEF F!Identifiers

\* A segment that is kept whole was decoded by the pass that kept it, and was
\* looked at then.
LEMMA KeptSegment ==
    ASSUME NEW segment \in F!Segments, F!Kept(segment), F!Whole(segment)
    PROVE  segment.word.what \notin {"stake", "hash"}
<1>1. PICK p \in 1..F!MAX_DECODE_PASSES :
          ~F!Escapes(segment, p) /\ ~F!Identifies(segment, p)
  <2>1. \A p \in 1..F!MAX_DECODE_PASSES : p \in 1..p
    BY DEF F!MAX_DECODE_PASSES
  <2> QED BY <2>1 DEF F!Kept
<1>2. F!Bare(segment, p + 1)
  BY <1>1 DEF F!Escapes
<1>3. ~F!STAKE_ADDRESS(segment.word) /\ ~F!TX_HASH(segment.word)
  BY <1>1, <1>2 DEF F!Identifies
<1>4. segment.word \in F!Identifiers
  BY FrontRanges DEF F!Segments
<1>5. CASE segment.word \in F!Spelled("stake", "stake", "bech32", {53}, FALSE)
  <2>1. segment.word.head = "stake" /\ segment.word.size = 53
    BY <1>5 DEF F!Spelled
  <2> QED BY <1>3, <2>1 DEF F!STAKE_ADDRESS
<1>6. CASE segment.word \in F!Spelled("hash", "", "hex", {64}, FALSE)
  <2>1. segment.word.alphabet = "hex" /\ segment.word.size = 64
    BY <1>6 DEF F!Spelled
  <2> QED BY <1>3, <2>1 DEF F!TX_HASH
<1>7. CASE \/ segment.word \in F!Spelled("addr", "addr", "bech32", 53..103, FALSE)
           \/ segment.word \in F!Spelled("byron", "", "base58", 50..200, TRUE)
           \/ segment.word \in F!Spelled("drep", "", "base58", {57}, FALSE)
  BY <1>7 DEF F!Spelled
<1> QED BY <1>4, <1>5, <1>6, <1>7 DEF F!Identifiers

\* The line of a request shows no segment that should not be shown.
ShowsNoOwner(lines) ==
    \A line \in lines :
        /\ line.from = "retry" => ~F!Personal(line.word)
        /\ line.from = "segment" => line.word.what \notin {"stake", "hash"}

LEMMA ScrubbedPath ==
    ASSUME NEW segment \in F!Segments, NEW query
    PROVE  ShowsNoOwner(F!scrubPath(segment, query))
<1> SUFFICES ASSUME NEW line \in F!scrubPath(segment, query)
             PROVE  /\ line.from # "retry"
                    /\ line.from = "segment" => line.word.what \notin {"stake", "hash"}
  BY DEF ShowsNoOwner
<1>1. CASE line \in F!Lines("query", query)
  BY <1>1 DEF F!Lines
<1>2. CASE F!Kept(segment) /\ F!Whole(segment) /\ line \in F!Lines("segment", {segment.word})
  <2>1. line.from = "segment" /\ line.word = segment.word
    BY <1>2 DEF F!Lines
  <2> QED BY <1>2, <2>1, KeptSegment
<1>3. CASE line \in F!Lines("part", {segment.word})
  BY <1>3 DEF F!Lines
<1> QED BY <1>1, <1>2, <1>3 DEF F!scrubPath

\* The code and the text of a reply.
LEMMA ReplyFields ==
    ASSUME NEW status, NEW code, NEW text
    PROVE  F!Reply(status, code, text).code = code /\ F!Reply(status, code, text).text = text
           /\ F!Reply(status, code, text).image = 0
BY DEF F!Reply

LEMMA ErrorFields ==
    ASSUME NEW text, NEW r \in F!Errors(text)
    PROVE  r.code \notin {"INTERNAL", "FEATURE_UNAVAILABLE"} /\ r.text \subseteq F!scrubMessage(text)
           /\ r.image = 0
<1>1. PICK status \in {502, 504, 400, 501},
           code \in {"UPSTREAM_ERROR", "UPSTREAM_TIMEOUT", "UPSTREAM_MALFORMED", "BAD_REQUEST",
                    "NOT_IMPLEMENTED"},
           told \in {F!scrubMessage(text), {}} : r = F!Reply(status, code, told)
  BY DEF F!Errors
<1>2. r.code = code /\ r.text = told /\ r.image = 0
  BY <1>1, ReplyFields
<1> QED BY <1>2

LEMMA AnsweredFields ==
    /\ F!Answered.code = "" /\ F!Answered.text = {} /\ F!Answered.image = 0
    /\ \A size, wanted :
          LET image == [F!Answered EXCEPT !.image = size, !.wanted = wanted]
          IN image.code = "" /\ image.text = {} /\ image.image = size /\ image.wanted = wanted
BY DEF F!Answered, F!Reply

LEMMA NothingPersonalStarts == F!FrontStart => F!NothingPersonalLeaves
BY AnsweredFields DEF F!FrontStart, F!NothingPersonalLeaves

LEMMA NothingPersonalStep == F!NothingPersonalLeaves /\ F!FrontNext => F!NothingPersonalLeaves'
<1> SUFFICES ASSUME F!NothingPersonalLeaves, F!FrontNext PROVE F!NothingPersonalLeaves'
  OBVIOUS
<1> DEFINE Repeats == {"NOT_FOUND", "FST_ERR_BAD_URL"}
           Fine == /\ reply'.code \notin Repeats => \A word \in reply'.text : ~F!Personal(word)
                   /\ ShowsNoOwner(logged')
                   /\ reply'.code = "INTERNAL" => reply'.text = {}
<1> SUFFICES Fine
  BY DEF F!NothingPersonalLeaves, ShowsNoOwner
<1>0. ShowsNoOwner({})
  BY DEF ShowsNoOwner
<1>1. ASSUME reply'.text = {}, logged' = {} PROVE Fine
  BY <1>0, <1>1
<1>2. CASE F!Reads
  <2>1. PICK text \in F!Texts :
            /\ reply' \in {F!Answered} \cup F!Errors(text)
            /\ logged' \in {{}, F!Lines("retry", F!scrubMessage(text))}
    BY <1>2 DEF F!Reads
  <2>0. text \in SUBSET Words
    BY <2>1 DEF F!Texts
  <2>2. ShowsNoOwner(F!Lines("retry", F!scrubMessage(text)))
    BY <2>0, Scrubbed DEF ShowsNoOwner, F!Lines
  <2>3. ShowsNoOwner(logged')
    BY <1>0, <2>1, <2>2
  <2>4. reply'.code # "INTERNAL" /\ \A word \in reply'.text : ~F!Personal(word)
    <3>1. CASE reply' = F!Answered
      BY <3>1, AnsweredFields
    <3>2. CASE reply' \in F!Errors(text)
      <4>1. reply'.code # "INTERNAL" /\ reply'.text \subseteq F!scrubMessage(text)
        BY <3>2, ErrorFields
      <4> QED BY <2>0, <4>1, Scrubbed
    <3> QED BY <2>1, <3>1, <3>2
  <2> QED BY <2>3, <2>4
<1>3. CASE F!Bug
  <2>1. PICK text \in F!Texts : logged' = F!Lines("bug", text)
    BY <1>3 DEF F!Bug
  <2>2. ShowsNoOwner(logged')
    BY <2>1 DEF ShowsNoOwner, F!Lines
  <2>3. reply'.text = {}
    BY <1>3 DEF F!Bug, F!Reply
  <2> QED BY <2>2, <2>3
<1>4. CASE F!NamesAWallet
  <2>1. ShowsNoOwner(logged')
    BY <1>4, ScrubbedPath DEF F!NamesAWallet
  <2>2. reply'.text = {}
    <3>1. reply' = F!Answered \/ reply' = F!Reply(400, "BAD_REQUEST", {})
      BY <1>4 DEF F!NamesAWallet
    <3>2. F!Reply(400, "BAD_REQUEST", {}).text = {}
      BY ReplyFields
    <3> QED BY <3>1, <3>2, AnsweredFields
  <2> QED BY <2>1, <2>2
<1>5. CASE F!Media \/ F!Config
  <2>1. reply'.text = {} /\ reply'.code # "INTERNAL" /\ logged' = {}
    <3>1. \/ reply' = F!Answered \/ reply' = F!Reply(400, "BAD_REQUEST", {})
          \/ reply' = F!Reply(503, "FEATURE_UNAVAILABLE", {})
          \/ \E size, wanted : reply' = [F!Answered EXCEPT !.image = size, !.wanted = wanted]
      BY <1>5 DEF F!Media, F!Config, F!Unavailable
    <3>2. logged' = {}
      BY <1>5 DEF F!Media, F!Config
    <3>3. CASE reply' = F!Answered
      BY <3>2, <3>3, AnsweredFields
    <3>4. CASE reply' = F!Reply(400, "BAD_REQUEST", {})
      BY <3>2, <3>4 DEF F!Reply
    <3>5. CASE reply' = F!Reply(503, "FEATURE_UNAVAILABLE", {})
      BY <3>2, <3>5 DEF F!Reply
    <3>6. CASE \E size, wanted : reply' = [F!Answered EXCEPT !.image = size, !.wanted = wanted]
      <4>1. PICK size, wanted : reply' = [F!Answered EXCEPT !.image = size, !.wanted = wanted]
        BY <3>6
      <4>2. reply'.code = "" /\ reply'.text = {}
        BY <4>1 DEF F!Answered, F!Reply
      <4> QED BY <3>2, <4>2
    <3> QED BY <3>1, <3>3, <3>4, <3>5, <3>6
  <2> QED BY <1>1, <2>1
<1>6. CASE F!NotFound \/ F!BadUrls
  <2>1. ShowsNoOwner(logged')
    BY <1>0, <1>6, ScrubbedPath DEF F!NotFound, F!BadUrls
  <2>2. reply'.code \in Repeats
    <3>1. \/ \E text : reply' = F!Reply(404, "NOT_FOUND", text)
          \/ \E text : reply' = F!Reply(400, "FST_ERR_BAD_URL", text)
      BY <1>6 DEF F!NotFound, F!BadUrls
    <3>2. \A text : /\ F!Reply(404, "NOT_FOUND", text).code = "NOT_FOUND"
                    /\ F!Reply(400, "FST_ERR_BAD_URL", text).code = "FST_ERR_BAD_URL"
      BY ReplyFields
    <3> QED BY <3>1, <3>2
  <2>3. reply'.code # "INTERNAL"
    BY <2>2
  <2> HIDE DEF Repeats
  <2> QED BY <2>1, <2>2, <2>3
<1>7. CASE F!Health
  <2>1. reply'.text = {} /\ logged' = {}
    BY <1>7, AnsweredFields DEF F!Health
  <2> QED BY <1>1, <2>1
<1>8. CASE reply' = F!Reply(429, "RATE_LIMITED", {}) /\ logged' = {}
  <2>1. reply'.text = {} /\ logged' = {}
    BY <1>8 DEF F!Reply
  <2> QED BY <1>1, <2>1
<1>9. CASE UNCHANGED <<reply, logged>>
  BY <1>9 DEF F!NothingPersonalLeaves, ShowsNoOwner
<1> QED BY <1>2, <1>3, <1>4, <1>5, <1>6, <1>7, <1>8, <1>9
        DEF F!FrontNext, F!Requests, F!WindowEnds

-----------------------------------------------------------------------------
(* What the process has.                                                    *)

\* Every set of sizes has a smallest.
LEMMA NatMin == ASSUME NEW T, T \subseteq Nat, T # {} PROVE \E x \in T : \A y \in T : x <= y
<1>1. PICK x \in T : \A y \in T : ~(<<y, x>> \in OpToRel(<, Nat))
  BY NatLessThanWellFounded, WFMin
<1>2. \A y \in T : ~(y < x)
  BY <1>1 DEF OpToRel
<1> QED BY <1>2

\* ... and every set of sizes below a bound a largest.
LEMMA NatMax ==
    ASSUME NEW T, T \subseteq Nat, T # {}, NEW n \in Nat, \A y \in T : y <= n
    PROVE  \E x \in T : \A y \in T : y <= x
<1> DEFINE Left == {n - y : y \in T}
<1>1. Left \subseteq Nat /\ Left # {}
  <2>1. \A y \in T : y \in Nat /\ n - y \in Nat
    OBVIOUS
  <2>2. PICK y \in T : TRUE
    OBVIOUS
  <2>3. n - y \in Left
    BY <2>2
  <2> QED BY <2>1, <2>3
<1>2. PICK least \in Left : \A other \in Left : least <= other
  BY <1>1, NatMin
<1>3. PICK x \in T : least = n - x
  BY <1>2
<1>4. \A y \in T : n - y \in Left /\ n - x <= n - y
  BY <1>2, <1>3
<1> QED BY <1>3, <1>4

\* The size in the URL of an image is one there is, and as large as what was
\* asked for if any is.
LEMMA SnappedSize ==
    ASSUME NEW wanted \in Wanted
    PROVE  /\ F!snapSize(wanted) \in NFTCDN_SIZES
           /\ \A size \in NFTCDN_SIZES : size >= wanted => F!snapSize(wanted) >= wanted
<1> DEFINE fits == {size \in NFTCDN_SIZES : size >= wanted}
<1>0. wanted \in Nat /\ NFTCDN_SIZES \subseteq Nat /\ NFTCDN_SIZES # {}
  BY FrontRanges
<1>1. CASE fits = {}
  <2>1. \A size \in NFTCDN_SIZES : size <= wanted
    BY <1>0, <1>1
  <2>2. \E size \in NFTCDN_SIZES : \A other \in NFTCDN_SIZES : other <= size
    BY <1>0, <2>1, NatMax
  <2>3. F!snapSize(wanted) = CHOOSE size \in NFTCDN_SIZES : \A other \in NFTCDN_SIZES : other <= size
    BY <1>1 DEF F!snapSize
  <2> QED BY <1>1, <2>2, <2>3
<1>2. CASE fits # {}
  <2>1. \E size \in fits : \A other \in fits : size <= other
    BY <1>0, <1>2, NatMin
  <2>2. F!snapSize(wanted) = CHOOSE size \in fits : \A other \in fits : size <= other
    BY <1>2 DEF F!snapSize
  <2>3. F!snapSize(wanted) \in fits
    BY <2>1, <2>2
  <2> QED BY <2>3
<1> QED BY <1>1, <1>2

\* What a process that runs has, and what it says it has.
Serves == env \in Envs /\ F!ServesWhatItHas

LEMMA HasCredentials ==
    ASSUME env \in F!Environments, F!Loads(env)
    PROVE  /\ F!config.provider = "blockfrost" => F!config.projectId
           /\ ~F!config.nftcdn => ~env.nftcdnSubdomain
<1>1. /\ env.nftcdnKey \in {"unset", "malformed", "set"} /\ env.nftcdnSubdomain \in BOOLEAN
      /\ env.nftcdnKey # "malformed" /\ env.nftcdnSubdomain = (env.nftcdnKey # "unset")
      /\ env.provider = "blockfrost" => env.projectId = "set"
  BY DEF F!Environments, F!Loads, F!WellFormed, F!Complete
<1> QED BY <1>1 DEF F!config, F!loadConfig

LEMMA ServesStarts == env \in Envs /\ F!FrontStart => Serves
<1> SUFFICES ASSUME env \in Envs, F!FrontStart PROVE Serves
  OBVIOUS
<1>1. env \in F!Environments /\ reply.code = "" /\ reply.image = 0
  BY FrontRanges, AnsweredFields DEF F!FrontStart
<1> QED BY <1>1, HasCredentials DEF Serves, F!ServesWhatItHas

LEMMA ServesStep == Serves /\ F!FrontNext => Serves'
<1> SUFFICES ASSUME Serves, F!FrontNext PROVE Serves'
  OBVIOUS
<1>0. env' = env /\ env \in Envs /\ env \in F!Environments /\ F!Loads(env) /\ F!config' = F!config
  BY FrontRanges DEF Serves, F!FrontNext, F!config, F!loadConfig
<1> DEFINE Honest(r) ==
              /\ r.code = "FEATURE_UNAVAILABLE" => ~F!config.nftcdn \/ ~F!config.configUrl
              /\ r.image # 0 =>
                    /\ r.image \in NFTCDN_SIZES
                    /\ \A size \in NFTCDN_SIZES : size >= r.wanted => r.image >= r.wanted
<1> SUFFICES Honest(reply')
  BY <1>0, HasCredentials DEF Serves, F!ServesWhatItHas
<1>1. ASSUME reply'.code # "FEATURE_UNAVAILABLE", reply'.image = 0 PROVE Honest(reply')
  BY <1>1
<1>2. CASE reply' = F!Answered
  BY <1>1, <1>2, AnsweredFields
<1>3. CASE \E text : reply' \in F!Errors(text)
  BY <1>1, <1>3, ErrorFields
<1>4. CASE F!Bug \/ F!NotFound \/ F!BadUrls \/ F!Health \/ reply' = F!Reply(429, "RATE_LIMITED", {})
           \/ reply' = F!Reply(400, "BAD_REQUEST", {})
  <2>1. \/ reply' = F!Answered \/ reply' = F!Reply(500, "INTERNAL", {})
        \/ reply' = F!Reply(429, "RATE_LIMITED", {}) \/ reply' = F!Reply(400, "BAD_REQUEST", {})
        \/ \E text : reply' = F!Reply(404, "NOT_FOUND", text)
        \/ \E text : reply' = F!Reply(400, "FST_ERR_BAD_URL", text)
    BY <1>4 DEF F!Bug, F!NotFound, F!BadUrls, F!Health
  <2>2. CASE reply' = F!Answered
    BY <1>2, <2>2
  <2>3. CASE reply' # F!Answered
    <3>1. reply'.code \in {"INTERNAL", "RATE_LIMITED", "BAD_REQUEST", "NOT_FOUND", "FST_ERR_BAD_URL"}
          /\ reply'.image = 0
      BY <2>1, <2>3 DEF F!Reply
    <3> QED BY <1>1, <3>1
  <2> QED BY <2>2, <2>3
<1>5. CASE F!Media
  <2>1. CASE reply' = F!Reply(400, "BAD_REQUEST", {})
    BY <1>4, <2>1
  <2>2. CASE ~F!config.nftcdn /\ reply' = F!Unavailable
    <3>1. reply'.image = 0
      BY <2>2 DEF F!Unavailable, F!Reply
    <3> QED BY <2>2, <3>1
  <2>3. ASSUME NEW wanted \in Wanted,
               reply' = [F!Answered EXCEPT !.image = F!snapSize(wanted), !.wanted = wanted]
        PROVE  Honest(reply')
    <3>1. reply'.code = "" /\ reply'.image = F!snapSize(wanted) /\ reply'.wanted = wanted
      BY <2>3, AnsweredFields
    <3> QED BY <3>1, SnappedSize
  <2> QED BY <1>5, <2>1, <2>2, <2>3 DEF F!Media
<1>6. CASE F!Config
  <2>1. CASE reply' = F!Answered
    BY <1>2, <2>1
  <2>2. CASE ~F!config.configUrl /\ reply' = F!Unavailable
    <3>1. reply'.image = 0
      BY <2>2 DEF F!Unavailable, F!Reply
    <3> QED BY <2>2, <3>1
  <2> QED BY <1>6, <2>1, <2>2 DEF F!Config
<1>7. CASE F!Reads \/ F!NamesAWallet
  BY <1>2, <1>3, <1>4, <1>7 DEF F!Reads, F!NamesAWallet
<1>8. CASE UNCHANGED <<reply, logged>>
  BY <1>0, <1>8 DEF Serves, F!ServesWhatItHas
<1>9. ASSUME NEW c, NEW proxied, NEW claim, F!Requests(c, proxied, claim) PROVE Honest(reply')
  <2> HIDE DEF Honest
  <2> QED BY <1>4, <1>5, <1>6, <1>7, <1>9 DEF F!Requests
<1>10. ASSUME NEW key, F!WindowEnds(key) PROVE Honest(reply')
  BY <1>8, <1>10 DEF F!WindowEnds
<1> HIDE DEF Honest
<1> QED BY <1>4, <1>9, <1>10 DEF F!FrontNext

-----------------------------------------------------------------------------
(* The service.                                                             *)

FrontInv == Charged /\ F!NothingPersonalLeaves /\ Serves

LEMMA FrontStarts == ServiceInit => FrontInv
<1>1. F!FrontStart /\ env \in Envs => FrontInv
  BY ChargedStarts, NothingPersonalStarts, ServesStarts DEF FrontInv
<1>2. NoFront => F!FrontStart /\ (Envs # {} => env \in Envs)
  BY DEF NoFront
<1> QED BY <1>1, <1>2, FrontRanges DEF ServiceInit, F!FrontInit

LEMMA FrontStep ==
    FrontInv /\ [ServiceNext]_<<part, processVars, frontVars, discoveryVars>> => FrontInv'
<1> SUFFICES ASSUME FrontInv, [ServiceNext]_<<part, processVars, frontVars, discoveryVars>>
             PROVE  FrontInv'
  OBVIOUS
<1>1. CASE F!FrontNext
  BY <1>1, ChargedStep, NothingPersonalStep, ServesStep DEF FrontInv
<1>2. CASE UNCHANGED frontVars
  <2>1. UNCHANGED <<env, current, admitted, reply, logged>>
    BY <1>2 DEF frontVars
  <2>2. F!config' = F!config
    BY <2>1 DEF F!config
  <2>3. Charged'
    BY <2>1, <2>2 DEF FrontInv, Charged, F!OneBudgetPerCaller, F!Limited, F!Trusted
  <2> QED BY <2>1, <2>2, <2>3 DEF FrontInv, F!NothingPersonalLeaves, Serves, F!ServesWhatItHas
<1> QED BY <1>1, <1>2 DEF ServiceNext, Runs, Answers, Discovers

\* A proxy entry trusts the callers it names, however it is spelled, and no more
\* than the narrowest range allowed; a process that runs has what its settings
\* promise (parseTrustedProxies and loadConfig of src/config/index.ts).
THEOREM ServiceRunsAsConfigured == ServiceSpec => []RunsAsConfigured
<1>1. FrontInv => RunsAsConfigured
  BY TrustHolds, FrontRanges DEF FrontInv, Charged, Serves, RunsAsConfigured
<1> QED BY <1>1, FrontStarts, FrontStep, PTL DEF ServiceSpec

\* Whatever it claims to be, a caller whom TRUST_PROXY does not name spends its own
\* budget, all of it and nobody else's (trustProxy and the limiter of
\* src/http/server.ts).
THEOREM ServiceOneBudget == ServiceSpec => []OneBudgetPerCaller
<1>1. FrontInv => OneBudgetPerCaller
  BY DEF FrontInv, Charged, OneBudgetPerCaller
<1> QED BY <1>1, FrontStarts, FrontStep, PTL DEF ServiceSpec

\* No error names a wallet but the two that repeat their URL, no line of a retry
\* does, and no line of a request shows a segment that is a stake address or a
\* transaction: of identifiers of every length and whatever else is in the text
\* (src/http/logging.ts and the error handler of server.ts).
THEOREM ServiceNothingPersonal == ServiceSpec => []NothingPersonalLeaves
<1>1. FrontInv => NothingPersonalLeaves
  BY DEF FrontInv, NothingPersonalLeaves
<1> QED BY <1>1, FrontStarts, FrontStep, PTL DEF ServiceSpec

-----------------------------------------------------------------------------
(* Discovery: what the lists are made of.                                   *)

\* D's operator is the one of the library.
LEMMA DiscoveryFlattens == \A seqs : D!FlattenSeq(seqs) = FlattenSeq(seqs)
BY Zenon DEF D!FlattenSeq, FlattenSeq

\* f is the elements of a list at some of its places, in order.
TakenFrom(A, list, places, f) ==
    /\ f \in Seq(A)
    /\ \E place \in [1..Len(f) -> 1..Len(list)] :
          /\ \A i, j \in 1..Len(f) : i < j => place[i] < place[j]
          /\ \A i \in 1..Len(f) : place[i] \in places /\ list[place[i]] = f[i]
          /\ \A k \in places : \E i \in 1..Len(f) : place[i] = k

\* The elements at some places come from those, in order.
LEMMA AtIs ==
    ASSUME NEW A, NEW list \in Seq(A), NEW places \in SUBSET DOMAIN list, NEW f, f = D!At(list, places)
    PROVE  TakenFrom(A, list, places, f)
<1> DEFINE seqs == [i \in DOMAIN list |-> IF i \in places THEN <<list[i]>> ELSE <<>>]
           n == Len(list)
<1>1. n \in Nat /\ DOMAIN list = 1..n /\ \A i \in 1..n : list[i] \in A
  BY ElementOfSeq
<1>2. DOMAIN seqs = 1..n /\ \A i \in 1..n : seqs[i] = IF i \in places THEN <<list[i]>> ELSE <<>>
  BY <1>1
<1>3. seqs = [i \in 1..n |-> seqs[i]]
  BY <1>1
<1>4. f = FlattenSeq(seqs)
  BY DiscoveryFlattens DEF D!At
<1> HIDE DEF seqs, n
<1>5. \A i \in 1..n : seqs[i] \in Seq(A)
  <2>1. \A x \in A : <<x>> \in Seq(A)
    OBVIOUS
  <2>2. <<>> \in Seq(A)
    OBVIOUS
  <2> QED BY <1>1, <1>2, <2>1, <2>2
<1>6. seqs \in Seq(Seq(A)) /\ Len(seqs) = n
  <2>1. ASSUME NEW B, NEW s, s = [i \in 1..n |-> s[i]], \A i \in 1..n : s[i] \in B
        PROVE  s \in Seq(B) /\ Len(s) = n
    <3>1. s \in [1..n -> B]
      BY <2>1
    <3> QED BY <1>1, <3>1
  <2> QED BY <1>3, <1>5, <2>1
<1>7. Optional(A, seqs)
  BY <1>1, <1>2 DEF Optional
<1>8. f \in Seq(A) /\ \E place : PlacedIn(place, seqs, f)
  BY <1>4, <1>6, <1>7, FlattenOptional
<1>9. PICK place : PlacedIn(place, seqs, f)
  BY <1>8
<1>10. /\ place \in [1..Len(f) -> 1..n]
       /\ \A i, j \in 1..Len(f) : i < j => place[i] < place[j]
       /\ \A i \in 1..Len(f) : seqs[place[i]] = <<f[i]>>
       /\ \A k \in 1..n : seqs[k] # <<>> => \E i \in 1..Len(f) : place[i] = k
  BY <1>6, <1>9 DEF PlacedIn
<1>11. \A x : <<x>> # <<>> /\ <<x>>[1] = x
  OBVIOUS
<1>12. ASSUME NEW i \in 1..Len(f) PROVE place[i] \in places /\ list[place[i]] = f[i]
  <2>1. place[i] \in 1..n /\ seqs[place[i]] = <<f[i]>>
    BY <1>10
  <2>2. place[i] \in places
    BY <1>2, <1>11, <2>1
  <2>3. <<list[place[i]]>> = <<f[i]>>
    BY <1>2, <2>1, <2>2
  <2> QED BY <1>11, <2>2, <2>3
<1>13. ASSUME NEW k \in places PROVE \E i \in 1..Len(f) : place[i] = k
  <2>1. k \in 1..n /\ seqs[k] = <<list[k]>>
    BY <1>1, <1>2
  <2> QED BY <1>10, <1>11, <2>1
<1> QED BY <1>8, <1>10, <1>12, <1>13 DEF n, TakenFrom

\* Those of a list that are in a set, each where the list has it.
LEMMA ThoseAre ==
    ASSUME NEW A, NEW list \in Seq(A), NEW set, NEW f, f = D!Those(list, set)
    PROVE  /\ f \in Seq(A)
           /\ ToSet(f) = ToSet(list) \cap set
           /\ \A i, j \in DOMAIN f : i < j =>
                 \E k, l \in DOMAIN list : k < l /\ list[k] = f[i] /\ list[l] = f[j]
           /\ (\A k, l \in DOMAIN list : list[k] = list[l] => k = l)
                 => \A i, j \in DOMAIN f : f[i] = f[j] => i = j
<1> DEFINE places == {i \in DOMAIN list : list[i] \in set}
           n == Len(list)
<1>1. n \in Nat /\ DOMAIN list = 1..n
  OBVIOUS
<1>2. places \in SUBSET DOMAIN list /\ f = D!At(list, places)
  BY DEF D!Those
<1>3. \A k : k \in places <=> k \in 1..n /\ list[k] \in set
  BY <1>1
<1> HIDE DEF places
<1>3a. TakenFrom(A, list, places, f)
  BY <1>2, AtIs
<1>4. f \in Seq(A)
  BY <1>3a DEF TakenFrom
<1>5. PICK place \in [1..Len(f) -> 1..n] :
            /\ \A i, j \in 1..Len(f) : i < j => place[i] < place[j]
            /\ \A i \in 1..Len(f) : place[i] \in places /\ list[place[i]] = f[i]
            /\ \A k \in places : \E i \in 1..Len(f) : place[i] = k
  BY <1>3a DEF TakenFrom, n
<1> HIDE DEF n
<1>6. DOMAIN f = 1..Len(f) /\ Len(f) \in Nat
  BY <1>4
<1>7. ToSet(f) = ToSet(list) \cap set
  <2>1. \A x : x \in ToSet(f) <=> \E i \in 1..Len(f) : f[i] = x
    BY <1>6 DEF ToSet
  <2>2. \A x : x \in ToSet(list) <=> \E k \in 1..n : list[k] = x
    BY <1>1 DEF ToSet
  <2>3. \A i \in 1..Len(f) : place[i] \in 1..n
    OBVIOUS
  <2>4. ASSUME NEW x PROVE x \in ToSet(f) <=> x \in ToSet(list) /\ x \in set
    <3>1. ASSUME x \in ToSet(f) PROVE x \in ToSet(list) /\ x \in set
      BY <1>3, <1>5, <2>1, <2>2, <2>3, <3>1
    <3>2. ASSUME x \in ToSet(list), x \in set PROVE x \in ToSet(f)
      <4>1. PICK k \in 1..n : list[k] = x
        BY <2>2, <3>2
      <4>2. PICK i \in 1..Len(f) : place[i] = k
        BY <1>3, <1>5, <3>2, <4>1
      <4> QED BY <1>5, <2>1, <4>1, <4>2
    <3> QED BY <3>1, <3>2
  <2> QED BY <2>4
<1>8. ASSUME NEW i \in DOMAIN f, NEW j \in DOMAIN f, i < j
      PROVE  \E k, l \in DOMAIN list : k < l /\ list[k] = f[i] /\ list[l] = f[j]
  BY <1>1, <1>5, <1>6, <1>8
<1>9. ASSUME \A k, l \in DOMAIN list : list[k] = list[l] => k = l,
             NEW i \in DOMAIN f, NEW j \in DOMAIN f, f[i] = f[j]
      PROVE  i = j
  <2>1. place[i] \in DOMAIN list /\ place[j] \in DOMAIN list /\ list[place[i]] = list[place[j]]
    BY <1>1, <1>5, <1>6, <1>9
  <2>2. place[i] = place[j]
    BY <1>9, <2>1
  <2>3. ~(i < j) /\ ~(j < i)
    BY <1>1, <1>5, <1>6, <2>1, <2>2
  <2> QED BY <1>6, <2>3
<1> QED BY <1>4, <1>7, <1>8, <1>9

\* distinct: the same elements, each once.
LEMMA DistinctIs ==
    ASSUME NEW A, NEW list \in Seq(A), NEW f, f = D!Distinct(list)
    PROVE  /\ f \in Seq(A) /\ ToSet(f) = ToSet(list)
           /\ \A i, j \in DOMAIN f : f[i] = f[j] => i = j
<1> DEFINE places == {i \in DOMAIN list : \A j \in 1..(i - 1) : list[j] # list[i]}
           n == Len(list)
<1>1. n \in Nat /\ DOMAIN list = 1..n
  OBVIOUS
<1>2. places \in SUBSET DOMAIN list /\ f = D!At(list, places)
  BY DEF D!Distinct
<1>3. \A k : k \in places <=> k \in 1..n /\ \A j \in 1..(k - 1) : list[j] # list[k]
  BY <1>1
<1> HIDE DEF places
<1>3a. TakenFrom(A, list, places, f)
  BY <1>2, AtIs
<1>4. f \in Seq(A)
  BY <1>3a DEF TakenFrom
<1>5. PICK place \in [1..Len(f) -> 1..n] :
            /\ \A i, j \in 1..Len(f) : i < j => place[i] < place[j]
            /\ \A i \in 1..Len(f) : place[i] \in places /\ list[place[i]] = f[i]
            /\ \A k \in places : \E i \in 1..Len(f) : place[i] = k
  BY <1>3a DEF TakenFrom, n
<1> HIDE DEF n
<1>6. DOMAIN f = 1..Len(f) /\ Len(f) \in Nat /\ \A i \in 1..Len(f) : place[i] \in 1..n
  BY <1>4
  \* An element is first at the first of its places.
<1>7. ASSUME NEW k \in 1..n PROVE \E p \in places : list[p] = list[k]
  <2> DEFINE same == {i \in 1..n : list[i] = list[k]}
  <2>1. PICK p \in same : \A i \in same : p <= i
    <3>1. same \in SUBSET (1..n) /\ same # {}
      OBVIOUS
    <3> HIDE DEF same
    <3> QED BY <1>1, <3>1, FirstPlace
  <2>2. p \in 1..n /\ list[p] = list[k]
    OBVIOUS
  <2>3. \A j \in 1..(p - 1) : j \in 1..n /\ ~(p <= j)
    BY <1>1, <2>2
  <2>4. p \in places
    BY <1>3, <2>1, <2>2, <2>3
  <2> QED BY <2>2, <2>4
<1>8. ToSet(f) = ToSet(list)
  <2>1. \A x : x \in ToSet(f) <=> \E i \in 1..Len(f) : f[i] = x
    BY <1>6 DEF ToSet
  <2>2. \A x : x \in ToSet(list) <=> \E k \in 1..n : list[k] = x
    BY <1>1 DEF ToSet
  <2>3. ASSUME NEW x \in ToSet(f) PROVE x \in ToSet(list)
    BY <1>5, <1>6, <2>1, <2>2
  <2>4. ASSUME NEW x \in ToSet(list) PROVE x \in ToSet(f)
    <3>1. PICK k \in 1..n : list[k] = x
      BY <2>2
    <3>2. PICK p \in places : list[p] = x
      BY <1>7, <3>1
    <3>3. PICK i \in 1..Len(f) : place[i] = p
      BY <1>5
    <3> QED BY <1>5, <2>1, <3>2, <3>3
  <2> QED BY <2>3, <2>4
<1>9. ASSUME NEW i \in DOMAIN f, NEW j \in DOMAIN f, f[i] = f[j] PROVE i = j
  <2>1. ASSUME NEW k \in 1..Len(f), NEW l \in 1..Len(f), k < l PROVE f[k] # f[l]
    <3>1. place[k] < place[l] /\ place[k] \in 1..n /\ place[l] \in 1..n
      BY <1>5, <1>6, <2>1
    <3>2. place[k] \in 1..(place[l] - 1)
      BY <1>1, <3>1
    <3>3. list[place[k]] # list[place[l]]
      BY <1>3, <1>5, <3>2
    <3> QED BY <1>5, <3>3
  <2>2. ~(i < j) /\ ~(j < i)
    BY <1>6, <1>9, <2>1
  <2> QED BY <1>6, <2>2
<1> QED BY <1>4, <1>8, <1>9

-----------------------------------------------------------------------------
(* The groups of credentials.                                               *)

Credentials == {CredentialOf[i] : i \in DOMAIN CredentialOf}

Inputs == Plain \cup DOMAIN CredentialOf \cup {Bad}

\* The credentials asked for, each once.
LEMMA CredentialsAre ==
    ASSUME NEW inputs \in Seq(Inputs), NEW all, all = D!CredentialsOf(inputs)
    PROVE  /\ all \in Seq(Credentials)
           /\ \A x \in ToSet(inputs) \cap DOMAIN CredentialOf : CredentialOf[x] \in ToSet(all)
<1> DEFINE asked == D!Those(inputs, DOMAIN CredentialOf)
           each == [i \in DOMAIN asked |-> CredentialOf[asked[i]]]
           n == Len(asked)
<1>1. asked \in Seq(Inputs) /\ ToSet(asked) = ToSet(inputs) \cap DOMAIN CredentialOf
  BY ThoseAre
<1>2. all = D!Distinct(each)
  BY DEF D!CredentialsOf
<1>3. each = [i \in DOMAIN asked |-> CredentialOf[asked[i]]]
  OBVIOUS
<1> HIDE DEF asked, each
<1>4. n \in Nat /\ DOMAIN asked = 1..n /\ \A i \in 1..n : asked[i] \in DOMAIN CredentialOf
  BY <1>1 DEF ToSet
<1> HIDE DEF n
<1>5. each \in Seq(Credentials) /\ DOMAIN each = 1..n
  <2>1. each \in [1..n -> Credentials]
    BY <1>3, <1>4 DEF Credentials
  <2> QED BY <1>4, <2>1
<1>6. all \in Seq(Credentials) /\ ToSet(all) = ToSet(each)
  BY <1>2, <1>5, DistinctIs
<1>7. ASSUME NEW x \in ToSet(inputs) \cap DOMAIN CredentialOf PROVE CredentialOf[x] \in ToSet(each)
  <2>1. PICK i \in 1..n : asked[i] = x
    BY <1>1, <1>4 DEF ToSet
  <2>2. each[i] = CredentialOf[x] /\ i \in DOMAIN each
    BY <1>3, <1>4, <1>5, <2>1
  <2> QED BY <2>2 DEF ToSet
<1> QED BY <1>6, <1>7

\* A slice of a sequence holds what it has at the places of the slice.
LEMMA SliceHolds ==
    ASSUME NEW A, NEW s \in Seq(A), NEW lo \in Nat, lo > 0, NEW hi \in Int, hi <= Len(s)
    PROVE  /\ SubSeq(s, lo, hi) \in Seq(A)
           /\ \A j \in lo..hi : s[j] \in ToSet(SubSeq(s, lo, hi))
<1> DEFINE t == SubSeq(s, lo, hi)
<1>1. \A j \in lo..hi : j \in 1..Len(s)
  OBVIOUS
<1>2. lo \in Int /\ \A j \in lo..hi : s[j] \in A
  BY <1>1, ElementOfSeq
<1>3. /\ t \in Seq(A) /\ Len(t) = IF lo <= hi THEN hi - lo + 1 ELSE 0
      /\ \A j \in 1..(hi - lo + 1) : t[j] = s[lo + j - 1]
  BY <1>2, SubSeqProperties
<1> HIDE DEF t
<1>4. ASSUME NEW j \in lo..hi PROVE s[j] \in ToSet(t)
  <2> DEFINE i == j - lo + 1
  <2>1. i \in 1..(hi - lo + 1) /\ lo + i - 1 = j /\ lo <= hi
    OBVIOUS
  <2>2. i \in DOMAIN t /\ t[i] = s[j]
    BY <1>3, <2>1
  <2> QED BY <2>2 DEF ToSet
<1> QED BY <1>3, <1>4 DEF t

\* The group a place is in.
LEMMA GroupOf ==
    ASSUME NEW n \in Nat, NEW p \in Nat, p > 0, NEW m, m = (n + p - 1) \div p
    PROVE  /\ m \in Nat
           /\ \A j \in 1..n : \E g \in 1..m : (g - 1) * p + 1 <= j /\ j <= g * p
<1>1. m \in Int /\ n + p - 1 \in Nat /\ n + p - 1 < p * m + p /\ p * m <= n + p - 1
  <2>1. \A x \in Nat : x \div p \in Int /\ x < p * (x \div p) + p /\ p * (x \div p) <= x
    OBVIOUS
  <2> QED BY <2>1
<1>2. m \in Nat
  <2>1. ASSUME m < 0 PROVE FALSE
    <3>1. p * m + p <= 0
      <4>1. m + 1 <= 0 /\ m + 1 \in Int
        BY <1>1, <2>1
      <4>2. p * (m + 1) <= 0
        BY <4>1
      <4>3. p * (m + 1) = p * m + p
        BY <1>1
      <4> QED BY <4>2, <4>3
    <3> QED BY <1>1, <3>1
  <2> QED BY <1>1, <2>1
<1>4. ASSUME NEW j \in 1..n PROVE \E g \in 1..m : (g - 1) * p + 1 <= j /\ j <= g * p
  <2> DEFINE q == (j - 1) \div p
             g == q + 1
  <2>1. j - 1 \in Nat /\ q \in Nat /\ p * q <= j - 1 /\ j - 1 < p * q + p
    <3>1. \A x \in Nat : x \div p \in Nat /\ p * (x \div p) <= x /\ x < p * (x \div p) + p
      OBVIOUS
    <3> QED BY <3>1
  <2> HIDE DEF q
  <2>2. g \in Nat /\ (g - 1) * p < j /\ j <= g * p
    <3>1. (g - 1) * p = p * q /\ g * p = p * q + p /\ p * q \in Nat
      BY <2>1
    <3> QED BY <2>1, <3>1
  <2> HIDE DEF g
  <2>3. g * p \in Nat /\ (g - 1) * p \in Int /\ (g - 1) * p = g * p - p
    BY <2>2
  <2>4. g > 0
    <3>1. ASSUME g = 0 PROVE FALSE
      <4>1. g * p = 0
        BY <3>1
      <4> QED BY <2>2, <4>1
    <3> QED BY <2>2, <3>1
  <2>5. g <= m
    <3>1. ASSUME g > m PROVE FALSE
      <4>1. g * p >= p * m + p
        <5>1. (g - m - 1) * p >= 0
          BY <1>2, <2>2, <3>1
        <5>2. (g - m - 1) * p = g * p - p * m - p
          BY <1>2, <2>2
        <5>3. p * m \in Int
          BY <1>2
        <5> QED BY <2>3, <5>1, <5>2, <5>3
      <4>2. g * p <= n + p - 1
        BY <2>2, <2>3
      <4>3. p * m \in Int
        BY <1>2
      <4> QED BY <1>1, <2>3, <4>1, <4>2, <4>3
    <3> QED BY <1>2, <2>2, <3>1
  <2>6. (g - 1) * p + 1 <= j
    BY <2>2, <2>3
  <2> QED BY <1>2, <2>2, <2>4, <2>5, <2>6
<1> QED BY <1>2, <1>4

\* Every credential is in a group.
LEMMA GroupsAre ==
    ASSUME NEW inputs \in Seq(Inputs), NEW groups, groups = D!Groups(inputs)
    PROVE  /\ Len(groups) \in Nat /\ DOMAIN groups = 1..Len(groups)
           /\ groups = <<>> <=> Len(groups) = 0
           /\ \A g \in DOMAIN groups : groups[g] \in Seq(Credentials)
           /\ \A x \in ToSet(inputs) \cap DOMAIN CredentialOf :
                 \E g \in DOMAIN groups : CredentialOf[x] \in ToSet(groups[g])
<1> DEFINE all == D!CredentialsOf(inputs)
           n == Len(all)
           m == (n + ProbeSize - 1) \div ProbeSize
           lo(g) == (g - 1) * ProbeSize + 1
           hi(g) == IF g * ProbeSize < n THEN g * ProbeSize ELSE n
<1>1. ProbeSize \in Nat /\ ProbeSize > 0
  BY ServiceAssumption DEF ServiceAssumption, D!DiscoveryConstants
<1>2. /\ all \in Seq(Credentials) /\ n \in Nat /\ DOMAIN all = 1..n
      /\ \A x \in ToSet(inputs) \cap DOMAIN CredentialOf : CredentialOf[x] \in ToSet(all)
  BY CredentialsAre
<1>3. groups = [g \in 1..m |-> SubSeq(all, lo(g), hi(g))]
  BY DEF D!Groups
<1> HIDE DEF all
<1>4. /\ m \in Nat
      /\ \A j \in 1..n : \E g \in 1..m : (g - 1) * ProbeSize + 1 <= j /\ j <= g * ProbeSize
  BY <1>1, <1>2, GroupOf
<1> HIDE DEF n, m
<1>5. ASSUME NEW g \in 1..m PROVE lo(g) \in Nat /\ lo(g) > 0 /\ hi(g) \in Int /\ hi(g) <= n
  <2>1. (g - 1) * ProbeSize \in Nat /\ g * ProbeSize \in Nat
    BY <1>1, <1>4
  <2> QED BY <1>2, <2>1
<1>6. DOMAIN groups = 1..m /\ Len(groups) = m /\ (groups = <<>> <=> m = 0)
  <2> HIDE DEF lo, hi
  <2>1. DOMAIN groups = 1..m /\ Len(groups) = m
    BY <1>3, <1>4
  <2>2. groups \in Seq({groups[g] : g \in 1..m})
    <3>1. groups \in [1..m -> {groups[g] : g \in 1..m}]
      BY <1>3
    <3> QED BY <1>4, <3>1
  <2> QED BY <1>4, <2>1, <2>2, EmptySeq
<1>7. ASSUME NEW g \in 1..m
      PROVE  /\ groups[g] \in Seq(Credentials)
             /\ \A j \in lo(g)..hi(g) : all[j] \in ToSet(groups[g])
  <2>1. groups[g] = SubSeq(all, lo(g), hi(g))
    BY <1>3
  <2> HIDE DEF lo, hi
  <2> QED BY <1>2, <1>5, <2>1, SliceHolds DEF n
<1>8. ASSUME NEW x \in ToSet(inputs) \cap DOMAIN CredentialOf
      PROVE  \E g \in 1..m : CredentialOf[x] \in ToSet(groups[g])
  <2>1. PICK j \in 1..n : all[j] = CredentialOf[x]
    BY <1>2 DEF ToSet
  <2>2. PICK g \in 1..m : (g - 1) * ProbeSize + 1 <= j /\ j <= g * ProbeSize
    BY <1>4
  <2>3. j \in lo(g)..hi(g)
    <3>1. (g - 1) * ProbeSize \in Nat /\ g * ProbeSize \in Nat
      BY <1>1, <1>4
    <3> QED BY <1>2, <2>2, <3>1
  <2> HIDE DEF lo, hi
  <2> QED BY <1>7, <2>1, <2>3
<1> QED BY <1>4, <1>6, <1>7, <1>8

\* The halves of a group hold its members.
LEMMA HalvesHold ==
    ASSUME NEW A, NEW group \in Seq(A)
    PROVE  \E left, right \in Seq(A) :
              D!Split(group) = <<left, right>> /\ ToSet(group) \subseteq ToSet(left) \cup ToSet(right)
<1> DEFINE n == Len(group)
           middle == (n + 1) \div 2
           left == SubSeq(group, 1, middle)
           right == SubSeq(group, middle + 1, n)
<1>1. n \in Nat /\ DOMAIN group = 1..n
  OBVIOUS
<1>2. middle \in Nat /\ middle <= n
  <2>1. \A x \in Nat : x \div 2 \in Nat /\ 2 * (x \div 2) <= x
    OBVIOUS
  <2>2. n + 1 \in Nat
    BY <1>1
  <2>3. middle \in Nat /\ 2 * middle <= n + 1
    BY <2>1, <2>2
  <2> HIDE DEF n, middle
  <2>4. n = 0 => middle = 0
    BY <2>3
  <2> QED BY <1>1, <2>3, <2>4 DEF n
<1>3. D!Split(group) = <<left, right>>
  BY DEF D!Split
<1> HIDE DEF middle
<1>4. left \in Seq(A) /\ \A j \in 1..middle : group[j] \in ToSet(left)
  BY <1>1, <1>2, SliceHolds
<1>5. right \in Seq(A) /\ \A j \in (middle + 1)..n : group[j] \in ToSet(right)
  BY <1>1, <1>2, SliceHolds
<1> HIDE DEF left, right
<1>6. ASSUME NEW x \in ToSet(group) PROVE x \in ToSet(left) \cup ToSet(right)
  <2>1. PICK j \in 1..n : group[j] = x
    BY <1>1 DEF ToSet
  <2>2. j \in 1..middle \/ j \in (middle + 1)..n
    BY <1>1, <1>2
  <2> QED BY <1>4, <1>5, <2>1, <2>2
<1> QED BY <1>3, <1>4, <1>5, <1>6

-----------------------------------------------------------------------------
(* Workers.                                                                 *)

\* D's operator is the one of the library.
LEMMA DiscoveryRange == \A s : D!ToSet(s) = ToSet(s)
BY DEF D!ToSet, ToSet

ProberStates == [group : Nat, pending : Seq(Seq(Credentials)), found : Seq(Credentials)]

\* A worker has found k, or has a group with k still to probe.
KeepsTrack(prober, k) ==
    k \in ToSet(prober.found) \/ \E i \in DOMAIN prober.pending : k \in ToSet(prober.pending[i])

\* A worker with group g has all of it before it, and an idle one has nothing.
LEMMA ProberStarts ==
    ASSUME NEW groups, Len(groups) \in Nat, DOMAIN groups = 1..Len(groups),
           \A g \in 1..Len(groups) : groups[g] \in Seq(Credentials),
           NEW g \in Nat, NEW p, p = D!Prober(groups, g)
    PROVE  /\ p \in ProberStates /\ ToSet(p.found) = {}
           /\ g \in 1..Len(groups) => p.group = g /\ p.pending # <<>> /\ \A k \in ToSet(groups[g]) : KeepsTrack(p, k)
           /\ g \notin 1..Len(groups) => p.group = 0
<1>1. CASE g \in 1..Len(groups)
  <2>1. p = [group |-> g, pending |-> <<groups[g]>>, found |-> <<>>] /\ groups[g] \in Seq(Credentials)
    BY <1>1 DEF D!Prober
  <2>2. p.group = g /\ p.pending = <<groups[g]>> /\ p.found = <<>>
    BY <2>1
  <2>3. p \in ProberStates
    BY <2>1 DEF ProberStates
  <2>4. 1 \in DOMAIN p.pending /\ p.pending[1] = groups[g]
    BY <2>2
  <2>5. ToSet(p.found) = {}
    BY <2>2 DEF ToSet
  <2>6. p.pending # <<>>
    BY <2>2
  <2>7. \A k \in ToSet(groups[g]) : KeepsTrack(p, k)
    BY <2>4 DEF KeepsTrack
  <2> QED BY <1>1, <2>2, <2>3, <2>5, <2>6, <2>7
<1>2. CASE g \notin 1..Len(groups)
  <2>1. p = [group |-> 0, pending |-> <<>>, found |-> <<>>]
    BY <1>2 DEF D!Prober, D!IdleProber
  <2>2. p \in ProberStates /\ p.group = 0 /\ p.found = <<>>
    BY <2>1 DEF ProberStates
  <2>3. ToSet(p.found) = {}
    BY <2>2 DEF ToSet
  <2> QED BY <1>2, <2>2, <2>3
<1> QED BY <1>1, <1>2

\* A probe loses track of nothing that was used: a group is put aside when
\* nothing in it is used, kept when it is a single one, or split.
LEMMA ProbeKeepsTrack ==
    ASSUME NEW p \in ProberStates, p.pending # <<>>, ToSet(p.found) \subseteq used,
           NEW before, before \subseteq used, NEW q, q = D!Probed(p)
    PROVE  /\ q \in ProberStates /\ q.group = p.group /\ ToSet(q.found) \subseteq used
           /\ \A k \in before : KeepsTrack(p, k) => KeepsTrack(q, k)
<1> DEFINE group == Head(p.pending)
           rest == Tail(p.pending)
<1>1. /\ p.group \in Nat /\ p.pending \in Seq(Seq(Credentials)) /\ p.found \in Seq(Credentials)
      /\ p = [group |-> p.group, pending |-> p.pending, found |-> p.found]
  BY DEF ProberStates
<1>2. /\ group \in Seq(Credentials) /\ rest \in Seq(Seq(Credentials))
      /\ \A i \in DOMAIN p.pending : p.pending[i] = group \/ \E j \in DOMAIN rest : p.pending[i] = rest[j]
  <2>1. p.pending \in Seq(Seq(Credentials)) /\ p.pending # <<>>
    BY <1>1
  <2>2. /\ group \in Seq(Credentials) /\ rest \in Seq(Seq(Credentials)) /\ group = p.pending[1]
        /\ Len(rest) = Len(p.pending) - 1 /\ \A i \in 1..Len(rest) : rest[i] = p.pending[i + 1]
    BY <2>1, HeadTailProperties
  <2> HIDE DEF group, rest
  <2>3. ASSUME NEW i \in DOMAIN p.pending, i # 1 PROVE \E j \in DOMAIN rest : p.pending[i] = rest[j]
    <3>1. i \in 1..Len(p.pending) /\ Len(p.pending) \in Nat /\ DOMAIN rest = 1..Len(rest)
      BY <2>1, <2>2
    <3>2. i - 1 \in 1..Len(rest) /\ (i - 1) + 1 = i
      BY <2>2, <2>3, <3>1
    <3> QED BY <2>2, <3>1, <3>2
  <2> QED BY <2>2, <2>3
<1>3. q = IF ToSet(group) \cap used = {} THEN [p EXCEPT !.pending = rest]
          ELSE IF Len(group) = 1 THEN [p EXCEPT !.pending = rest, !.found = @ \o group]
          ELSE [p EXCEPT !.pending = D!Split(group) \o rest]
  BY DiscoveryRange DEF D!Probed
<1> HIDE DEF group, rest
<1>4. CASE ToSet(group) \cap used = {}
  <2>1. q = [group |-> p.group, pending |-> rest, found |-> p.found]
    BY <1>1, <1>3, <1>4
  <2>2. ASSUME NEW k \in before, KeepsTrack(p, k) PROVE KeepsTrack(q, k)
    <3>1. k \notin ToSet(group) /\ q.pending = rest /\ q.found = p.found
      BY <1>4, <2>1
    <3> QED BY <1>2, <2>2, <3>1 DEF KeepsTrack
  <2>3. q \in ProberStates /\ q.group = p.group /\ q.found = p.found
    BY <1>1, <1>2, <2>1 DEF ProberStates
  <2> QED BY <2>2, <2>3
<1>5. CASE ~(ToSet(group) \cap used = {}) /\ Len(group) = 1
  <2>1. q = [group |-> p.group, pending |-> rest, found |-> p.found \o group]
    BY <1>1, <1>3, <1>5
  <2>2. p.found \o group \in Seq(Credentials) /\ ToSet(p.found \o group) = ToSet(p.found) \cup ToSet(group)
    <3>1. /\ p.found \o group \in Seq(Credentials)
          /\ Len(p.found \o group) = Len(p.found) + Len(group)
          /\ \A i \in 1..(Len(p.found) + Len(group)) :
                (p.found \o group)[i] = IF i <= Len(p.found) THEN p.found[i] ELSE group[i - Len(p.found)]
      BY <1>1, <1>2, ConcatProperties
    <3>2. /\ DOMAIN (p.found \o group) = 1..(Len(p.found) + Len(group))
          /\ Len(p.found) \in Nat /\ Len(group) \in Nat
          /\ DOMAIN p.found = 1..Len(p.found) /\ DOMAIN group = 1..Len(group)
      BY <1>1, <1>2, <3>1
    <3>3. ASSUME NEW x \in ToSet(p.found \o group) PROVE x \in ToSet(p.found) \cup ToSet(group)
      <4>1. PICK i \in 1..(Len(p.found) + Len(group)) : x = (p.found \o group)[i]
        BY <3>2 DEF ToSet
      <4>2. CASE i <= Len(p.found)
        <5>1. i \in DOMAIN p.found /\ x = p.found[i]
          BY <3>1, <3>2, <4>1, <4>2
        <5> QED BY <5>1 DEF ToSet
      <4>3. CASE ~(i <= Len(p.found))
        <5>1. i - Len(p.found) \in DOMAIN group /\ x = group[i - Len(p.found)]
          BY <3>1, <3>2, <4>1, <4>3
        <5> QED BY <5>1 DEF ToSet
      <4> QED BY <4>2, <4>3
    <3>4. ASSUME NEW x \in ToSet(p.found) PROVE x \in ToSet(p.found \o group)
      <4>1. PICK i \in 1..Len(p.found) : x = p.found[i]
        BY <3>2 DEF ToSet
      <4>2. i \in DOMAIN (p.found \o group) /\ (p.found \o group)[i] = x
        BY <3>1, <3>2, <4>1
      <4> QED BY <4>2 DEF ToSet
    <3>5. ASSUME NEW x \in ToSet(group) PROVE x \in ToSet(p.found \o group)
      <4>1. PICK i \in 1..Len(group) : x = group[i]
        BY <3>2 DEF ToSet
      <4>2. /\ i + Len(p.found) \in DOMAIN (p.found \o group)
            /\ (p.found \o group)[i + Len(p.found)] = group[(i + Len(p.found)) - Len(p.found)]
            /\ (i + Len(p.found)) - Len(p.found) = i
        BY <3>1, <3>2, <4>1
      <4>3. (p.found \o group)[i + Len(p.found)] = x
        BY <4>1, <4>2
      <4> QED BY <4>2, <4>3 DEF ToSet
    <3> QED BY <3>1, <3>3, <3>4, <3>5
  <2>3. ToSet(group) \subseteq used
    <3>1. DOMAIN group = 1..1
      BY <1>2, <1>5
    <3>2. ToSet(group) = {group[1]}
      BY <3>1 DEF ToSet
    <3> QED BY <1>5, <3>2
  <2>4. q \in ProberStates /\ q.group = p.group /\ q.found = p.found \o group /\ q.pending = rest
    BY <1>1, <1>2, <2>1, <2>2 DEF ProberStates
  <2>5. ASSUME NEW k \in before, KeepsTrack(p, k) PROVE KeepsTrack(q, k)
    BY <1>2, <2>2, <2>4, <2>5 DEF KeepsTrack
  <2>6. ToSet(q.found) \subseteq used
    BY <2>2, <2>3, <2>4
  <2> QED BY <2>4, <2>5, <2>6
<1>6. CASE ~(ToSet(group) \cap used = {}) /\ ~(Len(group) = 1)
  <2>1. PICK left, right \in Seq(Credentials) :
           D!Split(group) = <<left, right>> /\ ToSet(group) \subseteq ToSet(left) \cup ToSet(right)
    BY <1>2, HalvesHold
  <2> DEFINE pending == <<left, right>> \o rest
  <2>2. q = [group |-> p.group, pending |-> pending, found |-> p.found]
    BY <1>1, <1>3, <1>6, <2>1
  <2>3. /\ pending \in Seq(Seq(Credentials)) /\ Len(pending) = 2 + Len(rest)
        /\ pending[1] = left /\ pending[2] = right /\ \A j \in 1..Len(rest) : pending[j + 2] = rest[j]
    <3>1. <<left, right>> \in Seq(Seq(Credentials)) /\ Len(<<left, right>>) = 2
      BY <2>1
    <3>2. /\ pending \in Seq(Seq(Credentials)) /\ Len(pending) = 2 + Len(rest)
          /\ \A i \in 1..(2 + Len(rest)) : pending[i] = IF i <= 2 THEN <<left, right>>[i] ELSE rest[i - 2]
      BY <1>2, <3>1, ConcatProperties
    <3> HIDE DEF pending
    <3>3. Len(rest) \in Nat
      BY <1>2
    <3>4. pending[1] = left /\ pending[2] = right
      BY <3>2, <3>3
    <3>5. ASSUME NEW j \in 1..Len(rest) PROVE pending[j + 2] = rest[j]
      <4>1. j + 2 \in 1..(2 + Len(rest)) /\ ~(j + 2 <= 2) /\ (j + 2) - 2 = j
        BY <3>3
      <4> QED BY <3>2, <4>1
    <3> QED BY <3>2, <3>4, <3>5
  <2> HIDE DEF pending
  <2>4. q \in ProberStates /\ q.group = p.group /\ q.found = p.found /\ q.pending = pending
    BY <1>1, <2>2, <2>3 DEF ProberStates
  <2>5. /\ Len(rest) \in Nat /\ DOMAIN rest = 1..Len(rest) /\ DOMAIN pending = 1..Len(pending)
        /\ 1 \in DOMAIN pending /\ 2 \in DOMAIN pending
        /\ \A j \in DOMAIN rest : j + 2 \in DOMAIN pending
    BY <1>2, <2>3
  <2>6. ASSUME NEW k \in before, KeepsTrack(p, k) PROVE KeepsTrack(q, k)
    <3>1. CASE k \in ToSet(p.found)
      BY <2>4, <3>1 DEF KeepsTrack
    <3>2. CASE \E i \in DOMAIN p.pending : k \in ToSet(p.pending[i])
      <4>1. k \in ToSet(group) \/ \E j \in DOMAIN rest : k \in ToSet(rest[j])
        BY <1>2, <3>2
      <4>2. \E i \in DOMAIN pending : k \in ToSet(pending[i])
        <5>1. CASE k \in ToSet(group)
          BY <2>1, <2>3, <2>5, <5>1
        <5>2. CASE \E j \in DOMAIN rest : k \in ToSet(rest[j])
          BY <2>3, <2>5, <5>2
        <5> QED BY <4>1, <5>1, <5>2
      <4> QED BY <2>4, <4>2 DEF KeepsTrack
    <3> QED BY <2>6, <3>1, <3>2 DEF KeepsTrack
  <2> QED BY <2>4, <2>6
<1> QED BY <1>4, <1>5, <1>6

-----------------------------------------------------------------------------
(* A request.                                                               *)

Wallets == [st : {"idle", "reading", "done", "failed", "400", "501"}, inputs : Seq(Inputs),
            before : SUBSET D!Keys, answer : Seq(Inputs)]

\* Each input once, and all of them an address or a credential.
InputsFit ==
    /\ Bad \notin ToSet(wallet.inputs) /\ wallet.before \subseteq used
    /\ \A i, j \in DOMAIN wallet.inputs : wallet.inputs[i] = wallet.inputs[j] => i = j

\* What a lookup answered.
LookupsFit ==
    \A a \in DOMAIN lookups :
        /\ a \in Plain /\ lookups[a] \in BOOLEAN
        /\ a \in wallet.before => lookups[a]
        /\ lookups[a] => a \in used

\* A worker has lost track of nothing of its group that was used.
WorkersFit(groups) ==
    /\ probers \in [Probers -> ProberStates]
    /\ \A w \in Probers : probers[w].group # 0 =>
          /\ probers[w].group \in DOMAIN groups /\ probers[w].pending # <<>>
          /\ ToSet(probers[w].found) \subseteq used
          /\ \A k \in wallet.before \cap ToSet(groups[probers[w].group]) : KeepsTrack(probers[w], k)

\* A claimed group is through or has a worker; none is idle before all are claimed.
GroupsFit(groups) ==
    /\ DOMAIN results = DOMAIN groups
    /\ \A g \in DOMAIN groups : ToSet(results[g]) \subseteq used
    /\ nextGroup \in Nat /\ nextGroup > 0 /\ nextGroup <= Len(groups) + 1
    /\ \A g \in DOMAIN groups : g < nextGroup =>
          \/ wallet.before \cap ToSet(groups[g]) \subseteq ToSet(results[g])
          \/ \E w \in Probers : probers[w].group = g
    /\ nextGroup <= Len(groups) => \A w \in Probers : probers[w].group # 0

DiscoveryInv ==
    /\ wallet \in Wallets /\ used \subseteq D!Keys
    /\ wallet.st = "reading" =>
          InputsFit /\ LookupsFit /\ WorkersFit(D!Groups(wallet.inputs)) /\ GroupsFit(D!Groups(wallet.inputs))
    /\ D!DiscoveryIsExact

\* What the constants of a discovery are.
LEMMA ProbersAre ==
    /\ Cardinality(Probers) \in Nat /\ Cardinality(Probers) > 0
    /\ Probers = 1..Cardinality(Probers) /\ \A l \in Lists : l \in Seq(Inputs)
    /\ Plain \cap DOMAIN CredentialOf = {} /\ Bad \notin Plain \cup DOMAIN CredentialOf
    /\ Credentials \subseteq D!Keys /\ Plain \subseteq D!Keys
<1>1. D!DiscoveryConstants
  BY ServiceAssumption DEF ServiceAssumption
<1>2. D!Cardinality(Probers) = Cardinality(Probers)
  BY DEF D!Cardinality, D!IsFiniteSet, Cardinality
<1> QED BY <1>1, <1>2 DEF D!DiscoveryConstants, D!Keys, Credentials, Inputs

\* More uses refute no answer.
LEMMA ExactStays ==
    ASSUME D!DiscoveryIsExact, wallet' = wallet, used \subseteq used'
    PROVE  D!DiscoveryIsExact'
BY DEF D!DiscoveryIsExact

\* A request that does not read has nothing to keep but its answer.
LEMMA DiscoveryRests ==
    ASSUME DiscoveryInv, wallet' = wallet, wallet.st # "reading", used \subseteq used', used' \subseteq D!Keys
    PROVE  DiscoveryInv'
BY ExactStays DEF DiscoveryInv

\* Neither has one that is over without an answer.
LEMMA DiscoveryEnds ==
    ASSUME DiscoveryInv, wallet' \in Wallets, wallet'.st \notin {"reading", "done"}, used' = used
    PROVE  DiscoveryInv'
BY DEF DiscoveryInv, D!DiscoveryIsExact

\* No request.
LEMMA DiscoveryNone == D!NoWallet \in Wallets
BY DEF D!NoWallet, Wallets

\* A request as it starts.
LEMMA RequestStarts ==
    ASSUME NEW inputs, NEW before
    PROVE  [D!NoWallet EXCEPT !.inputs = inputs, !.before = before]
           = [st |-> "idle", inputs |-> inputs, before |-> before, answer |-> <<>>]
<1>1. [D!NoWallet EXCEPT !.inputs = inputs, !.before = before]
      = [[D!NoWallet EXCEPT !.inputs = inputs] EXCEPT !.before = before]
  OBVIOUS
<1>2. [D!NoWallet EXCEPT !.inputs = inputs]
      = [st |-> "idle", inputs |-> inputs, before |-> {}, answer |-> <<>>]
  BY DEF D!NoWallet
<1>3. [[st |-> "idle", inputs |-> inputs, before |-> {}, answer |-> <<>>] EXCEPT !.before = before]
      = [st |-> "idle", inputs |-> inputs, before |-> before, answer |-> <<>>]
  OBVIOUS
<1> QED BY <1>1, <1>2, <1>3

\* A request starts: its workers have the first groups.
LEMMA AskedInv ==
    ASSUME DiscoveryInv, NEW list \in Lists, D!Asked(list)
    PROVE  DiscoveryInv'
<1> DEFINE inputs == D!Distinct(list)
           groups == D!Groups(inputs)
           size == Cardinality(Probers)
<1>1. /\ list \in Seq(Inputs) /\ inputs \in Seq(Inputs) /\ D!ToSet(list) = ToSet(inputs)
      /\ \A i, j \in DOMAIN inputs : inputs[i] = inputs[j] => i = j
  <2>1. list \in Seq(Inputs)
    BY ProbersAre
  <2> QED BY <2>1, DistinctIs, DiscoveryRange
<1>2. used \subseteq D!Keys /\ used' = used
  BY DEF DiscoveryInv, D!Asked
<1> HIDE DEF inputs
<1>3. /\ Len(groups) \in Nat /\ DOMAIN groups = 1..Len(groups)
      /\ \A g \in DOMAIN groups : groups[g] \in Seq(Credentials)
  BY <1>1, GroupsAre
<1>4. \A st \in {"reading", "400", "501"} :
         [[D!NoWallet EXCEPT !.inputs = inputs, !.before = used] EXCEPT !.st = st]
         = [st |-> st, inputs |-> inputs, before |-> used, answer |-> <<>>]
  <2> HIDE DEF groups, size
  <2>1. ASSUME NEW st
        PROVE  [[st |-> "idle", inputs |-> inputs, before |-> used, answer |-> <<>>] EXCEPT !.st = st]
               = [st |-> st, inputs |-> inputs, before |-> used, answer |-> <<>>]
    OBVIOUS
  <2> QED BY <2>1, RequestStarts
<1>5. PICK st \in {"reading", "400", "501"} :
         /\ wallet' = [st |-> st, inputs |-> inputs, before |-> used, answer |-> <<>>]
         /\ st = "reading" =>
               /\ Bad \notin D!ToSet(list) /\ lookups' = <<>>
               /\ nextGroup' = 1 + (IF Len(groups) < size THEN Len(groups) ELSE size)
               /\ probers' = [w \in Probers |-> D!Prober(groups, w)]
               /\ results' = [g \in DOMAIN groups |-> <<>>]
  <2>1. D!Cardinality(Probers) = size
    BY DEF D!Cardinality, D!IsFiniteSet, Cardinality
  <2> HIDE DEF groups, size
  <2>2. groups = D!Groups(inputs) /\ inputs = D!Distinct(list)
    BY DEF groups, inputs
  <2> QED BY <1>4, <2>1, <2>2 DEF D!Asked
<1> HIDE DEF groups
<1>6. wallet'.st = st /\ wallet'.inputs = inputs /\ wallet'.before = used /\ wallet' \in Wallets
  BY <1>1, <1>2, <1>5 DEF Wallets
<1>7. CASE st # "reading"
  BY <1>2, <1>6, <1>7, DiscoveryEnds
<1>8. CASE st = "reading"
  <2>1. /\ Bad \notin D!ToSet(list) /\ lookups' = <<>>
        /\ nextGroup' = 1 + (IF Len(groups) < size THEN Len(groups) ELSE size)
        /\ probers' = [w \in Probers |-> D!Prober(groups, w)]
        /\ results' = [g \in DOMAIN groups |-> <<>>]
    BY <1>5, <1>8
  <2>2. size \in Nat /\ size > 0 /\ Probers = 1..size
    BY ProbersAre
  <2> HIDE DEF size
  <2>3. InputsFit'
    BY <1>1, <1>2, <1>6, <2>1 DEF InputsFit
  <2>4. LookupsFit'
    BY <2>1 DEF LookupsFit
  <2>5. ASSUME NEW w \in Probers
        PROVE  /\ probers'[w] \in ProberStates /\ ToSet(probers'[w].found) = {}
               /\ w \in 1..Len(groups) =>
                    /\ probers'[w].group = w /\ probers'[w].pending # <<>>
                    /\ \A k \in ToSet(groups[w]) : KeepsTrack(probers'[w], k)
               /\ w \notin 1..Len(groups) => probers'[w].group = 0
    <3>1. probers'[w] = D!Prober(groups, w) /\ w \in Nat
      BY <2>1, <2>2
    <3>2. ASSUME NEW p, p = D!Prober(groups, w)
          PROVE  /\ p \in ProberStates /\ ToSet(p.found) = {}
                 /\ w \in 1..Len(groups) =>
                      p.group = w /\ p.pending # <<>> /\ \A k \in ToSet(groups[w]) : KeepsTrack(p, k)
                 /\ w \notin 1..Len(groups) => p.group = 0
      BY <1>3, <3>1, <3>2, ProberStarts
    <3> QED BY <3>1, <3>2
  <2>6. WorkersFit(groups)'
    <3>1. probers' \in [Probers -> ProberStates]
      BY <2>1, <2>5
    <3>2. ASSUME NEW w \in Probers, probers'[w].group # 0
          PROVE  /\ probers'[w].group \in DOMAIN groups /\ probers'[w].pending # <<>>
                 /\ ToSet(probers'[w].found) \subseteq used'
                 /\ \A k \in wallet'.before \cap ToSet(groups[probers'[w].group]) : KeepsTrack(probers'[w], k)
      BY <1>3, <2>5, <3>2
    <3> QED BY <3>1, <3>2 DEF WorkersFit
  <2>7. GroupsFit(groups)'
    <3>1. DOMAIN results' = DOMAIN groups /\ \A g \in DOMAIN groups : results'[g] = <<>>
      BY <2>1
    <3>2. \A g \in DOMAIN groups : ToSet(results'[g]) = {}
      <4>1. ToSet(<<>>) = {}
        BY DEF ToSet
      <4> QED BY <3>1, <4>1
    <3>3. nextGroup' \in Nat /\ nextGroup' > 0 /\ nextGroup' <= Len(groups) + 1
      BY <1>3, <2>1, <2>2
    <3>4. ASSUME NEW g \in DOMAIN groups, g < nextGroup' PROVE \E w \in Probers : probers'[w].group = g
      <4>1. g \in 1..size
        BY <1>3, <2>1, <2>2, <3>4
      <4>2. g \in Probers /\ probers'[g].group = g
        BY <1>3, <2>2, <2>5, <4>1
      <4> QED BY <4>2
    <3>5. ASSUME nextGroup' <= Len(groups), NEW w \in Probers PROVE probers'[w].group # 0
      <4>1. w \in 1..Len(groups)
        BY <1>3, <2>1, <2>2, <3>5
      <4>2. probers'[w].group = w
        BY <2>5, <4>1
      <4> QED BY <2>2, <4>2
    <3> QED BY <3>1, <3>2, <3>3, <3>4, <3>5 DEF GroupsFit
  <2>8. D!Groups(wallet.inputs)' = groups /\ wallet'.st = "reading"
    BY <1>6, <1>8 DEF groups
  <2>9. D!DiscoveryIsExact'
    BY <2>8 DEF D!DiscoveryIsExact
  <2>10. WorkersFit(D!Groups(wallet.inputs))' /\ GroupsFit(D!Groups(wallet.inputs))'
    BY <2>6, <2>7, <2>8
  <2> QED BY <1>2, <1>6, <2>3, <2>4, <2>9, <2>10 DEF DiscoveryInv
<1> QED BY <1>7, <1>8

\* A lookup is answered with what the chain has then.
LEMMA LooksUpInv ==
    ASSUME DiscoveryInv, NEW a \in Plain, D!LooksUp(a)
    PROVE  DiscoveryInv'
<1>1. /\ wallet.st = "reading" /\ wallet' = wallet /\ used' = used
      /\ lookups' = [b \in DOMAIN lookups \cup {a} |-> IF b = a THEN a \in used ELSE lookups[b]]
      /\ nextGroup' = nextGroup /\ probers' = probers /\ results' = results
  BY DEF D!LooksUp
<1>2. InputsFit /\ LookupsFit /\ wallet \in Wallets /\ used \subseteq D!Keys
  BY <1>1 DEF DiscoveryInv
<1>3. LookupsFit'
  <2>1. ASSUME NEW b \in DOMAIN lookups'
        PROVE  /\ b \in Plain /\ lookups'[b] \in BOOLEAN
               /\ b \in wallet.before => lookups'[b]
               /\ lookups'[b] => b \in used
    <3>1. CASE b = a
      <4>1. lookups'[b] = (a \in used)
        BY <1>1, <3>1
      <4>2. wallet.before \subseteq used
        BY <1>2 DEF InputsFit
      <4>3. lookups'[b] \in BOOLEAN
        BY <4>1
      <4>4. b \in used <=> a \in used
        BY <3>1
      <4>5. lookups'[b] <=> b \in used
        BY <4>1, <4>4
      <4> QED BY <3>1, <4>2, <4>3, <4>5
    <3>2. CASE b # a
      <4>1. b \in DOMAIN lookups /\ lookups'[b] = lookups[b]
        BY <1>1, <3>2
      <4> QED BY <1>2, <4>1 DEF LookupsFit
    <3> QED BY <3>1, <3>2
  <2> QED BY <1>1, <2>1 DEF LookupsFit
<1>4. InputsFit'
  BY <1>1, <1>2 DEF InputsFit
<1>5. WorkersFit(D!Groups(wallet.inputs))' /\ GroupsFit(D!Groups(wallet.inputs))'
  <2>1. D!Groups(wallet.inputs)' = D!Groups(wallet.inputs)
    BY <1>1
  <2>2. WorkersFit(D!Groups(wallet.inputs)) /\ GroupsFit(D!Groups(wallet.inputs))
    BY <1>1 DEF DiscoveryInv
  <2> QED BY <1>1, <2>1, <2>2 DEF WorkersFit, GroupsFit
<1>6. D!DiscoveryIsExact'
  BY <1>1 DEF D!DiscoveryIsExact
<1> QED BY <1>1, <1>2, <1>3, <1>4, <1>5, <1>6 DEF DiscoveryInv

\* The chain sees more: nothing that was found becomes false.
LEMMA UsesInv ==
    ASSUME DiscoveryInv, NEW k \in D!Keys, D!Uses(k)
    PROVE  DiscoveryInv'
<1>1. /\ wallet' = wallet /\ used' = used \cup {k} /\ lookups' = lookups
      /\ nextGroup' = nextGroup /\ probers' = probers /\ results' = results
  BY DEF D!Uses
<1>2. wallet \in Wallets /\ used' \subseteq D!Keys /\ used \subseteq used'
  BY <1>1 DEF DiscoveryInv
<1>3. CASE wallet.st # "reading"
  BY <1>1, <1>2, <1>3, DiscoveryRests
<1>4. CASE wallet.st = "reading"
  <2>1. /\ InputsFit /\ LookupsFit
        /\ WorkersFit(D!Groups(wallet.inputs)) /\ GroupsFit(D!Groups(wallet.inputs))
    BY <1>4 DEF DiscoveryInv
  <2>2. InputsFit' /\ LookupsFit'
    BY <1>1, <1>2, <2>1 DEF InputsFit, LookupsFit
  <2>3. D!Groups(wallet.inputs)' = D!Groups(wallet.inputs)
    BY <1>1
  <2>4. WorkersFit(D!Groups(wallet.inputs))'
    <3> DEFINE groups == D!Groups(wallet.inputs)
    <3>1. WorkersFit(groups)
      BY <2>1
    <3> HIDE DEF groups
    <3>2. WorkersFit(groups) => /\ probers \in [Probers -> ProberStates]
                                /\ \A w \in Probers : probers[w].group # 0 =>
                                      /\ probers[w].group \in DOMAIN groups /\ probers[w].pending # <<>>
                                      /\ ToSet(probers[w].found) \subseteq used'
                                      /\ \A i \in wallet.before \cap ToSet(groups[probers[w].group]) :
                                            KeepsTrack(probers[w], i)
      BY <1>2 DEF WorkersFit
    <3>3. groups' = groups
      BY <2>3 DEF groups
    <3>4. WorkersFit(groups)'
      BY <1>1, <3>1, <3>2, <3>3 DEF WorkersFit
    <3> QED BY <3>4 DEF groups
  <2>5. GroupsFit(D!Groups(wallet.inputs))'
    <3> DEFINE groups == D!Groups(wallet.inputs)
    <3>1. GroupsFit(groups)
      BY <2>1
    <3> HIDE DEF groups
    <3>2. groups' = groups
      BY <2>3 DEF groups
    <3>3. \A g \in DOMAIN groups : ToSet(results[g]) \subseteq used'
      BY <1>2, <3>1 DEF GroupsFit
    <3>4. GroupsFit(groups)'
      BY <1>1, <3>1, <3>2, <3>3 DEF GroupsFit
    <3> QED BY <3>4 DEF groups
  <2>6. D!DiscoveryIsExact'
    BY <1>1, <1>2, ExactStays DEF DiscoveryInv
  <2> QED BY <1>1, <1>2, <2>2, <2>4, <2>5, <2>6 DEF DiscoveryInv
<1> QED BY <1>3, <1>4

\* A failed request has nothing to keep, whatever its other workers do.
LEMMA RejectedInv ==
    ASSUME DiscoveryInv, D!Rejected, used' = used
    PROVE  DiscoveryInv'
<1>1. CASE wallet.st = "reading"
  <2>1. wallet \in Wallets /\ wallet' = [wallet EXCEPT !.st = "failed"]
    BY <1>1 DEF D!Rejected, DiscoveryInv
  <2>2. wallet' \in Wallets /\ wallet'.st = "failed"
    BY <2>1 DEF Wallets
  <2> QED BY <2>2, DiscoveryEnds
<1>2. CASE wallet.st # "reading"
  <2>1. wallet \in Wallets /\ wallet' = [wallet EXCEPT !.st = wallet.st] /\ used \subseteq D!Keys
    BY <1>2 DEF D!Rejected, DiscoveryInv
  <2>2. wallet' = wallet
    BY <2>1 DEF Wallets
  <2> QED BY <1>2, <2>1, <2>2, DiscoveryRests
<1> QED BY <1>1, <1>2

\* The next request may come.
LEMMA OverInv ==
    ASSUME DiscoveryInv, D!Over
    PROVE  DiscoveryInv'
<1>1. wallet' = D!NoWallet /\ used' = used
  BY DEF D!Over
<1>2. wallet' \in Wallets /\ wallet'.st = "idle"
  BY <1>1, DiscoveryNone DEF D!NoWallet
<1> QED BY <1>1, <1>2, DiscoveryEnds

\* A probe is answered: its worker goes on, or its group is through and the
\* next one is claimed.
LEMMA ProbesInv ==
    ASSUME DiscoveryInv, NEW w \in Probers, D!Probes(w)
    PROVE  DiscoveryInv'
<1> DEFINE after == D!Probed(probers[w])
           groups == D!Groups(wallet.inputs)
<1>1. probers[w].group # 0 /\ wallet' = wallet /\ used' = used /\ lookups' = lookups
  BY DEF D!Probes
<1>2. \/ /\ after.pending # <<>>
         /\ probers' = [probers EXCEPT ![w] = after]
         /\ nextGroup' = nextGroup /\ results' = results
      \/ /\ after.pending = <<>>
         /\ results' = [results EXCEPT ![after.group] = after.found]
         /\ probers' = [probers EXCEPT ![w] = D!Prober(groups, nextGroup)]
         /\ nextGroup' = IF nextGroup \in DOMAIN results THEN nextGroup + 1 ELSE nextGroup
  BY DEF D!Probes
<1>3. CASE wallet.st # "reading"
  BY <1>1, <1>3, DiscoveryRests DEF DiscoveryInv
<1>4. CASE wallet.st = "reading"
  <2>1. /\ wallet \in Wallets /\ used \subseteq D!Keys /\ InputsFit /\ LookupsFit
        /\ WorkersFit(groups) /\ GroupsFit(groups)
    BY <1>4 DEF DiscoveryInv
  <2>2. /\ Len(groups) \in Nat /\ DOMAIN groups = 1..Len(groups)
        /\ \A g \in 1..Len(groups) : groups[g] \in Seq(Credentials)
    <3>1. wallet.inputs \in Seq(Inputs)
      BY <2>1 DEF Wallets
    <3> QED BY <3>1, GroupsAre
  <2>3. groups' = groups
    BY <1>1
  <2> HIDE DEF groups
  <2>4. /\ probers \in [Probers -> ProberStates] /\ probers[w] \in ProberStates
        /\ probers[w].group \in DOMAIN groups /\ probers[w].pending # <<>>
        /\ ToSet(probers[w].found) \subseteq used
        /\ \A k \in wallet.before \cap ToSet(groups[probers[w].group]) : KeepsTrack(probers[w], k)
    BY <1>1, <2>1 DEF WorkersFit
  <2>5. /\ after \in ProberStates /\ after.group = probers[w].group /\ ToSet(after.found) \subseteq used
        /\ \A k \in wallet.before \cap ToSet(groups[after.group]) : KeepsTrack(after, k)
    <3>1. wallet.before \subseteq used
      BY <2>1 DEF InputsFit
    <3>2. /\ after \in ProberStates /\ after.group = probers[w].group /\ ToSet(after.found) \subseteq used
          /\ \A k \in wallet.before : KeepsTrack(probers[w], k) => KeepsTrack(after, k)
      BY <2>4, <3>1, ProbeKeepsTrack
    <3> HIDE DEF after
    <3> QED BY <2>4, <3>2
  <2>6. InputsFit' /\ LookupsFit' /\ D!DiscoveryIsExact'
    BY <1>1, <1>4, <2>1, ExactStays DEF InputsFit, LookupsFit, DiscoveryInv
  <2> HIDE DEF after
  <2>7. WorkersFit(groups) /\ GroupsFit(groups)
    BY <2>1
  <2>8. CASE /\ after.pending # <<>>
             /\ probers' = [probers EXCEPT ![w] = after]
             /\ nextGroup' = nextGroup /\ results' = results
    <3>1. probers' \in [Probers -> ProberStates] /\ probers'[w] = after
          /\ \A v \in Probers : v # w => probers'[v] = probers[v]
      BY <2>4, <2>5, <2>8
    <3>2. \A v \in Probers : probers'[v].group = probers[v].group
      BY <2>5, <3>1
    <3>3. ASSUME NEW v \in Probers, probers'[v].group # 0
          PROVE  /\ probers'[v].group \in DOMAIN groups /\ probers'[v].pending # <<>>
                 /\ ToSet(probers'[v].found) \subseteq used'
                 /\ \A k \in wallet'.before \cap ToSet(groups[probers'[v].group]) : KeepsTrack(probers'[v], k)
      <4>1. CASE v = w
        BY <1>1, <2>4, <2>5, <2>8, <3>1, <4>1
      <4>2. CASE v # w
        <5>1. probers'[v] = probers[v]
          BY <3>1, <4>2
        <5> QED BY <1>1, <2>7, <3>3, <5>1 DEF WorkersFit
      <4> QED BY <4>1, <4>2
    <3>4. WorkersFit(groups)'
      BY <2>3, <3>1, <3>3 DEF WorkersFit
    <3>5. GroupsFit(groups)'
      BY <1>1, <2>3, <2>7, <2>8, <3>2 DEF GroupsFit
    <3>6. WorkersFit(D!Groups(wallet.inputs))' /\ GroupsFit(D!Groups(wallet.inputs))'
      BY <3>4, <3>5 DEF groups
    <3> QED BY <1>1, <2>1, <2>6, <3>6 DEF DiscoveryInv
  <2>9. CASE /\ after.pending = <<>>
              /\ results' = [results EXCEPT ![after.group] = after.found]
              /\ probers' = [probers EXCEPT ![w] = D!Prober(groups, nextGroup)]
              /\ nextGroup' = IF nextGroup \in DOMAIN results THEN nextGroup + 1 ELSE nextGroup
    <3> DEFINE next == D!Prober(groups, nextGroup)
    <3>1. /\ DOMAIN results = DOMAIN groups
          /\ nextGroup \in Nat /\ nextGroup > 0 /\ nextGroup <= Len(groups) + 1
      BY <2>7 DEF GroupsFit
    <3>2. /\ next \in ProberStates /\ ToSet(next.found) = {}
          /\ nextGroup \in 1..Len(groups) =>
                /\ next.group = nextGroup /\ next.pending # <<>>
                /\ \A k \in ToSet(groups[nextGroup]) : KeepsTrack(next, k)
          /\ nextGroup \notin 1..Len(groups) => next.group = 0
      BY <2>2, <3>1, ProberStarts
    <3>3. probers' = [probers EXCEPT ![w] = next]
      BY <2>9
    <3> HIDE DEF next
    <3>4. probers' \in [Probers -> ProberStates] /\ probers'[w] = next
          /\ \A v \in Probers : v # w => probers'[v] = probers[v]
      BY <2>4, <3>2, <3>3
    <3>5. ASSUME NEW v \in Probers, probers'[v].group # 0
          PROVE  /\ probers'[v].group \in DOMAIN groups /\ probers'[v].pending # <<>>
                 /\ ToSet(probers'[v].found) \subseteq used'
                 /\ \A k \in wallet'.before \cap ToSet(groups[probers'[v].group]) : KeepsTrack(probers'[v], k)
      <4>1. CASE v = w
        <5>1. probers'[v] = next /\ nextGroup \in 1..Len(groups) /\ next.group = nextGroup
          BY <3>2, <3>4, <3>5, <4>1
        <5> QED BY <2>2, <3>2, <5>1
      <4>2. CASE v # w
        <5>1. probers'[v] = probers[v]
          BY <3>4, <4>2
        <5> QED BY <1>1, <2>7, <3>5, <5>1 DEF WorkersFit
      <4> QED BY <4>1, <4>2
    <3>6. WorkersFit(groups)'
      BY <2>3, <3>4, <3>5 DEF WorkersFit
    <3>7. /\ DOMAIN results' = DOMAIN groups /\ after.group \in DOMAIN groups
          /\ results'[after.group] = after.found
          /\ \A g \in DOMAIN groups : g # after.group => results'[g] = results[g]
      BY <2>4, <2>5, <2>9, <3>1
    <3>8. wallet.before \cap ToSet(groups[after.group]) \subseteq ToSet(after.found)
      BY <2>5, <2>9 DEF KeepsTrack
    <3>9. \A g \in DOMAIN groups : ToSet(results'[g]) \subseteq used'
      BY <1>1, <2>5, <2>7, <3>7 DEF GroupsFit
    <3>10. nextGroup' \in Nat /\ nextGroup' > 0 /\ nextGroup' <= Len(groups) + 1
      BY <2>2, <2>9, <3>1
    <3>11. ASSUME NEW g \in DOMAIN groups, g < nextGroup'
           PROVE  \/ wallet'.before \cap ToSet(groups[g]) \subseteq ToSet(results'[g])
                  \/ \E v \in Probers : probers'[v].group = g
      <4>1. CASE g = after.group
        BY <1>1, <3>7, <3>8, <4>1
      <4>2. CASE g # after.group /\ g < nextGroup
        <5>1. \/ wallet.before \cap ToSet(groups[g]) \subseteq ToSet(results[g])
              \/ \E v \in Probers : probers[v].group = g
          BY <2>7, <4>2 DEF GroupsFit
        <5>2. results'[g] = results[g]
          BY <3>7, <4>2
        <5>3. ASSUME NEW v \in Probers, probers[v].group = g PROVE probers'[v].group = g
          <6>1. v # w
            BY <2>5, <4>2, <5>3
          <6> QED BY <3>4, <5>3, <6>1
        <5> QED BY <1>1, <5>1, <5>2, <5>3
      <4>3. CASE g # after.group /\ ~(g < nextGroup)
        <5>1. g = nextGroup /\ nextGroup \in 1..Len(groups)
          BY <2>2, <2>9, <3>1, <3>11, <4>3
        <5>2. probers'[w].group = g
          BY <3>2, <3>4, <5>1
        <5> QED BY <5>2
      <4> QED BY <4>1, <4>2, <4>3
    <3>12. ASSUME nextGroup' <= Len(groups), NEW v \in Probers PROVE probers'[v].group # 0
      <4>1. nextGroup <= Len(groups) /\ nextGroup \in 1..Len(groups)
        BY <2>2, <2>9, <3>1, <3>12
      <4>2. CASE v = w
        BY <3>1, <3>2, <3>4, <4>1, <4>2
      <4>3. CASE v # w
        BY <2>7, <3>4, <4>1, <4>3 DEF GroupsFit
      <4> QED BY <4>2, <4>3
    <3>13. GroupsFit(groups)'
      BY <2>3, <3>7, <3>9, <3>10, <3>11, <3>12 DEF GroupsFit
    <3>14. WorkersFit(D!Groups(wallet.inputs))' /\ GroupsFit(D!Groups(wallet.inputs))'
      BY <3>6, <3>13 DEF groups
    <3> QED BY <1>1, <2>1, <2>6, <3>14 DEF DiscoveryInv
  <2> QED BY <1>2, <2>8, <2>9 DEF groups
<1> QED BY <1>3, <1>4

\* The answer: both reads have ended, so every group is through.
LEMMA AnswersInv ==
    ASSUME DiscoveryInv, D!Answers
    PROVE  DiscoveryInv'
<1> DEFINE inputs == wallet.inputs
           before == wallet.before
           groups == D!Groups(inputs)
           found == UNION {ToSet(results[g]) : g \in DOMAIN results}
           good == {a \in DOMAIN lookups : lookups[a]}
                   \cup {i \in DOMAIN CredentialOf : CredentialOf[i] \in found}
           answer == D!Those(inputs, good)
           keyOf(i) == IF i \in Plain THEN i ELSE CredentialOf[i]
<1>1. wallet.st = "reading" /\ used' = used /\ D!Busy = {} /\ ToSet(D!Addresses) = DOMAIN lookups
  BY DiscoveryRange DEF D!Answers
<1>2. wallet' = [wallet EXCEPT !.st = "done", !.answer = answer]
  <2>1. D!Answer(found) = answer
    BY DEF D!Answer
  <2>2. UNION {D!ToSet(results[g]) : g \in DOMAIN results} = found
    BY DiscoveryRange
  <2> QED BY <2>1, <2>2 DEF D!Answers
<1>3. /\ wallet \in Wallets /\ used \subseteq D!Keys
      /\ InputsFit /\ LookupsFit /\ WorkersFit(groups) /\ GroupsFit(groups)
  BY <1>1 DEF DiscoveryInv
<1>4. inputs \in Seq(Inputs) /\ before \subseteq used
  BY <1>3 DEF Wallets, InputsFit
<1>5. /\ Len(groups) \in Nat /\ DOMAIN groups = 1..Len(groups)
      /\ \A x \in ToSet(inputs) \cap DOMAIN CredentialOf :
            \E g \in DOMAIN groups : CredentialOf[x] \in ToSet(groups[g])
  BY <1>4, GroupsAre
<1> HIDE DEF groups
<1>6. \A w \in Probers : probers[w].group = 0
  BY <1>1 DEF D!Busy
<1>7. \A g \in DOMAIN groups : before \cap ToSet(groups[g]) \subseteq ToSet(results[g])
  <2>1. nextGroup \in Nat /\ nextGroup > Len(groups)
    <3>1. 1 \in Probers
      BY ProbersAre
    <3> QED BY <1>3, <1>5, <1>6, <3>1 DEF GroupsFit
  <2>2. ASSUME NEW g \in DOMAIN groups PROVE before \cap ToSet(groups[g]) \subseteq ToSet(results[g])
    <3>1. g < nextGroup /\ g # 0
      BY <1>5, <2>1
    <3> QED BY <1>3, <1>6, <3>1 DEF GroupsFit
  <2> QED BY <2>2
<1>8. DOMAIN results = DOMAIN groups /\ \A g \in DOMAIN groups : ToSet(results[g]) \subseteq used
  BY <1>3 DEF GroupsFit
<1>9. found \subseteq used
  BY <1>8
<1>10. ASSUME NEW x \in ToSet(inputs) \cap DOMAIN CredentialOf, CredentialOf[x] \in before
       PROVE  CredentialOf[x] \in found
  <2>1. PICK g \in DOMAIN groups : CredentialOf[x] \in ToSet(groups[g])
    BY <1>5
  <2>2. CredentialOf[x] \in ToSet(results[g]) /\ g \in DOMAIN results
    BY <1>7, <1>8, <1>10, <2>1
  <2> QED BY <2>2
<1> HIDE DEF found
<1>11. ToSet(inputs) \cap Plain = DOMAIN lookups
  <2>1. D!Addresses = D!Those(inputs, Plain)
    BY DEF D!Addresses
  <2>2. ToSet(D!Addresses) = ToSet(inputs) \cap Plain
    BY <1>4, <2>1, ThoseAre
  <2> QED BY <1>1, <2>2
<1>12. /\ answer \in Seq(Inputs) /\ ToSet(answer) = ToSet(inputs) \cap good
       /\ \A i, j \in DOMAIN answer : i < j =>
             \E k, l \in DOMAIN inputs : k < l /\ inputs[k] = answer[i] /\ inputs[l] = answer[j]
       /\ \A i, j \in DOMAIN answer : answer[i] = answer[j] => i = j
  <2>1. \A k, l \in DOMAIN inputs : inputs[k] = inputs[l] => k = l
    BY <1>3 DEF InputsFit
  <2> HIDE DEF good
  <2> QED BY <1>4, <2>1, ThoseAre
<1> HIDE DEF answer
<1>13. ToSet(inputs) \subseteq Inputs /\ Bad \notin ToSet(inputs)
  <2>1. Bad \notin ToSet(inputs)
    BY <1>3 DEF InputsFit
  <2>2. ToSet(inputs) \subseteq Inputs
    BY <1>4 DEF ToSet
  <2> QED BY <2>1, <2>2
<1>14. ASSUME NEW i \in ToSet(inputs), keyOf(i) \in before PROVE i \in ToSet(answer)
  <2>1. CASE i \in Plain
    <3>1. i \in DOMAIN lookups /\ i \in before
      BY <1>11, <1>14, <2>1
    <3>2. lookups[i]
      BY <1>3, <3>1 DEF LookupsFit
    <3> QED BY <1>12, <3>1, <3>2
  <2>2. CASE i \notin Plain
    <3>1. i \in DOMAIN CredentialOf /\ CredentialOf[i] \in before
      BY <1>13, <1>14, <2>2 DEF Inputs
    <3>2. CredentialOf[i] \in found
      BY <1>10, <3>1
    <3> QED BY <1>12, <3>1, <3>2
  <2> QED BY <2>1, <2>2
<1>15. ASSUME NEW i \in ToSet(answer) PROVE keyOf(i) \in used
  <2>1. i \in good
    BY <1>12
  <2>2. CASE i \in DOMAIN lookups /\ lookups[i]
    <3>1. i \in Plain /\ i \in used
      BY <1>3, <2>2 DEF LookupsFit
    <3> QED BY <3>1
  <2>3. CASE i \in DOMAIN CredentialOf /\ CredentialOf[i] \in found
    <3>1. i \notin Plain /\ CredentialOf[i] \in used
      BY <1>9, <2>3, ProbersAre
    <3> QED BY <3>1
  <2> QED BY <2>1, <2>2, <2>3
<1>16. /\ wallet' \in Wallets /\ wallet'.st = "done" /\ wallet'.answer = answer
       /\ wallet'.inputs = inputs /\ wallet'.before = before
  <2>1. wallet = [st |-> wallet.st, inputs |-> inputs, before |-> before, answer |-> wallet.answer]
        /\ before \in SUBSET D!Keys
    BY <1>3 DEF Wallets
  <2>2. wallet' = [st |-> "done", inputs |-> inputs, before |-> before, answer |-> answer]
    BY <1>2, <2>1
  <2> QED BY <1>4, <1>12, <2>1, <2>2 DEF Wallets
<1>17. D!DiscoveryIsExact'
  <2> HIDE DEF inputs, before, good
  <2>1. \A s : D!ToSet(s) = ToSet(s)
    BY DiscoveryRange
  <2>2. /\ ToSet(answer) \subseteq ToSet(inputs)
        /\ \A i \in ToSet(inputs) : keyOf(i) \in before => i \in ToSet(answer)
        /\ \A i \in ToSet(answer) : keyOf(i) \in used'
    BY <1>1, <1>12, <1>14, <1>15
  <2> QED BY <1>12, <1>16, <2>1, <2>2 DEF D!DiscoveryIsExact
<1> QED BY <1>1, <1>3, <1>16, <1>17 DEF DiscoveryInv

\* A behaviour starts without a request.
LEMMA DiscoveryStarts == ServiceInit => DiscoveryInv
<1> SUFFICES ASSUME ServiceInit PROVE DiscoveryInv
  OBVIOUS
<1>1. wallet = D!NoWallet /\ used \subseteq D!Keys
  BY DEF ServiceInit, NoDiscovery, D!DiscoveryInit, D!DiscoveryStart
<1>2. wallet \in Wallets /\ wallet.st = "idle"
  BY <1>1, DiscoveryNone DEF D!NoWallet
<1> QED BY <1>1, <1>2 DEF DiscoveryInv, D!DiscoveryIsExact

\* Every step of the process keeps it.
LEMMA DiscoveryStep ==
    DiscoveryInv /\ [ServiceNext]_<<part, processVars, frontVars, discoveryVars>> => DiscoveryInv'
<1> SUFFICES ASSUME DiscoveryInv, [ServiceNext]_<<part, processVars, frontVars, discoveryVars>>
             PROVE  DiscoveryInv'
  OBVIOUS
<1>1. CASE UNCHANGED discoveryVars
  <2>1. /\ used' = used /\ wallet' = wallet /\ lookups' = lookups
        /\ nextGroup' = nextGroup /\ probers' = probers /\ results' = results
    BY <1>1 DEF discoveryVars
  <2>2. D!Groups(wallet.inputs)' = D!Groups(wallet.inputs)
    BY <2>1
  <2>3. wallet \in Wallets /\ used \subseteq D!Keys /\ D!DiscoveryIsExact
    BY DEF DiscoveryInv
  <2>4. D!DiscoveryIsExact'
    BY <2>1, <2>3, ExactStays
  <2>5. CASE wallet.st = "reading"
    <3>1. /\ InputsFit /\ LookupsFit
          /\ WorkersFit(D!Groups(wallet.inputs)) /\ GroupsFit(D!Groups(wallet.inputs))
      BY <2>5 DEF DiscoveryInv
    <3>2. InputsFit' /\ LookupsFit'
      BY <2>1, <3>1 DEF InputsFit, LookupsFit
    <3>3. WorkersFit(D!Groups(wallet.inputs))' /\ GroupsFit(D!Groups(wallet.inputs))'
      BY <2>1, <2>2, <3>1 DEF WorkersFit, GroupsFit
    <3> QED BY <2>1, <2>3, <2>4, <3>2, <3>3 DEF DiscoveryInv
  <2>6. CASE wallet.st # "reading"
    BY <2>1, <2>3, <2>4, <2>6 DEF DiscoveryInv
  <2> QED BY <2>5, <2>6
<1>2. CASE D!DiscoveryNext
  <2>1. CASE \E l \in Lists : D!Asked(l)
    BY <2>1, AskedInv
  <2>2. CASE \E a \in Plain : D!LooksUp(a)
    BY <2>2, LooksUpInv
  <2>3. CASE \E a \in Plain : D!LookupFails(a)
    <3>1. D!Rejected /\ used' = used
      BY <2>3 DEF D!LookupFails
    <3> QED BY <3>1, RejectedInv
  <2>4. CASE \E w \in Probers : D!Probes(w)
    BY <2>4, ProbesInv
  <2>5. CASE \E w \in Probers : D!ProbeFails(w)
    <3>1. D!Rejected /\ used' = used
      BY <2>5 DEF D!ProbeFails
    <3> QED BY <3>1, RejectedInv
  <2>6. CASE \E k \in D!Keys : D!Uses(k)
    BY <2>6, UsesInv
  <2>7. CASE D!Answers
    BY <2>7, AnswersInv
  <2>8. CASE D!Over
    BY <2>8, OverInv
  <2> QED BY <1>2, <2>1, <2>2, <2>3, <2>4, <2>5, <2>6, <2>7, <2>8 DEF D!DiscoveryNext
<1> QED BY <1>1, <1>2 DEF ServiceNext, Runs, Answers, Discovers

\* The answer of a discovery names every input that was used before it was
\* asked for, nothing that is not used by now, each input once and in the order
\* asked: with any inputs, groups of any size, any number of workers, whatever
\* is used while the groups are split (usedPaymentCredentials, filter-used).
THEOREM ServiceDiscoveryIsExact == ServiceSpec => []DiscoveryIsExact
<1>1. DiscoveryInv => DiscoveryIsExact
  BY DEF DiscoveryInv, DiscoveryIsExact
<1> QED BY <1>1, DiscoveryStarts, DiscoveryStep, PTL DEF ServiceSpec
=============================================================================
