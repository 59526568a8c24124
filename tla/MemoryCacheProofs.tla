------------------------- MODULE MemoryCacheProofs -------------------------
(***************************************************************************)
(* The guarantees of createMemoryCache about clear(), for every set of     *)
(* keys, prefixes, callers and batches and every policy.                   *)
(*                                                                         *)
(* The argument rests on two facts that no single handler states.  Every   *)
(* generation an attempt or a batch carries is at most the number of       *)
(* clears when it asked upstream (OldTokens), so passing the generation    *)
(* check proves that no related clear came after the request.  And an      *)
(* attempt is registered only while no clear has covered its key           *)
(* (Registered), so whoever joins it may use its answer.                   *)
(*                                                                         *)
(* Max is a CHOOSE, so the invariant also says that the maxima exist: a    *)
(* clear always writes a number above all others.                          *)
(***************************************************************************)
EXTENDS MemoryCache, FiniteSetTheorems, WellFoundedInduction, TLAPS

Cover(s) == {q \in Names : StartsWith(s, q)}

Gens(P) == {clearGenerations[p] : p \in P}

HasMax(S) == \E x \in S : \A y \in S : x >= y

\* Clear generations are bounded by their counter and their maxima exist.
Generations ==
    /\ \A p \in Names : clearGenerations[p] <= clearGeneration
    /\ \A s \in Names : HasMax(Gens(Related(s))) /\ HasMax(Gens(Cover(s)))

\* A generation that is carried along is no later than the request.
OldTokens ==
    /\ \A a \in Attempts : attempts[a].phase # "idle" =>
          /\ attempts[a].key \in Keys
          /\ attempts[a].gen <= attempts[a].born
          /\ attempts[a].born <= clearGeneration
    /\ \A b \in Batches : batches[b].st # "idle" =>
          /\ batches[b].key \in Keys
          /\ batches[b].token <= batches[b].born

\* Deadlines count from the moment the value was stored.
Deadlines ==
    \A k \in Keys :
        /\ entries[k].storedAt <= now
        /\ entries[k].expiresAt <= entries[k].storedAt + Ttl[k]
        /\ entries[k].usableUntil <= entries[k].storedAt + Ttl[k] + StaleIfError[k]

\* An attempt is registered only while no clear has covered its key since it
\* asked upstream; what it settled with is as good as the key's latest clear.
Registered ==
    \A k \in Keys : inFlight[k] # NoAttempt =>
        LET a == inFlight[k] IN
        /\ attempts[a].born >= CoverGen(k)
        /\ (k \notin UnguardedKeys /\ attempts[a].phase = "settled"
              /\ attempts[a].outcome.src # "error")
           => attempts[a].outcome.born >= CoverGen(k)

\* The attempt that carries the key's current generation is the registered one.
CurrentIsRegistered ==
    \A a \in Attempts :
        (attempts[a].phase # "idle" /\ Current(attempts[a].key, attempts[a].gen))
        => inFlight[attempts[a].key] = a

\* Unfinished attempts on one key carry different generations.
DistinctGenerations ==
    \A a, b \in Attempts :
        (/\ a # b /\ attempts[a].phase # "idle" /\ attempts[b].phase # "idle"
         /\ attempts[a].key = attempts[b].key)
        => attempts[a].gen # attempts[b].gen

\* The attempt a caller waits for is under way and asked upstream after every
\* clear that preceded the caller's read().
Waiting ==
    \A c \in Callers : callers[c].st = "waiting" =>
        LET a == callers[c].on IN
        /\ a \in Attempts /\ callers[c].key \in Keys
        /\ attempts[a].phase # "idle"
        /\ attempts[a].key = callers[c].key
        /\ callers[c].asked <= CoverGen(callers[c].key)
        /\ attempts[a].born >= callers[c].asked
        /\ (callers[c].key \notin UnguardedKeys /\ attempts[a].phase = "settled"
              /\ attempts[a].outcome.src # "error")
           => attempts[a].outcome.born >= callers[c].asked

\* What an attempt settled with is a fresh value, a failure, or a fallback
\* within its window.
Settled ==
    \A a \in Attempts : attempts[a].phase = "settled" =>
        /\ attempts[a].outcome.src # "hit"
        /\ attempts[a].outcome.src = "stale" =>
              attempts[a].outcome.age < Ttl[attempts[a].key] + StaleIfError[attempts[a].key]

IInv ==
    /\ TypeOK /\ Generations /\ OldTokens /\ Deadlines
    /\ NoResurrection /\ Registered /\ CurrentIsRegistered
    /\ DistinctGenerations /\ Waiting /\ Settled
    /\ ReadAfterClear /\ ServedWithinWindow

-----------------------------------------------------------------------------
(* Maxima of generations.                                                   *)

\* Max picks the maximum when there is one.
LEMMA MaxIsMax ==
    ASSUME NEW S, HasMax(S)
    PROVE  Max(S) \in S /\ \A y \in S : Max(S) >= y
BY DEF HasMax, Max

\* What generationFor() and CoverGen() return: the greatest generation of the
\* related and of the covering clears, the latter no greater than the former.
LEMMA GenerationFacts ==
    ASSUME TypeOK, Generations, NEW s \in Names
    PROVE  /\ generationFor(s) \in Nat /\ CoverGen(s) \in Nat
           /\ generationFor(s) <= clearGeneration
           /\ CoverGen(s) <= generationFor(s)
           /\ \A p \in Related(s) : clearGenerations[p] <= generationFor(s)
<1>1. /\ generationFor(s) \in Gens(Related(s))
      /\ \A y \in Gens(Related(s)) : generationFor(s) >= y
  BY MaxIsMax DEF Generations, generationFor, Gens
<1>2. /\ CoverGen(s) \in Gens(Cover(s))
      /\ \A y \in Gens(Cover(s)) : CoverGen(s) >= y
  BY MaxIsMax DEF Generations, CoverGen, Gens, Cover
<1>3. Gens(Cover(s)) \subseteq Gens(Related(s))
  BY DEF Gens, Cover, Related
<1>4. \A p \in Names : clearGenerations[p] \in Nat
                       /\ clearGenerations[p] <= clearGeneration
  BY DEF TypeOK, Generations
<1>5. \A y \in Gens(Related(s)) : y \in Nat /\ y <= clearGeneration
  BY <1>4 DEF Gens, Related
<1>6. generationFor(s) >= CoverGen(s)
  BY <1>1, <1>2, <1>3
<1>7. \A p \in Related(s) : generationFor(s) >= clearGenerations[p]
  BY <1>1 DEF Gens
<1>8. generationFor(s) \in Nat /\ generationFor(s) <= clearGeneration
      /\ CoverGen(s) \in Nat
  BY <1>1, <1>2, <1>3, <1>5
<1> QED BY <1>4, <1>6, <1>7, <1>8 DEF Related

\* A set of generations after a clear of p: if p is one of its names the new
\* number is the maximum, and otherwise nothing changed.
LEMMA GensAfterClear ==
    ASSUME TypeOK, Generations, NEW p \in Names, Clear(p),
           NEW P, P \subseteq Names, HasMax(Gens(P))
    PROVE  /\ HasMax(Gens(P)')
           /\ p \in P => Max(Gens(P)') = clearGeneration + 1
           /\ p \notin P => Gens(P)' = Gens(P)
<1>1. clearGenerations' = [clearGenerations EXCEPT ![p] = clearGeneration + 1]
  BY DEF Clear
<1>2. clearGeneration \in Nat /\ clearGenerations \in [Names -> Nat]
  BY DEF TypeOK
<1>3. Gens(P)' = {clearGenerations'[q] : q \in P}
  BY DEF Gens
<1>4. CASE p \in P
  <2>1. clearGeneration + 1 \in Gens(P)'
    BY <1>1, <1>2, <1>3, <1>4
  <2>2. \A q \in P : clearGenerations'[q] <= clearGeneration + 1
                     /\ clearGenerations'[q] \in Nat
    BY <1>1, <1>2 DEF Generations
  <2>3. \A y \in Gens(P)' : clearGeneration + 1 >= y /\ y \in Nat
    BY <1>2, <1>3, <2>2
  <2>4. HasMax(Gens(P)')
    BY <2>1, <2>3 DEF HasMax
  <2>5. Max(Gens(P)') \in Gens(P)' /\ Max(Gens(P)') >= clearGeneration + 1
    BY <2>1, <2>4, MaxIsMax
  <2>6. Max(Gens(P)') = clearGeneration + 1
    BY <1>2, <2>3, <2>5
  <2> QED BY <1>4, <2>4, <2>6
<1>5. CASE p \notin P
  <2>1. \A q \in P : clearGenerations'[q] = clearGenerations[q]
    BY <1>1, <1>2, <1>5
  <2>2. Gens(P)' = Gens(P)
    BY <1>3, <2>1 DEF Gens
  <2> QED BY <1>5, <2>2
<1> QED BY <1>4, <1>5

\* What a clear does to generationFor() and CoverGen().
LEMMA ClearFacts ==
    ASSUME TypeOK, Generations, NEW p \in Names, Clear(p)
    PROVE  /\ Generations'
           /\ \A s \in Names :
                 /\ p \in Related(s) => generationFor(s)' = clearGeneration + 1
                 /\ p \notin Related(s) => generationFor(s)' = generationFor(s)
                 /\ StartsWith(s, p) => CoverGen(s)' = clearGeneration + 1
                 /\ ~StartsWith(s, p) => CoverGen(s)' = CoverGen(s)
<1>1. ASSUME NEW s \in Names
      PROVE  /\ HasMax(Gens(Related(s)))' /\ HasMax(Gens(Cover(s)))'
             /\ p \in Related(s) => generationFor(s)' = clearGeneration + 1
             /\ p \notin Related(s) => generationFor(s)' = generationFor(s)
             /\ StartsWith(s, p) => CoverGen(s)' = clearGeneration + 1
             /\ ~StartsWith(s, p) => CoverGen(s)' = CoverGen(s)
  <2>1. Related(s) \subseteq Names /\ Cover(s) \subseteq Names
    BY DEF Related, Cover
  <2>2. HasMax(Gens(Related(s))) /\ HasMax(Gens(Cover(s)))
    BY DEF Generations
  <2>3. Related(s)' = Related(s) /\ Cover(s)' = Cover(s)
    BY DEF Related, Cover
  <2>4. /\ HasMax(Gens(Related(s))')
        /\ p \in Related(s) => Max(Gens(Related(s))') = clearGeneration + 1
        /\ p \notin Related(s) => Gens(Related(s))' = Gens(Related(s))
    BY <2>1, <2>2, GensAfterClear
  <2>5. /\ HasMax(Gens(Cover(s))')
        /\ p \in Cover(s) => Max(Gens(Cover(s))') = clearGeneration + 1
        /\ p \notin Cover(s) => Gens(Cover(s))' = Gens(Cover(s))
    BY <2>1, <2>2, GensAfterClear
  <2>6. generationFor(s)' = Max(Gens(Related(s))') /\ generationFor(s) = Max(Gens(Related(s)))
    BY DEF generationFor, Gens
  <2>7. CoverGen(s)' = Max(Gens(Cover(s))') /\ CoverGen(s) = Max(Gens(Cover(s)))
    BY DEF CoverGen, Gens, Cover
  <2>8. StartsWith(s, p) <=> p \in Cover(s)
    BY DEF Cover
  <2>9. HasMax(Gens(Related(s)))' /\ HasMax(Gens(Cover(s)))'
    BY <2>4, <2>5 DEF HasMax
  <2> QED BY <2>4, <2>5, <2>6, <2>7, <2>8, <2>9
<1>2. \A q \in Names : clearGenerations'[q] <= clearGeneration'
  BY DEF Clear, TypeOK, Generations
<1> QED BY <1>1, <1>2 DEF Generations

\* Every other step leaves the generations alone.
LEMMA SameGenerations ==
    ASSUME UNCHANGED <<clearGeneration, clearGenerations>>
    PROVE  /\ Generations => Generations'
           /\ \A s \in Names : generationFor(s)' = generationFor(s)
                               /\ CoverGen(s)' = CoverGen(s)
BY DEF Generations, generationFor, CoverGen, Gens, HasMax, Related, Cover

-----------------------------------------------------------------------------
(* The steps.                                                               *)

\* A key is a name, and its generations are well-behaved numbers.
LEMMA KeyFacts ==
    ASSUME IInv, NEW k \in Keys
    PROVE  /\ k \in Names /\ TokenName[k] \in Names
           /\ generationFor(k) \in Nat /\ CoverGen(k) \in Nat
           /\ generationFor(TokenName[k]) \in Nat
           /\ generationFor(k) <= clearGeneration /\ CoverGen(k) <= generationFor(k)
           /\ generationFor(TokenName[k]) <= clearGeneration
           /\ Ttl[k] \in Nat /\ StaleIfError[k] \in Nat
<1>1. k \in Names /\ TokenName[k] \in Names
  BY NamesAssumption, PolicyAssumption
<1>2. Ttl[k] \in Nat /\ StaleIfError[k] \in Nat
  BY PolicyAssumption
<1> QED BY <1>1, <1>2, GenerationFacts DEF IInv

\* entries.set() and evict(): every key keeps its entry, loses it, or is the
\* stored one.
LEMMA StoreFacts ==
    ASSUME IInv, NEW k \in Keys, NEW born \in Nat, NEW usable \in Nat,
           Store(k, born, usable)
    PROVE  /\ entries' \in [Keys -> Entry]
           /\ inserted' \subseteq Keys \X Keys
           /\ \A j \in Keys :
                 \/ entries'[j] = NoEntry
                 \/ entries'[j] = entries[j]
                 \/ /\ j = k
                    /\ entries'[j] = [born |-> born, storedAt |-> now,
                                      expiresAt |-> now + Ttl[k],
                                      usableUntil |-> now + usable]
<1> DEFINE e == [born |-> born, storedAt |-> now, expiresAt |-> now + Ttl[k],
                 usableUntil |-> now + usable]
           es == [entries EXCEPT ![k] = e]
           have == Present \cup {k}
           ord == IF k \in Present THEN inserted
                  ELSE inserted \cup {<<j, k>> : j \in Present}
           keep == Survivors(es, have, ord)
<1>1. /\ entries' = [j \in Keys |-> IF j \in keep THEN es[j] ELSE NoEntry]
      /\ inserted' = ord \cap (keep \X keep)
  BY DEF Store
<1>2. entries \in [Keys -> Entry] /\ now \in Nat /\ inserted \subseteq Keys \X Keys
  BY DEF IInv, TypeOK
<1>3. e \in Entry /\ NoEntry \in Entry
  BY <1>2, KeyFacts DEF Entry, NoEntry
<1>4. es \in [Keys -> Entry] /\ \A j \in Keys : es[j] = IF j = k THEN e ELSE entries[j]
  BY <1>2, <1>3
<1>5. ord \subseteq Keys \X Keys
  BY <1>2 DEF Present
<1> HIDE DEF e, es, keep, ord
<1>6. entries' \in [Keys -> Entry]
  BY <1>1, <1>3, <1>4
<1>7. inserted' \subseteq Keys \X Keys
  BY <1>1, <1>5
<1>8. \A j \in Keys : entries'[j] = NoEntry \/ entries'[j] = entries[j]
                       \/ (j = k /\ entries'[j] = e)
  BY <1>1, <1>4
<1> QED BY <1>6, <1>7, <1>8 DEF e

\* Storing a value no older than the key's latest clear keeps the entries'
\* part of the invariant.
LEMMA StorePreserves ==
    ASSUME IInv, NEW k \in Keys, NEW born \in Nat, NEW usable \in Nat,
           Store(k, born, usable),
           usable <= Ttl[k] + StaleIfError[k],
           k \notin UnguardedKeys => born >= CoverGen(k),
           UNCHANGED <<now, clearGeneration, clearGenerations>>
    PROVE  Deadlines' /\ NoResurrection'
<1>1. \A j \in Keys : /\ CoverGen(j)' = CoverGen(j) /\ CoverGen(j) \in Nat
                      /\ Ttl[j] \in Nat /\ StaleIfError[j] \in Nat
  BY SameGenerations, KeyFacts
<1>2. now \in Nat /\ entries \in [Keys -> Entry] /\ now' = now
  BY DEF IInv, TypeOK
<1>3. ASSUME NEW j \in Keys
      PROVE  /\ entries'[j].storedAt <= now
             /\ entries'[j].expiresAt <= entries'[j].storedAt + Ttl[j]
             /\ entries'[j].usableUntil <= entries'[j].storedAt + Ttl[j] + StaleIfError[j]
  <2>1. CASE entries'[j] = NoEntry
    BY <1>1, <1>2, <2>1 DEF NoEntry
  <2>2. CASE entries'[j] = entries[j]
    BY <2>2 DEF IInv, Deadlines
  <2>3. CASE j = k /\ entries'[j] = [born |-> born, storedAt |-> now,
                                     expiresAt |-> now + Ttl[k],
                                     usableUntil |-> now + usable]
    BY <1>1, <1>2, <2>3
  <2> QED BY <2>1, <2>2, <2>3, StoreFacts
<1>4. ASSUME NEW j \in Keys \ UnguardedKeys, entries'[j] # NoEntry
      PROVE  entries'[j].born >= CoverGen(j)
  <2>1. CASE entries'[j] = entries[j]
    BY <1>4, <2>1 DEF IInv, NoResurrection
  <2>2. CASE j = k /\ entries'[j] = [born |-> born, storedAt |-> now,
                                     expiresAt |-> now + Ttl[k],
                                     usableUntil |-> now + usable]
    BY <1>4, <2>2
  <2> QED BY <1>4, <2>1, <2>2, StoreFacts
<1> QED BY <1>1, <1>2, <1>3, <1>4 DEF Deadlines, NoResurrection

\* The parts that only entries, attempts and generations can disturb survive a
\* step that changes callers or batches alone.
LEMMA CoreUnchanged ==
    ASSUME IInv, UNCHANGED <<now, entries, inserted, inFlight, attempts,
                             clearGeneration, clearGenerations>>
    PROVE  /\ Generations' /\ Deadlines' /\ NoResurrection' /\ Registered'
           /\ CurrentIsRegistered' /\ DistinctGenerations' /\ Settled'
<1>1. Generations' /\ \A k \in Keys : generationFor(k)' = generationFor(k)
                                       /\ CoverGen(k)' = CoverGen(k)
  BY SameGenerations, NamesAssumption DEF IInv
<1>2. Deadlines' /\ DistinctGenerations' /\ Settled'
  BY DEF IInv, Deadlines, DistinctGenerations, Settled
<1>3. NoResurrection' /\ Registered'
  BY <1>1 DEF IInv, NoResurrection, Registered
<1>4. CurrentIsRegistered'
  BY <1>1 DEF IInv, CurrentIsRegistered, Current, OldTokens
<1> QED BY <1>1, <1>2, <1>3, <1>4

\* A hit serves an entry that no clear has covered, within its TTL.
LEMMA ReadHitPreserves ==
    ASSUME IInv, NEW c \in Callers, NEW k \in Keys, ReadHit(c, k)
    PROVE  IInv'
<1> DEFINE o == [src |-> "hit", born |-> entries[k].born, age |-> Age(k)]
           r == [st |-> "done", key |-> k, asked |-> CoverGen(k),
                 on |-> NoAttempt, outcome |-> o]
<1>1. /\ callers' = [callers EXCEPT ![c] = r]
      /\ UNCHANGED <<now, entries, inserted, inFlight, attempts,
                     clearGeneration, clearGenerations, batches>>
      /\ entries[k] # NoEntry /\ entries[k].expiresAt > now
  BY DEF ReadHit, Live
<1>2. entries[k] \in Entry /\ now \in Nat /\ CoverGen(k) \in Nat /\ k \in Names
  BY KeyFacts DEF IInv, TypeOK
<1>3. Age(k) \in Nat /\ Age(k) < Ttl[k]
  <2>1. entries[k].storedAt <= now
        /\ entries[k].expiresAt <= entries[k].storedAt + Ttl[k]
    BY DEF IInv, Deadlines
  <2> QED BY <1>1, <1>2, <2>1, KeyFacts DEF Age, Entry
<1>4. o \in Outcome
  BY <1>2, <1>3 DEF Outcome, Entry
<1>5. r \in Caller
  BY <1>2, <1>4 DEF Caller
<1> HIDE DEF r
<1>6. TypeOK'
  BY <1>1, <1>5 DEF IInv, TypeOK
<1>7. OldTokens'
  BY <1>1 DEF IInv, OldTokens
<1>8. \A d \in Callers : callers'[d] = IF d = c THEN r ELSE callers[d]
  BY <1>1 DEF IInv, TypeOK
<1>9. Waiting'
  <2>1. \A j \in Keys : CoverGen(j)' = CoverGen(j)
    BY <1>1, SameGenerations, NamesAssumption
  <2>2. r.st # "waiting"
    BY DEF r
  <2> QED BY <1>1, <1>8, <2>1, <2>2 DEF IInv, Waiting
<1>10. ReadAfterClear'
  <2>1. k \notin UnguardedKeys => r.outcome.born >= r.asked
    BY <1>1 DEF r, IInv, NoResurrection
  <2>2. r.key = k
    BY DEF r
  <2> QED BY <1>8, <2>1, <2>2 DEF IInv, ReadAfterClear
<1>11. ServedWithinWindow'
  <2>1. r.outcome.src = "hit" /\ r.outcome.age < Ttl[r.key]
    BY <1>3 DEF r
  <2> QED BY <1>8, <2>1 DEF IInv, ServedWithinWindow
<1> QED BY <1>1, <1>6, <1>7, <1>9, <1>10, <1>11, CoreUnchanged DEF IInv

\* Joining an attempt is safe because only attempts that no clear has covered
\* are registered.
LEMMA ReadJoinPreserves ==
    ASSUME IInv, NEW c \in Callers, NEW k \in Keys, ReadJoin(c, k)
    PROVE  IInv'
<1> DEFINE a == inFlight[k]
           r == [st |-> "waiting", key |-> k, asked |-> CoverGen(k), on |-> a,
                 outcome |-> Failure]
<1>1. /\ callers' = [callers EXCEPT ![c] = r]
      /\ UNCHANGED <<now, entries, inserted, inFlight, attempts,
                     clearGeneration, clearGenerations, batches>>
      /\ a # NoAttempt
  BY DEF ReadJoin
<1>2. CoverGen(k) \in Nat /\ k \in Names
  BY KeyFacts
<1>3. a \in Attempts /\ attempts[a].phase # "idle" /\ attempts[a].key = k
  BY <1>1 DEF IInv, TypeOK
<1>4. r \in Caller
  BY <1>2, <1>3 DEF Caller, Outcome, Failure
<1>5. /\ attempts[a].born >= CoverGen(k)
      /\ (k \notin UnguardedKeys /\ attempts[a].phase = "settled"
            /\ attempts[a].outcome.src # "error")
         => attempts[a].outcome.born >= CoverGen(k)
  BY <1>1 DEF IInv, Registered
<1>6. /\ r.st = "waiting" /\ r.key = k /\ r.asked = CoverGen(k) /\ r.on = a
  OBVIOUS
<1> HIDE DEF r, a
<1>7. TypeOK'
  BY <1>1, <1>4 DEF IInv, TypeOK
<1>8. OldTokens'
  BY <1>1 DEF IInv, OldTokens
<1>9. \A d \in Callers : callers'[d] = IF d = c THEN r ELSE callers[d]
  BY <1>1 DEF IInv, TypeOK
<1>10. Waiting'
  <2>1. \A j \in Keys : CoverGen(j)' = CoverGen(j)
    BY <1>1, SameGenerations, NamesAssumption
  <2>2. CoverGen(k) <= CoverGen(k)
    BY <1>2
  <2> QED BY <1>1, <1>3, <1>5, <1>6, <1>9, <2>1, <2>2 DEF IInv, Waiting
<1>11. ReadAfterClear' /\ ServedWithinWindow'
  BY <1>6, <1>9 DEF IInv, ReadAfterClear, ServedWithinWindow
<1> QED BY <1>1, <1>7, <1>8, <1>10, <1>11, CoreUnchanged DEF IInv

\* A new attempt carries the current generation, which no unfinished attempt
\* on the key does: that one would be registered.
LEMMA ReadStartPreserves ==
    ASSUME IInv, NEW c \in Callers, NEW k \in Keys, NEW a \in Attempts,
           ReadStart(c, k, a)
    PROVE  IInv'
<1> DEFINE t == [phase |-> "loading", key |-> k, gen |-> generationFor(k),
                 born |-> clearGeneration, outcome |-> Failure]
           r == [st |-> "waiting", key |-> k, asked |-> CoverGen(k), on |-> a,
                 outcome |-> Failure]
<1>1. /\ attempts' = [attempts EXCEPT ![a] = t]
      /\ inFlight' = [inFlight EXCEPT ![k] = a]
      /\ callers' = [callers EXCEPT ![c] = r]
      /\ attempts[a].phase = "idle" /\ inFlight[k] = NoAttempt
      /\ UNCHANGED <<now, entries, inserted, clearGeneration,
                     clearGenerations, batches>>
  BY DEF ReadStart
<1>2. /\ CoverGen(k) \in Nat /\ generationFor(k) \in Nat /\ k \in Names
      /\ CoverGen(k) <= clearGeneration /\ generationFor(k) <= clearGeneration
      /\ clearGeneration \in Nat
  BY KeyFacts DEF IInv, TypeOK
<1>3. t \in Attempt /\ r \in Caller
  BY <1>2 DEF Attempt, Caller, Outcome, Failure
<1>4. /\ t.phase = "loading" /\ t.key = k /\ t.gen = generationFor(k)
      /\ t.born = clearGeneration
      /\ r.st = "waiting" /\ r.key = k /\ r.asked = CoverGen(k) /\ r.on = a
  OBVIOUS
<1> HIDE DEF t, r
<1>5. \A b \in Attempts : attempts'[b] = IF b = a THEN t ELSE attempts[b]
  BY <1>1 DEF IInv, TypeOK
<1>6. \A j \in Keys : inFlight'[j] = IF j = k THEN a ELSE inFlight[j]
  BY <1>1 DEF IInv, TypeOK
<1>7. \A d \in Callers : callers'[d] = IF d = c THEN r ELSE callers[d]
  BY <1>1 DEF IInv, TypeOK
<1>8. Generations' /\ \A j \in Keys : generationFor(j)' = generationFor(j)
                                       /\ CoverGen(j)' = CoverGen(j)
  BY <1>1, SameGenerations, NamesAssumption DEF IInv
<1>9. \A j \in Keys : inFlight[j] # a
  BY <1>1, PolicyAssumption DEF IInv, TypeOK
<1>10. TypeOK'
  <2>1. \A j \in Keys : inFlight'[j] # NoAttempt =>
           attempts'[inFlight'[j]].phase # "idle" /\ attempts'[inFlight'[j]].key = j
    BY <1>4, <1>5, <1>6, <1>9 DEF IInv, TypeOK
  <2> QED BY <1>1, <1>3, <2>1 DEF IInv, TypeOK
<1>11. OldTokens'
  BY <1>1, <1>2, <1>4, <1>5 DEF IInv, OldTokens
<1>12. Deadlines' /\ NoResurrection'
  BY <1>1, <1>8 DEF IInv, Deadlines, NoResurrection
<1>13. Registered'
  <2>1. clearGeneration >= CoverGen(k)
    BY <1>2
  <2> SUFFICES ASSUME NEW j \in Keys, inFlight'[j] # NoAttempt
               PROVE  LET b == inFlight'[j] IN
                      /\ attempts'[b].born >= CoverGen(j)
                      /\ (j \notin UnguardedKeys /\ attempts'[b].phase = "settled"
                            /\ attempts'[b].outcome.src # "error")
                         => attempts'[b].outcome.born >= CoverGen(j)
    BY <1>8 DEF Registered
  <2>2. CASE j = k
    BY <1>4, <1>5, <1>6, <2>1, <2>2
  <2>3. CASE j # k
    <3>1. inFlight'[j] = inFlight[j] /\ inFlight[j] \in Attempts /\ inFlight[j] # a
      BY <1>6, <1>9, <2>3 DEF IInv, TypeOK
    <3> QED BY <1>5, <3>1 DEF IInv, Registered
  <2> QED BY <2>2, <2>3
<1>14. \A b \in Attempts : (attempts[b].phase # "idle" /\ attempts[b].key = k)
                           => attempts[b].gen # generationFor(k)
  BY <1>1, PolicyAssumption DEF IInv, CurrentIsRegistered, Current
<1>15. CurrentIsRegistered'
  <2> SUFFICES ASSUME NEW b \in Attempts, attempts'[b].phase # "idle",
                      (attempts[b].gen = generationFor(attempts[b].key))'
               PROVE  inFlight'[attempts'[b].key] = b
    BY DEF CurrentIsRegistered, Current
  <2>1. CASE b = a
    BY <1>4, <1>5, <1>6, <2>1
  <2>2. CASE b # a
    <3>1. attempts'[b] = attempts[b] /\ attempts[b].key \in Keys
      BY <1>5, <2>2 DEF IInv, OldTokens
    <3>2. attempts[b].gen = generationFor(attempts[b].key)
      BY <1>8, <3>1
    <3>3. attempts[b].key # k
      BY <1>14, <3>1, <3>2
    <3> QED BY <1>6, <3>1, <3>2, <3>3 DEF IInv, CurrentIsRegistered, Current
  <2> QED BY <2>1, <2>2
<1>16. DistinctGenerations'
  BY <1>4, <1>5, <1>14 DEF IInv, DistinctGenerations
<1>17. Waiting'
  <2>1. \A d \in Callers : callers[d].st = "waiting" => callers[d].on # a
    BY <1>1 DEF IInv, Waiting
  <2>2. CoverGen(k) <= CoverGen(k) /\ clearGeneration >= CoverGen(k)
    BY <1>2
  <2> SUFFICES ASSUME NEW d \in Callers, callers'[d].st = "waiting"
               PROVE  LET b == callers'[d].on IN
                      /\ b \in Attempts /\ callers'[d].key \in Keys
                      /\ attempts'[b].phase # "idle"
                      /\ attempts'[b].key = callers'[d].key
                      /\ callers'[d].asked <= CoverGen(callers'[d].key)
                      /\ attempts'[b].born >= callers'[d].asked
                      /\ (callers'[d].key \notin UnguardedKeys
                            /\ attempts'[b].phase = "settled"
                            /\ attempts'[b].outcome.src # "error")
                         => attempts'[b].outcome.born >= callers'[d].asked
    BY <1>8 DEF Waiting
  <2>3. CASE d = c
    BY <1>4, <1>5, <1>7, <2>2, <2>3
  <2>4. CASE d # c
    BY <1>5, <1>7, <2>1, <2>4 DEF IInv, Waiting
  <2> QED BY <2>3, <2>4
<1>18. Settled'
  BY <1>4, <1>5 DEF IInv, Settled
<1>19. ReadAfterClear' /\ ServedWithinWindow'
  BY <1>4, <1>7 DEF IInv, ReadAfterClear, ServedWithinWindow
<1> QED BY <1>8, <1>10, <1>11, <1>12, <1>13, <1>15, <1>16, <1>17, <1>18, <1>19
        DEF IInv

\* An attempt settles with o: the parts of the invariant about attempts and
\* their callers, when o is its own value or one no clear has covered.
LEMMA SettlePreserves ==
    ASSUME IInv, NEW a \in Attempts, attempts[a].phase = "loading",
           NEW o \in Outcome,
           attempts' = [attempts EXCEPT ![a].phase = "settled", ![a].outcome = o],
           UNCHANGED <<inFlight, clearGeneration, clearGenerations, callers, batches>>,
           o.src # "hit",
           o.src = "stale" => o.age < Ttl[attempts[a].key] + StaleIfError[attempts[a].key],
           (attempts[a].key \notin UnguardedKeys /\ o.src # "error") =>
              o.born = attempts[a].born \/ o.born >= CoverGen(attempts[a].key)
    PROVE  /\ attempts' \in [Attempts -> Attempt]
           /\ \A k \in Keys : inFlight[k] # NoAttempt =>
                 attempts'[inFlight[k]].phase # "idle" /\ attempts'[inFlight[k]].key = k
           /\ Generations' /\ OldTokens' /\ Registered' /\ CurrentIsRegistered'
           /\ DistinctGenerations' /\ Waiting' /\ Settled'
           /\ ReadAfterClear' /\ ServedWithinWindow'
<1> DEFINE k == attempts[a].key
<1>1. k \in Keys
  BY DEF IInv, OldTokens
<1>2. attempts \in [Attempts -> Attempt]
  BY DEF IInv, TypeOK
<1>3. /\ attempts'[a] \in Attempt
      /\ attempts'[a].phase = "settled" /\ attempts'[a].outcome = o
      /\ attempts'[a].key = attempts[a].key /\ attempts'[a].gen = attempts[a].gen
      /\ attempts'[a].born = attempts[a].born
  BY <1>2 DEF Attempt
<1>4. \A b \in Attempts : b # a => attempts'[b] = attempts[b]
  BY <1>2
<1>5. attempts' \in [Attempts -> Attempt]
  BY <1>2, <1>3
<1>6. \A b \in Attempts :
         /\ attempts'[b].phase # "idle" <=> attempts[b].phase # "idle"
         /\ attempts'[b].key = attempts[b].key /\ attempts'[b].gen = attempts[b].gen
         /\ attempts'[b].born = attempts[b].born
  BY <1>3, <1>4
<1>7. Generations' /\ \A j \in Keys : generationFor(j)' = generationFor(j)
                                       /\ CoverGen(j)' = CoverGen(j)
  BY SameGenerations, NamesAssumption DEF IInv
<1>8. \A j \in Keys : inFlight[j] # NoAttempt =>
         inFlight[j] \in Attempts
         /\ attempts'[inFlight[j]].phase # "idle" /\ attempts'[inFlight[j]].key = j
  BY <1>6 DEF IInv, TypeOK
<1>9. OldTokens'
  BY <1>6 DEF IInv, OldTokens
<1>10. Registered'
  <2> SUFFICES ASSUME NEW j \in Keys, inFlight[j] # NoAttempt
               PROVE  LET b == inFlight[j] IN
                      /\ attempts'[b].born >= CoverGen(j)
                      /\ (j \notin UnguardedKeys /\ attempts'[b].phase = "settled"
                            /\ attempts'[b].outcome.src # "error")
                         => attempts'[b].outcome.born >= CoverGen(j)
    BY <1>7 DEF Registered
  <2>1. CASE inFlight[j] = a
    <3>1. j = k /\ attempts[a].born >= CoverGen(j)
      BY <2>1 DEF IInv, Registered, TypeOK
    <3> QED BY <1>3, <2>1, <3>1
  <2>2. CASE inFlight[j] # a
    BY <1>4, <1>8, <2>2 DEF IInv, Registered
  <2> QED BY <2>1, <2>2
<1>11. CurrentIsRegistered'
  <2> SUFFICES ASSUME NEW b \in Attempts, attempts'[b].phase # "idle",
                      (attempts[b].gen = generationFor(attempts[b].key))'
               PROVE  inFlight'[attempts'[b].key] = b
    BY DEF CurrentIsRegistered, Current
  <2>1. attempts[b].key \in Keys /\ attempts[b].phase # "idle"
    BY <1>6 DEF IInv, OldTokens
  <2>2. attempts[b].gen = generationFor(attempts[b].key)
    BY <1>6, <1>7, <2>1
  <2> QED BY <1>6, <2>1, <2>2 DEF IInv, CurrentIsRegistered, Current
<1>12. DistinctGenerations'
  <2> SUFFICES ASSUME NEW b \in Attempts, NEW e \in Attempts, b # e,
                      attempts'[b].phase # "idle", attempts'[e].phase # "idle",
                      attempts'[b].key = attempts'[e].key
               PROVE  attempts'[b].gen # attempts'[e].gen
    BY DEF DistinctGenerations
  <2>1. /\ attempts[b].phase # "idle" /\ attempts[e].phase # "idle"
        /\ attempts[b].key = attempts[e].key
    BY <1>6
  <2>2. attempts[b].gen # attempts[e].gen
    BY <2>1 DEF IInv, DistinctGenerations
  <2> QED BY <1>6, <2>2
<1>13. Waiting'
  <2> SUFFICES ASSUME NEW d \in Callers, callers[d].st = "waiting"
               PROVE  LET b == callers[d].on IN
                      /\ b \in Attempts /\ callers[d].key \in Keys
                      /\ attempts'[b].phase # "idle"
                      /\ attempts'[b].key = callers[d].key
                      /\ callers[d].asked <= CoverGen(callers[d].key)
                      /\ attempts'[b].born >= callers[d].asked
                      /\ (callers[d].key \notin UnguardedKeys
                            /\ attempts'[b].phase = "settled"
                            /\ attempts'[b].outcome.src # "error")
                         => attempts'[b].outcome.born >= callers[d].asked
    BY <1>7 DEF Waiting
  <2> DEFINE b == callers[d].on
  <2>1. /\ b \in Attempts /\ callers[d].key \in Keys
        /\ attempts[b].phase # "idle" /\ attempts[b].key = callers[d].key
        /\ callers[d].asked <= CoverGen(callers[d].key)
        /\ attempts[b].born >= callers[d].asked
    BY DEF IInv, Waiting
  <2>2. /\ attempts'[b].phase # "idle" /\ attempts'[b].key = callers[d].key
        /\ attempts'[b].born >= callers[d].asked
    BY <1>6, <2>1
  <2>3. CASE b = a
    <3>1. CoverGen(k) \in Nat /\ callers[d].asked \in Nat /\ o.born \in Nat
          /\ callers[d].key = k
      BY <1>1, <2>1, <2>3, KeyFacts DEF IInv, TypeOK, Caller, Outcome
    <3>2. (k \notin UnguardedKeys /\ o.src # "error") => o.born >= callers[d].asked
      BY <2>1, <2>3, <3>1
    <3> QED BY <1>3, <2>1, <2>2, <2>3, <3>1, <3>2
  <2>4. CASE b # a
    BY <1>4, <2>1, <2>2, <2>4 DEF IInv, Waiting
  <2> QED BY <2>3, <2>4
<1>14. Settled'
  <2> SUFFICES ASSUME NEW b \in Attempts, attempts'[b].phase = "settled"
               PROVE  /\ attempts'[b].outcome.src # "hit"
                      /\ attempts'[b].outcome.src = "stale" =>
                            attempts'[b].outcome.age
                              < Ttl[attempts'[b].key] + StaleIfError[attempts'[b].key]
    BY DEF Settled
  <2>1. CASE b = a
    BY <1>3, <2>1
  <2>2. CASE b # a
    BY <1>4, <2>2 DEF IInv, Settled
  <2> QED BY <2>1, <2>2
<1>15. ReadAfterClear' /\ ServedWithinWindow'
  BY DEF IInv, ReadAfterClear, ServedWithinWindow
<1> QED BY <1>5, <1>7, <1>8, <1>9, <1>10, <1>11, <1>12, <1>13, <1>14, <1>15

\* The then handler stores only what passes the generation check, and what
\* passes it was requested after the key's latest clear.
LEMMA LoadResolvesPreserves ==
    ASSUME IInv, NEW a \in Attempts, LoadResolves(a)
    PROVE  IInv'
<1> DEFINE k == attempts[a].key
           o == [src |-> "load", born |-> attempts[a].born, age |-> 0]
<1>1. /\ attempts[a].phase = "loading"
      /\ attempts' = [attempts EXCEPT ![a].phase = "settled", ![a].outcome = o]
      /\ UNCHANGED <<now, inFlight, clearGeneration, clearGenerations, callers, batches>>
      /\ \/ /\ attempts[a].gen = generationFor(k)
            /\ Store(k, attempts[a].born, Ttl[k] + StaleIfError[k])
         \/ UNCHANGED <<entries, inserted>>
  BY DEF LoadResolves, Current
<1>2. /\ k \in Keys /\ attempts[a] \in Attempt
      /\ attempts[a].gen <= attempts[a].born
  BY <1>1 DEF IInv, OldTokens, TypeOK
<1>3. /\ attempts[a].gen \in Nat /\ attempts[a].born \in Nat
      /\ CoverGen(k) \in Nat /\ generationFor(k) \in Nat
      /\ CoverGen(k) <= generationFor(k)
      /\ Ttl[k] \in Nat /\ StaleIfError[k] \in Nat
  BY <1>2, KeyFacts DEF Attempt
<1>4. o \in Outcome /\ o.src = "load" /\ o.born = attempts[a].born
  BY <1>3 DEF Outcome
<1> HIDE DEF o
<1>5. /\ attempts' \in [Attempts -> Attempt]
      /\ \A j \in Keys : inFlight[j] # NoAttempt =>
            attempts'[inFlight[j]].phase # "idle" /\ attempts'[inFlight[j]].key = j
      /\ Generations' /\ OldTokens' /\ Registered' /\ CurrentIsRegistered'
      /\ DistinctGenerations' /\ Waiting' /\ Settled'
      /\ ReadAfterClear' /\ ServedWithinWindow'
  BY <1>1, <1>4, SettlePreserves
<1>6. CASE attempts[a].gen = generationFor(k)
           /\ Store(k, attempts[a].born, Ttl[k] + StaleIfError[k])
  <2>1. attempts[a].born >= CoverGen(k)
    BY <1>2, <1>3, <1>6
  <2>2. Ttl[k] + StaleIfError[k] \in Nat
        /\ Ttl[k] + StaleIfError[k] <= Ttl[k] + StaleIfError[k]
    BY <1>3
  <2>3. Deadlines' /\ NoResurrection'
    BY <1>1, <1>2, <1>3, <1>6, <2>1, <2>2, StorePreserves
  <2>4. entries' \in [Keys -> Entry] /\ inserted' \subseteq Keys \X Keys
    BY <1>2, <1>3, <1>6, <2>2, StoreFacts
  <2>5. TypeOK'
    BY <1>1, <1>5, <2>4 DEF IInv, TypeOK
  <2> QED BY <1>5, <2>3, <2>5 DEF IInv
<1>7. CASE UNCHANGED <<entries, inserted>>
  <2>1. \A j \in Keys : CoverGen(j)' = CoverGen(j)
    BY <1>1, SameGenerations, NamesAssumption
  <2>2. Deadlines' /\ NoResurrection'
    BY <1>1, <1>7, <2>1 DEF IInv, Deadlines, NoResurrection
  <2>3. TypeOK'
    BY <1>1, <1>5, <1>7 DEF IInv, TypeOK
  <2> QED BY <1>5, <2>2, <2>3 DEF IInv
<1> QED BY <1>1, <1>6, <1>7

\* The catch handler serves only an entry that no clear has covered, within
\* its window, or fails.
LEMMA LoadRejectsPreserves ==
    ASSUME IInv, NEW a \in Attempts, LoadRejects(a)
    PROVE  IInv'
<1> DEFINE k == attempts[a].key
           stale == [src |-> "stale", born |-> entries[k].born, age |-> Age(k)]
<1>1. PICK o : /\ attempts' = [attempts EXCEPT ![a].phase = "settled", ![a].outcome = o]
               /\ o = Failure \/ (entries[k] # NoEntry /\ entries[k].usableUntil > now
                                  /\ o = stale)
  BY DEF LoadRejects, FallbackUsable
<1>2. /\ attempts[a].phase = "loading"
      /\ UNCHANGED <<now, entries, inserted, inFlight, clearGeneration,
                     clearGenerations, callers, batches>>
  BY DEF LoadRejects
<1>3. k \in Keys
  BY <1>2 DEF IInv, OldTokens
<1>4. entries[k] \in Entry /\ now \in Nat
  BY <1>3 DEF IInv, TypeOK
<1>5. Age(k) \in Nat /\ (entries[k].usableUntil > now => Age(k) < Ttl[k] + StaleIfError[k])
  <2>1. entries[k].storedAt <= now
        /\ entries[k].usableUntil <= entries[k].storedAt + Ttl[k] + StaleIfError[k]
    BY <1>3 DEF IInv, Deadlines
  <2>2. Ttl[k] \in Nat /\ StaleIfError[k] \in Nat
    BY <1>3, KeyFacts
  <2> QED BY <1>4, <2>1, <2>2 DEF Age, Entry
<1>6. /\ o \in Outcome /\ o.src # "hit"
      /\ o.src = "stale" => o.age < Ttl[k] + StaleIfError[k]
      /\ (k \notin UnguardedKeys /\ o.src # "error") => o.born >= CoverGen(k)
  <2>1. CASE o = Failure
    BY <2>1 DEF Failure, Outcome
  <2>2. CASE entries[k] # NoEntry /\ entries[k].usableUntil > now /\ o = stale
    <3>1. k \notin UnguardedKeys => entries[k].born >= CoverGen(k)
      BY <1>3, <2>2 DEF IInv, NoResurrection
    <3> QED BY <1>4, <1>5, <2>2, <3>1 DEF Outcome, Entry
  <2> QED BY <1>1, <2>1, <2>2
<1>7. /\ attempts' \in [Attempts -> Attempt]
      /\ \A j \in Keys : inFlight[j] # NoAttempt =>
            attempts'[inFlight[j]].phase # "idle" /\ attempts'[inFlight[j]].key = j
      /\ Generations' /\ OldTokens' /\ Registered' /\ CurrentIsRegistered'
      /\ DistinctGenerations' /\ Waiting' /\ Settled'
      /\ ReadAfterClear' /\ ServedWithinWindow'
  BY <1>1, <1>2, <1>6, SettlePreserves
<1>8. \A j \in Keys : CoverGen(j)' = CoverGen(j)
  BY <1>2, SameGenerations, NamesAssumption
<1>9. Deadlines' /\ NoResurrection'
  BY <1>2, <1>8 DEF IInv, Deadlines, NoResurrection
<1>10. TypeOK'
  BY <1>2, <1>7 DEF IInv, TypeOK
<1> QED BY <1>7, <1>9, <1>10 DEF IInv

\* The finally handler removes only its own registration, and hands its answer
\* to every caller that waits for it.
LEMMA AttemptFinallyPreserves ==
    ASSUME IInv, NEW a \in Attempts, AttemptFinally(a)
    PROVE  IInv'
<1> DEFINE done(c) == [callers[c] EXCEPT !.st = "done", !.on = NoAttempt,
                                         !.outcome = attempts[a].outcome]
<1>1. /\ attempts[a].phase = "settled"
      /\ attempts' = [attempts EXCEPT ![a] = IdleAttempt]
      /\ UNCHANGED <<now, entries, inserted, clearGeneration, clearGenerations, batches>>
      /\ inFlight' = [k \in Keys |-> IF inFlight[k] = a THEN NoAttempt ELSE inFlight[k]]
      /\ callers' = [c \in Callers |-> IF Awaiting(c, a) THEN done(c) ELSE callers[c]]
  BY DEF AttemptFinally, Unregistered
<1>2. /\ attempts \in [Attempts -> Attempt] /\ callers \in [Callers -> Caller]
      /\ inFlight \in [Keys -> Attempts \cup {NoAttempt}]
  BY DEF IInv, TypeOK
<1>3. \A b \in Attempts : attempts'[b] = IF b = a THEN IdleAttempt ELSE attempts[b]
  BY <1>1, <1>2
<1>4. IdleAttempt \in Attempt /\ IdleAttempt.phase = "idle"
  BY NamesAssumption DEF IdleAttempt, Attempt, Outcome, Failure
<1>5. \A c \in Callers :
         /\ done(c) \in Caller /\ done(c).st = "done" /\ done(c).key = callers[c].key
         /\ done(c).asked = callers[c].asked /\ done(c).outcome = attempts[a].outcome
  BY <1>2 DEF Caller, Attempt
<1> HIDE DEF done
<1>6. \A c \in Callers : callers'[c] = IF Awaiting(c, a) THEN done(c) ELSE callers[c]
  BY <1>1
<1>7. Generations' /\ \A j \in Keys : generationFor(j)' = generationFor(j)
                                       /\ CoverGen(j)' = CoverGen(j)
  BY <1>1, SameGenerations, NamesAssumption DEF IInv
<1>8. TypeOK'
  <2>1. attempts' \in [Attempts -> Attempt] /\ callers' \in [Callers -> Caller]
        /\ inFlight' \in [Keys -> Attempts \cup {NoAttempt}]
    BY <1>1, <1>2, <1>4, <1>5
  <2>2. \A k \in Keys : inFlight'[k] # NoAttempt =>
           inFlight'[k] = inFlight[k] /\ inFlight[k] # a
    BY <1>1
  <2>3. \A k \in Keys : inFlight'[k] # NoAttempt =>
           attempts'[inFlight'[k]].phase # "idle" /\ attempts'[inFlight'[k]].key = k
    BY <1>2, <1>3, <2>2 DEF IInv, TypeOK
  <2> QED BY <1>1, <2>1, <2>3 DEF IInv, TypeOK
<1>9. OldTokens'
  BY <1>1, <1>3, <1>4 DEF IInv, OldTokens
<1>10. Deadlines' /\ NoResurrection'
  BY <1>1, <1>7 DEF IInv, Deadlines, NoResurrection
<1>11. Registered'
  <2> SUFFICES ASSUME NEW j \in Keys, inFlight'[j] # NoAttempt
               PROVE  LET b == inFlight'[j] IN
                      /\ attempts'[b].born >= CoverGen(j)
                      /\ (j \notin UnguardedKeys /\ attempts'[b].phase = "settled"
                            /\ attempts'[b].outcome.src # "error")
                         => attempts'[b].outcome.born >= CoverGen(j)
    BY <1>7 DEF Registered
  <2>1. inFlight'[j] = inFlight[j] /\ inFlight[j] # a /\ inFlight[j] \in Attempts
    BY <1>1, <1>2
  <2> QED BY <1>3, <2>1 DEF IInv, Registered
<1>12. CurrentIsRegistered'
  <2> SUFFICES ASSUME NEW b \in Attempts, attempts'[b].phase # "idle",
                      (attempts[b].gen = generationFor(attempts[b].key))'
               PROVE  inFlight'[attempts'[b].key] = b
    BY DEF CurrentIsRegistered, Current
  <2>1. b # a /\ attempts'[b] = attempts[b]
    BY <1>3, <1>4
  <2>2. attempts[b].key \in Keys
    BY <2>1 DEF IInv, OldTokens
  <2>3. inFlight[attempts[b].key] = b
    BY <1>7, <2>1, <2>2 DEF IInv, CurrentIsRegistered, Current
  <2> QED BY <1>1, <2>1, <2>2, <2>3
<1>13. DistinctGenerations' /\ Settled'
  BY <1>3, <1>4 DEF IInv, DistinctGenerations, Settled
<1>14. Waiting'
  <2> SUFFICES ASSUME NEW d \in Callers, callers'[d].st = "waiting"
               PROVE  LET b == callers'[d].on IN
                      /\ b \in Attempts /\ callers'[d].key \in Keys
                      /\ attempts'[b].phase # "idle"
                      /\ attempts'[b].key = callers'[d].key
                      /\ callers'[d].asked <= CoverGen(callers'[d].key)
                      /\ attempts'[b].born >= callers'[d].asked
                      /\ (callers'[d].key \notin UnguardedKeys
                            /\ attempts'[b].phase = "settled"
                            /\ attempts'[b].outcome.src # "error")
                         => attempts'[b].outcome.born >= callers'[d].asked
    BY <1>7 DEF Waiting
  <2>1. callers'[d] = callers[d] /\ callers[d].st = "waiting" /\ callers[d].on # a
    BY <1>5, <1>6 DEF Awaiting
  <2> QED BY <1>3, <2>1 DEF IInv, Waiting
<1>15. ReadAfterClear'
  <2> SUFFICES ASSUME NEW d \in Callers, callers'[d].st = "done",
                      callers'[d].key \notin UnguardedKeys,
                      callers'[d].outcome.src # "error"
               PROVE  callers'[d].outcome.born >= callers'[d].asked
    BY DEF ReadAfterClear
  <2>1. CASE Awaiting(d, a)
    <3>1. callers'[d].key = callers[d].key /\ callers'[d].asked = callers[d].asked
          /\ callers'[d].outcome = attempts[a].outcome
      BY <1>5, <1>6, <2>1
    <3> QED BY <1>1, <2>1, <3>1 DEF IInv, Waiting, Awaiting
  <2>2. CASE ~Awaiting(d, a)
    BY <1>6, <2>2 DEF IInv, ReadAfterClear
  <2> QED BY <2>1, <2>2
<1>16. ServedWithinWindow'
  <2> SUFFICES ASSUME NEW d \in Callers, callers'[d].st = "done"
               PROVE  LET o == callers'[d].outcome
                          k == callers'[d].key
                      IN  /\ o.src = "hit" => o.age < Ttl[k]
                          /\ o.src = "stale" => o.age < Ttl[k] + StaleIfError[k]
    BY DEF ServedWithinWindow
  <2>1. CASE Awaiting(d, a)
    <3>1. callers'[d].key = attempts[a].key
          /\ callers'[d].outcome = attempts[a].outcome
      BY <1>5, <1>6, <2>1 DEF IInv, Waiting, Awaiting
    <3> QED BY <1>1, <3>1 DEF IInv, Settled
  <2>2. CASE ~Awaiting(d, a)
    BY <1>6, <2>2 DEF IInv, ServedWithinWindow
  <2> QED BY <2>1, <2>2
<1> QED BY <1>7, <1>8, <1>9, <1>10, <1>11, <1>12, <1>13, <1>14, <1>15, <1>16 DEF IInv

\* A finished caller is forgotten.
LEMMA CallerReturnsPreserves ==
    ASSUME IInv, NEW c \in Callers, CallerReturns(c)
    PROVE  IInv'
<1>1. /\ callers' = [callers EXCEPT ![c] = IdleCaller]
      /\ UNCHANGED <<now, entries, inserted, inFlight, attempts,
                     clearGeneration, clearGenerations, batches>>
  BY DEF CallerReturns
<1>2. IdleCaller \in Caller /\ IdleCaller.st = "idle"
  BY NamesAssumption DEF IdleCaller, Caller, Outcome, Failure
<1>3. TypeOK'
  BY <1>1, <1>2 DEF IInv, TypeOK
<1>4. OldTokens'
  BY <1>1 DEF IInv, OldTokens
<1>5. \A d \in Callers : callers'[d] = IF d = c THEN IdleCaller ELSE callers[d]
  BY <1>1 DEF IInv, TypeOK
<1>6. Waiting'
  <2>1. \A j \in Keys : CoverGen(j)' = CoverGen(j)
    BY <1>1, SameGenerations, NamesAssumption
  <2> QED BY <1>1, <1>2, <1>5, <2>1 DEF IInv, Waiting
<1>7. ReadAfterClear' /\ ServedWithinWindow'
  BY <1>2, <1>5 DEF IInv, ReadAfterClear, ServedWithinWindow
<1> QED BY <1>1, <1>3, <1>4, <1>6, <1>7, CoreUnchanged DEF IInv

\* Steps that leave the callers alone keep what the invariant says of them.
LEMMA CallersUnchanged ==
    ASSUME IInv, UNCHANGED <<attempts, callers, clearGeneration, clearGenerations>>
    PROVE  Waiting' /\ ReadAfterClear' /\ ServedWithinWindow'
<1>1. \A j \in Keys : CoverGen(j)' = CoverGen(j)
  BY SameGenerations, NamesAssumption
<1> QED BY <1>1 DEF IInv, Waiting, ReadAfterClear, ServedWithinWindow

\* The token a batch takes is at most the number of clears.
LEMMA BatchStartPreserves ==
    ASSUME IInv, NEW b \in Batches, NEW k \in Keys, BatchStart(b, k)
    PROVE  IInv'
<1> DEFINE r == [st |-> "loading", key |-> k, token |-> generationFor(TokenName[k]),
                 born |-> clearGeneration, landed |-> FALSE, crossed |-> FALSE]
<1>1. /\ batches' = [batches EXCEPT ![b] = r]
      /\ UNCHANGED <<now, entries, inserted, inFlight, attempts,
                     clearGeneration, clearGenerations, callers>>
  BY DEF BatchStart
<1>2. clearGeneration \in Nat /\ generationFor(TokenName[k]) \in Nat /\ k \in Names
      /\ generationFor(TokenName[k]) <= clearGeneration
  BY KeyFacts DEF IInv, TypeOK
<1>4. r.st = "loading" /\ r.key = k /\ r.token <= r.born
  BY <1>2
<1>5. r \in Batch
  BY <1>2 DEF Batch
<1> HIDE DEF r
<1>6. batches' \in [Batches -> Batch]
  BY <1>1, <1>5 DEF IInv, TypeOK
<1>7. TypeOK'
  BY <1>1, <1>6 DEF IInv, TypeOK
<1>8. \A d \in Batches : batches'[d] = IF d = b THEN r ELSE batches[d]
  BY <1>1 DEF IInv, TypeOK
<1>9. OldTokens'
  BY <1>1, <1>4, <1>8 DEF IInv, OldTokens
<1> QED BY <1>1, <1>7, <1>9, CoreUnchanged, CallersUnchanged DEF IInv

\* A batch that stores with setIfGeneration() passes the check only when its
\* request came after the key's latest clear.
LEMMA BatchStoresPreserves ==
    ASSUME IInv, NEW b \in Batches, BatchStores(b)
    PROVE  IInv'
<1> DEFINE k == batches[b].key
<1>1. PICK l \in BOOLEAN, x \in BOOLEAN :
         batches' = [batches EXCEPT ![b].st = "done", ![b].landed = l, ![b].crossed = x]
  <2>1. (k \in UnguardedKeys \/ Current(k, batches[b].token)) \in BOOLEAN
    OBVIOUS
  <2>2. (generationFor(k) > batches[b].born) \in BOOLEAN
    OBVIOUS
  <2> QED BY <2>1, <2>2, Zenon DEF BatchStores
<1>2. /\ batches[b].st = "loading"
      /\ UNCHANGED <<now, inFlight, attempts, clearGeneration, clearGenerations, callers>>
      /\ \/ /\ k \in UnguardedKeys \/ batches[b].token = generationFor(k)
            /\ Store(k, batches[b].born, Ttl[k])
         \/ UNCHANGED <<entries, inserted>>
  BY DEF BatchStores, Current
<1>3. batches[b] \in Batch /\ batches \in [Batches -> Batch]
  BY DEF IInv, TypeOK
<1>4. k \in Keys /\ batches[b].token <= batches[b].born
  BY <1>2 DEF IInv, OldTokens
<1>5. batches' \in [Batches -> Batch]
  BY <1>1, <1>3 DEF Batch
<1>6. \A d \in Batches : /\ batches'[d].key = batches[d].key
                         /\ batches'[d].token = batches[d].token
                         /\ batches'[d].born = batches[d].born
                         /\ batches'[d].st # "idle" => batches[d].st # "idle"
  BY <1>1, <1>2, <1>3 DEF Batch
<1>7. OldTokens'
  BY <1>2, <1>6 DEF IInv, OldTokens
<1>8. /\ CoverGen(k) \in Nat /\ generationFor(k) \in Nat /\ Ttl[k] \in Nat
      /\ StaleIfError[k] \in Nat /\ CoverGen(k) <= generationFor(k)
      /\ batches[b].born \in Nat /\ batches[b].token \in Nat
  BY <1>3, <1>4, KeyFacts DEF Batch
<1>9. Generations' /\ \A j \in Keys : generationFor(j)' = generationFor(j)
                                       /\ CoverGen(j)' = CoverGen(j)
  BY <1>2, SameGenerations, NamesAssumption DEF IInv
<1>10. Registered' /\ DistinctGenerations' /\ Settled'
  BY <1>2, <1>9 DEF IInv, Registered, DistinctGenerations, Settled
<1>11. CurrentIsRegistered'
  BY <1>2, <1>9 DEF IInv, CurrentIsRegistered, Current, OldTokens
<1>12. Waiting' /\ ReadAfterClear' /\ ServedWithinWindow'
  BY <1>2, CallersUnchanged
<1>13. CASE (k \in UnguardedKeys \/ batches[b].token = generationFor(k))
            /\ Store(k, batches[b].born, Ttl[k])
  <2>1. k \notin UnguardedKeys => batches[b].born >= CoverGen(k)
    BY <1>4, <1>8, <1>13
  <2>2. Ttl[k] <= Ttl[k] + StaleIfError[k]
    BY <1>8
  <2>3. Deadlines' /\ NoResurrection'
    BY <1>2, <1>4, <1>8, <1>13, <2>1, <2>2, StorePreserves
  <2>4. entries' \in [Keys -> Entry] /\ inserted' \subseteq Keys \X Keys
    BY <1>4, <1>8, <1>13, StoreFacts
  <2>5. TypeOK'
    BY <1>2, <1>5, <2>4 DEF IInv, TypeOK
  <2> QED BY <1>7, <1>9, <1>10, <1>11, <1>12, <2>3, <2>5 DEF IInv
<1>14. CASE UNCHANGED <<entries, inserted>>
  <2>1. Deadlines' /\ NoResurrection'
    BY <1>2, <1>9, <1>14 DEF IInv, Deadlines, NoResurrection
  <2>2. TypeOK'
    BY <1>2, <1>5, <1>14 DEF IInv, TypeOK
  <2> QED BY <1>7, <1>9, <1>10, <1>11, <1>12, <2>1, <2>2 DEF IInv
<1> QED BY <1>2, <1>13, <1>14

\* A batch that is over, or whose upstream call failed, is forgotten.
LEMMA BatchEndsPreserves ==
    ASSUME IInv, NEW b \in Batches, BatchEnds(b)
    PROVE  IInv'
<1>1. /\ batches' = [batches EXCEPT ![b] = IdleBatch]
      /\ UNCHANGED <<now, entries, inserted, inFlight, attempts,
                     clearGeneration, clearGenerations, callers>>
  BY DEF BatchEnds
<1>2. IdleBatch.st = "idle" /\ IdleBatch \in Batch
  BY NamesAssumption DEF IdleBatch, Batch
<1>3. TypeOK'
  BY <1>1, <1>2 DEF IInv, TypeOK
<1>4. \A d \in Batches : batches'[d] = IF d = b THEN IdleBatch ELSE batches[d]
  BY <1>1 DEF IInv, TypeOK
<1>5. OldTokens'
  BY <1>1, <1>2, <1>4 DEF IInv, OldTokens
<1> QED BY <1>1, <1>3, <1>5, CoreUnchanged, CallersUnchanged DEF IInv

\* Time passes: entries only get older.
LEMMA TickPreserves == IInv /\ Tick => IInv'
<1> SUFFICES ASSUME IInv, Tick PROVE IInv'
  OBVIOUS
<1>1. /\ now' = now + 1 /\ now \in Nat
      /\ UNCHANGED <<entries, inserted, inFlight, attempts, clearGeneration,
                     clearGenerations, callers, batches>>
  BY DEF Tick, IInv, TypeOK
<1>2. Generations' /\ \A j \in Keys : generationFor(j)' = generationFor(j)
                                       /\ CoverGen(j)' = CoverGen(j)
  BY <1>1, SameGenerations, NamesAssumption DEF IInv
<1>3. TypeOK' /\ OldTokens'
  BY <1>1 DEF IInv, TypeOK, OldTokens
<1>4. Deadlines'
  BY <1>1 DEF IInv, TypeOK, Deadlines, Entry
<1>5. NoResurrection' /\ Registered' /\ DistinctGenerations' /\ Settled'
  BY <1>1, <1>2 DEF IInv, NoResurrection, Registered, DistinctGenerations, Settled
<1>6. CurrentIsRegistered'
  BY <1>1, <1>2 DEF IInv, CurrentIsRegistered, Current, OldTokens
<1> QED BY <1>1, <1>2, <1>3, <1>4, <1>5, <1>6, CallersUnchanged DEF IInv

\* A clear drops what it covers, and every attempt or batch it relates to now
\* carries an outdated generation.
LEMMA ClearPreserves ==
    ASSUME IInv, NEW p \in Names, Clear(p)
    PROVE  IInv'
<1>1. /\ clearGeneration' = clearGeneration + 1
      /\ clearGenerations' = [clearGenerations EXCEPT ![p] = clearGeneration + 1]
      /\ entries' = [k \in Keys |-> IF StartsWith(k, p) THEN NoEntry ELSE entries[k]]
      /\ inserted' \subseteq inserted
      /\ inFlight' = [k \in Keys |-> IF StartsWith(k, p) THEN NoAttempt ELSE inFlight[k]]
      /\ UNCHANGED <<now, attempts, callers, batches>>
  BY DEF Clear, Disowned
<1>2. Generations'
  BY ClearFacts DEF IInv
<1>3. \A k \in Keys :
         /\ (StartsWith(k, p) \/ StartsWith(p, k)) => generationFor(k)' = clearGeneration + 1
         /\ ~(StartsWith(k, p) \/ StartsWith(p, k)) => generationFor(k)' = generationFor(k)
         /\ StartsWith(k, p) => CoverGen(k)' = clearGeneration + 1
         /\ ~StartsWith(k, p) => CoverGen(k)' = CoverGen(k)
  BY ClearFacts, NamesAssumption DEF IInv, Related
<1>4. \A k \in Keys : CoverGen(k) \in Nat /\ CoverGen(k) <= clearGeneration
                      /\ CoverGen(k)' \in Nat /\ CoverGen(k) <= CoverGen(k)'
                      /\ clearGeneration \in Nat
  <2> SUFFICES ASSUME NEW k \in Keys
               PROVE  /\ CoverGen(k) \in Nat /\ CoverGen(k) <= clearGeneration
                      /\ CoverGen(k)' \in Nat /\ CoverGen(k) <= CoverGen(k)'
                      /\ clearGeneration \in Nat
    OBVIOUS
  <2>1. CoverGen(k) \in Nat /\ CoverGen(k) <= clearGeneration /\ clearGeneration \in Nat
    BY KeyFacts DEF IInv, TypeOK
  <2> QED BY <1>3, <2>1
<1>5. NoEntry \in Entry
  BY DEF NoEntry, Entry
<1>6. TypeOK'
  <2>1. clearGeneration' \in Nat /\ clearGenerations' \in [Names -> Nat]
    BY <1>1 DEF IInv, TypeOK
  <2>2. entries' \in [Keys -> Entry] /\ inserted' \subseteq Keys \X Keys
    BY <1>1, <1>5 DEF IInv, TypeOK
  <2>3. inFlight' \in [Keys -> Attempts \cup {NoAttempt}]
    BY <1>1 DEF IInv, TypeOK
  <2>4. \A k \in Keys : inFlight'[k] # NoAttempt => inFlight'[k] = inFlight[k]
    BY <1>1
  <2> QED BY <1>1, <2>1, <2>2, <2>3, <2>4 DEF IInv, TypeOK
<1>7. OldTokens'
  <2>1. \A a \in Attempts : attempts[a].born \in Nat
    BY DEF IInv, TypeOK, Attempt
  <2>2. clearGeneration \in Nat
    BY DEF IInv, TypeOK
  <2> QED BY <1>1, <2>1, <2>2 DEF IInv, OldTokens
<1>8. Deadlines'
  <2>1. \A k \in Keys : Ttl[k] \in Nat /\ StaleIfError[k] \in Nat
    BY KeyFacts
  <2>2. now \in Nat
    BY DEF IInv, TypeOK
  <2> QED BY <1>1, <2>1, <2>2 DEF IInv, Deadlines, NoEntry
<1>9. NoResurrection'
  BY <1>1, <1>3 DEF IInv, NoResurrection
<1>10. Registered'
  <2>1. \A k \in Keys : inFlight'[k] # NoAttempt =>
           inFlight'[k] = inFlight[k] /\ CoverGen(k)' = CoverGen(k)
    BY <1>1, <1>3
  <2> QED BY <1>1, <2>1 DEF IInv, Registered
<1>11. CurrentIsRegistered'
  <2> SUFFICES ASSUME NEW a \in Attempts, attempts[a].phase # "idle",
                      (attempts[a].gen = generationFor(attempts[a].key))'
               PROVE  inFlight'[attempts[a].key] = a
    BY <1>1 DEF CurrentIsRegistered, Current
  <2> DEFINE k == attempts[a].key
  <2>1. k \in Keys /\ attempts[a].gen <= clearGeneration
        /\ attempts[a].gen \in Nat /\ clearGeneration \in Nat
    BY DEF IInv, OldTokens, TypeOK, Attempt
  <2>2. attempts[a].gen # clearGeneration + 1
    BY <2>1
  <2>3. ~(StartsWith(k, p) \/ StartsWith(p, k))
    BY <1>1, <1>3, <2>1, <2>2
  <2>4. attempts[a].gen = generationFor(k)
    BY <1>1, <1>3, <2>1, <2>3
  <2>5. inFlight[k] = a
    BY <2>4 DEF IInv, CurrentIsRegistered, Current
  <2> QED BY <1>1, <2>1, <2>3, <2>5
<1>12. DistinctGenerations' /\ Settled' /\ ReadAfterClear' /\ ServedWithinWindow'
  BY <1>1 DEF IInv, DistinctGenerations, Settled, ReadAfterClear, ServedWithinWindow
<1>13. Waiting'
  <2> SUFFICES ASSUME NEW d \in Callers, callers[d].st = "waiting"
               PROVE  callers[d].key \in Keys
                      /\ callers[d].asked <= CoverGen(callers[d].key)'
    BY <1>1 DEF IInv, Waiting
  <2>1. callers[d].key \in Keys /\ callers[d].asked <= CoverGen(callers[d].key)
        /\ callers[d].asked \in Nat
    BY DEF IInv, Waiting, TypeOK, Caller
  <2> QED BY <1>1, <1>4, <2>1
<1> QED BY <1>2, <1>6, <1>7, <1>8, <1>9, <1>10, <1>11, <1>12, <1>13 DEF IInv

-----------------------------------------------------------------------------
(* The theorems.                                                            *)

\* A fresh cache satisfies the invariant.
LEMMA InitInvariant == Init => IInv
<1> SUFFICES ASSUME Init PROVE IInv
  OBVIOUS
<1>1. NoEntry \in Entry /\ IdleAttempt \in Attempt /\ IdleCaller \in Caller
  BY NamesAssumption DEF NoEntry, Entry, IdleAttempt, Attempt, IdleCaller, Caller,
                         Outcome, Failure
<1>2. IdleBatch \in Batch
  BY NamesAssumption DEF IdleBatch, Batch
<1>3. TypeOK
  BY <1>1, <1>2 DEF Init, TypeOK
<1>4. Generations
  <2>1. \A p \in Names : clearGenerations[p] = 0 /\ clearGeneration = 0
    BY DEF Init
  <2>2. ASSUME NEW s \in Names, NEW P, s \in P, P \subseteq Names
        PROVE  HasMax(Gens(P))
    <3>1. Gens(P) = {0}
      BY <2>1, <2>2 DEF Gens
    <3> QED BY <3>1 DEF HasMax
  <2>3. \A s \in Names : s \in Related(s) /\ s \in Cover(s)
    BY NamesAssumption DEF Related, Cover
  <2>4. \A s \in Names : Related(s) \subseteq Names /\ Cover(s) \subseteq Names
    BY DEF Related, Cover
  <2>5. \A s \in Names : HasMax(Gens(Related(s))) /\ HasMax(Gens(Cover(s)))
    BY <2>2, <2>3, <2>4
  <2> QED BY <2>1, <2>5 DEF Generations
<1>5. Deadlines
  <2>1. \A k \in Keys : Ttl[k] \in Nat /\ StaleIfError[k] \in Nat
    BY PolicyAssumption
  <2> QED BY <2>1 DEF Init, Deadlines, NoEntry
<1>6. OldTokens /\ NoResurrection /\ Registered /\ CurrentIsRegistered
      /\ DistinctGenerations /\ Waiting /\ Settled
  BY DEF Init, OldTokens, NoResurrection, Registered, CurrentIsRegistered,
         DistinctGenerations, Waiting, Settled, IdleAttempt, IdleCaller, IdleBatch
<1>7. ReadAfterClear /\ ServedWithinWindow
  BY DEF Init, ReadAfterClear, ServedWithinWindow, IdleCaller
<1> QED BY <1>3, <1>4, <1>5, <1>6, <1>7 DEF IInv

\* Every step of the cache keeps the invariant.
LEMMA StepInvariant == IInv /\ [Next]_vars => IInv'
<1> SUFFICES ASSUME IInv, [Next]_vars PROVE IInv'
  OBVIOUS
<1>1. CASE Tick
  BY <1>1, TickPreserves
<1>2. ASSUME NEW c \in Callers, NEW k \in Keys, ReadHit(c, k) PROVE IInv'
  BY <1>2, ReadHitPreserves
<1>3. ASSUME NEW c \in Callers, NEW k \in Keys, ReadJoin(c, k) PROVE IInv'
  BY <1>3, ReadJoinPreserves
<1>4. ASSUME NEW c \in Callers, NEW k \in Keys, NEW a \in Attempts, ReadStart(c, k, a)
      PROVE  IInv'
  BY <1>4, ReadStartPreserves
<1>5. ASSUME NEW a \in Attempts, LoadResolves(a) PROVE IInv'
  BY <1>5, LoadResolvesPreserves
<1>6. ASSUME NEW a \in Attempts, LoadRejects(a) PROVE IInv'
  BY <1>6, LoadRejectsPreserves
<1>7. ASSUME NEW a \in Attempts, AttemptFinally(a) PROVE IInv'
  BY <1>7, AttemptFinallyPreserves
<1>8. ASSUME NEW c \in Callers, CallerReturns(c) PROVE IInv'
  BY <1>8, CallerReturnsPreserves
<1>9. ASSUME NEW b \in Batches, NEW k \in Keys, BatchStart(b, k) PROVE IInv'
  BY <1>9, BatchStartPreserves
<1>10. ASSUME NEW b \in Batches, BatchStores(b) PROVE IInv'
  BY <1>10, BatchStoresPreserves
<1>11. ASSUME NEW b \in Batches, BatchEnds(b) PROVE IInv'
  BY <1>11, BatchEndsPreserves
<1>12. ASSUME NEW p \in Names, Clear(p) PROVE IInv'
  BY <1>12, ClearPreserves
<1>13. CASE UNCHANGED vars
  <2>1. UNCHANGED <<now, entries, inserted, inFlight, attempts, clearGeneration,
                    clearGenerations, callers, batches>>
    BY <1>13 DEF vars
  <2>2. TypeOK' /\ OldTokens'
    BY <2>1 DEF IInv, TypeOK, OldTokens
  <2> QED BY <2>1, <2>2, CoreUnchanged, CallersUnchanged DEF IInv
<1> QED BY <1>1, <1>2, <1>3, <1>4, <1>5, <1>6, <1>7, <1>8, <1>9, <1>10, <1>11,
           <1>12, <1>13 DEF Next

\* The inductive invariant holds throughout.
LEMMA Invariance == Spec => []IInv
BY InitInvariant, StepInvariant, PTL DEF Spec

\* Types, for every instance.
THEOREM CacheTypes == Spec => []TypeOK
<1>1. IInv => TypeOK
  BY DEF IInv
<1> QED BY <1>1, Invariance, PTL

\* No clear is ever undone by a load that was under way, through read() or
\* through setIfGeneration(), whatever prefix the token was taken for.
THEOREM ClearsAreFinal == Spec => []NoResurrection
<1>1. IInv => NoResurrection
  BY DEF IInv
<1> QED BY <1>1, Invariance, PTL

\* A read() that follows a clear of its key never answers with a value that
\* was requested before the clear.
THEOREM ReadsSeeClears == Spec => []ReadAfterClear
<1>1. IInv => ReadAfterClear
  BY DEF IInv
<1> QED BY <1>1, Invariance, PTL

\* Upstream is asked at most once at a time per key and generation.
THEOREM LoadsAreCoalesced == Spec => []OneLoadPerGeneration
<1>1. IInv => OneLoadPerGeneration
  BY DEF IInv, DistinctGenerations, OneLoadPerGeneration
<1> QED BY <1>1, Invariance, PTL

\* Nothing is served past its window, however many refreshes failed.
THEOREM AnswersWithinWindow == Spec => []ServedWithinWindow
<1>1. IInv => ServedWithinWindow
  BY DEF IInv
<1> QED BY <1>1, Invariance, PTL

\* Every waiting reader holds an attempt that has yet to settle.
THEOREM ReadersAreAnswered == Spec => []NobodyIsStranded
<1>1. IInv => NobodyIsStranded
  BY DEF IInv, Waiting, NobodyIsStranded
<1> QED BY <1>1, Invariance, PTL

-----------------------------------------------------------------------------
(* Eviction.  The Map keeps its keys in a strict total order, and what may  *)
(* stay is defined by counting the keys after it: that no more than         *)
(* MaxEntries stay, and that all that go come before all that stay, holds   *)
(* because the order is total.                                              *)

IsOrder(S, ord) ==
    /\ \A j, k \in S : j # k => <<j, k>> \in ord \/ <<k, j>> \in ord
    /\ \A j, k \in S : <<j, k>> \in ord => <<k, j>> \notin ord
    /\ \A i, j, k \in S : <<i, j>> \in ord /\ <<j, k>> \in ord => <<i, k>> \in ord

\* Those of S that fewer than m others of S follow.
LastOf(S, ord, m) == {k \in S : Cardinality({j \in S : <<k, j>> \in ord}) < m}

\* The Map holds no more than it may, in order.
Ordered ==
    /\ IsFiniteSet(Present) /\ Cardinality(Present) <= MaxEntries
    /\ inserted \subseteq Present \X Present /\ IsOrder(Present, inserted)

\* Nothing that is under way looks as if it had stored its value.
Pending ==
    /\ \A a \in Attempts : attempts[a].phase = "loading" => attempts[a].outcome.src = "error"
    /\ \A b \in Batches : batches[b].st = "loading" => ~batches[b].landed

EvictInv == IInv /\ now >= 1 /\ Ordered /\ Pending

LEMMA NatMin == ASSUME NEW T, T \subseteq Nat, T # {} PROVE \E x \in T : \A y \in T : x <= y
<1>1. PICK x \in T : \A y \in T : ~(<<y, x>> \in OpToRel(<, Nat))
  BY NatLessThanWellFounded, WFMin
<1>2. \A y \in T : ~(y < x)
  BY <1>1 DEF OpToRel
<1> QED BY <1>2

\* Those that fewer than m others follow are at most m, and follow all the rest.
LEMMA FewFollow ==
    ASSUME NEW S, IsFiniteSet(S), NEW ord, IsOrder(S, ord), NEW m \in Nat
    PROVE  /\ IsFiniteSet(LastOf(S, ord, m)) /\ Cardinality(LastOf(S, ord, m)) <= m
           /\ \A k \in S \ LastOf(S, ord, m), j \in LastOf(S, ord, m) : <<k, j>> \in ord
<1> DEFINE Later(k) == {j \in S : <<k, j>> \in ord}
           F(k) == Cardinality(Later(k))
           K == LastOf(S, ord, m)
<1>1. \A k \in S : IsFiniteSet(Later(k)) /\ F(k) \in Nat
  <2> SUFFICES ASSUME NEW k \in S PROVE IsFiniteSet(Later(k)) /\ F(k) \in Nat
    OBVIOUS
  <2>1. Later(k) \subseteq S
    OBVIOUS
  <2> HIDE DEF Later
  <2> QED BY <2>1, FS_Subset, FS_CardinalityType
<1>2. ASSUME NEW i \in S, NEW k \in S, <<i, k>> \in ord PROVE F(k) < F(i)
  <2>1. Later(k) \cup {k} \subseteq Later(i)
    BY <1>2 DEF IsOrder
  <2>2. k \notin Later(k)
    BY DEF IsOrder
  <2>3. IsFiniteSet(Later(k)) /\ IsFiniteSet(Later(i)) /\ F(k) \in Nat /\ F(i) \in Nat
    BY <1>1
  <2> HIDE DEF Later
  <2>4. Cardinality(Later(k) \cup {k}) = F(k) + 1
    BY <2>2, <2>3, FS_AddElement
  <2>5. Cardinality(Later(k) \cup {k}) <= F(i)
    BY <2>1, <2>3, FS_Subset
  <2> HIDE DEF F
  <2> QED BY <2>3, <2>4, <2>5
<1>3. K = {k \in S : F(k) < m}
  BY DEF LastOf
<1> HIDE DEF K
<1>4. \A k \in S \ K, j \in K : <<k, j>> \in ord
  <2> SUFFICES ASSUME NEW k \in S \ K, NEW j \in K PROVE <<k, j>> \in ord
    OBVIOUS
  <2>1. j \in S /\ F(j) < m /\ ~(F(k) < m) /\ F(j) \in Nat /\ F(k) \in Nat /\ j # k
    <3> HIDE DEF F
    <3> QED BY <1>1, <1>3
  <2>2. <<j, k>> \in ord => F(k) < F(j)
    <3> HIDE DEF F
    <3> QED BY <1>2, <2>1
  <2>3. <<j, k>> \notin ord
    <3> HIDE DEF F
    <3> QED BY <2>1, <2>2
  <2> QED BY <2>1, <2>3 DEF IsOrder
<1>5. IsFiniteSet(K) /\ Cardinality(K) \in Nat
  <2>1. K \subseteq S
    BY <1>3
  <2> QED BY <2>1, FS_Subset, FS_CardinalityType
<1>6. ASSUME K = {} PROVE Cardinality(K) <= m
  <2>1. Cardinality({}) = 0
    BY FS_EmptySet
  <2>2. Cardinality(K) = 0
    BY <1>6, <2>1
  <2> QED BY <2>2
<1>7. ASSUME K # {} PROVE Cardinality(K) <= m
  <2> HIDE DEF F
  <2>1. PICK k \in K : \A j \in K : F(j) <= F(k)
    <3> DEFINE T == {m - F(j) : j \in K}
    <3>1. \A j \in K : m - F(j) \in Nat /\ F(j) \in Nat
      <4>1. \A j \in K : j \in S /\ F(j) < m
        BY <1>3
      <4>2. \A j \in K : F(j) \in Nat
        BY <1>1, <4>1
      <4> QED BY <4>1, <4>2
    <3>2. T \subseteq Nat /\ T # {}
      BY <1>7, <3>1
    <3>3. PICK x \in T : \A y \in T : x <= y
      <4> HIDE DEF T
      <4> QED BY <3>2, NatMin
    <3>4. PICK k \in K : x = m - F(k)
      BY <3>3
    <3>5. \A j \in K : m - F(k) <= m - F(j)
      BY <3>3, <3>4
    <3> QED BY <3>1, <3>5
  <2>2. k \in S /\ F(k) < m /\ F(k) \in Nat
    BY <1>1, <1>3
  <2>3. \A j \in K : j \in S /\ F(j) \in Nat /\ F(j) <= F(k)
    BY <1>1, <1>3, <2>1
  <2>4. \A j \in K : <<j, k>> \notin ord
    BY <1>2, <2>2, <2>3
  <2>5. K \subseteq Later(k) \cup {k}
    BY <2>2, <2>3, <2>4 DEF IsOrder
  <2>6. IsFiniteSet(Later(k))
    BY <1>1, <2>2
  <2>7. F(k) = Cardinality(Later(k))
    BY DEF F
  <2> HIDE DEF Later
  <2>8. IsFiniteSet(Later(k) \cup {k}) /\ Cardinality(Later(k) \cup {k}) <= F(k) + 1
    <3>1. CASE k \in Later(k)
      <4>1. Later(k) \cup {k} = Later(k)
        BY <3>1
      <4>2. Cardinality(Later(k) \cup {k}) = F(k)
        BY <2>7, <4>1
      <4>3. IsFiniteSet(Later(k) \cup {k})
        BY <2>6, <4>1
      <4>4. F(k) <= F(k) + 1
        BY <2>2
      <4> QED BY <4>2, <4>3, <4>4
    <3>2. CASE k \notin Later(k)
      <4>1. /\ IsFiniteSet(Later(k) \cup {k})
            /\ Cardinality(Later(k) \cup {k}) = Cardinality(Later(k)) + 1
        BY <2>6, <3>2, FS_AddElement
      <4>2. Cardinality(Later(k) \cup {k}) = F(k) + 1
        BY <2>7, <4>1
      <4> QED BY <2>2, <4>1, <4>2
    <3> QED BY <3>1, <3>2
  <2>9. Cardinality(K) <= Cardinality(Later(k) \cup {k}) /\ Cardinality(Later(k) \cup {k}) \in Nat
    BY <2>5, <2>8, FS_Subset, FS_CardinalityType
  <2> QED BY <1>5, <2>2, <2>8, <2>9
<1> QED BY <1>4, <1>5, <1>6, <1>7 DEF K

\* Part of an order is an order, and so is an order with one more at its end.
LEMMA OrderPart ==
    ASSUME NEW S, NEW ord, IsOrder(S, ord), NEW T, T \subseteq S
    PROVE  IsOrder(T, ord \cap (T \X T))
BY DEF IsOrder

LEMMA OrderGrows ==
    ASSUME NEW S, NEW ord, IsOrder(S, ord), ord \subseteq S \X S, NEW k, k \notin S
    PROVE  IsOrder(S \cup {k}, ord \cup {<<j, k>> : j \in S})
<1> DEFINE more == ord \cup {<<j, k>> : j \in S}
<1>1. \A i, j : <<i, j>> \in more <=> (<<i, j>> \in ord \/ (i \in S /\ j = k))
  OBVIOUS
<1>2. \A i, j : <<i, j>> \in ord => i \in S /\ j \in S
  OBVIOUS
<1> HIDE DEF more
<1>3. IsOrder(S \cup {k}, more)
  BY <1>1, <1>2 DEF IsOrder
<1> QED BY <1>3 DEF more

\* What entries.set() and evict() leave: no more than the bound, in order; the
\* stored entry, if it is usable at all; and a usable entry goes only when all that
\* stay are usable and come after it.
LEMMA StoreEvicts ==
    ASSUME IInv, now >= 1, Ordered, NEW k \in Keys, NEW born \in Nat, NEW usable \in Nat,
           Store(k, born, usable)
    PROVE  /\ Ordered'
           /\ MaxEntries > 0 /\ usable > 0 =>
                 entries'[k] # NoEntry /\ entries'[k].storedAt = now
           /\ \A i \in Present : entries[i].usableUntil > now /\ entries'[i] = NoEntry =>
                 \A j \in Keys : entries'[j] # NoEntry =>
                    /\ entries'[j].usableUntil > now
                    /\ j \in Present => <<i, j>> \in inserted
<1> DEFINE e == [born |-> born, storedAt |-> now, expiresAt |-> now + Ttl[k],
                 usableUntil |-> now + usable]
           es == [entries EXCEPT ![k] = e]
           have == Present \cup {k}
           ord == IF k \in Present THEN inserted
                  ELSE inserted \cup {<<j, k>> : j \in Present}
           usables == {j \in have : es[j].usableUntil > now}
           kept == {j \in usables : Cardinality({i \in usables : <<j, i>> \in ord}) < MaxEntries}
           keep == IF Cardinality(have) <= MaxEntries THEN have ELSE kept
<1>1. /\ entries' = [j \in Keys |-> IF j \in keep THEN es[j] ELSE NoEntry]
      /\ inserted' = ord \cap (keep \X keep)
  BY DEF Store, Survivors
<1>2. /\ entries \in [Keys -> Entry] /\ now \in Nat /\ inserted \subseteq Present \X Present
      /\ IsFiniteSet(Present) /\ Cardinality(Present) <= MaxEntries /\ MaxEntries \in Nat
      /\ IsOrder(Present, inserted) /\ Present \subseteq Keys
  BY PolicyAssumption DEF IInv, TypeOK, Ordered, Present
<1>3. e.storedAt = now /\ e.usableUntil = now + usable /\ e # NoEntry
  <2>1. e.storedAt = now /\ e.usableUntil = now + usable /\ NoEntry.storedAt = 0
    BY DEF NoEntry
  <2> HIDE DEF e
  <2> QED BY <1>2, <2>1
<1>4. \A j \in Keys : es[j] = IF j = k THEN e ELSE entries[j]
  BY <1>2
<1>5. \A j \in have : j \in Keys /\ es[j] # NoEntry
  <2> HIDE DEF e, es
  <2> QED BY <1>2, <1>3, <1>4 DEF Present
<1>6. keep \subseteq have /\ kept \subseteq usables /\ usables \subseteq have /\ k \in have
  OBVIOUS
<1>7. IsOrder(have, ord) /\ (k \in Present => have = Present)
      /\ \A i, j : <<i, j>> \in ord => <<i, j>> \in inserted \/ (j = k /\ k \notin Present)
  <2>1. CASE k \in Present
    <3>1. have = Present /\ ord = inserted
      BY <2>1
    <3> HIDE DEF have, ord
    <3> QED BY <1>2, <3>1
  <2>2. CASE k \notin Present
    <3>1. ord = inserted \cup {<<j, k>> : j \in Present}
      BY <2>2
    <3>2. IsOrder(have, ord)
      BY <1>2, <2>2, <3>1, OrderGrows
    <3> QED BY <2>2, <3>1, <3>2
  <2> QED BY <2>1, <2>2
<1>8. IsFiniteSet(have)
  BY <1>2, FS_AddElement
<1>9. IsFiniteSet(usables) /\ IsOrder(usables, ord)
  <2>1. IsFiniteSet(usables)
    <3> HIDE DEF usables, have
    <3> QED BY <1>6, <1>8, FS_Subset
  <2>2. IsOrder(usables, ord)
    <3> HIDE DEF usables, have, ord
    <3> QED BY <1>6, <1>7 DEF IsOrder
  <2> QED BY <2>1, <2>2
<1>10. /\ IsFiniteSet(kept) /\ Cardinality(kept) <= MaxEntries
       /\ \A i \in usables \ kept, j \in kept : <<i, j>> \in ord
  <2>1. kept = LastOf(usables, ord, MaxEntries)
    BY DEF LastOf
  <2> HIDE DEF kept, usables, ord
  <2> QED BY <1>2, <1>9, <2>1, FewFollow
<1>11. IsFiniteSet(keep) /\ Cardinality(keep) <= MaxEntries
  <2> HIDE DEF kept, have
  <2> QED BY <1>8, <1>10
<1> USE DEF Present
<1>12. Present' = keep
  <2>1. \A j \in Keys : entries'[j] # NoEntry <=> j \in keep
    <3> HIDE DEF keep, es, have
    <3> QED BY <1>1, <1>5, <1>6
  <2>2. keep \subseteq Keys
    <3> HIDE DEF keep, have, es
    <3> QED BY <1>5, <1>6
  <2> HIDE DEF keep
  <2> QED BY <2>1, <2>2 DEF Present
<1>13. Ordered'
  <2>1. IsOrder(keep, ord \cap (keep \X keep))
    <3> HIDE DEF keep, have, ord
    <3> QED BY <1>6, <1>7, OrderPart
  <2>2. inserted' \subseteq keep \X keep
    BY <1>1
  <2>3. IsOrder(keep, inserted')
    <3> HIDE DEF keep, have, ord
    <3> QED BY <1>1, <2>1
  <2> HIDE DEF keep, ord, Present
  <2> QED BY <1>11, <1>12, <2>2, <2>3 DEF Ordered, IsOrder
<1>14. ASSUME MaxEntries > 0, usable > 0
       PROVE  entries'[k] # NoEntry /\ entries'[k].storedAt = now
  <2>1. k \in keep
    <3>1. CASE Cardinality(have) <= MaxEntries
      BY <3>1
    <3>2. CASE ~(Cardinality(have) <= MaxEntries)
      <4>1. k \notin Present
        <5> HIDE DEF have
        <5> QED BY <1>2, <1>7, <3>2
      <4>2. \A i \in usables : <<k, i>> \notin ord
        <5>1. \A i : <<k, i>> \notin inserted
          BY <1>2, <4>1
        <5>2. <<k, k>> \notin ord
          <6> HIDE DEF have, ord
          <6> QED BY <1>6, <1>7 DEF IsOrder
        <5> QED BY <1>7, <5>1, <5>2
      <4>3. {i \in usables : <<k, i>> \in ord} = {}
        BY <4>2
      <4>4. Cardinality({i \in usables : <<k, i>> \in ord}) = 0
        <5>1. Cardinality({}) = 0
          BY FS_EmptySet
        <5> QED BY <4>3, <5>1
      <4>5. k \in usables
        <5>1. es[k].usableUntil = now + usable
          BY <1>3, <1>4
        <5> QED BY <1>2, <1>6, <1>14, <5>1
      <4>6. k \in kept
        BY <1>14, <4>4, <4>5
      <4> QED BY <3>2, <4>6
    <3> QED BY <3>1, <3>2
  <2>2. entries'[k] = e
    <3> HIDE DEF keep, es, e
    <3> QED BY <1>1, <1>4, <2>1
  <2> HIDE DEF e
  <2> QED BY <1>3, <2>2
<1>15. ASSUME NEW i \in Present, entries[i].usableUntil > now, entries'[i] = NoEntry,
              NEW j \in Keys, entries'[j] # NoEntry
       PROVE  entries'[j].usableUntil > now /\ (j \in Present => <<i, j>> \in inserted)
  <2>1. i \notin keep /\ i \in have /\ j \in keep
    <3> HIDE DEF keep, es
    <3> QED BY <1>1, <1>2, <1>5, <1>12, <1>15
  <2>2. keep = kept /\ ~(Cardinality(have) <= MaxEntries)
    BY <2>1
  <2>3. k \notin Present
    <3> HIDE DEF have, Present
    <3> QED BY <1>2, <1>7, <2>2
  <2>4. i # k /\ es[i] = entries[i]
    <3> HIDE DEF es, e
    <3> QED BY <1>2, <1>4, <1>15, <2>3
  <2>5. i \in usables
    BY <1>15, <2>1, <2>4
  <2>6. <<i, j>> \in ord
    <3> HIDE DEF keep, kept, usables, ord
    <3> QED BY <1>10, <2>1, <2>2, <2>5
  <2>7. j \in usables /\ entries'[j] = es[j]
    <3>1. entries'[j] = es[j]
      <4> HIDE DEF keep, es
      <4> QED BY <1>1, <2>1
    <3>2. j \in usables
      <4> HIDE DEF keep, kept, usables
      <4> QED BY <1>6, <2>1, <2>2
    <3> QED BY <3>1, <3>2
  <2>8. entries'[j].usableUntil > now
    BY <2>7
  <2>9. j \in Present => <<i, j>> \in inserted
    <3> HIDE DEF ord, Present
    <3> QED BY <1>7, <2>3, <2>6
  <2> QED BY <2>8, <2>9
<1> HIDE DEF e, es, have, ord, usables, kept, keep, Present
<1> QED BY <1>13, <1>14, <1>15

\* What EvictsOldestUsable says of a step.
Evicts ==
    /\ Cardinality(Present') <= MaxEntries
    /\ \A k \in Keys :
          Stores(k) /\ Ttl[k] > 0 =>
             entries'[k] # NoEntry /\ entries'[k].storedAt = now
    /\ \A k \in Present :
          (/\ entries[k].usableUntil > now
           /\ entries'[k] = NoEntry
           /\ clearGeneration' = clearGeneration)
          => \A j \in Keys : entries'[j] # NoEntry =>
                /\ entries'[j].usableUntil > now
                /\ j \in Present => <<k, j>> \in inserted

\* A step that leaves the Map alone, and after which nothing looks stored.
LEMMA QuietStep ==
    ASSUME EvictInv, UNCHANGED <<entries, inserted>>,
           \A a \in Attempts : attempts[a].phase = "loading" => attempts'[a].outcome.src # "load",
           \A b \in Batches : batches[b].st = "loading" => ~batches'[b].landed
    PROVE  Ordered' /\ Evicts
<1>1. Present' = Present /\ Ordered'
  BY DEF EvictInv, Ordered, Present, IsOrder
<1>2. \A k \in Keys : ~Stores(k)
  BY DEF Stores
<1>3. \A k \in Present : entries'[k] # NoEntry
  BY DEF Present
<1>4. Cardinality(Present') <= MaxEntries
  BY <1>1 DEF EvictInv, Ordered
<1> QED BY <1>1, <1>2, <1>3, <1>4 DEF Evicts

LEMMA EvictStarts == Init => EvictInv
<1> SUFFICES ASSUME Init PROVE EvictInv
  OBVIOUS
<1>1. Present = {} /\ inserted = {} /\ now = 1
  BY DEF Init, Present
<1>2. IsFiniteSet(Present) /\ Cardinality(Present) <= MaxEntries
  <2>1. IsFiniteSet({}) /\ Cardinality({}) = 0
    BY FS_EmptySet
  <2> QED BY <1>1, <2>1, PolicyAssumption
<1>3. Ordered
  BY <1>1, <1>2 DEF Ordered, IsOrder
<1>4. Pending
  BY DEF Init, Pending, IdleAttempt, IdleBatch
<1> QED BY <1>1, <1>3, <1>4, InitInvariant DEF EvictInv

LEMMA LoadResolvesEvicts ==
    ASSUME EvictInv, NEW a \in Attempts, LoadResolves(a), MaxEntries > 0
    PROVE  Ordered' /\ Pending' /\ Evicts
<1> DEFINE k == attempts[a].key
<1>1. /\ attempts[a].phase = "loading" /\ k \in Keys /\ attempts[a].born \in Nat
      /\ Ttl[k] \in Nat /\ StaleIfError[k] \in Nat /\ batches' = batches
      /\ attempts' = [attempts EXCEPT ![a].phase = "settled",
            ![a].outcome = [src |-> "load", born |-> attempts[a].born, age |-> 0]]
      /\ clearGeneration' = clearGeneration
  BY PolicyAssumption DEF LoadResolves, EvictInv, IInv, TypeOK, OldTokens, Attempt
<1>2. /\ attempts'[a].phase = "settled"
      /\ \A x \in Attempts : x # a => attempts'[x] = attempts[x]
  BY <1>1 DEF EvictInv, IInv, TypeOK
<1>3. Pending'
  BY <1>1, <1>2 DEF EvictInv, Pending
<1>4. \A q \in Keys : Stores(q) => q = k /\ Current(k, attempts[a].gen)
  BY <1>1, <1>2 DEF EvictInv, Pending, Stores
<1>5. CASE Current(k, attempts[a].gen)
  <2>1. Store(k, attempts[a].born, Ttl[k] + StaleIfError[k])
    BY <1>5 DEF LoadResolves
  <2>2. Ttl[k] + StaleIfError[k] \in Nat /\ (Ttl[k] > 0 => Ttl[k] + StaleIfError[k] > 0)
    BY <1>1
  <2> DEFINE usable == Ttl[k] + StaleIfError[k]
  <2> HIDE DEF usable
  <2>3. /\ Ordered'
        /\ usable > 0 => entries'[k] # NoEntry /\ entries'[k].storedAt = now
        /\ \A i \in Present : entries[i].usableUntil > now /\ entries'[i] = NoEntry =>
              \A j \in Keys : entries'[j] # NoEntry =>
                 /\ entries'[j].usableUntil > now
                 /\ j \in Present => <<i, j>> \in inserted
    <3>1. IInv /\ now >= 1 /\ Ordered /\ usable \in Nat /\ Store(k, attempts[a].born, usable)
      BY <2>1, <2>2 DEF EvictInv, usable
    <3> HIDE DEF k
    <3> QED BY <1>1, <3>1, StoreEvicts DEF k
  <2>4. Ttl[k] > 0 => usable > 0
    BY <2>2 DEF usable
  <2>5. Cardinality(Present') <= MaxEntries
    BY <2>3 DEF Ordered
  <2> HIDE DEF k
  <2> QED BY <1>3, <1>4, <2>3, <2>4, <2>5 DEF Evicts
<1>6. CASE ~Current(k, attempts[a].gen)
  <2>1. UNCHANGED <<entries, inserted>>
    BY <1>6 DEF LoadResolves
  <2>2. Present' = Present /\ Ordered'
    BY <2>1 DEF EvictInv, Ordered, Present, IsOrder
  <2>3. \A i \in Present : entries'[i] # NoEntry
    BY <2>1 DEF Present
  <2>4. Cardinality(Present') <= MaxEntries
    BY <2>2 DEF EvictInv, Ordered
  <2>5. \A q \in Keys : ~Stores(q)
    BY <1>4, <1>6
  <2> QED BY <1>3, <2>2, <2>3, <2>4, <2>5 DEF Evicts
<1> QED BY <1>5, <1>6

LEMMA BatchStoresEvicts ==
    ASSUME EvictInv, NEW b \in Batches, BatchStores(b), MaxEntries > 0
    PROVE  Ordered' /\ Pending' /\ Evicts
<1> DEFINE k == batches[b].key
           lands == k \in UnguardedKeys \/ Current(k, batches[b].token)
<1>1. /\ batches[b].st = "loading" /\ k \in Keys /\ batches[b].born \in Nat
      /\ Ttl[k] \in Nat /\ attempts' = attempts /\ clearGeneration' = clearGeneration
      /\ batches' = [batches EXCEPT ![b].st = "done", ![b].landed = lands,
                                    ![b].crossed = generationFor(k) > batches[b].born]
  BY PolicyAssumption DEF BatchStores, EvictInv, IInv, TypeOK, OldTokens, Batch
<1>2. /\ batches'[b].st = "done" /\ (batches'[b].landed <=> lands)
      /\ \A x \in Batches : x # b => batches'[x] = batches[x]
  BY <1>1 DEF EvictInv, IInv, TypeOK, Batch
<1>3. Pending'
  BY <1>1, <1>2 DEF EvictInv, Pending
<1>4. \A q \in Keys : Stores(q) => q = k /\ lands
  <2> HIDE DEF lands
  <2> QED BY <1>1, <1>2 DEF EvictInv, Pending, Stores
<1>5. CASE lands
  <2>1. Store(k, batches[b].born, Ttl[k])
    BY <1>5 DEF BatchStores
  <2>2. /\ Ordered'
        /\ Ttl[k] > 0 => entries'[k] # NoEntry /\ entries'[k].storedAt = now
        /\ \A i \in Present : entries[i].usableUntil > now /\ entries'[i] = NoEntry =>
              \A j \in Keys : entries'[j] # NoEntry =>
                 /\ entries'[j].usableUntil > now
                 /\ j \in Present => <<i, j>> \in inserted
    <3>1. IInv /\ now >= 1 /\ Ordered
      BY DEF EvictInv
    <3> HIDE DEF lands
    <3> QED BY <1>1, <2>1, <3>1, StoreEvicts
  <2>3. Cardinality(Present') <= MaxEntries
    BY <2>2 DEF Ordered
  <2> HIDE DEF k, lands
  <2> QED BY <1>3, <1>4, <2>2, <2>3 DEF Evicts
<1>6. CASE ~lands
  <2>1. UNCHANGED <<entries, inserted>>
    BY <1>6 DEF BatchStores
  <2>2. \A x \in Attempts : attempts[x].phase = "loading" => attempts'[x].outcome.src # "load"
    BY <1>1 DEF EvictInv, Pending
  <2>3. \A x \in Batches : batches[x].st = "loading" => ~batches'[x].landed
    BY <1>2, <1>6 DEF EvictInv, Pending
  <2> QED BY <1>3, <2>1, <2>2, <2>3, QuietStep
<1> QED BY <1>5, <1>6

LEMMA ClearEvicts ==
    ASSUME EvictInv, NEW p \in Names, Clear(p)
    PROVE  Ordered' /\ Pending' /\ Evicts
<1>1. /\ entries' = [k \in Keys |-> IF StartsWith(k, p) THEN NoEntry ELSE entries[k]]
      /\ inserted' = {pr \in inserted : ~StartsWith(pr[1], p) /\ ~StartsWith(pr[2], p)}
      /\ attempts' = attempts /\ batches' = batches
      /\ clearGeneration \in Nat /\ clearGeneration' = clearGeneration + 1
  BY DEF Clear, EvictInv, IInv, TypeOK
<1>2. Pending'
  BY <1>1 DEF EvictInv, Pending
<1>3. Present' = {k \in Present : ~StartsWith(k, p)}
  BY <1>1 DEF Present
<1>4. /\ inserted \subseteq Present \X Present /\ IsOrder(Present, inserted)
      /\ IsFiniteSet(Present) /\ Cardinality(Present) <= MaxEntries
  BY DEF EvictInv, Ordered
<1>5. Present' \subseteq Present
  BY <1>3
<1>6. inserted' = inserted \cap (Present' \X Present')
  BY <1>1, <1>3, <1>4
<1>7. IsOrder(Present', inserted')
  BY <1>4, <1>5, <1>6, OrderPart
<1>8. IsFiniteSet(Present') /\ Cardinality(Present') <= MaxEntries
  <2>1. /\ IsFiniteSet(Present') /\ Cardinality(Present') <= Cardinality(Present)
        /\ Cardinality(Present') \in Nat /\ Cardinality(Present) \in Nat
    BY <1>4, <1>5, FS_Subset, FS_CardinalityType
  <2> QED BY <1>4, <2>1, PolicyAssumption
<1>9. Ordered'
  BY <1>6, <1>7, <1>8 DEF Ordered, IsOrder
<1>10. \A k \in Keys : ~Stores(k)
  BY <1>1 DEF EvictInv, Pending, Stores
<1>11. clearGeneration' # clearGeneration
  BY <1>1
<1> QED BY <1>2, <1>8, <1>9, <1>10, <1>11 DEF Evicts

\* Every step keeps the order and the bound.
LEMMA EvictStep ==
    ASSUME EvictInv, [Next]_vars, MaxEntries > 0
    PROVE  EvictInv' /\ [Evicts]_vars
<1>1. IInv'
  BY StepInvariant DEF EvictInv
<1>2. now' >= 1
  <2>1. now' = now \/ now' = now + 1
    BY DEF Next, vars, Tick, ReadHit, ReadJoin, ReadStart, LoadResolves, LoadRejects,
           AttemptFinally, CallerReturns, BatchStart, BatchStores, BatchEnds, Clear
  <2> QED BY <2>1 DEF EvictInv, IInv, TypeOK
<1>3. /\ \A a \in Attempts : attempts[a].phase = "loading" => attempts[a].outcome.src = "error"
      /\ \A b \in Batches : batches[b].st = "loading" => ~batches[b].landed
      /\ attempts \in [Attempts -> Attempt] /\ batches \in [Batches -> Batch]
  BY DEF EvictInv, Pending, IInv, TypeOK
<1>4. Failure.src = "error" /\ IdleAttempt.outcome = Failure /\ ~IdleBatch.landed
      /\ IdleAttempt.phase = "idle" /\ IdleBatch.st = "idle"
  BY DEF Failure, IdleAttempt, IdleBatch
<1>5. ASSUME UNCHANGED <<entries, inserted, attempts, batches>>
      PROVE  Ordered' /\ Pending' /\ Evicts
  <2>1. Pending'
    BY <1>3, <1>5 DEF Pending
  <2>2. \A a \in Attempts : attempts[a].phase = "loading" => attempts'[a].outcome.src # "load"
    BY <1>3, <1>5
  <2>3. \A b \in Batches : batches[b].st = "loading" => ~batches'[b].landed
    BY <1>3, <1>5
  <2> QED BY <1>5, <2>1, <2>2, <2>3, QuietStep
<1>6. ASSUME UNCHANGED <<entries, inserted, batches>>,
             \A a \in Attempts : \/ attempts'[a] = attempts[a]
                                \/ /\ attempts[a].phase # "loading" \/ attempts'[a].phase # "loading"
                                   /\ attempts'[a].outcome.src \in {"stale", "error"}
                                   /\ attempts'[a].phase = "loading" => attempts'[a].outcome.src = "error"
      PROVE  Ordered' /\ Pending' /\ Evicts
  <2>1. Pending'
    BY <1>3, <1>6 DEF Pending
  <2>2. \A a \in Attempts : attempts[a].phase = "loading" => attempts'[a].outcome.src # "load"
    BY <1>3, <1>6
  <2>3. \A b \in Batches : batches[b].st = "loading" => ~batches'[b].landed
    BY <1>3, <1>6
  <2> QED BY <1>6, <2>1, <2>2, <2>3, QuietStep
<1>7. ASSUME UNCHANGED <<entries, inserted, attempts>>,
             \A b \in Batches : batches'[b] = batches[b] \/ ~batches'[b].landed
      PROVE  Ordered' /\ Pending' /\ Evicts
  <2>1. Pending'
    BY <1>3, <1>7 DEF Pending
  <2>2. \A a \in Attempts : attempts[a].phase = "loading" => attempts'[a].outcome.src # "load"
    BY <1>3, <1>7
  <2>3. \A b \in Batches : batches[b].st = "loading" => ~batches'[b].landed
    BY <1>3, <1>7
  <2> QED BY <1>7, <2>1, <2>2, <2>3, QuietStep
<1>8. ASSUME Tick PROVE Ordered' /\ Pending' /\ Evicts
  <2>1. UNCHANGED <<entries, inserted, attempts, batches>>
    BY <1>8 DEF Tick
  <2> QED BY <1>5, <2>1
<1>9. ASSUME NEW c \in Callers, NEW k \in Keys, ReadHit(c, k) \/ ReadJoin(c, k)
      PROVE  Ordered' /\ Pending' /\ Evicts
  BY <1>5, <1>9 DEF ReadHit, ReadJoin
<1>10. ASSUME NEW c \in Callers, NEW k \in Keys, NEW a \in Attempts, ReadStart(c, k, a)
       PROVE  Ordered' /\ Pending' /\ Evicts
  <2>1. /\ attempts[a].phase = "idle" /\ UNCHANGED <<entries, inserted, batches>>
        /\ attempts' = [attempts EXCEPT ![a] = [phase |-> "loading", key |-> k,
               gen |-> generationFor(k), born |-> clearGeneration, outcome |-> Failure]]
    BY <1>10 DEF ReadStart
  <2>2. /\ attempts'[a].outcome.src = "error"
        /\ \A x \in Attempts : x # a => attempts'[x] = attempts[x]
    BY <1>3, <1>4, <2>1
  <2> QED BY <1>6, <2>1, <2>2
<1>11. ASSUME NEW a \in Attempts, LoadResolves(a) PROVE Ordered' /\ Pending' /\ Evicts
  BY <1>11, LoadResolvesEvicts
<1>12. ASSUME NEW a \in Attempts, LoadRejects(a) PROVE Ordered' /\ Pending' /\ Evicts
  <2>1. UNCHANGED <<entries, inserted, batches>>
    BY <1>12 DEF LoadRejects
  <2>2. /\ attempts'[a].outcome.src \in {"stale", "error"} /\ attempts'[a].phase = "settled"
        /\ \A x \in Attempts : x # a => attempts'[x] = attempts[x]
    <3> DEFINE k == attempts[a].key
               usable == Current(k, attempts[a].gen) /\ FallbackUsable(k)
               stale == [src |-> "stale", born |-> entries[k].born, age |-> Age(k)]
               answer == IF usable THEN stale ELSE Failure
    <3>1. attempts' = [attempts EXCEPT ![a].phase = "settled", ![a].outcome = answer]
      BY <1>12 DEF LoadRejects
    <3>2. stale.src = "stale"
      OBVIOUS
    <3> HIDE DEF usable, stale
    <3>3. answer.src \in {"stale", "error"}
      BY <1>4, <3>2
    <3> HIDE DEF answer
    <3>4. /\ attempts'[a].outcome = answer /\ attempts'[a].phase = "settled"
          /\ \A x \in Attempts : x # a => attempts'[x] = attempts[x]
      BY <1>3, <3>1 DEF Attempt
    <3> QED BY <3>3, <3>4
  <2> QED BY <1>6, <2>1, <2>2
<1>13. ASSUME NEW a \in Attempts, AttemptFinally(a) PROVE Ordered' /\ Pending' /\ Evicts
  <2>1. /\ attempts' = [attempts EXCEPT ![a] = IdleAttempt] /\ UNCHANGED <<entries, inserted, batches>>
    BY <1>13 DEF AttemptFinally
  <2>2. /\ attempts'[a] = IdleAttempt /\ \A x \in Attempts : x # a => attempts'[x] = attempts[x]
    BY <1>3, <2>1
  <2> QED BY <1>4, <1>6, <2>1, <2>2
<1>14. ASSUME NEW c \in Callers, CallerReturns(c) PROVE Ordered' /\ Pending' /\ Evicts
  BY <1>5, <1>14 DEF CallerReturns
<1>15. ASSUME NEW b \in Batches, NEW k \in Keys, BatchStart(b, k) PROVE Ordered' /\ Pending' /\ Evicts
  <2>1. /\ UNCHANGED <<entries, inserted, attempts>>
        /\ batches' = [batches EXCEPT ![b] = [st |-> "loading", key |-> k,
               token |-> generationFor(TokenName[k]), born |-> clearGeneration,
               landed |-> FALSE, crossed |-> FALSE]]
    BY <1>15 DEF BatchStart
  <2>2. ~batches'[b].landed /\ \A x \in Batches : x # b => batches'[x] = batches[x]
    BY <1>3, <2>1
  <2> QED BY <1>7, <2>1, <2>2
<1>16. ASSUME NEW b \in Batches, BatchStores(b) PROVE Ordered' /\ Pending' /\ Evicts
  BY <1>16, BatchStoresEvicts
<1>17. ASSUME NEW b \in Batches, BatchEnds(b) PROVE Ordered' /\ Pending' /\ Evicts
  <2>1. UNCHANGED <<entries, inserted, attempts>> /\ batches' = [batches EXCEPT ![b] = IdleBatch]
    BY <1>17 DEF BatchEnds
  <2>2. ~batches'[b].landed /\ \A x \in Batches : x # b => batches'[x] = batches[x]
    BY <1>3, <1>4, <2>1
  <2> QED BY <1>7, <2>1, <2>2
<1>18. ASSUME NEW p \in Names, Clear(p) PROVE Ordered' /\ Pending' /\ Evicts
  BY <1>18, ClearEvicts
<1>19. ASSUME UNCHANGED vars PROVE Ordered' /\ Pending' /\ Evicts
  <2>1. UNCHANGED <<entries, inserted, attempts, batches>>
    BY <1>19 DEF vars
  <2> QED BY <1>5, <2>1
<1>20. Ordered' /\ Pending' /\ Evicts
  <2> HIDE DEF Evicts
  <2>1. Next \/ UNCHANGED vars
    OBVIOUS
  <2> QED BY <2>1, <1>8, <1>9, <1>10, <1>11, <1>12, <1>13, <1>14, <1>15, <1>16, <1>17, <1>18, <1>19 DEF Next
<1> QED BY <1>1, <1>2, <1>20 DEF EvictInv

\* evict() keeps the cache within maxEntries, never costs the value that was just
\* stored, and takes a usable entry only when all others are usable and were
\* inserted later: for any number of keys and any bound but 0, at which a cache
\* holds nothing.
THEOREM EvictionSparesTheNew == MaxEntries > 0 => (Spec => EvictsOldestUsable)
<1> SUFFICES ASSUME MaxEntries > 0 PROVE Spec => EvictsOldestUsable
  OBVIOUS
<1>1. EvictInv /\ [Next]_vars => EvictInv' /\ [Evicts]_vars
  BY EvictStep
<1>2. Spec => [][Evicts]_vars
  BY <1>1, EvictStarts, PTL DEF Spec
<1> QED BY <1>2, PTL DEF EvictsOldestUsable, Evicts
=============================================================================
