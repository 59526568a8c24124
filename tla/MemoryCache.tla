----------------------------- MODULE MemoryCache -----------------------------
(***************************************************************************)
(* The in-process cache of src/cache/index.ts (createMemoryCache): one Map *)
(* of entries, one Map of in-flight loads, and the clear generations that  *)
(* keep a load which crossed a clear() from putting the cleared value back.*)
(*                                                                         *)
(* JavaScript runs one synchronous stretch at a time, so each stretch      *)
(* between two awaits is one action.  A read() is up to three of them: the *)
(* call itself, the settling of the loader (the then/catch handlers) and   *)
(* the finally handler, whose microtask runs strictly later.               *)
(*                                                                         *)
(* A cached value is abstracted to its birth: the number of clears that    *)
(* had happened when the upstream request for it was issued.               *)
(***************************************************************************)
EXTENDS Naturals, FiniteSets, FiniteSetsExt

CONSTANTS
    Names,             \* key and prefix strings, '' (Root) among them
    Root,              \* the empty string, a prefix of every name
    StartsWith(_, _),  \* StartsWith(s, p): String.prototype.startsWith
    Keys,              \* the names values are stored under
    UnguardedKeys,     \* keys a batch writes with set() (price:token:pool:*)
    TokenName,         \* TokenName[k]: the name generation() is asked for
    Ttl,               \* Ttl[k]: CachePolicy.ttlMs of the reads of k
    StaleIfError,      \* StaleIfError[k]: CachePolicy.staleIfErrorMs
    MaxEntries,        \* MemoryCacheOptions.maxEntries
    Attempts,          \* identities of read() attempts (Promise objects)
    NoAttempt,         \* no in-flight attempt
    Callers,           \* callers of read()
    Batches,           \* batch loads (peek, then set or setIfGeneration)
    MaxNow,            \* bound on the clock
    MaxClears          \* bound on the number of clears

ASSUME NamesAssumption ==
    /\ Root \in Names
    /\ Keys \subseteq Names
    /\ \A s, p \in Names : StartsWith(s, p) \in BOOLEAN
    /\ \A s \in Names : StartsWith(s, Root)
    /\ \A s \in Names : StartsWith(s, s)

ASSUME PolicyAssumption ==
    /\ UnguardedKeys \subseteq Keys
    \* the key itself, or a prefix of it: '' in the scoped view of
    \* providers/factory.ts, the epoch subtree in providers/cached.ts
    /\ TokenName \in [Keys -> Names]
    /\ Ttl \in [Keys -> Nat]
    /\ StaleIfError \in [Keys -> Nat]
    /\ MaxEntries \in Nat
    /\ NoAttempt \notin Attempts
    /\ MaxNow \in Nat
    /\ MaxClears \in Nat

VARIABLES
    now,              \* the injected clock, options.now
    entries,          \* entries[k]: the stored entry or NoEntry
    inserted,         \* Map order: <<j, k>> when j was inserted before k
    inFlight,         \* inFlight[k]: the registered attempt
    attempts,         \* the state of each attempt
    clearGeneration,  \* number of clears so far
    clearGenerations, \* clearGenerations[p]: the latest clear of p, 0 for none
    callers,          \* the state of each caller of read()
    batches           \* the state of each batch load

vars == <<now, entries, inserted, inFlight, attempts, clearGeneration,
          clearGenerations, callers, batches>>

-----------------------------------------------------------------------------
(* State shapes.                                                            *)

Entry == [born : Nat, storedAt : Nat, expiresAt : Nat, usableUntil : Nat]

NoEntry == [born |-> 0, storedAt |-> 0, expiresAt |-> 0, usableUntil |-> 0]

\* What a read resolves with.  age: how long ago the served value was stored.
Outcome == [src : {"hit", "load", "stale", "error"}, born : Nat, age : Nat]

Failure == [src |-> "error", born |-> 0, age |-> 0]

Attempt == [phase : {"idle", "loading", "settled"}, key : Names, gen : Nat,
            born : Nat, outcome : Outcome]

IdleAttempt == [phase |-> "idle", key |-> Root, gen |-> 0, born |-> 0,
                outcome |-> Failure]

\* asked: the latest clear that covered the key when read() was called.
Caller == [st : {"idle", "waiting", "done"}, key : Names, asked : Nat,
           on : Attempts \cup {NoAttempt}, outcome : Outcome]

IdleCaller == [st |-> "idle", key |-> Root, asked |-> 0, on |-> NoAttempt,
               outcome |-> Failure]

\* landed: the write took effect.  crossed: a related clear came in between.
Batch == [st : {"idle", "loading", "done"}, key : Names, token : Nat,
          born : Nat, landed : BOOLEAN, crossed : BOOLEAN]

IdleBatch == [st |-> "idle", key |-> Root, token |-> 0, born |-> 0,
              landed |-> FALSE, crossed |-> FALSE]

Present == {k \in Keys : entries[k] # NoEntry}

-----------------------------------------------------------------------------
(* Helpers of createMemoryCache.                                            *)

\* Clears of a name that is a prefix of s, or that s is a prefix of.
Related(s) == {p \in Names : StartsWith(s, p) \/ StartsWith(p, s)}

generationFor(s) == Max({clearGenerations[p] : p \in Related(s)})

\* The latest clear that actually dropped key k (ghost; clear() deletes the
\* keys that start with the prefix, a smaller set than Related).
CoverGen(k) == Max({clearGenerations[p] : p \in {q \in Names : StartsWith(k, q)}})

\* Mutant of Current: no check.
CurrentUnchecked(k, gen) == TRUE

\* The generation check of the then and catch handlers and setIfGeneration().
Current(k, gen) == gen = generationFor(k)

\* Mutant of Survivors: the last inserted goes.
SurvivorsFirst(es, have, ord) ==
    {k \in have : Cardinality({j \in have : <<j, k>> \in ord}) < MaxEntries}

\* Keys that survive evict() when the map holds the set have of keys, es maps
\* keys to entries and ord is the insertion order: nothing happens within the
\* bound; over it, unusable entries go first, then the oldest inserted, i.e. a
\* key stays when fewer than MaxEntries of the others were inserted after it.
Survivors(es, have, ord) ==
    LET usable == {k \in have : es[k].usableUntil > now} IN
    IF Cardinality(have) <= MaxEntries THEN have
    ELSE {k \in usable :
             Cardinality({j \in usable : <<k, j>> \in ord}) < MaxEntries}

\* entries.set(key, entry) followed by evict().  Overwriting a key keeps its
\* place in the Map.
Store(k, born, usableFor) ==
    LET e    == [born |-> born, storedAt |-> now, expiresAt |-> now + Ttl[k],
                 usableUntil |-> now + usableFor]
        es   == [entries EXCEPT ![k] = e]
        have == Present \cup {k}
        ord  == IF k \in Present THEN inserted
                ELSE inserted \cup {<<j, k>> : j \in Present}
        keep == Survivors(es, have, ord)
    IN  /\ entries' = [j \in Keys |-> IF j \in keep THEN es[j] ELSE NoEntry]
        /\ inserted' = ord \cap (keep \X keep)

-----------------------------------------------------------------------------
Init ==
    /\ now = 1
    /\ entries = [k \in Keys |-> NoEntry]
    /\ inserted = {}
    /\ inFlight = [k \in Keys |-> NoAttempt]
    /\ attempts = [a \in Attempts |-> IdleAttempt]
    /\ clearGeneration = 0
    /\ clearGenerations = [p \in Names |-> 0]
    /\ callers = [c \in Callers |-> IdleCaller]
    /\ batches = [b \in Batches |-> IdleBatch]

Tick ==
    /\ now < MaxNow
    /\ now' = now + 1
    /\ UNCHANGED <<entries, inserted, inFlight, attempts, clearGeneration,
                   clearGenerations, callers, batches>>

Live(k) == entries[k] # NoEntry /\ entries[k].expiresAt > now

\* How long ago the entry of k was stored (ghost).
Age(k) == now - entries[k].storedAt

\* read(): a live entry is served without asking upstream.
ReadHit(c, k) ==
    /\ callers[c].st = "idle"
    /\ Live(k)
    /\ callers' = [callers EXCEPT ![c] =
          [st |-> "done", key |-> k, asked |-> CoverGen(k), on |-> NoAttempt,
           outcome |-> [src |-> "hit", born |-> entries[k].born,
                        age |-> Age(k)]]]
    /\ UNCHANGED <<now, entries, inserted, inFlight, attempts,
                   clearGeneration, clearGenerations, batches>>

\* read(): someone is already loading this key, wait on their attempt.
ReadJoin(c, k) ==
    /\ callers[c].st = "idle"
    /\ ~Live(k)
    /\ inFlight[k] # NoAttempt
    /\ callers' = [callers EXCEPT ![c] =
          [st |-> "waiting", key |-> k, asked |-> CoverGen(k),
           on |-> inFlight[k], outcome |-> Failure]]
    /\ UNCHANGED <<now, entries, inserted, inFlight, attempts,
                   clearGeneration, clearGenerations, batches>>

\* read(): start an attempt and register it.
ReadStart(c, k, a) ==
    /\ callers[c].st = "idle"
    /\ ~Live(k)
    /\ inFlight[k] = NoAttempt
    /\ attempts[a].phase = "idle"
    /\ attempts' = [attempts EXCEPT ![a] =
          [phase |-> "loading", key |-> k, gen |-> generationFor(k),
           born |-> clearGeneration, outcome |-> Failure]]
    /\ inFlight' = [inFlight EXCEPT ![k] = a]
    /\ callers' = [callers EXCEPT ![c] =
          [st |-> "waiting", key |-> k, asked |-> CoverGen(k), on |-> a,
           outcome |-> Failure]]
    /\ UNCHANGED <<now, entries, inserted, clearGeneration, clearGenerations,
                   batches>>

\* The loader resolves: the then handler stores the value unless a related
\* clear happened since the attempt started, and hands it on either way.
LoadResolves(a) ==
    LET k == attempts[a].key IN
    /\ attempts[a].phase = "loading"
    /\ attempts' = [attempts EXCEPT
          ![a].phase = "settled",
          ![a].outcome = [src |-> "load", born |-> attempts[a].born, age |-> 0]]
    /\ \/ /\ Current(k, attempts[a].gen)
          /\ Store(k, attempts[a].born, Ttl[k] + StaleIfError[k])
       \/ /\ ~Current(k, attempts[a].gen)
          /\ UNCHANGED <<entries, inserted>>
    /\ UNCHANGED <<now, inFlight, clearGeneration, clearGenerations, callers,
                   batches>>

\* Mutant of FallbackUsable: any old value will do.
FallbackHeld(k) == entries[k] # NoEntry

\* The stale value the catch handler may serve.
FallbackUsable(k) == entries[k] # NoEntry /\ entries[k].usableUntil > now

\* The loader rejects: the catch handler serves the old value if it is still
\* usable and no related clear happened, and rethrows otherwise.  Neither the
\* failure nor a new deadline is stored.
LoadRejects(a) ==
    LET k == attempts[a].key
        usable == Current(k, attempts[a].gen) /\ FallbackUsable(k)
    IN
    /\ attempts[a].phase = "loading"
    /\ attempts' = [attempts EXCEPT
          ![a].phase = "settled",
          ![a].outcome =
             IF usable
             THEN [src |-> "stale", born |-> entries[k].born,
                   age |-> Age(k)]
             ELSE Failure]
    /\ UNCHANGED <<now, entries, inserted, inFlight, clearGeneration,
                   clearGenerations, callers, batches>>

\* Mutant of Unregistered: drop whatever is registered under the key.
UnregisteredKey(a) == [inFlight EXCEPT ![attempts[a].key] = NoAttempt]

\* Drop the registration if it is still this attempt's.
Unregistered(a) ==
    [k \in Keys |-> IF inFlight[k] = a THEN NoAttempt ELSE inFlight[k]]

\* Mutant of Awaiting: callers of an attempt that a clear disowned are lost.
AwaitingRegistered(c, a) ==
    callers[c].st = "waiting" /\ callers[c].on = a /\ inFlight[callers[c].key] = a

\* Callers that hold the attempt's promise.
Awaiting(c, a) == callers[c].st = "waiting" /\ callers[c].on = a

\* The finally handler: unregister, then everyone awaiting the attempt
\* continues with its outcome.
AttemptFinally(a) ==
    /\ attempts[a].phase = "settled"
    /\ inFlight' = Unregistered(a)
    /\ callers' = [c \in Callers |->
          IF Awaiting(c, a)
          THEN [callers[c] EXCEPT !.st = "done", !.on = NoAttempt,
                                  !.outcome = attempts[a].outcome]
          ELSE callers[c]]
    /\ attempts' = [attempts EXCEPT ![a] = IdleAttempt]
    /\ UNCHANGED <<now, entries, inserted, clearGeneration, clearGenerations,
                   batches>>

\* The caller of read() is finished with its answer.
CallerReturns(c) ==
    /\ callers[c].st = "done"
    /\ callers' = [callers EXCEPT ![c] = IdleCaller]
    /\ UNCHANGED <<now, entries, inserted, inFlight, attempts,
                   clearGeneration, clearGenerations, batches>>

\* peek() misses and generation() is read, then the batch awaits upstream.
BatchStart(b, k) ==
    /\ batches[b].st = "idle"
    /\ ~Live(k)
    /\ batches' = [batches EXCEPT ![b] =
          [st |-> "loading", key |-> k, token |-> generationFor(TokenName[k]),
           born |-> clearGeneration, landed |-> FALSE, crossed |-> FALSE]]
    /\ UNCHANGED <<now, entries, inserted, inFlight, attempts,
                   clearGeneration, clearGenerations, callers>>

\* set(): stored unconditionally.  setIfGeneration(): stored only when the
\* key's generation is the supplied one.
BatchStores(b) ==
    LET k == batches[b].key
        lands == k \in UnguardedKeys \/ Current(k, batches[b].token)
    IN
    /\ batches[b].st = "loading"
    /\ batches' = [batches EXCEPT
          ![b].st = "done", ![b].landed = lands,
          ![b].crossed = generationFor(k) > batches[b].born]
    /\ \/ lands  /\ Store(k, batches[b].born, Ttl[k])
       \/ ~lands /\ UNCHANGED <<entries, inserted>>
    /\ UNCHANGED <<now, inFlight, attempts, clearGeneration,
                   clearGenerations, callers>>

\* The upstream call of a batch fails (nothing is stored), or a finished
\* batch returns to its caller.
BatchEnds(b) ==
    /\ batches[b].st # "idle"
    /\ batches' = [batches EXCEPT ![b] = IdleBatch]
    /\ UNCHANGED <<now, entries, inserted, inFlight, attempts,
                   clearGeneration, clearGenerations, callers>>

\* Mutant of Disowned: a clear leaves the attempts registered.
DisownedNone(p) == inFlight

\* The registrations a clear leaves: a read after the clear must not join one
\* that started before it.
Disowned(p) ==
    [k \in Keys |-> IF StartsWith(k, p) THEN NoAttempt ELSE inFlight[k]]

\* clear(prefix), and clear() as clear('').
Clear(p) ==
    /\ clearGeneration < MaxClears
    /\ clearGeneration' = clearGeneration + 1
    /\ clearGenerations' = [clearGenerations EXCEPT ![p] = clearGeneration + 1]
    /\ entries' = [k \in Keys |-> IF StartsWith(k, p) THEN NoEntry ELSE entries[k]]
    /\ inserted' = {pr \in inserted : ~StartsWith(pr[1], p) /\ ~StartsWith(pr[2], p)}
    /\ inFlight' = Disowned(p)
    /\ UNCHANGED <<now, attempts, callers, batches>>

Next ==
    \/ Tick
    \/ \E c \in Callers, k \in Keys : ReadHit(c, k)
    \/ \E c \in Callers, k \in Keys : ReadJoin(c, k)
    \/ \E c \in Callers, k \in Keys, a \in Attempts : ReadStart(c, k, a)
    \/ \E a \in Attempts : LoadResolves(a)
    \/ \E a \in Attempts : LoadRejects(a)
    \/ \E a \in Attempts : AttemptFinally(a)
    \/ \E c \in Callers : CallerReturns(c)
    \/ \E b \in Batches, k \in Keys : BatchStart(b, k)
    \/ \E b \in Batches : BatchStores(b)
    \/ \E b \in Batches : BatchEnds(b)
    \/ \E p \in Names : Clear(p)

Spec == Init /\ [][Next]_vars

-----------------------------------------------------------------------------
(* Properties.                                                              *)

\* Every variable has the shape createMemoryCache gives it, and a registered
\* attempt is one that has not finished, under its own key.
TypeOK ==
    /\ now \in Nat
    /\ entries \in [Keys -> Entry]
    /\ inserted \subseteq Keys \X Keys
    /\ inFlight \in [Keys -> Attempts \cup {NoAttempt}]
    /\ attempts \in [Attempts -> Attempt]
    /\ clearGeneration \in Nat
    /\ clearGenerations \in [Names -> Nat]
    /\ callers \in [Callers -> Caller]
    /\ batches \in [Batches -> Batch]
    /\ \A k \in Keys : inFlight[k] # NoAttempt =>
          /\ attempts[inFlight[k]].phase # "idle"
          /\ attempts[inFlight[k]].key = k

\* A value requested before a clear that covered its key is never in the
\* cache after that clear, whoever stores it: a read() attempt that crossed
\* the clear, or a batch that stores with setIfGeneration().
NoResurrection ==
    \A k \in Keys \ UnguardedKeys :
        entries[k] # NoEntry => entries[k].born >= CoverGen(k)

\* A read() called after a clear of its key never answers with a value
\* requested before that clear: it does not join an attempt the clear
\* disowned, and is not served one's value as a hit or as a stale fallback.
ReadAfterClear ==
    \A c \in Callers :
        (/\ callers[c].st = "done"
         /\ callers[c].key \notin UnguardedKeys
         /\ callers[c].outcome.src # "error")
        => callers[c].outcome.born >= callers[c].asked

\* Concurrent reads are coalesced: upstream is asked at most once at a time
\* for one key and one generation, also when an attempt that a clear disowned
\* finishes while its successor is loading.
OneLoadPerGeneration ==
    \A a, b \in Attempts :
        (/\ a # b
         /\ attempts[a].phase = "loading" /\ attempts[b].phase = "loading"
         /\ attempts[a].key = attempts[b].key)
        => attempts[a].gen # attempts[b].gen

\* A hit is younger than its TTL and a fallback is younger than TTL plus
\* staleIfErrorMs, however many failed refreshes came before: a failure never
\* extends a deadline.
ServedWithinWindow ==
    \A c \in Callers :
        LET o == callers[c].outcome
            k == callers[c].key
        IN  callers[c].st = "done" =>
               /\ o.src = "hit" => o.age < Ttl[k]
               /\ o.src = "stale" => o.age < Ttl[k] + StaleIfError[k]

\* The load or the batch of k stores its value in this step.
Stores(k) ==
    \/ \E a \in Attempts :
          /\ attempts[a].phase = "loading" /\ attempts[a].key = k
          /\ attempts'[a].outcome.src = "load"
          /\ Current(k, attempts[a].gen)
    \/ \E b \in Batches :
          batches[b].st = "loading" /\ batches[b].key = k /\ batches'[b].landed

\* evict() keeps the cache within maxEntries, never costs the value that was
\* just stored, and takes a usable entry only when every other entry is usable
\* too and was inserted later.
EvictsOldestUsable ==
    [][/\ Cardinality(Present') <= MaxEntries
       /\ \A k \in Keys :
             Stores(k) /\ Ttl[k] > 0 =>
                entries'[k] # NoEntry /\ entries'[k].storedAt = now
       /\ \A k \in Present :
             (/\ entries[k].usableUntil > now
              /\ entries'[k] = NoEntry
              /\ clearGeneration' = clearGeneration)
             => \A j \in Keys : entries'[j] # NoEntry =>
                   /\ entries'[j].usableUntil > now
                   /\ j \in Present => <<k, j>> \in inserted]_vars

\* setIfGeneration() stores unless the key was cleared since the token was
\* taken: no other write is lost.
GuardedWriteLands ==
    \A b \in Batches :
        (batches[b].st = "done" /\ ~batches[b].crossed) => batches[b].landed

\* No reader is left behind: whoever waits holds an attempt that is still going
\* to settle and tell it, also after a clear disowned the attempt and another
\* one took its place.
NobodyIsStranded ==
    \A c \in Callers : callers[c].st = "waiting" =>
        /\ callers[c].on \in Attempts
        /\ attempts[callers[c].on].phase # "idle"
        /\ attempts[callers[c].on].key = callers[c].key
=============================================================================
