----------------------------- MODULE TokenPools -----------------------------
(***************************************************************************)
(* How the GeckoTerminal client (src/prices/geckoterminal.ts) resolves the *)
(* ADA pool of token subjects: resolveAdaPoolsBatch claims the subjects    *)
(* nobody resolves yet, fetches them in chunks, and shares the outcome     *)
(* with overlapping batches through inFlightPools; resolveAdaPool asks for *)
(* one subject through the cache's coalesced read().                       *)
(*                                                                         *)
(* A pool is abstracted to whether there is one.  The clock is abstracted  *)
(* to Expires: an entry may be past its TTL at any moment.                 *)
(***************************************************************************)
EXTENDS Integers, FiniteSets, FiniteSetsExt

CONSTANTS
    Subjects,   \* token subjects, numbered in request order
    Batches,    \* calls of getTokenActivity
    Readers,    \* calls of getTokenHistory
    BatchSize,  \* MULTI_TOKEN_BATCH
    NoBatch     \* nobody resolves the subject

\* "top": its most liquid pool is quoted in ADA.  "deep": another one is.
\* "none": indexed, with no ADA pool.  "unindexed": not known.
Markets == {"top", "deep", "none", "unindexed"}

PoolConstants ==
    /\ Subjects \subseteq Nat
    /\ BatchSize \in Nat \ {0}
    /\ NoBatch \notin Batches

VARIABLES
    market,         \* market[s]: what GeckoTerminal knows of s (external)
    cached,         \* cached[s]: "pool", "null" (no market) or "miss"
    loading,        \* subjects whose coalesced cache.read() is in flight
    inFlightPools,  \* inFlightPools[s]: the batch that registered s
    batches,        \* the state of each batch
    readers         \* the state of each reader

vars == <<market, cached, loading, inFlightPools, batches, readers>>

Found == {"pool", "null"}

\* got[s]: what the batch has for s, "" if it did not ask, "?" while it waits,
\* "error" after a rejection.  owned: subjects it claimed.  todo: those whose
\* chunk is outstanding.  deep: those it asks for one by one.  fetched: the
\* result of fetchAdaPools so far.
Nothing == [s \in Subjects |-> ""]

IdleBatch == [st |-> "idle", got |-> Nothing, owned |-> {}, todo |-> {},
              deep |-> {}, fetched |-> Nothing]

IdleReader == [st |-> "idle", subject |-> 0]

Start ==
    /\ cached = [s \in Subjects |-> "miss"]
    /\ loading = {}
    /\ inFlightPools = [s \in Subjects |-> NoBatch]
    /\ batches = [b \in Batches |-> IdleBatch]
    /\ readers = [r \in Readers |-> IdleReader]

Init == market \in [Subjects -> Markets] /\ Start

\* The TTL of an entry has passed.
Expires(s) ==
    /\ cached[s] # "miss"
    /\ cached' = [cached EXCEPT ![s] = "miss"]
    /\ UNCHANGED <<market, loading, inFlightPools, batches, readers>>

-----------------------------------------------------------------------------
(* Settling.                                                                *)

\* Await all: the first error fails the batch, and it is done when nothing is
\* outstanding.  A batch that still fetches looks at the others later.
Looked(batch) ==
    IF batch.st # "awaiting" THEN batch
    ELSE IF \E s \in Subjects : batch.got[s] = "error" THEN [batch EXCEPT !.st = "failed"]
    ELSE IF \E s \in Subjects : batch.got[s] = "?" THEN batch
    ELSE [batch EXCEPT !.st = "done"]

\* Mutant of Heard: an outcome reaches its owner only.
HeardByOwner(c, b, s) == c = b /\ inFlightPools[s] = b

\* Whether batch c awaits the promise b registered for s.
Heard(c, b, s) == inFlightPools[s] = b /\ batches[c].got[s] = "?"

\* The deferreds of b settle with what outcome maps its subjects to, and b
\* itself goes on to await everything it asked for.
Settled(b, outcome) ==
    [c \in Batches |->
        LET told == [batches[c] EXCEPT !.got = [s \in Subjects |->
                IF Heard(c, b, s) THEN outcome[s] ELSE @[s]]]
        IN  Looked(IF c # b THEN told
                   ELSE [told EXCEPT !.st = "awaiting", !.todo = {}, !.deep = {},
                                     !.fetched = Nothing])]

\* The finally of resolveAdaPoolsBatch.
Released(b) ==
    [s \in Subjects |-> IF s \in batches[b].owned THEN NoBatch ELSE inFlightPools[s]]

Errors == [s \in Subjects |-> "error"]

-----------------------------------------------------------------------------
(* resolveAdaPoolsBatch and fetchAdaPools.                                  *)

\* Mutant of Claims: the registrations of other batches are not looked at.
ClaimsAll(asked) == {s \in asked : cached[s] = "miss"}

\* Subjects with neither a cached answer nor a registered resolution.
Claims(asked) == {s \in asked : cached[s] = "miss" /\ inFlightPools[s] = NoBatch}

BatchStarts(b, asked) ==
    LET mine == Claims(asked) IN
    /\ batches[b].st = "idle"
    /\ inFlightPools' = [s \in Subjects |-> IF s \in mine THEN b ELSE inFlightPools[s]]
    /\ batches' = [batches EXCEPT ![b] = Looked(
          [st |-> IF mine = {} THEN "awaiting" ELSE "fetching",
           got |-> [s \in Subjects |-> IF s \notin asked THEN ""
                                       ELSE IF cached[s] = "miss" THEN "?" ELSE cached[s]],
           owned |-> mine, todo |-> mine, deep |-> {}, fetched |-> Nothing])]
    /\ UNCHANGED <<market, cached, loading, readers>>

\* The chunk of the multi-token call that is outstanding.
Chunk(b) ==
    {s \in batches[b].todo : Cardinality({t \in batches[b].todo : t < s}) < BatchSize}

\* Mutant of NeedsFallback: the most liquid pool decides.
NeedsFallbackNever(s) == FALSE

\* Indexed, with another quote asset in its most liquid pool.
NeedsFallback(s) == market[s] \in {"deep", "none"}

\* What the multi-token call says of a subject that needs no fallback.  A 404 of
\* the whole call is null for each subject of the chunk; upstream sends it only
\* when none of them is indexed.
ChunkSays(s) == IF market[s] = "top" THEN "pool" ELSE "null"

\* What the full list of pools says.
ListSays(s) == IF market[s] \in {"top", "deep"} THEN "pool" ELSE "null"

\* fetched with what values says of the subjects in ss.
Filled(fetched, ss, values) ==
    [s \in Subjects |-> IF s \in ss THEN values[s] ELSE fetched[s]]

\* A chunk is answered: its subjects are cached or left to the fallback.
\* After the last chunk the fallback reads start, those that miss the cache,
\* or the deferreds settle.
ChunkAnswered(b) ==
    LET chunk == Chunk(b)
        direct == {s \in chunk : ~NeedsFallback(s)}
        todo == batches[b].todo \ chunk
        deep == batches[b].deep \cup (chunk \ direct)
        after == [s \in Subjects |-> IF s \in direct THEN ChunkSays(s) ELSE cached[s]]
        fetched == Filled(batches[b].fetched, direct, after)
        missing == {s \in deep : after[s] = "miss"}
    IN
    /\ batches[b].st = "fetching"
    /\ cached' = after
    /\ \/ /\ todo # {}
          /\ batches' = [batches EXCEPT ![b] =
                [@ EXCEPT !.todo = todo, !.deep = deep, !.fetched = fetched]]
          /\ UNCHANGED <<loading, inFlightPools>>
       \/ /\ todo = {} /\ missing # {}
          /\ batches' = [batches EXCEPT ![b] =
                [@ EXCEPT !.st = "fallback", !.todo = {}, !.deep = missing,
                          !.fetched = Filled(fetched, deep \ missing, after)]]
          /\ loading' = loading \cup missing
          /\ UNCHANGED inFlightPools
       \/ /\ todo = {} /\ missing = {}
          /\ batches' = Settled(b, Filled(fetched, deep, after))
          /\ inFlightPools' = Released(b)
          /\ UNCHANGED loading
    /\ UNCHANGED <<market, readers>>

\* A chunk fails: every deferred of the batch is rejected, those of answered
\* chunks too.
ChunkFails(b) ==
    /\ batches[b].st = "fetching"
    /\ batches' = Settled(b, Errors)
    /\ inFlightPools' = Released(b)
    /\ UNCHANGED <<market, cached, loading, readers>>

-----------------------------------------------------------------------------
(* resolveAdaPool.                                                          *)

\* A reader whose subject is cached; and one that starts or joins a load.
ReaderHits(r, s) ==
    /\ readers[r].st = "idle" /\ cached[s] # "miss"
    /\ readers' = [readers EXCEPT ![r] = [st |-> cached[s], subject |-> s]]
    /\ UNCHANGED <<market, cached, loading, inFlightPools, batches>>

ReaderLoads(r, s) ==
    /\ readers[r].st = "idle" /\ cached[s] = "miss"
    /\ readers' = [readers EXCEPT ![r] = [st |-> "waiting", subject |-> s]]
    /\ loading' = loading \cup {s}
    /\ UNCHANGED <<market, cached, inFlightPools, batches>>

ReadersHear(s, what) ==
    [r \in Readers |->
        IF readers[r] = [st |-> "waiting", subject |-> s]
        THEN [readers[r] EXCEPT !.st = what] ELSE readers[r]]

\* Batches whose fallback read of s is in flight.
FallingBack(s) == {b \in Batches : batches[b].st = "fallback" /\ s \in batches[b].deep}

\* The load of s resolves for the readers and for the one batch that claimed
\* s; the batch settles with its last fallback read.
PoolLoads(s) ==
    /\ s \in loading
    /\ loading' = loading \ {s}
    /\ cached' = [cached EXCEPT ![s] = ListSays(s)]
    /\ readers' = ReadersHear(s, ListSays(s))
    /\ \/ /\ FallingBack(s) = {}
          /\ UNCHANGED <<inFlightPools, batches>>
       \/ \E b \in FallingBack(s) :
             LET fetched == [batches[b].fetched EXCEPT ![s] = ListSays(s)]
                 deep == batches[b].deep \ {s}
             IN  \/ /\ deep # {}
                    /\ batches' = [batches EXCEPT ![b].deep = deep, ![b].fetched = fetched]
                    /\ UNCHANGED inFlightPools
                 \/ /\ deep = {}
                    /\ batches' = Settled(b, fetched)
                    /\ inFlightPools' = Released(b)
    /\ UNCHANGED market

\* The load fails: nothing is cached, and the batch rejects everything it
\* claimed while its other fallback reads go on.
PoolLoadFails(s) ==
    /\ s \in loading
    /\ loading' = loading \ {s}
    /\ readers' = ReadersHear(s, "failed")
    /\ \/ /\ FallingBack(s) = {}
          /\ UNCHANGED <<inFlightPools, batches>>
       \/ \E b \in FallingBack(s) :
             /\ batches' = Settled(b, Errors)
             /\ inFlightPools' = Released(b)
    /\ UNCHANGED <<market, cached>>

\* The callers are finished with their answers.
BatchReturns(b) ==
    /\ batches[b].st \in {"done", "failed"}
    /\ batches' = [batches EXCEPT ![b] = IdleBatch]
    /\ UNCHANGED <<market, cached, loading, inFlightPools, readers>>

ReaderReturns(r) ==
    /\ readers[r].st \in Found \cup {"failed"}
    /\ readers' = [readers EXCEPT ![r] = IdleReader]
    /\ UNCHANGED <<market, cached, loading, inFlightPools, batches>>

Next ==
    \/ \E s \in Subjects : Expires(s)
    \/ \E b \in Batches, asked \in SUBSET Subjects \ {{}} : BatchStarts(b, asked)
    \/ \E b \in Batches : ChunkAnswered(b)
    \/ \E b \in Batches : ChunkFails(b)
    \/ \E r \in Readers, s \in Subjects : ReaderHits(r, s)
    \/ \E r \in Readers, s \in Subjects : ReaderLoads(r, s)
    \/ \E s \in Subjects : PoolLoads(s)
    \/ \E s \in Subjects : PoolLoadFails(s)
    \/ \E b \in Batches : BatchReturns(b)
    \/ \E r \in Readers : ReaderReturns(r)

Spec == Init /\ [][Next]_vars

\* Every upstream call settles.
Fairness ==
    /\ \A b \in Batches : WF_vars(ChunkAnswered(b) \/ ChunkFails(b))
    /\ \A s \in Subjects : WF_vars(PoolLoads(s) \/ PoolLoadFails(s))

FairSpec == Spec /\ Fairness

-----------------------------------------------------------------------------
(* Properties.                                                              *)

Fetching(b) == batches[b].st \in {"fetching", "fallback"}

\* The shape of the client's state; what is registered is being fetched by
\* the batch that registered it, so no settled promise is ever joined.
TypeOK ==
    /\ market \in [Subjects -> Markets]
    /\ cached \in [Subjects -> Found \cup {"miss"}]
    /\ loading \subseteq Subjects
    /\ inFlightPools \in [Subjects -> Batches \cup {NoBatch}]
    /\ \A b \in Batches :
          /\ batches[b].st \in {"idle", "fetching", "fallback", "awaiting", "done", "failed"}
          /\ batches[b].got \in [Subjects -> Found \cup {"", "?", "error"}]
    /\ \A r \in Readers : readers[r].st \in Found \cup {"idle", "waiting", "failed"}
    /\ \A s \in Subjects : inFlightPools[s] # NoBatch =>
          Fetching(inFlightPools[s]) /\ s \in batches[inFlightPools[s]].owned

\* Two overlapping batches never look the same subject up at the same time.
OneLookupPerSubject ==
    \A b, c \in Batches :
        (b # c /\ Fetching(b) /\ Fetching(c)) => batches[b].owned \cap batches[c].owned = {}

\* Every answer is GeckoTerminal's: a batch that resolves has an answer for
\* each subject it asked for, and a failure, a 404 or an unusual quote asset
\* of some subject, in this batch or in one it shared with, is never read or
\* cached as "no market" for a subject that has one, as long as a 404 of a whole
\* chunk means that none of it is indexed.
AnswersAreTrue ==
    /\ \A s \in Subjects : cached[s] \in {"miss", ListSays(s)}
    /\ \A b \in Batches : batches[b].st = "done" =>
          \A s \in Subjects : batches[b].got[s] \in {"", ListSays(s)}
    /\ \A r \in Readers : readers[r].st \in Found => readers[r].st = ListSays(readers[r].subject)

\* Every batch and every reader ends, also when batches wait for each other's
\* subjects and one of them fails.
EveryoneEnds ==
    /\ \A b \in Batches :
          (batches[b].st # "idle") ~> (batches[b].st \in {"done", "failed"})
    /\ \A r \in Readers :
          (readers[r].st = "waiting") ~> (readers[r].st # "waiting")
=============================================================================
