----------------------------- MODULE WorkerPool -----------------------------
(***************************************************************************)
(* mapWithConcurrency of src/providers/blockfrost/concurrency.ts: a fixed  *)
(* number of workers drain one shared array iterator, the results keep the *)
(* order of the items, and the first rejection fails the whole batch.      *)
(*                                                                         *)
(* A worker runs without interruption from one await of the per-item call  *)
(* to the next, so a step is: the call settles, and the worker pulls the   *)
(* next entry and starts its call, or leaves the loop.                     *)
(***************************************************************************)
EXTENDS Integers, FiniteSets, FiniteSetsExt

CONSTANTS
    N,       \* items.length
    Limit    \* the concurrency limit

ASSUME PoolAssumption == N \in Nat /\ Limit \in Int

Items == 1..N

\* Math.max(1, Math.min(limit, items.length))
workerCount == Max({1, Min({Limit, N})})

Workers == 1..workerCount

VARIABLES
    next,     \* the next entry of the shared iterator; N + 1 when exhausted
    running,  \* running[w]: the item worker w awaits, 0 when none
    ended,    \* ended[w]: "no", "returned" or "rejected" for the run() of w
    results,  \* items whose slot in the results array is filled
    called,   \* called[i]: how often the worker function was called for item i
    aborted,  \* the flag set by the first rejection
    failed,   \* items whose call rejected, in a set
    outcome   \* the promise of the batch: "pending", "resolved", "rejected"

poolVars == <<next, running, ended, results, called, aborted, failed, outcome>>

PoolInit ==
    /\ next = 1
    /\ running = [w \in Workers |-> 0]
    /\ ended = [w \in Workers |-> "no"]
    /\ results = {}
    /\ called = [i \in Items |-> 0]
    /\ aborted = FALSE
    /\ failed = {}
    /\ outcome = "pending"

\* Mutant of Advanced: an iterator that skips.
AdvancedTwice == IF next <= N - 1 THEN next + 2 ELSE N + 1

\* entries.next() on the shared iterator.
Advanced == IF next <= N THEN next + 1 ELSE next

\* Mutant of TakesItem: the abort flag is not looked at.
TakesItemAnyway == next <= N

\* Whether the worker starts on the entry it pulled.
TakesItem == next <= N /\ ~aborted

\* The loop head: the iterator always moves, then the abort flag is looked at,
\* so an aborted pool drops one entry per worker.
Pull(w) ==
    /\ next' = Advanced
    /\ \/ /\ TakesItem
          /\ running' = [running EXCEPT ![w] = next]
          /\ called' = [called EXCEPT ![next] = @ + 1]
          /\ UNCHANGED ended
       \/ /\ ~TakesItem
          /\ running' = [running EXCEPT ![w] = 0]
          /\ ended' = [ended EXCEPT ![w] = "returned"]
          /\ UNCHANGED called

\* Array.from starts the workers one after another, before any of them awaits
\* a result, so a worker's start precedes every settling.
Started(w) == running[w] # 0 \/ ended[w] # "no"

Start(w) ==
    /\ ~Started(w)
    /\ \A v \in Workers : v < w => Started(v)
    /\ Pull(w)
    /\ UNCHANGED <<results, aborted, failed, outcome>>

AllStarted == \A w \in Workers : Started(w)

\* The call for this worker's item resolves: fill its slot and go on.
CallResolves(w) ==
    /\ AllStarted
    /\ running[w] # 0
    /\ results' = results \cup {running[w]}
    /\ Pull(w)
    /\ UNCHANGED <<aborted, failed, outcome>>

\* Mutant of BatchAfterRejection: nobody awaits the worker that failed.
BatchUnaware == outcome

\* Promise.all rejects with the first run() that does.
BatchAfterRejection == "rejected"

\* The call rejects: raise the flag and reject run(), which rejects the batch.
CallRejects(w) ==
    /\ AllStarted
    /\ running[w] # 0
    /\ aborted' = TRUE
    /\ failed' = failed \cup {running[w]}
    /\ running' = [running EXCEPT ![w] = 0]
    /\ ended' = [ended EXCEPT ![w] = "rejected"]
    /\ outcome' = BatchAfterRejection
    /\ UNCHANGED <<next, results, called>>

\* Promise.all resolves once every run() returned.
Resolve ==
    /\ outcome = "pending"
    /\ \A w \in Workers : ended[w] = "returned"
    /\ outcome' = "resolved"
    /\ UNCHANGED <<next, running, ended, results, called, aborted, failed>>

PoolNext ==
    \/ \E w \in Workers : Start(w)
    \/ \E w \in Workers : CallResolves(w)
    \/ \E w \in Workers : CallRejects(w)
    \/ Resolve

PoolSpec == PoolInit /\ [][PoolNext]_poolVars

-----------------------------------------------------------------------------
(* Properties.                                                              *)

\* The shape of the pool, and no item awaited by two workers.
PoolTypeOK ==
    /\ next \in 1..(N + 1)
    /\ running \in [Workers -> 0..N]
    /\ ended \in [Workers -> {"no", "returned", "rejected"}]
    /\ results \subseteq Items
    /\ called \in [Items -> Nat]
    /\ aborted \in BOOLEAN
    /\ failed \subseteq Items
    /\ outcome \in {"pending", "resolved", "rejected"}

\* The worker function is called at most once per item, whichever workers race
\* for the iterator.
CalledAtMostOnce == \A i \in Items : called[i] <= 1

\* A batch that resolves has every slot filled and no rejection behind it: no
\* entry was skipped.
ResolvedIsComplete ==
    outcome = "resolved" => results = Items /\ failed = {}

\* After the first rejection nothing new is asked of the upstream: what still
\* runs was in flight already, so the wasted work is bounded by the pool.
NothingStartsAfterAbort == [][aborted => called' = called]_poolVars

\* The batch always settles, whichever of its calls resolve, are retried or
\* fail, and whatever else takes tokens meanwhile.
BatchSettles == <>(outcome # "pending")
=============================================================================
