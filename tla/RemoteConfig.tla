---------------------------- MODULE RemoteConfig ----------------------------
(***************************************************************************)
(* src/remote-config/index.ts: the published configuration document,       *)
(* served from the shared cache for Ttl, fetched when the cache has none,  *)
(* and, when the fetch fails, answered from lastGood for StaleIfError.     *)
(*                                                                         *)
(* The cache appears through its read(key, ttl, load): a usable entry is   *)
(* returned, a load under way is joined, another one is started and its    *)
(* result stored (MemoryCache models it in full; nothing clears this key). *)
(* With CACHE_ENABLED=false it is noCache and every get() fetches.         *)
(***************************************************************************)
EXTENDS Integers

CONSTANTS
    Callers,       \* requests that call get(), each again and again
    Ttl,           \* TTL_MS
    StaleIfError,  \* STALE_IF_ERROR_MS
    Timeout,       \* TIMEOUT_MS
    MaxNow,        \* bound: the clock stops here
    MaxVersion     \* bound: documents published

ASSUME ConfigAssumption ==
    /\ Ttl \in Nat /\ StaleIfError \in Nat /\ Timeout \in Nat
    /\ Ttl <= StaleIfError
    /\ MaxNow \in Nat /\ MaxVersion \in Nat \ {0}

VARIABLES
    cached,     \* CACHE_ENABLED: the process runs with the memory cache
    now,
    published,  \* the number of the document upstream has now
    until,      \* ghost: until[v] is when v was replaced, -1 while it is not
    entry,      \* the cache entry: [v, expires], v = 0 for none
    lastGood,   \* [v, at], v = 0 for undefined
    call,       \* call[c]: the get() of caller c
    served,     \* ghost: the newest document any get() has returned
    landed      \* ghost: when a fetch last succeeded, -1 before that

vars == <<cached, now, published, until, entry, lastGood, call, served, landed>>

\* st: "idle", "loading" (owns a fetch), "joined" (awaits another's), "done",
\* "failed".  got: the document of the response, 0 before it is on its way.
\* floor: ghost, `served' when the get() began.  at: when it started or ended.
Call == [st : {"idle", "loading", "joined", "done", "failed"},
         got : 0..MaxVersion, floor : 0..MaxVersion, at : 0..MaxNow]

Init ==
    /\ cached \in BOOLEAN
    /\ now = 0
    /\ published = 1
    /\ until = [v \in 1..MaxVersion |-> -1]
    /\ entry = [v |-> 0, expires |-> 0]
    /\ lastGood = [v |-> 0, at |-> 0]
    /\ call = [c \in Callers |-> [st |-> "idle", got |-> 0, floor |-> 0, at |-> 0]]
    /\ served = 0
    /\ landed = -1

Newest(a, b) == IF a < b THEN b ELSE a

-----------------------------------------------------------------------------
(* Upstream and the clock.                                                  *)

Publish ==
    /\ published < MaxVersion
    /\ published' = published + 1
    /\ until' = [until EXCEPT ![published] = now]
    /\ UNCHANGED <<cached, now, entry, lastGood, call, served, landed>>

\* Upstream answers the fetch of c with what is published at this moment; the
\* response still has to arrive.
Respond(c) ==
    /\ call[c].st = "loading" /\ call[c].got = 0
    /\ call' = [call EXCEPT ![c].got = published]
    /\ UNCHANGED <<cached, now, published, until, entry, lastGood, served, landed>>

\* The cache, at its limit, gives the entry up for another one's.
Evict ==
    /\ entry.v # 0
    /\ entry' = [v |-> 0, expires |-> 0]
    /\ UNCHANGED <<cached, now, published, until, lastGood, call, served, landed>>

\* Mutant of InTime: the fetch carries no signal.
InTimeAlways(c) == TRUE

\* AbortSignal.timeout ends a fetch, its body included, after Timeout.
InTime(c) == call[c].st = "loading" => now - call[c].at < Timeout

Tick ==
    /\ now < MaxNow
    /\ \A c \in Callers : InTime(c)
    /\ now' = now + 1
    /\ UNCHANGED <<cached, published, until, entry, lastGood, call, served, landed>>

-----------------------------------------------------------------------------
(* get().                                                                   *)

Ended(c) == call[c].st \in {"idle", "done", "failed"}

Hit == cached /\ entry.v # 0 /\ now < entry.expires

Pending == {c \in Callers : call[c].st = "loading"}

\* Mutant of Joins: the load under way is not looked for.
JoinsNever == FALSE

\* cache.read returns the promise of a load under way.
Joins == cached /\ Pending # {}

\* get(), up to its first wait.
Get(c) ==
    /\ Ended(c)
    /\ \/ /\ Hit
          /\ call' = [call EXCEPT ![c] = [st |-> "done", got |-> entry.v,
                                          floor |-> served, at |-> now]]
          /\ served' = Newest(served, entry.v)
       \/ /\ ~Hit /\ Joins
          /\ call' = [call EXCEPT ![c] = [st |-> "joined", got |-> 0,
                                          floor |-> served, at |-> now]]
          /\ UNCHANGED served
       \/ /\ ~Hit /\ ~Joins
          /\ call' = [call EXCEPT ![c] = [st |-> "loading", got |-> 0,
                                          floor |-> served, at |-> now]]
          /\ UNCHANGED served
    /\ UNCHANGED <<cached, now, published, until, entry, lastGood, landed>>

\* The callers that await the fetch c owns.  With the cache there is one fetch
\* at a time; without it nobody joins.
Awaiting(c) == {c} \cup {d \in Callers : call[d].st = "joined"}

\* Every call awaiting c ends with st and the document v.
EndAll(c, st, v) ==
    call' = [d \in Callers |->
                IF d \in Awaiting(c)
                THEN [call[d] EXCEPT !.st = st, !.got = v, !.at = now]
                ELSE call[d]]

\* Mutant of Remembered: the time of the first success is kept.
RememberedOnce(v) == [v |-> v, at |-> IF lastGood.v = 0 THEN now ELSE lastGood.at]

\* fetchAndRemember's assignment.
Remembered(v) == [v |-> v, at |-> now]

\* The fetch of c succeeds: fetchAndRemember, the store, every awaiting get().
Land(c) ==
    /\ call[c].st = "loading" /\ call[c].got # 0
    /\ lastGood' = Remembered(call[c].got)
    /\ entry' = IF cached THEN [v |-> call[c].got, expires |-> now + Ttl] ELSE entry
    /\ EndAll(c, "done", call[c].got)
    /\ served' = Newest(served, call[c].got)
    /\ landed' = now
    /\ UNCHANGED <<cached, now, published, until>>

\* lastGood is there and not too old.
Recent == lastGood.v # 0 /\ now - lastGood.at < StaleIfError

\* Mutant of KeptOnFailure: a failure makes the document fresh again.
KeptRefreshed == [lastGood EXCEPT !.at = now]

\* What a failure leaves of lastGood.
KeptOnFailure == lastGood

\* The fetch of c fails: unreachable, timed out, a status that is not ok, no
\* JSON or no object.  Every awaiting get() falls back on its own.
FetchFails(c) ==
    /\ call[c].st = "loading"
    /\ \/ /\ Recent
          /\ EndAll(c, "done", lastGood.v)
          /\ served' = Newest(served, lastGood.v)
       \/ /\ ~Recent
          /\ EndAll(c, "failed", 0)
          /\ UNCHANGED served
    /\ lastGood' = KeptOnFailure
    /\ UNCHANGED <<cached, now, published, until, entry, landed>>

Next ==
    \/ Publish
    \/ Tick
    \/ Evict
    \/ \E c \in Callers : Get(c)
    \/ \E c \in Callers : Respond(c)
    \/ \E c \in Callers : Land(c)
    \/ \E c \in Callers : FetchFails(c)

Spec == Init /\ [][Next]_vars

-----------------------------------------------------------------------------
(* Properties.                                                              *)

\* The shape of the state; a get() that joined has a fetch to wait for.
TypeOK ==
    /\ cached \in BOOLEAN
    /\ now \in 0..MaxNow /\ published \in 1..MaxVersion
    /\ until \in [1..MaxVersion -> -1..MaxNow]
    /\ entry \in [v : 0..MaxVersion, expires : 0..MaxNow + Ttl]
    /\ lastGood \in [v : 0..MaxVersion, at : 0..MaxNow]
    /\ call \in [Callers -> Call]
    /\ served \in 0..MaxVersion /\ landed \in -1..MaxNow
    /\ \A c \in Callers : call[c].st = "joined" => Pending # {}

\* A document get() returns was still the published one StaleIfError and one
\* fetch ago or later, however many fetches failed since: "a long outage
\* eventually surfaces as an error rather than serving last month's config".
NotAncient ==
    \A c \in Callers :
        (call[c].st = "done" /\ until[call[c].got] # -1) =>
            call[c].at - until[call[c].got] <= StaleIfError + Timeout

\* get() fails only when no fetch of any caller has succeeded for
\* StaleIfError: one bad fetch never costs a wallet its start.
FailsOnlyInOutage ==
    [][\A c \in Callers :
          (~Ended(c) /\ call'[c].st = "failed") =>
              landed = -1 \/ now - landed >= StaleIfError]_vars

\* With the cache, a get() that begins after another was answered never gets
\* an older document, across hits, joins, failures and overlapping fetches.
NeverGoesBack ==
    cached => \A c \in Callers : call[c].st = "done" => call[c].got >= call[c].floor
=============================================================================
