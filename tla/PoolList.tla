------------------------------- MODULE PoolList -------------------------------
(***************************************************************************)
(* getPoolList of src/providers/koios/pools.ts and                         *)
(* src/providers/blockfrost/pools.ts.  A page is cut from a ranking of all *)
(* registered pools, which is cached under the epoch the service believes  *)
(* in; the page is cached briefly, under that epoch and its offset, and    *)
(* kept for a while in case a refresh fails.  Without an epoch Koios reads *)
(* a page for whoever asks for it at the moment.                           *)
(*                                                                         *)
(* The cache is the read-through cache that MemoryCache details, without   *)
(* clears and evictions; the ranking outlives its epoch there, and how old *)
(* a page is when it is read is left open.  A pool is its id; its stake is *)
(* the snapshot of the epoch it was read in.  The request that hydrates a  *)
(* page is one step.  A search by ticker, which filters the same scan, is  *)
(* left out.                                                               *)
(***************************************************************************)
EXTENDS Integers, Sequences, SequencesExt, FiniteSets

CONSTANTS
    Pools,         \* ids, in the order of the list
    FirstPools,    \* bound: the sets of pools that may be registered at first
    Stake,         \* Stake[e][p]: the active stake of p in epoch e
    Askers,        \* calls of getPoolList(), numbered as they come
    Limit,         \* rows per page of the caller
    Offsets,       \* where the pages that are asked for begin
    PoolPageSize,  \* POOL_LIST_PAGE_SIZE, DEFAULT_PAGE_SIZE
    PoolMaxPages,  \* POOL_LIST_MAX_PAGES, DEFAULT_MAX_PAGES
    LastEpoch,     \* bound on the epochs
    MaxChurn       \* bound: registrations and retirements

VARIABLES
    driver,     \* config.provider
    epoch,      \* the chain's epoch
    tip,        \* the epoch of the service's cached tip
    registered, \* the pools registered now
    churn,      \* how many have come or gone
    scans,      \* scans[k]: the scan for a ranking; its result is the cached ranking
    attempts,   \* attempts[k]: the page read in flight
    pages,      \* pages[k]: the cached page
    askers      \* the state of each caller

upstreamPools == <<epoch, registered, churn>>
vars == <<driver, tip, upstreamPools, scans, attempts, pages, askers>>

\* 0: the epoch is not known.
Undefined == 0

\* A page of the list: the epoch it is cached under, and its offset.
Keys == (Undefined..LastEpoch) \X Offsets

\* Mutant of Ranking: every page is cut from a ranking of its own.
RankingOwn(k) == k

\* The ranking a page is cut from is shared by the epoch, or its own.
Ranking(k) == IF k[1] = Undefined THEN k ELSE <<k[1], 0>>

\* rows: what was listed, with the epoch of the stake.
\* throughout (ghost): the pools that were registered since the scan began.
IdleScan == [st |-> "idle", page |-> 1, rows |-> <<>>, throughout |-> {}]

IdleAttempt == [st |-> "idle", page |-> <<>>]

NoPage == [held |-> FALSE, page |-> <<>>]

IdleAsker == [st |-> "idle", offset |-> 0, epoch |-> Undefined, key |-> <<Undefined, 0>>,
              answer |-> <<>>]

Init ==
    /\ driver \in {"koios", "blockfrost"}
    /\ epoch = 1 /\ tip = 1 /\ churn = 0
    /\ registered \in FirstPools
    /\ scans = [k \in Keys |-> IdleScan]
    /\ attempts = [k \in Keys |-> IdleAttempt]
    /\ pages = [k \in Keys |-> NoPage]
    /\ askers = [c \in Askers |-> IdleAsker]

-----------------------------------------------------------------------------
(* Upstream (external).                                                     *)

\* The ids of S in their order.
InOrder(S) ==
    [n \in 1..Cardinality(S) |-> CHOOSE p \in S : Cardinality({q \in S : q <= p}) = n]

Listing == InOrder(registered)

\* What happens after the last call is of no interest.
Busy == \E c \in Askers : askers[c].st \notin {"done", "failed"}

\* A pool registers or retires (before the first scan it is a matter of the
\* initial state).
Churns(p) ==
    /\ Busy /\ \E k \in Keys : scans[k].st # "idle"
    /\ churn < MaxChurn
    /\ churn' = churn + 1
    /\ registered' = IF p \in registered THEN registered \ {p} ELSE registered \cup {p}
    /\ scans' = [k \in Keys |-> IF scans[k].st \in {"reading", "probe"}
                                THEN [scans[k] EXCEPT !.throughout = @ \ {p}] ELSE scans[k]]
    /\ UNCHANGED <<driver, epoch, tip, attempts, pages, askers>>

EpochEnds ==
    /\ Busy
    /\ epoch < LastEpoch
    /\ epoch' = epoch + 1
    /\ UNCHANGED <<driver, tip, registered, churn, scans, attempts, pages, askers>>

\* The cached tip is refreshed (ProtocolParams).
TipReads ==
    /\ Busy /\ tip # epoch
    /\ tip' = epoch
    /\ UNCHANGED <<driver, upstreamPools, scans, attempts, pages, askers>>

-----------------------------------------------------------------------------
(* The scan.                                                                *)

\* Mutant of RowsAfter: the rows read so far are skipped by number.
RowsAfterOffset(rows) == SubSeq(Listing, Len(rows) + 1, Len(Listing))

\* The rest of the list after the last row read: Koios is asked for ids that
\* follow it.
RowsAfter(rows) ==
    InOrder({p \in registered : rows = <<>> \/ p > Last(rows).id})

\* One response of the list: after the cursor, or by page number.
Response(scan, size) ==
    LET rest == IF driver = "koios" THEN RowsAfter(scan.rows)
                ELSE SubSeq(Listing, (scan.page - 1) * PoolPageSize + 1, Len(Listing))
    IN  [i \in 1..Min({size, Len(rest)}) |-> [id |-> rest[i], at |-> epoch]]

\* A page of the scan: a short one is the end.
ScanPage(k) ==
    LET scan == scans[k]
        rows == Response(scan, PoolPageSize)
        all == scan.rows \o rows
    IN
    /\ scan.st = "reading"
    /\ scans' = [scans EXCEPT ![k].rows = all, ![k].page = @ + 1,
          ![k].st = IF Len(rows) < PoolPageSize THEN "done"
                    ELSE IF scan.page = PoolMaxPages THEN "probe" ELSE "reading"]
    /\ UNCHANGED <<driver, upstreamPools, tip, attempts, pages, askers>>

\* The probe after the last page allowed finds the list at its end.
ProbeEnds(k) ==
    /\ scans[k].st = "probe"
    /\ Response(scans[k], 1) = <<>>
    /\ scans' = [scans EXCEPT ![k].st = "done"]
    /\ UNCHANGED <<driver, upstreamPools, tip, attempts, pages, askers>>

Before(a, b) ==
    LET left == Stake[a.at][a.id]
        right == Stake[b.at][b.id]
    IN  left > right \/ (left = right /\ a.id < b.id)

\* byActiveStakeDesc; Array.prototype.sort is stable.
Outranks(rows, i, j) ==
    Before(rows[i], rows[j]) \/ (~Before(rows[j], rows[i]) /\ i < j)

\* As many rows come up to the n-th place as its number.
Ranked(rows) ==
    [n \in DOMAIN rows |->
        rows[CHOOSE i \in DOMAIN rows :
                Cardinality({j \in DOMAIN rows : j = i \/ Outranks(rows, j, i)}) = n]]

-----------------------------------------------------------------------------
(* Pages.                                                                   *)

Waiting(k) == {c \in Askers : askers[c].st = "waiting" /\ askers[c].key = k}

Answered(k, page) ==
    [c \in Askers |-> IF c \in Waiting(k)
                      THEN [askers[c] EXCEPT !.st = "done", !.answer = page] ELSE askers[c]]

\* The readers of pages ks get the page that is still held, where it is within
\* PAGE_STALE_IF_ERROR_MS (usable), or the error.
Failed(ks, usable) ==
    [c \in Askers |->
        LET k == askers[c].key IN
        IF k \notin ks \/ c \notin Waiting(k) THEN askers[c]
        ELSE IF k \in usable THEN [askers[c] EXCEPT !.st = "done", !.answer = pages[k].page]
        ELSE [askers[c] EXCEPT !.st = "failed"]]

HeldPages(ks) == {k \in ks : pages[k].held}

\* servePage: the ranking is there; slice it.
Slice(k) ==
    LET ranked == Ranked(scans[Ranking(k)].rows) IN
    /\ attempts[k].st = "ranking"
    /\ scans[Ranking(k)].st = "done"
    /\ attempts' = [attempts EXCEPT ![k] =
          [st |-> "hydrate", page |-> SubSeq(ranked, k[2] + 1, Min({k[2] + Limit, Len(ranked)}))]]
    /\ scans' = IF k[1] = Undefined THEN [scans EXCEPT ![k] = IdleScan] ELSE scans
    /\ UNCHANGED <<driver, upstreamPools, tip, pages, askers>>

\* A page without an epoch is not kept; Blockfrost keeps it under "none".
Kept(k) == driver = "blockfrost" \/ k[1] # Undefined

\* The page is hydrated: the stake of its rows is the one they were ranked by.
\* What fails of /pools/retiring and /metadata is left out of the rows.
Hydrated(k) ==
    /\ attempts[k].st = "hydrate"
    /\ pages' = IF Kept(k) THEN [pages EXCEPT ![k] = [held |-> TRUE, page |-> attempts[k].page]]
                ELSE pages
    /\ askers' = Answered(k, attempts[k].page)
    /\ attempts' = [attempts EXCEPT ![k] = IdleAttempt]
    /\ UNCHANGED <<driver, upstreamPools, tip, scans>>

\* A request of the hydration fails.
HydrationFails(k) ==
    /\ attempts[k].st = "hydrate" /\ attempts[k].page # <<>>
    /\ \E usable \in SUBSET HeldPages({k}) : askers' = Failed({k}, usable)
    /\ attempts' = [attempts EXCEPT ![k] = IdleAttempt]
    /\ UNCHANGED <<driver, upstreamPools, tip, scans, pages>>

\* A request of the scan fails, or the list is longer than the bound: every
\* page that waits for this ranking fails.
ScanFails(k) ==
    LET of == {p \in Keys : Ranking(p) = k /\ attempts[p].st = "ranking"} IN
    /\ \/ scans[k].st = "reading"
       \/ scans[k].st = "probe"
    /\ scans' = [scans EXCEPT ![k] = IdleScan]
    /\ attempts' = [p \in Keys |-> IF p \in of THEN IdleAttempt ELSE attempts[p]]
    /\ \E usable \in SUBSET HeldPages(of) : askers' = Failed(of, usable)
    /\ UNCHANGED <<driver, upstreamPools, tip, pages>>

\* Mutant of PageKey: the key does not name the epoch.
PageKeyWithoutEpoch(e, offset) == <<IF e = Undefined THEN e ELSE 1, offset>>

PageKey(e, offset) == <<e, offset>>

\* getPoolList, from the moment cacheEpoch() has answered: the page is served from the cache within its TTL, or
\* its read in flight is joined, or started with the scan it needs.
Asks(c, offset, e) ==
    LET k == PageKey(e, offset)
        asker(st, page) == [st |-> st, offset |-> offset, epoch |-> e, key |-> k, answer |-> page]
    IN
    /\ askers[c].st = "idle" /\ \A d \in Askers : d < c => askers[d].st # "idle"
    /\ e \in {tip, Undefined}
    /\ \/ /\ pages[k].held
          /\ askers' = [askers EXCEPT ![c] = asker("done", pages[k].page)]
          /\ UNCHANGED <<scans, attempts>>
       \/ /\ askers' = [askers EXCEPT ![c] = asker("waiting", <<>>)]
          /\ IF attempts[k].st # "idle" THEN UNCHANGED <<scans, attempts>>
             ELSE /\ attempts' = [attempts EXCEPT ![k].st = "ranking"]
                  /\ scans' = IF scans[Ranking(k)].st # "idle" THEN scans
                              ELSE [scans EXCEPT ![Ranking(k)] =
                                      [IdleScan EXCEPT !.st = "reading", !.throughout = registered]]
    /\ UNCHANGED <<driver, upstreamPools, tip, pages>>

\* What the requests and continuations of the page under k do.
Serves(k) ==
    \/ ScanPage(k)
    \/ ProbeEnds(k)
    \/ ScanFails(k)
    \/ Slice(k)
    \/ Hydrated(k)
    \/ HydrationFails(k)

Next ==
    \/ \E p \in Pools : Churns(p)
    \/ EpochEnds
    \/ TipReads
    \/ \E c \in Askers, offset \in Offsets, e \in Undefined..LastEpoch : Asks(c, offset, e)
    \/ \E k \in Keys : Serves(k)

Spec == Init /\ [][Next]_vars

-----------------------------------------------------------------------------
(* Properties.                                                              *)

\* The shape of the state; a page that is waited for is being read.
TypeOK ==
    /\ driver \in {"koios", "blockfrost"}
    /\ epoch \in 1..LastEpoch /\ tip \in 1..epoch /\ registered \subseteq Pools
    /\ \A k \in Keys :
          /\ scans[k].st \in {"idle", "reading", "probe", "done"}
          /\ Len(scans[k].rows) <= PoolPageSize * PoolMaxPages
          /\ attempts[k].st \in {"idle", "ranking", "hydrate"}
          /\ Len(attempts[k].page) <= Limit
          /\ Waiting(k) # {} => attempts[k].st # "idle"
    /\ \A c \in Askers : askers[c].st \in {"idle", "waiting", "done", "failed"}

Served(c) == askers[c].st = "done" /\ askers[c].epoch # Undefined

\* Two pages that were served in the belief of the same epoch are pages of one
\* ranking, whatever registered, retired or expired between them: no row of the
\* later page outranks one of the earlier, and on Koios no pool is on both.
PagesAgree ==
    \A c, d \in Askers :
        (Served(c) /\ Served(d) /\ askers[c].epoch = askers[d].epoch
            /\ askers[c].offset + Limit <= askers[d].offset) =>
        \A a \in ToSet(askers[c].answer), b \in ToSet(askers[d].answer) :
            ~Before(b, a) /\ (driver = "koios" => a.id # b.id)

\* A page served in the belief of an epoch is ranked by no earlier snapshot,
\* also when it is the page that was held for a failed refresh.
RankedByItsEpoch ==
    \A c \in Askers : Served(c) =>
        \A a \in ToSet(askers[c].answer) : a.at >= askers[c].epoch

\* A Koios scan holds every pool that was registered throughout it, once,
\* whatever came and went behind and before its cursor: "a missed pool with
\* large stake would be absent from page one" (koios/pools.ts).
ListedWhole ==
    driver = "koios" => \A k \in Keys : scans[k].st = "done" =>
        \A p \in scans[k].throughout :
            Cardinality({i \in DOMAIN scans[k].rows : scans[k].rows[i].id = p}) = 1
=============================================================================
