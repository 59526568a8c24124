---------------------------- MODULE WalletHistory ----------------------------
(***************************************************************************)
(* What the two history reads share: a chain that grows, the transactions  *)
(* of a wallet on it, and a client that pages forward by passing the block *)
(* of the last transaction it has seen (src/providers/capabilities:        *)
(* "`afterBlock` pages forward").                                          *)
(*                                                                         *)
(* Transactions are numbered in the order of the chain: by block, and by   *)
(* their place in it.  A source is what upstream lists at once: an address *)
(* (Blockfrost) or a packed set of addresses (Koios).                      *)
(***************************************************************************)
EXTENDS Integers, Sequences, SequencesExt, FiniteSets

CONSTANTS
    Txs,              \* the wallet's transactions, 1..n
    Sources,          \* addresses, or packed sets of them
    HistoryPageSize,  \* HISTORY_PAGE_SIZE
    MaxBlock          \* bound: the height the chain reaches

VARIABLES
    quiet,   \* no block arrives while a read is under way
    block,   \* block[t]: the block t is, or will be, in
    touch,   \* touch[t]: the sources that list t
    tip,     \* the height of the chain
    cursor,  \* the block of the last transaction the client has seen
    seen,    \* the transactions the client was given
    phase,   \* of the read: "idle", "listing", "hydrating"
    page     \* the transactions the read has chosen, in order

chain == <<quiet, block, touch>>
client == <<cursor, seen>>

HistoryInit ==
    /\ quiet \in BOOLEAN
    /\ block \in {f \in [Txs -> 1..MaxBlock] : \A t, u \in Txs : t < u => f[t] <= f[u]}
    /\ touch \in [Txs -> SUBSET Sources \ {{}}]
    /\ tip = 0
    /\ cursor = 0
    /\ seen = {}
    /\ phase = "idle"
    /\ page = <<>>

InOrder(S) == SetToSortSeq(S, <)

\* What source s lists from block `from' on, oldest first.
Listed(s, from) == InOrder({t \in Txs : s \in touch[t] /\ from <= block[t] /\ block[t] <= tip})

\* Rows first..last of a list, as far as it has them.
Slice(list, first, last) ==
    [i \in 1..(IF Len(list) < first THEN 0
               ELSE (IF Len(list) < last THEN Len(list) ELSE last) - first + 1)
        |-> list[first + i - 1]]

\* Mutant of WindowEnd: a page is cut at its size.
WindowEndCut(rows) == IF Len(rows) < HistoryPageSize THEN Len(rows) ELSE HistoryPageSize

\* The end of the page in a sorted list: HISTORY_PAGE_SIZE rows, and the rest
\* of the block the last of them is in.
WindowEnd(rows) ==
    LET n == IF Len(rows) < HistoryPageSize THEN Len(rows) ELSE HistoryPageSize
    IN  Cardinality({i \in DOMAIN rows : i <= n \/ block[rows[i]] = block[rows[n]]})

Window(rows) == Slice(rows, 1, WindowEnd(rows))

\* A block arrives, with all of its transactions.
Grow ==
    /\ tip < MaxBlock
    /\ quiet => phase = "idle"
    /\ tip' = tip + 1
    /\ UNCHANGED <<chain, client, phase, page>>

\* Every transaction of the page was detailed; the client takes the page and
\* moves its cursor to the last one's block.
Hydrate ==
    /\ phase = "hydrating"
    /\ seen' = seen \cup ToSet(page)
    /\ cursor' = IF page = <<>> THEN cursor ELSE block[Last(page)]
    /\ phase' = "idle"
    /\ page' = <<>>
    /\ UNCHANGED <<chain, tip>>

-----------------------------------------------------------------------------
(* Properties.                                                              *)

\* Once the client's cursor is past a block, it has every transaction of that
\* block: "a missing transaction is a permanent hole: the caller pages forward
\* from the last block of this page" (koios/tx-info.ts).
NothingSkipped == \A t \in Txs : block[t] <= cursor => t \in seen

\* No transaction is delivered twice, by two pages or within one.
DeliveredOnce == IsInjective(page) /\ ToSet(page) \cap seen = {}

\* What a page is when nothing moves: of the transactions after the cursor,
\* the oldest HISTORY_PAGE_SIZE and whatever shares the last one's block.
OldestPage ==
    LET new == {t \in Txs : cursor < block[t] /\ block[t] <= tip}
        earlier(t) == {u \in new : block[u] < block[t]}
    IN  InOrder({t \in new : Cardinality(earlier(t)) < HistoryPageSize})

\* While no block arrives, the page is that one, in that order, however the
\* answers for the sources were interleaved.
PageIsOldest == (quiet /\ phase = "hydrating") => page = OldestPage
=============================================================================
