-------------------------- MODULE BlockfrostHistory --------------------------
(***************************************************************************)
(* addressSetTxHistory of src/providers/blockfrost/tx-info.ts: Blockfrost  *)
(* lists transactions per address, so one page of every address is read,   *)
(* and further pages of those that may still hold part of the oldest page. *)
(***************************************************************************)
EXTENDS WalletHistory

CONSTANTS
    ListPageSize,  \* LIST_PAGE_SIZE
    ListMaxPages   \* LIST_MAX_PAGES

VARIABLES
    cur,  \* cur[s]: the AddressCursor of address s
    due   \* the addresses the running mapWithConcurrency has yet to advance

vars == <<quiet, block, touch, tip, cursor, seen, phase, page, cur, due>>

NewCursors == [s \in Sources |-> [page |-> 0, rows |-> <<>>, full |-> FALSE, done |-> FALSE]]

Init ==
    /\ HistoryInit
    /\ cur = NewCursors
    /\ due = {}

\* The client asks for the transactions after its cursor.
GetTxHistory ==
    /\ phase = "idle"
    /\ phase' = "listing"
    /\ cur' = NewCursors
    /\ due' = Sources
    /\ UNCHANGED <<chain, client, tip, page>>

\* The exclusive cut: `from' is inclusive.
Kept(rows) == SelectSeq(rows, LAMBDA t : block[t] > cursor)

\* advanceCursor: the next page of address s is answered.  A 404 is an address
\* with nothing to list.
AdvanceCursor(s) ==
    /\ s \in due
    /\ due' = due \ {s}
    /\ LET k == cur[s].page + 1
           rows == Slice(Listed(s, cursor), (k - 1) * ListPageSize + 1, k * ListPageSize)
           full == Len(rows) = ListPageSize
       IN  cur' = [cur EXCEPT ![s] = [page |-> k, rows |-> @.rows \o Kept(rows), full |-> full,
                                      done |-> ~full \/ k >= ListMaxPages]]
    /\ UNCHANGED <<chain, client, tip, phase, page>>

\* The client's retries are spent: the read fails, the caller asks again.
ReadFails ==
    /\ phase # "idle"
    /\ phase' = "idle"
    /\ page' = <<>>
    /\ due' = {}
    /\ cur' = NewCursors
    /\ UNCHANGED <<chain, client, tip>>

\* mergePage: the rows of all addresses, each transaction once, in order.
Merged == InOrder(UNION {ToSet(cur[s].rows) : s \in Sources})

MergePage == Window(Merged)

\* Mutant of Needs: an address that ends in the boundary block is settled.
NeedsStrict(s) ==
    /\ ~cur[s].done /\ cur[s].full
    /\ (MergePage # <<>> /\ cur[s].rows # <<>>) =>
           block[Last(cur[s].rows)] < block[Last(MergePage)]

\* An address that may hold more of the oldest page.
Needs(s) ==
    /\ ~cur[s].done /\ cur[s].full
    /\ (MergePage # <<>> /\ cur[s].rows # <<>>) =>
           block[Last(cur[s].rows)] <= block[Last(MergePage)]

\* A round is over: another one for the addresses that need it, or the page.
RoundEnds ==
    /\ phase = "listing" /\ due = {}
    /\ \/ /\ \E s \in Sources : Needs(s)
          /\ due' = {s \in Sources : Needs(s)}
          /\ UNCHANGED <<phase, page, cur>>
       \/ /\ ~\E s \in Sources : Needs(s)
          /\ page' = MergePage
          /\ phase' = "hydrating"
          /\ cur' = NewCursors
          /\ UNCHANGED due
    /\ UNCHANGED <<chain, client, tip>>

ReadSteps ==
    \/ \E s \in Sources : AdvanceCursor(s)
    \/ RoundEnds
    \/ ReadFails
    \/ Hydrate /\ UNCHANGED <<cur, due>>

Next ==
    \/ GetTxHistory
    \/ ReadSteps
    \/ Grow /\ UNCHANGED <<cur, due>>

Spec == Init /\ [][Next]_vars
=============================================================================
