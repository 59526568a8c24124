---------------------------- MODULE KoiosHistory ----------------------------
(***************************************************************************)
(* getTxHistoryByAddresses of src/providers/koios/addresses.ts: one        *)
(* ordered, incrementally paged stream per packed request body, merged     *)
(* oldest head first until the page and its boundary block are known.      *)
(*                                                                         *)
(* A transaction that touches two addresses of one body is listed twice by *)
(* that stream.  Packing and its 413 are KoiosPacking; the retry of the    *)
(* whole merge shows here as a read that fails and is asked for again.     *)
(***************************************************************************)
EXTENDS WalletHistory

CONSTANTS
    MaxListRows,  \* HISTORY_MAX_LIST_ROWS
    MaxTwice      \* bound: transactions that one body lists twice

VARIABLES
    twice,    \* the transactions that touch two addresses of one body
    stream,   \* stream[s]: the AddressHistoryStream of body s
    distinct, \* the Map's values in the order of insertion
    boundary  \* boundaryBlock, 0 for undefined

vars == <<quiet, block, touch, tip, cursor, seen, phase, page, twice, stream, distinct, boundary>>

\* rows holds the page at hand and index the number of its rows consumed.
NewStreams == [s \in Sources |-> [rows |-> <<>>, index |-> 0, offset |-> 0, done |-> FALSE]]

Init ==
    /\ HistoryInit
    /\ twice \in {S \in SUBSET Txs : Cardinality(S) <= MaxTwice}
    /\ stream = NewStreams
    /\ distinct = <<>>
    /\ boundary = 0

merge == <<stream, distinct, boundary>>

\* The rows of body s after the cursor (external): _after_block_height.
RowsOf(s) ==
    FlattenSeq([i \in DOMAIN Listed(s, cursor + 1) |->
        LET t == Listed(s, cursor + 1)[i] IN IF t \in twice THEN <<t, t>> ELSE <<t>>])

GetTxHistory ==
    /\ phase = "idle"
    /\ phase' = "listing"
    /\ stream' = NewStreams /\ distinct' = <<>> /\ boundary' = 0
    /\ UNCHANGED <<chain, client, tip, page, twice>>

\* fillAddressHistoryStream has to ask.
Dry(s) == ~stream[s].done /\ stream[s].index = Len(stream[s].rows)

\* Past the bound one more row is asked for, to tell its end from more.
Limit(s) == IF stream[s].offset >= MaxListRows THEN 1 ELSE HistoryPageSize

Answer(s) == Slice(RowsOf(s), stream[s].offset + 1, stream[s].offset + Limit(s))

\* Content-Range says that the list ends with this answer: its total is
\* reached, or there is nothing from the offset on.
Exhausted(s) == stream[s].offset + Len(Answer(s)) = Len(RowsOf(s))

TooLong(s) == Answer(s) # <<>> /\ stream[s].offset + Len(Answer(s)) > MaxListRows

\* A dry stream's next page is answered.
Fill(s) ==
    /\ phase = "listing" /\ Dry(s) /\ ~TooLong(s)
    /\ stream' = [stream EXCEPT ![s] =
                    [rows |-> Answer(s), index |-> 0, offset |-> @.offset + Len(Answer(s)),
                     done |-> Exhausted(s)]]
    /\ UNCHANGED <<chain, client, tip, phase, page, twice, distinct, boundary>>

\* The read fails: the list is longer than the bound, or upstream keeps
\* failing.  The caller asks again.
ReadFails ==
    /\ phase # "idle"
    /\ phase' = "idle"
    /\ page' = <<>>
    /\ stream' = NewStreams /\ distinct' = <<>> /\ boundary' = 0
    /\ UNCHANGED <<chain, client, tip, twice>>

Head1(s) == stream[s].rows[stream[s].index + 1]

Ready == {s \in Sources : stream[s].index < Len(stream[s].rows)}

\* The stream whose head is the oldest.
Oldest == CHOOSE s \in Ready : \A r \in Ready : Head1(s) <= Head1(r)

\* The page is complete and the next row is of a later block.
PastBoundary == boundary # 0 /\ block[Head1(Oldest)] > boundary

\* Mutant of NewRow: a row is taken each time it is listed.
NewRowAlways(t) == TRUE

NewRow(t) == t \notin ToSet(distinct)

\* One turn of the merge: every stream has a head or is at its end.
MergeStep ==
    /\ phase = "listing" /\ ~\E s \in Sources : Dry(s)
    /\ Ready # {} /\ ~PastBoundary
    /\ LET t == Head1(Oldest) IN
        /\ stream' = [stream EXCEPT ![Oldest].index = @ + 1]
        /\ distinct' = IF NewRow(t) THEN Append(distinct, t) ELSE distinct
        /\ boundary' = IF NewRow(t) /\ Len(distinct) + 1 = HistoryPageSize
                       THEN block[t] ELSE boundary
    /\ UNCHANGED <<chain, client, tip, phase, page, twice>>

\* The merge is over; the page is sorted and cut once more.
MergeEnds ==
    /\ phase = "listing" /\ ~\E s \in Sources : Dry(s)
    /\ Ready # {} => PastBoundary
    /\ page' = Window(distinct)
    /\ phase' = "hydrating"
    /\ stream' = NewStreams /\ distinct' = <<>> /\ boundary' = 0
    /\ UNCHANGED <<chain, client, tip, twice>>

ReadSteps ==
    \/ \E s \in Sources : Fill(s)
    \/ MergeStep
    \/ MergeEnds
    \/ ReadFails
    \/ Hydrate /\ UNCHANGED <<merge, twice>>

Next ==
    \/ GetTxHistory
    \/ ReadSteps
    \/ Grow /\ UNCHANGED <<merge, twice>>

Spec == Init /\ [][Next]_vars
=============================================================================
