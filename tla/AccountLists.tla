---------------------------- MODULE AccountLists ----------------------------
(***************************************************************************)
(* The lists of an account that only grow: getRewardHistory of             *)
(* src/providers/koios/account.ts and src/providers/blockfrost/account.ts, *)
(* which a wallet calls again and again with the last epoch it has, and    *)
(* enumerateAccountAddresses of the latter, from which Blockfrost's        *)
(* history starts (BlockfrostHistory).  Blockfrost walks both by page      *)
(* number up to a bound; Koios answers the rewards in one response, in any *)
(* order.  An entry is its place in the list; amounts and kinds are data.  *)
(***************************************************************************)
EXTENDS Integers, Sequences, SequencesExt, FiniteSets, FiniteSetsExt

CONSTANTS
    EarnedEpoch,     \* EarnedEpoch[i]: the epoch of the i-th entry
    FirstEpochs,     \* bound: up to which epoch entries are listed at first
    EntryPageSize,   \* LIST_PAGE_SIZE
    EntryMaxPages,   \* REWARD_MAX_PAGES, ADDRESS_MAX_PAGES
    MaxReads         \* bound: calls of the wallet

VARIABLES
    driver,     \* config.provider
    list,       \* "rewards" or "addresses"
    paidEpoch,  \* the entries of epochs up to this one are listed
    account,    \* the state of the call
    delivered,  \* what the wallet was given, call by call
    reads       \* its calls

vars == <<driver, list, paidEpoch, account, delivered, reads>>

Entries == DOMAIN EarnedEpoch
LastPaid == Max({EarnedEpoch[i] : i \in Entries})

\* What upstream lists now: the entries of an epoch come together and the
\* oldest first (order=asc), so these are the first of all.
Listed == [n \in 1..Cardinality({i \in Entries : EarnedEpoch[i] <= paidEpoch}) |-> n]

\* No cursor is given.
NoEpoch == 0

\* rows: the entries read; before (ghost): those listed when the call began.
Reading(st, after) ==
    [st |-> st, after |-> after, page |-> 1, rows |-> <<>>, before |-> ToSet(Listed)]

Init ==
    /\ driver \in {"koios", "blockfrost"}
    /\ list \in {"rewards", "addresses"} /\ (driver = "koios" => list = "rewards")
    /\ paidEpoch \in FirstEpochs
    /\ account = Reading("idle", NoEpoch)
    /\ delivered = <<>> /\ reads = 0

Running == account.st \in {"reading", "probe"}

\* Rewards are paid for one more epoch, or addresses used (external).
Pays ==
    /\ Running /\ paidEpoch < LastPaid
    /\ paidEpoch' = paidEpoch + 1
    /\ UNCHANGED <<driver, list, account, delivered, reads>>

-----------------------------------------------------------------------------
(* The call.                                                                *)

\* The wallet asks for what follows the last epoch it has; the addresses are
\* enumerated anew for every page of a history.
Asks ==
    /\ ~Running /\ reads < MaxReads
    /\ reads' = reads + 1
    /\ account' = Reading("reading", IF list = "rewards" /\ delivered # <<>>
                                     THEN EarnedEpoch[Last(delivered)] ELSE NoEpoch)
    /\ delivered' = IF list = "rewards" THEN delivered ELSE <<>>
    /\ UNCHANGED <<driver, list, paidEpoch>>

\* Mutant of Wanted: the epoch a reward can be spent in is compared.
WantedSpendable(i) == EarnedEpoch[i] + 2 > account.after

\* A reward is wanted if it was earned after the cursor.
Wanted(i) == account.after = NoEpoch \/ EarnedEpoch[i] > account.after

\* Oldest first; of one epoch, as they came.
Earlier(rows, i, j) ==
    LET left == EarnedEpoch[rows[i]] right == EarnedEpoch[rows[j]]
    IN  left < right \/ (left = right /\ i < j)

\* The answer: of rewards those that are wanted, in order, each at its place.
Answer(rows) ==
    LET wanted == {i \in DOMAIN rows : Wanted(rows[i])}
        Place(i) == Cardinality({j \in wanted : j = i \/ Earlier(rows, j, i)})
        order == [n \in 1..Cardinality(wanted) |-> CHOOSE i \in wanted : Place(i) = n]
    IN  IF list = "addresses" THEN rows ELSE [n \in DOMAIN order |-> rows[order[n]]]

Ends(rows) ==
    /\ account' = [account EXCEPT !.st = "done", !.rows = rows]
    /\ delivered' = delivered \o Answer(rows)
    /\ UNCHANGED <<driver, list, paidEpoch, reads>>

Goes(c) == account' = c /\ UNCHANGED <<driver, list, paidEpoch, delivered, reads>>

\* Koios: every entry in one response.
AllRead ==
    /\ driver = "koios" /\ account.st = "reading"
    /\ \E rows \in SetToSeqs(ToSet(Listed)) : Ends(rows)

\* The entries of one page.
Page(page) ==
    SubSeq(Listed, (page - 1) * EntryPageSize + 1,
           Min({page * EntryPageSize, Len(Listed)}))

\* Mutant of PastBound: the bound is the end.
PastBoundDone(rows) == Ends(rows)

\* After the last page the bound allows, one more row is asked for.
PastBound(rows) == Goes([account EXCEPT !.st = "probe", !.rows = rows])

\* An account that was never seen answers 404, which is no entry.
PageRead ==
    LET rows == account.rows \o Page(account.page) IN
    /\ driver = "blockfrost" /\ account.st = "reading"
    /\ \/ Listed = <<>> /\ Ends(<<>>)
       \/ /\ Len(Page(account.page)) < EntryPageSize
          /\ Ends(rows)
       \/ /\ Len(Page(account.page)) = EntryPageSize /\ account.page < EntryMaxPages
          /\ Goes([account EXCEPT !.rows = rows, !.page = @ + 1])
       \/ /\ Len(Page(account.page)) = EntryPageSize /\ account.page = EntryMaxPages
          /\ PastBound(rows)

\* A list that goes on past the bound is an error.
Probed ==
    /\ account.st = "probe"
    /\ \/ Page(EntryMaxPages + 1) = <<>> /\ Ends(account.rows)
       \/ Page(EntryMaxPages + 1) # <<>> /\ Goes([account EXCEPT !.st = "failed"])

ReadFails == Running /\ Goes([account EXCEPT !.st = "failed"])

CallSteps == AllRead \/ PageRead \/ Probed \/ ReadFails

Next == Pays \/ Asks \/ CallSteps

Spec == Init /\ [][Next]_vars

-----------------------------------------------------------------------------
(* Properties.                                                              *)

\* The shape of the state.
TypeOK ==
    /\ list \in {"rewards", "addresses"} /\ paidEpoch \in 0..LastPaid
    /\ account.st \in {"idle", "reading", "probe", "done", "failed"}
    /\ account.page \in 1..EntryMaxPages /\ reads \in 0..MaxReads
    /\ ToSet(delivered) \subseteq Entries

\* When a call ends in an answer, the wallet has every entry that was listed
\* when the call began: a list longer than the bound is an error, never a part
\* of it, and paging by epoch leaves no reward behind.
NothingLeftBehind == account.st = "done" => account.before \subseteq ToSet(delivered)

\* Over all its calls the wallet is given each reward once and in the order of
\* the epochs they were earned for, and each address once.
EntriesOnce ==
    /\ IsInjective(delivered)
    /\ \A i, j \in DOMAIN delivered :
          i < j => EarnedEpoch[delivered[i]] <= EarnedEpoch[delivered[j]]
=============================================================================
