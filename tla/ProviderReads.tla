---------------------------- MODULE ProviderReads ----------------------------
(***************************************************************************)
(* What a provider reads for a wallet, whichever driver the configuration  *)
(* names (createProvider of src/providers/factory.ts): its unspent outputs *)
(* (KoiosPaging or BlockfrostUtxos), the outputs and transactions it names *)
(* (TxLookups), its rewards and addresses (AccountLists), the history of   *)
(* its transactions (BlockfrostHistory or KoiosHistory), and on Koios the  *)
(* lookups that are packed into bodies (KoiosPacking).                     *)
(* These reads share nothing but the client, which FanOut models; a        *)
(* behaviour runs one of them.  The properties are the contract of the     *)
(* port that every one of them has to keep.                                *)
(***************************************************************************)
EXTENDS Integers, Sequences, SequencesExt, FiniteSets

CONSTANTS
    Rows,              \* the outputs a Koios instance lists, in its order
    Outs,              \* the outputs Blockfrost lists
    Sources,           \* the account, or the addresses
    PageSize,          \* KOIOS_PAGE_SIZE, UTXO_PAGE_SIZE
    MaxPagedRows,      \* KOIOS_MAX_PAGED_ROWS
    ReadAttempts,      \* config.readAttempts
    MaxPages,          \* UTXO_MAX_PAGES
    ConsistencyScans,  \* UTXO_CONSISTENCY_SCANS
    LookupAttempts,    \* BLOCK_LOOKUP_ATTEMPTS
    RollbackAttempts,  \* UTXO_ROLLBACK_SCAN_ATTEMPTS
    MaxBlock,          \* bound: blocks made
    \* TxLookups
    Txs, Collateral, ListPageSize, ListMaxPages, MaxMoves,
    \* AccountLists
    EarnedEpoch, FirstEpochs, EntryPageSize, EntryMaxPages, MaxReads,
    \* BlockfrostHistory, KoiosHistory: the wallet's transactions, 1..n, its
    \* addresses (or packed sets of them), HISTORY_PAGE_SIZE, the height the
    \* chain reaches (a bound), LIST_PAGE_SIZE, LIST_MAX_PAGES,
    \* HISTORY_MAX_LIST_ROWS, and how many transactions one body lists twice (a
    \* bound)
    WalletTxs, Addresses, HistoryPageSize, HistoryBlocks, HistoryListSize,
    HistoryListPages, MaxListRows, MaxTwice,
    \* KoiosPacking
    Runs, ItemSeqs, Samples, Envelope, Margin, InitialLimit, Caps

ASSUME ReadsAssumption ==
    /\ Rows \subseteq Nat \ {0} /\ IsFiniteSet(Rows)
    /\ PageSize \in Nat \ {0} /\ MaxPagedRows \in Nat /\ PageSize <= MaxPagedRows
    /\ ReadAttempts \in Nat \ {0}
    /\ MaxPages \in Nat \ {0}
    /\ ConsistencyScans \in Nat \ {0} /\ LookupAttempts \in Nat \ {0}
    /\ RollbackAttempts \in Nat \ {0} /\ MaxBlock \in Nat
    /\ IsFiniteSet(Txs) /\ Collateral \subseteq Txs
    /\ ListPageSize \in Nat \ {0} /\ ListMaxPages \in Nat \ {0} /\ MaxMoves \in Nat
    /\ EarnedEpoch \in Seq(Nat \ {0})
    /\ \A i, j \in DOMAIN EarnedEpoch : i < j => EarnedEpoch[i] <= EarnedEpoch[j]
    /\ FirstEpochs \subseteq Nat
    /\ EntryPageSize \in Nat \ {0} /\ EntryMaxPages \in Nat \ {0} /\ MaxReads \in Nat
    /\ Envelope \in Nat /\ InitialLimit \in Nat /\ Margin \in Nat \ {0}
    /\ Caps \subseteq Nat \ {0}

ASSUME HistoryAssumption ==
    /\ WalletTxs = 1..Cardinality(WalletTxs)
    /\ HistoryPageSize \in Nat \ {0} /\ HistoryBlocks \in Nat \ {0}
    /\ HistoryListSize \in Nat /\ HistoryListSize > HistoryPageSize
    /\ MaxTwice \in Nat /\ HistoryListPages \in Nat \ {0} /\ MaxListRows \in Nat \ {0}

ASSUME PackingAssumption ==
    /\ ItemSeqs \cup Samples \subseteq Seq(Nat)
    /\ \E longest \in ItemSeqs : \A items \in ItemSeqs : Len(items) <= Len(longest)

VARIABLES
    driver,  \* config.provider
    what,    \* the read: "utxos", "txs", "account", "history" or "batch"
    \* KoiosPaging
    mode, table, ever, walk, first, koiosRead, koiosStable, touched,
    \* BlockfrostUtxos
    owner, live, spent, made, gone, blockfrostRead, scan, tried, resolved,
    blockfrostStable, moments,
    \* TxLookups
    mempool, listed, consumed, moves, call, ref, was,
    \* AccountLists
    list, paidEpoch, account, delivered, reads,
    \* WalletHistory, BlockfrostHistory, KoiosHistory
    quiet, block, touch, tip, cursor, seen, phase, page,
    cur, due,
    twice, stream, distinct, boundary,
    \* KoiosPacking
    bodyLimit, runs, requests

pagingVars == <<mode, table, ever, walk, first, koiosRead, koiosStable, touched>>

utxosVars == <<owner, live, spent, made, gone, blockfrostRead, scan, tried,
               resolved, blockfrostStable, moments>>

txsVars == <<mempool, listed, consumed, moves, call, ref, was>>

accountVars == <<list, paidEpoch, account, delivered, reads>>

cursorVars == <<cur, due>>

streamVars == <<twice, stream, distinct, boundary>>

historyVars == <<quiet, block, touch, tip, cursor, seen, phase, page,
                 cursorVars, streamVars>>

batchVars == <<bodyLimit, runs, requests>>

vars == <<driver, what, pagingVars, utxosVars, txsVars, accountVars, historyVars,
          batchVars>>

K == INSTANCE KoiosPaging WITH read <- koiosRead, stable <- koiosStable

B == INSTANCE BlockfrostUtxos WITH read <- blockfrostRead, stable <- blockfrostStable

T == INSTANCE TxLookups

A == INSTANCE AccountLists

BH == INSTANCE BlockfrostHistory WITH
         Txs <- WalletTxs, Sources <- Addresses, MaxBlock <- HistoryBlocks,
         ListPageSize <- HistoryListSize, ListMaxPages <- HistoryListPages

KH == INSTANCE KoiosHistory WITH
         Txs <- WalletTxs, Sources <- Addresses, MaxBlock <- HistoryBlocks

P == INSTANCE KoiosPacking

\* Upstream lists the whole wallet at once: it has one address, or its
\* addresses fit in one request body.
OneSource == \E s \in Addresses : \A t \in WalletTxs : touch[t] = {s}

\* The behaviours in which blocks arrive between the pages of a history read
\* only where one source lists the whole wallet.  The sources are
\* interchangeable: the first transaction is listed by the one named first.
HistoryInit ==
    /\ BH!Init /\ KH!Init
    /\ driver = "blockfrost" => twice = {}
    /\ quiet \/ OneSource
    /\ (CHOOSE s \in Addresses : TRUE) \in touch[1]

\* No history was asked for yet.
Unread ==
    /\ tip = 0 /\ cursor = 0 /\ seen = {} /\ phase = "idle" /\ page = <<>>
    /\ cur = BH!NewCursors /\ due = {}
    /\ stream = KH!NewStreams /\ distinct = <<>> /\ boundary = 0

\* A read that is not asked for is not there: its variables keep one value.
NoPaging == mode = "once" /\ table = {}
NoUtxos == owner = [x \in Outs |-> CHOOSE s \in Sources : TRUE]
NoTxs == mempool = {} /\ listed = <<>> /\ consumed = {} /\ call = T!NoCall
NoAccount == list = "rewards" /\ paidEpoch = CHOOSE e \in FirstEpochs : TRUE
NoHistory ==
    /\ quiet = TRUE /\ block = [t \in WalletTxs |-> 1] /\ touch = [t \in WalletTxs |-> Addresses]
    /\ twice = {} /\ Unread

Init ==
    /\ driver \in {"koios", "blockfrost"}
    /\ what \in {"utxos", "txs", "account", "history", "batch"} /\ (what = "batch" => driver = "koios")
    /\ K!Init /\ (NoPaging \/ <<what, driver>> = <<"utxos", "koios">>)
    /\ B!Init /\ (NoUtxos \/ <<what, driver>> = <<"utxos", "blockfrost">>)
    /\ T!Init /\ IF what = "txs" THEN call # T!NoCall ELSE NoTxs
    /\ A!Init /\ (NoAccount \/ what = "account")
    /\ IF what = "history" THEN HistoryInit ELSE NoHistory
    /\ P!Init

Paging(Step) ==
    /\ what = "utxos" /\ driver = "koios" /\ Step
    /\ UNCHANGED <<driver, what, utxosVars, txsVars, accountVars, historyVars, batchVars>>

Utxos(Step) ==
    /\ what = "utxos" /\ driver = "blockfrost" /\ Step
    /\ UNCHANGED <<driver, what, pagingVars, txsVars, accountVars, historyVars, batchVars>>

Lookup(Step) ==
    /\ what = "txs" /\ Step
    /\ UNCHANGED <<what, pagingVars, utxosVars, accountVars, historyVars, batchVars>>

Account(Step) ==
    /\ what = "account" /\ Step
    /\ UNCHANGED <<what, pagingVars, utxosVars, txsVars, historyVars, batchVars>>

History(Step) ==
    /\ what = "history" /\ Step
    /\ UNCHANGED <<driver, what, pagingVars, utxosVars, txsVars, accountVars, batchVars>>

Batch(Step) ==
    /\ what = "batch" /\ Step
    /\ UNCHANGED <<driver, what, pagingVars, utxosVars, txsVars, accountVars, historyVars>>

Next ==
    Paging(K!Next) \/ Utxos(B!Next) \/ Lookup(T!Next) \/ Account(A!Next)
    \/ History(driver = "blockfrost" /\ BH!Next /\ UNCHANGED streamVars)
    \/ History(driver = "koios" /\ KH!Next /\ UNCHANGED cursorVars)
    \/ Batch(P!Next)

Spec == Init /\ [][Next]_vars

\* Every request settles, as its timeout and its bounded retries make it; the
\* delay of a retry ends; continuations run.
Fairness ==
    /\ WF_vars(Paging(K!Begin)) /\ WF_vars(Paging(K!Settles))
    /\ WF_vars(Utxos(B!Begin)) /\ WF_vars(Utxos(B!Settled)) /\ WF_vars(Utxos(B!Resolve))
    /\ \A s \in Sources : WF_vars(Utxos(B!Steps(s)))
    /\ \A b \in 1..MaxBlock : WF_vars(Utxos(B!Looks(b)))
    /\ WF_vars(Lookup(T!CallSteps)) /\ WF_vars(Account(A!CallSteps))
    /\ \A s \in P!Slots : WF_vars(Batch(P!Settles(s))) /\ WF_vars(Batch(P!Resend(s)))

FairSpec == Spec /\ Fairness

-----------------------------------------------------------------------------
(* The contract.                                                            *)

\* The client's cursor never passes a transaction it was not given, when the
\* wallet has one source or no block arrives during a read.
NothingSkippedInCalm == (quiet \/ OneSource) => BH!NothingSkipped

\* The shape of either driver's state, and its budgets of pages, walks,
\* lookups and attempts.
TypeOK ==
    /\ driver \in {"koios", "blockfrost"} /\ what \in {"utxos", "txs", "account", "history", "batch"}
    /\ K!TypeOK /\ B!TypeOK /\ T!TypeOK /\ A!TypeOK /\ P!TypeOK

\* A read that resolves returns every output that was unspent and on the chain
\* throughout it, whatever was created, spent or rolled back meanwhile: "a set
\* quietly missing an output is a wrong balance" (blockfrost/blocks.ts); and a
\* wallet that pages through its rewards, or enumerates its addresses, has all
\* that were listed when its last call began.  A client that pages forward
\* through the history of its wallet never passes a transaction it was not
\* given (no block arriving during a read, or one source listing it all).
NothingMissing ==
    /\ K!StableRowsReturned /\ B!NothingMissing /\ A!NothingLeftBehind
    /\ what = "history" => NothingSkippedInCalm

\* No output is returned twice, none that was not there during the read, and
\* from Koios never more of them than the bound; on Blockfrost the outputs of a
\* source are those of one moment of the read, unless one of them came back in
\* another block.  Rewards and addresses come once, rewards in the order of
\* their epochs, over all the calls of a wallet.  No transaction comes twice, and
\* while no block arrives a page is the oldest one after the cursor, with all of
\* its last block.
NothingInvented ==
    /\ K!EachRowOnce /\ K!ResultBounded /\ B!SnapshotOfSource /\ A!EntriesOnce
    /\ what = "history" => BH!DeliveredOnce /\ BH!PageIsOldest

\* An output that is returned by reference as unspent was unspent at some
\* moment of the call: "answering unspent for an output that has actually gone
\* is the one that does damage" (blockfrost/tx-info.ts); and a status names a
\* place the transaction was in while it was asked for, though the chain and
\* the mempool are read one after the other.
LookupsWereTrue == T!UnspentWasUnspent /\ T!StatusWasTrue

\* packBySize keeps the order and every item, its bodies fit, and no other way
\* to cut the list has fewer of them (looked at once, before anything is sent);
\* so a body is refused for its size only by an instance whose cap is tighter
\* than the limit it was packed to.  A packed lookup that resolves had every
\* body of its last packing answered, and those hold every item once.
BodiesAreExact ==
    /\ P!ResolvedIsWhole /\ P!RefusedOnlyByTighterCap
    /\ what = "batch" => P!PacksTightly

Ended ==
    /\ what = "utxos" /\ driver = "koios" => koiosRead.st \in {"done", "failed"}
    /\ what = "utxos" /\ driver = "blockfrost" => blockfrostRead.st \in {"done", "failed"}
    /\ what = "txs" => ~T!Running
    /\ what = "account" => ~A!Running
    /\ what = "batch" => \A r \in Runs : runs[r].st # "running"

Busy ==
    \/ koiosRead.st = "walking" \/ blockfrostRead.st = "scanning"
    \/ T!Running \/ A!Running \/ \E r \in Runs : runs[r].st = "running"

\* Every read ends: the nested loops over attempts, walks, pages, lookups and
\* packings have an end, whatever the chain does.
EveryReadEnds == Busy ~> Ended

-----------------------------------------------------------------------------
(* Values for a small instance.                                             *)

\* Two entries of one epoch on two pages, and one that is past the bound.
EpochDef == <<1, 2, 2, 3, 4>>

\* Lists that make one body at first and two after a repack, two with or
\* one without the comma, one that cannot be packed after a repack, and none.
RaceLists == {<<>>, <<2, 1>>, <<3, 2>>, <<4>>}

\* Lists of up to four items of one to three units: one body, several bodies,
\* and items that fit exactly or not at all.
AllLists == SeqOf(1..3, 4)
=============================================================================
