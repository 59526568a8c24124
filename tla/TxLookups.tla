------------------------------ MODULE TxLookups ------------------------------
(***************************************************************************)
(* Questions about named transactions: getUtxosByRef and getTxStatus of    *)
(* src/providers/koios/tx.ts and src/providers/blockfrost/tx.ts.  Koios    *)
(* answers each from one row; Blockfrost puts an answer together from      *)
(* several reads, between which the chain and the mempool move: the        *)
(* outputs of the transaction, for a collateral output a walk over its     *)
(* address, newest first, and then the block.                              *)
(*                                                                         *)
(* A transaction has one output, to one address (external); a reference    *)
(* and a transaction are the same thing here, and references that share a  *)
(* transaction are one.  References that do not parse are absent at once   *)
(* and are left out.                                                       *)
(***************************************************************************)
EXTENDS Integers, Sequences, SequencesExt, FiniteSets

CONSTANTS
    Txs,           \* transactions
    Collateral,    \* those whose output is a collateral return
    ListPageSize,  \* LIST_PAGE_SIZE
    ListMaxPages,  \* LIST_MAX_PAGES
    MaxMoves       \* bound: what happens upstream during the call

VARIABLES
    driver,   \* config.provider
    mempool,  \* transactions waiting for a block
    listed,   \* unspent outputs of the address, oldest first
    consumed, \* outputs that were spent
    call,     \* the call: what it asks, its stage and, for a status, its answer; or NoCall
    moves,    \* what has happened upstream during the call
    ref,      \* ref[x]: what is known of the output of x
    was       \* ghost: was[x]: where x, if asked for, has been during the call

upstream == <<mempool, listed, consumed, moves>>
vars == <<driver, upstream, call, ref, was>>

OnChain == ToSet(listed) \cup consumed

\* st: "fetch" its transaction, "walk" its address, "known", or "absent".
NewRef == [st |-> "fetch", spent |-> FALSE, page |-> 1, height |-> FALSE]

NoCall == [what |-> "none", asked |-> {}, st |-> "idle", answer |-> "none"]

Init ==
    /\ driver \in {"koios", "blockfrost"}
    /\ mempool \in SUBSET Txs
    /\ moves = 0
    /\ consumed \in SUBSET (Txs \ mempool)
    /\ listed \in {SetToSeq(S) : S \in SUBSET (Txs \ (mempool \cup consumed))}
    /\ \/ call = NoCall
       \/ \E asked \in SUBSET Txs \ {{}} :
             call = [what |-> "refs", asked |-> asked, st |-> "idle", answer |-> "none"]
       \/ \E x \in Txs :
             call = [what |-> "status", asked |-> {x}, st |-> "idle", answer |-> "none"]
    /\ ref = [x \in Txs |-> NewRef]
    /\ was = [x \in Txs |-> {}]

-----------------------------------------------------------------------------
(* Upstream (external).  What happens outside the call is of no interest.   *)

Running == call.st \notin {"idle", "done", "failed"}

Places == {"nowhere", "mempool", "unspent", "spent"}

Where(x) ==
    CHOOSE p \in Places :
        /\ p = "mempool" <=> x \in mempool
        /\ p = "unspent" <=> x \in ToSet(listed)
        /\ p = "spent" <=> x \in consumed

Moves ==
    /\ Running /\ moves < MaxMoves
    /\ moves' = moves + 1
    /\ was' = [x \in Txs |-> IF x \in call.asked THEN was[x] \cup {Where(x)'} ELSE {}]
    /\ UNCHANGED <<driver, call, ref>>

Broadcast(x) ==
    /\ Where(x) = "nowhere"
    /\ mempool' = mempool \cup {x} /\ UNCHANGED <<listed, consumed>>
    /\ Moves

Confirm(x) ==
    /\ x \in mempool
    /\ mempool' = mempool \ {x} /\ listed' = Append(listed, x)
    /\ UNCHANGED consumed
    /\ Moves

Dropped(x) ==
    /\ x \in mempool
    /\ mempool' = mempool \ {x} /\ UNCHANGED <<listed, consumed>>
    /\ Moves

Spend(x) ==
    /\ \E i \in DOMAIN listed : listed[i] = x /\ listed' = RemoveAt(listed, i)
    /\ consumed' = consumed \cup {x} /\ UNCHANGED mempool
    /\ Moves

\* The newest block is rolled back; its transaction waits again.
Rollback ==
    /\ listed # <<>>
    /\ listed' = Front(listed)
    /\ mempool' = mempool \cup {Last(listed)} /\ UNCHANGED consumed
    /\ Moves

-----------------------------------------------------------------------------
(* The call.                                                                *)

Call(st) ==
    /\ call' = [call EXCEPT !.st = st]
    /\ UNCHANGED <<driver, upstream, ref, was>>

Begin ==
    /\ call.st = "idle" /\ call # NoCall
    /\ call' = [call EXCEPT !.st = IF call.what = "refs" THEN "outputs" ELSE "tx"]
    /\ was' = [x \in Txs |-> IF x \in call.asked THEN {Where(x)} ELSE {}]
    /\ UNCHANGED <<driver, upstream, ref>>

\* A request fails after the client's retries, or its answer is about another
\* transaction.  For the mempool a failure means that nothing is known.
RequestFails ==
    /\ Running
    /\ Call("failed")

Ref(x, r) ==
    /\ ref' = [ref EXCEPT ![x] = r]
    /\ UNCHANGED <<driver, upstream, call, was>>

\* consumed_by_tx is never set on a collateral output.
Conclusive(x) == driver = "koios" \/ x \notin Collateral

\* utxo_info row of x; /txs/{hash}/utxos.
OutputsRead(x) ==
    /\ call.st = "outputs" /\ x \in call.asked /\ ref[x].st = "fetch"
    /\ Ref(x, IF x \notin OnChain THEN [ref[x] EXCEPT !.st = "absent"]
              ELSE IF Conclusive(x)
              THEN [ref[x] EXCEPT !.st = "known", !.spent = x \in consumed]
              ELSE [ref[x] EXCEPT !.st = "walk"])

AllPast(st) == \A x \in call.asked : ref[x].st # st

OutputsDone ==
    /\ call.st = "outputs" /\ AllPast("fetch")
    /\ Call(IF driver = "koios" THEN "done" ELSE "states")

\* Page k of the address, newest first.
PageDesc(k) ==
    LET all == Reverse(listed)
    IN  SubSeq(all, (k - 1) * ListPageSize + 1, Min({k * ListPageSize, Len(all)}))

Held(x, page) == x \in ToSet(page)

\* Mutant of Inconclusive: what was not found in the pages read is unspent.
InconclusiveUnspent(r) == [r EXCEPT !.st = "known", !.spent = FALSE]

\* The bound is reached: nothing is said about the output.
Inconclusive(r) == [r EXCEPT !.st = "absent"]

\* resolveCollateralSpent: one page of the address.  An address that upstream
\* has never seen is a 404.
WalkStep(x) ==
    LET page == PageDesc(ref[x].page) IN
    /\ call.st = "states" /\ x \in call.asked /\ ref[x].st = "walk"
    /\ Ref(x, IF OnChain = {} THEN [ref[x] EXCEPT !.st = "known", !.spent = TRUE]
              ELSE IF Held(x, page) THEN [ref[x] EXCEPT !.st = "known", !.spent = FALSE]
              ELSE IF Len(page) < ListPageSize
              THEN [ref[x] EXCEPT !.st = "known", !.spent = TRUE]
              ELSE IF ref[x].page = ListMaxPages THEN Inconclusive(ref[x])
              ELSE [ref[x] EXCEPT !.page = @ + 1])

StatesDone ==
    /\ call.st = "states" /\ AllPast("walk")
    /\ Call("heights")

\* resolveTxBlockHeights: a transaction that has left the chain is dropped.
HeightRead(x) ==
    /\ call.st = "heights" /\ x \in call.asked
    /\ ref[x].st = "known" /\ ~ref[x].height
    /\ Ref(x, IF x \in OnChain THEN [ref[x] EXCEPT !.height = TRUE]
              ELSE [ref[x] EXCEPT !.st = "absent"])

HeightsDone ==
    /\ call.st = "heights"
    /\ \A x \in call.asked : ref[x].st = "known" => ref[x].height
    /\ Call("done")

Answer(status) ==
    /\ call' = [call EXCEPT !.st = "done", !.answer = status]
    /\ UNCHANGED <<driver, upstream, ref, was>>

\* /tx_status: a row with confirmations, or none; Koios knows no mempool.
\* /txs/{hash}: the block it is in, or 404.
StatusRead(x) ==
    /\ call.st = "tx" /\ call.asked = {x}
    /\ IF driver = "koios"
       THEN Answer(IF x \in OnChain THEN "confirmed" ELSE "unknown")
       ELSE Call(IF x \in OnChain THEN "block" ELSE "mempool")

\* Mutant of MempoolAnswer: not on the chain is taken for pending.
MempoolAnswerPending(x) == "pending"

\* A hit is proof, a miss is not.
MempoolAnswer(x) == IF x \in mempool THEN "pending" ELSE "unknown"

\* /mempool/{hash}.
MempoolRead(x) ==
    /\ call.st = "mempool" /\ call.asked = {x}
    /\ Answer(MempoolAnswer(x))

\* The mempool is enrichment: its errors do not fail the call.
MempoolFails ==
    /\ call.st = "mempool"
    /\ Answer("unknown")

\* The block of the transaction: 404 when it was rolled back meanwhile.
BlockRead(x) ==
    /\ call.st = "block" /\ call.asked = {x}
    /\ x \in OnChain
    /\ Answer("confirmed")

CallSteps ==
    \/ \E x \in Txs : OutputsRead(x) \/ WalkStep(x) \/ HeightRead(x)
    \/ \E x \in Txs : StatusRead(x) \/ MempoolRead(x) \/ BlockRead(x)
    \/ MempoolFails
    \/ OutputsDone
    \/ StatesDone
    \/ HeightsDone
    \/ RequestFails

Next ==
    \/ \E x \in Txs : Broadcast(x) \/ Confirm(x) \/ Dropped(x) \/ Spend(x)
    \/ Rollback
    \/ Begin
    \/ CallSteps

Spec == Init /\ [][Next]_vars

-----------------------------------------------------------------------------
(* Properties.                                                              *)

\* The shape of the state; a call that ended has an answer for what it asked.
TypeOK ==
    /\ driver \in {"koios", "blockfrost"} /\ moves \in 0..MaxMoves
    /\ mempool \subseteq Txs /\ consumed \subseteq Txs /\ ToSet(listed) \subseteq Txs
    /\ call.asked \subseteq Txs
    /\ call.st \in {"idle", "outputs", "states", "heights", "tx", "mempool", "block", "done", "failed"}
    /\ call.answer \in {"none", "confirmed", "pending", "unknown"}
    /\ \A x \in Txs :
          /\ ref[x].st \in {"fetch", "walk", "known", "absent"}
          /\ ref[x].page \in 1..ListMaxPages
          /\ was[x] \subseteq Places

Done == call.st = "done"

Returned(x) == Done /\ call.what = "refs" /\ x \in call.asked /\ ref[x].st = "known"

\* An output that is returned as unspent was unspent at some moment of the
\* call: "answering unspent for an output that has actually gone is the one
\* that does damage" (blockfrost/tx-info.ts), also when the walk over its
\* address runs into its bound while outputs come and go.
UnspentWasUnspent ==
    \A x \in Txs : Returned(x) /\ ~ref[x].spent => "unspent" \in was[x]

\* A status names a place the transaction was in while it was asked for: a
\* payment that was never in a block is not confirmed, one that was never in
\* the mempool is not pending, and one that was on the chain throughout is not
\* unknown.
StatusWasTrue ==
    \A x \in call.asked : Done =>
        /\ call.answer = "confirmed" => was[x] \cap {"unspent", "spent"} # {}
        /\ call.answer = "pending" => "mempool" \in was[x]
        /\ call.answer = "unknown" => was[x] \cap {"nowhere", "mempool"} # {}

\* An output that is returned as spent was not unspent throughout the call.
SpentWasSpent ==
    \A x \in Txs : Returned(x) /\ ref[x].spent => was[x] # {"unspent"}
=============================================================================
