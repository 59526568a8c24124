--------------------------- MODULE BlockfrostUtxos ---------------------------
(***************************************************************************)
(* The wallet's unspent outputs on Blockfrost: getAccountUtxos and         *)
(* getUtxosByAddresses (src/providers/blockfrost/account.ts, addresses.ts) *)
(* with the block heights of blocks.ts.  A source (the account, or each of *)
(* the addresses) is walked by page number until two walks agree; then the *)
(* creation block of every row is looked up, and one that is gone makes    *)
(* the whole read start over.                                              *)
(*                                                                         *)
(* Upstream (external) lists outputs in the order of the chain: a new one  *)
(* comes last, in a block of its own; a rollback takes the newest block    *)
(* off, and its output may come back in another block.  A spend stays.     *)
(***************************************************************************)
EXTENDS Integers, Sequences, SequencesExt, FiniteSets

CONSTANTS
    Outs,              \* output references
    Sources,           \* the account, or the addresses
    PageSize,          \* UTXO_PAGE_SIZE
    MaxPages,          \* UTXO_MAX_PAGES
    ConsistencyScans,  \* UTXO_CONSISTENCY_SCANS
    LookupAttempts,    \* BLOCK_LOOKUP_ATTEMPTS
    RollbackAttempts,  \* UTXO_ROLLBACK_SCAN_ATTEMPTS
    MaxBlock           \* bound: blocks made

VARIABLES
    owner,     \* owner[x]: the source x belongs to
    live,      \* the unspent outputs on the chain: [out, blk], in order of blk
    spent,     \* outputs that were spent
    made,      \* the number of blocks made; a block's number is its hash
    gone,      \* blocks rolled back
    read,      \* the read: [st, attempt]
    scan,      \* scan[s]: the walks of source s
    tried,     \* tried[b]: lookups of block b answered with 404
    resolved,  \* blocks whose height is known
    stable,    \* ghost: outputs on the chain ever since this attempt began
    moments    \* ghost: what `live' was since this attempt began

chain == <<owner, live, spent, made, gone>>
ghosts == <<stable, moments>>
lookups == <<tried, resolved>>
vars == <<chain, read, scan, lookups, ghosts>>

OutsOf(rows) == {r.out : r \in rows}

\* n: the number of this walk.  prev: the rows of the walk before.
\* st: "walking", "probing" (one page past the bound), "settled".
NewScan == [st |-> "walking", n |-> 1, page |-> 1, rows |-> <<>>, prev |-> <<>>]

Init ==
    /\ owner \in [Outs -> Sources]
    /\ live = {} /\ spent = {} /\ made = 0 /\ gone = {}
    /\ read = [st |-> "idle", attempt |-> 1]
    /\ scan = [s \in Sources |-> NewScan]
    /\ tried = [b \in 1..MaxBlock |-> 0] /\ resolved = {}
    /\ stable = {} /\ moments = {}

-----------------------------------------------------------------------------
(* Upstream (external).  What happens after the read is of no interest.     *)

Running == read.st \in {"idle", "scanning", "resolving"}

Create(x) ==
    /\ Running /\ made < MaxBlock
    /\ x \notin spent \cup OutsOf(live)
    /\ made' = made + 1
    /\ live' = live \cup {[out |-> x, blk |-> made + 1]}
    /\ moments' = moments \cup {live'}
    /\ UNCHANGED <<owner, spent, gone, read, scan, lookups, stable>>

Spend(x) ==
    /\ Running /\ x \in OutsOf(live)
    /\ live' = {r \in live : r.out # x}
    /\ spent' = spent \cup {x}
    /\ stable' = stable \ {x}
    /\ moments' = moments \cup {live'}
    /\ UNCHANGED <<owner, made, gone, read, scan, lookups>>

Rollback ==
    /\ Running
    /\ \E r \in live :
          /\ \A q \in live : q.blk <= r.blk
          /\ live' = live \ {r}
          /\ gone' = gone \cup {r.blk}
          /\ stable' = stable \ {r.out}
    /\ moments' = moments \cup {live'}
    /\ UNCHANGED <<owner, spent, made, read, scan, lookups>>

Place(r, rows) == Cardinality({q \in rows : q.blk <= r.blk})

Listed(s) ==
    LET own == {r \in live : owner[r.out] = s}
    IN  [n \in 1..Cardinality(own) |-> CHOOSE r \in own : Place(r, own) = n]

PageAt(s, k) ==
    LET all == Listed(s)
    IN  SubSeq(all, (k - 1) * PageSize + 1, Min({k * PageSize, Len(all)}))

-----------------------------------------------------------------------------
(* The walks of one source.                                                 *)

Begin ==
    /\ read.st = "idle"
    /\ read' = [read EXCEPT !.st = "scanning"]
    /\ scan' = [s \in Sources |-> NewScan]
    /\ tried' = [b \in 1..MaxBlock |-> 0] /\ resolved' = {}
    /\ stable' = OutsOf(live) /\ moments' = {live}
    /\ UNCHANGED chain

Walking(s) == read.st = "scanning" /\ scan[s].st = "walking"

Throws ==
    /\ read' = [read EXCEPT !.st = "failed"]
    /\ UNCHANGED <<chain, scan, lookups, ghosts>>

Taken(s) == scan[s].rows \o PageAt(s, scan[s].page)

Short(s) == Len(PageAt(s, scan[s].page)) < PageSize

\* A full page: go on, or probe once the bound is reached.
FullPage(s) ==
    /\ Walking(s) /\ ~Short(s)
    /\ scan' = [scan EXCEPT ![s] =
                  IF @.page < MaxPages
                  THEN [@ EXCEPT !.page = scan[s].page + 1, !.rows = Taken(s)]
                  ELSE [@ EXCEPT !.st = "probing", !.rows = Taken(s)]]
    /\ UNCHANGED <<chain, read, lookups, ghosts>>

HasDuplicate(rows) == \E i, j \in DOMAIN rows : i # j /\ rows[i].out = rows[j].out

\* Mutant of SameKeys: only the number of rows is compared.
SameKeysCount(one, two) == Len(one) = Len(two)

\* Output references are compared, not the blocks they are in.
SameKeys(one, two) ==
    [i \in DOMAIN one |-> one[i].out] = [i \in DOMAIN two |-> two[i].out]

\* The walk just ended settles the source: one page is a snapshot, several
\* have to agree with the walk before.
Accepted(s, rows, verify) ==
    IF scan[s].n = 1 THEN ~verify /\ ~HasDuplicate(rows)
    ELSE /\ ~HasDuplicate(scan[s].prev) /\ ~HasDuplicate(rows)
         /\ SameKeys(scan[s].prev, rows)

MayScan(s) == scan[s].n < ConsistencyScans

\* A walk of s ended with these rows.
WalkEnds(s, rows, verify) ==
    \/ /\ Accepted(s, rows, verify)
       /\ scan' = [scan EXCEPT ![s] = [@ EXCEPT !.st = "settled", !.rows = rows]]
       /\ UNCHANGED <<chain, read, lookups, ghosts>>
    \/ /\ ~Accepted(s, rows, verify) /\ MayScan(s)
       /\ scan' = [scan EXCEPT ![s] = [NewScan EXCEPT !.n = scan[s].n + 1, !.prev = rows]]
       /\ UNCHANGED <<chain, read, lookups, ghosts>>
    \/ /\ ~Accepted(s, rows, verify) /\ ~MayScan(s)
       /\ Throws

\* A short page is the last.  A source with nothing on the chain answers 404:
\* nothing on page one, a contradiction later.
ShortPage(s) ==
    /\ Walking(s) /\ Short(s)
    /\ WalkEnds(s, Taken(s), scan[s].page > 1)

LaterNotFound(s) ==
    /\ Walking(s) /\ scan[s].page > 1
    /\ ~\E x \in spent \cup OutsOf(live) : owner[x] = s
    /\ Throws

Probe(s) ==
    /\ read.st = "scanning" /\ scan[s].st = "probing"
    /\ \/ /\ PageAt(s, MaxPages + 1) = <<>>
          /\ WalkEnds(s, scan[s].rows, TRUE)
       \/ /\ PageAt(s, MaxPages + 1) # <<>>
          /\ Throws

\* A request fails after the client's own retries.
RequestFails ==
    /\ read.st \in {"scanning", "resolving"}
    /\ Throws

-----------------------------------------------------------------------------
(* Block heights, and the retry of the whole scan.                          *)

Settled ==
    /\ read.st = "scanning"
    /\ \A s \in Sources : scan[s].st = "settled"
    /\ read' = [read EXCEPT !.st = "resolving"]
    /\ UNCHANGED <<chain, scan, lookups, ghosts>>

Wanted == UNION {{scan[s].rows[i].blk : i \in DOMAIN scan[s].rows} : s \in Sources}

LookupFound(b) ==
    /\ read.st = "resolving" /\ b \in Wanted \ resolved
    /\ b \notin gone
    /\ resolved' = resolved \cup {b}
    /\ UNCHANGED <<chain, read, scan, tried, ghosts>>

\* 404: the block was rolled back, or the instance that answers is behind.
LookupMissing(b) ==
    /\ read.st = "resolving" /\ b \in Wanted \ resolved
    /\ tried[b] + 1 < LookupAttempts
    /\ tried' = [tried EXCEPT ![b] = @ + 1]
    /\ UNCHANGED <<chain, read, scan, resolved, ghosts>>

NextAttempt == read.attempt + 1

MayRetry == read.attempt < RollbackAttempts

\* CreationBlockRolledBackError: retryUtxoScanAfterRollback starts over.
RolledBack(b) ==
    /\ read.st = "resolving" /\ b \in Wanted \ resolved
    /\ tried[b] + 1 >= LookupAttempts
    /\ \/ /\ MayRetry
          /\ read' = [st |-> "idle", attempt |-> NextAttempt]
          /\ UNCHANGED <<chain, scan, lookups, ghosts>>
       \/ /\ ~MayRetry
          /\ Throws

AllResolved == Wanted \subseteq resolved

\* The outputs that are returned: those whose block has a height.
Result(s) == OutsOf({r \in ToSet(scan[s].rows) : r.blk \in resolved})

Resolve ==
    /\ read.st = "resolving" /\ AllResolved
    /\ read' = [read EXCEPT !.st = "done"]
    /\ UNCHANGED <<chain, scan, lookups, ghosts>>

Steps(s) == FullPage(s) \/ ShortPage(s) \/ LaterNotFound(s) \/ Probe(s)

Looks(b) == LookupFound(b) \/ LookupMissing(b) \/ RolledBack(b)

Next ==
    \/ \E x \in Outs : Create(x)
    \/ \E x \in Outs : Spend(x)
    \/ Rollback
    \/ Begin
    \/ \E s \in Sources : Steps(s)
    \/ RequestFails
    \/ Settled
    \/ \E b \in 1..MaxBlock : Looks(b)
    \/ Resolve

Spec == Init /\ [][Next]_vars

-----------------------------------------------------------------------------
(* Properties.                                                              *)

\* The shape of the state; the budgets of walks, lookups and scans are kept.
TypeOK ==
    /\ read.st \in {"idle", "scanning", "resolving", "done", "failed"}
    /\ read.attempt \in 1..RollbackAttempts
    /\ \A s \in Sources :
        /\ scan[s].st \in {"walking", "probing", "settled"}
        /\ scan[s].n \in 1..ConsistencyScans /\ scan[s].page \in 1..MaxPages
    /\ tried \in [1..MaxBlock -> 0..LookupAttempts]
    /\ resolved \subseteq 1..made
    /\ stable \subseteq OutsOf(live)

\* Every output that was unspent and on the chain throughout the read is
\* returned, whatever is created, spent or rolled back meanwhile: "a set
\* quietly missing an output is a wrong balance" (blocks.ts).
NothingMissing ==
    read.st = "done" => stable \subseteq UNION {Result(s) : s \in Sources}

\* The outputs that came back in another block while the read was under way.
CameBack ==
    LET rows == UNION moments
    IN  OutsOf({r \in rows : \E q \in rows : q.out = r.out /\ q.blk # r.blk})

\* The outputs returned for a source were unspent at some moment of the read,
\* each of them once.  Though they were read page by page they were all so at
\* one moment, and the source had no others, unless one of them came back in
\* another block: then two walks can agree on rows that were never there
\* together.
SnapshotOfSource ==
    read.st = "done" => \A s \in Sources :
        /\ ~HasDuplicate(scan[s].rows)
        /\ Result(s) \subseteq OutsOf(UNION moments)
        /\ \/ \E m \in moments : Result(s) = {x \in OutsOf(m) : owner[x] = s}
           \/ Result(s) \cap CameBack # {}
=============================================================================
