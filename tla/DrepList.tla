------------------------------- MODULE DrepList -------------------------------
(***************************************************************************)
(* getDrepList of src/providers/koios/governance.ts and                    *)
(* src/providers/blockfrost/governance.ts.  Both walk a list that also     *)
(* names DReps which are gone and keep the registered ones.  Koios with a  *)
(* cache reads the whole membership once, serves pages of it for a while   *)
(* (longer when a refresh fails), and asks for the standing and the names  *)
(* of a page every time; without a cache it reads as far as the page       *)
(* needs.  Blockfrost reads as far as the page needs, and its rows say all *)
(* there is.                                                               *)
(*                                                                         *)
(* The cache is the one MemoryCache details, without clears; how old the   *)
(* membership is when it is read is left open.  Which names are cached is  *)
(* the batch of MemoryCache; here they only have to be waited for.  The    *)
(* pseudo-DReps of Blockfrost are rows that are never registered.          *)
(***************************************************************************)
EXTENDS Integers, Sequences, SequencesExt, FiniteSets

CONSTANTS
    Dreps,         \* ids, in the order of the list
    Readers,       \* calls of getDrepList(), numbered as they come
    DrepLimit,     \* rows per page of the caller
    DrepOffsets,   \* where the pages that are asked for begin
    DrepPageSize,  \* DREP_LIST_PAGE_SIZE, DREP_PAGE_SIZE
    DrepMaxPages,  \* DREP_LIST_MAX_PAGES, DREP_MAX_PAGES
    FirstStandings,\* bound: the standings at first
    MaxChanges     \* bound: registrations and deregistrations

VARIABLES
    driver,     \* config.provider
    caching,    \* the provider has a real cache
    standing,   \* standing[x] on the chain
    changes,    \* how many registrations and deregistrations
    refresh,    \* the shared scan of the membership
    membership, \* the cached membership
    readers,    \* the state of each call
    during      \* ghost: during[c][x]: the standings of x while c was asked

ledger == <<standing, changes>>
vars == <<driver, caching, ledger, refresh, membership, readers, during>>

Standings == {"unknown", "registered", "deregistered"}

\* needed: how many rows to stop at, with EndOfList for all of them.
\* throughout (ghost): the DReps registered ever since the scan began.
EndOfList == Cardinality(Dreps) + 1

IdleScan == [st |-> "idle", needed |-> EndOfList, page |-> 1, after |-> 0, kept |-> <<>>,
             throughout |-> {}]

IdleReader == [st |-> "idle", offset |-> 0, scan |-> IdleScan, page |-> <<>>,
               info |-> FALSE, names |-> FALSE, standing |-> [x \in Dreps |-> "unknown"],
               answer |-> <<>>]

NoMembership == [held |-> FALSE, list |-> <<>>]

Init ==
    /\ \/ driver = "koios" /\ caching \in BOOLEAN
       \/ driver = "blockfrost" /\ caching = FALSE
    /\ standing \in FirstStandings
    /\ changes = 0
    /\ refresh = IdleScan
    /\ membership = NoMembership
    /\ readers = [c \in Readers |-> IdleReader]
    /\ during = [c \in Readers |-> [x \in Dreps |-> {}]]

-----------------------------------------------------------------------------
(* The chain (external).                                                    *)

Asking(c) == readers[c].st \notin {"idle", "done", "failed"}

Without(scan, x) == [scan EXCEPT !.throughout = @ \ {x}]

\* A DRep registers or deregisters (before the first call and after the last
\* one that is of no interest).
Changes(x) ==
    LET to == IF standing[x] = "registered" THEN "deregistered" ELSE "registered" IN
    /\ changes < MaxChanges
    /\ \E c \in Readers : readers[c].st # "idle"
    /\ \E c \in Readers : readers[c].st \notin {"done", "failed"}
    /\ changes' = changes + 1
    /\ standing' = [standing EXCEPT ![x] = to]
    /\ during' = [c \in Readers |-> IF Asking(c) THEN [during[c] EXCEPT ![x] = @ \cup {to}]
                                    ELSE during[c]]
    /\ refresh' = Without(refresh, x)
    /\ readers' = [c \in Readers |-> IF readers[c].st = "scan"
                                     THEN [readers[c] EXCEPT !.scan = Without(@, x)]
                                     ELSE readers[c]]
    /\ UNCHANGED <<driver, caching, membership>>

-----------------------------------------------------------------------------
(* The walk.                                                                *)

Registered == {x \in Dreps : standing[x] = "registered"}

\* The rows of the list: who registered is named for good.
Known == {x \in Dreps : standing[x] # "unknown"}

\* The ids of S in the order of the list.
InOrder(S) ==
    [n \in 1..Cardinality(S) |-> CHOOSE x \in S : Cardinality({y \in S : y <= x}) = n]

NewScan(needed) ==
    [IdleScan EXCEPT !.st = "reading", !.needed = needed, !.throughout = Registered]

\* What the list answers: after the cursor, or by page number.
Response(scan, size) ==
    LET rest == IF driver = "koios"
                THEN InOrder({x \in Known : x > scan.after})
                ELSE SubSeq(InOrder(Known), (scan.page - 1) * DrepPageSize + 1,
                            Cardinality(Known))
    IN  SubSeq(rest, 1, Min({size, Len(rest)}))

\* The cursor follows the rows that were read, registered or not.
CursorAfter(rows, kept) == IF rows = <<>> THEN 0 ELSE Last(rows)

\* The scan after one more response; probing needs no rows.
Scanned(scan) ==
    LET rows == Response(scan, DrepPageSize)
        kept == scan.kept \o InOrder(ToSet(rows) \cap Registered)
    IN  [scan EXCEPT !.kept = kept, !.page = @ + 1, !.after = CursorAfter(rows, kept),
             !.st = IF Len(rows) < DrepPageSize \/ Len(kept) >= scan.needed THEN "done"
                    ELSE IF scan.page = DrepMaxPages THEN "probe" ELSE "reading"]

ProbedEmpty(scan) == scan.st = "probe" /\ Response(scan, 1) = <<>>

\* A request of the scan fails, or the list is longer than the bound.
MayFail(scan) == scan.st \in {"reading", "probe"}

Reader(c, r) ==
    /\ readers' = [readers EXCEPT ![c] = r]
    /\ UNCHANGED <<driver, caching, ledger, refresh, membership, during>>

\* The page is sliced, and its standings and names are asked for at once.
Sliced(r, list) ==
    [r EXCEPT !.st = "hydrate",
              !.page = SubSeq(list, r.offset + 1, Min({r.offset + DrepLimit, Len(list)}))]

\* A walk of one call's own.
OwnScan(c) ==
    LET r == readers[c] IN
    /\ r.st = "scan"
    /\ \/ /\ r.scan.st = "reading"
          /\ Reader(c, [r EXCEPT !.scan = Scanned(@)])
       \/ /\ ProbedEmpty(r.scan)
          /\ Reader(c, [r EXCEPT !.scan.st = "done"])
       \/ /\ r.scan.st = "done" /\ driver = "koios"
          /\ Reader(c, Sliced(r, r.scan.kept))
       \/ /\ r.scan.st = "done" /\ driver = "blockfrost"
          /\ LET page == Sliced(r, r.scan.kept).page
             IN  Reader(c, [r EXCEPT !.st = "done", !.page = page, !.answer = page])

OwnScanFails(c) ==
    /\ readers[c].st = "scan" /\ MayFail(readers[c].scan)
    /\ Reader(c, [readers[c] EXCEPT !.st = "failed"])

\* The shared walk of the membership, and what its readers do when it ends.
Refresh ==
    /\ refresh.st = "reading"
    /\ refresh' = Scanned(refresh)
    /\ UNCHANGED <<driver, caching, ledger, membership, readers, during>>

RefreshEnds ==
    /\ refresh.st = "done" \/ ProbedEmpty(refresh)
    /\ membership' = [held |-> TRUE, list |-> refresh.kept]
    /\ readers' = [c \in Readers |-> IF readers[c].st = "members"
                                     THEN Sliced(readers[c], refresh.kept) ELSE readers[c]]
    /\ refresh' = IdleScan
    /\ UNCHANGED <<driver, caching, ledger, during>>

\* The membership that is held is within DREP_MEMBERSHIP_STALE_MS, or not.
RefreshFails ==
    /\ MayFail(refresh)
    /\ \E usable \in {FALSE, membership.held} :
          readers' = [c \in Readers |->
              IF readers[c].st # "members" THEN readers[c]
              ELSE IF usable THEN Sliced(readers[c], membership.list)
              ELSE [readers[c] EXCEPT !.st = "failed"]]
    /\ refresh' = IdleScan
    /\ UNCHANGED <<driver, caching, ledger, membership, during>>

-----------------------------------------------------------------------------
(* The call.                                                                *)

Begins(c, r) ==
    /\ readers[c].st = "idle" /\ \A d \in Readers : d < c => readers[d].st # "idle"
    /\ readers' = [readers EXCEPT ![c] = r]
    /\ during' = [during EXCEPT ![c] = [x \in Dreps |-> {standing[x]}]]
    /\ UNCHANGED <<driver, caching, ledger, membership>>

\* Koios with a cache: the membership within its TTL, or its shared scan.
ReadsMembers(c, offset) ==
    LET r == [IdleReader EXCEPT !.offset = offset] IN
    /\ driver = "koios" /\ caching
    /\ \/ membership.held /\ Begins(c, Sliced(r, membership.list)) /\ UNCHANGED refresh
       \/ /\ Begins(c, [r EXCEPT !.st = "members"])
          /\ refresh' = IF refresh.st = "idle" THEN NewScan(EndOfList) ELSE refresh

\* Without one, and Blockfrost: a walk as far as the page needs.  Blockfrost
\* asks for the deposit first.  Such calls share nothing, so one is enough.
ReadsFar(c, offset) ==
    /\ ~caching /\ \A d \in Readers : readers[d].st = "idle"
    /\ Begins(c, [IdleReader EXCEPT !.offset = offset,
          !.st = IF driver = "koios" THEN "scan" ELSE "params",
          !.scan = IF driver = "koios" THEN NewScan(offset + DrepLimit) ELSE IdleScan])
    /\ UNCHANGED refresh

ParamsRead(c) ==
    /\ readers[c].st = "params"
    /\ Reader(c, [readers[c] EXCEPT !.st = "scan", !.scan = NewScan(readers[c].offset + DrepLimit)])

\* governanceParams, or the batch of standings, fails.
RequestFails(c) ==
    /\ \/ readers[c].st = "params"
       \/ readers[c].st = "hydrate" /\ ~readers[c].info
    /\ Reader(c, [readers[c] EXCEPT !.st = "failed"])

\* /drep_info of the page.
InfoRead(c) ==
    /\ readers[c].st = "hydrate" /\ ~readers[c].info
    /\ Reader(c, [readers[c] EXCEPT !.info = TRUE, !.standing = standing])

\* /drep_metadata, or the cache, or neither: a chunk that fails is skipped.
NamesRead(c) ==
    /\ readers[c].st = "hydrate" /\ ~readers[c].names
    /\ Reader(c, [readers[c] EXCEPT !.names = TRUE])

\* Mutant of Serves: the list said that it is registered.
ServesAnyway(r, x) == r.standing[x] # "unknown"

\* What has deregistered since the list was read is dropped.
Serves(r, x) == r.standing[x] = "registered"

Returns(c) ==
    LET r == readers[c] IN
    /\ r.st = "hydrate" /\ r.info /\ r.names
    /\ Reader(c, [r EXCEPT !.st = "done", !.answer = InOrder({x \in ToSet(r.page) : Serves(r, x)})])

CallStep(c) ==
    \/ OwnScan(c)
    \/ OwnScanFails(c)
    \/ ParamsRead(c)
    \/ RequestFails(c)
    \/ InfoRead(c)
    \/ NamesRead(c)
    \/ Returns(c)

\* What the walk that readers share does.
SharedWalk == Refresh \/ RefreshEnds \/ RefreshFails

Next ==
    \/ \E x \in Dreps : Changes(x)
    \/ \E c \in Readers, offset \in DrepOffsets : ReadsMembers(c, offset) \/ ReadsFar(c, offset)
    \/ \E c \in Readers : CallStep(c)
    \/ SharedWalk

Spec == Init /\ [][Next]_vars

-----------------------------------------------------------------------------
(* Properties.                                                              *)

\* The shape of the state; who waits for the membership has a scan to wait for.
TypeOK ==
    /\ driver \in {"koios", "blockfrost"} /\ caching \in BOOLEAN
    /\ standing \in [Dreps -> Standings]
    /\ \A c \in Readers :
          /\ readers[c].st \in {"idle", "members", "params", "scan", "hydrate", "done", "failed"}
          /\ readers[c].st = "members" => refresh.st # "idle"
          /\ Len(readers[c].page) <= DrepLimit
          /\ \A x \in Dreps : during[c][x] \subseteq Standings

\* A page holds only DReps that were registered at some moment of its call,
\* however old the membership is, and all of its slice that were registered
\* during the whole call, whatever became of their names.
ServesRegistered ==
    \A c \in Readers : readers[c].st = "done" => \A x \in ToSet(readers[c].page) :
        /\ x \in ToSet(readers[c].answer) => "registered" \in during[c][x]
        /\ during[c][x] = {"registered"} => x \in ToSet(readers[c].answer)

\* What a Koios walk kept when it stopped: every DRep that was registered
\* throughout it, once, as far as the walk went.
KeptWhole(scan) ==
    \A x \in scan.throughout :
        Cardinality({i \in DOMAIN scan.kept : scan.kept[i] = x}) =
            IF x <= scan.after \/ Len(scan.kept) < scan.needed THEN 1 ELSE 0

\* "silently short pages are how a DRep disappears from a wallet's list and
\* nobody finds out" (koios/governance.ts).
ListedWhole ==
    driver = "koios" =>
        /\ refresh.st = "done" => KeptWhole(refresh)
        /\ \A c \in Readers :
              readers[c].st = "scan" /\ readers[c].scan.st = "done" => KeptWhole(readers[c].scan)
=============================================================================
