----------------------------- MODULE KoiosPaging -----------------------------
(***************************************************************************)
(* batchAllPages and walkBatchPages of src/providers/koios/client.ts: an   *)
(* ordered result that spans several HTTP requests while the chain moves.  *)
(* A keyset walk asks for the rows after the last one it has, an offset    *)
(* walk counts rows and may be repeated to compare, and any sign of change *)
(* throws an error that read() answers by starting over.                   *)
(*                                                                         *)
(* A row (a UTxO) is its place in the order.  Rows are created and spent   *)
(* between any two responses; an output reference is never created twice.  *)
(* The upstream side models PostgREST with Prefer: count=exact.            *)
(***************************************************************************)
EXTENDS Integers, Sequences, SequencesExt, FiniteSets

CONSTANTS
    Rows,               \* output references, numbered in the order of the result
    PageSize,           \* KOIOS_PAGE_SIZE
    MaxPagedRows,       \* KOIOS_MAX_PAGED_ROWS
    ReadAttempts        \* readAttempts

VARIABLES
    mode,    \* the options of the call: "keyset", "verified" or "once"
    table,   \* the rows upstream holds
    ever,    \* the rows that have existed
    walk,    \* the walk under way
    first,   \* the rows of the first of two walks, <<>> before it ended
    read,    \* the batchAllPages call and its attempt
    stable,  \* ghost: rows present ever since this attempt began
    touched  \* ghost: rows present at some moment of this attempt

vars == <<mode, table, ever, walk, first, read, stable, touched>>

\* rows: in the order received.  start: expectedStart.  total: expectedTotal,
\* -1 before it is known.  cursor: lastCursor, 0 before the first page.
NewWalk == [rows |-> <<>>, start |-> 0, total |-> -1, cursor |-> 0, pages |-> 0]

\* options.keyset is given; options.verifyConsistency.
Keyset == mode = "keyset"
VerifyConsistency == mode = "verified"

Init ==
    /\ mode \in {"keyset", "verified", "once"}
    /\ table \in SUBSET Rows
    /\ ever = table
    /\ walk = NewWalk
    /\ first = <<>>
    /\ read = [st |-> "idle", attempt |-> 1, result |-> <<>>]
    /\ stable = table
    /\ touched = table

-----------------------------------------------------------------------------
(* Upstream (external).                                                     *)

\* What changes after the read ended is of no interest to it.
Running == read.st \in {"idle", "walking"}

Create(x) ==
    /\ Running
    /\ x \notin ever
    /\ table' = table \cup {x}
    /\ ever' = ever \cup {x}
    /\ touched' = touched \cup {x}
    /\ UNCHANGED <<mode, walk, first, read, stable>>

Spend(x) ==
    /\ Running
    /\ x \in table
    /\ table' = table \ {x}
    /\ stable' = stable \ {x}
    /\ UNCHANGED <<mode, ever, walk, first, read, touched>>

\* The rows of S in the order of the result.
InOrder(S) ==
    [n \in 1..Cardinality(S) |-> CHOOSE x \in S : Cardinality({y \in S : y <= x}) = n]

\* The rows the request selects: after the cursor, or from the offset on.
Selected ==
    IF Keyset THEN InOrder({x \in table : x > walk.cursor})
    ELSE LET all == InOrder(table) IN SubSeq(all, walk.start + 1, Len(all))

Page == LET rows == Selected IN SubSeq(rows, 1, Min({PageSize, Len(rows)}))

\* The count of Content-Range: rows after the cursor, or all rows.
Count == IF Keyset THEN Len(Selected) ELSE Cardinality(table)

\* 206 unless the page holds everything that is counted.
Partial == Len(Page) < Count

-----------------------------------------------------------------------------
(* walkBatchPages.                                                          *)

\* A row of the page was seen before.
Duplicate(page) == \E i \in DOMAIN page : page[i] \in ToSet(walk.rows)

\* An offset walk sees another total than on its first page.
TotalMoved == ~Keyset /\ walk.total # -1 /\ Count # walk.total

\* The size that is held against the bound: the reported one while it is the
\* size of the whole result, the rows taken so far after that.
PagedRows ==
    IF Keyset /\ walk.pages > 0 THEN Len(walk.rows) + Len(Page) ELSE Count

TooMany == PagedRows > MaxPagedRows

\* The keyset of the last row seen: transaction hash and output index, which
\* together place a row in the order.
CursorAfter(page) == IF page = <<>> THEN walk.cursor ELSE Last(page)

Appended == [rows |-> walk.rows \o Page, start |-> walk.start + Len(Page),
             total |-> Count, cursor |-> CursorAfter(Page), pages |-> walk.pages + 1]

\* Content-Range is missing: only a short, complete first page may do that.
WithoutRange == walk.pages = 0 /\ ~Partial /\ Len(Page) < PageSize

\* An empty page: at the end of an offset walk whose count agrees, or as the
\* first page of a keyset walk.
EmptyIsEnd == IF Keyset THEN walk.cursor = 0 ELSE Count = walk.start

\* Mutant of KeysetEnds: the first page is taken for the whole.
KeysetEndsAtOnce == Count >= Len(Page)

\* A keyset walk ends with the page that holds all remaining rows.
KeysetEnds == Count <= Len(Page)

\* The page reaches the end of what upstream counts.
ReachesEnd == IF Keyset THEN KeysetEnds ELSE Appended.start = Count

\* A walk that has to go on needs status 206.
Incomplete == ~ReachesEnd /\ ~Partial

\* A walk whose page was answered with (ranged) or without Content-Range.
WalkFails(ranged) ==
    IF ~ranged THEN ~WithoutRange \/ Duplicate(Page)
    ELSE IF Page = <<>> THEN ~EmptyIsEnd
    ELSE TotalMoved \/ TooMany \/ Duplicate(Page) \/ Incomplete

WalkEnds(ranged) == ~ranged \/ Page = <<>> \/ ReachesEnd

-----------------------------------------------------------------------------
(* batchAllPages inside read().                                             *)

Begin ==
    /\ read.st = "idle"
    /\ read' = [read EXCEPT !.st = "walking"]
    /\ walk' = NewWalk
    /\ stable' = table /\ touched' = table
    /\ UNCHANGED <<mode, table, ever, first>>

\* A page arrives and the walk goes on.
PageArrives ==
    /\ read.st = "walking"
    /\ ~WalkFails(TRUE) /\ ~WalkEnds(TRUE)
    /\ walk' = Appended
    /\ UNCHANGED <<mode, table, ever, first, read, stable, touched>>

\* Whether the rows of the first walk are compared with a second one.
Compares(w) == w.pages > 1 /\ VerifyConsistency /\ ~Keyset

\* The rows of two walks agree.
SameMembership(one, two) == one = two

MayRetry == read.attempt < ReadAttempts

NextAttempt == read.attempt + 1

\* A transient failure: the whole read starts over, or the error is thrown.
Fails ==
    /\ first' = <<>>
    /\ walk' = NewWalk
    /\ \/ /\ MayRetry
          /\ read' = [read EXCEPT !.st = "idle", !.attempt = NextAttempt]
       \/ /\ ~MayRetry
          /\ read' = [read EXCEPT !.st = "failed"]
    /\ UNCHANGED <<mode, table, ever, stable, touched>>

Resolves(rows) ==
    /\ read' = [read EXCEPT !.st = "done", !.result = rows]
    /\ UNCHANGED <<mode, table, ever, walk, first, stable, touched>>

\* The walk ends with this page: return it, start the second walk, or compare.
WalkCompletes(ranged) ==
    /\ read.st = "walking"
    /\ ~WalkFails(ranged) /\ WalkEnds(ranged)
    /\ \/ /\ first = <<>> /\ ~Compares(Appended)
          /\ Resolves(Appended.rows)
       \/ /\ first = <<>> /\ Compares(Appended)
          /\ first' = Appended.rows
          /\ walk' = NewWalk
          /\ UNCHANGED <<mode, table, ever, read, stable, touched>>
       \/ /\ first # <<>> /\ SameMembership(first, Appended.rows)
          /\ Resolves(Appended.rows)
       \/ /\ first # <<>> /\ ~SameMembership(first, Appended.rows)
          /\ Fails

\* The page contradicts what came before.
PageContradicts(ranged) ==
    /\ read.st = "walking"
    /\ WalkFails(ranged)
    /\ Fails

\* A request of the walk times out, gets a 5xx or a body that does not parse.
RequestFails ==
    /\ read.st = "walking"
    /\ Fails

\* A request is refused (4xx): that is not transient and ends the read.
RequestRefused ==
    /\ read.st = "walking"
    /\ read' = [read EXCEPT !.st = "failed"]
    /\ UNCHANGED <<mode, table, ever, walk, first, stable, touched>>

\* A request of the walk settles, well or not.
Settles ==
    \/ PageArrives \/ RequestFails \/ RequestRefused
    \/ \E ranged \in BOOLEAN : WalkCompletes(ranged) \/ PageContradicts(ranged)

Next ==
    \/ \E x \in Rows : Create(x)
    \/ \E x \in Rows : Spend(x)
    \/ Begin
    \/ Settles

Spec == Init /\ [][Next]_vars

-----------------------------------------------------------------------------
(* Properties.                                                              *)

\* The shape of the state: a walk holds no row twice and its attempt is within
\* the budget.
TypeOK ==
    /\ mode \in {"keyset", "verified", "once"}
    /\ table \subseteq ever /\ ever \subseteq Rows
    /\ read.st \in {"idle", "walking", "done", "failed"}
    /\ read.attempt \in 1..ReadAttempts
    /\ walk.rows \in Seq(Rows) /\ read.result \in Seq(Rows)
    /\ stable \subseteq table /\ table \subseteq touched

\* A read by keyset or with a second walk that resolves returns every row that
\* was there from its first to its last request, whatever was created and spent
\* meanwhile: a wallet's UTxO is never dropped because another one moved.
StableRowsReturned ==
    read.st = "done" /\ mode # "once" => stable \subseteq ToSet(read.result)

\* It returns no row twice, and only rows that existed while it ran: a balance
\* is not inflated by a page that shifted.
EachRowOnce ==
    read.st = "done" =>
        /\ IsInjective(read.result)
        /\ ToSet(read.result) \subseteq touched

\* A result is never larger than the bound, also when rows are created ahead
\* of the cursor as fast as the walk goes.
ResultBounded == Len(read.result) <= MaxPagedRows
=============================================================================
