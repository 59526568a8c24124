------------------------------ MODULE Proposals ------------------------------
(***************************************************************************)
(* getProposals of src/providers/koios/governance.ts and                   *)
(* src/providers/blockfrost/governance.ts: a page of the governance        *)
(* actions, newest first.  Koios answers the page in one response and is   *)
(* then asked for the tally of every row at once; Blockfrost walks the     *)
(* list by page number and asks for the details of its rows, a few at a    *)
(* time.  Meanwhile actions are submitted and decided, and votes are cast. *)
(*                                                                         *)
(* A proposal is its number in the order of submission, a tally the number *)
(* of votes in it.  Texts, deposits and who may vote on which kind of      *)
(* action are data and left out.                                           *)
(***************************************************************************)
EXTENDS Integers, Sequences, SequencesExt, FiniteSets

CONSTANTS
    FirstProposals,             \* how many there are when the call begins
    LastProposal,               \* bound: how many there may be
    FirstFates,                 \* bound: what may have become of them by then
    ProposalLimit,              \* rows the caller asks for
    ProposalOffsets,            \* where its page begins
    ProposalPageSize,           \* DEFAULT_PAGE_SIZE of collectPages
    ProposalMaxPages,           \* DEFAULT_MAX_PAGES
    ProposalLookupConcurrency,  \* PROPOSAL_LOOKUP_CONCURRENCY
    MaxEvents                   \* bound: submissions, decisions and votes

VARIABLES
    driver,     \* config.provider
    submitted,  \* proposals 1..submitted are on the chain
    fate,       \* fate[p]: the epoch fields of p that are set, oldest first
    ballots,    \* ballots[p]: the votes cast on p
    events,     \* how often one of these has changed
    asked,      \* the state of the call
    past        \* ghost: submitted, ballots and the fates at the call's start,
                \* and what has become of each proposal during the call

governance == <<submitted, fate, ballots, events>>
vars == <<driver, governance, asked, past>>

All == 1..LastProposal

\* An action is ratified and later enacted, or expires and is dropped, or is
\* dropped with the one it depends on.
Fates == {<<>>, <<"ratified">>, <<"ratified", "enacted">>, <<"expired">>,
          <<"expired", "dropped">>, <<"dropped">>}

\* What has become of p: the latest of its fields.
Standing(p) == IF fate[p] = <<>> THEN "open" ELSE Last(fate[p])

\* rows: what the list answered; parts[i]: what is there of the i-th row of the
\* page: "none", then (Blockfrost) "detail", then "ready".
\* fields[i]: the fields of its row, tallies[i]: its tally, if there is one.
Call(st, offset) ==
    [st |-> st, offset |-> offset, page |-> 1, rows |-> <<>>, parts |-> <<>>,
     fields |-> <<>>, tallies |-> <<>>, answer |-> <<>>]

Init ==
    /\ driver \in {"koios", "blockfrost"}
    /\ submitted = FirstProposals /\ events = 0
    /\ fate \in FirstFates
    /\ ballots = [p \in All |-> 0]
    /\ asked \in {Call("list", offset) : offset \in ProposalOffsets}
    /\ past = [submitted |-> submitted, ballots |-> ballots,
               standings |-> [p \in All |-> {Standing(p)}]]

-----------------------------------------------------------------------------
(* The chain (external).                                                    *)

Going == asked.st \notin {"done", "failed"}

Event == Going /\ events < MaxEvents /\ events' = events + 1 /\ UNCHANGED <<driver, asked>>

Submits ==
    /\ Event /\ submitted < LastProposal
    /\ submitted' = submitted + 1
    /\ UNCHANGED <<fate, ballots, past>>

Decides(p) ==
    /\ Event /\ p <= submitted
    /\ \E f \in Fates :
          /\ f # <<>> /\ Front(f) = fate[p]
          /\ fate' = [fate EXCEPT ![p] = f]
          /\ past' = [past EXCEPT !.standings[p] = @ \cup {Last(f)}]
    /\ UNCHANGED <<submitted, ballots>>

Votes(p) ==
    /\ Event /\ p <= submitted
    /\ ballots' = [ballots EXCEPT ![p] = @ + 1]
    /\ UNCHANGED <<submitted, fate, past>>

-----------------------------------------------------------------------------
(* The list.                                                                *)

\* Newest first, when n proposals have been submitted; and a slice of it.
Newest(n) == [i \in 1..n |-> n + 1 - i]
Slice(s, from, size) == SubSeq(s, from + 1, IF Len(s) < from + size THEN Len(s) ELSE from + size)

Asked(c) == asked' = c /\ UNCHANGED <<driver, governance, past>>

\* The page is known: without rows the call ends.
PageKnown(page) ==
    IF page = <<>> THEN [asked EXCEPT !.st = "done"]
    ELSE [asked EXCEPT !.st = "rows", !.rows = page, !.parts = [i \in DOMAIN page |-> "none"],
                       !.fields = [i \in DOMAIN page |-> {}],
                       !.tallies = [i \in DOMAIN page |-> {}]]

\* Koios: one response holds the page and the fields of its rows.
ListRead ==
    /\ driver = "koios" /\ asked.st = "list"
    /\ LET page == PageKnown(Slice(Newest(submitted), asked.offset, ProposalLimit))
       IN  Asked([page EXCEPT !.fields =
                     [i \in DOMAIN page.rows |-> ToSet(fate[page.rows[i]])]])

\* Mutant of Needed: the rows before the page are forgotten.
NeededOfPage(c) == ProposalLimit

\* How many rows the walk has to read.
Needed(c) == c.offset + ProposalLimit

\* Blockfrost: collectPages, then the slice.
PageRead ==
    LET rows == Slice(Newest(submitted), (asked.page - 1) * ProposalPageSize, ProposalPageSize)
        all == asked.rows \o rows
    IN
    /\ driver = "blockfrost" /\ asked.st = "list"
    /\ \/ /\ Len(rows) < ProposalPageSize \/ Len(all) >= Needed(asked)
          /\ Asked(PageKnown(Slice(all, asked.offset, ProposalLimit)))
       \/ /\ Len(rows) = ProposalPageSize /\ Len(all) < Needed(asked)
          /\ Asked([asked EXCEPT !.rows = all, !.page = @ + 1,
                                 !.st = IF asked.page = ProposalMaxPages THEN "probe" ELSE "list"])

\* The row after the last page of the walk tells whether the list goes on.
Probed ==
    /\ asked.st = "probe"
    /\ Asked(IF submitted > ProposalMaxPages * ProposalPageSize
             THEN [asked EXCEPT !.st = "failed"]
             ELSE PageKnown(Slice(asked.rows, asked.offset, ProposalLimit)))

ListFails ==
    /\ asked.st \in {"list", "probe"}
    /\ Asked([asked EXCEPT !.st = "failed"])

-----------------------------------------------------------------------------
(* The rows.                                                                *)

\* A part of the i-th row is awaited: Koios is asked for all of them at once,
\* Blockfrost through mapWithConcurrency (WorkerPool).
Awaited(i) ==
    /\ asked.st = "rows" /\ i \in DOMAIN asked.parts
    /\ asked.parts[i] # "ready"
    /\ driver = "koios" \/ i <= ProposalLookupConcurrency
                                + Cardinality({j \in DOMAIN asked.parts : asked.parts[j] = "ready"})

\* The tally of a row: a lookup that fails or finds none leaves it without one.
TallyRead(i) ==
    LET p == asked.rows[i] IN
    /\ driver = "koios" /\ Awaited(i)
    /\ \E tally \in {{}, {[of |-> p, votes |-> ballots[p]]}} :
          Asked([asked EXCEPT !.parts[i] = "ready", !.tallies[i] = tally])

\* The details of a row.
DetailRead(i) ==
    /\ driver = "blockfrost" /\ Awaited(i) /\ asked.parts[i] = "none"
    /\ Asked([asked EXCEPT !.parts[i] = "detail", !.fields[i] = ToSet(fate[asked.rows[i]])])

\* Without them there is no page.
DetailFails(i) ==
    /\ driver = "blockfrost" /\ Awaited(i) /\ asked.parts[i] = "none"
    /\ Asked([asked EXCEPT !.st = "failed"])

\* The text of a row, or none.
DocumentRead(i) ==
    /\ driver = "blockfrost" /\ Awaited(i) /\ asked.parts[i] = "detail"
    /\ Asked([asked EXCEPT !.parts[i] = "ready"])

\* The first of the statuses that is a field, or the last of them.
Foremost(statuses, fields) ==
    statuses[Min({i \in DOMAIN statuses : statuses[i] \in fields \/ i = Len(statuses)})]

\* Mutant of StatusOf: the earliest decision is the one reported.
StatusFirst(fields) ==
    Foremost(<<"ratified", "enacted", "expired", "dropped", "open">>, fields)

\* proposalStatus: the fields, by precedence.
StatusOf(fields) ==
    Foremost(<<"enacted", "ratified", "dropped", "expired", "open">>, fields)

\* Mutant of Tally: the tallies that came, one after the other.
TallyNext(c, i) ==
    LET came == SelectSeq(c.tallies, LAMBDA t : t # {})
    IN  IF i \in DOMAIN came THEN came[i] ELSE {}

\* The tally shown with the i-th row.
Tally(c, i) == c.tallies[i]

\* The i-th row as the caller gets it.
Reported(i) == [id |-> asked.rows[i], tally |-> Tally(asked, i),
                status |-> StatusOf(asked.fields[i])]

Returns ==
    /\ asked.st = "rows" /\ \A i \in DOMAIN asked.parts : asked.parts[i] = "ready"
    /\ Asked([asked EXCEPT !.st = "done", !.answer = [i \in DOMAIN asked.rows |-> Reported(i)]])

CallSteps ==
    \/ ListRead \/ PageRead \/ Probed \/ ListFails
    \/ \E i \in DOMAIN asked.parts :
          TallyRead(i) \/ DetailRead(i) \/ DetailFails(i) \/ DocumentRead(i)
    \/ Returns

Chain == Submits \/ \E p \in All : Decides(p) \/ Votes(p)

Next == Chain \/ CallSteps

Spec == Init /\ [][Next]_vars

-----------------------------------------------------------------------------
(* Properties.                                                              *)

\* The shape of the state.
TypeOK ==
    /\ driver \in {"koios", "blockfrost"}
    /\ submitted \in FirstProposals..LastProposal /\ events \in 0..MaxEvents
    /\ fate \in [All -> Fates] /\ ballots \in [All -> Nat]
    /\ asked.st \in {"list", "probe", "rows", "done", "failed"}
    /\ asked.offset \in ProposalOffsets
    /\ Len(asked.answer) <= ProposalLimit

\* A proposal is reported with the latest decision it had reached at some
\* moment of the call, and with a tally of its own as it was at some moment of
\* the call: votes of a neighbour whose lookup failed never slide into its row.
FateWasTrue ==
    asked.st = "done" => \A i \in DOMAIN asked.answer :
        LET row == asked.answer[i] IN
        /\ row.status \in past.standings[row.id]
        /\ \A t \in row.tally :
              t.of = row.id /\ t.votes \in past.ballots[row.id]..ballots[row.id]

\* A page is the slice of the list as it was at one moment of the call, on
\* Blockfrost if none was submitted while its list was walked.
PageOfOneMoment ==
    asked.st = "done" /\ (driver = "koios" \/ submitted = past.submitted) =>
        \E n \in past.submitted..submitted :
            [i \in DOMAIN asked.answer |-> asked.answer[i].id]
                = Slice(Newest(n), asked.offset, ProposalLimit)
=============================================================================
