----------------------------- MODULE CachedReads -----------------------------
(***************************************************************************)
(* The reads whose answers the process shares between its callers: the tip *)
(* and the protocol parameters (ProtocolParams), and the lists and the     *)
(* token metadata that either driver reads and Koios caches (PoolList,     *)
(* DrepList, TokenMetadata).  Proposals are listed beside the DReps, and   *)
(* cached by neither driver.  The reads keep their entries under keys of   *)
(* their own, so a behaviour runs one of them; what the cache does under   *)
(* concurrent clears and at its limit is MemoryCache.                      *)
(***************************************************************************)
EXTENDS Integers, Sequences, FiniteSets

CONSTANTS
    \* ProtocolParams
    Callers, Recoveries, NoRecovery, TipTtl, LoadMax, MinEpoch, MaxLag, MaxNow, MaxEpoch,
    \* PoolList
    Pools, FirstPools, Stake, Askers, Limit, Offsets, PoolPageSize, PoolMaxPages,
    LastEpoch, MaxChurn,
    \* DrepList
    Dreps, Readers, DrepLimit, DrepOffsets, DrepPageSize, DrepMaxPages,
    FirstStandings, MaxChanges,
    \* Proposals
    FirstProposals, LastProposal, FirstFates, ProposalLimit, ProposalOffsets,
    ProposalPageSize, ProposalMaxPages, ProposalLookupConcurrency, MaxEvents,
    \* TokenMetadata
    Names, TextKey, HexKey, NoKey, PolicyMaps, Datums, Wallets, AskLists, MaxEdits

ASSUME CachedAssumption ==
    /\ NoRecovery \notin Recoveries
    /\ TipTtl \in Nat \ {0} /\ LoadMax \in Nat \ {0} /\ MinEpoch \in Nat \ {0}
    /\ MaxLag \in Nat
    /\ MaxNow \in Nat \ {0} /\ MaxEpoch \in Nat \ {0}
    /\ IsFiniteSet(Pools) /\ Pools \subseteq Nat \ {0} /\ FirstPools \subseteq SUBSET Pools
    /\ Limit \in Nat \ {0} /\ Offsets \subseteq Nat /\ 0 \in Offsets
    /\ PoolPageSize \in Nat \ {0} /\ PoolMaxPages \in Nat \ {0}
    /\ LastEpoch \in Nat \ {0} /\ MaxChurn \in Nat
    /\ \A e \in 1..LastEpoch : Stake[e] \in [Pools -> Nat]
    /\ IsFiniteSet(Dreps) /\ Dreps \subseteq Nat \ {0} /\ DrepLimit \in Nat \ {0} /\ DrepOffsets \subseteq Nat
    /\ DrepPageSize \in Nat \ {0} /\ DrepMaxPages \in Nat \ {0} /\ MaxChanges \in Nat
    /\ FirstProposals \in Nat /\ LastProposal \in Nat /\ FirstProposals <= LastProposal
    /\ ProposalLimit \in Nat \ {0} /\ ProposalOffsets \subseteq Nat
    /\ ProposalPageSize \in Nat \ {0} /\ ProposalMaxPages \in Nat \ {0}
    /\ ProposalLookupConcurrency \in Nat \ {0} /\ MaxEvents \in Nat
    /\ \A n, m \in Names : HexKey[n] = HexKey[m] => n = m
    /\ \A n, m \in Names : TextKey[n] = TextKey[m] => n = m \/ TextKey[n] = NoKey
    /\ MaxEdits \in Nat

VARIABLES
    what,    \* the read: "params", "pools", "dreps", "proposals" or "tokens"
    driver,  \* config.provider
    \* ProtocolParams
    lag, history, tip, tipLoad, params, paramsLoad, protocolParamsRecovery, recoveries, callers,
    \* PoolList
    epoch, poolTip, registered, churn, scans, attempts, pages, askers,
    \* DrepList
    caching, standing, changes, refresh, membership, readers, during,
    \* Proposals
    submitted, fate, ballots, events, asked, past,
    \* TokenMetadata
    version, byPolicy, cip68, registry, minted, edits, held, wallets, since

paramsVars == <<lag, history, tip, tipLoad, params, paramsLoad, protocolParamsRecovery,
                recoveries, callers>>
poolsVars == <<epoch, poolTip, registered, churn, scans, attempts, pages, askers>>
drepsVars == <<caching, standing, changes, refresh, membership, readers, during>>
proposalsVars == <<submitted, fate, ballots, events, asked, past>>
tokensVars == <<version, byPolicy, cip68, registry, minted, edits, held, wallets, since>>

vars == <<what, driver, paramsVars, poolsVars, drepsVars, proposalsVars, tokensVars>>

PP == INSTANCE ProtocolParams

PL == INSTANCE PoolList WITH tip <- poolTip

DL == INSTANCE DrepList

PR == INSTANCE Proposals

TM == INSTANCE TokenMetadata

\* The bounds on the first state of the chain are states it can be in.
ASSUME FirstStatesAssumption ==
    /\ FirstStandings \subseteq [Dreps -> DL!Standings]
    /\ FirstFates \subseteq [PR!All -> PR!Fates]

\* A read that is not asked for is not there: its variables keep one value.
NoParams == lag = 0
NoPools == registered = CHOOSE first \in FirstPools : TRUE
NoDreps == caching = FALSE /\ standing = CHOOSE first \in FirstStandings : TRUE
NoProposals ==
    /\ fate = CHOOSE f \in FirstFates : TRUE
    /\ asked.offset = CHOOSE o \in ProposalOffsets : TRUE
NoTokens ==
    /\ version = 1 /\ minted = Names
    /\ driver = "koios" => /\ byPolicy = CHOOSE map \in PolicyMaps : TRUE
                           /\ cip68 = CHOOSE datums \in Datums : TRUE

Init ==
    /\ driver \in {"koios", "blockfrost"}
    /\ what \in {"params", "pools", "dreps", "proposals", "tokens"}
    /\ what = "params" => driver = "koios"
    /\ PP!Init /\ (NoParams \/ what = "params")
    /\ PL!Init /\ (NoPools \/ what = "pools")
    /\ DL!Init /\ (NoDreps \/ what = "dreps")
    /\ PR!Init /\ (NoProposals \/ what = "proposals")
    /\ TM!Init /\ (NoTokens \/ what = "tokens")

Params(A) ==
    /\ what = "params" /\ A
    /\ UNCHANGED <<what, driver, poolsVars, drepsVars, proposalsVars, tokensVars>>

PoolPages(A) ==
    /\ what = "pools" /\ A
    /\ UNCHANGED <<what, paramsVars, drepsVars, proposalsVars, tokensVars>>

DrepPages(A) ==
    /\ what = "dreps" /\ A
    /\ UNCHANGED <<what, paramsVars, poolsVars, proposalsVars, tokensVars>>

ProposalPages(A) ==
    /\ what = "proposals" /\ A
    /\ UNCHANGED <<what, paramsVars, poolsVars, drepsVars, tokensVars>>

Tokens(A) ==
    /\ what = "tokens" /\ A
    /\ UNCHANGED <<what, paramsVars, poolsVars, drepsVars, proposalsVars>>

Next ==
    \/ Params(PP!Next)
    \/ PoolPages(PL!Next) \/ DrepPages(DL!Next) \/ ProposalPages(PR!Next)
    \/ Tokens(TM!Next)

Spec == Init /\ [][Next]_vars

\* Every upstream request settles: it carries AbortSignal.timeout.
Fairness ==
    /\ WF_vars(Params((\E e \in PP!Epochs : PP!TipLoaded(e)) \/ PP!TipFails))
    /\ \A key \in PP!Epochs : WF_vars(Params(PP!ParamsSettle(key)))
    /\ \A r \in Recoveries : WF_vars(Params(PP!RecoverySettles(r)))

FairSpec == Spec /\ Fairness

-----------------------------------------------------------------------------
(* The contract.                                                            *)

\* The shape of each read's state.
TypeOK ==
    /\ what \in {"params", "pools", "dreps", "proposals", "tokens"}
    /\ PP!TypeOK /\ PL!TypeOK /\ DL!TypeOK /\ PR!TypeOK /\ TM!TypeOK

\* Concurrent mismatches of tip and parameters share one recovery.
OneRecovery == PP!OneRecovery

\* Every answer was current within the TTL of the tip and the reads behind it;
\* and while an epoch outlasts a read and no instance lags, getProtocolParams()
\* answers with the epoch of the tip it was given or a later one.
AnswersAreCurrent == PP!AnswerIsRecent /\ PP!AnswerNotBehindTip

\* Two pool pages that were served in the belief of the same epoch are pages of
\* one ranking, whatever registered, retired or expired between them, and none is
\* ranked by an earlier snapshot of the stakes than that epoch's.
PagesOfOneRanking == PL!PagesAgree /\ PL!RankedByItsEpoch

\* A keyset walk over pools or DReps holds everything that was registered
\* throughout it, once: "silently short pages are how a DRep disappears from a
\* wallet's list and nobody finds out" (koios/governance.ts).  A page of proposals
\* is the slice of the list at some moment of the call.  A page of DReps holds those of its slice that were registered during the
\* call and nothing that was gone all along, however old the membership is; a
\* proposal is shown with a decision and with votes it had during the call.
RowsWereTrue ==
    /\ PL!ListedWhole /\ DL!ListedWhole /\ PR!PageOfOneMoment
    /\ DL!ServesRegistered /\ PR!FateWasTrue

\* An asset is shown with metadata of its own, in the place the caller asked.
OwnMetadata == TM!OwnMetadata /\ TM!CallersOrder

\* Every call for the tip or the parameters ends, in an answer or an error: no
\* waiter of a load or of a recovery is left behind.
EveryCallEnds == PP!EveryCallEnds
=============================================================================
