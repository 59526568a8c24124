------------------------------ MODULE Discovery ------------------------------
(***************************************************************************)
(* Which of a wallet's addresses were ever used: the route                 *)
(* /v1/addresses/filter-used (src/http/routes/addresses.ts) and the two    *)
(* reads behind it.  An address is looked up on its own (in bodies on      *)
(* Koios, see KoiosPacking, one by one on Blockfrost, see FanOut).  Koios  *)
(* does not say which of a group of payment credentials matched, so groups *)
(* are probed by a few workers and split until the members are known       *)
(* (src/providers/koios/addresses.ts); Blockfrost cannot answer that.      *)
(*                                                                         *)
(* Meanwhile the chain grows: what is used stays used, and more may be.    *)
(***************************************************************************)
EXTENDS Integers, Sequences, SequencesExt, FiniteSets

CONSTANTS
    Plain,        \* inputs that are payment addresses
    CredentialOf, \* CredentialOf[i]: what the other inputs are the credential of
    Bad,          \* an input that is neither
    Lists,        \* bound: the lists of inputs sent
    ProbeSize,    \* CREDENTIAL_PROBE_SIZE
    Probers,      \* the workers: as many as CREDENTIAL_PROBE_CONCURRENCY
    MaxUses       \* bound: uses while a request runs

Keys == Plain \cup {CredentialOf[i] : i \in DOMAIN CredentialOf}

DiscoveryConstants ==
    /\ Plain \cap DOMAIN CredentialOf = {} /\ Bad \notin Plain \cup DOMAIN CredentialOf
    /\ Lists \subseteq Seq(Plain \cup DOMAIN CredentialOf \cup {Bad})
    /\ ProbeSize \in Nat \ {0}
    /\ Cardinality(Probers) \in Nat \ {0} /\ Probers = 1..Cardinality(Probers)
    /\ MaxUses \in Nat

VARIABLES
    upstream,  \* "koios" or "blockfrost"
    used,      \* what the chain has seen
    uses,      \* uses so far
    wallet,    \* the request: its inputs, what was used before it, its answer
    lookups,   \* lookups[a]: an address that was looked up -> whether it was used
    nextGroup, \* the next group of credentials to claim
    probers,   \* the state of each worker
    results    \* results[g]: the used credentials of group g

discoveryVars == <<upstream, used, uses, wallet, lookups, nextGroup, probers, results>>

NoWallet == [st |-> "idle", inputs |-> <<>>, before |-> {}, answer |-> <<>>]

\* pending: the groups still to probe, the next one first.
IdleProber == [group |-> 0, pending |-> <<>>, found |-> <<>>]

\* The elements at some places of a list, in its order; those in a set.
At(list, places) == FlattenSeq([i \in DOMAIN list |-> IF i \in places THEN <<list[i]>> ELSE <<>>])
Those(list, set) == At(list, {i \in DOMAIN list : list[i] \in set})

Distinct(list) == At(list, {i \in DOMAIN list : \A j \in 1..(i - 1) : list[j] # list[i]})

Addresses == Those(wallet.inputs, Plain)

\* Two inputs may be spellings of one credential.
CredentialsOf(inputs) ==
    LET asked == Those(inputs, DOMAIN CredentialOf)
    IN Distinct([i \in DOMAIN asked |-> CredentialOf[asked[i]]])

\* The credentials in groups of ProbeSize.
Groups(inputs) ==
    LET all == CredentialsOf(inputs)
    IN [g \in 1..((Len(all) + ProbeSize - 1) \div ProbeSize) |->
            SubSeq(all, (g - 1) * ProbeSize + 1,
                   IF g * ProbeSize < Len(all) THEN g * ProbeSize ELSE Len(all))]

-----------------------------------------------------------------------------
(* usedPaymentCredentials.                                                  *)

\* Mutation: the member in the middle falls between the halves.
SplitApart(group) ==
    LET middle == Len(group) \div 2
    IN <<SubSeq(group, 1, middle), SubSeq(group, middle + 2, Len(group))>>

\* The halves of a group, the first one rounded up.
Split(group) ==
    LET middle == (Len(group) + 1) \div 2
    IN <<SubSeq(group, 1, middle), SubSeq(group, middle + 1, Len(group))>>

\* What is left to probe, and what was found, after the head of pending was
\* answered: nothing of it is used, it is a single one, or it is split.
Probed(prober) ==
    LET group == Head(prober.pending)
        rest == Tail(prober.pending)
    IN IF ToSet(group) \cap used = {} THEN [prober EXCEPT !.pending = rest]
       ELSE IF Len(group) = 1 THEN [prober EXCEPT !.pending = rest, !.found = @ \o group]
       ELSE [prober EXCEPT !.pending = Split(group) \o rest]

\* A worker with group g, or none if there is no such group.
Prober(groups, g) ==
    IF g \in DOMAIN groups THEN [group |-> g, pending |-> <<groups[g]>>, found |-> <<>>]
    ELSE IdleProber

-----------------------------------------------------------------------------
(* The route.                                                               *)

\* Everything is checked before anything is read; the workers start at once.
Asked(list) ==
    LET inputs == Distinct(list)
        groups == Groups(inputs)
        started == [NoWallet EXCEPT !.inputs = inputs, !.before = used]
    IN
    /\ wallet.st = "idle"
    /\ \/ /\ Bad \in ToSet(list)
          /\ wallet' = [started EXCEPT !.st = "400"]
          /\ UNCHANGED <<lookups, nextGroup, probers, results>>
       \/ /\ Bad \notin ToSet(list) /\ upstream = "blockfrost" /\ groups # <<>>
          /\ wallet' = [started EXCEPT !.st = "501"]
          /\ UNCHANGED <<lookups, nextGroup, probers, results>>
       \/ /\ Bad \notin ToSet(list) /\ (upstream = "koios" \/ groups = <<>>)
          /\ wallet' = [started EXCEPT !.st = "reading"]
          /\ lookups' = <<>>
          /\ nextGroup' = 1 + (IF Len(groups) < Cardinality(Probers) THEN Len(groups)
                               ELSE Cardinality(Probers))
          /\ probers' = [w \in Probers |-> Prober(groups, w)]
          /\ results' = [g \in DOMAIN groups |-> <<>>]
    /\ UNCHANGED <<upstream, used, uses>>

\* The inputs whose address or credential was used, in the order they came in.
Answer(found) ==
    Those(wallet.inputs, {a \in DOMAIN lookups : lookups[a]}
                         \cup {i \in DOMAIN CredentialOf : CredentialOf[i] \in found})

Busy == {w \in Probers : probers[w].group # 0}

\* Both reads have ended.
Answers ==
    /\ wallet.st = "reading" /\ Busy = {} /\ ToSet(Addresses) = DOMAIN lookups
    /\ wallet' = [wallet EXCEPT !.st = "done", !.answer = Answer(UNION {ToSet(results[g]) : g \in DOMAIN results})]
    /\ UNCHANGED <<upstream, used, uses, lookups, nextGroup, probers, results>>

LooksUp(a) ==
    /\ wallet.st = "reading" /\ a \in ToSet(Addresses) \ DOMAIN lookups
    /\ lookups' = [b \in DOMAIN lookups \cup {a} |-> IF b = a THEN a \in used ELSE lookups[b]]
    /\ UNCHANGED <<upstream, used, uses, wallet, nextGroup, probers, results>>

\* A probe is answered.  A worker that is through with its group claims another.
Probes(w) ==
    LET after == Probed(probers[w]) IN
    /\ probers[w].group # 0
    /\ \/ /\ after.pending # <<>>
          /\ probers' = [probers EXCEPT ![w] = after]
          /\ UNCHANGED <<nextGroup, results>>
       \/ /\ after.pending = <<>>
          /\ results' = [results EXCEPT ![after.group] = after.found]
          /\ probers' = [probers EXCEPT ![w] = Prober(Groups(wallet.inputs), nextGroup)]
          /\ nextGroup' = IF nextGroup \in DOMAIN results THEN nextGroup + 1 ELSE nextGroup
    /\ UNCHANGED <<upstream, used, uses, wallet, lookups>>

\* A probe or a lookup fails and the request with it; the other workers are not
\* told, and go on to the last group.
Rejected == wallet' = [wallet EXCEPT !.st = IF @ = "reading" THEN "failed" ELSE @]

ProbeFails(w) ==
    /\ probers[w].group # 0
    /\ probers' = [probers EXCEPT ![w] = IdleProber]
    /\ Rejected
    /\ UNCHANGED <<upstream, used, uses, lookups, nextGroup, results>>

LookupFails(a) ==
    /\ wallet.st = "reading" /\ a \in ToSet(Addresses) \ DOMAIN lookups
    /\ Rejected
    /\ UNCHANGED <<upstream, used, uses, lookups, nextGroup, probers, results>>

\* The next request, when the last one is over.
Over ==
    /\ wallet.st \in {"done", "failed", "400", "501"} /\ Busy = {}
    /\ wallet' = NoWallet /\ lookups' = <<>> /\ results' = <<>> /\ nextGroup' = 1
    /\ UNCHANGED <<upstream, used, uses, probers>>

\* The chain sees an address or a credential.
Uses(k) ==
    /\ k \notin used /\ uses < MaxUses
    /\ used' = used \cup {k} /\ uses' = uses + 1
    /\ UNCHANGED <<upstream, wallet, lookups, nextGroup, probers, results>>

DiscoveryStart ==
    /\ uses = 0 /\ wallet = NoWallet /\ lookups = <<>> /\ nextGroup = 1 /\ results = <<>>
    /\ probers = [w \in Probers |-> IdleProber]

DiscoveryInit ==
    /\ upstream \in {"koios", "blockfrost"} /\ used \in SUBSET Keys
    /\ DiscoveryStart

DiscoveryNext ==
    \/ \E l \in Lists : Asked(l)
    \/ \E a \in Plain : LooksUp(a) \/ LookupFails(a)
    \/ \E w \in Probers : Probes(w) \/ ProbeFails(w)
    \/ \E k \in Keys : Uses(k)
    \/ Answers \/ Over

-----------------------------------------------------------------------------
(* Properties.                                                              *)

TypeOK ==
    /\ used \subseteq Keys /\ uses \in 0..MaxUses
    /\ wallet.st \in {"idle", "reading", "done", "failed", "400", "501"}
    /\ \A w \in Probers : probers[w].group \in {0} \cup DOMAIN results

\* An answer names every input that was used before it was asked for, nothing
\* that is not used by now, each input once and in the order asked: whatever
\* is used while groups are split, and whichever worker has which group.
DiscoveryIsExact ==
    wallet.st = "done" =>
        LET keyOf(i) == IF i \in Plain THEN i ELSE CredentialOf[i]
            inputs == wallet.inputs
            answer == wallet.answer
        IN /\ ToSet(answer) \subseteq ToSet(inputs)
           /\ \A i, j \in DOMAIN answer : i < j =>
                 \E k, l \in DOMAIN inputs : k < l /\ inputs[k] = answer[i] /\ inputs[l] = answer[j]
           /\ \A i, j \in DOMAIN answer : answer[i] = answer[j] => i = j
           /\ \A i \in ToSet(inputs) : keyOf(i) \in wallet.before => i \in ToSet(answer)
           /\ \A i \in ToSet(answer) : keyOf(i) \in used
=============================================================================
