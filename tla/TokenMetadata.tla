---------------------------- MODULE TokenMetadata ----------------------------
(***************************************************************************)
(* getTokenMetadata of src/providers/koios/assets.ts and                   *)
(* src/providers/blockfrost/assets.ts, for the assets of one policy.  A    *)
(* token's metadata comes from the registry, from the CIP-25 map of its    *)
(* mint, or from its CIP-68 datum, in that order.  Koios hands over the    *)
(* raw map and datum, and the service looks the asset up in them;          *)
(* Blockfrost has decoded them.  Koios rows are cached by subject, and a   *)
(* batch asks for the ones that are not held; Blockfrost is asked for each *)
(* subject on its own.                                                     *)
(*                                                                         *)
(* A name is abstracted to the keys a map may hold it under, an entry to   *)
(* whether any of its fields can be read, and metadata to its source and   *)
(* the place it was read from.  The fields themselves, decimals and traits *)
(* are left out.  Nobody clears the cache, so that a guarded write always  *)
(* lands (MemoryCache has the clears, KoiosPacking the bodies of a batch,  *)
(* WorkerPool the concurrent lookups); when an entry expires is left open. *)
(***************************************************************************)
EXTENDS Integers, Sequences, SequencesExt, FiniteSets, FiniteSetsExt

CONSTANTS
    Names,    \* names of the assets of the policy
    TextKey,  \* TextKey[n]: the name as text, NoKey if it is not valid UTF-8
    HexKey,   \* HexKey[n]: its hex form
    NoKey,
    PolicyMaps, \* bound: what the keys of the policy's map may hold
    Datums,   \* bound: the CIP-68 datums of the assets
    Wallets,  \* calls of getTokenMetadata(), numbered as they come
    AskLists, \* what they may ask for
    MaxEdits  \* bound: mints and registrations

TextKeys == {TextKey[n] : n \in Names} \ {NoKey}
MapKeys == TextKeys \cup {HexKey[n] : n \in Names}

VARIABLES
    driver,    \* config.provider
    version,   \* the version the mint declares; all but 2 are read as 1
    byPolicy,  \* byPolicy[k]: the entry under k: "none", "readable" or "empty"
    cip68,     \* cip68[n]: the datum of n
    registry,  \* the names in the registry
    minted,    \* the names upstream knows
    edits,
    held,      \* held[n]: the cached metadata
    wallets,   \* the state of each call
    since      \* ghost: the names that were minted and registered at first

mint == <<version, byPolicy, cip68>>
upstreamTokens == <<registry, minted, edits>>
vars == <<driver, mint, upstreamTokens, held, wallets, since>>

\* Blockfrost shows no map and no datum.
NoMap == [k \in MapKeys |-> "none"]
NoDatums == [n \in Names |-> [nested |-> {}, readable |-> {}]]

Nothing == [source |-> "absent", entry |-> NoKey]

\* pending: positions of the list whose row is awaited; rows: what came.
IdleWallet == [st |-> "idle", list |-> <<>>, pending |-> {}, rows |-> <<>>, answer |-> <<>>]

Init ==
    /\ driver \in {"koios", "blockfrost"}
    /\ \/ /\ driver = "koios"
          /\ version \in {1, 2} /\ byPolicy \in PolicyMaps /\ cip68 \in Datums
       \/ /\ driver = "blockfrost"
          /\ version = 1 /\ byPolicy = NoMap /\ cip68 = NoDatums
    /\ registry = {} /\ edits = 0
    /\ minted \in {Names, Names \ {Min(Names)}}
    /\ held = [n \in Names |-> Nothing]
    /\ wallets = [c \in Wallets |-> IdleWallet]
    /\ since = minted

-----------------------------------------------------------------------------
(* Where the metadata of an asset is.                                       *)

WithoutNoKey(keys) == SelectSeq(keys, LAMBDA k : k # NoKey)

\* Mutant of Cip25Keys: the hex form is always tried first.
Cip25KeysHexFirst(n) == WithoutNoKey(<<HexKey[n], TextKey[n]>>)

\* cip25Keys: the form of the version first, the other one as a fallback.
Cip25Keys(n) ==
    WithoutNoKey(IF version = 2 THEN <<HexKey[n], TextKey[n]>> ELSE <<TextKey[n], HexKey[n]>>)

\* extractCip25: the first key that has an entry with any field.
Cip25(n) == SelectSeq(Cip25Keys(n), LAMBDA k : byPolicy[k] = "readable")

\* unwrapNested, extractCip68: version 4 nests the map under the name without
\* its label, or with it; where there is none the map on top is read.
Cip68(n) ==
    LET places == SelectSeq(<<"bare", "prefixed">>, LAMBDA p : p \in cip68[n].nested)
        place == IF places = <<>> THEN "top" ELSE Head(places)
    IN  IF place \in cip68[n].readable THEN <<place>> ELSE <<>>

From(source, entry) == [source |-> source, entry |-> entry]

\* mapTokenMetadata: registry, then CIP-25, then CIP-68, then none.
Metadata(n) ==
    IF n \in registry THEN From("registry", n)
    ELSE IF Cip25(n) # <<>> THEN From("cip25", Head(Cip25(n)))
    ELSE IF Cip68(n) # <<>> THEN From("cip68", Head(Cip68(n)))
    ELSE From("none", NoKey)

\* A row of Blockfrost: what it has decoded, by the standard it was validated
\* under (external), after the registry.
Decoded(n) ==
    IF n \in registry THEN {From("registry", n)}
    ELSE {From("none", NoKey), From("cip25", n), From("cip68", n)}

-----------------------------------------------------------------------------
(* Upstream (external).                                                     *)

Editing ==
    /\ edits < MaxEdits
    /\ \E c \in Wallets : wallets[c].st = "reading"
    /\ edits' = edits + 1
    /\ UNCHANGED <<driver, mint, held, wallets, since>>

Mints(n) == Editing /\ n \notin minted /\ minted' = minted \cup {n} /\ UNCHANGED registry

Registers(n) == Editing /\ n \in minted \ registry /\ registry' = registry \cup {n}
                /\ UNCHANGED minted

-----------------------------------------------------------------------------
(* The call.                                                                *)

Call(c, w) ==
    /\ wallets' = [wallets EXCEPT ![c] = w]
    /\ UNCHANGED <<driver, mint, upstreamTokens, since>>

\* The subjects that are not held, or no longer (TOKEN_METADATA_TTL_MS), are
\* asked for; with none the call answers.
Asks(c, list) ==
    /\ wallets[c].st = "idle" /\ \A d \in Wallets : d < c => wallets[d].st # "idle"
    /\ \E live \in SUBSET {n \in ToSet(list) : held[n] # Nothing} :
          LET missing == {i \in DOMAIN list : list[i] \notin live} IN
          Call(c, [IdleWallet EXCEPT !.st = "reading", !.list = list, !.pending = missing,
                !.rows = [i \in DOMAIN list |->
                             IF i \in missing THEN Nothing ELSE held[list[i]]]])
    /\ UNCHANGED held

\* The row of one subject, or none for one that upstream does not know.  What
\* Koios answers is in one of the bodies.
RowArrives(c, i) ==
    LET n == wallets[c].list[i] IN
    /\ wallets[c].st = "reading" /\ i \in wallets[c].pending
    /\ \E row \in IF n \notin minted THEN {Nothing}
                  ELSE IF driver = "koios" THEN {Metadata(n)} ELSE Decoded(n) :
          Call(c, [wallets[c] EXCEPT !.pending = @ \ {i}, !.rows[i] = row])
    /\ UNCHANGED held

\* A body, or a lookup, fails, and the call with it; nothing is cached.
RowFails(c) ==
    /\ wallets[c].st = "reading" /\ wallets[c].pending # {}
    /\ Call(c, [IdleWallet EXCEPT !.st = "failed"])
    /\ UNCHANGED held

\* found: the last row of the batch for this subject.
Found(w, n) ==
    LET rows == {i \in DOMAIN w.list : w.list[i] = n /\ w.rows[i] # Nothing}
    IN  IF rows = {} THEN Nothing ELSE w.rows[Max(rows)]

\* Mutant of Answer: the answers come as the cache and the rows gave them.
AnswerAsFound(w) ==
    LET all == SetToSeq(ToSet(w.list))
    IN  SelectSeq([i \in DOMAIN all |-> [of |-> all[i], meta |-> Found(w, all[i])]],
                  LAMBDA a : a.meta # Nothing)

\* The caller's order; a subject that is unknown is left out.
Answer(w) ==
    SelectSeq([i \in DOMAIN w.list |-> [of |-> w.list[i],
                  meta |-> IF driver = "koios" THEN Found(w, w.list[i]) ELSE w.rows[i]]],
              LAMBDA a : a.meta # Nothing)

\* All rows are there: Koios ones are cached, and the call answers.
Resolves(c) ==
    LET w == wallets[c] IN
    /\ w.st = "reading" /\ w.pending = {}
    /\ held' = [n \in Names |-> IF driver = "koios" /\ Found(w, n) # Nothing
                                THEN Found(w, n) ELSE held[n]]
    /\ Call(c, [IdleWallet EXCEPT !.st = "done", !.list = w.list, !.answer = Answer(w)])

CallSteps(c) ==
    \/ \E i \in DOMAIN wallets[c].list : RowArrives(c, i)
    \/ RowFails(c)
    \/ Resolves(c)

Next ==
    \/ \E n \in Names : Mints(n) \/ Registers(n)
    \/ \E c \in Wallets, list \in AskLists : Asks(c, list)
    \/ \E c \in Wallets : CallSteps(c)

Spec == Init /\ [][Next]_vars

-----------------------------------------------------------------------------
(* Properties.                                                              *)

\* The shape of the state.
TypeOK ==
    /\ driver \in {"koios", "blockfrost"} /\ version \in {1, 2}
    /\ registry \subseteq minted /\ minted \subseteq Names
    /\ \A c \in Wallets :
          /\ wallets[c].st \in {"idle", "reading", "done", "failed"}
          /\ wallets[c].pending \subseteq DOMAIN wallets[c].rows
          /\ Len(wallets[c].answer) <= Len(wallets[c].list)

\* The key an asset's entry is filed under by a minter who kept to CIP-25.
SpecKey(n) == IF version = 2 THEN HexKey[n] ELSE TextKey[n]

\* An asset whose entry is readable under its own key is never shown with the
\* entry of another one, a datum or nothing: "it can return a different asset's
\* metadata" (koios/assets.ts).  And a datum is used only where no entry is.
OwnMetadata ==
    driver = "koios" => \A c \in Wallets : \A a \in ToSet(wallets[c].answer) :
        LET key == SpecKey(a.of) IN
        /\ (key # NoKey /\ byPolicy[key] = "readable") =>
              a.meta \in {From("cip25", key), From("registry", a.of)}
        /\ a.meta.source \in {"cip68", "none"} =>
              \A k \in {TextKey[a.of], HexKey[a.of]} \ {NoKey} : byPolicy[k] # "readable"
        /\ (a.meta.source = "none" /\ cip68[a.of].nested = {}) =>
              "top" \notin cip68[a.of].readable

\* The answer lists what the caller asked for in its order, as often as it was
\* asked for, with every asset that upstream knew throughout; on Koios an asset
\* is there at all its places or at none.
CallersOrder ==
    \A c \in Wallets : wallets[c].st = "done" =>
        LET w == wallets[c]
            listed(n) == Cardinality({i \in DOMAIN w.list : w.list[i] = n})
            answered(n) == Cardinality({i \in DOMAIN w.answer : w.answer[i].of = n})
        IN  /\ \E places \in SUBSET DOMAIN w.list :
                  [i \in DOMAIN w.answer |-> w.answer[i].of] =
                      [i \in 1..Cardinality(places) |-> w.list[SetToSortSeq(places, <)[i]]]
            /\ \A n \in ToSet(w.list) :
                  /\ n \in since => answered(n) = listed(n)
                  /\ driver = "koios" => answered(n) \in {0, listed(n)}
                  /\ n \notin minted => answered(n) = 0
=============================================================================
