---------------------------- MODULE MCCachedReads ----------------------------
(* A small instance of CachedReads.                                         *)
EXTENDS CachedReads, TLC

\* The second pool is first in the second epoch only.
StakeDef == <<<<1, 2, 2>>, <<3, 1, 2>>>>

\* The DRep in the middle of the list has yet to come.
FirstDef ==
    {first \in [Dreps -> {"unknown", "registered", "deregistered"}] :
        \A x \in Dreps : first[x] = "unknown" <=> x = 2}

\* The second proposal has got as far as it may.
FateDef ==
    {[p \in 1..LastProposal |-> IF p = 2 THEN path ELSE <<>>] : path \in
        {<<>>, <<"ratified">>, <<"ratified", "enacted">>, <<"expired">>, <<"expired", "dropped">>,
         <<"dropped">>}}

\* The hex form of the first name is the text of the second; the third is no
\* text at all.
TextDef == <<"abc", "616263", NoKey>>
HexDef == <<"616263", "363136323633", "ff">>

\* An asset with metadata on top, none, and one that is nested in two places.
DatumDef ==
    {<<[nested |-> {}, readable |-> {"top"}], [nested |-> {}, readable |-> {}],
       [nested |-> {"bare", "prefixed"}, readable |-> {"prefixed"}]>>}

MapKeysDef == {TextDef[n] : n \in {1, 2}} \cup {HexDef[n] : n \in Names}

\* Entries under the keys of the first and the third asset.
MapDef ==
    {map \in [MapKeysDef -> {"none", "readable", "empty"}] :
        /\ map[HexKey[2]] = "none"
        /\ map[HexKey[1]] # "empty" /\ map[HexKey[3]] # "empty"}

ListDef == {<<3, 1>>, <<1, 1>>}
=============================================================================
