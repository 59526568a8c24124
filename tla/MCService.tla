----------------------------- MODULE MCService ------------------------------
(* A small instance of Service.                                             *)
EXTENDS Service, Sequences, TLC

CallerSymmetry == Permutations(Callers)

Mapped == <<0, 0, 1>>

ProxyDef == <<1, 1, 1>>

PeopleDef == {<<0, 0, 0>>, <<0, 0, 1>>}

ClaimsDef == {<<0, 0, 1>>, <<0, 1, 0>>}

Of4(address, prefix) == [family |-> 4, address |-> address, prefix |-> prefix]

Of6(address, prefix) == [family |-> 6, address |-> Mapped \o address, prefix |-> prefix]

Plainest ==
    [provider |-> "koios", projectId |-> "unset", nftcdnSubdomain |-> FALSE, nftcdnKey |-> "unset",
     rateLimitMax |-> 0, configUrl |-> "default", trustProxy |-> {}]

AllEntries ==
    [family : {4}, address : [1..3 -> {0, 1}], prefix : {NoPrefix} \cup 0..4]
    \cup
    [family : {6}, address : [1..6 -> {0, 1}], prefix : {NoPrefix} \cup 0..7]

\* Nobody is named, or the proxy is, in two ways, or everybody, by a range of the
\* other notation or in two halves.
ProxyLists ==
    {{}, {Of4(ProxyDef, NoPrefix)}, {Of6(ProxyDef, 5)}, {Of6(<<0, 0, 0>>, 2)},
     {Of4(<<0, 0, 0>>, 1), Of4(<<1, 0, 0>>, 1)}}

\* Each entry there is, on its own; the lists of proxies, with a limiter; and
\* each combination of credentials.
EnvsDef ==
    {[Plainest EXCEPT !.trustProxy = {entry1}] : entry1 \in AllEntries}
    \cup {[Plainest EXCEPT !.trustProxy = list, !.rateLimitMax = 2] : list \in ProxyLists}
    \cup [provider : {"koios", "blockfrost"}, projectId : {"unset", "blank", "set"},
          nftcdnSubdomain : BOOLEAN, nftcdnKey : {"unset", "malformed", "set"},
          rateLimitMax : {0}, configUrl : {"", "default", "padded"}, trustProxy : {{}}]

Spell(what, head, alphabet, size, decodes, glued) ==
    [what |-> what, head |-> head, alphabet |-> alphabet, size |-> size, decodes |-> decodes,
     glued |-> glued]

\* One identifier of each kind, and an address that another word runs into.
WordsDef ==
    {Spell("stake", "stake", "bech32", 53, FALSE, {}), Spell("addr", "addr", "bech32", 98, FALSE, {}),
     Spell("addr", "addr", "bech32", 98, FALSE, {"before"}), Spell("hash", "", "hex", 64, FALSE, {}),
     Spell("byron", "", "base58", 59, TRUE, {}), Spell("drep", "", "base58", 57, FALSE, {})}

\* Inputs 11 and 18 are spellings of one credential.
CredentialDef == [i \in 11..18 |-> IF i = 18 THEN 11 ELSE i]

\* Two groups of three and one of one for two workers; two spellings, and a
\* doubled address; a bad input.
ListsDef == {<<11, 12, 13, 14, 15, 16, 17>>, <<18, 1, 13, 11, 1>>, <<1, 0>>}
=============================================================================
