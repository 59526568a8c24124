--------------------------- MODULE MCMemoryCache ---------------------------
(* Small instances of MemoryCache.  A name is the sequence of its segments, *)
(* so StartsWith is the prefix order: '' is <<>>, "koios:" is <<"koios">>.  *)
EXTENDS MemoryCache, SequencesExt

CONSTANTS a1, a2, c1, c2

EmptyName == <<>>

MCStartsWith(s, p) == IsPrefix(p, s)

Tip   == <<"koios", "tip">>
Meta  == <<"koios", "meta">>
Pool  == <<"price", "pool">>

\* Two keys of two namespaces compete for one place.
TwoKeys  == {Tip, Pool}
TwoNames == {EmptyName, Tip, Pool}
SetKeys  == {Pool}

\* Two providers' namespaces over one shared cache.
ScopedKeys  == {Meta}
ScopedNames == {EmptyName, <<"koios">>, <<"price">>, Meta}

OwnToken  == [k \in Keys |-> k]
RootToken == [k \in Keys |-> <<>>]

TtlOne    == [k \in Keys |-> 1]
StaleOne  == [k \in Keys |-> 1]

ReadSymmetry == Permutations({a1, a2}) \cup Permutations({c1, c2})
=============================================================================
