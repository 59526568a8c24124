------------------------------- MODULE Prices -------------------------------
(***************************************************************************)
(* The price provider (createPriceProvider of src/prices/index.ts): ADA's  *)
(* fiat quotes from CoinGecko (AdaQuotes), and from GeckoTerminal the pool *)
(* lookups of a batch of tokens (TokenPools) and the figures made of them  *)
(* (PriceFigures), with the decimals they are written in.                  *)
(* CoinGecko and GeckoTerminal share nothing but the cache, under keys of  *)
(* their own, and how lookups are shared does not depend on which pool is  *)
(* found; a behaviour runs one of the parts.                               *)
(***************************************************************************)
EXTENDS Integers, Sequences, SequencesExt

CONSTANTS
    \* TokenPools
    Subjects, Batches, Readers, BatchSize, NoBatch,
    \* PriceFigures
    Pools, SubjectOf, Limits, ChartRanges, Asked, Charted, Callers, KindsOf, MaxReserve, MaxDay, MaxTrades,
    \* AdaQuotes
    Currencies, Unpriced, AskedFor, Ranges, Askers, MaxTime, NoTime,
    \* Decimals
    Digits,     \* bound: digits that occur
    MaxDigits,  \* bound: digits of a number
    Exponents   \* bound: exponents that occur

VARIABLES
    part,   \* "pools", "figures", "quotes" or "decimals"
    \* TokenPools
    market, cached, loading, inFlightPools, batches, readers,
    \* PriceFigures
    kinds, reserve, day, trades, poolOf, candlesOf, calls,
    \* AdaQuotes
    now, quotes, answers, asks, wired,
    \* Decimals: a finite number that is not 0
    float

poolVars == <<market, cached, loading, inFlightPools, batches, readers>>

figureVars == <<kinds, reserve, day, trades, poolOf, candlesOf, calls>>

quoteVars == <<now, quotes, answers, asks, wired>>

vars == <<part, poolVars, figureVars, quoteVars, float>>

P == INSTANCE TokenPools

F == INSTANCE PriceFigures WITH Ranges <- ChartRanges

Q == INSTANCE AdaQuotes WITH cached <- answers

ASSUME PricesAssumption ==
    /\ P!PoolConstants /\ F!FigureConstants /\ Q!QuoteConstants
    /\ Digits \subseteq 0..9 /\ MaxDigits \in Nat \ {0} /\ Exponents \subseteq Int

-----------------------------------------------------------------------------
(* Numbers as plain decimal strings (src/prices/decimal.ts).  A finite number *)
(* is the digits it carries and the exponent of the first of them, the way    *)
(* JavaScript prints it; a decimal is its digits before and after the point.  *)

Zeros(n) == [i \in 1..n |-> 0]

\* String(n) has an exponent beyond these (external).
InExponentForm(e) == e <= -7 \/ e >= 21

\* What String(n) prints without an exponent (external): the digits with the
\* point after the one of weight 0.
Plain(digits, e) ==
    IF e < 0 THEN [whole |-> <<0>>, frac |-> Zeros(-e - 1) \o digits]
    ELSE [whole |-> [i \in 1..(e + 1) |-> IF i <= Len(digits) THEN digits[i] ELSE 0],
          frac |-> SubSeq(digits, e + 2, Len(digits))]

StripTrailing(frac) == SelectLastInSeq(frac, LAMBDA d : d # 0)

\* Mutation: the point is placed as if the exponent counted from the left of
\* the first digit.
expandExponentialShort(digits, e) ==
    IF e <= 0 THEN [whole |-> <<0>>, frac |-> Zeros(-e) \o digits]
    ELSE [whole |-> digits \o Zeros(e - Len(digits)), frac |-> <<>>]

\* The exponent form with its point shifted; 1 digit is before the point.
expandExponential(digits, e) ==
    LET pointPos == 1 + e
        shifted ==
            IF pointPos <= 0 THEN [whole |-> <<0>>, frac |-> Zeros(-pointPos) \o digits]
            ELSE IF pointPos >= Len(digits)
                 THEN [whole |-> digits \o Zeros(pointPos - Len(digits)), frac |-> <<>>]
            ELSE [whole |-> SubSeq(digits, 1, pointPos),
                  frac |-> SubSeq(digits, pointPos + 1, Len(digits))]
    IN [shifted EXCEPT !.frac = SubSeq(@, 1, StripTrailing(@))]

toDecimalString(digits, e) ==
    IF InExponentForm(e) THEN expandExponential(digits, e) ELSE Plain(digits, e)

\* What a decimal means: the weight of each digit that is not 0.
Meaning(decimal) ==
    {<<Len(decimal.whole) - i, decimal.whole[i]>> : i \in DOMAIN decimal.whole}
    \cup {<<-i, decimal.frac[i]>> : i \in DOMAIN decimal.frac}

NonZero(places) == {p \in places : p[2] # 0}

KeepsItsDigits(digits, e) ==
    NonZero(Meaning(toDecimalString(digits, e)))
        = NonZero({<<e + 1 - i, digits[i]>> : i \in DOMAIN digits})

\* No zero the number does not need.
IsCanonical(decimal) ==
    /\ decimal.whole # <<>>
    /\ Len(decimal.whole) > 1 => Head(decimal.whole) # 0
    /\ decimal.frac # <<>> => Last(decimal.frac) # 0

-----------------------------------------------------------------------------
(* One part at a time.                                                      *)

\* The shortest digits of a number neither begin nor end with 0.
Floats ==
    {f \in [digits : SeqOf(Digits, MaxDigits), e : Exponents] :
        f.digits # <<>> /\ Head(f.digits) # 0 /\ Last(f.digits) # 0}

NoFloat == [digits |-> <<1>>, e |-> 0]

NoPools == market = [s \in Subjects |-> "top"] /\ P!Start

NoFigures ==
    /\ kinds = [p \in Pools |-> CHOOSE k \in KindsOf[p] : TRUE]
    /\ reserve = [p \in Pools |-> 0]
    /\ F!Start

NoQuotes == wired = TRUE /\ Q!Start

Init ==
    \/ part = "pools" /\ P!Init /\ NoFigures /\ NoQuotes /\ float = NoFloat
    \/ part = "figures" /\ NoPools /\ F!Init /\ NoQuotes /\ float = NoFloat
    \/ part = "quotes" /\ NoPools /\ NoFigures /\ Q!Init /\ float = NoFloat
    \/ part = "decimals" /\ NoPools /\ NoFigures /\ NoQuotes /\ float \in Floats

TokenPools == P!Next /\ UNCHANGED <<figureVars, quoteVars>>

TokenFigures == F!Next /\ UNCHANGED <<poolVars, quoteVars>>

AdaQuotes == Q!Next /\ UNCHANGED <<poolVars, figureVars>>

Next ==
    /\ \/ part = "pools" /\ TokenPools
       \/ part = "figures" /\ TokenFigures
       \/ part = "quotes" /\ AdaQuotes
    /\ UNCHANGED <<part, float>>

Spec == Init /\ [][Next]_vars

\* Every upstream call of a lookup settles.
FairSpec == Spec /\ P!Fairness

-----------------------------------------------------------------------------
(* Properties.                                                              *)

TypeOK ==
    \/ part = "pools" /\ P!TypeOK
    \/ part = "figures" /\ F!TypeOK
    \/ part = "quotes" /\ Q!TypeOK
    \/ part = "decimals" /\ float \in Floats

\* Two overlapping batches never look the same subject up at the same time, and
\* no failure, 404 or unusual quote asset is read or cached as "no market".
PoolsAreTrue == P!OneLookupPerSubject /\ P!AnswersAreTrue

\* Every batch and every reader ends.
EveryoneEnds == P!EveryoneEnds

\* The figures of a token are of the deepest market there is, of the whole
\* window asked for and of that market alone, and whatever is wrong with one
\* token of a batch the others keep theirs.  A quote of ada is of the currencies
\* asked for, without a price nobody quoted, and never said to be younger than
\* it is.
PricesAreTrue ==
    /\ part = "figures" => F!FiguresAreTrue
    /\ part = "quotes" => Q!QuotesAreTrue

\* A number becomes a plain decimal with every digit it carries and no other,
\* at any magnitude.
DecimalsAreExact ==
    part = "decimals" =>
        /\ KeepsItsDigits(float.digits, float.e)
        /\ IsCanonical(toDecimalString(float.digits, float.e))
=============================================================================
