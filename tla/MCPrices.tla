------------------------------ MODULE MCPrices ------------------------------
(* A small instance of Prices.                                              *)
EXTENDS Prices

\* Two pools of one token, which may swap places, and one of another.
SubjectDef == <<1, 1, 2>>

Whole == [direct |-> TRUE, figures |-> "whole", first |-> 1, zero |-> FALSE]

\* The second pool may be quoted in another asset, or be new: without 24h
\* figures, with a first candle that opened at 0.  The third may overflow.
KindsDef ==
    <<{Whole},
      {[Whole EXCEPT !.direct = FALSE],
       [Whole EXCEPT !.figures = "missing", !.first = 2, !.zero = TRUE]},
      {Whole, [Whole EXCEPT !.figures = "overflow"]}>>

\* A window of two days and a chart of one.
LimitsDef == [w \in {"7d", "1d"} |-> IF w = "7d" THEN 2 ELSE 1]

Asks(s, spelling) == [subject |-> s, spelling |-> spelling]

\* Two tokens of which one is named in two spellings; and that one's chart.
AskedDef == {<<Asks(2, "lower"), Asks(1, "upper"), Asks(1, "lower")>>}

ChartedDef == {<<Asks(1, "lower")>>}

\* Two orders of the same currencies.
AskedForDef == {<<1, 2>>, <<2, 1>>}

ExponentsDef == -9..-5 \cup {-1, 0, 1} \cup 19..23
=============================================================================
