---------------------------- MODULE PriceFigures ----------------------------
(***************************************************************************)
(* The figures of native tokens (src/prices/geckoterminal.ts): the pool of *)
(* a subject is resolved and cached, its candles are read and cached under *)
(* a key of their own, and the figures of a batch come from either.  How a *)
(* batch resolves its pools together is TokenPools; here every subject is  *)
(* resolved on its own, at any moment.                                     *)
(*                                                                         *)
(* Meanwhile the reserves of the pools change, so that another one becomes *)
(* the market of a subject, and days pass.  A number is abstracted to what *)
(* it is of: a price to the candle it is the close of, a volume to the     *)
(* candles it is the sum of.  The clock is abstracted to Expires.          *)
(***************************************************************************)
EXTENDS Integers, Sequences, SequencesExt, FiniteSets

CONSTANTS
    Pools,      \* pools, in the order upstream lists them: 1..n
    SubjectOf,  \* SubjectOf[p]: the token p trades
    Limits,     \* Limits[w]: the days of a window or range
    Ranges,     \* the windows of Limits that are ranges of a chart
    Asked,      \* the batches of subjects asked for, as [subject, spelling]
    Charted,    \* the subject of a chart asked for, as a batch of one
    Callers,    \* concurrent calls
    KindsOf,    \* bound: KindsOf[p], the kinds p is one of
    MaxReserve, \* bound: reserves
    MaxDay,     \* bound: days
    MaxTrades   \* bound: changes of a reserve

Tokens == {SubjectOf[p] : p \in Pools}

\* direct: the subject is its base token and ADA its quote token.  figures: its
\* 24h figures are whole, missing, or a number that overflows or divides by 0.
\* first: the day of its first candle.  zero: that candle opened at 0.
Kinds ==
    [direct : BOOLEAN, figures : {"whole", "missing", "overflow"}, first : 1..MaxDay, zero : BOOLEAN]

\* No pool: the null that is cached, and undefined.
NoPool == 0

FigureConstants ==
    /\ Cardinality(Pools) \in Nat /\ Pools = 1..Cardinality(Pools)
    /\ \A p \in Pools : KindsOf[p] \subseteq Kinds
    /\ Ranges \subseteq DOMAIN Limits /\ "24h" \notin DOMAIN Limits
    /\ \A w \in DOMAIN Limits : Limits[w] \in Nat \ {0}
    /\ \A a \in Asked \cup Charted : a \in Seq(ToSet(a))
    /\ MaxReserve \in Nat \ {0} /\ MaxDay \in Nat \ {0} /\ MaxTrades \in Nat

VARIABLES
    kinds,     \* what upstream says of each pool, all along
    reserve,   \* reserve[p]: its liquidity, 0 also for a pool without the field
    day,       \* the current day
    trades,    \* changes of a reserve so far
    poolOf,    \* the cached pools: subject -> pool or NoPool
    candlesOf, \* the cached candles: key -> list, oldest first
    calls      \* the state of each call

vars == <<kinds, reserve, day, trades, poolOf, candlesOf, calls>>

With(f, k, x) == [j \in DOMAIN f \cup {k} |-> IF j = k THEN x ELSE f[j]]
Without(f, k) == [j \in DOMAIN f \ {k} |-> f[j]]

NoCall == [st |-> "idle", window |-> "24h", asked |-> <<>>, pools |-> <<>>, candles |-> <<>>,
           answer |-> <<>>, refused |-> FALSE]

-----------------------------------------------------------------------------
(* The pool of a subject.                                                   *)

isDirectAdaPool(s, p) == SubjectOf[p] = s /\ kinds[p].direct

\* Mutation: upstream's order is trusted.
pickMostLiquidFirst(s, pools) ==
    FoldLeft(LAMBDA best, p : IF best = NoPool /\ isDirectAdaPool(s, p) THEN p ELSE best,
             NoPool, pools)

pickMostLiquidAdaPool(s, pools) ==
    FoldLeft(LAMBDA best, p :
                 IF isDirectAdaPool(s, p) /\ (best = NoPool \/ reserve[p] > reserve[best])
                 THEN p ELSE best,
             NoPool, pools)

\* What upstream lists for a subject: its pools, on either side of the pair.
Listed(s) ==
    FoldLeft(LAMBDA list, p : IF SubjectOf[p] = s THEN Append(list, p) ELSE list,
             <<>>, [p \in Pools |-> p])

-----------------------------------------------------------------------------
(* Figures.                                                                 *)

\* A RangeError in the place of a figure.
Thrown == [subject |-> 0]

\* Mutation: a figure that overflows throws.
activityFromPoolThrows(s, p) ==
    CASE p = NoPool -> <<>>
      [] p # NoPool /\ kinds[p].figures = "missing" -> <<>>
      [] p # NoPool /\ kinds[p].figures = "overflow" -> <<Thrown>>
      [] OTHER -> <<[subject |-> s, pool |-> p]>>

\* The 24h figures, or nothing: a subject without a pool, with a figure missing,
\* or with one that is no finite number is left out.
activityFromPool(s, p) ==
    IF p = NoPool \/ kinds[p].figures # "whole" THEN <<>>
    ELSE <<[subject |-> s, pool |-> p]>>

\* The candles upstream has of a pool, newest first (external).
UpstreamCandles(p, limit) ==
    LET n == IF kinds[p].first > day THEN 0 ELSE day - kinds[p].first + 1
    IN [i \in 1..(IF n < limit THEN n ELSE limit) |-> [pool |-> p, day |-> day + 1 - i]]

\* Mutation: the candles stay in upstream's order.
fetchOhlcvAsListed(p, limit) == UpstreamCandles(p, limit)

fetchOhlcv(p, limit) == Reverse(UpstreamCandles(p, limit))

\* Mutation: the pool is not part of the key.
ohlcvCacheKeyOfSubject(s, p, window) == <<s, window>>

ohlcvCacheKey(s, p, window) == <<s, p, window>>

\* The figures of a longer window, or nothing: without candles, and where the
\* oldest one opened at 0, there is no change to report.  Volumes that overflow
\* when they are added up do throw here.
activityFromCandles(s, p, candles) ==
    IF p = NoPool \/ candles = <<>> THEN <<>>
    ELSE IF kinds[Head(candles).pool].zero /\ Head(candles).day = kinds[Head(candles).pool].first
         THEN <<>>
    ELSE IF kinds[p].figures = "overflow" /\ Len(candles) > 1 THEN <<Thrown>>
    ELSE <<[subject |-> s, pool |-> p, before |-> Head(candles), now |-> Last(candles),
            volume |-> ToSet(candles)]>>

-----------------------------------------------------------------------------
(* A call.                                                                  *)

\* Mutation: a subject that is asked for in two spellings stays twice.
dedupeBySpelling(asked) ==
    LET kept == FoldLeft(LAMBDA seen, a : IF a \in ToSet(seen) THEN seen ELSE Append(seen, a),
                         <<>>, asked)
    IN [i \in DOMAIN kept |-> kept[i].subject]

\* Each subject once, in lower case, in the order of first appearance.
dedupeSubjects(asked) ==
    FoldLeft(LAMBDA seen, a :
                 IF a.subject \in ToSet(seen) THEN seen ELSE Append(seen, a.subject),
             <<>>, asked)

Starts(c) ==
    /\ calls[c].st = "idle"
    /\ \E w \in DOMAIN Limits \cup {"24h"} : \E a \in IF w \in Ranges THEN Charted ELSE Asked :
         calls' = [calls EXCEPT ![c] = [NoCall EXCEPT !.st = "resolving", !.window = w, !.asked = a]]
    /\ UNCHANGED <<kinds, reserve, day, trades, poolOf, candlesOf>>

Unresolved(call) == {s \in ToSet(dedupeSubjects(call.asked)) : s \notin DOMAIN call.pools}
Unread(call) ==
    {s \in DOMAIN call.pools : call.pools[s] # NoPool /\ s \notin DOMAIN call.candles}

\* A call goes on in the turn in which its last outstanding read ended.
Went(call) ==
    LET order == dedupeSubjects(call.asked)
        answered(answer) ==
            IF Thrown \in ToSet(answer) THEN [call EXCEPT !.st = "failed"]
            ELSE [call EXCEPT !.st = "done", !.answer = answer]
        candles(s) == IF s \in DOMAIN call.candles THEN call.candles[s] ELSE <<>>
    IN
    CASE Unresolved(call) # {} -> call
      [] Unresolved(call) = {} /\ call.window = "24h" ->
           answered(FlattenSeq([i \in DOMAIN order |-> activityFromPool(order[i], call.pools[order[i]])]))
      [] Unresolved(call) = {} /\ call.window # "24h" /\ Unread(call) # {} ->
           [call EXCEPT !.st = "reading"]
      [] OTHER ->
           IF call.window \in Ranges THEN answered(candles(order[1]))
           ELSE answered(FlattenSeq([i \in DOMAIN order |->
                    activityFromCandles(order[i], call.pools[order[i]], candles(order[i]))]))

\* resolveAdaPool: the cached pool, or the pick of the list upstream answers.
Resolves(c, s) ==
    /\ calls[c].st = "resolving" /\ s \in Unresolved(calls[c])
    /\ LET call == calls[c]
           pool == IF s \in DOMAIN poolOf THEN poolOf[s] ELSE pickMostLiquidAdaPool(s, Listed(s))
       IN /\ poolOf' = With(poolOf, s, pool)
          /\ calls' = [calls EXCEPT ![c] = Went([call EXCEPT !.pools = With(call.pools, s, pool)])]
    /\ UNCHANGED <<kinds, reserve, day, trades, candlesOf>>

\* The candles of one pool: cached, or read.
Reads(c, s) ==
    /\ calls[c].st = "reading" /\ s \in Unread(calls[c])
    /\ LET call == calls[c]
           p == call.pools[s]
           key == ohlcvCacheKey(s, p, call.window)
           list == IF key \in DOMAIN candlesOf THEN candlesOf[key]
                   ELSE fetchOhlcv(p, Limits[call.window])
       IN /\ candlesOf' = With(candlesOf, key, list)
          /\ calls' = [calls EXCEPT ![c] = Went([call EXCEPT !.candles = With(call.candles, s, list)])]
    /\ UNCHANGED <<kinds, reserve, day, trades, poolOf>>

\* A request fails, and its call with it.
Fails(c) ==
    /\ calls[c].st \in {"resolving", "reading"}
    /\ calls' = [calls EXCEPT ![c].st = "failed", ![c].refused = TRUE]
    /\ UNCHANGED <<kinds, reserve, day, trades, poolOf, candlesOf>>

Returns(c) ==
    /\ calls[c].st \in {"done", "failed"}
    /\ calls' = [calls EXCEPT ![c] = NoCall]
    /\ UNCHANGED <<kinds, reserve, day, trades, poolOf, candlesOf>>

-----------------------------------------------------------------------------
(* Time and the market.                                                     *)

ExpiresPool(s) ==
    /\ s \in DOMAIN poolOf
    /\ poolOf' = Without(poolOf, s)
    /\ UNCHANGED <<kinds, reserve, day, trades, candlesOf, calls>>

ExpiresCandles(key) ==
    /\ key \in DOMAIN candlesOf
    /\ candlesOf' = Without(candlesOf, key)
    /\ UNCHANGED <<kinds, reserve, day, trades, poolOf, calls>>

Trades(p) ==
    /\ trades < MaxTrades /\ trades' = trades + 1
    /\ \E r \in {0, MaxReserve} : r # reserve[p] /\ reserve' = [reserve EXCEPT ![p] = r]
    /\ UNCHANGED <<kinds, day, poolOf, candlesOf, calls>>

DayPasses ==
    /\ day < MaxDay
    /\ day' = day + 1
    /\ UNCHANGED <<kinds, reserve, trades, poolOf, candlesOf, calls>>

Start ==
    /\ day = 1 /\ trades = 0
    /\ poolOf = <<>> /\ candlesOf = <<>>
    /\ calls = [c \in Callers |-> NoCall]

Init ==
    /\ kinds \in {k \in [Pools -> UNION {KindsOf[p] : p \in Pools}] : \A p \in Pools : k[p] \in KindsOf[p]}
    /\ reserve = [p \in Pools |-> IF p = 1 THEN 1 ELSE 0]
    /\ Start

Next ==
    \/ \E c \in Callers : Starts(c) \/ Fails(c) \/ Returns(c)
    \/ \E c \in Callers, s \in Tokens : Resolves(c, s) \/ Reads(c, s)
    \/ \E s \in Tokens : ExpiresPool(s)
    \/ \E key \in DOMAIN candlesOf : ExpiresCandles(key)
    \/ \E p \in Pools : Trades(p)
    \/ DayPasses

Spec == Init /\ [][Next]_vars

-----------------------------------------------------------------------------
(* Properties.                                                              *)

TypeOK ==
    /\ kinds \in [Pools -> Kinds] /\ reserve \in [Pools -> 0..MaxReserve]
    /\ day \in 1..MaxDay /\ trades \in 0..MaxTrades
    /\ DOMAIN poolOf \subseteq Tokens /\ \A s \in DOMAIN poolOf : poolOf[s] \in Pools \cup {NoPool}
    /\ \A c \in Callers : calls[c].st \in {"idle", "resolving", "reading", "done", "failed"}

Done(c) == calls[c].st = "done"

\* Whatever the reserves are, the market of a subject is a pool that trades it
\* against ADA and has no deeper rival, and there is one if any pool does.
MarketIsDeepest ==
    \A s \in Tokens :
        LET direct == {p \in Pools : isDirectAdaPool(s, p)}
            pick == pickMostLiquidAdaPool(s, Listed(s))
        IN IF direct = {} THEN pick = NoPool
           ELSE pick \in direct /\ \A p \in direct : reserve[p] <= reserve[pick]

\* The candles behind a figure or a chart are the market's own, every day of
\* the window up to one day of the past, each once and oldest first, also when
\* the market of the subject has changed since candles were cached.
IsWindow(list, p, limit) ==
    /\ \A i \in DOMAIN list : list[i].pool = p
    /\ \A i \in DOMAIN list : i > 1 => list[i].day = list[i - 1].day + 1
    /\ list # <<>> => /\ Last(list).day <= day
                      /\ Len(list) = limit \/ (Len(list) < limit /\ Head(list).day = kinds[p].first)

CandlesAreOfOneMarket ==
    \A c \in Callers : Done(c) => \A s \in DOMAIN calls[c].candles :
        IsWindow(calls[c].candles[s], calls[c].pools[s], Limits[calls[c].window])

\* A figure spans its window: from the open of the oldest day to the close of
\* the newest, with the volume of all of them.
FiguresSpanTheirWindow ==
    \A c \in Callers : (Done(c) /\ calls[c].window \notin Ranges \cup {"24h"}) =>
        \A f \in ToSet(calls[c].answer) :
            /\ f.pool = calls[c].pools[f.subject]
            /\ \A k \in f.volume : f.before.day <= k.day /\ k.day <= f.now.day
            /\ Cardinality(f.volume) = f.now.day - f.before.day + 1

\* A healthy subject is in the answer once, in the order of first asking,
\* whatever is wrong with its siblings; a call fails only with a request, or
\* where volumes overflow in the sum of a longer window.
Healthy(s) ==
    /\ \E p \in Pools : isDirectAdaPool(s, p)
    /\ \A p \in Pools : isDirectAdaPool(s, p) =>
          kinds[p] = [direct |-> TRUE, figures |-> "whole", first |-> 1, zero |-> FALSE]

SiblingsAreKept ==
    \A c \in Callers :
        LET call == calls[c]
            subjects == [i \in DOMAIN call.answer |-> call.answer[i].subject]
            firstAt(s) == CHOOSE i \in DOMAIN call.asked :
                            /\ call.asked[i].subject = s
                            /\ \A j \in 1..(i - 1) : call.asked[j].subject # s
        IN /\ (Done(c) /\ call.window \notin Ranges) =>
                /\ IsInjective(subjects)
                /\ \A i, j \in DOMAIN subjects : i < j => firstAt(subjects[i]) < firstAt(subjects[j])
                /\ \A a \in ToSet(call.asked) : Healthy(a.subject) => a.subject \in ToSet(subjects)
           /\ (call.st = "failed" /\ ~call.refused) =>
                /\ call.window # "24h"
                /\ \E s \in DOMAIN call.pools : call.pools[s] # NoPool /\ kinds[call.pools[s]].figures = "overflow"

FiguresAreTrue ==
    MarketIsDeepest /\ CandlesAreOfOneMarket /\ FiguresSpanTheirWindow /\ SiblingsAreKept
=============================================================================
