----------------------------- MODULE AdaQuotes ------------------------------
(***************************************************************************)
(* ADA's fiat quotes and chart (src/prices/coingecko.ts), as the routes of *)
(* src/http/routes/price.ts ask for them.  Upstream's quotes move; an      *)
(* answer is cached under the currencies it is for and says when its       *)
(* quotes were taken.                                                      *)
(*                                                                         *)
(* Time is in halves of a second.  The clock of the cache is abstracted to *)
(* Expires.                                                                *)
(***************************************************************************)
EXTENDS Integers, Sequences, SequencesExt, FiniteSets

CONSTANTS
    Currencies, \* currency codes
    Unpriced,   \* those CoinGecko has no price for
    AskedFor,   \* the lists of currencies asked for, after trim and upper case
    Ranges,     \* ranges of a chart
    Askers,     \* concurrent requests
    MaxTime,    \* bound: the clock
    NoTime      \* last_updated_at is absent or null

QuoteConstants ==
    /\ Unpriced \subseteq Currencies
    /\ AskedFor \subseteq Seq(Currencies)
    /\ MaxTime \in Nat /\ NoTime \notin 0..MaxTime

VARIABLES
    now,     \* the clock
    quotes,  \* upstream's: when they were taken, and whether it says so and
             \* has the change over 24 hours (both may be null)
    cached,  \* cached answers: key -> answer
    asks,    \* the state of each request
    wired    \* a price provider is wired

vars == <<now, quotes, cached, asks, wired>>

Idle == [st |-> "idle", key |-> <<>>, currencies |-> <<>>, range |-> "", answer |-> <<>>]

With(f, k, x) == [j \in DOMAIN f \cup {k} |-> IF j = k THEN x ELSE f[j]]

-----------------------------------------------------------------------------
(* Upstream (external).  A price is abstracted to the time it is of.        *)

QuotesMove ==
    /\ now < MaxTime /\ now' = now + 1
    /\ \/ UNCHANGED quotes
       \/ \E whole \in BOOLEAN : quotes' = [at |-> now', whole |-> whole]
    /\ UNCHANGED <<cached, asks, wired>>

-----------------------------------------------------------------------------
(* getAdaPrice and getAdaHistory.                                           *)

\* Mutation: a currency without a price has the price 0.
pricesWithZero(currencies) ==
    [c \in ToSet(currencies) |-> IF c \in Unpriced THEN 0 ELSE quotes.at]

\* The prices upstream has of the currencies asked for; the others are left out.
prices(currencies) == [c \in ToSet(currencies) \ Unpriced |-> quotes.at]

changePercent24h(currencies) ==
    [c \in IF quotes.whole THEN ToSet(currencies) \ Unpriced ELSE {} |-> quotes.at]

\* Mutation: the time of the answer, whatever upstream says.
asOfNow == now \div 2

\* When the quotes were taken, in whole seconds; without that, the time of the
\* answer.
asOf == (IF quotes.whole THEN quotes.at ELSE now) \div 2

\* Mutation: one entry for all currencies of a range.
KeyOfRange(currencies, range) ==
    <<range, IF range = "" THEN ToBag(currencies) ELSE <<>> >>

\* The key of an answer: the currencies, sorted and joined, which says of each
\* how often it is asked for; or the range and the currency of a chart.
Key(currencies, range) ==
    <<range, IF range = "" THEN ToBag(currencies) ELSE currencies>>

\* taken and loaded: when its prices were taken and it was answered, if only
\* for the properties.
Answer(currencies, range) ==
    IF range = ""
    THEN [prices |-> prices(currencies), changes |-> changePercent24h(currencies), asOf |-> asOf,
          taken |-> IF quotes.whole THEN quotes.at ELSE NoTime, loaded |-> now]
    ELSE [range |-> range, currencies |-> currencies, upTo |-> quotes.at \div 2]

-----------------------------------------------------------------------------
(* A request of the routes.                                                 *)

\* A chart is of one currency.
ListsFor(range) == IF range = "" THEN AskedFor ELSE {<<c>> : c \in Currencies}

\* A request that is not valid is refused whether or not a provider is wired,
\* and without one nothing is answered.
Asks(a) ==
    /\ asks[a].st = "idle"
    /\ \E range \in Ranges \cup {""} : \E currencies \in {<<>>} \cup ListsFor(range) :
         LET key == Key(currencies, range)
             ask == [Idle EXCEPT !.key = key, !.currencies = currencies, !.range = range]
         IN asks' = [asks EXCEPT ![a] =
                  IF currencies = <<>> THEN [ask EXCEPT !.st = "400"]
                  ELSE IF ~wired THEN [ask EXCEPT !.st = "501"]
                  ELSE IF key \in DOMAIN cached
                       THEN [ask EXCEPT !.st = "done", !.answer = cached[key]]
                  ELSE [ask EXCEPT !.st = "waiting"]]
    /\ UNCHANGED <<now, quotes, cached, wired>>

\* The read of a key ends for everyone who joined it.
Joined(key) == {a \in Askers : asks[a].st = "waiting" /\ asks[a].key = key}

Loads(a) ==
    /\ asks[a].st = "waiting"
    /\ LET answer == Answer(asks[a].currencies, asks[a].range)
       IN /\ cached' = With(cached, asks[a].key, answer)
          /\ asks' = [b \in Askers |->
                IF b \in Joined(asks[a].key) THEN [asks[b] EXCEPT !.st = "done", !.answer = answer]
                ELSE asks[b]]
    /\ UNCHANGED <<now, quotes, wired>>

LoadFails(a) ==
    /\ asks[a].st = "waiting"
    /\ asks' = [b \in Askers |->
          IF b \in Joined(asks[a].key) THEN [asks[b] EXCEPT !.st = "502"] ELSE asks[b]]
    /\ UNCHANGED <<now, quotes, cached, wired>>

Leaves(a) ==
    /\ asks[a].st \notin {"idle", "waiting"}
    /\ asks' = [asks EXCEPT ![a] = Idle]
    /\ UNCHANGED <<now, quotes, cached, wired>>

Expires ==
    /\ \E key \in DOMAIN cached : cached' = [k \in DOMAIN cached \ {key} |-> cached[k]]
    /\ UNCHANGED <<now, quotes, asks, wired>>

Start ==
    /\ now = 0
    /\ quotes = [at |-> 0, whole |-> TRUE]
    /\ cached = <<>>
    /\ asks = [a \in Askers |-> Idle]

Init == wired \in BOOLEAN /\ Start

Next ==
    \/ QuotesMove \/ Expires
    \/ \E a \in Askers : Asks(a) \/ Loads(a) \/ LoadFails(a) \/ Leaves(a)

-----------------------------------------------------------------------------
(* Properties.                                                              *)

TypeOK ==
    /\ now \in 0..MaxTime /\ quotes.at \in 0..now
    /\ \A a \in Askers : asks[a].st \in {"idle", "waiting", "done", "400", "501", "502"}
    /\ \A key \in DOMAIN cached : wired

\* An answer holds the prices of exactly the currencies of its own request
\* that have one, or the chart of its own range and currency, also when another
\* request of the same key was the one upstream answered.  However long it has
\* been cached, it never says it is younger than its quotes are.
QuotesAreTrue ==
    \A a \in Askers :
        LET ask == asks[a] IN
        ask.st = "done" =>
            IF ask.range = ""
            THEN /\ DOMAIN ask.answer.prices = ToSet(ask.currencies) \ Unpriced
                 /\ DOMAIN ask.answer.changes \subseteq DOMAIN ask.answer.prices
                 /\ ask.answer.asOf <= ask.answer.loaded \div 2
                 /\ ask.answer.taken # NoTime => ask.answer.asOf = ask.answer.taken \div 2
            ELSE /\ ask.answer.range = ask.range /\ ask.answer.currencies = ask.currencies
                 /\ ask.answer.upTo <= now \div 2
=============================================================================
