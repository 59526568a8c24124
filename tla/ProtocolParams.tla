--------------------------- MODULE ProtocolParams ---------------------------
(***************************************************************************)
(* The caching decorator of src/providers/cached.ts: the tip is cached for *)
(* TipTtl, protocol parameters under the epoch of that tip, and a mismatch *)
(* at an epoch boundary is settled by one shared recovery that fetches and *)
(* publishes a fresh pair.                                                 *)
(*                                                                         *)
(* The cache is the abstract read-through cache that MemoryCache details:  *)
(* one entry and one coalesced load per key.  Nothing is cleared here (the *)
(* process never clears these keys; MemoryCache has the clears), so the    *)
(* generation guards of the publication always hold.                       *)
(*                                                                         *)
(* A tip and a set of parameters are abstracted to their epoch.  Upstream  *)
(* is a clocked chain: a response carries the epoch of a moment between    *)
(* the request and the response, possibly from an instance that lags.      *)
(***************************************************************************)
EXTENDS Integers, Sequences, SequencesExt, FiniteSetsExt

CONSTANTS
    Callers,     \* callers of getTip() and getProtocolParams()
    Recoveries,  \* identities of recovery attempts (Promise objects)
    NoRecovery,  \* protocolParamsRecovery is undefined
    TipTtl,      \* TIP_TTL_MS
    LoadMax,     \* the longest an upstream read takes before it times out
    MinEpoch,    \* the length of an epoch
    MaxLag,      \* by how many epochs an upstream instance may lag at most
    MaxNow,      \* bound on the clock
    MaxEpoch     \* bound on the epochs

Epochs == 1..MaxEpoch

VARIABLES
    lag,       \* by how many epochs the upstream of this deployment may lag
    history,   \* history[t]: the chain's epoch at time t; its length is the clock
    tip,       \* the cached tip: its epoch, 0 for none, and its expiry
    tipLoad,   \* when the load in flight for the tip started, 0 for none
    params,    \* params[e]: the epoch of the parameters cached under e, 0 for none
    paramsLoad,\* paramsLoad[e]: when the load in flight for key e started
    protocolParamsRecovery, \* the registered recovery
    recoveries,\* the state of each recovery attempt
    callers    \* the state of each caller

vars == <<lag, history, tip, tipLoad, params, paramsLoad, protocolParamsRecovery,
          recoveries, callers>>

now == Len(history)

IdleCaller == [st |-> "idle", want |-> "tip", asked |-> 0, tip |-> 0,
               on |-> NoRecovery, answer |-> 0]

\* st: which of the two upstream reads is awaited; since: when it started.
IdleRecovery == [st |-> "idle", since |-> 0, tip |-> 0]

Init ==
    /\ lag \in 0..MaxLag
    /\ history = <<1>>
    /\ tip = [epoch |-> 0, expiresAt |-> 0]
    /\ tipLoad = 0
    /\ params = [e \in Epochs |-> 0]
    /\ paramsLoad = [e \in Epochs |-> 0]
    /\ protocolParamsRecovery = NoRecovery
    /\ recoveries = [r \in Recoveries |-> IdleRecovery]
    /\ callers = [c \in Callers |-> IdleCaller]

-----------------------------------------------------------------------------
(* Upstream (external).                                                     *)

Running == {r \in Recoveries : recoveries[r].st # "idle"}

\* The start times of the upstream reads in flight.
Outstanding ==
    ({tipLoad} \cup {paramsLoad[e] : e \in Epochs}
               \cup {recoveries[r].since : r \in Running}) \ {0}

\* What a read issued at time since may answer now.
Answers(since) ==
    {Max({1, history[t] - l}) : t \in since..now, l \in 0..lag}

\* getTip() of the driver: one request for the newest block, of whose row the
\* epoch is kept.
TipRead(since) == Answers(since)

\* getProtocolParams() of the driver: one request for the newest epoch's
\* parameters, of whose row the epoch is kept.
ParamsRead(since) == Answers(since)

\* An epoch that is old enough may end.
EpochMayEnd ==
    /\ Last(history) < MaxEpoch
    /\ now >= MinEpoch
    /\ \A t \in (now - MinEpoch + 1)..now : history[t] = Last(history)

\* One unit of time.  A read in flight settles within LoadMax.
Tick ==
    /\ now < MaxNow
    /\ \A since \in Outstanding : now - since < LoadMax
    /\ \E e \in {Last(history)} \cup (IF EpochMayEnd THEN {Last(history) + 1} ELSE {}) :
          history' = Append(history, e)
    /\ UNCHANGED <<lag, tip, tipLoad, params, paramsLoad, protocolParamsRecovery,
                   recoveries, callers>>

-----------------------------------------------------------------------------
(* getProtocolParams, from the moment the tip is known.                     *)

\* Mutant of CachedParams: one entry for all epochs.
CachedParamsAny(e) == Max({params[f] : f \in Epochs})

\* What the cache holds under the key of epoch e.
CachedParams(e) == params[e]

\* Callers that go on when the promise of their stage settles: cs is the set
\* of them, e the epoch their tip has.  An entry that is cached answers at
\* once, the others wait for the load of key e.
WithTip(cs, e) ==
    [c \in Callers |->
        IF c \notin cs THEN callers[c]
        ELSE IF callers[c].want = "tip"
        THEN [callers[c] EXCEPT !.st = "done", !.tip = e, !.answer = e]
        ELSE IF CachedParams(e) # 0
        THEN [callers[c] EXCEPT !.st = "done", !.tip = e, !.answer = CachedParams(e)]
        ELSE [callers[c] EXCEPT !.st = "params", !.tip = e]]

\* Some caller has to load key e, and nobody does yet.
StartsParams(cs, e) ==
    paramsLoad[e] = 0 /\ CachedParams(e) = 0 /\ \E c \in cs : callers[c].want = "params"

ParamsLoadAfter(cs, e) ==
    IF StartsParams(cs, e) THEN [paramsLoad EXCEPT ![e] = now] ELSE paramsLoad

Failed(cs) ==
    [c \in Callers |->
        IF c \in cs THEN [callers[c] EXCEPT !.st = "failed"] ELSE callers[c]]

TipLive == tip.epoch # 0 /\ tip.expiresAt > now

\* getTip() and getProtocolParams() with the tip in the cache.
CallWithTipCached(c, want) ==
    /\ callers[c].st = "idle"
    /\ TipLive
    /\ LET asking == [callers EXCEPT ![c] =
               [IdleCaller EXCEPT !.st = "tip", !.want = want, !.asked = now]]
       IN  IF want = "tip" \/ CachedParams(tip.epoch) # 0
           THEN /\ callers' = [asking EXCEPT ![c].st = "done", ![c].tip = tip.epoch,
                      ![c].answer = IF want = "tip" THEN tip.epoch ELSE CachedParams(tip.epoch)]
                /\ UNCHANGED paramsLoad
           ELSE /\ callers' = [asking EXCEPT ![c].st = "params", ![c].tip = tip.epoch]
                /\ paramsLoad' = IF paramsLoad[tip.epoch] = 0
                                 THEN [paramsLoad EXCEPT ![tip.epoch] = now]
                                 ELSE paramsLoad
    /\ UNCHANGED <<lag, history, tip, tipLoad, params, protocolParamsRecovery, recoveries>>

\* The same without: start or join the load of the tip.
CallWithoutTip(c, want) ==
    /\ callers[c].st = "idle"
    /\ ~TipLive
    /\ callers' = [callers EXCEPT ![c] =
          [IdleCaller EXCEPT !.st = "tip", !.want = want, !.asked = now]]
    /\ tipLoad' = IF tipLoad = 0 THEN now ELSE tipLoad
    /\ UNCHANGED <<lag, history, tip, params, paramsLoad, protocolParamsRecovery, recoveries>>

\* Mutant of AwaitingTip: a later caller takes the place of an earlier one.
AwaitingTipLatest ==
    {c \in Callers : callers[c].st = "tip" /\ \A d \in Callers :
        callers[d].st = "tip" => callers[d].asked <= callers[c].asked}

\* Callers that share the load of the tip.
AwaitingTip == {c \in Callers : callers[c].st = "tip"}

\* Callers that share the load of the parameters of epoch e.
AwaitingParams(e) == {c \in Callers : callers[c].st = "params" /\ callers[c].tip = e}

\* Mutant of PublishedTip: the deadline of the parameters, which outlive an
\* epoch, for the tip.
PublishedTipForEpoch(e) == [epoch |-> e, expiresAt |-> now + MaxNow]

\* The tip as a read and a recovery store it.
PublishedTip(e) == [epoch |-> e, expiresAt |-> now + TipTtl]

\* The tip arrives: it is cached, and the callers go on to the parameters.
TipLoaded(e) ==
    /\ tipLoad # 0
    /\ e \in TipRead(tipLoad)
    /\ tip' = PublishedTip(e)
    /\ tipLoad' = 0
    /\ callers' = WithTip(AwaitingTip, e)
    /\ paramsLoad' = ParamsLoadAfter(AwaitingTip, e)
    /\ UNCHANGED <<lag, history, params, protocolParamsRecovery, recoveries>>

\* The tip cannot be read: no stale value is kept for it.
TipFails ==
    /\ tipLoad # 0
    /\ tipLoad' = 0
    /\ callers' = Failed(AwaitingTip)
    /\ UNCHANGED <<lag, history, tip, params, paramsLoad, protocolParamsRecovery, recoveries>>

\* The check of the loader.
Matches(key, e) == e = key

\* Parameters of the key's epoch arrive.
ParamsLoaded(key, e) ==
    /\ paramsLoad[key] # 0
    /\ e \in ParamsRead(paramsLoad[key])
    /\ Matches(key, e)
    /\ params' = [params EXCEPT ![key] = e]
    /\ paramsLoad' = [paramsLoad EXCEPT ![key] = 0]
    /\ callers' = [c \in Callers |->
          IF c \in AwaitingParams(key)
          THEN [callers[c] EXCEPT !.st = "done", !.answer = e]
          ELSE callers[c]]
    /\ UNCHANGED <<lag, history, tip, tipLoad, protocolParamsRecovery, recoveries>>

ParamsFail(key) ==
    /\ paramsLoad[key] # 0
    /\ paramsLoad' = [paramsLoad EXCEPT ![key] = 0]
    /\ callers' = Failed(AwaitingParams(key))
    /\ UNCHANGED <<lag, history, tip, tipLoad, params, protocolParamsRecovery, recoveries>>

\* Mutant of JoinsRecovery: every caller starts its own.
JoinsNever == FALSE

\* A recovery is already registered.
JoinsRecovery == protocolParamsRecovery # NoRecovery

\* Parameters of another epoch arrive: the loader throws, every caller of this
\* key joins the registered recovery, and the first of them starts one if
\* there is none.
ParamsMismatch(key, e) ==
    /\ paramsLoad[key] # 0
    /\ e \in ParamsRead(paramsLoad[key])
    /\ ~Matches(key, e)
    /\ paramsLoad' = [paramsLoad EXCEPT ![key] = 0]
    /\ \E r \in Recoveries :
          /\ IF JoinsRecovery
             THEN r = protocolParamsRecovery /\ UNCHANGED recoveries
             ELSE /\ recoveries[r].st = "idle"
                  /\ recoveries' = [recoveries EXCEPT ![r] =
                        [st |-> "tip", since |-> now, tip |-> 0]]
          /\ protocolParamsRecovery' = r
          /\ callers' = [c \in Callers |->
                IF c \in AwaitingParams(key)
                THEN [callers[c] EXCEPT !.st = "recovery", !.on = r]
                ELSE callers[c]]
    /\ UNCHANGED <<lag, history, tip, tipLoad, params>>

AwaitingRecovery(r) == {c \in Callers : callers[c].st = "recovery" /\ callers[c].on = r}

\* clearRecovery(): only its own registration.
Cleared(r) == IF protocolParamsRecovery = r THEN NoRecovery ELSE protocolParamsRecovery

\* provider.getTip() of the recovery resolves; the parameters are read next.
RecoveryTip(r, e) ==
    /\ recoveries[r].st = "tip"
    /\ e \in TipRead(recoveries[r].since)
    /\ recoveries' = [recoveries EXCEPT ![r] = [st |-> "params", since |-> now, tip |-> e]]
    /\ UNCHANGED <<lag, history, tip, tipLoad, params, paramsLoad, protocolParamsRecovery,
                   callers>>

\* The pair matches: publish both and answer with the parameters.
RecoveryPublishes(r) ==
    LET e == recoveries[r].tip IN
    /\ recoveries[r].st = "params"
    /\ e \in ParamsRead(recoveries[r].since)
    /\ tip' = PublishedTip(e)
    /\ params' = [params EXCEPT ![e] = e]
    /\ protocolParamsRecovery' = Cleared(r)
    /\ recoveries' = [recoveries EXCEPT ![r] = IdleRecovery]
    /\ callers' = [c \in Callers |->
          IF c \in AwaitingRecovery(r)
          THEN [callers[c] EXCEPT !.st = "done", !.answer = e]
          ELSE callers[c]]
    /\ UNCHANGED <<lag, history, tipLoad, paramsLoad>>

\* What is registered after a recovery has failed.
ClearedAfterFailure(r) == Cleared(r)

\* A read of the recovery fails, or its pair does not match either: its
\* callers get the error, and the next mismatch starts over.
RecoveryFails(r) ==
    /\ recoveries[r].st # "idle"
    /\ protocolParamsRecovery' = ClearedAfterFailure(r)
    /\ recoveries' = [recoveries EXCEPT ![r] = IdleRecovery]
    /\ callers' = Failed(AwaitingRecovery(r))
    /\ UNCHANGED <<lag, history, tip, tipLoad, params, paramsLoad>>

\* The caller is finished with its answer or its error.
Returns(c) ==
    /\ callers[c].st \in {"done", "failed"}
    /\ callers' = [callers EXCEPT ![c] = IdleCaller]
    /\ UNCHANGED <<lag, history, tip, tipLoad, params, paramsLoad, protocolParamsRecovery,
                   recoveries>>

\* How the load of a key, and the read of a recovery, may end.
ParamsSettle(key) ==
    (\E e \in Epochs : ParamsLoaded(key, e) \/ ParamsMismatch(key, e)) \/ ParamsFail(key)

RecoverySettles(r) ==
    (\E e \in Epochs : RecoveryTip(r, e)) \/ RecoveryPublishes(r) \/ RecoveryFails(r)

Next ==
    \/ Tick
    \/ \E c \in Callers, want \in {"tip", "params"} : CallWithTipCached(c, want)
    \/ \E c \in Callers, want \in {"tip", "params"} : CallWithoutTip(c, want)
    \/ \E e \in Epochs : TipLoaded(e)
    \/ TipFails
    \/ \E key \in Epochs : ParamsSettle(key)
    \/ \E r \in Recoveries : RecoverySettles(r)
    \/ \E c \in Callers : Returns(c)

Spec == Init /\ [][Next]_vars

-----------------------------------------------------------------------------
(* Properties.                                                              *)

\* The shape of the decorator's state; a registered recovery is under way.
TypeOK ==
    /\ lag \in 0..MaxLag
    /\ history \in Seq(Epochs)
    /\ tip \in [epoch : 0..MaxEpoch, expiresAt : Nat]
    /\ tipLoad \in Nat
    /\ params \in [Epochs -> 0..MaxEpoch]
    /\ paramsLoad \in [Epochs -> Nat]
    /\ protocolParamsRecovery \in Recoveries \cup {NoRecovery}
    /\ recoveries \in [Recoveries ->
          [st : {"idle", "tip", "params"}, since : Nat, tip : 0..MaxEpoch]]
    /\ callers \in [Callers ->
          [st : {"idle", "tip", "params", "recovery", "done", "failed"},
           want : {"tip", "params"}, asked : Nat, tip : 0..MaxEpoch,
           on : Recoveries \cup {NoRecovery}, answer : 0..MaxEpoch]]
    /\ protocolParamsRecovery # NoRecovery => protocolParamsRecovery \in Running

\* Concurrent mismatches share one recovery: upstream is not asked for a
\* second pair while one is under way.
OneRecovery == Cardinality(Running) <= 1

\* How old an answer may be when it is asked for.
Window == Max({TipTtl + LoadMax, 2 * LoadMax})

\* Every answer was current within the TTL of the tip and the reads behind it:
\* an epoch that had ended before that is never served, also when a read of
\* the tip that started before a recovery lands after it.
AnswerIsRecent ==
    \A c \in Callers :
        LET at == callers[c].asked - Window IN
        (callers[c].st = "done" /\ at \in DOMAIN history)
        => callers[c].answer >= history[at] - lag

\* While an epoch outlasts a read and no instance lags, getProtocolParams()
\* answers with the epoch of the tip it was given or a later one, also when it
\* joins a recovery that others started earlier.
AnswerNotBehindTip ==
    (lag = 0 /\ MinEpoch >= LoadMax) => \A c \in Callers :
        callers[c].st = "done" => callers[c].answer >= callers[c].tip

\* Every call ends, in an answer or an error: no waiter of a load or of a
\* recovery is left behind.
EveryCallEnds ==
    \A c \in Callers :
        (callers[c].st \in {"tip", "params", "recovery"}) ~>
        (callers[c].st \in {"done", "failed"})
=============================================================================
