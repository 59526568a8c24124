---------------------------- MODULE PricesProofs ----------------------------
(***************************************************************************)
(* The price provider, for any number of subjects, pools, batches, readers *)
(* and requests that overlap, any size of a chunk, any window, and numbers *)
(* of any length and magnitude.                                            *)
(*                                                                         *)
(* A batch of lookups answers from what it fetched, from the cache, and    *)
(* from what another batch fetched for it.  The invariant says of each     *)
(* place an answer waits in that it is what the full list of pools says,   *)
(* and that a subject is registered by the one batch that fetches it, so   *)
(* that what is heard through a registration is of that subject.           *)
(*                                                                         *)
(* Quotes fit the key they are cached under.  A cached pool is a market of *)
(* its subject, cached candles are a window of the pool their key names,   *)
(* and an answer is what its own pools and candles say; what the folds     *)
(* that pick, dedupe and concatenate compute is proved over the length of  *)
(* the sequence.                                                           *)
(***************************************************************************)
EXTENDS Prices, SequenceLemmas, FiniteSetTheorems, TLAPS

Answers == {"pool", "null"}

Batch ==
    [st : {"idle", "fetching", "fallback", "awaiting", "done", "failed"},
     got : [Subjects -> Answers \cup {"", "?", "error"}],
     owned : SUBSET Subjects, todo : SUBSET Subjects, deep : SUBSET Subjects,
     fetched : [Subjects -> Answers \cup {"", "?", "error"}]]

Reader == [st : Answers \cup {"idle", "waiting", "failed"}, subject : Subjects \cup {0}]

LookupsTyped ==
    /\ market \in [Subjects -> P!Markets]
    /\ cached \in [Subjects -> Answers \cup {"miss"}]
    /\ inFlightPools \in [Subjects -> Batches \cup {NoBatch}]
    /\ batches \in [Batches -> Batch]
    /\ readers \in [Readers -> Reader]

Says(s) == P!ListSays(s)

\* What is registered is being fetched, by the batch that claimed it.
Registrations(b, batch, registered) ==
    /\ \A s \in Subjects : registered[s] = b => batch.st \in {"fetching", "fallback"}
    /\ batch.st \in {"fetching", "fallback"} =>
          batch.owned = {s \in Subjects : registered[s] = b}

\* What a batch has is true, and of what it claimed it has everything that is
\* neither in an outstanding chunk nor left to the fallback.
BatchFits(batch) ==
    /\ \A s \in Subjects : batch.got[s] \in {"", "?", "error", Says(s)}
    /\ batch.st = "done" => \A s \in Subjects : batch.got[s] \notin {"?", "error"}
    /\ batch.st \in {"fetching", "fallback"} =>
          /\ batch.todo \subseteq batch.owned /\ batch.deep \subseteq batch.owned
          /\ \A s \in batch.owned :
                s \notin batch.todo /\ s \notin batch.deep => batch.fetched[s] = Says(s)
    /\ batch.st = "fallback" => batch.todo = {}

ReaderFits(reader) ==
    /\ reader.st # "idle" => reader.subject \in Subjects
    /\ reader.st \in Answers => reader.st = Says(reader.subject)

LookupsInv ==
    /\ LookupsTyped
    /\ \A s \in Subjects : cached[s] \in {"miss", Says(s)}
    /\ \A b \in Batches : Registrations(b, batches[b], inFlightPools) /\ BatchFits(batches[b])
    /\ \A r \in Readers : ReaderFits(readers[r])

-----------------------------------------------------------------------------
(* The steps.                                                               *)

\* The list answers of each subject.
LEMMA SaysAnAnswer == \A s \in Subjects : Says(s) \in Answers
BY DEF Says, P!ListSays, Answers

\* A record is its fields.
LEMMA BatchRanges ==
    ASSUME NEW batch \in Batch
    PROVE  /\ batch.st \in {"idle", "fetching", "fallback", "awaiting", "done", "failed"}
           /\ batch.got \in [Subjects -> Answers \cup {"", "?", "error"}]
           /\ batch.owned \subseteq Subjects /\ batch.todo \subseteq Subjects
           /\ batch.deep \subseteq Subjects
           /\ batch.fetched \in [Subjects -> Answers \cup {"", "?", "error"}]
BY DEF Batch

\* When nothing is left to look at, a batch that awaits is done or has failed.
LEMMA LookedFits ==
    ASSUME NEW batch \in Batch, batch.st # "done", BatchFits(batch)
    PROVE  LET n == P!Looked(batch)
           IN  /\ n \in Batch /\ BatchFits(n)
               /\ n.owned = batch.owned
               /\ n.st \in {"fetching", "fallback"} <=> batch.st \in {"fetching", "fallback"}
<1> DEFINE n == P!Looked(batch)
<1>1. CASE batch.st # "awaiting"
  <2>1. n = batch
    BY <1>1 DEF P!Looked
  <2> QED BY <2>1
<1>2. CASE batch.st = "awaiting" /\ \E s \in Subjects : batch.got[s] = "error"
  <2>1. n = [batch EXCEPT !.st = "failed"]
    BY <1>2 DEF P!Looked
  <2> HIDE DEF n
  <2>2. n \in Batch /\ n.st = "failed" /\ n.got = batch.got /\ n.owned = batch.owned
    BY <2>1 DEF Batch
  <2> QED BY <1>2, <2>2 DEF BatchFits, n
<1>3. CASE /\ batch.st = "awaiting" /\ ~\E s \in Subjects : batch.got[s] = "error"
           /\ \E s \in Subjects : batch.got[s] = "?"
  <2>1. n = batch
    BY <1>3 DEF P!Looked
  <2> QED BY <2>1
<1>4. CASE /\ batch.st = "awaiting" /\ ~\E s \in Subjects : batch.got[s] = "error"
           /\ ~\E s \in Subjects : batch.got[s] = "?"
  <2>1. n = [batch EXCEPT !.st = "done"]
    BY <1>4 DEF P!Looked
  <2> HIDE DEF n
  <2>2. n \in Batch /\ n.st = "done" /\ n.got = batch.got /\ n.owned = batch.owned
    BY <2>1 DEF Batch
  <2> QED BY <1>4, <2>2 DEF BatchFits, n
<1> QED BY <1>1, <1>2, <1>3, <1>4

\* A batch settles what it claimed with true answers or with errors.
LEMMA SettledFits ==
    ASSUME LookupsInv, NEW b \in Batches, batches[b].st \in {"fetching", "fallback"},
           NEW outcome \in [Subjects -> Answers \cup {"", "?", "error"}],
           \A s \in batches[b].owned : outcome[s] \in {"error", Says(s)},
           market' = market, batches' = P!Settled(b, outcome),
           inFlightPools' = P!Released(b)
    PROVE  /\ inFlightPools' \in [Subjects -> Batches \cup {NoBatch}]
           /\ batches' \in [Batches -> Batch]
           /\ \A c \in Batches : Registrations(c, batches[c], inFlightPools)' /\ BatchFits(batches[c])'
<1>1. batches \in [Batches -> Batch] /\ inFlightPools \in [Subjects -> Batches \cup {NoBatch}]
      /\ NoBatch \notin Batches
  BY PricesAssumption DEF LookupsInv, LookupsTyped, P!PoolConstants
<1>2. batches[b].owned = {s \in Subjects : inFlightPools[s] = b}
  BY DEF LookupsInv, Registrations
<1>3. /\ inFlightPools' \in [Subjects -> Batches \cup {NoBatch}]
      /\ \A s \in Subjects : inFlightPools'[s] =
            IF inFlightPools[s] = b THEN NoBatch ELSE inFlightPools[s]
  BY <1>1, <1>2 DEF P!Released
<1>4. \A s : Says(s)' = Says(s)
  BY DEF Says, P!ListSays
<1>5. ASSUME NEW c \in Batches
      PROVE  /\ batches'[c] \in Batch /\ BatchFits(batches[c])' /\ Registrations(c, batches[c], inFlightPools)'
  <2> DEFINE old == batches[c]
             got == [s \in Subjects |-> IF P!Heard(c, b, s) THEN outcome[s] ELSE old.got[s]]
             told == [old EXCEPT !.got = got]
             base == IF c # b THEN told
                     ELSE [told EXCEPT !.st = "awaiting", !.todo = {}, !.deep = {},
                                       !.fetched = P!Nothing]
             new == P!Looked(base)
  <2>1. old \in Batch /\ BatchFits(old) /\ Registrations(c, old, inFlightPools)
    BY <1>1 DEF LookupsInv
  <2>2. batches'[c] = new
    <3>1. P!Settled(b, outcome)[c] = new
      BY <2>1 DEF P!Settled, Batch
    <3> QED BY <3>1
  <2>3. got \in [Subjects -> Answers \cup {"", "?", "error"}]
        /\ \A s \in Subjects : got[s] \in {"", "?", "error", Says(s)}
    <3>1. ASSUME NEW s \in Subjects, P!Heard(c, b, s) PROVE outcome[s] \in {"error", Says(s)}
      BY <1>2, <3>1 DEF P!Heard
    <3>2. ASSUME NEW s \in Subjects
          PROVE  got[s] \in Answers \cup {"", "?", "error"} /\ got[s] \in {"", "?", "error", Says(s)}
      <4>1. old.got[s] \in {"", "?", "error", Says(s)} /\ old.got[s] \in Answers \cup {"", "?", "error"}
        <5>1. old.got \in [Subjects -> Answers \cup {"", "?", "error"}]
              /\ \A t \in Subjects : old.got[t] \in {"", "?", "error", Says(t)}
          BY <2>1, BatchRanges DEF BatchFits
        <5> HIDE DEF old
        <5> QED BY <5>1
      <4>2. outcome[s] \in Answers \cup {"", "?", "error"}
        OBVIOUS
      <4> QED BY <3>1, <4>1, <4>2
    <3> QED BY <3>2
  <2> HIDE DEF got
  <2>4. told \in Batch /\ told.st = old.st /\ told.got = got /\ told.owned = old.owned
        /\ told.todo = old.todo /\ told.deep = old.deep /\ told.fetched = old.fetched
    BY <2>1, <2>3 DEF Batch
  <2> HIDE DEF told
  <2>5. /\ base \in Batch /\ base.got = got /\ base.owned = old.owned
        /\ c = b => base.st = "awaiting"
        /\ c # b => base = told
    <3>1. CASE c = b
      <4> DEFINE n == [told EXCEPT !.st = "awaiting", !.todo = {}, !.deep = {},
                                   !.fetched = P!Nothing]
      <4>1. P!Nothing \in [Subjects -> Answers \cup {"", "?", "error"}]
        BY DEF P!Nothing
      <4>2. n \in Batch /\ n.got = got /\ n.owned = old.owned /\ n.st = "awaiting"
        BY <2>4, <4>1 DEF Batch
      <4>3. base = n
        BY <3>1
      <4> HIDE DEF n, base
      <4> QED BY <3>1, <4>2, <4>3
    <3>2. CASE c # b
      <4>1. base = told
        BY <3>2
      <4> HIDE DEF base
      <4> QED BY <2>4, <3>2, <4>1
    <3> QED BY <3>1, <3>2
  <2> HIDE DEF base
  <2>6. CASE base.st = "done"
    <3>1. c # b /\ base = told /\ old.st = "done"
      BY <2>4, <2>5, <2>6
    <3>2. got = old.got
      <4>1. \A s \in Subjects : ~P!Heard(c, b, s)
        BY <2>1, <3>1 DEF BatchFits, P!Heard
      <4>2. \A s \in Subjects : got[s] = old.got[s]
        BY <4>1 DEF got
      <4>3. old.got \in [Subjects -> Answers \cup {"", "?", "error"}]
        BY <2>1, BatchRanges
      <4> DEFINE was == old.got
      <4>4. was \in [Subjects -> Answers \cup {"", "?", "error"}] /\ \A s \in Subjects : got[s] = was[s]
        BY <4>2, <4>3
      <4> HIDE DEF was
      <4>5. got = was
        <5>1. got = [s \in Subjects |-> got[s]] /\ was = [s \in Subjects |-> was[s]]
          BY <2>3, <4>4
        <5>2. [s \in Subjects |-> got[s]] = [s \in Subjects |-> was[s]]
          BY <4>4
        <5> QED BY <5>1, <5>2
      <4> QED BY <4>5 DEF was
    <3>3. new = base
      BY <2>6 DEF P!Looked
    <3> HIDE DEF new
    <3>4. BatchFits(base)
      BY <2>1, <2>4, <3>1, <3>2 DEF BatchFits
    <3>5. BatchFits(batches[c])'
      BY <1>4, <2>2, <3>1, <3>3, <3>4, <2>4 DEF BatchFits
    <3>6. Registrations(c, batches[c], inFlightPools)'
      <4>1. \A s \in Subjects : inFlightPools'[s] = c => inFlightPools[s] = c
        BY <1>1, <1>3
      <4> QED BY <2>1, <2>2, <2>4, <3>1, <3>3, <4>1 DEF Registrations
    <3> QED BY <2>2, <2>5, <3>3, <3>5, <3>6
  <2>7. CASE base.st # "done"
    <3>1. BatchFits(base)
      <4>1. CASE c = b
        BY <2>3, <2>5, <4>1 DEF BatchFits
      <4>2. CASE c # b
        BY <2>1, <2>3, <2>4, <2>5, <2>7, <4>2, ZenonT(60) DEF BatchFits
      <4> QED BY <4>1, <4>2
    <3>2. /\ new \in Batch /\ BatchFits(new) /\ new.owned = base.owned
          /\ new.st \in {"fetching", "fallback"} <=> base.st \in {"fetching", "fallback"}
      BY <2>5, <2>7, <3>1, LookedFits
    <3> HIDE DEF new
    <3>3. BatchFits(batches[c])'
      <4>1. new.owned \subseteq Subjects
        BY <3>2, BatchRanges
      <4> QED BY <1>4, <2>2, <3>2, <4>1 DEF BatchFits
    <3>4. Registrations(c, batches[c], inFlightPools)'
      <4>1. CASE c = b
        BY <1>1, <1>3, <2>2, <2>5, <3>2, <4>1 DEF Registrations
      <4>2. CASE c # b
        <5>1. \A s \in Subjects : inFlightPools'[s] = c <=> inFlightPools[s] = c
          BY <1>1, <1>3, <4>2
        <5> QED BY <2>1, <2>2, <2>4, <2>5, <3>2, <4>2, <5>1 DEF Registrations
      <4> QED BY <4>1, <4>2
    <3> QED BY <2>2, <3>2, <3>3, <3>4
  <2> QED BY <2>6, <2>7
<1>6. batches' \in [Batches -> Batch]
  <2>1. batches' = [c \in Batches |-> batches'[c]]
    BY DEF P!Settled
  <2> QED BY <1>5, <2>1
<1> QED BY <1>3, <1>5, <1>6

\* What stays when the batches and the registrations do.
LEMMA LookupsStay ==
    ASSUME LookupsInv, UNCHANGED <<market, inFlightPools, batches>>,
           cached' \in [Subjects -> Answers \cup {"miss"}],
           \A s \in Subjects : cached'[s] \in {"miss", Says(s)},
           readers' \in [Readers -> Reader],
           \A r \in Readers : ReaderFits(readers'[r])
    PROVE  LookupsInv'
<1>1. \A s : Says(s)' = Says(s)
  BY DEF Says, P!ListSays
<1>2. LookupsTyped'
  BY DEF LookupsInv, LookupsTyped
<1>3. \A b \in Batches : Registrations(b, batches[b], inFlightPools)' /\ BatchFits(batches[b])'
  <2> TAKE b \in Batches
  <2>1. batches[b].owned \subseteq Subjects
    BY BatchRanges DEF LookupsInv, LookupsTyped
  <2>2. batches'[b] = batches[b] /\ inFlightPools' = inFlightPools
    OBVIOUS
  <2>3. Registrations(b, batches[b], inFlightPools) /\ BatchFits(batches[b])
    BY DEF LookupsInv
  <2>4. BatchFits(batches[b])'
    BY <1>1, <2>1, <2>2, <2>3 DEF BatchFits
  <2>5. Registrations(b, batches[b], inFlightPools)'
    BY <2>2, <2>3
  <2> QED BY <2>4, <2>5
<1>4. \A r \in Readers : ReaderFits(readers[r])'
  BY <1>1 DEF ReaderFits
<1> QED BY <1>1, <1>2, <1>3, <1>4 DEF LookupsInv

\* One batch moves, and keeps what it registered.
LEMMA OneBatchMoves ==
    ASSUME LookupsInv, NEW b \in Batches, NEW n \in Batch,
           market' = market,
           batches' = [batches EXCEPT ![b] = n],
           inFlightPools' \in [Subjects -> Batches \cup {NoBatch}],
           \A c \in Batches \ {b}, s \in Subjects : inFlightPools'[s] = c <=> inFlightPools[s] = c,
           BatchFits(n), Registrations(b, n, inFlightPools')
    PROVE  /\ batches' \in [Batches -> Batch]
           /\ \A c \in Batches : Registrations(c, batches[c], inFlightPools)' /\ BatchFits(batches[c])'
<1>1. \A s : Says(s)' = Says(s)
  BY DEF Says, P!ListSays
<1>2. batches \in [Batches -> Batch]
  BY DEF LookupsInv, LookupsTyped
<1>3. batches' \in [Batches -> Batch] /\ batches'[b] = n
      /\ \A c \in Batches \ {b} : batches'[c] = batches[c]
  BY <1>2
<1>4. ASSUME NEW c \in Batches PROVE Registrations(c, batches[c], inFlightPools)' /\ BatchFits(batches[c])'
  <2>1. CASE c = b
    <3>1. n.owned \subseteq Subjects
      BY BatchRanges
    <3> QED BY <1>1, <1>3, <2>1, <3>1 DEF Registrations, BatchFits
  <2>2. CASE c # b
    <3>1. batches[c].owned \subseteq Subjects /\ BatchFits(batches[c]) /\ Registrations(c, batches[c], inFlightPools)
      BY <1>2, BatchRanges DEF LookupsInv
    <3>2. batches'[c] = batches[c]
      BY <1>3, <2>2
    <3>3. BatchFits(batches[c])'
      BY <1>1, <3>1, <3>2 DEF BatchFits
    <3>4. Registrations(c, batches[c], inFlightPools)'
      BY <2>2, <3>1, <3>2 DEF Registrations
    <3> QED BY <3>3, <3>4
  <2> QED BY <2>1, <2>2
<1> QED BY <1>3, <1>4

\* The readers and the cache, while the batches move.
LEMMA Together ==
    ASSUME LookupsInv, market' = market,
           inFlightPools' \in [Subjects -> Batches \cup {NoBatch}],
           batches' \in [Batches -> Batch],
           \A c \in Batches : Registrations(c, batches[c], inFlightPools)' /\ BatchFits(batches[c])',
           cached' \in [Subjects -> Answers \cup {"miss"}],
           \A s \in Subjects : cached'[s] \in {"miss", Says(s)},
           readers' \in [Readers -> Reader],
           \A r \in Readers : ReaderFits(readers'[r])
    PROVE  LookupsInv'
<1>1. \A s : Says(s)' = Says(s)
  BY DEF Says, P!ListSays
<1>2. LookupsTyped'
  BY DEF LookupsInv, LookupsTyped
<1>3. \A r \in Readers : ReaderFits(readers[r])'
  BY <1>1 DEF ReaderFits
<1> QED BY <1>1, <1>2, <1>3 DEF LookupsInv

\* What a batch, a reader and the cache hold.
LEMMA LookupRanges ==
    ASSUME LookupsInv
    PROVE  /\ market \in [Subjects -> P!Markets] /\ cached \in [Subjects -> Answers \cup {"miss"}]
           /\ inFlightPools \in [Subjects -> Batches \cup {NoBatch}]
           /\ batches \in [Batches -> Batch] /\ readers \in [Readers -> Reader]
           /\ \A s \in Subjects : cached[s] \in {"miss", Says(s)}
           /\ \A r \in Readers : ReaderFits(readers[r])
           /\ NoBatch \notin Batches /\ Subjects \subseteq Nat
BY PricesAssumption DEF LookupsInv, LookupsTyped, P!PoolConstants

\* It holds at first.
LEMMA LookupsStart == P!Start /\ market \in [Subjects -> P!Markets] => LookupsInv
<1> SUFFICES ASSUME P!Start, market \in [Subjects -> P!Markets] PROVE LookupsInv
  OBVIOUS
<1>1. NoBatch \notin Batches
  BY PricesAssumption DEF P!PoolConstants
<1>2. P!IdleBatch \in Batch /\ P!IdleBatch.st = "idle" /\ \A s \in Subjects : P!IdleBatch.got[s] = ""
  BY DEF P!IdleBatch, P!Nothing, Batch
<1>3. P!IdleReader \in Reader /\ P!IdleReader.st = "idle"
  BY DEF P!IdleReader, Reader
<1>4. LookupsTyped
  BY <1>2, <1>3 DEF P!Start, LookupsTyped
<1>5. \A b \in Batches : Registrations(b, batches[b], inFlightPools) /\ BatchFits(batches[b])
  BY <1>1, <1>2 DEF P!Start, Registrations, BatchFits
<1>6. \A r \in Readers : ReaderFits(readers[r])
  BY <1>3 DEF P!Start, ReaderFits, Answers
<1> QED BY <1>4, <1>5, <1>6 DEF LookupsInv, P!Start

\* An entry of the cache expires.
LEMMA ExpiryKeeps == ASSUME LookupsInv, NEW s \in Subjects, P!Expires(s) PROVE LookupsInv'
<1>1. cached' = [cached EXCEPT ![s] = "miss"] /\ UNCHANGED <<market, inFlightPools, batches, readers>>
  BY DEF P!Expires
<1> QED BY <1>1, LookupRanges, LookupsStay

\* A reader moves.
LEMMA ReaderMoves ==
    ASSUME LookupsInv, UNCHANGED <<market, cached, inFlightPools, batches>>,
           NEW r \in Readers, NEW n \in Reader, ReaderFits(n), readers' = [readers EXCEPT ![r] = n]
    PROVE  LookupsInv'
<1>1. readers' \in [Readers -> Reader] /\ \A q \in Readers : ReaderFits(readers'[q])
  BY LookupRanges
<1> QED BY <1>1, LookupRanges, LookupsStay

\* Of a reader nothing else changes.
LEMMA ReadersKeep ==
    ASSUME LookupsInv, NEW r \in Readers,
           \/ \E s \in Subjects : P!ReaderHits(r, s) \/ P!ReaderLoads(r, s)
           \/ P!ReaderReturns(r)
    PROVE  LookupsInv'
<1>1. ASSUME NEW s \in Subjects, P!ReaderHits(r, s) PROVE LookupsInv'
  <2> DEFINE n == [st |-> cached[s], subject |-> s]
  <2>1. cached[s] = Says(s) /\ cached[s] \in Answers
    BY <1>1, LookupRanges, SaysAnAnswer DEF P!ReaderHits
  <2>2. n \in Reader /\ ReaderFits(n)
    BY <2>1 DEF Reader, ReaderFits
  <2>3. readers' = [readers EXCEPT ![r] = n] /\ UNCHANGED <<market, cached, inFlightPools, batches>>
    BY <1>1 DEF P!ReaderHits
  <2> QED BY <2>2, <2>3, ReaderMoves
<1>2. ASSUME NEW s \in Subjects, P!ReaderLoads(r, s) PROVE LookupsInv'
  <2> DEFINE n == [st |-> "waiting", subject |-> s]
  <2>1. n \in Reader /\ ReaderFits(n)
    BY DEF Reader, ReaderFits, Answers
  <2>2. readers' = [readers EXCEPT ![r] = n] /\ UNCHANGED <<market, cached, inFlightPools, batches>>
    BY <1>2 DEF P!ReaderLoads
  <2> QED BY <2>1, <2>2, ReaderMoves
<1>3. CASE P!ReaderReturns(r)
  <2>1. P!IdleReader \in Reader /\ ReaderFits(P!IdleReader)
    BY DEF P!IdleReader, Reader, ReaderFits, Answers
  <2>2. readers' = [readers EXCEPT ![r] = P!IdleReader]
        /\ UNCHANGED <<market, cached, inFlightPools, batches>>
    BY <1>3 DEF P!ReaderReturns
  <2> QED BY <2>1, <2>2, ReaderMoves
<1> QED BY <1>1, <1>2, <1>3

\* Readers who joined a lookup hear its answer.
LEMMA ReadersHearTruth ==
    ASSUME LookupsInv, NEW s \in Subjects, NEW outcome \in {Says(s), "failed"}
    PROVE  /\ P!ReadersHear(s, outcome) \in [Readers -> Reader]
           /\ \A r \in Readers : ReaderFits(P!ReadersHear(s, outcome)[r])
<1> DEFINE heard == P!ReadersHear(s, outcome)
<1>1. Says(s) \in Answers
  BY SaysAnAnswer
<1>2. ASSUME NEW r \in Readers PROVE heard[r] \in Reader /\ ReaderFits(heard[r])
  <2>1. CASE readers[r] = [st |-> "waiting", subject |-> s]
    <3>1. heard[r] = [st |-> outcome, subject |-> s]
      BY <2>1 DEF P!ReadersHear
    <3> HIDE DEF heard
    <3> QED BY <1>1, <3>1 DEF Reader, ReaderFits, Answers
  <2>2. CASE readers[r] # [st |-> "waiting", subject |-> s]
    <3>1. heard[r] = readers[r]
      BY <2>2 DEF P!ReadersHear
    <3> QED BY <3>1, LookupRanges
  <2> QED BY <2>1, <2>2
<1> QED BY <1>2 DEF P!ReadersHear

\* getPoolsForSubjects begins: it reads the cache, joins lookups and claims
\* the rest.
LEMMA BatchStartsKeeps ==
    ASSUME LookupsInv, NEW b \in Batches, NEW asked \in SUBSET Subjects, P!BatchStarts(b, asked)
    PROVE  LookupsInv'
<1> DEFINE mine == P!Claims(asked)
           st == IF mine = {} THEN "awaiting" ELSE "fetching"
           got == [s \in Subjects |-> IF s \notin asked THEN ""
                                      ELSE IF cached[s] = "miss" THEN "?" ELSE cached[s]]
           start == [st |-> st, got |-> got, owned |-> mine, todo |-> mine, deep |-> {},
                     fetched |-> P!Nothing]
           n == P!Looked(start)
<1>1. /\ batches[b].st = "idle"
      /\ inFlightPools' = [s \in Subjects |-> IF s \in mine THEN b ELSE inFlightPools[s]]
      /\ batches' = [batches EXCEPT ![b] = n]
      /\ UNCHANGED <<market, cached, readers>>
  BY DEF P!BatchStarts
<1>2. mine \subseteq Subjects /\ \A s \in mine : inFlightPools[s] = NoBatch
  BY DEF P!Claims
<1>3. got \in [Subjects -> Answers \cup {"", "?", "error"}]
      /\ \A s \in Subjects : got[s] \in {"", "?", "error", Says(s)}
  <2>1. \A s \in Subjects : cached[s] \in {"miss", Says(s)} /\ Says(s) \in Answers
    BY LookupRanges, SaysAnAnswer
  <2> QED BY <2>1
<1>4. P!Nothing \in [Subjects -> Answers \cup {"", "?", "error"}]
  BY DEF P!Nothing
<1>5. st \in {"awaiting", "fetching"} /\ (st = "fetching" <=> mine # {})
  OBVIOUS
<1> HIDE DEF mine, got, st
<1>6. start \in Batch /\ BatchFits(start) /\ start.st = st /\ start.owned = mine
  <2>1. start \in Batch
    BY <1>2, <1>3, <1>4, <1>5 DEF Batch
  <2>2. BatchFits(start)
    BY <1>3, <1>5 DEF BatchFits
  <2> QED BY <2>1, <2>2
<1> HIDE DEF start
<1>7. n \in Batch /\ BatchFits(n) /\ n.owned = mine
      /\ (n.st \in {"fetching", "fallback"} <=> mine # {})
  <2>1. start.st # "done"
    BY <1>5, <1>6
  <2> QED BY <1>5, <1>6, <2>1, LookedFits
<1> HIDE DEF n
<1>8. \A s \in Subjects : inFlightPools[s] # b
  BY <1>1 DEF LookupsInv, Registrations
<1>9. /\ inFlightPools' \in [Subjects -> Batches \cup {NoBatch}]
      /\ \A s \in Subjects : inFlightPools'[s] = b <=> s \in mine
      /\ \A c \in Batches \ {b}, s \in Subjects : inFlightPools'[s] = c <=> inFlightPools[s] = c
  BY <1>1, <1>2, <1>8, LookupRanges
<1>10. Registrations(b, n, inFlightPools')
  <2>1. \A s \in Subjects : inFlightPools'[s] = b => mine # {}
    BY <1>9
  <2>2. mine = {s \in Subjects : inFlightPools'[s] = b}
    BY <1>2, <1>9
  <2>3. \A s \in Subjects : inFlightPools'[s] = b => n.st \in {"fetching", "fallback"}
    BY <1>7, <2>1
  <2>4. n.st \in {"fetching", "fallback"} => n.owned = {s \in Subjects : inFlightPools'[s] = b}
    BY <1>7, <2>2
  <2> QED BY <2>3, <2>4 DEF Registrations
<1>11. /\ batches' \in [Batches -> Batch]
       /\ \A c \in Batches : Registrations(c, batches[c], inFlightPools)' /\ BatchFits(batches[c])'
  BY <1>1, <1>7, <1>9, <1>10, OneBatchMoves
<1> QED BY <1>1, <1>9, <1>11, LookupRanges, Together

\* A batch that is over begins again.
LEMMA BatchReturnsKeeps ==
    ASSUME LookupsInv, NEW b \in Batches, P!BatchReturns(b) PROVE LookupsInv'
<1>1. /\ batches[b].st \in {"done", "failed"} /\ batches' = [batches EXCEPT ![b] = P!IdleBatch]
      /\ UNCHANGED <<market, cached, inFlightPools, readers>>
  BY DEF P!BatchReturns
<1>2. P!IdleBatch \in Batch /\ BatchFits(P!IdleBatch) /\ P!IdleBatch.st = "idle"
  BY DEF P!IdleBatch, P!Nothing, Batch, BatchFits
<1>3. \A s \in Subjects : inFlightPools[s] # b
  BY <1>1 DEF LookupsInv, Registrations
<1>4. Registrations(b, P!IdleBatch, inFlightPools')
  BY <1>1, <1>2, <1>3 DEF Registrations, P!IdleBatch, P!Nothing
<1>5. /\ batches' \in [Batches -> Batch]
      /\ \A c \in Batches : Registrations(c, batches[c], inFlightPools)' /\ BatchFits(batches[c])'
  BY <1>1, <1>2, <1>4, LookupRanges, OneBatchMoves
<1> QED BY <1>1, <1>5, LookupRanges, Together

-----------------------------------------------------------------------------
(* The upstream calls settle.                                               *)

\* What a batch has fetched stays of the shape of what it has got.
LEMMA FilledIs ==
    ASSUME NEW fetched \in [Subjects -> Answers \cup {"", "?", "error"}],
           NEW ss \in SUBSET Subjects, NEW values, \A s \in ss : values[s] = Says(s)
    PROVE  LET f == P!Filled(fetched, ss, values)
           IN  /\ f \in [Subjects -> Answers \cup {"", "?", "error"}]
               /\ \A s \in Subjects : f[s] = IF s \in ss THEN Says(s) ELSE fetched[s]
<1> DEFINE f == P!Filled(fetched, ss, values)
<1>1. \A s \in Subjects : f[s] = IF s \in ss THEN Says(s) ELSE fetched[s]
  BY DEF P!Filled
<1>2. f = [s \in Subjects |-> f[s]]
  BY DEF P!Filled
<1> HIDE DEF f
<1>3. \A s \in Subjects : f[s] \in Answers \cup {"", "?", "error"}
  BY <1>1, SaysAnAnswer
<1>4. f \in [Subjects -> Answers \cup {"", "?", "error"}]
  BY <1>2, <1>3
<1> QED BY <1>1, <1>4 DEF f

\* What failed is an error for those who joined it.
LEMMA ErrorsSettle ==
    ASSUME LookupsInv, NEW b \in Batches, batches[b].st \in {"fetching", "fallback"},
           market' = market, batches' = P!Settled(b, P!Errors), inFlightPools' = P!Released(b)
    PROVE  /\ inFlightPools' \in [Subjects -> Batches \cup {NoBatch}]
           /\ batches' \in [Batches -> Batch]
           /\ \A c \in Batches : Registrations(c, batches[c], inFlightPools)' /\ BatchFits(batches[c])'
<1> DEFINE outcome == P!Errors
<1>1. outcome \in [Subjects -> Answers \cup {"", "?", "error"}]
      /\ \A s \in Subjects : outcome[s] = "error"
  BY DEF P!Errors
<1>2. batches[b].owned \subseteq Subjects
  BY LookupRanges, BatchRanges
<1>3. batches' = P!Settled(b, outcome)
  OBVIOUS
<1> HIDE DEF outcome
<1>4. \A s \in batches[b].owned : outcome[s] \in {"error", Says(s)}
  BY <1>1, <1>2
<1> QED BY <1>1, <1>3, <1>4, SettledFits

\* A chunk of the multi call fails, which leaves its subjects to the
\* fallback.
LEMMA ChunkFailsKeeps ==
    ASSUME LookupsInv, NEW b \in Batches, P!ChunkFails(b) PROVE LookupsInv'
<1>1. /\ batches[b].st = "fetching" /\ batches' = P!Settled(b, P!Errors)
      /\ inFlightPools' = P!Released(b) /\ UNCHANGED <<market, cached, loading, readers>>
  BY DEF P!ChunkFails
<1>2. /\ inFlightPools' \in [Subjects -> Batches \cup {NoBatch}]
      /\ batches' \in [Batches -> Batch]
      /\ \A c \in Batches : Registrations(c, batches[c], inFlightPools)' /\ BatchFits(batches[c])'
  BY <1>1, ErrorsSettle
<1> QED BY <1>1, <1>2, LookupRanges, Together

\* A lookup of the fallback fails.
LEMMA LoadFailsKeeps ==
    ASSUME LookupsInv, NEW s \in Subjects, P!PoolLoadFails(s) PROVE LookupsInv'
<1>1. /\ readers' = P!ReadersHear(s, "failed") /\ UNCHANGED <<market, cached>>
      /\ \/ UNCHANGED <<inFlightPools, batches>>
         \/ \E b \in P!FallingBack(s) :
               batches' = P!Settled(b, P!Errors) /\ inFlightPools' = P!Released(b)
  BY DEF P!PoolLoadFails
<1> DEFINE heard == P!ReadersHear(s, "failed")
           outcome == "failed"
<1>2. heard \in [Readers -> Reader] /\ \A r \in Readers : ReaderFits(heard[r])
  <2>1. outcome \in {Says(s), "failed"}
    OBVIOUS
  <2> QED BY <2>1, ReadersHearTruth
<1>3. readers' = heard
  BY <1>1
<1> HIDE DEF heard
<1>4. readers' \in [Readers -> Reader] /\ \A r \in Readers : ReaderFits(readers'[r])
  BY <1>2, <1>3
<1>5. CASE UNCHANGED <<inFlightPools, batches>>
  BY <1>1, <1>4, <1>5, LookupRanges, LookupsStay
<1>6. ASSUME NEW b \in P!FallingBack(s),
             batches' = P!Settled(b, P!Errors), inFlightPools' = P!Released(b)
      PROVE  LookupsInv'
  <2>1. b \in Batches /\ batches[b].st = "fallback"
    BY DEF P!FallingBack
  <2>2. /\ inFlightPools' \in [Subjects -> Batches \cup {NoBatch}]
        /\ batches' \in [Batches -> Batch]
        /\ \A c \in Batches : Registrations(c, batches[c], inFlightPools)' /\ BatchFits(batches[c])'
    BY <1>1, <1>6, <2>1, ErrorsSettle
  <2> QED BY <1>1, <1>4, <2>2, LookupRanges, Together
<1> QED BY <1>1, <1>5, <1>6

\* A lookup of the fallback is answered.
LEMMA LoadKeeps ==
    ASSUME LookupsInv, NEW s \in Subjects, P!PoolLoads(s) PROVE LookupsInv'
<1>1. /\ readers' = P!ReadersHear(s, Says(s)) /\ cached' = [cached EXCEPT ![s] = Says(s)]
      /\ market' = market
      /\ \/ UNCHANGED <<inFlightPools, batches>>
         \/ \E b \in P!FallingBack(s) :
               LET fetched == [batches[b].fetched EXCEPT ![s] = Says(s)]
                   deep == batches[b].deep \ {s}
               IN  \/ /\ deep # {}
                      /\ batches' = [batches EXCEPT ![b].deep = deep, ![b].fetched = fetched]
                      /\ UNCHANGED inFlightPools
                   \/ /\ deep = {}
                      /\ batches' = P!Settled(b, fetched) /\ inFlightPools' = P!Released(b)
  BY DEF P!PoolLoads, Says
<1>2. Says(s) \in Answers /\ \A t \in Subjects : cached[t] \in {"miss", Says(t)}
  BY SaysAnAnswer, LookupRanges
<1>3. cached' \in [Subjects -> Answers \cup {"miss"}] /\ \A t \in Subjects : cached'[t] \in {"miss", Says(t)}
  BY <1>1, <1>2, LookupRanges
<1> DEFINE heard == P!ReadersHear(s, Says(s))
<1>4. heard \in [Readers -> Reader] /\ \A r \in Readers : ReaderFits(heard[r])
  BY ReadersHearTruth
<1>5. readers' = heard
  BY <1>1
<1> HIDE DEF heard
<1>6. readers' \in [Readers -> Reader] /\ \A r \in Readers : ReaderFits(readers'[r])
  BY <1>4, <1>5
<1>7. CASE UNCHANGED <<inFlightPools, batches>>
  BY <1>1, <1>3, <1>6, <1>7, LookupsStay
<1>8. ASSUME NEW b \in P!FallingBack(s) PROVE
          LET fetched == [batches[b].fetched EXCEPT ![s] = Says(s)]
              deep == batches[b].deep \ {s}
          IN  (\/ /\ deep # {}
                  /\ batches' = [batches EXCEPT ![b].deep = deep, ![b].fetched = fetched]
                  /\ UNCHANGED inFlightPools
               \/ /\ deep = {}
                  /\ batches' = P!Settled(b, fetched) /\ inFlightPools' = P!Released(b))
              => LookupsInv'
  <2> DEFINE old == batches[b]
             fetched == [old.fetched EXCEPT ![s] = Says(s)]
             deep == old.deep \ {s}
             n == [old EXCEPT !.deep = deep, !.fetched = fetched]
  <2>1. b \in Batches /\ old.st = "fallback" /\ s \in old.deep
    BY DEF P!FallingBack
  <2>2. old \in Batch /\ BatchFits(old) /\ Registrations(b, old, inFlightPools)
    BY <2>1, LookupRanges DEF LookupsInv
  <2>3. /\ old.todo = {} /\ old.deep \subseteq old.owned /\ old.owned \subseteq Subjects
        /\ \A t \in old.owned : t \notin old.deep => old.fetched[t] = Says(t)
        /\ old.fetched \in [Subjects -> Answers \cup {"", "?", "error"}]
        /\ \A t \in Subjects : old.got[t] \in {"", "?", "error", Says(t)}
    <3>1. old.fetched \in [Subjects -> Answers \cup {"", "?", "error"}] /\ old.owned \subseteq Subjects
      BY <2>2, BatchRanges
    <3>2. old.todo = {} /\ old.deep \subseteq old.owned
      BY <2>1, <2>2 DEF BatchFits
    <3>3. \A t \in old.owned : t \notin old.todo /\ t \notin old.deep => old.fetched[t] = Says(t)
      BY <2>1, <2>2 DEF BatchFits
    <3>4. \A t \in Subjects : old.got[t] \in {"", "?", "error", Says(t)}
      BY <2>2 DEF BatchFits
    <3> QED BY <3>1, <3>2, <3>3, <3>4
  <2>4. fetched \in [Subjects -> Answers \cup {"", "?", "error"}]
        /\ \A t \in Subjects : fetched[t] = IF t = s THEN Says(s) ELSE old.fetched[t]
    BY <1>2, <2>3
  <2>5. CASE /\ deep # {}
             /\ batches' = [batches EXCEPT ![b].deep = deep, ![b].fetched = fetched]
             /\ UNCHANGED inFlightPools
    <3>1. batches' = [batches EXCEPT ![b] = n]
      BY <2>1, <2>2, <2>5, LookupRanges DEF Batch
    <3> HIDE DEF fetched
    <3>2. n \in Batch /\ n.st = "fallback" /\ n.todo = {} /\ n.deep = deep /\ n.owned = old.owned
          /\ n.fetched = fetched /\ n.got = old.got
      BY <2>1, <2>2, <2>3, <2>4 DEF Batch
    <3> HIDE DEF n
    <3>3. BatchFits(n)
      <4>1. \A t \in n.owned : t \notin n.deep => n.fetched[t] = Says(t)
        BY <2>3, <2>4, <3>2
      <4> QED BY <2>3, <3>2, <4>1 DEF BatchFits
    <3>4. Registrations(b, n, inFlightPools')
      BY <2>1, <2>2, <2>5, <3>2 DEF Registrations
    <3>5. /\ batches' \in [Batches -> Batch]
          /\ \A c \in Batches : Registrations(c, batches[c], inFlightPools)' /\ BatchFits(batches[c])'
      <4>1. \A c \in Batches \ {b}, t \in Subjects : inFlightPools'[t] = c <=> inFlightPools[t] = c
        BY <2>5
      <4>2. inFlightPools' \in [Subjects -> Batches \cup {NoBatch}]
        BY <2>5, LookupRanges
      <4> QED BY <1>1, <2>1, <3>1, <3>2, <3>3, <3>4, <4>1, <4>2, OneBatchMoves
    <3> QED BY <1>1, <1>3, <1>6, <2>5, <3>5, LookupRanges, Together
  <2>6. CASE /\ deep = {}
             /\ batches' = P!Settled(b, fetched) /\ inFlightPools' = P!Released(b)
    <3>1. \A t \in old.owned : fetched[t] \in {"error", Says(t)}
      BY <2>3, <2>4, <2>6
    <3> HIDE DEF fetched
    <3>2. /\ inFlightPools' \in [Subjects -> Batches \cup {NoBatch}]
          /\ batches' \in [Batches -> Batch]
          /\ \A c \in Batches : Registrations(c, batches[c], inFlightPools)' /\ BatchFits(batches[c])'
      BY <1>1, <2>1, <2>4, <2>6, <3>1, SettledFits
    <3> QED BY <1>1, <1>3, <1>6, <3>2, Together
  <2> QED BY <2>5, <2>6
<1> QED BY <1>1, <1>7, <1>8

\* A chunk of the multi call is answered.
LEMMA ChunkAnsweredKeeps ==
    ASSUME LookupsInv, NEW b \in Batches, P!ChunkAnswered(b) PROVE LookupsInv'
<1> DEFINE old == batches[b]
           chunk == P!Chunk(b)
           direct == {s \in chunk : ~P!NeedsFallback(s)}
           todo == old.todo \ chunk
           deep == old.deep \cup (chunk \ direct)
           after == [s \in Subjects |-> IF s \in direct THEN P!ChunkSays(s) ELSE cached[s]]
           fetched == P!Filled(old.fetched, direct, after)
           missing == {s \in deep : after[s] = "miss"}
           all == P!Filled(fetched, deep, after)
           held == P!Filled(fetched, deep \ missing, after)
<1>1. /\ old.st = "fetching" /\ cached' = after /\ UNCHANGED <<market, readers>>
      /\ \/ /\ todo # {}
            /\ batches' = [batches EXCEPT ![b] =
                  [@ EXCEPT !.todo = todo, !.deep = deep, !.fetched = fetched]]
            /\ UNCHANGED inFlightPools
         \/ /\ todo = {} /\ missing # {}
            /\ batches' = [batches EXCEPT ![b] =
                  [@ EXCEPT !.st = "fallback", !.todo = {}, !.deep = missing, !.fetched = held]]
            /\ UNCHANGED inFlightPools
         \/ /\ todo = {} /\ missing = {}
            /\ batches' = P!Settled(b, all) /\ inFlightPools' = P!Released(b)
  BY DEF P!ChunkAnswered
<1>2. old \in Batch /\ BatchFits(old) /\ Registrations(b, old, inFlightPools)
  BY LookupRanges DEF LookupsInv
<1>3. /\ old.todo \subseteq old.owned /\ old.deep \subseteq old.owned /\ old.owned \subseteq Subjects
      /\ old.fetched \in [Subjects -> Answers \cup {"", "?", "error"}]
      /\ \A s \in old.owned : s \notin old.todo /\ s \notin old.deep => old.fetched[s] = Says(s)
      /\ \A s \in Subjects : old.got[s] \in {"", "?", "error", Says(s)}
  BY <1>1, <1>2, BatchRanges DEF BatchFits
<1>4. chunk \subseteq old.todo /\ direct \subseteq chunk
  BY DEF P!Chunk
<1>5. \A s \in direct : P!ChunkSays(s) = Says(s)
  <2>1. \A s \in Subjects : market[s] \in {"top", "deep", "none", "unindexed"}
    BY LookupRanges DEF P!Markets
  <2> QED BY <1>3, <1>4, <2>1 DEF P!NeedsFallback, P!ChunkSays, Says, P!ListSays
<1>6. /\ after \in [Subjects -> Answers \cup {"miss"}]
      /\ \A s \in Subjects : after[s] \in {"miss", Says(s)}
      /\ \A s \in direct : after[s] = Says(s)
  <2>1. direct \subseteq Subjects
    BY <1>3, <1>4
  <2>2. \A s \in Subjects : cached[s] \in {"miss", Says(s)} /\ Says(s) \in Answers
    BY LookupRanges, SaysAnAnswer
  <2> QED BY <1>5, <2>1, <2>2
<1>7. deep \subseteq old.owned /\ missing \subseteq deep /\ \A s \in deep \ missing : after[s] = Says(s)
  BY <1>3, <1>4, <1>6
<1> HIDE DEF chunk, after
<1>8. /\ fetched \in [Subjects -> Answers \cup {"", "?", "error"}]
      /\ \A s \in Subjects : fetched[s] = IF s \in direct THEN Says(s) ELSE old.fetched[s]
  <2> DEFINE got == old.fetched
  <2>1. /\ direct \in SUBSET Subjects /\ \A s \in direct : after[s] = Says(s)
        /\ got \in [Subjects -> Answers \cup {"", "?", "error"}]
    BY <1>3, <1>4, <1>6
  <2> HIDE DEF direct, got
  <2>2. LET f == P!Filled(got, direct, after)
        IN  /\ f \in [Subjects -> Answers \cup {"", "?", "error"}]
            /\ \A s \in Subjects : f[s] = IF s \in direct THEN Says(s) ELSE got[s]
    BY <2>1, FilledIs, ZenonT(60)
  <2> QED BY <2>2 DEF got
<1>9. \A s \in old.owned : s \notin todo /\ s \notin deep => fetched[s] = Says(s)
  BY <1>3, <1>8
<1> HIDE DEF direct, fetched
<1>10. cached' \in [Subjects -> Answers \cup {"miss"}] /\ \A s \in Subjects : cached'[s] \in {"miss", Says(s)}
  BY <1>1, <1>6
<1>11. readers' \in [Readers -> Reader] /\ \A r \in Readers : ReaderFits(readers'[r])
  BY <1>1, LookupRanges
<1>12. ASSUME NEW n \in Batch, batches' = [batches EXCEPT ![b] = n], UNCHANGED inFlightPools,
              BatchFits(n), n.st \in {"fetching", "fallback"}, n.owned = old.owned
       PROVE  LookupsInv'
  <2>1. Registrations(b, n, inFlightPools')
    BY <1>1, <1>2, <1>12 DEF Registrations
  <2>2. \A c \in Batches \ {b}, t \in Subjects : inFlightPools'[t] = c <=> inFlightPools[t] = c
    BY <1>12
  <2>3. inFlightPools' \in [Subjects -> Batches \cup {NoBatch}]
    BY <1>12, LookupRanges
  <2>4. /\ batches' \in [Batches -> Batch]
        /\ \A c \in Batches : Registrations(c, batches[c], inFlightPools)' /\ BatchFits(batches[c])'
    BY <1>1, <1>12, <2>1, <2>2, <2>3, OneBatchMoves
  <2> QED BY <1>1, <1>10, <1>11, <2>3, <2>4, Together
<1>13. CASE /\ todo # {}
            /\ batches' = [batches EXCEPT ![b] =
                  [@ EXCEPT !.todo = todo, !.deep = deep, !.fetched = fetched]]
            /\ UNCHANGED inFlightPools
  <2> DEFINE n == [old EXCEPT !.todo = todo, !.deep = deep, !.fetched = fetched]
  <2>1. batches' = [batches EXCEPT ![b] = n]
    BY <1>13
  <2>2. todo \subseteq old.owned
    BY <1>3
  <2> HIDE DEF todo, deep
  <2>3. n \in Batch /\ n.st = "fetching" /\ n.todo = todo /\ n.deep = deep /\ n.owned = old.owned
        /\ n.fetched = fetched /\ n.got = old.got
    BY <1>1, <1>2, <1>3, <1>7, <1>8, <2>2 DEF Batch
  <2> HIDE DEF n
  <2>4. BatchFits(n)
    BY <1>3, <1>7, <1>9, <2>2, <2>3 DEF BatchFits
  <2> QED BY <1>12, <1>13, <2>1, <2>3, <2>4
<1>14. CASE /\ todo = {} /\ missing # {}
            /\ batches' = [batches EXCEPT ![b] =
                  [@ EXCEPT !.st = "fallback", !.todo = {}, !.deep = missing, !.fetched = held]]
            /\ UNCHANGED inFlightPools
  <2> DEFINE n == [old EXCEPT !.st = "fallback", !.todo = {}, !.deep = missing, !.fetched = held]
  <2>1. batches' = [batches EXCEPT ![b] = n]
    BY <1>14
  <2>2. /\ held \in [Subjects -> Answers \cup {"", "?", "error"}]
        /\ \A s \in Subjects : held[s] = IF s \in deep \ missing THEN Says(s) ELSE fetched[s]
    <3> DEFINE left == deep \ missing
    <3>1. left \in SUBSET Subjects /\ \A s \in left : after[s] = Says(s)
      BY <1>3, <1>7
    <3> HIDE DEF left
    <3>2. LET f == P!Filled(fetched, left, after)
          IN  /\ f \in [Subjects -> Answers \cup {"", "?", "error"}]
              /\ \A s \in Subjects : f[s] = IF s \in left THEN Says(s) ELSE fetched[s]
      <4>1. fetched \in [Subjects -> Answers \cup {"", "?", "error"}]
        BY <1>8
      <4> QED BY <3>1, <4>1, FilledIs, ZenonT(60)
    <3> QED BY <3>2 DEF left
  <2>3. \A s \in old.owned : s \notin missing => held[s] = Says(s)
    BY <1>3, <1>9, <1>14, <2>2
  <2>4. missing \subseteq old.owned
    BY <1>7
  <2> HIDE DEF todo, deep, missing, held
  <2>5. n \in Batch /\ n.st = "fallback" /\ n.todo = {} /\ n.deep = missing /\ n.owned = old.owned
        /\ n.fetched = held /\ n.got = old.got
    BY <1>2, <1>3, <2>2, <2>4 DEF Batch
  <2> HIDE DEF n
  <2>6. BatchFits(n)
    BY <1>3, <2>3, <2>4, <2>5 DEF BatchFits
  <2> QED BY <1>12, <1>14, <2>1, <2>5, <2>6
<1>15. CASE /\ todo = {} /\ missing = {}
            /\ batches' = P!Settled(b, all) /\ inFlightPools' = P!Released(b)
  <2>1. /\ all \in [Subjects -> Answers \cup {"", "?", "error"}]
        /\ \A s \in Subjects : all[s] = IF s \in deep THEN Says(s) ELSE fetched[s]
    <3>1. deep \in SUBSET Subjects /\ \A s \in deep : after[s] = Says(s)
      BY <1>3, <1>7, <1>15
    <3> HIDE DEF deep
    <3>2. LET f == P!Filled(fetched, deep, after)
          IN  /\ f \in [Subjects -> Answers \cup {"", "?", "error"}]
              /\ \A s \in Subjects : f[s] = IF s \in deep THEN Says(s) ELSE fetched[s]
      <4>1. fetched \in [Subjects -> Answers \cup {"", "?", "error"}]
        BY <1>8
      <4> HIDE DEF deep
      <4> QED BY <3>1, <4>1, FilledIs, ZenonT(60)
    <3> QED BY <3>2
  <2>2. \A s \in old.owned : all[s] \in {"error", Says(s)}
    BY <1>3, <1>9, <1>15, <2>1
  <2>3. batches' = P!Settled(b, all) /\ inFlightPools' = P!Released(b)
    BY <1>15
  <2> HIDE DEF all
  <2>4. /\ inFlightPools' \in [Subjects -> Batches \cup {NoBatch}]
        /\ batches' \in [Batches -> Batch]
        /\ \A c \in Batches : Registrations(c, batches[c], inFlightPools)' /\ BatchFits(batches[c])'
    BY <1>1, <2>1, <2>2, <2>3, SettledFits
  <2> QED BY <1>1, <1>10, <1>11, <2>4, Together
<1> QED BY <1>1, <1>13, <1>14, <1>15

-----------------------------------------------------------------------------
(* The theorem.                                                             *)

\* No other part changes it.
LEMMA LookupsElsewhere == ASSUME LookupsInv, UNCHANGED poolVars PROVE LookupsInv'
<1>1. UNCHANGED <<market, cached, inFlightPools, batches, readers>>
  BY DEF poolVars
<1> QED BY <1>1, LookupRanges, LookupsStay

\* Every step keeps it.
LEMMA LookupsStep == LookupsInv /\ [Next]_vars => LookupsInv'
<1> SUFFICES ASSUME LookupsInv, [Next]_vars PROVE LookupsInv'
  OBVIOUS
<1>1. CASE UNCHANGED vars
  BY <1>1, LookupsElsewhere DEF vars
<1>2. CASE TokenFigures \/ AdaQuotes
  BY <1>2, LookupsElsewhere DEF TokenFigures, AdaQuotes
<1>3. CASE TokenPools
  BY <1>3, ExpiryKeeps, BatchStartsKeeps, ChunkAnsweredKeeps, ChunkFailsKeeps, ReadersKeep,
     LoadKeeps, LoadFailsKeeps, BatchReturnsKeeps DEF TokenPools, P!Next
<1> QED BY <1>1, <1>2, <1>3 DEF Next

\* Two overlapping batches never look the same subject up at the same time, and
\* whatever fails, is unknown or is quoted in an unusual asset, in this batch or
\* in one it shares a lookup with, no subject that has a market is read or cached
\* as having none (resolveAdaPoolsBatch and resolveAdaPool of geckoterminal.ts).
THEOREM PoolsStayTrue == Spec => []PoolsAreTrue
<1>1. Init => LookupsInv
  <2>1. Init => P!Start /\ market \in [Subjects -> P!Markets]
    BY DEF Init, P!Init, NoPools, P!Markets
  <2> QED BY <2>1, LookupsStart
<1>2. LookupsInv => PoolsAreTrue
  <2> SUFFICES ASSUME LookupsInv PROVE P!OneLookupPerSubject /\ P!AnswersAreTrue
    BY DEF PoolsAreTrue
  <2>1. P!OneLookupPerSubject
    BY DEF P!OneLookupPerSubject, P!Fetching, LookupsInv, Registrations
  <2>2. ASSUME NEW b \in Batches, batches[b].st = "done", NEW s \in Subjects
        PROVE  batches[b].got[s] \in {"", P!ListSays(s)}
    BY <2>2 DEF LookupsInv, BatchFits, Says
  <2>3. ASSUME NEW r \in Readers, readers[r].st \in P!Found
        PROVE  readers[r].st = P!ListSays(readers[r].subject)
    BY <2>3 DEF LookupsInv, ReaderFits, Says, Answers, P!Found
  <2> QED BY <2>1, <2>2, <2>3 DEF P!AnswersAreTrue, LookupsInv, Says
<1> QED BY <1>1, <1>2, LookupsStep, PTL DEF Spec

-----------------------------------------------------------------------------
(* Decimals.                                                                *)

\* A number: a sequence of digits that neither begins nor ends with 0.
LEMMA FloatRanges ==
    ASSUME NEW f \in Floats
    PROVE  /\ f.digits \in Seq(0..9) /\ Len(f.digits) \in Nat \ {0} /\ f.e \in Int
           /\ f.digits[1] # 0 /\ f.digits[Len(f.digits)] # 0
<1>1. Digits \subseteq 0..9 /\ Exponents \subseteq Int /\ MaxDigits \in Nat
  BY PricesAssumption
<1>2. PICK m \in 0..MaxDigits : f.digits \in [1..m -> Digits]
  BY DEF Floats, SeqOf
<1>3. f.digits \in [1..m -> 0..9] /\ m \in Nat
  <2>1. \A i \in 1..m : f.digits[i] \in 0..9
    BY <1>1, <1>2
  <2> QED BY <1>1, <1>2, <2>1
<1>4. f.digits \in Seq(0..9)
  BY <1>3
<1>5. f.digits # <<>> /\ Head(f.digits) # 0 /\ Last(f.digits) # 0 /\ f.e \in Int
  BY <1>1 DEF Floats
<1>6. Len(f.digits) # 0
  BY <1>4, <1>5
<1> QED BY <1>4, <1>5, <1>6 DEF Last

\* A concatenation, place by place.
LEMMA Joined ==
    ASSUME NEW A, NEW s \in Seq(A), NEW t \in Seq(A)
    PROVE  /\ s \o t \in Seq(A) /\ Len(s \o t) = Len(s) + Len(t)
           /\ \A i \in 1..Len(s \o t) :
                 (s \o t)[i] = IF i <= Len(s) THEN s[i] ELSE t[i - Len(s)]
OBVIOUS

\* Zeros, place by place.
LEMMA ZerosAre ==
    ASSUME NEW n \in Nat
    PROVE  Zeros(n) \in Seq(0..9) /\ Len(Zeros(n)) = n /\ \A i \in 1..n : Zeros(n)[i] = 0
BY DEF Zeros

\* Digits after zeros.
LEMMA Concatenated ==
    ASSUME NEW n \in Nat, NEW digits \in Seq(0..9)
    PROVE  LET s == Zeros(n) \o digits
           IN  /\ s \in Seq(0..9) /\ Len(s) = n + Len(digits)
               /\ \A i \in 1..Len(s) : s[i] = IF i <= n THEN 0 ELSE digits[i - n]
<1> DEFINE A == 0..9
           z == Zeros(n)
           s == z \o digits
<1>1. z \in Seq(A) /\ Len(z) = n /\ \A i \in 1..n : z[i] = 0
  BY ZerosAre
<1>2. digits \in Seq(A)
  OBVIOUS
<1> HIDE DEF A, z
<1>3. /\ s \in Seq(A) /\ Len(s) = Len(z) + Len(digits)
      /\ \A i \in 1..Len(s) : s[i] = IF i <= Len(z) THEN z[i] ELSE digits[i - Len(z)]
  BY <1>1, <1>2, Joined
<1> HIDE DEF s
<1>4. \A i \in 1..Len(s) : s[i] = IF i <= n THEN 0 ELSE digits[i - n]
  <2> TAKE i \in 1..Len(s)
  <2>1. i <= n => i \in 1..n
    BY <1>2, <1>3
  <2> QED BY <1>1, <1>3, <2>1
<1> QED BY <1>1, <1>3, <1>4 DEF s, z, A

\* Digits before zeros.
LEMMA Padded ==
    ASSUME NEW n \in Nat, NEW digits \in Seq(0..9)
    PROVE  LET s == digits \o Zeros(n)
           IN  /\ s \in Seq(0..9) /\ Len(s) = Len(digits) + n
               /\ \A i \in 1..Len(s) : s[i] = IF i <= Len(digits) THEN digits[i] ELSE 0
<1> DEFINE A == 0..9
           z == Zeros(n)
           s == digits \o z
<1>1. z \in Seq(A) /\ Len(z) = n /\ \A i \in 1..n : z[i] = 0
  BY ZerosAre
<1>2. digits \in Seq(A)
  OBVIOUS
<1> HIDE DEF A, z
<1>3. /\ s \in Seq(A) /\ Len(s) = Len(digits) + Len(z)
      /\ \A i \in 1..Len(s) : s[i] = IF i <= Len(digits) THEN digits[i] ELSE z[i - Len(digits)]
  BY <1>1, <1>2, Joined
<1> HIDE DEF s
<1>4. \A i \in 1..Len(s) : s[i] = IF i <= Len(digits) THEN digits[i] ELSE 0
  <2> TAKE i \in 1..Len(s)
  <2>1. ~(i <= Len(digits)) => i - Len(digits) \in 1..n
    BY <1>1, <1>2, <1>3
  <2> QED BY <1>1, <1>3, <2>1
<1> QED BY <1>1, <1>3, <1>4 DEF s, z, A

\* Nothing is cut off a fraction that ends in a digit that is not 0.
LEMMA NothingToStrip ==
    ASSUME NEW frac \in Seq(0..9), frac # <<>> => frac[Len(frac)] # 0
    PROVE  SubSeq(frac, 1, StripTrailing(frac)) = frac
<1> DEFINE I == {i \in 1..Len(frac) : frac[i] # 0}
<1>1. StripTrailing(frac) = IF I # {} THEN Max(I) ELSE 0
  BY DEF StripTrailing, SelectLastInSeq
<1>2. StripTrailing(frac) = Len(frac)
  <2>1. CASE frac = <<>>
    BY <1>1, <2>1
  <2>2. CASE frac # <<>>
    <3>1. Len(frac) \in I /\ \A i \in I : Len(frac) >= i /\ i \in Int
      BY <2>2
    <3> HIDE DEF I
    <3>2. Max(I) = Len(frac)
      <4>1. Max(I) \in I /\ \A i \in I : Max(I) >= i
        BY <3>1 DEF Max
      <4> QED BY <3>1, <4>1
    <3> QED BY <1>1, <3>1, <3>2
  <2> QED BY <2>1, <2>2
<1> QED BY <1>2

\* What a decimal must be to say what digits with exponent e say: the place of
\* weight e + 1 - i holds the i-th digit, and every other place a 0.
Spells(d, digits, e) ==
    /\ \A i \in DOMAIN d.whole :
          d.whole[i] = LET j == e + 1 - (Len(d.whole) - i)
                       IN  IF j \in 1..Len(digits) THEN digits[j] ELSE 0
    /\ \A i \in DOMAIN d.frac :
          d.frac[i] = LET j == e + 1 + i IN IF j \in 1..Len(digits) THEN digits[j] ELSE 0
    \* Every digit has its place.
    /\ \A j \in 1..Len(digits) :
          \/ Len(d.whole) - (e + 1 - j) \in DOMAIN d.whole
          \/ -(e + 1 - j) \in DOMAIN d.frac

\* Such a decimal has the digits of the number.
LEMMA SpelledKeeps ==
    ASSUME NEW digits \in Seq(0..9), NEW e \in Int, NEW d,
           d.whole \in Seq(0..9), d.frac \in Seq(0..9), Spells(d, digits, e)
    PROVE  NonZero(Meaning(d)) = NonZero({<<e + 1 - i, digits[i]>> : i \in DOMAIN digits})
<1> DEFINE D == {<<e + 1 - i, digits[i]>> : i \in DOMAIN digits}
<1>1. ASSUME NEW p \in Meaning(d), p[2] # 0 PROVE p \in D
  <2>1. CASE \E i \in DOMAIN d.whole : p = <<Len(d.whole) - i, d.whole[i]>>
    <3>1. PICK i \in DOMAIN d.whole : p = <<Len(d.whole) - i, d.whole[i]>>
      BY <2>1
    <3> DEFINE j == e + 1 - (Len(d.whole) - i)
    <3>2. i \in Int /\ Len(d.whole) \in Int /\ j \in Int /\ Len(d.whole) - i = e + 1 - j
      OBVIOUS
    <3>3. d.whole[i] = IF j \in 1..Len(digits) THEN digits[j] ELSE 0
      BY DEF Spells
    <3> HIDE DEF j
    <3>4. j \in DOMAIN digits /\ p = <<e + 1 - j, digits[j]>>
      BY <1>1, <3>1, <3>2, <3>3
    <3> QED BY <3>4
  <2>2. CASE \E i \in DOMAIN d.frac : p = <<-i, d.frac[i]>>
    <3>1. PICK i \in DOMAIN d.frac : p = <<-i, d.frac[i]>>
      BY <2>2
    <3> DEFINE j == e + 1 + i
    <3>2. i \in Int /\ j \in Int /\ -i = e + 1 - j
      OBVIOUS
    <3>3. d.frac[i] = IF j \in 1..Len(digits) THEN digits[j] ELSE 0
      BY DEF Spells
    <3> HIDE DEF j
    <3>4. j \in DOMAIN digits /\ p = <<e + 1 - j, digits[j]>>
      BY <1>1, <3>1, <3>2, <3>3
    <3> QED BY <3>4
  <2> QED BY <1>1, <2>1, <2>2 DEF Meaning
<1>2. ASSUME NEW j \in DOMAIN digits PROVE <<e + 1 - j, digits[j]>> \in Meaning(d)
  <2>1. CASE Len(d.whole) - (e + 1 - j) \in DOMAIN d.whole
    <3> DEFINE i == Len(d.whole) - (e + 1 - j)
    <3>1. j \in 1..Len(digits) /\ i \in Int /\ Len(d.whole) - i = e + 1 - j
          /\ e + 1 - (Len(d.whole) - i) = j /\ i \in DOMAIN d.whole
      BY <2>1
    <3> HIDE DEF i
    <3>2. d.whole[i] = digits[j]
      BY <3>1 DEF Spells
    <3>3. <<Len(d.whole) - i, d.whole[i]>> \in Meaning(d)
      BY <3>1 DEF Meaning
    <3> QED BY <3>1, <3>2, <3>3
  <2>2. CASE -(e + 1 - j) \in DOMAIN d.frac
    <3> DEFINE i == -(e + 1 - j)
    <3>1. j \in 1..Len(digits) /\ i \in DOMAIN d.frac /\ i \in Int
      BY <2>2
    <3>0. -i = e + 1 - j /\ e + 1 + i = j
      BY <3>1
    <3> HIDE DEF i
    <3>2. d.frac[i] = digits[j]
      BY <3>0, <3>1 DEF Spells
    <3>3. <<-i, d.frac[i]>> \in Meaning(d)
      BY <3>1 DEF Meaning
    <3> QED BY <3>0, <3>2, <3>3
  <2> QED BY <2>1, <2>2 DEF Spells
<1>3. \A p \in D : p \in Meaning(d)
  BY <1>2
<1> HIDE DEF D
<1>4. NonZero(Meaning(d)) = NonZero(D)
  BY <1>1, <1>3 DEF NonZero
<1> QED BY <1>4 DEF D

\* The forms a decimal takes, which both spell the number and have no zero too
\* many.
Fits(d, digits, e) ==
    /\ d.whole \in Seq(0..9) /\ d.frac \in Seq(0..9)
    /\ Spells(d, digits, e) /\ IsCanonical(d)

\* What String prints keeps the digits, and has no zero too many.
LEMMA PlainFits ==
    ASSUME NEW digits \in Seq(0..9), Len(digits) > 0, NEW e \in Int,
           digits[1] # 0, digits[Len(digits)] # 0
    PROVE  Fits(Plain(digits, e), digits, e)
<1> DEFINE L == Len(digits)
<1>1. CASE e < 0
  <2> DEFINE z == -e - 1
             frac == Zeros(z) \o digits
             d == [whole |-> <<0>>, frac |-> frac]
  <2>1. z \in Nat /\ z = -e - 1
    BY <1>1
  <2> HIDE DEF z
  <2>2. /\ frac \in Seq(0..9) /\ Len(frac) = z + L
        /\ \A i \in 1..Len(frac) : frac[i] = IF i <= z THEN 0 ELSE digits[i - z]
    BY <2>1, Concatenated
  <2> HIDE DEF frac
  <2>3. d.whole = <<0>> /\ Len(d.whole) = 1 /\ d.whole \in Seq(0..9) /\ DOMAIN d.whole = {1}
        /\ d.whole[1] = 0 /\ d.frac = frac
    OBVIOUS
  <2>4. Plain(digits, e) = d
    BY <1>1 DEF Plain, frac, z
  <2> HIDE DEF d
  <2>5. ASSUME NEW i \in DOMAIN d.whole, NEW j, j = e + 1 - (Len(d.whole) - i)
        PROVE  d.whole[i] = IF j \in 1..L THEN digits[j] ELSE 0
    BY <1>1, <2>3, <2>5
  <2>6. ASSUME NEW i \in DOMAIN d.frac, NEW j, j = e + 1 + i
        PROVE  d.frac[i] = IF j \in 1..L THEN digits[j] ELSE 0
    <3>1. i \in 1..Len(frac) /\ j = i - z /\ (j \in 1..L <=> i > z)
      BY <2>1, <2>2, <2>3, <2>6
    <3>2. frac[i] = IF i <= z THEN 0 ELSE digits[i - z]
      BY <2>2, <3>1
    <3>3. i <= z <=> ~(i > z)
      BY <2>1, <3>1
    <3> QED BY <2>3, <3>1, <3>2, <3>3
  <2>7. ASSUME NEW j \in 1..L PROVE -(e + 1 - j) \in DOMAIN d.frac
    <3>1. -(e + 1 - j) = z + j /\ z + j \in 1..Len(frac)
      BY <2>1, <2>2
    <3> QED BY <2>2, <2>3, <3>1
  <2>8. frac[Len(frac)] # 0
    BY <2>1, <2>2
  <2>9. Spells(d, digits, e)
    BY <2>5, <2>6, <2>7 DEF Spells
  <2>10. IsCanonical(d)
    BY <2>2, <2>3, <2>8 DEF IsCanonical, Last
  <2> QED BY <2>2, <2>3, <2>4, <2>9, <2>10 DEF Fits
<1>2. CASE e >= 0
  <2> DEFINE whole == [i \in 1..(e + 1) |-> IF i <= L THEN digits[i] ELSE 0]
             frac == SubSeq(digits, e + 2, L)
             d == [whole |-> whole, frac |-> frac]
  <2>1. whole \in Seq(0..9) /\ Len(whole) = e + 1 /\ DOMAIN whole = 1..(e + 1)
        /\ \A i \in 1..(e + 1) : whole[i] = IF i <= L THEN digits[i] ELSE 0
    <3>1. \A i \in 1..(e + 1) : (IF i <= L THEN digits[i] ELSE 0) \in 0..9
      OBVIOUS
    <3> QED BY <1>2, <3>1
  <2>2. /\ frac \in Seq(0..9) /\ Len(frac) = IF L > e + 1 THEN L - (e + 1) ELSE 0
        /\ DOMAIN frac = 1..Len(frac)
        /\ \A i \in 1..Len(frac) : frac[i] = digits[e + 1 + i]
    BY <1>2
  <2>3. Plain(digits, e) = d
    BY <1>2 DEF Plain
  <2> HIDE DEF whole, frac
  <2>4. d.whole = whole /\ d.frac = frac
    OBVIOUS
  <2> HIDE DEF d
  <2>5. ASSUME NEW i \in DOMAIN d.whole, NEW j, j = e + 1 - (Len(d.whole) - i)
        PROVE  d.whole[i] = IF j \in 1..L THEN digits[j] ELSE 0
    <3>1. i \in 1..(e + 1) /\ j = i
      BY <1>2, <2>1, <2>4, <2>5
    <3> QED BY <2>1, <2>4, <3>1
  <2>6. ASSUME NEW i \in DOMAIN d.frac, NEW j, j = e + 1 + i
        PROVE  d.frac[i] = IF j \in 1..L THEN digits[j] ELSE 0
    <3>1. i \in 1..Len(frac) /\ j \in 1..L
      BY <1>2, <2>2, <2>4, <2>6
    <3> QED BY <2>2, <2>4, <2>6, <3>1
  <2>7. ASSUME NEW j \in 1..L
        PROVE  \/ Len(d.whole) - (e + 1 - j) \in DOMAIN d.whole
               \/ -(e + 1 - j) \in DOMAIN d.frac
    <3>1. CASE j <= e + 1
      <4>1. Len(d.whole) - (e + 1 - j) = j
        BY <1>2, <2>1, <2>4
      <4> QED BY <1>2, <2>1, <2>4, <3>1, <4>1
    <3>2. CASE j > e + 1
      <4>1. -(e + 1 - j) = j - (e + 1) /\ j - (e + 1) \in 1..Len(frac)
        BY <1>2, <2>2, <3>2
      <4> QED BY <2>2, <2>4, <4>1
    <3> QED BY <1>2, <3>1, <3>2
  <2>8. whole # <<>> /\ (Len(whole) > 1 => Head(whole) # 0)
    BY <1>2, <2>1
  <2>9. frac # <<>> => Last(frac) # 0
    <3>1. CASE L > e + 1
      <4>0. Len(frac) = L - (e + 1)
        BY <2>2, <3>1
      <4>1. Len(frac) \in 1..Len(frac) /\ e + 1 + Len(frac) = L
        BY <1>2, <3>1, <4>0
      <4> QED BY <2>2, <4>1 DEF Last
    <3>2. CASE L <= e + 1
      BY <1>2, <2>2, <3>2
    <3> QED BY <1>2, <3>1, <3>2
  <2>10. Spells(d, digits, e)
    BY <2>5, <2>6, <2>7 DEF Spells
  <2>11. IsCanonical(d)
    BY <2>4, <2>8, <2>9 DEF IsCanonical
  <2> QED BY <2>1, <2>2, <2>3, <2>4, <2>10, <2>11 DEF Fits
<1> QED BY <1>1, <1>2

\* A form with its fraction cut as it stands, if it fits already.
LEMMA CutFits ==
    ASSUME NEW digits \in Seq(0..9), NEW e \in Int, NEW whole, NEW frac,
           NEW d, d = [whole |-> whole, frac |-> frac], Fits(d, digits, e)
    PROVE  Fits([d EXCEPT !.frac = SubSeq(@, 1, StripTrailing(@))], digits, e)
<1>1. d.frac = frac /\ d.whole = whole
  OBVIOUS
<1>2. frac \in Seq(0..9) /\ (frac # <<>> => frac[Len(frac)] # 0)
  BY <1>1 DEF Fits, IsCanonical, Last
<1>3. SubSeq(frac, 1, StripTrailing(frac)) = frac
  BY <1>2, NothingToStrip
<1>4. [d EXCEPT !.frac = SubSeq(@, 1, StripTrailing(@))] = d
  BY <1>1, <1>3
<1> QED BY <1>4

\* So does the exponent form with its point shifted.
LEMMA ExpandedFits ==
    ASSUME NEW digits \in Seq(0..9), Len(digits) > 0, NEW e \in Int,
           digits[1] # 0, digits[Len(digits)] # 0
    PROVE  Fits(expandExponential(digits, e), digits, e)
<1> DEFINE L == Len(digits)
           pointPos == 1 + e
<1>1. CASE pointPos <= 0
  <2> DEFINE z == -pointPos
             frac == Zeros(z) \o digits
             d == [whole |-> <<0>>, frac |-> frac]
  <2>1. z \in Nat /\ z = -e - 1
    BY <1>1
  <2> HIDE DEF z
  <2>2. /\ frac \in Seq(0..9) /\ Len(frac) = z + L
        /\ \A i \in 1..Len(frac) : frac[i] = IF i <= z THEN 0 ELSE digits[i - z]
    BY <2>1, Concatenated
  <2>3. expandExponential(digits, e) = [d EXCEPT !.frac = SubSeq(@, 1, StripTrailing(@))]
    BY <1>1 DEF expandExponential, z
  <2> HIDE DEF frac
  <2>4. d.whole = <<0>> /\ Len(d.whole) = 1 /\ d.whole \in Seq(0..9) /\ DOMAIN d.whole = {1}
        /\ d.whole[1] = 0 /\ d.frac = frac
    OBVIOUS
  <2>5. Fits(d, digits, e)
    <3>1. ASSUME NEW i \in DOMAIN d.whole, NEW j, j = e + 1 - (Len(d.whole) - i)
          PROVE  d.whole[i] = IF j \in 1..L THEN digits[j] ELSE 0
      BY <1>1, <2>4, <3>1
    <3>2. ASSUME NEW i \in DOMAIN d.frac, NEW j, j = e + 1 + i
          PROVE  d.frac[i] = IF j \in 1..L THEN digits[j] ELSE 0
      <4>1. i \in 1..Len(frac) /\ j = i - z /\ (j \in 1..L <=> i > z)
        BY <2>1, <2>2, <2>4, <3>2
      <4>2. frac[i] = IF i <= z THEN 0 ELSE digits[i - z]
        BY <2>2, <4>1
      <4>3. i <= z <=> ~(i > z)
        BY <2>1, <4>1
      <4> QED BY <2>4, <4>1, <4>2, <4>3
    <3>3. ASSUME NEW j \in 1..L PROVE -(e + 1 - j) \in DOMAIN d.frac
      <4>1. -(e + 1 - j) = z + j /\ z + j \in 1..Len(frac)
        BY <2>1, <2>2
      <4> QED BY <2>2, <2>4, <4>1
    <3>4. frac[Len(frac)] # 0
      BY <2>1, <2>2
    <3> HIDE DEF d
    <3>5. Spells(d, digits, e)
      BY <3>1, <3>2, <3>3 DEF Spells
    <3>6. IsCanonical(d)
      BY <2>2, <2>4, <3>4 DEF IsCanonical, Last
    <3> QED BY <2>2, <2>4, <3>5, <3>6 DEF Fits
  <2> QED BY <2>3, <2>5, CutFits
<1>2. CASE pointPos > 0 /\ pointPos >= L
  <2> DEFINE z == pointPos - L
             whole == digits \o Zeros(z)
             d == [whole |-> whole, frac |-> <<>>]
  <2>1. z \in Nat /\ L + z = e + 1
    BY <1>2
  <2> HIDE DEF z
  <2>2. /\ whole \in Seq(0..9) /\ Len(whole) = L + z
        /\ \A i \in 1..Len(whole) : whole[i] = IF i <= L THEN digits[i] ELSE 0
    BY <2>1, Padded
  <2>3. expandExponential(digits, e) = [d EXCEPT !.frac = SubSeq(@, 1, StripTrailing(@))]
    <3> DEFINE shifted ==
            IF pointPos <= 0 THEN [whole |-> <<0>>, frac |-> Zeros(-pointPos) \o digits]
            ELSE IF pointPos >= Len(digits)
                 THEN [whole |-> digits \o Zeros(pointPos - Len(digits)), frac |-> <<>>]
            ELSE [whole |-> SubSeq(digits, 1, pointPos),
                  frac |-> SubSeq(digits, pointPos + 1, Len(digits))]
    <3>1. expandExponential(digits, e) = [shifted EXCEPT !.frac = SubSeq(@, 1, StripTrailing(@))]
      BY DEF expandExponential
    <3>2. ~(pointPos <= 0)
      BY <1>2
    <3>3. shifted = d
      BY <1>2, <3>2 DEF z
    <3> HIDE DEF shifted, d
    <3> QED BY <3>1, <3>3
  <2> HIDE DEF whole
  <2>4. d.whole = whole /\ d.frac = <<>> /\ DOMAIN d.frac = {} /\ d.frac \in Seq(0..9)
    OBVIOUS
  <2>5. Fits(d, digits, e)
    <3>1. ASSUME NEW i \in DOMAIN d.whole, NEW j, j = e + 1 - (Len(d.whole) - i)
          PROVE  d.whole[i] = IF j \in 1..L THEN digits[j] ELSE 0
      <4>1. i \in 1..Len(whole) /\ j = i
        BY <2>1, <2>2, <2>4, <3>1
      <4> QED BY <2>2, <2>4, <4>1
    <3>2. ASSUME NEW j \in 1..L PROVE Len(d.whole) - (e + 1 - j) \in DOMAIN d.whole
      <4>1. Len(whole) - (e + 1 - j) = j /\ j \in 1..Len(whole)
        BY <2>1, <2>2
      <4> QED BY <2>2, <2>4, <4>1
    <3>3. whole[1] # 0 /\ Len(whole) > 0
      BY <2>1, <2>2
    <3> HIDE DEF d
    <3>4. Spells(d, digits, e)
      BY <2>4, <3>1, <3>2 DEF Spells
    <3>5. IsCanonical(d)
      BY <2>2, <2>4, <3>3 DEF IsCanonical
    <3> QED BY <2>2, <2>4, <3>4, <3>5 DEF Fits
  <2> QED BY <2>3, <2>5, CutFits
<1>3. CASE pointPos > 0 /\ pointPos < L
  <2> DEFINE whole == SubSeq(digits, 1, pointPos)
             frac == SubSeq(digits, pointPos + 1, L)
             d == [whole |-> whole, frac |-> frac]
  <2>1. pointPos \in 1..(L - 1) /\ pointPos = e + 1
    BY <1>3
  <2>2. expandExponential(digits, e) = [d EXCEPT !.frac = SubSeq(@, 1, StripTrailing(@))]
    <3> DEFINE shifted ==
            IF pointPos <= 0 THEN [whole |-> <<0>>, frac |-> Zeros(-pointPos) \o digits]
            ELSE IF pointPos >= Len(digits)
                 THEN [whole |-> digits \o Zeros(pointPos - Len(digits)), frac |-> <<>>]
            ELSE [whole |-> SubSeq(digits, 1, pointPos),
                  frac |-> SubSeq(digits, pointPos + 1, Len(digits))]
    <3>1. expandExponential(digits, e) = [shifted EXCEPT !.frac = SubSeq(@, 1, StripTrailing(@))]
      BY DEF expandExponential
    <3>2. ~(pointPos <= 0)
      BY <1>3
    <3>3. shifted = d
      BY <1>3, <3>2
    <3> HIDE DEF shifted, d
    <3> QED BY <3>1, <3>3
  <2> HIDE DEF pointPos
  <2>3. whole \in Seq(0..9) /\ Len(whole) = pointPos /\ DOMAIN whole = 1..pointPos
        /\ \A i \in 1..pointPos : whole[i] = digits[i]
    BY <2>1
  <2>4. /\ frac \in Seq(0..9) /\ Len(frac) = L - pointPos /\ DOMAIN frac = 1..(L - pointPos)
        /\ \A i \in 1..(L - pointPos) : frac[i] = digits[pointPos + i]
    BY <2>1
  <2> HIDE DEF whole, frac
  <2>5. d.whole = whole /\ d.frac = frac
    OBVIOUS
  <2>6. Fits(d, digits, e)
    <3>1. ASSUME NEW i \in DOMAIN d.whole, NEW j, j = e + 1 - (Len(d.whole) - i)
          PROVE  d.whole[i] = IF j \in 1..L THEN digits[j] ELSE 0
      <4>1. i \in 1..pointPos /\ j = i /\ i \in 1..L
        BY <2>1, <2>3, <2>5, <3>1
      <4> QED BY <2>3, <2>5, <4>1
    <3>2. ASSUME NEW i \in DOMAIN d.frac, NEW j, j = e + 1 + i
          PROVE  d.frac[i] = IF j \in 1..L THEN digits[j] ELSE 0
      <4>1. i \in 1..(L - pointPos) /\ j \in 1..L /\ j = pointPos + i
        BY <2>1, <2>4, <2>5, <3>2
      <4> QED BY <2>4, <2>5, <4>1
    <3>3. ASSUME NEW j \in 1..L
          PROVE  \/ Len(d.whole) - (e + 1 - j) \in DOMAIN d.whole
                 \/ -(e + 1 - j) \in DOMAIN d.frac
      <4>1. CASE j <= pointPos
        <5>1. Len(whole) - (e + 1 - j) = j
          BY <2>1, <2>3
        <5> QED BY <2>1, <2>3, <2>5, <4>1, <5>1
      <4>2. CASE j > pointPos
        <5>1. -(e + 1 - j) = j - pointPos /\ j - pointPos \in 1..(L - pointPos)
          BY <2>1, <4>2
        <5> QED BY <2>4, <2>5, <5>1
      <4> QED BY <2>1, <4>1, <4>2
    <3>4. whole # <<>> /\ Head(whole) # 0
      BY <2>1, <2>3
    <3>5. frac # <<>> /\ Last(frac) # 0
      <4>1. Len(frac) \in 1..(L - pointPos) /\ pointPos + Len(frac) = L
        BY <2>1, <2>4
      <4> QED BY <2>4, <4>1 DEF Last
    <3> HIDE DEF d
    <3>6. Spells(d, digits, e)
      BY <3>1, <3>2, <3>3 DEF Spells
    <3>7. IsCanonical(d)
      BY <2>5, <3>4, <3>5 DEF IsCanonical
    <3> QED BY <2>3, <2>4, <2>5, <3>6, <3>7 DEF Fits
  <2> QED BY <2>2, <2>6, CutFits
<1> QED BY <1>1, <1>2, <1>3

\* A number is written with every digit it carries and no other, whatever its
\* magnitude, and without a zero it does not need (toDecimalString and
\* expandExponential of src/prices/decimal.ts).
THEOREM DecimalsStayExact == Spec => []DecimalsAreExact
<1>1. ASSUME NEW f \in Floats
      PROVE  /\ KeepsItsDigits(f.digits, f.e)
             /\ IsCanonical(toDecimalString(f.digits, f.e))
  <2> DEFINE digits == f.digits
             e == f.e
             d == toDecimalString(digits, e)
  <2>1. digits \in Seq(0..9) /\ Len(digits) > 0 /\ e \in Int /\ digits[1] # 0 /\ digits[Len(digits)] # 0
    BY FloatRanges
  <2> HIDE DEF digits, e
  <2>2. Fits(d, digits, e)
    BY <2>1, PlainFits, ExpandedFits DEF toDecimalString
  <2>3. NonZero(Meaning(d)) = NonZero({<<e + 1 - i, digits[i]>> : i \in DOMAIN digits})
    <3> HIDE DEF d
    <3> QED BY <2>1, <2>2, SpelledKeeps DEF Fits
  <2>4. KeepsItsDigits(digits, e)
    BY <2>3 DEF KeepsItsDigits
  <2> QED BY <2>2, <2>4 DEF Fits, digits, e
<1> DEFINE Inv == part = "decimals" => float \in Floats
<1>2. Init => Inv
  BY DEF Init
<1>3. Inv /\ [Next]_vars => Inv'
  BY DEF Next, vars
<1>4. Inv => DecimalsAreExact
  BY <1>1 DEF DecimalsAreExact
<1> QED BY <1>2, <1>3, <1>4, PTL DEF Spec

-----------------------------------------------------------------------------
(* Quotes.                                                                  *)

\* An answer is of the currencies, or of the range and the currency, its key names.
Fitting(key, answer, t) ==
    IF key[1] = ""
    THEN /\ DOMAIN answer.prices = (DOMAIN key[2]) \ Unpriced
         /\ DOMAIN answer.changes \subseteq DOMAIN answer.prices
         /\ answer.asOf <= answer.loaded \div 2
         /\ answer.taken # NoTime => answer.asOf = answer.taken \div 2
    ELSE /\ answer.range = key[1] /\ answer.currencies = key[2]
         /\ answer.upTo \in Nat /\ answer.upTo <= t \div 2

IsAsk(ask) ==
    ask = [st |-> ask.st, key |-> ask.key, currencies |-> ask.currencies, range |-> ask.range,
           answer |-> ask.answer]

AskFits(ask, t) ==
    /\ IsAsk(ask)
    /\ ask.st \in {"idle", "waiting", "done", "400", "501", "502"}
    /\ ask.st \in {"waiting", "done"} =>
          /\ ask.key = Q!Key(ask.currencies, ask.range)
          /\ ask.currencies \in Seq(Currencies)
    /\ ask.st = "done" => Fitting(ask.key, ask.answer, t)

QuotesInv ==
    /\ now \in Nat
    /\ quotes \in [at : 0..now, whole : BOOLEAN]
    /\ \A key \in DOMAIN answers : Fitting(key, answers[key], now)
    /\ DOMAIN asks = Askers /\ asks = [a \in Askers |-> asks[a]]
    /\ \A a \in Askers : AskFits(asks[a], now)

\* What a key names: the range, and the currencies or the currency.
LEMMA KeyParts ==
    ASSUME NEW currencies \in Seq(Currencies), NEW range
    PROVE  /\ Q!Key(currencies, range)[1] = range
           /\ range = "" => DOMAIN Q!Key(currencies, range)[2] = ToSet(currencies)
           /\ range # "" => Q!Key(currencies, range)[2] = currencies
BY DEF Q!Key, Q!ToBag, Q!Range, ToSet

\* An answer fits the key it is cached under.
LEMMA AnswerFits ==
    ASSUME QuotesInv, NEW currencies \in Seq(Currencies), NEW range
    PROVE  Fitting(Q!Key(currencies, range), Q!Answer(currencies, range), now)
<1> DEFINE key == Q!Key(currencies, range)
           answer == Q!Answer(currencies, range)
<1>1. now \in Nat /\ quotes.at \in 0..now
  BY DEF QuotesInv
<1>2. quotes.at \div 2 <= now \div 2 /\ quotes.at \div 2 \in Nat
  BY <1>1
<1>3. CASE range = ""
  <2>1. answer = [prices |-> Q!prices(currencies), changes |-> Q!changePercent24h(currencies),
                  asOf |-> Q!asOf, taken |-> IF quotes.whole THEN quotes.at ELSE NoTime,
                  loaded |-> now]
    BY <1>3 DEF Q!Answer
  <2>2. DOMAIN Q!prices(currencies) = ToSet(currencies) \ Unpriced
    BY DEF Q!prices, Q!ToSet, ToSet
  <2>3. DOMAIN Q!changePercent24h(currencies) \subseteq ToSet(currencies) \ Unpriced
    BY DEF Q!changePercent24h, Q!ToSet, ToSet
  <2>4. key[1] = "" /\ DOMAIN key[2] = ToSet(currencies)
    BY <1>3, KeyParts
  <2>5. Q!asOf <= now \div 2 /\ (quotes.whole => Q!asOf = quotes.at \div 2)
    BY <1>1, <1>2 DEF Q!asOf
  <2> HIDE DEF key, answer
  <2>6. /\ answer.prices = Q!prices(currencies) /\ answer.changes = Q!changePercent24h(currencies)
        /\ answer.asOf = Q!asOf /\ answer.loaded = now
        /\ answer.taken = IF quotes.whole THEN quotes.at ELSE NoTime
    BY <2>1
  <2>7. Fitting(key, answer, now)
    BY <2>2, <2>3, <2>4, <2>5, <2>6 DEF Fitting
  <2> QED BY <2>7 DEF key, answer
<1>4. CASE range # ""
  <2>1. answer = [range |-> range, currencies |-> currencies, upTo |-> quotes.at \div 2]
    BY <1>4 DEF Q!Answer
  <2>2. key[1] = range /\ key[2] = currencies
    BY <1>4, KeyParts
  <2> HIDE DEF key, answer
  <2>3. Fitting(key, answer, now)
    BY <1>2, <1>4, <2>1, <2>2 DEF Fitting
  <2> QED BY <2>3 DEF key, answer
<1> QED BY <1>3, <1>4

\* It still does when time has passed.
LEMMA LaterFits ==
    ASSUME NEW t \in Nat, NEW u \in Nat, t <= u, NEW key, NEW answer, Fitting(key, answer, t)
    PROVE  Fitting(key, answer, u)
<1>1. t \div 2 <= u \div 2 /\ t \div 2 \in Int /\ u \div 2 \in Int
  OBVIOUS
<1>2. CASE key[1] = ""
  BY <1>2 DEF Fitting
<1>3. CASE key[1] # ""
  <2>1. /\ answer.range = key[1] /\ answer.currencies = key[2]
        /\ answer.upTo \in Nat /\ answer.upTo <= t \div 2
    BY <1>3 DEF Fitting
  <2>2. answer.upTo <= u \div 2
    BY <1>1, <2>1
  <2> QED BY <1>3, <2>1, <2>2 DEF Fitting
<1> QED BY <1>2, <1>3

\* The lists of currencies a request has.
LEMMA ListsAsked ==
    ASSUME NEW range, NEW currencies \in {<<>>} \cup Q!ListsFor(range)
    PROVE  currencies \in Seq(Currencies)
<1>1. AskedFor \subseteq Seq(Currencies) /\ <<>> \in Seq(Currencies)
  BY PricesAssumption DEF Q!QuoteConstants
<1>2. \A c \in Currencies : <<c>> \in Seq(Currencies)
  OBVIOUS
<1>3. Q!ListsFor(range) = AskedFor \/ Q!ListsFor(range) = {<<c>> : c \in Currencies}
  BY DEF Q!ListsFor
<1> QED BY <1>1, <1>2, <1>3

\* A request as it begins.
LEMMA AskBegins ==
    ASSUME NEW key, NEW currencies, NEW range
    PROVE  [Q!Idle EXCEPT !.key = key, !.currencies = currencies, !.range = range]
             = [st |-> "idle", key |-> key, currencies |-> currencies, range |-> range, answer |-> <<>>]
<1> DEFINE st == "idle"
           none == <<>>
           blank == ""
           idle == Q!Idle
           ask1 == [idle EXCEPT !.key = key]
           ask2 == [ask1 EXCEPT !.currencies = currencies]
           ask3 == [ask2 EXCEPT !.range = range]
<1>1. idle = [st |-> st, key |-> none, currencies |-> none, range |-> blank, answer |-> none]
  BY DEF Q!Idle
<1> HIDE DEF st, none, blank, idle
<1>2. ask1 = [st |-> st, key |-> key, currencies |-> none, range |-> blank, answer |-> none]
  BY <1>1
<1> HIDE DEF ask1
<1>3. ask2 = [st |-> st, key |-> key, currencies |-> currencies, range |-> blank, answer |-> none]
  BY <1>2
<1> HIDE DEF ask2
<1>4. ask3 = [st |-> st, key |-> key, currencies |-> currencies, range |-> range, answer |-> none]
  BY <1>3
<1> HIDE DEF ask3
<1>5. [idle EXCEPT !.key = key, !.currencies = currencies, !.range = range] = ask3
  BY Zenon DEF ask1, ask2, ask3
<1> QED BY <1>4, <1>5 DEF st, none, idle

\* It holds at first.
LEMMA QuotesStart == Q!Start => QuotesInv
<1> SUFFICES ASSUME Q!Start PROVE QuotesInv
  OBVIOUS
<1>1. now = 0 /\ quotes = [at |-> 0, whole |-> TRUE] /\ answers = <<>>
      /\ asks = [a \in Askers |-> Q!Idle]
  BY DEF Q!Start
<1>2. \A a \in Askers : AskFits(asks[a], now)
  BY <1>1 DEF AskFits, IsAsk, Q!Idle
<1>3. \A key \in DOMAIN answers : FALSE
  BY <1>1
<1>4. DOMAIN asks = Askers /\ asks = [a \in Askers |-> asks[a]]
  BY <1>1
<1>5. now \in Nat /\ quotes \in [at : 0..now, whole : BOOLEAN]
  BY <1>1
<1> QED BY <1>2, <1>3, <1>4, <1>5 DEF QuotesInv

\* Upstream's quotes move.
LEMMA MovesKeep == ASSUME QuotesInv, Q!QuotesMove PROVE QuotesInv'
<1>1. /\ now \in Nat /\ now' = now + 1 /\ answers' = answers /\ asks' = asks
      /\ quotes \in [at : 0..now, whole : BOOLEAN]
      /\ \/ quotes' = quotes
         \/ \E whole \in BOOLEAN : quotes' = [at |-> now', whole |-> whole]
  BY DEF QuotesInv, Q!QuotesMove
<1>2. now' \in Nat /\ now <= now'
  BY <1>1
<1>3. quotes' \in [at : 0..now', whole : BOOLEAN]
  BY <1>1, <1>2
<1>4. \A key \in DOMAIN answers : Fitting(key, answers[key], now')
  BY <1>1, <1>2, LaterFits DEF QuotesInv
<1>5. \A a \in Askers : AskFits(asks[a], now')
  BY <1>1, <1>2, LaterFits DEF QuotesInv, AskFits
<1> QED BY <1>1, <1>2, <1>3, <1>4, <1>5 DEF QuotesInv

\* An answer expires.
LEMMA ExpiryKeepsQuotes == ASSUME QuotesInv, Q!Expires PROVE QuotesInv'
<1>1. PICK key \in DOMAIN answers : answers' = [k \in DOMAIN answers \ {key} |-> answers[k]]
  BY DEF Q!Expires
<1>2. now' = now /\ quotes' = quotes /\ asks' = asks
  BY DEF Q!Expires
<1>3. \A k \in DOMAIN answers' : k \in DOMAIN answers /\ answers'[k] = answers[k]
  BY <1>1
<1> QED BY <1>2, <1>3 DEF QuotesInv

\* One request changes.
LEMMA OneAskMoves ==
    ASSUME QuotesInv, NEW a \in Askers, NEW ask, AskFits(ask, now),
           asks' = [asks EXCEPT ![a] = ask], UNCHANGED <<now, quotes, answers>>
    PROVE  QuotesInv'
<1>1. asks' = [b \in Askers |-> IF b = a THEN ask ELSE asks[b]]
  BY DEF QuotesInv
<1>2. \A b \in Askers : AskFits(asks'[b], now)
  BY <1>1 DEF QuotesInv
<1>3. DOMAIN asks' = Askers /\ asks' = [b \in Askers |-> asks'[b]]
  BY <1>1
<1> QED BY <1>2, <1>3 DEF QuotesInv

\* A request is refused, answered from the cache, or waits.
LEMMA AsksKeep == ASSUME QuotesInv, NEW a \in Askers, Q!Asks(a) PROVE QuotesInv'
<1>1. PICK range \in Ranges \cup {""} : \E currencies \in {<<>>} \cup Q!ListsFor(range) :
         LET key == Q!Key(currencies, range)
             ask == [Q!Idle EXCEPT !.key = key, !.currencies = currencies, !.range = range]
         IN asks' = [asks EXCEPT ![a] =
                  IF currencies = <<>> THEN [ask EXCEPT !.st = "400"]
                  ELSE IF ~wired THEN [ask EXCEPT !.st = "501"]
                  ELSE IF key \in DOMAIN answers
                       THEN [ask EXCEPT !.st = "done", !.answer = answers[key]]
                  ELSE [ask EXCEPT !.st = "waiting"]]
  BY DEF Q!Asks
<1>7. PICK currencies \in {<<>>} \cup Q!ListsFor(range) :
         LET key == Q!Key(currencies, range)
             ask == [Q!Idle EXCEPT !.key = key, !.currencies = currencies, !.range = range]
         IN asks' = [asks EXCEPT ![a] =
                  IF currencies = <<>> THEN [ask EXCEPT !.st = "400"]
                  ELSE IF ~wired THEN [ask EXCEPT !.st = "501"]
                  ELSE IF key \in DOMAIN answers
                       THEN [ask EXCEPT !.st = "done", !.answer = answers[key]]
                  ELSE [ask EXCEPT !.st = "waiting"]]
  BY <1>1
<1> DEFINE key == Q!Key(currencies, range)
           ask == [Q!Idle EXCEPT !.key = key, !.currencies = currencies, !.range = range]
           next == IF currencies = <<>> THEN [ask EXCEPT !.st = "400"]
                   ELSE IF ~wired THEN [ask EXCEPT !.st = "501"]
                   ELSE IF key \in DOMAIN answers
                        THEN [ask EXCEPT !.st = "done", !.answer = answers[key]]
                   ELSE [ask EXCEPT !.st = "waiting"]
<1>2. UNCHANGED <<now, quotes, answers>> /\ asks' = [asks EXCEPT ![a] = next]
  BY <1>7 DEF Q!Asks
<1>3. currencies \in Seq(Currencies)
  BY ListsAsked
<1>4. ask = [st |-> "idle", key |-> key, currencies |-> currencies, range |-> range, answer |-> <<>>]
  <2> HIDE DEF key
  <2> QED BY AskBegins
<1>5. AskFits(next, now)
  <2> HIDE DEF ask
  <2>1. CASE currencies = <<>>
    <3>1. next = [ask EXCEPT !.st = "400"]
      BY <2>1
    <3> HIDE DEF next, key
    <3> QED BY <1>4, <3>1 DEF AskFits, IsAsk
  <2>2. CASE currencies # <<>> /\ ~wired
    <3>1. next = [ask EXCEPT !.st = "501"]
      BY <2>2
    <3> HIDE DEF next, key
    <3> QED BY <1>4, <3>1 DEF AskFits, IsAsk
  <2>3. CASE currencies # <<>> /\ wired /\ key \in DOMAIN answers
    <3>1. next = [ask EXCEPT !.st = "done", !.answer = answers[key]]
      BY <2>3
    <3>2. Fitting(key, answers[key], now)
      BY <2>3 DEF QuotesInv
    <3> HIDE DEF next, key
    <3>3. next = [st |-> "done", key |-> key, currencies |-> currencies, range |-> range, answer |-> answers[key]]
      BY <1>4, <3>1
    <3> QED BY <1>3, <3>2, <3>3 DEF AskFits, IsAsk, key
  <2>4. CASE currencies # <<>> /\ wired /\ key \notin DOMAIN answers
    <3>1. next = [ask EXCEPT !.st = "waiting"]
      BY <2>4
    <3> HIDE DEF next, key
    <3>2. next = [st |-> "waiting", key |-> key, currencies |-> currencies, range |-> range, answer |-> <<>>]
      BY <1>4, <3>1
    <3> QED BY <1>3, <3>2 DEF AskFits, IsAsk, key
  <2> QED BY <2>1, <2>2, <2>3, <2>4
<1> HIDE DEF next
<1> QED BY <1>2, <1>5, OneAskMoves

\* Upstream answers everyone who waits for the key.
LEMMA LoadsKeep == ASSUME QuotesInv, NEW a \in Askers, Q!Loads(a) PROVE QuotesInv'
<1> DEFINE key == asks[a].key
           answer == Q!Answer(asks[a].currencies, asks[a].range)
           next(b) == IF b \in Q!Joined(key) THEN [asks[b] EXCEPT !.st = "done", !.answer = answer]
                      ELSE asks[b]
<1>1. /\ asks[a].st = "waiting" /\ answers' = Q!With(answers, key, answer)
      /\ asks' = [b \in Askers |-> next(b)] /\ now' = now /\ quotes' = quotes
  BY DEF Q!Loads
<1>2. AskFits(asks[a], now)
  BY DEF QuotesInv
<1>3. Fitting(key, answer, now)
  BY <1>1, <1>2, AnswerFits DEF AskFits
<1> HIDE DEF answer
<1>4. \A k \in DOMAIN answers' : Fitting(k, answers'[k], now)
  <2>1. \A k \in DOMAIN answers' : answers'[k] = IF k = key THEN answer ELSE answers[k]
    BY <1>1 DEF Q!With
  <2>2. \A k \in DOMAIN answers' : k = key \/ k \in DOMAIN answers
    BY <1>1 DEF Q!With
  <2> QED BY <1>3, <2>1, <2>2 DEF QuotesInv
<1>5. ASSUME NEW b \in Askers PROVE AskFits(next(b), now)
  <2>1. AskFits(asks[b], now)
    BY DEF QuotesInv
  <2>2. CASE b \in Q!Joined(key)
    <3> DEFINE old == asks[b]
               n == [old EXCEPT !.st = "done", !.answer = answer]
    <3>1. old.st = "waiting" /\ old.key = key
      BY <2>2 DEF Q!Joined
    <3>2. AskFits(old, now)
      BY <2>1
    <3>3. next(b) = n
      BY <2>2
    <3> HIDE DEF old, key
    <3>4. n = [st |-> "done", key |-> old.key, currencies |-> old.currencies, range |-> old.range,
               answer |-> answer]
      <4>1. old = [st |-> old.st, key |-> old.key, currencies |-> old.currencies,
                   range |-> old.range, answer |-> old.answer]
        BY <3>2 DEF AskFits, IsAsk
      <4> DEFINE st == old.st
                 k == old.key
                 currencies == old.currencies
                 range == old.range
                 was == old.answer
      <4>2. old = [st |-> st, key |-> k, currencies |-> currencies, range |-> range, answer |-> was]
        BY <4>1
      <4>3. n = [old EXCEPT !.st = "done", !.answer = answer]
        OBVIOUS
      <4> HIDE DEF st, k, currencies, range, was, n
      <4>4. n = [st |-> "done", key |-> k, currencies |-> currencies, range |-> range, answer |-> answer]
        BY <4>2, <4>3
      <4> QED BY <4>4 DEF k, currencies, range
    <3> HIDE DEF n
    <3>5. AskFits(n, now)
      BY <1>3, <3>1, <3>2, <3>4 DEF AskFits, IsAsk
    <3> HIDE DEF next
    <3> QED BY <3>3, <3>5
  <2>3. CASE b \notin Q!Joined(key)
    BY <2>1, <2>3
  <2> QED BY <2>2, <2>3
<1> HIDE DEF next
<1>6. DOMAIN asks' = Askers /\ \A b \in Askers : asks'[b] = next(b)
  BY <1>1
<1>7. asks' = [b \in Askers |-> asks'[b]]
  BY <1>1
<1> QED BY <1>1, <1>4, <1>5, <1>6, <1>7 DEF QuotesInv

\* Upstream fails everyone who waits for the key.
LEMMA LoadFailsKeepQuotes == ASSUME QuotesInv, NEW a \in Askers, Q!LoadFails(a) PROVE QuotesInv'
<1> DEFINE next(b) == IF b \in Q!Joined(asks[a].key) THEN [asks[b] EXCEPT !.st = "502"] ELSE asks[b]
<1>1. asks' = [b \in Askers |-> next(b)] /\ UNCHANGED <<now, quotes, answers>>
  BY DEF Q!LoadFails
<1>2. ASSUME NEW b \in Askers PROVE AskFits(next(b), now)
  <2> DEFINE old == asks[b]
  <2>1. AskFits(old, now)
    BY DEF QuotesInv
  <2>2. next(b) = old \/ next(b) = [old EXCEPT !.st = "502"]
    OBVIOUS
  <2> HIDE DEF old, next
  <2> QED BY <2>1, <2>2 DEF AskFits, IsAsk
<1> HIDE DEF next
<1>3. DOMAIN asks' = Askers /\ asks' = [b \in Askers |-> asks'[b]] /\ \A b \in Askers : asks'[b] = next(b)
  BY <1>1
<1> QED BY <1>1, <1>2, <1>3 DEF QuotesInv

\* A request that is over leaves.
LEMMA LeavesKeep == ASSUME QuotesInv, NEW a \in Askers, Q!Leaves(a) PROVE QuotesInv'
<1>1. AskFits(Q!Idle, now)
  BY DEF AskFits, IsAsk, Q!Idle
<1> QED BY <1>1, OneAskMoves DEF Q!Leaves

\* No other part changes it.
LEMMA QuotesElsewhere == ASSUME QuotesInv, UNCHANGED quoteVars PROVE QuotesInv'
BY DEF QuotesInv, quoteVars

\* Every step keeps it.
LEMMA QuotesStep == QuotesInv /\ [Next]_vars => QuotesInv'
<1> SUFFICES ASSUME QuotesInv, [Next]_vars PROVE QuotesInv'
  OBVIOUS
<1>1. CASE UNCHANGED vars
  BY <1>1, QuotesElsewhere DEF vars
<1>2. CASE TokenFigures \/ TokenPools
  BY <1>2, QuotesElsewhere DEF TokenFigures, TokenPools
<1>3. CASE AdaQuotes
  BY <1>3, MovesKeep, ExpiryKeepsQuotes, AsksKeep, LoadsKeep, LoadFailsKeepQuotes, LeavesKeep
     DEF AdaQuotes, Q!Next
<1> QED BY <1>1, <1>2, <1>3 DEF Next

\* Answers that fit their keys are true.
LEMMA QuotesFollow == QuotesInv => Q!QuotesAreTrue
<1> SUFFICES ASSUME QuotesInv, NEW a \in Askers, asks[a].st = "done"
    PROVE LET ask == asks[a] IN
            IF ask.range = ""
            THEN /\ DOMAIN ask.answer.prices = ToSet(ask.currencies) \ Unpriced
                 /\ DOMAIN ask.answer.changes \subseteq DOMAIN ask.answer.prices
                 /\ ask.answer.asOf <= ask.answer.loaded \div 2
                 /\ ask.answer.taken # NoTime => ask.answer.asOf = ask.answer.taken \div 2
            ELSE /\ ask.answer.range = ask.range /\ ask.answer.currencies = ask.currencies
                 /\ ask.answer.upTo <= now \div 2
  BY DEF Q!QuotesAreTrue, Q!ToSet, ToSet
<1> DEFINE ask == asks[a]
<1>1. AskFits(ask, now) /\ ask.st = "done"
  BY DEF QuotesInv
<1> HIDE DEF ask
<1>2. Fitting(ask.key, ask.answer, now) /\ ask.key = Q!Key(ask.currencies, ask.range)
      /\ ask.currencies \in Seq(Currencies)
  BY <1>1 DEF AskFits
<1>3. /\ ask.key[1] = ask.range
      /\ ask.range = "" => DOMAIN ask.key[2] = ToSet(ask.currencies)
      /\ ask.range # "" => ask.key[2] = ask.currencies
  <2> DEFINE currencies == ask.currencies
             range == ask.range
             key == Q!Key(currencies, range)
  <2>1. currencies \in Seq(Currencies)
    BY <1>2
  <2> HIDE DEF currencies, range
  <2>2. /\ key[1] = range
        /\ range = "" => DOMAIN key[2] = ToSet(currencies)
        /\ range # "" => key[2] = currencies
    BY <2>1, KeyParts
  <2> QED BY <1>2, <2>2 DEF currencies, range
<1>4. IF ask.range = ""
      THEN /\ DOMAIN ask.answer.prices = ToSet(ask.currencies) \ Unpriced
           /\ DOMAIN ask.answer.changes \subseteq DOMAIN ask.answer.prices
           /\ ask.answer.asOf <= ask.answer.loaded \div 2
           /\ ask.answer.taken # NoTime => ask.answer.asOf = ask.answer.taken \div 2
      ELSE /\ ask.answer.range = ask.range /\ ask.answer.currencies = ask.currencies
           /\ ask.answer.upTo <= now \div 2
  BY <1>2, <1>3 DEF Fitting
<1> QED BY <1>4 DEF ask

-----------------------------------------------------------------------------
(* Figures.                                                                 *)

\* Upstream's list of a subject, pool by pool.
LEMMA ListedFolds ==
    ASSUME NEW s
    PROVE  \E g : 
              /\ g[0] = <<>>
              /\ \A k \in 1..F!Cardinality(Pools) : g[k] = IF SubjectOf[k] = s THEN Append(g[k - 1], k) ELSE g[k - 1]
              /\ F!Listed(s) = g[F!Cardinality(Pools)]
<1> DEFINE seq == [p \in Pools |-> p]
           n == F!Cardinality(Pools)
           S == Seq(Pools)
           step == [x \in S \X Pools |-> IF SubjectOf[x[2]] = s THEN Append(x[1], x[2]) ELSE x[1]]
           Runs(iter) ==
              iter = [u \in SUBSET DOMAIN seq |->
                        IF u = {} THEN <<>>
                        ELSE IF SubjectOf[seq[Max(u)]] = s THEN Append(iter[u \ {Max(u)}], seq[Max(u)])
                             ELSE iter[u \ {Max(u)}]]
<1>1. n \in Nat /\ Pools = 1..n
  BY PricesAssumption DEF F!FigureConstants
<1>2. seq \in Seq(Pools) /\ DOMAIN seq = 1..n
  BY <1>1
<1>3. step \in [S \X Pools -> S]
  OBVIOUS
<1> HIDE DEF n
<1>4. \E iter : Runs(iter)
  <2>1. PICK iter \in [SUBSET DOMAIN seq -> S] : Folding(iter, step, <<>>, seq)
    <3>1. <<>> \in S
      OBVIOUS
    <3> HIDE DEF seq, S, step
    <3> QED BY <1>2, <1>3, <3>1, FoldDefined DEF S
  <2>2. ASSUME NEW u \in SUBSET DOMAIN seq, u # {}
        PROVE step[<<iter[u \ {Max(u)}], seq[Max(u)]>>] 
               = IF SubjectOf[seq[Max(u)]] = s THEN Append(iter[u \ {Max(u)}], seq[Max(u)])
                             ELSE iter[u \ {Max(u)}]
    <3>1. Max(u) \in u
      BY <1>1, <1>2, <2>2, LastPlace
    <3>2. iter[u \ {Max(u)}] \in S /\ seq[Max(u)] \in Pools
      BY <1>1, <1>2, <3>1
    <3> HIDE DEF S, seq
    <3> QED BY <3>2
  <2>3. Runs(iter)
    <3> HIDE DEF seq, step
    <3> QED BY <2>1, <2>2 DEF Folding
  <2> HIDE DEF Runs
  <2> QED BY <2>3
<1>5. PICK iter : Runs(iter) /\ F!Listed(s) = iter[DOMAIN seq]
  BY Zenon, <1>4 DEF F!Listed, F!FoldLeft, F!MapThenFoldSet, F!Max, Max
<1> DEFINE g == [k \in 0..n |-> iter[1..k]]
<1>6. g[0] = <<>>
  <2>1. 1..0 = {}
    OBVIOUS
  <2> HIDE DEF seq
  <2> QED BY <1>1, <1>5, <2>1
<1>7. ASSUME NEW k \in 1..n PROVE g[k] = IF SubjectOf[k] = s THEN Append(g[k - 1], k) ELSE g[k - 1]
  <2>1. k \in Nat /\ k > 0 /\ 1..k \in SUBSET (1..n) /\ k \in 1..k /\ k \in 0..n /\ k - 1 \in 0..n
    <3> HIDE DEF seq, S, step, Runs, g
    <3> QED BY <1>1
  <2>2. Max(1..k) = k /\ (1..k) \ {k} = 1..(k - 1)
    BY <2>1, LastOfAll
  <2>3. seq[k] = k
    BY <1>1
  <2> HIDE DEF seq
  <2> DEFINE u == 1..k
  <2>4. u \in SUBSET DOMAIN seq /\ u # {} /\ Max(u) = k /\ u \ {k} = 1..(k-1)
    BY <1>2, <2>1, <2>2
  <2>5. g[k] = iter[u] /\ g[k - 1] = iter[1..(k - 1)]
    BY <2>1
  <2> HIDE DEF u, g
  <2>6. iter[u] = IF SubjectOf[seq[k]] = s THEN Append(iter[u \ {k}], seq[k]) ELSE iter[u \ {k}]
    BY <1>5, <2>4
  <2> QED BY <2>3, <2>4, <2>5, <2>6
<1>8. F!Listed(s) = g[n]
  <2>1. n \in 0..n
    BY <1>1
  <2> HIDE DEF seq
  <2> QED BY <1>2, <1>5, <2>1
<1> HIDE DEF g
<1> QED BY <1>6, <1>7, <1>8 DEF n

\* It holds the pools of the subject and no other.
LEMMA ListedIsAll ==
    ASSUME NEW s, NEW list, list = F!Listed(s)
    PROVE  /\ list \in Seq(Pools)
           /\ \A p \in Pools : (\E i \in 1..Len(list) : list[i] = p) <=> SubjectOf[p] = s
<1> DEFINE n == F!Cardinality(Pools)
           Has(g, k, p) == p \in 1..k /\ SubjectOf[p] = s
           Ok(g, k) == /\ g \in Seq(Pools)
                       /\ \A p \in Pools : (\E i \in 1..Len(g) : g[i] = p) <=> (p <= k /\ SubjectOf[p] = s)
<1>1. n \in Nat /\ Pools = 1..n
  BY PricesAssumption DEF F!FigureConstants
<1>2. PICK g :
         /\ g[0] = <<>>
         /\ \A k \in 1..n : g[k] = IF SubjectOf[k] = s THEN Append(g[k - 1], k) ELSE g[k - 1]
         /\ list = g[n]
  <2> HIDE DEF Ok
  <2> QED BY ListedFolds
<1> HIDE DEF n
<1> DEFINE T == {k \in Nat : k <= n => Ok(g[k], k)}
<1>3. 0 \in T
  <2>1. Ok(<<>>, 0)
    BY <1>1
  <2> HIDE DEF Ok
  <2> QED BY <1>2, <2>1
<1>4. ASSUME NEW k \in T PROVE k + 1 \in T
  <2>1. k \in Nat /\ (k <= n => Ok(g[k], k))
    <3> HIDE DEF Ok
    <3> QED OBVIOUS
  <2> SUFFICES ASSUME k + 1 <= n PROVE Ok(g[k + 1], k + 1)
    <3> HIDE DEF Ok
    <3> QED BY <2>1
  <2> DEFINE old == g[k]
             new == g[k + 1]
  <2>2. k + 1 \in Pools /\ Ok(old, k)
    <3> HIDE DEF Ok
    <3> QED BY <1>1, <2>1
  <2>3. new = IF SubjectOf[k + 1] = s THEN Append(old, k + 1) ELSE old
    <3> DEFINE m == k + 1
    <3>1. m \in 1..n /\ m - 1 = k
      BY <1>1, <2>1
    <3> HIDE DEF m, Ok
    <3>2. g[m] = IF SubjectOf[m] = s THEN Append(g[k], m) ELSE g[k]
      BY <1>2, <3>1
    <3> QED BY <3>2 DEF m
  <2>4. \A p \in Pools : p \in Nat /\ (p <= k + 1 <=> p <= k \/ p = k + 1) /\ ~(k + 1 <= k)
    BY <1>1, <2>1
  <2> HIDE DEF old, new
  <2>5. CASE SubjectOf[k + 1] # s
    BY <2>2, <2>3, <2>4, <2>5 DEF new
  <2>6. CASE SubjectOf[k + 1] = s
    <3>1. old \in Seq(Pools) /\ Len(old) \in Nat
      BY <2>2
    <3>2. /\ new \in Seq(Pools) /\ Len(new) = Len(old) + 1
          /\ new[Len(old) + 1] = k + 1 /\ \A i \in 1..Len(old) : new[i] = old[i]
      BY <2>2, <2>3, <2>6, <3>1
    <3>3. ASSUME NEW p \in Pools
          PROVE  (\E i \in 1..Len(new) : new[i] = p) <=> ((\E i \in 1..Len(old) : old[i] = p) \/ p = k + 1)
      <4>1. 1..Len(new) = (1..Len(old)) \cup {Len(old) + 1}
        BY <3>1, <3>2
      <4> QED BY <3>2, <4>1
    <3>4. ASSUME NEW p \in Pools
          PROVE  (\E i \in 1..Len(new) : new[i] = p) <=> (p <= k + 1 /\ SubjectOf[p] = s)
      <4>1. (\E i \in 1..Len(old) : old[i] = p) <=> (p <= k /\ SubjectOf[p] = s)
        BY <2>2
      <4> QED BY <2>4, <2>6, <3>3, <4>1
    <3> QED BY <3>2, <3>4 DEF new
  <2> QED BY <2>5, <2>6
<1>5. T = Nat
  <2>1. T \subseteq Nat
    <3> HIDE DEF Ok
    <3> QED OBVIOUS
  <2> HIDE DEF T
  <2> QED BY <1>3, <1>4, <2>1, SetInduction
<1>6. Ok(g[n], n)
  <2>1. n \in T
    BY <1>1, <1>5
  <2> HIDE DEF Ok
  <2> QED BY <1>1, <2>1
<1>7. \A p \in Pools : p <= n
  BY <1>1
<1> QED BY <1>2, <1>6, <1>7

-----------------------------------------------------------------------------
\* One step of dedupeSubjects.
Kept(seen, a) == IF a.subject \in ToSet(seen) THEN seen ELSE Append(seen, a.subject)

\* dedupeSubjects, entry by entry.
LEMMA DedupeFolds ==
    ASSUME NEW A, NEW list \in Seq(A)
    PROVE  \E g : 
              /\ g[0] = <<>>
              /\ \A k \in 1..Len(list) : g[k] = Kept(g[k - 1], list[k])
              /\ F!dedupeSubjects(list) = g[Len(list)]
<1> DEFINE n == Len(list)
           S == Seq({a.subject : a \in A})
           step == [x \in S \X A |-> Kept(x[1], x[2])]
           Runs(iter) ==
              iter = [u \in SUBSET DOMAIN list |->
                        IF u = {} THEN <<>> ELSE Kept(iter[u \ {Max(u)}], list[Max(u)])]
<1>1. n \in Nat /\ DOMAIN list = 1..n
  OBVIOUS
<1>2. step \in [S \X A -> S]
  BY DEF Kept
<1> HIDE DEF n
<1>3. \E iter : Runs(iter)
  <2>1. PICK iter \in [SUBSET DOMAIN list -> S] : Folding(iter, step, <<>>, list)
    <3>1. <<>> \in S
      OBVIOUS
    <3> HIDE DEF S, step
    <3> QED BY <1>2, <3>1, FoldDefined
  <2>2. ASSUME NEW u \in SUBSET DOMAIN list, u # {}
        PROVE  step[<<iter[u \ {Max(u)}], list[Max(u)]>>] = Kept(iter[u \ {Max(u)}], list[Max(u)])
    <3>1. Max(u) \in u
      BY <1>1, <2>2, LastPlace
    <3>2. iter[u \ {Max(u)}] \in S /\ list[Max(u)] \in A
      BY <1>1, <3>1
    <3> HIDE DEF S
    <3> QED BY <3>2
  <2>3. Runs(iter)
    <3> HIDE DEF step
    <3> QED BY <2>1, <2>2 DEF Folding
  <2> HIDE DEF Runs
  <2> QED BY <2>3
<1>4. PICK iter : Runs(iter) /\ F!dedupeSubjects(list) = iter[DOMAIN list]
  BY Zenon, <1>3 DEF F!dedupeSubjects, F!FoldLeft, F!MapThenFoldSet, F!Max, Max, Kept, F!ToSet, ToSet
<1> DEFINE g == [k \in 0..n |-> iter[1..k]]
<1>5. g[0] = <<>>
  <2>1. 1..0 = {}
    OBVIOUS
  <2> QED BY <1>1, <1>4, <2>1
<1>6. ASSUME NEW k \in 1..n PROVE g[k] = Kept(g[k - 1], list[k])
  <2>1. k \in Nat /\ k > 0 /\ 1..k \in SUBSET (1..n) /\ k \in 1..k /\ k \in 0..n /\ k - 1 \in 0..n
    <3> HIDE DEF S, step, Runs, g
    <3> QED BY <1>1
  <2>2. Max(1..k) = k /\ (1..k) \ {k} = 1..(k - 1)
    BY <2>1, LastOfAll
  <2> DEFINE u == 1..k
  <2>4. u \in SUBSET DOMAIN list /\ u # {} /\ Max(u) = k /\ u \ {k} = 1..(k-1)
    BY <1>1, <2>1, <2>2
  <2>5. g[k] = iter[u] /\ g[k - 1] = iter[1..(k - 1)]
    BY <2>1
  <2> HIDE DEF u, g
  <2>6. iter[u] = Kept(iter[u \ {k}], list[k])
    BY <1>4, <2>4
  <2> QED BY <2>4, <2>5, <2>6
<1>7. F!dedupeSubjects(list) = g[n]
  <2>1. n \in 0..n
    BY <1>1
  <2> QED BY <1>1, <1>4, <2>1
<1> HIDE DEF g
<1> QED BY <1>5, <1>6, <1>7 DEF n

\* Each subject is kept where it appears first.
FirstAt(first, order, asked, k) ==
    /\ first \in [1..Len(order) -> 1..k]
    /\ \A i, j \in 1..Len(order) : i < j => first[i] < first[j]
    /\ \A i \in 1..Len(order) : asked[first[i]].subject = order[i]
    /\ \A i, j \in 1..Len(order) : order[i] = order[j] => i = j
    /\ \A m \in 1..k : \E i \in 1..Len(order) : order[i] = asked[m].subject /\ first[i] <= m

\* It keeps every subject, where it is first.
LEMMA DedupeKeepsFirst ==
    ASSUME NEW A, NEW asked \in Seq(A), NEW order, order = F!dedupeSubjects(asked)
    PROVE  /\ order \in Seq({a.subject : a \in A})
           /\ \E first : FirstAt(first, order, asked, Len(asked))
<1> DEFINE n == Len(asked)
           B == {a.subject : a \in A}
           Ok(g, k) == g \in Seq(B) /\ \E first : FirstAt(first, g, asked, k)
<1>1. n \in Nat /\ \A i \in 1..n : asked[i] \in A
  OBVIOUS
<1>2. PICK g :
         /\ g[0] = <<>>
         /\ \A k \in 1..n : g[k] = Kept(g[k - 1], asked[k])
         /\ order = g[n]
  <2> HIDE DEF Ok
  <2> QED BY DedupeFolds
<1> HIDE DEF n
<1> DEFINE T == {k \in Nat : k <= n => Ok(g[k], k)}
<1>3. 0 \in T
  <2>1. FirstAt(<<>>, <<>>, asked, 0)
    BY DEF FirstAt
  <2>2. Ok(<<>>, 0)
    BY <2>1
  <2> HIDE DEF Ok
  <2> QED BY <1>2, <2>2
<1>4. ASSUME NEW k \in T PROVE k + 1 \in T
  <2>1. k \in Nat /\ (k <= n => Ok(g[k], k))
    <3> HIDE DEF Ok
    <3> QED OBVIOUS
  <2> SUFFICES ASSUME k + 1 <= n PROVE Ok(g[k + 1], k + 1)
    <3> HIDE DEF Ok
    <3> QED BY <2>1
  <2> DEFINE old == g[k]
             new == g[k + 1]
             s == asked[k + 1].subject
             len == Len(old)
  <2>2. Ok(old, k)
    <3> HIDE DEF Ok
    <3> QED BY <1>1, <2>1
  <2>3. new = IF s \in ToSet(old) THEN old ELSE Append(old, s)
    <3> DEFINE m == k + 1
    <3>1. m \in 1..n /\ m - 1 = k
      BY <1>1, <2>1
    <3> HIDE DEF m, Ok
    <3>2. g[m] = Kept(g[k], asked[m])
      BY <1>2, <3>1
    <3> QED BY <3>2 DEF m, Kept
  <2>4. s \in B
    <3>1. k + 1 \in 1..n
      BY <1>1, <2>1
    <3> QED BY <1>1, <3>1
  <2>5. PICK first : FirstAt(first, old, asked, k)
    BY <2>2
  <2>6. old \in Seq(B) /\ len \in Nat /\ DOMAIN old = 1..len
    BY <2>2
  <2> HIDE DEF old, s, B
  <2>7. CASE s \in ToSet(old)
    <3>1. new = old
      BY <2>3, <2>7
    <3>2. \E i \in 1..len : old[i] = s
      BY <2>6, <2>7 DEF ToSet
    <3>3. FirstAt(first, old, asked, k + 1)
      <4>1. \A i \in 1..len : first[i] \in 1..k
        BY <2>5 DEF FirstAt
      <4>2. first \in [1..len -> 1..(k + 1)]
        <5>1. \A i \in 1..k : i \in 1..(k + 1)
          BY <2>1
        <5> QED BY <2>5, <5>1 DEF FirstAt
      <4>3. ASSUME NEW m \in 1..(k + 1)
            PROVE  \E i \in 1..len : old[i] = asked[m].subject /\ first[i] <= m
        <5>1. CASE m = k + 1
          BY <2>1, <3>2, <4>1, <5>1 DEF s
        <5>2. CASE m # k + 1
          <6>1. m \in 1..k
            BY <2>1, <5>2
          <6> QED BY <2>5, <6>1 DEF FirstAt
        <5> QED BY <5>1, <5>2
      <4> HIDE DEF new
      <4> QED BY <2>5, <4>2, <4>3 DEF FirstAt
    <3>4. Ok(new, k + 1)
      BY <2>6, <3>1, <3>3
    <3> HIDE DEF Ok
    <3> QED BY <3>4
  <2>8. CASE s \notin ToSet(old)
    <3> DEFINE next == [i \in 1..(len + 1) |-> IF i = len + 1 THEN k + 1 ELSE first[i]]
    <3>1. /\ new \in Seq(B) /\ Len(new) = len + 1
          /\ new[len + 1] = s /\ \A i \in 1..len : new[i] = old[i]
      BY <2>3, <2>4, <2>6, <2>8
    <3>2. \A i \in 1..len : first[i] \in 1..k
      BY <2>5 DEF FirstAt
    <3>3. /\ next \in [1..(len + 1) -> 1..(k + 1)] /\ next[len + 1] = k + 1
          /\ \A i \in 1..len : next[i] = first[i]
      <4>1. \A i \in 1..(len + 1) : i # len + 1 => i \in 1..len
        BY <2>6
      <4>2. \A i \in 1..(len + 1) : next[i] \in 1..(k + 1)
        BY <2>1, <3>2, <4>1
      <4>3. \A i \in 1..len : i \in 1..(len + 1) /\ i # len + 1
        BY <2>6
      <4>4. len + 1 \in 1..(len + 1)
        BY <2>6
      <4> QED BY <4>2, <4>3, <4>4
    <3> HIDE DEF next, new, len
    <3>4. \A i \in 1..(len + 1) : i = len + 1 \/ i \in 1..len
      BY <2>6
    <3>5. ASSUME NEW i \in 1..(len + 1), NEW j \in 1..(len + 1), i < j PROVE next[i] < next[j]
      <4>1. i \in 1..len
        BY <2>6, <3>5
      <4>2. next[i] = first[i] /\ first[i] \in 1..k
        BY <3>2, <3>3, <4>1
      <4>3. CASE j = len + 1
        BY <2>1, <3>3, <4>2, <4>3
      <4>4. CASE j \in 1..len
        BY <2>5, <3>3, <3>5, <4>1, <4>2, <4>4 DEF FirstAt, len
      <4> QED BY <3>4, <4>3, <4>4
    <3>6. ASSUME NEW i \in 1..(len + 1) PROVE asked[next[i]].subject = new[i]
      <4>1. CASE i = len + 1
        BY <3>1, <3>3, <4>1 DEF s
      <4>2. CASE i \in 1..len
        BY <2>5, <3>1, <3>3, <4>2 DEF FirstAt, len
      <4> QED BY <3>4, <4>1, <4>2
    <3>7. ASSUME NEW m \in 1..(k + 1)
          PROVE  \E i \in 1..(len + 1) : new[i] = asked[m].subject /\ next[i] <= m
      <4>1. CASE m = k + 1
        <5>1. len + 1 \in 1..(len + 1) /\ next[len + 1] <= m
          BY <2>1, <2>6, <3>3, <4>1
        <5> QED BY <3>1, <4>1, <5>1 DEF s
      <4>2. CASE m # k + 1
        <5>1. m \in 1..k
          BY <2>1, <4>2
        <5>2. PICK i \in 1..len : old[i] = asked[m].subject /\ first[i] <= m
          BY <2>5, <5>1 DEF FirstAt, len
        <5>3. i \in 1..(len + 1)
          BY <2>6
        <5> QED BY <3>1, <3>3, <5>2, <5>3
      <4> QED BY <4>1, <4>2
    <3>8. ASSUME NEW i \in 1..(len + 1), NEW j \in 1..(len + 1), new[i] = new[j] PROVE i = j
      <4>1. \A m \in 1..len : old[m] # s
        BY <2>6, <2>8 DEF ToSet
      <4>2. CASE i \in 1..len /\ j \in 1..len
        BY <2>5, <3>1, <3>8, <4>2 DEF FirstAt, len
      <4> QED BY <3>1, <3>4, <3>8, <4>1, <4>2
    <3>10. FirstAt(next, new, asked, k + 1)
      BY <3>1, <3>3, <3>5, <3>6, <3>7, <3>8 DEF FirstAt
    <3>11. Ok(new, k + 1)
      BY <3>1, <3>10
    <3> HIDE DEF Ok
    <3> QED BY <3>11 DEF new
  <2> QED BY <2>7, <2>8
<1>5. T = Nat
  <2>1. T \subseteq Nat
    <3> HIDE DEF Ok
    <3> QED OBVIOUS
  <2> HIDE DEF T
  <2> QED BY <1>3, <1>4, <2>1, SetInduction
<1>6. Ok(g[n], n)
  <2>1. n \in T
    BY <1>1, <1>5
  <2> HIDE DEF Ok
  <2> QED BY <1>1, <2>1
<1> QED BY <1>2, <1>6 DEF n

\* What pickMostLiquidAdaPool does with one pool of the list.
Better(s, best, p) ==
    IF F!isDirectAdaPool(s, p) /\ (best = 0 \/ reserve[p] > reserve[best]) THEN p ELSE best

\* pickMostLiquidAdaPool, pool by pool.
LEMMA PickFolds ==
    ASSUME NEW s, NEW list \in Seq(Pools)
    PROVE  \E g : 
              /\ g[0] = 0
              /\ \A k \in 1..Len(list) : g[k] = Better(s, g[k - 1], list[k])
              /\ F!pickMostLiquidAdaPool(s, list) = g[Len(list)]
<1> DEFINE n == Len(list)
           S == Pools \cup {0}
           step == [x \in S \X Pools |-> Better(s, x[1], x[2])]
           Runs(iter) ==
              iter = [u \in SUBSET DOMAIN list |->
                        IF u = {} THEN 0 ELSE Better(s, iter[u \ {Max(u)}], list[Max(u)])]
<1>1. n \in Nat /\ DOMAIN list = 1..n
  OBVIOUS
<1>2. step \in [S \X Pools -> S]
  BY DEF Better
<1> HIDE DEF n
<1>3. \E iter : Runs(iter)
  <2>1. PICK iter \in [SUBSET DOMAIN list -> S] : Folding(iter, step, 0, list)
    <3>1. 0 \in S
      OBVIOUS
    <3> HIDE DEF S, step
    <3> QED BY <1>2, <3>1, FoldDefined
  <2>2. ASSUME NEW u \in SUBSET DOMAIN list, u # {}
        PROVE  step[<<iter[u \ {Max(u)}], list[Max(u)]>>] = Better(s, iter[u \ {Max(u)}], list[Max(u)])
    <3>1. Max(u) \in u
      BY <1>1, <2>2, LastPlace
    <3>2. iter[u \ {Max(u)}] \in S /\ list[Max(u)] \in Pools
      BY <1>1, <3>1
    <3> HIDE DEF S
    <3> QED BY <3>2
  <2>3. Runs(iter)
    <3> HIDE DEF step
    <3> QED BY <2>1, <2>2 DEF Folding
  <2> HIDE DEF Runs
  <2> QED BY <2>3
<1>4. PICK iter : Runs(iter) /\ F!pickMostLiquidAdaPool(s, list) = iter[DOMAIN list]
  BY Zenon, <1>3 DEF F!pickMostLiquidAdaPool, F!FoldLeft, F!MapThenFoldSet, F!Max, Max, Better, F!NoPool
<1> DEFINE g == [k \in 0..n |-> iter[1..k]]
<1>5. g[0] = 0
  <2>1. 1..0 = {}
    OBVIOUS
  <2> QED BY <1>1, <1>4, <2>1
<1>6. ASSUME NEW k \in 1..n PROVE g[k] = Better(s, g[k - 1], list[k])
  <2>1. k \in Nat /\ k > 0 /\ 1..k \in SUBSET (1..n) /\ k \in 1..k /\ k \in 0..n /\ k - 1 \in 0..n
    <3> HIDE DEF S, step, Runs, g
    <3> QED BY <1>1
  <2>2. Max(1..k) = k /\ (1..k) \ {k} = 1..(k - 1)
    BY <2>1, LastOfAll
  <2> DEFINE u == 1..k
  <2>4. u \in SUBSET DOMAIN list /\ u # {} /\ Max(u) = k /\ u \ {k} = 1..(k-1)
    BY <1>1, <2>1, <2>2
  <2>5. g[k] = iter[u] /\ g[k - 1] = iter[1..(k - 1)]
    BY <2>1
  <2> HIDE DEF u, g
  <2>6. iter[u] = Better(s, iter[u \ {k}], list[k])
    BY <1>4, <2>4
  <2> QED BY <2>4, <2>5, <2>6
<1>7. F!pickMostLiquidAdaPool(s, list) = g[n]
  <2>1. n \in 0..n
    BY <1>1
  <2> QED BY <1>1, <1>4, <2>1
<1> HIDE DEF g
<1> QED BY <1>5, <1>6, <1>7 DEF n

\* Its pick is the deepest of the direct pools on the list.
LEMMA PickIsDeepest ==
    ASSUME NEW s, NEW list \in Seq(Pools), reserve \in [Pools -> Nat], Pools \subseteq Nat \ {0},
           NEW pick, pick = F!pickMostLiquidAdaPool(s, list)
    PROVE  LET direct == {p \in Pools : (\E i \in 1..Len(list) : list[i] = p) /\ F!isDirectAdaPool(s, p)}
           IN IF direct = {} THEN pick = 0 ELSE pick \in direct /\ \A p \in direct : reserve[p] <= reserve[pick]
<1>1. PICK g :
              /\ g[0] = 0
              /\ \A k \in 1..Len(list) : g[k] = Better(s, g[k - 1], list[k])
              /\ pick = g[Len(list)]
  BY PickFolds
<1> DEFINE n == Len(list)
           Direct(k) == {p \in Pools : (\E i \in 1..k : list[i] = p) /\ F!isDirectAdaPool(s, p)}
           Ok(best, k) == IF Direct(k) = {} THEN best = 0
                          ELSE best \in Direct(k) /\ \A p \in Direct(k) : reserve[p] <= reserve[best]
           T == {k \in Nat : k <= n => Ok(g[k], k)}
<1>2. n \in Nat /\ \A i \in 1..n : list[i] \in Pools
  OBVIOUS
<1>3. 0 \in T
  <2>1. Direct(0) = {}
    OBVIOUS
  <2> HIDE DEF Direct
  <2> QED BY <1>1, <2>1
<1>4. ASSUME NEW k \in T PROVE k + 1 \in T
  <2>1. k \in Nat /\ (k <= n => Ok(g[k], k))
    <3> HIDE DEF Ok
    <3> QED OBVIOUS
  <2> SUFFICES ASSUME k + 1 <= n PROVE Ok(g[k + 1], k + 1)
    <3> HIDE DEF Ok, n
    <3> QED BY <2>1
  <2> DEFINE p == list[k + 1]
             best == g[k]
             next == g[k + 1]
  <2>2. p \in Pools /\ Ok(best, k)
    <3> HIDE DEF Ok
    <3> QED BY <1>2, <2>1
  <2>3. next = Better(s, best, p)
    <3> DEFINE m == k + 1
    <3>1. m \in 1..n /\ m - 1 = k
      BY <1>2, <2>1
    <3> HIDE DEF m, Ok
    <3>2. g[m] = Better(s, g[k], list[m])
      BY <1>1, <3>1
    <3> QED BY <3>2 DEF m
  <2>4. Direct(k + 1) = IF F!isDirectAdaPool(s, p) THEN Direct(k) \cup {p} ELSE Direct(k)
    <3>1. 1..(k + 1) = (1..k) \cup {k + 1}
      BY <2>1
    <3>2. \A q : (\E i \in 1..(k + 1) : list[i] = q) <=> (\E i \in 1..k : list[i] = q) \/ q = p
      BY <3>1
    <3> HIDE DEF p
    <3> QED BY <2>2, <3>2
  <2>5. \A q \in Direct(k) : q \in Pools /\ reserve[q] \in Nat /\ q # 0
    OBVIOUS
  <2>6. reserve[p] \in Nat /\ p # 0
    BY <2>2
  <2> DEFINE old == Direct(k)
             new == Direct(k + 1)
  <2>7. IF old = {} THEN best = 0 ELSE best \in old /\ \A q \in old : reserve[q] <= reserve[best]
    BY <2>2
  <2>8. new = IF F!isDirectAdaPool(s, p) THEN old \cup {p} ELSE old
    BY <2>4
  <2>9. \A q \in old : reserve[q] \in Nat /\ q # 0
    BY <2>5
  <2> HIDE DEF p, best, next, old, new, Direct
  <2>10. IF new = {} THEN next = 0 ELSE next \in new /\ \A q \in new : reserve[q] <= reserve[next]
    <3>1. CASE ~F!isDirectAdaPool(s, p)
      BY <2>3, <2>7, <2>8, <3>1 DEF Better
    <3>2. CASE F!isDirectAdaPool(s, p) /\ old = {}
      BY <2>3, <2>6, <2>7, <2>8, <3>2 DEF Better
    <3>3. CASE F!isDirectAdaPool(s, p) /\ old # {}
      BY <2>3, <2>6, <2>7, <2>8, <2>9, <3>3 DEF Better
    <3> QED BY <3>1, <3>2, <3>3
  <2> QED BY <2>10 DEF next, new
<1>5. T = Nat
  <2>1. T \subseteq Nat
    <3> HIDE DEF Ok
    <3> QED OBVIOUS
  <2> HIDE DEF T
  <2> QED BY <1>3, <1>4, <2>1, SetInduction
<1>6. Ok(g[n], n)
  <2>1. n \in T
    BY <1>2, <1>5
  <2> HIDE DEF Ok
  <2> QED BY <1>2, <2>1
<1> QED BY <1>1, <1>6

Window(p, from, n) == [i \in 1..n |-> [pool |-> p, day |-> from + i - 1]]

CandlesFit(list, p, limit, today) ==
    \E from, n \in Nat :
        /\ list = Window(p, from, n)
        /\ n <= limit /\ from + n - 1 <= today
        /\ n = limit \/ n = 0 \/ from = kinds[p].first
        /\ kinds[p].first = 1 => n > 0

\* The instance counts as this module does.
LEMMA CountsAgree == ASSUME NEW s PROVE F!Cardinality(s) = Cardinality(s)
BY Zenon DEF F!Cardinality, Cardinality

\* What is in a window.
Days(list, p, from, n) ==
    /\ Len(list) = n /\ DOMAIN list = 1..n /\ list \in Seq([pool : {p}, day : Int])
    /\ \A i \in 1..n : list[i].pool = p /\ list[i].day = from + i - 1

\* A window holds its days.
LEMMA WindowIs == \A p : \A from, n \in Nat : Days(Window(p, from, n), p, from, n)
<1> SUFFICES ASSUME NEW p, NEW from \in Nat, NEW n \in Nat PROVE Days(Window(p, from, n), p, from, n)
  OBVIOUS
<1>1. Window(p, from, n) \in [1..n -> [pool : {p}, day : Int]]
  BY DEF Window
<1> QED BY <1>1 DEF Window, Days

\* What fetchOhlcv answers is a window, and that of a pool from the first day
\* has a candle.
LEMMA FetchedFits ==
    ASSUME NEW p \in Pools, kinds \in [Pools -> F!Kinds], day \in Nat, day > 0, NEW limit \in Nat, limit > 0
    PROVE  CandlesFit(F!fetchOhlcv(p, limit), p, limit, day)
<1> DEFINE first == kinds[p].first
           n == IF first > day THEN 0 ELSE day - first + 1
           m == IF n < limit THEN n ELSE limit
           upstream == [i \in 1..m |-> [pool |-> p, day |-> day + 1 - i]]
           from == day - m + 1
<1>1. first \in Nat /\ first > 0
  BY PricesAssumption DEF F!Kinds, F!FigureConstants
<1> HIDE DEF first
<1>2. /\ n \in Nat /\ m \in Nat /\ m <= limit /\ m <= day /\ from \in Nat
      /\ m = limit \/ m = 0 \/ from = first
      /\ first = 1 => m > 0
  BY <1>1
<1>3. F!UpstreamCandles(p, limit) = upstream
  BY DEF F!UpstreamCandles, first
<1> HIDE DEF n, m
<1>4. DOMAIN upstream = 1..m /\ Len(upstream) = m
  BY <1>2
<1>5. F!fetchOhlcv(p, limit) = [i \in 1..m |-> upstream[m - i + 1]]
  <2>1. F!fetchOhlcv(p, limit) = [i \in 1..Len(upstream) |-> upstream[(Len(upstream) - i) + 1]]
    BY <1>3 DEF F!fetchOhlcv, F!Reverse
  <2> HIDE DEF upstream
  <2> QED BY <1>4, <2>1
<1>6. \A i \in 1..m : upstream[m - i + 1] = [pool |-> p, day |-> from + i - 1]
  <2>1. SUFFICES ASSUME NEW i \in 1..m PROVE upstream[m - i + 1] = [pool |-> p, day |-> from + i - 1]
    OBVIOUS
  <2>2. m - i + 1 \in 1..m /\ day + 1 - (m - i + 1) = from + i - 1
    BY <1>2
  <2> HIDE DEF from
  <2> QED BY <2>2
<1>7. F!fetchOhlcv(p, limit) = Window(p, from, m)
  <2> HIDE DEF upstream, from
  <2> QED BY <1>5, <1>6 DEF Window
<1>8. from + m - 1 <= day
  BY <1>2
<1> HIDE DEF from
<1> QED BY <1>2, <1>7, <1>8 DEF CandlesFit, first

\* A window of the past is one of the past tomorrow.
LEMMA LaterCandlesFit ==
    ASSUME NEW list, NEW p, NEW limit, NEW t \in Nat, NEW u \in Nat, t <= u, CandlesFit(list, p, limit, t)
    PROVE  CandlesFit(list, p, limit, u)
BY DEF CandlesFit

\* Such a list is a window in the sense of the property.
LEMMA CandlesAreAWindow ==
    ASSUME NEW list, NEW p, NEW limit \in Nat, day \in Nat, CandlesFit(list, p, limit, day)
    PROVE  F!IsWindow(list, p, limit)
<1>1. PICK from \in Nat, n \in Nat :
        /\ list = Window(p, from, n)
        /\ n <= limit /\ from + n - 1 <= day
        /\ n = limit \/ n = 0 \/ from = kinds[p].first
  BY DEF CandlesFit
<1>2. Days(list, p, from, n)
  BY <1>1, WindowIs
<1>3. \A i \in 1..n : i > 1 => list[i].day = list[i - 1].day + 1
  BY <1>2 DEF Days
<1>4. ASSUME list # <<>>
      PROVE  /\ list[Len(list)].day <= day
             /\ Len(list) = limit \/ (Len(list) < limit /\ Head(list).day = kinds[p].first)
  <2>1. n > 0
    BY <1>2, <1>4 DEF Days
  <2>2. 1 \in 1..n /\ n \in 1..n /\ Head(list) = list[1]
    BY <1>2, <2>1 DEF Days
  <2>3. list[1].day = from /\ list[n].day = from + n - 1
    BY <1>2, <2>2 DEF Days
  <2> QED BY <1>1, <1>2, <2>1, <2>2, <2>3 DEF Days
<1> QED BY <1>2, <1>3, <1>4 DEF Days, F!IsWindow, F!Last

\* A window says each of its days once.
LEMMA WindowSpans ==
    ASSUME NEW p, NEW from \in Nat, NEW n \in Nat, n > 0, NEW list, list = Window(p, from, n)
    PROVE  /\ \A k \in F!ToSet(list) : Head(list).day <= k.day /\ k.day <= F!Last(list).day
           /\ F!Cardinality(F!ToSet(list)) = F!Last(list).day - Head(list).day + 1
<1>1. Days(list, p, from, n)
  BY WindowIs
<1>2. Head(list) = list[1] /\ F!Last(list) = list[n] /\ F!ToSet(list) = {list[i] : i \in 1..n}
  BY <1>1 DEF Days, F!Last, F!ToSet
<1>3. Head(list).day = from /\ F!Last(list).day = from + n - 1
  BY <1>1, <1>2 DEF Days
<1>4. \A k \in F!ToSet(list) : from <= k.day /\ k.day <= from + n - 1
  BY <1>1, <1>2 DEF Days
<1>5. Cardinality(F!ToSet(list)) = n
  <2>1. \A i, j \in 1..n : list[i] = list[j] => i = j
    BY <1>1, SMTT(30) DEF Days
  <2>2. list \in Bijection(1..n, F!ToSet(list))
    BY <1>1, <1>2, <2>1 DEF Days, Bijection, Injection, Surjection, IsInjective
  <2>3. IsFiniteSet(1..n) /\ Cardinality(1..n) = n
    BY FS_Interval
  <2>4. ExistsBijection(1..n, F!ToSet(list))
    BY <2>2 DEF ExistsBijection
  <2> HIDE DEF Days
  <2> QED BY <2>3, <2>4, FS_Bijection
<1> QED BY <1>3, <1>4, <1>5, CountsAgree

HasMarket(s) == \E p \in Pools : F!isDirectAdaPool(s, p)

\* The market of a subject is a pool of it against ada, if there is one.
MarketOf(s, p) ==
    IF HasMarket(s) THEN p \in Pools /\ F!isDirectAdaPool(s, p) ELSE p = 0

FigureRanges ==
    /\ kinds \in [Pools -> F!Kinds] /\ reserve \in [Pools -> Nat]
    /\ day \in Nat /\ day > 0

\* Pools, ranges and windows.
LEMMA PoolRanges ==
    /\ Pools \subseteq Nat \ {0} /\ ChartRanges \subseteq DOMAIN Limits /\ "24h" \notin DOMAIN Limits
    /\ \A w \in DOMAIN Limits : Limits[w] \in Nat /\ Limits[w] > 0
BY PricesAssumption DEF F!FigureConstants

\* The pick is the market, and the deepest.
LEMMA PickIsTheMarket ==
    ASSUME FigureRanges, NEW s, NEW pick, pick = F!pickMostLiquidAdaPool(s, F!Listed(s))
    PROVE  MarketOf(s, pick) /\ (HasMarket(s) => \A p \in Pools : F!isDirectAdaPool(s, p) => reserve[p] <= reserve[pick])
<1> DEFINE list == F!Listed(s)
           listed == {p \in Pools : (\E i \in 1..Len(list) : list[i] = p) /\ F!isDirectAdaPool(s, p)}
           direct == {p \in Pools : F!isDirectAdaPool(s, p)}
<1>1. list \in Seq(Pools) /\ \A p \in Pools : (\E i \in 1..Len(list) : list[i] = p) <=> SubjectOf[p] = s
  BY ListedIsAll
<1>2. listed = direct
  BY <1>1 DEF F!isDirectAdaPool
<1>3. pick = F!pickMostLiquidAdaPool(s, list)
  OBVIOUS
<1> HIDE DEF list
<1>4. IF listed = {} THEN pick = 0 ELSE pick \in listed /\ \A p \in listed : reserve[p] <= reserve[pick]
  BY <1>1, <1>3, PoolRanges, PickIsDeepest DEF FigureRanges
<1> QED BY <1>2, <1>4 DEF MarketOf, HasMarket

\* Whatever the reserves are, the market of a subject has no deeper rival.
LEMMA TheMarketIsDeepest == FigureRanges => F!MarketIsDeepest
<1> SUFFICES ASSUME FigureRanges, NEW s \in F!Tokens
    PROVE LET direct == {p \in Pools : F!isDirectAdaPool(s, p)}
              pick == F!pickMostLiquidAdaPool(s, F!Listed(s))
          IN IF direct = {} THEN pick = F!NoPool
             ELSE pick \in direct /\ \A p \in direct : reserve[p] <= reserve[pick]
  BY DEF F!MarketIsDeepest
<1> DEFINE pick == F!pickMostLiquidAdaPool(s, F!Listed(s))
<1>1. MarketOf(s, pick) /\ (HasMarket(s) => \A p \in Pools : F!isDirectAdaPool(s, p) => reserve[p] <= reserve[pick])
  BY PickIsTheMarket
<1> HIDE DEF pick
<1>2. LET direct == {p \in Pools : F!isDirectAdaPool(s, p)}
      IN IF direct = {} THEN pick = F!NoPool
         ELSE pick \in direct /\ \A p \in direct : reserve[p] <= reserve[pick]
  BY <1>1 DEF MarketOf, HasMarket, F!NoPool
<1> QED BY <1>2 DEF pick

-----------------------------------------------------------------------------
CandlesHad(call, s) == IF s \in DOMAIN call.candles THEN call.candles[s] ELSE <<>>

\* What a call has to say of each of its subjects.
Part(call, s) ==
    IF call.window = "24h" THEN F!activityFromPool(s, call.pools[s])
    ELSE F!activityFromCandles(s, call.pools[s], CandlesHad(call, s))

Parts(call) ==
    [i \in DOMAIN F!dedupeSubjects(call.asked) |-> Part(call, F!dedupeSubjects(call.asked)[i])]

Settled(call) ==
    /\ F!Unresolved(call) = {}
    /\ call.window # "24h" => F!Unread(call) = {}

Overflowed(call) == \E s \in DOMAIN call.pools : call.pools[s] # 0 /\ kinds[call.pools[s]].figures = "overflow"

CandlesFitCall(call, today) ==
    \A s \in DOMAIN call.candles :
        /\ s \in DOMAIN call.pools /\ call.pools[s] \in Pools
        /\ call.window \in DOMAIN Limits
        /\ CandlesFit(call.candles[s], call.pools[s], Limits[call.window], today)

IsCall(call) ==
    call = [st |-> call.st, window |-> call.window, asked |-> call.asked, pools |-> call.pools,
            candles |-> call.candles, answer |-> call.answer, refused |-> call.refused]

CallFits(call, today) ==
    /\ IsCall(call)
    /\ call.st \in {"idle", "resolving", "reading", "done", "failed"}
    /\ call.window \in DOMAIN Limits \cup {"24h"}
    /\ call.asked \in Seq(ToSet(call.asked))
    /\ call.st = "reading" => call.window # "24h"
    /\ \A s \in DOMAIN call.pools : MarketOf(s, call.pools[s])
    /\ CandlesFitCall(call, today)
    /\ (call.st = "done" /\ call.window \notin ChartRanges) =>
          /\ Settled(call) /\ call.answer = FlattenSeq(Parts(call))
          /\ F!Thrown \notin ToSet(call.answer)
    /\ (call.st = "failed" /\ ~call.refused) => call.window # "24h" /\ Overflowed(call)

FiguresInv ==
    /\ FigureRanges
    /\ \A s \in DOMAIN poolOf : MarketOf(s, poolOf[s])
    /\ \A key \in DOMAIN candlesOf : CandlesFit(candlesOf[key], key[2], Limits[key[3]], day)
    /\ DOMAIN calls = Callers /\ calls = [c \in Callers |-> calls[c]]
    /\ \A c \in Callers : CallFits(calls[c], day)

\* The instance concatenates as this module does.
LEMMA FlattensAgree == ASSUME NEW s PROVE F!FlattenSeq(s) = FlattenSeq(s)
BY Zenon DEF F!FlattenSeq, FlattenSeq

\* How a call goes on.
LEMMA WentIs ==
    ASSUME NEW call, NEW went, went = F!Went(call)
    PROVE  \/ went = call
           \/ call.window # "24h" /\ went = [call EXCEPT !.st = "reading"]
           \/ /\ Settled(call)
              /\ \E answer :
                    /\ call.window \notin ChartRanges => answer = FlattenSeq(Parts(call))
                    /\ call.window \in ChartRanges => answer = CandlesHad(call, F!dedupeSubjects(call.asked)[1])
                    /\ \/ F!Thrown \in ToSet(answer) /\ went = [call EXCEPT !.st = "failed"]
                       \/ F!Thrown \notin ToSet(answer) /\ went = [call EXCEPT !.st = "done", !.answer = answer]
<1> DEFINE order == F!dedupeSubjects(call.asked)
           Answered(answer) ==
               IF F!Thrown \in ToSet(answer) THEN [call EXCEPT !.st = "failed"]
               ELSE [call EXCEPT !.st = "done", !.answer = answer]
           Ends(answer) ==
               \/ F!Thrown \in ToSet(answer) /\ went = [call EXCEPT !.st = "failed"]
               \/ F!Thrown \notin ToSet(answer) /\ went = [call EXCEPT !.st = "done", !.answer = answer]
           ofPools == [i \in DOMAIN order |-> F!activityFromPool(order[i], call.pools[order[i]])]
           ofCandles == [i \in DOMAIN order |->
                           F!activityFromCandles(order[i], call.pools[order[i]], CandlesHad(call, order[i]))]
<1>1. CASE F!Unresolved(call) # {}
  <2>1. went = call
    BY <1>1 DEF F!Went
  <2> QED BY <2>1
<1>2. CASE F!Unresolved(call) = {} /\ call.window = "24h"
  <2>1. went = Answered(F!FlattenSeq(ofPools))
    BY <1>2 DEF F!Went, ToSet, F!ToSet
  <2>2. ofPools = Parts(call)
    BY <1>2 DEF Parts, Part
  <2> DEFINE answer == FlattenSeq(Parts(call))
  <2>3. went = Answered(answer)
    BY <2>1, <2>2, FlattensAgree
  <2> HIDE DEF answer, ofPools, ofCandles, order
  <2>4. Ends(answer)
    BY <2>3
  <2>5. call.window \notin ChartRanges
    BY <1>2, PoolRanges
  <2> HIDE DEF Ends
  <2>6. Settled(call)
    BY <1>2 DEF Settled
  <2> QED BY <2>4, <2>5, <2>6 DEF answer, Ends
<1>3. CASE F!Unresolved(call) = {} /\ call.window # "24h" /\ F!Unread(call) # {}
  <2>1. went = [call EXCEPT !.st = "reading"]
    BY <1>3 DEF F!Went
  <2> QED BY <1>3, <2>1
<1>4. CASE F!Unresolved(call) = {} /\ call.window # "24h" /\ F!Unread(call) = {} /\ call.window \in ChartRanges
  <2> DEFINE answer == CandlesHad(call, order[1])
  <2>1. went = Answered(answer)
    BY <1>4 DEF F!Went, ToSet, F!ToSet, CandlesHad
  <2>2. Settled(call)
    BY <1>4 DEF Settled
  <2>3. answer = CandlesHad(call, F!dedupeSubjects(call.asked)[1])
    OBVIOUS
  <2> HIDE DEF answer, order
  <2>4. Ends(answer)
    BY <2>1
  <2> QED BY <1>4, <2>2, <2>3, <2>4
<1>5. CASE F!Unresolved(call) = {} /\ call.window # "24h" /\ F!Unread(call) = {} /\ call.window \notin ChartRanges
  <2>1. went = Answered(F!FlattenSeq(ofCandles))
    BY <1>5 DEF F!Went, ToSet, F!ToSet, CandlesHad
  <2>2. ofCandles = Parts(call)
    BY <1>5 DEF Parts, Part
  <2> DEFINE answer == FlattenSeq(Parts(call))
  <2>3. went = Answered(answer)
    BY <2>1, <2>2, FlattensAgree
  <2> HIDE DEF answer, ofPools, ofCandles, order
  <2>4. Ends(answer)
    BY <2>3
  <2>6. Settled(call)
    BY <1>5 DEF Settled
  <2> HIDE DEF Ends
  <2> QED BY <1>5, <2>4, <2>6 DEF answer, Ends
<1> QED BY <1>1, <1>2, <1>3, <1>4, <1>5

\* What is said of a subject.
IsFigure(call, s, x) ==
    /\ x # F!Thrown
    /\ IF call.window = "24h" THEN x = [subject |-> s, pool |-> call.pools[s]]
       ELSE LET candles == CandlesHad(call, s)
            IN /\ candles # <<>>
               /\ x = [subject |-> s, pool |-> call.pools[s], before |-> Head(candles),
                       now |-> F!Last(candles), volume |-> F!ToSet(candles)]

IsThrown(call, s, x) ==
    x = F!Thrown /\ call.window # "24h" /\ call.pools[s] # 0 /\ kinds[call.pools[s]].figures = "overflow"

\* Of a subject there is nothing to say, one figure, or an overflow.
LEMMA PartIs ==
    ASSUME NEW call, NEW s, Part(call, s) # <<>>
    PROVE  \E x : Part(call, s) = <<x>> /\ (IsFigure(call, s, x) \/ IsThrown(call, s, x))
<1> DEFINE p == call.pools[s]
           candles == CandlesHad(call, s)
<1>1. CASE call.window = "24h"
  <2> DEFINE x == [subject |-> s, pool |-> p]
  <2>1. Part(call, s) = <<x>>
    BY <1>1 DEF Part, F!activityFromPool
  <2>2. DOMAIN x # DOMAIN F!Thrown
    BY DEF F!Thrown
  <2>3. IsFigure(call, s, x)
    BY <1>1, <2>2 DEF IsFigure
  <2> HIDE DEF x
  <2> QED BY <2>1, <2>3
<1>2. CASE call.window # "24h"
  <2>1. Part(call, s) = F!activityFromCandles(s, p, candles)
    BY <1>2 DEF Part
  <2> HIDE DEF p, candles
  <2>2. p # 0 /\ candles # <<>>
    BY <2>1 DEF F!activityFromCandles, F!NoPool
  <2> DEFINE x == [subject |-> s, pool |-> p, before |-> Head(candles), now |-> F!Last(candles),
                   volume |-> F!ToSet(candles)]
  <2>3. \/ Part(call, s) = <<x>>
        \/ Part(call, s) = <<F!Thrown>> /\ kinds[p].figures = "overflow"
    BY <2>1, <2>2 DEF F!activityFromCandles, F!NoPool
  <2>4. DOMAIN x # DOMAIN F!Thrown
    BY DEF F!Thrown
  <2>5. IsFigure(call, s, x)
    BY <1>2, <2>2, <2>4 DEF IsFigure, p, candles
  <2> HIDE DEF x
  <2>6. kinds[p].figures = "overflow" => IsThrown(call, s, F!Thrown)
    BY <1>2, <2>2 DEF IsThrown, p
  <2> QED BY <2>3, <2>5, <2>6
<1> QED BY <1>1, <1>2

\* Where the entries of an answer come from.
Placed(place, call, order, answer) ==
    /\ place \in [1..Len(answer) -> 1..Len(order)]
    /\ \A i, j \in 1..Len(answer) : i < j => place[i] < place[j]
    /\ \A i \in 1..Len(answer) : Part(call, order[place[i]]) = <<answer[i]>>
    /\ \A k \in 1..Len(order) : Part(call, order[k]) # <<>> => \E i \in 1..Len(answer) : place[i] = k

\* The entries of an answer come from subjects in order, and none that has
\* one is missing.
LEMMA AnswersArePlaced ==
    ASSUME NEW call, call.asked \in Seq(ToSet(call.asked)), 
           NEW order, order = F!dedupeSubjects(call.asked), 
           NEW answer, answer = FlattenSeq(Parts(call))
    PROVE  /\ Len(order) \in Nat /\ DOMAIN order = 1..Len(order)
           /\ Len(answer) \in Nat /\ DOMAIN answer = 1..Len(answer)
           /\ \E first : FirstAt(first, order, call.asked, Len(call.asked))
           /\ \E place : Placed(place, call, order, answer)
<1> DEFINE asked == call.asked
           parts == Parts(call)
           A == {parts[i][1] : i \in DOMAIN order}
<1>1. asked \in Seq(ToSet(asked)) /\ order = F!dedupeSubjects(asked)
  OBVIOUS
<1> HIDE DEF asked
<1>2. order \in Seq({a.subject : a \in ToSet(asked)}) /\ \E first : FirstAt(first, order, asked, Len(asked))
  BY <1>1, DedupeKeepsFirst
<1>3. Len(order) \in Nat /\ DOMAIN order = 1..Len(order)
  BY <1>2
<1>4. parts = [i \in 1..Len(order) |-> Part(call, order[i])]
  BY <1>3 DEF Parts
<1> HIDE DEF parts
<1>5. \A i \in 1..Len(order) : parts[i] = <<>> \/ \E x \in A : parts[i] = <<x>>
  <2> SUFFICES ASSUME NEW i \in 1..Len(order), parts[i] # <<>> PROVE \E x \in A : parts[i] = <<x>>
    OBVIOUS
  <2>1. PICK x : parts[i] = <<x>>
    BY <1>4, PartIs
  <2>2. x \in A
    BY <1>3, <2>1
  <2> QED BY <2>1, <2>2
<1> HIDE DEF A
<1>6. parts \in Seq(Seq(A))
  <2>1. \A i \in 1..Len(order) : parts[i] \in Seq(A)
    <3>1. <<>> \in Seq(A) /\ \A x \in A : <<x>> \in Seq(A)
      OBVIOUS
    <3> QED BY <1>5, <3>1
  <2> QED BY <1>3, <1>4, <2>1
<1>7. DOMAIN parts = 1..Len(order) /\ Len(parts) = Len(order)
  BY <1>3, <1>4
<1>8. answer \in Seq(A) /\ \E place : PlacedIn(place, parts, answer)
  <2>1. answer = FlattenSeq(parts)
    BY DEF parts
  <2>2. Optional(A, parts)
    BY <1>5, <1>7 DEF Optional
  <2> QED BY <1>6, <2>1, <2>2, FlattenOptional
<1>9. PICK place : PlacedIn(place, parts, answer)
  BY <1>8
<1>10. Placed(place, call, order, answer)
  BY <1>4, <1>7, <1>9 DEF Placed, PlacedIn
<1> QED BY <1>2, <1>3, <1>8, <1>10 DEF asked

\* What throws is an overflow.
LEMMA ThrownOverflows ==
    ASSUME NEW call, call.asked \in Seq(ToSet(call.asked)), Settled(call),
           NEW answer, answer = FlattenSeq(Parts(call)), F!Thrown \in ToSet(answer)
    PROVE  call.window # "24h" /\ Overflowed(call)
<1> DEFINE order == F!dedupeSubjects(call.asked)
<1>1. /\ Len(order) \in Nat /\ DOMAIN order = 1..Len(order)
      /\ Len(answer) \in Nat /\ DOMAIN answer = 1..Len(answer)
      /\ \E place : Placed(place, call, order, answer)
  BY AnswersArePlaced
<1>2. \A s \in F!ToSet(order) : s \in DOMAIN call.pools
  BY DEF Settled, F!Unresolved
<1> HIDE DEF order
<1>3. PICK place : Placed(place, call, order, answer)
  BY <1>1
<1>4. PICK i \in 1..Len(answer) : answer[i] = F!Thrown
  BY <1>1 DEF ToSet
<1> DEFINE s == order[place[i]]
<1>5. place[i] \in 1..Len(order) /\ Part(call, s) = <<answer[i]>>
  BY <1>3 DEF Placed
<1>6. s \in DOMAIN call.pools
  BY <1>1, <1>2, <1>5 DEF F!ToSet
<1> HIDE DEF s
<1>7. PICK x : Part(call, s) = <<x>> /\ (IsFigure(call, s, x) \/ IsThrown(call, s, x))
  <2>1. Part(call, s) # <<>>
    BY <1>5
  <2> QED BY <2>1, PartIs
<1>8. x = F!Thrown
  BY <1>4, <1>5, <1>7
<1>9. IsThrown(call, s, x)
  BY <1>7, <1>8 DEF IsFigure
<1> QED BY <1>6, <1>9 DEF IsThrown, Overflowed

\* Where a subject is asked for first.
FirstAsked(asked, s) ==
    CHOOSE i \in DOMAIN asked :
        /\ asked[i].subject = s
        /\ \A j \in 1..(i - 1) : asked[j].subject # s

\* Where a subject is kept is where it is asked for first.
LEMMA FirstIsFirst ==
    ASSUME NEW asked, asked \in Seq(ToSet(asked)), NEW order, Len(order) \in Nat, NEW first,
           FirstAt(first, order, asked, Len(asked)), NEW k \in 1..Len(order)
    PROVE  FirstAsked(asked, order[k]) = first[k]
<1> DEFINE s == order[k]
           n == Len(asked)
           Is(i) == asked[i].subject = s /\ \A j \in 1..(i - 1) : asked[j].subject # s
<1>1. n \in Nat /\ DOMAIN asked = 1..n
  OBVIOUS
<1> HIDE DEF n
<1>2. first[k] \in 1..n /\ asked[first[k]].subject = s
  BY DEF FirstAt, n
<1>3. ASSUME NEW j \in 1..(first[k] - 1) PROVE asked[j].subject # s
  <2>1. j \in 1..n /\ j < first[k]
    BY <1>1, <1>2
  <2>2. PICK i \in 1..Len(order) : order[i] = asked[j].subject /\ first[i] <= j
    BY <2>1 DEF FirstAt, n
  <2>3. i # k
    BY <1>1, <1>2, <2>1, <2>2
  <2> QED BY <2>2, <2>3 DEF FirstAt
<1>4. ASSUME NEW i \in 1..n, Is(i) PROVE i = first[k]
  <2>1. CASE i < first[k]
    <3>1. i \in 1..(first[k] - 1)
      BY <1>1, <1>2, <2>1
    <3> QED BY <1>3, <1>4, <3>1
  <2>2. CASE first[k] < i
    <3>1. first[k] \in 1..(i - 1)
      BY <1>1, <1>2, <2>2
    <3> QED BY <1>2, <1>4, <3>1
  <2> QED BY <1>1, <1>2, <2>1, <2>2
<1>5. Is(first[k])
  BY <1>2, <1>3
<1> HIDE DEF Is
<1>6. (CHOOSE i \in 1..n : Is(i)) = first[k]
  <2>1. \E i \in 1..n : Is(i)
    BY <1>2, <1>5
  <2> QED BY <1>4, <2>1
<1> QED BY <1>1, <1>6 DEF Is, FirstAsked

IsDone(call) ==
    /\ IsCall(call)
    /\ call.window \in DOMAIN Limits \cup {"24h"}
    /\ call.asked \in Seq(ToSet(call.asked))
    /\ \A s \in DOMAIN call.pools : MarketOf(s, call.pools[s])
    /\ CandlesFitCall(call, day)
    /\ Settled(call) /\ call.answer = FlattenSeq(Parts(call))
    /\ F!Thrown \notin ToSet(call.answer)

\* The entries of an answer are figures of the subjects they are placed at.
LEMMA EntriesAreFigures ==
    ASSUME NEW call, IsDone(call), NEW order, order = F!dedupeSubjects(call.asked),
           Len(call.answer) \in Nat, DOMAIN call.answer = 1..Len(call.answer),
           NEW place, Placed(place, call, order, call.answer), NEW i \in 1..Len(call.answer)
    PROVE  place[i] \in 1..Len(order) /\ IsFigure(call, order[place[i]], call.answer[i])
<1> DEFINE s == order[place[i]]
           y == call.answer[i]
<1>1. place[i] \in 1..Len(order) /\ Part(call, s) = <<y>>
  BY DEF Placed
<1>2. y # F!Thrown
  BY DEF IsDone, ToSet
<1> HIDE DEF s, y
<1>3. PICK x : Part(call, s) = <<x>> /\ (IsFigure(call, s, x) \/ IsThrown(call, s, x))
  <2>1. Part(call, s) # <<>>
    BY <1>1
  <2> QED BY <2>1, PartIs
<1>4. x = y
  BY <1>1, <1>3
<1> QED BY <1>1, <1>2, <1>3, <1>4 DEF IsThrown, s, y

\* A figure names its subject and its market.
LEMMA FigureSays ==
    ASSUME NEW call, NEW s, NEW x, IsFigure(call, s, x)
    PROVE  x.subject = s /\ x.pool = call.pools[s]
<1>1. CASE call.window = "24h"
  BY <1>1 DEF IsFigure
<1>2. CASE call.window # "24h"
  BY <1>2 DEF IsFigure
<1> QED BY <1>1, <1>2

\* Of a healthy subject there is something to say.
LEMMA HealthyIsSaid ==
    ASSUME FigureRanges, NEW call, IsDone(call), NEW s \in DOMAIN call.pools, F!Healthy(s)
    PROVE  Part(call, s) # <<>>
<1> DEFINE p == call.pools[s]
           candles == CandlesHad(call, s)
<1>1. p \in Pools /\ F!isDirectAdaPool(s, p) /\ p # 0
  BY PoolRanges DEF F!Healthy, IsDone, MarketOf, HasMarket
<1>2. kinds[p].figures = "whole" /\ kinds[p].first = 1 /\ kinds[p].zero = FALSE
  <2>1. kinds[p] = [direct |-> TRUE, figures |-> "whole", first |-> 1, zero |-> FALSE]
    BY <1>1 DEF F!Healthy
  <2> QED BY <2>1
<1>3. CASE call.window = "24h"
  BY <1>1, <1>2, <1>3 DEF Part, F!activityFromPool, F!NoPool
<1>4. CASE call.window # "24h"
  <2>1. s \in DOMAIN call.candles
    BY <1>1, <1>4 DEF IsDone, Settled, F!Unread, F!NoPool
  <2>2. candles = call.candles[s] /\ CandlesFit(candles, p, Limits[call.window], day)
    BY <2>1 DEF CandlesHad, IsDone, CandlesFitCall
  <2> HIDE DEF candles
  <2>3. PICK from \in Nat, n \in Nat : candles = Window(p, from, n) /\ n > 0
    BY <1>2, <2>2 DEF CandlesFit
  <2>4. candles # <<>> /\ Head(candles).pool = p
    <3>1. Days(candles, p, from, n)
      BY <2>3, WindowIs
    <3> HIDE DEF p
    <3>2. 1 \in 1..n /\ Head(candles) = candles[1] /\ Len(candles) = n
      BY <2>3, <3>1 DEF Days
    <3> QED BY <2>3, <3>1, <3>2 DEF Days
  <2>5. Part(call, s) = F!activityFromCandles(s, p, candles)
    BY <1>4 DEF Part, candles
  <2> HIDE DEF p
  <2> QED BY <1>1, <1>2, <2>4, <2>5 DEF F!activityFromCandles, F!NoPool
<1> QED BY <1>3, <1>4

\* An answer has its subjects once, in the order of asking, and all the
\* healthy ones.
LEMMA DoneKeepsSiblings ==
    ASSUME FigureRanges, NEW call, IsDone(call)
    PROVE  LET subjects == [i \in DOMAIN call.answer |-> call.answer[i].subject]
               firstAt(s) == CHOOSE i \in DOMAIN call.asked :
                                 /\ call.asked[i].subject = s
                                 /\ \A j \in 1..(i - 1) : call.asked[j].subject # s
           IN /\ F!IsInjective(subjects)
              /\ \A i, j \in DOMAIN subjects : i < j => firstAt(subjects[i]) < firstAt(subjects[j])
              /\ \A a \in F!ToSet(call.asked) : F!Healthy(a.subject) => a.subject \in F!ToSet(subjects)
<1> DEFINE order == F!dedupeSubjects(call.asked)
           answer == call.answer
           asked == call.asked
           subjects == [i \in DOMAIN answer |-> answer[i].subject]
           firstAt(s) == CHOOSE i \in DOMAIN asked :
                             /\ asked[i].subject = s
                             /\ \A j \in 1..(i - 1) : asked[j].subject # s
<1>1. /\ Len(order) \in Nat /\ DOMAIN order = 1..Len(order)
      /\ Len(answer) \in Nat /\ DOMAIN answer = 1..Len(answer)
      /\ \E first : FirstAt(first, order, asked, Len(asked))
      /\ \E place : Placed(place, call, order, answer)
  BY AnswersArePlaced DEF IsDone
<1>2. PICK first, place : FirstAt(first, order, asked, Len(asked)) /\ Placed(place, call, order, answer)
  BY <1>1
<1>3. \A i \in 1..Len(answer) : place[i] \in 1..Len(order) /\ IsFigure(call, order[place[i]], answer[i])
  BY <1>1, <1>2, EntriesAreFigures
<1>4. asked \in Seq(ToSet(asked)) /\ \A s \in F!ToSet(order) : s \in DOMAIN call.pools
  BY DEF IsDone, Settled, F!Unresolved
<1> HIDE DEF order, asked, answer
<1>5. \A i \in 1..Len(answer) : subjects[i] = order[place[i]]
  BY <1>1, <1>3, FigureSays
<1>6. \A k \in 1..Len(order) : firstAt(order[k]) = first[k]
  <2>1. \A k \in 1..Len(order) : FirstAsked(asked, order[k]) = first[k]
    BY <1>1, <1>2, <1>4, FirstIsFirst
  <2> QED BY <2>1 DEF FirstAsked
<1>7. DOMAIN subjects = 1..Len(answer)
  BY <1>1
<1> HIDE DEF subjects, firstAt
<1>8. \A i, j \in 1..Len(answer) : i < j => place[i] < place[j]
  BY <1>2 DEF Placed
<1>9. ASSUME NEW i \in 1..Len(answer), NEW j \in 1..Len(answer), i < j
      PROVE  firstAt(subjects[i]) < firstAt(subjects[j]) /\ subjects[i] # subjects[j]
  <2>1. place[i] < place[j] /\ place[i] \in 1..Len(order) /\ place[j] \in 1..Len(order)
    BY <1>3, <1>8, <1>9
  <2>2. first[place[i]] < first[place[j]] /\ order[place[i]] # order[place[j]]
    BY <1>1, <1>2, <2>1, SMTT(30) DEF FirstAt
  <2> QED BY <1>5, <1>6, <2>1, <2>2
<1>10. F!IsInjective(subjects)
  <2>1. \A i, j \in 1..Len(answer) : i < j \/ j < i \/ i = j
    BY <1>1
  <2> QED BY <1>7, <1>9, <2>1 DEF F!IsInjective
<1>11. ASSUME NEW a \in F!ToSet(asked), F!Healthy(a.subject) PROVE a.subject \in F!ToSet(subjects)
  <2>1. PICK m \in 1..Len(asked) : asked[m] = a
    BY <1>4 DEF F!ToSet
  <2>2. PICK k \in 1..Len(order) : order[k] = a.subject
    BY <1>2, <2>1 DEF FirstAt
  <2>3. a.subject \in DOMAIN call.pools
    BY <1>1, <1>4, <2>2 DEF F!ToSet
  <2>4. Part(call, order[k]) # <<>>
    BY <1>11, <2>2, <2>3, HealthyIsSaid
  <2>5. PICK i \in 1..Len(answer) : place[i] = k
    BY <1>2, <2>4 DEF Placed
  <2> QED BY <1>5, <1>7, <2>2, <2>5 DEF F!ToSet
<1>12. /\ F!IsInjective(subjects)
       /\ \A i, j \in DOMAIN subjects : i < j => firstAt(subjects[i]) < firstAt(subjects[j])
       /\ \A a \in F!ToSet(asked) : F!Healthy(a.subject) => a.subject \in F!ToSet(subjects)
  BY <1>7, <1>9, <1>10, <1>11
<1> QED BY <1>12 DEF subjects, firstAt, answer, asked

\* The figures of an answer span their window.
LEMMA DoneSpansItsWindow ==
    ASSUME FigureRanges, NEW call, IsDone(call), call.window # "24h"
    PROVE  \A f \in F!ToSet(call.answer) :
              /\ f.pool = call.pools[f.subject]
              /\ \A k \in f.volume : f.before.day <= k.day /\ k.day <= f.now.day
              /\ F!Cardinality(f.volume) = f.now.day - f.before.day + 1
<1> DEFINE order == F!dedupeSubjects(call.asked)
           answer == call.answer
<1>1. /\ Len(answer) \in Nat /\ DOMAIN answer = 1..Len(answer)
      /\ \E place : Placed(place, call, order, answer)
  BY AnswersArePlaced DEF IsDone
<1>2. PICK place : Placed(place, call, order, answer)
  BY <1>1
<1>3. \A i \in 1..Len(answer) : IsFigure(call, order[place[i]], answer[i])
  BY <1>1, <1>2, EntriesAreFigures
<1> HIDE DEF order
<1>4. SUFFICES ASSUME NEW s, NEW f, IsFigure(call, s, f)
      PROVE  /\ f.pool = call.pools[f.subject]
             /\ \A k \in f.volume : f.before.day <= k.day /\ k.day <= f.now.day
             /\ F!Cardinality(f.volume) = f.now.day - f.before.day + 1
  BY <1>1, <1>3 DEF F!ToSet
<1> DEFINE candles == CandlesHad(call, s)
           p == call.pools[s]
<1>5. candles # <<>> /\ f = [subject |-> s, pool |-> p, before |-> Head(candles), now |-> F!Last(candles),
                             volume |-> F!ToSet(candles)]
  BY <1>4 DEF IsFigure
<1>6. CandlesFit(candles, p, Limits[call.window], day)
  BY <1>5 DEF CandlesHad, IsDone, CandlesFitCall
<1> HIDE DEF candles
<1>7. PICK from \in Nat, n \in Nat : candles = Window(p, from, n)
  BY <1>6 DEF CandlesFit
<1> HIDE DEF p
<1>8. n > 0
  <2>1. Days(candles, p, from, n)
    BY <1>7, WindowIs
  <2>2. n # 0
    BY <1>5, <2>1 DEF Days
  <2> QED BY <2>2
<1>9. /\ \A k \in F!ToSet(candles) : Head(candles).day <= k.day /\ k.day <= F!Last(candles).day
      /\ F!Cardinality(F!ToSet(candles)) = F!Last(candles).day - Head(candles).day + 1
  BY <1>7, <1>8, WindowSpans
<1>10. f.subject = s /\ f.pool = p /\ f.before = Head(candles) /\ f.now = F!Last(candles) /\ f.volume = F!ToSet(candles)
  BY <1>5
<1> QED BY <1>9, <1>10 DEF p

-----------------------------------------------------------------------------
\* What was true of the kinds of the pools stays true.
LEMMA MarketsStay ==
    ASSUME UNCHANGED kinds
    PROVE  \A s, p : MarketOf(s, p) => MarketOf(s, p)'
BY DEF MarketOf, HasMarket, F!isDirectAdaPool

\* Nor do candles stop to fit their pool.
LEMMA CandlesStay ==
    ASSUME UNCHANGED kinds
    PROVE  \A list, p, limit, today : CandlesFit(list, p, limit, today) => CandlesFit(list, p, limit, today)'
BY DEF CandlesFit

\* Nor does what a call has to say change.
LEMMA PartsStay ==
    ASSUME UNCHANGED kinds
    PROVE  \A call : Parts(call)' = Parts(call)
<1>1. \A call, s : Part(call, s)' = Part(call, s)
  BY DEF Part, F!activityFromPool, F!activityFromCandles, CandlesHad
<1> QED BY <1>1 DEF Parts

\* Nor does a call stop to fit.
LEMMA CallsStay ==
    ASSUME UNCHANGED kinds
    PROVE  \A call, today : CallFits(call, today) => CallFits(call, today)'
<1> SUFFICES ASSUME NEW call, NEW today, CallFits(call, today) PROVE CallFits(call, today)'
  OBVIOUS
<1>1. \A s \in DOMAIN call.pools : MarketOf(s, call.pools[s])'
  BY MarketsStay DEF CallFits
<1>2. CandlesFitCall(call, today)'
  BY CandlesStay DEF CallFits, CandlesFitCall
<1>3. Parts(call)' = Parts(call)
  BY PartsStay
<1>4. Overflowed(call) => Overflowed(call)'
  BY DEF Overflowed
<1> QED BY <1>1, <1>2, <1>3, <1>4 DEF CallFits, IsCall, Settled

\* No other part changes it.
LEMMA FiguresElsewhere == ASSUME FiguresInv, UNCHANGED figureVars PROVE FiguresInv'
<1>1. UNCHANGED <<kinds, reserve, day, trades, poolOf, candlesOf, calls>>
  BY DEF figureVars
<1>2. FigureRanges'
  BY <1>1 DEF FiguresInv, FigureRanges
<1>3. \A s \in DOMAIN poolOf : MarketOf(s, poolOf[s])'
  BY <1>1, MarketsStay DEF FiguresInv
<1>4. \A key \in DOMAIN candlesOf : CandlesFit(candlesOf[key], key[2], Limits[key[3]], day)'
  BY <1>1, CandlesStay DEF FiguresInv
<1>5. \A c \in Callers : CallFits(calls[c], day)'
  BY <1>1, CallsStay DEF FiguresInv
<1> QED BY <1>1, <1>2, <1>3, <1>4, <1>5 DEF FiguresInv

\* Nothing but one call, and what is cached, changes.
LEMMA OneCallMoves ==
    ASSUME FiguresInv, UNCHANGED <<kinds, reserve, day>>, NEW c \in Callers, NEW call, CallFits(call, day),
           calls' = [calls EXCEPT ![c] = call],
           \A s \in DOMAIN poolOf' : MarketOf(s, poolOf'[s]),
           \A key \in DOMAIN candlesOf' : CandlesFit(candlesOf'[key], key[2], Limits[key[3]], day)
    PROVE  FiguresInv'
<1>1. FigureRanges'
  BY DEF FiguresInv, FigureRanges
<1>2. \A s \in DOMAIN poolOf' : MarketOf(s, poolOf[s])'
  BY MarketsStay
<1>3. \A key \in DOMAIN candlesOf' : CandlesFit(candlesOf[key], key[2], Limits[key[3]], day)'
  BY CandlesStay
<1>4. DOMAIN calls' = Callers /\ calls' = [b \in Callers |-> calls'[b]]
      /\ \A b \in Callers : calls'[b] = IF b = c THEN call ELSE calls[b]
  BY DEF FiguresInv
<1>5. \A b \in Callers : CallFits(calls[b], day)'
  <2>1. \A b \in Callers : CallFits(calls'[b], day)
    BY <1>4 DEF FiguresInv
  <2> QED BY <2>1, CallsStay
<1> QED BY <1>1, <1>2, <1>3, <1>4, <1>5 DEF FiguresInv

-----------------------------------------------------------------------------
\* What a call has to say depends on what it asked for and got.
LEMMA SameParts ==
    ASSUME NEW a, NEW b, a.window = b.window, a.asked = b.asked, a.pools = b.pools, a.candles = b.candles
    PROVE  /\ Parts(a) = Parts(b) /\ (Settled(a) <=> Settled(b)) /\ (Overflowed(a) <=> Overflowed(b))
           /\ \A t : CandlesFitCall(a, t) <=> CandlesFitCall(b, t)
<1>1. \A s : Part(a, s) = Part(b, s)
  BY DEF Part, CandlesHad
<1>2. Parts(a) = Parts(b)
  BY <1>1 DEF Parts
<1>3. Settled(a) <=> Settled(b)
  BY DEF Settled, F!Unresolved, F!Unread
<1> QED BY <1>2, <1>3 DEF Overflowed, CandlesFitCall

\* No candle is what a figure that overflows throws.
LEMMA CandlesDoNotThrow ==
    ASSUME NEW call, NEW s, NEW today, CandlesFitCall(call, today)
    PROVE  F!Thrown \notin ToSet(CandlesHad(call, s))
<1>1. CASE s \notin DOMAIN call.candles
  BY <1>1 DEF CandlesHad, ToSet
<1>2. CASE s \in DOMAIN call.candles
  <2> DEFINE list == call.candles[s]
             p == call.pools[s]
  <2>1. PICK from \in Nat, n \in Nat : list = Window(p, from, n)
    BY <1>2 DEF CandlesFitCall, CandlesFit
  <2>2. CandlesHad(call, s) = list
    BY <1>2 DEF CandlesHad
  <2> HIDE DEF list, p
  <2>3. ASSUME NEW x \in ToSet(list) PROVE x # F!Thrown
    <3>1. PICK i \in 1..n : x = [pool |-> p, day |-> from + i - 1]
      BY <2>1 DEF Window, ToSet
    <3>2. DOMAIN x = {"pool", "day"} /\ DOMAIN F!Thrown = {"subject"}
      BY <3>1 DEF F!Thrown
    <3> QED BY <3>2
  <2> QED BY <2>2, <2>3
<1> QED BY <1>1, <1>2

\* The states a call ends in.
LEMMA CallEnds ==
    ASSUME NEW call, IsCall(call), NEW st, NEW answer
    PROVE  /\ [call EXCEPT !.st = st] =
                [st |-> st, window |-> call.window, asked |-> call.asked, pools |-> call.pools,
                 candles |-> call.candles, answer |-> call.answer, refused |-> call.refused]
           /\ [call EXCEPT !.st = st, !.answer = answer] =
                [st |-> st, window |-> call.window, asked |-> call.asked, pools |-> call.pools,
                 candles |-> call.candles, answer |-> answer, refused |-> call.refused]
           /\ [call EXCEPT !.st = st, !.refused = TRUE] =
                [st |-> st, window |-> call.window, asked |-> call.asked, pools |-> call.pools,
                 candles |-> call.candles, answer |-> call.answer, refused |-> TRUE]
<1> DEFINE next == [call EXCEPT !.st = st]
           done == [next EXCEPT !.answer = answer]
           yes == TRUE
           failed == [next EXCEPT !.refused = yes]
<1>1. next = [st |-> st, window |-> call.window, asked |-> call.asked, pools |-> call.pools,
              candles |-> call.candles, answer |-> call.answer, refused |-> call.refused]
  BY DEF IsCall
<1> HIDE DEF next
<1>2. done = [st |-> st, window |-> call.window, asked |-> call.asked, pools |-> call.pools,
              candles |-> call.candles, answer |-> answer, refused |-> call.refused]
  BY <1>1
<1>3. failed = [st |-> st, window |-> call.window, asked |-> call.asked, pools |-> call.pools,
                candles |-> call.candles, answer |-> call.answer, refused |-> yes]
  <2> HIDE DEF yes
  <2> QED BY <1>1
<1> HIDE DEF done, failed
<1>4. [call EXCEPT !.st = st, !.answer = answer] = done /\ [call EXCEPT !.st = st, !.refused = TRUE] = failed
  BY Zenon DEF next, done, failed, yes
<1> QED BY <1>1, <1>2, <1>3, <1>4 DEF next, yes

\* A call that goes on still fits.
LEMMA WentFits ==
    ASSUME NEW call, CallFits(call, day), call.st \in {"resolving", "reading"},
           NEW went, went = F!Went(call)
    PROVE  CallFits(went, day)
<1> DEFINE Becomes(st, answer) ==
               [st |-> st, window |-> call.window, asked |-> call.asked, pools |-> call.pools,
                candles |-> call.candles, answer |-> answer, refused |-> call.refused]
           Same == /\ IsCall(went) /\ went.window = call.window /\ went.asked = call.asked
                   /\ went.pools = call.pools /\ went.candles = call.candles /\ went.refused = call.refused
<1>1. ASSUME NEW st, NEW answer, went = Becomes(st, answer)
      PROVE  Same /\ went.st = st /\ went.answer = answer
  BY <1>1 DEF IsCall
<1>2. ASSUME Same PROVE /\ Parts(went) = Parts(call) /\ (Settled(went) <=> Settled(call))
                        /\ (Overflowed(went) <=> Overflowed(call)) /\ CandlesFitCall(went, day)
  BY <1>2, SameParts DEF CallFits
<1>3. IsCall(call) /\ CandlesFitCall(call, day) /\ call.asked \in Seq(ToSet(call.asked))
  BY DEF CallFits
<1>4. CASE went = call
  BY <1>4
<1>5. CASE call.window # "24h" /\ went = [call EXCEPT !.st = "reading"]
  <2>1. went = Becomes("reading", call.answer)
    BY <1>3, <1>5, CallEnds
  <2>2. Same /\ went.st = "reading"
    BY <1>1, <2>1
  <2> HIDE DEF Becomes
  <2> QED BY <1>2, <1>5, <2>2 DEF CallFits
<1>6. ASSUME NEW answer, Settled(call),
             call.window \notin ChartRanges => answer = FlattenSeq(Parts(call)),
             call.window \in ChartRanges => answer = CandlesHad(call, F!dedupeSubjects(call.asked)[1]),
             F!Thrown \in ToSet(answer), went = [call EXCEPT !.st = "failed"]
      PROVE  CallFits(went, day)
  <2>1. went = Becomes("failed", call.answer)
    BY <1>3, <1>6, CallEnds
  <2>2. Same /\ went.st = "failed"
    BY <1>1, <2>1
  <2>3. call.window \notin ChartRanges
    BY <1>3, <1>6, CandlesDoNotThrow
  <2>4. call.window # "24h" /\ Overflowed(call)
    BY <1>3, <1>6, <2>3, ThrownOverflows
  <2> HIDE DEF Becomes
  <2> QED BY <1>2, <2>2, <2>4 DEF CallFits
<1>7. ASSUME NEW answer, Settled(call),
             call.window \notin ChartRanges => answer = FlattenSeq(Parts(call)),
             F!Thrown \notin ToSet(answer), went = [call EXCEPT !.st = "done", !.answer = answer]
      PROVE  CallFits(went, day)
  <2>1. went = Becomes("done", answer)
    BY <1>3, <1>7, CallEnds
  <2>2. Same /\ went.st = "done" /\ went.answer = answer
    BY <1>1, <2>1
  <2> HIDE DEF Becomes
  <2> QED BY <1>2, <1>7, <2>2 DEF CallFits
<1> HIDE DEF Becomes, Same
<1> QED BY <1>4, <1>5, <1>6, <1>7, WentIs

-----------------------------------------------------------------------------
\* A call as it begins.
LEMMA CallBegins ==
    ASSUME NEW w, NEW a
    PROVE  [F!NoCall EXCEPT !.st = "resolving", !.window = w, !.asked = a] =
              [st |-> "resolving", window |-> w, asked |-> a, pools |-> <<>>, candles |-> <<>>,
               answer |-> <<>>, refused |-> FALSE]
<1> DEFINE idle == "idle"
           resolving == "resolving"
           shortest == "24h"
           none == <<>>
           no == FALSE
           call == F!NoCall
           call1 == [call EXCEPT !.st = resolving]
           call2 == [call1 EXCEPT !.window = w]
           call3 == [call2 EXCEPT !.asked = a]
<1>1. call = [st |-> idle, window |-> shortest, asked |-> none, pools |-> none, candles |-> none,
              answer |-> none, refused |-> no]
  BY DEF F!NoCall
<1> HIDE DEF idle, resolving, shortest, none, no, call
<1>2. call1 = [st |-> resolving, window |-> shortest, asked |-> none, pools |-> none, candles |-> none,
               answer |-> none, refused |-> no]
  BY <1>1
<1> HIDE DEF call1
<1>3. call2 = [st |-> resolving, window |-> w, asked |-> none, pools |-> none, candles |-> none,
               answer |-> none, refused |-> no]
  BY <1>2
<1> HIDE DEF call2
<1>4. call3 = [st |-> resolving, window |-> w, asked |-> a, pools |-> none, candles |-> none,
               answer |-> none, refused |-> no]
  BY <1>3
<1> HIDE DEF call3
<1>5. [call EXCEPT !.st = resolving, !.window = w, !.asked = a] = call3
  BY Zenon DEF call1, call2, call3
<1> QED BY <1>4, <1>5 DEF resolving, none, no, call

\* What a call has when it begins, and when it is over.
LEMMA BlankFits ==
    ASSUME NEW st \in {"idle", "resolving"}, NEW w \in DOMAIN Limits \cup {"24h"}, NEW a, a \in Seq(ToSet(a)),
           NEW call, call = [st |-> st, window |-> w, asked |-> a, pools |-> <<>>, candles |-> <<>>,
                             answer |-> <<>>, refused |-> FALSE]
    PROVE  CallFits(call, day)
<1>1. /\ call.st = st /\ call.window = w /\ call.asked = a
      /\ DOMAIN call.pools = {} /\ DOMAIN call.candles = {}
  OBVIOUS
<1>2. IsCall(call)
  <2> DEFINE none == <<>>
             no == FALSE
  <2>1. call = [st |-> st, window |-> w, asked |-> a, pools |-> none, candles |-> none,
                answer |-> none, refused |-> no]
    OBVIOUS
  <2> HIDE DEF none, no
  <2> QED BY <2>1 DEF IsCall
<1> QED BY <1>1, <1>2 DEF CallFits, CandlesFitCall

\* No call fits.
LEMMA IdleFits == CallFits(F!NoCall, day)
<1> DEFINE none == <<>>
<1>1. none \in Seq(ToSet(none))
  OBVIOUS
<1>2. F!NoCall = [st |-> "idle", window |-> "24h", asked |-> none, pools |-> <<>>, candles |-> <<>>,
                  answer |-> <<>>, refused |-> FALSE]
  BY DEF F!NoCall
<1> HIDE DEF none
<1> QED BY <1>1, <1>2, BlankFits

\* It holds at first.
LEMMA FiguresStart == 
    ASSUME F!Start, kinds \in [Pools -> F!Kinds], reserve \in [Pools -> Nat]
    PROVE  FiguresInv
<1>1. day = 1 /\ poolOf = <<>> /\ candlesOf = <<>> /\ calls = [c \in Callers |-> F!NoCall]
  BY DEF F!Start
<1>2. \A c \in Callers : CallFits(calls[c], day)
  BY <1>1, IdleFits
<1> QED BY <1>1, <1>2 DEF FiguresInv, FigureRanges

\* A call starts.
LEMMA StartsKeeps == ASSUME FiguresInv, NEW c \in Callers, F!Starts(c) PROVE FiguresInv'
<1>1. PICK w \in DOMAIN Limits \cup {"24h"}, a \in Asked \cup Charted :
        calls' = [calls EXCEPT ![c] = [F!NoCall EXCEPT !.st = "resolving", !.window = w, !.asked = a]]
  BY DEF F!Starts
<1>2. a \in Seq(ToSet(a))
  BY PricesAssumption DEF F!FigureConstants, F!ToSet, ToSet
<1> DEFINE call == [F!NoCall EXCEPT !.st = "resolving", !.window = w, !.asked = a]
<1>3. CallFits(call, day)
  BY <1>2, CallBegins, BlankFits
<1>4. calls' = [calls EXCEPT ![c] = call]
  BY <1>1
<1> HIDE DEF call
<1>5. UNCHANGED <<kinds, reserve, day, trades, poolOf, candlesOf>>
  BY DEF F!Starts
<1> QED BY <1>3, <1>4, <1>5, OneCallMoves DEF FiguresInv

\* A call returns.
LEMMA ReturnsKeep == ASSUME FiguresInv, NEW c \in Callers, F!Returns(c) PROVE FiguresInv'
BY IdleFits, OneCallMoves DEF FiguresInv, F!Returns

\* A request of a call fails.
LEMMA FailsKeep == ASSUME FiguresInv, NEW c \in Callers, F!Fails(c) PROVE FiguresInv'
<1> DEFINE call == calls[c]
           next == [call EXCEPT !.st = "failed", !.refused = TRUE]
<1>1. UNCHANGED <<kinds, reserve, day, trades, poolOf, candlesOf>>
  BY DEF F!Fails
<1>2. calls' = [calls EXCEPT ![c] = next]
  <2>1. calls' = [[calls EXCEPT ![c].st = "failed"] EXCEPT ![c].refused = TRUE]
    BY DEF F!Fails
  <2>2. calls = [b \in Callers |-> calls[b]]
    BY DEF FiguresInv
  <2> QED BY <2>1, <2>2
<1>3. CallFits(call, day)
  BY DEF FiguresInv
<1> HIDE DEF call
<1>4. next = [st |-> "failed", window |-> call.window, asked |-> call.asked, pools |-> call.pools,
              candles |-> call.candles, answer |-> call.answer, refused |-> TRUE]
  BY <1>3, CallEnds DEF CallFits
<1> HIDE DEF next
<1>5. /\ IsCall(next) /\ next.st = "failed" /\ next.window = call.window /\ next.asked = call.asked
      /\ next.pools = call.pools /\ next.candles = call.candles /\ next.refused = TRUE
  BY <1>4 DEF IsCall
<1>6. CandlesFitCall(next, day)
  BY <1>3, <1>5, SameParts DEF CallFits
<1>7. CallFits(next, day)
  BY <1>3, <1>5, <1>6 DEF CallFits
<1> QED BY <1>1, <1>2, <1>7, OneCallMoves DEF FiguresInv

\* resolveAdaPool: the market of a subject is read from the cache, or picked.
LEMMA ResolvesKeeps ==
    ASSUME FiguresInv, NEW c \in Callers, NEW s, F!Resolves(c, s) PROVE FiguresInv'
<1> DEFINE call == calls[c]
           pool == IF s \in DOMAIN poolOf THEN poolOf[s] ELSE F!pickMostLiquidAdaPool(s, F!Listed(s))
           pools == F!With(call.pools, s, pool)
           next == [call EXCEPT !.pools = pools]
           went == F!Went(next)
<1>1. /\ UNCHANGED <<kinds, reserve, day, trades, candlesOf>>
      /\ poolOf' = F!With(poolOf, s, pool)
      /\ calls' = [calls EXCEPT ![c] = went]
      /\ call.st = "resolving" /\ s \notin DOMAIN call.pools
  BY DEF F!Resolves, F!Unresolved
<1>2. MarketOf(s, pool)
  BY PickIsTheMarket DEF FiguresInv
<1>3. CallFits(call, day)
  BY DEF FiguresInv
<1> HIDE DEF call, pool
<1>4. \A r \in DOMAIN pools : (r = s /\ pools[r] = pool) \/ (r \in DOMAIN call.pools /\ pools[r] = call.pools[r])
  BY DEF F!With
<1>5. \A r \in DOMAIN call.pools : r \in DOMAIN pools /\ pools[r] = call.pools[r]
  BY <1>1 DEF F!With
<1> HIDE DEF pools
<1>6. next = [st |-> call.st, window |-> call.window, asked |-> call.asked, pools |-> pools,
              candles |-> call.candles, answer |-> call.answer, refused |-> call.refused]
  BY <1>3 DEF CallFits, IsCall
<1> HIDE DEF next
<1>7. /\ IsCall(next) /\ next.st = "resolving" /\ next.window = call.window /\ next.asked = call.asked
      /\ next.pools = pools /\ next.candles = call.candles
  BY <1>1, <1>6 DEF IsCall
<1>8. CandlesFitCall(next, day)
  BY <1>3, <1>5, <1>7 DEF CallFits, CandlesFitCall
<1>9. \A r \in DOMAIN pools : MarketOf(r, pools[r])
  BY <1>2, <1>3, <1>4 DEF CallFits
<1>10. CallFits(next, day)
  BY <1>3, <1>7, <1>8, <1>9 DEF CallFits
<1>11. CallFits(went, day)
  BY <1>7, <1>10, WentFits
<1> HIDE DEF went
<1>12. \A r \in DOMAIN poolOf' : MarketOf(r, poolOf'[r])
  BY <1>1, <1>2 DEF FiguresInv, F!With
<1> QED BY <1>1, <1>11, <1>12, OneCallMoves DEF FiguresInv

\* The candles of a market are read from the cache, or fetched.
LEMMA ReadsKeepFigures ==
    ASSUME FiguresInv, NEW c \in Callers, NEW s, F!Reads(c, s) PROVE FiguresInv'
<1> DEFINE call == calls[c]
           p == call.pools[s]
           key == F!ohlcvCacheKey(s, p, call.window)
           list == IF key \in DOMAIN candlesOf THEN candlesOf[key] ELSE F!fetchOhlcv(p, Limits[call.window])
           candles == F!With(call.candles, s, list)
           next == [call EXCEPT !.candles = candles]
           went == F!Went(next)
<1>1. /\ UNCHANGED <<kinds, reserve, day, trades, poolOf>>
      /\ candlesOf' = F!With(candlesOf, key, list)
      /\ calls' = [calls EXCEPT ![c] = went]
      /\ call.st = "reading" /\ s \in DOMAIN call.pools /\ p # 0
  BY DEF F!Reads, F!Unread, F!NoPool
<1>2. CallFits(call, day)
  BY DEF FiguresInv
<1>3. p \in Pools
  BY <1>1, <1>2 DEF CallFits, MarketOf
<1>4. call.window \in DOMAIN Limits
  BY <1>1, <1>2 DEF CallFits
<1>5. key[2] = p /\ key[3] = call.window
  BY DEF F!ohlcvCacheKey
<1> HIDE DEF call, p, key
<1>6. CandlesFit(list, p, Limits[call.window], day)
  BY <1>3, <1>4, <1>5, FetchedFits, PoolRanges DEF FiguresInv, FigureRanges
<1> HIDE DEF list
<1>7. \A r \in DOMAIN candles :
         (r = s /\ candles[r] = list) \/ (r \in DOMAIN call.candles /\ candles[r] = call.candles[r])
  BY DEF F!With
<1> HIDE DEF candles
<1>8. next = [st |-> call.st, window |-> call.window, asked |-> call.asked, pools |-> call.pools,
              candles |-> candles, answer |-> call.answer, refused |-> call.refused]
  BY <1>2 DEF CallFits, IsCall
<1> HIDE DEF next
<1>9. /\ IsCall(next) /\ next.st = "reading" /\ next.window = call.window /\ next.asked = call.asked
      /\ next.pools = call.pools /\ next.candles = candles
  BY <1>1, <1>8 DEF IsCall
<1>10. CandlesFitCall(next, day)
  BY <1>1, <1>2, <1>3, <1>4, <1>6, <1>7, <1>9 DEF CallFits, CandlesFitCall, p
<1>11. CallFits(next, day)
  BY <1>1, <1>2, <1>9, <1>10 DEF CallFits
<1>12. CallFits(went, day)
  BY <1>9, <1>11, WentFits
<1> HIDE DEF went
<1>13. \A k \in DOMAIN candlesOf' : CandlesFit(candlesOf'[k], k[2], Limits[k[3]], day)
  BY <1>1, <1>5, <1>6 DEF FiguresInv, F!With
<1> QED BY <1>1, <1>12, <1>13, OneCallMoves DEF FiguresInv

\* An entry of either cache expires.
LEMMA ExpiriesKeepFigures ==
    ASSUME FiguresInv, (\E s : F!ExpiresPool(s)) \/ (\E key : F!ExpiresCandles(key)) PROVE FiguresInv'
<1>1. UNCHANGED <<kinds, reserve, day, calls>>
  BY DEF F!ExpiresPool, F!ExpiresCandles
<1>2. \A s \in DOMAIN poolOf' : MarketOf(s, poolOf'[s])
  BY DEF FiguresInv, F!ExpiresPool, F!ExpiresCandles, F!Without
<1>3. \A key \in DOMAIN candlesOf' : CandlesFit(candlesOf'[key], key[2], Limits[key[3]], day)
  BY DEF FiguresInv, F!ExpiresPool, F!ExpiresCandles, F!Without
<1>4. \A s \in DOMAIN poolOf' : MarketOf(s, poolOf[s])'
  BY <1>1, <1>2, MarketsStay
<1>5. \A key \in DOMAIN candlesOf' : CandlesFit(candlesOf[key], key[2], Limits[key[3]], day)'
  BY <1>1, <1>3, CandlesStay
<1>6. \A c \in Callers : CallFits(calls[c], day)'
  BY <1>1, CallsStay DEF FiguresInv
<1> QED BY <1>1, <1>4, <1>5, <1>6 DEF FiguresInv, FigureRanges

\* A reserve changes.
LEMMA TradesKeep == ASSUME FiguresInv, NEW p \in Pools, F!Trades(p) PROVE FiguresInv'
<1>1. UNCHANGED <<kinds, day, poolOf, candlesOf, calls>>
  BY DEF F!Trades
<1>2. FigureRanges'
  <2>1. PICK r \in {0, MaxReserve} : reserve' = [reserve EXCEPT ![p] = r]
    BY DEF F!Trades
  <2>2. r \in Nat
    BY PricesAssumption DEF F!FigureConstants
  <2> QED BY <1>1, <2>1, <2>2 DEF FiguresInv, FigureRanges
<1>3. \A s \in DOMAIN poolOf : MarketOf(s, poolOf[s])'
  BY <1>1, MarketsStay DEF FiguresInv
<1>4. \A key \in DOMAIN candlesOf : CandlesFit(candlesOf[key], key[2], Limits[key[3]], day)'
  BY <1>1, CandlesStay DEF FiguresInv
<1>5. \A c \in Callers : CallFits(calls[c], day)'
  BY <1>1, CallsStay DEF FiguresInv
<1> QED BY <1>1, <1>2, <1>3, <1>4, <1>5 DEF FiguresInv

\* A day passes.
LEMMA DaysKeep == ASSUME FiguresInv, F!DayPasses PROVE FiguresInv'
<1>1. UNCHANGED <<kinds, reserve, poolOf, candlesOf, calls>> /\ day' = day + 1
  BY DEF F!DayPasses
<1>2. day \in Nat /\ day' \in Nat /\ day <= day' /\ FigureRanges'
  BY <1>1 DEF FiguresInv, FigureRanges
<1>3. \A list, p, limit : CandlesFit(list, p, limit, day) => CandlesFit(list, p, limit, day')
  BY <1>2, LaterCandlesFit
<1>4. \A call : CallFits(call, day) => CallFits(call, day')
  BY <1>3 DEF CallFits, CandlesFitCall
<1>5. \A s \in DOMAIN poolOf : MarketOf(s, poolOf[s])'
  BY <1>1, MarketsStay DEF FiguresInv
<1>6. \A key \in DOMAIN candlesOf : CandlesFit(candlesOf[key], key[2], Limits[key[3]], day)'
  BY <1>1, <1>3, CandlesStay DEF FiguresInv
<1>7. \A c \in Callers : CallFits(calls[c], day)'
  BY <1>1, <1>4, CallsStay DEF FiguresInv
<1> QED BY <1>1, <1>2, <1>5, <1>6, <1>7 DEF FiguresInv

\* Every step keeps it.
LEMMA FiguresStep == FiguresInv /\ [Next]_vars => FiguresInv'
<1> SUFFICES ASSUME FiguresInv, [Next]_vars PROVE FiguresInv'
  OBVIOUS
<1>1. CASE UNCHANGED figureVars
  BY <1>1, FiguresElsewhere
<1>2. CASE TokenFigures
  <2>1. CASE \E c \in Callers : F!Starts(c) \/ F!Fails(c) \/ F!Returns(c)
    BY <2>1, StartsKeeps, FailsKeep, ReturnsKeep
  <2>2. CASE \E c \in Callers, s \in F!Tokens : F!Resolves(c, s) \/ F!Reads(c, s)
    BY <2>2, ResolvesKeeps, ReadsKeepFigures
  <2>3. CASE (\E s : F!ExpiresPool(s)) \/ (\E key : F!ExpiresCandles(key))
    BY <2>3, ExpiriesKeepFigures
  <2>4. CASE \E p \in Pools : F!Trades(p)
    BY <2>4, TradesKeep
  <2>5. CASE F!DayPasses
    BY <2>5, DaysKeep
  <2> QED BY <1>2, <2>1, <2>2, <2>3, <2>4, <2>5 DEF TokenFigures, F!Next
<1> QED BY <1>1, <1>2 DEF Next, vars, TokenPools, AdaQuotes

\* What the property says of figures follows.
LEMMA FiguresFollow == FiguresInv => F!FiguresAreTrue
<1> SUFFICES ASSUME FiguresInv PROVE F!FiguresAreTrue
  OBVIOUS
<1>1. FigureRanges /\ \A c \in Callers : CallFits(calls[c], day)
  BY DEF FiguresInv
<1>2. F!MarketIsDeepest
  BY <1>1, TheMarketIsDeepest
<1>3. F!CandlesAreOfOneMarket
  <2> SUFFICES ASSUME NEW c \in Callers, NEW s \in DOMAIN calls[c].candles
      PROVE F!IsWindow(calls[c].candles[s], calls[c].pools[s], Limits[calls[c].window])
    BY DEF F!CandlesAreOfOneMarket
  <2>1. calls[c].window \in DOMAIN Limits
        /\ CandlesFit(calls[c].candles[s], calls[c].pools[s], Limits[calls[c].window], day)
    BY <1>1 DEF CallFits, CandlesFitCall
  <2> QED BY <1>1, <2>1, PoolRanges, CandlesAreAWindow DEF FigureRanges
<1>4. ASSUME NEW c \in Callers, F!Done(c), calls[c].window \notin ChartRanges PROVE IsDone(calls[c])
  BY <1>1, <1>4 DEF F!Done, CallFits, IsDone
<1>5. F!FiguresSpanTheirWindow
  BY <1>1, <1>4, DoneSpansItsWindow DEF F!FiguresSpanTheirWindow
<1>6. F!SiblingsAreKept
  <2>1. \A c \in Callers : (calls[c].st = "failed" /\ ~calls[c].refused) =>
           calls[c].window # "24h" /\ Overflowed(calls[c])
    BY <1>1 DEF CallFits
  <2> QED BY <1>1, <1>4, <2>1, DoneKeepsSiblings DEF F!SiblingsAreKept, Overflowed, F!NoPool
<1> QED BY <1>2, <1>3, <1>5, <1>6 DEF F!FiguresAreTrue

-----------------------------------------------------------------------------
PricesInv == QuotesInv /\ (part = "figures" => FiguresInv)

\* Both hold at first.
LEMMA PricesStart == Init => PricesInv
<1> SUFFICES ASSUME Init PROVE PricesInv
  OBVIOUS
<1>1. QuotesInv
  BY QuotesStart DEF Init, NoQuotes, Q!Init
<1>2. ASSUME part = "figures" PROVE FiguresInv
  <2>1. F!Init
    BY <1>2 DEF Init
  <2>2. F!Start /\ kinds \in [Pools -> F!Kinds]
    BY <2>1, PricesAssumption DEF F!Init, F!FigureConstants
  <2>3. reserve \in [Pools -> Nat]
    BY <2>1 DEF F!Init
  <2> QED BY <2>2, <2>3, FiguresStart
<1> QED BY <1>1, <1>2 DEF PricesInv

\* The market of a token is the deepest there is, its figures are of that market
\* and of the whole window alone, no token of a batch takes another's figures
\* with it, and a quote of ada is of what was asked for and says how old it is
\* (pickMostLiquidAdaPool, fetchOhlcv, activityFromCandles and dedupeSubjects of
\* src/prices/geckoterminal.ts; getAdaPrice and getAdaHistory of coingecko.ts).
THEOREM PricesStayTrue == Spec => []PricesAreTrue
<1>1. PricesInv /\ [Next]_vars => PricesInv'
  <2> SUFFICES ASSUME PricesInv, [Next]_vars PROVE PricesInv'
    OBVIOUS
  <2>1. part' = part
    BY DEF Next, vars
  <2> QED BY <2>1, QuotesStep, FiguresStep DEF PricesInv
<1>2. PricesInv => PricesAreTrue
  BY QuotesFollow, FiguresFollow DEF PricesInv, PricesAreTrue
<1> QED BY <1>1, <1>2, PricesStart, PTL DEF Spec
=============================================================================
