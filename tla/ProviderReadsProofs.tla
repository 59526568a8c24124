------------------------- MODULE ProviderReadsProofs -------------------------
(***************************************************************************)
(* The reads of a provider, for any number of transactions, rows and        *)
(* pages, and whatever happens upstream between two responses.              *)
(***************************************************************************)
EXTENDS ProviderReads, FiniteSetTheorems, SequenceTheorems, SequenceLemmas, TLAPS

-----------------------------------------------------------------------------
(* Questions about named transactions.                                      *)

Call ==
    [what : {"none", "refs", "status"}, asked : SUBSET Txs,
     st : {"idle", "outputs", "states", "heights", "tx", "mempool", "block", "done", "failed"},
     answer : {"none", "confirmed", "pending", "unknown"}]

Ref == [st : {"fetch", "walk", "known", "absent"}, spent : BOOLEAN, page : Nat \ {0}, height : BOOLEAN]

TxsTyped ==
    /\ mempool \subseteq Txs /\ consumed \subseteq Txs /\ listed \in Seq(Txs)
    /\ call \in Call
    /\ ref \in [Txs -> Ref]
    /\ was \in [Txs -> SUBSET T!Places]

\* A transaction is in one place.
Apart ==
    /\ mempool \cap consumed = {} /\ mempool \cap ToSet(listed) = {}
    /\ consumed \cap ToSet(listed) = {}
    /\ \A i, j \in DOMAIN listed : listed[i] = listed[j] => i = j

\* What the status call has come to.
StatusFits(c, places) ==
    /\ c.st = "mempool" => places \cap {"nowhere", "mempool"} # {}
    /\ c.answer = "confirmed" => places \cap {"unspent", "spent"} # {}
    /\ c.answer = "pending" => "mempool" \in places
    /\ c.answer = "unknown" => places \cap {"nowhere", "mempool"} # {}

\* While the call runs, was[x] holds the place of x, and what is known of x by
\* now was so during the call.
TxsInv ==
    /\ TxsTyped
    /\ Apart
    /\ call.st = "idle" => call.answer = "none" /\ \A x \in Txs : ref[x].st = "fetch"
    /\ T!Running => call.answer = "none"
    /\ \A x \in call.asked :
          /\ T!Running => T!Where(x) \in was[x]
          /\ ref[x].st = "known" /\ ~ref[x].spent => "unspent" \in was[x]
          /\ StatusFits(call, was[x])

\* Where a transaction is, now and after a step.
LEMMA WhereIs ==
    ASSUME Apart, NEW x
    PROVE  /\ T!Where(x) \in T!Places
           /\ T!Where(x) = "mempool" <=> x \in mempool
           /\ T!Where(x) = "unspent" <=> x \in ToSet(listed)
           /\ T!Where(x) = "spent" <=> x \in consumed
<1> DEFINE Fits(p) ==
        /\ p = "mempool" <=> x \in mempool
        /\ p = "unspent" <=> x \in ToSet(listed)
        /\ p = "spent" <=> x \in consumed
<1>1. \E p \in T!Places : Fits(p)
  <2>1. CASE x \in mempool
    BY <2>1 DEF Apart, T!Places
  <2>2. CASE x \in ToSet(listed)
    BY <2>2 DEF Apart, T!Places
  <2>3. CASE x \in consumed
    BY <2>3 DEF Apart, T!Places
  <2>4. CASE x \notin mempool \cup ToSet(listed) \cup consumed
    BY <2>4 DEF T!Places
  <2> QED BY <2>1, <2>2, <2>3, <2>4
<1>2. T!Where(x) = CHOOSE p \in T!Places : Fits(p)
  BY DEF T!Where, T!ToSet, ToSet
<1> QED BY <1>1, <1>2

LEMMA WhereIsNext ==
    ASSUME Apart', NEW x
    PROVE  /\ T!Where(x)' \in T!Places
           /\ T!Where(x)' = "mempool" <=> x \in mempool'
           /\ T!Where(x)' = "unspent" <=> x \in ToSet(listed)'
           /\ T!Where(x)' = "spent" <=> x \in consumed'
<1> DEFINE Fits(p) ==
        /\ p = "mempool" <=> x \in mempool'
        /\ p = "unspent" <=> x \in ToSet(listed)'
        /\ p = "spent" <=> x \in consumed'
<1>1. \E p \in T!Places : Fits(p)
  <2>1. CASE x \in mempool'
    BY <2>1 DEF Apart, T!Places
  <2>2. CASE x \in ToSet(listed)'
    BY <2>2 DEF Apart, T!Places
  <2>3. CASE x \in consumed'
    BY <2>3 DEF Apart, T!Places
  <2>4. CASE x \notin mempool' \cup ToSet(listed)' \cup consumed'
    BY <2>4 DEF T!Places
  <2> QED BY <2>1, <2>2, <2>3, <2>4
<1>2. T!Where(x)' = CHOOSE p \in T!Places : Fits(p)
  BY DEF T!Where, T!ToSet, ToSet
<1> QED BY <1>1, <1>2

\* Records and their fields.
LEMMA TxsRanges ==
    ASSUME TxsTyped
    PROVE  /\ call.asked \subseteq Txs
           /\ \A x \in Txs : ref[x] \in Ref /\ was[x] \subseteq T!Places
           /\ \A x \in Txs : /\ ref[x].st \in {"fetch", "walk", "known", "absent"}
                             /\ ref[x].spent \in BOOLEAN /\ ref[x].page \in Nat \ {0}
                             /\ ref[x].height \in BOOLEAN
BY DEF TxsTyped, Call, Ref

\* Something happens upstream: where each transaction is now is remembered.
LEMMA MovesKeep ==
    ASSUME TxsInv, T!Moves, Apart',
           mempool' \subseteq Txs, consumed' \subseteq Txs, listed' \in Seq(Txs)
    PROVE  TxsInv'
<1>1. /\ T!Running /\ UNCHANGED <<call, ref>>
      /\ was' = [x \in Txs |-> IF x \in call.asked THEN was[x] \cup {T!Where(x)'} ELSE {}]
  BY DEF T!Moves
<1>2. TxsTyped /\ call.asked \subseteq Txs
  BY TxsRanges DEF TxsInv
<1>3. T!Running' /\ call.st # "idle"
  BY <1>1 DEF T!Running
<1>4. \A x \in Txs : T!Where(x)' \in T!Places
  BY WhereIsNext
<1>5. was' \in [Txs -> SUBSET T!Places]
  BY <1>1, <1>2, <1>4 DEF TxsTyped
<1>6. TxsTyped'
  BY <1>1, <1>2, <1>5 DEF TxsTyped
<1>7. call.answer = "none"
  BY <1>1 DEF TxsInv
<1>8. ASSUME NEW x \in call.asked
      PROVE  /\ T!Where(x)' \in was'[x]
             /\ ref[x].st = "known" /\ ~ref[x].spent => "unspent" \in was'[x]
             /\ StatusFits(call, was'[x])
  <2>1. x \in Txs /\ was'[x] = was[x] \cup {T!Where(x)'}
    BY <1>1, <1>2
  <2>2. /\ ref[x].st = "known" /\ ~ref[x].spent => "unspent" \in was[x]
        /\ StatusFits(call, was[x])
    BY DEF TxsInv
  <2>3. StatusFits(call, was'[x])
    <3> DEFINE old == was[x] new == was'[x]
    <3>1. old \subseteq new /\ StatusFits(call, old)
      BY <2>1, <2>2
    <3> HIDE DEF old, new
    <3>2. StatusFits(call, new)
      BY <3>1 DEF StatusFits
    <3> QED BY <3>2 DEF new
  <2> QED BY <2>1, <2>2, <2>3
<1> QED BY <1>1, <1>3, <1>6, <1>7, <1>8 DEF TxsInv

LEMMA BroadcastKeeps ==
    ASSUME TxsInv, NEW x \in Txs, T!Broadcast(x)
    PROVE  TxsInv'
<1>1. T!Moves /\ mempool' = mempool \cup {x} /\ UNCHANGED <<listed, consumed>> /\ T!Where(x) = "nowhere"
  BY DEF T!Broadcast
<1>2. Apart /\ TxsTyped
  BY DEF TxsInv
<1>3. x \notin ToSet(listed) \cup consumed
  BY <1>1, <1>2, WhereIs
<1>4. Apart'
  BY <1>1, <1>2, <1>3 DEF Apart
<1> QED BY <1>1, <1>2, <1>4, MovesKeep DEF TxsTyped

LEMMA DroppedKeeps ==
    ASSUME TxsInv, NEW x \in Txs, T!Dropped(x)
    PROVE  TxsInv'
<1>1. T!Moves /\ mempool' = mempool \ {x} /\ UNCHANGED <<listed, consumed>>
  BY DEF T!Dropped
<1>2. Apart /\ TxsTyped
  BY DEF TxsInv
<1>3. Apart'
  BY <1>1, <1>2 DEF Apart
<1> QED BY <1>1, <1>2, <1>3, MovesKeep DEF TxsTyped

LEMMA ConfirmKeeps ==
    ASSUME TxsInv, NEW x \in Txs, T!Confirm(x)
    PROVE  TxsInv'
<1>1. /\ T!Moves /\ x \in mempool /\ mempool' = mempool \ {x}
      /\ listed' = Append(listed, x) /\ consumed' = consumed
  BY DEF T!Confirm
<1>2. Apart /\ TxsTyped
  BY DEF TxsInv
<1>3. x \notin ToSet(listed) \cup consumed
  BY <1>1, <1>2 DEF Apart
<1>4. listed \in Seq(Txs) /\ listed' \in Seq(Txs) /\ Len(listed') = Len(listed) + 1
      /\ listed'[Len(listed) + 1] = x /\ \A i \in 1..Len(listed) : listed'[i] = listed[i]
  BY <1>1, <1>2 DEF TxsTyped
<1>5. ToSet(listed') = ToSet(listed) \cup {x}
  <2>1. DOMAIN listed = 1..Len(listed) /\ DOMAIN listed' = 1..(Len(listed) + 1) /\ Len(listed) \in Nat
    BY <1>4
  <2>2. ToSet(listed') \subseteq ToSet(listed) \cup {x}
    BY <2>1, <1>4 DEF ToSet
  <2>3. ToSet(listed) \cup {x} \subseteq ToSet(listed')
    BY <2>1, <1>4 DEF ToSet
  <2> QED BY <2>2, <2>3
<1>6. \A i, j \in DOMAIN listed' : listed'[i] = listed'[j] => i = j
  <2>1. DOMAIN listed = 1..Len(listed) /\ DOMAIN listed' = 1..(Len(listed) + 1) /\ Len(listed) \in Nat
    BY <1>4
  <2>2. \A i \in 1..Len(listed) : listed[i] # x
    BY <1>3, <2>1 DEF ToSet
  <2> QED BY <2>1, <2>2, <1>2, <1>4 DEF Apart
<1>7. Apart'
  BY <1>1, <1>2, <1>3, <1>5, <1>6 DEF Apart
<1> QED BY <1>1, <1>2, <1>4, <1>7, MovesKeep DEF TxsTyped

LEMMA SpendKeeps ==
    ASSUME TxsInv, NEW x \in Txs, T!Spend(x)
    PROVE  TxsInv'
<1>1. /\ T!Moves /\ x \in ToSet(listed)
      /\ \E i \in DOMAIN listed : listed[i] = x /\ listed' = RemoveAt(listed, i)
      /\ consumed' = consumed \cup {x} /\ mempool' = mempool
  BY DEF T!Spend, T!ToSet, ToSet, T!RemoveAt, RemoveAt
<1>2. Apart /\ TxsTyped
  BY DEF TxsInv
<1>3. PICK i \in DOMAIN listed : listed[i] = x /\ listed' = RemoveAt(listed, i)
  BY <1>1
<1>4. /\ listed' \in Seq(Txs) /\ ToSet(listed') = ToSet(listed) \ {x}
      /\ \A j, k \in DOMAIN listed' : listed'[j] = listed'[k] => j = k
  BY <1>2, <1>3, Removed DEF TxsTyped, Apart
<1>5. Apart'
  BY <1>1, <1>2, <1>4 DEF Apart
<1> QED BY <1>1, <1>2, <1>4, <1>5, MovesKeep DEF TxsTyped

LEMMA RollbackKeeps == ASSUME TxsInv, T!Rollback PROVE TxsInv'
<1>1. /\ T!Moves /\ listed # <<>> /\ listed' = SubSeq(listed, 1, Len(listed) - 1)
      /\ mempool' = mempool \cup {listed[Len(listed)]} /\ consumed' = consumed
  BY DEF T!Rollback, T!Front, T!Last
<1>2. Apart /\ TxsTyped
  BY DEF TxsInv
<1>3. Len(listed) \in Nat \ {0} /\ DOMAIN listed = 1..Len(listed) /\ listed \in Seq(Txs)
  BY <1>1, <1>2 DEF TxsTyped
<1>4. /\ listed' \in Seq(Txs) /\ DOMAIN listed' = 1..(Len(listed) - 1)
      /\ \A i \in 1..(Len(listed) - 1) : listed'[i] = listed[i]
  BY <1>1, <1>3
<1>5. listed[Len(listed)] \in Txs /\ listed[Len(listed)] \in ToSet(listed)
  BY <1>3 DEF ToSet
<1>6. ToSet(listed') \subseteq ToSet(listed) /\ listed[Len(listed)] \notin ToSet(listed')
  BY <1>2, <1>3, <1>4 DEF ToSet, Apart
<1>7. \A i, j \in DOMAIN listed' : listed'[i] = listed'[j] => i = j
  BY <1>2, <1>3, <1>4 DEF Apart
<1>8. Apart'
  BY <1>1, <1>2, <1>5, <1>6, <1>7 DEF Apart
<1> QED BY <1>1, <1>2, <1>4, <1>5, <1>8, MovesKeep DEF TxsTyped
\* The call begins: where each transaction is now is where it has been.
LEMMA BeginKeeps == ASSUME TxsInv, T!Begin PROVE TxsInv'
<1>1. /\ call.st = "idle" /\ UNCHANGED <<mempool, listed, consumed, ref>>
      /\ call' = [call EXCEPT !.st = IF call.what = "refs" THEN "outputs" ELSE "tx"]
      /\ was' = [x \in Txs |-> IF x \in call.asked THEN {T!Where(x)} ELSE {}]
  BY DEF T!Begin, T!upstream
<1>2. TxsTyped /\ Apart /\ call \in Call /\ call.asked \subseteq Txs
  BY TxsRanges DEF TxsInv, TxsTyped
<1>3. /\ call' \in Call /\ call'.asked = call.asked /\ call'.answer = call.answer
      /\ call'.st \in {"outputs", "tx"}
  BY <1>1, <1>2 DEF Call
<1>4. \A x \in Txs : T!Where(x) \in T!Places
  BY <1>2, WhereIs
<1>5. was' \in [Txs -> SUBSET T!Places]
  BY <1>1, <1>4
<1>6. TxsTyped' /\ Apart'
  BY <1>1, <1>2, <1>3, <1>5 DEF TxsTyped, Apart
<1>7. call.answer = "none" /\ \A x \in Txs : ref[x].st = "fetch"
  BY <1>1 DEF TxsInv
<1>8. ASSUME NEW x \in call.asked
      PROVE  /\ T!Where(x)' \in was'[x]
             /\ ref[x].st # "known"
             /\ StatusFits(call', was'[x])
  <2>1. was'[x] = {T!Where(x)} /\ T!Where(x)' = T!Where(x)
    BY <1>1, <1>2 DEF T!Where
  <2> QED BY <2>1, <1>2, <1>3, <1>7 DEF StatusFits
<1>9. call'.st # "idle"
  BY <1>3
<1> QED BY <1>1, <1>3, <1>6, <1>7, <1>8, <1>9 DEF TxsInv

\* The call goes to another stage without an answer.
LEMMA StageKeeps ==
    ASSUME TxsInv, T!Running, NEW st \in {"states", "heights", "mempool", "block", "done", "failed"},
           T!Call(st),
           st = "mempool" => \A x \in call.asked : T!Where(x) \in {"nowhere", "mempool"}
    PROVE  TxsInv'
<1>1. call' = [call EXCEPT !.st = st] /\ UNCHANGED <<mempool, listed, consumed, ref, was>>
  BY DEF T!Call, T!upstream
<1>2. TxsTyped /\ Apart /\ call \in Call /\ call.answer = "none"
  BY DEF TxsInv, TxsTyped
<1>3. call' \in Call /\ call'.asked = call.asked /\ call'.answer = "none" /\ call'.st = st
  BY <1>1, <1>2 DEF Call
<1>4. TxsTyped' /\ Apart'
  BY <1>1, <1>2, <1>3 DEF TxsTyped, Apart
<1>5. ASSUME NEW x \in call.asked
      PROVE  /\ T!Where(x)' \in was[x]
             /\ ref[x].st = "known" /\ ~ref[x].spent => "unspent" \in was[x]
             /\ StatusFits(call', was[x])
  <2>1. T!Where(x)' = T!Where(x)
    BY <1>1 DEF T!Where
  <2>2. T!Where(x) \in was[x] /\ (ref[x].st = "known" /\ ~ref[x].spent => "unspent" \in was[x])
    BY DEF TxsInv
  <2>3. StatusFits(call', was[x])
    BY <1>3, <2>2 DEF StatusFits
  <2> QED BY <2>1, <2>2, <2>3
<1> QED BY <1>1, <1>3, <1>4, <1>5 DEF TxsInv

\* The call has its answer.
LEMMA AnswerKeeps ==
    ASSUME TxsInv, T!Running, NEW status \in {"confirmed", "pending", "unknown"}, T!Answer(status),
           \A x \in call.asked :
              /\ status = "confirmed" => was[x] \cap {"unspent", "spent"} # {}
              /\ status = "pending" => "mempool" \in was[x]
              /\ status = "unknown" => was[x] \cap {"nowhere", "mempool"} # {}
    PROVE  TxsInv'
<1>1. /\ call' = [call EXCEPT !.st = "done", !.answer = status]
      /\ UNCHANGED <<mempool, listed, consumed, ref, was>>
  BY DEF T!Answer, T!upstream
<1>2. TxsTyped /\ Apart /\ call \in Call
  BY DEF TxsInv, TxsTyped
<1>3. call' \in Call /\ call'.asked = call.asked /\ call'.answer = status /\ call'.st = "done"
  BY <1>1, <1>2 DEF Call
<1>4. TxsTyped' /\ Apart'
  BY <1>1, <1>2, <1>3 DEF TxsTyped, Apart
<1>5. ASSUME NEW x \in call.asked
      PROVE  /\ ref[x].st = "known" /\ ~ref[x].spent => "unspent" \in was[x]
             /\ StatusFits(call', was[x])
  <2>1. ref[x].st = "known" /\ ~ref[x].spent => "unspent" \in was[x]
    BY DEF TxsInv
  <2>2. StatusFits(call', was[x])
    BY <1>3 DEF StatusFits
  <2> QED BY <2>1, <2>2
<1>6. ~T!Running'
  BY <1>3 DEF T!Running
<1> QED BY <1>1, <1>3, <1>4, <1>5, <1>6 DEF TxsInv

\* Something is learnt of the output of x.
LEMMA RefKeeps ==
    ASSUME TxsInv, call.st # "idle", NEW x \in Txs, NEW r \in Ref, T!Ref(x, r),
           x \in call.asked /\ r.st = "known" /\ ~r.spent => "unspent" \in was[x]
    PROVE  TxsInv'
<1>1. ref' = [ref EXCEPT ![x] = r] /\ UNCHANGED <<mempool, listed, consumed, call, was>>
  BY DEF T!Ref, T!upstream
<1>2. TxsTyped /\ Apart
  BY DEF TxsInv
<1>3. ref' \in [Txs -> Ref] /\ ref'[x] = r /\ \A y \in Txs \ {x} : ref'[y] = ref[y]
  BY <1>1, <1>2 DEF TxsTyped
<1>4. TxsTyped' /\ Apart'
  BY <1>1, <1>2, <1>3 DEF TxsTyped, Apart
<1>5. ASSUME NEW y \in call.asked
      PROVE  /\ T!Running => T!Where(y)' \in was[y]
             /\ ref'[y].st = "known" /\ ~ref'[y].spent => "unspent" \in was[y]
             /\ StatusFits(call, was[y])
  <2>1. T!Where(y)' = T!Where(y) /\ y \in Txs
    BY <1>1, <1>2, TxsRanges DEF T!Where
  <2>2. /\ T!Running => T!Where(y) \in was[y]
        /\ ref[y].st = "known" /\ ~ref[y].spent => "unspent" \in was[y]
        /\ StatusFits(call, was[y])
    BY DEF TxsInv
  <2>3. ref'[y].st = "known" /\ ~ref'[y].spent => "unspent" \in was[y]
    BY <1>3, <2>1, <2>2
  <2> QED BY <2>1, <2>2, <2>3
<1>6. T!Running' = T!Running /\ (T!Running => call.answer = "none")
  BY <1>1 DEF T!Running, TxsInv
<1> QED BY <1>1, <1>4, <1>5, <1>6 DEF TxsInv

\* A page of the address holds outputs that are unspent now.
LEMMA PageIsListed ==
    ASSUME TxsTyped, NEW k \in Nat \ {0}, NEW x, T!Held(x, T!PageDesc(k))
    PROVE  x \in ToSet(listed)
<1>1. /\ listed \in Seq(Txs) /\ Len(listed) \in Nat /\ DOMAIN listed = 1..Len(listed)
      /\ ListPageSize \in Nat \ {0}
  BY ReadsAssumption DEF TxsTyped
<1> DEFINE all == T!Reverse(listed)
           from == (k - 1) * ListPageSize + 1
           to == T!Min({k * ListPageSize, Len(all)})
<1>2. all = [i \in 1..Len(listed) |-> listed[(Len(listed) - i) + 1]]
  BY DEF T!Reverse
<1>3. Len(all) = Len(listed) /\ DOMAIN all = 1..Len(listed)
  BY <1>1, <1>2
<1>4. \A i \in 1..Len(listed) : all[i] \in ToSet(listed)
  <2> TAKE i \in 1..Len(listed)
  <2>1. (Len(listed) - i) + 1 \in DOMAIN listed /\ all[i] = listed[(Len(listed) - i) + 1]
    BY <1>1, <1>2
  <2> QED BY <2>1 DEF ToSet
<1>5. from \in Nat \ {0} /\ k * ListPageSize \in Nat
  <2>1. k - 1 \in Nat /\ ListPageSize \in Nat
    BY <1>1
  <2>2. (k - 1) * ListPageSize \in Nat /\ k * ListPageSize \in Nat
    BY <2>1
  <2> QED BY <2>2
<1>6. to \in {k * ListPageSize, Len(listed)} /\ to <= Len(listed) /\ to <= k * ListPageSize
  <2> DEFINE a == k * ListPageSize b == Len(listed)
  <2>1. a \in Nat /\ b \in Nat
    BY <1>1, <1>5
  <2>2. to = CHOOSE m \in {a, b} : \A y \in {a, b} : m =< y
    BY <1>3 DEF T!Min
  <2> HIDE DEF a, b
  <2>3. \E m \in {a, b} : \A y \in {a, b} : m =< y
    BY <2>1
  <2>4. to \in {a, b} /\ to <= a /\ to <= b
    BY <2>1, <2>2, <2>3
  <2> QED BY <2>4 DEF a, b
<1>7. T!PageDesc(k) = SubSeq(all, from, to)
  BY DEF T!PageDesc
<1> HIDE DEF all, from, to
<1>8. to \in Nat /\ \A i \in from..to : all[i] \in ToSet(listed)
  <2>1. to \in Nat /\ to <= Len(listed)
    BY <1>1, <1>5, <1>6
  <2>2. \A i \in from..to : i \in 1..Len(listed)
    BY <1>1, <1>5, <2>1
  <2> QED BY <2>1, <2>2, <1>4
<1>9. SubSeq(all, from, to) \in Seq(ToSet(listed))
  BY <1>5, <1>8, SubSeqProperties
<1>10. x \in {SubSeq(all, from, to)[i] : i \in DOMAIN SubSeq(all, from, to)}
  BY <1>7 DEF T!Held, T!ToSet
<1> QED BY <1>9, <1>10

\* What each request of the call finds.
LEMMA OutputsReadKeeps == ASSUME TxsInv, NEW x \in Txs, T!OutputsRead(x) PROVE TxsInv'
<1> DEFINE r == IF x \notin T!OnChain THEN [ref[x] EXCEPT !.st = "absent"]
                ELSE IF T!Conclusive(x)
                THEN [ref[x] EXCEPT !.st = "known", !.spent = x \in consumed]
                ELSE [ref[x] EXCEPT !.st = "walk"]
<1>1. call.st = "outputs" /\ x \in call.asked /\ T!Ref(x, r)
  BY DEF T!OutputsRead
<1>2. ref[x] \in Ref
  BY TxsRanges DEF TxsInv
<1>3. r \in Ref
  <2>1. [ref[x] EXCEPT !.st = "absent"] \in Ref /\ [ref[x] EXCEPT !.st = "walk"] \in Ref
    BY <1>2 DEF Ref
  <2>2. (x \in consumed) \in BOOLEAN
    OBVIOUS
  <2>3. \A b \in BOOLEAN : [ref[x] EXCEPT !.st = "known", !.spent = b] \in Ref
    BY <1>2 DEF Ref
  <2> QED BY <2>1, <2>2, <2>3
<1>4. T!Where(x) \in was[x]
  BY <1>1 DEF TxsInv, T!Running
<1>5. ASSUME r.st = "known", ~r.spent PROVE "unspent" \in was[x]
  <2>1. x \in T!OnChain /\ x \notin consumed
    BY <1>2, <1>5 DEF Ref
  <2>2. x \in ToSet(listed)
    BY <2>1 DEF T!OnChain, T!ToSet, ToSet
  <2> QED BY <1>4, <2>2, WhereIs DEF TxsInv
<1> HIDE DEF r
<1> QED BY <1>1, <1>3, <1>5, RefKeeps

LEMMA WalkStepKeeps == ASSUME TxsInv, NEW x \in Txs, T!WalkStep(x) PROVE TxsInv'
<1> DEFINE held == T!PageDesc(ref[x].page)
           r == IF T!OnChain = {} THEN [ref[x] EXCEPT !.st = "known", !.spent = TRUE]
                ELSE IF T!Held(x, held) THEN [ref[x] EXCEPT !.st = "known", !.spent = FALSE]
                ELSE IF Len(held) < ListPageSize
                THEN [ref[x] EXCEPT !.st = "known", !.spent = TRUE]
                ELSE IF ref[x].page = ListMaxPages THEN T!Inconclusive(ref[x])
                ELSE [ref[x] EXCEPT !.page = @ + 1]
<1>1. call.st = "states" /\ x \in call.asked /\ ref[x].st = "walk" /\ T!Ref(x, r)
  BY DEF T!WalkStep
<1>2. ref[x] \in Ref /\ ref[x].page \in Nat \ {0} /\ TxsTyped
  BY TxsRanges DEF TxsInv
<1>3. T!Inconclusive(ref[x]) \in Ref /\ T!Inconclusive(ref[x]).st = "absent"
  BY <1>2 DEF Ref, T!Inconclusive
<1>4. [ref[x] EXCEPT !.page = @ + 1] \in Ref /\ [ref[x] EXCEPT !.page = @ + 1].st = "walk"
  BY <1>1, <1>2 DEF Ref
<1>5. r \in Ref
  BY <1>2, <1>3, <1>4 DEF Ref
<1>6. T!Where(x) \in was[x]
  BY <1>1 DEF TxsInv, T!Running
<1>7. ASSUME r.st = "known", ~r.spent PROVE "unspent" \in was[x]
  <2>1. T!Held(x, held)
    BY <1>2, <1>3, <1>4, <1>7 DEF Ref
  <2>2. x \in ToSet(listed)
    BY <1>2, <2>1, PageIsListed
  <2> QED BY <1>6, <2>2, WhereIs DEF TxsInv
<1> HIDE DEF r
<1> QED BY <1>1, <1>5, <1>7, RefKeeps

LEMMA HeightReadKeeps == ASSUME TxsInv, NEW x \in Txs, T!HeightRead(x) PROVE TxsInv'
<1> DEFINE r == IF x \in T!OnChain THEN [ref[x] EXCEPT !.height = TRUE]
                ELSE [ref[x] EXCEPT !.st = "absent"]
<1>1. call.st = "heights" /\ x \in call.asked /\ ref[x].st = "known" /\ T!Ref(x, r)
  BY DEF T!HeightRead
<1>2. ref[x] \in Ref
  BY TxsRanges DEF TxsInv
<1>3. r \in Ref /\ (r.st = "known" => r.spent = ref[x].spent)
  BY <1>2 DEF Ref
<1>4. ~ref[x].spent => "unspent" \in was[x]
  BY <1>1 DEF TxsInv
<1> HIDE DEF r
<1> QED BY <1>1, <1>3, <1>4, RefKeeps

LEMMA StatusReadKeeps == ASSUME TxsInv, NEW x \in Txs, T!StatusRead(x) PROVE TxsInv'
<1>1. call.st = "tx" /\ call.asked = {x} /\ T!Running
  BY DEF T!StatusRead, T!Running
<1>2. T!Where(x) \in was[x] /\ Apart
  BY <1>1 DEF TxsInv
<1>3. x \in T!OnChain => T!Where(x) \in {"unspent", "spent"}
  BY <1>2, WhereIs DEF T!OnChain, T!ToSet, ToSet
<1>4. x \notin T!OnChain => T!Where(x) \in {"nowhere", "mempool"}
  BY <1>2, WhereIs DEF T!OnChain, T!ToSet, ToSet, T!Places
<1>5. CASE driver = "koios"
  <2> DEFINE status == IF x \in T!OnChain THEN "confirmed" ELSE "unknown"
  <2>1. T!Answer(status)
    BY <1>5 DEF T!StatusRead
  <2>2. /\ status \in {"confirmed", "pending", "unknown"}
        /\ status = "confirmed" => was[x] \cap {"unspent", "spent"} # {}
        /\ status # "pending"
        /\ status = "unknown" => was[x] \cap {"nowhere", "mempool"} # {}
    BY <1>2, <1>3, <1>4
  <2> HIDE DEF status
  <2> QED BY <1>1, <2>1, <2>2, AnswerKeeps
<1>6. CASE driver # "koios"
  <2> DEFINE st == IF x \in T!OnChain THEN "block" ELSE "mempool"
  <2>1. T!Call(st)
    BY <1>6 DEF T!StatusRead
  <2>2. /\ st \in {"states", "heights", "mempool", "block", "done", "failed"}
        /\ st = "mempool" => T!Where(x) \in {"nowhere", "mempool"}
    BY <1>4
  <2> HIDE DEF st
  <2> QED BY <1>1, <2>1, <2>2, StageKeeps
<1> QED BY <1>5, <1>6

LEMMA MempoolReadKeeps == ASSUME TxsInv, NEW x \in Txs, T!MempoolRead(x) PROVE TxsInv'
<1> DEFINE status == T!MempoolAnswer(x)
<1>1. call.st = "mempool" /\ call.asked = {x} /\ T!Answer(status) /\ T!Running
  BY DEF T!MempoolRead, T!Running
<1>2. T!Where(x) \in was[x] /\ StatusFits(call, was[x]) /\ Apart
  BY <1>1 DEF TxsInv
<1>3. /\ status \in {"confirmed", "pending", "unknown"} /\ status # "confirmed"
      /\ status = "pending" => x \in mempool
  BY DEF T!MempoolAnswer
<1>4. /\ status = "pending" => "mempool" \in was[x]
      /\ was[x] \cap {"nowhere", "mempool"} # {}
  BY <1>1, <1>2, <1>3, WhereIs DEF StatusFits
<1> HIDE DEF status
<1> QED BY <1>1, <1>3, <1>4, AnswerKeeps

LEMMA MempoolFailsKeeps == ASSUME TxsInv, T!MempoolFails PROVE TxsInv'
<1>1. call.st = "mempool" /\ T!Answer("unknown") /\ T!Running
  BY DEF T!MempoolFails, T!Running
<1>2. \A x \in call.asked : was[x] \cap {"nowhere", "mempool"} # {}
  BY <1>1 DEF TxsInv, StatusFits
<1> QED BY <1>1, <1>2, AnswerKeeps

LEMMA BlockReadKeeps == ASSUME TxsInv, NEW x \in Txs, T!BlockRead(x) PROVE TxsInv'
<1>1. call.st = "block" /\ call.asked = {x} /\ x \in T!OnChain /\ T!Answer("confirmed") /\ T!Running
  BY DEF T!BlockRead, T!Running
<1>2. T!Where(x) \in was[x] /\ Apart
  BY <1>1 DEF TxsInv
<1>3. T!Where(x) \in {"unspent", "spent"}
  BY <1>1, <1>2, WhereIs DEF T!OnChain, T!ToSet, ToSet
<1> QED BY <1>1, <1>2, <1>3, AnswerKeeps

LEMMA StagesKeep ==
    ASSUME TxsInv, T!OutputsDone \/ T!StatesDone \/ T!HeightsDone \/ T!RequestFails
    PROVE  TxsInv'
<1>1. PICK st \in {"states", "heights", "done", "failed"} : T!Running /\ T!Call(st)
  BY DEF T!OutputsDone, T!StatesDone, T!HeightsDone, T!RequestFails, T!Running
<1> QED BY <1>1, StageKeeps

LEMMA TxsStep == ASSUME TxsInv, T!Next PROVE TxsInv'
<1>1. ASSUME NEW x \in Txs, T!Broadcast(x) \/ T!Confirm(x) \/ T!Dropped(x) \/ T!Spend(x)
      PROVE  TxsInv'
  BY <1>1, BroadcastKeeps, ConfirmKeeps, DroppedKeeps, SpendKeeps
<1>2. ASSUME NEW x \in Txs, T!OutputsRead(x) \/ T!WalkStep(x) \/ T!HeightRead(x)
      PROVE  TxsInv'
  BY <1>2, OutputsReadKeeps, WalkStepKeeps, HeightReadKeeps
<1>3. ASSUME NEW x \in Txs, T!StatusRead(x) \/ T!MempoolRead(x) \/ T!BlockRead(x)
      PROVE  TxsInv'
  BY <1>3, StatusReadKeeps, MempoolReadKeeps, BlockReadKeeps
<1> QED BY <1>1, <1>2, <1>3, RollbackKeeps, BeginKeeps, MempoolFailsKeeps, StagesKeep
        DEF T!Next, T!CallSteps

LEMMA TxsStart == T!Init => TxsInv
<1> SUFFICES ASSUME T!Init PROVE TxsInv
  OBVIOUS
<1>1. PICK S \in SUBSET (Txs \ (mempool \cup consumed)) : listed = T!SetToSeq(S)
  BY DEF T!Init
<1>2. IsFiniteSet(S)
  BY <1>1, ReadsAssumption, FS_Subset
<1>3. listed = SetToSeq(S)
  BY <1>1 DEF T!SetToSeq, SetToSeq, T!IsInjective, IsInjective, T!Cardinality, Cardinality
<1>4. listed \in Seq(S) /\ \A i, j \in DOMAIN listed : listed[i] = listed[j] => i = j
  BY <1>2, <1>3, SequenceOf
<1>5. mempool \subseteq Txs /\ consumed \subseteq Txs \ mempool
  BY DEF T!Init
<1>6. listed \in Seq(Txs)
  <2>1. S \subseteq Txs
    BY <1>1
  <2> QED BY <1>4, <2>1
<1>7. ToSet(listed) \subseteq S
  BY <1>4 DEF ToSet
<1>8. Apart
  BY <1>1, <1>4, <1>5, <1>7 DEF Apart
<1>9. call \in Call /\ call.st = "idle" /\ call.answer = "none"
  BY DEF T!Init, T!NoCall, Call
<1>10. T!NewRef \in Ref /\ T!NewRef.st = "fetch"
  BY DEF T!NewRef, Ref
<1>11. ref = [x \in Txs |-> T!NewRef] /\ was = [x \in Txs |-> {}]
  BY DEF T!Init
<1>12. TxsTyped /\ \A x \in Txs : ref[x].st = "fetch"
  BY <1>5, <1>6, <1>9, <1>10, <1>11 DEF TxsTyped
<1>13. call.asked \subseteq Txs /\ ~T!Running
  BY <1>9, <1>12, TxsRanges DEF T!Running
<1> QED BY <1>8, <1>9, <1>12, <1>13 DEF TxsInv, StatusFits

\* An output that is returned as unspent was unspent at some moment of the call,
\* and a status names a place the transaction was in while it was asked for,
\* whatever is broadcast, confirmed, spent, dropped or rolled back between the
\* requests of a call (getUtxosByRef and getTxStatus of koios/tx.ts and
\* blockfrost/tx.ts, resolveCollateralSpent of blockfrost/tx-info.ts).
THEOREM LookupsStayTrue == Spec => []LookupsWereTrue
<1>1. Init => TxsInv
  BY TxsStart DEF Init
<1>2. TxsInv /\ [Next]_vars => TxsInv'
  <2> SUFFICES ASSUME TxsInv, [Next]_vars PROVE TxsInv'
    OBVIOUS
  <2>1. T!Next \/ UNCHANGED txsVars
    BY DEF Next, vars, Paging, Utxos, Lookup, Account, History, Batch
  <2>2. CASE UNCHANGED txsVars
    <3>1. UNCHANGED <<mempool, listed, consumed, call, ref, was>>
      BY <2>2 DEF txsVars
    <3>2. TxsTyped' /\ Apart'
      BY <3>1 DEF TxsInv, TxsTyped, Apart
    <3>3. T!Running' = T!Running /\ \A x : T!Where(x)' = T!Where(x)
      BY <3>1 DEF T!Running, T!Where
    <3> QED BY <3>1, <3>2, <3>3 DEF TxsInv
  <2> QED BY <2>1, <2>2, TxsStep
<1>3. TxsInv => LookupsWereTrue
  <2> SUFFICES ASSUME TxsInv PROVE T!UnspentWasUnspent /\ T!StatusWasTrue
    BY DEF LookupsWereTrue
  <2>1. T!UnspentWasUnspent
    BY DEF T!UnspentWasUnspent, T!Returned, TxsInv
  <2>2. T!StatusWasTrue
    BY DEF T!StatusWasTrue, TxsInv, StatusFits
  <2> QED BY <2>1, <2>2
<1> QED BY <1>1, <1>2, <1>3, PTL DEF Spec

-----------------------------------------------------------------------------
(* The order of a list.                                                     *)

\* The instances have a cardinality of their own, defined alike.
LEMMA SizeIs == ASSUME NEW S PROVE K!Cardinality(S) = Cardinality(S)
BY DEF K!Cardinality, Cardinality

LEMMA RowsInOrder ==
    ASSUME NEW S \in SUBSET Nat, IsFiniteSet(S)
    PROVE  /\ K!InOrder(S) \in Seq(S) /\ Len(K!InOrder(S)) = Cardinality(S)
           /\ Ascends(K!InOrder(S))
           /\ \A x \in S : Holds(K!InOrder(S), x)
<1> DEFINE ord == {w \in S \X S : w[1] < w[2]}
           g == K!InOrder(S)
<1>1. \A x, y \in S : <<x, y>> \in ord <=> x < y
  OBVIOUS
<1>2. IsOrder(S, ord)
  <2> HIDE DEF ord
  <2>1. \A x \in S : x \in Int
    OBVIOUS
  <2> QED BY <1>1, <2>1 DEF IsOrder
<1>3. \A x \in S : UpTo(S, ord, x) = {q \in S : q <= x}
  <2> HIDE DEF ord
  <2>1. \A x, y \in S : y = x \/ y < x <=> y <= x
    OBVIOUS
  <2> QED BY <1>1, <2>1 DEF UpTo
<1>4. /\ g = [n \in 1..Cardinality(S) |-> g[n]]
      /\ \A n \in 1..Cardinality(S) :
            g[n] = CHOOSE p \in S : Cardinality({q \in S : q <= p}) = n
  <2>1. K!Cardinality(S) = Cardinality(S)
    BY SizeIs
  <2>2. g = [n \in 1..Cardinality(S) |-> g[n]]
    BY <2>1 DEF K!InOrder
  <2>3. ASSUME NEW n \in 1..Cardinality(S)
        PROVE  g[n] = CHOOSE p \in S : Cardinality({q \in S : q <= p}) = n
    <3>1. g[n] = CHOOSE p \in S : K!Cardinality({q \in S : q <= p}) = n
      BY <2>1 DEF K!InOrder
    <3> HIDE DEF g
    <3>2. \A p \in S : K!Cardinality({q \in S : q <= p}) = Cardinality({q \in S : q <= p})
      BY SizeIs
    <3>3. (CHOOSE p \in S : K!Cardinality({q \in S : q <= p}) = n)
              = CHOOSE p \in S : Cardinality({q \in S : q <= p}) = n
      BY <3>2
    <3> QED BY <3>1, <3>3
  <2> QED BY <2>2, <2>3
<1>5. \A n \in 1..Cardinality(S) :
          g[n] = CHOOSE x \in S : Cardinality(UpTo(S, ord, x)) = n
  <2> HIDE DEF ord, g
  <2> TAKE n \in 1..Cardinality(S)
  <2>1. \A x \in S : (Cardinality({q \in S : q <= x}) = n) <=> (Cardinality(UpTo(S, ord, x)) = n)
    BY <1>3
  <2>2. g[n] = CHOOSE p \in S : Cardinality({q \in S : q <= p}) = n
    BY <1>4
  <2> QED BY <2>1, <2>2
<1>6. Cardinality(S) \in Nat
  BY FS_CardinalityType
<1>7. /\ \A n \in 1..Cardinality(S) : g[n] \in S
      /\ \A m, n \in 1..Cardinality(S) : m < n => <<g[m], g[n]>> \in ord
      /\ \A x \in S : \E n \in 1..Cardinality(S) : g[n] = x
  <2> HIDE DEF ord, g
  <2> QED BY <1>2, <1>5, PlaceFound
<1>8. g \in [1..Cardinality(S) -> S]
  <2> HIDE DEF ord
  <2>1. DOMAIN g = 1..Cardinality(S)
    BY <1>4
  <2> QED BY <1>4, <1>7
<1> HIDE DEF ord, g
<1>9. g \in Seq(S) /\ Len(g) = Cardinality(S)
  BY <1>6, <1>8
<1>10. \A m, n \in 1..Cardinality(S) : m < n => g[m] < g[n]
  BY <1>1, <1>7
<1> QED BY <1>7, <1>9, <1>10 DEF Ascends, Holds, g

LEMMA LesserOfTwo ==
    ASSUME NEW a \in Nat, NEW b \in Nat
    PROVE  /\ K!Min({a, b}) = IF a <= b THEN a ELSE b
           /\ B!Min({a, b}) = IF a <= b THEN a ELSE b
           /\ A!Min({a, b}) = IF a <= b THEN a ELSE b
<1> DEFINE m == K!Min({a, b})
<1>0. B!Min({a, b}) = m /\ A!Min({a, b}) = m
  BY DEF A!Min, B!Min, K!Min
<1>1. m = CHOOSE x \in {a, b} : \A y \in {a, b} : x =< y
  BY DEF K!Min
<1>2. \E x \in {a, b} : \A y \in {a, b} : x =< y
  OBVIOUS
<1> HIDE DEF m
<1>3. m \in {a, b} /\ m =< a /\ m =< b
  BY <1>1, <1>2
<1> QED BY <1>0, <1>3 DEF m

-----------------------------------------------------------------------------
(* Koios: reads by page.                                                    *)

Walk == [rows : Seq(Rows), start : Nat, total : Int, cursor : Nat, pages : Nat]

PagingTyped ==
    /\ mode \in {"keyset", "verified", "once"}
    /\ koiosStable \subseteq table /\ table \subseteq touched
    /\ touched \subseteq ever /\ ever \subseteq Rows
    /\ walk \in Walk /\ first \in Seq(Rows)
    /\ koiosRead \in [st : {"idle", "walking", "done", "failed"}, attempt : Int, result : Seq(Rows)]

\* What was read is there once, and was there during the read.
Clean(rows) ==
    /\ \A i, j \in 1..Len(rows) : rows[i] = rows[j] => i = j
    /\ \A i \in 1..Len(rows) : rows[i] \in touched
    /\ Len(rows) <= MaxPagedRows

\* A walk by keyset has the rows up to its cursor.
WalkFits(w) ==
    /\ Clean(w.rows) /\ Len(w.rows) = w.start
    /\ w.pages = 0 => w.rows = <<>> /\ w.cursor = 0
    /\ w.pages # 0 => w.cursor > 0
    /\ mode = "keyset" => \A x \in koiosStable : x <= w.cursor => Holds(w.rows, x)

\* When the first walk ended, its rows were all there and nothing else was, or
\* one of them was gone already.  That row never comes back, so the second walk
\* cannot read it.
SecondFits ==
    \/ \A x \in koiosStable : Holds(first, x)
    \/ \E x \in ever \ table : Holds(first, x) /\ ~Holds(walk.rows, x)

PagingInv ==
    /\ PagingTyped
    /\ koiosRead.st = "idle" => first = <<>>
    /\ koiosRead.st = "walking" => WalkFits(walk)
    /\ koiosRead.st = "walking" /\ first # <<>> => SecondFits
    /\ koiosRead.st # "done" => koiosRead.result = <<>>
    /\ Clean(koiosRead.result)
    /\ koiosRead.st = "done" /\ mode # "once" =>
          \A x \in koiosStable : Holds(koiosRead.result, x)

LEMMA WalkRanges ==
    ASSUME NEW w \in Walk
    PROVE  w.rows \in Seq(Rows) /\ w.start \in Nat /\ w.total \in Int /\ w.cursor \in Nat /\ w.pages \in Nat
BY DEF Walk

LEMMA ReadRanges ==
    ASSUME PagingTyped
    PROVE  /\ koiosRead.st \in {"idle", "walking", "done", "failed"}
           /\ koiosRead.attempt \in Int /\ koiosRead.result \in Seq(Rows)
BY DEF PagingTyped

\* The rows of a list from one place on, up to a size.
LEMMA SliceOf ==
    ASSUME NEW S, NEW s \in Seq(S), NEW n \in Nat, n <= Len(s)
    PROVE  /\ SubSeq(s, 1, n) \in Seq(S) /\ Len(SubSeq(s, 1, n)) = n
           /\ \A i \in 1..n : SubSeq(s, 1, n)[i] = s[i] /\ i \in 1..Len(s)
<1>1. Len(s) \in Nat /\ \A i \in 1..n : i \in 1..Len(s) /\ s[i] \in S
  OBVIOUS
<1> QED BY <1>1, SubSeqProperties

\* One page: the next rows after the cursor, or some rows from the offset on.
LEMMA PageIs ==
    ASSUME PagingTyped
    PROVE  LET got == K!Page
               count == K!Count
           IN  /\ got \in Seq(table) /\ Len(got) <= PageSize
               /\ \A i, j \in 1..Len(got) : got[i] = got[j] => i = j
               /\ count \in Nat /\ Len(got) <= count
               /\ count > 0 /\ mode = "keyset" => got # <<>>
               /\ mode = "keyset" =>
                     /\ \A i \in 1..Len(got) : got[i] > walk.cursor
                     /\ \A x \in table : x > walk.cursor =>
                           Holds(got, x) \/ (Len(got) < count /\ got # <<>> /\ got[Len(got)] < x)
               /\ mode # "keyset" =>
                     /\ count = Cardinality(table)
                     /\ got # <<>> => walk.start + Len(got) <= count
                     /\ walk.start = 0 /\ Len(got) = count => \A x \in table : Holds(got, x)
<1> DEFINE next == {x \in table : x > walk.cursor}
           all == K!InOrder(table)
           rows == K!Selected
           n == K!Min({PageSize, Len(rows)})
           page1 == K!Page
           count == K!Count
<1>1. /\ table \in SUBSET Nat /\ IsFiniteSet(table) /\ next \in SUBSET Nat /\ IsFiniteSet(next)
      /\ next \subseteq table /\ walk.start \in Nat /\ walk.cursor \in Nat
      /\ PageSize \in Nat \ {0}
  <2>1. table \subseteq Rows /\ next \subseteq table /\ Rows \subseteq Nat /\ IsFiniteSet(Rows)
    BY ReadsAssumption DEF PagingTyped
  <2> HIDE DEF next
  <2>2. IsFiniteSet(table) /\ IsFiniteSet(next)
    BY <2>1, FS_Subset
  <2>3. walk.start \in Nat /\ walk.cursor \in Nat /\ PageSize \in Nat \ {0}
    BY WalkRanges, ReadsAssumption DEF PagingTyped
  <2> QED BY <2>1, <2>2, <2>3
<1>2. /\ all \in Seq(table) /\ Len(all) = Cardinality(table) /\ Ascends(all)
      /\ \A x \in table : Holds(all, x)
  BY <1>1, RowsInOrder
<1>3. Cardinality(table) \in Nat /\ K!Cardinality(table) = Cardinality(table)
  BY <1>1, SizeIs, FS_CardinalityType
<1>4. CASE mode = "keyset"
  <2>1. rows = K!InOrder(next) /\ count = Len(rows)
    BY <1>4 DEF K!Selected, K!Count, K!Keyset
  <2>2. rows \in Seq(next) /\ Ascends(rows) /\ \A x \in next : Holds(rows, x)
    <3> HIDE DEF next
    <3> QED BY <1>1, <2>1, RowsInOrder
  <2>3. page1 = SubSeq(rows, 1, n)
    BY DEF K!Page
  <2> HIDE DEF rows, n, page1, count
  <2>4. /\ Len(rows) \in Nat /\ n \in Nat /\ n <= Len(rows) /\ n <= PageSize
        /\ n = PageSize \/ n = Len(rows)
    BY <1>1, <2>2, LesserOfTwo DEF n
  <2>5. /\ page1 \in Seq(next) /\ Len(page1) = n
        /\ \A i \in 1..n : page1[i] = rows[i] /\ i \in 1..Len(rows)
    <3> HIDE DEF next
    <3> QED BY <2>2, <2>3, <2>4, SliceOf
  <2>6. page1 \in Seq(table)
    <3>1. \A i \in 1..Len(page1) : page1[i] \in next
      <4> HIDE DEF next
      <4> QED BY <2>5
    <3>2. \A i \in 1..Len(page1) : page1[i] \in table
      BY <3>1
    <3> QED BY <2>4, <2>5, <3>2
  <2>7. \A i \in 1..Len(rows) : rows[i] \in Nat /\ rows[i] > walk.cursor
    <3>1. \A i \in 1..Len(rows) : rows[i] \in next
      <4> HIDE DEF next
      <4> QED BY <2>2
    <3> QED BY <1>1, <3>1
  <2>8. ASSUME NEW i \in 1..n, NEW j \in 1..n, page1[i] = page1[j] PROVE i = j
    <3>1. /\ rows[i] = rows[j] /\ rows[i] \in Nat /\ rows[j] \in Nat
          /\ i \in 1..Len(rows) /\ j \in 1..Len(rows)
      BY <2>5, <2>7, <2>8
    <3>2. ~(i < j) /\ ~(j < i)
      BY <2>2, <3>1 DEF Ascends
    <3> QED BY <2>4, <3>2
  <2>9. ASSUME NEW x \in table, x > walk.cursor, ~Holds(page1, x)
        PROVE  n < Len(rows) /\ page1 # <<>> /\ page1[n] < x
    <3>1. PICK i \in 1..Len(rows) : rows[i] = x
      BY <2>2, <2>9 DEF Holds
    <3>2. i \notin 1..n
      BY <2>5, <2>9, <3>1 DEF Holds
    <3>3. n < i /\ n < Len(rows) /\ n \in 1..n /\ n \in 1..Len(rows)
      BY <1>1, <2>4, <3>2
    <3>4. rows[n] < x /\ page1[n] = rows[n]
      BY <2>2, <2>5, <3>1, <3>3 DEF Ascends
    <3>5. page1 # <<>>
      BY <2>5, <3>3
    <3> QED BY <3>3, <3>4, <3>5
  <2>10. count > 0 => page1 # <<>>
    BY <1>1, <2>1, <2>4, <2>5
  <2> QED BY <1>4, <2>1, <2>4, <2>5, <2>6, <2>7, <2>8, <2>9, <2>10 DEF page1, count
<1>5. CASE mode # "keyset"
  <2> DEFINE rest == SubSeq(all, walk.start + 1, Len(all))
  <2>1. rows = rest /\ count = Cardinality(table)
    BY <1>3, <1>5 DEF K!Selected, K!Count, K!Keyset
  <2>2. page1 = SubSeq(rows, 1, n)
    BY DEF K!Page
  <2>3. Len(all) \in Nat /\ Len(all) = count /\ DOMAIN all = 1..Len(all)
    BY <1>2, <1>3, <2>1
  <2> HIDE DEF rows, n, page1, count, all
  <2>4. /\ rest \in Seq(table)
        /\ Len(rest) = IF walk.start + 1 <= Len(all) THEN Len(all) - walk.start ELSE 0
        /\ \A i \in 1..Len(rest) : rest[i] = all[walk.start + i] /\ walk.start + i \in 1..Len(all)
    <3>1. walk.start + 1 \in Int /\ Len(all) \in Int /\ \A i \in (walk.start + 1)..Len(all) : all[i] \in table
      BY <1>1, <1>2, <2>3
    <3>2. /\ rest \in Seq(table)
          /\ Len(rest) = IF walk.start + 1 <= Len(all) THEN Len(all) - (walk.start + 1) + 1 ELSE 0
          /\ \A i \in 1..(Len(all) - (walk.start + 1) + 1) : rest[i] = all[(walk.start + 1) + i - 1]
      BY <3>1, SubSeqProperties
    <3> HIDE DEF rest
    <3>3. Len(all) - (walk.start + 1) + 1 = Len(all) - walk.start
      BY <1>1, <2>3
    <3>4. \A i \in 1..(Len(all) - walk.start) :
             (walk.start + 1) + i - 1 = walk.start + i /\ walk.start + i \in 1..Len(all)
      BY <1>1, <2>3
    <3>5. Len(rest) = IF walk.start + 1 <= Len(all) THEN Len(all) - walk.start ELSE 0
      BY <3>2, <3>3
    <3>6. \A i \in 1..Len(rest) : i \in 1..(Len(all) - walk.start)
      BY <1>1, <2>3, <3>5
    <3> QED BY <3>2, <3>3, <3>4, <3>5, <3>6
  <2> HIDE DEF rest
  <2>5. /\ Len(rows) \in Nat /\ n \in Nat /\ n <= Len(rows) /\ n <= PageSize
    <3>1. rows \in Seq(table)
      BY <2>1, <2>4
    <3>2. Len(rows) \in Nat /\ PageSize \in Nat
      BY <1>1, <3>1
    <3>3. n = IF PageSize <= Len(rows) THEN PageSize ELSE Len(rows)
      BY <3>2, LesserOfTwo DEF n
    <3> QED BY <3>2, <3>3
  <2>6. /\ page1 \in Seq(table) /\ Len(page1) = n
        /\ \A i \in 1..n : page1[i] = rest[i] /\ i \in 1..Len(rest)
    BY <2>1, <2>2, <2>4, <2>5, SliceOf
  <2>7. ASSUME NEW i \in 1..n, NEW j \in 1..n, page1[i] = page1[j] PROVE i = j
    <3> DEFINE a == walk.start + i b == walk.start + j
    <3>1. a \in 1..Len(all) /\ b \in 1..Len(all) /\ all[a] = all[b]
      BY <2>4, <2>6, <2>7
    <3>2. all[a] \in Nat /\ all[b] \in Nat
      <4> HIDE DEF a, b
      <4>1. all[a] \in table /\ all[b] \in table
        BY <1>2, <3>1
      <4> QED BY <1>1, <4>1
    <3>3. ~(a < b) /\ ~(b < a)
      <4> HIDE DEF a, b
      <4> QED BY <1>2, <3>1, <3>2 DEF Ascends
    <3> QED BY <1>1, <2>5, <3>3
  <2>8. n <= count /\ (page1 # <<>> => walk.start + n <= count)
    <3>1. CASE n = 0
      BY <2>3, <2>6, <3>1
    <3>2. CASE n # 0
      <4>1. n \in 1..Len(rest)
        BY <2>5, <2>6, <3>2
      <4>2. walk.start + n \in 1..Len(all)
        BY <2>4, <4>1
      <4> QED BY <1>1, <2>3, <2>5, <4>2
    <3> QED BY <3>1, <3>2
  <2>9. ASSUME walk.start = 0, n = count, NEW x \in table PROVE Holds(page1, x)
    <3>1. PICK i \in 1..Len(all) : all[i] = x
      BY <1>2, <2>9 DEF Holds
    <3>2. i \in 1..n /\ walk.start + i = i
      BY <2>3, <2>9, <3>1
    <3>3. page1[i] = x
      BY <2>4, <2>6, <3>1, <3>2
    <3> QED BY <2>6, <3>2, <3>3 DEF Holds
  <2>10. count \in Nat
    BY <2>3
  <2> QED BY <1>5, <2>1, <2>5, <2>6, <2>7, <2>8, <2>9, <2>10 DEF page1, count
<1> QED BY <1>4, <1>5

\* The walk with one more page that repeats no row: it has no row twice, and
\* what it has by its end is all there was.
LEMMA AppendedIs ==
    ASSUME PagingTyped, WalkFits(walk), ~K!Duplicate(K!Page)
    PROVE  LET a == K!Appended
               got == K!Page
               count == K!Count
           IN  /\ a \in Walk /\ a.pages = walk.pages + 1
               /\ a.total = count /\ a.start = walk.start + Len(got) /\ Len(a.rows) = a.start
               /\ \A i, j \in 1..Len(a.rows) : a.rows[i] = a.rows[j] => i = j
               /\ \A i \in 1..Len(a.rows) : a.rows[i] \in touched
               /\ \A x : Holds(a.rows, x) <=> Holds(walk.rows, x) \/ Holds(got, x)
               /\ got = <<>> => a.rows = walk.rows
               /\ got # <<>> => a.cursor > 0
               /\ mode = "keyset" /\ got # <<>> =>
                     \A x \in koiosStable : x <= a.cursor => Holds(a.rows, x)
               /\ mode = "keyset" /\ Len(got) = count =>
                     \A x \in koiosStable : Holds(a.rows, x)
               /\ mode # "keyset" /\ walk.pages = 0 /\ Len(got) = count =>
                     \A x \in table : Holds(a.rows, x)
<1> DEFINE a == K!Appended
           got == K!Page
           count == K!Count
           rows == walk.rows
<1>1. /\ rows \in Seq(Rows) /\ walk.start \in Nat /\ walk.cursor \in Nat /\ walk.pages \in Nat
      /\ Len(rows) \in Nat
  BY WalkRanges DEF PagingTyped
<1>2. /\ got \in Seq(table) /\ Len(got) \in Nat /\ Len(got) <= count /\ count \in Nat
      /\ \A i, j \in 1..Len(got) : got[i] = got[j] => i = j
      /\ mode = "keyset" =>
            /\ \A i \in 1..Len(got) : got[i] > walk.cursor
            /\ \A x \in table : x > walk.cursor =>
                  Holds(got, x) \/ (Len(got) < count /\ got # <<>> /\ got[Len(got)] < x)
      /\ mode # "keyset" =>
            (walk.start = 0 /\ Len(got) = count => \A x \in table : Holds(got, x))
  BY PageIs
<1>3. /\ a.rows = rows \o got /\ a.start = walk.start + Len(got) /\ a.total = count
      /\ a.cursor = IF got = <<>> THEN walk.cursor ELSE got[Len(got)]
      /\ a.pages = walk.pages + 1
      /\ a = [rows |-> a.rows, start |-> a.start, total |-> a.total, cursor |-> a.cursor, pages |-> a.pages]
  BY DEF K!Appended, K!CursorAfter, K!Last
<1>4. \A i \in 1..Len(got), j \in 1..Len(rows) : got[i] # rows[j]
  <2>1. \A i \in DOMAIN got : got[i] \notin {rows[j] : j \in DOMAIN rows}
    BY DEF K!Duplicate, K!ToSet
  <2> HIDE DEF got, rows
  <2>2. DOMAIN got = 1..Len(got) /\ DOMAIN rows = 1..Len(rows)
    BY <1>1, <1>2
  <2> QED BY <2>1, <2>2
<1>5. table \subseteq Rows /\ table \subseteq touched /\ koiosStable \subseteq table /\ Rows \subseteq Nat \ {0}
  BY ReadsAssumption DEF PagingTyped
<1>6. /\ Clean(rows) /\ Len(rows) = walk.start
      /\ walk.pages = 0 => rows = <<>> /\ walk.cursor = 0
      /\ mode = "keyset" => \A x \in koiosStable : x <= walk.cursor => Holds(rows, x)
  BY DEF WalkFits
<1> HIDE DEF a, got, count, rows
<1>7. \A i \in 1..Len(got) : got[i] \in table
  BY <1>2
<1>8. got \in Seq(Rows)
  <2>1. got \in Seq(table) /\ table \subseteq Rows
    BY <1>2, <1>5
  <2>2. \A i \in 1..Len(got) : got[i] \in Rows
    BY <1>5, <1>7
  <2> QED BY <2>1, <2>2
<1>9. /\ a.rows \in Seq(Rows) /\ Len(a.rows) = Len(rows) + Len(got)
      /\ \A i \in 1..Len(rows) : a.rows[i] = rows[i]
      /\ \A i \in 1..Len(got) : a.rows[Len(rows) + i] = got[i]
      /\ \A x : Holds(a.rows, x) <=> Holds(rows, x) \/ Holds(got, x)
  BY <1>1, <1>3, <1>8, ConcatHolds
<1>10. Len(a.rows) = a.start
  BY <1>3, <1>6, <1>9
<1>11. got # <<>> => Len(got) \in 1..Len(got)
  BY <1>2
<1>12. a.cursor \in Nat /\ (got # <<>> => a.cursor > 0 /\ a.cursor = got[Len(got)])
  <2>1. CASE got = <<>>
    BY <1>1, <1>3, <2>1
  <2>2. CASE got # <<>>
    <3>1. a.cursor = got[Len(got)]
      BY <1>3, <2>2
    <3>2. got[Len(got)] \in table
      BY <1>7, <1>11, <2>2
    <3>3. a.cursor \in Nat \ {0}
      BY <1>5, <3>1, <3>2
    <3> QED BY <3>1, <3>3
  <2> QED BY <2>1, <2>2
<1>13. a \in Walk
  <2>1. a.rows \in Seq(Rows) /\ a.total \in Int /\ a.cursor \in Nat /\ a.pages \in Nat
    BY <1>1, <1>2, <1>3, <1>9, <1>12
  <2>2. a.start \in Nat
    BY <1>1, <1>2, <1>3
  <2>3. a = [rows |-> a.rows, start |-> a.start, total |-> a.total, cursor |-> a.cursor, pages |-> a.pages]
    BY <1>3
  <2> QED BY <2>1, <2>2, <2>3 DEF Walk
<1> DEFINE Old(i) == i \in 1..Len(rows)
           New(i) == i > Len(rows) /\ i - Len(rows) \in 1..Len(got)
<1>14. \A i \in 1..Len(a.rows) :
          \/ Old(i) /\ a.rows[i] = rows[i]
          \/ New(i) /\ a.rows[i] = got[i - Len(rows)]
  <2> TAKE i \in 1..Len(a.rows)
  <2>1. CASE Old(i)
    BY <1>9, <2>1
  <2>2. CASE ~Old(i)
    <3>1. i - Len(rows) \in 1..Len(got) /\ Len(rows) + (i - Len(rows)) = i /\ i > Len(rows)
      BY <1>1, <1>2, <1>9, <2>2
    <3> QED BY <1>9, <3>1
  <2> QED BY <2>1, <2>2
<1>15. ASSUME NEW i \in 1..Len(a.rows), NEW j \in 1..Len(a.rows), a.rows[i] = a.rows[j]
       PROVE  i = j
  <2>1. CASE Old(i) /\ Old(j)
    <3>1. a.rows[i] = rows[i] /\ a.rows[j] = rows[j]
      BY <1>9, <2>1
    <3> QED BY <1>6, <1>15, <2>1, <3>1 DEF Clean
  <2>2. CASE New(i) /\ New(j)
    <3>1. ~Old(i) /\ ~Old(j)
      BY <1>1, <2>2
    <3>2. got[i - Len(rows)] = got[j - Len(rows)]
      BY <1>14, <1>15, <3>1
    <3>3. i - Len(rows) = j - Len(rows)
      BY <1>2, <2>2, <3>2
    <3> QED BY <1>1, <3>3
  <2>3. CASE Old(i) /\ New(j)
    <3>1. ~Old(j) /\ ~New(i)
      BY <1>1, <2>3
    <3> QED BY <1>4, <1>14, <1>15, <2>3, <3>1
  <2>4. CASE New(i) /\ Old(j)
    <3>1. ~Old(i) /\ ~New(j)
      BY <1>1, <2>4
    <3> QED BY <1>4, <1>14, <1>15, <2>4, <3>1
  <2> QED BY <1>14, <2>1, <2>2, <2>3, <2>4
<1>16. ASSUME NEW i \in 1..Len(a.rows) PROVE a.rows[i] \in touched
  BY <1>5, <1>6, <1>7, <1>14 DEF Clean
<1>17. got = <<>> => a.rows = rows
  <2>1. rows \o <<>> = rows
    BY <1>1, ConcatEmptySeq
  <2> QED BY <1>3, <2>1
<1>18. ASSUME mode = "keyset", NEW x \in koiosStable,
              Len(got) = count \/ (got # <<>> /\ x <= a.cursor)
       PROVE  Holds(a.rows, x)
  <2>1. x \in table /\ x \in Nat
    BY <1>5
  <2>2. CASE x <= walk.cursor
    BY <1>6, <1>9, <1>18, <2>2
  <2>3. CASE ~(x <= walk.cursor)
    <3>1. x > walk.cursor
      BY <1>1, <2>1, <2>3
    <3>2. Holds(got, x) \/ (Len(got) < count /\ got # <<>> /\ got[Len(got)] < x)
      BY <1>2, <1>18, <2>1, <3>1
    <3>3. CASE Len(got) < count /\ got # <<>> /\ got[Len(got)] < x
      BY <1>2, <1>12, <1>18, <2>1, <3>3
    <3> QED BY <1>9, <3>2, <3>3
  <2> QED BY <2>2, <2>3
<1>19. ASSUME mode # "keyset", walk.pages = 0, Len(got) = count, NEW x \in table
       PROVE  Holds(a.rows, x)
  <2>1. walk.start = 0
    BY <1>6, <1>19
  <2> QED BY <1>2, <1>9, <1>19, <2>1
<1> QED BY <1>3, <1>9, <1>10, <1>12, <1>13, <1>15, <1>16, <1>17, <1>18, <1>19
        DEF a, got, count, rows

\* A walk that goes on.
LEMMA GoesOnFits ==
    ASSUME PagingTyped, WalkFits(walk), ~K!WalkFails(TRUE), ~K!WalkEnds(TRUE)
    PROVE  /\ K!Appended \in Walk /\ WalkFits(K!Appended)
           /\ \A x : Holds(K!Appended.rows, x) <=> Holds(walk.rows, x) \/ Holds(K!Page, x)
<1> DEFINE a == K!Appended
           got == K!Page
           count == K!Count
<1>1. got # <<>> /\ ~K!TooMany /\ ~K!Duplicate(got)
  BY DEF K!WalkFails, K!WalkEnds
<1>2. /\ a \in Walk /\ a.pages = walk.pages + 1
      /\ a.start = walk.start + Len(got) /\ Len(a.rows) = a.start
      /\ \A i, j \in 1..Len(a.rows) : a.rows[i] = a.rows[j] => i = j
      /\ \A i \in 1..Len(a.rows) : a.rows[i] \in touched
      /\ \A x : Holds(a.rows, x) <=> Holds(walk.rows, x) \/ Holds(got, x)
      /\ got # <<>> => a.cursor > 0
      /\ mode = "keyset" /\ got # <<>> =>
            \A x \in koiosStable : x <= a.cursor => Holds(a.rows, x)
  BY <1>1, AppendedIs
<1>3. /\ Len(got) <= count /\ count \in Nat /\ Len(got) \in Nat
      /\ mode # "keyset" /\ got # <<>> => walk.start + Len(got) <= count
  BY PageIs
<1>4. /\ walk.start \in Nat /\ walk.pages \in Nat /\ Len(walk.rows) = walk.start
      /\ walk.pages = 0 => walk.start = 0
  BY WalkRanges DEF PagingTyped, WalkFits
<1>5. a.start <= MaxPagedRows
  <2>1. MaxPagedRows \in Nat
    BY ReadsAssumption
  <2>2. CASE mode = "keyset" /\ walk.pages > 0
    <3>1. K!PagedRows = Len(walk.rows) + Len(got)
      BY <2>2 DEF K!PagedRows, K!Keyset
    <3> HIDE DEF got
    <3> QED BY <1>1, <1>2, <1>3, <1>4, <2>1, <3>1 DEF K!TooMany
  <2>3. CASE ~(mode = "keyset" /\ walk.pages > 0)
    <3>1. K!PagedRows = count
      BY <2>3 DEF K!PagedRows, K!Keyset
    <3>2. count <= MaxPagedRows
      <4> HIDE DEF count
      <4> QED BY <1>1, <1>3, <2>1, <3>1 DEF K!TooMany
    <3>3. walk.start + Len(got) <= count
      <4> HIDE DEF got, count
      <4>1. CASE mode = "keyset"
        <5>1. walk.pages = 0
          BY <1>4, <2>3, <4>1
        <5> QED BY <1>3, <1>4, <5>1
      <4>2. CASE mode # "keyset"
        BY <1>1, <1>3, <4>2
      <4> QED BY <4>1, <4>2
    <3> HIDE DEF got, count
    <3> QED BY <1>2, <1>3, <1>4, <2>1, <3>2, <3>3
  <2> QED BY <2>2, <2>3
<1> HIDE DEF a, got, count
<1>6. a.pages # 0
  BY <1>2, <1>4
<1> QED BY <1>1, <1>2, <1>5, <1>6 DEF WalkFits, Clean, a, got

\* A walk that ends without an error.
LEMMA EndsFit ==
    ASSUME PagingTyped, WalkFits(walk), NEW ranged \in BOOLEAN,
           ~K!WalkFails(ranged), K!WalkEnds(ranged)
    PROVE  LET a == K!Appended
           IN  /\ a \in Walk /\ Clean(a.rows)
               /\ \A x : Holds(a.rows, x) <=> Holds(walk.rows, x) \/ Holds(K!Page, x)
               /\ mode = "keyset" => \A x \in koiosStable : Holds(a.rows, x)
               /\ mode = "verified" /\ ~K!Compares(a) => \A x \in koiosStable : Holds(a.rows, x)
               /\ K!Compares(a) => Len(a.rows) = Cardinality(table)
<1> DEFINE a == K!Appended
           got == K!Page
           count == K!Count
<1>1. ~K!Duplicate(got)
  <2>1. CASE ranged /\ got = <<>>
    BY <2>1 DEF K!Duplicate
  <2>2. CASE ~(ranged /\ got = <<>>)
    BY <2>2 DEF K!WalkFails
  <2> QED BY <2>1, <2>2
<1>2. /\ a \in Walk /\ a.pages = walk.pages + 1
      /\ a.start = walk.start + Len(got) /\ Len(a.rows) = a.start
      /\ \A i, j \in 1..Len(a.rows) : a.rows[i] = a.rows[j] => i = j
      /\ \A i \in 1..Len(a.rows) : a.rows[i] \in touched
      /\ \A x : Holds(a.rows, x) <=> Holds(walk.rows, x) \/ Holds(got, x)
      /\ got = <<>> => a.rows = walk.rows
      /\ mode = "keyset" /\ Len(got) = count => \A x \in koiosStable : Holds(a.rows, x)
      /\ mode # "keyset" /\ walk.pages = 0 /\ Len(got) = count =>
            \A x \in table : Holds(a.rows, x)
  BY <1>1, AppendedIs
<1>3. /\ Len(got) <= count /\ count \in Nat /\ Len(got) \in Nat /\ Len(got) <= PageSize
      /\ count > 0 /\ mode = "keyset" => got # <<>>
      /\ mode # "keyset" => /\ count = Cardinality(table)
                            /\ got # <<>> => walk.start + Len(got) <= count
  BY PageIs
<1>4. /\ walk.start \in Nat /\ walk.pages \in Nat /\ Len(walk.rows) = walk.start
      /\ walk.start <= MaxPagedRows /\ walk.cursor \in Nat
      /\ walk.pages = 0 => walk.start = 0
      /\ walk.pages # 0 => walk.cursor > 0
  BY WalkRanges DEF PagingTyped, WalkFits, Clean
<1>5. MaxPagedRows \in Nat /\ PageSize \in Nat /\ PageSize <= MaxPagedRows
  BY ReadsAssumption
<1>6. koiosStable \subseteq table
  BY DEF PagingTyped
<1>7. mode = "keyset" <=> K!Keyset
  BY DEF K!Keyset
<1>8. K!Partial <=> Len(got) < count
  BY DEF K!Partial
<1>9. CASE ~ranged
  <2>1. walk.pages = 0 /\ ~K!Partial /\ Len(got) < PageSize
    BY <1>9 DEF K!WalkFails, K!WithoutRange
  <2> HIDE DEF a, got, count
  <2>2. Len(got) = count /\ a.pages = 1
    BY <1>2, <1>3, <1>4, <1>8, <2>1
  <2>3. ~K!Compares(a)
    BY <2>2 DEF K!Compares
  <2>4. Len(a.rows) <= MaxPagedRows
    BY <1>2, <1>3, <1>4, <1>5, <2>1
  <2> QED BY <1>2, <1>6, <2>1, <2>2, <2>3, <2>4 DEF Clean, a, got
<1>10. CASE ranged /\ got = <<>>
  <2>1. K!EmptyIsEnd
    BY <1>10 DEF K!WalkFails
  <2>2. Len(got) = 0
    BY <1>10
  <2>3. IF K!Keyset THEN walk.cursor = 0 ELSE count = walk.start
    BY <2>1 DEF K!EmptyIsEnd
  <2> HIDE DEF a, got, count
  <2>4. Len(a.rows) <= MaxPagedRows /\ Len(a.rows) = walk.start
    BY <1>2, <1>4, <2>2
  <2>5. mode = "keyset" => walk.pages = 0 /\ Len(got) = count
    BY <1>3, <1>4, <1>7, <1>10, <2>2, <2>3
  <2>6. ASSUME mode = "verified", ~K!Compares(a) PROVE \A x \in koiosStable : Holds(a.rows, x)
    <3>1. mode # "keyset" /\ a.pages <= 1
      BY <1>2, <1>4, <2>6 DEF K!Compares, K!VerifyConsistency, K!Keyset
    <3>2. walk.pages = 0
      BY <1>2, <1>4, <3>1
    <3>3. Len(got) = count
      BY <1>4, <1>7, <2>2, <2>3, <3>1, <3>2
    <3> QED BY <1>2, <1>6, <3>1, <3>2, <3>3
  <2>7. ASSUME K!Compares(a) PROVE Len(a.rows) = Cardinality(table)
    <3>1. mode # "keyset"
      BY <2>7 DEF K!Compares, K!Keyset
    <3> QED BY <1>3, <1>7, <2>3, <2>4, <3>1
  <2> QED BY <1>2, <2>4, <2>5, <2>6, <2>7 DEF Clean, a, got
<1>11. CASE ranged /\ got # <<>>
  <2>1. ~K!TooMany /\ K!ReachesEnd
    BY <1>11 DEF K!WalkFails, K!WalkEnds
  <2>2. IF K!Keyset THEN count <= Len(got) ELSE a.start = count
    BY <2>1 DEF K!ReachesEnd, K!KeysetEnds
  <2>3. K!PagedRows = IF K!Keyset /\ walk.pages > 0 THEN Len(walk.rows) + Len(got) ELSE count
    BY DEF K!PagedRows
  <2>4. ~(K!PagedRows > MaxPagedRows)
    BY <2>1 DEF K!TooMany
  <2> HIDE DEF a, got, count
  <2>5. a.start <= MaxPagedRows
    <3>1. CASE K!Keyset /\ walk.pages > 0
      BY <1>2, <1>3, <1>4, <1>5, <2>3, <2>4, <3>1
    <3>2. CASE ~(K!Keyset /\ walk.pages > 0)
      <4>1. count <= MaxPagedRows
        BY <1>3, <1>5, <2>3, <2>4, <3>2
      <4>2. a.start <= count
        <5>1. CASE K!Keyset
          <6>1. walk.start = 0
            BY <1>4, <3>2, <5>1
          <6> QED BY <1>2, <1>3, <6>1
        <5>2. CASE ~K!Keyset
          BY <1>3, <2>2, <5>2
        <5> QED BY <5>1, <5>2
      <4> QED BY <1>2, <1>3, <1>4, <1>5, <4>1, <4>2
    <3> QED BY <3>1, <3>2
  <2>6. mode = "keyset" => Len(got) = count
    BY <1>3, <1>7, <2>2
  <2>7. ASSUME mode = "verified", ~K!Compares(a) PROVE \A x \in koiosStable : Holds(a.rows, x)
    <3>1. mode # "keyset" /\ a.pages <= 1
      BY <1>2, <1>4, <2>7 DEF K!Compares, K!VerifyConsistency, K!Keyset
    <3>2. walk.pages = 0
      BY <1>2, <1>4, <3>1
    <3>3. Len(got) = count
      BY <1>2, <1>3, <1>4, <1>7, <2>2, <3>1, <3>2
    <3> QED BY <1>2, <1>6, <3>1, <3>2, <3>3
  <2>8. ASSUME K!Compares(a) PROVE Len(a.rows) = Cardinality(table)
    <3>1. mode # "keyset"
      BY <2>8 DEF K!Compares, K!Keyset
    <3> QED BY <1>2, <1>3, <1>7, <2>2, <3>1
  <2> QED BY <1>2, <2>5, <2>6, <2>7, <2>8 DEF Clean, a, got
<1> QED BY <1>9, <1>10, <1>11

\* As many different rows as the table has, all of it, are the table.
LEMMA SameSizeHolds ==
    ASSUME PagingTyped, NEW rows \in Seq(Rows), Len(rows) = Cardinality(table),
           \A i, j \in 1..Len(rows) : rows[i] = rows[j] => i = j,
           \A i \in 1..Len(rows) : rows[i] \in table,
           NEW x \in table
    PROVE  Holds(rows, x)
<1> DEFINE n == Len(rows)
<1>1. n \in Nat /\ IsFiniteSet(table) /\ Cardinality(table) = n
  <2>1. table \subseteq Rows /\ IsFiniteSet(Rows)
    BY ReadsAssumption DEF PagingTyped
  <2> QED BY <2>1, FS_Subset
<1>2. IsFiniteSet(1..n) /\ Cardinality(1..n) = n
  BY <1>1, FS_Interval
<1>3. rows \in [1..n -> table]
  BY <1>1
<1>4. rows \in Injection(1..n, table)
  BY <1>3 DEF Injection, IsInjective
<1>5. rows \in Surjection(1..n, table)
  <2> HIDE DEF n
  <2> QED BY <1>1, <1>2, <1>4, FS_Injection
<1> QED BY <1>5 DEF Surjection, Holds

\* What is clean stays so as rows are created.
LEMMA CleanStays ==
    ASSUME NEW rows, touched \subseteq touched', Clean(rows)
    PROVE  Clean(rows)'
BY DEF Clean

\* Rows come and go.  A row that is gone does not come back.
LEMMA TableMoves ==
    ASSUME PagingInv, K!Running, UNCHANGED <<mode, walk, first, koiosRead>>,
           koiosStable' \subseteq koiosStable, koiosStable' \subseteq table', table' \subseteq touched',
           touched \subseteq touched', touched' \subseteq ever', ever' \subseteq Rows,
           ever \ table \subseteq ever' \ table'
    PROVE  PagingInv'
<1>1. koiosRead.st \in {"idle", "walking"}
  BY DEF K!Running
<1>2. PagingTyped'
  BY DEF PagingInv, PagingTyped
<1>3. ASSUME koiosRead.st = "walking" PROVE WalkFits(walk)'
  <2>1. WalkFits(walk)
    BY <1>3 DEF PagingInv
  <2>2. Clean(walk.rows)'
    BY <2>1, CleanStays DEF WalkFits
  <2> QED BY <2>1, <2>2 DEF WalkFits, Holds
<1>4. ASSUME koiosRead.st = "walking", first # <<>> PROVE SecondFits'
  <2>1. SecondFits
    BY <1>4 DEF PagingInv
  <2> QED BY <2>1 DEF SecondFits, Holds
<1>5. Clean(koiosRead.result)'
  BY CleanStays DEF PagingInv
<1> QED BY <1>1, <1>2, <1>3, <1>4, <1>5 DEF PagingInv

LEMMA CreateKeeps == ASSUME PagingInv, NEW x \in Rows, K!Create(x) PROVE PagingInv'
<1>1. /\ K!Running /\ x \notin ever /\ table' = table \cup {x} /\ ever' = ever \cup {x}
      /\ touched' = touched \cup {x} /\ UNCHANGED <<mode, walk, first, koiosRead, koiosStable>>
  BY DEF K!Create
<1>2. PagingTyped
  BY DEF PagingInv
<1> QED BY <1>1, <1>2, TableMoves DEF PagingTyped

LEMMA RowSpendKeeps == ASSUME PagingInv, NEW x \in Rows, K!Spend(x) PROVE PagingInv'
<1>1. /\ K!Running /\ x \in table /\ table' = table \ {x} /\ koiosStable' = koiosStable \ {x}
      /\ UNCHANGED <<mode, ever, walk, first, koiosRead, touched>>
  BY DEF K!Spend
<1>2. PagingTyped
  BY DEF PagingInv
<1> QED BY <1>1, <1>2, TableMoves DEF PagingTyped

\* An empty walk.
LEMMA NewWalkIs ==
    /\ K!NewWalk \in Walk /\ K!NewWalk.rows = <<>> /\ K!NewWalk.start = 0
    /\ K!NewWalk.pages = 0 /\ K!NewWalk.cursor = 0
BY DEF K!NewWalk, Walk

LEMMA NothingIsClean == Clean(<<>>) /\ Clean(<<>>)'
<1>1. MaxPagedRows \in Nat
  BY ReadsAssumption
<1> QED BY <1>1 DEF Clean

LEMMA NewWalkFits == ASSUME PagingTyped', walk' = K!NewWalk PROVE WalkFits(walk)'
<1>1. koiosStable' \subseteq Rows
  BY DEF PagingTyped
<1>2. \A x \in Rows : x \in Nat /\ x # 0
  BY ReadsAssumption
<1>3. ASSUME NEW x \in koiosStable' PROVE ~(x <= 0)
  <2>1. x \in Nat /\ x # 0
    BY <1>1, <1>2
  <2> QED BY <2>1
<1> QED BY <1>3, NewWalkIs, NothingIsClean DEF WalkFits

LEMMA ReadBeginKeeps == ASSUME PagingInv, K!Begin PROVE PagingInv'
<1>1. /\ koiosRead.st = "idle" /\ koiosRead' = [koiosRead EXCEPT !.st = "walking"]
      /\ walk' = K!NewWalk /\ koiosStable' = table /\ touched' = table
      /\ UNCHANGED <<mode, table, ever, first>>
  BY DEF K!Begin
<1>2. PagingTyped /\ first = <<>> /\ koiosRead.result = <<>>
  BY <1>1 DEF PagingInv
<1>3. koiosRead'.st = "walking" /\ koiosRead'.result = <<>>
  BY <1>1, <1>2 DEF PagingTyped
<1>4. PagingTyped'
  BY <1>1, <1>2, NewWalkIs DEF PagingTyped
<1>5. WalkFits(walk)'
  BY <1>1, <1>4, NewWalkFits
<1> QED BY <1>1, <1>2, <1>3, <1>4, <1>5, NothingIsClean DEF PagingInv

\* What the walk has, it has from the table.
LEMMA PageIsOfTable ==
    ASSUME PagingTyped, NEW x, Holds(K!Page, x)
    PROVE  x \in table
<1> DEFINE got == K!Page
<1>1. got \in Seq(table)
  BY PageIs
<1> HIDE DEF got
<1>2. Holds(got, x)
  BY DEF got
<1> QED BY <1>1, <1>2 DEF Holds

LEMMA PageArrivesKeeps == ASSUME PagingInv, K!PageArrives PROVE PagingInv'
<1> DEFINE a == K!Appended
<1>1. /\ koiosRead.st = "walking" /\ ~K!WalkFails(TRUE) /\ ~K!WalkEnds(TRUE) /\ walk' = a
      /\ UNCHANGED <<mode, table, ever, first, koiosRead, koiosStable, touched>>
  BY DEF K!PageArrives
<1>2. PagingTyped /\ WalkFits(walk)
  BY <1>1 DEF PagingInv
<1>3. /\ a \in Walk /\ WalkFits(a)
      /\ \A x : Holds(a.rows, x) <=> Holds(walk.rows, x) \/ Holds(K!Page, x)
  BY <1>1, <1>2, GoesOnFits
<1> HIDE DEF a
<1>4. PagingTyped'
  BY <1>1, <1>2, <1>3 DEF PagingTyped
<1>5. WalkFits(walk)'
  BY <1>1, <1>3 DEF WalkFits, Clean
<1>6. ASSUME first # <<>> PROVE SecondFits'
  <2>1. SecondFits
    BY <1>1, <1>6 DEF PagingInv
  <2>2. \A x \in ever \ table : Holds(walk'.rows, x) => Holds(walk.rows, x)
    BY <1>1, <1>2, <1>3, PageIsOfTable
  <2> QED BY <1>1, <2>1, <2>2 DEF SecondFits
<1>7. Clean(koiosRead.result)'
  BY <1>1 DEF PagingInv, Clean
<1> QED BY <1>1, <1>4, <1>5, <1>6, <1>7 DEF PagingInv

LEMMA ReadFailsKeeps == ASSUME PagingInv, koiosRead.st = "walking", K!Fails PROVE PagingInv'
<1>1. /\ first' = <<>> /\ walk' = K!NewWalk /\ UNCHANGED <<mode, table, ever, koiosStable, touched>>
      /\ \/ koiosRead' = [koiosRead EXCEPT !.st = "idle", !.attempt = K!NextAttempt]
         \/ koiosRead' = [koiosRead EXCEPT !.st = "failed"]
  BY DEF K!Fails
<1>2. PagingTyped /\ koiosRead.result = <<>>
  BY DEF PagingInv
<1>3. /\ koiosRead' \in [st : {"idle", "walking", "done", "failed"}, attempt : Int, result : Seq(Rows)]
      /\ koiosRead'.st \in {"idle", "failed"} /\ koiosRead'.result = <<>>
  <2>1. K!NextAttempt \in Int
    BY <1>2, ReadRanges DEF K!NextAttempt
  <2>2. koiosRead \in [st : {"idle", "walking", "done", "failed"}, attempt : Int, result : Seq(Rows)]
    BY <1>2 DEF PagingTyped
  <2> QED BY <1>1, <1>2, <2>1, <2>2
<1>4. PagingTyped'
  BY <1>1, <1>2, <1>3, NewWalkIs DEF PagingTyped
<1> QED BY <1>1, <1>3, <1>4, NothingIsClean DEF PagingInv

LEMMA RequestRefusedKeeps == ASSUME PagingInv, K!RequestRefused PROVE PagingInv'
<1>1. /\ koiosRead.st = "walking" /\ koiosRead' = [koiosRead EXCEPT !.st = "failed"]
      /\ UNCHANGED <<mode, table, ever, walk, first, koiosStable, touched>>
  BY DEF K!RequestRefused
<1>2. PagingTyped /\ koiosRead.result = <<>>
  BY <1>1 DEF PagingInv
<1>3. koiosRead'.st = "failed" /\ koiosRead'.result = <<>>
  BY <1>1, <1>2 DEF PagingTyped
<1>4. PagingTyped'
  BY <1>1, <1>2 DEF PagingTyped
<1> QED BY <1>3, <1>4, NothingIsClean DEF PagingInv

\* The read ends with rows that are clean and complete.
LEMMA ResolvesKeeps ==
    ASSUME PagingInv, NEW rows \in Seq(Rows), K!Resolves(rows), Clean(rows),
           mode # "once" => \A x \in koiosStable : Holds(rows, x)
    PROVE  PagingInv'
<1>1. /\ koiosRead' = [koiosRead EXCEPT !.st = "done", !.result = rows]
      /\ UNCHANGED <<mode, table, ever, walk, first, koiosStable, touched>>
  BY DEF K!Resolves
<1>2. PagingTyped
  BY DEF PagingInv
<1>3. koiosRead'.st = "done" /\ koiosRead'.result = rows
  BY <1>1, <1>2 DEF PagingTyped
<1>4. PagingTyped'
  BY <1>1, <1>2 DEF PagingTyped
<1>5. Clean(koiosRead.result)'
  BY <1>1, <1>3 DEF Clean
<1> QED BY <1>1, <1>3, <1>4, <1>5 DEF PagingInv

LEMMA WalkCompletesKeeps ==
    ASSUME PagingInv, NEW ranged \in BOOLEAN, K!WalkCompletes(ranged)
    PROVE  PagingInv'
<1> DEFINE a == K!Appended
<1>1. koiosRead.st = "walking" /\ ~K!WalkFails(ranged) /\ K!WalkEnds(ranged)
  BY DEF K!WalkCompletes
<1>2. PagingTyped /\ WalkFits(walk) /\ koiosRead.result = <<>>
  BY <1>1 DEF PagingInv
<1>3. /\ a \in Walk /\ Clean(a.rows)
      /\ \A x : Holds(a.rows, x) <=> Holds(walk.rows, x) \/ Holds(K!Page, x)
      /\ mode = "keyset" => \A x \in koiosStable : Holds(a.rows, x)
      /\ mode = "verified" /\ ~K!Compares(a) => \A x \in koiosStable : Holds(a.rows, x)
      /\ K!Compares(a) => Len(a.rows) = Cardinality(table)
  BY <1>1, <1>2, EndsFit
<1>4. a.rows \in Seq(Rows) /\ mode \in {"keyset", "verified", "once"}
  BY <1>2, <1>3, WalkRanges DEF PagingTyped
<1>5. CASE first = <<>> /\ ~K!Compares(a) /\ K!Resolves(a.rows)
  BY <1>3, <1>4, <1>5, ResolvesKeeps
<1>6. CASE /\ first = <<>> /\ K!Compares(a) /\ first' = a.rows /\ walk' = K!NewWalk
           /\ UNCHANGED <<mode, table, ever, koiosRead, koiosStable, touched>>
  <2>1. PagingTyped'
    BY <1>2, <1>4, <1>6, NewWalkIs DEF PagingTyped
  <2>2. WalkFits(walk)'
    BY <1>6, <2>1, NewWalkFits
  <2>3. SecondFits'
    <3>1. CASE \A i \in 1..Len(a.rows) : a.rows[i] \in table
      <4>1. \A i, j \in 1..Len(a.rows) : a.rows[i] = a.rows[j] => i = j
        BY <1>3 DEF Clean
      <4> HIDE DEF a
      <4>2. \A x \in table : Holds(a.rows, x)
        BY <1>2, <1>3, <1>4, <1>6, <3>1, <4>1, SameSizeHolds
      <4>3. koiosStable' \subseteq table
        BY <1>2, <1>6 DEF PagingTyped
      <4> QED BY <1>6, <4>2, <4>3 DEF SecondFits
    <3>2. CASE \E i \in 1..Len(a.rows) : a.rows[i] \notin table
      <4> HIDE DEF a
      <4>1. PICK i \in 1..Len(a.rows) : a.rows[i] \notin table
        BY <3>2
      <4>2. a.rows[i] \in ever' \ table' /\ Holds(a.rows, a.rows[i])
        BY <1>2, <1>3, <1>6, <4>1 DEF Clean, PagingTyped, Holds
      <4>3. ~Holds(walk'.rows, a.rows[i])
        BY <1>6, NewWalkIs DEF Holds
      <4> QED BY <1>6, <4>2, <4>3 DEF SecondFits
    <3> QED BY <3>1, <3>2
  <2>4. Clean(koiosRead.result)'
    BY <1>2, <1>6, NothingIsClean
  <2> HIDE DEF a
  <2> QED BY <1>1, <1>2, <1>6, <2>1, <2>2, <2>3, <2>4 DEF PagingInv
<1>7. CASE first # <<>> /\ K!SameMembership(first, a.rows) /\ K!Resolves(a.rows)
  <2>1. first = a.rows
    BY <1>7 DEF K!SameMembership
  <2>2. SecondFits
    BY <1>1, <1>7 DEF PagingInv
  <2>3. ~\E x \in ever \ table : Holds(first, x) /\ ~Holds(walk.rows, x)
    <3> HIDE DEF a
    <3> QED BY <1>2, <1>3, <2>1, PageIsOfTable
  <2>4. \A x \in koiosStable : Holds(a.rows, x)
    <3> HIDE DEF a
    <3> QED BY <2>1, <2>2, <2>3 DEF SecondFits
  <2> QED BY <1>3, <1>4, <1>7, <2>4, ResolvesKeeps
<1>8. CASE first # <<>> /\ ~K!SameMembership(first, a.rows) /\ K!Fails
  BY <1>1, <1>8, ReadFailsKeeps
<1> QED BY <1>5, <1>6, <1>7, <1>8 DEF K!WalkCompletes

LEMMA PagingStep == ASSUME PagingInv, K!Next PROVE PagingInv'
<1>1. CASE \E x \in Rows : K!Create(x)
  BY <1>1, CreateKeeps
<1>2. CASE \E x \in Rows : K!Spend(x)
  BY <1>2, RowSpendKeeps
<1>3. CASE K!Begin
  BY <1>3, ReadBeginKeeps
<1>4. CASE K!PageArrives
  BY <1>4, PageArrivesKeeps
<1>5. CASE K!RequestFails
  BY <1>5, ReadFailsKeeps DEF K!RequestFails
<1>6. CASE K!RequestRefused
  BY <1>6, RequestRefusedKeeps
<1>7. ASSUME NEW ranged \in BOOLEAN, K!WalkCompletes(ranged) PROVE PagingInv'
  BY <1>7, WalkCompletesKeeps
<1>8. ASSUME NEW ranged \in BOOLEAN, K!PageContradicts(ranged) PROVE PagingInv'
  BY <1>8, ReadFailsKeeps DEF K!PageContradicts
<1> QED BY <1>1, <1>2, <1>3, <1>4, <1>5, <1>6, <1>7, <1>8 DEF K!Next, K!Settles

LEMMA PagingRests == ASSUME PagingInv, UNCHANGED pagingVars PROVE PagingInv'
BY DEF PagingInv, PagingTyped, Clean, WalkFits, SecondFits, Holds, pagingVars

LEMMA PagingStart == ASSUME K!Init PROVE PagingInv
<1>1. /\ mode \in {"keyset", "verified", "once"} /\ table \in SUBSET Rows /\ ever = table
      /\ walk = K!NewWalk /\ first = <<>> /\ koiosStable = table /\ touched = table
      /\ koiosRead = [st |-> "idle", attempt |-> 1, result |-> <<>>]
  BY DEF K!Init
<1>2. koiosRead.st = "idle" /\ koiosRead.result = <<>>
  BY <1>1
<1>3. PagingTyped
  BY <1>1, NewWalkIs DEF PagingTyped
<1> QED BY <1>1, <1>2, <1>3, NothingIsClean DEF PagingInv

\* A read of unspent outputs from Koios that resolves holds every one that was
\* unspent from its first to its last request, holds none twice and none that
\* was not there meanwhile, and never more of them than the bound, whatever was
\* created and spent between its pages (batchAllPages, walkBatchPages).
THEOREM KoiosReadsStayWhole ==
    Spec => [](K!StableRowsReturned /\ K!EachRowOnce /\ K!ResultBounded)
<1>1. Init => PagingInv
  BY PagingStart DEF Init
<1>2. PagingInv /\ [Next]_vars => PagingInv'
  <2> SUFFICES ASSUME PagingInv, [Next]_vars PROVE PagingInv'
    OBVIOUS
  <2>1. K!Next \/ UNCHANGED pagingVars
    BY DEF Next, vars, Paging, Utxos, Lookup, Account, History, Batch
  <2> QED BY <2>1, PagingStep, PagingRests
<1>3. ASSUME PagingInv PROVE K!StableRowsReturned /\ K!EachRowOnce /\ K!ResultBounded
  <2> DEFINE rows == koiosRead.result
  <2>1. rows \in Seq(Rows) /\ Clean(rows)
    BY <1>3, ReadRanges DEF PagingInv
  <2>2. DOMAIN rows = 1..Len(rows)
    BY <2>1
  <2>3. \A x : Holds(rows, x) => x \in K!ToSet(rows)
    BY <2>2 DEF Holds, K!ToSet
  <2>4. K!StableRowsReturned
    BY <1>3, <2>3 DEF PagingInv, K!StableRowsReturned
  <2>5. K!IsInjective(rows) /\ K!ToSet(rows) \subseteq touched
    BY <2>1, <2>2 DEF Clean, K!IsInjective, K!ToSet
  <2> QED BY <2>1, <2>4, <2>5 DEF K!EachRowOnce, K!ResultBounded, Clean
<1> QED BY <1>1, <1>2, <1>3, PTL DEF Spec

-----------------------------------------------------------------------------
(* Blockfrost: walks that have to agree.                                    *)

Row == [out : Outs, blk : Nat]

Own(s) == {r \in live : owner[r.out] = s}

Rank(S, r) == Cardinality({q \in S : q.blk <= r.blk})

\* An output is in one block, and a block makes one.
Distinct(S) == \A q, r \in S : q.out = r.out \/ q.blk = r.blk => q = r

\* The first rows of S, in order.
InStep(S, rows) == \A i \in 1..Len(rows) : rows[i] \in S /\ Rank(S, rows[i]) = i

LEMMA RankIs == ASSUME NEW S, NEW r PROVE B!Place(r, S) = Rank(S, r)
BY DEF B!Place, Rank, B!Cardinality, Cardinality

LEMMA Ranks ==
    ASSUME NEW S \in SUBSET Row, IsFiniteSet(S), Distinct(S)
    PROVE  /\ Cardinality(S) \in Nat
           /\ \A r \in S : Rank(S, r) \in 1..Cardinality(S)
           /\ \A n \in 1..Cardinality(S) : \E r \in S : Rank(S, r) = n
           /\ \A q, r \in S : q.blk < r.blk => Rank(S, q) < Rank(S, r)
           /\ \A q, r \in S : Rank(S, q) = Rank(S, r) => q = r
           /\ \A r \in S : r.blk \in Nat
<1> DEFINE ord == {w \in S \X S : w[1].blk < w[2].blk}
<1>1. \A x, y \in S : <<x, y>> \in ord <=> x.blk < y.blk
  OBVIOUS
<1>2. \A x \in S : x.blk \in Nat
  BY DEF Row
<1> HIDE DEF ord
<1>3. \A x, y \in S : x # y => x.blk # y.blk
  BY DEF Distinct
<1>4. IsOrder(S, ord)
  <2>1. \A x, y \in S : x # y => x.blk < y.blk \/ y.blk < x.blk
    BY <1>2, <1>3
  <2>2. \A x, y \in S : x.blk < y.blk => ~(y.blk < x.blk)
    BY <1>2
  <2>3. \A x, y, z \in S : x.blk < y.blk /\ y.blk < z.blk => x.blk < z.blk
    BY <1>2
  <2> QED BY <1>1, <2>1, <2>2, <2>3 DEF IsOrder
<1>5. \A x \in S : UpTo(S, ord, x) = {q \in S : q.blk <= x.blk}
  <2>1. \A x, y \in S : y = x \/ y.blk < x.blk <=> y.blk <= x.blk
    BY <1>2, <1>3
  <2> QED BY <1>1, <2>1 DEF UpTo
<1>6. \A x \in S : Cardinality(UpTo(S, ord, x)) = Rank(S, x)
  BY <1>5 DEF Rank
<1>7. /\ Cardinality(S) \in Nat
      /\ \A x \in S : Rank(S, x) \in 1..Cardinality(S)
      /\ \A n \in 1..Cardinality(S) : \E x \in S : Rank(S, x) = n
  BY <1>4, <1>6, PlacesTaken
<1>8. ASSUME NEW q \in S, NEW r \in S, q.blk < r.blk PROVE Rank(S, q) < Rank(S, r)
  <2>1. <<q, r>> \in ord
    BY <1>1, <1>8
  <2>2. Cardinality(UpTo(S, ord, q)) < Cardinality(UpTo(S, ord, r))
    BY <1>4, <2>1, PlacesGrow
  <2> QED BY <1>6, <2>2
<1>9. ASSUME NEW q \in S, NEW r \in S, Rank(S, q) = Rank(S, r) PROVE q = r
  <2>1. ~(q.blk < r.blk) /\ ~(r.blk < q.blk)
    BY <1>7, <1>8, <1>9
  <2> QED BY <1>2, <1>3, <2>1
<1> QED BY <1>2, <1>7, <1>8, <1>9

LEMMA RowAtRank ==
    ASSUME NEW S \in SUBSET Row, IsFiniteSet(S), Distinct(S), NEW rows \in Seq(Row),
           InStep(S, rows), NEW r \in S, Rank(S, r) <= Len(rows)
    PROVE  Rank(S, r) \in 1..Len(rows) /\ rows[Rank(S, r)] = r
<1>1. Rank(S, r) \in 1..Len(rows)
  BY Ranks
<1> QED BY <1>1, Ranks DEF InStep

\* A new row comes after those there are; a row that goes leaves the places
\* before it alone.
LEMMA RowAdded ==
    ASSUME NEW S \in SUBSET Row, NEW new \in Row, \A q \in S : q.blk < new.blk,
           NEW rows, InStep(S, rows)
    PROVE  InStep(S \cup {new}, rows)
<1>1. ASSUME NEW q \in S PROVE Rank(S \cup {new}, q) = Rank(S, q)
  <2>1. q.blk \in Nat /\ new.blk \in Nat /\ q.blk < new.blk
    BY DEF Row
  <2>2. ~(new.blk <= q.blk)
    BY <2>1
  <2>3. {p \in S \cup {new} : p.blk <= q.blk} = {p \in S : p.blk <= q.blk}
    BY <2>2
  <2> QED BY <2>3 DEF Rank
<1> QED BY <1>1 DEF InStep

LEMMA RowRemoved ==
    ASSUME NEW S \in SUBSET Row, IsFiniteSet(S), Distinct(S), NEW rows \in Seq(Row),
           InStep(S, rows), NEW old, ~Holds(rows, old)
    PROVE  InStep(S \ {old}, rows)
<1>1. CASE old \notin S
  <2>1. S \ {old} = S
    BY <1>1
  <2> QED BY <2>1
<1>2. CASE old \in S
  <2>1. ASSUME NEW i \in 1..Len(rows)
        PROVE  rows[i] \in S \ {old} /\ Rank(S \ {old}, rows[i]) = i
    <3> DEFINE q == rows[i]
    <3>1. q \in S /\ Rank(S, q) = i /\ q # old
      BY <2>1 DEF InStep, Holds
    <3> HIDE DEF q
    <3>2. ~(old.blk <= q.blk)
      <4>1. SUFFICES ASSUME old.blk <= q.blk PROVE FALSE
        OBVIOUS
      <4>2. old.blk < q.blk
        <5>1. old.blk # q.blk /\ old.blk \in Nat /\ q.blk \in Nat
          BY <1>2, <3>1, Ranks DEF Distinct
        <5> QED BY <4>1, <5>1
      <4>3. Rank(S, old) < Rank(S, q) /\ Rank(S, old) \in Nat
        BY <1>2, <3>1, <4>2, Ranks
      <4>4. Rank(S, old) <= Len(rows)
        BY <3>1, <4>3
      <4>5. rows[Rank(S, old)] = old /\ Rank(S, old) \in 1..Len(rows)
        BY <1>2, <4>4, RowAtRank
      <4> QED BY <4>5 DEF Holds
    <3>3. {p \in S \ {old} : p.blk <= q.blk} = {p \in S : p.blk <= q.blk}
      BY <3>2
    <3>4. Rank(S \ {old}, q) = i
      BY <3>1, <3>3 DEF Rank
    <3> QED BY <3>1, <3>4 DEF q
  <2> QED BY <2>1 DEF InStep
<1> QED BY <1>1, <1>2

\* What upstream lists of a source.
LEMMA ListedIs ==
    ASSUME NEW s, live \in SUBSET Row, IsFiniteSet(live), Distinct(live)
    PROVE  /\ Own(s) \in SUBSET Row /\ IsFiniteSet(Own(s)) /\ Distinct(Own(s))
           /\ B!Listed(s) \in Seq(Own(s)) /\ Len(B!Listed(s)) = Cardinality(Own(s))
           /\ InStep(Own(s), B!Listed(s))
<1> DEFINE S == Own(s)
           all == B!Listed(s)
<1>1. S \in SUBSET Row /\ IsFiniteSet(S) /\ Distinct(S)
  <2>1. S \subseteq live
    BY DEF Own
  <2> HIDE DEF S
  <2>2. IsFiniteSet(S)
    BY <2>1, FS_Subset
  <2> QED BY <2>1, <2>2 DEF Distinct
<1>2. B!Cardinality(S) = Cardinality(S)
  BY DEF B!Cardinality, Cardinality
<1>3. all = [n \in 1..Cardinality(S) |-> CHOOSE r \in S : B!Place(r, S) = n]
  BY <1>2 DEF B!Listed, Own
<1> HIDE DEF S, all
<1>4. ASSUME NEW n \in 1..Cardinality(S) PROVE all[n] \in S /\ Rank(S, all[n]) = n
  <2>1. all[n] = CHOOSE r \in S : B!Place(r, S) = n
    BY <1>3
  <2>2. \E r \in S : Rank(S, r) = n
    BY <1>1, Ranks
  <2>3. \E r \in S : B!Place(r, S) = n
    BY <2>2, RankIs
  <2>4. all[n] \in S /\ B!Place(all[n], S) = n
    BY <2>1, <2>3
  <2> QED BY <2>4, RankIs
<1>5. Cardinality(S) \in Nat
  BY <1>1, Ranks
<1>6. all \in [1..Cardinality(S) -> S]
  <2>1. DOMAIN all = 1..Cardinality(S) /\ all = [n \in 1..Cardinality(S) |-> all[n]]
    BY <1>3
  <2> QED BY <1>4, <2>1
<1>7. all \in Seq(S) /\ Len(all) = Cardinality(S)
  BY <1>5, <1>6
<1> QED BY <1>1, <1>4, <1>7 DEF InStep, S, all

\* A page of a list, by offset.
LEMMA PageOf ==
    ASSUME NEW S, NEW all \in Seq(S), NEW n \in Nat, NEW size \in Nat \ {0},
           NEW last \in Nat, last = IF n + size <= Len(all) THEN n + size ELSE Len(all),
           NEW got, got = SubSeq(all, n + 1, last)
    PROVE  /\ got \in Seq(S) /\ Len(got) <= size /\ Len(got) \in Nat
           /\ \A i \in 1..Len(got) : n + i \in 1..Len(all) /\ got[i] = all[n + i]
           /\ Len(got) < size => Len(all) <= n + Len(got)
           /\ got # <<>> => n + Len(got) <= Len(all)
<1>1. Len(all) \in Nat /\ \A i \in 1..Len(all) : all[i] \in S
  OBVIOUS
<1>2. last \in Nat /\ last <= Len(all) /\ last <= n + size /\ (last = n + size \/ last = Len(all))
  BY <1>1
<1>3. \A i \in (n + 1)..last : all[i] \in S
  BY <1>1, <1>2
<1>4. /\ got \in Seq(S)
      /\ Len(got) = IF n + 1 <= last THEN last - (n + 1) + 1 ELSE 0
      /\ \A i \in 1..(last - (n + 1) + 1) : got[i] = all[(n + 1) + i - 1]
  BY <1>2, <1>3, SubSeqProperties
<1>5. Len(got) = IF n + 1 <= last THEN last - n ELSE 0
  BY <1>2, <1>4
<1>6. ASSUME NEW i \in 1..Len(got) PROVE n + i \in 1..Len(all) /\ got[i] = all[n + i]
  <2>1. i \in 1..(last - (n + 1) + 1) /\ (n + 1) + i - 1 = n + i /\ n + i \in 1..Len(all)
    BY <1>2, <1>5
  <2> QED BY <1>4, <2>1
<1>7. got # <<>> => n + 1 <= last
  BY <1>4, <1>5
<1>8. /\ Len(got) <= size /\ Len(got) \in Nat
      /\ Len(got) < size => Len(all) <= n + Len(got)
      /\ got # <<>> => n + Len(got) <= Len(all)
  BY <1>1, <1>2, <1>5, <1>7
<1> QED BY <1>4, <1>6, <1>8

\* The rows read so far and the next page, while they are in step.
LEMMA TakenIs ==
    ASSUME NEW s, live \in SUBSET Row, IsFiniteSet(live), Distinct(live),
           NEW k \in Nat \ {0}, NEW rows \in Seq(Row), Len(rows) = (k - 1) * PageSize
    PROVE  LET got == B!PageAt(s, k)
               all == rows \o got
           IN  /\ got \in Seq(Own(s)) /\ Len(got) \in Nat /\ Len(got) <= PageSize
               /\ all \in Seq(Row) /\ Len(all) = Len(rows) + Len(got)
               /\ \A i \in 1..Len(rows) : all[i] = rows[i]
               /\ \A x : Holds(all, x) <=> Holds(rows, x) \/ Holds(got, x)
               /\ InStep(Own(s), rows) => InStep(Own(s), all)
               /\ InStep(Own(s), rows) /\ Len(got) < PageSize =>
                      \A r \in Own(s) : Holds(all, r)
<1> DEFINE S == Own(s)
           listing == B!Listed(s)
           got == B!PageAt(s, k)
           all == rows \o got
           n == (k - 1) * PageSize
           last == B!Min({k * PageSize, Len(listing)})
<1>1. /\ S \in SUBSET Row /\ IsFiniteSet(S) /\ Distinct(S)
      /\ listing \in Seq(S) /\ Len(listing) = Cardinality(S) /\ InStep(S, listing)
  BY ListedIs
<1>2. PageSize \in Nat \ {0} /\ n \in Nat /\ k * PageSize = n + PageSize /\ k * PageSize \in Nat
  <2>1. PageSize \in Nat \ {0}
    BY ReadsAssumption
  <2>2. (k - 1) * PageSize \in Nat
    BY <2>1
  <2>3. k * PageSize = (k - 1) * PageSize + PageSize
    BY <2>1
  <2> QED BY <2>1, <2>2, <2>3
<1>3. got = SubSeq(listing, n + 1, last)
  BY DEF B!PageAt
<1> HIDE DEF n, S, listing, got
<1>4. last = IF n + PageSize <= Len(listing) THEN n + PageSize ELSE Len(listing)
  <2>1. k * PageSize \in Nat /\ Len(listing) \in Nat
    BY <1>1, <1>2
  <2>2. last = IF k * PageSize <= Len(listing) THEN k * PageSize ELSE Len(listing)
    BY <2>1, LesserOfTwo
  <2> QED BY <1>2, <2>2
<1> HIDE DEF last
<1>5. /\ got \in Seq(S) /\ Len(got) <= PageSize /\ Len(got) \in Nat
      /\ \A i \in 1..Len(got) : n + i \in 1..Len(listing) /\ got[i] = listing[n + i]
      /\ Len(got) < PageSize => Len(listing) <= n + Len(got)
  <2>1. listing \in Seq(S) /\ n \in Nat /\ PageSize \in Nat \ {0}
    BY <1>1, <1>2
  <2>2. last \in Nat
    BY <1>4, <2>1
  <2> QED BY ONLY <2>1, <2>2, <1>3, <1>4, PageOf
<1>6. got \in Seq(Row)
  <2>1. \A i \in 1..Len(got) : got[i] \in S
    BY <1>5
  <2>2. \A i \in 1..Len(got) : got[i] \in Row
    BY <1>1, <2>1
  <2> QED BY <1>5, <2>2
<1>7. /\ all \in Seq(Row) /\ Len(all) = Len(rows) + Len(got)
      /\ \A i \in 1..Len(rows) : all[i] = rows[i]
      /\ \A i \in 1..Len(got) : all[Len(rows) + i] = got[i]
      /\ \A x : Holds(all, x) <=> Holds(rows, x) \/ Holds(got, x)
  BY <1>6, ConcatHolds
<1>8. Len(rows) = n
  BY DEF n
<1> HIDE DEF all
<1>9. ASSUME InStep(S, rows) PROVE InStep(S, all)
  <2> SUFFICES ASSUME NEW i \in 1..Len(all) PROVE all[i] \in S /\ Rank(S, all[i]) = i
    BY DEF InStep
  <2>1. CASE i \in 1..Len(rows)
    BY <1>7, <1>9, <2>1 DEF InStep
  <2>2. CASE i \notin 1..Len(rows)
    <3> DEFINE j == i - n
    <3>1. j \in 1..Len(got) /\ n + j = i
      BY <1>2, <1>5, <1>7, <1>8, <2>2
    <3> HIDE DEF j
    <3>2. all[i] = listing[i] /\ i \in 1..Len(listing)
      BY <1>5, <1>7, <1>8, <3>1
    <3> QED BY <1>1, <3>2 DEF InStep
  <2> QED BY <2>1, <2>2
<1>10. ASSUME InStep(S, rows), Len(got) < PageSize, NEW r \in S PROVE Holds(all, r)
  <2>1. Rank(S, r) \in 1..Cardinality(S) /\ Cardinality(S) \in Nat
    BY <1>1, Ranks
  <2>2. Rank(S, r) <= Len(all) /\ InStep(S, all)
    BY <1>1, <1>2, <1>5, <1>7, <1>8, <1>9, <1>10, <2>1
  <2>3. Rank(S, r) \in 1..Len(all) /\ all[Rank(S, r)] = r
    BY <1>1, <1>7, <2>2, RowAtRank
  <2> QED BY <2>3 DEF Holds
<1> QED BY <1>5, <1>7, <1>9, <1>10 DEF S, got, all

\* The state of a read.
Scan == [st : {"walking", "probing", "settled"}, n : Nat \ {0}, page : 1..MaxPages,
         rows : Seq(Row), prev : Seq(Row)]

ChainTyped ==
    /\ owner \in [Outs -> Sources] /\ made \in Nat
    /\ live \in SUBSET Row /\ IsFiniteSet(live) /\ Distinct(live)
    /\ \A r \in live : r.blk <= made /\ r.out \notin spent
    /\ \A m \in moments : m \in SUBSET Row /\ \A r \in m : r.blk <= made
    /\ blockfrostStable \subseteq B!OutsOf(live)

ScansTyped ==
    /\ scan \in [Sources -> Scan]
    /\ blockfrostRead \in [st : {"idle", "scanning", "resolving", "done", "failed"}, attempt : Int]

Named(rows, x) == \E i \in 1..Len(rows) : rows[i].out = x

\* Every row was upstream's at some moment.
Shown(s, rows) ==
    \A i \in 1..Len(rows) : rows[i] \in UNION moments /\ owner[rows[i].out] = s

HasStable(s, rows) == \A x \in blockfrostStable : owner[x] = s => Named(rows, x)

\* A row is gone that never comes back; if its output may, the rows have every
\* stable output already.
Lost(s, rows) ==
    \E i \in 1..Len(rows) :
        rows[i] \notin live /\ (rows[i].out \in spent \/ HasStable(s, rows))

RowsFit(s, rows) == Shown(s, rows) /\ (InStep(Own(s), rows) \/ Lost(s, rows))

WasAtOnce(s, rows) ==
    \E m \in moments : \A x : Named(rows, x) <=> x \in B!OutsOf(m) /\ owner[x] = s

\* The walk before this one was a snapshot, or had a row that this one cannot
\* read any more.
PrevFits(s, one, rows) ==
    /\ Shown(s, one)
    /\ \/ WasAtOnce(s, one) /\ HasStable(s, one)
       \/ \E i \in 1..Len(one) :
             /\ one[i] \notin live /\ ~Holds(rows, one[i])
             /\ \/ HasStable(s, one)
                \/ one[i].out \in spent /\ ~Named(rows, one[i].out)

SettledFits(s, rows) ==
    /\ Shown(s, rows) /\ HasStable(s, rows)
    /\ \A i, j \in 1..Len(rows) : rows[i].out = rows[j].out => i = j
    /\ WasAtOnce(s, rows) \/ \E i \in 1..Len(rows) : rows[i].out \in B!CameBack

Fits(s, c) ==
    /\ c.st # "settled" =>
          /\ RowsFit(s, c.rows)
          /\ c.n # 1 => PrevFits(s, c.prev, c.rows)
    /\ c.st = "walking" => Len(c.rows) = (c.page - 1) * PageSize
    /\ c.st = "probing" => Len(c.rows) = MaxPages * PageSize
    /\ c.st = "settled" => SettledFits(s, c.rows)

ScanFits(s) == Fits(s, scan[s])

UtxosInv ==
    /\ ChainTyped /\ ScansTyped
    /\ blockfrostRead.st \in {"scanning", "resolving", "done"} =>
          live \in moments /\ \A s \in Sources : ScanFits(s)
    /\ blockfrostRead.st \in {"resolving", "done"} =>
          \A s \in Sources : scan[s].st = "settled"
    /\ blockfrostRead.st = "done" => B!AllResolved

LEMMA ScanRanges ==
    ASSUME ScansTyped, NEW s \in Sources
    PROVE  /\ scan[s] \in Scan /\ scan[s].st \in {"walking", "probing", "settled"}
           /\ scan[s].n \in Nat \ {0} /\ scan[s].page \in 1..MaxPages
           /\ scan[s].rows \in Seq(Row) /\ scan[s].prev \in Seq(Row)
BY DEF ScansTyped, Scan

\* The chain moves.
LEMMA ChainMoves ==
    ASSUME UtxosInv, B!Running, UNCHANGED <<owner, scan, blockfrostRead>>,
           ChainTyped', live' \in moments', moments \subseteq moments',
           blockfrostStable' \subseteq blockfrostStable, spent \subseteq spent',
           \A r \in Row : r.blk <= made /\ r \notin live => r \notin live',
           \A s \in Sources, rows \in Seq(Row) : InStep(Own(s), rows) =>
               \/ InStep(Own(s)', rows)
               \/ \E i \in 1..Len(rows) :
                     /\ rows[i] \notin live'
                     /\ \/ rows[i].out \in spent'
                        \/ \A x \in blockfrostStable' : owner[x] = s => Named(rows, x)
    PROVE  UtxosInv'
<1>1. blockfrostRead.st \in {"idle", "scanning", "resolving"}
  BY DEF B!Running
<1>2. ScansTyped'
  BY DEF UtxosInv, ScansTyped
<1>3. ASSUME blockfrostRead.st \in {"scanning", "resolving", "done"}, NEW s \in Sources
      PROVE  ScanFits(s)'
  <2> DEFINE rows == scan[s].rows
             one == scan[s].prev
  <2>1. ScanFits(s) /\ rows \in Seq(Row) /\ one \in Seq(Row)
    BY <1>3, ScanRanges DEF UtxosInv
  <2>2. \A m \in moments : m \in SUBSET Row /\ \A r \in m : r.blk <= made
    BY DEF UtxosInv, ChainTyped
  <2>3. ASSUME NEW r \in UNION moments, r \notin live PROVE r \notin live'
    BY <2>2, <2>3
  <2>4. ASSUME RowsFit(s, rows) PROVE RowsFit(s, rows)'
    <3>1. Shown(s, rows)'
      BY <2>4 DEF RowsFit, Shown
    <3>2. CASE InStep(Own(s), rows)
      <4>1. \/ InStep(Own(s)', rows)
            \/ \E i \in 1..Len(rows) :
                  /\ rows[i] \notin live'
                  /\ \/ rows[i].out \in spent'
                     \/ \A x \in blockfrostStable' : owner[x] = s => Named(rows, x)
        <5> HIDE DEF rows
        <5> QED BY <2>1, <3>2
      <4> QED BY <3>1, <4>1 DEF RowsFit, Lost, HasStable, Named, InStep, Rank
    <3>3. CASE Lost(s, rows)
      <4>1. Lost(s, rows)'
        BY <2>3, <2>4, <3>3 DEF Lost, HasStable, Named, RowsFit, Shown
      <4> QED BY <3>1, <4>1 DEF RowsFit
    <3> QED BY <2>4, <3>2, <3>3 DEF RowsFit
  <2>5. ASSUME PrevFits(s, one, rows) PROVE PrevFits(s, one, rows)'
    <3>1. Shown(s, one) /\ Shown(s, one)'
      BY <2>5 DEF PrevFits, Shown
    <3>2. HasStable(s, one) => HasStable(s, one)'
      BY DEF HasStable, Named
    <3>3. CASE WasAtOnce(s, one) /\ HasStable(s, one)
      <4>1. WasAtOnce(s, one)'
        BY <3>3 DEF WasAtOnce, Named, B!OutsOf
      <4> QED BY <3>1, <3>2, <3>3, <4>1 DEF PrevFits
    <3>4. ASSUME NEW i \in 1..Len(one), one[i] \notin live, ~Holds(rows, one[i]),
                 HasStable(s, one) \/ (one[i].out \in spent /\ ~Named(rows, one[i].out))
          PROVE  PrevFits(s, one, rows)'
      <4>1. one[i] \notin live'
        BY <2>3, <3>1, <3>4 DEF Shown
      <4> QED BY <3>1, <3>2, <3>4, <4>1 DEF PrevFits, Holds, Named
    <3> QED BY <2>5, <3>3, <3>4 DEF PrevFits
  <2>6. ASSUME SettledFits(s, rows) PROVE SettledFits(s, rows)'
    <3>1. Shown(s, rows)' /\ HasStable(s, rows)'
      BY <2>6 DEF SettledFits, Shown, HasStable, Named
    <3>2. WasAtOnce(s, rows) => WasAtOnce(s, rows)'
      BY DEF WasAtOnce, Named, B!OutsOf
    <3>3. \A i \in 1..Len(rows) : rows[i].out \in B!CameBack => rows[i].out \in B!CameBack'
      BY DEF B!CameBack, B!OutsOf
    <3> QED BY <2>6, <3>1, <3>2, <3>3 DEF SettledFits
  <2> QED BY <2>1, <2>4, <2>5, <2>6 DEF ScanFits, Fits
<1> QED BY <1>1, <1>2, <1>3 DEF UtxosInv

LEMMA OutCreateKeeps == ASSUME UtxosInv, NEW x \in Outs, B!Create(x) PROVE UtxosInv'
<1> DEFINE new == [out |-> x, blk |-> made + 1]
<1>1. /\ B!Running /\ x \notin spent \cup B!OutsOf(live) /\ made' = made + 1
      /\ live' = live \cup {new} /\ moments' = moments \cup {live'}
      /\ UNCHANGED <<owner, spent, blockfrostRead, scan, blockfrostStable>>
  BY DEF B!Create
<1>2. ChainTyped
  BY DEF UtxosInv
<1>3. /\ new \in Row /\ new.out = x /\ new.blk = made + 1 /\ made \in Nat
      /\ \A r \in Row : r.blk \in Nat /\ (r.blk <= made => r.blk < new.blk /\ r # new)
  BY <1>2 DEF ChainTyped, Row
<1> HIDE DEF new
<1>4. \A r \in live : r \in Row /\ r.blk <= made /\ r.blk < new.blk /\ r.out # x
  BY <1>1, <1>2, <1>3 DEF ChainTyped, B!OutsOf
<1>5. ChainTyped'
  <2>1. live' \in SUBSET Row /\ IsFiniteSet(live')
    BY <1>1, <1>2, <1>3, FS_AddElement DEF ChainTyped
  <2>2. Distinct(live')
    <3>1. \A r \in live : r.out # new.out /\ r.blk # new.blk
      BY <1>3, <1>4
    <3> QED BY <1>1, <1>2, <3>1 DEF ChainTyped, Distinct
  <2>3. \A r \in live' : r.blk <= made' /\ r.out \notin spent'
    <3>1. \A r \in live : r.blk <= made + 1 /\ r.out \notin spent
      BY <1>2, <1>3, <1>4 DEF ChainTyped
    <3> QED BY <1>1, <1>3, <3>1
  <2>4. ASSUME NEW m \in moments' PROVE m \in SUBSET Row /\ \A r \in m : r.blk <= made'
    <3>1. CASE m \in moments
      <4>1. m \in SUBSET Row /\ \A r \in m : r.blk <= made
        BY <1>2, <3>1 DEF ChainTyped
      <4>2. \A r \in m : r.blk \in Nat
        BY <1>3, <4>1
      <4>3. \A r \in m : r.blk <= made + 1
        BY <1>3, <4>1, <4>2
      <4> QED BY <1>1, <4>1, <4>3
    <3>2. CASE m = live'
      BY <2>1, <2>3, <3>2
    <3> QED BY <1>1, <2>4, <3>1, <3>2
  <2>5. blockfrostStable' \subseteq B!OutsOf(live)'
    BY <1>1, <1>2 DEF ChainTyped, B!OutsOf
  <2> QED BY <1>1, <1>2, <1>3, <2>1, <2>2, <2>3, <2>4, <2>5 DEF ChainTyped
<1>6. \A r \in Row : r.blk <= made /\ r \notin live => r \notin live'
  BY <1>1, <1>3
<1>7. ASSUME NEW s \in Sources, NEW rows \in Seq(Row), InStep(Own(s), rows)
      PROVE  InStep(Own(s)', rows)
  <2>1. Own(s) \in SUBSET Row /\ \A q \in Own(s) : q.blk < new.blk
    BY <1>4 DEF Own
  <2>2. Own(s)' = Own(s) \/ Own(s)' = Own(s) \cup {new}
    BY <1>1 DEF Own
  <2>3. InStep(Own(s) \cup {new}, rows)
    BY <1>3, <1>7, <2>1, RowAdded
  <2> QED BY <1>7, <2>2, <2>3
<1> QED BY <1>1, <1>5, <1>6, <1>7, ChainMoves

\* A row leaves the chain: its output is spent, or its block was the newest.
LEMMA RowLeaves ==
    ASSUME UtxosInv, B!Running, NEW old \in live, live' = live \ {old},
           moments' = moments \cup {live'}, blockfrostStable' = blockfrostStable \ {old.out},
           spent \subseteq spent', \A r \in live' : r.out \notin spent',
           old.out \in spent' \/ \A q \in live : q.blk <= old.blk,
           UNCHANGED <<owner, made, blockfrostRead, scan>>
    PROVE  UtxosInv'
<1>1. ChainTyped
  BY DEF UtxosInv
<1>2. ChainTyped'
  <2>1. live' \in SUBSET Row /\ IsFiniteSet(live') /\ Distinct(live') /\ live' \subseteq live
    BY <1>1, FS_Subset DEF ChainTyped, Distinct
  <2>2. \A r \in live' : r.blk <= made' /\ r.out \notin spent'
    BY <1>1, <2>1 DEF ChainTyped
  <2>3. \A m \in moments' : m \in SUBSET Row /\ \A r \in m : r.blk <= made'
    BY <1>1, <2>1, <2>2 DEF ChainTyped
  <2>4. blockfrostStable' \subseteq B!OutsOf(live)'
    BY <1>1 DEF ChainTyped, B!OutsOf
  <2> QED BY <1>1, <2>1, <2>2, <2>3, <2>4 DEF ChainTyped
<1>3. ASSUME NEW s \in Sources, NEW rows \in Seq(Row), InStep(Own(s), rows)
      PROVE  \/ InStep(Own(s)', rows)
             \/ \E i \in 1..Len(rows) :
                   /\ rows[i] \notin live'
                   /\ \/ rows[i].out \in spent'
                      \/ \A x \in blockfrostStable' : owner[x] = s => Named(rows, x)
  <2>1. Own(s) \in SUBSET Row /\ IsFiniteSet(Own(s)) /\ Distinct(Own(s))
    BY <1>1, ListedIs DEF ChainTyped
  <2>2. Own(s)' = Own(s) \ {old}
    BY DEF Own
  <2>3. CASE ~Holds(rows, old)
    BY <1>3, <2>1, <2>2, <2>3, RowRemoved
  <2>4. CASE Holds(rows, old)
    <3>1. PICK i \in 1..Len(rows) : rows[i] = old
      BY <2>4 DEF Holds
    <3>2. old \in Own(s) /\ Rank(Own(s), old) = i
      BY <1>3, <3>1 DEF InStep
    <3>3. ASSUME \A q \in live : q.blk <= old.blk, NEW x \in blockfrostStable', owner[x] = s
          PROVE  Named(rows, x)
      <4>1. PICK r \in live : r.out = x /\ r # old
        BY <1>1, <3>3 DEF ChainTyped, B!OutsOf
      <4>2. r \in Own(s) /\ r.blk <= old.blk /\ r.blk # old.blk
        BY <1>1, <3>3, <4>1 DEF Own, ChainTyped, Distinct
      <4>3. Rank(Own(s), r) < Rank(Own(s), old) /\ Rank(Own(s), r) \in Nat
        <5>1. r.blk \in Nat /\ old.blk \in Nat
          BY <2>1, <3>2, <4>2, Ranks
        <5>2. r.blk < old.blk
          BY <4>2, <5>1
        <5> QED BY <2>1, <3>2, <4>2, <5>2, Ranks
      <4>4. Rank(Own(s), r) <= Len(rows)
        BY <3>2, <4>3
      <4>5. Rank(Own(s), r) \in 1..Len(rows) /\ rows[Rank(Own(s), r)] = r
        BY <1>3, <2>1, <4>2, <4>4, RowAtRank
      <4> QED BY <4>1, <4>5 DEF Named
    <3>4. rows[i] \notin live'
      BY <3>1
    <3> QED BY <3>1, <3>3, <3>4
  <2> QED BY <2>3, <2>4
<1>4. \A r \in Row : r \notin live => r \notin live'
  OBVIOUS
<1> QED BY <1>2, <1>3, <1>4, ChainMoves

LEMMA OutSpendKeeps == ASSUME UtxosInv, NEW x \in Outs, B!Spend(x) PROVE UtxosInv'
<1>1. /\ B!Running /\ x \in B!OutsOf(live) /\ live' = {r \in live : r.out # x}
      /\ spent' = spent \cup {x} /\ blockfrostStable' = blockfrostStable \ {x}
      /\ moments' = moments \cup {live'} /\ UNCHANGED <<owner, made, blockfrostRead, scan>>
  BY DEF B!Spend
<1>2. PICK old \in live : old.out = x
  BY <1>1 DEF B!OutsOf
<1>3. Distinct(live) /\ \A r \in live : r.out \notin spent
  BY DEF UtxosInv, ChainTyped
<1>4. live' = live \ {old}
  BY <1>1, <1>2, <1>3 DEF Distinct
<1>5. \A r \in live' : r.out \notin spent'
  BY <1>1, <1>3
<1> QED BY <1>1, <1>2, <1>4, <1>5, RowLeaves

LEMMA BlockRollbackKeeps == ASSUME UtxosInv, B!Rollback PROVE UtxosInv'
<1>1. PICK r \in live : /\ \A q \in live : q.blk <= r.blk
                        /\ live' = live \ {r} /\ blockfrostStable' = blockfrostStable \ {r.out}
  BY DEF B!Rollback
<1>2. /\ B!Running /\ moments' = moments \cup {live'}
      /\ UNCHANGED <<owner, spent, made, blockfrostRead, scan>>
  BY DEF B!Rollback
<1>3. \A q \in live' : q.out \notin spent'
  BY <1>1, <1>2 DEF UtxosInv, ChainTyped
<1> QED BY <1>1, <1>2, <1>3, RowLeaves

\* While upstream stands still a walk fits if it did.
LEMMA FitsStay ==
    ASSUME UNCHANGED <<owner, live, spent, moments, blockfrostStable>>, NEW t,
           Fits(t, scan'[t])
    PROVE  ScanFits(t)'
<1>1. RowsFit(t, scan'[t].rows) => RowsFit(t, scan[t].rows)'
  BY DEF RowsFit, Shown, Lost, HasStable, Named, InStep, Rank, Own
<1>2. PrevFits(t, scan'[t].prev, scan'[t].rows) => PrevFits(t, scan[t].prev, scan[t].rows)'
  BY DEF PrevFits, Shown, HasStable, WasAtOnce, Named, Holds, B!OutsOf
<1>3. SettledFits(t, scan'[t].rows) => SettledFits(t, scan[t].rows)'
  <2>1. Shown(t, scan'[t].rows) => Shown(t, scan[t].rows)'
    BY DEF Shown
  <2>2. HasStable(t, scan'[t].rows) => HasStable(t, scan[t].rows)'
    BY DEF HasStable, Named
  <2>3. WasAtOnce(t, scan'[t].rows) => WasAtOnce(t, scan[t].rows)'
    BY DEF WasAtOnce, Named, B!OutsOf
  <2>4. B!CameBack' = B!CameBack
    BY DEF B!CameBack, B!OutsOf
  <2> QED BY <2>1, <2>2, <2>3, <2>4 DEF SettledFits
<1> QED BY <1>1, <1>2, <1>3 DEF ScanFits, Fits

\* One scan moves; upstream does not.
LEMMA ScanMoves ==
    ASSUME UtxosInv, blockfrostRead.st = "scanning", NEW s \in Sources,
           NEW c \in Scan, Fits(s, c), scan' = [scan EXCEPT ![s] = c],
           UNCHANGED <<owner, live, spent, made, moments, blockfrostStable, blockfrostRead>>
    PROVE  UtxosInv'
<1>1. ChainTyped' /\ ScansTyped'
  BY DEF UtxosInv, ChainTyped, ScansTyped
<1>2. ASSUME NEW t \in Sources PROVE Fits(t, scan'[t])
  BY <1>2 DEF UtxosInv, ScanFits, ScansTyped
<1>3. \A t \in Sources : ScanFits(t)'
  BY <1>2, FitsStay
<1> QED BY <1>1, <1>3 DEF UtxosInv

\* The read moves; upstream and the scans do not.
LEMMA ReadMoves ==
    ASSUME UtxosInv, UNCHANGED <<owner, live, spent, made, moments, blockfrostStable, scan>>,
           blockfrostRead' \in [st : {"idle", "scanning", "resolving", "done", "failed"},
                                attempt : Int],
           blockfrostRead'.st \in {"scanning", "resolving", "done"} =>
               blockfrostRead.st \in {"scanning", "resolving", "done"},
           blockfrostRead'.st \in {"resolving", "done"} =>
               \A s \in Sources : scan[s].st = "settled",
           blockfrostRead'.st = "done" => B!AllResolved'
    PROVE  UtxosInv'
<1>1. ChainTyped' /\ ScansTyped'
  BY DEF UtxosInv, ChainTyped, ScansTyped
<1>2. ASSUME blockfrostRead'.st \in {"scanning", "resolving", "done"}, NEW t \in Sources
      PROVE  ScanFits(t)'
  <2>1. Fits(t, scan'[t])
    BY <1>2 DEF UtxosInv, ScanFits
  <2> QED BY <2>1, FitsStay
<1> QED BY <1>1, <1>2 DEF UtxosInv

LEMMA ThrowsKeeps == ASSUME UtxosInv, B!Throws PROVE UtxosInv'
<1>1. /\ blockfrostRead' = [blockfrostRead EXCEPT !.st = "failed"]
      /\ UNCHANGED <<owner, live, spent, made, moments, blockfrostStable, scan>>
  BY DEF B!Throws, B!chain, B!ghosts
<1>2. blockfrostRead' \in [st : {"idle", "scanning", "resolving", "done", "failed"}, attempt : Int]
      /\ blockfrostRead'.st = "failed"
  BY <1>1 DEF UtxosInv, ScansTyped
<1> QED BY <1>1, <1>2, ReadMoves

\* Rows in step with upstream that reach its end are what it holds now.
LEMMA WholeNow ==
    ASSUME UtxosInv, blockfrostRead.st = "scanning", NEW s \in Sources, NEW rows \in Seq(Row),
           InStep(Own(s), rows), \A r \in Own(s) : Holds(rows, r)
    PROVE  WasAtOnce(s, rows) /\ HasStable(s, rows)
<1>1. live \in moments /\ blockfrostStable \subseteq B!OutsOf(live)
  BY DEF UtxosInv, ChainTyped
<1>2. ASSUME NEW x PROVE Named(rows, x) <=> x \in B!OutsOf(live) /\ owner[x] = s
  <2>1. ASSUME Named(rows, x) PROVE x \in B!OutsOf(live) /\ owner[x] = s
    <3>1. PICK i \in 1..Len(rows) : rows[i].out = x
      BY <2>1 DEF Named
    <3>2. rows[i] \in Own(s)
      BY DEF InStep
    <3> QED BY <3>1, <3>2 DEF Own, B!OutsOf
  <2>2. ASSUME x \in B!OutsOf(live), owner[x] = s PROVE Named(rows, x)
    <3>1. PICK r \in live : r.out = x
      BY <2>2 DEF B!OutsOf
    <3>2. Holds(rows, r)
      BY <2>2, <3>1 DEF Own
    <3> QED BY <3>1, <3>2 DEF Holds, Named
  <2> QED BY <2>1, <2>2
<1> QED BY <1>1, <1>2 DEF WasAtOnce, HasStable

\* The rows of a walk with its next page.
LEMMA PageFits ==
    ASSUME UtxosInv, blockfrostRead.st = "scanning", NEW s \in Sources,
           NEW k \in Nat \ {0}, NEW rows \in Seq(Row), Len(rows) = (k - 1) * PageSize,
           RowsFit(s, rows)
    PROVE  LET got == B!PageAt(s, k)
               all == rows \o got
           IN  /\ all \in Seq(Row) /\ RowsFit(s, all)
               /\ Len(got) \in Nat /\ Len(got) <= PageSize /\ Len(all) = Len(rows) + Len(got)
               /\ \A one : PrevFits(s, one, rows) => PrevFits(s, one, all)
               /\ Len(got) < PageSize /\ InStep(Own(s), all) => \A r \in Own(s) : Holds(all, r)
               /\ k = 1 => InStep(Own(s), all)
<1> DEFINE got == B!PageAt(s, k)
           all == rows \o got
<1>1. ChainTyped /\ live \in moments
  BY DEF UtxosInv
<1>2. /\ got \in Seq(Own(s)) /\ Len(got) \in Nat /\ Len(got) <= PageSize
      /\ all \in Seq(Row) /\ Len(all) = Len(rows) + Len(got)
      /\ \A i \in 1..Len(rows) : all[i] = rows[i]
      /\ \A x : Holds(all, x) <=> Holds(rows, x) \/ Holds(got, x)
      /\ InStep(Own(s), rows) => InStep(Own(s), all)
      /\ InStep(Own(s), rows) /\ Len(got) < PageSize => \A r \in Own(s) : Holds(all, r)
  BY <1>1, TakenIs DEF ChainTyped
<1> HIDE DEF got, all
<1>3. Len(rows) \in Nat /\ \A i \in 1..Len(rows) : i \in 1..Len(all)
  <2>1. Len(rows) \in Nat
    OBVIOUS
  <2> QED BY <1>2, <2>1
<1>4. ASSUME NEW x, Holds(got, x) PROVE x \in live /\ x \in Own(s) /\ owner[x.out] = s /\ x.out \notin spent
  <2>1. x \in Own(s)
    BY <1>2, <1>4 DEF Holds
  <2> QED BY <1>1, <2>1 DEF Own, ChainTyped
<1>5. \A i \in 1..Len(all) : Holds(rows, all[i]) \/ Holds(got, all[i])
  BY <1>2 DEF Holds
<1>6. Shown(s, all)
  <2>1. ASSUME NEW x, Holds(rows, x) PROVE x \in UNION moments /\ owner[x.out] = s
    BY <2>1 DEF RowsFit, Shown, Holds
  <2>2. ASSUME NEW x, Holds(got, x) PROVE x \in UNION moments /\ owner[x.out] = s
    BY <1>1, <1>4, <2>2
  <2> QED BY <1>5, <2>1, <2>2 DEF Shown
<1>7. \A x : Named(rows, x) => Named(all, x)
  BY <1>2, <1>3 DEF Named
<1>8. \A x : Named(all, x) => Named(rows, x) \/ x \notin spent
  BY <1>4, <1>5 DEF Named, Holds
<1>9. Lost(s, rows) => Lost(s, all)
  BY <1>2, <1>3, <1>7 DEF Lost, HasStable
<1>10. RowsFit(s, all)
  BY <1>2, <1>6, <1>9 DEF RowsFit
<1>11. ASSUME NEW one, PrevFits(s, one, rows) PROVE PrevFits(s, one, all)
  <2>1. ASSUME NEW i \in 1..Len(one), one[i] \notin live, ~Holds(rows, one[i]) PROVE ~Holds(all, one[i])
    BY <1>2, <1>4, <2>1
  <2> QED BY <1>8, <1>11, <2>1 DEF PrevFits
<1>12. ASSUME InStep(Own(s), all) PROVE InStep(Own(s), rows)
  BY <1>2, <1>3, <1>12 DEF InStep
<1>13. ASSUME k = 1 PROVE InStep(Own(s), rows)
  <2>1. Len(rows) = 0
    <3>1. PageSize \in Nat
      BY ReadsAssumption
    <3> QED BY <1>13, <3>1
  <2> QED BY <2>1 DEF InStep
<1> QED BY <1>2, <1>10, <1>11, <1>12, <1>13 DEF got, all

LEMMA NewScanIs ==
    /\ B!NewScan \in Scan
    /\ B!NewScan.st = "walking" /\ B!NewScan.n = 1 /\ B!NewScan.page = 1 /\ B!NewScan.rows = <<>>
<1>1. 1 \in 1..MaxPages
  BY ReadsAssumption
<1> QED BY <1>1 DEF B!NewScan, Scan

\* A walk that has read nothing.
LEMMA NothingReadFits ==
    ASSUME NEW s
    PROVE  RowsFit(s, <<>>) /\ Len(<<>>) = (1 - 1) * PageSize
<1>1. PageSize \in Nat
  BY ReadsAssumption
<1>2. 0 = (1 - 1) * PageSize
  BY <1>1
<1> QED BY <1>2 DEF RowsFit, Shown, InStep

LEMMA ReadStartKeeps == ASSUME UtxosInv, B!Begin PROVE UtxosInv'
<1>1. /\ blockfrostRead' = [blockfrostRead EXCEPT !.st = "scanning"]
      /\ scan' = [s \in Sources |-> B!NewScan] /\ blockfrostStable' = B!OutsOf(live)
      /\ moments' = {live} /\ UNCHANGED <<owner, live, spent, made>>
  BY DEF B!Begin, B!chain
<1>2. ChainTyped'
  BY <1>1 DEF UtxosInv, ChainTyped, B!OutsOf
<1>3. ScansTyped' /\ blockfrostRead'.st = "scanning"
  BY <1>1, NewScanIs DEF UtxosInv, ScansTyped
<1>4. ASSUME NEW s \in Sources PROVE ScanFits(s)'
  <2>1. scan'[s] = B!NewScan
    BY <1>1
  <2>2. RowsFit(s, <<>>)'
    BY DEF RowsFit, Shown, InStep
  <2> QED BY <2>1, <2>2, NewScanIs, NothingReadFits DEF ScanFits, Fits
<1> QED BY <1>1, <1>2, <1>3, <1>4 DEF UtxosInv

LEMMA FullPageKeeps == ASSUME UtxosInv, NEW s \in Sources, B!FullPage(s) PROVE UtxosInv'
<1> DEFINE rows == scan[s].rows
           all == B!Taken(s)
           more == [scan[s] EXCEPT !.page = @ + 1, !.rows = all]
           last == [scan[s] EXCEPT !.st = "probing", !.rows = all]
<1>1. /\ blockfrostRead.st = "scanning" /\ scan[s].st = "walking" /\ ~B!Short(s)
      /\ UNCHANGED <<owner, live, spent, made, moments, blockfrostStable, blockfrostRead>>
      /\ scan' = [scan EXCEPT ![s] = IF scan[s].page < MaxPages THEN more ELSE last]
  BY DEF B!FullPage, B!Walking, B!chain, B!ghosts
<1>2. /\ rows \in Seq(Row) /\ scan[s].page \in 1..MaxPages /\ scan[s] \in Scan
      /\ scan[s].page \in Nat \ {0} /\ MaxPages \in Nat \ {0} /\ PageSize \in Nat \ {0}
  <2>1. ScansTyped /\ MaxPages \in Nat \ {0} /\ PageSize \in Nat \ {0}
    BY ReadsAssumption DEF UtxosInv
  <2> QED BY <2>1, ScanRanges
<1>3. /\ RowsFit(s, rows) /\ Len(rows) = (scan[s].page - 1) * PageSize
      /\ scan[s].n # 1 => PrevFits(s, scan[s].prev, rows)
  BY <1>1 DEF UtxosInv, ScanFits, Fits
<1>4. all = rows \o B!PageAt(s, scan[s].page)
  BY DEF B!Taken
<1>5. /\ all \in Seq(Row) /\ RowsFit(s, all)
      /\ Len(B!PageAt(s, scan[s].page)) \in Nat /\ Len(B!PageAt(s, scan[s].page)) <= PageSize
      /\ Len(all) = Len(rows) + Len(B!PageAt(s, scan[s].page))
      /\ \A one : PrevFits(s, one, rows) => PrevFits(s, one, all)
  <2> HIDE DEF rows, all
  <2> QED BY <1>1, <1>2, <1>3, <1>4, PageFits
<1> HIDE DEF rows, all
<1>6. Len(all) = scan[s].page * PageSize
  <2>1. Len(B!PageAt(s, scan[s].page)) = PageSize
    BY <1>1, <1>2, <1>5 DEF B!Short
  <2>2. scan[s].page * PageSize = (scan[s].page - 1) * PageSize + PageSize
    BY <1>2
  <2> QED BY <1>3, <1>5, <2>1, <2>2
<1>7. CASE scan[s].page < MaxPages
  <2>1. more \in Scan /\ more.st = "walking" /\ more.page = scan[s].page + 1 /\ more.rows = all
        /\ more.n = scan[s].n /\ more.prev = scan[s].prev
    <3>1. scan[s].page + 1 \in 1..MaxPages
      BY <1>2, <1>7
    <3> QED BY <1>1, <1>2, <1>5, <3>1 DEF Scan
  <2> HIDE DEF more
  <2>2. Len(all) = (more.page - 1) * PageSize
    <3>1. more.page - 1 = scan[s].page
      BY <1>2, <2>1
    <3> QED BY <1>6, <3>1
  <2>3. Fits(s, more)
    BY <1>3, <1>5, <2>1, <2>2 DEF Fits
  <2> QED BY <1>1, <1>7, <2>1, <2>3, ScanMoves
<1>8. CASE ~(scan[s].page < MaxPages)
  <2>1. last \in Scan /\ last.st = "probing" /\ last.rows = all
        /\ last.n = scan[s].n /\ last.prev = scan[s].prev
    BY <1>2, <1>5 DEF Scan
  <2> HIDE DEF last
  <2>2. scan[s].page = MaxPages
    BY <1>2, <1>8
  <2>3. Fits(s, last)
    BY <1>3, <1>5, <1>6, <2>1, <2>2 DEF Fits
  <2> QED BY <1>1, <1>8, <2>1, <2>3, ScanMoves
<1> QED BY <1>7, <1>8

LEMMA SameEnd == ASSUME NEW a \in Nat, NEW b \in Nat, 1..a = 1..b PROVE a = b
<1>1. ASSUME a > b PROVE FALSE
  <2>1. a \in 1..a /\ a \notin 1..b
    BY <1>1
  <2> QED BY <2>1
<1>2. ASSUME b > a PROVE FALSE
  <2>1. b \in 1..b /\ b \notin 1..a
    BY <1>2
  <2> QED BY <2>1
<1> QED BY <1>1, <1>2

\* A walk ended: it settles its source, starts another, or throws.
LEMMA WalkEndsKeeps ==
    ASSUME UtxosInv, blockfrostRead.st = "scanning", NEW s \in Sources, scan[s].st # "settled",
           NEW rows \in Seq(Row), RowsFit(s, rows),
           scan[s].n # 1 => PrevFits(s, scan[s].prev, rows),
           InStep(Own(s), rows) => \A r \in Own(s) : Holds(rows, r),
           NEW verify, scan[s].n = 1 /\ ~verify => InStep(Own(s), rows),
           B!WalkEnds(s, rows, verify)
    PROVE  UtxosInv'
<1> DEFINE one == scan[s].prev
           settled == [scan[s] EXCEPT !.st = "settled", !.rows = rows]
           again == [B!NewScan EXCEPT !.n = scan[s].n + 1, !.prev = rows]
<1>1. /\ scan[s] \in Scan /\ scan[s].n \in Nat \ {0} /\ one \in Seq(Row)
      /\ DOMAIN rows = 1..Len(rows) /\ DOMAIN one = 1..Len(one)
      /\ Len(rows) \in Nat /\ Len(one) \in Nat
  <2>1. /\ scan[s] \in Scan /\ scan[s].n \in Nat \ {0} /\ one \in Seq(Row)
    BY ScanRanges DEF UtxosInv
  <2> HIDE DEF one
  <2> QED BY <2>1
<1>2. InStep(Own(s), rows) => WasAtOnce(s, rows) /\ HasStable(s, rows)
  BY WholeNow
<1>3. Shown(s, rows) /\ (InStep(Own(s), rows) \/ Lost(s, rows))
  BY DEF RowsFit
<1>4. ASSUME B!Accepted(s, rows, verify) PROVE SettledFits(s, rows)
  <2>1. \A i, j \in 1..Len(rows) : rows[i].out = rows[j].out => i = j
    BY <1>1, <1>4 DEF B!Accepted, B!HasDuplicate
  <2>2. CASE scan[s].n = 1
    <3>1. InStep(Own(s), rows)
      BY <1>4, <2>2 DEF B!Accepted
    <3> QED BY <1>2, <1>3, <2>1, <3>1 DEF SettledFits
  <2>3. CASE scan[s].n # 1
    <3>1. B!SameKeys(one, rows) /\ PrevFits(s, one, rows)
      BY <1>4, <2>3 DEF B!Accepted
    <3> HIDE DEF one
    <3>2. Len(one) = Len(rows) /\ \A i \in 1..Len(rows) : one[i].out = rows[i].out
      <4> DEFINE f == [i \in 1..Len(one) |-> one[i].out]
                 g == [i \in 1..Len(rows) |-> rows[i].out]
      <4>1. f = g
        BY <1>1, <3>1 DEF B!SameKeys
      <4>2. DOMAIN f = 1..Len(one) /\ DOMAIN g = 1..Len(rows)
        OBVIOUS
      <4>3. Len(one) = Len(rows)
        <5>1. 1..Len(one) = 1..Len(rows)
          BY <4>1, <4>2
        <5> QED BY <1>1, <5>1, SameEnd
      <4>4. ASSUME NEW i \in 1..Len(rows) PROVE one[i].out = rows[i].out
        <5>1. f[i] = g[i]
          BY <4>1
        <5> QED BY <4>3, <5>1
      <4> QED BY <4>3, <4>4
    <3>3. \A x : Named(one, x) <=> Named(rows, x)
      BY <3>2 DEF Named
    <3>4. CASE WasAtOnce(s, one) /\ HasStable(s, one)
      BY <1>3, <2>1, <3>3, <3>4 DEF SettledFits, WasAtOnce, HasStable
    <3>5. ASSUME NEW i \in 1..Len(one), ~Holds(rows, one[i]),
                 HasStable(s, one) \/ (one[i].out \in spent /\ ~Named(rows, one[i].out))
          PROVE  SettledFits(s, rows)
      <4>1. i \in 1..Len(rows) /\ one[i].out = rows[i].out /\ Named(rows, one[i].out)
        BY <3>2, <3>5 DEF Named
      <4>2. HasStable(s, rows)
        BY <3>3, <3>5, <4>1 DEF HasStable
      <4>3. rows[i] # one[i] /\ rows[i] \in Row /\ one[i] \in Row
        BY <1>1, <3>5, <4>1 DEF Holds
      <4>4. rows[i].blk # one[i].blk
        BY <4>1, <4>3 DEF Row
      <4>5. rows[i] \in UNION moments /\ one[i] \in UNION moments
        BY <1>3, <3>1, <3>5, <4>1 DEF PrevFits, Shown
      <4>6. rows[i].out \in B!CameBack
        BY <4>1, <4>4, <4>5 DEF B!CameBack, B!OutsOf
      <4> QED BY <1>3, <2>1, <4>1, <4>2, <4>6 DEF SettledFits
    <3> QED BY <3>1, <3>4, <3>5 DEF PrevFits
  <2> QED BY <2>2, <2>3
<1>5. PrevFits(s, rows, <<>>)
  <2>1. \A x : ~Holds(<<>>, x) /\ ~Named(<<>>, x)
    BY DEF Holds, Named
  <2>2. CASE InStep(Own(s), rows)
    BY <1>2, <1>3, <2>2 DEF PrevFits
  <2>3. CASE Lost(s, rows)
    BY <1>3, <2>1, <2>3 DEF PrevFits, Lost
  <2> QED BY <1>3, <2>2, <2>3
<1>6. CASE /\ B!Accepted(s, rows, verify)
           /\ scan' = [scan EXCEPT ![s] = [@ EXCEPT !.st = "settled", !.rows = rows]]
           /\ UNCHANGED <<B!chain, blockfrostRead, B!lookups, B!ghosts>>
  <2>1. settled \in Scan /\ settled.st = "settled" /\ settled.rows = rows
    BY <1>1 DEF Scan
  <2>2. scan' = [scan EXCEPT ![s] = settled]
    BY <1>6
  <2>3. UNCHANGED <<owner, live, spent, made, moments, blockfrostStable, blockfrostRead>>
    BY <1>6 DEF B!chain, B!ghosts
  <2> HIDE DEF settled
  <2>4. Fits(s, settled)
    BY <1>4, <1>6, <2>1 DEF Fits
  <2> QED BY <2>1, <2>2, <2>3, <2>4, ScanMoves
<1>7. CASE /\ ~B!Accepted(s, rows, verify) /\ B!MayScan(s)
           /\ scan' = [scan EXCEPT ![s] = again]
           /\ UNCHANGED <<B!chain, blockfrostRead, B!lookups, B!ghosts>>
  <2>1. /\ again \in Scan /\ again.st = "walking" /\ again.rows = <<>> /\ again.page = 1
        /\ again.prev = rows
    <3>1. 1 \in 1..MaxPages /\ scan[s].n + 1 \in Nat \ {0} /\ <<>> \in Seq(Row)
      BY <1>1, ReadsAssumption
    <3> QED BY <1>1, <3>1, NewScanIs DEF Scan
  <2>2. scan' = [scan EXCEPT ![s] = again]
    BY <1>7
  <2>3. UNCHANGED <<owner, live, spent, made, moments, blockfrostStable, blockfrostRead>>
    BY <1>7 DEF B!chain, B!ghosts
  <2> HIDE DEF again
  <2>4. Fits(s, again)
    BY <1>5, <2>1, NothingReadFits DEF Fits
  <2> QED BY <2>1, <2>2, <2>3, <2>4, ScanMoves
<1>8. CASE B!Throws
  BY <1>8, ThrowsKeeps
<1> HIDE DEF one, settled, again
<1> QED BY <1>6, <1>7, <1>8 DEF B!WalkEnds, again

LEMMA ShortPageKeeps == ASSUME UtxosInv, NEW s \in Sources, B!ShortPage(s) PROVE UtxosInv'
<1> DEFINE rows == scan[s].rows
           all == B!Taken(s)
<1>1. /\ blockfrostRead.st = "scanning" /\ scan[s].st = "walking" /\ B!Short(s)
      /\ B!WalkEnds(s, all, scan[s].page > 1)
  BY DEF B!ShortPage, B!Walking
<1>2. /\ rows \in Seq(Row) /\ scan[s].page \in Nat \ {0}
  <2>1. ScansTyped /\ MaxPages \in Nat \ {0}
    BY ReadsAssumption DEF UtxosInv
  <2> QED BY <2>1, ScanRanges
<1>3. /\ RowsFit(s, rows) /\ Len(rows) = (scan[s].page - 1) * PageSize
      /\ scan[s].n # 1 => PrevFits(s, scan[s].prev, rows)
  BY <1>1 DEF UtxosInv, ScanFits, Fits
<1>4. all = rows \o B!PageAt(s, scan[s].page)
  BY DEF B!Taken
<1>5. Len(B!PageAt(s, scan[s].page)) < PageSize
  BY <1>1 DEF B!Short
<1> HIDE DEF rows, all
<1>6. /\ all \in Seq(Row) /\ RowsFit(s, all)
      /\ \A one : PrevFits(s, one, rows) => PrevFits(s, one, all)
      /\ InStep(Own(s), all) => \A r \in Own(s) : Holds(all, r)
      /\ scan[s].page = 1 => InStep(Own(s), all)
  BY <1>1, <1>2, <1>3, <1>4, <1>5, PageFits
<1>7. ~(scan[s].page > 1) => scan[s].page = 1
  BY <1>2
<1>8. scan[s].n # 1 => PrevFits(s, scan[s].prev, all)
  BY <1>3, <1>6
<1>9. scan[s].st # "settled"
  BY <1>1
<1> QED BY <1>1, <1>6, <1>7, <1>8, <1>9, WalkEndsKeeps

LEMMA ProbeKeeps == ASSUME UtxosInv, NEW s \in Sources, B!Probe(s) PROVE UtxosInv'
<1> DEFINE rows == scan[s].rows
           got == B!PageAt(s, MaxPages + 1)
<1>1. CASE B!Throws
  BY <1>1, ThrowsKeeps
<1>2. CASE got = <<>> /\ B!WalkEnds(s, rows, TRUE)
  <2>1. blockfrostRead.st = "scanning" /\ scan[s].st = "probing"
    BY DEF B!Probe
  <2>2. rows \in Seq(Row) /\ MaxPages \in Nat \ {0} /\ PageSize \in Nat \ {0}
    <3>1. ScansTyped /\ MaxPages \in Nat \ {0} /\ PageSize \in Nat \ {0}
      BY ReadsAssumption DEF UtxosInv
    <3> QED BY <3>1, ScanRanges
  <2>3. /\ RowsFit(s, rows) /\ Len(rows) = MaxPages * PageSize
        /\ scan[s].n # 1 => PrevFits(s, scan[s].prev, rows)
    BY <2>1 DEF UtxosInv, ScanFits, Fits
  <2> HIDE DEF rows
  <2>4. Len(rows) = (MaxPages + 1 - 1) * PageSize /\ MaxPages + 1 \in Nat \ {0}
    BY <2>2, <2>3
  <2>5. rows \o got = rows /\ Len(got) = 0 /\ 0 < PageSize
    BY <1>2, <2>2
  <2>6. InStep(Own(s), rows) => \A r \in Own(s) : Holds(rows, r)
    <3> HIDE DEF got
    <3>1. Len(got) < PageSize /\ InStep(Own(s), rows \o got) =>
              \A r \in Own(s) : Holds(rows \o got, r)
      BY <2>1, <2>2, <2>3, <2>4, PageFits DEF got
    <3> QED BY <2>5, <3>1
  <2>7. scan[s].st # "settled"
    BY <2>1
  <2> QED BY <1>2, <2>1, <2>2, <2>3, <2>6, <2>7, WalkEndsKeeps
<1> QED BY <1>1, <1>2 DEF B!Probe

LEMMA LooksKeep == ASSUME UtxosInv, NEW b \in 1..MaxBlock, B!Looks(b) PROVE UtxosInv'
<1>1. CASE B!LookupFound(b) \/ B!LookupMissing(b)
  <2>1. /\ blockfrostRead.st = "resolving"
        /\ UNCHANGED <<owner, live, spent, made, moments, blockfrostStable, scan, blockfrostRead>>
    BY <1>1 DEF B!LookupFound, B!LookupMissing, B!chain, B!ghosts
  <2>2. /\ blockfrostRead \in [st : {"idle", "scanning", "resolving", "done", "failed"},
                               attempt : Int]
        /\ \A s \in Sources : scan[s].st = "settled"
    BY <2>1 DEF UtxosInv, ScansTyped
  <2> QED BY <2>1, <2>2, ReadMoves
<1>2. CASE B!RolledBack(b)
  <2>1. CASE B!Throws
    BY <2>1, ThrowsKeeps
  <2>2. CASE /\ blockfrostRead' = [st |-> "idle", attempt |-> B!NextAttempt]
             /\ UNCHANGED <<B!chain, scan, B!lookups, B!ghosts>>
    <3>1. blockfrostRead.attempt \in Int
      BY DEF UtxosInv, ScansTyped
    <3>2. /\ blockfrostRead' \in [st : {"idle", "scanning", "resolving", "done", "failed"},
                                  attempt : Int]
          /\ blockfrostRead'.st = "idle"
      BY <2>2, <3>1 DEF B!NextAttempt
    <3>3. UNCHANGED <<owner, live, spent, made, moments, blockfrostStable, scan>>
      BY <2>2 DEF B!chain, B!ghosts
    <3> QED BY <3>2, <3>3, ReadMoves
  <2> QED BY <1>2, <2>1, <2>2 DEF B!RolledBack
<1> QED BY <1>1, <1>2 DEF B!Looks

LEMMA AllSettledKeeps == ASSUME UtxosInv, B!Settled PROVE UtxosInv'
<1>1. /\ blockfrostRead.st = "scanning" /\ \A s \in Sources : scan[s].st = "settled"
      /\ blockfrostRead' = [blockfrostRead EXCEPT !.st = "resolving"]
      /\ UNCHANGED <<owner, live, spent, made, moments, blockfrostStable, scan>>
  BY DEF B!Settled, B!chain, B!ghosts
<1>2. /\ blockfrostRead' \in [st : {"idle", "scanning", "resolving", "done", "failed"},
                              attempt : Int]
      /\ blockfrostRead'.st = "resolving"
  BY <1>1 DEF UtxosInv, ScansTyped
<1> QED BY <1>1, <1>2, ReadMoves

LEMMA ResolveKeeps == ASSUME UtxosInv, B!Resolve PROVE UtxosInv'
<1>1. /\ blockfrostRead.st = "resolving" /\ B!AllResolved
      /\ blockfrostRead' = [blockfrostRead EXCEPT !.st = "done"]
      /\ UNCHANGED <<owner, live, spent, made, moments, blockfrostStable, scan, resolved>>
  BY DEF B!Resolve, B!chain, B!ghosts, B!lookups
<1>2. /\ blockfrostRead' \in [st : {"idle", "scanning", "resolving", "done", "failed"},
                              attempt : Int]
      /\ \A s \in Sources : scan[s].st = "settled"
  BY <1>1 DEF UtxosInv, ScansTyped
<1>3. B!AllResolved'
  BY <1>1 DEF B!AllResolved, B!Wanted
<1> QED BY <1>1, <1>2, <1>3, ReadMoves

LEMMA UtxosStart == B!Init => UtxosInv
<1> SUFFICES ASSUME B!Init PROVE UtxosInv
  OBVIOUS
<1>1. ChainTyped
  <2>1. IsFiniteSet({})
    BY FS_EmptySet
  <2> QED BY <2>1 DEF B!Init, ChainTyped, Distinct
<1>2. ScansTyped /\ blockfrostRead.st = "idle"
  BY NewScanIs DEF B!Init, ScansTyped
<1> QED BY <1>1, <1>2 DEF UtxosInv

LEMMA UtxosRest ==
    ASSUME UtxosInv,
           UNCHANGED <<owner, live, spent, made, moments, blockfrostStable, scan, blockfrostRead,
                       resolved>>
    PROVE  UtxosInv'
<1>1. B!AllResolved => B!AllResolved'
  BY DEF B!AllResolved, B!Wanted
<1> QED BY <1>1, ReadMoves DEF UtxosInv, ScansTyped

LEMMA UtxosStep == ASSUME UtxosInv, B!Next PROVE UtxosInv'
<1>1. CASE \E x \in Outs : B!Create(x) \/ B!Spend(x)
  BY <1>1, OutCreateKeeps, OutSpendKeeps
<1>2. CASE B!Rollback \/ B!Begin
  BY <1>2, BlockRollbackKeeps, ReadStartKeeps
<1>3. ASSUME NEW s \in Sources, B!Steps(s) PROVE UtxosInv'
  <2>1. CASE B!LaterNotFound(s)
    BY <2>1, ThrowsKeeps DEF B!LaterNotFound
  <2> QED BY <1>3, <2>1, FullPageKeeps, ShortPageKeeps, ProbeKeeps DEF B!Steps
<1>4. CASE B!RequestFails
  BY <1>4, ThrowsKeeps DEF B!RequestFails
<1>5. CASE B!Settled \/ B!Resolve
  BY <1>5, AllSettledKeeps, ResolveKeeps
<1>6. CASE \E b \in 1..MaxBlock : B!Looks(b)
  BY <1>6, LooksKeep
<1> QED BY <1>1, <1>2, <1>3, <1>4, <1>5, <1>6 DEF B!Next

\* What a read that is done returns.
LEMMA ReturnedIs ==
    ASSUME UtxosInv, blockfrostRead.st = "done", NEW s \in Sources
    PROVE  /\ SettledFits(s, scan[s].rows)
           /\ \A x : x \in B!Result(s) <=> Named(scan[s].rows, x)
<1> DEFINE rows == scan[s].rows
<1>1. rows \in Seq(Row) /\ SettledFits(s, rows)
  <2>1. ScansTyped /\ ScanFits(s) /\ scan[s].st = "settled"
    BY DEF UtxosInv
  <2> QED BY <2>1, ScanRanges DEF ScanFits, Fits
<1>2. DOMAIN rows = 1..Len(rows)
  <2> HIDE DEF rows
  <2> QED BY <1>1
<1>3. \A i \in 1..Len(rows) : rows[i].blk \in resolved
  BY <1>2 DEF UtxosInv, B!AllResolved, B!Wanted
<1> HIDE DEF rows
<1>4. B!ToSet(rows) = {rows[i] : i \in 1..Len(rows)}
  BY <1>2 DEF B!ToSet
<1>5. \A x : x \in B!OutsOf({r \in B!ToSet(rows) : r.blk \in resolved}) <=> Named(rows, x)
  BY <1>3, <1>4 DEF B!OutsOf, Named
<1> QED BY <1>1, <1>5 DEF B!Result, rows

LEMMA ReadsWhole == UtxosInv => B!NothingMissing /\ B!SnapshotOfSource
<1> SUFFICES ASSUME UtxosInv, blockfrostRead.st = "done"
             PROVE  /\ blockfrostStable \subseteq UNION {B!Result(s) : s \in Sources}
                    /\ \A s \in Sources :
                         /\ ~B!HasDuplicate(scan[s].rows)
                         /\ B!Result(s) \subseteq B!OutsOf(UNION moments)
                         /\ \/ \E m \in moments :
                                  B!Result(s) = {x \in B!OutsOf(m) : owner[x] = s}
                            \/ B!Result(s) \cap B!CameBack # {}
  BY DEF B!NothingMissing, B!SnapshotOfSource
<1>1. ASSUME NEW x \in blockfrostStable PROVE \E s \in Sources : x \in B!Result(s)
  <2>1. owner[x] \in Sources
    BY DEF UtxosInv, ChainTyped, B!OutsOf, Row
  <2>2. HasStable(owner[x], scan[owner[x]].rows)
    BY <2>1, ReturnedIs DEF SettledFits
  <2>3. Named(scan[owner[x]].rows, x)
    BY <2>2 DEF HasStable
  <2> QED BY <2>1, <2>3, ReturnedIs
<1>2. ASSUME NEW s \in Sources
      PROVE  /\ ~B!HasDuplicate(scan[s].rows)
             /\ B!Result(s) \subseteq B!OutsOf(UNION moments)
             /\ \/ \E m \in moments : B!Result(s) = {x \in B!OutsOf(m) : owner[x] = s}
                \/ B!Result(s) \cap B!CameBack # {}
  <2> DEFINE rows == scan[s].rows
  <2>1. SettledFits(s, rows) /\ \A x : x \in B!Result(s) <=> Named(rows, x)
    BY ReturnedIs
  <2>2. DOMAIN rows = 1..Len(rows)
    <3>1. rows \in Seq(Row)
      BY ScanRanges DEF UtxosInv
    <3> HIDE DEF rows
    <3> QED BY <3>1
  <2> HIDE DEF rows
  <2>3. ~B!HasDuplicate(rows)
    BY <2>1, <2>2 DEF SettledFits, B!HasDuplicate
  <2>4. B!Result(s) \subseteq B!OutsOf(UNION moments)
    BY <2>1 DEF SettledFits, Shown, Named, B!OutsOf
  <2>5. CASE WasAtOnce(s, rows)
    <3>1. PICK m \in moments : \A x : Named(rows, x) <=> x \in B!OutsOf(m) /\ owner[x] = s
      BY <2>5 DEF WasAtOnce
    <3>2. B!Result(s) = {x \in B!OutsOf(m) : owner[x] = s}
      BY <2>1, <3>1
    <3> QED BY <2>3, <2>4, <3>2 DEF rows
  <2>6. ASSUME NEW i \in 1..Len(rows), rows[i].out \in B!CameBack
        PROVE  B!Result(s) \cap B!CameBack # {}
    BY <2>1, <2>6 DEF Named
  <2> QED BY <2>1, <2>3, <2>4, <2>5, <2>6 DEF SettledFits, rows
<1> QED BY <1>1, <1>2

\* A Blockfrost read of unspent outputs that comes to its end returns every
\* output that stayed on the chain and unspent throughout it, each output it
\* returns once and only outputs that were unspent at some moment of the read,
\* and for every source all that it had at one such moment, unless an output it
\* returns came back in another block meanwhile (getAccountUtxos,
\* getUtxosByAddresses of src/providers/blockfrost).
THEOREM BlockfrostReadsStayWhole == Spec => [](B!NothingMissing /\ B!SnapshotOfSource)
<1>1. Init => UtxosInv
  BY UtxosStart DEF Init
<1>2. ASSUME UtxosInv, [Next]_vars PROVE UtxosInv'
  <2>1. CASE B!Next
    BY <1>2, <2>1, UtxosStep
  <2>2. CASE UNCHANGED utxosVars
    BY <1>2, <2>2, UtxosRest DEF utxosVars
  <2> QED BY <1>2, <2>1, <2>2
          DEF Next, vars, Paging, Utxos, Lookup, Account, History, Batch
<1> QED BY <1>1, <1>2, ReadsWhole, PTL DEF Spec

-----------------------------------------------------------------------------
(* The lists of an account.                                                 *)

Paid(e) == {i \in A!Entries : EarnedEpoch[i] <= e}

AccountTyped ==
    /\ list \in {"rewards", "addresses"} /\ paidEpoch \in Nat
    /\ account \in [st : {"idle", "reading", "probe", "done", "failed"}, after : Nat,
                    page : 1..EntryMaxPages, rows : Seq(A!Entries), before : SUBSET A!Entries]
    /\ delivered \in Seq(A!Entries)

EpochsAscend(rows) == \A i, j \in 1..Len(rows) : i < j => EarnedEpoch[rows[i]] <= EarnedEpoch[rows[j]]

Once(rows) == \A i, j \in 1..Len(rows) : rows[i] = rows[j] => i = j

\* The epoch a wallet that was given these goes on from.
Following(given) == IF given = <<>> THEN A!NoEpoch ELSE EarnedEpoch[given[Len(given)]]

\* A wallet that has an entry has all of its epoch and of those before.
WholeEpochs(given) ==
    \A x \in A!Entries, i \in 1..Len(given) :
        EarnedEpoch[x] <= EarnedEpoch[given[i]] => Holds(given, x)

\* The pages read are the first of the list.
PagesFitCall(c) ==
    /\ \A i \in 1..Len(c.rows) : c.rows[i] = i /\ EarnedEpoch[i] <= paidEpoch
    /\ c.st = "reading" => Len(c.rows) = (c.page - 1) * EntryPageSize
    /\ c.st = "probe" => Len(c.rows) = EntryMaxPages * EntryPageSize

AccountInv ==
    /\ AccountTyped
    /\ what = "account" /\ driver = "koios" => list = "rewards"
    /\ EpochsAscend(delivered) /\ Once(delivered) /\ WholeEpochs(delivered)
    /\ \A x \in account.before : EarnedEpoch[x] <= paidEpoch
    /\ account.st \in {"reading", "probe"} =>
          /\ account.after = Following(delivered) /\ PagesFitCall(account)
          /\ list = "addresses" => delivered = <<>>
    /\ account.st = "done" => \A x \in account.before : Holds(delivered, x)

\* All that is listed now, and each entry once.
Complete(rows) ==
    /\ Once(rows)
    /\ \A x \in A!Entries : EarnedEpoch[x] <= paidEpoch <=> Holds(rows, x)

LEMMA EntriesAre ==
    /\ EarnedEpoch \in Seq(Nat \ {0}) /\ A!Entries = 1..Len(EarnedEpoch) /\ Len(EarnedEpoch) \in Nat
    /\ \A x \in A!Entries : x \in Nat \ {0} /\ EarnedEpoch[x] \in Nat \ {0}
    /\ \A x, y \in A!Entries : x < y => EarnedEpoch[x] <= EarnedEpoch[y]
<1>1. /\ EarnedEpoch \in Seq(Nat \ {0})
      /\ \A i, j \in DOMAIN EarnedEpoch : i < j => EarnedEpoch[i] <= EarnedEpoch[j]
  BY ReadsAssumption
<1>2. DOMAIN EarnedEpoch = 1..Len(EarnedEpoch) /\ Len(EarnedEpoch) \in Nat
      /\ \A x \in 1..Len(EarnedEpoch) : EarnedEpoch[x] \in Nat \ {0}
  BY <1>1
<1> QED BY <1>1, <1>2 DEF A!Entries

\* Those of the epochs up to one are the first of all.
LEMMA PaidAreFirst ==
    ASSUME NEW e \in Nat
    PROVE  Cardinality(Paid(e)) \in Nat /\ Paid(e) = 1..Cardinality(Paid(e))
<1> DEFINE S == Paid(e)
           ord == {w \in S \X S : w[1] < w[2]}
<1>1. /\ \A x \in S : x \in Nat \ {0} /\ IsFiniteSet(1..x) /\ Cardinality(1..x) = x
      /\ IsFiniteSet(S)
  <2>1. S \subseteq A!Entries /\ A!Entries = 1..Len(EarnedEpoch) /\ Len(EarnedEpoch) \in Nat
    BY EntriesAre DEF Paid
  <2> HIDE DEF S
  <2>2. IsFiniteSet(1..Len(EarnedEpoch))
    BY <2>1, FS_Interval
  <2>3. IsFiniteSet(S)
    BY <2>1, <2>2, FS_Subset
  <2>4. ASSUME NEW x \in S PROVE x \in Nat \ {0} /\ IsFiniteSet(1..x) /\ Cardinality(1..x) = x
    <3>1. x \in Nat \ {0}
      BY <2>1
    <3>2. 1 \in Int /\ x \in Int /\ ~(1 > x) /\ x - 1 + 1 = x
      BY <3>1
    <3> QED BY <3>1, <3>2, FS_Interval
  <2> QED BY <2>3, <2>4
<1>2. ASSUME NEW x \in S, NEW y \in 1..x PROVE y \in S
  <2>1. x \in A!Entries /\ EarnedEpoch[x] <= e /\ x \in Nat
    BY <1>1 DEF Paid
  <2>2. y \in A!Entries /\ (y = x \/ y < x)
    BY <2>1, EntriesAre
  <2>3. EarnedEpoch[y] <= EarnedEpoch[x] /\ EarnedEpoch[y] \in Nat /\ EarnedEpoch[x] \in Nat
    BY <2>1, <2>2, EntriesAre
  <2>4. EarnedEpoch[y] <= e
    BY <2>1, <2>3
  <2> QED BY <2>2, <2>4 DEF Paid
<1> HIDE DEF S
<1>3. \A x, y \in S : <<x, y>> \in ord <=> x < y
  OBVIOUS
<1> HIDE DEF ord
<1>4. IsOrder(S, ord)
  <2>1. \A x \in S : x \in Int
    BY <1>1
  <2> QED BY <1>3, <2>1 DEF IsOrder
<1>5. ASSUME NEW x \in S PROVE Cardinality(UpTo(S, ord, x)) = x
  <2>1. \A y \in S : y = x \/ y < x <=> y \in 1..x
    BY <1>1
  <2>2. UpTo(S, ord, x) = 1..x
    BY <1>2, <1>3, <2>1 DEF UpTo
  <2> QED BY <1>1, <2>2
<1>6. /\ Cardinality(S) \in Nat
      /\ \A x \in S : x \in 1..Cardinality(S)
      /\ \A n \in 1..Cardinality(S) : \E x \in S : x = n
  BY <1>1, <1>4, <1>5, PlacesTaken
<1>7. S = 1..Cardinality(S)
  BY <1>6
<1> QED BY <1>6, <1>7 DEF S

LEMMA ListedEntries ==
    ASSUME AccountTyped
    PROVE  /\ Len(A!Listed) = Cardinality(Paid(paidEpoch)) /\ Len(A!Listed) \in Nat
           /\ A!Listed \in Seq(A!Entries)
           /\ \A i \in 1..Len(A!Listed) : A!Listed[i] = i
           /\ \A x \in A!Entries : EarnedEpoch[x] <= paidEpoch <=> x \in 1..Len(A!Listed)
           /\ A!ToSet(A!Listed) = Paid(paidEpoch)
<1> DEFINE N == Cardinality(Paid(paidEpoch))
           all == A!Listed
<1>1. N \in Nat /\ Paid(paidEpoch) = 1..N
  BY PaidAreFirst DEF AccountTyped
<1>2. A!Cardinality(Paid(paidEpoch)) = N
  BY DEF A!Cardinality, Cardinality
<1>3. all = [n \in 1..N |-> n]
  BY <1>2 DEF A!Listed, Paid
<1>4. \A x \in A!Entries : EarnedEpoch[x] <= paidEpoch <=> x \in 1..N
  BY <1>1 DEF Paid
<1>5. \A n \in 1..N : n \in A!Entries
  BY <1>1 DEF Paid
<1> HIDE DEF all, N
<1>6. all \in Seq(A!Entries) /\ Len(all) = N /\ DOMAIN all = 1..N /\ \A i \in 1..N : all[i] = i
  BY <1>1, <1>3, <1>5
<1>7. A!ToSet(all) = 1..N
  BY <1>6 DEF A!ToSet
<1> QED BY <1>1, <1>4, <1>6, <1>7 DEF all, N

LEMMA AccountRanges ==
    ASSUME AccountTyped
    PROVE  /\ account.st \in {"idle", "reading", "probe", "done", "failed"}
           /\ account.after \in Nat /\ account.page \in 1..EntryMaxPages
           /\ account.rows \in Seq(A!Entries) /\ account.before \subseteq A!Entries
           /\ paidEpoch \in Nat /\ delivered \in Seq(A!Entries)
BY DEF AccountTyped

\* The answer made of all that is listed: each wanted entry once, epoch by epoch.
LEMMA AnswerIs ==
    ASSUME AccountTyped, list = "rewards", NEW rows \in Seq(A!Entries), Once(rows)
    PROVE  LET given == A!Answer(rows)
           IN  /\ given \in Seq(A!Entries) /\ Once(given) /\ EpochsAscend(given)
               /\ \A x : Holds(given, x) <=> Holds(rows, x) /\ A!Wanted(x)
<1> DEFINE wanted == {i \in DOMAIN rows : A!Wanted(rows[i])}
           ord == {w \in wanted \X wanted : A!Earlier(rows, w[1], w[2])}
           order == [n \in 1..A!Cardinality(wanted) |->
                        CHOOSE i \in wanted :
                            A!Cardinality({j \in wanted : j = i \/ A!Earlier(rows, j, i)}) = n]
           given == A!Answer(rows)
           N == Cardinality(wanted)
<1>1. given = [n \in DOMAIN order |-> rows[order[n]]]
  BY DEF A!Answer
<1>2. DOMAIN rows = 1..Len(rows) /\ Len(rows) \in Nat
  OBVIOUS
<1>3. IsFiniteSet(wanted) /\ N \in Nat
  <2>1. IsFiniteSet(1..Len(rows))
    BY <1>2, FS_Interval
  <2>2. wanted \subseteq 1..Len(rows)
    BY <1>2
  <2> HIDE DEF wanted
  <2>3. IsFiniteSet(wanted)
    BY <2>1, <2>2, FS_Subset
  <2> QED BY <2>3, FS_CardinalityType
<1>4. \A i \in wanted : i \in 1..Len(rows) /\ rows[i] \in A!Entries /\ EarnedEpoch[rows[i]] \in Nat
  <2>1. \A i \in wanted : i \in 1..Len(rows)
    BY <1>2
  <2> HIDE DEF wanted
  <2>2. \A i \in wanted : rows[i] \in A!Entries
    BY <2>1
  <2> QED BY <2>1, <2>2, EntriesAre
<1>5. \A i, j \in wanted : <<i, j>> \in ord <=> A!Earlier(rows, i, j)
  OBVIOUS
<1>6. \A i \in 1..Len(rows) : i \in wanted <=> A!Wanted(rows[i])
  BY <1>2
<1> HIDE DEF ord, wanted
<1>7. ASSUME NEW i \in wanted, NEW j \in wanted
      PROVE  A!Earlier(rows, i, j) <=>
                 EarnedEpoch[rows[i]] < EarnedEpoch[rows[j]]
                 \/ (EarnedEpoch[rows[i]] = EarnedEpoch[rows[j]] /\ i < j)
  BY DEF A!Earlier
<1>8. IsOrder(wanted, ord)
  <2> DEFINE E(i) == EarnedEpoch[rows[i]]
  <2>1. \A i \in wanted : i \in Int /\ E(i) \in Int
    BY <1>4
  <2>2. \A i, j \in wanted : <<i, j>> \in ord <=> E(i) < E(j) \/ (E(i) = E(j) /\ i < j)
    BY <1>5, <1>7
  <2> HIDE DEF E
  <2>3. \A i, j \in wanted : i # j => <<i, j>> \in ord \/ <<j, i>> \in ord
    BY <2>1, <2>2
  <2>4. \A i, j \in wanted : <<i, j>> \in ord => <<j, i>> \notin ord
    BY <2>1, <2>2
  <2>5. \A i, j, k \in wanted : <<i, j>> \in ord /\ <<j, k>> \in ord => <<i, k>> \in ord
    BY <2>1, <2>2
  <2> QED BY <2>3, <2>4, <2>5 DEF IsOrder
<1>9. \A i \in wanted : UpTo(wanted, ord, i) = {j \in wanted : j = i \/ A!Earlier(rows, j, i)}
  BY <1>5 DEF UpTo
<1>10. \A S : A!Cardinality(S) = Cardinality(S)
  BY DEF A!Cardinality, Cardinality
<1>11. /\ DOMAIN order = 1..N
       /\ \A n \in 1..N : order[n] = CHOOSE i \in wanted : Cardinality(UpTo(wanted, ord, i)) = n
  <2>1. A!Cardinality(wanted) = N
    BY <1>10
  <2>2. ASSUME NEW n \in 1..N
        PROVE  order[n] = CHOOSE i \in wanted : Cardinality(UpTo(wanted, ord, i)) = n
    <3>1. order[n] = CHOOSE i \in wanted :
              A!Cardinality({j \in wanted : j = i \/ A!Earlier(rows, j, i)}) = n
      BY <2>1
    <3> HIDE DEF order
    <3>2. \A i \in wanted : A!Cardinality({j \in wanted : j = i \/ A!Earlier(rows, j, i)})
                                = Cardinality(UpTo(wanted, ord, i))
      BY <1>9, <1>10
    <3>3. (CHOOSE i \in wanted :
              A!Cardinality({j \in wanted : j = i \/ A!Earlier(rows, j, i)}) = n)
          = CHOOSE i \in wanted : Cardinality(UpTo(wanted, ord, i)) = n
      BY <3>2
    <3> QED BY <3>1, <3>3
  <2> QED BY <2>1, <2>2
<1> HIDE DEF order
<1>12. /\ \A n \in 1..N : order[n] \in wanted
       /\ \A m, n \in 1..N : m < n => <<order[m], order[n]>> \in ord
       /\ \A i \in wanted : \E n \in 1..N : order[n] = i
  BY <1>3, <1>8, <1>11, PlaceFound
<1> HIDE DEF given, N
<1>13. /\ given \in Seq(A!Entries) /\ Len(given) = N
       /\ \A n \in 1..N : given[n] = rows[order[n]]
  <2>1. given \in [1..N -> A!Entries] /\ \A n \in 1..N : given[n] = rows[order[n]]
    BY <1>1, <1>4, <1>11, <1>12
  <2>2. N \in Nat
    BY <1>3 DEF N
  <2> QED BY <2>1, <2>2
<1>14. ASSUME NEW m \in 1..N, NEW n \in 1..N, m < n
       PROVE  EarnedEpoch[given[m]] <= EarnedEpoch[given[n]] /\ given[m] # given[n]
  <2>1. /\ A!Earlier(rows, order[m], order[n]) /\ order[m] \in wanted /\ order[n] \in wanted
        /\ order[m] # order[n]
    BY <1>5, <1>8, <1>12, <1>14 DEF IsOrder
  <2>2. EarnedEpoch[rows[order[m]]] <= EarnedEpoch[rows[order[n]]]
    <3>1. /\ EarnedEpoch[rows[order[m]]] \in Nat /\ EarnedEpoch[rows[order[n]]] \in Nat
          /\ order[m] \in wanted /\ order[n] \in wanted
      BY <1>4, <2>1
    <3>2. EarnedEpoch[rows[order[m]]] < EarnedEpoch[rows[order[n]]]
          \/ EarnedEpoch[rows[order[m]]] = EarnedEpoch[rows[order[n]]]
      BY <1>7, <2>1, <3>1
    <3> QED BY <3>1, <3>2
  <2>3. rows[order[m]] # rows[order[n]]
    BY <1>4, <2>1 DEF Once
  <2> QED BY <1>13, <2>2, <2>3
<1>15. Once(given) /\ EpochsAscend(given)
  <2>1. N \in Nat /\ \A m, n \in 1..N : m = n \/ m < n \/ n < m
    BY <1>3 DEF N
  <2> QED BY <1>13, <1>14, <2>1 DEF Once, EpochsAscend
<1>16. ASSUME NEW x PROVE Holds(given, x) <=> Holds(rows, x) /\ A!Wanted(x)
  <2>1. Holds(given, x) => Holds(rows, x) /\ A!Wanted(x)
    BY <1>4, <1>6, <1>12, <1>13 DEF Holds
  <2>2. Holds(rows, x) /\ A!Wanted(x) => Holds(given, x)
    BY <1>6, <1>12, <1>13 DEF Holds
  <2> QED BY <2>1, <2>2
<1> QED BY <1>13, <1>15, <1>16 DEF given

\* What the wallet has when a call ends with all that is listed.
LEMMA WalletHasAll ==
    ASSUME AccountInv, account.st \in {"reading", "probe"},
           NEW rows \in Seq(A!Entries), Complete(rows), list = "addresses" => EpochsAscend(rows)
    PROVE  LET all == delivered \o A!Answer(rows)
           IN  /\ all \in Seq(A!Entries) /\ Once(all) /\ EpochsAscend(all)
               /\ \A x \in A!Entries : EarnedEpoch[x] <= paidEpoch => Holds(all, x)
               /\ WholeEpochs(all)
<1> DEFINE given == A!Answer(rows)
           all == delivered \o given
<1>1. /\ AccountTyped /\ delivered \in Seq(A!Entries) /\ paidEpoch \in Nat
      /\ EpochsAscend(delivered) /\ Once(delivered) /\ WholeEpochs(delivered)
      /\ account.after = Following(delivered) /\ list \in {"rewards", "addresses"}
      /\ list = "addresses" => delivered = <<>>
  BY AccountRanges DEF AccountInv, AccountTyped
<1>2. /\ given \in Seq(A!Entries) /\ Once(given) /\ EpochsAscend(given)
      /\ \A x : Holds(given, x) <=> Holds(rows, x) /\ (list = "rewards" => A!Wanted(x))
  <2>1. CASE list = "rewards"
    BY <1>1, <2>1, AnswerIs DEF Complete
  <2>2. CASE list = "addresses"
    <3>1. given = rows
      BY <2>2 DEF A!Answer
    <3> QED BY <2>2, <3>1 DEF Complete
  <2> QED BY <1>1, <2>1, <2>2
<1> HIDE DEF given
<1>3. /\ all \in Seq(A!Entries) /\ Len(all) = Len(delivered) + Len(given)
      /\ \A i \in 1..Len(delivered) : all[i] = delivered[i]
      /\ \A i \in 1..Len(given) : all[Len(delivered) + i] = given[i]
      /\ \A x : Holds(all, x) <=> Holds(delivered, x) \/ Holds(given, x)
  BY <1>1, <1>2, ConcatHolds
<1> HIDE DEF all
<1>4. Len(delivered) \in Nat /\ Len(given) \in Nat /\ (delivered # <<>> => Len(delivered) \in 1..Len(delivered))
  <2>1. Len(delivered) \in Nat /\ Len(given) \in Nat /\ (delivered # <<>> => Len(delivered) # 0)
    BY <1>1, <1>2
  <2> QED BY <2>1
<1>5. \A x : Holds(delivered, x) \/ Holds(given, x) => x \in A!Entries /\ EarnedEpoch[x] \in Nat \ {0}
  <2>1. \A x : Holds(delivered, x) \/ Holds(given, x) => x \in A!Entries
    BY <1>1, <1>2 DEF Holds
  <2> QED BY <2>1, EntriesAre
<1>6. ASSUME NEW x, NEW y, Holds(delivered, x), Holds(given, y)
      PROVE  EarnedEpoch[x] <= EarnedEpoch[y] /\ x # y
  <2>1. PICK i \in 1..Len(delivered) : delivered[i] = x
    BY <1>6 DEF Holds
  <2>2. delivered # <<>> /\ list = "rewards"
    <3>1. Len(delivered) # 0
      BY <1>4, <2>1
    <3>2. delivered # <<>>
      BY <3>1
    <3> QED BY <1>1, <3>2
  <2> DEFINE l == delivered[Len(delivered)]
  <2>3. account.after = EarnedEpoch[l] /\ Holds(delivered, l)
    BY <1>1, <1>4, <2>2 DEF Following, Holds
  <2>4. i = Len(delivered) \/ i < Len(delivered)
    BY <1>4
  <2>5. EarnedEpoch[x] <= EarnedEpoch[l]
    <3>1. CASE i = Len(delivered)
      BY <1>5, <1>6, <2>1, <3>1
    <3>2. CASE i < Len(delivered)
      BY <1>1, <1>4, <2>1, <2>2, <3>2 DEF EpochsAscend
    <3> QED BY <2>4, <3>1, <3>2
  <2>6. A!Wanted(y)
    BY <1>2, <1>6, <2>2
  <2> HIDE DEF l
  <2>7. EarnedEpoch[l] < EarnedEpoch[y]
    BY <1>5, <1>6, <2>3, <2>6 DEF A!Wanted, A!NoEpoch
  <2>8. EarnedEpoch[x] \in Nat /\ EarnedEpoch[l] \in Nat /\ EarnedEpoch[y] \in Nat
    BY <1>5, <1>6, <2>3
  <2>9. EarnedEpoch[x] < EarnedEpoch[y]
    BY <2>5, <2>7, <2>8
  <2> QED BY <2>8, <2>9
<1>7. ASSUME NEW i \in 1..Len(all), NEW j \in 1..Len(all), i < j
      PROVE  EarnedEpoch[all[i]] <= EarnedEpoch[all[j]] /\ all[i] # all[j]
  <2>1. CASE j \in 1..Len(delivered)
    <3>1. i \in 1..Len(delivered) /\ i # j
      BY <1>4, <1>7, <2>1
    <3> QED BY <1>1, <1>3, <1>7, <2>1, <3>1 DEF EpochsAscend, Once
  <2>2. CASE j \notin 1..Len(delivered)
    <3> DEFINE n == j - Len(delivered)
    <3>1. n \in 1..Len(given) /\ Len(delivered) + n = j
      BY <1>3, <1>4, <2>2
    <3> HIDE DEF n
    <3>2. all[j] = given[n] /\ Holds(given, all[j])
      BY <1>3, <3>1 DEF Holds
    <3>3. CASE i \in 1..Len(delivered)
      BY <1>3, <1>6, <3>2, <3>3 DEF Holds
    <3>4. CASE i \notin 1..Len(delivered)
      <4> DEFINE m == i - Len(delivered)
      <4>1. m \in 1..Len(given) /\ Len(delivered) + m = i /\ m < n /\ m # n
        BY <1>3, <1>4, <1>7, <3>1, <3>4
      <4> HIDE DEF m
      <4>2. all[i] = given[m]
        BY <1>3, <4>1
      <4> QED BY <1>2, <3>1, <3>2, <4>1, <4>2 DEF EpochsAscend, Once
    <3> QED BY <3>3, <3>4
  <2> QED BY <2>1, <2>2
<1>8. Once(all) /\ EpochsAscend(all)
  <2>1. Len(all) \in Nat /\ \A m, n \in 1..Len(all) : m = n \/ m < n \/ n < m
    BY <1>3, <1>4
  <2> QED BY <1>7, <2>1 DEF Once, EpochsAscend
<1>9. ASSUME NEW x \in A!Entries, EarnedEpoch[x] <= paidEpoch PROVE Holds(all, x)
  <2>1. Holds(rows, x)
    BY <1>9 DEF Complete
  <2>2. CASE list = "rewards" => A!Wanted(x)
    BY <1>2, <1>3, <2>1, <2>2
  <2>3. CASE ~A!Wanted(x)
    <3>1. account.after # A!NoEpoch /\ ~(EarnedEpoch[x] > account.after)
      BY <2>3 DEF A!Wanted
    <3>2. delivered # <<>> /\ account.after = EarnedEpoch[delivered[Len(delivered)]]
      BY <1>1, <3>1 DEF Following
    <3>3. Holds(delivered, delivered[Len(delivered)])
      BY <1>4, <3>2 DEF Holds
    <3>4. EarnedEpoch[x] <= EarnedEpoch[delivered[Len(delivered)]]
      BY <1>5, <3>1, <3>2, <3>3, EntriesAre
    <3>5. Holds(delivered, x)
      BY <1>1, <1>4, <3>2, <3>4 DEF WholeEpochs
    <3> QED BY <1>3, <3>5
  <2> QED BY <2>2, <2>3
<1>10. ASSUME NEW x \in A!Entries, NEW i \in 1..Len(all), EarnedEpoch[x] <= EarnedEpoch[all[i]]
       PROVE  Holds(all, x)
  <2>1. Holds(delivered, all[i]) \/ Holds(given, all[i])
    BY <1>3 DEF Holds
  <2>2. CASE Holds(delivered, all[i])
    BY <1>1, <1>3, <1>10, <2>2 DEF WholeEpochs, Holds
  <2>3. CASE Holds(given, all[i])
    <3>1. Holds(rows, all[i]) /\ all[i] \in A!Entries
      BY <1>2, <1>5, <2>3
    <3>2. EarnedEpoch[all[i]] <= paidEpoch
      BY <3>1 DEF Complete
    <3>3. EarnedEpoch[x] <= paidEpoch
      <4>1. EarnedEpoch[x] \in Nat /\ EarnedEpoch[all[i]] \in Nat /\ paidEpoch \in Int
        BY <1>1, <3>1, EntriesAre
      <4> QED BY <1>10, <3>2, <4>1
    <3> QED BY <1>9, <3>3
  <2> QED BY <2>1, <2>2, <2>3
<1> QED BY <1>3, <1>8, <1>9, <1>10 DEF WholeEpochs, given, all

LEMMA AnswerEnds ==
    ASSUME AccountInv, account.st \in {"reading", "probe"}, UNCHANGED what,
           NEW rows \in Seq(A!Entries), Complete(rows), list = "addresses" => EpochsAscend(rows),
           A!Ends(rows)
    PROVE  AccountInv'
<1> DEFINE all == delivered \o A!Answer(rows)
<1>1. /\ account' = [account EXCEPT !.st = "done", !.rows = rows] /\ delivered' = all
      /\ UNCHANGED <<driver, list, paidEpoch>>
  BY DEF A!Ends
<1>2. /\ all \in Seq(A!Entries) /\ Once(all) /\ EpochsAscend(all) /\ WholeEpochs(all)
      /\ \A x \in A!Entries : EarnedEpoch[x] <= paidEpoch => Holds(all, x)
  BY WalletHasAll
<1> HIDE DEF all
<1>3. AccountTyped' /\ account'.st = "done" /\ account'.before = account.before
  BY <1>1, <1>2 DEF AccountInv, AccountTyped
<1>4. Once(delivered)' /\ EpochsAscend(delivered)' /\ WholeEpochs(delivered)'
  BY <1>1, <1>2 DEF Once, EpochsAscend, WholeEpochs, Holds, A!Entries
<1>5. \A x \in account.before : x \in A!Entries /\ EarnedEpoch[x] <= paidEpoch
  BY AccountRanges DEF AccountInv
<1>6. \A x \in account'.before : EarnedEpoch[x] <= paidEpoch' /\ Holds(delivered, x)'
  BY <1>1, <1>2, <1>3, <1>5 DEF Holds
<1> QED BY <1>1, <1>3, <1>4, <1>6 DEF AccountInv

\* A call goes on; upstream and the wallet have what they had.
LEMMA CallGoesOn ==
    ASSUME AccountInv, UNCHANGED what,
           NEW c \in [st : {"idle", "reading", "probe", "done", "failed"}, after : Nat,
                      page : 1..EntryMaxPages, rows : Seq(A!Entries), before : SUBSET A!Entries],
           c.before = account.before, c.after = account.after, c.st # "done",
           c.st \in {"reading", "probe"} =>
               account.st \in {"reading", "probe"} /\ PagesFitCall(c),
           A!Goes(c)
    PROVE  AccountInv'
<1>1. account' = c /\ UNCHANGED <<driver, list, paidEpoch, delivered>>
  BY DEF A!Goes
<1>2. AccountTyped'
  BY <1>1 DEF AccountInv, AccountTyped
<1>3. PagesFitCall(c) => PagesFitCall(account)'
  BY <1>1 DEF PagesFitCall
<1>4. Once(delivered)' /\ EpochsAscend(delivered)' /\ WholeEpochs(delivered)'
  BY <1>1 DEF AccountInv, Once, EpochsAscend, WholeEpochs, Holds, A!Entries
<1>5. Following(delivered)' = Following(delivered)
  BY <1>1 DEF Following, A!NoEpoch
<1> QED BY <1>1, <1>2, <1>3, <1>4, <1>5 DEF AccountInv

LEMMA PaysKeeps == ASSUME AccountInv, UNCHANGED what, A!Pays PROVE AccountInv'
<1>1. paidEpoch' = paidEpoch + 1 /\ UNCHANGED <<driver, list, account, delivered>>
  BY DEF A!Pays
<1>2. /\ paidEpoch \in Nat /\ account.rows \in Seq(A!Entries) /\ account.before \subseteq A!Entries
  BY AccountRanges DEF AccountInv
<1>3. AccountTyped'
  BY <1>1, <1>2 DEF AccountInv, AccountTyped
<1>4. \A x \in A!Entries : EarnedEpoch[x] <= paidEpoch => EarnedEpoch[x] <= paidEpoch'
  BY <1>1, <1>2, EntriesAre
<1>5. \A x \in account.before : EarnedEpoch[x] <= paidEpoch'
  BY <1>2, <1>4 DEF AccountInv
<1>6. PagesFitCall(account) => PagesFitCall(account)'
  <2>1. \A i \in 1..Len(account.rows) : account.rows[i] \in A!Entries
    BY <1>2
  <2> QED BY <1>1, <1>4, <2>1 DEF PagesFitCall
<1>7. Once(delivered)' /\ EpochsAscend(delivered)' /\ WholeEpochs(delivered)'
  BY <1>1 DEF AccountInv, Once, EpochsAscend, WholeEpochs, Holds, A!Entries
<1>8. Following(delivered)' = Following(delivered) /\ (\A x : Holds(delivered, x)' <=> Holds(delivered, x))
  BY <1>1 DEF Following, A!NoEpoch, Holds
<1> QED BY <1>1, <1>3, <1>5, <1>6, <1>7, <1>8 DEF AccountInv

\* A call that begins.
LEMMA ReadingIs ==
    ASSUME AccountTyped, NEW st \in {"idle", "reading"}, NEW after \in Nat
    PROVE  LET c == A!Reading(st, after)
           IN  /\ c \in [st : {"idle", "reading", "probe", "done", "failed"}, after : Nat,
                         page : 1..EntryMaxPages, rows : Seq(A!Entries), before : SUBSET A!Entries]
               /\ c.st = st /\ c.after = after
               /\ c.before = Paid(paidEpoch) /\ PagesFitCall(c)
<1> DEFINE c == A!Reading(st, after)
<1>1. c = [st |-> st, after |-> after, page |-> 1, rows |-> <<>>, before |-> Paid(paidEpoch)]
  BY ListedEntries DEF A!Reading
<1>2. 1 \in 1..EntryMaxPages /\ EntryPageSize \in Nat /\ 0 = (1 - 1) * EntryPageSize
  BY ReadsAssumption
<1>3. Paid(paidEpoch) \subseteq A!Entries /\ <<>> \in Seq(A!Entries)
  BY DEF Paid
<1> HIDE DEF c
<1>4. PagesFitCall(c)
  <2>1. c.rows = <<>> /\ c.page = 1 /\ (c.st = "idle" \/ c.st = "reading")
    BY <1>1
  <2> QED BY <1>2, <2>1 DEF PagesFitCall
<1> QED BY <1>1, <1>2, <1>3, <1>4 DEF c

LEMMA AsksKeeps == ASSUME AccountInv, UNCHANGED what, A!Asks PROVE AccountInv'
<1> DEFINE after == IF list = "rewards" /\ delivered # <<>>
                    THEN EarnedEpoch[A!Last(delivered)] ELSE A!NoEpoch
           given == IF list = "rewards" THEN delivered ELSE <<>>
<1>1. /\ account' = A!Reading("reading", after) /\ delivered' = given
      /\ UNCHANGED <<driver, list, paidEpoch>>
  BY DEF A!Asks
<1>2. /\ AccountTyped /\ delivered \in Seq(A!Entries)
      /\ Once(delivered) /\ EpochsAscend(delivered) /\ WholeEpochs(delivered)
  BY AccountRanges DEF AccountInv
<1>3. given \in Seq(A!Entries) /\ Once(given) /\ EpochsAscend(given) /\ WholeEpochs(given)
  BY <1>2 DEF Once, EpochsAscend, WholeEpochs
<1>4. after = Following(given) /\ after \in Nat /\ (list = "addresses" => given = <<>>)
  <2>1. after = Following(given) /\ (list = "addresses" => given = <<>>)
    BY DEF Following, A!Last
  <2>2. ASSUME delivered # <<>> PROVE EarnedEpoch[A!Last(delivered)] \in Nat
    <3>1. Len(delivered) \in 1..Len(delivered)
      <4>1. Len(delivered) \in Nat /\ Len(delivered) # 0
        BY <1>2, <2>2
      <4> QED BY <4>1
    <3>2. A!Last(delivered) \in A!Entries
      BY <1>2, <3>1 DEF A!Last
    <3> QED BY <3>2, EntriesAre
  <2> QED BY <2>1, <2>2 DEF A!NoEpoch
<1> HIDE DEF after, given
<1> DEFINE c == A!Reading("reading", after)
<1>5. /\ c \in [st : {"idle", "reading", "probe", "done", "failed"}, after : Nat,
                page : 1..EntryMaxPages, rows : Seq(A!Entries), before : SUBSET A!Entries]
      /\ c.st = "reading" /\ c.after = after /\ c.before = Paid(paidEpoch) /\ PagesFitCall(c)
  BY <1>2, <1>4, ReadingIs
<1> HIDE DEF c
<1>6. account' = c
  BY <1>1 DEF c
<1>7. AccountTyped'
  BY <1>1, <1>2, <1>3, <1>5, <1>6 DEF AccountTyped
<1>8. Once(delivered)' /\ EpochsAscend(delivered)' /\ WholeEpochs(delivered)'
  BY <1>1, <1>3 DEF Once, EpochsAscend, WholeEpochs, Holds, A!Entries
<1>9. Following(delivered)' = after
  BY <1>1, <1>4 DEF Following, A!NoEpoch
<1>10. PagesFitCall(account)'
  BY <1>1, <1>5, <1>6 DEF PagesFitCall
<1>11. \A x \in account'.before : EarnedEpoch[x] <= paidEpoch'
  BY <1>1, <1>5, <1>6 DEF Paid
<1> QED BY <1>1, <1>4, <1>5, <1>6, <1>7, <1>8, <1>9, <1>10, <1>11 DEF AccountInv

LEMMA AllReadKeeps ==
    ASSUME AccountInv, what = "account", UNCHANGED what, A!AllRead PROVE AccountInv'
<1> DEFINE S == Paid(paidEpoch)
           N == Cardinality(S)
<1>1. AccountTyped /\ list = "rewards" /\ account.st \in {"reading", "probe"}
  BY DEF AccountInv, A!AllRead
<1>2. PICK rows \in A!SetToSeqs(A!ToSet(A!Listed)) : A!Ends(rows)
  BY DEF A!AllRead
<1>3. A!ToSet(A!Listed) = S /\ S \subseteq A!Entries
  BY <1>1, ListedEntries DEF Paid
<1>4. N \in Nat /\ S = 1..N /\ IsFiniteSet(S)
  <2>1. N \in Nat /\ S = 1..N
    BY <1>1, PaidAreFirst DEF AccountTyped
  <2> HIDE DEF N, S
  <2> QED BY <2>1, FS_Interval
<1>5. rows \in [1..N -> S] /\ \A i, j \in 1..N : i # j => rows[i] # rows[j]
  <2>1. A!Cardinality(S) = N
    BY DEF A!Cardinality, Cardinality
  <2> HIDE DEF S, N
  <2> QED BY <1>2, <1>3, <2>1 DEF A!SetToSeqs
<1>6. Cardinality(S) = N
  OBVIOUS
<1> HIDE DEF S, N
<1>7. rows \in Seq(A!Entries) /\ Len(rows) = N /\ Once(rows)
  <2>1. rows \in Seq(A!Entries) /\ Len(rows) = N
    BY <1>3, <1>4, <1>5
  <2> QED BY <1>5, <2>1 DEF Once
<1>8. \A x \in S : Holds(rows, x)
  <2>1. rows \in Injection(1..N, S)
    BY <1>5 DEF Injection, IsInjective
  <2>2. IsFiniteSet(1..N) /\ Cardinality(1..N) = N
    BY <1>4, <1>6
  <2>3. rows \in Surjection(1..N, S)
    BY <1>4, <1>6, <2>1, <2>2, FS_Injection
  <2> QED BY <1>7, <2>3 DEF Surjection, Holds
<1>9. Complete(rows)
  <2>1. \A x : Holds(rows, x) => x \in S
    BY <1>5, <1>7 DEF Holds
  <2>2. \A x \in A!Entries : EarnedEpoch[x] <= paidEpoch <=> x \in S
    BY DEF S, Paid
  <2> QED BY <1>7, <1>8, <2>1, <2>2 DEF Complete
<1> QED BY <1>1, <1>2, <1>7, <1>9, AnswerEnds

\* The rows of a call with its next page.
LEMMA NextPageIs ==
    ASSUME AccountInv, NEW k \in Nat \ {0}, account.st \in {"reading", "probe"},
           Len(account.rows) = (k - 1) * EntryPageSize
    PROVE  LET got == A!Page(k)
               rows == account.rows \o got
           IN  /\ rows \in Seq(A!Entries) /\ Len(got) \in Nat /\ Len(got) <= EntryPageSize
               /\ Len(rows) = Len(account.rows) + Len(got)
               /\ \A i \in 1..Len(rows) : rows[i] = i /\ EarnedEpoch[i] <= paidEpoch
               /\ Len(got) < EntryPageSize => Complete(rows) /\ EpochsAscend(rows)
<1> DEFINE all == A!Listed
           read == account.rows
           n == (k - 1) * EntryPageSize
           last == A!Min({k * EntryPageSize, Len(all)})
           got == A!Page(k)
           rows == read \o got
<1>1. /\ read \in Seq(A!Entries) /\ paidEpoch \in Nat
      /\ \A i \in 1..Len(read) : read[i] = i /\ EarnedEpoch[i] <= paidEpoch
  BY AccountRanges DEF AccountInv, PagesFitCall
<1>2. /\ all \in Seq(A!Entries) /\ Len(all) \in Nat
      /\ \A i \in 1..Len(all) : all[i] = i
      /\ \A x \in A!Entries : EarnedEpoch[x] <= paidEpoch <=> x \in 1..Len(all)
  BY ListedEntries DEF AccountInv
<1>3. /\ EntryPageSize \in Nat \ {0} /\ n \in Nat /\ k * EntryPageSize = n + EntryPageSize
      /\ k * EntryPageSize \in Nat
  <2>1. EntryPageSize \in Nat \ {0}
    BY ReadsAssumption
  <2>2. (k - 1) * EntryPageSize \in Nat
    BY <2>1
  <2>3. k * EntryPageSize = (k - 1) * EntryPageSize + EntryPageSize
    BY <2>1
  <2> QED BY <2>1, <2>2, <2>3
<1>4. got = SubSeq(all, n + 1, last)
  BY DEF A!Page
<1>5. Len(read) = n
  OBVIOUS
<1> HIDE DEF n, all, read, got
<1>6. last = IF n + EntryPageSize <= Len(all) THEN n + EntryPageSize ELSE Len(all)
  <2>1. last = IF k * EntryPageSize <= Len(all) THEN k * EntryPageSize ELSE Len(all)
    BY <1>2, <1>3, LesserOfTwo
  <2> QED BY <1>3, <2>1
<1> HIDE DEF last
<1>7. /\ got \in Seq(A!Entries) /\ Len(got) <= EntryPageSize /\ Len(got) \in Nat
      /\ \A i \in 1..Len(got) : n + i \in 1..Len(all) /\ got[i] = all[n + i]
      /\ Len(got) < EntryPageSize => Len(all) <= n + Len(got)
  <2>1. all \in Seq(A!Entries) /\ n \in Nat /\ EntryPageSize \in Nat \ {0}
    BY <1>2, <1>3
  <2>2. last \in Nat
    BY <1>2, <1>6, <2>1
  <2> DEFINE S == A!Entries
  <2>3. all \in Seq(S)
    BY <2>1
  <2> HIDE DEF S
  <2>4. /\ got \in Seq(S) /\ Len(got) <= EntryPageSize /\ Len(got) \in Nat
        /\ \A i \in 1..Len(got) : n + i \in 1..Len(all) /\ got[i] = all[n + i]
        /\ Len(got) < EntryPageSize => Len(all) <= n + Len(got)
    BY ONLY <2>1, <2>2, <2>3, <1>4, <1>6, PageOf
  <2> QED BY <2>4 DEF S
<1>8. /\ rows \in Seq(A!Entries) /\ Len(rows) = Len(read) + Len(got)
      /\ \A i \in 1..Len(read) : rows[i] = read[i]
      /\ \A i \in 1..Len(got) : rows[Len(read) + i] = got[i]
  BY <1>1, <1>7, ConcatHolds
<1> HIDE DEF rows
<1>9. \A i \in 1..Len(all) : i \in A!Entries
  BY <1>2
<1>10. ASSUME NEW i \in 1..Len(rows) PROVE rows[i] = i /\ EarnedEpoch[i] <= paidEpoch
  <2>1. CASE i \in 1..Len(read)
    BY <1>1, <1>8, <2>1
  <2>2. CASE i \notin 1..Len(read)
    <3> DEFINE j == i - n
    <3>1. j \in 1..Len(got) /\ n + j = i
      BY <1>3, <1>5, <1>7, <1>8, <2>2
    <3> HIDE DEF j
    <3>2. rows[i] = all[i] /\ i \in 1..Len(all)
      BY <1>5, <1>7, <1>8, <3>1
    <3> QED BY <1>2, <1>9, <3>2
  <2> QED BY <2>1, <2>2
<1>11. EpochsAscend(rows)
  <2>1. ASSUME NEW i \in 1..Len(rows), NEW j \in 1..Len(rows), i < j
        PROVE  EarnedEpoch[rows[i]] <= EarnedEpoch[rows[j]]
    <3>1. rows[i] = i /\ rows[j] = j
      BY <1>10
    <3>2. i \in A!Entries /\ j \in A!Entries
      BY <1>8, <3>1
    <3> QED BY <2>1, <3>1, <3>2, EntriesAre
  <2> QED BY <2>1 DEF EpochsAscend
<1>12. ASSUME Len(got) < EntryPageSize PROVE Complete(rows)
  <2>1. Once(rows)
    BY <1>10 DEF Once
  <2>2. ASSUME NEW x \in A!Entries, EarnedEpoch[x] <= paidEpoch PROVE Holds(rows, x)
    <3>1. x \in 1..Len(all)
      BY <1>2, <2>2
    <3>2. Len(all) <= Len(rows) /\ Len(rows) \in Nat
      BY <1>3, <1>5, <1>7, <1>8, <1>12
    <3>3. x \in 1..Len(rows)
      BY <1>2, <3>1, <3>2
    <3> QED BY <1>10, <3>3 DEF Holds
  <2>3. \A x : Holds(rows, x) => EarnedEpoch[x] <= paidEpoch
    BY <1>10 DEF Holds
  <2> QED BY <2>1, <2>2, <2>3 DEF Complete
<1> QED BY <1>7, <1>8, <1>10, <1>11, <1>12 DEF read, got, rows

LEMMA PageReadKeeps == ASSUME AccountInv, UNCHANGED what, A!PageRead PROVE AccountInv'
<1> DEFINE got == A!Page(account.page)
           rows == account.rows \o got
           more == [account EXCEPT !.rows = rows, !.page = @ + 1]
           probe == [account EXCEPT !.st = "probe", !.rows = rows]
<1>1. account.st = "reading"
  BY DEF A!PageRead
<1>2. /\ account.page \in 1..EntryMaxPages /\ account.page \in Nat \ {0}
      /\ EntryMaxPages \in Nat /\ EntryPageSize \in Nat \ {0}
  <2>1. AccountTyped /\ EntryMaxPages \in Nat /\ EntryPageSize \in Nat \ {0}
    BY ReadsAssumption DEF AccountInv
  <2> QED BY <2>1, AccountRanges
<1>3. Len(account.rows) = (account.page - 1) * EntryPageSize
  BY <1>1 DEF AccountInv, PagesFitCall
<1>4. /\ rows \in Seq(A!Entries) /\ Len(got) \in Nat /\ Len(got) <= EntryPageSize
      /\ Len(rows) = Len(account.rows) + Len(got)
      /\ \A i \in 1..Len(rows) : rows[i] = i /\ EarnedEpoch[i] <= paidEpoch
      /\ Len(got) < EntryPageSize => Complete(rows) /\ EpochsAscend(rows)
  BY <1>1, <1>2, <1>3, NextPageIs
<1>5. CASE A!Listed = <<>> /\ A!Ends(<<>>)
  <2>1. \A x \in A!Entries : ~(EarnedEpoch[x] <= paidEpoch)
    <3>1. \A x \in A!Entries : EarnedEpoch[x] <= paidEpoch => x \in 1..Len(A!Listed)
      BY ListedEntries DEF AccountInv
    <3>2. 1..Len(A!Listed) = {}
      BY <1>5
    <3> QED BY <3>1, <3>2
  <2>2. Complete(<<>>) /\ EpochsAscend(<<>>) /\ <<>> \in Seq(A!Entries)
    BY <2>1 DEF Complete, Once, Holds, EpochsAscend
  <2> QED BY <1>1, <1>5, <2>2, AnswerEnds
<1>6. CASE Len(got) < EntryPageSize /\ A!Ends(rows)
  <2> HIDE DEF rows
  <2> QED BY <1>1, <1>4, <1>6, AnswerEnds
<1>7. ASSUME Len(got) = EntryPageSize PROVE Len(rows) = account.page * EntryPageSize
  <2>1. account.page * EntryPageSize = (account.page - 1) * EntryPageSize + EntryPageSize
    BY <1>2
  <2> QED BY <1>3, <1>4, <1>7, <2>1
<1>8. account \in [st : {"idle", "reading", "probe", "done", "failed"}, after : Nat,
                   page : 1..EntryMaxPages, rows : Seq(A!Entries), before : SUBSET A!Entries]
  BY DEF AccountInv, AccountTyped
<1>9. CASE Len(got) = EntryPageSize /\ account.page < EntryMaxPages /\ A!Goes(more)
  <2> HIDE DEF rows
  <2>1. account.page + 1 \in 1..EntryMaxPages
    BY <1>2, <1>9
  <2>2. /\ more \in [st : {"idle", "reading", "probe", "done", "failed"}, after : Nat,
                     page : 1..EntryMaxPages, rows : Seq(A!Entries), before : SUBSET A!Entries]
        /\ more.before = account.before /\ more.after = account.after /\ more.st = "reading"
        /\ more.rows = rows /\ more.page = account.page + 1
    BY <1>1, <1>4, <1>8, <2>1
  <2> HIDE DEF more
  <2>3. Len(rows) = (more.page - 1) * EntryPageSize
    <3>1. more.page - 1 = account.page
      BY <1>2, <2>2
    <3> QED BY <1>7, <1>9, <3>1
  <2>4. PagesFitCall(more)
    BY <1>4, <2>2, <2>3 DEF PagesFitCall
  <2> QED BY <1>1, <1>9, <2>2, <2>4, CallGoesOn
<1>10. CASE Len(got) = EntryPageSize /\ account.page = EntryMaxPages /\ A!PastBound(rows)
  <2> HIDE DEF rows
  <2>1. /\ probe \in [st : {"idle", "reading", "probe", "done", "failed"}, after : Nat,
                      page : 1..EntryMaxPages, rows : Seq(A!Entries), before : SUBSET A!Entries]
        /\ probe.before = account.before /\ probe.after = account.after /\ probe.st = "probe"
        /\ probe.rows = rows
    BY <1>4, <1>8
  <2>2. A!Goes(probe)
    BY <1>10 DEF A!PastBound
  <2> HIDE DEF probe
  <2>3. PagesFitCall(probe)
    BY <1>4, <1>7, <1>10, <2>1 DEF PagesFitCall
  <2> QED BY <1>1, <2>1, <2>2, <2>3, CallGoesOn
<1> QED BY <1>5, <1>6, <1>9, <1>10 DEF A!PageRead

LEMMA CallFailsKeeps ==
    ASSUME AccountInv, UNCHANGED what, A!Goes([account EXCEPT !.st = "failed"]) PROVE AccountInv'
<1> DEFINE c == [account EXCEPT !.st = "failed"]
<1>1. /\ c \in [st : {"idle", "reading", "probe", "done", "failed"}, after : Nat,
                page : 1..EntryMaxPages, rows : Seq(A!Entries), before : SUBSET A!Entries]
      /\ c.before = account.before /\ c.after = account.after /\ c.st = "failed"
  BY DEF AccountInv, AccountTyped
<1>2. A!Goes(c)
  OBVIOUS
<1> HIDE DEF c
<1> QED BY <1>1, <1>2, CallGoesOn

LEMMA ProbedKeeps == ASSUME AccountInv, UNCHANGED what, A!Probed PROVE AccountInv'
<1> DEFINE rows == account.rows
<1>1. account.st = "probe"
  BY DEF A!Probed
<1>2. CASE A!Page(EntryMaxPages + 1) = <<>> /\ A!Ends(rows)
  <2>1. EntryMaxPages \in Nat \ {0} /\ EntryPageSize \in Nat \ {0} /\ rows \in Seq(A!Entries)
    <3>1. AccountTyped
      BY DEF AccountInv
    <3> QED BY <3>1, ReadsAssumption, AccountRanges
  <2>2. Len(rows) = EntryMaxPages * EntryPageSize
    BY <1>1 DEF AccountInv, PagesFitCall
  <2> DEFINE k == EntryMaxPages + 1
  <2>3. k - 1 = EntryMaxPages /\ k \in Nat \ {0}
    BY <2>1
  <2> HIDE DEF k
  <2>4. Len(A!Page(k)) < EntryPageSize =>
            Complete(rows \o A!Page(k)) /\ EpochsAscend(rows \o A!Page(k))
    <3>1. Len(rows) = (k - 1) * EntryPageSize
      BY <2>2, <2>3
    <3> QED BY <1>1, <2>3, <3>1, NextPageIs
  <2>5. rows \o <<>> = rows /\ Len(<<>>) < EntryPageSize
    <3> HIDE DEF rows
    <3> QED BY <2>1
  <2>6. Complete(rows) /\ EpochsAscend(rows)
    BY <1>2, <2>4, <2>5 DEF k
  <2> QED BY <1>1, <1>2, <2>1, <2>6, AnswerEnds
<1> QED BY <1>2, CallFailsKeeps DEF A!Probed

LEMMA AccountStep ==
    ASSUME AccountInv, what = "account", UNCHANGED what, A!Next PROVE AccountInv'
BY PaysKeeps, AsksKeeps, AllReadKeeps, PageReadKeeps, ProbedKeeps, CallFailsKeeps
   DEF A!Next, A!CallSteps, A!ReadFails

LEMMA AccountRests ==
    ASSUME AccountInv, UNCHANGED accountVars, UNCHANGED what, what # "account" \/ UNCHANGED driver
    PROVE  AccountInv'
<1>1. UNCHANGED <<list, paidEpoch, account, delivered>>
  BY DEF accountVars
<1>2. AccountTyped' /\ (PagesFitCall(account) => PagesFitCall(account)')
  BY <1>1 DEF AccountInv, AccountTyped, PagesFitCall
<1>3. Once(delivered)' /\ EpochsAscend(delivered)' /\ WholeEpochs(delivered)'
  BY <1>1 DEF AccountInv, Once, EpochsAscend, WholeEpochs, Holds, A!Entries
<1>4. Following(delivered)' = Following(delivered) /\ (\A x : Holds(delivered, x)' <=> Holds(delivered, x))
  BY <1>1 DEF Following, A!NoEpoch, Holds
<1> QED BY <1>1, <1>2, <1>3, <1>4 DEF AccountInv

LEMMA AccountStart == ASSUME A!Init PROVE AccountInv
<1>1. /\ list \in {"rewards", "addresses"} /\ (driver = "koios" => list = "rewards")
      /\ paidEpoch \in Nat /\ account = A!Reading("idle", 0) /\ delivered = <<>>
  BY ReadsAssumption DEF A!Init, A!NoEpoch
<1> DEFINE c == A!Reading("idle", 0)
<1>2. c = [st |-> "idle", after |-> 0, page |-> 1, rows |-> <<>>, before |-> Paid(paidEpoch)]
  <2>1. A!ToSet(A!Listed) = Paid(paidEpoch)
    <3>1. A!Cardinality(Paid(paidEpoch)) = Cardinality(Paid(paidEpoch))
      BY DEF A!Cardinality, Cardinality
    <3>2. Cardinality(Paid(paidEpoch)) \in Nat /\ Paid(paidEpoch) = 1..Cardinality(Paid(paidEpoch))
      BY <1>1, PaidAreFirst
    <3>3. A!Listed = [n \in 1..Cardinality(Paid(paidEpoch)) |-> n]
      BY <3>1 DEF A!Listed, Paid
    <3> QED BY <3>2, <3>3 DEF A!ToSet
  <2> QED BY <2>1 DEF A!Reading
<1>3. 1 \in 1..EntryMaxPages /\ Paid(paidEpoch) \subseteq A!Entries /\ <<>> \in Seq(A!Entries)
  BY ReadsAssumption DEF Paid
<1>4. AccountTyped /\ account.st = "idle" /\ account.before = Paid(paidEpoch)
  <2>1. account = [st |-> "idle", after |-> 0, page |-> 1, rows |-> <<>>,
                   before |-> Paid(paidEpoch)]
    BY <1>1, <1>2
  <2>2. account \in [st : {"idle", "reading", "probe", "done", "failed"}, after : Nat,
                     page : 1..EntryMaxPages, rows : Seq(A!Entries), before : SUBSET A!Entries]
    BY <1>3, <2>1
  <2> HIDE DEF c
  <2>3. list \in {"rewards", "addresses"} /\ paidEpoch \in Nat /\ delivered \in Seq(A!Entries)
    BY <1>1, <1>3
  <2> QED BY <2>1, <2>2, <2>3 DEF AccountTyped
<1>5. EpochsAscend(<<>>) /\ Once(<<>>) /\ WholeEpochs(<<>>)
  BY DEF EpochsAscend, Once, WholeEpochs
<1> QED BY <1>1, <1>4, <1>5 DEF AccountInv, Paid

\* A wallet that asks for its rewards again and again, each time for what
\* follows the last epoch it has, is given each reward once and in the order of
\* the epochs, and after every call has all that was listed when it began; an
\* enumeration of its addresses has each once, or fails at the bound
\* (getRewardHistory, enumerateAccountAddresses of src/providers).
THEOREM AccountListsStayWhole == Spec => [](A!NothingLeftBehind /\ A!EntriesOnce)
<1>1. Init => AccountInv
  BY AccountStart DEF Init
<1>2. AccountInv /\ [Next]_vars => AccountInv'
  <2> SUFFICES ASSUME AccountInv, [Next]_vars PROVE AccountInv'
    OBVIOUS
  <2>1. \/ what = "account" /\ A!Next
        \/ UNCHANGED accountVars /\ (what # "account" \/ UNCHANGED driver)
    BY DEF Next, vars, Paging, Utxos, Lookup, Account, History, Batch
  <2>2. UNCHANGED what
    BY DEF Next, vars, Paging, Utxos, Lookup, Account, History, Batch
  <2> QED BY <2>1, <2>2, AccountStep, AccountRests
<1>3. ASSUME AccountInv PROVE A!NothingLeftBehind /\ A!EntriesOnce
  <2>1. delivered \in Seq(A!Entries) /\ Once(delivered) /\ EpochsAscend(delivered)
    BY <1>3, AccountRanges DEF AccountInv
  <2>2. DOMAIN delivered = 1..Len(delivered)
    BY <2>1
  <2>3. \A x : Holds(delivered, x) => x \in A!ToSet(delivered)
    BY <2>2 DEF Holds, A!ToSet
  <2>4. A!NothingLeftBehind
    BY <1>3, <2>3 DEF AccountInv, A!NothingLeftBehind
  <2>5. A!EntriesOnce
    BY <2>1, <2>2 DEF A!EntriesOnce, A!IsInjective, Once, EpochsAscend
  <2> QED BY <2>4, <2>5
<1> QED BY <1>1, <1>2, <1>3, PTL DEF Spec

-----------------------------------------------------------------------------
(* The packing of a list into bodies.                                       *)

\* The state of the packing loop.
Packer == [chunks : Seq(Seq(Nat)), current : Seq(Nat), used : Nat]

\* An item keeps the loop's state in its shape.
LEMMA PackItemTyped ==
    ASSUME NEW p \in Packer, NEW item \in Nat, NEW limit \in Int
    PROVE  P!PackItem(p, item, limit) \in Packer
<1>1. p.chunks \in Seq(Seq(Nat)) /\ p.current \in Seq(Nat) /\ p.used \in Nat
  BY DEF Packer
<1>2. Append(p.chunks, p.current) \in Seq(Seq(Nat)) /\ Append(p.current, item) \in Seq(Nat)
      /\ <<item>> \in Seq(Nat) /\ P!Joined(p.used, item) \in Nat
  BY <1>1 DEF P!Joined
<1> QED BY <1>1, <1>2 DEF P!PackItem, Packer

\* packBySize, item by item.
LEMMA PackFolds ==
    ASSUME NEW items \in Seq(Nat), NEW limit \in Int
    PROVE  \E g :
              /\ g[0] = [chunks |-> <<>>, current |-> <<>>, used |-> 0]
              /\ \A k \in 1..Len(items) : g[k] = P!PackItem(g[k - 1], items[k], P!Room(limit))
              /\ P!packBySize(items, limit) = P!Flushed(g[Len(items)])
<1> DEFINE n == Len(items)
           base == [chunks |-> <<>>, current |-> <<>>, used |-> 0]
           room == P!Room(limit)
           step == [x \in Packer \X Nat |-> P!PackItem(x[1], x[2], room)]
           Fills(iter) ==
              iter = [u \in SUBSET DOMAIN items |->
                        IF u = {} THEN base ELSE P!PackItem(iter[u \ {Max(u)}], items[Max(u)], room)]
<1>1. n \in Nat /\ DOMAIN items = 1..n /\ room \in Int /\ base \in Packer
  BY ReadsAssumption DEF P!Room, Packer
<1>2. step \in [Packer \X Nat -> Packer]
  <2> HIDE DEF room
  <2> QED BY <1>1, PackItemTyped
<1> HIDE DEF n, base, room
<1>3. \E iter : Fills(iter)
  <2>1. PICK iter \in [SUBSET DOMAIN items -> Packer] : Folding(iter, step, base, items)
    <3> HIDE DEF step
    <3> QED BY <1>1, <1>2, FoldDefined
  <2>2. ASSUME NEW u \in SUBSET DOMAIN items, u # {}
        PROVE  step[<<iter[u \ {Max(u)}], items[Max(u)]>>]
                  = P!PackItem(iter[u \ {Max(u)}], items[Max(u)], room)
    <3>1. Max(u) \in u
      BY <1>1, <2>2, LastPlace
    <3>2. iter[u \ {Max(u)}] \in Packer /\ items[Max(u)] \in Nat
      BY <1>1, <3>1
    <3> QED BY <3>2
  <2>3. Fills(iter)
    <3> HIDE DEF step
    <3> QED BY <2>1, <2>2 DEF Folding
  <2> HIDE DEF Fills
  <2> QED BY <2>3
<1>4. PICK iter : Fills(iter) /\ P!packBySize(items, limit) = P!Flushed(iter[DOMAIN items])
  BY Zenon, <1>3 DEF P!packBySize, P!FoldLeft, P!MapThenFoldSet, P!Max, Max, base, room
<1> DEFINE g == [k \in 0..n |-> iter[1..k]]
<1>5. g[0] = base
  <2>1. 1..0 = {}
    OBVIOUS
  <2> QED BY <1>1, <1>4, <2>1
<1>6. ASSUME NEW k \in 1..n PROVE g[k] = P!PackItem(g[k - 1], items[k], room)
  <2>1. k \in Nat /\ k > 0 /\ 1..k \in SUBSET (1..n) /\ k \in 1..k /\ k \in 0..n /\ k - 1 \in 0..n
    <3> HIDE DEF step, Fills, g
    <3> QED BY <1>1
  <2>2. Max(1..k) = k /\ (1..k) \ {k} = 1..(k - 1)
    BY <2>1, LastOfAll
  <2> DEFINE u == 1..k
  <2>3. u \in SUBSET DOMAIN items /\ u # {} /\ Max(u) = k /\ u \ {k} = 1..(k-1)
    BY <1>1, <2>1, <2>2
  <2>4. g[k] = iter[u] /\ g[k - 1] = iter[1..(k - 1)]
    BY <2>1
  <2> HIDE DEF u, g
  <2>5. iter[u] = P!PackItem(iter[u \ {k}], items[k], room)
    BY <1>4, <2>3
  <2> QED BY <2>3, <2>4, <2>5
<1>7. iter[DOMAIN items] = g[n]
  <2>1. n \in 0..n
    BY <1>1
  <2> QED BY <1>1, <1>4, <2>1
<1> HIDE DEF g
<1> QED BY <1>4, <1>5, <1>6, <1>7 DEF n, base, room

\* The bytes of the body of items a + 1 to b.
LEMMA PieceIs ==
    ASSUME NEW items \in Seq(Nat), NEW sum, Sums(sum, items),
           NEW b \in 0..Len(items), NEW a \in 0..b
    PROVE  P!BodySize(SubSeq(items, a + 1, b))
              = Envelope + (sum[b] - sum[a]) + (IF a = b THEN 0 ELSE b - a - 1)
<1> DEFINE seq == SubSeq(items, a + 1, b)
<1>1. seq \in Seq(Nat) /\ Len(seq) = b - a /\ Total(seq) = sum[b] - sum[a]
  BY PieceSums
<1>2. a \in Nat /\ b \in Nat
  OBVIOUS
<1> HIDE DEF seq
<1>3. seq = <<>> <=> a = b
  <2>1. seq = <<>> <=> Len(seq) = 0
    BY <1>1, EmptySeq
  <2>2. Len(seq) = 0 <=> a = b
    BY <1>1, <1>2
  <2> QED BY <2>1, <2>2
<1>4. P!BodySize(seq) = Envelope + Total(seq) + (IF seq = <<>> THEN 0 ELSE Len(seq) - 1)
  BY Zenon DEF P!BodySize, Total, P!FoldLeft, P!MapThenFoldSet, P!Max,
               FoldLeft, MapThenFoldSet, Max
<1> QED BY <1>1, <1>2, <1>3, <1>4 DEF seq

\* The bytes of the items a + 1 to b and the commas between them.
Bytes(sum, a, b) == Envelope + (sum[b] - sum[a]) + (b - a - 1)

\* A way to cut a list into bodies that fit in room.
Fitting(items, cut, room) == cut \in P!Cuts(Len(items)) /\ P!CutFits(items, cut, room)

\* Where items b + 1 to k + 1 do not fit in one body, it cuts between them.
LEMMA CutBetween ==
    ASSUME NEW items \in Seq(Nat), NEW sum, Sums(sum, items), NEW room \in Int,
           NEW cut, Fitting(items, cut, room),
           NEW b \in Nat, NEW k \in Nat, b < k, k < Len(items), Bytes(sum, b, k + 1) > room
    PROVE  \E x \in cut : b < x /\ x <= k
<1> DEFINE n == Len(items)
           before == cut \cap (1..b)
           after == (cut \cup {n}) \cap ((k + 1)..n)
<1>1. n \in Nat /\ cut \in SUBSET (1..(n - 1)) /\ n > 0
  BY DEF Fitting, P!Cuts
<1>2. SUFFICES ASSUME \A x \in cut : ~(b < x /\ x <= k) PROVE FALSE
  OBVIOUS
<1>3. \A from \in {0} \cup cut, to \in cut \cup {n} :
         (from < to /\ \A x \in cut : ~(from < x /\ x < to))
         => P!BodySize(SubSeq(items, from + 1, to)) <= room
  BY DEF Fitting, P!CutFits, P!PieceSize
<1>4. \A x \in 0..n : sum[x] \in Nat
  BY DEF Sums
<1> HIDE DEF n
<1>5. PICK from \in ({0} \cup cut) \cap (0..b) : \A x \in cut : x <= b => x <= from
  <2>1. CASE before = {}
    <3>1. 0 \in ({0} \cup cut) \cap (0..b)
      OBVIOUS
    <3>2. \A x \in cut : ~(x <= b)
      BY <1>1, <2>1
    <3> QED BY <3>1, <3>2
  <2>2. CASE before # {}
    <3>1. before \in SUBSET (1..b)
      OBVIOUS
    <3>2. PICK last \in before : \A x \in before : x <= last
      <4> HIDE DEF before
      <4> QED BY <2>2, <3>1, LastPlace
    <3>3. \A x \in cut : x <= b => x \in before
      BY <1>1
    <3>4. last \in ({0} \cup cut) \cap (0..b)
      BY <3>2
    <3> QED BY <3>2, <3>3, <3>4
  <2> QED BY <2>1, <2>2
<1>6. PICK to \in (cut \cup {n}) \cap ((k + 1)..n) : \A x \in cut : x > k => to <= x
  <2>1. after \in SUBSET (1..n) /\ n \in after
    BY <1>1 DEF n
  <2>2. PICK to \in after : \A x \in after : to <= x
    <3> HIDE DEF after
    <3> QED BY <1>1, <2>1, FirstPlace
  <2>3. \A x \in cut : x > k => x \in after
    BY <1>1
  <2> QED BY <2>2, <2>3
<1>7. from \in Nat /\ to \in Nat /\ from <= b /\ k + 1 <= to /\ to <= n /\ from < to
  BY <1>1, <1>5, <1>6
<1>8. P!BodySize(SubSeq(items, from + 1, to)) <= room
  <2>1. \A x \in cut : ~(from < x /\ x < to)
    BY <1>1, <1>2, <1>5, <1>6, <1>7
  <2> QED BY <1>3, <1>5, <1>6, <1>7, <2>1
<1>9. Bytes(sum, from, to) <= room
  <2>1. to \in 0..Len(items) /\ from \in 0..to /\ from # to
    BY <1>1, <1>7 DEF n
  <2>2. P!BodySize(SubSeq(items, from + 1, to))
              = Envelope + (sum[to] - sum[from]) + (IF from = to THEN 0 ELSE to - from - 1)
    BY <2>1, PieceIs
  <2> QED BY <1>8, <2>1, <2>2 DEF Bytes
<1>10. sum[from] <= sum[b]
  <2>1. b \in 0..Len(items) /\ from \in 0..b
    BY <1>1, <1>7 DEF n
  <2> QED BY <2>1, SumsGrow
<1> DEFINE l == k + 1
<1>11. l \in Nat /\ l <= to /\ l - b - 1 = k - b /\ Bytes(sum, b, l) > room
  BY <1>7
<1> HIDE DEF l
<1>12. sum[l] <= sum[to]
  <2>1. to \in 0..Len(items) /\ l \in 0..to
    BY <1>1, <1>7, <1>11 DEF n
  <2> QED BY <2>1, SumsGrow
<1>13. sum[from] \in Nat /\ sum[b] \in Nat /\ sum[l] \in Nat /\ sum[to] \in Nat /\ Envelope \in Nat
  BY <1>1, <1>4, <1>7, <1>11, ReadsAssumption DEF n
<1>14. Envelope + (sum[to] - sum[from]) + (to - from - 1) <= room
  BY <1>9 DEF Bytes
<1>15. Envelope + (sum[l] - sum[b]) + (l - b - 1) > room
  BY <1>11 DEF Bytes
<1>16. to - from >= l - b /\ sum[to] - sum[from] >= sum[l] - sum[b]
  <2>1. to - from >= l - b
    BY <1>1, <1>7, <1>11
  <2>2. \A o, i, e, c \in Nat : o <= i /\ e <= c => c - o >= e - i
    OBVIOUS
  <2> QED BY <1>10, <1>12, <1>13, <2>1, <2>2
<1> DEFINE outer == sum[to] - sum[from]
           inner == sum[l] - sum[b]
           far == to - from
           near == l - b
<1>17. /\ outer \in Int /\ inner \in Int /\ far \in Int /\ near \in Int
       /\ far >= near /\ outer >= inner
  <2>1. outer \in Int /\ inner \in Int
    <3>1. \A o, c \in Nat : c - o \in Int
      OBVIOUS
    <3> QED BY <1>13, <3>1
  <2>2. far \in Int /\ near \in Int
    BY <1>7, <1>11
  <2> QED BY <1>16, <2>1, <2>2
<1>18. Envelope + outer + (far - 1) <= room /\ Envelope + inner + (near - 1) > room
  BY <1>14, <1>15
<1> HIDE DEF outer, inner, far, near
<1> QED BY <1>13, <1>17, <1>18

\* The bodies are the pieces of the first items, each up to its end, and fit.
Pieces(e, chunks, k, items, room) ==
    /\ chunks \in Seq(Seq(Nat))
    /\ e \in [0..Len(chunks) -> 0..k] /\ e[0] = 0 /\ Len(chunks) <= e[Len(chunks)]
    /\ \A j \in 1..Len(chunks) :
          /\ e[j - 1] < e[j] /\ chunks[j] = SubSeq(items, e[j - 1] + 1, e[j])
          /\ P!BodySize(chunks[j]) <= room

\* One more.
LEMMA PieceAdded ==
    ASSUME NEW items \in Seq(Nat), NEW sum, Sums(sum, items), NEW room \in Int,
           NEW e, NEW chunks, NEW k \in 0..Len(items),
           Pieces(e, chunks, k, items, room),
           e[Len(chunks)] < k, Bytes(sum, e[Len(chunks)], k) <= room
    PROVE  \E f : /\ Pieces(f, Append(chunks, SubSeq(items, e[Len(chunks)] + 1, k)), k, items, room)
                  /\ f[Len(chunks) + 1] = k
<1> DEFINE n == Len(items)
           m == Len(chunks)
           b == e[m]
           chunk == SubSeq(items, b + 1, k)
           more == Append(chunks, chunk)
           f == [j \in 0..(m + 1) |-> IF j = m + 1 THEN k ELSE e[j]]
<1>1. n \in Nat /\ m \in Nat /\ k \in Nat /\ k <= n /\ b \in 0..k /\ m <= b
  <2>1. n \in Nat /\ k \in Nat /\ k <= n
    OBVIOUS
  <2>2. m \in Nat
    BY DEF Pieces
  <2>3. e \in [0..m -> 0..k] /\ m <= b
    BY DEF Pieces
  <2>4. m \in 0..m
    BY <2>2
  <2>5. b \in 0..k
    BY <2>3, <2>4
  <2> QED BY <2>1, <2>2, <2>3, <2>5
<1>2. chunk \in Seq(Nat) /\ P!BodySize(chunk) <= room
  <2> DEFINE c == b
  <2>1. k \in 0..Len(items) /\ c \in 0..k /\ c # k /\ chunk = SubSeq(items, c + 1, k)
    BY <1>1
  <2>2. Bytes(sum, c, k) <= room
    OBVIOUS
  <2> HIDE DEF b, c, chunk
  <2>5. chunk \in Seq(Nat)
    BY <2>1, PieceSums
  <2>6. P!BodySize(SubSeq(items, c + 1, k))
              = Envelope + (sum[k] - sum[c]) + (IF c = k THEN 0 ELSE k - c - 1)
    BY <2>1, PieceIs
  <2>7. P!BodySize(chunk) = Bytes(sum, c, k)
    BY <2>1, <2>6 DEF Bytes
  <2> QED BY <2>2, <2>5, <2>7
<1>3. more \in Seq(Seq(Nat)) /\ Len(more) = m + 1 /\ more[m + 1] = chunk
      /\ \A j \in 1..m : more[j] = chunks[j]
  <2>1. chunks \in Seq(Seq(Nat)) /\ m \in Nat /\ DOMAIN chunks = 1..m
    BY DEF Pieces
  <2> DEFINE S == Seq(Nat)
  <2>2. chunk \in S /\ chunks \in Seq(S)
    BY <1>2, <2>1
  <2> HIDE DEF S
  <2>3. more \in Seq(S) /\ Len(more) = m + 1 /\ more[m + 1] = chunk
        /\ \A j \in 1..m : more[j] = chunks[j]
    <3> DEFINE len == Len(chunks)
    <3>1. Append(chunks, chunk) \in Seq(S) /\ Len(Append(chunks, chunk)) = len + 1
          /\ Append(chunks, chunk)[len + 1] = chunk
      BY <2>2, AppendProperties
    <3>2. \A j \in 1..len : Append(chunks, chunk)[j] = chunks[j]
      BY <2>2, AppendProperties
    <3> HIDE DEF f
    <3> QED BY <3>1, <3>2
  <2> QED BY <2>3 DEF S
<1>4. /\ e \in [0..m -> 0..k] /\ e[0] = 0
      /\ \A j \in 1..m : e[j - 1] < e[j] /\ chunks[j] = SubSeq(items, e[j - 1] + 1, e[j])
                         /\ P!BodySize(chunks[j]) <= room
  BY DEF Pieces
<1>5. b < k /\ chunk = SubSeq(items, b + 1, k)
  OBVIOUS
<1>6. /\ f[m + 1] = k /\ \A j \in 0..m : f[j] = e[j]
  BY <1>1
<1>7. f \in [0..(m + 1) -> 0..k]
  <2>1. ASSUME NEW j \in 0..(m + 1), j # m + 1 PROVE e[j] \in 0..k
    <3>1. j \in 0..m
      BY <1>1, <2>1
    <3>2. e[j] \in 0..k
      BY <1>4, <3>1
    <3> QED BY <1>1, <3>2
  <2>2. k \in 0..k
    BY <1>1
  <2> QED BY <2>1, <2>2
<1> HIDE DEF f, more, chunk, m
<1>8. f[0] = 0 /\ m + 1 <= k
  <2>1. 0 \in 0..m
    BY <1>1
  <2> QED BY <1>1, <1>4, <1>5, <1>6, <2>1
<1>9. ASSUME NEW j \in 1..(m + 1)
      PROVE  f[j - 1] < f[j] /\ more[j] = SubSeq(items, f[j - 1] + 1, f[j]) /\ P!BodySize(more[j]) <= room
  <2>1. CASE j = m + 1
    <3>1. f[j] = k /\ j - 1 = m /\ m \in 0..m /\ more[j] = chunk
      BY <1>1, <1>3, <1>6, <2>1
    <3>2. f[j - 1] = b
      BY <1>6, <3>1
    <3> QED BY <1>2, <1>5, <3>1, <3>2
  <2>2. CASE j # m + 1
    <3>1. j \in 1..m /\ j \in 0..m /\ j - 1 \in 0..m
      BY <1>1, <2>2
    <3>2. f[j] = e[j] /\ f[j - 1] = e[j - 1] /\ more[j] = chunks[j]
      BY <1>3, <1>6, <3>1
    <3> QED BY <1>4, <3>1, <3>2
  <2> QED BY <2>1, <2>2
<1>10. Pieces(f, more, k, items, room)
  BY <1>1, <1>3, <1>6, <1>7, <1>8, <1>9 DEF Pieces
<1> QED BY <1>6, <1>10 DEF more, chunk, m

\* What the loop of packBySize has packed of the first k items.  Each body but
\* the one being filled is too small for the item that follows it, so a way to
\* cut the list into bodies that fit has a cut in each of them.
PackFits(p, k, items, sum, room) ==
    /\ p \in Packer
    /\ \E e :
        /\ Pieces(e, p.chunks, k, items, room)
        /\ p.current = SubSeq(items, e[Len(p.chunks)] + 1, k)
        /\ \/ k = 0
           \/ /\ e[Len(p.chunks)] < k
              /\ Envelope + p.used = Bytes(sum, e[Len(p.chunks)], k)
              /\ Bytes(sum, e[Len(p.chunks)], k) <= room
        /\ \A cut : Fitting(items, cut, room) =>
              Len(p.chunks) <= Cardinality(cut \cap (1..e[Len(p.chunks)]))

\* The loop starts with no body.
LEMMA PackStart ==
    ASSUME NEW items \in Seq(Nat), NEW sum, NEW room \in Int
    PROVE  PackFits([chunks |-> <<>>, current |-> <<>>, used |-> 0], 0, items, sum, room)
<1> DEFINE p == [chunks |-> <<>>, current |-> <<>>, used |-> 0]
           e == [j \in 0..0 |-> 0]
<1>1. p \in Packer /\ p.chunks = <<>> /\ p.current = <<>>
  BY DEF Packer
<1>2. <<>> \in Seq(Seq(Nat)) /\ Len(<<>>) = 0
  OBVIOUS
<1>3. e \in [0..0 -> 0..0] /\ e[0] = 0
  OBVIOUS
<1> HIDE DEF p, e
<1>4. Pieces(e, <<>>, 0, items, room)
  BY <1>2, <1>3 DEF Pieces
<1>5. SubSeq(items, 0 + 1, 0) = <<>>
  BY SubSeqEmpty
<1>6. ASSUME NEW cut PROVE 0 <= Cardinality(cut \cap (1..0))
  <2>1. cut \cap (1..0) = {}
    OBVIOUS
  <2> QED BY <2>1, FS_EmptySet
<1>7. PackFits(p, 0, items, sum, room)
  BY <1>1, <1>2, <1>3, <1>4, <1>5, <1>6 DEF PackFits
<1> QED BY <1>7 DEF p

\* An item that is packable takes a body by itself or joins the one being filled.
LEMMA PackStep ==
    ASSUME NEW items \in Seq(Nat), NEW sum, Sums(sum, items), NEW room \in Int,
           NEW k \in Nat, k < Len(items), NEW p, PackFits(p, k, items, sum, room),
           \A i \in DOMAIN items : Envelope + items[i] <= room,
           NEW q, q = P!PackItem(p, items[k + 1], room)
    PROVE  PackFits(q, k + 1, items, sum, room)
<1> DEFINE n == Len(items)
           l == k + 1
           item == items[l]
           m == Len(p.chunks)
<1>1. PICK e :
        /\ Pieces(e, p.chunks, k, items, room)
        /\ p.current = SubSeq(items, e[m] + 1, k)
        /\ \/ k = 0
           \/ /\ e[m] < k
              /\ Envelope + p.used = Bytes(sum, e[m], k)
              /\ Bytes(sum, e[m], k) <= room
        /\ \A cut : Fitting(items, cut, room) => m <= Cardinality(cut \cap (1..e[m]))
  BY DEF PackFits
<1> DEFINE b == e[m]
<1>2. p \in Packer /\ p.chunks \in Seq(Seq(Nat)) /\ p.current \in Seq(Nat) /\ p.used \in Nat /\ m \in Nat
  <2>1. p \in Packer
    BY DEF PackFits
  <2> QED BY <2>1 DEF Packer
<1>3. /\ n \in Nat /\ l \in Nat /\ l \in 1..n /\ k \in 0..n /\ l \in 0..n /\ l = k + 1 /\ l - 1 = k
      /\ item \in Nat /\ Envelope + item <= room /\ Envelope \in Nat
  BY ReadsAssumption
<1>4. sum[l] \in Nat /\ sum[k] \in Nat /\ sum[l] = sum[k] + item
  BY <1>3 DEF Sums
<1>5. b \in Nat /\ b <= k /\ m <= b /\ sum[b] \in Nat
  <2>1. e \in [0..m -> 0..k] /\ m <= b
    BY <1>1 DEF Pieces
  <2>2. m \in 0..m
    BY <1>2
  <2>3. b \in 0..k
    BY <2>1, <2>2
  <2>4. sum \in [0..n -> Nat]
    BY DEF Sums
  <2> QED BY <1>3, <2>1, <2>3, <2>4
<1>6. p.current = SubSeq(items, b + 1, k)
  BY <1>1
<1>7. q \in Packer /\ q = P!PackItem(p, item, room)
  BY <1>2, <1>3, PackItemTyped
<1>8. p.current = <<>> <=> k = 0
  <2>1. k \in 0..Len(items) /\ b \in 0..k
    BY <1>3, <1>5
  <2>2. Len(p.current) = k - b
    <3> HIDE DEF b, m
    <3> QED BY <1>6, <2>1, PieceSums
  <2>3. k # 0 => b < k
    BY <1>1
  <2>4. p.current = <<>> <=> Len(p.current) = 0
    BY <1>2, EmptySeq
  <2> QED BY <1>3, <1>5, <2>2, <2>3, <2>4
<1>9. \A cut : Fitting(items, cut, room) => m <= Cardinality(cut \cap (1..b))
  BY <1>1
<1>10. Pieces(e, p.chunks, k, items, room) /\ Pieces(e, p.chunks, l, items, room)
  <2>1. Pieces(e, p.chunks, k, items, room)
    BY <1>1
  <2>2. e \in [0..m -> 0..k] => e \in [0..m -> 0..l]
    BY <1>3
  <2> QED BY <2>1, <2>2 DEF Pieces
<1>11. k # 0 => b < k /\ Envelope + p.used = Bytes(sum, b, k) /\ Bytes(sum, b, k) <= room
  BY <1>1
<1> HIDE DEF n, l, item, m, b
<1>12. Bytes(sum, b, l) = Envelope + ((sum[k] - sum[b]) + item) + (k - b)
  BY <1>3, <1>4, <1>5 DEF Bytes
<1>13. SubSeq(items, b + 1, l) = Append(p.current, item)
  <2> DEFINE d == b + 1
  <2>1. d \in 1..Len(items) /\ l \in d..Len(items)
    BY <1>3, <1>5 DEF n
  <2> HIDE DEF d
  <2>2. SubSeq(items, d, l) = SubSeq(items, d, l - 1) \o <<items[l]>>
    BY <2>1, SubSeqRecursiveSecond
  <2>3. SubSeq(items, d, l - 1) = p.current
    BY <1>3, <1>6 DEF d
  <2>4. SubSeq(items, d, l) = p.current \o <<item>>
    BY <2>2, <2>3 DEF item
  <2>5. p.current \o <<item>> = Append(p.current, item)
    BY <1>2, <1>3
  <2> QED BY <2>4, <2>5 DEF d
<1>14. CASE k = 0
  <2>1. q.chunks = p.chunks /\ q.current = Append(p.current, item) /\ q.used = item
    <3>1. p.current = <<>>
      BY <1>8, <1>14
    <3>2. q = [p EXCEPT !.current = <<item>>, !.used = item]
      BY <1>7, <3>1 DEF P!PackItem
    <3>3. Append(p.current, item) = <<item>>
      BY <1>3, <3>1
    <3> QED BY <1>2, <3>2, <3>3 DEF Packer
  <2>2. b = 0 /\ b < l
    BY <1>3, <1>5, <1>14
  <2>3. Bytes(sum, b, l) = Envelope + item
    BY <1>3, <1>4, <1>5, <1>12, <1>14, <2>2
  <2> QED BY <1>3, <1>7, <1>9, <1>10, <1>13, <2>1, <2>2, <2>3 DEF PackFits, m, b, l
<1>15. CASE k # 0
  <2>1. b < k /\ Envelope + p.used = Bytes(sum, b, k) /\ Bytes(sum, b, k) <= room /\ p.current # <<>>
    BY <1>8, <1>11, <1>15
  <2>2. Envelope + P!Joined(p.used, item) = Bytes(sum, b, l) /\ P!Joined(p.used, item) \in Nat
    <3>1. Envelope + p.used = Envelope + (sum[k] - sum[b]) + (k - b - 1)
      BY <2>1 DEF Bytes
    <3>2. P!Joined(p.used, item) = p.used + 1 + item
      BY DEF P!Joined
    <3>3. P!Joined(p.used, item) \in Nat
      BY <1>2, <1>3, <3>2
    <3>4. Envelope + (p.used + 1 + item) = Envelope + (sum[k] - sum[b]) + (k - b - 1) + 1 + item
      <4> DEFINE used == p.used
                 part == sum[k] - sum[b]
                 commas == k - b - 1
      <4>1. used \in Int /\ part \in Int /\ commas \in Int /\ item \in Int /\ Envelope \in Int
        BY <1>2, <1>3, <1>4, <1>5
      <4>2. Envelope + used = Envelope + part + commas
        BY <3>1
      <4> HIDE DEF used, part, commas
      <4>3. Envelope + (used + 1 + item) = Envelope + part + commas + 1 + item
        BY <4>1, <4>2
      <4> QED BY <4>3 DEF used, part, commas
    <3>5. Bytes(sum, b, l) = Envelope + (sum[k] - sum[b]) + (k - b - 1) + 1 + item
      <4> DEFINE part == sum[k] - sum[b]
      <4>1. part \in Int /\ item \in Int /\ Envelope \in Int /\ k \in Int /\ b \in Int
        BY <1>3, <1>4, <1>5
      <4>2. Bytes(sum, b, l) = Envelope + (part + item) + (k - b)
        BY <1>12 DEF part
      <4> HIDE DEF part
      <4>3. Envelope + (part + item) + (k - b) = Envelope + part + (k - b - 1) + 1 + item
        BY <4>1
      <4> QED BY <4>2, <4>3 DEF part
    <3> QED BY <3>2, <3>3, <3>4, <3>5
  <2>3. CASE Envelope + P!Joined(p.used, item) > room
    <3>1. q = [chunks |-> Append(p.chunks, p.current), current |-> <<item>>, used |-> item]
      BY <1>7, <2>1, <2>3 DEF P!PackItem
    <3>2. PICK f : Pieces(f, Append(p.chunks, p.current), k, items, room) /\ f[m + 1] = k
      <4>1. k \in 0..Len(items) /\ k \in k..Len(items)
        BY <1>3 DEF n
      <4>2. e[m] < k /\ Bytes(sum, e[m], k) <= room /\ p.current = SubSeq(items, e[m] + 1, k)
        BY <1>6, <2>1 DEF b
      <4>3. Pieces(e, p.chunks, k, items, room)
        BY <1>10
      <4> DEFINE chunks == p.chunks
      <4> HIDE DEF chunks
      <4>4. e[Len(chunks)] < k /\ Bytes(sum, e[Len(chunks)], k) <= room /\ Pieces(e, chunks, k, items, room)
        BY <4>2, <4>3 DEF m, chunks
      <4>5. \E f : /\ Pieces(f, Append(chunks, SubSeq(items, e[Len(chunks)] + 1, k)), k, items, room)
                   /\ f[Len(chunks) + 1] = k
        BY <4>1, <4>4, PieceAdded
      <4>6. SubSeq(items, e[Len(chunks)] + 1, k) = p.current
        BY <4>2 DEF m, chunks
      <4> HIDE DEF m
      <4> QED BY <4>5, <4>6 DEF m, chunks
    <3>3. Len(Append(p.chunks, p.current)) = m + 1
      BY <1>2 DEF m
    <3>4. SubSeq(items, k + 1, k + 1) = <<item>>
      <4>1. SubSeq(items, l, l) = SubSeq(items, l, l - 1) \o <<items[l]>>
        <5>1. l \in 1..Len(items) /\ l \in l..Len(items)
          BY <1>3 DEF n
        <5> QED BY <5>1, SubSeqRecursiveSecond
      <4>2. SubSeq(items, l, l - 1) = <<>>
        <5>1. l \in Int /\ l - 1 \in Int /\ l - 1 < l
          BY <1>3
        <5> QED BY <5>1, SubSeqEmpty
      <4>3. <<>> \o <<item>> = <<item>>
        BY <1>3
      <4> QED BY <4>1, <4>2, <4>3 DEF l, item
    <3>5. Bytes(sum, k, l) = Envelope + item
      BY <1>3, <1>4 DEF Bytes
    <3>6. ASSUME NEW cut, Fitting(items, cut, room) PROVE m + 1 <= Cardinality(cut \cap (1..k))
      <4>1. PICK x \in cut : b < x /\ x <= k
        <5>1. Bytes(sum, b, k + 1) > room /\ k < Len(items)
          BY <2>2, <2>3 DEF l
        <5> QED BY <1>5, <2>1, <3>6, <5>1, CutBetween
      <4> DEFINE u == cut \cap (1..b)
                 v == cut \cap (1..k)
      <4>2. cut \in SUBSET (1..(n - 1))
        BY <3>6 DEF Fitting, P!Cuts, n
      <4>3. x \notin u /\ u \cup {x} \subseteq v
        BY <1>3, <1>5, <4>1, <4>2
      <4>4. IsFiniteSet(u) /\ IsFiniteSet(v)
        <5>1. IsFiniteSet(1..b) /\ IsFiniteSet(1..k)
          BY <1>3, <1>5, FS_Interval
        <5> QED BY <5>1, FS_Subset
      <4>5. m <= Cardinality(u)
        BY <1>9, <3>6
      <4> HIDE DEF u, v
      <4>6. Cardinality(u \cup {x}) = Cardinality(u) + 1 /\ IsFiniteSet(u \cup {x}) /\ Cardinality(u) \in Nat
        BY <4>3, <4>4, FS_AddElement, FS_CardinalityType
      <4>7. Cardinality(u \cup {x}) <= Cardinality(v) /\ Cardinality(v) \in Nat
        BY <4>3, <4>4, FS_Subset, FS_CardinalityType
      <4>8. m + 1 <= Cardinality(v)
        BY <1>2, <4>5, <4>6, <4>7 DEF m
      <4> QED BY <4>8 DEF v
    <3>7. Pieces(f, Append(p.chunks, p.current), l, items, room)
      <4>1. f \in [0..(m + 1) -> 0..k] => f \in [0..(m + 1) -> 0..l]
        BY <1>3
      <4> QED BY <3>2, <3>3, <4>1 DEF Pieces
    <3>8. q.chunks = Append(p.chunks, p.current) /\ q.current = <<item>> /\ q.used = item
      BY <3>1
    <3>9. f[Len(q.chunks)] = k
      BY <3>2, <3>3, <3>8
    <3>10. q.current = SubSeq(items, f[Len(q.chunks)] + 1, l)
      BY <3>4, <3>8, <3>9 DEF l
    <3>11. f[Len(q.chunks)] < l /\ Envelope + q.used = Bytes(sum, f[Len(q.chunks)], l)
           /\ Bytes(sum, f[Len(q.chunks)], l) <= room
      BY <1>3, <3>5, <3>8, <3>9
    <3>12. \A cut : Fitting(items, cut, room) =>
              Len(q.chunks) <= Cardinality(cut \cap (1..f[Len(q.chunks)]))
      BY <3>3, <3>6, <3>8, <3>9
    <3>13. Pieces(f, q.chunks, l, items, room)
      BY <3>7, <3>8
    <3> QED BY <1>7, <3>10, <3>11, <3>12, <3>13 DEF PackFits, l
  <2>4. CASE ~(Envelope + P!Joined(p.used, item) > room)
    <3>1. q = [p EXCEPT !.current = Append(@, item), !.used = P!Joined(@, item)]
      BY <1>7, <2>1, <2>4 DEF P!PackItem
    <3>2. q.chunks = p.chunks /\ q.current = Append(p.current, item) /\ q.used = P!Joined(p.used, item)
      BY <1>2, <3>1 DEF Packer
    <3>3. b < l /\ Envelope + q.used = Bytes(sum, b, l)
      BY <1>3, <1>5, <2>2, <3>2
    <3>4. Bytes(sum, b, l) <= room
      BY <1>3, <2>2, <2>4
    <3> QED BY <1>7, <1>9, <1>10, <1>13, <3>2, <3>3, <3>4 DEF PackFits, m, b, l
  <2> QED BY <2>3, <2>4
<1> QED BY <1>14, <1>15

\* The length of a body is a number.
LEMMA BodySizeTyped == ASSUME NEW chunk \in Seq(Nat) PROVE P!BodySize(chunk) \in Int
<1> DEFINE n == Len(chunk)
<1>1. PICK sum : Sums(sum, chunk)
  BY SumsExist
<1>2. n \in Nat /\ n \in 0..Len(chunk) /\ 0 \in 0..n /\ sum[n] \in Nat /\ sum[0] \in Nat
  BY <1>1 DEF Sums
<1>3. SubSeq(chunk, 0 + 1, n) = chunk
  BY SubSeqFull
<1> HIDE DEF n
<1>4. P!BodySize(SubSeq(chunk, 0 + 1, n))
              = Envelope + (sum[n] - sum[0]) + (IF 0 = n THEN 0 ELSE n - 0 - 1)
  BY <1>1, <1>2, PieceIs
<1>5. Envelope + (sum[n] - sum[0]) + (IF 0 = n THEN 0 ELSE n - 0 - 1) \in Int
  BY <1>2, ReadsAssumption
<1> QED BY <1>3, <1>4, <1>5

\* What packBySize makes of a list it can pack.
PackedExactly(items, chunks, room) ==
    /\ chunks \in Seq(Seq(Nat)) /\ Len(chunks) <= Len(items)
    /\ FlattenSeq(chunks) = items
    /\ \A i \in DOMAIN chunks : P!BodySize(chunks[i]) <= room
    /\ \A cut : Fitting(items, cut, room) => Len(chunks) <= Cardinality(cut) + 1

\* After the last item the body being filled is one of the bodies.
LEMMA FlushedFits ==
    ASSUME NEW items \in Seq(Nat), NEW sum, Sums(sum, items), NEW room \in Int, NEW p,
           PackFits(p, Len(items), items, sum, room)
    PROVE  PackedExactly(items, P!Flushed(p), room)
<1> DEFINE n == Len(items)
           m == Len(p.chunks)
           chunks == P!Flushed(p)
<1>1. PICK e :
        /\ Pieces(e, p.chunks, n, items, room)
        /\ p.current = SubSeq(items, e[m] + 1, n)
        /\ \/ n = 0
           \/ e[m] < n /\ Bytes(sum, e[m], n) <= room
        /\ \A cut : Fitting(items, cut, room) => m <= Cardinality(cut \cap (1..e[m]))
  BY DEF PackFits
<1> DEFINE b == e[m]
<1>2. p \in Packer
  BY DEF PackFits
<1>3. p.chunks \in Seq(Seq(Nat)) /\ p.current \in Seq(Nat) /\ m \in Nat /\ n \in Nat /\ n \in 0..n
  BY <1>2 DEF Packer
<1>4. e \in [0..m -> 0..n] /\ e[0] = 0 /\ m <= b
  BY <1>1 DEF Pieces
<1>5. b \in Nat /\ b <= n
  <2>1. m \in 0..m
    BY <1>3
  <2>2. b \in 0..n
    BY <1>4, <2>1
  <2> QED BY <1>3, <2>2
<1>6. p.current = <<>> <=> n = 0
  <2>1. n \in 0..Len(items) /\ b \in 0..n
    BY <1>3, <1>5
  <2>2. Len(p.current) = n - b
    <3>1. p.current = SubSeq(items, b + 1, n)
      BY <1>1
    <3> HIDE DEF b, m, n
    <3> QED BY <2>1, <3>1, PieceSums
  <2>3. n # 0 => b < n
    BY <1>1
  <2>4. p.current = <<>> <=> Len(p.current) = 0
    BY <1>3, EmptySeq
  <2> QED BY <1>3, <1>5, <2>2, <2>3, <2>4
<1>7. ASSUME NEW cut, Fitting(items, cut, room) PROVE m <= Cardinality(cut) /\ Cardinality(cut) \in Nat
  <2> DEFINE u == cut \cap (1..b)
  <2>1. m <= Cardinality(u)
    BY <1>1, <1>7
  <2>2. cut \in SUBSET (1..(n - 1))
    BY <1>7 DEF Fitting, P!Cuts
  <2>3. IsFiniteSet(1..(n - 1))
    BY <1>3, FS_Interval
  <2>4. IsFiniteSet(cut) /\ u \subseteq cut
    BY <2>2, <2>3, FS_Subset
  <2> HIDE DEF u, m
  <2>5. Cardinality(u) <= Cardinality(cut) /\ IsFiniteSet(u)
    BY <2>4, FS_Subset
  <2>6. Cardinality(u) \in Nat /\ Cardinality(cut) \in Nat
    BY <2>4, <2>5, FS_CardinalityType
  <2> QED BY <1>3, <2>1, <2>5, <2>6
<1>8. Pieces(e, p.chunks, n, items, room)
  BY <1>1
<1>9. \E f : Pieces(f, chunks, n, items, room) /\ f[Len(chunks)] = n /\ Len(chunks) <= m + 1
  <2>1. CASE n = 0
    <3>1. chunks = p.chunks
      BY <1>6, <2>1 DEF P!Flushed
    <3>2. e[m] = n
      BY <1>3, <1>5, <2>1
    <3>3. m <= m + 1
      BY <1>3
    <3> HIDE DEF chunks, n
    <3> QED BY <1>8, <3>1, <3>2, <3>3
  <2>2. CASE n # 0
    <3>1. chunks = Append(p.chunks, p.current)
      BY <1>6, <2>2 DEF P!Flushed
    <3>2. e[m] < n /\ Bytes(sum, e[m], n) <= room /\ p.current = SubSeq(items, e[m] + 1, n)
      BY <1>1, <2>2
    <3> DEFINE filled == p.chunks
    <3> HIDE DEF filled, n, chunks
    <3>3. e[Len(filled)] < n /\ Bytes(sum, e[Len(filled)], n) <= room /\ Pieces(e, filled, n, items, room)
      BY <1>8, <3>2 DEF filled
    <3>4. \E f : /\ Pieces(f, Append(filled, SubSeq(items, e[Len(filled)] + 1, n)), n, items, room)
                 /\ f[Len(filled) + 1] = n
      <4>1. n \in 0..Len(items)
        BY <1>3 DEF n
      <4> QED BY <3>3, <4>1, PieceAdded
    <3>5. Append(filled, SubSeq(items, e[Len(filled)] + 1, n)) = chunks
      BY <3>1, <3>2 DEF filled
    <3>6. Len(chunks) = Len(filled) + 1
      BY <1>3, <3>1 DEF filled
    <3>7. Len(chunks) = m + 1
      BY <3>6 DEF filled
    <3>8. Len(chunks) <= m + 1 /\ Len(filled) + 1 = Len(chunks)
      BY <1>3, <3>6, <3>7 DEF filled
    <3>9. PICK f : Pieces(f, chunks, n, items, room) /\ f[Len(filled) + 1] = n
      BY <3>4, <3>5
    <3> QED BY <3>8, <3>9
  <2> QED BY <2>1, <2>2
<1> HIDE DEF chunks
<1>10. PICK f : Pieces(f, chunks, n, items, room) /\ f[Len(chunks)] = n /\ Len(chunks) <= m + 1
  BY <1>9
<1>11. chunks \in Seq(Seq(Nat)) /\ Len(chunks) \in Nat /\ DOMAIN chunks = 1..Len(chunks) /\ Len(chunks) <= n
  BY <1>10 DEF Pieces
<1>12. /\ f \in [0..Len(chunks) -> 0..n] /\ f[0] = 0
       /\ \A j \in 1..Len(chunks) : f[j - 1] < f[j] /\ chunks[j] = SubSeq(items, f[j - 1] + 1, f[j])
                                    /\ P!BodySize(chunks[j]) <= room
  BY <1>10 DEF Pieces
<1>13. FlattenSeq(chunks) = items
  <2>1. \A j \in 1..Len(chunks) : f[j - 1] <= f[j] /\ chunks[j] = SubSeq(items, f[j - 1] + 1, f[j])
    <3>1. ASSUME NEW j \in 1..Len(chunks) PROVE f[j - 1] <= f[j]
      <4>1. f[j - 1] < f[j] /\ j - 1 \in 0..Len(chunks) /\ j \in 0..Len(chunks)
        BY <1>11, <1>12
      <4>2. f[j - 1] \in 0..n /\ f[j] \in 0..n
        BY <1>12, <4>1
      <4> QED BY <4>1, <4>2
    <3> QED BY <1>12, <3>1
  <2>2. f \in [0..Len(chunks) -> 0..Len(items)] /\ f[Len(chunks)] = Len(items)
    BY <1>10, <1>12
  <2> HIDE DEF n
  <2> QED BY <1>11, <1>12, <2>1, <2>2, FlattenPieces
<1>14. \A i \in DOMAIN chunks : P!BodySize(chunks[i]) <= room
  BY <1>11, <1>12
<1>15. \A cut : Fitting(items, cut, room) => Len(chunks) <= Cardinality(cut) + 1
  BY <1>3, <1>7, <1>10, <1>11
<1>16. PackedExactly(items, chunks, room)
  BY <1>11, <1>13, <1>14, <1>15 DEF PackedExactly
<1> QED BY <1>16 DEF chunks

\* packBySize keeps the order and every item, and no other way to cut the list
\* into bodies that fit has fewer of them.
LEMMA PacksExactly ==
    ASSUME NEW items \in Seq(Nat), NEW limit \in Int, ~P!Unpackable(items, limit)
    PROVE  PackedExactly(items, P!packBySize(items, limit), P!Room(limit))
<1> DEFINE room == P!Room(limit)
           n == Len(items)
<1>1. PICK g :
         /\ g[0] = [chunks |-> <<>>, current |-> <<>>, used |-> 0]
         /\ \A k \in 1..n : g[k] = P!PackItem(g[k - 1], items[k], room)
         /\ P!packBySize(items, limit) = P!Flushed(g[n])
  BY PackFolds
<1>2. PICK sum : Sums(sum, items)
  BY SumsExist
<1>3. room \in Int /\ n \in Nat
  BY ReadsAssumption DEF P!Room
<1>4. \A i \in DOMAIN items : Envelope + items[i] <= room
  <2>1. \A i \in DOMAIN items : ~(Envelope + items[i] > room)
    BY DEF P!Unpackable
  <2>2. \A i \in DOMAIN items : items[i] \in Nat
    OBVIOUS
  <2> QED BY <1>3, <2>1, <2>2, ReadsAssumption
<1> HIDE DEF room, n
<1> DEFINE Known == {k \in Nat : k <= n => PackFits(g[k], k, items, sum, room)}
<1>5. 0 \in Known
  BY <1>1, <1>3, PackStart
<1>6. ASSUME NEW k \in Known PROVE k + 1 \in Known
  <2> SUFFICES ASSUME k + 1 <= n PROVE PackFits(g[k + 1], k + 1, items, sum, room)
    OBVIOUS
  <2>1. k \in Nat /\ k < Len(items) /\ PackFits(g[k], k, items, sum, room)
    BY <1>3 DEF n
  <2>2. g[k + 1] = P!PackItem(g[k], items[k + 1], room)
    <3> DEFINE l == k + 1
    <3>1. l \in 1..n /\ l - 1 = k
      BY <1>3, <2>1
    <3> HIDE DEF l, Known
    <3>2. g[l] = P!PackItem(g[k], items[l], room)
      BY <1>1, <3>1
    <3> QED BY <3>2 DEF l
  <2> HIDE DEF Known
  <2> QED BY <1>2, <1>3, <1>4, <2>1, <2>2, PackStep
<1>7. Known = Nat
  <2>1. Known \subseteq Nat
    OBVIOUS
  <2> HIDE DEF Known
  <2> QED BY <1>5, <1>6, <2>1, SetInduction
<1>8. PackFits(g[n], n, items, sum, room)
  <2>1. n \in Known
    BY <1>3, <1>7
  <2> QED BY <1>3, <2>1
<1>9. PackedExactly(items, P!Flushed(g[n]), room)
  BY <1>2, <1>3, <1>8, FlushedFits DEF n
<1> QED BY <1>1, <1>9 DEF room

\* No list of the instance makes more bodies than there are slots for.
LEMMA LongestList ==
    /\ P!MaxChunks \in Nat
    /\ \A items \in ItemSeqs : items \in Seq(Nat) /\ Len(items) <= P!MaxChunks
<1>1. PICK longest \in ItemSeqs : \A items \in ItemSeqs : Len(items) <= Len(longest)
  BY PackingAssumption
<1>2. \A items \in ItemSeqs : items \in Seq(Nat) /\ Len(items) \in Nat
  BY PackingAssumption
<1> DEFINE lengths == {Len(items) : items \in ItemSeqs}
<1>3. \E x \in lengths : \A y \in lengths : x >= y
  BY <1>1, <1>2
<1>4. P!MaxChunks \in lengths /\ \A y \in lengths : P!MaxChunks >= y
  <2>1. P!MaxChunks = CHOOSE x \in lengths : \A y \in lengths : x >= y
    BY DEF P!MaxChunks, P!Max
  <2> HIDE DEF lengths
  <2> QED BY <1>3, <2>1
<1> QED BY <1>2, <1>4

-----------------------------------------------------------------------------
(* Batches: the client's runs, and the bodies each has sent.                *)

\* The limits a client packs to.
Limits == Caps \cup {InitialLimit}

Request ==
    [st : {"none", "sent", "backing off", "ok", "failed"}, attempt : Nat, size : Int]

Run ==
    [st : {"idle", "running", "resolved", "failed"}, items : Seq(Nat), round : 0..2,
     packed : Limits \cup {0}, chunks : Seq(Seq(Nat)),
     why : {"none", "413", "other", "unpackable"}, said : Nat]

\* What a run that is in its last or next packing has sent.
RunFits(r, run, reqs) ==
    /\ run.st = "idle" => run.round = 0
    /\ run.st \in {"running", "resolved"} =>
          /\ run.round \in {1, 2} /\ run.items \in ItemSeqs /\ run.packed \in Limits
          /\ run.chunks = P!packBySize(run.items, run.packed)
          /\ ~P!Unpackable(run.items, run.packed)
    /\ run.st = "running" =>
          \A i \in 1..P!MaxChunks :
              IF i \in DOMAIN run.chunks
              THEN reqs[<<r, run.round, i>>].size = P!BodySize(run.chunks[i])
              ELSE reqs[<<r, run.round, i>>].st = "none"
    /\ run.st = "resolved" =>
          \A i \in 1..P!MaxChunks :
              i \in DOMAIN run.chunks => reqs[<<r, run.round, i>>].st = "ok"
    /\ run.st = "failed" /\ run.why = "413" => run.said < run.packed
    /\ \A n \in {1, 2}, i \in 1..P!MaxChunks : n > run.round => reqs[<<r, n, i>>].st = "none"

\* Every run has sent the bodies of its packing.
PackingInv ==
    /\ bodyLimit \in Limits
    /\ runs \in [Runs -> Run] /\ requests \in [P!Slots -> Request]
    /\ \A r \in Runs : RunFits(r, runs[r], requests)

\* A request of run r goes on: one that was not sent is still not, and an
\* answer stays one.
GoesOn(r, reqs, more) ==
    \A n \in {1, 2}, i \in 1..P!MaxChunks :
        /\ more[<<r, n, i>>].size = reqs[<<r, n, i>>].size
        /\ reqs[<<r, n, i>>].st \in {"none", "ok"} => more[<<r, n, i>>].st = reqs[<<r, n, i>>].st

\* A run stays as it is when its requests go on.
LEMMA RunStays ==
    ASSUME NEW r, NEW run, NEW reqs, RunFits(r, run, reqs), NEW more, GoesOn(r, reqs, more),
           run.round \in 0..2
    PROVE  RunFits(r, run, more)
<1>1. run.st = "running" =>
          \A i \in 1..P!MaxChunks :
              IF i \in DOMAIN run.chunks
              THEN more[<<r, run.round, i>>].size = P!BodySize(run.chunks[i])
              ELSE more[<<r, run.round, i>>].st = "none"
  BY DEF RunFits, GoesOn
<1>2. run.st = "resolved" =>
          \A i \in 1..P!MaxChunks :
              i \in DOMAIN run.chunks => more[<<r, run.round, i>>].st = "ok"
  BY DEF RunFits, GoesOn
<1>3. \A n \in {1, 2}, i \in 1..P!MaxChunks : n > run.round => more[<<r, n, i>>].st = "none"
  BY DEF RunFits, GoesOn
<1> QED BY <1>1, <1>2, <1>3 DEF RunFits

\* A slot is a run, a round and the place of a body.
LEMMA SlotIs ==
    /\ \A r \in Runs, n \in {1, 2}, i \in 1..P!MaxChunks : <<r, n, i>> \in P!Slots
    /\ \A s \in P!Slots : /\ s[1] \in Runs /\ s[2] \in {1, 2} /\ s[3] \in 1..P!MaxChunks
                          /\ s = <<s[1], s[2], s[3]>>
BY DEF P!Slots

\* The request in one slot goes on.
LEMMA SlotGoesOn ==
    ASSUME PackingInv, NEW s \in P!Slots, requests[s].st \notin {"none", "ok"},
           NEW more, more \in [P!Slots -> Request],
           more[s].size = requests[s].size,
           \A x \in P!Slots : x # s => more[x] = requests[x]
    PROVE  \A r \in Runs : GoesOn(r, requests, more)
BY SlotIs DEF GoesOn

\* run(): a new round of a run.
LEMMA RoundKeeps ==
    ASSUME PackingInv, NEW r \in Runs, NEW n \in {1, 2}, n > runs[r].round,
           NEW items \in ItemSeqs, NEW limit \in Limits, bodyLimit' \in Limits,
           NEW reqs, reqs \in [P!Slots -> Request],
           \A x \in P!Slots : x[1] # r \/ x[2] >= n => reqs[x] = requests[x],
           P!Round(r, n, items, limit, reqs)
    PROVE  PackingInv'
<1> DEFINE chunks == P!packBySize(items, limit)
           sent == [st |-> IF chunks = <<>> THEN "resolved" ELSE "running", items |-> items, round |-> n,
                    packed |-> limit, chunks |-> chunks, why |-> "none", said |-> 0]
           refused == [st |-> "failed", items |-> items, round |-> n, packed |-> limit,
                       chunks |-> <<>>, why |-> "unpackable", said |-> 0]
<1>1. items \in Seq(Nat) /\ Len(items) <= P!MaxChunks /\ P!MaxChunks \in Nat /\ Len(items) \in Nat
  BY LongestList
<1>2. limit \in Int /\ n \in 1..2 /\ n \in Nat
  <2>1. limit \in Int
    BY ReadsAssumption DEF Limits
  <2>2. n = 1 \/ n = 2
    OBVIOUS
  <2> QED BY <2>1, <2>2
<1>3. runs \in [Runs -> Run] /\ requests \in [P!Slots -> Request]
      /\ \A x \in Runs : RunFits(x, runs[x], requests)
  BY DEF PackingInv
<1>4. \/ /\ P!Unpackable(items, limit)
         /\ runs' = [runs EXCEPT ![r] = refused]
         /\ requests' = reqs
      \/ /\ ~P!Unpackable(items, limit)
         /\ runs' = [runs EXCEPT ![r] = sent]
         /\ requests' = [s \in P!Slots |->
                 IF s[1] = r /\ s[2] = n /\ s[3] \in DOMAIN chunks
                 THEN [st |-> "sent", attempt |-> 1, size |-> P!BodySize(chunks[s[3]])]
                 ELSE reqs[s]]
  BY Zenon DEF P!Round
<1>5. \A x \in Runs : x # r => runs'[x] = runs[x]
  BY <1>3, <1>4
<1> HIDE DEF chunks
<1>6. ASSUME NEW x \in Runs, x # r, requests' \in [P!Slots -> Request],
             \A s \in P!Slots : s[1] # r => requests'[s] = requests[s]
      PROVE  RunFits(x, runs'[x], requests')
  <2>1. GoesOn(x, requests, requests')
    BY <1>6, SlotIs DEF GoesOn
  <2>2. RunFits(x, runs[x], requests) /\ runs[x].round \in 0..2
    BY <1>3 DEF Run
  <2> QED BY <1>5, <1>6, <2>1, <2>2, RunStays
<1>7. CASE P!Unpackable(items, limit)
  <2>1. runs' = [runs EXCEPT ![r] = refused] /\ requests' = reqs
    BY <1>4, <1>7
  <2>2. refused \in Run
    BY <1>1, <1>2 DEF Run
  <2>3. runs' \in [Runs -> Run] /\ runs'[r] = refused
    BY <1>3, <2>1, <2>2
  <2>4. RunFits(r, refused, reqs)
    <3>1. ASSUME NEW m \in {1, 2}, NEW i \in 1..P!MaxChunks, m > n PROVE reqs[<<r, m, i>>].st = "none"
      <4>1. requests[<<r, m, i>>].st = "none"
        <5>1. RunFits(r, runs[r], requests) /\ runs[r].round \in 0..2
          BY <1>3 DEF Run
        <5>2. m > runs[r].round
          BY <1>2, <3>1, <5>1
        <5> QED BY <5>1, <5>2 DEF RunFits
      <4>2. <<r, m, i>> \in P!Slots /\ m >= n
        BY <1>2, <3>1, SlotIs
      <4> QED BY <4>1, <4>2
    <3> QED BY <3>1 DEF RunFits
  <2>5. ASSUME NEW x \in Runs PROVE RunFits(x, runs'[x], requests')
    BY <1>6, <2>1, <2>3, <2>4
  <2> HIDE DEF refused
  <2> QED BY <2>1, <2>3, <2>5 DEF PackingInv
<1>8. CASE ~P!Unpackable(items, limit)
  <2>1. runs' = [runs EXCEPT ![r] = sent]
        /\ requests' = [s \in P!Slots |->
                 IF s[1] = r /\ s[2] = n /\ s[3] \in DOMAIN chunks
                 THEN [st |-> "sent", attempt |-> 1, size |-> P!BodySize(chunks[s[3]])]
                 ELSE reqs[s]]
    BY <1>4, <1>8
  <2>2. PackedExactly(items, chunks, P!Room(limit))
    BY <1>1, <1>2, <1>8, PacksExactly DEF chunks
  <2>3. chunks \in Seq(Seq(Nat)) /\ DOMAIN chunks \subseteq 1..P!MaxChunks
        /\ \A i \in DOMAIN chunks : P!BodySize(chunks[i]) \in Int
    <3>1. chunks \in Seq(Seq(Nat)) /\ Len(chunks) <= Len(items)
      BY <2>2 DEF PackedExactly
    <3>2. Len(chunks) \in Nat /\ DOMAIN chunks = 1..Len(chunks)
          /\ \A i \in DOMAIN chunks : chunks[i] \in Seq(Nat)
      BY <3>1
    <3> QED BY <1>1, <3>1, <3>2, BodySizeTyped
  <2>4. sent \in Run
    BY <1>1, <1>2, <2>3 DEF Run
  <2>5. runs' \in [Runs -> Run] /\ runs'[r] = sent
    BY <1>3, <2>1, <2>4
  <2>6. requests' \in [P!Slots -> Request]
    <3>1. ASSUME NEW s \in P!Slots, s[3] \in DOMAIN chunks
          PROVE  [st |-> "sent", attempt |-> 1, size |-> P!BodySize(chunks[s[3]])] \in Request
      BY <2>3, <3>1 DEF Request
    <3> QED BY <2>1, <3>1
  <2>7. ASSUME NEW i \in DOMAIN chunks
        PROVE  requests'[<<r, n, i>>].size = P!BodySize(chunks[i])
    <3>1. <<r, n, i>> \in P!Slots
      BY <2>3, SlotIs
    <3> QED BY <2>1, <3>1
  <2>8. ASSUME NEW m \in {1, 2}, NEW i \in 1..P!MaxChunks, m > n \/ (m = n /\ i \notin DOMAIN chunks)
        PROVE  requests'[<<r, m, i>>].st = "none"
    <3>1. requests[<<r, m, i>>].st = "none"
      <4>1. RunFits(r, runs[r], requests) /\ runs[r].round \in 0..2
        BY <1>3 DEF Run
      <4>2. m > runs[r].round
        BY <1>2, <2>8, <4>1
      <4> QED BY <4>1, <4>2 DEF RunFits
    <3>2. <<r, m, i>> \in P!Slots /\ m >= n
      BY <1>2, <2>8, SlotIs
    <3>3. requests'[<<r, m, i>>] = reqs[<<r, m, i>>]
      BY <1>2, <2>1, <2>8, <3>2
    <3> QED BY <3>1, <3>2, <3>3
  <2>9. RunFits(r, sent, requests')
    <3>1. chunks = <<>> => DOMAIN chunks = {}
      OBVIOUS
    <3>2. chunks = P!packBySize(items, limit)
      BY DEF chunks
    <3> QED BY <1>1, <1>2, <1>8, <2>3, <2>7, <2>8, <3>1, <3>2 DEF RunFits
  <2>10. \A s \in P!Slots : s[1] # r => requests'[s] = requests[s]
    BY <2>1
  <2>11. ASSUME NEW x \in Runs PROVE RunFits(x, runs'[x], requests')
    <3> HIDE DEF sent
    <3> QED BY <1>6, <2>5, <2>6, <2>9, <2>10
  <2> HIDE DEF sent
  <2> QED BY <2>5, <2>6, <2>11 DEF PackingInv
<1> QED BY <1>7, <1>8

\* The shapes of the client's state.
LEMMA PackingRanges ==
    ASSUME PackingInv
    PROVE  /\ bodyLimit \in Limits /\ runs \in [Runs -> Run] /\ requests \in [P!Slots -> Request]
           /\ \A r \in Runs : RunFits(r, runs[r], requests) /\ runs[r].round \in 0..2
           /\ Limits \subseteq Int
<1>1. runs \in [Runs -> Run] /\ \A r \in Runs : runs[r].round \in 0..2
  BY DEF PackingInv, Run
<1>2. Limits \subseteq Int
  BY ReadsAssumption DEF Limits
<1> QED BY <1>1, <1>2 DEF PackingInv

\* A run starts and sends the bodies of its first round.
LEMMA RunStartKeeps ==
    ASSUME PackingInv, NEW r \in Runs, NEW items \in ItemSeqs, P!Start(r, items)
    PROVE  PackingInv'
<1>1. runs[r].st = "idle" /\ P!Round(r, 1, items, bodyLimit, requests) /\ bodyLimit' = bodyLimit
  BY Zenon DEF P!Start
<1>2. runs[r].round = 0
  BY <1>1, PackingRanges DEF RunFits
<1>3. 1 > runs[r].round /\ 1 \in {1, 2}
  BY <1>2
<1>4. bodyLimit \in Limits /\ bodyLimit' \in Limits /\ requests \in [P!Slots -> Request]
  BY <1>1, PackingRanges
<1> QED BY <1>1, <1>3, <1>4, RoundKeeps

\* The state of the request in one slot, and nothing else, is another.
LEMMA SlotChanges ==
    ASSUME PackingInv, NEW s \in P!Slots, requests[s].st \notin {"none", "ok"},
           NEW st \in {"sent", "backing off", "ok", "failed"},
           NEW more, more = [requests EXCEPT ![s].st = st]
    PROVE  /\ more \in [P!Slots -> Request] /\ more[s].st = st
           /\ \A x \in P!Slots : x # s => more[x] = requests[x]
           /\ \A r \in Runs : GoesOn(r, requests, more)
<1>1. requests \in [P!Slots -> Request]
  BY PackingRanges
<1>2. /\ more \in [P!Slots -> Request] /\ more[s].st = st /\ more[s].size = requests[s].size
      /\ \A x \in P!Slots : x # s => more[x] = requests[x]
  BY <1>1 DEF Request
<1> QED BY <1>2, SlotGoesOn

\* The runs stay when a request goes on that none of them awaits.
LEMMA OnlyRequestKeeps ==
    ASSUME PackingInv, UNCHANGED <<bodyLimit, runs>>, requests' \in [P!Slots -> Request],
           \A r \in Runs : GoesOn(r, requests, requests')
    PROVE  PackingInv'
<1>1. \A r \in Runs : RunFits(r, runs[r], requests')
  BY PackingRanges, RunStays
<1> QED BY <1>1, PackingRanges DEF PackingInv

\* A body is answered; the last answer resolves the run.
LEMMA AnsweredKeeps == ASSUME PackingInv, NEW s \in P!Slots, P!Answered(s) PROVE PackingInv'
<1> DEFINE r == s[1]
           n == s[2]
           done == [requests EXCEPT ![s].st = "ok"]
<1>1. /\ requests[s].st = "sent" /\ requests' = done /\ bodyLimit' = bodyLimit
      /\ runs' = IF P!Awaited(r, n) /\ P!AllAnswered(done, r, n)
                 THEN [runs EXCEPT ![r].st = "resolved"] ELSE runs
  BY DEF P!Answered
<1>2. done \in [P!Slots -> Request] /\ \A x \in Runs : GoesOn(x, requests, done)
  <2> HIDE DEF done
  <2>1. done = [requests EXCEPT ![s].st = "ok"]
    BY DEF done
  <2> QED BY <1>1, <2>1, SlotChanges
<1> HIDE DEF done
<1>3. CASE ~(P!Awaited(r, n) /\ P!AllAnswered(done, r, n))
  <2>1. runs' = runs
    BY <1>1, <1>3
  <2> QED BY <1>1, <1>2, <2>1, OnlyRequestKeeps
<1>4. CASE P!Awaited(r, n) /\ P!AllAnswered(done, r, n)
  <2>1. r \in Runs /\ n \in {1, 2}
    BY SlotIs
  <2>2. runs[r].st = "running" /\ runs[r].round = n /\ \A i \in DOMAIN runs[r].chunks : done[<<r, n, i>>].st = "ok"
    BY <1>4 DEF P!Awaited, P!AllAnswered
  <2>3. runs \in [Runs -> Run] /\ RunFits(r, runs[r], requests) /\ runs[r].round \in 0..2
    BY <2>1, PackingRanges
  <2>4. /\ runs' \in [Runs -> Run]
        /\ \A x \in Runs : x # r => runs'[x] = runs[x]
        /\ runs'[r] = [runs[r] EXCEPT !.st = "resolved"]
    <3>1. [runs[r] EXCEPT !.st = "resolved"] \in Run
      <4>1. runs[r] \in Run
        BY <2>1, <2>3
      <4>2. \A run \in Run : [run EXCEPT !.st = "resolved"] \in Run
        BY DEF Run
      <4> QED BY <4>1, <4>2
    <3>2. runs' = [runs EXCEPT ![r] = [runs[r] EXCEPT !.st = "resolved"]]
      BY <1>1, <1>4
    <3> QED BY <2>1, <2>3, <3>1, <3>2
  <2>5. RunFits(r, runs[r], done)
    BY <1>2, <2>1, <2>3, RunStays
  <2>6. /\ runs'[r].st = "resolved" /\ runs'[r].round = runs[r].round /\ runs'[r].items = runs[r].items
        /\ runs'[r].packed = runs[r].packed /\ runs'[r].chunks = runs[r].chunks
    BY <2>1, <2>3, <2>4 DEF Run
  <2>7. RunFits(r, runs'[r], done)
    <3> DEFINE new == runs'[r]
               old == runs[r]
    <3>1. /\ new.st = "resolved" /\ new.round = old.round /\ new.items = old.items
          /\ new.packed = old.packed /\ new.chunks = old.chunks /\ old.st = "running"
          /\ RunFits(r, old, done) /\ old.round = n /\ \A i \in DOMAIN old.chunks : done[<<r, n, i>>].st = "ok"
      BY <2>2, <2>5, <2>6
    <3> HIDE DEF new, old
    <3> QED BY <3>1 DEF RunFits, new
  <2>8. \A x \in Runs : x # r => RunFits(x, runs'[x], done)
    BY <1>2, <2>4, PackingRanges, RunStays
  <2> QED BY <1>1, <1>2, <2>4, <2>7, <2>8, PackingRanges DEF PackingInv
<1> QED BY <1>3, <1>4

\* A body that fails for good ends its run, or the run packs to the limit that
\* was named; its own limit was not below that.
LEMMA FailsKeeps ==
    ASSUME PackingInv, NEW s \in P!Slots, requests[s].st = "sent",
           NEW why \in {"413", "other"}, NEW said \in Nat,
           why = "413" => said \in Caps /\ requests[s].size >= said,
           P!Fails(s, why, said)
    PROVE  PackingInv'
<1> DEFINE r == s[1]
           n == s[2]
           reqs == [requests EXCEPT ![s].st = "failed"]
<1>1. \/ ~P!Awaited(r, n) /\ requests' = reqs /\ UNCHANGED <<bodyLimit, runs>>
      \/ /\ P!Awaited(r, n) /\ n = 1 /\ P!Adopts(why, said) /\ bodyLimit' = said
         /\ P!Round(r, 2, runs[r].items, said, reqs)
      \/ /\ P!Awaited(r, n) /\ ~(n = 1 /\ P!Adopts(why, said))
         /\ runs' = [runs EXCEPT ![r].st = "failed", ![r].why = why, ![r].said = said]
         /\ requests' = reqs /\ bodyLimit' = bodyLimit
  BY Zenon DEF P!Fails
<1>2. /\ reqs \in [P!Slots -> Request] /\ \A x \in Runs : GoesOn(x, requests, reqs)
      /\ \A x \in P!Slots : x # s => reqs[x] = requests[x]
  <2> HIDE DEF reqs
  <2>1. reqs = [requests EXCEPT ![s].st = "failed"]
    BY DEF reqs
  <2>2. requests \in [P!Slots -> Request]
    BY PackingRanges
  <2>3. /\ reqs \in [P!Slots -> Request] /\ reqs[s].size = requests[s].size
        /\ \A x \in P!Slots : x # s => reqs[x] = requests[x]
    BY <2>1, <2>2 DEF Request
  <2>4. \A x \in Runs : GoesOn(x, requests, reqs)
    BY <2>3, SlotGoesOn
  <2> QED BY <2>3, <2>4
<1>3. r \in Runs /\ n \in {1, 2} /\ s[3] \in 1..P!MaxChunks /\ s = <<r, n, s[3]>>
  BY SlotIs
<1>4. runs \in [Runs -> Run] /\ RunFits(r, runs[r], requests) /\ runs[r].round \in 0..2
  BY <1>3, PackingRanges
<1> HIDE DEF reqs
<1>5. CASE ~P!Awaited(r, n) /\ requests' = reqs /\ UNCHANGED <<bodyLimit, runs>>
  BY <1>2, <1>5, OnlyRequestKeeps
<1>6. CASE /\ P!Awaited(r, n) /\ n = 1 /\ P!Adopts(why, said) /\ bodyLimit' = said
           /\ P!Round(r, 2, runs[r].items, said, reqs)
  <2>1. runs[r].st = "running" /\ runs[r].round = 1
    BY <1>6 DEF P!Awaited
  <2>2. runs[r].items \in ItemSeqs
    BY <1>4, <2>1 DEF RunFits
  <2>3. said \in Limits
    BY <1>6 DEF P!Adopts, Limits
  <2>4. \A x \in P!Slots : x[1] # r \/ x[2] >= 2 => reqs[x] = requests[x]
    <3>1. ASSUME NEW x \in P!Slots, x[1] # r \/ x[2] >= 2 PROVE x # s
      BY <1>6, <3>1
    <3> QED BY <1>2, <3>1
  <2>5. 2 > runs[r].round /\ 2 \in {1, 2} /\ bodyLimit' \in Limits
    BY <1>6, <2>1, <2>3
  <2> HIDE DEF r
  <2> QED BY <1>2, <1>3, <1>6, <2>2, <2>3, <2>4, <2>5, RoundKeeps
<1>7. CASE /\ P!Awaited(r, n) /\ ~(n = 1 /\ P!Adopts(why, said))
           /\ runs' = [runs EXCEPT ![r].st = "failed", ![r].why = why, ![r].said = said]
           /\ requests' = reqs /\ bodyLimit' = bodyLimit
  <2>1. runs[r].st = "running" /\ runs[r].round = n
    BY <1>7 DEF P!Awaited
  <2>2. /\ runs' \in [Runs -> Run]
        /\ runs'[r].st = "failed" /\ runs'[r].why = why /\ runs'[r].said = said
        /\ runs'[r].packed = runs[r].packed /\ runs'[r].round = runs[r].round
    <3> HIDE DEF r
    <3>1. r \in Runs /\ runs \in [Runs -> Run] /\ why \in {"413", "other"} /\ said \in Nat
          /\ runs' = [runs EXCEPT ![r].st = "failed", ![r].why = why, ![r].said = said]
      BY <1>3, <1>4, <1>7
    <3>2. ASSUME NEW q \in Runs, runs \in [Runs -> Run], why \in {"413", "other"}, said \in Nat,
                 runs' = [runs EXCEPT ![q].st = "failed", ![q].why = why, ![q].said = said]
          PROVE  /\ runs' \in [Runs -> Run]
                 /\ runs'[q].st = "failed" /\ runs'[q].why = why /\ runs'[q].said = said
                 /\ runs'[q].packed = runs[q].packed /\ runs'[q].round = runs[q].round
      <4> DEFINE now == [runs[q] EXCEPT !.st = "failed", !.why = why, !.said = said]
      <4>1. runs[q] \in Run /\ runs \in [Runs -> Run]
        BY <3>2
      <4>2. /\ now \in Run /\ now.st = "failed" /\ now.why = why /\ now.said = said
            /\ now.packed = runs[q].packed /\ now.round = runs[q].round
        BY <3>2, <4>1 DEF Run
      <4>3. runs' = [runs EXCEPT ![q] = now]
        BY <3>2
      <4> HIDE DEF now
      <4>4. runs'[q] = now /\ runs' \in [Runs -> Run]
        BY <4>1, <4>2, <4>3
      <4> QED BY <4>2, <4>4
    <3> QED BY <3>1, <3>2
  <2>3. \A x \in Runs : x # r => runs'[x] = runs[x]
    BY <1>3, <1>4, <1>7
  <2>4. ASSUME why = "413" PROVE said < runs[r].packed
    <3> DEFINE run == runs[r]
               i == s[3]
               room == P!Room(run.packed)
    <3>1. /\ run.items \in ItemSeqs /\ run.packed \in Limits /\ ~P!Unpackable(run.items, run.packed)
          /\ run.chunks = P!packBySize(run.items, run.packed)
          /\ IF i \in DOMAIN run.chunks
             THEN requests[<<r, n, i>>].size = P!BodySize(run.chunks[i])
             ELSE requests[<<r, n, i>>].st = "none"
      BY <1>3, <1>4, <2>1 DEF RunFits
    <3>2. run.items \in Seq(Nat) /\ run.packed \in Int
      BY <3>1, PackingRanges, LongestList
    <3>3. PackedExactly(run.items, run.chunks, room)
      <4> HIDE DEF run
      <4>1. PackedExactly(run.items, P!packBySize(run.items, run.packed), P!Room(run.packed))
        BY <3>1, <3>2, PacksExactly
      <4> QED BY <3>1, <4>1
    <3>4. i \in DOMAIN run.chunks /\ requests[s].size = P!BodySize(run.chunks[i])
      BY <1>3, <3>1
    <3>5. requests[s].size <= room
      BY <3>3, <3>4 DEF PackedExactly
    <3>6. room = run.packed - Margin /\ Margin \in Nat /\ Margin > 0
      BY ReadsAssumption DEF P!Room
    <3>7. requests[s].size \in Int /\ requests[s].size >= said
      BY <2>4, PackingRanges DEF Request
    <3> HIDE DEF run
    <3>8. room \in Int
      BY <3>2, <3>6
    <3> HIDE DEF room
    <3>9. said < run.packed
      BY <3>2, <3>5, <3>6, <3>7, <3>8
    <3> QED BY <3>9 DEF run
  <2>5. RunFits(r, runs[r], reqs)
    BY <1>2, <1>3, <1>4, RunStays
  <2>6. RunFits(r, runs'[r], reqs)
    <3> DEFINE new == runs'[r]
               old == runs[r]
    <3>1. /\ new.st = "failed" /\ new.why = why /\ new.said = said /\ new.packed = old.packed
          /\ new.round = old.round /\ RunFits(r, old, reqs) /\ (why = "413" => said < old.packed)
      BY <2>2, <2>4, <2>5
    <3> HIDE DEF new, old
    <3>2. RunFits(r, new, reqs)
      BY <3>1 DEF RunFits
    <3> QED BY <3>2 DEF new
  <2>7. \A x \in Runs : x # r => RunFits(x, runs'[x], reqs)
    BY <1>2, <2>3, PackingRanges, RunStays
  <2> QED BY <1>2, <1>7, <2>2, <2>6, <2>7, PackingRanges DEF PackingInv
<1> HIDE DEF r, n
<1> QED BY <1>1, <1>5, <1>6, <1>7

\* Every step of the client keeps the runs so.
LEMMA BatchStep == ASSUME PackingInv, P!Next PROVE PackingInv'
<1>1. ASSUME NEW r \in Runs, NEW items \in ItemSeqs, P!Start(r, items) PROVE PackingInv'
  BY <1>1, RunStartKeeps
<1>2. ASSUME NEW s \in P!Slots, P!Answered(s) PROVE PackingInv'
  BY <1>2, AnsweredKeeps
<1>3. ASSUME NEW s \in P!Slots, NEW cap \in Caps, P!Refused(s, cap) PROVE PackingInv'
  <2>1. requests[s].st = "sent" /\ requests[s].size >= cap /\ P!Fails(s, "413", cap)
    BY <1>3, Zenon DEF P!Refused
  <2>2. cap \in Nat
    BY ReadsAssumption
  <2> QED BY <2>1, <2>2, FailsKeeps
<1>4. ASSUME NEW s \in P!Slots, P!FailsTransiently(s) PROVE PackingInv'
  <2>1. requests[s].st = "sent"
    BY <1>4, Zenon DEF P!FailsTransiently
  <2>2. CASE requests' = [requests EXCEPT ![s].st = "backing off"] /\ UNCHANGED <<bodyLimit, runs>>
    <3>1. requests' \in [P!Slots -> Request] /\ \A r \in Runs : GoesOn(r, requests, requests')
      BY <2>1, <2>2, SlotChanges
    <3> QED BY <2>2, <3>1, OnlyRequestKeeps
  <2>3. CASE P!Fails(s, "other", 0)
    BY <2>1, <2>3, FailsKeeps
  <2> QED BY <1>4, <2>2, <2>3, Zenon DEF P!FailsTransiently
<1>5. ASSUME NEW s \in P!Slots, P!FailsForGood(s) PROVE PackingInv'
  <2>1. requests[s].st = "sent" /\ P!Fails(s, "other", 0)
    BY <1>5, Zenon DEF P!FailsForGood
  <2> QED BY <2>1, FailsKeeps
<1>6. ASSUME NEW s \in P!Slots, P!Resend(s) PROVE PackingInv'
  <2> DEFINE again == P!NextAttempt(requests[s].attempt)
  <2>1. /\ requests[s].st = "backing off" /\ UNCHANGED <<bodyLimit, runs>>
        /\ requests' = [requests EXCEPT ![s].st = "sent", ![s].attempt = again]
    BY <1>6, Zenon DEF P!Resend
  <2>2. requests \in [P!Slots -> Request]
    BY PackingRanges
  <2>3. again \in Nat
    <3>1. requests[s] \in Request
      BY <2>2
    <3>2. requests[s].attempt \in Nat
      BY <3>1 DEF Request
    <3> DEFINE attempt == requests[s].attempt
    <3> HIDE DEF attempt
    <3>3. P!NextAttempt(attempt) \in Nat
      BY <3>2 DEF attempt, P!NextAttempt
    <3> QED BY <3>3 DEF attempt
  <2> HIDE DEF again
  <2>4. /\ requests' \in [P!Slots -> Request] /\ requests'[s].size = requests[s].size
        /\ \A x \in P!Slots : x # s => requests'[x] = requests[x]
    BY <2>1, <2>2, <2>3 DEF Request
  <2>5. \A r \in Runs : GoesOn(r, requests, requests')
    BY <2>1, <2>4, SlotGoesOn
  <2> QED BY <2>1, <2>4, <2>5, OnlyRequestKeeps
<1> QED BY <1>1, <1>2, <1>3, <1>4, <1>5, <1>6, Zenon DEF P!Next

\* No run has begun.
LEMMA BatchStart == ASSUME P!Init PROVE PackingInv
<1>1. /\ bodyLimit = InitialLimit /\ runs = [r \in Runs |-> P!IdleRun]
      /\ requests = [s \in P!Slots |-> P!NoRequest]
  BY DEF P!Init
<1>2. P!NoRequest \in Request /\ P!NoRequest.st = "none"
  BY DEF P!NoRequest, Request
<1>3. P!IdleRun \in Run /\ P!IdleRun.st = "idle" /\ P!IdleRun.round = 0
  BY DEF P!IdleRun, Run
<1>4. bodyLimit \in Limits /\ runs \in [Runs -> Run] /\ requests \in [P!Slots -> Request]
  BY <1>1, <1>2, <1>3 DEF Limits
<1>5. ASSUME NEW r \in Runs PROVE RunFits(r, runs[r], requests)
  <2>1. runs[r].st = "idle" /\ runs[r].round = 0
    BY <1>1, <1>3
  <2>2. \A n \in {1, 2}, i \in 1..P!MaxChunks : requests[<<r, n, i>>].st = "none"
    BY <1>1, <1>2, SlotIs
  <2> QED BY <2>1, <2>2 DEF RunFits
<1> QED BY <1>4, <1>5 DEF PackingInv

\* A packed lookup whose bodies fit resolves with every item, each once and in
\* its order, and no packing to the same limit has fewer bodies; one that fails
\* for its size was refused by an instance with a smaller limit (packBySize and
\* packAdaptively of src/providers/koios).
THEOREM BodiesStayExact == Spec => []BodiesAreExact
<1>1. Init => PackingInv
  BY BatchStart DEF Init
<1>2. PackingInv /\ [Next]_vars => PackingInv'
  <2> SUFFICES ASSUME PackingInv, [Next]_vars PROVE PackingInv'
    OBVIOUS
  <2>1. P!Next \/ UNCHANGED batchVars
    BY Zenon DEF Next, vars, Paging, Utxos, Lookup, Account, History, Batch
  <2>2. CASE UNCHANGED batchVars
    <3>1. UNCHANGED <<bodyLimit, runs>> /\ requests' = requests
      BY <2>2 DEF batchVars
    <3>2. requests' \in [P!Slots -> Request] /\ \A r \in Runs : GoesOn(r, requests, requests')
      BY <3>1, PackingRanges DEF GoesOn
    <3> QED BY <3>1, <3>2, OnlyRequestKeeps
  <2> QED BY <2>1, <2>2, BatchStep
<1>3. ASSUME PackingInv PROVE BodiesAreExact
  <2>1. \A seqs : P!FlattenSeq(seqs) = FlattenSeq(seqs)
    BY Zenon DEF P!FlattenSeq, FlattenSeq
  <2>2. P!ResolvedIsWhole
    <3>1. ASSUME NEW r \in Runs, runs[r].st = "resolved"
          PROVE  /\ FlattenSeq(runs[r].chunks) = runs[r].items
                 /\ \A i \in DOMAIN runs[r].chunks : requests[<<r, runs[r].round, i>>].st = "ok"
      <4> DEFINE run == runs[r]
      <4>1. /\ run.items \in ItemSeqs /\ run.packed \in Limits /\ ~P!Unpackable(run.items, run.packed)
            /\ run.chunks = P!packBySize(run.items, run.packed)
            /\ \A i \in 1..P!MaxChunks :
                 i \in DOMAIN run.chunks => requests[<<r, run.round, i>>].st = "ok"
        BY <1>3, <3>1, PackingRanges DEF RunFits
      <4> HIDE DEF run
      <4>2. run.items \in Seq(Nat) /\ run.packed \in Int /\ Len(run.items) <= P!MaxChunks
        BY <1>3, <4>1, PackingRanges, LongestList
      <4>3. PackedExactly(run.items, run.chunks, P!Room(run.packed))
        BY <4>1, <4>2, PacksExactly
      <4>4. run.chunks \in Seq(Seq(Nat)) /\ Len(run.chunks) <= Len(run.items) /\ FlattenSeq(run.chunks) = run.items
        BY <4>3 DEF PackedExactly
      <4>5. DOMAIN run.chunks \subseteq 1..P!MaxChunks
        <5>1. Len(run.chunks) \in Nat /\ DOMAIN run.chunks = 1..Len(run.chunks) /\ Len(run.items) \in Nat
              /\ P!MaxChunks \in Nat
          BY <4>2, <4>4, LongestList
        <5> QED BY <4>2, <4>4, <5>1
      <4> QED BY <4>1, <4>4, <4>5 DEF run
    <3> QED BY <2>1, <3>1 DEF P!ResolvedIsWhole
  <2>3. P!RefusedOnlyByTighterCap
    BY <1>3, PackingRanges DEF RunFits, P!RefusedOnlyByTighterCap
  <2>4. P!PacksTightly
    <3>1. ASSUME NEW items \in Samples, NEW limit \in Caps \cup {InitialLimit}, ~P!Unpackable(items, limit)
          PROVE  /\ FlattenSeq(P!packBySize(items, limit)) = items
                 /\ \A i \in DOMAIN P!packBySize(items, limit) :
                       P!BodySize(P!packBySize(items, limit)[i]) <= P!Room(limit)
                 /\ \A cut \in P!Cuts(Len(items)) :
                       P!CutFits(items, cut, P!Room(limit))
                       => Len(P!packBySize(items, limit)) <= Cardinality(cut) + 1
      <4>1. items \in Seq(Nat) /\ limit \in Int
        BY PackingAssumption, ReadsAssumption
      <4>2. PackedExactly(items, P!packBySize(items, limit), P!Room(limit))
        BY <3>1, <4>1, PacksExactly
      <4> QED BY <4>2 DEF PackedExactly, Fitting
    <3>2. \A cut : P!Cardinality(cut) = Cardinality(cut)
      BY Zenon DEF P!Cardinality, Cardinality
    <3> QED BY <2>1, <3>1, <3>2 DEF P!PacksTightly
  <2> QED BY <2>2, <2>3, <2>4 DEF BodiesAreExact
<1> QED BY <1>1, <1>2, <1>3, PTL DEF Spec
=============================================================================
