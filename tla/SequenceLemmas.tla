--------------------------- MODULE SequenceLemmas ---------------------------
(***************************************************************************)
(* What the folds of the community modules compute, of every sequence:     *)
(* FoldLeft and FlattenSeq are recursive functions, of which induction     *)
(* over the length says that they are defined, step by step.               *)
(*                                                                         *)
(* The principle of induction is stated of sets: the well-foundedness of   *)
(* the natural numbers is a theorem without operator parameters.           *)
(***************************************************************************)
EXTENDS Integers, Sequences, SequencesExt, SequenceTheorems, FiniteSetTheorems,
    WellFoundedInduction, TLAPS

\* Induction over the naturals, for the set of those a formula is true of.
LEMMA SetInduction ==
    ASSUME NEW T, T \subseteq Nat, 0 \in T, \A n \in T : n + 1 \in T
    PROVE  T = Nat
<1> DEFINE R == OpToRel(<, Nat)
           U == Nat \ T
<1>1. IsWellFoundedOn(R, Nat)
  BY NatLessThanWellFounded
<1>2. \A n \in Nat : <<n, n + 1>> \in R
  BY DEF OpToRel
<1> SUFFICES ASSUME U # {} PROVE FALSE
  OBVIOUS
<1> HIDE DEF R
<1>3. PICK x \in U : \A y \in U : ~(<<y, x>> \in R)
  <2>1. U \subseteq Nat /\ U # {}
    OBVIOUS
  <2> HIDE DEF U
  <2> QED BY <1>1, <2>1, WFMin
<1>4. x \in Nat \ {0} /\ x - 1 \in Nat
  OBVIOUS
<1>5. <<x - 1, x>> \in R
  <2> DEFINE n == x - 1
  <2>1. n \in Nat /\ n + 1 = x
    BY <1>4
  <2> HIDE DEF n
  <2>2. <<n, x>> \in R
    BY <1>2, <2>1
  <2> QED BY <2>2 DEF n
<1>6. x - 1 \in T
  BY <1>3, <1>4, <1>5
<1>7. x - 1 + 1 \in T
  BY <1>6
<1> QED BY <1>4, <1>7

\* A set of positions has a last one.
LEMMA LastPlace ==
    ASSUME NEW n \in Nat, NEW s \in SUBSET (1..n), s # {}
    PROVE  Max(s) \in s /\ \A i \in s : i <= Max(s)
<1> DEFINE T == {k \in Nat : \A u \in SUBSET (1..k) : u # {} => \E x \in u : \A y \in u : x >= y}
<1>1. 0 \in T
  <2>1. 1..0 = {}
    OBVIOUS
  <2> QED BY <2>1
<1>2. ASSUME NEW k \in T PROVE k + 1 \in T
  <2>1. ASSUME NEW u \in SUBSET (1..(k + 1)), u # {} PROVE \E x \in u : \A y \in u : x >= y
    <3>1. CASE k + 1 \in u
      BY <3>1
    <3>2. CASE k + 1 \notin u
      <4>1. u \in SUBSET (1..k)
        BY <3>2
      <4> QED BY <2>1, <4>1
    <3> QED BY <3>1, <3>2
  <2> QED BY <2>1
<1>3. T = Nat
  <2>1. T \subseteq Nat
    OBVIOUS
  <2> HIDE DEF T
  <2> QED BY <1>1, <1>2, <2>1, SetInduction
<1>4. \E x \in s : \A y \in s : x >= y
  BY <1>3
<1> QED BY <1>4 DEF Max

\* That of a prefix is its length.
LEMMA LastOfAll == ASSUME NEW n \in Nat, n > 0 PROVE Max(1..n) = n /\ (1..n) \ {n} = 1..(n - 1)
<1>1. Max(1..n) \in 1..n /\ \A i \in 1..n : i <= Max(1..n)
  <2> DEFINE s == 1..n
  <2>1. s \in SUBSET (1..n) /\ s # {}
    OBVIOUS
  <2> HIDE DEF s
  <2>2. Max(s) \in s /\ \A i \in s : i <= Max(s)
    BY <2>1, LastPlace
  <2> QED BY <2>2 DEF s
<1> QED BY <1>1

\* What a fold from the left computes over each part of a sequence.
Folding(iter, step, base, seq) ==
    iter = [s \in SUBSET DOMAIN seq |->
              IF s = {} THEN base ELSE step[<<iter[s \ {Max(s)}], seq[Max(s)]>>]]

\* It is defined, of every step that stays in a set.
LEMMA FoldDefined ==
    ASSUME NEW S, NEW A, NEW base \in S, NEW seq \in Seq(A), NEW step \in [S \X A -> S]
    PROVE  \E iter \in [SUBSET DOMAIN seq -> S] : Folding(iter, step, base, seq)
<1> DEFINE Ok(iter, k) == 
             /\ iter \in [SUBSET (1..k) -> S]
             /\ \A s \in SUBSET (1..k) :
                   iter[s] = IF s = {} THEN base ELSE step[<<iter[s \ {Max(s)}], seq[Max(s)]>>]
           T == {k \in Nat : k <= Len(seq) => \E iter : Ok(iter, k)}
<1>1. 0 \in T
  <2> DEFINE iter == [s \in SUBSET (1..0) |-> base]
  <2>1. Ok(iter, 0)
    OBVIOUS
  <2> QED BY <2>1
<1>2. ASSUME NEW k \in T PROVE k + 1 \in T
  <2>0. k \in Nat /\ k + 1 \in Nat /\ (k <= Len(seq) => \E iter : Ok(iter, k))
    <3> HIDE DEF Ok
    <3> QED OBVIOUS
  <2> SUFFICES ASSUME k + 1 <= Len(seq) PROVE \E iter : Ok(iter, k + 1)
    <3> HIDE DEF Ok
    <3> QED BY <2>0
  <2>1. PICK old : Ok(old, k)
    <3>1. k <= Len(seq)
      BY <2>0
    <3> HIDE DEF Ok
    <3> QED BY <2>0, <3>1
  <2>2. k \in Nat /\ seq[k + 1] \in A
    BY <2>0
  <2> DEFINE new == [s \in SUBSET (1..(k + 1)) |->
                       IF k + 1 \in s THEN step[<<old[s \ {k + 1}], seq[k + 1]>>] ELSE old[s]]
  <2>3. ASSUME NEW s \in SUBSET (1..(k + 1)), k + 1 \in s
        PROVE  /\ s \ {k + 1} \in SUBSET (1..k) /\ Max(s) = k + 1
               /\ new[s] = step[<<old[s \ {k + 1}], seq[k + 1]>>] /\ new[s \ {k + 1}] = old[s \ {k + 1}]
    <3>1. s \ {k + 1} \in SUBSET (1..k)
      <4>1. \A i \in s \ {k + 1} : i \in 1..k
        BY <2>2
      <4> QED BY <4>1
    <3>2. Max(s) = k + 1
      <4>1. Max(s) \in s /\ \A i \in s : i <= Max(s)
        <5> DEFINE n == k + 1
        <5>1. n \in Nat /\ s \in SUBSET (1..n) /\ s # {}
          BY <2>2, <2>3
        <5> HIDE DEF n
        <5> QED BY <5>1, LastPlace
      <4> DEFINE m == Max(s)
      <4>2. m \in 1..(k + 1) /\ k + 1 <= m
        BY <2>3, <4>1
      <4> HIDE DEF m
      <4>3. m = k + 1
        BY <2>2, <4>2
      <4> QED BY <4>3 DEF m
    <3>3. s \ {k + 1} \in SUBSET (1..(k + 1)) /\ k + 1 \notin s \ {k + 1}
      OBVIOUS
    <3> QED BY <2>3, <3>1, <3>2, <3>3
  <2>4. ASSUME NEW s \in SUBSET (1..(k + 1)), k + 1 \notin s
        PROVE  s \in SUBSET (1..k) /\ new[s] = old[s]
    BY <2>2, <2>4
  <2>5. ASSUME NEW s \in SUBSET (1..(k + 1))
        PROVE  new[s] \in S /\ new[s] = IF s = {} THEN base ELSE step[<<new[s \ {Max(s)}], seq[Max(s)]>>]
    <3>1. CASE k + 1 \in s
      <4>1. old[s \ {k + 1}] \in S
        BY <2>1, <2>3, <3>1
      <4>2. step[<<old[s \ {k + 1}], seq[k + 1]>>] \in S
        BY <2>2, <4>1
      <4> HIDE DEF new
      <4> QED BY <2>3, <3>1, <4>2
    <3>2. CASE k + 1 \notin s /\ s = {}
      <4>1. s \in SUBSET (1..k) /\ new[s] = old[s]
        BY <2>4, <3>2
      <4> HIDE DEF new
      <4> QED BY <2>1, <3>2, <4>1
    <3>3. CASE k + 1 \notin s /\ s # {}
      <4>1. s \in SUBSET (1..k) /\ new[s] = old[s]
        BY <2>4, <3>3
      <4> DEFINE u == s \ {Max(s)}
      <4>2. u \in SUBSET (1..k) /\ u \in SUBSET (1..(k + 1)) /\ k + 1 \notin u
        BY <3>3, <4>1
      <4>3. new[u] = old[u]
        BY <4>2
      <4> HIDE DEF new
      <4>4. old[s] \in S /\ old[s] = step[<<old[s \ {Max(s)}], seq[Max(s)]>>]
        BY <2>1, <3>3, <4>1
      <4> QED BY <3>3, <4>1, <4>3, <4>4 DEF u
    <3> QED BY <3>1, <3>2, <3>3
  <2>6. new \in [SUBSET (1..(k + 1)) -> S]
    BY <2>5
  <2> HIDE DEF new
  <2>7. Ok(new, k + 1)
    BY <2>5, <2>6
  <2> QED BY <2>7
<1>3. T = Nat
  <2>1. T \subseteq Nat
    OBVIOUS
  <2> HIDE DEF T
  <2> QED BY <1>1, <1>2, <2>1, SetInduction
<1>4. Len(seq) \in Nat /\ DOMAIN seq = 1..Len(seq)
  OBVIOUS
<1>5. PICK iter : Ok(iter, Len(seq))
  <2>1. Len(seq) \in T
    BY <1>3, <1>4
  <2>2. Len(seq) <= Len(seq) => \E iter : Ok(iter, Len(seq))
    BY <2>1
  <2> HIDE DEF Ok
  <2> QED BY <1>4, <2>2
<1>6. Folding(iter, step, base, seq)
  BY <1>4, <1>5 DEF Folding
<1> QED BY <1>4, <1>5, <1>6

-----------------------------------------------------------------------------
(* The concatenation of the sequences of a sequence.                        *)

\* It is defined, prefix by prefix.
LEMMA FlattenDefined ==
    ASSUME NEW A, NEW seqs \in Seq(Seq(A)), Len(seqs) > 0
    PROVE  \E flat \in [1..Len(seqs) -> Seq(A)] :
              flat = [i \in 1..Len(seqs) |-> IF i = 1 THEN seqs[i] ELSE flat[i - 1] \o seqs[i]]
<1> DEFINE L == Len(seqs)
           Ok(flat, k) == /\ flat \in [1..k -> Seq(A)]
                          /\ \A i \in 1..k : flat[i] = IF i = 1 THEN seqs[i] ELSE flat[i - 1] \o seqs[i]
           T == {k \in Nat : k <= L => \E flat : Ok(flat, k)}
<1>0. L \in Nat /\ L > 0 /\ \A i \in 1..L : seqs[i] \in Seq(A)
  OBVIOUS
<1> HIDE DEF L
<1>1. 0 \in T
  <2>1. Ok([i \in 1..0 |-> <<>>], 0)
    OBVIOUS
  <2> HIDE DEF Ok
  <2> QED BY <2>1
<1>2. ASSUME NEW k \in T PROVE k + 1 \in T
  <2>1. k \in Nat /\ (k <= L => \E flat : Ok(flat, k))
    <3> HIDE DEF Ok
    <3> QED OBVIOUS
  <2> SUFFICES ASSUME k + 1 <= L PROVE \E flat : Ok(flat, k + 1)
    <3> HIDE DEF Ok
    <3> QED BY <2>1
  <2>2. PICK old : Ok(old, k)
    <3>1. k <= L
      BY <1>0, <2>1
    <3> HIDE DEF Ok
    <3> QED BY <2>1, <3>1
  <2> DEFINE new == [i \in 1..(k + 1) |->
                       IF i = k + 1 THEN IF i = 1 THEN seqs[i] ELSE old[k] \o seqs[i] ELSE old[i]]
  <2>3. ASSUME NEW i \in 1..(k + 1)
        PROVE  new[i] \in Seq(A) /\ new[i] = IF i = 1 THEN seqs[i] ELSE new[i - 1] \o seqs[i]
    <3>1. CASE i = k + 1 /\ i = 1
      BY <1>0, <2>1, <3>1
    <3>2. CASE i = k + 1 /\ i # 1
      <4>1. k \in 1..k /\ k \in 1..(k + 1) /\ k # k + 1 /\ i - 1 = k
        BY <2>1, <3>2
      <4>2. new[i] = old[k] \o seqs[i] /\ new[k] = old[k]
        BY <3>2, <4>1
      <4>3. old[k] \in Seq(A)
        BY <2>2, <4>1
      <4>4. seqs[i] \in Seq(A)
        BY <1>0, <2>1
      <4>5. old[k] \o seqs[i] \in Seq(A)
        BY <4>3, <4>4
      <4> HIDE DEF new
      <4> QED BY <3>2, <4>1, <4>2, <4>5
    <3>3. CASE i # k + 1
      <4>1. i \in 1..k /\ (i # 1 => i - 1 \in 1..k /\ i - 1 # k + 1 /\ i - 1 \in 1..(k + 1))
        BY <2>1, <3>3
      <4>2. new[i] = old[i] /\ (i # 1 => new[i - 1] = old[i - 1])
        BY <3>3, <4>1
      <4> HIDE DEF new
      <4> QED BY <2>2, <4>1, <4>2
    <3> QED BY <3>1, <3>2, <3>3
  <2>4. new \in [1..(k + 1) -> Seq(A)]
    BY <2>3
  <2> HIDE DEF new
  <2>5. Ok(new, k + 1)
    BY <2>3, <2>4
  <2> HIDE DEF Ok
  <2> QED BY <2>5
<1>3. T = Nat
  <2>1. T \subseteq Nat
    <3> HIDE DEF Ok
    <3> QED OBVIOUS
  <2> HIDE DEF T
  <2> QED BY <1>1, <1>2, <2>1, SetInduction
<1>4. PICK flat : Ok(flat, L)
  <2>1. L \in T
    BY <1>0, <1>3
  <2> HIDE DEF Ok
  <2> QED BY <1>0, <2>1
<1>5. flat = [i \in 1..L |-> IF i = 1 THEN seqs[i] ELSE flat[i - 1] \o seqs[i]]
  BY <1>4
<1> QED BY <1>4, <1>5 DEF L

\* It grows by one of them at a time.
LEMMA FlattenGrows ==
    ASSUME NEW A, NEW seqs \in Seq(Seq(A))
    PROVE  \E flat \in [0..Len(seqs) -> Seq(A)] :
              /\ flat[0] = <<>>
              /\ \A k \in 1..Len(seqs) : flat[k] = flat[k - 1] \o seqs[k]
              /\ FlattenSeq(seqs) = flat[Len(seqs)]
<1>1. CASE Len(seqs) = 0
  <2>1. seqs = <<>> /\ FlattenSeq(seqs) = <<>>
    BY <1>1 DEF FlattenSeq
  <2> DEFINE flat == [k \in 0..Len(seqs) |-> <<>>]
  <2>2. flat \in [0..Len(seqs) -> Seq(A)] /\ flat[0] = <<>> /\ flat[Len(seqs)] = <<>>
    BY <1>1
  <2>3. \A k \in 1..Len(seqs) : FALSE
    BY <1>1
  <2> HIDE DEF flat
  <2> QED BY <2>1, <2>2, <2>3
<1>2. CASE Len(seqs) > 0
  <2> DEFINE L == Len(seqs)
             Def(f) == f = [i \in 1..L |-> IF i = 1 THEN seqs[i] ELSE f[i - 1] \o seqs[i]]
             fl == CHOOSE f : Def(f)
  <2>1. \E f : Def(f)
    <3>1. PICK g \in [1..Len(seqs) -> Seq(A)] :
            g = [i \in 1..Len(seqs) |-> IF i = 1 THEN seqs[i] ELSE g[i - 1] \o seqs[i]]
      BY <1>2, FlattenDefined
    <3>2. Def(g)
      BY <3>1
    <3> HIDE DEF Def
    <3> QED BY <3>2
  <2>2. FlattenSeq(seqs) = fl[L]
    <3>1. Len(seqs) # 0
      BY <1>2
    <3> QED BY <3>1, Zenon DEF FlattenSeq
  <2>3. Def(fl)
    <3> HIDE DEF Def
    <3> QED BY <2>1
  <2>4. L \in Nat /\ L > 0 /\ \A i \in 1..L : seqs[i] \in Seq(A)
    BY <1>2
  <2> HIDE DEF fl, L
  <2>5. \A i \in 1..L : fl[i] = IF i = 1 THEN seqs[i] ELSE fl[i - 1] \o seqs[i]
    BY <2>3
  <2>6. \A i \in 1..L : fl[i] \in Seq(A)
    <3> DEFINE T == {k \in Nat : k \in 1..L => fl[k] \in Seq(A)}
    <3>1. 0 \in T
      OBVIOUS
    <3>2. ASSUME NEW k \in T PROVE k + 1 \in T
      <4> SUFFICES ASSUME k + 1 \in 1..L PROVE fl[k + 1] \in Seq(A)
        OBVIOUS
      <4>1. CASE k = 0
        BY <2>4, <2>5, <4>1
      <4>2. CASE k # 0
        <5>1. k \in 1..L /\ k + 1 # 1 /\ k + 1 - 1 = k
          BY <2>4, <4>2
        <5>2. fl[k] \in Seq(A)
          BY <5>1
        <5>3. fl[k + 1] = fl[k] \o seqs[k + 1]
          <6> DEFINE m == k + 1
          <6>1. m \in 1..L /\ m # 1 /\ m - 1 = k
            BY <2>4, <5>1
          <6> HIDE DEF m
          <6>2. fl[m] = fl[k] \o seqs[m]
            BY <2>5, <6>1
          <6> QED BY <6>2 DEF m
        <5> QED BY <2>4, <5>2, <5>3
      <4> QED BY <4>1, <4>2
    <3>3. T = Nat
      <4>1. T \subseteq Nat
        OBVIOUS
      <4> HIDE DEF T
      <4> QED BY <3>1, <3>2, <4>1, SetInduction
    <3>4. \A k \in Nat : k \in 1..L => fl[k] \in Seq(A)
      BY <3>3
    <3> QED BY <3>4
  <2> DEFINE flat == [k \in 0..L |-> IF k = 0 THEN <<>> ELSE fl[k]]
  <2>7. flat \in [0..L -> Seq(A)] /\ flat[0] = <<>> /\ flat[L] = fl[L]
    BY <2>4, <2>6
  <2>8. ASSUME NEW k \in 1..L PROVE flat[k] = flat[k - 1] \o seqs[k]
    <3>1. flat[k] = fl[k]
      BY <2>4
    <3>2. CASE k = 1
      <4>1. flat[k - 1] = <<>> /\ fl[k] = seqs[k] /\ seqs[k] \in Seq(A)
        BY <2>4, <2>5, <3>2
      <4>2. <<>> \o seqs[k] = seqs[k]
        BY <4>1
      <4> HIDE DEF flat
      <4> QED BY <3>1, <4>1, <4>2
    <3>3. CASE k # 1
      <4>1. flat[k - 1] = fl[k - 1]
        BY <2>4, <3>3
      <4> HIDE DEF flat
      <4> QED BY <2>5, <3>1, <3>3, <4>1
    <3> QED BY <3>2, <3>3
  <2> HIDE DEF flat
  <2> QED BY <2>2, <2>7, <2>8 DEF L
<1>3. Len(seqs) = 0 \/ Len(seqs) > 0
  OBVIOUS
<1> QED BY <1>1, <1>2, <1>3

\* Sequences of at most one element.
Optional(A, seqs) == \A i \in DOMAIN seqs : seqs[i] = <<>> \/ \E x \in A : seqs[i] = <<x>>

\* The elements of f are those of the sequences, each at its place and in order.
PlacedIn(place, seqs, f) ==
    /\ place \in [1..Len(f) -> 1..Len(seqs)]
    /\ \A i, j \in 1..Len(f) : i < j => place[i] < place[j]
    /\ \A i \in 1..Len(f) : seqs[place[i]] = <<f[i]>>
    /\ \A k \in 1..Len(seqs) : seqs[k] # <<>> => \E i \in 1..Len(f) : place[i] = k

\* When each holds at most one element, the elements come in order, each from a
\* place of its own, and every one that is there comes.
LEMMA FlattenOptional ==
    ASSUME NEW A, NEW seqs \in Seq(Seq(A)), Optional(A, seqs), NEW f, f = FlattenSeq(seqs)
    PROVE  f \in Seq(A) /\ \E place : PlacedIn(place, seqs, f)
<1> DEFINE L == Len(seqs)
<1>1. PICK flat \in [0..Len(seqs) -> Seq(A)] :
         /\ flat[0] = <<>>
         /\ \A k \in 1..Len(seqs) : flat[k] = flat[k - 1] \o seqs[k]
         /\ f = flat[Len(seqs)]
  <2>1. \E flat \in [0..Len(seqs) -> Seq(A)] :
              /\ flat[0] = <<>>
              /\ \A k \in 1..Len(seqs) : flat[k] = flat[k - 1] \o seqs[k]
              /\ FlattenSeq(seqs) = flat[Len(seqs)]
    <3> HIDE DEF L
    <3> QED BY FlattenGrows
  <2> QED BY <2>1
<1>2. L \in Nat /\ \A k \in 1..L : seqs[k] \in Seq(A) /\ (seqs[k] = <<>> \/ \E x \in A : seqs[k] = <<x>>)
  BY DEF Optional
<1>9. /\ flat \in [0..L -> Seq(A)] /\ flat[0] = <<>>
      /\ \A k \in 1..L : flat[k] = flat[k - 1] \o seqs[k]
      /\ f = flat[L]
  BY <1>1
<1> HIDE DEF L
<1> DEFINE Ok(g, k, place) ==
             /\ place \in [1..Len(g) -> 1..k]
             /\ \A i, j \in 1..Len(g) : i < j => place[i] < place[j]
             /\ \A i \in 1..Len(g) : seqs[place[i]] = <<g[i]>>
             /\ \A m \in 1..k : seqs[m] # <<>> => \E i \in 1..Len(g) : place[i] = m
           T == {k \in Nat : k <= L => \E place : Ok(flat[k], k, place)}
<1>3. 0 \in T
  <2>1. Ok(flat[0], 0, [i \in 1..0 |-> 0])
    BY <1>9
  <2> HIDE DEF Ok
  <2> QED BY <2>1
<1>4. ASSUME NEW k \in T PROVE k + 1 \in T
  <2>1. k \in Nat /\ (k <= L => \E place : Ok(flat[k], k, place))
    <3> HIDE DEF Ok
    <3> QED OBVIOUS
  <2> SUFFICES ASSUME k + 1 <= L PROVE \E place : Ok(flat[k + 1], k + 1, place)
    <3> HIDE DEF Ok
    <3> QED BY <2>1
  <2>2. PICK old : Ok(flat[k], k, old)
    <3>1. k <= L
      BY <1>2, <2>1
    <3> HIDE DEF Ok
    <3> QED BY <2>1, <3>1
  <2> DEFINE g == flat[k]
             h == flat[k + 1]
             n == Len(g)
  <2>3. /\ g \in Seq(A) /\ n \in Nat /\ seqs[k + 1] \in Seq(A) /\ h = g \o seqs[k + 1]
        /\ seqs[k + 1] = <<>> \/ \E x \in A : seqs[k + 1] = <<x>>
    <3>1. k + 1 \in 1..L /\ k \in 0..L /\ k + 1 - 1 = k
      BY <1>2, <2>1
    <3>2. g \in Seq(A)
      BY <1>9, <3>1
    <3>4. h = g \o seqs[k + 1]
      <4> DEFINE m == k + 1
      <4>1. m \in 1..L /\ m - 1 = k
        BY <2>1, <3>1
      <4> HIDE DEF m
      <4>2. flat[m] = flat[k] \o seqs[m]
        BY <1>9, <4>1
      <4> QED BY <4>2 DEF m
    <3> QED BY <1>2, <3>1, <3>2, <3>4
  <2>4. Ok(g, k, old)
    BY <2>2
  <2> HIDE DEF g, h
  <2>5. CASE seqs[k + 1] = <<>>
    <3>1. h = g
      BY <2>3, <2>5
    <3>2. Ok(g, k + 1, old)
      <4>1. old \in [1..Len(g) -> 1..(k + 1)]
        BY <2>1, <2>3, <2>4
      <4>2. ASSUME NEW m \in 1..(k + 1), seqs[m] # <<>> PROVE m \in 1..k
        BY <2>1, <2>5, <4>2
      <4> QED BY <2>4, <4>1, <4>2
    <3> HIDE DEF Ok
    <3> QED BY <3>1, <3>2 DEF h
  <2>6. CASE seqs[k + 1] # <<>>
    <3> DEFINE new == [i \in 1..(n + 1) |-> IF i = n + 1 THEN k + 1 ELSE old[i]]
    <3>1. PICK x \in A : seqs[k + 1] = <<x>>
      BY <2>3, <2>6
    <3>2. Len(h) = n + 1 /\ h[n + 1] = x /\ \A i \in 1..n : h[i] = g[i]
      BY <2>3, <3>1
    <3>3. \A i \in 1..n : old[i] \in 1..k
      BY <2>4
    <3>4. new \in [1..(n + 1) -> 1..(k + 1)] /\ new[n + 1] = k + 1 /\ \A i \in 1..n : new[i] = old[i]
      <4>1. \A i \in 1..(n + 1) : i # n + 1 => i \in 1..n
        BY <2>3
      <4>2. \A i \in 1..(n + 1) : new[i] \in 1..(k + 1)
        BY <2>1, <3>3, <4>1
      <4>3. \A i \in 1..n : i \in 1..(n + 1) /\ i # n + 1
        <5>1. \A p \in Nat : \A i \in 1..p : i \in 1..(p + 1) /\ i # p + 1
          OBVIOUS
        <5>2. n \in Nat
          BY <2>3
        <5> QED BY <5>1, <5>2
      <4>4. n + 1 \in 1..(n + 1)
        BY <2>3
      <4>5. new \in [1..(n + 1) -> 1..(k + 1)]
        BY <4>2
      <4>6. new[n + 1] = k + 1
        BY <4>4
      <4>7. \A i \in 1..n : new[i] = old[i]
        BY <4>3
      <4> QED BY <4>5, <4>6, <4>7
    <3> HIDE DEF new, n
    <3>5. ASSUME NEW i \in 1..(n + 1), NEW j \in 1..(n + 1), i < j PROVE new[i] < new[j]
      <4>1. i \in 1..n /\ (j = n + 1 \/ j \in 1..n)
        BY <2>3, <3>5
      <4>2. new[i] = old[i] /\ old[i] \in 1..k
        BY <3>3, <3>4, <4>1
      <4>3. CASE j = n + 1
        BY <2>1, <3>4, <4>2, <4>3
      <4>4. CASE j \in 1..n
        BY <2>4, <3>4, <3>5, <4>1, <4>2, <4>4 DEF n
      <4> QED BY <4>1, <4>3, <4>4
    <3>6. ASSUME NEW i \in 1..(n + 1) PROVE seqs[new[i]] = <<h[i]>>
      <4>1. CASE i = n + 1
        BY <3>1, <3>2, <3>4, <4>1
      <4>2. CASE i \in 1..n
        <5>1. seqs[old[i]] = <<g[i]>>
          BY <2>4, <4>2 DEF n
        <5>2. new[i] = old[i] /\ h[i] = g[i]
          BY <3>2, <3>4, <4>2
        <5> QED BY <5>1, <5>2
      <4>3. i = n + 1 \/ i \in 1..n
        BY <2>3
      <4> QED BY <4>1, <4>2, <4>3
    <3>7. ASSUME NEW m \in 1..(k + 1), seqs[m] # <<>> PROVE \E i \in 1..(n + 1) : new[i] = m
      <4>1. CASE m = k + 1
        <5>1. n + 1 \in 1..(n + 1)
          BY <2>3
        <5> QED BY <3>4, <4>1, <5>1
      <4>2. CASE m # k + 1
        <5>1. m \in 1..k
          BY <2>1, <4>2
        <5>2. PICK i \in 1..n : old[i] = m
          BY <2>4, <3>7, <5>1 DEF n
        <5>3. i \in 1..(n + 1) /\ new[i] = m
          BY <2>3, <3>4, <5>2
        <5> QED BY <5>3
      <4> QED BY <4>1, <4>2
    <3>8. Ok(h, k + 1, new)
      BY <3>2, <3>4, <3>5, <3>6, <3>7
    <3> HIDE DEF Ok
    <3> QED BY <3>8 DEF h
  <2> QED BY <2>5, <2>6
<1>5. T = Nat
  <2>1. T \subseteq Nat
    <3> HIDE DEF Ok
    <3> QED OBVIOUS
  <2> HIDE DEF T
  <2> QED BY <1>3, <1>4, <2>1, SetInduction
<1>6. PICK place : Ok(flat[L], L, place)
  <2>1. L \in T
    BY <1>2, <1>5
  <2> HIDE DEF Ok
  <2> QED BY <1>2, <2>1
<1>7. f \in Seq(A)
  BY <1>2, <1>9
<1>8. Ok(f, L, place)
  BY <1>6, <1>9
<1> QED BY <1>7, <1>8 DEF L, PlacedIn

\* A set of positions has a first one.
LEMMA FirstPlace ==
    ASSUME NEW n \in Nat, NEW s \in SUBSET (1..n), s # {}
    PROVE  \E x \in s : \A y \in s : x <= y
<1> DEFINE R == OpToRel(<, Nat)
<1>1. IsWellFoundedOn(R, Nat)
  BY NatLessThanWellFounded
<1>2. \A x, y \in Nat : x < y => <<x, y>> \in R
  BY DEF OpToRel
<1> HIDE DEF R
<1>3. s \subseteq Nat
  OBVIOUS
<1>4. PICK x \in s : \A y \in s : ~(<<y, x>> \in R)
  BY <1>1, <1>3, WFMin
<1>5. ASSUME NEW y \in s PROVE x <= y
  <2>1. x \in Nat /\ y \in Nat /\ ~(y < x)
    BY <1>2, <1>3, <1>4
  <2> QED BY <2>1
<1> QED BY <1>5

\* A sequence that is cut into pieces is their concatenation.
LEMMA FlattenPieces ==
    ASSUME NEW A, NEW seq \in Seq(A), NEW pieces \in Seq(Seq(A)),
           NEW e \in [0..Len(pieces) -> 0..Len(seq)], e[0] = 0, e[Len(pieces)] = Len(seq),
           \A j \in 1..Len(pieces) : e[j - 1] <= e[j] /\ pieces[j] = SubSeq(seq, e[j - 1] + 1, e[j])
    PROVE  FlattenSeq(pieces) = seq
<1> DEFINE m == Len(pieces)
           n == Len(seq)
<1>1. m \in Nat /\ n \in Nat
  OBVIOUS
<1>2. PICK flat \in [0..m -> Seq(A)] :
         /\ flat[0] = <<>>
         /\ \A k \in 1..m : flat[k] = flat[k - 1] \o pieces[k]
         /\ FlattenSeq(pieces) = flat[m]
  BY FlattenGrows
<1>3. \A j \in 0..m : e[j] \in Nat /\ e[j] <= n
  OBVIOUS
<1>4. e[0] = 0 /\ e[m] = n /\ \A j \in 1..m : e[j - 1] <= e[j] /\ pieces[j] = SubSeq(seq, e[j - 1] + 1, e[j])
  OBVIOUS
<1> HIDE DEF m, n
<1> DEFINE T == {k \in Nat : k <= m => flat[k] = SubSeq(seq, 1, e[k])}
<1>5. 0 \in T
  <2>1. SubSeq(seq, 1, 0) = <<>>
    BY SubSeqEmpty
  <2> QED BY <1>2, <1>4, <2>1
<1>6. ASSUME NEW k \in T PROVE k + 1 \in T
  <2> SUFFICES ASSUME k + 1 <= m PROVE flat[k + 1] = SubSeq(seq, 1, e[k + 1])
    OBVIOUS
  <2> DEFINE j == k + 1
  <2>1. j \in 1..m /\ j - 1 = k /\ k \in 0..m /\ j \in 0..m /\ flat[k] = SubSeq(seq, 1, e[k])
    BY <1>1
  <2> HIDE DEF j
  <2>2. flat[j] = SubSeq(seq, 1, e[k]) \o SubSeq(seq, e[k] + 1, e[j])
    BY <1>2, <1>4, <2>1
  <2>3. e[j] \in 0..Len(seq) /\ e[k] \in 0..e[j]
    <3>1. e[k] \in Nat /\ e[j] \in Nat /\ e[j] <= n /\ e[k] <= e[j]
      BY <1>3, <1>4, <2>1
    <3> QED BY <1>1, <3>1 DEF n
  <2>4. flat[j] = SubSeq(seq, 1, e[j])
    <3> DEFINE i == e[k]
               l == e[j]
    <3>1. 1 \in 1..(Len(seq) + 1) /\ i \in (1 - 1)..Len(seq) /\ l \in i..Len(seq)
      BY <1>1, <2>3
    <3> HIDE DEF i, l
    <3>2. SubSeq(seq, 1, i) \o SubSeq(seq, i + 1, l) = SubSeq(seq, 1, l)
      BY <3>1, ConcatAdjacentSubSeq
    <3> QED BY <2>2, <3>2 DEF i, l
  <2> QED BY <2>4 DEF j
<1>7. T = Nat
  <2>1. T \subseteq Nat
    OBVIOUS
  <2> HIDE DEF T
  <2> QED BY <1>5, <1>6, <2>1, SetInduction
<1>8. flat[m] = SubSeq(seq, 1, n)
  <2>1. m \in T
    BY <1>1, <1>7
  <2>2. flat[m] = SubSeq(seq, 1, e[m])
    BY <1>1, <2>1
  <2> QED BY <1>4, <2>2
<1>9. SubSeq(seq, 1, n) = seq
  BY SubSeqFull DEF n
<1> QED BY <1>2, <1>8, <1>9

\* A sequence without its i-th element.
LEMMA Removed ==
    ASSUME NEW S, NEW s \in Seq(S), \A i, j \in DOMAIN s : s[i] = s[j] => i = j, NEW i \in DOMAIN s
    PROVE  /\ RemoveAt(s, i) \in Seq(S)
           /\ ToSet(RemoveAt(s, i)) = ToSet(s) \ {s[i]}
           /\ \A j, k \in DOMAIN RemoveAt(s, i) :
                 RemoveAt(s, i)[j] = RemoveAt(s, i)[k] => j = k
<1> DEFINE left == SubSeq(s, 1, i - 1) right == SubSeq(s, i + 1, Len(s)) r == left \o right
<1>1. i \in 1..Len(s) /\ Len(s) \in Nat /\ DOMAIN s = 1..Len(s)
  OBVIOUS
<1>2. /\ left \in Seq(S) /\ Len(left) = i - 1
      /\ \A j \in 1..(i - 1) : left[j] = s[j]
  BY <1>1 DEF left
<1>3. /\ right \in Seq(S) /\ Len(right) = Len(s) - i
      /\ \A j \in 1..(Len(s) - i) : right[j] = s[i + j]
  <2>1. i + 1 \in Int /\ Len(s) \in Int /\ \A j \in (i + 1)..Len(s) : s[j] \in S
    BY <1>1
  <2>2. /\ right \in Seq(S) /\ Len(right) = IF i + 1 <= Len(s) THEN Len(s) - (i + 1) + 1 ELSE 0
        /\ \A j \in 1..(Len(s) - (i + 1) + 1) : right[j] = s[(i + 1) + j - 1]
    BY <2>1, SubSeqProperties DEF right
  <2> HIDE DEF right
  <2>3. Len(s) - (i + 1) + 1 = Len(s) - i /\ (i + 1 > Len(s) => Len(s) - i = 0)
    BY <1>1
  <2>4. \A j \in 1..(Len(s) - i) : (i + 1) + j - 1 = i + j
    BY <1>1
  <2> QED BY <2>2, <2>3, <2>4
<1> HIDE DEF left, right
<1>4. /\ r \in Seq(S) /\ Len(r) = Len(s) - 1 /\ DOMAIN r = 1..(Len(s) - 1)
      /\ \A j \in 1..(Len(s) - 1) : r[j] = IF j < i THEN left[j] ELSE right[j - (i - 1)]
  <2>1. /\ r \in Seq(S) /\ Len(r) = Len(left) + Len(right)
        /\ \A j \in 1..(Len(left) + Len(right)) :
              r[j] = IF j <= Len(left) THEN left[j] ELSE right[j - Len(left)]
    BY <1>2, <1>3, ConcatProperties DEF r
  <2> HIDE DEF r
  <2>2. Len(left) + Len(right) = Len(s) - 1 /\ \A j \in 1..(Len(s) - 1) : j <= i - 1 <=> j < i
    BY <1>1, <1>2, <1>3
  <2> QED BY <2>1, <2>2, <1>2
<1> HIDE DEF r
<1>5. \A j \in 1..(Len(s) - 1) : r[j] = IF j < i THEN s[j] ELSE s[j + 1]
  <2> TAKE j \in 1..(Len(s) - 1)
  <2>1. CASE j < i
    BY <2>1, <1>1, <1>2, <1>4
  <2>2. CASE ~(j < i)
    <3>1. j - (i - 1) \in 1..(Len(s) - i) /\ i + (j - (i - 1)) = j + 1
      BY <2>2, <1>1
    <3> QED BY <2>2, <3>1, <1>3, <1>4
  <2> QED BY <2>1, <2>2
<1> DEFINE at(j) == IF j < i THEN j ELSE j + 1
<1>10. \A j \in DOMAIN r : at(j) \in DOMAIN s /\ at(j) # i /\ r[j] = s[at(j)]
  BY <1>1, <1>4, <1>5
<1>11. \A j, k \in DOMAIN r : at(j) = at(k) => j = k
  BY <1>1, <1>4
<1> HIDE DEF at
<1>6. \A j, k \in DOMAIN r : r[j] = r[k] => j = k
  BY <1>10, <1>11
<1>7. ToSet(r) \subseteq ToSet(s) \ {s[i]}
  BY <1>10 DEF ToSet
<1>8. ASSUME NEW j \in DOMAIN s, s[j] # s[i] PROVE s[j] \in ToSet(r)
  <2>1. CASE j < i
    BY <2>1, <1>1, <1>4, <1>5 DEF ToSet
  <2>2. CASE j > i
    <3>1. j - 1 \in 1..(Len(s) - 1) /\ ~(j - 1 < i) /\ (j - 1) + 1 = j
      BY <2>2, <1>1
    <3> QED BY <3>1, <1>4, <1>5 DEF ToSet
  <2> QED BY <2>1, <2>2, <1>8, <1>1
<1>9. RemoveAt(s, i) = r
  BY DEF RemoveAt, r, left, right
<1>12. ToSet(s) \ {s[i]} \subseteq ToSet(r)
  BY <1>8 DEF ToSet
<1> QED BY <1>4, <1>6, <1>7, <1>9, <1>12

\* A sequence of a finite set holds its elements.
LEMMA SequenceOf ==
    ASSUME NEW S, IsFiniteSet(S)
    PROVE  /\ SetToSeq(S) \in Seq(S)
           /\ \A i, j \in DOMAIN SetToSeq(S) : SetToSeq(S)[i] = SetToSeq(S)[j] => i = j
<1> DEFINE n == Cardinality(S)
<1>1. n \in Nat /\ \E f : ExistsBijection(1..n, S)
  BY FS_CardinalityType
<1>2. PICK f \in Bijection(1..n, S) : TRUE
  BY <1>1, FS_CardinalityType DEF ExistsBijection
<1>3. f \in [1..n -> S] /\ \A a, b \in DOMAIN f : f[a] = f[b] => a = b
  BY <1>2 DEF Bijection, Injection, Surjection, IsInjective
<1>4. SetToSeq(S) = CHOOSE g \in [1..n -> S] : \A a, b \in DOMAIN g : g[a] = g[b] => a = b
  BY DEF SetToSeq, IsInjective
<1>5. SetToSeq(S) \in [1..n -> S]
      /\ \A a, b \in DOMAIN SetToSeq(S) : SetToSeq(S)[a] = SetToSeq(S)[b] => a = b
  BY <1>3, <1>4
<1> QED BY <1>1, <1>5

\* In a finite set with a strict total order the places, the number of elements
\* up to each, are 1 to its size, each taken once: an injection between sets of
\* one size is onto.
IsOrder(S, ord) ==
    /\ \A x, y \in S : x # y => <<x, y>> \in ord \/ <<y, x>> \in ord
    /\ \A x, y \in S : <<x, y>> \in ord => <<y, x>> \notin ord
    /\ \A x, y, z \in S : <<x, y>> \in ord /\ <<y, z>> \in ord => <<x, z>> \in ord

UpTo(S, ord, x) == {y \in S : y = x \/ <<y, x>> \in ord}

LEMMA PlacesGrow ==
    ASSUME NEW S, IsFiniteSet(S), NEW ord, IsOrder(S, ord),
           NEW x \in S, NEW y \in S, <<x, y>> \in ord
    PROVE  Cardinality(UpTo(S, ord, x)) < Cardinality(UpTo(S, ord, y))
<1>1. UpTo(S, ord, x) \subseteq UpTo(S, ord, y)
  BY DEF UpTo, IsOrder
<1>2. y \in UpTo(S, ord, y) /\ y \notin UpTo(S, ord, x)
  BY DEF UpTo, IsOrder
<1>3. IsFiniteSet(UpTo(S, ord, y)) /\ UpTo(S, ord, y) \subseteq S
  BY FS_Subset DEF UpTo
<1>4. /\ IsFiniteSet(UpTo(S, ord, x))
      /\ Cardinality(UpTo(S, ord, x)) <= Cardinality(UpTo(S, ord, y))
      /\ Cardinality(UpTo(S, ord, y)) = Cardinality(UpTo(S, ord, x))
            => UpTo(S, ord, y) = UpTo(S, ord, x)
  BY <1>1, <1>3, FS_Subset
<1>5. Cardinality(UpTo(S, ord, x)) \in Nat /\ Cardinality(UpTo(S, ord, y)) \in Nat
  BY <1>3, <1>4, FS_CardinalityType
<1> QED BY <1>2, <1>4, <1>5

LEMMA PlacesTaken ==
    ASSUME NEW S, IsFiniteSet(S), NEW ord, IsOrder(S, ord)
    PROVE  /\ Cardinality(S) \in Nat
           /\ \A x \in S : Cardinality(UpTo(S, ord, x)) \in 1..Cardinality(S)
           /\ \A n \in 1..Cardinality(S) : \E x \in S : Cardinality(UpTo(S, ord, x)) = n
<1> DEFINE N == Cardinality(S)
           f == [x \in S |-> Cardinality(UpTo(S, ord, x))]
<1>1. N \in Nat
  BY FS_CardinalityType
<1>2. ASSUME NEW x \in S PROVE Cardinality(UpTo(S, ord, x)) \in 1..N
  <2>1. /\ UpTo(S, ord, x) \subseteq S /\ x \in UpTo(S, ord, x)
    BY DEF UpTo
  <2>2. /\ IsFiniteSet(UpTo(S, ord, x)) /\ Cardinality(UpTo(S, ord, x)) <= N
    BY <2>1, FS_Subset
  <2>3. Cardinality(UpTo(S, ord, x)) \in Nat /\ Cardinality(UpTo(S, ord, x)) # 0
    BY <2>1, <2>2, FS_CardinalityType, FS_EmptySet
  <2> QED BY <1>1, <2>2, <2>3
<1>3. f \in Injection(S, 1..N)
  <2>1. f \in [S -> 1..N]
    BY <1>2
  <2>2. ASSUME NEW x \in S, NEW y \in S, f[x] = f[y] PROVE x = y
    <3>1. Cardinality(UpTo(S, ord, x)) = Cardinality(UpTo(S, ord, y))
      BY <2>2
    <3>2. Cardinality(UpTo(S, ord, x)) \in Int
      BY <1>2
    <3>3. <<x, y>> \notin ord /\ <<y, x>> \notin ord
      BY <3>1, <3>2, PlacesGrow
    <3> QED BY <3>3 DEF IsOrder
  <2> HIDE DEF f
  <2> QED BY <2>1, <2>2 DEF Injection, IsInjective
<1>4. IsFiniteSet(1..N) /\ Cardinality(1..N) = N
  BY <1>1, FS_Interval
<1>5. f \in Surjection(S, 1..N)
  <2> HIDE DEF f
  <2> QED BY <1>3, <1>4, FS_Injection
<1>6. ASSUME NEW n \in 1..N PROVE \E x \in S : f[x] = n
  <2> HIDE DEF f
  <2> QED BY <1>5 DEF Surjection
<1> QED BY <1>1, <1>2, <1>6

\* What is found at a place, and that what is found at a later place comes later.
LEMMA PlaceFound ==
    ASSUME NEW S, IsFiniteSet(S), NEW ord, IsOrder(S, ord), NEW g,
           \A n \in 1..Cardinality(S) :
               g[n] = CHOOSE x \in S : Cardinality(UpTo(S, ord, x)) = n
    PROVE  /\ \A n \in 1..Cardinality(S) : g[n] \in S
           /\ \A m, n \in 1..Cardinality(S) : m < n => <<g[m], g[n]>> \in ord
           /\ \A x \in S : \E n \in 1..Cardinality(S) : g[n] = x
<1>1. \A n \in 1..Cardinality(S) : g[n] \in S /\ Cardinality(UpTo(S, ord, g[n])) = n
  BY PlacesTaken
<1>2. ASSUME NEW m \in 1..Cardinality(S), NEW n \in 1..Cardinality(S), m < n
      PROVE  <<g[m], g[n]>> \in ord
  <2>1. g[m] # g[n] /\ ~(n < m)
    BY <1>1, <1>2, PlacesTaken
  <2>2. <<g[n], g[m]>> \notin ord
    BY <1>1, <2>1, PlacesGrow
  <2> QED BY <1>1, <2>1, <2>2 DEF IsOrder
<1>3. ASSUME NEW x \in S PROVE \E n \in 1..Cardinality(S) : g[n] = x
  <2> DEFINE n == Cardinality(UpTo(S, ord, x))
  <2>1. n \in 1..Cardinality(S)
    BY PlacesTaken
  <2>2. g[n] \in S /\ Cardinality(UpTo(S, ord, g[n])) = n
    BY <1>1, <2>1
  <2>3. n \in Int /\ ~(n < n)
    BY <2>1
  <2>4. g[n] = x
    BY <2>2, <2>3, PlacesGrow DEF IsOrder
  <2> QED BY <2>1, <2>4
<1> QED BY <1>1, <1>2, <1>3

\* The elements ascend; one of them is x.
Ascends(s) == \A i, j \in 1..Len(s) : i < j => s[i] < s[j]

Holds(s, x) == \E i \in 1..Len(s) : s[i] = x

\* Joining two sequences.
LEMMA ConcatHolds ==
    ASSUME NEW S, NEW s \in Seq(S), NEW t \in Seq(S)
    PROVE  /\ s \o t \in Seq(S) /\ Len(s \o t) = Len(s) + Len(t)
           /\ \A i \in 1..Len(s) : (s \o t)[i] = s[i]
           /\ \A i \in 1..Len(t) : (s \o t)[Len(s) + i] = t[i]
           /\ \A x : Holds(s \o t, x) <=> Holds(s, x) \/ Holds(t, x)
<1> DEFINE u == s \o t
<1>1. /\ u \in Seq(S) /\ Len(u) = Len(s) + Len(t) /\ Len(s) \in Nat /\ Len(t) \in Nat
      /\ \A i \in 1..(Len(s) + Len(t)) : u[i] = IF i <= Len(s) THEN s[i] ELSE t[i - Len(s)]
  BY ConcatProperties
<1> HIDE DEF u
<1>2. \A i \in 1..Len(s) : i \in 1..Len(u) /\ u[i] = s[i]
  BY <1>1
<1>3. \A i \in 1..Len(t) : Len(s) + i \in 1..Len(u) /\ u[Len(s) + i] = t[i]
  <2> TAKE i \in 1..Len(t)
  <2>1. Len(s) + i \in 1..Len(u) /\ ~(Len(s) + i <= Len(s)) /\ (Len(s) + i) - Len(s) = i
    BY <1>1
  <2> QED BY <1>1, <2>1
<1>4. \A i \in 1..Len(u) : i \in 1..Len(s) \/ (i - Len(s) \in 1..Len(t) /\ Len(s) + (i - Len(s)) = i)
  BY <1>1
<1>5. ASSUME NEW x PROVE Holds(u, x) <=> Holds(s, x) \/ Holds(t, x)
  <2>1. ASSUME Holds(s, x) PROVE Holds(u, x)
    <3>1. PICK i \in 1..Len(s) : s[i] = x
      BY <2>1 DEF Holds
    <3> QED BY <1>2, <3>1 DEF Holds
  <2>2. ASSUME Holds(t, x) PROVE Holds(u, x)
    <3>1. PICK i \in 1..Len(t) : t[i] = x
      BY <2>2 DEF Holds
    <3>2. Len(s) + i \in 1..Len(u) /\ u[Len(s) + i] = x
      BY <1>3, <3>1
    <3> QED BY <3>2 DEF Holds
  <2>3. ASSUME Holds(u, x) PROVE Holds(s, x) \/ Holds(t, x)
    <3>1. PICK i \in 1..Len(u) : u[i] = x
      BY <2>3 DEF Holds
    <3>2. CASE i \in 1..Len(s)
      <4>1. s[i] = x
        BY <1>2, <3>1, <3>2
      <4> QED BY <3>2, <4>1 DEF Holds
    <3>3. CASE i - Len(s) \in 1..Len(t) /\ Len(s) + (i - Len(s)) = i
      <4>1. t[i - Len(s)] = x
        BY <1>3, <3>1, <3>3
      <4> QED BY <3>3, <4>1 DEF Holds
    <3> QED BY <1>4, <3>2, <3>3
  <2> QED BY <2>1, <2>2, <2>3
<1> QED BY <1>1, <1>2, <1>3, <1>5 DEF u

\* The sum of a list.
Total(seq) == FoldLeft(+, 0, seq)

\* The sum of the lengths, item by item.
LEMMA SumFolds ==
    ASSUME NEW seq \in Seq(Nat)
    PROVE  \E g :
              /\ g[0] = 0
              /\ \A k \in 1..Len(seq) : g[k] = g[k - 1] + seq[k]
              /\ Total(seq) = g[Len(seq)]
<1> DEFINE n == Len(seq)
           step == [x \in Nat \X Nat |-> x[1] + x[2]]
           Sums(iter) ==
              iter = [u \in SUBSET DOMAIN seq |->
                        IF u = {} THEN 0 ELSE iter[u \ {Max(u)}] + seq[Max(u)]]
<1>1. n \in Nat /\ DOMAIN seq = 1..n
  OBVIOUS
<1>2. step \in [Nat \X Nat -> Nat]
  OBVIOUS
<1> HIDE DEF n
<1>3. \E iter : Sums(iter)
  <2>1. PICK iter \in [SUBSET DOMAIN seq -> Nat] : Folding(iter, step, 0, seq)
    <3> HIDE DEF step
    <3> QED BY <1>1, <1>2, FoldDefined
  <2>2. ASSUME NEW u \in SUBSET DOMAIN seq, u # {}
        PROVE  step[<<iter[u \ {Max(u)}], seq[Max(u)]>>] = iter[u \ {Max(u)}] + seq[Max(u)]
    <3>1. Max(u) \in u
      BY <1>1, <2>2, LastPlace
    <3>2. iter[u \ {Max(u)}] \in Nat /\ seq[Max(u)] \in Nat
      BY <1>1, <3>1
    <3> QED BY <3>2
  <2>3. Sums(iter)
    <3> HIDE DEF step
    <3> QED BY <2>1, <2>2 DEF Folding
  <2> HIDE DEF Sums
  <2> QED BY <2>3
<1>4. PICK iter : Sums(iter) /\ Total(seq) = iter[DOMAIN seq]
  BY Zenon, <1>3 DEF Total, FoldLeft, MapThenFoldSet, Max
<1> DEFINE g == [k \in 0..n |-> iter[1..k]]
<1>5. g[0] = 0
  <2>1. 1..0 = {} /\ {} \in SUBSET DOMAIN seq /\ 0 \in 0..n
    BY <1>1
  <2>2. g[0] = iter[{}]
    BY <2>1
  <2> HIDE DEF g, step
  <2> QED BY <1>4, <2>1, <2>2
<1>6. ASSUME NEW k \in 1..n PROVE g[k] = g[k - 1] + seq[k]
  <2>1. k \in Nat /\ k > 0 /\ 1..k \in SUBSET (1..n) /\ k \in 1..k /\ k \in 0..n /\ k - 1 \in 0..n
    <3> HIDE DEF step, Sums, g
    <3> QED BY <1>1
  <2>2. Max(1..k) = k /\ (1..k) \ {k} = 1..(k - 1)
    BY <2>1, LastOfAll
  <2> DEFINE u == 1..k
  <2>3. u \in SUBSET DOMAIN seq /\ u # {} /\ Max(u) = k /\ u \ {k} = 1..(k-1)
    BY <1>1, <2>1, <2>2
  <2>4. g[k] = iter[u] /\ g[k - 1] = iter[1..(k - 1)]
    BY <2>1
  <2> HIDE DEF u, g
  <2>5. iter[u] = iter[u \ {k}] + seq[k]
    BY <1>4, <2>3
  <2> QED BY <2>3, <2>4, <2>5
<1>7. iter[DOMAIN seq] = g[n]
  <2>1. n \in 0..n
    BY <1>1
  <2> QED BY <1>1, <1>4, <2>1
<1> HIDE DEF g
<1> QED BY <1>4, <1>5, <1>6, <1>7 DEF n

\* The sums of the beginnings of a list.
Sums(sum, items) ==
    /\ sum \in [0..Len(items) -> Nat] /\ sum[0] = 0
    /\ \A k \in 1..Len(items) : sum[k] = sum[k - 1] + items[k]

\* Every list has its sums.
LEMMA SumsExist ==
    ASSUME NEW items \in Seq(Nat)
    PROVE  \E sum : Sums(sum, items)
<1> DEFINE n == Len(items)
<1>1. PICK g : g[0] = 0 /\ \A k \in 1..n : g[k] = g[k - 1] + items[k]
  BY SumFolds
<1>2. n \in Nat /\ \A k \in 1..n : items[k] \in Nat
  OBVIOUS
<1> HIDE DEF n
<1> DEFINE Known == {k \in Nat : k <= n => g[k] \in Nat}
<1>3. 0 \in Known
  BY <1>1
<1>4. ASSUME NEW k \in Known PROVE k + 1 \in Known
  <2> SUFFICES ASSUME k + 1 <= n PROVE g[k + 1] \in Nat
    OBVIOUS
  <2> DEFINE m == k + 1
  <2>1. m \in 1..n /\ m - 1 = k /\ g[k] \in Nat
    BY <1>2
  <2> HIDE DEF m
  <2>2. g[m] = g[k] + items[m] /\ items[m] \in Nat
    BY <1>1, <1>2, <2>1
  <2>3. g[m] \in Nat
    BY <2>1, <2>2
  <2> QED BY <2>3 DEF m
<1>5. Known = Nat
  <2>1. Known \subseteq Nat
    OBVIOUS
  <2> HIDE DEF Known
  <2> QED BY <1>3, <1>4, <2>1, SetInduction
<1> DEFINE sum == [k \in 0..n |-> g[k]]
<1>6. \A k \in 0..n : sum[k] = g[k] /\ g[k] \in Nat
  BY <1>2, <1>5
<1>7. sum \in [0..n -> Nat] /\ sum[0] = 0
  BY <1>1, <1>2, <1>6
<1>8. ASSUME NEW k \in 1..n PROVE sum[k] = sum[k - 1] + items[k]
  <2>1. k \in 0..n /\ k - 1 \in 0..n
    BY <1>2
  <2> HIDE DEF sum
  <2> QED BY <1>1, <1>6, <2>1
<1> HIDE DEF sum
<1>9. Sums(sum, items)
  BY <1>7, <1>8 DEF Sums, n
<1> QED BY <1>9

\* The sum of a piece is the difference of two of them.
LEMMA PieceSums ==
    ASSUME NEW items \in Seq(Nat), NEW sum, Sums(sum, items),
           NEW b \in 0..Len(items), NEW a \in 0..b
    PROVE  /\ SubSeq(items, a + 1, b) \in Seq(Nat) /\ Len(SubSeq(items, a + 1, b)) = b - a
           /\ Total(SubSeq(items, a + 1, b)) = sum[b] - sum[a]
<1> DEFINE seq == SubSeq(items, a + 1, b)
           n == Len(items)
           m == b - a
<1>1. /\ n \in Nat /\ a \in Nat /\ b \in Nat /\ a <= b /\ b <= n /\ m \in Nat
      /\ a \in 0..n /\ b \in 0..n /\ b = a + m
  OBVIOUS
<1>2. seq \in Seq(Nat) /\ Len(seq) = m /\ \A k \in 1..m : seq[k] = items[a + k]
  <2> DEFINE from == a + 1
  <2>1. from \in Nat /\ b \in Nat /\ (from <= b => from \in 1..n /\ b \in 1..n) /\ b - from + 1 = m
    BY <1>1
  <2>2. SubSeq(items, from, b) \in Seq(Nat) /\ Len(SubSeq(items, from, b)) = m
    <3> HIDE DEF from, m
    <3>1. m \in Nat
      BY <1>1
    <3> QED BY <2>1, <3>1
  <2>3. ASSUME NEW k \in 1..m PROVE seq[k] = items[a + k]
    <3>1. k \in 1..(b + 1 - from) /\ from + k - 1 = a + k
      BY <1>1
    <3> HIDE DEF from, m
    <3>2. SubSeq(items, from, b)[k] = items[from + k - 1]
      BY <2>1, <3>1
    <3> QED BY <3>1, <3>2 DEF from
  <2> QED BY <2>2, <2>3
<1>3. PICK g : /\ g[0] = 0 
               /\ \A k \in 1..Len(seq) : g[k] = g[k - 1] + seq[k]
               /\ Total(seq) = g[Len(seq)]
  <2> HIDE DEF seq, m, n
  <2> QED BY <1>2, SumFolds
<1>4. /\ \A k \in 0..n : sum[k] \in Nat
      /\ \A k \in 1..n : sum[k] = sum[k - 1] + items[k]
      /\ \A k \in 1..n : items[k] \in Nat
  BY DEF Sums
<1> HIDE DEF seq, n, m
<1> DEFINE Known == {k \in Nat : k <= m => g[k] = sum[a + k] - sum[a]}
<1>5. 0 \in Known
  <2>1. sum[a] \in Nat /\ sum[a + 0] = sum[a]
    BY <1>1, <1>4
  <2>2. g[0] = sum[a + 0] - sum[a]
    BY <1>3, <2>1
  <2> QED BY <2>2
<1>6. ASSUME NEW k \in Known PROVE k + 1 \in Known
  <2> SUFFICES ASSUME k + 1 <= m PROVE g[k + 1] = sum[a + (k + 1)] - sum[a]
    OBVIOUS
  <2> DEFINE j == k + 1
             i == a + k
             l == a + j
  <2>1. j \in 1..m /\ j - 1 = k /\ l \in 1..n /\ l - 1 = i /\ i \in 0..n /\ l \in 0..n
        /\ l = a + j
    BY <1>1
  <2>2. g[k] = sum[i] - sum[a]
    BY <1>1
  <2> HIDE DEF j, i, l
  <2>3. g[j] = g[k] + items[l]
    BY <1>2, <1>3, <2>1
  <2>4. sum[l] = sum[i] + items[l]
    BY <1>4, <2>1
  <2>5. sum[l] \in Nat /\ sum[i] \in Nat /\ sum[a] \in Nat /\ items[l] \in Nat
    BY <1>1, <1>4, <2>1
  <2> HIDE DEF Known
  <2>6. g[j] = sum[l] - sum[a]
    BY <2>2, <2>3, <2>4, <2>5
  <2> QED BY <2>6 DEF j, l
<1>7. Known = Nat
  <2>1. Known \subseteq Nat
    OBVIOUS
  <2> HIDE DEF Known
  <2> QED BY <1>5, <1>6, <2>1, SetInduction
<1>8. g[m] = sum[a + m] - sum[a]
  BY <1>1, <1>7
<1> QED BY <1>1, <1>2, <1>3, <1>8 DEF seq, m

\* A later beginning is no smaller.
LEMMA SumsGrow ==
    ASSUME NEW items \in Seq(Nat), NEW sum, Sums(sum, items),
           NEW b \in 0..Len(items), NEW a \in 0..b
    PROVE  sum[a] <= sum[b]
<1> DEFINE n == Len(items)
<1>1. /\ n \in Nat /\ a \in Nat /\ b \in Nat /\ a <= b /\ b <= n
      /\ \A k \in 0..n : sum[k] \in Nat
      /\ \A k \in 1..n : sum[k] = sum[k - 1] + items[k]
      /\ \A k \in 1..n : items[k] \in Nat
  <2>1. n \in Nat /\ a \in Nat /\ b \in Nat /\ a <= b /\ b <= n
    OBVIOUS
  <2>2. \A k \in 1..n : items[k] \in Nat
    OBVIOUS
  <2>3. /\ \A k \in 0..n : sum[k] \in Nat
        /\ \A k \in 1..n : sum[k] = sum[k - 1] + items[k]
    BY DEF Sums
  <2> HIDE DEF n
  <2> QED BY <2>1, <2>2, <2>3
<1> HIDE DEF n
<1> DEFINE Known == {k \in Nat : a + k <= n => sum[a] <= sum[a + k]}
<1>2. 0 \in Known
  BY <1>1
<1>3. ASSUME NEW k \in Known PROVE k + 1 \in Known
  <2> SUFFICES ASSUME a + (k + 1) <= n PROVE sum[a] <= sum[a + (k + 1)]
    OBVIOUS
  <2> DEFINE i == a + k
             l == a + (k + 1)
  <2>1. l \in 1..n /\ l - 1 = i /\ i \in 0..n /\ l \in 0..n /\ a \in 0..n /\ sum[a] <= sum[i]
    BY <1>1
  <2> HIDE DEF i, l
  <2>2. sum[l] = sum[i] + items[l]
    BY <1>1, <2>1
  <2>3. sum[a] <= sum[l]
    BY <1>1, <2>1, <2>2
  <2> QED BY <2>3 DEF l
<1>4. Known = Nat
  <2>1. Known \subseteq Nat
    OBVIOUS
  <2> HIDE DEF Known
  <2> QED BY <1>2, <1>3, <2>1, SetInduction
<1>5. b - a \in Known /\ a + (b - a) = b
  <2>1. b - a \in Nat /\ a + (b - a) = b
    BY <1>1
  <2> HIDE DEF Known
  <2> QED BY <1>4, <2>1
<1> DEFINE d == b - a
<1>6. d \in Known /\ a + d = b
  BY <1>5
<1> HIDE DEF d
<1> QED BY <1>1, <1>6

-----------------------------------------------------------------------------
(* Loops over places, written as recursive functions.                       *)

\* A loop over the places 1 to L that stops where at is not 0.
FirstOf(f, at, L) ==
    f = [i \in 1..(L + 1) |-> IF i > L THEN 0 ELSE IF at[i] # 0 THEN at[i] ELSE f[i + 1]]

\* at decides at place i.
DecidesAt(at, i) == at[i] # 0 /\ \A j \in 1..(i - 1) : at[j] = 0

\* There is such a loop.
LEMMA LoopExists ==
    ASSUME NEW L \in Nat, NEW at \in [1..L -> Int]
    PROVE  \E f : FirstOf(f, at, L)
<1> DEFINE Next(i) == {j \in 1..L : i <= j /\ at[j] # 0}
           First(i) == CHOOSE j \in Next(i) : \A k \in Next(i) : j <= k
           f == [i \in 1..(L + 1) |-> IF Next(i) = {} THEN 0 ELSE at[First(i)]]
<1>1. ASSUME NEW i \in 1..(L + 1), Next(i) # {}
      PROVE  First(i) \in Next(i) /\ \A k \in Next(i) : First(i) <= k
  <2>1. \E j \in Next(i) : \A k \in Next(i) : j <= k
    <3>1. Next(i) \in SUBSET (1..L)
      OBVIOUS
    <3> QED BY <1>1, <3>1, FirstPlace
  <2> QED BY <2>1
<1>2. ASSUME NEW i \in 1..(L + 1)
      PROVE  f[i] = IF i > L THEN 0 ELSE IF at[i] # 0 THEN at[i] ELSE f[i + 1]
  <2>1. CASE i > L
    <3>1. Next(i) = {}
      BY <2>1
    <3> QED BY <2>1, <3>1
  <2>2. CASE i <= L /\ at[i] # 0
    <3>1. i \in Next(i)
      BY <2>2
    <3>2. First(i) \in Nat /\ First(i) <= i /\ i <= First(i)
      BY <1>1, <3>1
    <3>3. First(i) = i
      BY <3>2
    <3> HIDE DEF First
    <3> QED BY <2>2, <3>1, <3>3
  <2>3. CASE i <= L /\ at[i] = 0
    <3>1. Next(i) = Next(i + 1) /\ i + 1 \in 1..(L + 1)
      BY <2>3
    <3> HIDE DEF Next
    <3>2. First(i) = First(i + 1)
      BY <3>1
    <3> HIDE DEF First
    <3> QED BY <2>3, <3>1, <3>2
  <2> QED BY <2>1, <2>2, <2>3
<1>3. f = [i \in 1..(L + 1) |-> IF i > L THEN 0 ELSE IF at[i] # 0 THEN at[i] ELSE f[i + 1]]
  <2> DEFINE g == [i \in 1..(L + 1) |-> IF i > L THEN 0 ELSE IF at[i] # 0 THEN at[i] ELSE f[i + 1]]
  <2>1. \A i \in 1..(L + 1) : f[i] = g[i]
    <3> HIDE DEF f
    <3> QED BY <1>2
  <2>2. DOMAIN f = 1..(L + 1) /\ f = [i \in 1..(L + 1) |-> f[i]] /\ g = [i \in 1..(L + 1) |-> g[i]]
    <3> HIDE DEF Next, First
    <3> QED OBVIOUS
  <2> HIDE DEF f, g
  <2>3. f = g
    BY <2>1, <2>2
  <2> QED BY <2>3 DEF g
<1> HIDE DEF f
<1> QED BY <1>3 DEF FirstOf

\* What it comes to.
LEMMA LoopDecides ==
    ASSUME NEW L \in Nat, NEW at \in [1..L -> Int], NEW f, FirstOf(f, at, L)
    PROVE  \/ \E i \in 1..L : DecidesAt(at, i) /\ f[1] = at[i]
           \/ (\A i \in 1..L : at[i] = 0) /\ f[1] = 0
<1> DEFINE T == {n \in Nat : n <= L /\ (\A j \in 1..n : at[j] = 0) => f[1] = f[n + 1]}
<1>1. \A i \in 1..(L + 1) : f[i] = IF i > L THEN 0 ELSE IF at[i] # 0 THEN at[i] ELSE f[i + 1]
  BY DEF FirstOf
<1>2. T = Nat
  <2>1. 0 \in T
    OBVIOUS
  <2>2. ASSUME NEW n \in T PROVE n + 1 \in T
    <3>1. n \in Nat /\ n + 1 \in Nat
      OBVIOUS
    <3>2. ASSUME n + 1 <= L, \A j \in 1..(n + 1) : at[j] = 0 PROVE f[1] = f[(n + 1) + 1]
      <4>1. f[1] = f[n + 1]
        BY <3>1, <3>2
      <4>2. n + 1 \in 1..(L + 1) /\ ~(n + 1 > L) /\ at[n + 1] = 0
        BY <3>1, <3>2
      <4> QED BY <1>1, <4>1, <4>2
    <3> QED BY <3>1, <3>2
  <2>3. T \subseteq Nat
    OBVIOUS
  <2> HIDE DEF T
  <2> QED BY <2>1, <2>2, <2>3, SetInduction
<1>3. CASE \A i \in 1..L : at[i] = 0
  <2>1. f[1] = f[L + 1]
    <3>1. L \in T
      BY <1>2
    <3> QED BY <1>3, <3>1
  <2>2. f[L + 1] = 0
    BY <1>1
  <2> QED BY <1>3, <2>1, <2>2
<1>4. CASE \E i \in 1..L : at[i] # 0
  <2> DEFINE U == {i \in 1..L : at[i] # 0}
  <2>1. PICK i \in U : \A j \in U : i <= j
    <3>1. U \in SUBSET (1..L) /\ U # {}
      BY <1>4
    <3> HIDE DEF U
    <3> QED BY <3>1, FirstPlace
  <2>2. i \in 1..L /\ at[i] # 0 /\ \A j \in 1..(i - 1) : at[j] = 0
    <3>1. ASSUME NEW j \in 1..(i - 1) PROVE at[j] = 0
      <4>1. j \in 1..L /\ ~(i <= j)
        OBVIOUS
      <4> QED BY <2>1, <4>1
    <3> QED BY <2>1, <3>1
  <2>3. f[1] = f[i]
    <3>1. i - 1 \in Nat /\ i - 1 <= L /\ (i - 1) + 1 = i
      BY <2>2
    <3>2. i - 1 \in T
      BY <1>2, <3>1
    <3> QED BY <2>2, <3>1, <3>2
  <2>4. f[i] = at[i]
    BY <1>1, <2>2
  <2> QED BY <2>2, <2>3, <2>4 DEF DecidesAt
<1> QED BY <1>3, <1>4

\* Beginnings of two sequences are the same when their elements are.
LEMMA SameBeginning ==
    ASSUME NEW S, NEW s \in Seq(S), NEW t \in Seq(S), NEW k \in Nat, k <= Len(s), k <= Len(t)
    PROVE  SubSeq(s, 1, k) = SubSeq(t, 1, k) <=> \A j \in 1..k : s[j] = t[j]
<1> DEFINE u == SubSeq(s, 1, k)
           v == SubSeq(t, 1, k)
<1>1. /\ u \in Seq(S) /\ Len(u) = k /\ \A j \in 1..k : u[j] = s[j]
      /\ v \in Seq(S) /\ Len(v) = k /\ \A j \in 1..k : v[j] = t[j]
  OBVIOUS
<1> HIDE DEF u, v
<1>2. (\A j \in 1..k : s[j] = t[j]) => u = v
  BY <1>1, SeqEqual
<1> QED BY <1>1, <1>2 DEF u, v
=============================================================================
