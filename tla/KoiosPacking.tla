---------------------------- MODULE KoiosPacking ----------------------------
(***************************************************************************)
(* Batch reads of src/providers/koios/client.ts that do not fit in one     *)
(* request body: packBySize (koios/schema.ts) packs the items into bodies, *)
(* packAdaptively sends them concurrently, and a 413 that names a smaller  *)
(* limit lowers the client's shared bodyLimit and repacks once.  Each body *)
(* goes through read(), which resends it after a transient failure.        *)
(*                                                                         *)
(* An item is its serialized length, a body the sequence of its items.     *)
(* Sizes are small units instead of bytes; the instances that answer for   *)
(* the upstream may have different caps.                                   *)
(***************************************************************************)
EXTENDS Integers, Sequences, SequencesExt, FiniteSets

CONSTANTS
    Runs,          \* calls of packAdaptively
    ItemSeqs,      \* the item lists they are called with
    Samples,       \* more item lists, for packBySize by itself
    Envelope,      \* bytes of the body with an empty item list
    Margin,        \* BODY_SAFETY_MARGIN_BYTES
    InitialLimit,  \* bodyLimitBytes
    Caps,          \* caps of the upstream instances (external)
    ReadAttempts   \* config.readAttempts

VARIABLES
    bodyLimit,  \* the client's current budget
    runs,       \* the state of each packAdaptively call
    requests    \* requests[r, n, i]: the i-th body of round n of run r

vars == <<bodyLimit, runs, requests>>

\* No list makes more bodies than it has items.
MaxChunks == Max({Len(items) : items \in ItemSeqs})

\* An instance for TLC: the list of two runs that one cap refuses.
OneList == {<<2, 1>>}

Slots == Runs \X {1, 2} \X (1..MaxChunks)

\* round: 0 before the first packing.  packed: the limit it was made to.
\* why, said: the error of a failed run and the limit it named.
IdleRun == [st |-> "idle", items |-> <<>>, round |-> 0, packed |-> 0,
            chunks |-> <<>>, why |-> "none", said |-> 0]

NoRequest == [st |-> "none", attempt |-> 0, size |-> 0]

-----------------------------------------------------------------------------
(* packBySize.                                                              *)

\* The length of a body: one comma between each pair of items.
BodySize(chunk) ==
    Envelope + FoldLeft(+, 0, chunk) + (IF chunk = <<>> THEN 0 ELSE Len(chunk) - 1)

\* Mutant of Room: the whole budget is used.
RoomWithoutMargin(budget) == budget

\* What the packing fills: the budget less the headroom.
Room(budget) == budget - Margin

\* Mutant of Joined: the comma is not counted.
JoinedWithoutComma(used, item) == used + item

\* The bytes of a non-empty chunk after one more item.
Joined(used, item) == used + 1 + item

\* One turn of the loop; p holds chunks, current and used.
PackItem(p, item, limit) ==
    IF p.current = <<>>
    THEN [p EXCEPT !.current = <<item>>, !.used = item]
    ELSE IF Envelope + Joined(p.used, item) > limit
    THEN [chunks |-> Append(p.chunks, p.current), current |-> <<item>>, used |-> item]
    ELSE [p EXCEPT !.current = Append(@, item), !.used = Joined(@, item)]

\* The chunk being filled is pushed after the loop.
Flushed(p) == IF p.current = <<>> THEN p.chunks ELSE Append(p.chunks, p.current)

packBySize(items, budget) ==
    Flushed(FoldLeft(LAMBDA p, item : PackItem(p, item, Room(budget)),
                     [chunks |-> <<>>, current |-> <<>>, used |-> 0], items))

\* An item that does not fit in a body by itself: packBySize throws, and no
\* body of the run is sent.
Unpackable(items, budget) ==
    \E i \in DOMAIN items : Envelope + items[i] > Room(budget)

-----------------------------------------------------------------------------
Init ==
    /\ bodyLimit = InitialLimit
    /\ runs = [r \in Runs |-> IdleRun]
    /\ requests = [s \in Slots |-> NoRequest]

\* run(): pack to the limit and send every body.  reqs holds the requests so
\* far.
Round(r, n, items, limit, reqs) ==
    LET chunks == packBySize(items, limit)
        packed(st, bodies, why) ==
            [st |-> st, items |-> items, round |-> n, packed |-> limit,
             chunks |-> bodies, why |-> why, said |-> 0]
    IN  \/ /\ Unpackable(items, limit)
           /\ runs' = [runs EXCEPT ![r] = packed("failed", <<>>, "unpackable")]
           /\ requests' = reqs
        \/ /\ ~Unpackable(items, limit)
           /\ runs' = [runs EXCEPT ![r] =
                 packed(IF chunks = <<>> THEN "resolved" ELSE "running", chunks, "none")]
           /\ requests' = [s \in Slots |->
                 IF s[1] = r /\ s[2] = n /\ s[3] \in DOMAIN chunks
                 THEN [st |-> "sent", attempt |-> 1, size |-> BodySize(chunks[s[3]])]
                 ELSE reqs[s]]

Start(r, items) ==
    /\ runs[r].st = "idle"
    /\ Round(r, 1, items, bodyLimit, requests)
    /\ UNCHANGED bodyLimit

\* Whether the run still awaits the bodies of round n: the bodies of a round
\* that failed go on, and nobody looks at their outcome.
Awaited(r, n) == runs[r].st = "running" /\ runs[r].round = n

\* Mutant of AllAnswered: the first answer settles the run.
AnyAnswered(reqs, r, n) == \E i \in DOMAIN runs[r].chunks : reqs[r, n, i].st = "ok"

\* Every body of round n of run r is answered.
AllAnswered(reqs, r, n) == \A i \in DOMAIN runs[r].chunks : reqs[r, n, i].st = "ok"

\* A well-formed answer.  Promise.all resolves with the last one.
Answered(s) ==
    LET r == s[1]
        n == s[2]
        done == [requests EXCEPT ![s].st = "ok"]
    IN
    /\ requests[s].st = "sent"
    /\ \E cap \in Caps : requests[s].size < cap
    /\ requests' = done
    /\ runs' = IF Awaited(r, n) /\ AllAnswered(done, r, n)
               THEN [runs EXCEPT ![r].st = "resolved"]
               ELSE runs
    /\ UNCHANGED bodyLimit

\* The catch of packAdaptively: a 413 that names less than the current limit.
Adopts(why, said) == why = "413" /\ said < bodyLimit

\* The body in slot s fails for good: the first failure of a round ends it,
\* and the first round may then learn and repack.
Fails(s, why, said) ==
    LET r == s[1]
        n == s[2]
        reqs == [requests EXCEPT ![s].st = "failed"]
    IN
    \/ /\ ~Awaited(r, n)
       /\ requests' = reqs
       /\ UNCHANGED <<bodyLimit, runs>>
    \/ /\ Awaited(r, n)
       /\ n = 1 /\ Adopts(why, said)
       /\ bodyLimit' = said
       /\ Round(r, 2, runs[r].items, said, reqs)
    \/ /\ Awaited(r, n)
       /\ ~(n = 1 /\ Adopts(why, said))
       /\ runs' = [runs EXCEPT ![r].st = "failed", ![r].why = why, ![r].said = said]
       /\ requests' = reqs
       /\ UNCHANGED bodyLimit

\* A body that is not below the instance's cap gets a 413 that names the cap.
\* isTransient says no to it.
Refused(s, cap) ==
    /\ requests[s].st = "sent"
    /\ requests[s].size >= cap
    /\ Fails(s, "413", cap)

\* read(): attempts are left after a transient failure.
MayRetry(attempt) == attempt < ReadAttempts

\* A timeout, a malformed body, a transport failure or a 5xx.
FailsTransiently(s) ==
    /\ requests[s].st = "sent"
    /\ \/ /\ MayRetry(requests[s].attempt)
          /\ requests' = [requests EXCEPT ![s].st = "backing off"]
          /\ UNCHANGED <<bodyLimit, runs>>
       \/ /\ ~MayRetry(requests[s].attempt)
          /\ Fails(s, "other", 0)

\* Any other 4xx, or a 413 that names no limit.
FailsForGood(s) ==
    /\ requests[s].st = "sent"
    /\ Fails(s, "other", 0)

\* Mutant of NextAttempt: the counter of the loop stands still.
NextAttemptSame(attempt) == attempt

NextAttempt(attempt) == attempt + 1

\* The delay is over and the same body is sent again.
Resend(s) ==
    /\ requests[s].st = "backing off"
    /\ requests' = [requests EXCEPT ![s].st = "sent", ![s].attempt = NextAttempt(@)]
    /\ UNCHANGED <<bodyLimit, runs>>

Next ==
    \/ \E r \in Runs, items \in ItemSeqs : Start(r, items)
    \/ \E s \in Slots : Answered(s)
    \/ \E s \in Slots, cap \in Caps : Refused(s, cap)
    \/ \E s \in Slots : FailsTransiently(s)
    \/ \E s \in Slots : FailsForGood(s)
    \/ \E s \in Slots : Resend(s)

Spec == Init /\ [][Next]_vars

\* The request in slot s settles.
Settles(s) ==
    Answered(s) \/ FailsTransiently(s) \/ FailsForGood(s) \/ \E cap \in Caps : Refused(s, cap)

-----------------------------------------------------------------------------
(* Properties.                                                              *)

\* The shape of the client's state: two rounds, and no body sent more than
\* ReadAttempts times in one of them.
TypeOK ==
    /\ bodyLimit \in Caps \cup {InitialLimit}
    /\ runs \in [Runs ->
          [st : {"idle", "running", "resolved", "failed"}, items : ItemSeqs \cup {<<>>},
           round : 0..2, packed : Caps \cup {0, InitialLimit}, chunks : Seq(Seq(Nat)),
           why : {"none", "413", "other", "unpackable"}, said : Caps \cup {0}]]
    /\ requests \in [Slots ->
          [st : {"none", "sent", "backing off", "ok", "failed"},
           attempt : 0..ReadAttempts, size : Nat]]

\* Cut points of a list of n items, and the piece that ends at cut j.
Cuts(n) == SUBSET (1..(n - 1))
PieceSize(items, from, to) == BodySize(SubSeq(items, from, to))
CutFits(items, cut, limit) ==
    \A from \in {0} \cup cut, to \in cut \cup {Len(items)} :
        (from < to /\ \A k \in cut : ~(from < k /\ k < to))
        => PieceSize(items, from + 1, to) <= limit

\* packBySize keeps the order and every item, its bodies fit in the budget
\* less the margin, and no other way to cut the list into fitting bodies has
\* fewer of them: for each list that is sampled and each limit a run may have
\* (looked at once, before the client has sent anything).
PacksTightly ==
    requests = [s \in Slots |-> NoRequest] => \A items \in Samples, limit \in Caps \cup {InitialLimit} :
        LET chunks == packBySize(items, limit) IN
        ~Unpackable(items, limit) =>
            /\ FlattenSeq(chunks) = items
            /\ \A i \in DOMAIN chunks : BodySize(chunks[i]) <= Room(limit)
            /\ \A cut \in Cuts(Len(items)) :
                  CutFits(items, cut, Room(limit)) => Len(chunks) <= Cardinality(cut) + 1

\* A body is refused for its size only by an instance whose cap is tighter
\* than the limit the body was packed to: taking upstream's own number settles
\* the matter, also though upstream wants bodies strictly below it.
RefusedOnlyByTighterCap ==
    \A r \in Runs :
        runs[r].st = "failed" /\ runs[r].why = "413" => runs[r].said < runs[r].packed

\* A run that resolves had every body of its last packing answered, and those
\* bodies hold every item once; rows of an abandoned round are not mixed in.
ResolvedIsWhole ==
    \A r \in Runs :
        runs[r].st = "resolved" =>
            /\ FlattenSeq(runs[r].chunks) = runs[r].items
            /\ \A i \in DOMAIN runs[r].chunks : requests[r, runs[r].round, i].st = "ok"

\* packAdaptively's comment: "If a run fails with a 413 naming a smaller limit
\* than we packed to, adopt it, repack, and run once more."
RepackedBeforeGivingUp ==
    \A r \in Runs :
        (/\ runs[r].st = "failed" /\ runs[r].why = "413"
         /\ runs[r].said < runs[r].packed)
        => runs[r].round = 2
=============================================================================
