---------------------------- MODULE ReleaseProofs ----------------------------
(***************************************************************************)
(* The release job, for every history of main, every set of versions and   *)
(* every number of jobs, of steps of other maintainers and of requests     *)
(* that fail: what it may leave behind, wherever main moves, an answer is  *)
(* lost or the runner dies.                                                *)
(* The last part is about its version check: the comparison, two loops, is *)
(* the order of semantic versions.                                         *)
(*                                                                         *)
(* Each property of the job needs to know, step by step, what a job that   *)
(* got that far has established, so each invariant speaks of job.pc.       *)
(***************************************************************************)
EXTENDS Release, FiniteSetTheorems, SequenceLemmas, TLAPS

-----------------------------------------------------------------------------
(* The shape of a job and of a release.                                     *)

Pcs == {"verify", "beforeTag", "push", "afterTag", "checkTag", "lookup", "beforeRelease",
        "recheckTag", "post", "afterRelease", "finalTag", "seek", "delete", "confirm",
        "tagState", "tagSha", "dropTag", "done", "failed", "dead"}

Job == [pc : Pcs, sha : Commits, existing : Commits \cup {NoCommit}, tagCreated : BOOLEAN,
        id : Nat, attempt : 1..Attempts, seen : [G!Looks -> BOOLEAN], held : BOOLEAN,
        faulty : Nat, met : BOOLEAN]

Published == [id : Nat \ {0}, version : Versions, sha : Commits, by : Nat, fresh : BOOLEAN]

GateTyped ==
    /\ version \in [Commits -> Versions] /\ ci \in [Commits -> {"success", "failure"}]
    /\ main \in Commits /\ tag \in [Versions -> Commits \cup {NoCommit}]
    /\ releases \subseteq Published /\ lastId \in Nat /\ \A r \in releases : r.id <= lastId
    /\ job \in Job /\ job.id <= lastId

\* A release is of the version of its commit.
OfItsCommit == \A r \in releases : r.version = version[r.sha]

\* A job knows the id of its release, unless the answer that names it was lost.
Authors ==
    /\ jobs \in Nat
    /\ \A r \in releases : r.by # 0 =>
          /\ r.by <= jobs
          /\ r.by = jobs => \/ r.id = job.id
                            \/ job.id = 0 /\ job.pc = "failed" /\ job.faulty >= 1

-----------------------------------------------------------------------------
(* The tag of a release.                                                    *)

\* A job that is about to post saw the tag on its commit; one that is about to
\* drop the tag saw no release of it, and nobody but the job makes its own.
TagIsKnown ==
    /\ job.pc = "post" => tag[G!Tag] = job.sha \/ G!Tag \in touched
    /\ job.pc \in {"tagSha", "dropTag"} => \A r \in G!ReleasesBy(G!Tag) : r.by = 0

-----------------------------------------------------------------------------
(* The rollback.                                                            *)

\* Steps of a job that has posted nothing.
Early == {"verify", "beforeTag", "push", "afterTag", "checkTag", "lookup", "beforeRelease",
          "recheckTag", "post"}

Succeeded ==
    /\ ~G!Over => ci[job.sha] = "success"
    /\ \A r \in releases : r.by # 0 => ci[r.sha] = "success"

\* main never comes back to a commit it has left.
LeftBehind ==
    /\ job.sha <= main
    /\ \A r \in G!MyRelease : r.fresh \/ job.sha < main

\* A rollback goes on while the release is there, and every round it has used up
\* met a failed request.
RollsBack ==
    /\ job.pc \in Early => job.id = 0
    /\ job.pc \in Early \cup {"afterRelease", "finalTag"} => job.attempt = 1
    /\ job.pc = "finalTag" /\ job.seen.afterRelease => \A r \in G!MyRelease : r.fresh
    /\ job.pc = "done" => \A r \in G!MyRelease : r.fresh
    /\ G!MyRelease # {} =>
          /\ job.pc \notin {"tagState", "tagSha", "dropTag"}
          /\ job.pc \in {"seek", "delete"} => job.faulty + 1 >= job.attempt
          /\ job.pc = "confirm" => job.faulty >= job.attempt
          /\ job.pc = "failed" => job.faulty >= Attempts

-----------------------------------------------------------------------------
(* The contract.                                                            *)

\* Nothing happened to the job that its decisions do not look at.
Undisturbed == job.faulty = 0 /\ ~job.met

\* The case the contract leaves out: there was a release and no tag.
Orphan == job.pc # "verify" /\ job.seen.atStart /\ job.existing = NoCommit /\ job.held

Saw(looks) == \A l \in G!Looks : job.seen[l] <=> l \notin looks


\* The tag is the job's own, or was there and is kept.
Ownership == IF job.tagCreated THEN job.existing = NoCommit ELSE job.existing = job.sha

\* The tag and the releases, as such a job knows them: as it found them, with
\* its tag, with its release, and with that taken back.
AsFound == /\ tag[G!Tag] = job.existing /\ (G!ReleasesBy(G!Tag) # {} <=> job.held)
           /\ job.id = 0 /\ ~job.tagCreated
Tagged == /\ tag[G!Tag] = job.sha /\ (G!ReleasesBy(G!Tag) # {} <=> job.held)
          /\ job.id = 0 /\ Ownership
Posted == /\ tag[G!Tag] = job.sha /\ ~job.held /\ G!MyRelease # {}
          /\ G!ReleasesBy(G!Tag) = G!MyRelease /\ Ownership
Retracted == /\ tag[G!Tag] = job.sha /\ G!MyRelease = {} /\ G!ReleasesBy(G!Tag) = {}
             /\ ~job.held /\ Ownership
Undone == tag[G!Tag] = NoCommit /\ G!MyRelease = {} /\ ~job.held /\ Ownership /\ job.tagCreated

\* main had moved when the job looked a second time, or later.
Overtaken == Saw({"afterTag"}) \/ Saw({"beforeRelease"}) \/ Saw({"afterRelease"})

\* Why a job ends before it has changed anything.
Refused ==
    /\ AsFound
    /\ \/ Saw({"atStart"})
       \/ Saw({}) /\ job.existing \notin {NoCommit, job.sha}
       \/ Saw({"beforeTag"}) /\ job.existing = NoCommit
       \/ Saw({"beforeRelease"}) /\ job.existing = job.sha /\ ~job.held

OnCourse ==
    /\ job.pc \in {"verify", "beforeTag", "push"} => AsFound /\ Saw({})
    /\ job.pc \in {"beforeTag", "push"} => job.existing = NoCommit
    /\ job.pc = "afterTag" => Tagged /\ Saw({}) /\ job.tagCreated
    /\ job.pc \in {"checkTag", "lookup"} => Tagged /\ Saw({})
    /\ job.pc \in {"beforeRelease", "recheckTag", "post"} => Tagged /\ Saw({}) /\ ~job.held
    /\ job.pc = "afterRelease" => Posted /\ Saw({})
    /\ job.pc = "finalTag" => Posted /\ (Saw({}) \/ Saw({"afterRelease"}))
    /\ job.pc \in {"seek", "delete"} => Posted /\ Saw({"afterRelease"})
    /\ job.pc = "confirm" => Retracted /\ Saw({"afterRelease"})
    /\ job.pc \in {"tagState", "tagSha", "dropTag"} => Retracted /\ Overtaken /\ job.tagCreated
    /\ job.pc = "done" => Saw({}) /\ (Posted \/ (Tagged /\ job.held))
    /\ job.pc = "failed" => \/ Refused
                            \/ Undone /\ Overtaken
                            \/ Retracted /\ ~job.tagCreated /\ Saw({"afterRelease"})

OnContract == Undisturbed => OnCourse \/ Orphan

GateInv ==
    /\ GateTyped /\ OfItsCommit /\ Authors
    /\ TagIsKnown /\ G!OwnTagStays
    /\ Succeeded /\ LeftBehind /\ RollsBack
    /\ OnContract
-----------------------------------------------------------------------------
(* What a request does to the job.                                          *)

\* Nothing happens to the commits and the number of jobs, nor to what is
\* published.
CommitsStay == UNCHANGED <<version, ci, main, jobs>>
RemoteStays == UNCHANGED <<tag, touched, releases, lastId>>

\* The fields only one request each may change.
JobStays ==
    /\ job'.sha = job.sha /\ job'.existing = job.existing /\ job'.held = job.held
    /\ job'.met = job.met /\ job'.attempt = job.attempt

\* The job goes on to pc, after a request that was answered or that failed.
MovesTo(pc) ==
    /\ job' \in Job /\ JobStays /\ job'.pc = pc
    /\ job'.id = job.id /\ job'.tagCreated = job.tagCreated

Served == job'.faulty = job.faulty
Fails == job'.faulty = job.faulty + 1

LEMMA Moves ==
    ASSUME job \in Job, NEW pc \in Pcs
    PROVE  /\ G!Answered(G!At(pc)) => MovesTo(pc) /\ Served /\ CommitsStay /\ job'.seen = job.seen
           /\ G!Unanswered(G!At(pc)) => MovesTo(pc) /\ Fails /\ CommitsStay /\ job'.seen = job.seen
<1> DEFINE next1 == [job EXCEPT !.pc = pc]
           next2 == [next1 EXCEPT !.faulty = @ + 1]
<1>1. /\ next1 \in Job /\ next1.pc = pc /\ next1.sha = job.sha /\ next1.existing = job.existing
      /\ next1.held = job.held /\ next1.met = job.met /\ next1.attempt = job.attempt
      /\ next1.id = job.id /\ next1.tagCreated = job.tagCreated /\ next1.faulty = job.faulty
      /\ next1.seen = job.seen
  BY DEF Job
<1> HIDE DEF next1
<1>2. /\ next2 \in Job /\ next2.pc = next1.pc /\ next2.sha = next1.sha
      /\ next2.existing = next1.existing /\ next2.held = next1.held /\ next2.met = next1.met
      /\ next2.attempt = next1.attempt /\ next2.id = next1.id
      /\ next2.tagCreated = next1.tagCreated /\ next2.faulty = next1.faulty + 1
      /\ next2.seen = next1.seen
  BY <1>1 DEF Job
<1> HIDE DEF next2
<1>3. ASSUME G!Answered(G!At(pc)) PROVE job' = next1 /\ CommitsStay
  BY <1>3 DEF G!Answered, G!Goes, G!World, G!At, CommitsStay, next1
<1>4. ASSUME G!Unanswered(G!At(pc)) PROVE job' = next2 /\ CommitsStay
  BY <1>4 DEF G!Unanswered, G!Goes, G!World, G!At, CommitsStay, next1, next2
<1> QED BY <1>1, <1>2, <1>3, <1>4 DEF MovesTo, JobStays, Served, Fails

\* require_current_main.
LEMMA AsksMain ==
    ASSUME job \in Job, NEW here, NEW when \in G!Looks, NEW yes \in Pcs, NEW no \in Pcs,
           G!RequireCurrentMain(here, when, yes, no)
    PROVE  /\ job.pc = here /\ CommitsStay /\ RemoteStays
           /\ \/ /\ MovesTo(IF main = job.sha THEN yes ELSE no) /\ Served
                 /\ job'.seen = [job.seen EXCEPT ![when] = (main = job.sha)]
              \/ /\ MovesTo(no) /\ Fails
                 /\ job'.seen = [job.seen EXCEPT ![when] = FALSE]
<1> DEFINE pc == IF main = job.sha THEN yes ELSE no
           seen == [job.seen EXCEPT ![when] = (main = job.sha)]
           unseen == [job.seen EXCEPT ![when] = FALSE]
<1>1. job.pc = here /\ RemoteStays
  BY DEF G!RequireCurrentMain, G!remote, RemoteStays
<1>2. seen \in [G!Looks -> BOOLEAN] /\ unseen \in [G!Looks -> BOOLEAN] /\ pc \in Pcs
  BY DEF Job
<1>3. CASE G!Answered([job EXCEPT !.pc = pc, !.seen[when] = (main = job.sha)])
  <2>1. job' = [job EXCEPT !.pc = pc, !.seen = seen] /\ CommitsStay
    BY <1>3, Zenon DEF G!Answered, G!Goes, G!World, CommitsStay
  <2> HIDE DEF pc, seen
  <2>2. MovesTo(pc) /\ Served /\ job'.seen = seen
    BY <1>2, <2>1 DEF Job, MovesTo, JobStays, Served
  <2> QED BY <1>1, <2>1, <2>2 DEF pc, seen
<1>4. CASE G!Unanswered([job EXCEPT !.pc = no, !.seen[when] = FALSE])
  <2>1. job' = [[job EXCEPT !.pc = no, !.seen = unseen] EXCEPT !.faulty = @ + 1] /\ CommitsStay
    BY <1>4, Zenon DEF G!Unanswered, G!Goes, G!World, CommitsStay
  <2> HIDE DEF pc, unseen
  <2>2. MovesTo(no) /\ Fails /\ job'.seen = unseen
    <3> DEFINE next1 == [job EXCEPT !.pc = no, !.seen = unseen]
    <3>1. /\ next1 \in Job /\ next1.pc = no /\ next1.sha = job.sha /\ next1.existing = job.existing
          /\ next1.held = job.held /\ next1.met = job.met /\ next1.attempt = job.attempt
          /\ next1.id = job.id /\ next1.tagCreated = job.tagCreated
          /\ next1.faulty = job.faulty /\ next1.seen = unseen
      BY <1>2 DEF Job
    <3>2. job' = [next1 EXCEPT !.faulty = @ + 1]
      BY <2>1
    <3> HIDE DEF next1
    <3>3. /\ job' \in Job /\ job'.pc = next1.pc /\ job'.sha = next1.sha
          /\ job'.existing = next1.existing /\ job'.held = next1.held /\ job'.met = next1.met
          /\ job'.attempt = next1.attempt /\ job'.id = next1.id
          /\ job'.tagCreated = next1.tagCreated /\ job'.faulty = next1.faulty + 1
          /\ job'.seen = next1.seen
      BY <3>1, <3>2 DEF Job
    <3> QED BY <3>1, <3>3 DEF MovesTo, JobStays, Fails
  <2> QED BY <1>1, <2>1, <2>2 DEF unseen
<1> QED BY <1>3, <1>4 DEF G!RequireCurrentMain

\* Such a look, put as its outcome: the head is there, or is not known to be.
LEMMA LooksAtMain ==
    ASSUME job \in Job, NEW here, NEW when \in G!Looks, NEW yes \in Pcs, NEW no \in Pcs,
           G!RequireCurrentMain(here, when, yes, no)
    PROVE  /\ job.pc = here /\ CommitsStay /\ RemoteStays
           /\ \/ /\ MovesTo(yes) /\ Served /\ main = job.sha
                 /\ job'.seen = [job.seen EXCEPT ![when] = TRUE]
              \/ /\ MovesTo(no) /\ ((Served /\ main # job.sha) \/ Fails)
                 /\ job'.seen = [job.seen EXCEPT ![when] = FALSE]
<1>1. CASE main = job.sha
  BY <1>1, AsksMain
<1>2. CASE main # job.sha
  BY <1>2, AsksMain
<1> QED BY <1>1, <1>2

\* The job goes on to pc, and has not looked at main again.
GoesTo(pc) == MovesTo(pc) /\ job'.seen = job.seen

\* require_release_tag and release_state_for.
LEMMA AsksTag ==
    ASSUME job \in Job, NEW here, NEW yes \in Pcs, NEW no \in Pcs,
           G!RequireReleaseTag(here, yes, no)
    PROVE  /\ job.pc = here /\ CommitsStay /\ RemoteStays
           /\ \/ GoesTo(IF tag[G!Tag] = job.sha THEN yes ELSE no) /\ Served
              \/ GoesTo(no) /\ Fails
<1>1. \/ G!Answered(G!At(IF tag[G!Tag] = job.sha THEN yes ELSE no))
      \/ G!Unanswered(G!At(no))
  BY DEF G!RequireReleaseTag, G!At
<1> QED BY <1>1, Moves DEF G!RequireReleaseTag, G!remote, RemoteStays, GoesTo

LEMMA AsksRelease ==
    ASSUME job \in Job, NEW here, NEW found, NEW exists \in Pcs, NEW absent \in Pcs,
           NEW unknown \in Pcs, G!ReleaseState(here, found, exists, absent, unknown)
    PROVE  /\ job.pc = here /\ CommitsStay /\ RemoteStays
           /\ \/ GoesTo(IF found THEN exists ELSE absent) /\ Served
              \/ GoesTo(unknown) /\ Fails
<1>1. \/ G!Answered(G!At(IF found THEN exists ELSE absent))
      \/ G!Unanswered(G!At(unknown))
  BY DEF G!ReleaseState, G!At
<1> QED BY <1>1, Moves DEF G!ReleaseState, G!remote, RemoteStays, GoesTo
-----------------------------------------------------------------------------
(* The constants, and what a job sees.                                      *)

LEMMA GateNumbers ==
    /\ Commits \subseteq Nat /\ 1 \in Commits /\ NoCommit \notin Commits
    /\ \A c \in Commits : 1..c \subseteq Commits
    /\ Attempts \in Nat /\ Attempts >= 1
<1>1. G!GateConstants
  BY ReleaseAssumption
<1>2. IsFiniteSet(Commits) /\ Commits = 1..Cardinality(Commits) /\ Commits # {}
  BY <1>1 DEF G!GateConstants, G!IsFiniteSet, IsFiniteSet, G!Cardinality, Cardinality
<1>3. Cardinality(Commits) \in Nat
  BY <1>2, FS_CardinalityType
<1>4. Commits \subseteq Nat /\ 1 \in Commits /\ \A c \in Commits : 1..c \subseteq Commits
  BY <1>2, <1>3
<1> QED BY <1>1, <1>4 DEF G!GateConstants

\* The five looks, one by one.
LEMMA SawEach ==
    ASSUME NEW looks, Saw(looks)
    PROVE  /\ job.seen.atStart <=> "atStart" \notin looks
           /\ job.seen.beforeTag <=> "beforeTag" \notin looks
           /\ job.seen.afterTag <=> "afterTag" \notin looks
           /\ job.seen.beforeRelease <=> "beforeRelease" \notin looks
           /\ job.seen.afterRelease <=> "afterRelease" \notin looks
BY DEF Saw, G!Looks

\* The decisions that call for nothing to be left.
LEMMA NothingIsLeft ==
    ASSUME NEW tagging, NEW race,
           \/ tagging \in {"reject-stale-main", "reject-tag-mismatch"}
           \/ tagging \in {"create-missing-release", "tag-and-release"} /\ race # "release-complete"
    PROVE  G!Decided(tagging, race) = <<"failed", "nothing">>
BY DEF G!Decided

\* A job that is on course has kept the contract when it ends.
LEMMA CourseIsContract == GateTyped /\ OnContract => G!ContractFollowed
<1> DEFINE tagging == G!releaseDecision(job.sha, IF job.seen.atStart THEN job.sha ELSE NoCommit,
                                        job.existing, job.held)
           race == G!raceDecision(job.seen, job.tagCreated)
<1> SUFFICES ASSUME GateTyped, OnContract, job.pc \in {"done", "failed"}, job.faulty = 0, ~job.met,
                    tagging # "reject-release-without-tag"
             PROVE  <<job.pc, G!Left>> = G!Decided(tagging, race)
  BY DEF G!ContractFollowed
<1>0. /\ job.sha \in Commits /\ NoCommit \notin Commits
      /\ job.id = 0 => G!MyRelease = {}
  BY GateNumbers DEF GateTyped, Job, Published, G!MyRelease
<1>1. OnCourse
  BY <1>0 DEF OnContract, Undisturbed, Orphan, G!releaseDecision
<1>2. CASE job.pc = "done"
  <2>1. /\ job.seen.atStart /\ job.seen.beforeTag /\ job.seen.afterTag /\ job.seen.beforeRelease
        /\ job.seen.afterRelease
    BY <1>1, <1>2, SawEach DEF OnCourse
  <2>2. CASE Posted
    BY <1>0, <1>2, <2>1, <2>2
       DEF Posted, Ownership, G!releaseDecision, G!raceDecision, G!Decided, G!Left
  <2>3. CASE Tagged /\ job.held
    BY <1>0, <1>2, <2>1, <2>3
       DEF Tagged, Ownership, G!releaseDecision, G!raceDecision, G!Decided, G!Left
  <2> QED BY <1>1, <1>2, <2>2, <2>3 DEF OnCourse
<1>3. CASE job.pc = "failed"
  <2>1. CASE Refused
    <3>1. G!Left = "nothing"
      BY <1>0, <2>1 DEF Refused, AsFound, G!Left
    <3>2. \/ ~job.seen.atStart
          \/ job.existing \notin {NoCommit, job.sha}
          \/ job.existing = NoCommit /\ ~job.seen.beforeTag /\ job.seen.atStart
          \/ /\ job.existing = job.sha /\ ~job.held /\ job.seen.atStart /\ job.seen.beforeTag
             /\ job.seen.afterTag /\ ~job.seen.beforeRelease
      BY <2>1, SawEach DEF Refused
    <3>3. \/ tagging \in {"reject-stale-main", "reject-tag-mismatch"}
          \/ tagging \in {"create-missing-release", "tag-and-release"} /\ race # "release-complete"
      BY <1>0, <3>2, <2>1
         DEF Refused, AsFound, G!releaseDecision, G!raceDecision
    <3> HIDE DEF tagging, race
    <3> QED BY <1>3, <3>1, <3>3, NothingIsLeft
  <2>2. CASE Undone /\ Overtaken
    <3>1. /\ job.seen.atStart /\ job.seen.beforeTag
          /\ ~(job.seen.afterTag /\ job.seen.beforeRelease /\ job.seen.afterRelease)
      BY <2>2, SawEach DEF Overtaken
    <3>2. tagging \in {"create-missing-release", "tag-and-release"}
      BY <1>0, <2>2, <3>1 DEF Undone, Ownership, G!releaseDecision
    <3>3. race # "release-complete"
      BY <3>1 DEF G!raceDecision
    <3>4. G!Left = "nothing"
      BY <1>0, <2>2 DEF Undone, Ownership, G!Left
    <3> HIDE DEF tagging, race
    <3> QED BY <1>3, <3>2, <3>3, <3>4, NothingIsLeft
  <2>3. CASE Retracted /\ ~job.tagCreated /\ Saw({"afterRelease"})
    <3>1. /\ job.seen.atStart /\ job.seen.beforeTag /\ job.seen.afterTag /\ job.seen.beforeRelease
          /\ ~job.seen.afterRelease
      BY <2>3, SawEach
    <3>2. tagging \in {"create-missing-release", "tag-and-release"}
      BY <1>0, <2>3, <3>1 DEF Retracted, Ownership, G!releaseDecision
    <3>3. race # "release-complete"
      BY <3>1 DEF G!raceDecision
    <3>4. G!Left = "nothing"
      BY <1>0, <2>3 DEF Retracted, Ownership, G!Left
    <3> HIDE DEF tagging, race
    <3> QED BY <1>3, <3>2, <3>3, <3>4, NothingIsLeft
  <2> QED BY <1>1, <1>3, <2>1, <2>2, <2>3 DEF OnCourse
<1> QED BY <1>2, <1>3
-----------------------------------------------------------------------------
(* Requests that only ask.                                                  *)

\* Before it has posted, a job has no release.
LEMMA NoneBeforePost ==
    ASSUME GateInv, job.pc \in Early
    PROVE  job.id = 0 /\ job.attempt = 1 /\ G!MyRelease = {}
BY DEF GateInv, RollsBack, GateTyped, Published, G!MyRelease

\* What is left to show of a request that only asks.
LEMMA QueryKeeps ==
    ASSUME GateInv, CommitsStay, RemoteStays, ~G!Over,
           job' \in Job, job'.sha = job.sha, job'.id = job.id,
           TagIsKnown', RollsBack', OnContract'
    PROVE  GateInv'
<1>1. UNCHANGED <<version, ci, main, tag, touched, releases, lastId>>
  BY DEF CommitsStay, RemoteStays
<1>2. GateTyped' /\ OfItsCommit' /\ G!OwnTagStays'
  BY <1>1 DEF GateInv, GateTyped, OfItsCommit, G!OwnTagStays
<1>3. Succeeded' /\ LeftBehind'
  BY <1>1 DEF GateInv, Succeeded, LeftBehind, G!MyRelease
<1>4. Authors'
  BY <1>1 DEF GateInv, Authors, CommitsStay, G!Over
<1> QED BY <1>2, <1>3, <1>4 DEF GateInv

\* What such a request leaves a job to see.
LEMMA SameView ==
    ASSUME CommitsStay, RemoteStays, NEW pc, MovesTo(pc)
    PROVE  /\ G!Tag' = G!Tag /\ G!MyRelease' = G!MyRelease
           /\ G!ReleasesBy(G!Tag)' = G!ReleasesBy(G!Tag)
           /\ tag' = tag /\ touched' = touched
           /\ (AsFound => AsFound') /\ (Tagged => Tagged') /\ (Posted => Posted')
           /\ (Retracted => Retracted') /\ (Undone => Undone') /\ (Ownership => Ownership')
<1>1. UNCHANGED <<version, ci, main, tag, touched, releases, lastId>>
      /\ job'.sha = job.sha /\ job'.id = job.id /\ job'.existing = job.existing
      /\ job'.held = job.held /\ job'.tagCreated = job.tagCreated
  BY DEF CommitsStay, RemoteStays, MovesTo, JobStays
<1>2. /\ G!Tag' = G!Tag /\ G!MyRelease' = G!MyRelease
      /\ G!ReleasesBy(G!Tag)' = G!ReleasesBy(G!Tag)
  BY <1>1 DEF G!Tag, G!MyRelease, G!ReleasesBy
<1> QED BY <1>1, <1>2 DEF AsFound, Tagged, Posted, Retracted, Undone, Ownership

\* One more look.
LEMMA SawNext ==
    ASSUME job \in Job, NEW look \in G!Looks, NEW there \in BOOLEAN, Saw({}),
           job'.seen = [job.seen EXCEPT ![look] = there]
    PROVE  (there => Saw({})') /\ (~there => Saw({look})')
BY DEF Saw, Job

\* A job stays on course.
LEMMA CourseKeeps ==
    ASSUME GateTyped, OnContract, NEW pc, MovesTo(pc), pc # "verify", Served \/ Fails,
           Orphan => job'.seen.atStart,
           OnCourse /\ ~Orphan /\ Served => OnCourse' \/ Orphan'
    PROVE  OnContract'
<1> SUFFICES ASSUME Undisturbed' PROVE OnCourse' \/ Orphan'
  BY DEF OnContract
<1>1. Served /\ Undisturbed
  <2>1. job.faulty \in Nat /\ job'.faulty = 0 /\ ~job'.met /\ job'.met = job.met
    BY DEF GateTyped, Job, Undisturbed, MovesTo, JobStays
  <2> QED BY <2>1 DEF Served, Fails, Undisturbed
<1>2. CASE Orphan
  BY <1>2 DEF Orphan, MovesTo, JobStays
<1> QED BY <1>1, <1>2 DEF OnContract

\* A request that only asks, of a job that has posted nothing.
LEMMA EarlyKeeps ==
    ASSUME GateInv, job.pc \in Early, CommitsStay, RemoteStays, NEW pc \in Pcs, MovesTo(pc),
           Served \/ Fails, pc # "verify", Orphan => job'.seen.atStart,
           OnCourse /\ ~Orphan /\ Served => OnCourse' \/ Orphan', TagIsKnown'
    PROVE  GateInv'
<1>1. job.id = 0 /\ job.attempt = 1 /\ G!MyRelease = {}
  BY NoneBeforePost
<1>2. G!MyRelease' = {} /\ job'.id = 0 /\ job'.attempt = 1
  BY <1>1, SameView DEF MovesTo, JobStays
<1>3. RollsBack'
  BY <1>2 DEF RollsBack
<1>4. OnContract'
  BY CourseKeeps DEF GateInv
<1>5. ~G!Over
  BY DEF Early, G!Over
<1> QED BY <1>3, <1>4, <1>5, QueryKeeps DEF MovesTo, JobStays

\* The same, of one that looks at main.
LEMMA EarlyLookKeeps ==
    ASSUME GateInv, NEW here \in Early, NEW when \in G!Looks,
           NEW yes \in Pcs \ {"verify", "post", "tagSha", "dropTag"},
           NEW no \in Pcs \ {"verify", "post", "tagSha", "dropTag"},
           here = "verify" \/ when # "atStart",
           G!RequireCurrentMain(here, when, yes, no),
           OnCourse /\ ~Orphan /\ MovesTo(yes) /\ Saw({})' => OnCourse' \/ Orphan',
           OnCourse /\ ~Orphan /\ MovesTo(no) /\ Saw({when})' => OnCourse' \/ Orphan',
           OnCourse => Saw({})
    PROVE  GateInv'
<1>0. job \in Job /\ yes \in Pcs /\ no \in Pcs
  BY DEF GateInv, GateTyped
<1>1. job.pc = here /\ CommitsStay /\ RemoteStays
  BY <1>0, LooksAtMain
<1>2. ASSUME NEW pc \in {yes, no}, NEW there \in BOOLEAN, MovesTo(pc), Served \/ Fails,
             job'.seen = [job.seen EXCEPT ![when] = there],
             OnCourse /\ ~Orphan => OnCourse' \/ Orphan'
      PROVE  GateInv'
  <2>1. pc \in Pcs /\ pc # "verify" /\ TagIsKnown'
    BY <1>0, <1>2 DEF TagIsKnown, MovesTo
  <2>2. Orphan => job'.seen.atStart
    BY <1>0, <1>1, <1>2 DEF Orphan, Job, G!Looks
  <2> QED BY <1>1, <1>2, <2>1, <2>2, EarlyKeeps
<1>3. CASE MovesTo(yes) /\ Served /\ job'.seen = [job.seen EXCEPT ![when] = TRUE]
  <2>1. OnCourse => Saw({})'
    BY <1>0, <1>3, SawNext
  <2> QED BY <1>2, <1>3, <2>1
<1>4. CASE MovesTo(no) /\ (Served \/ Fails) /\ job'.seen = [job.seen EXCEPT ![when] = FALSE]
  <2>1. OnCourse => Saw({when})'
    BY <1>0, <1>4, SawNext
  <2> QED BY <1>2, <1>4, <2>1
<1> QED BY <1>0, <1>3, <1>4, LooksAtMain

LEMMA VerifyKeeps == ASSUME GateInv, G!Verify PROVE GateInv'
<1>1. G!RequireCurrentMain("verify", "atStart", G!AfterVerify, "failed")
  BY DEF G!Verify
<1>2. job \in Job /\ "atStart" \in G!Looks /\ "verify" \in Early
      /\ G!AfterVerify \in {"beforeTag", "checkTag", "failed"}
      /\ G!AfterVerify \in Pcs /\ "failed" \in Pcs
      /\ {"beforeTag", "checkTag", "failed"} \subseteq Pcs \ {"verify", "post", "tagSha", "dropTag"}
  BY DEF GateInv, GateTyped, G!Looks, G!AfterVerify, Pcs, Early
<1>3. job.pc = "verify" /\ CommitsStay /\ RemoteStays
  BY <1>1, <1>2, LooksAtMain
<1>4. ASSUME OnCourse PROVE Saw({}) /\ AsFound
  BY <1>3, <1>4 DEF OnCourse
<1>5. ASSUME OnCourse, MovesTo(G!AfterVerify), Saw({})' PROVE OnCourse'
  <2>1. AsFound' /\ job'.pc = G!AfterVerify /\ job'.existing = job.existing /\ job'.sha = job.sha
    BY <1>3, <1>4, <1>5, SameView DEF MovesTo, JobStays
  <2>2. CASE job.existing = NoCommit
    BY <1>5, <2>1, <2>2 DEF OnCourse, G!AfterVerify
  <2>3. CASE job.existing # NoCommit /\ job.existing = job.sha
    BY <1>5, <2>1, <2>3 DEF OnCourse, G!AfterVerify, AsFound, Tagged, Ownership
  <2>4. CASE job.existing \notin {NoCommit, job.sha}
    BY <1>5, <2>1, <2>4 DEF OnCourse, G!AfterVerify, Refused
  <2> QED BY <2>2, <2>3, <2>4
<1>6. ASSUME OnCourse, MovesTo("failed"), Saw({"atStart"})' PROVE OnCourse'
  <2>1. AsFound' /\ job'.pc = "failed"
    BY <1>3, <1>4, <1>6, SameView DEF MovesTo
  <2> QED BY <1>6, <2>1 DEF OnCourse, Refused
<1> QED BY <1>1, <1>2, <1>4, <1>5, <1>6, EarlyLookKeeps

LEMMA BeforeTagKeeps == ASSUME GateInv, G!BeforeTag PROVE GateInv'
<1>1. G!RequireCurrentMain("beforeTag", "beforeTag", "push", "failed")
  BY DEF G!BeforeTag
<1>2. job \in Job /\ "beforeTag" \in G!Looks /\ "beforeTag" \in Early
      /\ {"push", "failed"} \subseteq Pcs \ {"verify", "post", "tagSha", "dropTag"}
  BY DEF GateInv, GateTyped, G!Looks, Pcs, Early
<1>3. job.pc = "beforeTag" /\ CommitsStay /\ RemoteStays
  BY <1>1, <1>2, LooksAtMain DEF Pcs
<1>4. ASSUME OnCourse PROVE Saw({}) /\ AsFound /\ job.existing = NoCommit
  BY <1>3, <1>4 DEF OnCourse
<1>5. ASSUME OnCourse, NEW pc, MovesTo(pc) PROVE AsFound' /\ job'.pc = pc /\ job'.existing = NoCommit
  BY <1>3, <1>4, <1>5, SameView DEF MovesTo, JobStays
<1>6. ASSUME OnCourse, MovesTo("push"), Saw({})' PROVE OnCourse'
  BY <1>5, <1>6 DEF OnCourse
<1>7. ASSUME OnCourse, MovesTo("failed"), Saw({"beforeTag"})' PROVE OnCourse'
  BY <1>5, <1>7 DEF OnCourse, Refused
<1> QED BY <1>1, <1>2, <1>4, <1>6, <1>7, EarlyLookKeeps

LEMMA AfterTagKeeps == ASSUME GateInv, G!AfterTag PROVE GateInv'
<1>1. G!RequireCurrentMain("afterTag", "afterTag", "checkTag", "tagState")
  BY DEF G!AfterTag
<1>2. job \in Job /\ "afterTag" \in G!Looks /\ "afterTag" \in Early
      /\ {"checkTag", "tagState"} \subseteq Pcs \ {"verify", "post", "tagSha", "dropTag"}
  BY DEF GateInv, GateTyped, G!Looks, Pcs, Early
<1>3. job.pc = "afterTag" /\ CommitsStay /\ RemoteStays
  BY <1>1, <1>2, LooksAtMain DEF Pcs
<1>4. ASSUME OnCourse, ~Orphan PROVE Saw({}) /\ Tagged /\ job.tagCreated /\ ~job.held
  BY <1>3, <1>4, SawEach DEF OnCourse, Orphan, Tagged, Ownership
<1>5. ASSUME OnCourse, ~Orphan, NEW pc, MovesTo(pc)
      PROVE  Tagged' /\ job'.pc = pc /\ job'.tagCreated /\ ~job'.held
  BY <1>3, <1>4, <1>5, SameView DEF MovesTo, JobStays
<1>6. ASSUME OnCourse, ~Orphan, MovesTo("checkTag"), Saw({})' PROVE OnCourse'
  BY <1>5, <1>6 DEF OnCourse
<1>7. ASSUME OnCourse, ~Orphan, MovesTo("tagState"), Saw({"afterTag"})' PROVE OnCourse'
  <2>1. G!MyRelease' = {}
    BY <1>2, <1>3, <1>7, NoneBeforePost, SameView
  <2>2. Retracted' /\ Overtaken'
    BY <1>5, <1>7, <2>1 DEF Tagged, Retracted, Overtaken
  <2> QED BY <1>5, <1>7, <2>2 DEF OnCourse
<1>8. OnCourse => Saw({})
  BY <1>3 DEF OnCourse
<1> QED BY <1>1, <1>2, <1>6, <1>7, <1>8, EarlyLookKeeps
LEMMA BeforeReleaseKeeps == ASSUME GateInv, G!BeforeRelease PROVE GateInv'
<1>1. G!RequireCurrentMain("beforeRelease", "beforeRelease", "recheckTag", G!UndoTag)
  BY DEF G!BeforeRelease
<1>2. job \in Job /\ "beforeRelease" \in G!Looks /\ "beforeRelease" \in Early
      /\ G!UndoTag \in {"tagState", "failed"}
      /\ {"recheckTag", "tagState", "failed"} \subseteq Pcs \ {"verify", "post", "tagSha", "dropTag"}
  BY DEF GateInv, GateTyped, G!Looks, Pcs, Early, G!UndoTag
<1>3. job.pc = "beforeRelease" /\ CommitsStay /\ RemoteStays
  BY <1>1, <1>2, LooksAtMain DEF Pcs
<1>4. ASSUME OnCourse PROVE Saw({}) /\ Tagged /\ ~job.held
  BY <1>3, <1>4 DEF OnCourse
<1>5. ASSUME OnCourse, NEW pc, MovesTo(pc)
      PROVE  Tagged' /\ job'.pc = pc /\ job'.tagCreated = job.tagCreated /\ ~job'.held
  BY <1>3, <1>4, <1>5, SameView DEF MovesTo, JobStays
<1>6. ASSUME OnCourse, MovesTo("recheckTag"), Saw({})' PROVE OnCourse'
  BY <1>5, <1>6 DEF OnCourse
<1>7. ASSUME OnCourse, MovesTo(G!UndoTag), Saw({"beforeRelease"})' PROVE OnCourse'
  <2>1. G!MyRelease' = {}
    BY <1>2, <1>3, <1>7, NoneBeforePost, SameView
  <2>2. Tagged' /\ job'.pc = G!UndoTag /\ job'.tagCreated = job.tagCreated /\ ~job'.held
    BY <1>5, <1>7
  <2>3. CASE job.tagCreated
    <3>1. Retracted' /\ Overtaken'
      BY <1>7, <2>1, <2>2 DEF Tagged, Retracted, Overtaken
    <3> QED BY <2>2, <2>3, <3>1 DEF OnCourse, G!UndoTag
  <2>4. CASE ~job.tagCreated
    <3>1. Refused'
      BY <1>7, <2>2, <2>4 DEF Tagged, Refused, AsFound, Ownership
    <3> QED BY <2>2, <2>4, <3>1 DEF OnCourse, G!UndoTag
  <2> QED BY <2>3, <2>4
<1>8. OnCourse => Saw({})
  BY <1>4
<1> QED BY <1>1, <1>2, <1>6, <1>7, <1>8, EarlyLookKeeps

LEMMA CheckTagKeeps == ASSUME GateInv, G!CheckTag PROVE GateInv'
<1>1. job \in Job /\ "lookup" \in Pcs /\ "failed" \in Pcs
  BY DEF GateInv, GateTyped, Pcs
<1>2. G!RequireReleaseTag("checkTag", "lookup", "failed")
  BY DEF G!CheckTag
<1>3. /\ job.pc = "checkTag" /\ CommitsStay /\ RemoteStays
      /\ \/ GoesTo(IF tag[G!Tag] = job.sha THEN "lookup" ELSE "failed") /\ Served
         \/ GoesTo("failed") /\ Fails
  BY <1>1, <1>2, AsksTag
<1>4. job.pc \in Early /\ ~(Served /\ Fails)
  BY <1>1, <1>3 DEF Early, Served, Fails, Job
<1>5. PICK pc \in {"lookup", "failed"} : /\ GoesTo(pc) /\ (Served \/ Fails)
                                         /\ Served /\ tag[G!Tag] = job.sha => pc = "lookup"
  BY <1>3, <1>4
<1>6. TagIsKnown' /\ pc \in Pcs /\ pc # "verify" /\ MovesTo(pc)
      /\ (Orphan => job'.seen.atStart)
  BY <1>1, <1>5 DEF TagIsKnown, GoesTo, MovesTo, Orphan
<1>7. ASSUME OnCourse, Served PROVE OnCourse'
  <2>1. Tagged /\ Saw({}) /\ pc = "lookup"
    BY <1>3, <1>5, <1>7 DEF OnCourse, Tagged
  <2>2. Tagged' /\ Saw({})' /\ job'.pc = "lookup"
    BY <1>3, <1>5, <2>1, SameView DEF GoesTo, MovesTo, Saw
  <2> QED BY <2>2 DEF OnCourse
<1> QED BY <1>3, <1>4, <1>5, <1>6, <1>7, EarlyKeeps

LEMMA LookupKeeps == ASSUME GateInv, G!Lookup PROVE GateInv'
<1> DEFINE found == G!ReleasesBy(G!Tag) # {}
<1>1. job \in Job /\ "done" \in Pcs /\ "failed" \in Pcs /\ "beforeRelease" \in Pcs
  BY DEF GateInv, GateTyped, Pcs
<1>2. G!ReleaseState("lookup", found, "done", "beforeRelease", "failed")
  BY DEF G!Lookup
<1>3. /\ job.pc = "lookup" /\ CommitsStay /\ RemoteStays
      /\ \/ GoesTo(IF found THEN "done" ELSE "beforeRelease") /\ Served
         \/ GoesTo("failed") /\ Fails
  BY <1>1, <1>2, AsksRelease
<1>4. job.pc \in Early /\ ~(Served /\ Fails)
  BY <1>1, <1>3 DEF Early, Served, Fails, Job
<1> HIDE DEF found
<1>5. PICK pc \in {"done", "beforeRelease", "failed"} :
         /\ GoesTo(pc) /\ (Served \/ Fails)
         /\ Served => pc = IF found THEN "done" ELSE "beforeRelease"
  BY <1>3, <1>4
<1>6. TagIsKnown' /\ pc \in Pcs /\ pc # "verify" /\ MovesTo(pc)
      /\ (Orphan => job'.seen.atStart)
  BY <1>1, <1>5 DEF TagIsKnown, GoesTo, MovesTo, Orphan
<1>7. ASSUME OnCourse, Served PROVE OnCourse'
  <2>1. Tagged /\ Saw({}) /\ (found <=> job.held)
    BY <1>3, <1>7 DEF OnCourse, Tagged, found
  <2>2. Tagged' /\ Saw({})' /\ job'.pc = pc /\ job'.held = job.held
    BY <1>3, <1>5, <2>1, SameView DEF GoesTo, MovesTo, JobStays, Saw
  <2> QED BY <1>5, <1>7, <2>1, <2>2 DEF OnCourse
<1> QED BY <1>3, <1>4, <1>5, <1>6, <1>7, EarlyKeeps

LEMMA RecheckTagKeeps == ASSUME GateInv, G!RecheckTag PROVE GateInv'
<1>1. job \in Job /\ "post" \in Pcs /\ "failed" \in Pcs
  BY DEF GateInv, GateTyped, Pcs
<1>2. G!RequireReleaseTag("recheckTag", "post", "failed")
  BY DEF G!RecheckTag
<1>3. /\ job.pc = "recheckTag" /\ CommitsStay /\ RemoteStays
      /\ \/ GoesTo(IF tag[G!Tag] = job.sha THEN "post" ELSE "failed") /\ Served
         \/ GoesTo("failed") /\ Fails
  BY <1>1, <1>2, AsksTag
<1>4. job.pc \in Early /\ ~(Served /\ Fails)
  BY <1>1, <1>3 DEF Early, Served, Fails, Job
<1>5. PICK pc \in {"post", "failed"} : /\ GoesTo(pc) /\ (Served \/ Fails)
                                       /\ pc = "post" => tag[G!Tag] = job.sha
                                       /\ Served /\ tag[G!Tag] = job.sha => pc = "post"
  BY <1>3, <1>4
<1>6. pc \in Pcs /\ pc # "verify" /\ MovesTo(pc) /\ (Orphan => job'.seen.atStart)
  BY <1>1, <1>5 DEF GoesTo, MovesTo, Orphan
<1>7. TagIsKnown'
  <2>1. tag' = tag /\ G!Tag' = G!Tag /\ job'.sha = job.sha /\ job'.pc = pc
    BY <1>3, <1>6, SameView DEF MovesTo, JobStays
  <2> QED BY <1>5, <2>1 DEF TagIsKnown
<1>8. ASSUME OnCourse, Served PROVE OnCourse'
  <2>1. Tagged /\ Saw({}) /\ ~job.held /\ pc = "post"
    BY <1>3, <1>5, <1>8 DEF OnCourse, Tagged
  <2>2. Tagged' /\ Saw({})' /\ job'.pc = "post" /\ ~job'.held
    BY <1>3, <1>5, <2>1, SameView DEF GoesTo, MovesTo, JobStays, Saw
  <2> QED BY <2>2 DEF OnCourse
<1> QED BY <1>3, <1>4, <1>5, <1>6, <1>7, <1>8, EarlyKeeps
\* The same, of a job that may have posted.
LEMMA LateKeeps ==
    ASSUME GateInv, ~G!Over, CommitsStay, RemoteStays, NEW pc \in Pcs, MovesTo(pc),
           Served \/ Fails, pc # "verify", Orphan => job'.seen.atStart,
           OnCourse /\ ~Orphan /\ Served => OnCourse' \/ Orphan', TagIsKnown', RollsBack'
    PROVE  GateInv'
<1>1. OnContract'
  BY CourseKeeps DEF GateInv
<1> QED BY <1>1, QueryKeeps DEF MovesTo, JobStays

LEMMA AfterReleaseKeeps == ASSUME GateInv, G!AfterRelease PROVE GateInv'
<1>1. G!RequireCurrentMain("afterRelease", "afterRelease", "finalTag", "finalTag")
  BY DEF G!AfterRelease
<1>2. job \in Job /\ "afterRelease" \in G!Looks /\ "finalTag" \in Pcs
  BY DEF GateInv, GateTyped, G!Looks, Pcs
<1>3. /\ job.pc = "afterRelease" /\ CommitsStay /\ RemoteStays /\ MovesTo("finalTag")
      /\ \/ Served /\ main = job.sha /\ job'.seen = [job.seen EXCEPT !["afterRelease"] = TRUE]
         \/ (Served \/ Fails) /\ job'.seen = [job.seen EXCEPT !["afterRelease"] = FALSE]
  BY <1>1, <1>2, LooksAtMain
<1>4. ~G!Over /\ (Served \/ Fails) /\ TagIsKnown' /\ (Orphan => job'.seen.atStart)
  BY <1>2, <1>3 DEF G!Over, TagIsKnown, MovesTo, Orphan, Job, G!Looks
<1>5. RollsBack'
  <2>1. G!MyRelease' = G!MyRelease /\ job'.pc = "finalTag" /\ job'.attempt = 1
    BY <1>3, SameView DEF MovesTo, JobStays, GateInv, RollsBack
  <2>2. job'.seen.afterRelease => main = job.sha
    BY <1>2, <1>3 DEF Job
  <2>3. main = job.sha => \A r \in G!MyRelease : r.fresh
    BY GateNumbers DEF GateInv, LeftBehind, GateTyped
  <2> QED BY <2>1, <2>2, <2>3 DEF RollsBack, Early
<1>6. ASSUME OnCourse, Served PROVE OnCourse'
  <2>1. Posted' /\ Saw({}) /\ job'.pc = "finalTag"
    BY <1>3, <1>6, SameView DEF OnCourse, MovesTo
  <2>2. Saw({})' \/ Saw({"afterRelease"})'
    BY <1>2, <1>3, <2>1, SawNext
  <2> QED BY <2>1, <2>2 DEF OnCourse
<1> QED BY <1>2, <1>3, <1>4, <1>5, <1>6, LateKeeps

LEMMA FinalTagKeeps == ASSUME GateInv, G!FinalTag PROVE GateInv'
<1> DEFINE valid == IF job.seen.afterRelease THEN "done" ELSE "seek"
<1>1. G!RequireReleaseTag("finalTag", valid, "seek")
  BY DEF G!FinalTag
<1>2. job \in Job /\ valid \in Pcs /\ "seek" \in Pcs
  BY DEF GateInv, GateTyped, Pcs
<1>3. /\ job.pc = "finalTag" /\ CommitsStay /\ RemoteStays
      /\ \/ GoesTo(IF tag[G!Tag] = job.sha THEN valid ELSE "seek") /\ Served
         \/ GoesTo("seek") /\ Fails
  BY <1>1, <1>2, AsksTag
<1>4. ~G!Over /\ ~(Served /\ Fails)
  BY <1>2, <1>3 DEF G!Over, Served, Fails, Job
<1>5. PICK pc \in {"done", "seek"} : /\ GoesTo(pc) /\ (Served \/ Fails)
                                     /\ pc = "done" => job.seen.afterRelease
                                     /\ Served /\ tag[G!Tag] = job.sha => pc = valid
  BY <1>3, <1>4
<1>6. pc \in Pcs /\ pc # "verify" /\ MovesTo(pc) /\ TagIsKnown' /\ (Orphan => job'.seen.atStart)
  BY <1>5 DEF Pcs, GoesTo, MovesTo, TagIsKnown, Orphan
<1>7. RollsBack'
  <2>1. G!MyRelease' = G!MyRelease /\ job'.pc = pc /\ job'.attempt = 1 /\ job'.faulty \in Nat
    BY <1>3, <1>6, SameView DEF MovesTo, JobStays, GateInv, RollsBack, Job
  <2>2. pc = "done" => \A r \in G!MyRelease : r.fresh
    BY <1>3, <1>5 DEF GateInv, RollsBack
  <2> QED BY <2>1, <2>2 DEF RollsBack, Early
<1>8. ASSUME OnCourse, Served PROVE OnCourse'
  <2>1. Posted /\ (Saw({}) \/ Saw({"afterRelease"})) /\ pc = valid
    BY <1>3, <1>5, <1>8 DEF OnCourse, Posted
  <2>2. IF job.seen.afterRelease THEN Saw({}) ELSE Saw({"afterRelease"})
    BY <2>1, SawEach
  <2>3. Posted' /\ job'.pc = pc /\ job'.seen = job.seen
    BY <1>3, <1>5, <2>1, SameView DEF GoesTo, MovesTo
  <2> QED BY <2>1, <2>2, <2>3 DEF OnCourse, Saw
<1> QED BY <1>3, <1>4, <1>5, <1>6, <1>7, <1>8, LateKeeps

LEMMA SeekKeeps == ASSUME GateInv, G!Seek PROVE GateInv'
<1> DEFINE found == G!MyRelease # {}
<1>1. job \in Job /\ "delete" \in Pcs /\ G!UndoTag \in Pcs /\ "confirm" \in Pcs
  BY DEF GateInv, GateTyped, Pcs, G!UndoTag
<1>2. G!ReleaseState("seek", found, "delete", G!UndoTag, "confirm")
  BY DEF G!Seek
<1>3. /\ job.pc = "seek" /\ CommitsStay /\ RemoteStays
      /\ \/ GoesTo(IF found THEN "delete" ELSE G!UndoTag) /\ Served
         \/ GoesTo("confirm") /\ Fails
  BY <1>1, <1>2, AsksRelease
<1>4. ~G!Over /\ ~(Served /\ Fails) /\ G!UndoTag \in {"tagState", "failed"}
  BY <1>1, <1>3 DEF G!Over, Served, Fails, Job, G!UndoTag
<1>5. PICK pc \in {"delete", "tagState", "failed", "confirm"} :
         /\ GoesTo(pc) /\ (Served \/ Fails)
         /\ found => pc \in {"delete", "confirm"}
         /\ pc = "confirm" => Fails
         /\ Served /\ found => pc = "delete"
  BY <1>3, <1>4
<1>6. pc \in Pcs /\ pc # "verify" /\ MovesTo(pc) /\ TagIsKnown' /\ (Orphan => job'.seen.atStart)
  BY <1>5 DEF Pcs, GoesTo, MovesTo, TagIsKnown, Orphan
<1>7. RollsBack'
  <2>1. G!MyRelease' = G!MyRelease /\ job'.pc = pc /\ job'.attempt = job.attempt
    BY <1>3, <1>6, SameView DEF MovesTo, JobStays
  <2>2. found => job.faulty + 1 >= job.attempt
    BY <1>3 DEF GateInv, RollsBack
  <2>3. /\ job.faulty \in Nat /\ job.attempt \in Nat
        /\ job'.faulty = job.faulty \/ job'.faulty = job.faulty + 1
        /\ pc = "confirm" => job'.faulty = job.faulty + 1
    BY <1>1, <1>5, GateNumbers DEF Job, Served, Fails
  <2> QED BY <1>5, <2>1, <2>2, <2>3 DEF RollsBack, Early
<1>8. ASSUME OnCourse, Served PROVE OnCourse'
  <2>1. Posted /\ Saw({"afterRelease"}) /\ pc = "delete"
    BY <1>3, <1>5, <1>8 DEF OnCourse, Posted
  <2>2. Posted' /\ job'.pc = pc /\ job'.seen = job.seen
    BY <1>3, <1>5, <2>1, SameView DEF GoesTo, MovesTo
  <2> QED BY <2>1, <2>2 DEF OnCourse, Saw
<1> QED BY <1>3, <1>4, <1>5, <1>6, <1>7, <1>8, LateKeeps
LEMMA TagStateKeeps == ASSUME GateInv, G!TagState PROVE GateInv'
<1> DEFINE found == G!ReleasesBy(G!Tag) # {}
<1>1. job \in Job /\ "failed" \in Pcs /\ "tagSha" \in Pcs
  BY DEF GateInv, GateTyped, Pcs
<1>2. G!ReleaseState("tagState", found, "failed", "tagSha", "failed")
  BY DEF G!TagState
<1>3. /\ job.pc = "tagState" /\ CommitsStay /\ RemoteStays
      /\ \/ GoesTo(IF found THEN "failed" ELSE "tagSha") /\ Served
         \/ GoesTo("failed") /\ Fails
  BY <1>1, <1>2, AsksRelease
<1>4. ~G!Over /\ ~(Served /\ Fails)
  BY <1>1, <1>3 DEF G!Over, Served, Fails, Job
<1>5. PICK pc \in {"failed", "tagSha"} : /\ GoesTo(pc) /\ (Served \/ Fails)
                                         /\ pc = "tagSha" => ~found
                                         /\ Served /\ ~found => pc = "tagSha"
  BY <1>3, <1>4
<1>6. pc \in Pcs /\ pc # "verify" /\ MovesTo(pc) /\ (Orphan => job'.seen.atStart)
  BY <1>5 DEF Pcs, GoesTo, MovesTo, Orphan
<1>7. TagIsKnown' /\ RollsBack'
  <2>1. /\ G!MyRelease' = G!MyRelease /\ G!ReleasesBy(G!Tag)' = G!ReleasesBy(G!Tag)
        /\ job'.pc = pc
    BY <1>3, <1>6, SameView DEF MovesTo
  <2>2. G!MyRelease = {}
    BY <1>3 DEF GateInv, RollsBack
  <2> QED BY <1>5, <2>1, <2>2 DEF TagIsKnown, RollsBack, Early
<1>8. ASSUME OnCourse, Served PROVE OnCourse'
  <2>1. Retracted /\ Overtaken /\ job.tagCreated /\ pc = "tagSha"
    BY <1>3, <1>5, <1>8 DEF OnCourse, Retracted
  <2>2. Retracted' /\ job'.pc = pc /\ job'.seen = job.seen /\ job'.tagCreated
    BY <1>3, <1>5, <2>1, SameView DEF GoesTo, MovesTo
  <2> QED BY <2>1, <2>2 DEF OnCourse, Saw, Overtaken
<1> QED BY <1>3, <1>4, <1>5, <1>6, <1>7, <1>8, LateKeeps

LEMMA TagShaKeeps == ASSUME GateInv, G!TagSha PROVE GateInv'
<1>1. job \in Job /\ "dropTag" \in Pcs /\ "failed" \in Pcs
  BY DEF GateInv, GateTyped, Pcs
<1>2. G!RequireReleaseTag("tagSha", "dropTag", "failed")
  BY DEF G!TagSha
<1>3. /\ job.pc = "tagSha" /\ CommitsStay /\ RemoteStays
      /\ \/ GoesTo(IF tag[G!Tag] = job.sha THEN "dropTag" ELSE "failed") /\ Served
         \/ GoesTo("failed") /\ Fails
  BY <1>1, <1>2, AsksTag
<1>4. ~G!Over /\ ~(Served /\ Fails)
  BY <1>1, <1>3 DEF G!Over, Served, Fails, Job
<1>5. PICK pc \in {"failed", "dropTag"} : /\ GoesTo(pc) /\ (Served \/ Fails)
                                          /\ Served /\ tag[G!Tag] = job.sha => pc = "dropTag"
  BY <1>3, <1>4
<1>6. pc \in Pcs /\ pc # "verify" /\ MovesTo(pc) /\ (Orphan => job'.seen.atStart)
  BY <1>5 DEF Pcs, GoesTo, MovesTo, Orphan
<1>7. TagIsKnown' /\ RollsBack'
  <2>1. /\ G!MyRelease' = G!MyRelease /\ G!ReleasesBy(G!Tag)' = G!ReleasesBy(G!Tag)
        /\ job'.pc = pc
    BY <1>3, <1>6, SameView DEF MovesTo
  <2>2. G!MyRelease = {} /\ \A r \in G!ReleasesBy(G!Tag) : r.by = 0
    BY <1>3 DEF GateInv, RollsBack, TagIsKnown
  <2> QED BY <1>5, <2>1, <2>2 DEF TagIsKnown, RollsBack, Early
<1>8. ASSUME OnCourse, Served PROVE OnCourse'
  <2>1. Retracted /\ Overtaken /\ job.tagCreated /\ pc = "dropTag"
    BY <1>3, <1>5, <1>8 DEF OnCourse, Retracted
  <2>2. Retracted' /\ job'.pc = pc /\ job'.seen = job.seen /\ job'.tagCreated
    BY <1>3, <1>5, <2>1, SameView DEF GoesTo, MovesTo
  <2> QED BY <2>1, <2>2 DEF OnCourse, Saw, Overtaken
<1> QED BY <1>3, <1>4, <1>5, <1>6, <1>7, <1>8, LateKeeps

\* The runner dies wherever it is.
LEMMA DieKeeps == ASSUME GateInv, G!Die PROVE GateInv'
<1>1. job \in Job /\ "dead" \in Pcs /\ ~G!Over /\ G!Unanswered(G!At("dead")) /\ RemoteStays
  BY DEF GateInv, GateTyped, Pcs, G!Die, G!remote, RemoteStays
<1>2. MovesTo("dead") /\ Fails /\ CommitsStay /\ job'.seen = job.seen
  BY <1>1, Moves
<1>3. ~Served
  BY <1>1, <1>2 DEF Served, Fails, Job
<1>4. TagIsKnown' /\ RollsBack' /\ (Orphan => job'.seen.atStart)
  BY <1>2 DEF TagIsKnown, RollsBack, MovesTo, Early, Orphan
<1> QED BY <1>1, <1>2, <1>3, <1>4, LateKeeps
-----------------------------------------------------------------------------
(* Requests that change the remote.                                         *)

\* A failed request disturbs a job.
LEMMA FailureDisturbs == ASSUME GateInv, Fails PROVE OnContract'
BY DEF GateInv, GateTyped, Job, Fails, OnContract, Undisturbed

\* A tag or release job that fails before anything is posted.
LEMMA FailsEarly ==
    ASSUME GateInv, job.pc \in Early, RemoteStays, G!Unanswered(G!At("failed"))
    PROVE  GateInv'
<1>1. job \in Job /\ "failed" \in Pcs /\ "failed" # "verify"
  BY DEF GateInv, GateTyped, Pcs
<1>2. MovesTo("failed") /\ Fails /\ CommitsStay /\ job'.seen = job.seen
  BY <1>1, Moves
<1>3. ~Served /\ TagIsKnown' /\ (Orphan => job'.seen.atStart)
  BY <1>1, <1>2 DEF Served, Fails, Job, TagIsKnown, MovesTo, Orphan
<1> QED BY <1>1, <1>2, <1>3, EarlyKeeps

LEMMA RefusedEarly ==
    ASSUME GateInv, job.pc \in Early \ {"verify"}, RemoteStays, G!Answered(G!At("failed")),
           OnCourse => Orphan
    PROVE  GateInv'
<1>1. job \in Job /\ "failed" \in Pcs /\ "failed" # "verify" /\ job.pc \in Early
  BY DEF GateInv, GateTyped, Pcs
<1>2. MovesTo("failed") /\ Served /\ CommitsStay /\ job'.seen = job.seen
  BY <1>1, Moves
<1>3. TagIsKnown' /\ (Orphan => job'.seen.atStart)
  BY <1>2 DEF TagIsKnown, MovesTo, Orphan
<1> QED BY <1>1, <1>2, <1>3, EarlyKeeps

\* git push of the tag that is missing, or is there.
LEMMA PushedKeeps ==
    ASSUME GateInv, job.pc = "push", tag[G!Tag] \in {NoCommit, job.sha},
           tag' = [tag EXCEPT ![G!Tag] = job.sha], UNCHANGED <<touched, releases, lastId>>,
           CommitsStay, job' \in Job, JobStays, job'.id = job.id, job'.seen = job.seen,
           job'.pc \in {"afterTag", "failed"}, Served \/ Fails,
           Served => job'.pc = "afterTag" /\ job'.tagCreated
    PROVE  GateInv'
<1>1. job.pc \in Early /\ job \in Job /\ job.sha \in Commits /\ NoCommit \notin Commits
  BY GateNumbers DEF Early, GateInv, GateTyped, Job
<1>2. job.id = 0 /\ job.attempt = 1 /\ G!MyRelease = {}
  BY <1>1, NoneBeforePost
<1>3. /\ UNCHANGED <<version, ci, main>> /\ job'.sha = job.sha /\ G!Tag' = G!Tag
      /\ G!MyRelease' = {} /\ G!ReleasesBy(G!Tag)' = G!ReleasesBy(G!Tag) /\ G!Tag \in Versions
  BY <1>1, <1>2 DEF CommitsStay, JobStays, G!Tag, G!MyRelease, G!ReleasesBy, GateInv, GateTyped
<1>4. GateTyped' /\ OfItsCommit' /\ Authors'
  BY <1>1, <1>3 DEF GateInv, GateTyped, OfItsCommit, Authors, CommitsStay
<1>5. TagIsKnown' /\ Succeeded' /\ LeftBehind' /\ RollsBack'
  BY <1>2, <1>3 DEF GateInv, TagIsKnown, Succeeded, LeftBehind, RollsBack, G!Over, Early, JobStays
<1>6. G!OwnTagStays'
  <2> SUFFICES ASSUME NEW r \in releases, r.by # 0, r.version \notin touched
               PROVE  tag'[r.version] = r.sha
    BY DEF G!OwnTagStays
  <2>1. tag[r.version] = r.sha /\ r.sha \in Commits /\ r.version \in Versions
    BY DEF GateInv, G!OwnTagStays, GateTyped, Published
  <2> QED BY <1>1, <1>3, <2>1 DEF GateInv, GateTyped
<1>7. OnContract'
  <2>1. CASE Fails
    BY <2>1, FailureDisturbs
  <2>2. CASE Served
    <3> SUFFICES ASSUME Undisturbed' PROVE OnCourse' \/ Orphan'
      BY DEF OnContract
    <3>1. OnCourse \/ Orphan
      BY <2>2 DEF GateInv, OnContract, Undisturbed, Served, JobStays
    <3>2. CASE Orphan
      BY <2>2, <3>2 DEF Orphan, JobStays
    <3>3. CASE OnCourse
      <4>1. AsFound /\ Saw({}) /\ job.existing = NoCommit
        BY <3>3 DEF OnCourse
      <4>2. tag'[G!Tag'] = job.sha
        BY <1>3 DEF GateInv, GateTyped
      <4>3. Tagged'
        BY <1>2, <1>3, <2>2, <4>1, <4>2 DEF AsFound, Tagged, Ownership, JobStays
      <4> QED BY <2>2, <4>1, <4>3 DEF OnCourse, Saw
    <3> QED BY <3>1, <3>2, <3>3
  <2> QED BY <2>1, <2>2
<1> QED BY <1>4, <1>5, <1>6, <1>7 DEF GateInv

LEMMA PushKeeps == ASSUME GateInv, G!Push PROVE GateInv'
<1> DEFINE done == [job EXCEPT !.pc = "afterTag", !.tagCreated = TRUE]
<1>1. job.pc = "push" /\ job.pc \in Early \ {"verify"} /\ job \in Job
      /\ "failed" \in Pcs /\ "afterTag" \in Pcs
  BY DEF G!Push, Early, GateInv, GateTyped, Pcs
<1>2. CASE RemoteStays /\ G!Unanswered(G!At("failed"))
  BY <1>1, <1>2, FailsEarly
<1>3. CASE tag[G!Tag] \notin {NoCommit, job.sha} /\ RemoteStays /\ G!Answered(G!At("failed"))
  <2>1. ~OnCourse
    BY <1>1, <1>3 DEF OnCourse, AsFound
  <2> QED BY <1>1, <1>3, <2>1, RefusedEarly
<1>4. CASE /\ tag[G!Tag] \in {NoCommit, job.sha} /\ tag' = [tag EXCEPT ![G!Tag] = job.sha]
           /\ UNCHANGED <<touched, releases, lastId>>
           /\ G!Unanswered(G!At("failed"))
  <2>1. MovesTo("failed") /\ Fails /\ CommitsStay /\ job'.seen = job.seen
    BY <1>1, <1>4, Moves
  <2>2. ~Served
    BY <1>1, <2>1 DEF Served, Fails, Job
  <2> QED BY <1>1, <1>4, <2>1, <2>2, PushedKeeps DEF MovesTo
<1>5. CASE /\ tag[G!Tag] \in {NoCommit, job.sha} /\ tag' = [tag EXCEPT ![G!Tag] = job.sha]
           /\ UNCHANGED <<touched, releases, lastId>>
           /\ G!Answered(done)
  <2>1. job' = done /\ CommitsStay
    BY <1>5 DEF G!Answered, G!Goes, G!World, CommitsStay
  <2>2. job' \in Job /\ JobStays /\ job'.id = job.id /\ job'.seen = job.seen
        /\ job'.pc = "afterTag" /\ job'.tagCreated /\ Served
    BY <1>1, <2>1 DEF Job, JobStays, Served
  <2> QED BY <1>1, <1>5, <2>1, <2>2, PushedKeeps
<1> QED BY <1>2, <1>3, <1>4, <1>5 DEF G!Push, G!Writes, G!remote, RemoteStays

\* POST of a release of the version that has none.
LEMMA PostedKeeps ==
    ASSUME GateInv, job.pc = "post", G!ReleasesBy(G!Tag) = {}, G!Release(job.sha, jobs),
           UNCHANGED touched, CommitsStay, job' \in Job, JobStays, job'.seen = job.seen,
           job'.tagCreated = job.tagCreated,
           \/ Served /\ job'.pc = "afterRelease" /\ job'.id = lastId + 1
           \/ Fails /\ job'.pc = "failed" /\ job'.id = job.id
    PROVE  GateInv'
<1> DEFINE head == (main = job.sha)
           next == lastId + 1
           new == [id |-> next, version |-> G!Tag, sha |-> job.sha, by |-> jobs, fresh |-> head]
<1>1. /\ job \in Job /\ job.sha \in Commits /\ lastId \in Nat /\ main \in Commits
      /\ G!Tag \in Versions /\ job.pc \in Early /\ NoCommit \notin Commits
      /\ main \in Nat /\ job.sha \in Nat
  BY GateNumbers DEF GateInv, GateTyped, Job, G!Tag, Early
<1>2. job.id = 0 /\ job.attempt = 1 /\ G!MyRelease = {}
  BY <1>1, NoneBeforePost
<1>3. /\ releases' = releases \cup {new} /\ lastId' = lastId + 1
      /\ tag' = [tag EXCEPT ![G!Tag] = IF @ = NoCommit THEN job.sha ELSE @]
      /\ version' = version /\ ci' = ci /\ main' = main
      /\ job'.sha = job.sha /\ job'.held = job.held /\ job'.existing = job.existing
      /\ job'.attempt = 1 /\ job'.met = job.met /\ G!Tag' = G!Tag
  BY <1>2 DEF G!Release, G!Tag, CommitsStay, JobStays
<1>4. /\ new \in Published /\ new.id = lastId + 1 /\ new.version = G!Tag /\ new.sha = job.sha
      /\ new.by = jobs /\ (new.fresh <=> main = job.sha)
  <2>1. next \in Nat \ {0} /\ head \in BOOLEAN /\ jobs \in Nat
    BY <1>1 DEF GateInv, Authors
  <2>2. new.id = lastId + 1 /\ (new.fresh <=> main = job.sha)
    OBVIOUS
  <2> HIDE DEF head, next
  <2> QED BY <1>1, <2>1, <2>2 DEF Published
<1> HIDE DEF new, head, next
<1>5. \A r \in releases : r.id \in Nat /\ r.id <= lastId /\ r \in Published
  BY DEF GateInv, GateTyped, Published
<1>6. GateTyped'
  <2>1. tag' \in [Versions -> Commits \cup {NoCommit}]
    BY <1>1, <1>3 DEF GateInv, GateTyped
  <2>2. \A r \in releases' : r \in Published /\ r.id <= lastId'
    BY <1>1, <1>3, <1>4, <1>5
  <2>3. job'.id <= lastId'
    BY <1>1, <1>2, <1>3
  <2> QED BY <1>1, <1>3, <2>1, <2>2, <2>3 DEF GateInv, GateTyped
<1>7. OfItsCommit'
  BY <1>3, <1>4 DEF GateInv, OfItsCommit, G!Tag
<1>8. TagIsKnown'
  BY DEF TagIsKnown
<1>9. G!OwnTagStays'
  <2> SUFFICES ASSUME NEW r \in releases', r.by # 0, r.version \notin touched
               PROVE  tag'[r.version] = r.sha
    BY DEF G!OwnTagStays
  <2>1. CASE r = new
    <3>1. tag[G!Tag] = job.sha
      BY <1>4, <2>1 DEF GateInv, TagIsKnown
    <3> QED BY <1>1, <1>3, <1>4, <2>1, <3>1 DEF GateInv, GateTyped
  <2>2. CASE r \in releases
    <3>1. tag[r.version] = r.sha /\ r.sha \in Commits /\ r.version \in Versions
      BY <2>2 DEF GateInv, G!OwnTagStays, GateTyped, Published
    <3> QED BY <1>1, <1>3, <3>1 DEF GateInv, GateTyped
  <2> QED BY <1>3, <2>1, <2>2
<1>10. Succeeded'
  BY <1>1, <1>3, <1>4 DEF GateInv, Succeeded, G!Over, Early
<1>11. /\ job'.id = lastId + 1 => G!MyRelease' = {new}
       /\ job'.id = 0 => G!MyRelease' = {}
  BY <1>1, <1>3, <1>4, <1>5 DEF G!MyRelease, Published
<1>12. LeftBehind'
  <2>1. job.sha <= main
    BY DEF GateInv, LeftBehind
  <2>2. new.fresh \/ job.sha < main
    BY <1>1, <1>4, <2>1
  <2> QED BY <1>2, <1>3, <1>11, <2>1, <2>2 DEF LeftBehind
<1>13. RollsBack'
  BY <1>2, <1>3, <1>11 DEF RollsBack, Early
<1>15. Authors'
  <2>1. \A r \in releases : r.by # 0 => r.by <= jobs /\ r.by # jobs
    BY <1>2, <1>5 DEF GateInv, Authors, Published
  <2>2. jobs' = jobs /\ jobs \in Nat /\ job.faulty \in Nat
    BY <1>1 DEF GateInv, Authors, CommitsStay, Job
  <2>3. \/ job'.id = lastId + 1
        \/ job'.id = 0 /\ job'.pc = "failed" /\ job'.faulty >= 1
    BY <1>2, <2>2 DEF Fails
  <2> QED BY <1>3, <1>4, <2>1, <2>2, <2>3 DEF Authors
<1>14. OnContract'
  <2>1. CASE Fails
    BY <2>1, FailureDisturbs
  <2>2. CASE Served /\ job'.pc = "afterRelease" /\ job'.id = lastId + 1
    <3> SUFFICES ASSUME Undisturbed' PROVE OnCourse' \/ Orphan'
      BY DEF OnContract
    <3>1. OnCourse \/ Orphan
      BY <1>3, <2>2 DEF GateInv, OnContract, Undisturbed, Served
    <3>2. CASE Orphan
      BY <1>3, <2>2, <3>2 DEF Orphan
    <3>3. CASE OnCourse
      <4>1. Tagged /\ Saw({}) /\ ~job.held
        BY <3>3 DEF OnCourse
      <4>2. tag'[G!Tag] = job.sha
        BY <1>1, <1>3, <4>1 DEF Tagged, GateInv, GateTyped
      <4>3. G!ReleasesBy(G!Tag)' = {new}
        BY <1>3, <1>4 DEF G!ReleasesBy
      <4>4. Posted'
        BY <1>3, <1>11, <2>2, <4>1, <4>2, <4>3 DEF Posted, Tagged, Ownership
      <4> QED BY <2>2, <4>1, <4>4 DEF OnCourse, Saw
    <3> QED BY <3>1, <3>2, <3>3
  <2> QED BY <2>1, <2>2
<1> QED BY <1>6, <1>7, <1>8, <1>9, <1>10, <1>12, <1>13, <1>14, <1>15 DEF GateInv

LEMMA PostKeeps == ASSUME GateInv, G!Post PROVE GateInv'
<1> DEFINE next == lastId + 1
           done == [job EXCEPT !.pc = "afterRelease", !.id = next]
<1>1. job.pc = "post" /\ job.pc \in Early \ {"verify"} /\ job \in Job /\ lastId \in Nat
      /\ "failed" \in Pcs /\ "afterRelease" \in Pcs
  BY DEF G!Post, Early, GateInv, GateTyped, Pcs
<1>2. CASE RemoteStays /\ G!Unanswered(G!At("failed"))
  BY <1>1, <1>2, FailsEarly
<1>3. CASE G!ReleasesBy(G!Tag) # {} /\ RemoteStays /\ G!Answered(G!At("failed"))
  <2>1. ~OnCourse
    BY <1>1, <1>3 DEF OnCourse, Tagged
  <2> QED BY <1>1, <1>3, <2>1, RefusedEarly
<1>4. CASE /\ G!ReleasesBy(G!Tag) = {} /\ G!Release(job.sha, jobs) /\ UNCHANGED touched
           /\ G!Unanswered(G!At("failed"))
  <2>1. MovesTo("failed") /\ Fails /\ CommitsStay /\ job'.seen = job.seen
    BY <1>1, <1>4, Moves
  <2> QED BY <1>1, <1>4, <2>1, PostedKeeps DEF MovesTo
<1>5. CASE /\ G!ReleasesBy(G!Tag) = {} /\ G!Release(job.sha, jobs) /\ UNCHANGED touched
           /\ G!Answered(done)
  <2>1. job' = done /\ CommitsStay
    BY <1>5 DEF G!Answered, G!Goes, G!World, CommitsStay
  <2>2. job' \in Job /\ JobStays /\ job'.id = lastId + 1 /\ job'.seen = job.seen
        /\ job'.pc = "afterRelease" /\ job'.tagCreated = job.tagCreated /\ Served
    <3>1. next \in Nat
      BY <1>1
    <3> HIDE DEF next
    <3>2. job' \in Job /\ job'.id = next
      BY <1>1, <2>1, <3>1 DEF Job
    <3>3. job'.id = lastId + 1
      BY <3>2 DEF next
    <3> QED BY <1>1, <2>1, <3>2, <3>3 DEF Job, JobStays, Served
  <2> QED BY <1>1, <1>5, <2>1, <2>2, PostedKeeps
<1> QED BY <1>2, <1>3, <1>4, <1>5 DEF G!Post, G!Writes, G!remote, RemoteStays

\* DELETE of the release: whether or not it is done, the job asks next.
LEMMA DeleteKeeps == ASSUME GateInv, G!Delete PROVE GateInv'
<1>1. job \in Job /\ "confirm" \in Pcs /\ job.pc = "delete" /\ ~G!Over
  BY DEF GateInv, GateTyped, Pcs, G!Delete, G!Over
<1>2. /\ MovesTo("confirm") /\ CommitsStay /\ job'.seen = job.seen
      /\ \/ Served /\ releases' = releases \ G!MyRelease /\ UNCHANGED <<tag, touched, lastId>>
         \/ Fails /\ releases' = releases \ G!MyRelease /\ UNCHANGED <<tag, touched, lastId>>
         \/ Fails /\ RemoteStays
  BY <1>1, Moves DEF G!Delete, G!Writes, G!remote, RemoteStays
<1>3. CASE Fails /\ RemoteStays
  <2>1. TagIsKnown' /\ (Orphan => job'.seen.atStart) /\ ~Served
    BY <1>1, <1>2, <1>3 DEF TagIsKnown, MovesTo, Orphan, Served, Fails, Job
  <2>2. RollsBack'
    <3>1. G!MyRelease' = G!MyRelease /\ job'.pc = "confirm" /\ job'.attempt = job.attempt
      BY <1>2, <1>3, SameView DEF MovesTo, JobStays
    <3>2. G!MyRelease # {} => job.faulty + 1 >= job.attempt
      BY <1>1 DEF GateInv, RollsBack
    <3> QED BY <1>3, <3>1, <3>2 DEF RollsBack, Early, Fails
  <2> QED BY <1>1, <1>2, <1>3, <2>1, <2>2, LateKeeps
<1>4. CASE /\ Served \/ Fails
           /\ releases' = releases \ G!MyRelease /\ UNCHANGED <<tag, touched, lastId>>
  <2>1. /\ job' \in Job /\ job'.sha = job.sha /\ job'.id = job.id /\ job'.pc = "confirm"
        /\ job'.held = job.held /\ job'.existing = job.existing /\ job'.met = job.met
        /\ job'.tagCreated = job.tagCreated /\ UNCHANGED <<version, ci, main>> /\ G!Tag' = G!Tag
    BY <1>2 DEF MovesTo, JobStays, CommitsStay, G!Tag
  <2>2. G!MyRelease' = {}
    BY <1>4, <2>1 DEF G!MyRelease
  <2>3. releases' \subseteq releases
    BY <1>4
  <2>4. GateTyped' /\ OfItsCommit' /\ TagIsKnown' /\ G!OwnTagStays' /\ Authors'
    BY <1>1, <1>2, <1>4, <2>1, <2>3
       DEF GateInv, GateTyped, OfItsCommit, TagIsKnown, G!OwnTagStays, Authors, CommitsStay
  <2>5. Succeeded' /\ LeftBehind' /\ RollsBack'
    BY <1>1, <2>1, <2>2, <2>3 DEF GateInv, Succeeded, LeftBehind, RollsBack, G!Over, Early
  <2>6. OnContract'
    <3>1. ASSUME OnCourse, Served PROVE OnCourse'
      <4>1. Posted /\ Saw({"afterRelease"})
        BY <1>1, <3>1 DEF OnCourse
      <4>2. G!ReleasesBy(G!Tag)' = {}
        BY <1>4, <2>1, <4>1 DEF Posted, G!ReleasesBy
      <4>3. Retracted'
        BY <1>4, <2>1, <2>2, <4>1, <4>2 DEF Posted, Retracted, Ownership
      <4> QED BY <1>2, <2>1, <4>1, <4>3 DEF OnCourse, Saw
    <3>2. GateTyped /\ OnContract /\ (Orphan => job'.seen.atStart)
      BY <1>2 DEF GateInv, Orphan
    <3> QED BY <1>2, <1>4, <3>1, <3>2, CourseKeeps
  <2> QED BY <2>4, <2>5, <2>6 DEF GateInv
<1> QED BY <1>2, <1>3, <1>4

\* Another round of the deletion, or the last.
LEMMA Rounds ==
    ASSUME job \in Job
    PROVE  /\ G!NextRound(job) \in Job
           /\ G!NextRound(job).seen = job.seen /\ G!NextRound(job).sha = job.sha
           /\ G!NextRound(job).id = job.id /\ G!NextRound(job).met = job.met
           /\ G!NextRound(job).faulty = job.faulty
           /\ G!NextRound(job).existing = job.existing /\ G!NextRound(job).held = job.held
           /\ G!NextRound(job).tagCreated = job.tagCreated
           /\ \/ /\ G!NextRound(job).pc = "seek" /\ G!NextRound(job).attempt = job.attempt + 1
              \/ /\ G!NextRound(job).pc = "failed" /\ G!NextRound(job).attempt = job.attempt
                 /\ job.attempt >= Attempts
<1>1. job.attempt \in 1..Attempts /\ Attempts \in Nat /\ "seek" \in Pcs /\ "failed" \in Pcs
  BY GateNumbers DEF Job, Pcs
<1>2. CASE job.attempt < Attempts
  <2>1. job.attempt + 1 \in 1..Attempts
    BY <1>1, <1>2
  <2> QED BY <1>1, <1>2, <2>1 DEF G!NextRound, Job
<1>3. CASE ~(job.attempt < Attempts)
  <2>1. job.attempt >= Attempts
    BY <1>1, <1>3
  <2> QED BY <1>1, <1>3, <2>1 DEF G!NextRound, Job
<1> QED BY <1>2, <1>3

\* The answer is that the release is gone, or is not, or there is no answer.
LEMMA ConfirmKeeps == ASSUME GateInv, G!Confirm PROVE GateInv'
<1> DEFINE next == G!NextRound(job)
<1>1. job \in Job /\ G!UndoTag \in Pcs /\ G!UndoTag \in {"tagState", "failed"}
      /\ job.pc = "confirm" /\ ~G!Over /\ RemoteStays
      /\ job.attempt \in Nat /\ job.faulty \in Nat /\ Attempts \in Nat
  BY GateNumbers DEF GateInv, GateTyped, Pcs, G!Confirm, G!Over, G!UndoTag, G!remote, RemoteStays, Job
<1>2. CASE G!MyRelease = {} /\ G!Answered(G!At(G!UndoTag))
  <2>1. MovesTo(G!UndoTag) /\ Served /\ CommitsStay /\ job'.seen = job.seen
    BY <1>1, <1>2, Moves
  <2>2. G!UndoTag # "verify" /\ TagIsKnown' /\ (Orphan => job'.seen.atStart)
    BY <1>1, <2>1 DEF TagIsKnown, MovesTo, Orphan
  <2>3. G!MyRelease' = {}
    BY <1>1, <1>2, <2>1, SameView
  <2>4. RollsBack'
    BY <1>1, <2>1, <2>3 DEF RollsBack, Early, MovesTo
  <2>5. ASSUME OnCourse PROVE OnCourse'
    <3>1. Retracted' /\ Saw({"afterRelease"})
      BY <1>1, <2>1, <2>5, SameView DEF OnCourse
    <3>2. job'.pc = G!UndoTag /\ job'.tagCreated = job.tagCreated
      BY <2>1 DEF MovesTo
    <3> QED BY <1>1, <2>1, <3>1, <3>2 DEF OnCourse, Saw, Overtaken, G!UndoTag
  <2> QED BY <1>1, <2>1, <2>2, <2>4, <2>5, LateKeeps
<1>3. ASSUME job'.seen = next.seen, job' \in Job, job'.sha = next.sha, job'.id = next.id,
             job'.pc = next.pc, job'.attempt = next.attempt, CommitsStay, OnContract',
             job'.faulty \in Nat, G!MyRelease # {} => job'.faulty >= job.attempt
      PROVE  GateInv'
  <2>1. /\ job'.sha = job.sha /\ job'.id = job.id
        /\ \/ job'.pc = "seek" /\ job'.attempt = job.attempt + 1
           \/ job'.pc = "failed" /\ job'.attempt = job.attempt /\ job.attempt >= Attempts
    BY <1>1, <1>3, Rounds
  <2>2. G!MyRelease' = G!MyRelease
    BY <1>1, <2>1 DEF G!MyRelease, RemoteStays
  <2>3. TagIsKnown'
    BY <2>1 DEF TagIsKnown
  <2>4. RollsBack'
    BY <1>1, <1>3, <2>1, <2>2 DEF RollsBack, Early
  <2> QED BY <1>1, <1>3, <2>1, <2>3, <2>4, QueryKeeps
<1>4. CASE G!MyRelease # {} /\ G!Answered(next)
  <2>1. job' = next /\ CommitsStay
    BY <1>4 DEF G!Answered, G!Goes, G!World, CommitsStay
  <2>2. G!MyRelease # {} => job.faulty >= job.attempt
    BY <1>1 DEF GateInv, RollsBack
  <2>3. job'.faulty = job.faulty /\ job' \in Job
    BY <1>1, <2>1, Rounds
  <2>4. ~Undisturbed'
    BY <1>1, <1>4, <2>2, <2>3, GateNumbers DEF Undisturbed, Job
  <2> HIDE DEF next
  <2> QED BY <1>1, <1>3, <2>1, <2>2, <2>3, <2>4 DEF OnContract
<1>5. CASE G!Unanswered(next)
  <2>1. job' = [next EXCEPT !.faulty = @ + 1] /\ CommitsStay
    BY <1>5 DEF G!Unanswered, G!Goes, G!World, CommitsStay
  <2>2. next \in Job /\ next.faulty = job.faulty
    BY <1>1, Rounds
  <2> HIDE DEF next
  <2>3. /\ job' \in Job /\ job'.seen = next.seen /\ job'.sha = next.sha /\ job'.id = next.id
        /\ job'.pc = next.pc /\ job'.attempt = next.attempt /\ job'.faulty = job.faulty + 1
    BY <2>1, <2>2 DEF Job
  <2>4. G!MyRelease # {} => job.faulty >= job.attempt
    BY <1>1 DEF GateInv, RollsBack
  <2>5. G!MyRelease # {} => job'.faulty >= job.attempt
    BY <1>1, <2>3, <2>4
  <2>6. OnContract' /\ job'.faulty \in Nat
    BY <1>1, <2>3, FailureDisturbs DEF Fails
  <2> QED BY <1>3, <2>1, <2>3, <2>5, <2>6
<1> QED
  <2>1. G!Answered(IF G!MyRelease = {} THEN G!At(G!UndoTag) ELSE next) \/ G!Unanswered(next)
    BY DEF G!Confirm
  <2> HIDE DEF next
  <2> QED BY <1>2, <1>4, <1>5, <2>1

\* The tag of the job is deleted, or is not.
LEMMA DropTagKeeps == ASSUME GateInv, G!DropTag PROVE GateInv'
<1>1. job \in Job /\ "failed" \in Pcs /\ job.pc = "dropTag" /\ ~G!Over /\ NoCommit \notin Commits
      /\ G!Tag \in Versions
  BY GateNumbers DEF GateInv, GateTyped, Pcs, G!DropTag, G!Over, G!Tag, Job
<1>2. /\ MovesTo("failed") /\ CommitsStay /\ job'.seen = job.seen /\ (Served \/ Fails)
      /\ \/ tag' = [tag EXCEPT ![G!Tag] = NoCommit] /\ UNCHANGED <<touched, releases, lastId>>
         \/ Fails /\ RemoteStays
  BY <1>1, Moves DEF G!DropTag, G!Writes, G!remote, RemoteStays
<1>3. G!MyRelease = {} /\ \A r \in G!ReleasesBy(G!Tag) : r.by = 0
  BY <1>1 DEF GateInv, RollsBack, TagIsKnown
<1>4. CASE Fails /\ RemoteStays
  <2>1. TagIsKnown' /\ (Orphan => job'.seen.atStart) /\ ~Served
    BY <1>1, <1>2, <1>4 DEF TagIsKnown, MovesTo, Orphan, Served, Fails, Job
  <2>2. G!MyRelease' = {}
    BY <1>2, <1>3, <1>4, SameView
  <2>3. RollsBack'
    BY <1>2, <2>2 DEF RollsBack, Early, MovesTo
  <2> QED BY <1>1, <1>2, <1>4, <2>1, <2>3, LateKeeps
<1>5. CASE tag' = [tag EXCEPT ![G!Tag] = NoCommit] /\ UNCHANGED <<touched, releases, lastId>>
  <2>1. /\ job' \in Job /\ job'.sha = job.sha /\ job'.id = job.id /\ job'.pc = "failed"
        /\ job'.held = job.held /\ job'.existing = job.existing /\ job'.met = job.met
        /\ job'.tagCreated = job.tagCreated /\ UNCHANGED <<version, ci, main>> /\ G!Tag' = G!Tag
        /\ G!MyRelease' = {}
    BY <1>2, <1>3, <1>5 DEF MovesTo, JobStays, CommitsStay, G!Tag, G!MyRelease
  <2>2. GateTyped' /\ OfItsCommit' /\ TagIsKnown' /\ Authors'
    BY <1>1, <1>2, <1>5, <2>1
       DEF GateInv, GateTyped, OfItsCommit, TagIsKnown, Authors, CommitsStay
  <2>3. G!OwnTagStays'
    <3> SUFFICES ASSUME NEW r \in releases, r.by # 0, r.version \notin touched
                 PROVE  tag'[r.version] = r.sha
      BY <1>5 DEF G!OwnTagStays
    <3>1. r.version # G!Tag
      BY <1>3 DEF G!ReleasesBy
    <3>2. tag[r.version] = r.sha /\ r.version \in Versions
      BY DEF GateInv, G!OwnTagStays, GateTyped, Published
    <3> QED BY <1>1, <1>5, <3>1, <3>2 DEF GateInv, GateTyped
  <2>4. Succeeded' /\ LeftBehind' /\ RollsBack'
    BY <1>5, <2>1 DEF GateInv, Succeeded, LeftBehind, RollsBack, G!Over, Early
  <2>5. OnContract'
    <3>1. ASSUME OnCourse PROVE OnCourse'
      <4>1. Retracted /\ Overtaken /\ job.tagCreated
        BY <1>1, <3>1 DEF OnCourse
      <4>2. tag'[G!Tag'] = NoCommit
        BY <1>1, <1>5, <2>1 DEF GateInv, GateTyped
      <4>3. Undone'
        BY <2>1, <4>1, <4>2 DEF Retracted, Undone, Ownership
      <4>4. Overtaken'
        BY <1>2, <4>1 DEF Overtaken, Saw
      <4> QED BY <2>1, <4>3, <4>4 DEF OnCourse
    <3>2. GateTyped /\ OnContract /\ (Orphan => job'.seen.atStart)
      BY <1>2 DEF GateInv, Orphan
    <3> QED BY <1>2, <3>1, <3>2, CourseKeeps
  <2> QED BY <2>2, <2>3, <2>4, <2>5 DEF GateInv
<1> QED BY <1>2, <1>4, <1>5

-----------------------------------------------------------------------------
(* Everything that is not a request of the job.                             *)

\* A job starts from CI of a push to main that succeeded.
LEMMA StartKeeps == ASSUME GateInv, G!Start PROVE GateInv'
<1>1. PICK e \in G!Events : G!isEligible(e, "ours") /\ job' = G!NewJob(e.headSha)
  BY DEF G!Start
<1>2. /\ e.headSha \in Commits /\ e.headSha <= main /\ ci[e.headSha] = "success"
  BY <1>1 DEF G!Events, G!isEligible
<1>3. UNCHANGED <<version, ci, main, tag, touched, releases, lastId>>
  BY DEF G!Start, G!remote
<1>4. /\ job'.pc = "verify" /\ job'.sha = e.headSha /\ job'.existing = tag[version[e.headSha]]
      /\ job'.tagCreated = FALSE /\ job'.id = 0 /\ job'.attempt = 1 /\ job'.seen = G!NothingSeen
      /\ job'.held = (\E r \in releases : r.version = version[e.headSha])
      /\ job'.faulty = 0 /\ job'.met = FALSE
  BY <1>1 DEF G!NewJob
<1>5. job' \in Job
  <2> DEFINE held == \E r \in releases : r.version = version[e.headSha]
             existing == tag[version[e.headSha]]
  <2>1. existing \in Commits \cup {NoCommit}
    BY <1>2 DEF GateInv, GateTyped
  <2>2. 1 \in 1..Attempts
    BY GateNumbers
  <2>3. "verify" \in Pcs /\ G!NothingSeen \in [G!Looks -> BOOLEAN] /\ held \in BOOLEAN
    BY DEF Pcs, G!NothingSeen
  <2>4. job' = [pc |-> "verify", sha |-> e.headSha, existing |-> existing, tagCreated |-> FALSE,
                id |-> 0, attempt |-> 1, seen |-> G!NothingSeen, held |-> held,
                faulty |-> 0, met |-> FALSE]
    BY <1>1, Zenon DEF G!NewJob
  <2> HIDE DEF held, existing
  <2> QED BY <1>2, <2>1, <2>2, <2>3, <2>4 DEF Job
<1>6. GateTyped' /\ OfItsCommit' /\ G!OwnTagStays'
  BY <1>3, <1>4, <1>5 DEF GateInv, GateTyped, OfItsCommit, G!OwnTagStays
<1>10. Authors'
  <2>1. jobs' = jobs + 1
    BY DEF G!Start
  <2> QED BY <1>3, <2>1 DEF GateInv, Authors, GateTyped, Published
<1>7. G!MyRelease' = {}
  BY <1>4, <1>6 DEF G!MyRelease, GateTyped, Published
<1>8. TagIsKnown' /\ Succeeded' /\ LeftBehind' /\ RollsBack'
  BY <1>2, <1>3, <1>4, <1>7
     DEF GateInv, TagIsKnown, Succeeded, LeftBehind, RollsBack, Early
<1>9. OnCourse'
  <2>1. AsFound'
    BY <1>3, <1>4 DEF AsFound, G!Tag, G!ReleasesBy
  <2>2. Saw({})'
    BY <1>4 DEF Saw, G!NothingSeen
  <2> QED BY <1>4, <2>1, <2>2 DEF OnCourse
<1> QED BY <1>6, <1>8, <1>9, <1>10 DEF GateInv, OnContract

\* A commit is pushed to main.
LEMMA MoveMainKeeps == ASSUME GateInv, G!MoveMain PROVE GateInv'
<1>1. /\ UNCHANGED <<version, ci, tag, touched, releases, lastId, job, jobs>>
      /\ main' = main + 1 /\ main' \in Commits
  BY DEF G!MoveMain, G!remote
<1>2. main \in Nat /\ job.sha \in Nat
  BY GateNumbers DEF GateInv, GateTyped, Job
<1>3. /\ G!Tag' = G!Tag /\ G!MyRelease' = G!MyRelease /\ (G!Over' <=> G!Over)
      /\ G!ReleasesBy(G!Tag)' = G!ReleasesBy(G!Tag)
  BY <1>1 DEF G!Tag, G!MyRelease, G!ReleasesBy, G!Over
<1>4. LeftBehind'
  <2>1. job.sha <= main /\ job.sha < main + 1
    BY <1>2 DEF GateInv, LeftBehind
  <2> QED BY <1>1, <1>2, <2>1 DEF LeftBehind
<1>5. GateTyped' /\ OfItsCommit' /\ TagIsKnown' /\ G!OwnTagStays' /\ Succeeded' /\ RollsBack'
      /\ Authors'
  BY <1>1, <1>3
     DEF Authors, GateInv, GateTyped, OfItsCommit, TagIsKnown, G!OwnTagStays, Succeeded, RollsBack
<1>6. OnContract'
  BY <1>1, <1>3 DEF GateInv, OnContract, Undisturbed, Orphan, OnCourse, AsFound, Tagged, Posted,
                    Retracted, Undone, Ownership, Overtaken, Refused, Saw
<1> QED BY <1>4, <1>5, <1>6 DEF GateInv

\* What another maintainer does to a release or to a tag, which is then touched.
LEMMA OthersKeep ==
    ASSUME GateInv, CommitsStay, job' = [job EXCEPT !.met = TRUE],
           lastId' \in Nat, lastId <= lastId',
           tag' \in [Versions -> Commits \cup {NoCommit}], touched \subseteq touched',
           \A v \in Versions : tag'[v] = tag[v] \/ v \in touched',
           \A r \in releases' : \/ r \in releases
                                \/ /\ r \in Published /\ r.id = lastId + 1 /\ r.id <= lastId'
                                   /\ r.version = version[r.sha] /\ r.by = 0
    PROVE  GateInv'
<1> USE DEF CommitsStay
<1>1. /\ job \in Job /\ job' \in Job /\ job'.sha = job.sha /\ job'.id = job.id
      /\ job'.pc = job.pc /\ job'.attempt = job.attempt /\ job'.faulty = job.faulty
      /\ job'.seen = job.seen /\ job'.met
  BY DEF GateInv, GateTyped, Job
<1>2. /\ job.id <= lastId /\ job.id \in Nat /\ lastId \in Nat
      /\ \A r \in releases : r \in Published /\ r.id \in Nat /\ r.id <= lastId
  BY DEF GateInv, GateTyped, Job, Published
<1>3. GateTyped'
  <2>1. \A r \in releases' : r \in Published /\ r.id <= lastId'
    BY <1>2
  <2>2. job'.id <= lastId'
    BY <1>1, <1>2
  <2> QED BY <1>1, <2>1, <2>2 DEF GateInv, GateTyped
<1>4. OfItsCommit' /\ Authors'
  BY <1>1 DEF GateInv, OfItsCommit, Authors
<1>5. G!Tag' = G!Tag /\ G!Tag \in Versions
  BY <1>1 DEF G!Tag, GateInv, GateTyped, Job
<1>6. TagIsKnown'
  BY <1>1, <1>5 DEF GateInv, TagIsKnown, G!ReleasesBy
<1>7. G!OwnTagStays'
  BY <1>2 DEF GateInv, G!OwnTagStays, Published
<1>8. G!MyRelease' \subseteq G!MyRelease
  BY <1>1, <1>2 DEF G!MyRelease
<1>9. Succeeded' /\ LeftBehind' /\ RollsBack'
  BY <1>1, <1>8 DEF GateInv, Succeeded, LeftBehind, RollsBack, G!Over
<1>10. OnContract'
  BY <1>1 DEF OnContract, Undisturbed
<1> QED BY <1>3, <1>4, <1>6, <1>7, <1>9, <1>10 DEF GateInv

LEMMA MaintainerKeeps == ASSUME GateInv, G!Maintainer PROVE GateInv'
<1>1. /\ CommitsStay /\ job' = [job EXCEPT !.met = TRUE]
      /\ lastId \in Nat /\ tag \in [Versions -> Commits \cup {NoCommit}] /\ main \in Commits
      /\ version[main] \in Versions
  BY DEF CommitsStay, G!Maintainer, GateInv, GateTyped
<1>2. ASSUME NEW v \in Versions, NEW c \in (1..main) \cup {NoCommit},
             tag' = [tag EXCEPT ![v] = c], touched' = touched \cup {v}, UNCHANGED <<releases, lastId>>
      PROVE  GateInv'
  <2>1. c \in Commits \cup {NoCommit}
    BY <1>1, GateNumbers
  <2>2. /\ tag' \in [Versions -> Commits \cup {NoCommit}]
        /\ \A w \in Versions : tag'[w] = tag[w] \/ w \in touched'
    BY <1>1, <1>2, <2>1
  <2>3. lastId' \in Nat /\ lastId <= lastId' /\ touched \subseteq touched'
    BY <1>1, <1>2
  <2> QED BY <1>1, <1>2, <2>2, <2>3, OthersKeep
<1>3. ASSUME G!Release(main, 0), touched' = touched \cup {version[main]}
      PROVE  GateInv'
  <2> DEFINE head == (main = main)
             next == lastId + 1
             new == [id |-> next, version |-> version[main], sha |-> main, by |-> 0,
                     fresh |-> head]
  <2>1. /\ releases' = releases \cup {new} /\ lastId' = lastId + 1
        /\ tag' = [tag EXCEPT ![version[main]] = IF @ = NoCommit THEN main ELSE @]
    BY <1>3 DEF G!Release
  <2>2. /\ new \in Published /\ new.id = lastId + 1 /\ new.version = version[new.sha] /\ new.by = 0
    <3>1. next \in Nat \ {0} /\ head \in BOOLEAN /\ next = lastId + 1
      BY <1>1
    <3> HIDE DEF next, head
    <3> QED BY <1>1, <3>1 DEF Published
  <2> HIDE DEF new
  <2>3. /\ tag' \in [Versions -> Commits \cup {NoCommit}]
        /\ \A w \in Versions : tag'[w] = tag[w] \/ w \in touched'
    BY <1>1, <1>3, <2>1
  <2>4. lastId' \in Nat /\ lastId <= lastId' /\ touched \subseteq touched' /\ new.id <= lastId'
    BY <1>1, <1>3, <2>1, <2>2
  <2> QED BY <1>1, <2>1, <2>2, <2>3, <2>4, OthersKeep
<1>4. ASSUME NEW r \in releases, releases' = releases \ {r}, UNCHANGED <<tag, touched, lastId>>
      PROVE  GateInv'
  <2>1. lastId' \in Nat /\ lastId <= lastId' /\ touched \subseteq touched'
    BY <1>1, <1>4
  <2> QED BY <1>1, <1>4, <2>1, OthersKeep
<1> QED BY <1>2, <1>3, <1>4 DEF G!Maintainer

-----------------------------------------------------------------------------
(* The job, and the parts that run beside it.                               *)

LEMMA GateStep == ASSUME GateInv, [G!Next]_gateVars PROVE GateInv'
<1>1. CASE UNCHANGED gateVars
  BY <1>1 DEF gateVars, GateInv, GateTyped, OfItsCommit, Authors, TagIsKnown, G!OwnTagStays, Succeeded,
              LeftBehind, RollsBack, OnContract, Undisturbed, Orphan, OnCourse, AsFound, Tagged,
              Posted, Retracted, Undone, Ownership, Overtaken, Refused, Saw, G!Tag, G!MyRelease,
              G!ReleasesBy, G!Over
<1>2. CASE G!JobStep
  BY <1>2, VerifyKeeps, BeforeTagKeeps, PushKeeps, AfterTagKeeps, CheckTagKeeps, LookupKeeps,
     BeforeReleaseKeeps, RecheckTagKeeps, PostKeeps, AfterReleaseKeeps, FinalTagKeeps, SeekKeeps,
     DeleteKeeps, ConfirmKeeps, TagStateKeeps, TagShaKeeps, DropTagKeeps, DieKeeps DEF G!JobStep
<1>3. CASE G!Start \/ G!MoveMain \/ G!Maintainer
  BY <1>3, StartKeeps, MoveMainKeeps, MaintainerKeeps
<1> QED BY <1>1, <1>2, <1>3 DEF G!Next

LEMMA GateStarts == Init => GateInv
<1> SUFFICES ASSUME G!Init PROVE GateInv
  BY DEF Init
<1> DEFINE first == G!NewJob(1)
           held == \E r \in releases : r.version = version[1]
           existing == tag[version[1]]
<1>1. /\ version \in [Commits -> Versions] /\ ci \in [Commits -> {"success", "failure"}]
      /\ main = 1 /\ tag = [v \in Versions |-> NoCommit] /\ releases = {} /\ lastId = 0
      /\ job = [first EXCEPT !.pc = "dead"] /\ jobs = 0
  BY DEF G!Init
<1>2. 1 \in Commits /\ 1 \in 1..Attempts
  BY GateNumbers
<1>3. existing = NoCommit /\ held \in BOOLEAN /\ "dead" \in Pcs /\ "verify" \in Pcs
      /\ G!NothingSeen \in [G!Looks -> BOOLEAN]
  BY <1>1, <1>2 DEF Pcs, G!NothingSeen
<1>4. first = [pc |-> "verify", sha |-> 1, existing |-> existing, tagCreated |-> FALSE,
               id |-> 0, attempt |-> 1, seen |-> G!NothingSeen, held |-> held,
               faulty |-> 0, met |-> FALSE]
  BY Zenon DEF G!NewJob
<1> HIDE DEF first, held, existing
<1>5. first \in Job /\ first.sha = 1 /\ first.id = 0
  BY <1>2, <1>3, <1>4 DEF Job
<1>6. job \in Job /\ job.sha = 1 /\ job.id = 0 /\ job.pc = "dead"
  BY <1>1, <1>3, <1>5 DEF Job
<1>7. GateTyped
  BY <1>1, <1>2, <1>6 DEF GateTyped
<1> QED BY <1>1, <1>6, <1>7
        DEF GateInv, OfItsCommit, Authors, TagIsKnown, G!OwnTagStays, Succeeded, LeftBehind, RollsBack,
            OnContract, OnCourse, G!MyRelease, G!Over, Early

LEMMA GateAlways == Spec => []GateInv
<1>1. GateInv /\ [Next]_vars => GateInv'
  BY GateStep DEF Next, vars, gateVars
<1> QED BY GateStarts, <1>1, PTL DEF Spec

-----------------------------------------------------------------------------
(* What the project says of the release job.                                *)

\* The release of a job that is over is one it may keep, one whose deletion
\* failed in every round, or one whose id the job never learned.
LEMMA StaleIsKnown == GateInv => G!StaleIsTakenBack
<1> SUFFICES ASSUME GateInv, NEW r \in releases, r.by # 0
             PROVE  /\ ci[r.sha] = "success"
                    /\ (r.by = jobs /\ ~r.fresh /\ G!Over) => job.pc = "dead" \/ G!NotTakenBack(r)
  BY DEF G!StaleIsTakenBack
<1>1. ci[r.sha] = "success"
  BY DEF GateInv, Succeeded
<1>2. ASSUME r.by = jobs, ~r.fresh, G!Over, job.pc # "dead" PROVE G!NotTakenBack(r)
  <2>1. CASE r.id = job.id
    <3>1. r \in G!MyRelease /\ job.id # 0
      BY <2>1 DEF G!MyRelease, GateInv, GateTyped, Published
    <3>2. job.pc = "failed" /\ job.faulty >= Attempts
      BY <1>2, <3>1 DEF GateInv, RollsBack, G!Over
    <3> QED BY <2>1, <3>1, <3>2 DEF G!NotTakenBack
  <2>2. CASE r.id # job.id
    BY <1>2, <2>2 DEF GateInv, Authors, G!NotTakenBack
  <2> QED BY <2>1, <2>2
<1> QED BY <1>1, <1>2

\* The workflow never takes the tag from under a release it made itself, with
\* any number of jobs that run, die and are run again, and of others' steps.
THEOREM ReleaseOwnTagStays == Spec => []OwnTagStays
<1>1. GateInv => OwnTagStays
  BY DEF GateInv, OwnTagStays
<1> QED BY <1>1, GateAlways, PTL

\* A job takes a release of a commit that was not the head of main back, unless
\* the answer of its POST was lost, every round of the deletion met a failed
\* request, or the job died; and CI of every commit it releases has succeeded.
THEOREM ReleaseTakesBackStale == Spec => []StaleIsTakenBack
<1>1. GateInv => StaleIsTakenBack
  BY StaleIsKnown DEF StaleIsTakenBack
<1> QED BY <1>1, GateAlways, PTL

\* A job that nothing disturbs ends as the two decisions of its checker say,
\* and leaves the tag and the release they leave, wherever main moves.
THEOREM ReleaseFollowsContract == Spec => []ContractFollowed
<1>1. GateInv => ContractFollowed
  BY CourseIsContract DEF GateInv, ContractFollowed
<1> QED BY <1>1, GateAlways, PTL

-----------------------------------------------------------------------------
(* The order of versions.                                                   *)

\* An identifier the grammar has a place for.
Identifier == [kind : {"number", "word"}, rank : Nat]

\* The sign of a comparison of numbers.
LEMMA SignIs ==
    ASSUME NEW x \in Int, NEW y \in Int
    PROVE  /\ O!Sign(x, y) \in {-1, 0, 1}
           /\ O!Sign(x, y) = 0 <=> x = y
           /\ O!Sign(x, y) > 0 <=> y < x
BY DEF O!Sign

\* Of two identifiers that differ one is below the other, and not both.
LEMMA IdentifiersCompared ==
    ASSUME NEW x \in Identifier, NEW y \in Identifier
    PROVE  /\ O!compareIdentifiers(x, y) \in {-1, 0, 1}
           /\ O!compareIdentifiers(x, y) = 0 <=> x = y
           /\ O!compareIdentifiers(x, y) > 0 <=> O!Below(y, x)
<1>1. /\ x.kind \in {"number", "word"} /\ x.rank \in Nat /\ y.kind \in {"number", "word"} /\ y.rank \in Nat
      /\ x = y <=> x.kind = y.kind /\ x.rank = y.rank
  BY DEF Identifier
<1>2. CASE x.kind = "number" /\ y.kind = "number"
  <2>1. O!compareIdentifiers(x, y) = O!Sign(x.rank, y.rank)
    BY <1>2 DEF O!compareIdentifiers
  <2> QED BY <1>1, <1>2, <2>1, SignIs DEF O!Below
<1>3. CASE x.kind = "number" /\ y.kind = "word"
  <2>1. O!compareIdentifiers(x, y) = -1
    BY <1>3 DEF O!compareIdentifiers
  <2> QED BY <1>1, <1>3, <2>1 DEF O!Below
<1>4. CASE x.kind = "word" /\ y.kind = "number"
  <2>1. O!compareIdentifiers(x, y) = 1
    BY <1>4 DEF O!compareIdentifiers
  <2> QED BY <1>1, <1>4, <2>1 DEF O!Below
<1>5. CASE x.kind = "word" /\ y.kind = "word"
  <2>1. O!compareIdentifiers(x, y) = O!Sign(x.rank, y.rank)
    BY <1>5 DEF O!compareIdentifiers
  <2> QED BY <1>1, <1>5, <2>1, SignIs DEF O!Below
<1> QED BY <1>1, <1>2, <1>3, <1>4, <1>5

\* The place i of two lists of identifiers.
PlaceOf(a, b, i) ==
    IF i > Len(a) THEN -1 ELSE IF i > Len(b) THEN 1 ELSE O!compareIdentifiers(a[i], b[i])

Longest(a, b) == IF Len(a) > Len(b) THEN Len(a) ELSE Len(b)

\* What the loop of comparePrerelease finds at a place.
LEMMA PlacesAre ==
    ASSUME NEW a \in Seq(Identifier), NEW b \in Seq(Identifier), NEW i \in 1..Longest(a, b)
    PROVE  /\ PlaceOf(a, b, i) \in {-1, 0, 1}
           /\ PlaceOf(a, b, i) = 0 <=> i <= Len(a) /\ i <= Len(b) /\ a[i] = b[i]
           /\ PlaceOf(a, b, i) > 0 <=> \/ i <= Len(a) /\ i > Len(b)
                                       \/ i <= Len(a) /\ i <= Len(b) /\ O!Below(b[i], a[i])
<1>1. i \in Nat /\ i >= 1 /\ Len(a) \in Nat /\ Len(b) \in Nat
  BY DEF Longest
<1>2. CASE i > Len(a)
  <2>1. PlaceOf(a, b, i) = -1
    BY <1>2 DEF PlaceOf
  <2> QED BY <1>1, <1>2, <2>1
<1>3. CASE i <= Len(a) /\ i > Len(b)
  <2>1. PlaceOf(a, b, i) = 1
    BY <1>1, <1>3 DEF PlaceOf
  <2> QED BY <1>1, <1>3, <2>1
<1>4. CASE i <= Len(a) /\ i <= Len(b)
  <2>1. PlaceOf(a, b, i) = O!compareIdentifiers(a[i], b[i])
    BY <1>1, <1>4 DEF PlaceOf
  <2>2. a[i] \in Identifier /\ b[i] \in Identifier
    BY <1>1, <1>4
  <2> QED BY <1>1, <1>4, <2>1, <2>2, IdentifiersCompared
<1> QED BY <1>1, <1>2, <1>3, <1>4

\* comparePrerelease is that loop.
LEMMA PrereleaseLoop ==
    ASSUME NEW a \in Seq(Identifier), NEW b \in Seq(Identifier)
    PROVE  \E f : /\ FirstOf(f, [i \in 1..Longest(a, b) |-> PlaceOf(a, b, i)], Longest(a, b))
                  /\ O!comparePrerelease(a, b) = f[1]
<1> DEFINE L == Longest(a, b)
           at == [i \in 1..L |-> PlaceOf(a, b, i)]
           Loop(f) == f = [i \in 1..(L + 1) |->
                              IF i > L THEN 0 ELSE IF PlaceOf(a, b, i) # 0 THEN PlaceOf(a, b, i) ELSE f[i + 1]]
<1>1. L \in Nat
  BY DEF Longest
<1>2. at \in [1..L -> Int]
  <2>1. \A i \in 1..L : PlaceOf(a, b, i) \in Int
    BY PlacesAre
  <2> HIDE DEF L
  <2> QED BY <2>1
<1>3. \A f : FirstOf(f, at, L) <=> Loop(f)
  <2> HIDE DEF L
  <2>1. TAKE f
  <2>2. \A i \in 1..(L + 1) : ~(i > L) => at[i] = PlaceOf(a, b, i)
    BY <1>1
  <2> HIDE DEF at
  <2>3. [i \in 1..(L + 1) |-> IF i > L THEN 0 ELSE IF at[i] # 0 THEN at[i] ELSE f[i + 1]]
        = [i \in 1..(L + 1) |->
              IF i > L THEN 0 ELSE IF PlaceOf(a, b, i) # 0 THEN PlaceOf(a, b, i) ELSE f[i + 1]]
    BY <2>2
  <2> QED BY <2>3 DEF FirstOf
<1>4. \E f : Loop(f)
  <2> HIDE DEF L, at, Loop
  <2> QED BY <1>1, <1>2, <1>3, LoopExists
<1>5. PICK f : Loop(f) /\ O!comparePrerelease(a, b) = f[1]
  BY Zenon, <1>4 DEF O!comparePrerelease, PlaceOf, Longest
<1> HIDE DEF Loop
<1> QED BY <1>3, <1>5

\* It compares at the first place where two prereleases differ.
LEMMA PrereleaseCompared ==
    ASSUME NEW a \in Seq(Identifier), NEW b \in Seq(Identifier)
    PROVE  O!comparePrerelease(a, b) > 0 <=> O!PreBelow(b, a)
<1> DEFINE L == Longest(a, b)
           at == [i \in 1..L |-> PlaceOf(a, b, i)]
<1>1. L \in Nat /\ Len(a) \in Nat /\ Len(b) \in Nat /\ Len(a) <= L /\ Len(b) <= L /\ (L = Len(a) \/ L = Len(b))
  BY DEF Longest
<1>2. PICK f : FirstOf(f, at, L) /\ O!comparePrerelease(a, b) = f[1]
  BY PrereleaseLoop
<1>3. \A i \in 1..L : /\ at[i] = PlaceOf(a, b, i) /\ at[i] \in {-1, 0, 1}
                      /\ at[i] = 0 <=> i <= Len(a) /\ i <= Len(b) /\ a[i] = b[i]
                      /\ at[i] > 0 <=> \/ i <= Len(a) /\ i > Len(b)
                                       \/ i <= Len(a) /\ i <= Len(b) /\ O!Below(b[i], a[i])
  BY PlacesAre
<1>4. at \in [1..L -> Int]
  <2>1. at = [i \in 1..L |-> at[i]]
    OBVIOUS
  <2> HIDE DEF at
  <2> QED BY <1>3, <2>1
<1> HIDE DEF L, at
<1>5. \/ \E i \in 1..L : DecidesAt(at, i) /\ f[1] = at[i]
      \/ (\A i \in 1..L : at[i] = 0) /\ f[1] = 0
  BY <1>1, <1>2, <1>4, LoopDecides
  \* The place that is greater is where b is below a.
<1>6. ASSUME NEW i \in 1..L, DecidesAt(at, i), at[i] > 0 PROVE O!PreBelow(b, a)
  <2>1. i \in Nat /\ \A j \in 1..(i - 1) : j \in 1..L /\ at[j] = 0
    BY <1>1, <1>6 DEF DecidesAt
  <2>2. \A j \in 1..(i - 1) : j <= Len(a) /\ j <= Len(b) /\ a[j] = b[j]
    BY <1>3, <2>1
  <2>3. CASE i <= Len(a) /\ i > Len(b)
    <3>1. \A j \in 1..Len(b) : b[j] = a[j]
      BY <1>1, <2>1, <2>2, <2>3
    <3>2. Len(b) <= Len(a) /\ Len(b) < Len(a)
      BY <1>1, <2>1, <2>3
    <3>3. SubSeq(b, 1, Len(b)) = SubSeq(a, 1, Len(b))
      BY <1>1, <3>1, <3>2, SameBeginning
    <3>4. b # a
      BY <1>1, <3>2
    <3>5. O!IsStrictPrefix(b, a)
      BY <3>2, <3>3, <3>4 DEF O!IsStrictPrefix, O!IsPrefix
    <3> QED BY <3>5 DEF O!PreBelow
  <2>4. CASE i <= Len(a) /\ i <= Len(b) /\ O!Below(b[i], a[i])
    <3>1. i - 1 \in Nat /\ i - 1 <= Len(a) /\ i - 1 <= Len(b) /\ i \in DOMAIN b \cap DOMAIN a
      BY <1>1, <2>1, <2>4
    <3>2. \A j \in 1..(i - 1) : b[j] = a[j]
      BY <2>2
    <3>3. SubSeq(b, 1, i - 1) = SubSeq(a, 1, i - 1)
      BY <3>1, <3>2, SameBeginning
    <3> QED BY <2>4, <3>1, <3>3 DEF O!PreBelow
  <2> QED BY <1>3, <1>6, <2>3, <2>4
  \* Where b is below a there is such a place.
<1>7. ASSUME O!PreBelow(b, a) PROVE \E i \in 1..L : DecidesAt(at, i) /\ at[i] > 0
  <2>1. CASE O!IsStrictPrefix(b, a)
    <3>1. Len(b) <= Len(a) /\ SubSeq(b, 1, Len(b)) = SubSeq(a, 1, Len(b)) /\ b # a
      BY <2>1 DEF O!IsStrictPrefix, O!IsPrefix
    <3>2. \A j \in 1..Len(b) : b[j] = a[j]
      BY <1>1, <3>1, SameBeginning
    <3>3. Len(b) # Len(a)
      BY <3>1, <3>2, SeqEqual
    <3> DEFINE i == Len(b) + 1
    <3>4. i \in 1..L /\ i <= Len(a) /\ i > Len(b) /\ i - 1 = Len(b)
      BY <1>1, <3>1, <3>3
    <3> HIDE DEF i
    <3>5. at[i] > 0 /\ at[i] # 0
      BY <1>3, <3>4
    <3>6. \A j \in 1..(i - 1) : at[j] = 0
      <4> TAKE j \in 1..(i - 1)
      <4>1. j \in 1..L /\ j \in 1..Len(b) /\ j <= Len(a) /\ j <= Len(b)
        BY <1>1, <3>1, <3>4
      <4> QED BY <1>3, <3>2, <4>1
    <3> QED BY <3>4, <3>5, <3>6 DEF DecidesAt
  <2>2. ASSUME NEW i \in DOMAIN b \cap DOMAIN a, SubSeq(b, 1, i - 1) = SubSeq(a, 1, i - 1),
               O!Below(b[i], a[i])
        PROVE  \E k \in 1..L : DecidesAt(at, k) /\ at[k] > 0
    <3>1. i \in 1..L /\ i <= Len(a) /\ i <= Len(b) /\ i - 1 \in Nat /\ i - 1 <= Len(a) /\ i - 1 <= Len(b)
      BY <1>1
    <3>2. \A j \in 1..(i - 1) : b[j] = a[j]
      BY <2>2, <3>1, SameBeginning
    <3>3. at[i] > 0 /\ at[i] # 0
      BY <1>3, <2>2, <3>1
    <3>4. \A j \in 1..(i - 1) : at[j] = 0
      <4> TAKE j \in 1..(i - 1)
      <4>1. j \in 1..L /\ j <= Len(a) /\ j <= Len(b)
        BY <1>1, <3>1
      <4> QED BY <1>3, <3>2, <4>1
    <3> QED BY <3>1, <3>3, <3>4 DEF DecidesAt
  <2> QED BY <1>7, <2>1, <2>2 DEF O!PreBelow
  \* There is one place that decides.
<1>8. ASSUME NEW i \in 1..L, NEW k \in 1..L, DecidesAt(at, i), DecidesAt(at, k) PROVE i = k
  <2>1. ~(i < k) /\ ~(k < i)
    <3>1. i < k => i \in 1..(k - 1)
      BY <1>1
    <3>2. k < i => k \in 1..(i - 1)
      BY <1>1
    <3> QED BY <1>8, <3>1, <3>2 DEF DecidesAt
  <2> QED BY <1>1, <2>1
<1>9. ASSUME f[1] > 0 PROVE O!PreBelow(b, a)
  BY <1>5, <1>6, <1>9
<1>10. ASSUME O!PreBelow(b, a) PROVE f[1] > 0
  <2>1. PICK i \in 1..L : DecidesAt(at, i) /\ at[i] > 0
    BY <1>7, <1>10
  <2>2. at[i] # 0
    BY <2>1 DEF DecidesAt
  <2> QED BY <1>5, <1>8, <2>1, <2>2
<1> QED BY <1>2, <1>9, <1>10

\* A version of the grammar.
Numbers == [core : [1..3 -> Nat], pre : Seq(Identifier), build : BOOLEAN]

\* What a version of the grammar is made of.
LEMMA GrammarIs ==
    ASSUME ReleaseAssumption, NEW v \in VersionStrings
    PROVE  O!IsSemver(v) => v \in Numbers
<1>1. v \in [core : [1..3 -> Nat],
             pre : Seq([kind : {"number", "word", "padded"}, rank : Nat]), build : BOOLEAN]
  BY DEF ReleaseAssumption, O!ChangelogConstants
<1> SUFFICES ASSUME O!IsSemver(v) PROVE v \in Numbers
  OBVIOUS
<1>2. /\ v.core \in [1..3 -> Nat] /\ v.build \in BOOLEAN
      /\ v.pre \in Seq([kind : {"number", "word", "padded"}, rank : Nat])
      /\ v = [core |-> v.core, pre |-> v.pre, build |-> v.build]
  BY <1>1
<1>3. \A i \in DOMAIN v.pre : v.pre[i].kind # "padded"
  BY DEF O!IsSemver
<1>4. ASSUME NEW pre \in Seq([kind : {"number", "word", "padded"}, rank : Nat]),
             \A i \in DOMAIN pre : pre[i].kind # "padded"
      PROVE  pre \in Seq(Identifier)
  <2>1. Len(pre) \in Nat /\ DOMAIN pre = 1..Len(pre)
    OBVIOUS
  <2>2. ASSUME NEW i \in 1..Len(pre) PROVE pre[i] \in Identifier
    <3>1. pre[i] \in [kind : {"number", "word", "padded"}, rank : Nat] /\ pre[i].kind # "padded"
      BY <1>4, <2>1, ElementOfSeq
    <3>2. ASSUME NEW x \in [kind : {"number", "word", "padded"}, rank : Nat], x.kind # "padded"
          PROVE  x \in Identifier
      BY <3>2 DEF Identifier
    <3> QED BY <3>1, <3>2
  <2>3. pre \in [1..Len(pre) -> Identifier]
    BY <2>1, <2>2
  <2> QED BY <2>1, <2>3
<1>5. v.pre \in Seq(Identifier)
  BY <1>2, <1>3, <1>4
<1> QED BY <1>2, <1>5 DEF Numbers

\* The three numbers, one after the other.
LEMMA BeginningsOfCores ==
    ASSUME NEW s \in [1..3 -> Nat], NEW t \in [1..3 -> Nat]
    PROVE  O!CoreBelow(s, t) <=> \E i \in 1..3 : s[i] < t[i] /\ \A j \in 1..(i - 1) : s[j] = t[j]
<1>1. s \in Seq(Nat) /\ t \in Seq(Nat) /\ Len(s) = 3 /\ Len(t) = 3
  <2>1. ASSUME NEW n \in Nat, NEW u \in [1..n -> Nat] PROVE u \in Seq(Nat) /\ Len(u) = n
    OBVIOUS
  <2>2. 3 \in Nat
    OBVIOUS
  <2> QED BY <2>1, <2>2
<1>2. ASSUME NEW i \in 1..3
      PROVE  SubSeq(s, 1, i - 1) = SubSeq(t, 1, i - 1) <=> \A j \in 1..(i - 1) : s[j] = t[j]
  <2>1. i - 1 \in Nat /\ i - 1 <= 3
    OBVIOUS
  <2> QED BY <1>1, <2>1, SameBeginning
<1> QED BY <1>2 DEF O!CoreBelow

\* What the prereleases of two versions say.
PreOf(a, b) ==
    CASE a.prerelease = b.prerelease -> 0
      [] a.prerelease = <<>> /\ b.prerelease # <<>> -> 1
      [] a.prerelease # <<>> /\ b.prerelease = <<>> -> -1
      [] OTHER -> O!comparePrerelease(a.prerelease, b.prerelease)

\* The loop over the three numbers, unrolled.
Unrolled(a, b) ==
    IF a.major # b.major THEN O!Sign(a.major, b.major)
    ELSE IF a.minor # b.minor THEN O!Sign(a.minor, b.minor)
    ELSE IF a.patch # b.patch THEN O!Sign(a.patch, b.patch)
    ELSE PreOf(a, b)

\* The loop of compareSemver, unrolled: it has three fields.
LEMMA SemverLoop == ASSUME NEW a, NEW b PROVE O!compareSemver(a, b) = Unrolled(a, b)
<1> DEFINE field == <<"major", "minor", "patch">>
           Loop(f) == f = [i \in 1..4 |->
               IF i = 4 THEN PreOf(a, b)
               ELSE IF a[field[i]] # b[field[i]] THEN O!Sign(a[field[i]], b[field[i]])
               ELSE f[i + 1]]
           At(i) == IF a[field[i]] # b[field[i]] THEN {O!Sign(a[field[i]], b[field[i]])} ELSE {}
           f4 == PreOf(a, b)
           f3 == IF a[field[3]] # b[field[3]] THEN O!Sign(a[field[3]], b[field[3]]) ELSE f4
           f2 == IF a[field[2]] # b[field[2]] THEN O!Sign(a[field[2]], b[field[2]]) ELSE f3
           f1 == IF a[field[1]] # b[field[1]] THEN O!Sign(a[field[1]], b[field[1]]) ELSE f2
           g == [i \in 1..4 |-> IF i = 1 THEN f1 ELSE IF i = 2 THEN f2 ELSE IF i = 3 THEN f3 ELSE f4]
<1>1. Loop(g)
  <2>1. g[1] = f1 /\ g[2] = f2 /\ g[3] = f3 /\ g[4] = f4
    <3> HIDE DEF f1, f2, f3, f4
    <3> QED OBVIOUS
  <2> DEFINE h == [i \in 1..4 |->
               IF i = 4 THEN PreOf(a, b)
               ELSE IF a[field[i]] # b[field[i]] THEN O!Sign(a[field[i]], b[field[i]])
               ELSE g[i + 1]]
  <2> HIDE DEF g
  <2>2. h[1] = f1 /\ h[2] = f2 /\ h[3] = f3 /\ h[4] = f4
    <3> HIDE DEF field
    <3> QED BY <2>1
  <2>3. g = [i \in 1..4 |-> g[i]] /\ h = [i \in 1..4 |-> h[i]]
    <3>1. g = [i \in 1..4 |-> g[i]]
      <4> HIDE DEF f1, f2, f3, f4
      <4> QED BY DEF g
    <3>2. h = [i \in 1..4 |-> h[i]]
      <4> HIDE DEF field
      <4> QED OBVIOUS
    <3> QED BY <3>1, <3>2
  <2> HIDE DEF h, f1, f2, f3, f4
  <2>4. \A i \in 1..4 : g[i] = h[i]
    <3>1. \A i \in 1..4 : i = 1 \/ i = 2 \/ i = 3 \/ i = 4
      OBVIOUS
    <3> QED BY <2>1, <2>2, <3>1
  <2>5. g = h
    BY <2>3, <2>4
  <2> QED BY <2>5 DEF h
<1>2. \E f : Loop(f)
  <2> HIDE DEF g, Loop
  <2> QED BY <1>1
<1>3. PICK f : Loop(f) /\ O!compareSemver(a, b) = f[1]
  BY Zenon, <1>2 DEF O!compareSemver, PreOf
<1>4. f[1] = f1
  <2>1. \A i \in 1..4 : f[i] = IF i = 4 THEN PreOf(a, b)
               ELSE IF a[field[i]] # b[field[i]] THEN O!Sign(a[field[i]], b[field[i]])
               ELSE f[i + 1]
    <3> HIDE DEF field
    <3> QED BY <1>3
  <2> HIDE DEF field, Loop
  <2>2. f[4] = f4
    BY <2>1
  <2>3. f[3] = f3
    BY <2>1, <2>2
  <2>4. f[2] = f2
    BY <2>1, <2>3
  <2> QED BY <2>1, <2>4
<1>5. a[field[1]] = a.major /\ a[field[2]] = a.minor /\ a[field[3]] = a.patch
  OBVIOUS
<1>6. b[field[1]] = b.major /\ b[field[2]] = b.minor /\ b[field[3]] = b.patch
  OBVIOUS
<1> HIDE DEF field
<1> QED BY <1>3, <1>4, <1>5, <1>6 DEF Unrolled

\* Versions that differ in nothing else: a release is above its prereleases.
LEMMA PrereleasesCompared ==
    ASSUME NEW a, NEW b, a.prerelease \in Seq(Identifier), b.prerelease \in Seq(Identifier)
    PROVE  PreOf(a, b) > 0
              <=> \/ b.prerelease # <<>> /\ a.prerelease = <<>>
                  \/ /\ b.prerelease # <<>> /\ a.prerelease # <<>>
                     /\ O!PreBelow(b.prerelease, a.prerelease)
<1> DEFINE p == a.prerelease
           q == b.prerelease
<1>1. CASE p = q
  <2>1. PreOf(a, b) = 0
    BY <1>1 DEF PreOf
  <2>2. ~O!PreBelow(p, p)
    <3>1. ASSUME NEW i \in DOMAIN p PROVE ~O!Below(p[i], p[i])
      <4>1. i \in 1..Len(p)
        OBVIOUS
      <4>2. p[i] \in Identifier
        BY <4>1, ElementOfSeq
      <4>3. p[i].rank \in Int
        BY <4>2 DEF Identifier
      <4> QED BY <4>3 DEF O!Below
    <3> QED BY <3>1 DEF O!PreBelow, O!IsStrictPrefix
  <2> QED BY <1>1, <2>1, <2>2
<1>2. CASE p # q /\ p = <<>>
  <2>1. PreOf(a, b) = 1
    BY <1>2 DEF PreOf
  <2> QED BY <1>2, <2>1
<1>3. CASE p # q /\ p # <<>> /\ q = <<>>
  <2>1. PreOf(a, b) = -1
    BY <1>3 DEF PreOf
  <2> QED BY <1>3, <2>1
<1>4. CASE p # q /\ p # <<>> /\ q # <<>>
  <2>1. PreOf(a, b) = O!comparePrerelease(p, q)
    BY <1>4 DEF PreOf
  <2>2. O!comparePrerelease(p, q) > 0 <=> O!PreBelow(q, p)
    BY PrereleaseCompared
  <2> HIDE DEF p, q
  <2>3. PreOf(a, b) > 0 <=> O!PreBelow(q, p)
    BY <2>1, <2>2
  <2> QED BY <1>4, <2>3 DEF p, q
<1> QED BY <1>1, <1>2, <1>3, <1>4

\* compareSemver is the order of semantic versioning.
LEMMA SemverCompared ==
    ASSUME NEW v \in Numbers, NEW w \in Numbers
    PROVE  /\ O!IsSemver(v) /\ O!parseSemver(v) # O!null
           /\ O!compareSemver(O!parseSemver(v), O!parseSemver(w)) > 0 <=> O!Precedes(w, v)
<1> DEFINE a == O!parseSemver(v)
           b == O!parseSemver(w)
           c == v.core
           d == w.core
<1>1. ASSUME NEW x \in Numbers
      PROVE  /\ O!IsSemver(x) /\ x.core \in [1..3 -> Nat] /\ x.pre \in Seq(Identifier)
             /\ O!parseSemver(x) = [major |-> x.core[1], minor |-> x.core[2],
                                    patch |-> x.core[3], prerelease |-> x.pre]
  <2>1. x.core \in [1..3 -> Nat] /\ x.pre \in Seq(Identifier)
    BY DEF Numbers
  <2>2. ASSUME NEW i \in DOMAIN x.pre PROVE x.pre[i].kind # "padded"
    <3>1. i \in 1..Len(x.pre)
      BY <2>1
    <3>2. x.pre[i] \in Identifier
      BY <2>1, <3>1, ElementOfSeq
    <3> QED BY <3>2 DEF Identifier
  <2>3. O!IsSemver(x)
    BY <2>2 DEF O!IsSemver
  <2> QED BY <2>1, <2>3 DEF O!parseSemver
<1>2. /\ a.major = c[1] /\ a.minor = c[2] /\ a.patch = c[3] /\ a.prerelease = v.pre
      /\ b.major = d[1] /\ b.minor = d[2] /\ b.patch = d[3] /\ b.prerelease = w.pre
  BY <1>1
<1>3. O!IsSemver(v) /\ a # O!null
  <2>1. O!null.major = -1 /\ c[1] \in Nat
    BY <1>1 DEF O!null
  <2>2. a.major # O!null.major
    BY <1>2, <2>1
  <2> QED BY <1>1, <2>2
<1>4. /\ c \in [1..3 -> Nat] /\ d \in [1..3 -> Nat]
      /\ c[1] \in Int /\ c[2] \in Int /\ c[3] \in Int /\ d[1] \in Int /\ d[2] \in Int /\ d[3] \in Int
  BY <1>1
<1>5. O!compareSemver(a, b) = Unrolled(a, b)
  BY SemverLoop
<1>6. PreOf(a, b) > 0
         <=> \/ w.pre # <<>> /\ v.pre = <<>>
             \/ w.pre # <<>> /\ v.pre # <<>> /\ O!PreBelow(w.pre, v.pre)
  <2>1. v.pre \in Seq(Identifier) /\ w.pre \in Seq(Identifier)
    BY <1>1
  <2> HIDE DEF a, b
  <2> QED BY <1>2, <2>1, PrereleasesCompared
<1> HIDE DEF a, b, c, d
<1>7. O!CoreBelow(d, c) <=> \/ d[1] < c[1]
                            \/ d[1] = c[1] /\ d[2] < c[2]
                            \/ d[1] = c[1] /\ d[2] = c[2] /\ d[3] < c[3]
  <2>1. O!CoreBelow(d, c) <=> \E i \in 1..3 : d[i] < c[i] /\ \A j \in 1..(i - 1) : d[j] = c[j]
    BY <1>4, BeginningsOfCores
  <2>2. 1..3 = {1, 2, 3} /\ 1..(1 - 1) = {} /\ 1..(2 - 1) = {1} /\ 1..(3 - 1) = {1, 2}
    OBVIOUS
  <2> QED BY <2>1, <2>2
<1>8. O!Precedes(w, v) <=> \/ O!CoreBelow(d, c)
                           \/ c = d /\ PreOf(a, b) > 0
  BY <1>6 DEF O!Precedes, c, d
<1>9. c = d <=> c[1] = d[1] /\ c[2] = d[2] /\ c[3] = d[3]
  <2>1. \A i \in 1..3 : i = 1 \/ i = 2 \/ i = 3
    OBVIOUS
  <2> QED BY <1>4, <2>1
<1>10. Unrolled(a, b) > 0 <=> O!CoreBelow(d, c) \/ (c = d /\ PreOf(a, b) > 0)
  <2>1. CASE c[1] # d[1]
    <3>1. Unrolled(a, b) = O!Sign(c[1], d[1])
      BY <1>2, <2>1 DEF Unrolled
    <3> QED BY <1>4, <1>7, <1>9, <2>1, <3>1, SignIs
  <2>2. CASE c[1] = d[1] /\ c[2] # d[2]
    <3>1. Unrolled(a, b) = O!Sign(c[2], d[2])
      BY <1>2, <2>2 DEF Unrolled
    <3> QED BY <1>4, <1>7, <1>9, <2>2, <3>1, SignIs
  <2>3. CASE c[1] = d[1] /\ c[2] = d[2] /\ c[3] # d[3]
    <3>1. Unrolled(a, b) = O!Sign(c[3], d[3])
      BY <1>2, <2>3 DEF Unrolled
    <3> QED BY <1>4, <1>7, <1>9, <2>3, <3>1, SignIs
  <2>4. CASE c[1] = d[1] /\ c[2] = d[2] /\ c[3] = d[3]
    <3>1. Unrolled(a, b) = PreOf(a, b)
      BY <1>2, <2>4 DEF Unrolled
    <3> QED BY <1>4, <1>7, <1>9, <2>4, <3>1
  <2> QED BY <2>1, <2>2, <2>3, <2>4
<1> QED BY <1>3, <1>5, <1>8, <1>10 DEF a, b

-----------------------------------------------------------------------------
(* The versions of a pull request.                                          *)

\* A pull request and its base carry versions; the base's is of the grammar.
VersionsInv ==
    /\ package \in VersionStrings /\ base \in VersionStrings
    /\ O!IsSemver(base)

\* The version check agrees with the order of semantic versioning: it lets a
\* version through exactly when it is of the grammar and above the base
\* branch's (compareSemver, checkVersionBump of scripts).
THEOREM ReleaseVersionsAscend == Spec => []VersionsAscend
<1>1. Init => VersionsInv
  BY ReleaseAssumption DEF Init, O!Init, VersionsInv, ReleaseAssumption, O!ChangelogConstants
<1>2. VersionsInv /\ [Next]_vars => VersionsInv'
  <2> SUFFICES ASSUME VersionsInv, [Next]_vars PROVE VersionsInv'
    OBVIOUS
  <2>1. CASE UNCHANGED <<package, base>>
    BY <2>1 DEF VersionsInv, O!IsSemver
  <2>2. CASE part = "notes" /\ N!Next
    <3>1. CASE N!Bump
      BY <3>1, ReleaseAssumption DEF N!Bump, VersionsInv, O!IsSemver, ReleaseAssumption
    <3>2. CASE N!Promote
      <4>1. base' = package /\ package' = package /\ N!parseSemver(package) # N!null
        BY <3>2 DEF N!Promote, N!VersionBumped
      <4>2. O!IsSemver(package)
        BY <4>1 DEF N!parseSemver, N!IsSemver, O!IsSemver
      <4> QED BY <4>1, <4>2 DEF VersionsInv, O!IsSemver
    <3>3. CASE ~N!Bump /\ ~N!Promote
      <4>1. UNCHANGED <<package, base>>
        BY <2>2, <3>3 DEF N!Next, N!Assemble, N!RemoveNext, N!Kill, N!Land, N!Flatten, N!Correct, N!CleanUp
      <4> QED BY <2>1, <4>1
    <3> QED BY <3>1, <3>2, <3>3
  <2>3. CASE part = "order" /\ O!Next
    <3>1. CASE O!Bump
      BY <3>1 DEF O!Bump, VersionsInv, O!IsSemver
    <3>2. CASE O!Promote
      <4>1. base' = package /\ package' = package /\ O!parseSemver(package) # O!null
        BY <3>2 DEF O!Promote, O!VersionBumped
      <4>2. O!IsSemver(package)
        BY <4>1 DEF O!parseSemver
      <4> QED BY <4>1, <4>2 DEF VersionsInv, O!IsSemver
    <3>3. CASE ~O!Bump /\ ~O!Promote
      <4>1. UNCHANGED <<package, base>>
        BY <2>3, <3>3 DEF O!Next, O!Assemble, O!RemoveNext, O!Kill, O!Land, O!Flatten, O!Correct, O!CleanUp
      <4> QED BY <2>1, <4>1
    <3> QED BY <3>1, <3>2, <3>3
  <2>4. \/ UNCHANGED <<package, base>>
        \/ part = "notes" /\ N!Next
        \/ part = "order" /\ O!Next
    BY DEF Next, vars, notesVars
  <2> QED BY <2>1, <2>2, <2>3, <2>4
<1>3. VersionsInv => VersionsAscend
  <2> SUFFICES ASSUME VersionsInv PROVE VersionsAscend
    OBVIOUS
  <2>1. base \in Numbers
    BY ReleaseAssumption, GrammarIs DEF VersionsInv
  <2>2. CASE ~O!IsSemver(package)
    <3>1. O!parseSemver(package) = O!null
      BY <2>2 DEF O!parseSemver
    <3> QED BY <2>2, <3>1 DEF VersionsAscend, O!VersionsAscend, O!VersionBumped
  <2>3. CASE O!IsSemver(package)
    <3>1. package \in Numbers
      BY <2>3, ReleaseAssumption, GrammarIs DEF VersionsInv
    <3> QED BY <2>1, <3>1, SemverCompared DEF VersionsAscend, O!VersionsAscend, O!VersionBumped
  <2> QED BY <2>2, <2>3
<1> QED BY <1>1, <1>2, <1>3, PTL DEF Spec
=============================================================================
