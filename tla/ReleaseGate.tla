---------------------------- MODULE ReleaseGate ----------------------------
(***************************************************************************)
(* The release job (.github/workflows/release.yml, whose text              *)
(* scripts/check-release-gate.mjs pins): it tags the commit whose CI       *)
(* succeeded and makes a release of it, and takes both back when the       *)
(* commit turns out not to be the head of main any more.                   *)
(*                                                                         *)
(* One step is one request to GitHub.  Between two of them main moves,     *)
(* other maintainers make and delete tags and releases, a request fails or *)
(* loses its answer, and the runner may die.  Jobs run one at a time (the  *)
(* concurrency group) and any of them may be run again.                    *)
(***************************************************************************)
EXTENDS Naturals, FiniteSets

CONSTANTS
    Commits,    \* commits of main, 1 the oldest
    Versions,   \* versions of package.json
    NoCommit,   \* no tag
    Attempts,   \* deletions of a release that are tried
    MaxJobs,    \* bound: jobs that are started
    MaxOthers,  \* bound: steps of other maintainers
    MaxFaults   \* bound: failed requests and dead runners

GateConstants ==
    /\ IsFiniteSet(Commits) /\ Commits # {} /\ Commits = 1..Cardinality(Commits)
    /\ NoCommit \notin Commits
    /\ Attempts \in Nat \ {0}
    /\ MaxJobs \in Nat /\ MaxOthers \in Nat /\ MaxFaults \in Nat

VARIABLES
    version,    \* the version each commit carries
    ci,         \* how CI of the push of each commit ended
    main,       \* the head of main
    tag,        \* the commit each version's tag points to
    touched,    \* history: the versions whose tag others made or deleted
    releases,   \* [id, version, sha, by, fresh]: by which job, the first being 1
                \* (0: another maintainer); fresh when made of the head
    lastId,     \* the id GitHub gave last
    job,        \* the latest job; its pc says whether it still runs
    jobs, others, faults   \* how much of each bound is used

remote == <<tag, touched, releases, lastId>>
vars == <<version, ci, main, remote, job, jobs, others, faults>>

\* When a job asks for the head of main, and what it has found out: TRUE until
\* it asks.
Looks == {"atStart", "beforeTag", "afterTag", "beforeRelease", "afterRelease"}

NothingSeen == [look \in Looks |-> TRUE]

\* existing: existing_sha; tagCreated and id: tag_created, created_release_id
\* (0: none); attempt: the round of delete_created_release.  The last three are
\* history: there was a release when the job started, how many of its requests
\* failed, whether others acted since.
NewJob(c) ==
    [pc |-> "verify", sha |-> c, existing |-> tag[version[c]], tagCreated |-> FALSE,
     id |-> 0, attempt |-> 1, seen |-> NothingSeen,
     held |-> \E r \in releases : r.version = version[c],
     faulty |-> 0, met |-> FALSE]

Over == job.pc \in {"done", "failed", "dead"}
Tag == version[job.sha]
ReleasesBy(v) == {r \in releases : r.version = v}

TypeOK ==
    /\ version \in [Commits -> Versions]
    /\ ci \in [Commits -> {"success", "failure"}]
    /\ main \in Commits
    /\ tag \in [Versions -> Commits \cup {NoCommit}]
    /\ touched \subseteq Versions
    /\ \A r \in releases : r.id \in 1..lastId /\ r.version \in Versions /\ r.sha \in Commits
        /\ r.by \in 0..jobs
    /\ job.sha \in Commits /\ job.id \in 0..lastId /\ job.attempt \in 1..Attempts
    /\ jobs \in 0..MaxJobs /\ others \in 0..MaxOthers /\ faults \in 0..MaxFaults

-----------------------------------------------------------------------------
(* The completed CI runs that could trigger the job.  A push to main is of  *)
(* one of its commits and ended as CI of that commit did; a pull request    *)
(* may have the same commit before it is merged, and may come from a branch *)
(* of a fork that is called main.                                           *)

Events ==
    {e \in [conclusion : {"success", "failure"}, event : {"push", "pull_request"},
            headBranch : {"main", "feature"}, headRepository : {"ours", "fork"},
            headSha : Commits] :
        e.event = "push" /\ e.headRepository = "ours" /\ e.headBranch = "main"
            => e.headSha <= main /\ e.conclusion = ci[e.headSha]}

\* Mutation: CI of a pull request is taken for that of the push.
isEligibleAnyEvent(event, repository) ==
    /\ event.conclusion = "success"
    /\ event.headBranch = "main"
    /\ event.headRepository = repository

isEligible(event, repository) ==
    /\ event.conclusion = "success"
    /\ event.event = "push"
    /\ event.headBranch = "main"
    /\ event.headRepository = repository

Start ==
    /\ Over /\ jobs < MaxJobs
    /\ \E e \in Events : isEligible(e, "ours") /\ job' = NewJob(e.headSha)
    /\ jobs' = jobs + 1
    /\ UNCHANGED <<version, ci, main, remote, others, faults>>

-----------------------------------------------------------------------------
(* The requests of a job.  A failed one is an answer the shell takes for    *)
(* the worst case: no head, no tag, an unknown state.                       *)

World == UNCHANGED <<version, ci, main, jobs, others>>

Fault ==
    /\ faults < MaxFaults
    /\ faults' = faults + 1

\* The job goes on to a step with some fields changed.
Goes(j) == job' = j /\ World

Answered(j) == Goes(j) /\ UNCHANGED faults
Unanswered(j) == Goes([j EXCEPT !.faulty = @ + 1]) /\ Fault

\* require_current_main at one step: on to yes or to no.
RequireCurrentMain(here, when, yes, no) ==
    /\ job.pc = here
    /\ \/ Answered([job EXCEPT !.pc = IF main = job.sha THEN yes ELSE no,
                               !.seen[when] = main = job.sha])
       \/ Unanswered([job EXCEPT !.pc = no, !.seen[when] = FALSE])
    /\ UNCHANGED remote

\* require_release_tag at one step.
RequireReleaseTag(here, yes, no) ==
    /\ job.pc = here
    /\ \/ Answered([job EXCEPT !.pc = IF tag[Tag] = job.sha THEN yes ELSE no])
       \/ Unanswered([job EXCEPT !.pc = no])
    /\ UNCHANGED remote

\* Mutation: whatever is not 200 is taken for an absent release.
ReleaseStateOptimistic(here, found, exists, absent, unknown) ==
    /\ job.pc = here
    /\ \/ Answered([job EXCEPT !.pc = IF found THEN exists ELSE absent])
       \/ Unanswered([job EXCEPT !.pc = absent])
    /\ UNCHANGED remote

\* release_state_for at one step: the next step for 200, 404 and the rest.
ReleaseState(here, found, exists, absent, unknown) ==
    /\ job.pc = here
    /\ \/ Answered([job EXCEPT !.pc = IF found THEN exists ELSE absent])
       \/ Unanswered([job EXCEPT !.pc = unknown])
    /\ UNCHANGED remote

\* What a request that changes the remote leaves behind: it is done, it is
\* done and its answer is lost, or it is not done.
Writes(effect, done, lost) ==
    \/ effect /\ Answered(done)
    \/ effect /\ Unanswered(lost)
    \/ UNCHANGED remote /\ Unanswered(lost)

At(pc) == [job EXCEPT !.pc = pc]

\* Mutation: a tag that exists is refused although it is on this commit.
AfterVerifyTaken == IF job.existing = NoCommit THEN "beforeTag" ELSE "failed"

\* After the first look at main the tag of the checkout decides.
AfterVerify ==
    IF job.existing = NoCommit THEN "beforeTag"
    ELSE IF job.existing = job.sha THEN "checkTag" ELSE "failed"

Verify == RequireCurrentMain("verify", "atStart", AfterVerify, "failed")

BeforeTag == RequireCurrentMain("beforeTag", "beforeTag", "push", "failed")

\* git push of a tag: rejected when it exists elsewhere, and nothing to do
\* when it is there already.
Push ==
    /\ job.pc = "push"
    /\ IF tag[Tag] \in {NoCommit, job.sha}
         THEN Writes(tag' = [tag EXCEPT ![Tag] = job.sha] /\ UNCHANGED <<touched, releases, lastId>>,
                     [job EXCEPT !.pc = "afterTag", !.tagCreated = TRUE], At("failed"))
         ELSE Answered(At("failed")) /\ UNCHANGED remote

AfterTag == RequireCurrentMain("afterTag", "afterTag", "checkTag", "tagState")

CheckTag == RequireReleaseTag("checkTag", "lookup", "failed")

Lookup == ReleaseState("lookup", ReleasesBy(Tag) # {}, "done", "beforeRelease", "failed")

\* Mutation: a tag the job found is deleted like one it made.
UndoTagFound == "tagState"

\* delete_created_tag, when this job made the tag.
UndoTag == IF job.tagCreated THEN "tagState" ELSE "failed"

BeforeRelease == RequireCurrentMain("beforeRelease", "beforeRelease", "recheckTag", UndoTag)

RecheckTag == RequireReleaseTag("recheckTag", "post", "failed")

\* POST releases: refused when the tag has one; the tag is made if missing.
Release(sha, by) ==
    /\ releases' = releases \cup {[id |-> lastId + 1, version |-> version[sha], sha |-> sha,
                                   by |-> by, fresh |-> main = sha]}
    /\ lastId' = lastId + 1
    /\ tag' = [tag EXCEPT ![version[sha]] = IF @ = NoCommit THEN sha ELSE @]

\* A lost answer names no id: the shell gives up (set -e) before the rollback.
Post ==
    /\ job.pc = "post"
    /\ IF ReleasesBy(Tag) = {}
         THEN Writes(Release(job.sha, jobs) /\ UNCHANGED touched,
                     [job EXCEPT !.pc = "afterRelease", !.id = lastId + 1], At("failed"))
         ELSE Answered(At("failed")) /\ UNCHANGED remote

AfterRelease == RequireCurrentMain("afterRelease", "afterRelease", "finalTag", "finalTag")

\* release_still_valid needs both answers.
FinalTag == RequireReleaseTag("finalTag", IF job.seen.afterRelease THEN "done" ELSE "seek", "seek")

-----------------------------------------------------------------------------
(* The rollback: delete_created_release, then delete_created_tag.           *)

MyRelease == {r \in releases : r.id = job.id}

\* An unknown state skips the DELETE.
Seek == ReleaseState("seek", MyRelease # {}, "delete", UndoTag, "confirm")

Delete ==
    /\ job.pc = "delete"
    /\ Writes(releases' = releases \ MyRelease /\ UNCHANGED <<tag, touched, lastId>>,
              At("confirm"), At("confirm"))

\* Mutation: one round, whatever comes of it.
NextRoundNone(j) == [j EXCEPT !.pc = "failed"]

\* Another round, or give up and leave the tag.
NextRound(j) ==
    IF job.attempt < Attempts THEN [j EXCEPT !.pc = "seek", !.attempt = @ + 1]
    ELSE [j EXCEPT !.pc = "failed"]

Confirm ==
    /\ job.pc = "confirm"
    /\ \/ Answered(IF MyRelease = {} THEN At(UndoTag) ELSE NextRound(job))
       \/ Unanswered(NextRound(job))
    /\ UNCHANGED remote

TagState == ReleaseState("tagState", ReleasesBy(Tag) # {}, "failed", "tagSha", "failed")

TagSha == RequireReleaseTag("tagSha", "dropTag", "failed")

DropTag ==
    /\ job.pc = "dropTag"
    /\ Writes(tag' = [tag EXCEPT ![Tag] = NoCommit] /\ UNCHANGED <<touched, releases, lastId>>,
              At("failed"), At("failed"))

\* The runner dies, or somebody cancels the job.
Die ==
    /\ ~Over
    /\ Unanswered(At("dead"))
    /\ UNCHANGED remote

JobStep ==
    \/ Verify \/ BeforeTag \/ Push \/ AfterTag \/ CheckTag \/ Lookup
    \/ BeforeRelease \/ RecheckTag \/ Post \/ AfterRelease \/ FinalTag
    \/ Seek \/ Delete \/ Confirm \/ TagState \/ TagSha \/ DropTag \/ Die

-----------------------------------------------------------------------------
(* Everybody else.                                                          *)

MoveMain ==
    /\ main + 1 \in Commits
    /\ main' = main + 1
    /\ UNCHANGED <<version, ci, remote, job, jobs, others, faults>>

\* A maintainer makes or deletes the tag of a version, or a release of it.
Maintainer ==
    /\ others < MaxOthers /\ others' = others + 1
    /\ job' = [job EXCEPT !.met = TRUE]
    /\ \/ \E v \in Versions, c \in (1..main) \cup {NoCommit} :
            /\ (tag[v] = NoCommit) # (c = NoCommit)
            /\ tag' = [tag EXCEPT ![v] = c]
            /\ touched' = touched \cup {v}
            /\ UNCHANGED <<releases, lastId>>
       \/ /\ ReleasesBy(version[main]) = {}
          /\ Release(main, 0)
          /\ touched' = touched \cup {version[main]}
       \/ \E r \in releases :
            releases' = releases \ {r} /\ UNCHANGED <<tag, touched, lastId>>
    /\ UNCHANGED <<version, ci, main, jobs, faults>>

Init ==
    /\ version \in [Commits -> Versions]
    /\ ci \in [Commits -> {"success", "failure"}]
    /\ main = 1
    /\ tag = [v \in Versions |-> NoCommit] /\ touched = {}
    /\ releases = {} /\ lastId = 0
    /\ job = [NewJob(1) EXCEPT !.pc = "dead"]
    /\ jobs = 0 /\ others = 0 /\ faults = 0

Next == Start \/ JobStep \/ MoveMain \/ Maintainer

Spec == Init /\ [][Next]_vars

-----------------------------------------------------------------------------
(* The contract, as the checker states it for itself.                       *)

releaseDecision(releaseSha, mainSha, tagSha, releaseExists) ==
    IF mainSha # releaseSha THEN "reject-stale-main"
    ELSE IF tagSha \notin {NoCommit, releaseSha} THEN "reject-tag-mismatch"
    ELSE IF tagSha = NoCommit
           THEN IF releaseExists THEN "reject-release-without-tag" ELSE "tag-and-release"
           ELSE IF releaseExists THEN "already-released" ELSE "create-missing-release"

raceDecision(seen, tagCreated) ==
    IF ~seen.beforeTag THEN "reject-before-tag"
    ELSE IF ~seen.afterTag THEN "delete-created-tag"
    ELSE IF ~seen.beforeRelease
           THEN IF tagCreated THEN "delete-created-tag" ELSE "reject-before-release"
    ELSE IF ~seen.afterRelease
           THEN IF tagCreated THEN "delete-release-and-created-tag" ELSE "delete-release"
    ELSE "release-complete"

\* What the job changed: nothing, the tag and the release, or the release.
Left ==
    IF MyRelease = {} /\ tag[Tag] = job.existing THEN "nothing"
    ELSE IF MyRelease = {} \/ tag[Tag] # job.sha THEN "a part"
    ELSE IF job.existing = NoCommit THEN "both" ELSE "release"

\* What each decision says a job ends as and leaves.
Decided(tagging, race) ==
    IF tagging \in {"reject-stale-main", "reject-tag-mismatch"} THEN <<"failed", "nothing">>
    ELSE IF tagging = "already-released" THEN <<"done", "nothing">>
    ELSE IF race # "release-complete" THEN <<"failed", "nothing">>
    ELSE <<"done", IF tagging = "create-missing-release" THEN "release" ELSE "both">>

-----------------------------------------------------------------------------
(* Properties.                                                              *)

\* A job that no failed request and no other maintainer disturbed ends as the
\* checker's two decisions say, given what it saw of main and the state it
\* started from, and leaves exactly the tag and the release they leave.  A
\* release without a tag is left out: there the workflow tags the commit.
ContractFollowed ==
    LET tagging == releaseDecision(job.sha, IF job.seen.atStart THEN job.sha ELSE NoCommit,
                                   job.existing, job.held)
    IN (/\ job.pc \in {"done", "failed"} /\ job.faulty = 0 /\ ~job.met
        /\ tagging # "reject-release-without-tag")
        => <<job.pc, Left>> = Decided(tagging, raceDecision(job.seen, job.tagCreated))

\* What a request has to fail for a release to stay: the POST, whose lost answer
\* leaves the job without the id that the rollback needs, or else one request in
\* every round of the deletion.
NotTakenBack(r) ==
    /\ job.pc = "failed"
    /\ IF job.id = 0 THEN job.faulty >= 1
       ELSE r.id = job.id /\ job.faulty >= Attempts

\* A job makes releases only of commits whose CI succeeded, and when it is over
\* the one it made of a commit that was not the head of main any more is gone.
\* It stays in three cases: the answer of its POST was lost, which takes one
\* failed request and tries no deletion; every round of the deletion met a
\* failed request; the job died.
StaleIsTakenBack ==
    \A r \in releases : r.by # 0 =>
        /\ ci[r.sha] = "success"
        /\ (r.by = jobs /\ ~r.fresh /\ Over) => job.pc = "dead" \/ NotTakenBack(r)

\* The workflow never takes the tag from under a release it made itself: a tag
\* that is missing or elsewhere was made or deleted by another maintainer.
OwnTagStays ==
    \A r \in releases : r.by # 0 /\ r.version \notin touched => tag[r.version] = r.sha

=============================================================================
