------------------------------ MODULE Release ------------------------------
(***************************************************************************)
(* How a version gets out: a release pull request folds the changelog      *)
(* fragments and raises the version (Changelog, with the versions of       *)
(* Versions), and after it is merged the release job tags the commit of    *)
(* main and makes a release of it (ReleaseGate).  The two meet only in the *)
(* version a commit carries, which ReleaseGate leaves open: two pull       *)
(* requests checked against the same base may even carry the same one.  So *)
(* a behaviour runs one of them, as "part" says; "notes" and "order" are   *)
(* both the pull request, the one with all texts of the fragments and a    *)
(* few versions and the other with all versions and no fragment.           *)
(***************************************************************************)
EXTENDS Naturals, Sequences, FiniteSets

CONSTANTS
    Commits, Versions, NoCommit, Attempts, MaxJobs, MaxOthers, MaxFaults,
    Fragments, Texts, VersionStrings, FirstVersion,
    NoteVersions   \* the versions of the behaviours with fragments

VARIABLES part,
    version, ci, main, tag, touched, releases, lastId, job, jobs, others, faults,
    changes, nested, texts, changelog, package, base, toRemove, leftover

gateVars == <<version, ci, main, tag, touched, releases, lastId, job, jobs, others, faults>>
notesVars == <<changes, nested, texts, changelog, package, base, toRemove, leftover>>
vars == <<part, gateVars, notesVars>>

G == INSTANCE ReleaseGate
N == INSTANCE Changelog WITH VersionStrings <- NoteVersions
O == INSTANCE Changelog WITH Fragments <- {}, Texts <- <<>>

ASSUME ReleaseAssumption ==
    /\ NoteVersions \subseteq VersionStrings
    /\ G!GateConstants /\ N!ChangelogConstants /\ O!ChangelogConstants

\* The part that does not run keeps one initial state.
Init ==
    /\ part \in {"gate", "notes", "order"}
    /\ G!Init /\ O!Init
    /\ part # "gate" => version = [c \in Commits |-> CHOOSE v \in Versions : TRUE]
                        /\ ci = [c \in Commits |-> "success"]

Next ==
    \/ part = "gate" /\ G!Next /\ UNCHANGED <<part, notesVars>>
    \/ part = "notes" /\ N!Next /\ UNCHANGED <<part, gateVars>>
    \/ part = "order" /\ O!Next /\ UNCHANGED <<part, gateVars>>

Spec == Init /\ [][Next]_vars

-----------------------------------------------------------------------------
(* The properties are those of the parts.                                   *)

\* The job ends as the two decisions of its checker say and leaves what they
\* leave, when nothing disturbs it.
ContractFollowed == G!ContractFollowed

\* A release of a commit that was not the head of main is taken back, unless the
\* answer of its POST was lost, each round of the deletion failed or the job died.
StaleIsTakenBack == G!StaleIsTakenBack

\* The workflow never takes the tag from under a release it made.
OwnTagStays == G!OwnTagStays

\* Each feature is told once, whole, in one release of the changelog.
SaidOnce == N!SaidOnce

\* The version check agrees with the order of semantic versioning.
VersionsAscend == O!VersionsAscend

=============================================================================
