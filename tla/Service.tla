------------------------------- MODULE Service -------------------------------
(***************************************************************************)
(* The process around its requests.                                        *)
(*                                                                         *)
(* RemoteConfig, whose get() is what a request for the configuration waits *)
(* for, and Shutdown, which accepts requests, and stops the process under  *)
(* them, read the same clock: a caller of RemoteConfig is a client of      *)
(* Shutdown; other clients send requests that may stay open for any time.  *)
(*                                                                         *)
(* Front, who a request is charged to and what it leaves behind, and       *)
(* Discovery, the one route that puts an answer together from two reads,   *)
(* share no state with them or each other; a behaviour runs the process or *)
(* one of these.                                                           *)
(***************************************************************************)
EXTENDS RemoteConfig, FiniteSets

CONSTANTS
    Others,  \* clients of the other routes
    Grace,   \* SHUTDOWN_GRACE_MS
    \* Front
    V4Bits, MappedPrefix, MinTrustedPrefix, NoPrefix, Envs, Proxy, People, Claims,
    Words, NFTCDN_SIZES, Wanted,
    \* Discovery
    Plain, CredentialOf, Bad, Lists, ProbeSize, Probers, MaxUses

VARIABLES
    part,  \* "process", "front" or "discovery"
    \* Shutdown
    phase, closing, stopping, backstop, signals, first, request, exit,
    \* Front
    env, current, admitted, reply, logged,
    \* Discovery
    upstream, used, uses, wallet, lookups, nextGroup, probers, results

configVars == <<cached, published, until, entry, lastGood, call, served, landed>>
stopVars == <<phase, closing, stopping, backstop, signals, first, request, exit>>
processVars == <<now, configVars, stopVars>>
frontVars == <<env, current, admitted, reply, logged>>
discoveryVars == <<upstream, used, uses, wallet, lookups, nextGroup, probers, results>>

S == INSTANCE Shutdown WITH Requests <- Callers \cup Others, MaxNow <- MaxNow - Grace

F == INSTANCE Front

D == INSTANCE Discovery

ASSUME ServiceAssumption ==
    /\ Others \cap Callers = {}
    /\ Grace \in Nat \ {0} /\ Grace <= MaxNow
    /\ Timeout < Grace
    /\ F!FrontConstants /\ D!DiscoveryConstants

-----------------------------------------------------------------------------
(* The process.                                                             *)

\* The route of the configuration calls get() when its request is accepted.
ConfigRequest(c) ==
    /\ S!Accepts(c)
    /\ IF closing = "open" THEN Get(c) ELSE UNCHANGED configVars

\* get() settled: the response is written.
ConfigResponse(c) ==
    /\ Ended(c)
    /\ S!Answers(c)
    /\ UNCHANGED configVars

\* The fetches and the cache, in a process that runs.
Fetching ==
    /\ S!Running
    /\ \/ Publish \/ Evict
       \/ \E c \in Callers : Respond(c) \/ Land(c) \/ FetchFails(c)
    /\ UNCHANGED stopVars

Process ==
    /\ \/ S!Listen \/ S!ListenFails \/ S!DrainsAndEnds
       \/ S!CloseSettles
       \/ S!Signal \/ S!BackstopFires \/ S!StoppedCleanly \/ S!StopFailed
       \/ \E r \in Others : S!Accepts(r) \/ S!Answers(r)
    /\ UNCHANGED configVars

\* Continuations run before the clock goes on.
Clock ==
    /\ \A c \in Callers : Ended(c) => request[c] # "open"
    /\ Tick /\ S!Tick

ProcessNext ==
    \/ \E c \in Callers : ConfigRequest(c)
    \/ \E c \in Callers : ConfigResponse(c)
    \/ Fetching
    \/ Process
    \/ Clock

-----------------------------------------------------------------------------
(* One part at a time.                                                      *)

NoFront == env = (CHOOSE e \in Envs : TRUE) /\ F!FrontStart

NoDiscovery == upstream = "koios" /\ used = {} /\ D!DiscoveryStart

ServiceInit ==
    /\ Init /\ S!Init
    /\ \/ part = "process" /\ NoFront /\ NoDiscovery
       \/ part = "front" /\ F!FrontInit /\ NoDiscovery
       \/ part = "discovery" /\ NoFront /\ D!DiscoveryInit

Runs == ProcessNext /\ UNCHANGED <<frontVars, discoveryVars>>

Answers == F!FrontNext /\ UNCHANGED <<processVars, discoveryVars>>

Discovers == D!DiscoveryNext /\ UNCHANGED <<processVars, frontVars>>

ServiceNext ==
    /\ \/ part = "process" /\ Runs
       \/ part = "front" /\ Answers
       \/ part = "discovery" /\ Discovers
    /\ UNCHANGED part

ServiceSpec == ServiceInit /\ [][ServiceNext]_<<part, processVars, frontVars, discoveryVars>>

-----------------------------------------------------------------------------
(* Properties.                                                              *)

\* Whatever fails and whatever overtakes, a get() never answers with a document
\* that was replaced longer ago than the outage window allows, nor, with the
\* cache, with an older one than an earlier get() was answered with.
DocumentsStayCurrent == NotAncient /\ NeverGoesBack

\* A request is dropped only after a second signal, after the whole grace
\* period, or because close() itself failed, and never by a clean exit; and the
\* process never outlives the first signal by more than the grace period.
StopsWithinGrace == S!DroppedOnlyAfterGrace /\ S!GoneByDeadline

\* A request that waits for nothing but the configuration survives a single
\* stop signal whose close() does not fail: its fetch, its own or one it joined,
\* ends within TIMEOUT_MS, which is shorter than the grace period, whatever
\* other request is wedged.
ConfigSurvivesStop ==
    \A c \in Callers : request[c] = "dropped" => signals > 1 \/ closing = "rejected"

\* A proxy entry trusts the callers it names and never the internet, and a
\* process that runs has what its settings promise.
RunsAsConfigured == F!TrustIsAsWritten /\ F!ServesWhatItHas

\* Whatever it claims, a caller spends its own budget and nobody else's.
OneBudgetPerCaller == F!OneBudgetPerCaller

\* No failure of an upstream names a wallet in an error or in the line of a retry,
\* and no line of a request shows a segment that is a stake address or a
\* transaction.
NothingPersonalLeaves == F!NothingPersonalLeaves

\* The answer of a discovery is what the chain has seen.
DiscoveryIsExact == D!DiscoveryIsExact
=============================================================================
