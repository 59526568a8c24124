# A TLA+ model of cardano-wallet-backend

This directory holds TLA+ modules of the parts of `src/src`, and of the release
tooling beside it, in which order, failure and time matter, the TLC configurations that check them on small
instances, and TLAPS proofs of the results that hold for every instance.
`PROJECT.json` maps every definition to the lines it stands for, lists the
runs, the theorems, the hazards each property is about, and for every property
a plausible bug (a "mutant" operator in the module) that violates it.

Contents: 1. the system; 2. the modules and the code; 3. the runs; 4. fairness;
5. what is proved; 6. where the code and its words disagree; 7. what is not
modelled; 8. the plan.

## 1. The system

One Node process. JavaScript runs one synchronous stretch at a time, so the
actions of the models are the stretches between two awaits; everything that can
go wrong happens between them.

| part | state | operations | what makes it correct |
|---|---|---|---|
| response cache (`cache/index.ts`) | entries in insertion order, in-flight loads, clear generations | `read`, `peek`, `set`, `setIfGeneration`, `clear`, eviction | a clear is final, reads are coalesced, nothing outlives its window, the bound holds, nobody waits for ever |
| provider factory (`providers/factory.ts`) | none | picks the driver, scopes the cache | a guarded write through the scope lands unless its own namespace was cleared |
| cached provider (`providers/cached.ts`) | the tip, parameters by epoch, one recovery | `getTip`, `getProtocolParams` | parameters and epoch match, one recovery at a boundary, every call ends |
| rate limiters (`blockfrost/rate-limiter.ts`, `prices/rate-limit.ts`) | tokens, time of the last refill | `acquire` | burst and rate in every window of real time, however far the wall clock is set back; what it is put forward counts as time |
| Blockfrost client (`blockfrost/client.ts`) | two nested retry counters per call | `get`, `getOrUndefined`, `submit` | a submission goes out once, reads stay in their budget and honour Retry-After |
| fan-out (`blockfrost/concurrency.ts`) | a shared iterator, an abort flag | `mapWithConcurrency` | complete or failed, no new work after a failure |
| Koios client (`koios/client.ts`, `koios/schema.ts`) | the learned body limit; walks of pages | packing, batches, paged reads | bodies fit and are few, results are whole, a page boundary loses and repeats no row |
| Blockfrost UTxOs (`blockfrost/account.ts`, `addresses.ts`, `blocks.ts`) | repeated scans, block lookups | `getAccountUtxos`, `getUtxosByAddresses` | nothing that stayed unspent is missing; a source's outputs are those of one moment, unless one came back in another block |
| named transactions (`koios/tx.ts`, `blockfrost/tx.ts`, `tx-info.ts`) | none | `getTxStatus`, `getUtxosByRef` | a status and a spent state were true at some moment of the call |
| histories (`blockfrost/tx-info.ts`, `koios/addresses.ts`, `koios/tx-info.ts`) | a cursor or stream per address | `getTxHistory`, `getTxHistoryByAddresses` | paging forward delivers each transaction once |
| pools (`koios/pools.ts`, `blockfrost/pools.ts`) | a ranking and pages per epoch, shared scans | `getPools` | the pages of one epoch are pages of one ranking, nothing registered throughout is missing |
| DReps (`koios/governance.ts`, `blockfrost/governance.ts`) | the membership, one shared refresh | `getDreps` | a page shows only DReps that were registered during the call, and all of its slice that were |
| proposals (`koios/governance.ts`, `blockfrost/governance.ts`) | none | `getProposals` | a status and a tally are the row's own and were true during the call, a page is the slice of one list |
| rewards and addresses (`koios/account.ts`, `blockfrost/account.ts`) | the caller's cursor | `getRewardHistory`, `enumerateAccountAddresses` | a wallet that pages has every entry once, or an error at the bound |
| token metadata (`koios/assets.ts`, `blockfrost/assets.ts`) | one entry per subject | `getTokenMetadata`, batches | an asset answers with metadata of its own, in the caller's order |
| token pools (`prices/geckoterminal.ts`) | in-flight map, cache entries | batch and single lookups | one lookup per subject, no failure cached as "no market" |
| price figures (`prices/geckoterminal.ts`, `coingecko.ts`, `decimal.ts`) | cached pools, candles and quotes | activity, history, quotes of ada | figures of the deepest market, of one market and of the whole window; siblings of a broken token keep theirs; a quote is as old as it says |
| price calls (`prices/http.ts`) | a timeout per call | `fetchJsonOrNotFound` | a call that is paced is sent |
| remote configuration (`remote-config/index.ts`) | the last good document | `get` | never ancient, never backwards, failing only in a real outage |
| address discovery (`http/routes/addresses.ts`, `koios/addresses.ts`, `blockfrost/addresses.ts`) | the groups still to probe, one counter for all workers | `filter-used` | the answer is what the chain has seen, in the caller's order |
| configuration (`config/index.ts`) | none | `loadConfig` | a proxy entry trusts whom it names, half a credential stops the start |
| HTTP server (`http/server.ts`, `http/logging.ts`, `http/routes/*`) | the limiter's count per address | requests, error handler, log | one budget per caller, a wallet is named in no error and no retry line, except where the caller's own URL is repeated; no stake address or transaction in the path that is logged |
| process (`index.ts`) | listening, closing, the backstop timer | start, signals, `close` | a request is dropped only after the grace period |
| release job (`.github/workflows/release.yml`, `scripts/check-release-gate.mjs`) | tags and releases on GitHub | tag, release, rollback | a release of a commit that is not the head is taken back, and nobody else's tag; it stays when the answer to its POST is lost, each round of the deletion fails or the runner dies |
| release pull request (`scripts/assemble-changelog.mjs`, version checks) | fragments, changelog, version | assemble, compare | each change is told once, versions ascend |

How they meet: the routes call the cached provider, which calls the driver the
factory chose; the driver calls its client; the Blockfrost client takes a token
for every request it sends; the cache is shared by the provider, the prices and
the remote configuration; the process accepts and drops the requests of all of
them. The release job and the release pull request meet in the version a commit
carries.

The hard behaviours are interleavings (concurrent readers, batches, retries),
reordering (a late load, a slow fetch, a 413 of an abandoned round), an
upstream that moves while it is read (new blocks, spent outputs, rollbacks,
epoch boundaries, lagging instances), partial failure, timeouts against pacing,
and the wall clock.

## 2. The modules and the code

**MemoryCache** is `createMemoryCache`. A `read` is up to three steps: the call
(`ReadHit`, `ReadJoin`, `ReadStart`), the `then`/`catch` handler
(`LoadResolves`, `LoadRejects`) and the `finally` handler (`AttemptFinally`),
which runs strictly later; `CallerReturns` ends the caller. A batch peeks and
later writes with `set` or `setIfGeneration`. A value is abstracted to its
birth: how many clears had happened when it was requested. A key is a sequence
of segments, so `startsWith` is the prefix order. `UnguardedKeys` are the ones
`geckoterminal.ts` stores with plain `set`.

**TokenBucket** is both rate limiters. The level is in milliseconds of refill,
so fractional tokens are exact, and time is relative (`ahead` = now - last), so
a clock that is set back makes it negative and one that is put forward refills
the bucket. `ideal` is a ghost: a bucket on real time that is charged for every
grant and credited, like the code's, with what the clock was put forward. **BlockfrostClient** extends it with
the two retry loops. **WorkerPool** is `mapWithConcurrency`. **FanOut** composes
the three as `filterUsedAddresses` does: a worker of the pool is a client, its
call runs through the retry loops, and when it ends the worker pulls the next
address and starts that call in the same turn; other clients compete for the
same bucket. Synchronous pieces stay in one piece: no other step falls between
the starts of the workers, and time does not pass while a promise job waits.

**PriceFetch** extends TokenBucket with the calls of the price client, whose
timeout starts before their turn. **TokenPools** is the batch resolver of
`geckoterminal.ts` with its in-flight map; a 404 of a whole multi-token call, which
caches "no market" for every subject of the chunk (400-433), is sent by the model's
upstream only when none of them is indexed. **PriceFigures** is what is made of a
pool: `pickMostLiquidAdaPool` over the pools of a page, the activity of the last
24 hours from the pool itself, longer windows and charts from its candles, which
are cached by pool, size and limit; the market, the candles and the day move
while calls run. **AdaQuotes** is `getAdaPrice` and the route that asks for it, in
the caller's currencies, with the moment of the oldest quote. **Prices**
instantiates these three, as `createPriceProvider` does, and holds `decimal.ts`:
numbers as digits and an exponent, the decimal a sequence of digits around a
point.

**ProtocolParams** is `withCache`. The cache appears as one entry and one
coalesced load per key; the chain is a clock with epochs of at least `MinEpoch`,
and a response carries the epoch of some moment between request and response,
from an instance that may lag by `lag` epochs.

**PoolList** is `getPools`: the scan (keyset pages in Koios, `collectPages` in
Blockfrost), the ranking by stake and the page, each kept under the epoch the
cached tip names, while pools register and retire and the epoch ends between
any two responses. **DrepList** is `getDreps`: a membership that may be as old as
its window, the shared refresh of it, and the hydration that checks every row of
a page again. **Proposals** is `getProposals`: Koios answers a page in one response
and asks for the tally of every row at once, Blockfrost walks the list by page
number and asks for the details of a few rows at a time, while proposals are
submitted, voted on and decided. **TokenMetadata** is the metadata of a batch of subjects: the
entries held and missing, the map of a policy that may file an asset under the
text or the hex form of its name, CIP-68 datums and the registry. What a row
says is data; which row is shown, and from which moment, is the model.

**CachedReads** instantiates ProtocolParams and these four: a behaviour is about
one of them, since they keep their entries under keys of their own; `driver` is
chosen initially.

**KoiosPacking** is `packBySize` (a fold over item sizes) and `packAdaptively`
with `read`'s retries; instances of the upstream may have different caps.

**KoiosPaging** (one `batchAllPages` in keyset mode, in offset mode, or in
offset mode with a second walk) and **BlockfrostUtxos** (scans until two agree,
block lookups, the retry after a rollback) are the two drivers of one read.
**TxLookups** is `getTxStatus` and `getUtxosByRef` of both drivers: Koios answers
from one row, Blockfrost from several reads between which a transaction may be
broadcast, confirmed, spent or rolled back, among them the walk over the address
of a collateral output. **AccountLists** is `getRewardHistory` of both drivers, called again and
again with the last epoch the wallet has, and `enumerateAccountAddresses`, from
which Blockfrost's history starts. **WalletHistory** holds what the two history reads
share: the growing chain, the transactions of a wallet, the client that pages with
`afterBlock`, and what it is promised; **BlockfrostHistory** (cursors and rounds) and
**KoiosHistory** (an incremental merge of ordered streams) extend it.
**ProviderReads** instantiates the four, both histories and
KoiosPacking: `driver` is chosen initially, as the factory does, `what` says
which read the behaviour is about (they share nothing but the client), and the
properties are the contract of the port.

**RemoteConfig** is `createRemoteConfig` over the cache's `read`, or over
`noCache`. **Shutdown** is `main` and `stopGracefully`; Fastify's `close` is
external. **Service** extends the first and instantiates the second: the same
requests, one clock, so a stop meets a fetch under way.

**Front** is `loadConfig` and `buildServer`. Of the first it has above all
`parseTrustedProxies`: an address is a short sequence of bits, and the IPv4-mapped
block is a prefix of the long ones, so every spelling of a range is an entry. Of the
second: a request has hops, the limiter charges the first one that is not trusted, an
error becomes a status and a text, and a text is the set of identifiers in it. An
identifier is spelled: its head, alphabet and length, whether the Byron decoder takes
it, and whether it runs into another word. The patterns of `http/logging.ts` look at the
spelling only, and the properties at what is spelled. A path segment is a word with its
layers of escapes and what stands beside it, and is judged pass by pass.
**Discovery** is `filter-used`: the inputs are told apart, the addresses looked up
one by one, the credentials probed in groups that are split, by workers that
take groups off one counter, while the chain sees more addresses. Service
instantiates both beside the process.

**ReleaseGate** is the release job: one action per request to GitHub, each of
which may fail, or be done and lose its answer; between two of them main moves,
others make and delete tags and releases, and the runner may die. **Changelog** is
`assemble-changelog.mjs` with the moments at which it may be killed, and
the version comparison. Its release manager deletes what a killed run left before the
version is raised, although the message (141-145) names raising it first: over leftovers
that would tell their changes twice; **Release** instantiates both.

Every module states a `TypeOK` for its reader. Those of the modules with proofs
are proved (`CacheTypes` and the first conjuncts of the other invariants); the runs
spend their properties on what can really go wrong.

## 3. The runs

All bounds are constants; each row says why they are enough.

| run | properties | what the instance contains |
|---|---|---|
| MemoryCache | NoResurrection, ReadAfterClear, OneLoadPerGeneration, ServedWithinWindow, NobodyIsStranded, EvictsOldestUsable | 2 keys in 2 namespaces for 1 place, 2 callers, 2 attempts, 1 batch, 2 clears of any name, 3 units of time (TTL 1, stale window 1). An attempt can be disowned, replaced and finish late, an entry can be evicted, expire and be served stale. |
| MemoryCache_scoped (violated) | GuardedWriteLands | the token of the scoped view |
| CachedReads | OneRecovery, AnswersAreCurrent, PagesOfOneRanking, RowsWereTrue, OwnMetadata, EveryCallEnds | Parameters: 2 callers, 2 recoveries, one epoch boundary at time 3 or later, 6 units of time (a TTL, a read and an epoch fit after the boundary), lag 0 or 1. Pools: 3, of which 2 are registered at first, one change, 2 epochs with different rankings, 2 askers for pages of 1, 2 upstream pages of 1 and the probe. DReps: 3, one change of standing, 2 readers, the same pages. Proposals: 3 and 1 more, one of them at any stage, 2 events during the call, a page of 2 at offsets 0 to 2, 3 upstream pages of 1 and the probe, so that a walk ends short, at the bound and past it. Metadata: 3 names, the hex form of one being the text of another and one that is no text; every small policy map, 2 batches (one with a repeated subject, one out of order), one edit upstream |
| KoiosPacking_shared (violated) | RepackedBeforeGivingUp | 2 runs refused by one instance |
| ProviderReads | NothingMissing, NothingInvented, LookupsWereTrue, BodiesAreExact, EveryReadEnds | Koios: up to 4 rows, pages of 1, bound 3, 2 attempts. Blockfrost: 3 outputs of one account, 3 blocks with rollback, pages of 1, up to 2 pages and the probe, 2 scans, 2 lookups, 2 rounds. Named transactions: 3, of which 2 with a collateral output, pages of 1, up to 2 pages, 2 events upstream during the call. Rewards and addresses: 5 entries of 4 epochs, 2 pages of 2 and the probe (the last entry is past the bound), 2 calls. Packing: 2 runs over 4 lists that need one body, two bodies, or a repack that fails, caps 4 and 5 under a limit of 7, 2 attempts; `packBySize` over all 121 lists of up to 4 items at every limit. Histories: every distribution of 4 transactions over 3 blocks and 2 sources (one of them may be in both), pages of 2 over list pages of 3, both drivers, chains that are quiet during a read and chains that are not; of these only safety is claimed |
| TxLookups_sliding (violated) | SpentWasSpent | the walk over the address of a collateral output, 3 pages |
| BlockfrostHistory_growing (violated) | NothingSkipped | 2 addresses while a block arrives |
| PriceFetch_batch (violated) | PacedCallGoesOut | 5 calls, burst 2, a timeout of two intervals |
| Prices | PoolsAreTrue, PricesAreTrue, DecimalsAreExact, EveryoneEnds | Pools: 2 batches and a reader over 2 subjects, chunks of 1, every market. Figures: 3 pools of 2 tokens (two of one token, so the deepest one changes), each a plain, a token-quoted or a broken one, reserves up to 2, two days and at most one trade, the 24 hours, a window of two days and a chart of one, entries that expire at any time. Quotes: 2 currencies of which one has no price, 2 callers, 3 half-seconds. Decimals: up to 4 digits of 0, 1 and 9, exponents on both sides of each bound of the exponent form |
| Service | DocumentsStayCurrent, FailsOnlyInOutage, StopsWithinGrace, ConfigSurvivesStop, RunsAsConfigured, OneBudgetPerCaller, NothingPersonalLeaves, DiscoveryIsExact | Process: 2 configuration requests and 1 other client, again and again; 2 documents, TTL 1, stale window 2, timeout 1, grace 2; with the cache and without. Front: IPv4 of 3 bits behind a mapped prefix of 3, the floor at 2, every entry with every width, 5 lists of proxies, every combination of credentials; 2 callers with 2 claims, behind the proxy and not, a budget of 2; an identifier of each kind and one that another word runs into, every pair of them in a text, up to 4 layers of escapes. Discovery: an address, 7 credentials and a second spelling of one, three groups of up to 3 for 2 workers, one use while the request runs, from every set of used ones |
| FanOut | WithinBudget, SendsWithinBudget, HonorsRetryAfter, ResolvedIsComplete, NothingStartsAfterAbort, BatchSettles | 3 addresses, 2 workers, 1 submission, burst 1, 2 ms per token, the clock set once, 1 ms back or forward, 2 attempts with 1 resend, Retry-After within and over the cap |
| Release | ContractFollowed, StaleIsTakenBack, OwnTagStays, SaidOnce, VersionsAscend | 3 jobs over 2 commits and 2 versions (both commits may carry the same one), 3 rounds of a rollback, 2 steps of others and 3 failed requests or dead runners; 2 fragments, one with every text of up to 3 lines and the well-formed ones of 4; versions of up to 2 prerelease identifiers of every kind |

Runs over symmetric sets use symmetry only where every property is an
invariant or an action property; runs with a liveness property use none.
`CHECK_DEADLOCK FALSE` stands where the system really stops: all runs of a
Koios batch ended, a read ended, the process exited, no job is left.

A composition of parts that share nothing (CachedReads, ProviderReads, Prices,
Service, Release) chooses the part initially, and a property about several of
them is the conjunction of what each promises; PROJECT.json has a mutant for
every conjunct that can fail on its own.

Bounds that only cut the instance: `MaxNow`, `MaxClears`, `MaxEpoch`,
`MaxVersion`, `MaxBlock`, `MaxClockSteps`, `MaxStep`, `MaxDay`, `MaxReserve`,
`MaxTrades`, `MaxTime`, `MaxUses`, `MaxJobs`, `MaxOthers`, `MaxFaults`. Counters of the code
(`ReadAttempts`, `ConsistencyScans` and so on) are small but at least 2, so a
retry that follows a retry happens.

What the properties say that a test would hardly reach, for the parts that are
largest:

* Cache: `NoResurrection` compares an entry with the clears that covered its key
  since it was requested. It holds through the check of `generationFor` even if
  the load was joined, disowned and re-registered. `OneLoadPerGeneration` fails
  if `finally` deletes by key instead of by promise.
* UTxO reads: `stable` is the set of outputs that were there throughout the
  read; `NothingMissing` needs the second walk in offset mode and the keyset
  cursor in the other. An offset walk without verification (`mode = "once"`) is
  used only for reads whose result may be incomplete and is exempt from it.
* FanOut: `SendsWithinBudget` charges an ideal bucket at the moment a request is
  sent, for first attempts, retries and resends of all calls together.
* Service: `ConfigSurvivesStop` relates two timeouts in two files: a fetch ends
  within `TIMEOUT_MS` (10 s), which is less than `SHUTDOWN_GRACE_MS` (15 s), so a
  configuration request is never the one the backstop drops.
* Prices: `PricesAreTrue` compares an answer with the market at some moment since
  its oldest ingredient was read: candles of one pool, a sum over exactly the
  days of the window, a quote no younger than it says, and a healthy token of a
  batch in the answer whatever is wrong with its neighbours.
* Service: `OneBudgetPerCaller` counts what a caller was let in, not what the
  limiter counted under some address. It is about callers whom no entry of
  `TRUST_PROXY` names as it is written, whatever the parser made of the entry; a range
  of the other notation that holds every IPv4 caller is among the lists, and has to be
  rejected.
* Service: `NothingPersonalLeaves` separates what a word is from how it is spelled. It
  claims stake addresses and transactions for a path segment, as `scrubSegment` does,
  and all four kinds for errors and retries, when they stand alone. What it leaves out
  is in section 6.
* Service: `DiscoveryIsExact` is two bounds, what was used before the request and
  what is used at its end, since the halves of a group are probed later than the
  group.
* Release: `ContractFollowed` replays the two decision functions of the checker
  (`tagDecision`, `releaseDecision`) against what the job leaves when nothing
  disturbs it; `OwnTagStays` and `StaleIsTakenBack` are about what is left when
  something does.

## 4. Fairness

A request settles, because every one carries `AbortSignal.timeout`; a timer that
is due fires; promise jobs run; time passes. These are the only assumptions, as
weak fairness of the single steps. Nothing is assumed of what upstream answers
(it may fail for ever), of clients, of signals, or of which sleeper gets a
token. `BatchSettles`, `EveryReadEnds`, `EveryCallEnds`
and `EveryoneEnds` therefore rest on the bounded retry counters of the code.
ProtocolParams has the upstream's timeout as `LoadMax`: time does not pass while
a read is older than that. `EveryCallEnds` is about the tip and the parameters;
of the lists and the metadata only safety is claimed. `EveryReadEnds` leaves the
histories out, and `EveryoneEnds` is about the batches and readers of TokenPools.
Of discovery, of a job of the release and of a request to the server only safety
is claimed: each is a bounded number of steps, but an upstream that keeps
changing is not what their properties are about.

## 5. What is proved

Each theorem is `Spec => ...` for the specification of a run and a property that
run checks (`PoolScansAreWhole`, `KoiosReadsStayWhole`, `BlockfrostReadsStayWhole` and
`AccountListsStayWhole`: parts of one), so TLC shows it on a small instance and the proof for every value of
the constants. The assumptions are those the modules name (`NamesAssumption`,
`PolicyAssumption`, `BucketAssumption`, `ClientAssumption`, `PoolAssumption`,
`FanAssumption`, `CachedAssumption`, `ConfigAssumption`, `ServiceAssumption` with
`FrontConstants` and `DiscoveryConstants`, `ReleaseAssumption` with `GateConstants` and
`ChangelogConstants`, `FirstStatesAssumption`, `PricesAssumption` with `PoolConstants`,
`ReadsAssumption`, `PackingAssumption`): prefixes have a root,
durations and counts are natural numbers, a bucket holds at least one token, the
configuration's fetch times out before the grace period ends (10 s and 15 s in the
code), the prefix floor of `TRUST_PROXY` is shorter than the mapped block, the
commits of main, the pools (of a market they are 1 to their number), the DReps, the outputs and the transactions are finite
sets, rewards are listed in the order of their epochs (`order=asc`), a page is no larger than the bound on the rows of a read (1,000 and 100,000), and the standings TLC
starts from are ones a DRep or a proposal can have. The lists to pack are of lengths in
bytes and one of them is the longest; a version is three numbers and a list of
identifiers; a group of credentials holds at least one, and a worker probes it.
The bounds that only cut TLC's instance
(`MaxNow`, `MaxEpoch`, ...) are constants too, so a proof covers any bound.
None of the properties is inductive alone; what each invariant adds is the
argument.

**MemoryCacheProofs**: `CacheTypes`, `ClearsAreFinal` (NoResurrection),
`ReadsSeeClears` (ReadAfterClear), `LoadsAreCoalesced` (OneLoadPerGeneration),
`AnswersWithinWindow` (ServedWithinWindow), `ReadersAreAnswered`
(NobodyIsStranded). The invariant `IInv` adds
- `Generations`: clear generations are bounded by their counter, and the maxima
  that `generationFor` takes exist;
- `OldTokens`: the generation an attempt or batch carries is no later than its
  request, so passing the check proves that no related clear came after it;
- `Registered` and `CurrentIsRegistered`: an attempt is registered only while no
  clear has covered its key, and a loading attempt of the current generation is
  the registered one;
- `DistinctGenerations`: two attempts of one key that are loading carry
  different generations;
- `Deadlines`: an entry's deadlines count from the moment it was stored;
- `Waiting` and `Settled`: what a waiting caller's attempt owes it.

There is a lemma per action (`LoadResolvesPreserves`, `ClearPreserves`, ...), and
`StepInvariant` puts them together. `EvictionSparesTheNew` (EvictsOldestUsable) is
the action property. The model says what stays by counting the keys that were
inserted after a key; that this leaves at most `maxEntries` (`FewFollow`) holds
because insertion is a strict total order, and `EvictInv` adds that it is one
(`Ordered`; `OrderPart` and `OrderGrows` keep it) and that a load under way
carries no value yet (`Pending`). It is stated for `maxEntries` above 0: with 0,
which the code accepts, a value that was just stored is evicted at once.

**FanOutProofs**, from the parts to the composition:
- `BucketBudget`. `WithinBudget` says nothing about the code's bucket; `Conforms`
  does: what the bucket would hold after a refill is at most what the ideal bucket
  holds. Time that runs backwards only lowers the left side, time that passes and a
  clock that is put forward raise both (`TimePasses`), and a grant follows its own
  refill without an await, so both drop alike. A step forward of the clock therefore
  costs the upstream as many requests as that much time would, at most one burst.
- `ClientBudget` and `ClientHonorsRetryAfter`. The client's allowance is charged
  when a request is sent, the bucket when a token is granted; `Paced` says that the
  allowance is ahead by one token for every caller that was granted one and has not
  sent. `CallsFit` bounds what a call has sent by the positions of its two loops and
  ties an embargo to the wait it stands for. `ClientImplementsBucket`: every step of
  the client is a step of its limiter or none.
- `PoolSafety` and `PoolStopsOnFailure`. `Accounted` follows every entry the iterator
  handed out: as long as nothing was rejected it is in the results or in some
  worker's hands; a worker that returned saw the iterator exhausted or the flag up.
- `FanOutImplements`: a batch through the client implements the pool and the bucket
  (their specifications, step by step), and from this and the client's invariant
  `FanOutBudget`, `FanOutHonorsRetryAfter`, `FanOutSafety` and
  `FanOutStopsOnFailure`. So the rate does not depend on how many workers, retries
  and other callers there are.

**CachedReadsProofs**: `OneRecoveryAtATime` (OneRecovery) and `AnswersStayCurrent`
(AnswersAreCurrent). An answer is judged by when its call began, but is a value that
was read before, for another caller. `ParamsInv` therefore dates everything:
`Fresh(e, s)` says that epoch e was not over at time s; a cached tip is fresh as of
its expiry less its TTL and one read (`CacheFits`), a caller that waits or is done
is fresh as of its call less the window (`CallersFit`), a read under way began no
longer than a timeout ago (`Reads`), and epochs end at most once in `MinEpoch`
(`Chain`). `OnlyRegistered` says that a recovery under way is the registered one.
`AnswerNotBehindTip` is stated for epochs that outlast a read (`MinEpoch >=
LoadMax`): the second tip of a recovery is then at most one epoch ahead of the
first. An earlier form asked for twice that; the proof showed it was not needed.

`PagesStayOfOneRanking` (PagesOfOneRanking) and `PoolScansAreWhole` are about the pool
list, for any finite set of pools. A ranking is a sort, so the proofs first show that
there is one: the place of a row is the number of rows up to it, and in a finite set
with a strict total order the places are 1 to its size, each taken once, because an
injection between sets of one size is onto (`PlacesTaken`, `PlaceFound`). The prover
cannot expand `SortSeq`, which is why PoolList states its orders by places
(`InOrder`, `Ranked`). `RankedIs` says what a ranking holds, `ResponseIs` what one
response of the list does. The invariant `PoolsInv` says of a scan that it began when
the epoch of its key had and, on Koios, that its ids ascend and it has whatever was
registered throughout, as far as it has come (`ScanFits`, `KeysetScan`); and that a
page under an epoch is cut from the ranking of that epoch, which is still there,
wherever the page is by now: in a read, in the cache, with a caller (`PagesFit`).

`RowsStayTrue` (RowsWereTrue) joins this to the DReps and the proposals.
- `DrepsInv`: the ids of a Koios walk ascend, and of the DReps registered throughout
  it those up to its cursor are in it and no others, unless it ended short
  (`WalkFits`; it holds of the shared refresh and of a reader's own walk alike, and
  `WalkIsWhole` draws the count from it). What a reader has heard of a DRep by now,
  from the list or from `drep_info`, was so during its call (`ReaderFits`), also when
  the membership it cut its page from is older than the call.
- `ProposalsInv`: a walk by page numbers holds the newest proposals, as many as its
  pages (`WalkedSoFar`), so that the slice of it is the slice of the whole list
  (`WalkEnds`, by `SameSlice`); each part of a row that is there belongs to the row in
  its place (`RowsFit`), whichever lookup returned first. That the status by
  precedence is the latest decision (`StatusOfFields`) holds because `Fates` has no
  history in which a later field has lower precedence than an earlier one.

**PricesProofs**: `PoolsStayTrue` (PoolsAreTrue), for any numbers of subjects, of
batches and readers that overlap, and any size of a chunk. An answer may reach a batch
from its own chunks, its fallback, the cache, or another batch that had registered the
subject. `LookupsInv` says that each of these places holds what the full list says, and
that the registrations of a batch are exactly what it claimed (`Registrations`), so
that what is heard through one is of that subject and no two batches fetch one. Of
what a batch claimed, all that is in no outstanding chunk and not left to the fallback
was answered (`BatchFits`); so when the last chunk is in, what is missing goes to the
fallback and nothing is written as having no market for want of a look
(`ErrorsSettle`, `SettledFits`).

The other two theorems are about what recursive functions compute. **SequenceLemmas**
has what they need, and what the packing, discovery and the version comparison need
below. The principle of induction has an operator parameter, which the
provers cannot instantiate; `SetInduction` states it of a set of numbers instead, from
the well-foundedness of `<`. `FoldDefined` says that a fold from the left exists, from
which each fold is unrolled one element at a time (`PickFolds`, `DedupeFolds`,
`ListedFolds`), and `FlattenOptional` that the concatenation of sequences of at most one
element has those elements, in order; `ConcatHolds` says it of pieces of any length,
`Sums` and `PieceSums` say it of their sums. A loop that returns at the first place that
decides is a recursive function from that place on: `LoopExists` says that there is one
and `LoopDecides` that it finds the place (`FirstOf`).
- `DecimalsStayExact` (DecimalsAreExact), for digits and exponents without bound: what
  String prints and what `expandExponential` makes of the exponent form spell the same
  number (`PlainFits`, `ExpandedFits`), and stripping takes no digit but zeros
  (`CutFits`).
- `PricesStayTrue` (PricesAreTrue), for any finite number of pools, any batches,
  windows, calls and requests. `QuotesInv`: an answer fits the key it is cached under,
  whoever's request loaded it. `FiguresInv`: a cached pool is a market of its subject
  (`MarketOf`), cached candles are consecutive days of the pool their key names, ending
  no later than today, and reaching back the whole window or to the pool's first day
  (`CandlesFit`), and the answer of a call that is done is what its own pools and candles
  say (`CallFits`), however the market has moved since. From the folds,
  `PickIsDeepest`: the pick has no deeper rival; `DedupeKeepsFirst`: a subject is kept
  once and where it was asked for first; and `AnswersArePlaced`: the entries of an answer
  come from subjects in that order, none that has one is missing. So a figure spans its
  window (`WindowSpans`), and a healthy subject is in the answer whatever its siblings
  are (`DoneKeepsSiblings`).

**ProviderReadsProofs**, for any rows, transactions and page sizes.
- `LookupsStayTrue` (LookupsWereTrue), from `TxsInv`: while a call runs, what it
  remembers of a transaction holds the place the transaction is in now, so whatever
  the chain or the mempool answers is a place it was in during the call; and a status
  that has come as far as the mempool remembers a moment at which the chain did not
  have the transaction (`StatusFits`), which is what makes "unknown" true though the
  two are asked one after the other.
- `KoiosReadsStayWhole` (the Koios part of NothingMissing and NothingInvented), from
  `PagingInv`. A walk by keyset has the rows up to its cursor that were there
  throughout (`WalkFits`), whatever is inserted or spent around it. A walk by offset
  promises no such thing, and that two of them agree is not enough by itself: both
  could miss one row. `SecondFits` is the argument. When the first walk ends, it has as
  many different rows as upstream counts, so either they are all there and are the
  whole table (`SameSizeHolds`), or one of them is gone already; a spent output never
  comes back, so the second walk cannot read that one and the two differ.
  `PageIs` says what one response holds; as for the rankings, the order of a list is
  stated by places (`PlaceFound`).
- `BlockfrostReadsStayWhole` (the Blockfrost part of the two: NothingMissing and
  SnapshotOfSource), from `UtxosInv`, for any chain, number of sources, pages, walks and
  attempts. A walk under way is in step with the listing, row by row, or one of its rows
  is gone for good (`RowsFit`, `Lost`): a new output comes last and moves nothing
  (`RowAdded`), and an output that leaves moves only what comes after it (`RowRemoved`),
  so a walk falls out of step just when a row it holds leaves. A walk that ends in step
  is what upstream holds now (`WholeNow`). One that lost a row to a spend holds an output
  that no later walk can read, so the two differ; one that lost a row to a rollback has
  every output that stayed, because the rows of the newest block are the last
  (`RowLeaves`), and a later walk that agrees has read the same output in another block
  (`PrevFits`, `WalkEndsKeeps`).

  The attempt found SnapshotOfSource, as it was, to be false outside TLC's bounds. With
  one row to a page, let the first walk read y and x; x is rolled back, w and z are made,
  and the walk reads z in the third place and ends. z and w are rolled back. The second
  walk reads y; y is spent and w and x are made, and it reads x in the second place; z is
  made again and read. Both walks are y, x, z, and the blocks of the second are all found,
  but the three were never unspent together (TLC replays it: four outputs, seven blocks).
  The property now excepts a source of which an output came back in another block
  (`CameBack`); that nothing which stayed is missing, and that every output returned was
  unspent at some moment, needs no exception.
- `AccountListsStayWhole` (the part of the two about rewards and addresses), from
  `AccountInv`, for any list, any number of calls and whatever is paid between two
  responses. Those of the epochs up to one are the first of the list (`PaidAreFirst`), so
  the pages read are its beginning however it grew meanwhile (`PagesFitCall`), and a page
  that is not full ends it (`NextPageIs`). A wallet that has an entry has all of its epoch
  and of those before (`WholeEpochs`): this is why the last epoch is cursor enough, and
  it holds because an answer is made of all that is listed at its last page, never of a
  part (`WalletHasAll`). `AnswerIs` is the sort of the answer, by places again; it makes
  the order in which Koios sends the rows irrelevant.
- `BodiesStayExact` (BodiesAreExact), for any items, limits, runs that share a limit, and
  attempts. `packBySize` closes a body only when the next item does not fit it. So a cut
  into bodies that fit ends no body later than the packing ends the one of the same
  number (`CutBetween`), and there is none with fewer (`PackFits`). `PackingInv` follows
  the runs: the bodies of a run are its items packed to its limit, its requests have
  their sizes, one that resolved has each of them answered, and one that failed with a
  413 was told a limit below the one it was packed to (`RunFits`).

**ServiceProofs**: the process is shown to implement the remote configuration
(`ServiceStepsConfig`) and the stop (`ServiceStepsStop`), so what is proved of a part
holds of the process.
- `ServiceStaysCurrent` and `ServiceFailsOnlyInOutage`, from `ConfigInv`: documents
  are replaced in order (`Replaced`), what a call or the cache holds was current at a
  moment that its deadline bounds (`CallsCurrent`, `KeptCurrent`), `lastGood` dates
  from the last success (`Remembers`), and with the cache there is one fetch at a
  time, so documents only go forward (`Forward`).
- `ServiceStopsWithinGrace`, from `StopInv`: the backstop is set by the first signal
  and time does not pass it.
- `ServiceConfigSurvivesStop`, from both and `AnswersInTime`: no fetch begins after the
  signal, so when the backstop fires every one has timed out.
- `ServiceRunsAsConfigured`, `ServiceOneBudget` and `ServiceNothingPersonal` are about
  the server in front. The lemmas before them are about `parseTrustedProxies`: what
  is recorded of an entry matches exactly the addresses the entry names, in both
  spellings (`RecordedMatches`), and what is accepted is no wider than the floor
  (`AcceptedIsNarrow`), so it never holds the internet. A range of the other notation
  that matches an IPv4 caller is within the mapped block or holds it, and is then not
  accepted, so a caller who is not named is not trusted (`NotNamedNotTrusted`) and is
  charged under its own address (`ChargedToCaller`); the invariant `Charged` follows
  step by step. Each kind of identifier has a pattern it cannot escape when it stands
  alone, at every length its encoding gives it (`Scrubbed`), and a segment that is kept
  was decoded by the pass that kept it and looked at after it (`KeptSegment`).
- `ServiceDiscoveryIsExact` (DiscoveryIsExact), for any lists, groups and numbers of
  workers, from `DiscoveryInv`. A worker never loses track of a credential of its group
  that was used before the request: it is among the found ones or in a group still to
  probe (`KeepsTrack`, `ProbeKeepsTrack`), because the halves hold the whole group
  (`HalvesHold`) and what is used stays used. Every claimed group is through or has a
  worker, and no worker idles before all are claimed (`GroupsFit`); so when none is busy
  all groups are through, and every credential is in a group (`GroupsAre`). The filters
  of the route are concatenations of optional elements (`At`), which give the order
  (`ThoseAre`, `DistinctIs`).

**ReleaseProofs**: `ReleaseOwnTagStays`, `ReleaseTakesBackStale`,
`ReleaseFollowsContract`, from `GateInv`: a job that is about to post saw the tag on
its commit, and one that is about to drop a tag saw no release of it (`TagIsKnown`);
main never returns to a commit (`LeftBehind`); every round a rollback has used up met
a failed request (`RollsBack`); a job knows the id of the release it made, or a lost
answer to its POST has ended it (`Authors`); and an undisturbed job is at a step of a course whose
view of the remote is true (`OnContract`), which ends as `tagDecision` and
`releaseDecision` say (`CourseIsContract`). The one state the course leaves out is a
release without a tag (section 6). The attempt found an error in the model: two
branches of the decision overlapped, and TLC took the first; it is now an IF chain
in the order of the code.

`ReleaseVersionsAscend` (VersionsAscend) is about versions of any length. The loops of
`comparePrerelease` and `compareSemver` return at the first place that decides
(`PrereleaseLoop`, `SemverLoop`), and in the order of semantic versions one is above
another if some place decides so and none before it differs; these agree
(`SemverCompared`) as the comparison of two identifiers is a total order and a list that
ends first is the lower one. `VersionsInv` says that what is compared are versions and
that the one of the base branch is of the grammar.

Only model-checked, and why:
- liveness (`EveryCallEnds`, `EveryReadEnds`, `EveryoneEnds`, `BatchSettles`): fairness
  and ENABLED are out of the prover's reach;
- the fragments of the changelog (`SaidOnce`), the metadata of a batch (`OwnMetadata`),
  and what `NothingMissing` and `NothingInvented` say of the histories. Their definitions
  filter and sort sequences with `SelectSeq` and `SortSeq`, which the prover does not
  expand. Restated by concatenation and by places, as Discovery and PoolList were, they
  are within reach of SequenceLemmas; they are not proved yet.

## 6. Where the code and its words disagree

Each is the counterexample of a run; `PROJECT.json` quotes the words.

* **MemoryCache_scoped.** `scopeProviderCache` passes `generation()` without the
  key. The token is the generation of `''`, which every clear raises; the check
  compares it with the key's own generation. After a clear of any other
  namespace (one clear is enough, and nothing lowers it) no guarded write of the
  view lands. In the shipped process nothing clears the shared cache, so it is
  latent.
* **KoiosPacking_shared.** The 413 handler compares the named limit with the
  client's current limit, not with the one the run was packed to. Of two runs
  refused together, the second finds the limit already lowered and gives up.
* **TxLookups_sliding.** The spent state of a collateral output comes from a walk
  over its address, newest first, by page number. When a newer output on a page
  already read is spent, the wanted one moves up onto that page, is on no later
  one, and is reported spent although it is unspent during the whole call.
* **PriceFetch_batch.** The timeout of a price call starts before its turn in the
  bucket: late calls of a large batch are granted a token and aborted unsent.
* **BlockfrostHistory_growing.** A block that arrives between the reads of two
  addresses of one page is in the page through one of them. The client's next
  cursor is that block, and its other transactions are never delivered.
  NothingSkippedInCalm states the condition under which paging is complete.

Smaller ones were met while modelling; they have no run of their own, and the
models behave as the code does:
* `blockfrost/pools.ts:316-320` keys the pool pages by epoch so that the ranking
  cannot change without the key, and files them under one key for every epoch
  (`pools:page:none:`) when the tip cannot be read. `PagesOfOneRanking`
  is therefore about pages served in the belief of an epoch.
* `blockfrost/addresses.ts:220-222` says that with the retry after a rollback the
  returned outputs share a consistent view. A rollback whose outputs come back in other
  blocks between the walks can leave two walks equal and every block in place although
  the outputs were never there together (section 5). `SnapshotOfSource` excepts it.
* `koios/assets.ts:333-334` says the fallback to the other form of a name only
  runs for an asset without an entry of its own; it also runs when that entry
  has no usable field.
* `collectPages` walks by page number: a list that changes under it may repeat or
  lose a row. `RowsWereTrue` is, of walks, about the keyset ones, and for Blockfrost's
  proposals, newest first, about calls during which none is submitted.
* A 404 on a later page of the rewards answers with an empty history although
  earlier pages were read (`blockfrost/account.ts:285-294`); the model's upstream
  answers 404 only for an account that has no entry.
* `prices/geckoterminal.ts:260-264` says malformed data of one token cannot become
  a 500 or discard its siblings. That is so for 24 hours; for longer windows
  (`activityFromCandles`, line 549) a sum of volumes beyond the range of numbers
  throws and fails the whole batch. `PricesAreTrue` asks for the siblings only of
  the 24 hours.
* `http/logging.ts:19` says the identifiers come out. These stay in, and
  `NothingPersonalLeaves` excepts each: the line of an unhandled error
  (`http/server.ts:153`) is written with its message as it is; a 404 repeats its URL
  to the caller, and so does Fastify's own answer to a URL whose escapes do not decode
  (`FST_ERR_BAD_URL`), which never reaches the error handler; the line of a request
  shows a payment or Byron address that is a segment of the path
  (`http/logging.ts:34-49`; no route takes one there, a caller may still send it), an
  identifier with other text in its segment, and the whole query (70-74). The patterns
  of free text ask for a word boundary, so a caller's own input that runs into other
  characters comes back in a 400 (`routes/tx.ts:126`).
* In the release job, a release that somebody else makes between the state check
  of `delete_created_tag` and the deletion of the tag loses its tag, although
  `release.yml:88-90` says it fails closed instead. `OwnTagStays` is about the
  releases the workflow made.
* `raceDecision` has a release deleted when main has moved since (`delete-release`). When the
  POST is done and its answer is lost, the shell ends at `release.yml:196` without the
  id (or at 204-209 with one it cannot read), and no deletion is tried: one failed
  request is enough for a release of an old commit to stay. A job run again sees main
  moved and stops before it looks. `StaleIsTakenBack` (`NotTakenBack`) names this case
  beside the failed deletions and the dead runner.
* `releaseDecision` (`check-release-gate.mjs:1105`) rejects a release without a tag;
  the workflow makes the tag and then ends in "already exists". A push that has
  nothing to do sets `tag_created` although another actor made the tag meanwhile.
* The workers of `filterUsedPaymentCredentials` have no abort flag: after a failure
  the others go on to the last group (`koios/addresses.ts:309-314`), unlike those of
  `mapWithConcurrency`.

## 7. What is not modelled

* Of pools, governance and assets the search by ticker and the lookups by id: see
  the plan. The decoding of the fields of a pool, a DRep, a proposal, a tally or
  a token is data, and so are the fields of an account's state.
* An order of rewards that separates those of one epoch: the cursor of a wallet
  is an epoch, and AccountLists has the entries of an epoch listed together.
* Hydration of a transaction is one step that succeeds or fails; the mapping of
  certificates, metadata and amounts is data.
* The fields of the tip and the parameters other than the epoch; the shape of a
  request body; the OpenAPI document, which is a constant; the decoding of
  addresses (bech32, CBOR, CRC32), where only the kind of the input is a choice;
  the HMAC of a media URL; CORS headers; ports, levels and default URLs.
* The limiter and the walk over X-Forwarded-For are libraries: Front models what
  the options given to them ask for. A spoofed socket address is not a caller.
* Floating point: figures are small integers, and a sum that overflows is an
  outcome. The history chart of ada is one read whose points are data.
* Two release jobs at once: the workflow's concurrency group serialises them, and
  the checker refuses a workflow without it. Parsing the YAML is left out, and so
  are the checks of the Helm chart.
* Starvation of one caller of `acquire`: the code has no queue, and a sleeper may
  lose every token to later callers. Only the end of a batch is claimed.
* `set` without a generation in `geckoterminal.ts`: an answer may undo a clear of
  its namespace. Nothing in the process clears it; the cache model keeps such
  keys as `UnguardedKeys`, and the guarantees are about the others.
* A reorganisation that un-spends an output between two walks, of Koios by offset or of
  Blockfrost: two equal walks then prove nothing, and the code has no snapshot to compare.
* Without the cache, overlapping configuration fetches may return documents out
  of order; that documents only go forward is claimed of the process with the
  cache.

## 8. The plan

Done, in this order: cache; bucket and client; pool; packing and paging;
protocol parameters; UTxO reads; named transactions; histories; prices;
configuration and process; the lists of pools, DReps and proposals and the token
metadata; rewards and addresses; the release tooling; price figures; the server,
its configuration and address discovery; the compositions ProviderReads,
CachedReads, Prices, Service, FanOut and Release; the proofs of the cache with its
eviction, of the bucket, client, pool and their composition, of the tip and the
parameters, of the lists of pools, DReps and proposals, of the shared pool lookups,
of prices, figures and decimals, of the lookups of transactions, of the paged Koios reads
and Blockfrost's walks, of rewards and addresses, of the packing of bodies, of the process,
its server, its configuration and address discovery, and of the release job and its
version check.

Next:
1. Lookups of pools and DReps by id, and the search by ticker; hydration of a
   transaction in Koios' batches.
2. An abstract read-through cache as a specification that MemoryCache implements,
   and that ProtocolParams, RemoteConfig, TokenPools, AdaQuotes and TokenMetadata
   use.
3. Proofs: the histories of ProviderReads (NothingMissing, NothingInvented), the metadata
   of a batch and the fragments of the changelog, restated without `SelectSeq`.
