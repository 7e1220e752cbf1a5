# TLA+ models of the Veles multi-algorithm mining core

These modules model the mining RPCs in `src/rpc/mining.cpp` and the
per-algorithm header functions in `src/primitives/block.cpp`, and the TLC
configurations here check them. `spec.md` describes the subsystem. Where a
collaborator lives outside `src/` (validation, the block index, the mempool,
the RPC server), it is modelled from the spec. Those definitions are marked
`spec_modelled` in `PROJECT.json`.

## The system

| Part (spec section) | Code | State it keeps | Operations that change state |
|---|---|---|---|
| AlgoRegistry, PoWHasher (4.1, 4.2) | `block.cpp` 30-100 | none: constant tables | none; pure functions of the header |
| ChainWorkIndex (4.3) | outside `src/` | the active chain; `nChainWorkAlgo` per block | connecting a block, reorganisation |
| HashRateEstimator (4.4) | `GetNetworkHashPS`, `mining.cpp` 48-90 | none | none; reads the index under `cs_main` |
| DifficultyView and statistics (4.5) | `GetLastAlgoBlock`, `CountAlgoBlocks`, `CountAlgoBlockRewards`, `getmininginfo`, `getmultialgoinfo`, `getminingstats` (119-179, 272-328, 459-562) | locals of one call | none; `getmultialgoinfo` and `getminingstats` read the index **without** `cs_main` |
| HalvingSchedule (4.6) | `gethalvinginfo` 331-457; the schedule itself is outside `src/` | epochs, halving counter, interval | connecting a block at an epoch end |
| TemplateCache (4.7) | `getblocktemplate` 748-1127 | the statics `pindexPrev`, `nStart`, `pblocktemplate`, `nTemplatePowAlgo`, `nTransactionsUpdatedLast` | a rebuild on a cache miss, and the per-request versionbits edit of the cached block |
| LongPollWaiter (4.8) | `getblocktemplate` 850-894 | the locals `hashWatchedChain`, `nTransactionsUpdatedLastLP` and `checktxtime` | leaving `cs_main`, waiting on `g_best_block_cv`, timeouts, re-entering |
| Generator (4.9) | `generateBlocks` 182-231 | the block count, `nMaxTries`, the extra nonce | assembling, the nonce scan, submitting |
| SubmissionPipeline (4.10) | `submitblock`, `submitheader`, the proposal branch (768-795, 1130-1252) | `submitblock_StateCatcher` registered for one call | dedupe, `ProcessNewBlock`, reporting the result |

How the parts interact:

- Template requests run under `cs_main` and share one cache slot.
- A long poll leaves `cs_main` and sleeps on `g_best_block_cv`. The wait ends in one of three ways:
  - validation connects a block and notifies the condition variable;
  - the mempool counter changes and a ten-second timeout notices it;
  - shutdown: `fRPCRunning` is cleared first, and later `OnRPCStopped` notifies the condition variable without `g_best_block_mutex`.
- The informational RPCs walk the block index backwards from the tip.
- The Generator assembles fresh templates, scans nonces with `GetPoWHash`, and submits through validation.
- `submitblock` hands blocks to validation and listens for its `BlockChecked` callback.

What makes this hard to test:

- **Threads meeting in the long poll.** Blocks, mempool updates and other clients' rebuilds of the shared cache all happen while a thread is released from `cs_main`.
- **Unlocked reads.** `getminingstats`, `getmultialgoinfo` and `gethalvinginfo` read the index while validation changes it.
- **Boundaries.**
  - the `> 5` second age test;
  - back-scans that stop at genesis;
  - integer division and truncation;
  - `uint64_t` arithmetic in `gethalvinginfo`.
- **Liveness** of the long poll, and its behaviour at shutdown.

## Modules

| Module | Models | State (VARIABLES) and actions |
|---|---|---|
| `BlockTemplate` | TemplateCache and LongPollWaiter | `cache`: the statics. `age`: `GetTime() - nStart`. `pc`, `req`, `watch`, `reply` per RPC thread. `tip`, `txUpdated`, `rpcRunning` from the environment. Actions: `GbtRequestFor` (lines 748-870, the request up to the long poll), `LongPollCheck` (the loop condition `KeepWaiting`, read under `g_best_block_mutex`), `LongPollWait` (`wait_until` blocking on the condition variable), `LongPollTimeout` (the `cv_status::timeout` branch and its `MempoolChanged` test), `LongPollReenter` (re-acquire, shutdown check, answer), and inside them `UnknownAlgo`, `Respond`, `NeedsRebuild`, `RebuildTemplate`, `ServeCached`. `PrioritiseTransaction` is the `prioritisetransaction` RPC (lines 566-602), which bumps the mempool counter. Environment actions: `NewTip`, `MempoolUpdate`, `Tick`, and shutdown in two phases, `InterruptRPC` (the flag) and `RPCStopped` (the unlocked `notify_all`, recorded in `stopNotified`). |
| `TemplateService` | what getblocktemplate promises a client | `phase`, `watched`, `reply` per client and the environment's `tip`, `txUpdated`, `rpcRunning`. Actions: `AnswerNow`, `StartLongPoll`, `EndLongPoll`, `NewTip`, `MempoolUpdate`, `StopRPC`. No cache, lock or condition variable. |
| `MCBlockTemplate` | model values for `BlockTemplate` | two clients, two algorithms, one tip change, one mempool update, the age limit scaled to 1 |
| `ChainIndex` | HashRateEstimator, the back-scans and counts, `getminingstats` | `chain`: height to block, where a block is its algorithm, time, proof and subsidy. `stats`: the program counter and locals of one `getminingstats` iteration. `ConnectBlock` and `ReorgTip` model validation. `StatsLastBlock`, `StatsCount24`, `StatsCount7`, `StatsRewards24` and `StatsRewards7` are the unlocked reads of lines 535-559. `GetNetworkHashPS`, `LastAlgoFrom`, `CountAlgoBlocksFrom` and `CountAlgoBlockRewardsFrom` are (recursive) operators that translate the loops. |
| `MCChainIndex` | model values for `ChainIndex` | chains of up to three blocks after genesis, two algorithms, windows of 2 and 3 blocks |
| `Generator` | Generator | `gen`: per thread, the program counter and the locals of `generateBlocks` (`nHeight`, `nHeightEnd`, `nMaxTries`, `nNonce`), the tip the block was assembled on and the tip `IncrementExtraNonce` read, and the number of hashes and blocks so far. `height`, `netBlocks`, `shutdown` from the environment. Actions: `GenerateToAddress` (including the invalid-address error), `LoopTest`, `CreateNewBlock`, `IncrementExtraNonce`, `HashMiss`, `HashHit`, `ScanExhausted`, `SubmitAccept`, `SubmitReject`; environment `NetworkBlock`, `RequestShutdown`. |
| `MCGenerator` | model values for `Generator` | two threads, `nblocks` 2, `maxtries` -1 (wrapping to 3), nonce range 2, one network block |
| `Halving` | HalvingSchedule and `gethalvinginfo` | `rewards`, `epochs`, `interval`, `halvings`: the chain's subsidies and the halving parameters. `rd`: the program counter and locals of one `gethalvinginfo` call. `AcceptBlock` is validation with the epoch update (spec 4.6). `StartHalvingInfo`, the two reads of line 395 in either order (`ReadEndBlockFirst`/`ReadHeightSecond`, `ReadHeightFirst`/`ReadEndBlockSecond`), `ReportEpoch` (one pass of the loop at 398-449) and `EndHalvingInfo`. |
| `MCHalving` | model values for `Halving` | named epochs of one block, interval 1, subsidy 4, 75% target, nine blocks, 2^64 scaled to 2^6 |
| `Submit` | SubmissionPipeline | `index`: the status each block reached in the block index. `tip`. `sb`: per client, the program counter and locals of `submitblock`, including its catcher (`registered`, `found`, `state`). `nullSeen`: the null results per block. Actions: `SubmitBlock`, `Dedupe`, `Register`, `ProcessNewBlock` (validation, from the spec), `Unregister` (with the result of lines 1205-1211 and `BIP22ValidationResult`), `SubmitHeader`, `Proposal`. |
| `MCSubmit` | model values for `Submit` | two clients; blocks `b1 <- b2` and `c1` on genesis, and `bx` whose scripts fail; three calls per client |
| `TemplateVersion` | the versionbits loop of `getblocktemplate` | `cache`: the tip the cached block was built on and the deployment bits of its `nVersion`. `dstate`: the BIP9 state of each deployment. `reply`. `GetBlockTemplate` is the cache test plus the loop of lines 1001-1040 (`RunLoop`, `EditVersion`, `Refused`); `NewTip` moves BIP9 states. |
| `MCTemplateVersion` | model values for `TemplateVersion` | two deployments, one with `gbt_force`; rule sets {}, {dep1}, {dep1, dep2}; three tips |
| `PowAlgo` | `block.cpp` | A header is reduced to two things: whether it has the versionbits top bits, and its algorithm field. It covers `GetPoWHash`'s dispatch, `GetAlgoEfficiency`, and `GetAlgoCostFactor` with the int64 conversion of its total. |

### Correspondence and abstractions

**BlockTemplate**

- **Atomic steps.** A step of a thread that holds `cs_main` is one atomic action. `getblocktemplate` takes `cs_main` at entry (`LOCK(cs_main)`, line 750) and releases it only for the long poll. So the only interleavings inside a request are at lines 873-889, and the model has exactly those.
- **Data.**
  - A tip is a number that grows.
  - A template is the triple (tip it builds on, algorithm, mempool revision).
  - The `longpollid` is the pair (tip, revision) that line 1058 prints.
  - The early answers are one step each: mode checks, proposal mode and node-state errors.
- **Time.** The template's age is counted in seconds and saturates one past the limit. That is all the `> 5` test can tell apart.
- **Long-poll deadlines.** The one-minute and ten-second deadlines are not counted. A sleeping thread may time out at any later step, and the timeout branch then behaves as the code does.

**ChainIndex**

- **A walk is a snapshot.** Each query is evaluated on the chain at the moment it reads `chainActive.Tip()`. Entries behind a tip never change, so a back-walk sees a fixed chain.
- **Work wraps.** The work difference is an `arith_uint256` subtraction, so it is taken modulo `WorkModulus`, which stands for 2^256.
- **The estimate is a pair.** `GetNetworkHashPS` returns the (work, seconds) pair whose quotient the code returns. The early `return 0`s are `NoHashRate`.
- **The getminingstats loop.** It is modelled one iteration at a time for any algorithm. The fixed order of the algorithms does not matter to a single iteration.

**Generator**

- **Steps.** `cs_main` is held only to read the height and in `IncrementExtraNonce`. Every statement of the outer loop is a step, and so is every hash of the inner loop. Other threads and network blocks interleave anywhere.
- **The hash is opaque.** Whether a nonce meets the target is a free choice (`HashHit` or `HashMiss`).
- **Validation** (outside `src/`, from spec 4.9). A block on the tip is connected. A block on an older parent is kept as an accepted side block. A block whose coinbase commits a height other than its parent's is rejected, and then the RPC throws.
- **`uint64_t nMaxTries`** holds `get_int()`'s value modulo `TriesModulus`, which stands for 2^64, so a negative argument wraps.

**Halving**

- **No lock.** `gethalvinginfo` runs with its `LOCK(cs_main)` commented out. Each of its reads of shared state is a step, and so is each pass of the epoch loop, whose bound is re-read every pass.
- **Unspecified order.** The operands of the subtraction at line 395 may be read in either order; both are modelled.
- **Data.** A numbered epoch's name is the pair (halvings, epochs after halving) it is formatted from. Amounts are integers; percentages are left out.

**Submit**

- **Steps.** A `submitblock` call is four steps: dedupe (under `cs_main`), register the catcher, `ProcessNewBlock`, unregister and compute the result. Other clients' calls interleave between them.
- **Signals.** `ProcessNewBlock` is one atomic step. It delivers its `BlockChecked` signals to every registered catcher whose hash matches, as the catcher's filter at line 1141 does.
- **The index.** A block's status is the highest level it reached: header known, data stored, connected once (`IsValid(BLOCK_VALID_SCRIPTS)`), or failed. A block whose scripts fail has no children (an ASSUME); see Not modelled.

**TemplateVersion**

- **The cached block is shared.** `pblock` points into the static `pblocktemplate`, so the loop's edits of `nVersion` persist until the tip changes. The cache key is reduced to the tip; the algorithm and mempool keys are `BlockTemplate`'s.
- **BIP9** (outside `src/`). A new tip may move each deployment one state along. `ComputeBlockVersion` signals the STARTED and LOCKED_IN deployments. `gbt_force` is the constant `Force`.

**PowAlgo**

- Decimal constants are kept in hundredths.
- The double-to-`CAmount` conversion truncates.

## Runs

| Run | Config | Expect | What it shows |
|---|---|---|---|
| `template_cache` | `MCBlockTemplate.cfg` | pass (265k states) | Every template handed out builds on the current tip for the requested algorithm (`TemplateMatchesRequest`). The cache never names a tip without its template, also after `CreateNewBlock` fails (`CacheCoherent`). Shutdown eventually releases every waiter, also one that missed the shutdown notify, through its timer (`ShutdownReleasesWaiters`). The threads implement `TemplateService` (`ImplementsTemplateService`, see Refinement below). |
| `template_shutdown_wakeup` | `MCBlockTemplate_shutdown.cfg` | violation | One thread passes the loop check of line 878 while RPC runs; shutdown then clears the flag and `OnRPCStopped` notifies before the thread reaches `wait_until`, so the notify is lost and the thread stays blocked after RPC has stopped, until its one-minute timer. Spec 4.8 says the long poll exits immediately on shutdown (`LongPollExitsOnShutdown`). |
| `chain_index` | `MCChainIndex.cfg` | pass (87k states) | Suppose the back-scan from the window start finds a block of the queried algorithm. Then `getnetworkhashps` reports exactly that algorithm's work inside the window, for every `nblocks` (including -1, 0 and longer than the chain) and every `height`. |
| `hashps_genesis_fallback` | `MCChainIndex_hashps.cfg` | violation | If no block of the algorithm precedes the window, the scan stops at genesis and subtracts the work of genesis's own algorithm. |
| `miningstats_unlocked` | `MCChainIndex_stats.cfg` | violation | `getminingstats` takes no lock. A block connected between counting and summing makes the average reward exceed every block's reward. |
| `cost_factor` | `MCPowAlgo_costfactor.cfg` | violation | The divisor is 18/6 = 3, not the 18.25/6 that the spec and the comment state. |
| `generator` | `MCGenerator.cfg` | pass (661k states) | A call that returns normally, with tries left and no shutdown, returns all `nblocks` hashes: an exhausted nonce range re-assembles and never ends the call (`ReturnsRequestedBlocks`). Every call returns, whatever blocks arrive (`GeneratorReturns`). |
| `halving` | `MCHalving.cfg` | pass (935k states) | Whatever blocks are accepted during the unlocked call, every `epoch_name` reported is the spec's name for that epoch, so names are unique (`EpochNamesMatchSpec`). |
| `halving_btn` | `MCHalving_btn.cfg` | violation | A block accepted between the two reads at line 395 makes `blocks_to_next_epoch` wrap to 2^64 - 1. |
| `submit` | `MCSubmit.cfg` | pass (199k states) | `submitblock` returns null only for a block validation connected (`NullOnlyIfValidated`). |
| `submit_oneshot` | `MCSubmit_oneshot.cfg` | violation | A call whose own `ProcessNewBlock` refused its block (parent unknown) still holds the catcher when another client's submission connects the same block, and it reports that client's "valid". Spec 4.10 says the observer is one-shot for this submission. |
| `template_version` | `MCTemplateVersion.cfg` | pass | An unsupported non-force deployment is never signalled to a client (`VersionHidesUnsupported`). A LOCKED_IN deployment is always signalled, even after another client's request cleared its bit in the cached block (`LockedInSignalled`). |

Each property of a passing run has a mutant in `PROJECT.json`: a plausible bug in the mapped code that TLC must catch. The mutants are:

- the cache test of the parent code, which ignores the algorithm;
- `pindexPrev` set before `CreateNewBlock`;
- a re-entry that goes back to waiting after shutdown instead of failing;
- no rejection of unknown algorithm names;
- a back-scan that skips its starting block;
- a count loop that never decrements;
- a long-poll timeout that leaves the loop whether or not the mempool changed;
- a nonce loop without its `nMaxTries` test, a `continue` taken as `break`, and no `continue` at all;
- a signed `blocks_to_next_epoch`, and an after-halving counter not reset on a halving;
- a result computed without the inconclusive case, and a raw validation state returned without `BIP22ValidationResult`;
- a LOCKED_IN case that does not fall through, and one that does not set the bit.

Some disagreements met while modelling are single comparisons or readings of one statement, so no run is spent on them. They are recorded with their hazards in `PROJECT.json`:

- `NeedsRebuild` keeps the code's `> 5`, so a template exactly 5 seconds old is served after a mempool change; spec 4.7 says "fewer than 5 seconds". The model keeps the code's bound; no property restates it.
- `getnetworkhashps` (line 115) passes `GetAlgoId`'s `ALGO_NULL` for an unknown name straight to `GetNetworkHashPS`. Both back-scans then run to genesis, the work difference is 0, and the call returns 0 instead of an error. `getmininginfo` and `getblocktemplate` reject the name; spec section 7 says `UnknownAlgorithm` is surfaced as an RPC error.
- A long poll on an unchanged chain and mempool re-arms its timer until shutdown; spec 8 says it returns within its deadline.
- A nonce that meets the target does not decrement `nMaxTries`, so a call may compute more hashes than `maxtries`; spec 4.9 says T is decremented per try.
- `gethalvinginfo` resets `nSupplySinceHalving` before it adds ALPHA's supply, so the first numbered epoch's `supply_since_halving` includes ALPHA.
- A STARTED deployment without `gbt_force` loses its bit in the cached block for every later client once one client that does not support it has been served. This is latent while every deployment has `gbt_force`.

### Refinement

`TemplateService` states what `getblocktemplate` promises a client, without the cache or the threads. A request is answered at once, or it becomes a long poll watching a longpollid. A long poll is answered with `RPC_CLIENT_NOT_CONNECTED` after shutdown, and otherwise only once the tip or the mempool revision has moved past the id it watches. Every template handed out builds on the current tip, from a mempool revision no newer than the current one.

`BlockTemplate` instantiates it as `TS == INSTANCE TemplateService WITH ...`:

- a thread whose `pc` is `lpcheck`, `towait`, `sleeping` or `reenter` is `waiting`;
- `watched` is `watch`, that is, `hashWatchedChain` and `nTransactionsUpdatedLastLP`;
- every other variable maps to itself.

The `template_cache` run checks `ImplementsTemplateService == TS!Spec` as a property. `LongPollCheck`, `LongPollWait`, `LongPollTimeout`, `Tick` and `RPCStopped` are stuttering steps; `InterruptRPC` is the abstract `StopRPC`. The refinement holds because the tip and the mempool revision only grow and shutdown is final: a condition seen when the thread leaves the wait still holds when it re-enters under `cs_main`. The abstract spec carries no fairness, since a long poll on an unchanged chain and mempool waits until shutdown.

### Bounds

**BlockTemplate**

- **Two clients.** That is the least number that lets one thread's long poll interleave with another thread's rebuild for a different algorithm.
- **Two algorithms.** That is enough to make the shared slot ambiguous.
- **One tip change.** It can land while a thread waits, between its check and its sleep, or after a rebuild. A second change adds no new case: the cache test compares identities only.
- **One mempool update.** It separates the two halves of the age test.
- **One client suffices for the lost shutdown wakeup** (`template_shutdown_wakeup`): it needs only the thread and the two shutdown phases.
- **The age limit scaled from 5 to 1 second.** The code only compares the age with the limit (`> 5`), so the ages below, at and above the limit are what matter, and all three occur.

**ChainIndex**

- **Three blocks on genesis, two algorithms.** These are enough for the cases below, which all occur:
  - a window longer than the chain;
  - a window starting at genesis;
  - an algorithm absent before its window;
  - a reorganisation of the tip;
  - a block arriving between two reads of `getminingstats`.
- **Windows of 2 and 3 blocks.** They stand for the 720 and 5040 blocks of `nBlocksTotal24h`/`7d`; only their order matters.

**Generator.** Two threads let one thread's block go stale under another's, a path the properties range over. Two blocks per call let one call both connect a block and see the tip move. A nonce range of 2 with 3 tries lets a range be exhausted with tries left, and the tries run out with a range half scanned. One network block is enough to move the tip during a scan. The run takes about a minute.

**Halving.** With named epochs of one block and interval 1, nine blocks reach epochs halved once and twice, and epochs repeated before and after a halving. Subsidies of 4 or 2 per block against a 75% target make halving a real choice. 2^64 is scaled to 64: only the wrap matters.

**Submit.** A chain of two blocks lets a block arrive before its parent. A second child of genesis makes a fork, and a bad block makes a connection fail. Three calls per client let the same block be submitted twice and concurrently, and again after a header or a failure.

**TemplateVersion.** Two deployments, one forced, and three rule sets cover a supported and an unsupported rule, and a forced one. Three tips let a deployment go from STARTED through LOCKED_IN to ACTIVE.

### Fairness

`BlockTemplate` assumes weak fairness of a long-polling thread's own steps (`LongPollCheck`, `LongPollWait`, `LongPollTimeout`, `LongPollReenter`) and of time (`Tick`):

- a thread that is woken, or whose timer expires, runs again;
- the clock advances.

Nothing is assumed of clients, blocks, mempool updates or shutdown.

`Generator` assumes weak fairness of each thread's steps (`Step(m)`). An RPC thread that has a statement to run runs it; nothing else is assumed of network blocks or shutdown.

The passing runs of `ChainIndex`, `Halving`, `Submit` and `TemplateVersion` check safety only.

## Not modelled

What is left out, and why:

- **`getmininginfo`, `getmultialgoinfo` and `getnetworkhashps` as actions.** They change no state. They combine `GetNetworkHashPS` and `GetLastAlgoBlock`, which `ChainIndex` checks, with values from outside `src/` (`GetDifficulty`, the mempool size). `getmultialgoinfo` reads the tip without `cs_main` for each of its three fields. That is the race `miningstats_unlocked` shows for `getminingstats`, and it is recorded with that run's hazard.
- **The fee-estimation RPCs**: read-only formatting of the estimator.
- **`CBlock::ToString`, the help texts and the RPC table**: pure output formatting and a static command table.
- **The hash functions themselves**: opaque, and named by their algorithm.
- **A wall clock stepped backwards** (line 914). `UpdateTime` is outside `src/`, and the code does not handle a clock step. `BlockTemplate`'s `age` only grows. With a clock stepped back, `GetTime() - nStart` is negative, and a template with outdated transactions is served for as long as the clock is behind. This is recorded as a hazard with no property.
- **Division by a zero `nEpochMaxSupply`** (lines 445-451). It needs the maximum subsidy halved to 0, about 30 successful halvings. The intervals double at each halving, so that point is about 2^30 intervals away. Within `MCHalving`'s nine blocks the subsidy never reaches 0. Halving the initial subsidy in the instance would make the case reachable, but only by changing what a halving means for the other properties.
- **The attribution of pre-versionbits blocks** (`block.cpp` line 35). `PowAlgo` models the hash dispatch. The attribution of a block's work to an algorithm by `nVersion & ALGO_VERSION_MASK` happens in validation, outside `src/`.
- **Descendants of a block whose scripts fail.** `Submit`'s `ProcessNewBlock` marks the failing block and does not move the tip past it. What `ActivateBestChain` does next with that block's children (`BLOCK_FAILED_CHILD`, falling back to another candidate) is outside `src/`. `Submit` therefore ASSUMEs that a failing block has no children.
- **A refinement of `Submit`.** Its promises are about the block index, and every change to the index in `Submit` is validation modelled from the spec. The code's side of a refinement would add nothing to `NullOnlyIfValidated`. What the spec says of the observer, that it is one-shot, does not hold (`submit_oneshot`).
