# TLA+ verification of the StaFi node

StaFi's node is a Substrate chain.  Its own logic is in the pallets under
`src/node/pallets`: relayers carry what happens on other chains into this one
by voting, users bond tokens of other chains and receive *rtokens* for them, an
exchange rate follows the staking rewards, tokens move out again over a
bridge, are traded in pools, mined with and claimed.  This directory models
those pallets in TLA+, and around them what turns them into a running node: the
build scripts that embed the runtime, the service that starts a node, and the
databases of its trie benchmarks.  Small instances are checked with TLC; the
invariants of voting, rate, ledger, bonding, unbonding, native staking, bridge
swaps, pools, mining, the desk and the claims are moreover proved for every
instance with TLAPS.

    tlc -config RTokenVotes.cfg MCRTokenVotes      # one run
    tlapm RTokenProofs.tla                         # one proof module

`PROJECT.json` lists the runs, what each definition translates (`map`), the
mutations each property is known to catch, the hazards and the theorems.

## 1. Inventory

On the chain, all state is storage.  A *call* (dispatchable) runs to its end
before the next begins; concurrency is the order in which relayers, users, root,
offchain workers and the clock get their calls into blocks.  **A call that
returns an error keeps what it wrote before the error**: this Substrate version
gives no dispatchable a storage transaction, and no pallet asks for one.  Most
of the hard cases below come from that, and from calls that are repeated.  Off
the chain, build scripts and node processes really run side by side.

| Component | State | Operations | Modelled in |
|---|---|---|---|
| relayer registries (bridge/relayers, rtoken/relayers, rdexn/payers) | per key: member set, count, threshold | `set_threshold`, `add_relayer`, `remove_relayer` | `Relayers` |
| bridge/common: chains, nonces and resources | `ChainNonces`, `Resources` | `whitelist_chain`, `remove_whitelist_chain`, `add_resource`, `remove_resource`, `transfer_fungible` (called by other pallets) | `BridgeChains` |
| bridge/common: proposal voting | `Votes`; an unused relayer set of its own | `acknowledge_proposal` | `BridgeVotes`, `QuorumExecution` |
| bridge/common: fees, pause and symbol maps | `ChainFees`, `FeesRecipientAccount`, `IsPaused`, resource/symbol maps | setters, `map_...`, `unmap_...`, `swapable` | `BridgeSwap`, `RTokenSeries` |
| bridge/swap | none of its own; moves balances | `transfer_native`, `transfer_rtoken`, `transfer_xtoken`; dispatched by the bridge: the three `..._back` | `BridgeSwap` |
| rtoken/balances, xtoken/balances, rdex/balances | per symbol: balances, total issuance | mint, burn, transfer | `Balances` |
| rtoken/votes | `Votes`; writes the ledger's `LastVoter` | `acknowledge_proposal`, for or against | `RTokenVotes` |
| rtoken/rate | `Rate`, `EraRate` | `set_rate`, `token_to_rtoken`, `rtoken_to_token` | `Rate`; the stored rates in `RTokenLedger` and `RFis` |
| rtoken/ledger | pools, pipelines, snapshots and two lists of open ones, eras, expected active | root's set-up calls; `set_chain_era` and the seven reports | `RTokenLedger`; limits and thresholds in `RTokenUnbond` |
| rtoken/series | bond records, deposit states, swaps, unlocking lists, signatures, nominations | `liquidity_bond`, `liquidity_bond_and_swap`, `execute_bond_record`, `refund_swap_fee`, `liquidity_unbond`, `submit_signatures`, nominations | `RTokenSeries` (bonding), `RTokenLedger` (pipelines, issuance), `RTokenUnbond` (the rest) |
| rtoken/rfis | pools as nominators, unbonding, reports, rates, nominations | root's, validators' and users' calls; the worker's five transactions; `on_finalize` | `RFis` |
| rdex/swap | pool balances and units | create, add, remove, swap, who may provide | `RDexSwap` |
| rdex/mining | graded pools, stakes | deposit, claim, withdraw, emergencies, root's calls | `RDexMining` |
| rdexn/swap and rdexn/signatures | swaps queued by block, payers' votes, signatures | swap, the two reports, root's settings, `submit_signatures` | `RDexnSwap` over `Relayers` |
| claims/rclaim | acts, grants, what was released | acts, mints, claims, for rtokens and rETH | `RClaim` |
| claims/xclaim | claims, claimed, total | proxies, `mint_claim`, `claim` | `XClaim` |
| signature checks | none | which format and schemes a chain's signature is checked in | `Signatures` |
| node service and commands | configuration, keystore, database, tasks of each process | set-up of full and light nodes, end of tasks, subcommands | `NodeService` |
| wasm builder and runner | one workspace and lock, generated files | the two build scripts | `WasmBuild` |
| trie benchmarks | seed database, its copy, overlay | read and write runs | `TrieBench` |
| runtime wiring, chain specifications, RPC, inspect, executor, test harness, other benchmarks | - | - | not modelled, see section 6 |

### How the parts interact

* Relayers of a chain call bridge/common's `acknowledge_proposal`.  It reads
  membership and threshold from bridge/relayers, the whitelist and the
  resources from its own storage, and dispatches the proposal's call, usually
  one of bridge/swap's `..._back`, in the step of the vote that passes it.
* Relayers of a symbol call rtoken/votes' `acknowledge_proposal`.  It reads
  membership, threshold *and count* from rtoken/relayers, writes `LastVoter`
  of the ledger, and dispatches calls of rtoken/ledger and rtoken/series.  A
  decided proposal has no executed state: each further acknowledgement
  dispatches its call again.
* rtoken/ledger takes a snapshot of each bonded pool when an era opens; the
  reports of that era subtract the snapshot from the pool's live pipeline,
  which rtoken/series keeps changing meanwhile.  The last active report of an
  era calls rtoken/rate's `set_rate` with the issuance of rtoken/balances.
* rtoken/series takes a swap fee into the bridge account, mints, and calls
  bridge/common's `transfer_fungible`, as bridge/swap and rtoken/rfis do.
* rtoken/rfis acts on the staking pallet's ledgers.  Its offchain worker reads
  the state of one block and submits unsigned transactions that are executed
  in a later one; `on_finalize` derives the rate from what they reported.
* Minting of rtokens grants rewards in rclaim.  rdex/mining stakes the LP
  tokens that rdex/swap issues.  rdexn/swap reads rtoken/rate and lets payers
  report, after the fact, what they paid on another chain.
* cargo runs one build script per crate; the runner decides whether the builder
  is run at all, and the builder starts a cargo of its own in the shared
  workspace, which may run the same scripts again.

### What is hard, and what correctness means

The hazards, each at its line, are in `PROJECT.json`.  The main ones:

* *Registries*: the count is a second copy of the set's size, kept by hand.
* *Bridge voting*: relayers and thresholds change between votes, a dispatch
  fails after the vote was stored, a retry comes after the expiry.  Correct: a
  call takes effect only with the quorum of its time, at most once, never late.
* *Nonces*: whitelisting a chain again restarts its numbers.  Correct: within
  one whitelisting the transfers are numbered without gap or repetition.
* *Bridge swaps*: the symbol of a return is looked up at execution; tokens are
  taken before the announcement.  Correct: both sides together conserve every
  token, and what is taken is announced.
* *rtoken voting*: votes after the verdict, a changing electorate, repeated
  dispatch.  Correct: a verdict has its quorum, is final, and a rejection is
  only given when approval is out of reach.
* *Rate*: a cast from 128 to 64 bits, overflow with two different fall-backs,
  a rate of zero, a division that truncates narrow products and rounds wide ones
  to the nearest.  Correct: no round trip gains and no rate promises too much,
  except for a bounded rounding of wide products.
* *Ledger*: three copies of "is this snapshot open" that different calls
  consult; saturating subtraction hides losses; pools removed and initialised
  again in the middle of an era.  Correct: the copies agree, nothing is
  deducted twice or too much, an era's rate is set once, every era completes.
* *Bonding and unbonding*: several records claim one deposit, verdicts come in
  any order, refunds race passes, full lists are drained by position, an event
  comes at exactly the threshold.
* *rfis*: reports made from old blocks, transactions lost or late, two workers
  choosing at once, unsigned calls that do not come from a worker at all.
  Correct: rFIS are backed, unbonds covered, no validator is shared, a lasting
  era gets its rate.
* *Pools and mining*: rounding, an empty side, stakes that name a pool by its
  position.  Correct: nobody takes from the other providers, no pool owes more
  than it issued.
* *Desk*: two ways to report, in any order, while a block still fills.
* *Claims*: the terms of an act change under running claims; many claims on
  one pot.
* *Node and build*: two processes with one key, a lost essential task, a shared
  workspace, a nested build that could start itself again or wait for its own
  parent's target directory, a stale binary.

## 2. Modules

### Chain

* **`Options`** - the value `None`, which `BridgeChains`, `RTokenVotes`, `Rate`
  and `RDexSwap` share.
* **`Relayers`** - one registry for the three pallets that are copies of each
  other under different keys.  Instantiated by chain for bridge/relayers, by
  symbol for rtoken/relayers, and with a single key for one symbol of
  rdexn/payers and for the set bridge/common keeps and does not use.
* **`BridgeChains`** - whitelist, nonces, resources and `transfer_fungible`.
  `epoch` and `outbox` are history: how often a chain was whitelisted, and the
  events sent to it.  Extended by `BridgeVotes`, `RTokenSeries`, `BridgeSwap`.
* **`BridgeVotes`** - `acknowledge_proposal` over `BridgeChains` and two
  instances of `Relayers`.  One call is three actions by its outcome:
  `AcknowledgeExpired` (status stored, error returned), `AcknowledgeCounted`,
  and `AcknowledgeDispatch`, whose call returns Ok or an error (`Outcome`).
  History: `quorum` (threshold when it passed), `enrolled` (who ever was a
  relayer), `executions`.
* **`QuorumExecution`** - the abstract promise of a voting bridge: endorse,
  perform once with a quorum, lapse.  `BridgeVotes` refines it by the mapping
  `Promise`, read off the stored votes.
* **`NativeBalances`**, **`Balances`** - the currencies.  The native one is
  external: a transfer with `KeepAlive` leaves the payer the existential deposit
  and creates no account below it.  The three token pallets are one ledger with
  checked arithmetic.
* **`BridgeSwap`** - transfers out and back.  A proposal that was opened may be
  dispatched at any later time until it succeeds; which proposals pass is
  `BridgeVotes`' matter.  History: what the other side holds of each resource,
  the pairs ever mapped to each other, `unsent`.
* **`RTokenVotes`** - `acknowledge_proposal` of rtoken/votes, four actions by
  branch: the account voted already, the proposal is closed, it is past its
  expiry, or the vote is counted.  What the dispatched calls do is in the
  modules of the called pallets, which allow each such call at any time and any
  number of times.
* **`Rate`** - the arithmetic, with the width of rates (`RateLimit`, 2^64),
  amounts (`AmountLimit`, 2^128) and limbs (`LimbLimit`, 2^32) as constants.
  `Quotient` is the division of sp_arithmetic: a product that fits an amount is
  divided with truncation; a wider one goes through big integers, which round to
  the nearest unless the divisor is a single limb.
* **`RTokenLedger`** - the era cycle of one symbol, extending `Rate`.  All
  storage is keyed by symbol and no call touches two, so a symbol is a system
  of its own.  The three active reports share `ReportActive`.  A snapshot is
  its own key, as its id is its hash.  `BondUnsent` is the bond that mints and
  then fails in `transfer_fungible`.  History: `forced` (root dropped
  unfinished snapshots), `drift` (bonded less unbonded in pools already
  reported in the era).
* **`RTokenSeries`** - bonding, over `BridgeChains`.  A record names a deposit
  (`TxOf`); two records may name the same.  `execute_bond_record` is four
  actions: a failing verdict, a pass, a pass that sends a swap on, and a pass
  that pays the fee and mints before the send fails.  History: `mints`,
  `cutOff` (a chain was removed under an open swap).
* **`RTokenUnbond`** - the unlocking lists of accounts and of pools, with their
  two limits, the collected signatures and the nominations.  History:
  `shortened` (root shortened the bonding duration), `rethreshed`.
* **`Signatures`** - the check of a bonding user's signature: an ideal signature
  is who signed which account in which format; the code's part is in which
  format a chain type expects the account and which schemes a key is tried in.
  A signature may be put forward for any account, key and symbol.  History:
  `bonders`, what each accepted bond showed.
* **`RFis`** - rtoken/rfis with the parts of staking it reads and writes.  The
  worker (`OffchainWorker`) reads a state and puts a transaction into `mempool`,
  the transactions that wait anywhere in the network.  A tag is unique in the
  pool of one node only: the worker's node knows of some of the waiting ones and
  refuses a second of their tags (`Acceptable`), not of the others'.
  `SubmitForeign` is an unsigned call that no worker sent: `validate_unsigned`
  does not look at the source, the total or the targets.  `Include` executes a
  call in a later state, if it is still valid then, and `Drop` loses it.
  History: `crossed` (tags that came to wait twice), `foreign` (kinds and eras
  of calls that were not a worker's).
* **`RDexSwap`**, **`RDexMining`** - pool and mining, with the code's integer
  arithmetic.  History: `shifted` (a pool was removed), `roundings`.
* **`RDexnSwap`** - swaps queued under block numbers, both reports, signatures.
  History: `lowestThreshold`, `byRoot` (blocks root set as dealt), `early`
  (blocks reported before they had passed).
* **`RClaim`**, **`XClaim`** - claims.  History: `overcut` (root cut an act by
  more than was left), `shortestLock`.

### Around the chain

* **`WasmBuild`** - the runner's and the builder's scripts as processes over
  files, variables, a lock and the workspace.  A file is a version number, a
  binary records the versions, features, type and toolchain it was compiled
  from.  Files that are neither .rs nor .toml are assets, which nothing watches.
  cargo itself (what is fresh, the dependency graph, features and the OUT_DIR of
  each set of them, the lock on a target directory, the nested build) is
  external.  The workspace has one place per crate and build type for a binary,
  whatever its features; `builtWith` is history: the sets it was compiled with.
* **`NodeService`** - one action per step of `new_full_base`, `new_light_base`
  and the commands of command.rs.  A step may fail and takes the process down; a
  task may end at any time.
* **`TrieBench`** - the benchmarks' trie over the overlay of `SimpleTrie` and
  the two databases; in ParityDb a node is known by its hash alone and counted.

### For model checking

`MCBridgeVotes`, `MCRTokenVotes` (symmetry of accounts), `MCRTokenLedger`
(symmetry of pools; it starts from `MCConfiguredLedger`, a ledger root has set
up), `MCRTokenSeries` (the records).  `MCBridgeLive`, `MCRTokenVotesLive` and
`MCRTokenLedgerLive` are set-up systems in which only relayers, users and the
clock act, with fairness; `MCLive` runs the three in one.  `MCRTokenLedger`,
`MCUsers`, `MCRFis`, `MCRDex`, `MCDeskClaims` and `MCNode` check several parts
that share no state, or one part from several starting points, as *scenes*: an
initial choice that no step changes.

Definitions whose names begin with `Mut` are mutated forms of the definition
that follows them; no specification uses them.

### For proofs

`CountingLemmas` (lists without repetition, sums over finite sets, quotients),
`RelayersProofs`, `BridgeNodeProofs` (`BridgeVotes` with `BridgeChains`, and
what runs beside the chain: `NodeService`, `WasmBuild`, `TrieBench`),
`RTokenProofs` (`RTokenVotes`, `RFis`), `RTokenLedgerProofs` (with `Rate`),
`SeriesProofs` (`Signatures`, `RTokenSeries`, `RTokenUnbond`), `UsersProofs`
(`RDexnSwap`, `RClaim`, `XClaim`, `BridgeSwap`) and `RDexProofs` (`RDexSwap`,
`RDexMining`).

### Abstractions

* Origin checks (root, admin, proxy accounts, "is signed") are not modelled:
  what root may call, it may call at any time.  The proxies of xclaim are
  modelled, as they mint claims.
* Limits that only refuse a user's call (`min_out_amount`, least bond, receiver
  addresses, events) decide nothing the properties speak of and are left out
  where the module's head says so.  Bond fees pass through in one call.
* Amounts, eras, blocks, nonces, whitelistings, edits and runs are bounded by
  named constants (`MaxAmount`, `MaxEra`, `MaxBlock`, `MaxNonce`, `MaxEpoch`,
  `MaxEdits`, `MaxBuilds`, `MaxRuns`, ...); the bound is a guard.  The proofs do
  not depend on the bounds' values.
* Era 0 is exempt from `SnapshotsMoveForward` and `EraRateIsFinal`:
  `set_chain_era` takes a stored era 0 for a missing one and lets it be opened
  again.
* In `RFis` slashing and the election are the staking pallet's.  In `WasmBuild`
  the text of generated files, in `NodeService` network traffic and RPC, and in
  `TrieBench` times are left out.

## 3. Runs

| Run | Instance | Shows |
|---|---|---|
| `bridge_votes` | 3 accounts, thresholds to 3, one proposal, lifetime 2 of 3 blocks, dispatch succeeds or fails | `QuorumBehindExecution`, and that voting refines `QuorumExecution` (`ImplementsPromise`): endorsed by relayers, performed at most once, closed for good |
| `rtoken_votes` | 3 accounts, thresholds to 3, lifetime 2 of 3 blocks | `ApprovalHasQuorum`, `RejectedOnlyIfHopeless` |
| `rtoken_series` | 3 records on 2 deposits, one remote chain whitelisted up to twice, refund period 2 of 2 blocks | `NoncesNumberTheTransfers`, `DepositMintedOnce`, `FeesCovered`, `SentSwapIsClosed` |
| `ledger` | scenes eras (2 pools, two eras, pools removed and initialised again), rate (one era, gains and losses, root may clear the list) | `ListsMatchStates`, `PipelineCoversSnapshot`, `SnapshotsMoveForward`, `RateCountsEveryPool`, `EraRateIsFinal` |
| `live` | scenes bridge (threshold 3 of 3, two calls under one nonce), rtoken (every threshold), ledger (2 pools, two eras, unbonds falling due) | `EveryProposalCloses`, `EveryProposalDecided`, `EveryEraCompletes` |
| `users` | scenes swap (native, two rtokens, an xtoken, maps changed), unbond (3 eras, lists of 4, duration 1 or 2, threshold 1 or 2), sign (2 key owners, 2 bonders) | `BothSidesConserved`, `TakenOnlyIfSent`, `PendingChunksAreListed`, `EnoughIsAnnounced`, `SignatureIsForOneAccount` |
| `rfis` | scenes users (one pool, all eras), pools (two, on nodes that may not know of each other's transactions), others (and one unsigned call that is not a worker's), root (from empty) | `Solvent`, `UnbondsCovered`, `NomineesNotShared`, `EraGetsRate` |
| `rdex` | scenes swap (from an empty chain) and mining (2 providers, two grades added and removed) | `PoolBacked`, `UnitValueKept`, `StakesAddUp`, `RewardsCovered` |
| `mining_total` | as `rdex` | **violation** of `TotalStakeIsStaked`: "total lp token staked in this pool" is not so after `rm_pool` moved later pools to other grades |
| `desk_claims` | scenes desk, queue (2 payers, 2 swaps per block, 2 blocks), each series of rclaim (2 acts, 2 minters), xclaim (2 claimants, one pot) | `DealtByQuorum`, `LatestBlockIsDealt`, `ActBudget`, `NeverAheadOfSchedule`, `PotCoversClaims` |
| `node` | scenes build (2 crates and a library, of which one crate and the library depend on each other, an asset, a feature, 3 toolchains, `CARGO_TARGET_DIR` set, one edit, two builds), node (validator, sentry or light node, and whatever else is started on the validator's path), bench (3 branches, 2 runs) | `FreshIsCurrent`, `WorkspaceIsWhole`, `EveryBuildEnds`, `OneSigner`, `CrippledNodeStops`, `TrieIsWhole` |
| `wasm_type` | as `node`, the main build of type debug | **violation** of `DefaultTypeIsMainType`: "By default the WASM binary uses the same build type as the main cargo build" is not so, `is_release_build` takes an unset `WASM_BUILD_TYPE` for release |

**Why the bounds are enough.**  Three relayers are the fewest with a majority
that is neither one nor all, and with a vote left after the deciding one, which
is what retries, repeated dispatch and late votes need.  A lifetime of 2 in 3
blocks has a vote before, at and after the expiry.  Two pools are needed for a
report that is not the last of its era and one that is; two eras for an unbond
to fall due and for stale snapshots.  Two records on one deposit race for it
and a third is independent; with a refund period of 2 a refund is possible in
the block of the failure and the next, and too late in the third.  Lists of 4
with a minimum of 2 fill within three eras and take both branches of the
trimming.  Amounts in `rdex` and the reward factor do not divide each other, so
every formula rounds.  In `desk_claims` two payers and thresholds up to 2 give a
quorum of all and of one; two swaps let a block be dealt in part.  Two crates
are the fewest that share a workspace, and the cycle between one of them and the
library is what the collection of dependencies must survive.  In `rfis` two
pools, two waiting transactions and one foreign call are enough for two
nominations to cross and for a total that nobody read; a rate limit of 4 at base
2 makes the cast matter.  Two runs on one seed show
what a run leaves behind.  The safety properties are moreover proved without
bounds (section 4); liveness rests on these instances.

**Deadlock** is checked except where the bounded system really stops: `live`
(every proposal is closed, every era has passed), `rfis`, `rdex` and
`desk_claims` (the last era or block has come and nothing is left to withdraw
or claim).

**Fairness.**  A proposal only moves with a vote and a snapshot only with a
report; progress is the relayers' doing.  In `live`, weak fairness says that a
relayer program resubmits its vote or report as long as the chain would accept
it, and that blocks are produced.  No fairness is assumed of root or of users,
and none of the calls' success: calls there succeed, because a call that always
fails with a threshold of all relayers leaves nobody to retry.  In `rfis`,
validators run their worker after every block and `on_finalize` runs in every
block (weak fairness); a transaction may be lost any number of times, but one
that is submitted again and again is included in the end (strong fairness per
kind).  In `node`, cargo's processes are scheduled and the lock is released with
its holder, and the service is told of the end of an essential task; nothing is
assumed of when tasks end or what the operator starts.

**Premises.**  Some properties hold except for a history the code does not
guard against; each carries that history as a premise, in a history variable:

* `DepositMintedOnce`, `FeesCovered`: no chain is removed under an open swap.
  Otherwise `execute_bond_record` pays the fee and mints, returns the error of
  `transfer_fungible` and stays executable, so that the next acknowledgement
  does both again.  `FeesCovered` also leaves out a record that is passed after
  it failed and its fee was refunded: the pass does not look at `refunded`.
* `ListsMatchStates`, `PipelineCoversSnapshot`, `RateCountsEveryPool`: root did
  not use `clear_current_era_snap_shots` on unfinished snapshots, which exists
  to give that up.
* `BothSidesConserved`: per symbol, its resources were never mapped to another.
* `PendingChunksAreListed`: the bonding duration was not shortened.
* `EnoughIsAnnounced`: a pool's threshold was left alone once relayers signed.
* `LatestBlockIsDealt`: the block was not reported before it had passed.
* `StakesAddUp` (its second part), `RewardsCovered`: no grade was removed; the
  run `mining_total` shows what happens then.
* `ActBudget`: root never cut an act by more than was left of it.
* `SignatureIsForOneAccount`: not for Tendermint chains, where the code looks at
  no signature.
* `Solvent`: the second report of every era is a worker's.  `validate_unsigned`
  takes a call from any source and `submit_total_bonded_after` stores the total
  it is given, so that a number nobody read would become the rate.  The first
  report needs no such premise: it only decides the commission.
* `NomineesNotShared`: the nominations of the era are all workers', and no
  worker nominated on a node that did not know of another nomination still
  waiting. `submit_nomination` does not compare its targets with what is
  nominated; the tag does this, in one node's pool.
* `FreshIsCurrent`: it speaks of files that are watched, in the closure of the
  dependencies all directories, .rs and .toml files.  An asset may change
  without a rebuild.  Features and toolchain are those asked for as long as the
  crate was compiled with one set of features: cargo keeps a note for each set,
  the binaries of all sets overwrite each other.  The variable that sets the
  toolchain is watched, a change of the installed default is not, so the
  toolchain is only claimed where it was asked for.
* `RateIsBacked` and `RoundTripIsBounded` are exact while the product fits an
  amount and bounded beyond.  In `RFis` the native supply in units of
  1 / RateBase fits an amount (10^12 in 2^128 leaves room for 10^26 units), and
  the products of `RClaim`'s grants and `RDexnSwap` are taken to fit one.
* `OneSigner`: nodes with copies of one keystore that may run as authorities
  share a base path (`OneValidator` in `NodeService`).  Two validators on
  different machines with the same keys do both sign; nothing in the node could
  tell.
* `PoolSound` and `UnitValueSound`, the theorems, have the premise `LpFits`:
  fewer LP tokens exist than their type can count.  At the limit the mint
  saturates, and the pool would count units that nobody holds.  The runs stay
  far below it.

`UnitValueKept` says two different things.  A swap or a removal never lowers the
product of the two sides per squared unit.  An addition may: the units that
`cal_pool_unit` gives for an addition far out of proportion (10000 to 100 into a
pool of 100, 100 and 100 units: about 2574) are more than the product would
allow.  What its slip correction does guarantee, and what is checked and proved,
is that they are worth no more at the price of the pool that was met.

**Other observations**, which no run states because they are visible in one line
of code: after a chain is removed and whitelisted again its nonces start at 0;
bridge/common's own `RelayerThreshold`, which its comments call the number of
votes required, decides nothing; a total that an unsigned call reports, and the
targets of a nomination, are stored as they come; a rejected proposal's call is
dispatched like an approved one's; the limits on an era's unbonds and on onboard
validators are compared with `<=` before the insertion, so one more is stored; a
payer threshold lowered below the votes already given is never met by `==`.

## 4. Proofs

Every theorem holds for all values of the constants, under the named
assumptions of the component's module: ranges of the bounds, `None` outside the
value sets, accounts that play different roles are different, the sets that
are summed over (users, pools of rfis, resources, minters, claimants, bond
records), the bonding durations, the crates of the workspace and the branches of
the benchmarks' trie are finite; in `BridgeSwap` the tokens that exist at the
start fit their type, and in `RFis` so does what all pools may hold in units of
1 / RateBase; in `NodeService` a
validator has one base path (`OneValidator`, section 3).

* **Counting** (`CountingLemmas`).  Lists without repetition: appending a new
  element keeps that, and such a list is as long as its set is large.  Sums over
  finite sets: taking out, changing or moving an entry, splitting the set,
  bounds, linearity.  The sum of the community modules is a fold over a
  recursive function, so what it computes takes an induction; the library's
  induction theorems have an operator as parameter, which the provers cannot
  instantiate, so `NatSetInduction` and `SubsetInduction` state induction for
  *sets* (a set of naturals, a family of subsets), by the least counterexample.
* **Registries** (`RelayersProofs`).  `RegistryTypes` and `CountExact`: count
  and set agree.  With a finite member set, adding a non-member or removing a
  member changes both by one; the type invariant depends on this too, as it
  says that the count is never decremented below zero.
* **Bridge** (`BridgeNodeProofs`).  `BridgeTypes`, `QuorumTheorem`,
  `AtMostOnce`, `CompletedFinal`, `NeverLate`, `VotingRefinesPromise`.
  `QuorumBehindExecution` counts distinct voters but the code compares the
  *length* of the list with the threshold, so the inductive invariant adds that
  no list repeats an account, that voters were enrolled, and that relayers are.
  The refinement maps the three outcomes of a vote to `Lapse`, `EndorseOnly` and
  `EndorseAndPerform`; every other action stutters.  `NoncesNumber`: its
  invariant `ChainInv` adds that the transfers in the outbox belong to
  whitelistings up to the present one.
* **rtoken voting** (`RTokenProofs`).  `RVoteTypes`, `ElectorateExact`,
  `ApprovalTheorem`, `VerdictTheorem`, `RejectionTheorem`.  Here the invariant
  says that both lists are free of repetition and disjoint.  The rejection
  theorem joins it to the exact count: the relayers are the voters and the
  others, so `against + threshold > count` leaves fewer than `threshold`
  possible votes in favour.
* **Native staking** (`RTokenProofs`).  `RFisTypes`, `NomineesApart`,
  `UnbondsPaid`, `AlwaysSolvent`, from one invariant `FisInv` in four parts.
  *Types* include that a pool of a waiting transaction, once bonded, stays so.
  *Nominations*: in an era whose nominations are the workers' own and did not
  cross (`Orderly`) at most one waits (`OneNomination`), and its targets are
  nominated by nobody (`TargetsFree`), so a nomination that is included was the
  only one of its era. *Stakes* (`PoolOK`, pool by pool): a pool not yet bonded
  owes nothing, and a bonded one holds the total of its staking ledger, so
  `bond_extra` never stakes less than was paid; what is owed is a sum over users
  of sums over chunks, of which a step changes one entry; no pool stakes more
  than its limit (`StakesBounded`), so that rates are derived from narrow
  products.  *Rate*: an era's rate comes after its second report
  (`RatesInOrder`), and, while all second reports are workers' (`Trusted`): they
  are about eras that have begun (`ReportsInOrder`); one that waits, or is
  stored and the rate not yet set from it, is at most what is bonded
  (`ReportsHold`), as no bond or unbond is possible in an era without a rate;
  and `Backed`, which is `Solvent` without rounding, issuance * rate <= bonded *
  base, is kept by bonds, unbonds, payouts and commissions. Slashing, which
  lowers what is bonded, is outside the model.
* **Rate and ledger** (`RTokenLedgerProofs`).  `RoundTripSafe` and `RateBacked`,
  for every base and width.  While the product fits an amount both conversions
  round down; a wider one is off by at most one half, which the way back
  multiplies by the rate.  An overflowing `token_to_rtoken` only falls back to
  one for one when the rate is below the base, and the cast only lowers a rate.
  `LedgerTypes`, `ListsTheorem`, `PipelineTheorem`, `ForwardTheorem`,
  `EraRateTheorem`: the inductive invariant adds to the checked properties that
  snapshots belong to eras opened so far; an era with a rate is opened and has
  no report left (so none can set it again, even after root cleared the list); a
  pool has at most one snapshot in process (so the deduction for one snapshot
  cannot eat into another's); and a pool taken off the bonded pools has a
  snapshot that took nothing (so `set_init_bond` may overwrite its pipeline).
  `RateTheorem` is about the step that sets an era's rate, from a further
  invariant `TotalInv` over that one: at every moment of an era its total, plus
  the drift, is what the pools reported so far hold (`TotalMatches`).  A report
  adds one pool to both sides, since a pool has one snapshot per era
  (`OneShotPerEra`); a bond, an unbond or a new initial bond changes one pool,
  which is in the sum exactly when the drift counts it; an era starts with
  nothing reported (`FreshEras`); and the sums exist because pools are bonded
  one at a time (`FiniteShots`), so that the theorem needs no assumption on the
  set of pools.  When the era's list is empty the reported snapshots are all of
  the era's.  The runs check the same property from a ledger that root has set
  up, the theorem from an empty one.
* **Signatures, bonding and unbonding** (`SeriesProofs`).  `SignaturesApart`:
  what is accepted outside Tendermint was signed for that account by that key in
  the format of the chain type (`PassMeansSigned`, with a case for each scheme a
  key may be tried in), and the formats of two chain types differ
  (`FormatsDiffer`). `AnnouncedWhenEnough`: the event is raised when the
  *length* of the list equals the threshold, so `SigningInv` adds that a
  transaction has as many signatures as signers.  `SeriesTypes`, `MintedOnce`,
  `FeesHeld`, `SentClosed`: `BondInv` adds that swaps belong to records, that
  the deposit of a sent swap is Success, and that, while no chain was removed
  under an open swap, every open swap's chain is whitelisted.  The last is what
  rules out the one path on which `execute_bond_record` mints and then returns
  an error.  Mints and fees are sums over all records, of which a step changes
  one entry.  `PendingListed`: room in a full list is made by *position*, so
  `UnlockInv` adds that lists are sorted by the era in which their chunks unlock
  and that, while no duration was shortened, nothing unlocks after what would be
  unbonded now; that nothing is unbonded before the first era; and that no list
  is longer than its limit.  From these, fewer than `MIN_UNLOCKING_CHUNKS`
  locked chunks sit at the end of a full list and draining the front cannot
  reach them; the filter is a recursive function, about which `LockedKept`
  argues by `NatSetInduction`.
* **Desk, claims and bridge swaps** (`UsersProofs`).  `RDexnTypes`,
  `DealtOnlyByQuorum`, `LatestDealt`: lists of reporters without repetition, the
  lowest threshold below the present one, and a latest block that has passed
  unless it was reported early.  `RClaimTypes`, `BudgetKept`, `OnSchedule`: a
  batch of mints is a fold, proved to keep what is granted plus what is left;
  one claim of the linear release keeps `claimed * lock <= reward * elapsed`
  although it divides what is left by the time left.  `XClaimTypes`,
  `PotCovers`: the running total is the sum of all unpaid claims.
  `SidesConserved`: `SwapInv` adds that each ledger's issuance is the sum of its
  balances, that every entry of the two maps was once set, and that a resource
  never mapped has nothing on the other side; a transfer out or back moves an
  amount between the ledger and what the other side holds of the symbol's
  resources, which is a sum over those.  `TakenIfSent` follows from one step.
* **Pool and mining** (`RDexProofs`).  `StakesSound`, `RewardsSound`: the
  invariant `Covered` weighs every stake of a pool.  With F the reward factor,
  F times (claimed less debt) summed over the stakes, plus share times total,
  stays within F times what was issued, plus F - 1 for every rounding; and no
  stake's debt is ahead of the share.  `PoolSound`: `SwapInv` adds that the LP
  ledger is sound and empty while there is no pool.  `UnitValueSound` is an
  action property over the same invariant, from three lemmas on integer
  arithmetic: what a swap leaves (`SwapGain`), what a removal leaves
  (`LeftWorth`) and what an addition is given (`AddWorth`).
* **Node processes** (`BridgeNodeProofs`).  `NodeHoldsDatabase` is the inductive
  invariant `NodeIInv`: a process that is down has left no task and no keystore
  behind; one that has come past opening its database, or still runs a task,
  has that database open; and proposer and keystore are only an authority's.
  `AtMostOneSigner` joins the last two: two signers are two authorities, so by
  `OneValidator` they have one directory, and that is open in one process.
* **Build scripts** (`BridgeNodeProofs`).  The walk over the dependencies is a
  loop, written as a recursive function that applies `Follow` a fixed number of
  `Turns`.  `IterationExists` and `IterationUnique` show, by `NatSetInduction`,
  that such a function exists and what its turns are.  `CollectCloses` finds the
  measure: a turn either takes a dependency off the list or adds a package, of
  which there are finitely many, so after `Turns` turns the list is empty and
  the packages are closed under dependencies.  `EveryInputIsTracked` follows for
  every finite dependency graph, cycles included, because the crates a binary is
  compiled from are the *least* closed set.  `BuildIsSound` is the inductive
  invariant `BuildIInv`: types; a script works for its own crate, and holds the
  lock in every step that touches the workspace (`Owners`); what each locked
  step leaves to the next (`Staged`); versions only grow (`Versions`); a script
  that has compiled has a binary no older than what it saw when it started, with
  the features in its manifest (`Products`); and what cargo's record of a script
  stands for, for each set of features (`Notes`): the binary was made from the
  files the note saw or newer ones, and, while the crate was only compiled with
  that set, is exactly the one asked for.  A build with other features replaces
  the binary without touching the note (`NoteOfOthers`), which is why the first
  holds always and the second with the premise only. `WorkspaceStaysWhole` is in
  `Staged`.  `FreshStaysCurrent`: a fresh record saw the present versions of all
  it watches, by `EveryInputIsTracked` these are all watched inputs, and a
  binary made between then and now from versions in between is made from those.
* **Trie benchmarks** (`BridgeNodeProofs`).  `BenchHoldsTrie`, `TrieStaysWhole`:
  `Holds` says that the database has every node of the trie and, in ParityDb,
  at least as many references under a key as places its node is at.  Writing
  the overlay changes each count by the nodes put less the nodes deleted under
  that key, which are those of the new trie and of the old one at the branches
  that changed; so the count stays enough although equal nodes share it.

**Only model-checked**: liveness, as fairness is outside the prover's reach:
`EveryProposalCloses`, `EveryProposalDecided`, `EveryEraCompletes`,
`EraGetsRate`, `EveryBuildEnds` and `CrippledNodeStops`.  Every invariant and
every action property that a passing run checks is a theorem.

## 5. Plan

Done: registries, bridge voting with its abstract promise, rtoken voting, rate
and the ledger; bonding, unbonding and signatures; bridge swaps over the token
ledgers; rfis; rdex and rdexn; the claims; build, service and trie benchmarks;
and the proofs of all their safety properties.

What a change of the code asks for: an operation that is added or changed is an
action to translate and a case in the step lemma of its component's inductive
invariant; the runs say first whether the invariant still holds.  The liveness
properties would be next, were they in the prover's reach; in their place the
instances of `live`, `rfis` and `node` can be enlarged.

## 6. Not modelled

* *Runtime wiring* (`node/runtime`) and *chain specifications*: parameters,
  macros and genesis data without a state of their own; weights are numbers.
* *RPC, inspect, executor glue*: registration of Substrate's handlers, and a
  decoder that prints what it reads.
* *Test harness and the other benchmarks*: straight-line use of Substrate's
  client and pool; `state_sizes.rs` is a table.
* *`verify_recipient` and rcrypto*: a test on the bytes of an address, and
  wrappers of host functions.
* *Setters whose value only refuses a call* (least bond, bond and unbond fees,
  balance limits of rtoken/series, proxy accounts of bridge/common and
  rtoken/series): the components are marked as partly modelled for them.
* What belongs to Substrate itself: consensus, networking, staking's election
  and slashing.
