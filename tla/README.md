# Agent-governed vaults: a TLA+ verification project

The repository holds a protocol of pooled USDC vaults. The members of a vault own shares of it and
decide together, by commit-reveal vote, what it trades and under which rules it is governed; a
creator earns a performance fee; anyone may leave at any time, in kind. The protocol itself is the
Solidity under `src/contracts/src`; around it, in JavaScript, run an indexer, a paid read API, a
reference agent that takes part in votes, and a canary that watches the deployment.

This directory models the protocol and the programs around it in TLA+, model-checks them with TLC on
small instances, and proves their most important safety properties with TLAPS for every instance.

- [Inventory](#inventory)
- [The modules](#the-modules)
- [What each run checks, and its bounds](#what-each-run-checks-and-its-bounds)
- [Fairness](#fairness)
- [What is proved](#what-is-proved)
- [Findings](#findings)
- [What is not modelled, and why](#what-is-not-modelled-and-why)
- [Plan](#plan)

## Inventory

Contract calls are atomic: the chain runs one transaction at a time, and a call that reverts leaves
no trace. Concurrency on the chain is therefore the interleaving of whole calls by different
accounts, many of them within one second (one `block.timestamp`), and every deadline is a race.
The off-chain programs are single-threaded event loops that interleave at each `await` and can stop
at any of them.

### On the chain

**Governance** (`Governance.sol`), one contract for all vaults. *State*: a configuration per vault
(phase lengths, quorum, proposal threshold, concentration cap, cooldown); proposals, with deadlines,
a snapshot of the membership, a tally and a status; the one active proposal of each vault;
commitments and reveals per proposal and member; delegations and standing defaults per member.
*Operations*: `registerVault`, `propose`, `commitVote`, `revealVote`, `revealDelegated`,
`setStandingDefault`, `clearStandingDefault`, `applyStandingDefault`, `setDelegate`, `finalize`,
`execute`, `markExpired`, and the views `isActiveProposal` and `hasPendingExecution`. *Hard*: three
quorum regimes over one tally that is fed in three ways; lazily refreshed status; deadlines with
`<` on one side and `<=` on the other; a configuration read at the time of the call rather than the
time of the proposal. *Correct when*: one proposal at a time; each unit of stake counts at most once,
and only while its owner still bears the outcome; absent members never make a quorum; what executes
was voted and waited out its timelock; every proposal comes to an end.

**VaultCore** (`VaultCore.sol`), one per vault. *State*: shares, queued exits, checkpointed
histories of eligible shares and of the holder count; idle cash, a basket of assets, pending
deposits, cost basis, the escrow of failed transfers. *Operations*: `deposit`, `activate`,
`cancelPending`, `skipWindow`, `requestExit`, `settleQueuedExit`, `claimEscrowed`,
`executeRebalance`, `allocateToChild`, `redeemFromChild`, `pullChildEscrow`. *Hard*: an exit is
settled at once (Mode I) or queued (Mode F) according to an answer governance gives at that moment;
a settlement calls the oracle, the fee engine, the operator registry and every asset, each of which
may fail without stopping it; prices may be stale; transfers to blocked recipients are escrowed;
all divisions round. *Correct when*: the tokens it holds cover what it owes; nobody's exit or deposit
dilutes the others; nobody leaves while an outcome is known and has not taken effect; a queued exit
settles.

**Checkpoints** (`lib/Checkpoints.sol`): a history of (time, value) pairs; a push in the second of
the last one overwrites it, and `getAt` searches it by bisection. *Correct when* an answer about a
past second never changes.

**FeeEngine** and **OperatorRegistry**: per member loss carryforward, per vault treasury and creator
credits in each asset; per operator lifetime gain, loss and fees. *Hard*: the engine is told of a
realization before the vault moves the money, and of a fee only if the transfer landed. *Correct when*
credits equal deliveries and no fee is taken on a gain that only makes good an earlier loss.

**VaultFactory**, the deployers, **SubVaultRegistry**: one-shot wiring of the modules and creation of
vaults; the tree of parents and children. **AgentVaultCore**, **IdentityGate**,
**RWAllyAgentRegistry**: an identity check in front of `deposit` and the registry behind it.
**ChainlinkOracle**: a price or a refusal. The **adapters** (`UniswapV3Adapter`,
`DirectPoolAdapter`, `AggregationRouterAdapter`): stateless swaps. The **libraries**: bounded
external calls, token transfers, initialisation.

*Interactions.* Governance reads the vault's past stake (`pastVotingEligibleShares`,
`pastTotalVotingEligibleShares`, `pastHolderCount`) and calls `executeRebalance` or
`allocateToChild` on it; the vault reads `hasPendingExecution` from governance before it settles or
queues an exit. This mutual dependence of two contracts, on each other's state and on one clock, is
the heart of the protocol and is modelled first. The vault also calls the oracle, the adapters, the
fee engine (which pulls escrowed fees back out of the vault) and the operator registry.

### Off the chain

**Indexer** (`packages/indexer`): folds the events of the contracts into a projection. *State*: the
projection and a cursor (`lastBlock`, `lastLogIndex`) in memory, a snapshot on disk with a ring of
backups, the set of vault addresses to poll. *Operations*: read the head, fetch a batch up to head
minus confirmations, apply each event, advance the cursor, save. *Hard*: a crash or an error between
any two of these; reorganisations; the vaults to poll are themselves learnt from events. *Correct
when* the projection is the fold of each event up to the cursor, exactly once.

**Reference agent** (`packages/reference-agent`): perceive, decide, act, once per tick. *State*: in
memory only; the reveal obligation is recovered from the chain. *Hard*: a restart between commit and
reveal; a tick planned from a world that has moved; approval sent and deposit failed; the session
budget is charged when an authorisation is signed. *Correct when* a committed vote is revealed in
time, and no more is spent than the cap.

**API and x402 facilitator** (`apps/api`): serves reads against payments. *State*: replay guard,
rate limits. *Hard*: a settlement whose receipt comes late; a caller that hangs up while its
facilitator works on. *Correct when* one payment buys one read.

**Operator sign queue** (`scripts/lib/sign-queue*.mjs`, `scripts/dashboard.mjs`): a launch is a list of
transactions, each signed by hand in a wallet. *State*: the queue file; a polling copy of it; what the
page shows; open wallet requests. *Operations*: build, poll, sign, report the hash. *Hard*: five copies
of the same item that age separately, a report that is lost, a transaction that vanishes. *Correct
when* nothing is sent before what it depends on took effect, and nothing is sent twice.

**Canary** (`packages/canary`): polls health signals, debounces and announces changes of status.
*State*: status, pending status and counters per signal, persisted. **Oplog** (`packages/oplog`):
atomic writes, the backup ring, the heartbeat, orderly shutdown. The **agent SDK**, chain
configuration, terms, activity leaderboard, web front ends and scripts keep no state of the protocol.

## The modules

| module | what it is | models |
| --- | --- | --- |
| `VaultShares` | the share ledger of a vault | the share side of `VaultCore.sol` |
| `VaultStake` | what governance sees of it; `EXTENDS VaultShares` | the ledger and the last second's view |
| `Governance` | one vault's governance; `EXTENDS VaultStake` | all of `Governance.sol` |
| `GovernedVault` | the composition, its fairness and its properties | the deployed pair |
| `Checkpoints` | push and bisection on one history | `lib/Checkpoints.sol` |
| `StakeHistory` | the three histories; `EXTENDS VaultShares, Checkpoints`, implements `VaultStake` | `_snapshot` and the `past...` views |
| `VaultCore` | the money of a root vault; `EXTENDS VaultShares` | deposits, exits, escrow, rebalance legs |
| `FeeEngine` | fees, credits, carryforward, identities | `FeeEngine.sol`, `OperatorRegistry.sol` and the vault's calls to them |
| `Durable` | one state file and its backup ring, one file-system call per step | `oplog/src/durable.mjs` |
| `VaultLog` | the blocks and events of one vault; `EXTENDS VaultShares` | the `emit`s of the contracts |
| `Projection` | the fold, as operators | `indexer/src/projections.mjs` |
| `Indexer` | the process; `EXTENDS VaultLog, Durable`, instantiates `Projection` | the rest of `packages/indexer` |
| `Payments` | client, budget, gate, facilitators and token | `apps/api`, the paid half of the SDK, `budget.mjs` |
| `ReferenceAgent` | the agent's tick; `EXTENDS GovernedVault` | `packages/reference-agent` |
| `Canary` | sweep, tracker, console and state file | `packages/canary` |
| `SignQueue` | queue file, server, page, wallet, builders | `scripts/lib/sign-queue*.mjs` and its callers |
| `MC...` | small instances, founded start states, search constraints | |
| `FiniteLemmas` | lemmas: least elements, induction, sums over finite sets | |
| `GovernedVaultProofs` | types, the safety of proposals, the life of one, the ledger, the tally, quorum and cap | |
| `VaultCoreProofs` | the money of a vault; its histories, their refinement and their bisection | |
| `FeeEngineProofs` | identities, carry, fees on new peaks, credits | |
| `IndexerProofs` | the file of `Durable`; the indexer's cursor; what it answers, from memory and from disk | |
| `CanaryProofs` | what the operator is told | |
| `PaymentsProofs` | one payment, one read; keys; the spending cap | |
| `SignQueueProofs` | what leaves the wallet and when; what reopens | |

How they fit together: the shares are written once, in `VaultShares`, whose actions are conjuncts of
the actions of every other module. Governance is checked against what it can see of them
(`VaultStake`); the histories the contract really keeps are shown to implement that view
(`StakeHistory`), and the money that moves with the shares is added to the same actions in
`VaultCore`, where governance's answer is a free choice at every call, a failing governance included.
`FeeEngine` takes the vaults as its environment, and `VaultCore` takes the fee engine as its own:
the fee it answers is any number, clamped as the vault clamps it. Off the chain the modules compose the
same way: the agent acts on the whole of `GovernedVault`, so that a deadline it meets is governance's
own; the indexer folds the events `VaultLog` emits along the share movements of `VaultShares`, and
writes through `Durable`; `Payments` holds both ends of a paid request and the token between them.

**VaultShares.** `sharesOf`, `queuedExitShares`, `totalShares`, `totalQueuedShares`, `holderCount`
are the contract's variables of those names; `now` is `block.timestamp`. `MintShares` is the share
side of a deposit that mints at once or of the activation of a matured one; `RequestExit` is
`requestExit` with both its modes; `SettleQueuedExit` is the crank. The creator gate and the position
floor are guards of `RequestExit` alone, as in the code.

**VaultStake.** The three checkpoint histories are only ever asked about the second before the
current one (governance asks for `createdAt - 1`, in the second `createdAt`), so they are kept as
`past`, their answer for `now - 1`; `Tick` moves the clock and takes the current values into the
past, whatever the number of pushes of the second before (a push in the same second overwrites).

**Checkpoints, StakeHistory.** A history is a sequence of checkpoints; `GetAt` is the bisection, as a
recursive function on its two bounds, and `ValueAt` says what a history means. `Snapshot` pushes the
three values every share movement leads to. `View`, what the histories mean at `now - 1`, is the
refinement mapping to `past`.

**VaultCore.** `idleUsdc`, `assetBalance`, `pendingDeposit`, `totalPendingUsdc`, `windowCleared`,
`skipOptIn`, `costBasisUsdc`, `lastDepositTime` and `claimable` are the contract's. `held` is what the
tokens' own ledgers say the vault has, which the code reads only as differences around a call;
`donated` counts what strangers sent. `quote` is the oracle's answer for each asset, 0 standing for
its refusal. One action per external function, with the whole of `_settleExit` in `SettleMoney`: the
amounts, all with the code's roundings; the fee the engine answers, any number up to the clamp; and
for every transfer of the call, whether it lands or is escrowed (`PayOrEscrow`). `Swap` is one leg of
`executeRebalance`; a call with several legs is as many steps in a row (a leg that reverts undoes the
call, so every state the call leaves behind is reached). `minSharesOut` is not modelled: it is a guard
the caller sets to be refused what it could have been given.

**FeeEngine.** `Settle` is what an exit of any vault does to the two contracts: `onRealize` on the carry
as it is, `recordRealization`, and per leg the transfer and `onFeeCollected` or
`onFeeCollectedAsset`. Each of these bounded calls may fail without stopping the others if `MayFail`
has it. `pnl`, `peak`, `assessed` and `uncredited` are history that no guard reads: the member's summed
result with an operator, its maximum, the fees answered, tokens that reached the engine and were never
announced.

**Governance.** One variable per mapping, restricted to one vault; one action per external function;
guards are the code's reverts, in conjunction (which of two reverts comes first is not observable).
A commitment is the direction it binds (the hash is injective; a commitment nobody can open behaves
as one that is never revealed). A payload is the value its hash binds: a configuration for a rule
change, nothing for a rebalance, whose effect on shares is none. The weight of a member for a proposal is
`BoundedWeight`, the lesser of the snapshot and the shares held now. The snapshot of every member is taken
into the proposal when it is created; the code reads it on demand from a history that can no longer
change. `ballot` is history: it records the vote events (`Revealed`, `DelegatedRevealed`,
`DefaultApplied`), and no guard reads it. Several mutated forms of the actions ("Fault: ...") stand
beside the originals; nothing uses them except the mutation of the model, which shows that each
property can fail.

**GovernedVault.** `Next` is a second passing, a call to the vault, or a call to governance. The
vault's calls are given `HasPendingExecution`, the real answer.

**Durable.** A file is absent, torn or complete. `BeginWrite`, `Shift`, `StartCopy`, `EndCopy`,
`StartTemp`, `EndTemp` and `Rename` are the writer's calls in order; between any two of them a call may
fail (`WriteFails`) or the process die (`WriterDies`). `armed` and `rested` are `lastBackupAt` and its
interval.

**VaultLog, Projection, Indexer.** Calls emit the events their contracts emit, in that order, into the
block being built; each block keeps what the contracts said after it (`after`), which is where a
reorganisation goes back to and what a projection at that block must say. `Projection` has one
operator per event kind; maps are functions and a deleted key is its zero; values that older snapshots
did not record are `Null`. In `Indexer`, a tick is `Poll` up to the first await, `FetchAndFold` from the
answer to the end of the fold (there is no await in it), then the steps of `Save`. The node that answers
for the head and the one that answers for the logs may differ by `NodeLag`. `discovered` is the
in-memory set of adapters that decides which fills are asked for at all.

**Payments.** A read's number stands for the nonce of its authorization. `copy`, `work` and `tx` follow
one arrival of the paid request through the gate, `verifyAndSettle` and the chain, which go on
independently: the gate may give up (`AbortCall`), the API restart, the work continue and the transfer
land. `RunsInApi` says what a restart kills for each facilitator. `settled` and `void` are the token's
side: an authorization executes once, and not after it expired or was cancelled.

**ReferenceAgent.** One tick reads, decides and sends, as one step; the chain may move between the read
and the mining of each transaction, which it then refuses if governance would. Each read may answer
null, and each operator says what the code makes of that. The salt is derived, so a restart loses
nothing but its scheme (`version`, `saltOf`). `trouble` stands for any reason to leave.

**Canary.** Three signals stand for the ten, one per way of being tracked (always an answer or a broken
detector; the window's events; debounced). A sweep is `BeginSweep`, `Observe`, one `Tell` per line, and
`Save`; it may be abandoned, its write fail, the process die. `told` is what the operator last read on
the console; a webhook that fails is swallowed by the code and changes nothing, and is left out.

**SignQueue.** `file` is `_sign-queue.json`. A poll reads it, asks for each sent item and writes it back
under the queue's lock (`BeginPoll` to `EndScan`), then answers the page without it (`Respond`).
`recordSentHash` takes the same lock; the builders (`BuildRead`, `BuildWrite`), which are processes of
their own, do not. A transaction is numbered when sent; `fresh` until the node knows it; it may be
dropped. The refusals that do not come from a nonce or a dependency are the operator not clicking.

## What each run checks, and its bounds

The bounds are constants, named as bounds where they are declared: `MaxProposals`, `MaxTime`,
`ShareBound`, `MintSizes`, `DepositTimes`, `Exiters`, `Delegators`, `Defaulters`, `ProposalTypes`,
`Configs`, `InitialConfigs`, `FinalizeLag`, and in the other modules every constant commented "bound". Seconds, basis points and phase lengths are scaled down:
`BPS = 10`, phases of one or two seconds; the relations between the caps (`CommitHardCap` below
`DefaultTTL`, the quorum floor below one half, the concentration ceiling above it) are kept. Three
more bounds keep the clock honest at its end: `Propose` needs room for the whole life of a proposal
before `MaxTime`; the clock waits for a vote `FinalizeLag` seconds overdue (it can always be
finalized, so this is a bound on how late, not on whether); and `StillOpen` stops the expansion of
states where the last proposal is settled and nothing is queued, in which nothing the properties
speak of can happen. In `votes`, `OneDelegate` gives both delegators the same delegate, so that several cranks
compete for one cap; of its two configurations (`CommitConfigs`) `ValidConfig` accepts the one whose commit
phase is as long as a standing default allows (`CommitHardCap`) and refuses the one a second longer.
`signer_majority` starts from the splits in which all three members hold (`ThreeHolders`). `fees` is
symmetric in its two vaults, and its results of three or four round the fee.

The governance runs start from a founded vault with several splits of the founding shares, in `serial`
before its creator has registered it and in `votes` after; `history` and `fees` start from nothing, `money`
from nothing or from a founded vault. A split between two holders puts a vault under the head-majority
regime (`SignerRegimeBelow = 3` stands for the code's five), a split among three under the stake quorum; a
rule change (`serial`) needs full consensus whatever the split.

| run | start | instance | checks |
| --- | --- | --- | --- |
| `votes` | founded, registered | three members in four splits, two of them with three holders, one proposal, the longest commit phase `_validateConfig` accepts; the creator and a member may delegate to the third, the creator keeps a standing default, one member may exit, at once or queued | `SkinInTheGame`, `DefaultReachesReveal`, `NoExitOnLeakedOutcome`, `NoStakeCountedTwice`, `PresentMembersMadeQuorum`, `DelegatesStayUnderCap` |
| `serial` | founded, unregistered | two rule changes in a row, configurations of different phase lengths, one of them invalid; a late deposit | `Serialized`, `Lifecycle`, `RulesFixedInFlight` |
| `signer_majority` | founded | three members, all holding, below the signer threshold | a violation: see Findings |
| `history` | empty vault | two members, shares in units of one or two, four seconds | `SearchCorrect`, `PastIsFrozen`, `ImplementsStake` |
| `money` | empty or founded | two stories over a basket of one asset: members come and go (deposits of two sizes under a capacity cap, a window of one second, exits of any size in both modes, two prices or none, any fee up to the clamp, transfers to a member and to the fee engine that may fail); the vault rebalances both ways with partial and generous fills, prices move, a deposit and a donation arrive | `LedgerBalanced`, `Solvent`, `NothingStranded`, `BasisLeavesWithShares`, `QueuedExitNeverStranded`, `SwapLossBounded`, `ExitDilutesNobody`, `DepositDilutesNobody` |
| `fees` | nothing registered | a member, two operators, one of them the treasury, two vaults in any attribution, two tokens, results of three or four, transfers and any of the calls failing, the registry's too, a donation | `CarryIsDrawdown`, `FeesOnlyOnNewPeaks`, `CreditsMatchDeliveries` |
| `indexer` | empty or founded chain, or an old snapshot | six stories, each exercising one part of the fold; one reorganisation of one block, one crash or stop, one failed call, a ring of two, two confirmations, nodes one block apart | `ProjectionExact`, `SnapshotsExact`, `SnapshotNeverGoesBack`, `CatchesUp` |
| `payments` | nothing bought | each of three facilitators, prices one and two, a cap of three, two reads, one of which arrives twice, one restart of the API with any price | `NothingServedUnpaid`, `OneReadPerPayment`, `KeyHeldWhileItMayLand`, `SpendWithinCap`, `ReadsEnd` |
| `agent` | founded, the agent in or out | a clock one tick off either way, one fault, transactions mined up to a tick late, a reveal phase of four ticks, a reason to leave at any time | `OwedRevealIsMade`, `HeldVaultMoves`, `QueuedExitSettles` |
| `agent_deposits` | founded | one failed read | a violation: see Findings |
| `canary` | a first start | windows of one block over a chain of five, three sweeps, two faults (abandoned, unsaved, crashed), backlogs longer than a window | `OperatorKnows`, `NoEventPassesUntold` |
| `sign_queue` | built, nothing sent | a contract, its read-back, two calls through the Safe, the second with data from the first's receipt; three transactions, two revisions of the build, one surprise (a rebuild, a restart or a stray transaction) | `NothingSentTooEarly`, `ReopensOnlyTheDead`, `SentResolves` |

The amounts of the money run are scaled so that roundings bite: one USDC unit is two wads instead of
10^12, an asset has two units instead of 10^18, `WAD` is 4, basis points are tenths, the fee clamp is
one half, the window one second. Each amount a call may take, each price and each fill is enumerated up
to its bound (`DepositAmounts`, `Prices`, `OutBound`, `HeldBound`); `Blockable` names the payees a
transfer may fail for, `QuoteTimes` and `RebalanceTimes` the seconds in which prices move and
rebalances execute. In `FeeEngine`, `PnlBound` bounds what a member may be up or down with an
operator.

What they show:

- *Ledger.* Every counter is the sum it stands for, and a queued exit is always covered by its
  member's shares, whoever deposits or leaves between the request and its settlement, so
  `settleQueuedExit`, which checks nothing again, cannot underflow (`LedgerBalanced`, in the money run).
- *Skin in the game.* From the moment a weight is counted until its proposal is spent, the member who
  lent it holds that many shares (`SkinInTheGame`): this is what Mode F exits are for. Nobody's shares
  leave the vault between the first possible reveal and the end of the execution window
  (`NoExitOnLeakedOutcome`). Both fail if `hasPendingExecution` starts one second late or stops before
  a passed proposal expires.
- *Tally.* Whatever mix of own votes, cranked delegations and standing defaults reaches it, no stake
  counts twice and both sides together stay within the snapshot (`NoStakeCountedTwice`); the members
  who voted themselves made the quorum alone, except in a vault below the signer threshold, where what
  no delegate directed made it, standing defaults included (`PresentMembersMadeQuorum`); a delegate
  carries at most the concentration ceiling over all its cranks (`DelegatesStayUnderCap`). A default that was valid when the vote opened is still
  valid when it may first be applied (`DefaultReachesReveal`): this is why a commit phase longer than
  `DefaultTTL` is refused.
- *Order.* One proposal at a time (`Serialized`), each through every phase in order and on time
  (`Lifecycle`), under rules that stand still while it is in flight (`RulesFixedInFlight`).
- *Histories.* The bisection finds the last value recorded at or before the second it is asked for, on
  every history a vault builds (`SearchCorrect`); however shares move, what the past was does not change
  (`PastIsFrozen`); and the histories implement `VaultStake` (`ImplementsStake`), so that what the
  governance runs show holds for them.
- *Money.* Token by token, what the vault holds is what it counts as its own, plus what waits to be
  activated, plus what it owes after failed transfers, plus what strangers sent (`Solvent`): no path
  lets one person's claim rest on another's money, or lets a donation into the books. An exit leaves
  at least as much of every holding behind each remaining share, for any fee, rounding and failure
  (`ExitDilutesNobody`); a deposit pays at least the value of a share (`DepositDilutesNobody`); a leg of
  a rebalance costs at most the tolerance and one wad (`SwapLossBounded`). The last exit leaves nothing
  behind (`NothingStranded`), nobody who left has a basis (`BasisLeavesWithShares`; what basis a partial
  exit leaves is not asserted), and a queued exit
  can settle whenever prices are live and nothing is pending, whoever came or left in between
  (`QueuedExitNeverStranded`).
- *Fees.* What creators and treasury may claim is in the engine to the last unit
  (`CreditsMatchDeliveries`). The carry is the distance from the member's best result with the operator
  (`CarryIsDrawdown`, of the results the registry recorded), and the fees assessed never exceed their rate of
  that best result and of the gains it failed to record (`FeesOnlyOnNewPeaks`): a failing call may lose a
  mark, as the code accepts. A loss so lost is netted against nothing, and the result counts without it.
- *Indexer.* What is served is at every moment what the contracts said at the projection's cursor, each
  event folded once (`ProjectionExact`); what is on disk restores to such a projection, ring included
  (`SnapshotsExact`), never disappears and never goes back (`SnapshotNeverGoesBack`); and it catches up
  with the last confirmed block (`CatchesUp`). The assumption that makes it so is
  `IndexerAssumption`: the confirmations cover the reorganisations and the lag of a node.
- *Payments.* Nothing is served but against an executed transfer of at least the price then in force
  (`NothingServedUnpaid`), and one
  payment buys one read, restarts included (`OneReadPerPayment`): after a restart the memory of keys
  is gone and the token's own single use stands in for it. Until then a key is held while its transfer
  may land (`KeyHeldWhileItMayLand`). What the chain takes stays within the caps, though the budget
  charges at signature and never refunds (`SpendWithinCap`); a read always ends (`ReadsEnd`).
- *Agent.* A vote once committed is revealed in time whatever single fault comes (`OwedRevealIsMade`): the
  reveal phase of four ticks is what a clock one tick off, one fault and one tick of mining need. A
  vault it holds does not stay stuck in Mode F (`HeldVaultMoves`) and its queued exit is settled
  (`QueuedExitSettles`), although nobody else does anything.
- *Canary.* Whatever status the file holds against a signal was printed (`OperatorKnows`), so a restart
  cannot inherit an alert nobody saw, except for a line printed in the very sweep a crash kept from being
  saved (`torn`). From the first block the canary was ever asked to read, no event is passed without a
  line (`NoEventPassesUntold`), with two exceptions, each a history variable and a finding below: `unread`,
  the blocks a canary skips when it starts over before any sweep was saved, and `repeated`, those of a
  sweep whose alert prints nothing since the file held it before a torn "recovered".
- *Sign queue.* Nothing leaves the wallet before its dependencies took effect (`NothingSentTooEarly`); the
  server reopens only what cannot land any more (`ReopensOnlyTheDead`, given that a transaction no node
  knows within the grace period is dropped); nothing stays sent for ever (`SentResolves`). That the
  operator never signs one pending item twice is not claimed: a lost report allows it (see Findings).

Why the bounds are enough: a proposal touches each member through at most one ballot, and the
properties of the tally relate a delegate, a delegator and a third party, hence three members. A
second proposal is needed where one could start before the other ends (`serial`), and a
third adds only a longer history, since a proposal is created from the present stake and
configuration alone. Each deadline is passed, met exactly and missed within `MaxTime`. The money
properties relate one member to the rest of the vault, hence two members; a swap relates two
tokens, USDC and the asset; the roundings at stake are those of a handful of units. One fault at
every possible step is what the off-chain programs claim to survive, and two would break the claim by
design where it depends on a deadline (`agent`) or on the confirmations (`indexer`). A payment race
needs two arrivals of one request and a second read to spend the rest of the cap. A canary event is
missed, if at all, between two sweeps and a restart. A queue needs a dependency of each kind: on a
contract's address, on a read-back, on a receipt. The theorems below remove the bounds for the
properties they cover.

Each property of each run has a mutant of a mapped definition that makes TLC refute it
(`PROJECT.json`): a bug the property would find.

## Fairness

Nothing is assumed of the contracts' callers: no member is assumed to vote, to execute what passed or
to mark it expired. Liveness is stated of the programs, under what their scheduling justifies.

- `AgentFairness`: the agent's loop keeps ticking (it is restarted when it dies, and a tick that fails
  takes the place of one that does not), time passes, the chain mines what it was sent. That the creator
  or anyone else acts is not assumed.
- `IndexerFairness`: the loop polls, starts again after a crash, and makes the next call of a write; a call
  to the node ends, with an answer or an error (viem's transport times out); a block under
  construction is mined. The number of failures is bounded; in the code each is retried at the next poll.
- `PayFairness`: the client's program runs, the API serves requests and passes verdicts on, its timers
  fire, and the confirmation of a Solana transfer, which polls inside the API up to a limit, ends. Nothing
  is assumed of a remote facilitator, of the chain, or of the network's duplicates.
- `Fairness` of `SignQueue`: the page keeps polling; the node answers for each item in the end. That one is
  strong, since an item's question is asked anew in every poll and is not pending in between; what is
  sent reaches the node and is mined, unless it is dropped. The operator need not do anything.

## What is proved

All proofs are checked by TLAPS with no step left open, from the modules' named assumptions about
their constants alone: any finite set of members and assets, any configurations, caps, rates and bounds.
Three assumptions are more than types: `QuorumFloorAssumption` (the quorum floor is at most half),
`SignAssumption` (a read-back neither waits for another one nor gives an item its data,
as every builder in `src/scripts/sign-queue` arranges it) and `IndexerAssumption` (confirmations cover
the reorganisations and a lagging node: of all `MaxReorgs` of them together, since nothing keeps a second
one from reaching below the blocks the first one left).

- `TypeCorrect`: `Spec => []TypeOK`. The proof has a lemma per group of actions (`StakeStep`,
  `VoteStep`, `MemberStep`, ...) and one for what a tally step does to a proposal record (`TallyType`).
- `ProposalsSerialized`, `StakeStaysBehindVotes`, `NoExitAfterLeak`, `RulesStayFixed`,
  `DefaultsOutliveCommit`: the properties `Serialized`, `SkinInTheGame`, `NoExitOnLeakedOutcome`,
  `RulesFixedInFlight`, `DefaultReachesReveal`.

The first four share the inductive invariant `SafetyInv`. None of them is inductive alone.
`SkinInTheGame` is kept by an exit only if `hasPendingExecution` sees every proposal with a counted
weight, and it looks at the active proposal alone; so the invariant also says that all others are
settled (`Serialized`), that the active proposal is the latest (`ActiveIsLatest`: a new one cannot
overwrite a live id), that nothing is proposed before registration (`RegisteredFirst`), and that a
weight is counted only once the commit deadline is reached (`CountedAfterCommit`): from that second
on, the vault queues exits. `BurnNeedsNoPending` says that shares shrink only when nothing is
pending, `PendingSeesAll` that then nothing past its commit deadline is in flight; the two together
preserve `SkinInTheGame`. Steps of governance are summarised by what they may do to a proposal
(`GovStepMoves`), so that the invariant is argued once per kind of move rather than once per action.

- `LivesAsPlanned`: `Lifecycle`. A wait is measured by the configuration in force when the proposal was
  opened, and `TimesInv` says that it is still in force while the proposal may move.
- `LedgerAlwaysBalanced`: `LedgerBalanced`, the supply as a sum over members.
- `StakeCountedOnce`: `NoStakeCountedTwice`. `VoterInv` ties a member's one ballot to the contract's flags
  (an own ballot exactly when revealed, one cast for the member exactly when `defaultApplied`);
  `TallyInv` makes each counter of a proposal the sum of its ballots and its snapshot's total the sum of
  its snapshot, which `PastBalanced` carries over from the ledger when a second passes.
- `QuorumWasPresent`: `PresentMembersMadeQuorum`, from the tally, from a configuration in force that
  was validated (`ConfigInv`), and from `QuorumInv`, which keeps the reason of a decision with it.
- `DelegatesAreCapped`: `DelegatesStayUnderCap`. `CarryInv` says that `delegateAccrued` is what one
  delegate carries; it holds since no delegation moves while a proposal is in flight.

- `HistoriesImplementStake`: `HistorySpec => ImplementsStake`, the refinement of `VaultStake` by the
  histories. Its invariant, `HistoryInv`, says that no time in a history is later than `now`
  and that each history ends with the present value of what it records. A push then
  changes no answer about an earlier second (`PushKeepsThePast`), and when the second passes the present
  value becomes the past one (`PresentBecomesPast`), which is `Tick`. What a history means is a choice
  of the greatest index, which exists by `GreatestElement` (`FiniteLemmas`, by well-founded minimality).
- `PastAnswersStand`: `HistorySpec => PastIsFrozen`, from the same invariant.
- `SearchIsExact`: `HistorySpec => []SearchCorrect`. `HistoryInv` also keeps the checkpoints in strict
  order. The recursion of `GetAt` has a solution (`SearchExists` writes it down), and every solution ends
  at the number of checkpoints not after the time asked for (`SearchEnds`, by induction over the
  distance of the bounds).
- `AlwaysSolvent`, `LastExitTakesAll`, `BasisGoesWithShares`: `Solvent`, `NothingStranded`,
  `BasisLeavesWithShares`, inductive together with the types of the money (`CoreInv`). Each transfer that
  fails is a case. `ExitsDiluteNobody`, `DepositsDiluteNobody`, `SwapsLoseLittle`: the action properties
  `ExitDilutesNobody`, `DepositDilutesNobody`, `SwapLossBounded`, from lemmas about rounding down.
- `IdentitiesAlways`, `CarryIsDrawdownAlways`, `FeesOnlyOnNewPeaksAlways`: the properties of `FeeEngine`
  without `Always`. The carry is inductive with its types. Fees need it: a gain `g` on carry `c` raises
  the peak, or if the registry fails the unmarked gains, by exactly what `NetGain(c, g)` charges
  (`ChargedRisesByNetGain`), which uses `c = peak - pnl`,
  and the rounded fee is at most its rate of that (`FeeIsBounded`). That an id exists for every new
  address (`RegisterKeepsNames`) counts the registered addresses.
- `CreditsAlwaysMatch`: `CreditsMatchDeliveries`, from `MoneyInv`: what the engine holds of a token is the
  sum of the claims (`Claims`) and what is nobody's, and what a vault escrowed is the sum of its entries.
- `FileNeverTorn`, `FileNeverLost`: for any writer that saves complete states, failing and dying at any
  call, the file is never torn and, once there, never gone. The invariant says that the temporary file is
  complete before it is renamed.
- `CursorNeverGoesBack`: `IndexerSpec => SnapshotNeverGoesBack`. The invariant (`CursorInv`) says that the
  file is never ahead of the memory, that what is renamed over it is the memory, and that every event on
  the chain names its own block. A fetch then returns nothing from before the cursor: three recursions
  deep (`LogsOf`, `Fetched`, `ApplyAll`), each with its own existence lemma and induction, and whether the
  batch was folded or, as the model allows and no contract of the repository causes, refused half way. The one hypothesis: what stands for no file is no projection.
- `ProjectionIsExact`, `SnapshotsAreExact`: `IndexerSpec => []ProjectionExact` and `IndexerSpec =>
  []SnapshotsExact`, for any members, proposals, blocks, calls, batch size and ring. The argument has four
  stages. *(1)* A projection that `Mirrors` the contracts before a call mirrors them after the fold of what
  the call emits: each handler changes what it should and nothing else (`OnExitSettled`, ...), each event
  says what was done (`ExitSettledAgrees`, ...), each call emits the events that say it (`ExitAtOnceTold`, ...;
  `CallsTold` for all). It takes what the contracts keep true of themselves (`Sound`): the number of holders
  is the number of positive balances, a queued exit is no larger than the balance, every exit that was ever
  queued was settled or is queued, nothing is there before the vault. *(2)* Folds compose (`FoldJoin`), so the
  events of a range of blocks tell what was done in it (`ToldInTurn`, `RangeTold`). *(3)* What the source polls
  of a range a node has is all of it (`RangeFetched`): a vault's own events come with its announcement, a fill
  with the rebalance that names its adapter. *(4)* A block that is deep enough lasts (`LastingStays`): the
  reorganisations that remain do not reach it, and a node that lags has it (`PollExact`, `FetchExact`). The
  invariant (`IndexerInv`) says of the memory, of the file and of each copy that it is exact at a block that
  lasts (`Exact`), and that copies are in order of age; a restart takes up such a file (`RestartExact`), the
  writer only moves such files about (`WriterKeepsExact`).
  Hypotheses: the values for no file are no projections (`FilesApart`); those for no proposal and for
  something unknown are neither proposals nor numbers (`NamesApart`); the vault has no more adapters than
  `MAX_TRACKED_ADAPTERS` (`AdaptersFit`; beyond it the code stops learning them, and their fills are missed);
  the deployment is where `START_BLOCK` says (`StartBlock = 2`: `ChainInit` makes one block of all before it).
  They are of `IndexerInit`, a chain from its beginning; the old snapshot of the upgrade story, whose
  missing values are `Null`, is in TLC's run only.
- `OperatorAlwaysKnows`, `EventsNeverPassUntold`: the properties of `Canary`, for any chain, window and
  number of faults. The invariant (`TellInv`) carries the statement about the file to the tracker in
  memory (`TrackerTold`: what it holds was told, or is a line still to be printed), since the file is
  written from it; the window needs that every sweep has a signal that answers for its blocks
  (`SweepAnswers`) and that every block before the cursor, from the first one asked for, is accounted for
  (`Accounted`, `PassedUnderALine`).
- `ServedIsPaid`, `OnePaymentOneRead`, `KeysAreHeld`: the action property `NothingServedUnpaid`, `OneReadPerPayment`,
  `KeyHeldWhileItMayLand`, for any number of reads, copies, restarts and prices and each facilitator. The
  invariant (`PayInv`) adds that one copy waits at a time and behind the key (`OneWaits`), that before a
  restart every copy not rejected holds the key (`OneAttempt`), and, what makes a restart harmless, that
  beside a served copy another may wait but never gets to a transfer (`OneUse`), because the
  authorization is used. A step touches one copy; `OneMove` says when that keeps the invariant. That what
  waits is still worth the price (`Priced`) holds because a restart, which alone changes the price, leaves
  nothing waiting.
- `SpendStaysWithinCap`: `SpendWithinCap`. The ledger is ahead of the signatures: what was signed was
  charged before, for the amount signed (`SpendInv`).
- `NothingLeavesTooEarly`, `OnlyTheDeadReopen`: `NothingSentTooEarly`, `ReopensOnlyTheDead` of `SignQueue`.
  The invariant (`QueueInv`) says of each copy of an item, in the file, the poll and the builder, that it
  tells the truth about the chain (`CopiesTruthful`), which copy is older than which (`CopiesAge`: a
  stale write undoes nothing but what it knew), and that what is on the page or in the wallet rests on
  transactions that took effect (`RequestsBacked`).

`FiniteLemmas` is what these rest on. The library's induction theorems and its sums take operators as
parameters, so the lemmas are first-order: a least counterexample exists (`LeastElement`), hence a set
closed under successor is all of `Nat` (`NatSetInduction`) and a property of subsets that one more element
keeps holds of a finite set (`FiniteInduction`); `SumIsTotal` shows that the community modules' sum is the
one function that adds element by element, and the rest says how a sum changes when one or all of its
terms do. The solution of a recursion is built the same way, one entry at a time.

Only model-checked: `OwedRevealIsMade`, since the agent's chain executes a call exactly when it is
`ENABLED`; `QueuedExitNeverStranded`, stated with it; every liveness property (`HeldVaultMoves`,
`QueuedExitSettles`, `SentResolves`, `CatchesUp`, `ReadsEnd`). `ENABLED` and liveness under fairness are
out of the provers' reach. Every other property of a passing run is a theorem.

## Findings

- `finalize`'s NatSpec says that a vault of fewer than five members decides by "strict signer
  majority (CM-7)" (`src/contracts/src/Governance.sol:584`). The code accepts either a majority of
  signers with the quorum of stake or, with an OR, self-directed FOR stake of more than half of the
  snapshot, whatever the number of signers (`Governance.sol:663-664`). Run `signer_majority` reaches a passed
  proposal of a vault that three members hold (snapshot 1, 1 and 3 shares), with one revealed voter.
- The agent's documentation says that "every unreadable input fails closed"
  (`src/docs/REFERENCE-AGENT.md:144`) and `decideJoin` that `depositUsdc` "stays the most this agent will
  put into one vault" (`policy.mjs:134`). A `sharesOf` that cannot be read is taken for zero
  (`src/packages/reference-agent/src/plan.mjs:67`), so a vault the agent holds is joined again. Run
  `agent_deposits` doubles a position with one failed read.

Seen while modelling, and not asserted by a run:

- `lifetimeFeesUsdc` is documented as "performance fees actually collected"
  (`OperatorRegistry.sol:40`); a fee that was escrowed and later pulled is credited without
  `recordFeeCollected` (`FeeEngine.sol:198-208`), so it is never counted. Nothing reads the sum back.
- The fold refuses a `DepositActivated` without a balance, with its row already closed
  (`projections.mjs:345-352`). The branch is modelled (`ApplyOrThrow`) and never taken: `_mintShares` reverts
  unless it mints a share, and the event carries the balance after it.
- `activeProposalOf` unreadable is read as no proposal (`chain.mjs:778`); the agent's drawdown baseline is
  kept in memory only; `maxConcurrentVaults` does not count pending deposits.
- A canary whose first sweep is abandoned, lost in a crash or never saved starts over from
  `LOG_LOOKBACK_BLOCKS` before the head of that moment (`canary-runner.mjs:524-526`): blocks it had been asked
  to read may lie before that and are skipped without the gap line, although the comment there calls "a silent
  coverage gap" "precisely what this package exists to prevent" (`canary-runner.mjs:531-532`). `unread` keeps
  them.
- An operator who read "recovered" in the sweep a crash tore is not told again if the alert returns before
  the restart (`repeated`). `vault-config` is never sighted ok, so after its first outage a later one is silent until
  its backoff falls due.
- `withQueueLock` is described as around every read-modify-write of the queue file, but the builders are
  other processes: a builder's stale copy can undo a recorded send. The data recorded with a hash is
  resolved again when the report arrives, not the data that was handed to the browser. A report that is
  lost leaves its item signable until a nonce gate closes.

## What is not modelled, and why

- *One-time wiring* of governance, factory and registries: done once by the deployer before any vault
  exists. The parent's quorum floor, the one effect of the sub-vault tree on governance, is the
  constant `ParentQuorumBps`.
- *The vault's children*: `allocateToChild`, `redeemFromChild`, `pullChildEscrow`, the shortfall unwind
  and look-through values. The factory does not allow sub-vaults at launch; planned.
- *A failing governance*: `_pendingExecution` reads a call that reverts as "nothing pending". In
  `VaultCore` and `StakeHistory` the answer is a free choice; in `GovernedVault` governance answers
  truly, since the governance contract of this repository does not revert there.
- *Statistics*: the running sums of gains, losses, fees and vaults in `statsOf`, which nothing reads back.
- *Encodings*: not read by any modelled guard. Events are in `VaultLog`, without the amounts nothing folds.
- *Indexer*: several vaults (their projections are independent but for the list of addresses to poll),
  and the activity feeds that keep the last events for display.
- *Agent*: several vaults at once, the evaluators' arithmetic, the scan of logs for an outside track
  record, `skipWindow` (refused unless a danger flag is set).
- *API*: the rate limiter, the development stub, sanctions screening, the resources themselves.
- *Canary*: what the other signals measure, identity pins, webhooks, heartbeat and dead-man ping.
- *Oplog*: log lines, the heartbeat file, shutdown hooks (a stop is in `Indexer`).
- *Sign queue*: the request's origin checks, items no gate or dependency holds back, plain calls (gated as
  contract creations are). Assumed: a transaction propagates within the ten minutes of grace, one
  account sends everything, one builder runs at a time.
- *The identity check* of `AgentVaultCore` in front of `_deposit`: it only refuses.
- *Gas, reentrancy*: every external function of the vault and of governance that changes state runs
  to completion or not at all; a reentrancy guard in the code makes nested calls revert.
- *Front ends, SDK encodings, legal text, offline reports, deployment scripts*: they keep no
  concurrent state.

## Plan

In order of importance to the protocol:

1. `VaultShares`, `VaultStake`, `Governance`, `GovernedVault` and their proofs (done).
2. `Checkpoints` and `StakeHistory`, with the refinement (done).
3. `VaultCore`: money, one root vault, and the theorems of all its safety properties but the one that
   needs `ENABLED` (done).
4. `FeeEngine` with `OperatorRegistry` and its theorems (done).
5. `Durable`, `VaultLog`, `Projection`, `Indexer` and their theorems: the file, the cursor, and that the
   projection says what the contracts say (done).
6. `ReferenceAgent` against `GovernedVault`; `Payments`; `Canary` (done).
7. `SignQueue` and its safety as theorems (done).
8. Sub-vaults: allocation, redemption, the shortfall unwind.
