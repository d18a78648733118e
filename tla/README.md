# Verification of the Ambient (CrocSwap) DEX protocol

TLA+ specifications of the contracts in `src/contracts` and of the scripts in
`src/misc` that deploy and govern them, with the TLC configurations that check
them and proofs of their main invariants for TLAPS.
`PROJECT.json` lists the components, the runs, which source lines every
definition stands for, the mutant of the code that shows each property to be
sensitive, the hazards the properties are aimed at, and the theorems.

## 1. The system

Ambient keeps every pool of a decentralised exchange in one contract. Its
storage (`mixins/StorageLayout.sol`) is shared by a small dispatcher,
`CrocSwapDex`, and a set of proxy call paths that it reaches by `delegatecall`.
A user command is one EVM transaction; a re-entrancy lock (`AgentMask`) keeps
two from interleaving, and one that fails has no effect. A dex is brought to the
chain, handed to its governors and upgraded by a person with scripts
(`src/misc`): these run outside the chain, one transaction after the other,
with an address book in a source file as their only memory.

| component | state | operations | calls | what makes it correct |
|---|---|---|---|---|
| `LevelBook` | `levels_`: bid lots, ask lots, fee odometer of a tick | add, remove, cross, clock | `TickCensus` | net lots match live orders; odometer never ahead; the clock of a range measures its fees |
| `TickCensus` | `mezzanine_`, `terminus_` bitmaps | bookmark, forget, pin, seek | - | every level with lots is found by a swap |
| `PositionRegistrar` | `positions_`, `ambPositions_` | mint, burn, harvest, mark atomic | - | positions sum to the book; never paid more than earned |
| `KnockoutCounter`, `KnockoutLiq` | `knockoutPivots_`, `knockoutMerkles_`, `knockoutPos_` | mint, burn, cross, claim, recover | `LevelBook` | flag and pivot agree; tranches never merge; a dead order can be got back, a live one not |
| `TradeMatcher`, `LiquidityCurve` | `curves_` | the above as commands, `sweepSwapLiq` | all of the above, LP conduits | curve liquidity is that of the orders in range; a swap ends and never reverts on the book |
| `SwapCurve`, `CurveAssimilate`, `CurveRoll` | none | arithmetic of a leg | - | fees only to liquidity in range; price stays on its side of a bump |
| `MarketSequencer`, `WarmPath`, `KnockoutPath`, `HotPath`, `LongPath` | none | decode and order the commands | `TradeMatcher`, `SettleLayer` | one snapshot of the curve, committed once |
| `PoolRegistry`, `PoolSpecs`, `PriceGrid` | `pools_`, `templates_`, `improves_`, `newPoolLiq_`, `protocolTakeRate_` | set templates and rates, init pool, revise, permit, fit to the grid | oracles | nobody is locked out of an order; a take was once in force; orders off the grid stay large enough |
| `AgentMask` | `lockHolder_`, `msgValSpent_`, `nonces_`, `agents_` | lock, relay, act as agent | - | one command at a time; a relayed command runs once |
| `SettleLayer`, `DepositDesk`, `ProtocolAccount` | `userBals_`, `feesAccum_` | deposit, disburse, transfer, settle, collect | tokens | surplus and fees are covered by what the contract holds |
| `CrocSwapDex`, `ProxyCaller`, `ColdPath`, `BootPath`, `SafeModePath` | `proxyPaths_`, `hotPathOpen_`, `inSafeMode_`, `authority_` | user and protocol commands, upgrades | call paths | safe mode stops users; only the authority governs |
| `CrocPolicy`, `Timelock` | roles, policy rules; owner and delay, scheduled operations | resolutions; schedule, execute, change the delay | the DEX | rules are only weakened by the treasury |
| deployment scripts (`misc/scripts/deploy`) | the address book `constants/addrs.ts`, what is on the chain, the log | the steps `vanityStep1` to `10` | contracts, governance tooling | a script that crashed can be run again; what is in force is recorded; no role stays with the wallet |
| governance tooling (`libs/governance.ts`, `libs/pool.ts`) | none | print instructions for multisigs, decode them | - | signers see what will run |
| storage layout tools (`snapshotLayout.ts`, `compareLayouts.ts`) | layout files of builds | snapshot, compare | - | a conflict is reported if and only if there is one |
| periphery, lens | LP token balances | views, wrappers | the DEX | - |

Hard behaviours, in the order of their weight here:

* **Long sequences of legal calls.** The contracts keep a pool's liquidity
  three times: as lots on levels, as positions, and as one number on the curve.
  Nothing ever recounts them; each operation must keep all three in step.
* **Ordering within a swap.** A swap crosses several levels in one call. The
  bump of a level, the flip of its odometer, the removal of its knockout
  tranche and of bookmarks happen in an order that matters.
* **Stale names.** A knockout tranche is named by the block time of its first
  mint; a position by that time; a dead tranche is told by comparing times.
* **Word edges.** Lots are 96-bit words with a borrowed flag bit; fee clocks
  are 64-bit words that wrap on purpose while odometers may not.
* **Powers.** A policy contract, three roles, its conduits and an upgradeable
  set of proxies all write the same control state; a halt may come at any point
  of the others' work, and each step of it may be refused.
* **On whose behalf.** A command runs for its sender, for the signer of a relayed
  message or for a client of a router. Settlement, tips and ether attached to
  the call must charge the right one of them, in an order no test enumerates.
* **External contracts.** Tokens need not conform; conduits and oracles are
  called under the lock (conduits and oracles: see the plan).

* **Scripts that crash.** A deployment is a dozen transactions and ten scripts.
  One may die between a transaction and the line that logs it, may revert half
  way, and is then run again from its first statement; what it prints for the
  multisigs is executed later and in any order.

On the chain there is no crash, message loss or true concurrency: the EVM is
sequential and transactions are atomic. Those hazards belong to the scripts.

## 2. The modules

| module | models | kind |
|---|---|---|
| `LiquidityMath` | `libraries/LiquidityMath.sol` | operators on words |
| `TickCensus` | `mixins/TickCensus.sol` over `libraries/Bitmaps.sol` | state machine of the two stored bitmaps, with the seeks as operators |
| `LevelBook` | `mixins/LevelBook.sol`, bookmarks of `TickCensus` | operators on a book `[Ticks -> Levels]` |
| `PositionRegistrar` | `mixins/PositionRegistrar.sol` (range orders) | operators on a position |
| `KnockoutLiq` | `libraries/KnockoutLiq.sol`, records of `KnockoutCounter` | operators on pivots, Merkle slots, positions |
| `TradeMatcher` | one pool: `TradeMatcher`, `KnockoutCounter`, `LiquidityCurve` | state machine |
| `RewardLedger` | the pool with an auxiliary ledger of earned rewards | state machine over `TradeMatcher` |
| `LiquidityProfile` | what the pool promises | abstract specification |
| `MCRange`, `MCKnockout`, `MCTranches`, `MCRewards` | small instances | for TLC |
| `PriceGrid` | `libraries/PriceGrid.sol` | operators on ticks, with a reference definition of the threshold |
| `PoolRegistry` | `mixins/PoolRegistry.sol`, `libraries/PoolSpecs.sol`, and what of them a mint or a burn asks | state machine over `PriceGrid` and `PositionRegistrar` |
| `MCRegistry` | small instance | for TLC |
| `RegistryProofs` | takes, permits, lock-outs, orders off the grid | proofs |
| `SumLemmas` | finite sums: a term moves, a set grows, a set splits | proofs |
| `PoolProofs` | book, fee clock, tranches and histories, positions, the refinement, rewards | proofs |
| `CensusProofs` | the bitmaps are exact, every seek finds the nearest mark | proofs |
| `DexControl` | entry points and protocol commands: `CrocSwapDex`, `ProxyCaller`, the protocol half of `ColdPath`, `BootPath`, `SafeModePath` | operators on the control state of a dex, actions of users |
| `CrocPolicy` | `governance/CrocPolicy.sol` over a dex with users | state machine over `DexControl` |
| `MCPolicy` | small instance | for TLC |
| `PolicyProofs` | mandates, halts, safe mode, powers, payments | proofs |
| `SettleLayer` | `SettleLayer`, `DepositDesk`, `ProtocolAccount`, legs of `TokenFlow` | operators on a ledger |
| `AgentMask` | `AgentMask` and the user half of `ColdPath` | state machine over `SettleLayer` |
| `MCAccounts` | small instance | for TLC |
| `AccountsProofs` | conservation, sums of accounts, nonces, routers, who pays | proofs |
| `GovernanceTools` | `libs/governance.ts`, `libs/pool.ts`, `constants/addrs.ts`, `poolParams.ts` | operators on commands, instructions and calldata |
| `DeployScripts` | `scripts/deploy/vanityStep*.ts` | each script as the sequence of its statements |
| `Deployment` | a person runs the scripts against a chain, multisigs sign | state machine over `DeployScripts` |
| `MCDeployment` | a deployment with the parameters of mainnet | for TLC |
| `DeploymentProofs` | types, records, handover, address book | proofs |
| `StorageLayouts` | `scripts/snapshotLayout.ts`, `compareLayouts.ts` | state machine, one entry per step |
| `MCLayouts` | layouts of a few variables in two builds | for TLC |
| `LayoutProofs` | the verdict is exact | proofs |

On the chain the project has four state machines, one for each part of the
storage: the pool, the registry of pools, the control state and the accounts. They meet in the code only through
what a command returns (the flows of a trade) or lets pass (the proxies), and
each machine leaves that part of its neighbour nondeterministic: `AgentMask`
settles any flows, `CrocPolicy` lets users do anything to what they hold through
any open path. `TradeMatcher` takes the rest time of its pool for a
constant and whether an order of `OffGrid` is off the grid for a choice of the user;
`PoolRegistry` is about how they change. `TickCensus` refines the pool's view of its bookmarks: its
variable `marked` is the set that `LevelBook` derives from the lots, and its
`NextBump` what `TradeMatcher` takes to be the nearest bookmark. `Deployment`
composes the scripts and the tooling with the part of the dex, of the policy and
of the timelocks that deployment changes; there the dex and the policy are
smaller than in `DexControl` and `CrocPolicy`, which start where it ends.
`StorageLayouts` stands alone.

`TradeMatcher` composes the operator modules; `RewardLedger` conjoins every
action of `TradeMatcher` with its effect on the ledger; `LiquidityProfile` is
instantiated in `TradeMatcher` under a refinement mapping (`profile` is the
depth of the live orders, `price` the tick, `active` the curve liquidity).
Definitions keep the names of the functions they stand for. Definitions whose
comment begins with "Mutant:" are no part of the model: each is a plausible bug
of the definition after it.

### State and actions of the pool

The variables of `TradeMatcher` are the storage of one pool, named in the
module; `positions` and `koPos` are keyed by owner and order instead of by
hash. Two variables are not in the contracts: `sweep` says which way the swap
under way is going (the program counter of `sweepSwapLiq`), and `depth` is an
auxiliary count of the lots of live orders over each tick, which no guard reads.

Every user command is one action. `require`s and checked casts or subtractions
are guards, since a reverting transaction changes nothing. A swap is a
`SweepBegin`, any number of `SweepCross` or `SweepKnockout`, and a `SweepEnd`;
properties are thus checked between any two iterations of the loop.

| action | code |
|---|---|
| `MintRange`, `BurnRange`, `HarvestRange` | `mintRange`, `burnRange`, `harvestRange` with the atomic mark of `applyConcentrated` |
| `MarkRange` | `applyConcentrated` with no liquidity to add off the grid: the mark is set, nothing is minted |
| `MintKnockout`, `BurnKnockout` | `mintCmd`, `burnCmd` of `KnockoutPath` and all they call |
| `ClaimKnockout`, `RecoverKnockout` | `claimKnockout` with any provable link, `recoverKnockout` with any time |
| `SweepCross` | a loop turn: leg to the bump, `bumpConcentrated`, `crossLevel`, `shaveAtBump` |
| `SweepKnockout` | the same when the level carries the flag: `crossKnockout`, `commitKnockout` |
| `SweepEnd` | the last leg, short of the bump |
| `PassTime` | a later block |

What is abstracted, and why nothing checked depends on it:

* **Price** is known by its tick. Swap legs end at any tick short of the next
  bump. The price inside a tick only matters to token amounts.
* **Fee growth** of a leg is any of `FeeSteps`, and zero when there is no
  concentrated liquidity in range, as in `CurveAssimilate`.
* **Token flows, ambient liquidity, conduits, permits** are left out. Conduits
  and oracles are called under the lock.
* **The bitmap** is the set of its ticks, and the next bump is the nearest in
  the direction of the swap, a buy meeting ticks above the price and a sell
  ticks at or below it: the asymmetry `pinBitmap` documents.
* **Lots** are even numbers below `LotLimit` (bit 0 is the flag); one unit is
  1024 units of liquidity. **Fee words** wrap at `FeeWord`.
* **The hash chain** of a pivot is the sequence of its links. A proof of a past
  knockout is a choice of link, which a collision-free hash makes it.
* **The edges of the tick range** are never crossed: the price is clamped there
  and such a loop does not commit, so those crossings are no action.
* **`insideMid`** of a knockout command is the caller's choice, so the spread
  check is its weaker form, `SpreadOkay(_, _, TRUE)`.
* **Block times** advance by one unit; the 10-second unit of the JIT threshold
  is not kept.

### State and actions of the registry

`templates`, `pools`, `protocolTakeRate`, `newPoolLiq` and `improves` are the
storage of `PoolRegistry`; of a curve only the liquidity locked in it is kept, of
the positions those of one owner. `inForce` and `asked` are auxiliary: the take
rates in force since a pool was initialised, and what was asked of an order when
it was last added to off the grid.

| action | code |
|---|---|
| `SetPoolTemplate`, `DisablePoolTemplate`, `SetPoolSpecs` | the functions of that name |
| `SetProtocolTakeRate`, `ResyncProtocolTake`, `SetNewPoolLiq`, `SetPriceImprove` | the same |
| `InitPool` | `initPool` of `ColdPath`: `registerPool`, the oracle, `initCurve` |
| `MintOnGrid` | `mintConcentratedLiq` of `WarmPath` |
| `MintInLong` | the mint of `applyConcentrated`, with or without price improvement |
| `Burn` | `burnConcentratedLiq`, as far as the registry can refuse it |
| `PassTime` | a later block |

The prices of ticks are a constant, different at different ticks. Who may send a
command is the matter of `DexControl`; an oracle approves or refuses at will.
Mileage is not carried here and stays zero.

### State and actions of governance

`dex` is the control state: authority, `hotPathOpen_`, `inSafeMode_`, the slots
of `proxyPaths_` that are installed, treasury and its start, `protocolTakeRate_`
and the protocol's fees. `roles` and `rules` are the storage of the policy, `now` the
block time, `holdings` whatever users have. Auxiliary: `pledged` (until when
operations may not take a code away, since the treasury or the emergency role
last wrote the rule), `halted`, `namedAt`.

| action | code |
|---|---|
| `OpsResolution`, `TreasuryResolution` | the functions of that name, down to the protocol command in the dex |
| `EmergencyHalt` | the revocation of the hot path and safe mode, in the order of the code |
| `SetPolicy`, `ForcePolicy`, `EmergencyReset`, `TransferGovernance` | the same |
| `InvokePolicy` (in `ConduitActs`) | a conduit that sends a command its rule admits |
| `Swap`, `UserCmd` (in `UserActs`) | `swap`, `userCmd` of the dex through the proxy that serves them |
| `PassTime` | a later block |

`XOkay` is the conjunction of the `require`s of `X`: a resolution that fails
anywhere leaves no trace. Abstractions: a sidecar accepts a single slot, so a
proxy path holds its own contract or none; `SET_TAKE` stands for the eight
policy codes, which all write parameters; fees are small numbers, earned once
(`MaxFees`); `holdings` only shows whether users could act; `uint32` block times are
words below `TimeWord`. A contract that succeeds the policy as authority is not
modelled: after `AUTHORITY` the dex is left to its users.

### State and actions of the accounts

`ledger` holds the collateral of every account (`surplus`, by owner and salt or
pocket), the protocol's `fees`, what the dex holds of each asset, what owners
have in their wallets and, as auxiliaries, what pools hold (`pools`), ether that
nobody owns (`stray`) and the sum of collateral (`banked`). `ledger.ok` is
cleared when a `require` or a checked subtraction fails; an action demands that
it is still set at the end, so failed commands do nothing. `nonces` and
`agentCalls` are the remaining fields of `userBals_`, and `ran` an auxiliary log
of relayed messages.

| action | code |
|---|---|
| `Direct` | `userCmd` by the owner: trade, long order, pool initialisation, deposit, disburse, transfer, side pocket, nonce, approval |
| `Relayed` | `userCmdRelayer`: conditions, nonce, command, tip |
| `Routed` | `userCmdRouter`: the agent's call is used up, then the command |
| `CollectFees` | `COLLECT` by the treasury |
| `PassTime` | a later block |

Every command is one step, because `lockHolder_` refuses any entry while one is
in progress, a callback of a token included. Abstractions: the flows
and fees of a trade are any of the instance's, since what a pool computes is not
the ledger's business; a long order has at most two hops; a signature is
membership in `Messages`; the sender of a transaction is its origin; token
permits and gate oracles are left out, which only decide whether a command runs;
a token outside `SafeTokens` delivers `TokenFee` less than it was asked to.

### State and actions of the census

`mezzanine` and `terminus` are the stored bitmaps, a word being the set of its
bits. `BookmarkTick` and `ForgetTick` are the functions of that name. The seeks
are operators: `PinBitmap` on the terminus word, `SeekMezzSpill` over words, rows
and the lobby, and `NextBump`, the way `sweepSwapLiq` joins the two. Words have
`Width` bits instead of 256, so a tick is three digits to the base `Width`
instead of three bytes; the keys, offsets and wrap-around of the walks are those of
the code. Nothing in the code depends on 256 but as the size of a word and half
of it as the offset between signed keys and bits.

### State and actions of a deployment

On the chain: `count` (contracts deployed, by kind), `dex`, `roles` of every policy and
`locks`, the timelocks. With the person: `book` (`constants/addrs.ts`), the script
that is `running`, its `pc`, its copy `addrs` of the book and what it last `logged`;
which steps are `done`, and `mishaps`. With the multisigs: the `agenda` of
printed instructions, `pending` operations of the timelocks, and `prints`, from
which salts are drawn.

| action | code |
|---|---|
| `DoRef`, `DoInflate` | `refContract`, `inflateAddr`: attach to the recorded address, or deploy |
| `DoMapSalt`, `DoCreate2`, `DoReadDex` | `vanityStep2`: the salt of the deployer, the deployment of the dex, its address |
| `DoPrint` | the address book is written to the log |
| `DoSend`, `DoTransferGovernance` | a transaction of the wallet, through the deployer or the policy |
| `DoPrintResolution`, `DoPrintTimelockSet` | `printResolution`, `opsTimelockSet`, `treasuryTimelockSet` |
| `Start`, `End`, `Crash`, `Abort` | a script starts from the book, ends, dies between two statements, or throws at one |
| `LookUp` | the person reads on the chain what a crash kept from the log |
| `Schedule`, `Execute` | a multisig sends an instruction to its timelock, which executes it later |

Every statement is a step; a script is a sequence in `DeployScripts` and only
`Deployment` says what its statements do. Assumptions, none of them in the code:

* The person is diligent: the table a script last printed is copied into the
  book, however the script ended. A line that was not reached was not printed.
* There are no outsiders. Anyone may call `CrocDeployer.deploy`
  (`CrocDeployer.sol:36`), and a call just after that of step 2 would leave another
  contract in `dex_`, which step 2 reads (`vanityStep2.ts:32`) and records.
* A transaction that is sent is mined; it may revert, which aborts the script.
* `LookUp` covers three losses no rerun can mend: a deployer that has no salt (the
  wallet's first one is looked up), a dex that was created but not printed, and
  the one-way steps 3 and 7 whose last transaction went through.
* Instructions are scheduled in the order they were printed and executed in any
  order. Delays are compared but do not pass.
* Contracts have as many copies as crashes can cause (`MaxCopies` exceeds
  `MaxMishaps`, so the bound is never met). `MaxPrints` bounds the reruns
  of scripts that print.
* Calldata is a record of its function and arguments; a salt is the number of the
  print instead of its second; `EMPTY` is the zero address.
* The safe mode path is installed by no script, and the decoder knows only the
  cold and boot paths.

### State and actions of the layout tools

`Snapshot` adds the entry of a state variable of a core contract, `Compare` reads
the next one: `hasConflicts` is the verdict so far, `variablesBySlots` and
`storageLayout` the tables of `compareLayouts.ts`. A type is its text with the
number the compiler gave it, which `StandardizeTypeData` drops for structs. The
members of a struct are not in the files, so two structs of one name that differ
inside look the same to the tool and to the model.

## 3. What is checked

| run | instance | properties | distinct states |
|---|---|---|---|
| `range` | 3 overlapping ranges over ticks 0..4, one also off the grid, fees 0..2 | `TypeOK` `ActiveLiquidity` `BookMatchesDepth` `DepthIsPositions` `BookmarkCoversLots` `OdometerBounded` `CrossingNeverReverts` `ClockTracksGrowth` | 1358 thousand |
| `knockout` | a bid and an ask over the same ticks, mints of zero lots | `FlagMatchesPivot` `BidsNeverPassed` `ImplementsProfile` `SwapEnds` | 245 thousand |
| `tranches` | 2 owners (symmetric), 2 pivots, 3 block times, JIT threshold 1 | `TrancheFresh` `PivotBacked` `DeadTrancheRecoverable` `HistoryGrows` | 89 thousand |
| `rewards` | a range and a bid sharing a tick, fee steps 3 and 4, 2 block times | `RewardsNeverOverpaid` `ClaimsNeverOverpaid` | 993 thousand |
| `registry` | 2 kinds of pools of a pair, 3 specs (one of tick size 0), 2 rates (one too high), 3 ranges, 3 block times, 3 commands, one open order | `NeverLockedOut` `TakeOnceInForce` `WingsStayBacked` `PermitFixed` | 170 thousand |
| `governance` | 3 roles, one conduit with rules on the cold path, 4 drafts of rules, 3 block times, `uint32` of modulus 4 | `TypeOK` `MandateKept` `SafeModeEscapable` `HaltFreezes` `PowersSeparated` `TreasuryWaits` | 100 thousand |
| `accounts` | Alice and Bob, ether, a conforming and a taxed token, 3 signed messages, 2 block times | `TypeOK` `Balanced` `BankedInAccounts` `StreamsInOrder` `OnlyOwnerPays` `RouterConfined` | 46 thousand |
| `deployment` | the 11 scripts, mainnet parameters, 2 mishaps, 5 prints | `InForceIsRecorded` `HandoverReaches` `SignersSeeWhatRuns` `DeploymentCompletes` | 229 thousand |
| `layouts` | 10 variables of 3 contracts in two builds, 4 entries | `VerdictExact` | 36 thousand |
| `census` | words of 4 bits, so 64 ticks, at most 3 marked | `SeekFindsNearest` | 44 thousand |

**Book.** `ActiveLiquidity`, `BookMatchesDepth` and `DepthIsPositions` say that
the three records of liquidity agree, at every iteration of a swap: curve with
depth, levels with depth, depth with positions. `BookmarkCoversLots` and
`CrossingNeverReverts` say that a swap finds every level and can cross it.
`OdometerBounded` is what keeps the flip of an odometer from underflowing.

**Fees.** `ClockTracksGrowth` says that while both ends of a range hold lots its
clock moves by the fees booked in range, modulo the word, through every mint,
burn, crossing and knockout. A crossing that skips the flip (`LevelBook.sol:65`)
books no fee, but reads its level from the other side: the whole counter turns up
below it, or is gone (`SkippedBelow`), so the clocks of the ranges that end there move
by that, and no other clock moves. `RewardsNeverOverpaid` and `ClaimsNeverOverpaid` compare what is
paid with a ledger of what was earned, in behaviours without a skipped flip
(the run's `CONSTRAINT`).

**Knockouts.** `FlagMatchesPivot`, `TrancheFresh`, `PivotBacked`,
`DeadTrancheRecoverable`, `HistoryGrows` and `BidsNeverPassed` together say that
a tranche is a unit: it has one name, its positions, one end and a provable
history, and the price cannot slip past it.

**Abstraction.** `ImplementsProfile` is refinement of `LiquidityProfile`: users
lay lots over ticks, the price moves, the active liquidity is the profile at
the price. **Liveness.** `SwapEnds` needs weak fairness of the loop only: its
iterations follow each other in one transaction, with no other process to
starve them. Since a leg may always end the swap, it says that a swap makes
finitely many crossings; a cycle of crossings would refute it.

**Registry.** `NeverLockedOut`: in a pool without an oracle an order older than
256 units of ten seconds can be burned in full, whatever became of the grid, the rest
time and the template. `PermitFixed`: whether a pool asks an oracle is settled when it
is initialised, over all templates, revisions and attempts to initialise it again.
`TakeOnceInForce`: the take of a pool may be stale, but was in force since the pool
exists. `WingsStayBacked`: an order let off the grid keeps what was asked for it.
TLC also evaluates the assumption `ThreshAssumption` of `MCRegistry`: for every
order between two of 17 ticks around zero, on grids of five sizes, the threshold of
`PriceGrid.sol`, with its cases for signs and edges, is that of the ticks the order
leaves of the cells it does not fill, a definition without such cases.

**Governance.** `MandateKept`: a code that operations granted under a mandate
stays in the rule until the mandate is over, over any sequence of rewrites by
operations. `HaltFreezes`: from a halt to the next resolution of the treasury
nobody changes the dex or what users hold, conduits and operations included.
`SafeModeEscapable`: whatever was upgraded, while the policy has the authority
the treasury can reinstall the safe mode path and leave safe mode.
`PowersSeparated` says what operations, conduits and the emergency role cannot change.
`TreasuryWaits`: a treasury is paid nothing within the delay after it is named.

**Accounts.** `Balanced`: of every conforming asset the dex holds exactly what it
owes to accounts, pools and the protocol, whatever another token does.
`BankedInAccounts`: collateral is neither made nor lost, also when a payer pays
itself. `StreamsInOrder`: the messages of a track run in the order of their
nonces and none twice, although nonces can be set by messages too.
`OnlyOwnerPays`: no account or wallet falls but in a command for its owner, or by
the ether its owner attached. `RouterConfined`: a router can trade for its
client, and neither pay itself nor prolong its powers.

**Census.** `SeekFindsNearest`: from every tick, in both directions, a swap finds
exactly the nearest tick that is marked, or infinity; the pin on its own never
shows a tick beyond it. This is what the pool assumes of its set of bookmarks.

**Deployment.** `InForceIsRecorded`: at every statement of every script, what is in
force on the chain (the policy in charge, sidecars, holders of roles) is in the
address book that was last printed, so a crash there loses nothing that is in
use. `HandoverReaches`: once governance is transferred, the policy in charge is
the recorded one, the wallet has no role in it, and operations and treasury are
with timelocks of their own multisigs, whatever was rerun before. That no script
loses or replaces a recorded address (`BookWriteOnce`) is proved only. `SignersSeeWhatRuns`: for a
completed deployment, every treasury resolution the dex would accept is decoded,
from either call the signers send, to a label that is true of its effect; for codes
the decoder calls unknown, that the command touches neither proxies, authority nor
the hot path. **Liveness.** `DeploymentCompletes`: the deployment ends with
contracts that validate, sidecars in their slots, pool parameters, roles and
delays as intended, and stays so. `FairSpec` assumes that a script that runs goes
on and that what was printed is signed (weak fairness), and that the person comes
back to the next step, and to a look at the chain, however often a script failed
in between (strong fairness, since a failing rerun disables both for a
while). That is the convention of the scripts, which are written to be run until
they pass; crashes and needless reruns are finitely many (`MaxMishaps`).

**Layouts.** `VerdictExact`: the tool reports a conflict if and only if two of the
variables read so far cannot share a storage, in whatever order the files are
read, although an entry is compared with the first of its name alone and ranges
by their end points.

Why the bounds suffice: two orders sharing an end, nesting and abutting are all
the ways two ranges meet, and `range` has them; a tranche, its successor and the
successor of that one fit in three block times; fees of one or two units tell
apart before and after at every crossing, and `rewards` has steps above the
two units of rounding; `LotLimit` is small enough for a level to be full. In
`governance` a mandate ends within the block times and one of the drafts has an
expiry beyond the word. In `accounts` two messages share a nonce, one resets the
nonce of another track, approvals run out (one call) or never do (`WordMax`), and owners
have just the ether to fall short of a second payment. In `registry` three commands make a
template and revise, disable or replace it before or after a pool is made of it; an
order that is deleted and opened again, or added to, is all that orders of one owner have
to do with each other there; the times fall inside the rest time and on the first
unit past it. Commands and times run out, so deadlock is not checked. In `deployment` two mishaps
let a script crash and its rerun crash again, or one be rerun after it had ended;
five prints are what steps 8 to 10 print, and no script is rerun after that many. In `census` a
word of four bits has borders, inner bits and a neighbour on either side, and three
marks put one tick on each side of a border and one to be forgotten. In `layouts`
four entries are two variables, each in two builds; the variables move, overlap at
either end, lie within an array, change their type or are only renumbered.

### Where the code and its documents differ

Each is a run that expects a violation of one claim, under the same model.

* `claim_mandate`: within a mandate, operations can write a rule whose expiry
  overflows `uint32`, after which the conduit is refused (`CrocPolicy.sol:308`).
* `claim_emergency`: the emergency role goes to the timelock of the treasury
  (`vanityStep6.ts:28` looks for the emergency timelock at the treasury's address),
  while `docs/GovernanceRoles.md:37` wants it to act faster than the treasury can. The
  recorded mainnet addresses show the same (`constants/addrs.ts:97,99`).

Others were met while modelling. The model follows the code; no run is spent on
them:

* a crossing that finds the odometer of a level equal to the global counter does not
  flip it, so the clock of a range that ends there jumps by the counter
  (`LevelBook.sol:65`; `SkippedBelow` in `ClockTracksGrowth`), where the comment at
  209-212 guarantees that it reflects the rewards of the range;
* a template whose tick size is zero is not disabled, as the comment at
  `PoolRegistry.sol:117` has it: pools are initialised from it, in which no range
  order can be minted;
* the rest time of an order is in units of ten seconds (`PoolRegistry.sol:303`,
  `PoolSpecs.sol:39`), not in seconds (`PoolRegistry.sol:119` and 160,
  `ColdPath.sol:143`);
* a resting bid is refused a burn while the price is in its knockout tick
  (`KnockoutPath.sol:142`);
* a proven claim with a blended mileage reverts (`KnockoutCounter.sol:288`);
* rewards are lost when the circular clock of a range wraps
  (`LiquidityMath.sol:183`);
* an ask is accepted with its knockout tick at the price (`KnockoutLiq.sol:293`;
  the comment at 249-250 asks for it to be outside);
* `CrocPolicy.sol:144-150` keeps the warm path open in a halt, where
  `assertProxy` closes it with all others;
* `docs/GovernanceRoles.md:32` has safe mode freeze all user activity, but `swap`
  does not look at it: when only safe mode is set, swaps go on, and
  `emergencyHalt` then reverts;
* fees collected before a treasury is named are credited to the zero address
  (`ColdPath.sol:234`);
* a pool cannot be initialised from surplus collateral, since what is taken from
  it fails the check of the contract's balance (`SettleLayer.sol:190`);
* ether attached to a command that takes none stays in the contract
  (`DepositDesk.sol:72`): it is `stray`.

## 4. What is proved

All theorems hold for every value of the constants that satisfies the named
assumptions of the modules.

**The book** (assumptions of `LiquidityMath`, `LevelBook` and `TradeMatcher`: any
tick range, any owners, orders, lot sizes and fee steps, any widths of the words).

`BookInvariant` proves `Spec => []BookInv`, where

    BookInv == WordInv /\ DepthInv
    WordInv == TypeOK /\ OdometerBounded /\ FlagMatchesPivot /\ PivotShape
    DepthInv == BookMatchesDepth /\ DepthFlat /\ ActiveLiquidity /\ BookmarkCoversLots

None of the listed properties is inductive alone. `FlagMatchesPivot` needs the
shape of pivots: an open pivot stands for a range within the ticks, or removing
it might clear another flag. `ActiveLiquidity` needs the book to match the depth
at the tick that is crossed, and needs every tick without a bookmark to be flat,
since the price passes over it silently: `DepthFlat` says that depth is constant
over every stretch of ticks without lots, which spares an induction over ticks.
The proof has one step per action of `TradeMatcher` for each half, on lemmas about
adding to, cutting from and crossing a book. From it
follow `TypeCorrect`, `LiquidityTracked`, `BookBalanced`, `BookmarksComplete`,
`OdometersBehind` and `FlagsMatch`.

**Fee clock.** `ClocksTrackGrowth` proves the action property `ClockTracksGrowth`
from `BookInv`. Its argument is about one boundary at a time: the growth below an
active boundary, as read off its odometer and the side the price is on, moves by
exactly the growth booked while the price was below it. A flip swaps the side and
the reading at once, a mint or a burn next to it changes neither, and the clock of
a range is the difference of two such readings, modulo the word. The reading after
a flip needs `OdometerBounded`, or the subtraction would leave the word. Where the
flip is skipped, `SkipFacts` shows that the leg booked nothing and no odometer changed,
so that only the side of one reading does (`SkipTurns`).

**Tranches.** `PoolProofs` goes on with `TranchesFresh` with `TrancheInv`, which strengthens
`TrancheFresh` by the order of the links of a history, `HistoryAppends` (the
action property `HistoryGrows`) from it, and `BidsKnockedOut`, which is inductive
relative to `BookInv`: a sell stops at every bookmark and a bid's is there.

**Positions.** `PoolInvariant` proves `Spec => []PoolInv`, where

    PoolInv == BookInv /\ TrancheInv /\ StakeInv
    StakeInv == TranchesBacked /\ Sides /\ Depths
    TranchesBacked == Backed /\ OneRange /\ NoneAtZero /\ DeadTrancheRecoverable

`Backed` has a pivot hold the sum of its resting positions, `Sides` each side of a
level the sum of the orders that start or end there, `Depths` the depth over a
tick the sum of the orders over it. The three sums run over different sets of keys, and the
proof goes by what a step does to positions: a mint or a burn moves one of them,
so each sum moves by its lots or not at all (`StakesShift`, `SidesShift`); a
knockout ends a whole tranche, and takes out of each sum what `Backed` says the pivot
held. `OneRange` (the positions of a tranche have the range of their pivot) is what
makes the lots removed from a level those that the positions put there, and
`NoneAtZero` that a closed pivot, whose time is zero, has none. `DeadTrancheRecoverable`
belongs to the invariant since a position that is no longer resting must not come
to rest again under the name of a later tranche; that is where `TrancheInv` comes in.

That a sum moves with one of its terms is a fact about a recursive definition, and
the library's induction theorem cannot be applied here. `SumLemmas` proves what is
needed of the fold `SumFunctionOnSet` for all finite sets without it: strict
inclusion of finite sets is well-founded, so among the sets a claim fails for one
has no smaller one within it (`SmallestSet`), and taking an element out of it gives
the contradiction. `StakeIn` is a sum over finitely many keys because owners,
locations and times are finitely many (`OwnersAssumption`, `BoundsAssumption`).

From `PoolInv` follow `PositionsStacked`, `PivotsBacked`, `DeadTranchesRecoverable`, and

* `CrossingsFit`: wherever a swap may go next, the curve covers the bump and the
  book holds what the pivot takes off, since both are sums of positions among
  those that the level or the curve counts;
* `PoolImplementsProfile`: the pool refines `LiquidityProfile`. An initial state
  maps to an initial state; each step of `TradeMatcher` maps to a step of the
  profile, or leaves depth, tick and liquidity alone. Needs `BookInv` for the liquidity at
  the price and `Backed` for what a knockout takes away.

**Rewards.** The theorems `RewardsCovered` and `ClaimsCovered` are about
`LedgerSpec`, the pool with its ledger, and follow from `LedgerInvariant`,
`LedgerSpec => [](PoolInv /\ LedgerInv)`. `LedgerInv` says of every position, while no
crossing has skipped a flip,

    Meets(due, lots, clock, mileage) == due >= 0 /\ lots * (clock - mileage) <= due

with `due` what the ledger has accrued to it and `clock` that of its range. The
difference is the plain one of two words, negative when the clock has wrapped. What is paid, zero
then, is not inductive: growth that lifts the difference back towards zero
accrues without a payment, and a bound on payments alone would forget it. That a
clock gains no more than the ledger accrues is the step of `ClockTracksGrowth`, and it applies
because a position with lots keeps both its boundaries in use (`StakesRest`, from `Sides`).
A mint blends mileages upwards, so it promises no more than both parts did. A
tranche that was knocked out is held to what its pivot filed in the history rather
than to the clock (`DeadMet`).

**Registry.** `RegistryProofs` proves `RegistryTypeCorrect`, `TakesKnown`, `WingsKept`,
`NobodyLockedOut` and `PermitsFixed` for any tokens, indexes, oracles, specs, rates,
ranges and times and any prices of ticks (the assumptions of `PriceGrid` and
`PoolRegistry`) from

    IInv == TypeOK /\ TakeOnceInForce /\ RateKnown /\ WingsStayBacked
                /\ HeldInPools /\ AskedIsAtomic

`RateKnown`, that the rate of the moment is among those a pool has seen, is what a
resynchronisation needs. `AskedIsAtomic` is why a burn cannot leave an order below
what was asked of it: while something is, the order is atomic, through later mints
on whatever grid. `HeldInPools` makes the pool of an order one that answers.

**Governance.** `PolicyProofs` proves `MandatesKept`, `PolicyTypeCorrect`,
`SafeModeLeft`, `HaltIsComplete`, `PowersAreSeparate` and `TreasuriesWait`, for any contracts, conduits and drafts and any
word for times (`TreasuryAssumption`, `DexBoundsAssumption`, `PolicyAssumption`). Mandates rest on

    MandateInv == RulesTyped /\ PledgesBacked

where `PledgesBacked` says that a pledge that has not ended is backed by the rule
as it stands: the code is in it and its mandate lasts as long as the pledge. That is what a
rewrite by operations keeps, and an end of the mandate that comes later than the
pledge does no harm. The rest is on `ControlInv`: the boot path cannot be
removed, fees are in one place, and in a halt swaps are closed and safe mode is on.
`PowersAreSeparate` goes by the code of a command: what is forwarded without sudo
writes the take rate and nothing privileged, and a halt the two fields of its form.
`TreasuriesWait` adds `StartFollows`, that the recorded start of a treasury is the
delay after it was named, to which a command for another one does nothing.

**Accounts.** `AccountsProofs` proves `AccountsTypeCorrect`, `Conserved`,
`CollateralAddsUp`, `MessagesInOrder`, `RoutersConfined` and `OwnersPay` for any owners, assets, commands,
messages and attached ether (`SettleAssumption`, `AgentAssumption`) from

    AccountsInv == TypeOK /\ ledger.ok /\ Balanced /\ NoncesSpent /\ NoColdCalls

A command passes through ledgers whose amounts may not yet make sense (an
overdraft that a later `require` refuses), so the operators have lemmas about
drafts, ledgers in integers: by how much each moves the gap between what the dex
holds and what it owes, which accounts and wallets it touches, and that a draft
still `ok` at the end never overdrew. A command is a chain of these operators; its
lemma adds up the links and finds the gap closed. `NoncesSpent`, the strengthening behind
`StreamsInOrder`, says that the nonce of each message that ran is below the
current one of its track; `NoColdCalls` that no router has calls on the cold path.
`CollateralAddsUp` (`BankedInAccounts`) goes the same way with a second gap, that between the
recorded collateral and the sum of the accounts: every operator moves both by the
same amount, by the lemmas of `SumLemmas`; accounts are finitely many, as addresses
and salts are words (`SettleAssumption`).

**Deployment.** `DeploymentProofs` proves `DeploymentTyped`, `InForceRecorded`,
`HandoverDone`, `BookKept` and `SignersShown` for any number of crashes, reruns and prints and any
pool parameters (`DeployAssumption`: the bounds are numbers, and contracts have
more copies than there are mishaps). They rest on

    IInv == Types /\ Books /\ Charge /\ Calls

`Books` relates the three copies of the address book: the book is contained in
the copy of the script, and what was last printed is that copy, unless the script
is between a statement that adds to it and the next print. `Charge` says who may act: the deployer is in charge
of the dex until step 3 is done, a policy has either the roles of the wallet
alone or those of step 7, and timelocks were deployed for their multisigs. `Calls`
says that what was printed for the multisigs, whenever it is executed, can at most
reinstall the recorded warm path, set pool parameters or change a delay. Lemmas about the scripts state where in each
of the eleven a statement occurs; the proof then goes by
actions. `SignersShown` goes by the code of the command, and needs the invariant
only for the addresses a completed deployment has.

**Layouts.** `LayoutVerdict` proves `VerdictExact` for any variables, contracts
and number of entries whose sizes are positive (`LayoutAssumption`), from
`LayoutInv`: the tables hold exactly what was read, and without a conflict a name has one
location, so that comparing with the first one is enough.

**Census.** `CensusProofs` proves `SeeksFindNearest` for words of any even width
(`WidthAssumption`), so for the 256 bits of the code, from `CensusExact`, the invariant

    CensusInv == BitmapsTyped /\ TerminusExact /\ MezzanineExact

each layer of bitmaps has a bit for whatever is not empty below it, and no other.
That a walk finds the nearest mark is then followed from the inside out: what a step
has shown to be empty is a stretch of ticks without marks, so each lemma
moves the question to a smaller set of marks, those from a bit of a word on
(`BitsFrom`), from a word of a row on (`ColsFrom`), from a row on (`RowsFrom`), and
the same downwards. The walks over the lobby are recursive functions; instead of by
induction, `WalkUpFirst` goes by the highest row from which the walk would end
anywhere else: the row above it ends right, and the two ends agree. That such
functions exist has to be shown too (`WalkUpExists`), by giving their values. The digits of a tick,
a division by a width that is not a numeral, are settled once by
`DigitOrder` and `OneMoreDigit`: numbers of two digits are ordered by the first, then
by the second. `LobbyOfTick` says that the lobby key, which the code takes from a
tick by one shift, is the row of its word.

Only model-checked: `SwapEnds` and `DeploymentCompletes` (liveness is out of the
prover's reach). The theorems about rewards say nothing of what a range lays by after a
crossing that skips a flip (`skewed`); `ClocksTrackGrowth` says what such a step does to
the clocks.

## 5. What is not modelled, and the plan

Not modelled: ambient liquidity and the fixed-point
arithmetic of swap legs (`SwapCurve`, `CurveAssimilate`, `CurveRoll`, `TickMath`),
where the properties are about 128-bit rounding, beyond a small instance and the
provers; byte encodings; what a chain of directives trades on several
curves; external callees under the lock; periphery and lens, which keep no state of
the exchange but for the LP token. Of `src/misc`, the scripts that are run once and
by hand are left out: `deploy.ts`, `inflate.ts` and `swap.ts` (an earlier deployment
and trials on test networks), `genKeys.ts`, `printLayout.ts`, the list of RPC servers
and the build configuration; they keep nothing and nothing depends on them.

What is left, in this order:

1. The lock with its frames: a command that calls a token, a conduit or an oracle
   which calls back, to show from the lock itself what `AgentMask` assumes, that
   commands are single steps.
2. Ambient liquidity and rounding of a leg; the chained directives of `LongPath`.
3. The LP token conduit, the part of the periphery that keeps state.
4. What a step of the swap loop pays after a skipped flip, bounded rather than
   excluded.

## 6. Running

    tlc -config MCRange.cfg MCRange.tla
    tlapm PoolProofs.tla

Every run and proof is of this form; the proofs about sums, policy, registry, census,
deployment and layouts take about two minutes each or less, those of accounts and
the pool several.
