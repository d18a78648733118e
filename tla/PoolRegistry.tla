---------------------------- MODULE PoolRegistry ----------------------------
(***************************************************************************)
(* The pools of a dex and the parameters they are run with                 *)
(* (mixins/PoolRegistry.sol over libraries/PoolSpecs.sol): the commands of *)
(* governance that set and disable templates, revise pools, set the        *)
(* protocol take and price improvement; the initialisation of a pool; and  *)
(* what of this decides whether a range order may be minted (the grid, or  *)
(* improvement off it) and burned (the permit oracle, the time it rests).  *)
(*                                                                         *)
(* Fee rates and knockout bits go the way of the tick size and are left    *)
(* out.  TradeMatcher has what an order does to the book.                  *)
(***************************************************************************)
EXTENDS PositionRegistrar, PriceGrid

CONSTANTS
    Tokens,
    Pairs,          \* <<base, quote>>
    Indexes,        \* pool type indexes
    OracleAt,       \* the address in the upper bits of an index
    NoOracle,       \* the zero address
    PermitOracles,  \* contracts that accept to be a permit oracle
    Specs,          \* [tickSize, jitThresh] of templates and revisions
    TakeRates,
    LiqAntes,
    Improvements,   \* [unitCollateral, awayTicks]
    Ranges,         \* <<bid tick, ask tick>>
    LotSizes,
    PriceTicks,     \* where the price may be when an order is placed
    Times,
    MaxLots,        \* bound: lots of an order
    MaxOrders,      \* bound: orders open at one time
    MaxCommands     \* bound: commands of governance

MAX_TAKE_RATE == 128
MAX_INIT_POOL_LIQ == 10000000

Uint8 == 0 .. 255
Uint16 == 0 .. 65535

PoolKeys == Pairs \X Indexes
OrderKeys == PoolKeys \X Ranges

SpecOf(tickSize, jitThresh) == [tickSize |-> tickSize, jitThresh |-> jitThresh]

ASSUME PairAssumption == Pairs \subseteq Tokens \X Tokens
ASSUME OracleAssumption ==
    /\ DOMAIN OracleAt = Indexes
    /\ NoOracle \notin PermitOracles
ASSUME SpecAssumption ==
    Specs \subseteq [tickSize : Uint16, jitThresh : Uint8]
ASSUME RateAssumption == TakeRates \subseteq Uint8
ASSUME QuantityAssumption ==
    /\ LiqAntes \subseteq Nat
    /\ LotSizes \subseteq Nat
    /\ Improvements \subseteq [unitCollateral : Nat, awayTicks : Nat]
ASSUME RangeAssumption ==
    /\ Ranges \subseteq (MIN_TICK .. MAX_TICK) \X (MIN_TICK .. MAX_TICK)
    /\ \A r \in Ranges : r[1] < r[2]
ASSUME TimeAssumption == Times \subseteq Nat /\ 0 \in Times

VARIABLES
    templates,        \* templates_
    pools,            \* pools_
    curves,           \* curves_: the liquidity locked in a pool, 0 if not initialised
    protocolTakeRate, \* protocolTakeRate_
    newPoolLiq,       \* newPoolLiq_
    improves,         \* improves_
    positions,        \* positions_ of one owner
    now,              \* block.timestamp
    inForce,          \* auxiliary: the take rates in force since a pool's initialisation
    asked,            \* auxiliary: what was asked of an order when last added to off the grid
    commands          \* auxiliary: commands of governance so far

specVars == <<templates, pools, curves, protocolTakeRate, newPoolLiq, improves, inForce>>
orderVars == <<positions, asked>>
vars == <<templates, pools, curves, protocolTakeRate, newPoolLiq, improves,
          positions, now, inForce, asked, commands>>

\* BASE_SCHEMA is 1; a slot never written, or disabled, has schema 0.
NoSpec == [schema |-> 0, tickSize |-> 0, jitThresh |-> 0, protocolTake |-> 0,
           oracleFlag |-> FALSE]

IsPoolInit(spec) == spec.schema = 1

\* The oracle of a pool is part of its index, and zero for a small index.
OracleForPool(idx, oracleFlag) == IF oracleFlag THEN OracleAt[idx] ELSE NoOracle
PoolOracle(p) == OracleForPool(p[2], pools[p].oracleFlag)

\* verifyPermit*: a pool without an oracle asks nobody.
VerifyPermit(oracle, approved) == oracle = NoOracle \/ approved

Init ==
    /\ templates = [idx \in Indexes |-> NoSpec]
    /\ pools = [p \in PoolKeys |-> NoSpec]
    /\ curves = [p \in PoolKeys |-> 0]
    /\ protocolTakeRate = 0
    /\ newPoolLiq = 0
    /\ improves = [tok \in Tokens |-> [unitCollateral |-> 0, awayTicks |-> 0]]
    /\ positions = [k \in OrderKeys |-> NoPosition]
    /\ now = 0
    /\ inForce = [p \in PoolKeys |-> {}]
    /\ asked = [k \in OrderKeys |-> 0]
    /\ commands = 0

-----------------------------------------------------------------------------
(***************************************************************************)
(* The commands of governance.                                             *)
(***************************************************************************)
Command ==
    /\ commands < MaxCommands
    /\ commands' = commands + 1
    /\ UNCHANGED <<orderVars, now>>

\* A template that asks for an oracle must name one that accepts the role.
OracleOkay(oracle) == oracle = NoOracle \/ oracle \in PermitOracles

SetPoolTemplate(idx, spec, oracleFlag) ==
    /\ Command
    /\ OracleOkay(OracleForPool(idx, oracleFlag))
    /\ templates' = [templates EXCEPT ![idx] =
           [@ EXCEPT !.schema = 1, !.tickSize = spec.tickSize,
                     !.jitThresh = spec.jitThresh, !.oracleFlag = oracleFlag]]
    /\ UNCHANGED <<pools, curves, protocolTakeRate, newPoolLiq, improves, inForce>>

DisablePoolTemplate(idx) ==
    /\ Command
    /\ templates' = [templates EXCEPT ![idx].schema = 0]
    /\ UNCHANGED <<pools, curves, protocolTakeRate, newPoolLiq, improves, inForce>>

\* Mutant: the slot of the pool is written anew.
RevisedAnew(old, spec) ==
    [NoSpec EXCEPT !.schema = 1, !.tickSize = spec.tickSize, !.jitThresh = spec.jitThresh]

\* Neither the oracle nor the take of a pool is revised.
Revised(old, spec) ==
    [old EXCEPT !.tickSize = spec.tickSize, !.jitThresh = spec.jitThresh]

SetPoolSpecs(p, spec) ==
    /\ Command
    /\ IsPoolInit(pools[p])
    /\ pools' = [pools EXCEPT ![p] = Revised(@, spec)]
    /\ UNCHANGED <<templates, curves, protocolTakeRate, newPoolLiq, improves, inForce>>

TakeRateOkay(takeRate) == takeRate <= MAX_TAKE_RATE

SetProtocolTakeRate(takeRate) ==
    /\ Command
    /\ TakeRateOkay(takeRate)
    /\ protocolTakeRate' = takeRate
    /\ inForce' = [p \in PoolKeys |->
           IF IsPoolInit(pools[p]) THEN inForce[p] \cup {takeRate} ELSE inForce[p]]
    /\ UNCHANGED <<templates, pools, curves, newPoolLiq, improves>>

ResyncProtocolTake(p) ==
    /\ Command
    /\ IsPoolInit(pools[p])
    /\ pools' = [pools EXCEPT ![p].protocolTake = protocolTakeRate]
    /\ UNCHANGED <<templates, curves, protocolTakeRate, newPoolLiq, improves, inForce>>

SetNewPoolLiq(liqAnte) ==
    /\ Command
    /\ liqAnte > 0 /\ liqAnte < MAX_INIT_POOL_LIQ
    /\ newPoolLiq' = liqAnte
    /\ UNCHANGED <<templates, pools, curves, protocolTakeRate, improves, inForce>>

SetPriceImprove(tok, improvement) ==
    /\ Command
    /\ improves' = [improves EXCEPT ![tok] = improvement]
    /\ UNCHANGED <<templates, pools, curves, protocolTakeRate, newPoolLiq, inForce>>

-----------------------------------------------------------------------------
(***************************************************************************)
(* The commands of users.                                                  *)
(***************************************************************************)
\* Mutant: the take of a pool is what its template says.
RegisteredAsTemplate(template, takeRate) == template

Registered(template, takeRate) == [template EXCEPT !.protocolTake = takeRate]

\* registerPool and initCurve.  The oracle is asked about the new pool.
InitPool(p, approved) ==
    LET template == templates[p[2]]
    IN  /\ ~IsPoolInit(pools[p])
        /\ IsPoolInit(template)
        /\ VerifyPermit(OracleForPool(p[2], template.oracleFlag), approved)
        /\ curves[p] = 0
        /\ pools' = [pools EXCEPT ![p] = Registered(template, protocolTakeRate)]
        /\ curves' = [curves EXCEPT ![p] = IF newPoolLiq = 0 THEN 1 ELSE newPoolLiq]
        /\ inForce' = [inForce EXCEPT ![p] = {protocolTakeRate}]
        /\ UNCHANGED <<templates, protocolTakeRate, newPoolLiq, improves,
                       orderVars, now, commands>>

QueryPriceImprove(pair, isEnabled, useBaseSide) ==
    LET settings == improves[IF useBaseSide THEN pair[1] ELSE pair[2]]
    IN  IF isEnabled
        THEN [inBase |-> useBaseSide, unitCollateral |-> settings.unitCollateral,
              awayTicks |-> settings.awayTicks]
        ELSE [inBase |-> FALSE, unitCollateral |-> 0, awayTicks |-> 0]

Opened(k) == positions[k] # NoPosition
WithinBounds(k, lots) ==
    /\ positions[k].lots + lots <= MaxLots
    /\ Opened(k) \/ Cardinality({j \in OrderKeys : Opened(j)}) < MaxOrders

\* A mint on the warm path: the order must be on the grid.  One of nothing
\* is not refused, and starts its rest time again.
MintOnGrid(k, lots, approved) ==
    /\ WithinBounds(k, lots)
    /\ IsPoolInit(pools[k[1]])
    /\ VerifyPermit(PoolOracle(k[1]), approved)
    /\ GridOkay(pools[k[1]].tickSize)
    /\ IsOnGrid(k[2][1], k[2][2], pools[k[1]].tickSize)
    /\ positions' = [positions EXCEPT ![k] = IncrementPosLiq(@, lots, 0, now)]
    /\ UNCHANGED <<specVars, now, asked, commands>>

\* A mint in a long command, which may ask for price improvement.  An order
\* off the grid is marked before, and also when nothing is then added to it.
MintInLong(k, lots, isEnabled, useBaseSide, priceTick, approved) ==
    LET size == pools[k[1]].tickSize
        set == QueryPriceImprove(k[1][1], isEnabled, useBaseSide)
        offGrid == ~IsOnGrid(k[2][1], k[2][2], size)
        marked == IF offGrid THEN MarkPosAtomic(positions[k]) ELSE positions[k]
    IN  /\ WithinBounds(k, lots)
        /\ IsPoolInit(pools[k[1]])
        /\ VerifyPermit(PoolOracle(k[1]), approved)
        /\ GridOkay(size)
        /\ offGrid => FitsOffGrid(set, k[2][1], k[2][2], lots, size, priceTick)
        /\ positions' = [positions EXCEPT ![k] =
               IF lots = 0 THEN marked ELSE IncrementPosLiq(marked, lots, 0, now)]
        /\ asked' = [asked EXCEPT ![k] =
               IF offGrid THEN ImprovableThresh(set, size, k[2][1], k[2][2]) ELSE @]
        /\ UNCHANGED <<specVars, now, commands>>

\* Mutant: the units that have passed are cut to a byte.
JitSafeByte(stamp, jitThresh) == ((now - stamp) \div 10) % 256 >= jitThresh

\* A pool can ask for no more than 255 units of ten seconds.
JitSafe(stamp, jitThresh) ==
    LET elapsedUnits == (now - stamp) \div 10
    IN  elapsedUnits <= 255 => elapsedUnits >= jitThresh

\* What of the registry may stand in the way of a burn, on every path.
BurnOkay(k, lots, approved) ==
    /\ IsPoolInit(pools[k[1]])
    /\ VerifyPermit(PoolOracle(k[1]), approved)
    /\ JitSafe(positions[k].stamp, pools[k[1]].jitThresh)
    /\ DecrementFits(positions[k], lots)

Burn(k, lots, approved) ==
    /\ BurnOkay(k, lots, approved)
    /\ positions' = [positions EXCEPT ![k] = DecrementLiq(@, lots)]
    /\ asked' = [asked EXCEPT ![k] = IF positions[k].lots = lots THEN 0 ELSE @]
    /\ UNCHANGED <<specVars, now, commands>>

PassTime(time) ==
    /\ now < time
    /\ now' = time
    /\ UNCHANGED <<specVars, orderVars, commands>>

-----------------------------------------------------------------------------
Governance ==
    \/ \E idx \in Indexes :
          \/ \E spec \in Specs, flag \in BOOLEAN : SetPoolTemplate(idx, spec, flag)
          \/ DisablePoolTemplate(idx)
    \/ \E p \in PoolKeys :
          \/ \E spec \in Specs : SetPoolSpecs(p, spec)
          \/ ResyncProtocolTake(p)
    \/ \E rate \in TakeRates : SetProtocolTakeRate(rate)
    \/ \E ante \in LiqAntes : SetNewPoolLiq(ante)
    \/ \E tok \in Tokens, improvement \in Improvements : SetPriceImprove(tok, improvement)

Users ==
    \E approved \in BOOLEAN :
       \/ \E p \in PoolKeys : InitPool(p, approved)
       \/ \E k \in OrderKeys, lots \in LotSizes :
             \/ MintOnGrid(k, lots, approved)
             \/ \E isEnabled, useBaseSide \in BOOLEAN, priceTick \in PriceTicks :
                   MintInLong(k, lots, isEnabled, useBaseSide, priceTick, approved)
             \/ Burn(k, lots, approved)

Next ==
    \/ Governance
    \/ Users
    \/ \E time \in Times : PassTime(time)

Spec == Init /\ [][Next]_vars

-----------------------------------------------------------------------------
\* Every variable has its type.  A take is at most half of the fees, and a
\* pool is initialised exactly if liquidity below the cap is locked in it.
SpecSet == [schema : {0, 1}, tickSize : Uint16, jitThresh : Uint8,
            protocolTake : 0 .. MAX_TAKE_RATE, oracleFlag : BOOLEAN]

TypeOK ==
    /\ templates \in [Indexes -> SpecSet]
    /\ pools \in [PoolKeys -> SpecSet]
    /\ curves \in [PoolKeys -> Nat]
    /\ \A p \in PoolKeys : IsPoolInit(pools[p]) <=> curves[p] > 0
    /\ \A p \in PoolKeys : curves[p] < MAX_INIT_POOL_LIQ
    /\ protocolTakeRate \in 0 .. MAX_TAKE_RATE
    /\ newPoolLiq \in Nat /\ newPoolLiq < MAX_INIT_POOL_LIQ
    /\ improves \in [Tokens -> [unitCollateral : Nat, awayTicks : Nat]]
    /\ positions \in [OrderKeys ->
           [lots : Nat, mileage : {0}, stamp : Nat, atomic : BOOLEAN]]
    /\ now \in Nat
    /\ \A k \in OrderKeys : positions[k].stamp <= now
    /\ inForce \in [PoolKeys -> SUBSET (0 .. MAX_TAKE_RATE)]
    /\ asked \in [OrderKeys -> Int]
    /\ commands \in Nat

(***************************************************************************)
(* Whether a pool asks an oracle, and which, is settled when it is         *)
(* initialised: no sequence of new templates, revisions and attempts to    *)
(* initialise it again changes it (PoolRegistry.sol:150).                  *)
(***************************************************************************)
PermitFixed ==
    [][\A p \in PoolKeys : IsPoolInit(pools[p]) =>
           IsPoolInit(pools'[p]) /\ PoolOracle(p)' = PoolOracle(p)]_vars

(***************************************************************************)
(* Nobody can be locked out of an order in a pool without an oracle: once  *)
(* it is older than 2550 seconds and a unit, it can be burned in full,     *)
(* whatever governance has made of the grid, the rest time and the         *)
(* template (PoolRegistry.sol:150 and 296).                                *)
(***************************************************************************)
NeverLockedOut ==
    \A k \in OrderKeys :
       positions[k].lots > 0 /\ PoolOracle(k[1]) = NoOracle /\ now - positions[k].stamp >= 2560
           => \A approved \in BOOLEAN : BurnOkay(k, positions[k].lots, approved)

\* The protocol takes of a pool a rate that was in force at some time since
\* the pool was initialised (the copy of PoolRegistry.sol:247).
TakeOnceInForce ==
    \A p \in PoolKeys : IsPoolInit(pools[p]) => pools[p].protocolTake \in inForce[p]

\* An order that was let off the grid keeps at least the liquidity that was
\* asked for it: it cannot be shrunk (MarketSequencer.sol:334).
WingsStayBacked == \A k \in OrderKeys : positions[k].lots >= asked[k]
=============================================================================
