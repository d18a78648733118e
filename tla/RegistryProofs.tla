--------------------------- MODULE RegistryProofs ---------------------------
(***************************************************************************)
(* Theorems about the pool registry, for every value of the constants.     *)
(*                                                                         *)
(* The inductive invariant is TypeOK with what the theorems state, with    *)
(* the rate of the moment among those each pool has seen, and with two     *)
(* facts that join orders to pools: nothing is held in a pool that is not  *)
(* initialised, and an order of which liquidity was asked off the grid is  *)
(* atomic.                                                                 *)
(***************************************************************************)
EXTENDS PoolRegistry, TLAPS

\* The rate in force is one of those a pool has seen.
RateKnown ==
    \A p \in PoolKeys : IsPoolInit(pools[p]) => protocolTakeRate \in inForce[p]

HeldInPools ==
    \A k \in OrderKeys : positions[k].lots > 0 => IsPoolInit(pools[k[1]])

AskedIsAtomic ==
    \A k \in OrderKeys : asked[k] > 0 => positions[k].atomic

IInv ==
    /\ TypeOK
    /\ TakeOnceInForce
    /\ RateKnown
    /\ WingsStayBacked
    /\ HeldInPools
    /\ AskedIsAtomic

-----------------------------------------------------------------------------
\* The liquidity that is asked of an order off the grid is a number.
LEMMA ThreshIsInt ==
    ASSUME NEW set \in [inBase : BOOLEAN, unitCollateral : Nat, awayTicks : Nat],
           NEW size \in Nat, size > 0,
           NEW bid \in MIN_TICK .. MAX_TICK, NEW ask \in MIN_TICK .. MAX_TICK,
           Priced(size, bid, ask)
    PROVE  ImprovableThresh(set, size, bid, ask) \in Int
<1>1. ASSUME NEW t \in MIN_TICK .. MAX_TICK, NEW wing \in Int,
             t + wing \in MIN_TICK .. MAX_TICK
      PROVE  LiqForWing(set, wing, t) \in Int
  <2>1. CASE wing = 0
    BY <2>1 DEF LiqForWing
  <2>2. CASE wing # 0
    <3> DEFINE x == RootPrice(set.inBase, t)
               y == RootPrice(set.inBase, t + wing)
    <3>1. x \in Int /\ y \in Int /\ x # y
      BY <1>1, <2>2, RootPriceAssumption
    <3>2. Abs(x - y) \in Nat /\ Abs(x - y) > 0
      BY <3>1 DEF Abs
    <3>3. set.unitCollateral \div Abs(x - y) \in Int
      BY <3>2
    <3>4. QED
      BY <2>2, <3>3 DEF LiqForWing, ConvertToLiq
  <2>3. QED
    BY <2>1, <2>2
<1>2. bid \in Int /\ ask \in Int
  BY RootPriceAssumption
<1>3. ASSUME NEW t \in Int
      PROVE  ClipDown(size, t) \in Int /\ ClipUp(size, t) \in Int
  BY DEF ClipDown, ClipUp
<1>4. /\ ClipInside(size, bid, ask) \in Int
      /\ ClipBelow(size, bid) \in Int
      /\ ClipAbove(size, ask) \in Int
  BY <1>2, <1>3 DEF ClipInside, ClipNorm, ClipBelow, ClipAbove
<1>5. CASE ClipInside(size, bid, ask) > 0
  BY <1>1, <1>4, <1>5 DEF ImprovableThresh, LiqForClip, Priced
<1>6. CASE ~(ClipInside(size, bid, ask) > 0)
  BY <1>1, <1>4, <1>6 DEF ImprovableThresh, Priced
<1>7. QED
  BY <1>5, <1>6

\* A position of this model: its mileage stays zero.
PositionSet == [lots : Nat, mileage : {0}, stamp : Nat, atomic : BOOLEAN]

\* What a mint makes of a position.
LEMMA Increment ==
    ASSUME NEW pos \in PositionSet, NEW lots \in Nat, NEW time \in Nat
    PROVE  /\ IncrementPosLiq(pos, lots, 0, time) \in PositionSet
           /\ IncrementPosLiq(pos, lots, 0, time).lots = pos.lots + lots
           /\ IncrementPosLiq(pos, lots, 0, time).stamp = time
           /\ IncrementPosLiq(pos, lots, 0, time).atomic = pos.atomic
<1> DEFINE next == IncrementPosLiq(pos, lots, 0, time)
<1>1. MintMileage(pos, lots, 0) = 0
  BY DEF MintMileage, BlendMileage, PositionSet
<1>2. next = [pos EXCEPT !.lots = pos.lots + lots, !.mileage = 0, !.stamp = time]
  BY <1>1 DEF IncrementPosLiq
<1>3. next = [lots |-> pos.lots + lots, mileage |-> 0, stamp |-> time, atomic |-> pos.atomic]
  BY <1>2 DEF PositionSet
<1>4. pos.lots + lots \in Nat /\ pos.atomic \in BOOLEAN
  BY DEF PositionSet
<1> HIDE DEF next
<1>5. /\ next \in PositionSet
      /\ next.lots = pos.lots + lots
      /\ next.stamp = time
      /\ next.atomic = pos.atomic
  BY <1>3, <1>4 DEF PositionSet
<1>6. QED
  BY <1>5 DEF next

-----------------------------------------------------------------------------
LEMMA InitInvariant == Init => IInv
<1> SUFFICES ASSUME Init PROVE IInv
  OBVIOUS
<1>1. TypeOK
  BY QuantityAssumption, TimeAssumption
     DEF Init, TypeOK, SpecSet, Uint8, Uint16, NoSpec, NoPosition, IsPoolInit, MAX_TAKE_RATE, MAX_INIT_POOL_LIQ
<1>2. /\ TakeOnceInForce
      /\ RateKnown
      /\ WingsStayBacked
      /\ HeldInPools
      /\ AskedIsAtomic
  BY DEF Init, TakeOnceInForce, RateKnown, WingsStayBacked, HeldInPools, AskedIsAtomic,
         NoSpec, NoPosition, IsPoolInit
<1>3. QED
  BY <1>1, <1>2 DEF IInv

\* No command of governance touches an order, closes a pool, or gives one
\* a take that was not in force.
LEMMA GovernanceInvariant == IInv /\ Governance => IInv'
<1> SUFFICES ASSUME IInv, Governance PROVE IInv'
  OBVIOUS
<1> USE DEF IInv
<1>0. /\ commands' \in Nat
      /\ UNCHANGED <<positions, asked, now>>
  <2>1. Command
    BY DEF Governance, SetPoolTemplate, DisablePoolTemplate, SetPoolSpecs,
           ResyncProtocolTake, SetProtocolTakeRate, SetNewPoolLiq, SetPriceImprove
  <2>2. commands' = commands + 1 /\ commands \in Nat
    BY <2>1 DEF Command, TypeOK
  <2>3. UNCHANGED <<positions, asked, now>>
    BY <2>1 DEF Command, orderVars
  <2>4. QED
    BY <2>2, <2>3
<1>a. ASSUME UNCHANGED <<pools, curves, inForce, protocolTakeRate>>
      PROVE  /\ TakeOnceInForce' /\ RateKnown'
             /\ WingsStayBacked' /\ HeldInPools' /\ AskedIsAtomic'
  BY <1>0, <1>a DEF TakeOnceInForce, RateKnown, WingsStayBacked, HeldInPools, AskedIsAtomic
<1>1. ASSUME NEW idx \in Indexes, NEW spec \in Specs, NEW flag \in BOOLEAN,
             SetPoolTemplate(idx, spec, flag)
      PROVE  IInv'
  <2>1. templates' \in [Indexes -> SpecSet]
    <3> DEFINE new == [templates[idx] EXCEPT !.schema = 1, !.tickSize = spec.tickSize,
                           !.jitThresh = spec.jitThresh, !.oracleFlag = flag]
    <3>1. spec \in [tickSize : Uint16, jitThresh : Uint8]
      BY SpecAssumption
    <3>2. templates \in [Indexes -> SpecSet] /\ templates' = [templates EXCEPT ![idx] = new]
      BY <1>1 DEF SetPoolTemplate, TypeOK
    <3>3. templates[idx] \in SpecSet
      BY <3>2
    <3>4. new \in SpecSet
      BY <3>1, <3>3 DEF SpecSet
    <3>5. QED
      BY <3>2, <3>4
  <2>2. QED
    BY <1>0, <1>1, <1>a, <2>1 DEF SetPoolTemplate, TypeOK
<1>2. ASSUME NEW idx \in Indexes, DisablePoolTemplate(idx)
      PROVE  IInv'
  <2>1. templates' \in [Indexes -> SpecSet]
    <3> DEFINE new == [templates[idx] EXCEPT !.schema = 0]
    <3>1. templates \in [Indexes -> SpecSet] /\ templates' = [templates EXCEPT ![idx] = new]
      BY <1>2 DEF DisablePoolTemplate, TypeOK
    <3>2. templates[idx] \in SpecSet
      BY <3>1
    <3>3. new \in SpecSet
      BY <3>2 DEF SpecSet
    <3>4. QED
      BY <3>1, <3>3
  <2>2. QED
    BY <1>0, <1>2, <1>a, <2>1 DEF DisablePoolTemplate, TypeOK
<1>3. ASSUME NEW p \in PoolKeys, NEW spec \in Specs, SetPoolSpecs(p, spec)
      PROVE  IInv'
  <2>1. /\ pools' \in [PoolKeys -> SpecSet]
        /\ \A q \in PoolKeys : /\ pools'[q].schema = pools[q].schema
                               /\ pools'[q].protocolTake = pools[q].protocolTake
    <3> DEFINE new == [pools[p] EXCEPT !.tickSize = spec.tickSize,
                                       !.jitThresh = spec.jitThresh]
    <3>1. spec \in [tickSize : Uint16, jitThresh : Uint8]
      BY SpecAssumption
    <3>2. pools \in [PoolKeys -> SpecSet] /\ pools' = [pools EXCEPT ![p] = new]
      BY <1>3 DEF SetPoolSpecs, Revised, TypeOK
    <3>3. pools[p] \in SpecSet
      BY <3>2
    <3>4. /\ new \in SpecSet
          /\ new.schema = pools[p].schema
          /\ new.protocolTake = pools[p].protocolTake
      BY <3>1, <3>3 DEF SpecSet
    <3>5. QED
      BY <3>2, <3>4
  <2>2. TypeOK'
    BY <1>0, <1>3, <2>1 DEF SetPoolSpecs, TypeOK, IsPoolInit
  <2>3. /\ TakeOnceInForce' /\ WingsStayBacked' /\ HeldInPools' /\ AskedIsAtomic'
        /\ RateKnown'
    BY <1>0, <1>3, <2>1 DEF SetPoolSpecs, TakeOnceInForce, WingsStayBacked, HeldInPools,
                            AskedIsAtomic, RateKnown, IsPoolInit, OrderKeys
  <2>4. QED
    BY <2>2, <2>3
<1>4. ASSUME NEW p \in PoolKeys, ResyncProtocolTake(p)
      PROVE  IInv'
  <2>1. /\ pools' \in [PoolKeys -> SpecSet]
        /\ \A q \in PoolKeys :
              /\ pools'[q].schema = pools[q].schema
              /\ pools'[q].protocolTake
                   = IF q = p THEN protocolTakeRate ELSE pools[q].protocolTake
    <3> DEFINE new == [pools[p] EXCEPT !.protocolTake = protocolTakeRate]
    <3>1. pools \in [PoolKeys -> SpecSet] /\ pools' = [pools EXCEPT ![p] = new]
      BY <1>4 DEF ResyncProtocolTake, TypeOK
    <3>2. pools[p] \in SpecSet /\ protocolTakeRate \in 0 .. MAX_TAKE_RATE
      BY <3>1 DEF TypeOK
    <3>3. /\ new \in SpecSet
          /\ new.schema = pools[p].schema
          /\ new.protocolTake = protocolTakeRate
      BY <3>2 DEF SpecSet
    <3>4. QED
      BY <3>1, <3>3
  <2>2. TypeOK'
    BY <1>0, <1>4, <2>1 DEF ResyncProtocolTake, TypeOK, IsPoolInit
  <2>3. protocolTakeRate \in inForce[p]
    BY <1>4 DEF ResyncProtocolTake, RateKnown
  <2>4. /\ TakeOnceInForce' /\ WingsStayBacked' /\ HeldInPools' /\ AskedIsAtomic'
        /\ RateKnown'
    BY <1>0, <1>4, <2>1, <2>3
       DEF ResyncProtocolTake, TakeOnceInForce, WingsStayBacked, HeldInPools,
           AskedIsAtomic, RateKnown, IsPoolInit, OrderKeys
  <2>5. QED
    BY <2>2, <2>4
<1>5. ASSUME NEW rate \in TakeRates, SetProtocolTakeRate(rate)
      PROVE  IInv'
  <2>1. rate \in 0 .. MAX_TAKE_RATE
    BY <1>5, RateAssumption DEF Uint8, SetProtocolTakeRate, TakeRateOkay, MAX_TAKE_RATE
  <2>2. /\ inForce' \in [PoolKeys -> SUBSET (0 .. MAX_TAKE_RATE)]
        /\ \A q \in PoolKeys : /\ inForce[q] \subseteq inForce'[q]
                               /\ IsPoolInit(pools[q]) => rate \in inForce'[q]
    BY <1>5, <2>1 DEF SetProtocolTakeRate, TypeOK
  <2>3. TypeOK'
    BY <1>0, <1>5, <2>1, <2>2 DEF SetProtocolTakeRate, TypeOK
  <2>4. /\ TakeOnceInForce' /\ WingsStayBacked' /\ HeldInPools' /\ AskedIsAtomic'
        /\ RateKnown'
    BY <1>0, <1>5, <2>2
       DEF SetProtocolTakeRate, TakeOnceInForce, WingsStayBacked, HeldInPools,
           AskedIsAtomic, RateKnown
  <2>5. QED
    BY <2>3, <2>4
<1>6. ASSUME NEW ante \in LiqAntes, SetNewPoolLiq(ante)
      PROVE  IInv'
  BY <1>0, <1>6, <1>a, QuantityAssumption DEF SetNewPoolLiq, TypeOK
<1>7. ASSUME NEW tok \in Tokens, NEW improvement \in Improvements,
             SetPriceImprove(tok, improvement)
      PROVE  IInv'
  <2>1. improves' \in [Tokens -> [unitCollateral : Nat, awayTicks : Nat]]
    BY <1>7, QuantityAssumption DEF SetPriceImprove, TypeOK
  <2>2. QED
    BY <1>0, <1>7, <1>a, <2>1 DEF SetPriceImprove, TypeOK
<1>8. QED
  BY <1>1, <1>2, <1>3, <1>4, <1>5, <1>6, <1>7 DEF Governance

LEMMA PoolsInitialised ==
    ASSUME IInv, NEW p \in PoolKeys, NEW approved \in BOOLEAN, InitPool(p, approved)
    PROVE  IInv'
<1> USE DEF IInv
<1> DEFINE new == Registered(templates[p[2]], protocolTakeRate)
           locked == IF newPoolLiq = 0 THEN 1 ELSE newPoolLiq
<1>1. /\ pools' = [pools EXCEPT ![p] = new]
      /\ curves' = [curves EXCEPT ![p] = locked]
      /\ inForce' = [inForce EXCEPT ![p] = {protocolTakeRate}]
      /\ UNCHANGED <<templates, protocolTakeRate, newPoolLiq, improves,
                     positions, asked, now, commands>>
      /\ ~IsPoolInit(pools[p])
      /\ IsPoolInit(templates[p[2]])
  BY DEF InitPool, orderVars
<1>2. /\ new \in SpecSet
      /\ new.schema = 1
      /\ new.protocolTake = protocolTakeRate
  <2>1. p[2] \in Indexes
    BY DEF PoolKeys
  <2>2. templates[p[2]] \in SpecSet /\ protocolTakeRate \in 0 .. MAX_TAKE_RATE
    BY <2>1 DEF TypeOK
  <2>3. QED
    BY <1>1, <2>2 DEF Registered, SpecSet, IsPoolInit
<1>3. locked \in Nat /\ locked > 0 /\ locked < MAX_INIT_POOL_LIQ
  BY DEF TypeOK, MAX_INIT_POOL_LIQ
<1>4. /\ pools' \in [PoolKeys -> SpecSet]
      /\ pools'[p] = new
      /\ \A q \in PoolKeys : q # p => pools'[q] = pools[q]
  BY <1>1, <1>2 DEF TypeOK
<1>5. TypeOK'
  <2>1. /\ curves' \in [PoolKeys -> Nat]
        /\ \A q \in PoolKeys : curves'[q] = IF q = p THEN locked ELSE curves[q]
    BY <1>1, <1>3 DEF TypeOK
  <2>2. inForce' \in [PoolKeys -> SUBSET (0 .. MAX_TAKE_RATE)]
    BY <1>1 DEF TypeOK
  <2>3. \A q \in PoolKeys : IsPoolInit(pools'[q]) <=> curves'[q] > 0
    BY <1>2, <1>3, <1>4, <2>1 DEF TypeOK, IsPoolInit
  <2>4. \A q \in PoolKeys : curves'[q] < MAX_INIT_POOL_LIQ
    BY <1>3, <2>1 DEF TypeOK
  <2>5. QED
    BY <1>1, <1>4, <2>1, <2>2, <2>3, <2>4 DEF TypeOK
<1>6. TakeOnceInForce' /\ RateKnown'
  <2>1. \A q \in PoolKeys :
           inForce'[q] = IF q = p THEN {protocolTakeRate} ELSE inForce[q]
    BY <1>1 DEF TypeOK
  <2>2. QED
    BY <1>1, <1>2, <1>4, <2>1 DEF TakeOnceInForce, RateKnown
<1>7. WingsStayBacked' /\ HeldInPools' /\ AskedIsAtomic'
  BY <1>1, <1>2, <1>4 DEF WingsStayBacked, HeldInPools, AskedIsAtomic, OrderKeys, IsPoolInit
<1>8. QED
  BY <1>5, <1>6, <1>7

\* A mint or a burn is known by what becomes of one position.
LEMMA OrderChanged ==
    ASSUME IInv, NEW k \in OrderKeys,
           NEW pos \in [lots : Nat, mileage : {0}, stamp : Nat, atomic : BOOLEAN],
           NEW thresh \in Int,
           pos.stamp <= now,
           pos.lots >= thresh,
           pos.lots > 0 => IsPoolInit(pools[k[1]]),
           thresh > 0 => pos.atomic,
           positions' = [positions EXCEPT ![k] = pos],
           asked' = [asked EXCEPT ![k] = thresh],
           UNCHANGED <<specVars, now, commands>>
    PROVE  IInv'
<1> USE DEF IInv
<1>1. UNCHANGED <<templates, pools, curves, protocolTakeRate, newPoolLiq, improves,
                  inForce, now, commands>>
  BY DEF specVars
<1>2. /\ positions' \in [OrderKeys ->
             [lots : Nat, mileage : {0}, stamp : Nat, atomic : BOOLEAN]]
      /\ asked' \in [OrderKeys -> Int]
      /\ \A j \in OrderKeys : /\ positions'[j] = IF j = k THEN pos ELSE positions[j]
                              /\ asked'[j] = IF j = k THEN thresh ELSE asked[j]
  BY DEF TypeOK
<1>3. TypeOK'
  <2>1. \A j \in OrderKeys : positions'[j].stamp <= now
    BY <1>2 DEF TypeOK
  <2>2. QED
    BY <1>1, <1>2, <2>1 DEF TypeOK
<1>4. TakeOnceInForce' /\ RateKnown'
  BY <1>1 DEF TakeOnceInForce, RateKnown
<1>5. WingsStayBacked' /\ HeldInPools' /\ AskedIsAtomic'
  BY <1>1, <1>2 DEF WingsStayBacked, HeldInPools, AskedIsAtomic
<1>6. QED
  BY <1>3, <1>4, <1>5

\* What TypeOK says of one order.
LEMMA OrderTypes ==
    ASSUME TypeOK, NEW k \in OrderKeys
    PROVE  /\ positions[k] \in [lots : Nat, mileage : {0}, stamp : Nat, atomic : BOOLEAN]
           /\ asked[k] \in Int
           /\ now \in Nat
           /\ k[1] \in PoolKeys
           /\ pools[k[1]].tickSize \in Nat
           /\ k[2][1] \in MIN_TICK .. MAX_TICK /\ k[2][2] \in MIN_TICK .. MAX_TICK
<1>1. k[1] \in PoolKeys /\ k[2] \in Ranges
  BY DEF OrderKeys
<1>2. pools[k[1]] \in SpecSet
  BY <1>1 DEF TypeOK
<1>3. pools[k[1]].tickSize \in Nat
  <2>1. pools[k[1]].tickSize \in Uint16
    BY <1>2 DEF SpecSet
  <2>2. Uint16 \subseteq Nat
    BY DEF Uint16
  <2>3. QED
    BY <2>1, <2>2
<1>4. k[2][1] \in MIN_TICK .. MAX_TICK /\ k[2][2] \in MIN_TICK .. MAX_TICK
  BY <1>1, RangeAssumption
<1>5. QED
  BY <1>1, <1>3, <1>4 DEF TypeOK

LEMMA OnGridMinted ==
    ASSUME IInv, NEW k \in OrderKeys, NEW lots \in LotSizes, NEW approved \in BOOLEAN,
           MintOnGrid(k, lots, approved)
    PROVE  IInv'
<1> DEFINE pos == IncrementPosLiq(positions[k], lots, 0, now)
<1>1. lots \in Nat /\ TypeOK
  BY QuantityAssumption DEF IInv
<1>2. /\ positions[k] \in PositionSet
      /\ asked[k] \in Int
      /\ now \in Nat
  BY <1>1, OrderTypes DEF PositionSet
<1>3. /\ positions' = [positions EXCEPT ![k] = pos]
      /\ IsPoolInit(pools[k[1]])
      /\ UNCHANGED <<specVars, now, asked, commands>>
  BY DEF MintOnGrid
<1>4. /\ pos \in PositionSet
      /\ pos.lots = positions[k].lots + lots
      /\ pos.stamp = now
      /\ pos.atomic = positions[k].atomic
  BY <1>1, <1>2, Increment
<1> HIDE DEF pos
<1>5. positions[k].lots >= asked[k] /\ (asked[k] > 0 => positions[k].atomic)
  BY DEF IInv, WingsStayBacked, AskedIsAtomic
<1>6. positions[k].lots \in Nat
  BY <1>2 DEF PositionSet
<1>7. pos.lots >= asked[k] /\ pos.stamp <= now
  BY <1>1, <1>2, <1>4, <1>5, <1>6
<1>8. asked' = [asked EXCEPT ![k] = asked[k]]
  BY <1>1, <1>3 DEF TypeOK
<1>9. QED
  BY <1>2, <1>3, <1>4, <1>5, <1>7, <1>8, OrderChanged DEF PositionSet

LEMMA LongMinted ==
    ASSUME IInv, NEW k \in OrderKeys, NEW lots \in LotSizes,
           NEW isEnabled \in BOOLEAN, NEW useBaseSide \in BOOLEAN, NEW priceTick,
           NEW approved \in BOOLEAN,
           MintInLong(k, lots, isEnabled, useBaseSide, priceTick, approved)
    PROVE  IInv'
<1> DEFINE Position == [lots : Nat, mileage : {0}, stamp : Nat, atomic : BOOLEAN]
           size == pools[k[1]].tickSize
           set == QueryPriceImprove(k[1][1], isEnabled, useBaseSide)
           offGrid == ~IsOnGrid(k[2][1], k[2][2], size)
           marked == IF offGrid THEN MarkPosAtomic(positions[k]) ELSE positions[k]
           pos == IF lots = 0 THEN marked ELSE IncrementPosLiq(marked, lots, 0, now)
           thresh == IF offGrid THEN ImprovableThresh(set, size, k[2][1], k[2][2])
                     ELSE asked[k]
<1>1. lots \in Nat /\ TypeOK
  BY QuantityAssumption DEF IInv
<1>2. /\ positions[k] \in Position
      /\ asked[k] \in Int
      /\ now \in Nat
      /\ size \in Nat
      /\ k[1] \in PoolKeys
      /\ k[2][1] \in MIN_TICK .. MAX_TICK /\ k[2][2] \in MIN_TICK .. MAX_TICK
      /\ positions[k].stamp <= now
  BY <1>1, OrderTypes DEF TypeOK
<1>3. /\ marked \in Position
      /\ marked.lots = positions[k].lots
      /\ marked.stamp = positions[k].stamp
      /\ marked.atomic = (offGrid \/ positions[k].atomic)
  BY <1>2 DEF MarkPosAtomic
<1>4. /\ positions' = [positions EXCEPT ![k] = pos]
      /\ asked' = [asked EXCEPT ![k] = thresh]
      /\ IsPoolInit(pools[k[1]])
      /\ size > 0
      /\ offGrid => FitsOffGrid(set, k[2][1], k[2][2], lots, size, priceTick)
      /\ UNCHANGED <<specVars, now, commands>>
  BY DEF MintInLong, GridOkay
<1>5. /\ pos \in Position
      /\ pos.stamp <= now
      /\ pos.lots = positions[k].lots + lots
      /\ pos.atomic = marked.atomic
  <2> HIDE DEF marked
  <2>1. CASE lots = 0
    BY <1>2, <1>3, <2>1
  <2>2. CASE lots # 0
    <3> DEFINE next == IncrementPosLiq(marked, lots, 0, now)
    <3>1. marked \in PositionSet
      BY <1>3 DEF PositionSet
    <3>2. /\ next \in PositionSet
          /\ next.lots = marked.lots + lots
          /\ next.stamp = now
          /\ next.atomic = marked.atomic
      BY <1>1, <1>2, <3>1, Increment
    <3>4. pos = next
      BY <2>2
    <3> HIDE DEF pos, next
    <3>3. QED
      BY <1>2, <1>3, <3>2, <3>4 DEF PositionSet
  <2>3. QED
    BY <2>1, <2>2
<1>6. positions[k].lots >= asked[k] /\ (asked[k] > 0 => positions[k].atomic)
  BY DEF IInv, WingsStayBacked, AskedIsAtomic
<1>7. /\ thresh \in Int
      /\ pos.lots >= thresh
      /\ thresh > 0 => pos.atomic
  <2> HIDE DEF pos, marked
  <2>1. CASE offGrid
    <3>1. set \in [inBase : BOOLEAN, unitCollateral : Nat, awayTicks : Nat]
      <4>1. k[1][1][1] \in Tokens /\ k[1][1][2] \in Tokens
        BY <1>2, PairAssumption DEF PoolKeys
      <4>2. improves \in [Tokens -> [unitCollateral : Nat, awayTicks : Nat]]
        BY <1>1 DEF TypeOK
      <4>3. QED
        BY <4>1, <4>2 DEF QueryPriceImprove
    <3>2. Priced(size, k[2][1], k[2][2]) /\ lots >= thresh
      BY <1>4, <2>1 DEF FitsOffGrid
    <3> HIDE DEF set, size
    <3>3. thresh \in Int
      BY <1>2, <1>4, <2>1, <3>1, <3>2, ThreshIsInt
    <3> HIDE DEF thresh
    <3>4. QED
      BY <1>1, <1>2, <1>3, <1>5, <2>1, <3>2, <3>3
  <2>2. CASE ~offGrid
    BY <1>1, <1>2, <1>3, <1>5, <1>6, <2>2
  <2>3. QED
    BY <2>1, <2>2
<1> HIDE DEF pos, thresh
<1>8. QED
  BY <1>4, <1>5, <1>7, OrderChanged

LEMMA OrderBurned ==
    ASSUME IInv, NEW k \in OrderKeys, NEW lots \in LotSizes, NEW approved \in BOOLEAN,
           Burn(k, lots, approved)
    PROVE  IInv'
<1> DEFINE Position == [lots : Nat, mileage : {0}, stamp : Nat, atomic : BOOLEAN]
           pos == DecrementLiq(positions[k], lots)
           thresh == IF positions[k].lots = lots THEN 0 ELSE asked[k]
<1>1. lots \in Nat /\ TypeOK
  BY QuantityAssumption DEF IInv
<1>2. /\ positions[k] \in Position
      /\ asked[k] \in Int
      /\ now \in Nat
      /\ positions[k].stamp <= now
  BY <1>1, OrderTypes DEF TypeOK
<1>3. /\ positions' = [positions EXCEPT ![k] = pos]
      /\ asked' = [asked EXCEPT ![k] = thresh]
      /\ IsPoolInit(pools[k[1]])
      /\ positions[k].lots >= lots
      /\ positions[k].lots > lots => ~positions[k].atomic
      /\ UNCHANGED <<specVars, now, commands>>
  BY DEF Burn, BurnOkay, DecrementFits
<1>4. asked[k] > 0 => positions[k].atomic
  BY DEF IInv, AskedIsAtomic
<1>5. /\ pos \in Position
      /\ pos.stamp <= now
      /\ thresh \in Int
      /\ pos.lots >= thresh
      /\ thresh > 0 => pos.atomic
  <2>1. CASE positions[k].lots = lots
    BY <1>1, <1>2, <2>1 DEF DecrementLiq, NoPosition
  <2>2. CASE positions[k].lots # lots
    BY <1>1, <1>2, <1>3, <1>4, <2>2 DEF DecrementLiq
  <2>3. QED
    BY <2>1, <2>2
<1> HIDE DEF pos, thresh
<1>6. QED
  BY <1>3, <1>5, OrderChanged

LEMMA TimePassed ==
    ASSUME IInv, NEW time \in Times, PassTime(time)
    PROVE  IInv'
<1>1. time \in Nat
  BY TimeAssumption
<1>2. TypeOK'
  BY <1>1 DEF IInv, TypeOK, PassTime, specVars, orderVars
<1>3. QED
  BY <1>2 DEF IInv, PassTime, specVars, orderVars, TakeOnceInForce, RateKnown,
              WingsStayBacked, HeldInPools, AskedIsAtomic

-----------------------------------------------------------------------------
LEMMA NextInvariant == IInv /\ [Next]_vars => IInv'
<1> SUFFICES ASSUME IInv, [Next]_vars PROVE IInv'
  OBVIOUS
<1>1. CASE Governance
  BY <1>1, GovernanceInvariant
<1>2. CASE Users
  <2>1. ASSUME NEW approved \in BOOLEAN, NEW p \in PoolKeys, InitPool(p, approved)
        PROVE  IInv'
    BY <2>1, PoolsInitialised
  <2>2. ASSUME NEW approved \in BOOLEAN, NEW k \in OrderKeys, NEW lots \in LotSizes,
               MintOnGrid(k, lots, approved)
        PROVE  IInv'
    BY <2>2, OnGridMinted
  <2>3. ASSUME NEW approved \in BOOLEAN, NEW k \in OrderKeys, NEW lots \in LotSizes,
               NEW isEnabled \in BOOLEAN, NEW useBaseSide \in BOOLEAN,
               NEW priceTick \in PriceTicks,
               MintInLong(k, lots, isEnabled, useBaseSide, priceTick, approved)
        PROVE  IInv'
    BY <2>3, LongMinted
  <2>4. ASSUME NEW approved \in BOOLEAN, NEW k \in OrderKeys, NEW lots \in LotSizes,
               Burn(k, lots, approved)
        PROVE  IInv'
    BY <2>4, OrderBurned
  <2>5. QED
    BY <1>2, <2>1, <2>2, <2>3, <2>4 DEF Users
<1>3. ASSUME NEW time \in Times, PassTime(time)
      PROVE  IInv'
  BY <1>3, TimePassed
<1>4. CASE UNCHANGED vars
  BY <1>4 DEF IInv, TypeOK, TakeOnceInForce, RateKnown, WingsStayBacked, HeldInPools,
              AskedIsAtomic, vars
<1>5. QED
  BY <1>1, <1>2, <1>3, <1>4 DEF Next

\* The inductive invariant holds of every behaviour of the registry.
THEOREM RegistryInvariant == Spec => []IInv
<1>1. QED
  BY InitInvariant, NextInvariant, PTL DEF Spec

\* Every variable keeps its type: no take above a half, no pool without
\* locked liquidity, no more locked than the cap (setNewPoolLiq,
\* setProtocolTakeRate, registerPool).
THEOREM RegistryTypeCorrect == Spec => []TypeOK
<1>1. IInv => TypeOK
  BY DEF IInv
<1>2. QED
  BY <1>1, RegistryInvariant, PTL

\* Every pool takes for the protocol a rate that was in force at some time
\* since it was initialised (registerPool, resyncProtocolTake).
THEOREM TakesKnown == Spec => []TakeOnceInForce
<1>1. IInv => TakeOnceInForce
  BY DEF IInv
<1>2. QED
  BY <1>1, RegistryInvariant, PTL

\* An order let off the grid keeps the liquidity that was asked for it
\* (mintConcentrated of MarketSequencer, markPosAtomic, decrementLiq).
THEOREM WingsKept == Spec => []WingsStayBacked
<1>1. IInv => WingsStayBacked
  BY DEF IInv
<1>2. QED
  BY <1>1, RegistryInvariant, PTL

\* Whatever governance does, an order in a pool without an oracle can be
\* burned in full when it is old enough (isJitSafe, setPoolSpecs).
THEOREM NobodyLockedOut == Spec => []NeverLockedOut
<1>1. IInv => NeverLockedOut
  <2> SUFFICES ASSUME IInv, NEW k \in OrderKeys, NEW approved \in BOOLEAN,
                      positions[k].lots > 0, PoolOracle(k[1]) = NoOracle,
                      now - positions[k].stamp >= 2560
               PROVE  BurnOkay(k, positions[k].lots, approved)
    BY DEF NeverLockedOut
  <2>1. TypeOK
    BY DEF IInv
  <2>2. /\ positions[k].lots \in Nat /\ positions[k].stamp \in Nat /\ now \in Nat
        /\ positions[k].mileage = 0
    BY <2>1, OrderTypes
  <2>3. IsPoolInit(pools[k[1]])
    BY DEF IInv, HeldInPools
  <2>4. (now - positions[k].stamp) \div 10 > 255
    BY <2>2
  <2>5. JitSafe(positions[k].stamp, pools[k[1]].jitThresh)
    <3> DEFINE units == (now - positions[k].stamp) \div 10
    <3>1. units \in Int /\ units > 255
      BY <2>2, <2>4
    <3> HIDE DEF units
    <3>2. ~(units <= 255)
      BY <3>1
    <3>3. QED
      BY <3>2 DEF JitSafe, units
  <2>6. DecrementFits(positions[k], positions[k].lots)
    <3>1. DeltaRewardsFits(positions[k].mileage)
      BY <2>2, FeeWordAssumption DEF DeltaRewardsFits
    <3>2. QED
      BY <2>2, <3>1 DEF DecrementFits
  <2>7. QED
    BY <2>3, <2>5, <2>6 DEF BurnOkay, VerifyPermit
<1>2. QED
  BY <1>1, RegistryInvariant, PTL

\* The oracle a pool asks is settled when the pool is initialised: no
\* command changes it, and no pool is closed or initialised again
\* (registerPool, setPoolSpecs, resyncProtocolTake).
THEOREM PermitsFixed == Spec => PermitFixed
<1>1. ASSUME IInv, [Next]_vars, NEW p \in PoolKeys, IsPoolInit(pools[p])
      PROVE  IsPoolInit(pools'[p]) /\ PoolOracle(p)' = PoolOracle(p)
  <2> DEFINE Kept == /\ pools'[p].schema = pools[p].schema
                     /\ pools'[p].oracleFlag = pools[p].oracleFlag
  <2>1. pools \in [PoolKeys -> SpecSet] /\ pools[p] \in SpecSet
    BY <1>1 DEF IInv, TypeOK
  <2>2. ASSUME NEW q \in PoolKeys, NEW spec \in Specs, SetPoolSpecs(q, spec)
        PROVE  Kept
    BY <2>1, <2>2 DEF SetPoolSpecs, Revised, SpecSet
  <2>3. ASSUME NEW q \in PoolKeys, ResyncProtocolTake(q)
        PROVE  Kept
    BY <2>1, <2>3 DEF ResyncProtocolTake, SpecSet
  <2>4. ASSUME NEW q \in PoolKeys, NEW approved \in BOOLEAN, InitPool(q, approved)
        PROVE  Kept
    BY <1>1, <2>1, <2>4 DEF InitPool
  <2>5. ASSUME pools' = pools
        PROVE  Kept
    BY <2>5
  <2>6. Kept
    <3>1. CASE Governance
      BY <2>2, <2>3, <2>5, <3>1
         DEF Governance, SetPoolTemplate, DisablePoolTemplate, SetProtocolTakeRate,
             SetNewPoolLiq, SetPriceImprove
    <3>2. CASE Users
      BY <2>4, <2>5, <3>2 DEF Users, MintOnGrid, MintInLong, Burn, specVars
    <3>3. CASE UNCHANGED pools
      BY <2>5, <3>3
    <3>4. QED
      BY <1>1, <3>1, <3>2, <3>3 DEF Next, PassTime, specVars, vars
  <2>7. QED
    BY <1>1, <2>6 DEF IsPoolInit, PoolOracle
<1>2. IInv /\ [Next]_vars
        => [\A p \in PoolKeys : IsPoolInit(pools[p]) =>
               IsPoolInit(pools'[p]) /\ PoolOracle(p)' = PoolOracle(p)]_vars
  BY <1>1
<1>3. QED
  BY <1>2, RegistryInvariant, PTL DEF Spec, PermitFixed
=============================================================================
