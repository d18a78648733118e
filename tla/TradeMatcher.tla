----------------------------- MODULE TradeMatcher -----------------------------
(***************************************************************************)
(* One pool of the Ambient DEX: its curve, level book, range positions and *)
(* knockout pivots, under the operations of mixins/TradeMatcher.sol and    *)
(* mixins/KnockoutCounter.sol.                                             *)
(*                                                                         *)
(* A user command is one EVM transaction behind the re-entrancy lock, so   *)
(* it is one action here; a swap is unrolled into the iterations of the    *)
(* loop of sweepSwapLiq, because the book must be consistent between any   *)
(* two of them.  A transaction that reverts changes nothing: every require *)
(* and every checked subtraction is a guard.                               *)
(*                                                                         *)
(* The price is known by its tick.  Token amounts, the ambient liquidity   *)
(* and the sizes of flows are left out; how much the fee counter grows on  *)
(* a leg of a swap is any of FeeSteps.                                     *)
(***************************************************************************)
EXTENDS KnockoutLiq, PositionRegistrar, FiniteSets

CONSTANTS
    Owners,       \* the holders of positions (users, or LP conduits)
    RangeLocs,    \* the range orders in use, [lower, upper]
    KoLocs,       \* the knockout orders in use, [isBid, lower, upper]
    LotSizes,     \* the quantities a mint or a burn may carry
    OffGrid,      \* the ranges that a long command may find off the grid
    KoBits,       \* the knockout settings the pool may have
    JitThresh,    \* the time a position rests before it may be burned
    InitTicks,    \* where the pool may be initialised
    FeeSteps,     \* bound: how far the fee counter may grow on one leg
    MaxGrowth,    \* bound: the fee counter
    MaxTime       \* bound: the block time

Locs == [lower : Ticks, upper : Ticks]
KoLocations == [isBid : BOOLEAN, lower : Ticks, upper : Ticks]
KnockoutBits == [width : Nat \ {0}, inside : BOOLEAN, onGrid : BOOLEAN]

\* Owners are addresses, of which there are finitely many.
ASSUME OwnersAssumption == IsFiniteSet(Owners)
\* translateTickRange refuses any other range; lots sizes pass liquidityToLots.
ASSUME LocsAssumption ==
    /\ RangeLocs \subseteq {r \in Locs : r.lower < r.upper}
    /\ KoLocs \subseteq {k \in KoLocations : k.lower < k.upper}
ASSUME SizesAssumption == LotSizes \subseteq {q \in Nat : IsLotSize(q)}
ASSUME SettingsAssumption ==
    /\ OffGrid \subseteq RangeLocs
    /\ KoBits \subseteq KnockoutBits
    /\ JitThresh \in Nat
    /\ InitTicks \subseteq MinTick .. MaxTick - 1
ASSUME BoundsAssumption ==
    /\ FeeSteps \subseteq Nat
    /\ MaxGrowth \in Nat /\ MaxGrowth < FeeWord
    /\ MaxTime \in Nat \ {0}

PriceTicks == MinTick .. MaxTick - 1
Times == 0 .. MaxTime
PivotKeys == BOOLEAN \X Ticks
RangeKeys == Owners \X RangeLocs
KoKeys == Owners \X KoLocs \X Times

VARIABLES
    levels,       \* levels_: the level at each tick
    census,       \* mezzanine_ and terminus_: the bookmarked ticks
    tick,         \* the tick of curve.priceRoot_
    concLiq,      \* curve.concLiq_
    concGrowth,   \* curve.concGrowth_
    positions,    \* positions_, by <<owner, range>>
    pivots,       \* knockoutPivots_, by <<isBid, tick>>
    merkles,      \* knockoutMerkles_, by <<isBid, tick>>
    koPos,        \* knockoutPos_, by <<owner, location, tranche time>>
    now,          \* block.timestamp
    sweep,        \* "idle", or the direction of the swap under way
    depth         \* auxiliary: the lots live orders stack over each tick

bookVars == <<levels, census>>
curveVars == <<tick, concLiq, concGrowth>>
knockoutVars == <<pivots, merkles, koPos>>
vars == <<levels, census, tick, concLiq, concGrowth, positions,
          pivots, merkles, koPos, now, sweep, depth>>

-----------------------------------------------------------------------------
\* Mutant: an order whose lower tick is the price is out of range.
InRangeStrict(lower, upper) == lower < tick /\ tick < upper

InRange(lower, upper) == lower <= tick /\ tick < upper

JitSafe(stamp) == now - stamp >= JitThresh

\* bumpConcentrated on an order that is added (lots > 0) or removed (lots < 0).
BumpConcentrated(lower, upper, lots) ==
    IF InRange(lower, upper) THEN concLiq + lots ELSE concLiq

Stack(lower, upper, lots) ==
    [t \in Ticks |-> IF lower <= t /\ t < upper THEN depth[t] + lots ELSE depth[t]]

\* The book with an order added to it or cut from it, as every operation
\* on range and on knockout liquidity leaves it.
AddOrder(lower, upper, lots) ==
    /\ AddBookFits(levels, lower, upper, lots)
    /\ levels' = AddBookLiq(levels, tick, lower, upper, lots, concGrowth)
    /\ census' = BookmarkTicks(census, levels, lower, upper)
    /\ concLiq' = BumpConcentrated(lower, upper, lots)
    /\ depth' = Stack(lower, upper, lots)

Clock(lower, upper) == ClockFeeOdometer(levels, tick, lower, upper, concGrowth)

\* What clockFeeOdometer returns at the end of addBookLiq.
ClockAfterAdd(lower, upper, lots) ==
    ClockFeeOdometer(AddBookLiq(levels, tick, lower, upper, lots, concGrowth),
                     tick, lower, upper, concGrowth)

-----------------------------------------------------------------------------
Init ==
    /\ levels = [t \in Ticks |-> NoLevel]
    /\ census = {}
    /\ tick \in InitTicks
    /\ concLiq = 0
    /\ concGrowth = 0
    /\ positions = [k \in RangeKeys |-> NoPosition]
    /\ pivots = [k \in PivotKeys |-> NoPivot]
    /\ merkles = [k \in PivotKeys |-> NoMerkle]
    /\ koPos = [k \in KoKeys |-> NoKnockoutPos]
    /\ now = 1
    /\ sweep = "idle"
    /\ depth = [t \in Ticks |-> 0]

(***************************************************************************)
(* Range orders.  Only a long command takes one off the grid, and it mints *)
(* nothing when there is nothing to add: MarkRange.  The same range may be *)
(* on the grid at another time, for the grid is revised.                   *)
(***************************************************************************)
MintRange(o, r, lots, offGrid) ==
    LET pos == positions[<<o, r>>]
        mileage == MintMileage(pos, lots, ClockAfterAdd(r.lower, r.upper, lots))
    IN  /\ sweep = "idle"
        /\ offGrid => r \in OffGrid /\ lots > 0
        /\ mileage < FeeWord
        /\ AddOrder(r.lower, r.upper, lots)
        /\ positions' = [positions EXCEPT ![<<o, r>>] =
               [IncrementPosLiq(pos, lots, ClockAfterAdd(r.lower, r.upper, lots), now)
                   EXCEPT !.atomic = @ \/ offGrid]]
        /\ UNCHANGED <<tick, concGrowth, knockoutVars, now, sweep>>

\* A mint of no lots off the grid still marks the position, so that one from
\* before, on whatever grid, can no longer be burned in part.
MarkRange(o, r) ==
    /\ sweep = "idle"
    /\ r \in OffGrid
    /\ positions' = [positions EXCEPT ![<<o, r>>] = MarkPosAtomic(@)]
    /\ UNCHANGED <<bookVars, curveVars, knockoutVars, now, sweep, depth>>

BurnRange(o, r, lots) ==
    LET pos == positions[<<o, r>>]
    IN  /\ sweep = "idle"
        /\ RemoveBookFits(levels, r.lower, r.upper, lots)
        /\ JitSafe(pos.stamp)
        /\ DecrementFits(pos, lots)
        /\ BumpConcentrated(r.lower, r.upper, -lots) >= 0
        /\ levels' = RemoveBookLiq(levels, r.lower, r.upper, lots)
        /\ census' = census \ EmptiedTicks(levels, r.lower, r.upper, lots)
        /\ positions' = [positions EXCEPT ![<<o, r>>] = DecrementLiq(pos, lots)]
        /\ concLiq' = BumpConcentrated(r.lower, r.upper, -lots)
        /\ depth' = Stack(r.lower, r.upper, -lots)
        /\ UNCHANGED <<tick, concGrowth, knockoutVars, now, sweep>>

HarvestRange(o, r) ==
    LET pos == positions[<<o, r>>]
    IN  /\ sweep = "idle"
        /\ HarvestFits(pos, Clock(r.lower, r.upper))
        /\ positions' = [positions EXCEPT ![<<o, r>>] =
               HarvestPosLiq(pos, Clock(r.lower, r.upper))]
        /\ UNCHANGED <<bookVars, curveVars, knockoutVars, now, sweep, depth>>

(***************************************************************************)
(* Knockout orders.  The caller of a mint or a burn picks insideMid, so    *)
(* the spread check of the command is its weaker form.                     *)
(***************************************************************************)
MintKnockout(o, k, lots, bits) ==
    LET key == PivotKey(k)
        pivot == InjectPivot(pivots[key], k, lots, now)
        pos == koPos[<<o, k, pivot.time>>]
        feeRange == ClockAfterAdd(k.lower, k.upper, lots)
    IN  /\ sweep = "idle"
        /\ SpreadOkay(k, tick, TRUE)
        /\ InjectFits(pivots[key], merkles[key], k, tick, bits, now)
        /\ AddLotsFits(pivots[key].lots, lots)
        /\ AddBookFits(levels, k.lower, k.upper, lots)
        /\ InsertPosition(pos, lots, feeRange, now).mileage < FeeWord
        /\ pivots' = [pivots EXCEPT ![key] = pivot]
        /\ levels' =
             LET added == AddBookLiq(levels, tick, k.lower, k.upper, lots, concGrowth)
             IN  IF pivots[key].lots = 0 THEN MarkPivot(added, key) ELSE added
        /\ census' = BookmarkTicks(census, levels, k.lower, k.upper)
        /\ koPos' = [koPos EXCEPT ![<<o, k, pivot.time>>] =
               InsertPosition(pos, lots, feeRange, now)]
        /\ concLiq' = BumpConcentrated(k.lower, k.upper, lots)
        /\ depth' = Stack(k.lower, k.upper, lots)
        /\ UNCHANGED <<tick, concGrowth, positions, merkles, now, sweep>>

BurnKnockout(o, k, lots) ==
    LET key == PivotKey(k)
        pos == koPos[<<o, k, pivots[key].time>>]
        kills == lots = pivots[key].lots
        unmarked == IF kills THEN UnmarkPivot(levels, key) ELSE levels
    IN  /\ sweep = "idle"
        /\ SpreadOkay(k, tick, TRUE)
        /\ lots <= pivots[key].lots
        /\ RemoveBookFits(unmarked, k.lower, k.upper, lots)
        /\ DeltaRewardsFits(pos.mileage)
        /\ JitSafe(pos.stamp)
        /\ lots <= pos.lots
        /\ BumpConcentrated(k.lower, k.upper, -lots) >= 0
        /\ pivots' = [pivots EXCEPT ![key] = RecallPivot(@, lots)]
        /\ levels' = RemoveBookLiq(unmarked, k.lower, k.upper, lots)
        /\ census' = census \ EmptiedTicks(unmarked, k.lower, k.upper, lots)
        /\ koPos' = [koPos EXCEPT ![<<o, k, pivots[key].time>>] = RemovePosition(@, lots)]
        /\ concLiq' = BumpConcentrated(k.lower, k.upper, -lots)
        /\ depth' = Stack(k.lower, k.upper, -lots)
        /\ UNCHANGED <<tick, concGrowth, positions, merkles, now, sweep>>

\* The caller proves one entry of the pivot's history and gets the position
\* of that tranche, with the rewards up to the knockout.
ClaimKnockout(o, k, proven) ==
    /\ sweep = "idle"
    /\ proven \in ProvableHistory(merkles[PivotKey(k)])
    /\ ClaimFits(koPos[<<o, k, proven.time>>], proven.mileage)
    /\ koPos' = [koPos EXCEPT ![<<o, k, proven.time>>] = NoKnockoutPos]
    /\ UNCHANGED <<bookVars, curveVars, positions, pivots, merkles, now, sweep, depth>>

\* Without a proof: the caller names the tranche and forgoes the rewards.
RecoverKnockout(o, k, pivotTime) ==
    /\ sweep = "idle"
    /\ ConfirmPivotDead(merkles[PivotKey(k)], pivotTime)
    /\ koPos' = [koPos EXCEPT ![<<o, k, pivotTime>>] = NoKnockoutPos]
    /\ UNCHANGED <<bookVars, curveVars, positions, pivots, merkles, now, sweep, depth>>

PassTime ==
    /\ sweep = "idle"
    /\ now < MaxTime
    /\ now' = now + 1
    /\ UNCHANGED <<bookVars, curveVars, positions, knockoutVars, sweep, depth>>

(***************************************************************************)
(* The loop of sweepSwapLiq.  A leg rolls the price along the curve up to  *)
(* the next bookmarked tick, booking the fees at the liquidity of the leg. *)
(* It ends the swap short of the bump (quantity exhausted, limit reached)  *)
(* or crosses it.  The price is clamped inside (MinTick, MaxTick): a swap  *)
(* that meets a bump at either end turns in place until it reverts, so     *)
(* such a crossing is never committed.                                     *)
(***************************************************************************)
\* Mutant: a buy looks for its next bump on both sides.
AheadEitherWay(b) == IF sweep = "buy" THEN b # tick ELSE b <= tick

\* Mutant: a sell does not meet a bump at the tick it starts from.
AheadStrict(b) == IF sweep = "buy" THEN tick < b ELSE b < tick

Ahead(b) == IF sweep = "buy" THEN tick < b ELSE b <= tick

\* pinBitmap and seekMezzSpill: the nearest bookmark in the swap's direction.
IsNextBump(b) ==
    /\ b \in census
    /\ Ahead(b)
    /\ \A c \in census : Ahead(c) => IF sweep = "buy" THEN b <= c ELSE c <= b

ShortOfBump(t) ==
    /\ IF sweep = "buy" THEN tick <= t ELSE t <= tick
    /\ \A b \in census : Ahead(b) => IF sweep = "buy" THEN t < b ELSE b <= t

\* Rewards accrue only to liquidity that is in range (checked addition).
LegFees(g) == (g > 0 => concLiq > 0) /\ concGrowth + g <= MaxGrowth

SweepBegin(dir) ==
    /\ sweep = "idle"
    /\ sweep' = dir
    /\ UNCHANGED <<bookVars, curveVars, positions, knockoutVars, now, depth>>

SweepEnd(t, g) ==
    /\ sweep # "idle"
    /\ ShortOfBump(t)
    /\ LegFees(g)
    /\ tick' = t
    /\ concGrowth' = concGrowth + g
    /\ sweep' = "idle"
    /\ UNCHANGED <<bookVars, concLiq, positions, knockoutVars, now, depth>>

\* shaveAtBump: the tick on the far side of a bump.
FarSide(b) == IF sweep = "buy" THEN b ELSE b - 1

\* What crossing a bump does to the curve: the liquidity bump of the level,
\* and the price on the far side.
RollOver(b, g) ==
    /\ IsNextBump(b)
    /\ IF sweep = "buy" THEN b < MaxTick ELSE b > MinTick
    /\ LegFees(g)
    /\ concGrowth' = concGrowth + g
    /\ concLiq + CrossDelta(levels, b, sweep = "buy") >= 0
    /\ concLiq' = concLiq + CrossDelta(levels, b, sweep = "buy")
    /\ tick' = FarSide(b)

SweepCross(b, g) ==
    /\ sweep # "idle"
    /\ ~CrossFlag(levels, b, sweep = "buy")
    /\ RollOver(b, g)
    /\ levels' = CrossLevel(levels, b, concGrowth + g)
    /\ UNCHANGED <<census, positions, knockoutVars, now, sweep, depth>>

\* The crossed side of the level carries the flag: crossKnockout takes the
\* pivot's lots off the book and files the tranche in the Merkle slot.
SweepKnockout(b, g) ==
    LET key == <<sweep = "sell", b>>
        pivot == pivots[key]
        lower == PivotLower(key, pivot.width)
        upper == PivotUpper(key, pivot.width)
        crossed == UnmarkPivot(CrossLevel(levels, b, concGrowth + g), key)
        feeRange == ClockFeeOdometer(crossed, FarSide(b), lower, upper, concGrowth + g)
    IN  /\ sweep # "idle"
        /\ CrossFlag(levels, b, sweep = "buy")
        /\ RollOver(b, g)
        /\ RemoveBookFits(crossed, lower, upper, pivot.lots)
        /\ levels' = RemoveBookLiq(crossed, lower, upper, pivot.lots)
        /\ census' = census \ EmptiedTicks(crossed, lower, upper, pivot.lots)
        /\ merkles' = [merkles EXCEPT ![key] = CommitKnockout(@, pivot, feeRange)]
        /\ pivots' = [pivots EXCEPT ![key] = NoPivot]
        /\ depth' = Stack(lower, upper, -pivot.lots)
        /\ UNCHANGED <<positions, koPos, now, sweep>>

-----------------------------------------------------------------------------
RangeNext ==
    \E o \in Owners, r \in RangeLocs :
        \/ \E lots \in LotSizes, offGrid \in BOOLEAN : MintRange(o, r, lots, offGrid)
        \/ MarkRange(o, r)
        \/ \E lots \in LotSizes : BurnRange(o, r, lots)
        \/ HarvestRange(o, r)

KnockoutNext ==
    \E o \in Owners, k \in KoLocs :
        \/ \E lots \in LotSizes, bits \in KoBits : MintKnockout(o, k, lots, bits)
        \/ \E lots \in LotSizes : BurnKnockout(o, k, lots)
        \/ \E proven \in ProvableHistory(merkles[PivotKey(k)]) : ClaimKnockout(o, k, proven)
        \/ \E pivotTime \in Times : RecoverKnockout(o, k, pivotTime)

SweepNext ==
    \E g \in FeeSteps :
        \/ \E t \in PriceTicks : SweepEnd(t, g)
        \/ \E b \in Ticks : SweepCross(b, g) \/ SweepKnockout(b, g)

Next ==
    \/ RangeNext
    \/ KnockoutNext
    \/ PassTime
    \/ \E dir \in {"buy", "sell"} : SweepBegin(dir)
    \/ SweepNext

Spec == Init /\ [][Next]_vars

\* The iterations of the loop follow each other within one transaction.
FairSpec == Spec /\ WF_vars(SweepNext)

-----------------------------------------------------------------------------
(***************************************************************************)
(* Properties.                                                             *)
(***************************************************************************)
Positions == [lots : Nat, mileage : FeeWords, stamp : Times, atomic : BOOLEAN]
KoPositions == [lots : Nat, mileage : FeeWords, stamp : Times]
Pivots == [lots : LotWords, time : Times, width : Nat]

IsMerkle(m) ==
    /\ m.time \in Times
    /\ m.mileage \in FeeWords
    /\ m.root \in Seq([time : Times, mileage : FeeWords])

\* Every stored word stays within the width the storage layout gives it.
TypeOK ==
    /\ levels \in [Ticks -> Levels]
    /\ census \subseteq Ticks
    /\ tick \in PriceTicks
    /\ concLiq \in Nat
    /\ concGrowth \in FeeWords
    /\ positions \in [RangeKeys -> Positions]
    /\ pivots \in [PivotKeys -> Pivots]
    /\ DOMAIN merkles = PivotKeys
    /\ \A k \in PivotKeys : IsMerkle(merkles[k])
    /\ koPos \in [KoKeys -> KoPositions]
    /\ now \in 1 .. MaxTime
    /\ sweep \in {"idle", "buy", "sell"}
    /\ depth \in [Ticks -> Int]

DepthBelow(t) == IF t = MinTick THEN 0 ELSE depth[t - 1]

\* The concentrated liquidity of the curve is what the live orders stack over
\* the current tick, at every iteration of a swap: the bumps of the levels
\* crossed and of the orders minted and burned in range never drift apart.
ActiveLiquidity == concLiq = depth[tick]

\* The two sides of a level net out to the step of the depth at its tick: a
\* knockout or a burn takes off the book exactly what a mint put there.
BookMatchesDepth ==
    \A t \in Ticks : NetBump(levels, t) = depth[t] - DepthBelow(t)

Covers(r, t) == r.lower <= t /\ t < r.upper

LiveKnockouts(t) ==
    {k \in KoKeys : /\ Covers(k[2], t)
                    /\ k[3] # 0
                    /\ pivots[PivotKey(k[2])].time = k[3]}

LotsOf(book) == [k \in DOMAIN book |-> book[k].lots]

\* The lots of the positions over tick t that can still be burned.
StakeOver(t) ==
    SumFunctionOnSet(LotsOf(positions), {k \in RangeKeys : Covers(k[2], t)})
    + SumFunctionOnSet(LotsOf(koPos), LiveKnockouts(t))

\* The liquidity on the book is that of the positions that can still be
\* burned: nobody's lots are left behind or counted twice.
DepthIsPositions == \A t \in Ticks : depth[t] = StakeOver(t)

\* A swap finds every level that changes liquidity: bookmarkTick and
\* forgetTick keep the bitmaps in step with the book.
BookmarkCoversLots == \A t \in Ticks : IsActive(levels[t]) => t \in census

\* No odometer is ahead of the global counter, so the checked subtractions of
\* crossLevel and pivotFeeBelow never revert a swap or a burn.
OdometerBounded == \A t \in Ticks : levels[t].odo <= concGrowth

PivotRangeOkay(key) ==
    /\ pivots[key].width > 0
    /\ PivotLower(key, pivots[key].width) >= MinTick
    /\ PivotUpper(key, pivots[key].width) <= MaxTick

\* The flag borrowed from a lots word is set exactly while a tranche rests at
\* that side of the level, also when the tranche holds no lots.
FlagMatchesPivot ==
    \A t \in Ticks :
        /\ HasKnockoutLiq(levels[t].bid) <=> pivots[<<TRUE, t>>].time # 0
        /\ HasKnockoutLiq(levels[t].ask) <=> pivots[<<FALSE, t>>].time # 0

\* Wherever a swap may go next, the crossing is arithmetically possible: the
\* curve covers the bump and the book still holds what the pivot takes off.
CrossingNeverReverts ==
    \A buy \in BOOLEAN, b \in census :
        LET key == <<~buy, b>>
            ahead == {c \in census : IF buy THEN tick < c ELSE c <= tick}
            next == b \in ahead /\ \A c \in ahead : IF buy THEN b <= c ELSE c <= b
        IN  /\ next => concLiq + CrossDelta(levels, b, buy) >= 0
            /\ CrossFlag(levels, b, buy) =>
                 /\ PivotRangeOkay(key)
                 /\ RemoveBookFits(UnmarkPivot(levels, key),
                                   PivotLower(key, pivots[key].width),
                                   PivotUpper(key, pivots[key].width),
                                   pivots[key].lots)

\* Tranches of a pivot are knocked out in increasing order of time and a live
\* one is younger than all of them: the first guarantee confirmPivotDead
\* relies on, so the owner of a live order can neither recover nor claim it.
TrancheFresh ==
    \A key \in PivotKeys :
        /\ pivots[key].time <= now
        /\ pivots[key].time # 0 =>
              /\ merkles[key].time < pivots[key].time
              /\ \A link \in ToSet(merkles[key].root) : link.time < pivots[key].time

TrancheKeys(key, time) == {k \in KoKeys : PivotKey(k[2]) = key /\ k[3] = time}

\* The lots of a pivot are the sum of the positions in its tranche.
PivotBacked ==
    \A key \in PivotKeys :
        pivots[key].time # 0 =>
            pivots[key].lots =
                SumFunctionOnSet(LotsOf(koPos), TrancheKeys(key, pivots[key].time))

\* A knockout position whose tranche no longer rests can be recovered, and the
\* Merkle history still proves the mileage its tranche was committed with.
DeadTrancheRecoverable ==
    \A k \in KoKeys :
        (koPos[k].lots > 0 /\ pivots[PivotKey(k[2])].time # k[3]) =>
            /\ ConfirmPivotDead(merkles[PivotKey(k[2])], k[3])
            /\ \E link \in ProvableHistory(merkles[PivotKey(k[2])]) : link.time = k[3]

\* The price never leaves a resting bid behind: it is knocked out on the way.
BidsNeverPassed ==
    \A t \in Ticks : pivots[<<TRUE, t>>].time # 0 => t <= tick

(***************************************************************************)
(* Action properties.                                                      *)
(***************************************************************************)
CrossedTick == IF sweep = "buy" THEN tick' ELSE tick' + 1
IsCrossing == sweep # "idle" /\ sweep' = sweep

\* crossLevel leaves the odometer alone where it equals the global counter.
SkipsFlip ==
    /\ IsCrossing
    /\ levels[CrossedTick].odo = concGrowth'
    /\ concGrowth' # 0

GrowthInRange(lower, upper) ==
    IF InRange(lower, upper) THEN concGrowth' - concGrowth ELSE 0

RestsOn(lvls, lower, upper) == IsActive(lvls[lower]) /\ IsActive(lvls[upper])

ClockAdvance(lower, upper) ==
    ( ClockFeeOdometer(levels', tick', lower, upper, concGrowth')
    - ClockFeeOdometer(levels, tick, lower, upper, concGrowth) ) % FeeWord

\* What a skipped flip adds to the fees below a level: the level is read from
\* its other side, so that the whole counter turns up below it, or is gone.
SkippedBelow(t) ==
    IF SkipsFlip /\ t = CrossedTick
    THEN IF sweep = "buy" THEN concGrowth' ELSE -concGrowth'
    ELSE 0

\* While both boundaries hold lots, the clock of a range moves by the growth
\* booked in range, whatever is minted, burned, crossed or knocked out; a
\* skipped flip moves the clocks of the ranges that end at its level, by the
\* whole counter, and no other (crossLevel, clockFeeOdometer).
ClocksKeepTime ==
    \A lower, upper \in Ticks :
        (lower < upper /\ RestsOn(levels, lower, upper) /\ RestsOn(levels', lower, upper))
        => ClockAdvance(lower, upper)
             = ( GrowthInRange(lower, upper)
               + SkippedBelow(upper) - SkippedBelow(lower) ) % FeeWord

ClockTracksGrowth == [][ClocksKeepTime]_vars

HistoryStep ==
    \A key \in PivotKeys :
        /\ IsPrefix(merkles[key].root, merkles'[key].root)
        /\ merkles[key].time <= merkles'[key].time

\* The history of a pivot is append-only and its times never run backwards:
\* a proof of a past knockout that was good once is built from the same links
\* for ever (commitKnockout, rootLink).
HistoryGrows == [][HistoryStep]_vars

(***************************************************************************)
(* Liveness.                                                               *)
(***************************************************************************)
\* The loop of sweepSwapLiq ends: each crossing takes the price strictly past
\* the bump, so no level is crossed over and over.
SwapEnds == sweep # "idle" ~> sweep = "idle"

(***************************************************************************)
(* Refinement: seen through its positions, its price and its concentrated  *)
(* liquidity, the pool is the liquidity profile of LiquidityProfile.       *)
(***************************************************************************)
Profile == INSTANCE LiquidityProfile
    WITH profile <- [t \in Ticks |-> StakeOver(t)],
         price <- tick,
         active <- concLiq,
         Quantities <- {q \in LotWords : IsLotSize(q)}

\* Every operation of the pool supplies, withdraws, moves the price or knocks
\* out an order, or changes nothing of it.
ImplementsProfile == Profile!Promise
=============================================================================
