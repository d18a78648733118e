------------------------------ MODULE LevelBook ------------------------------
(***************************************************************************)
(* The per-tick levels of one pool (mixins/LevelBook.sol), as operators on *)
(* the function `lvls' from ticks to levels.  A level holds the liquidity  *)
(* bumps of the range orders that start (bid) and end (ask) at the tick,   *)
(* and the fee odometer checkpointed whenever the price crosses it.  The   *)
(* census is the set of ticks bookmarked in the bitmaps of TickCensus.     *)
(***************************************************************************)
EXTENDS LiquidityMath

CONSTANTS MinTick, MaxTick

ASSUME TickAssumption == MinTick \in Int /\ MaxTick \in Int /\ MinTick < MaxTick

Ticks == MinTick .. MaxTick

Levels == [bid : LotWords, ask : LotWords, odo : FeeWords]
NoLevel == [bid |-> 0, ask |-> 0, odo |-> 0]
IsActive(lvl) == lvl.bid # 0 \/ lvl.ask # 0

\* The change of liquidity of a buy that enters tick t from below.
NetBump(lvls, t) == NetLotsOnLiquidity(lvls[t].bid, lvls[t].ask)

-----------------------------------------------------------------------------
(***************************************************************************)
(* The fee clock.  All subtractions below a price are checked words; only  *)
(* the difference of the two boundaries wraps.                             *)
(***************************************************************************)
PivotFeeBelow(lvls, lvlTick, curTick, feeGlobal) ==
    IF lvlTick <= curTick THEN lvls[lvlTick].odo
                          ELSE feeGlobal - lvls[lvlTick].odo

ClockFeeOdometer(lvls, curTick, lower, upper, feeGlobal) ==
    ( PivotFeeBelow(lvls, upper, curTick, feeGlobal)
    - PivotFeeBelow(lvls, lower, curTick, feeGlobal) ) % FeeWord

-----------------------------------------------------------------------------
\* A level that holds no lots is set up afresh when liquidity arrives.
InitLevel(lvls, midTick, t, feeGlobal) ==
    [lvls EXCEPT ![t].odo =
        IF ~IsActive(lvls[t]) /\ t >= midTick THEN feeGlobal ELSE @]

AddBookFits(lvls, bidTick, askTick, lots) ==
    /\ AddLotsFits(lvls[bidTick].bid, lots)
    /\ AddLotsFits(lvls[askTick].ask, lots)

AddBookLiq(lvls, midTick, bidTick, askTick, lots, feeGlobal) ==
    LET opened == InitLevel(InitLevel(lvls, midTick, bidTick, feeGlobal),
                            midTick, askTick, feeGlobal)
    IN  [opened EXCEPT ![bidTick].bid = @ + lots, ![askTick].ask = @ + lots]

\* Mutant: only addBid bookmarks its tick.
BookmarkTicksBidOnly(census, lvls, bidTick, askTick) ==
    census \cup {t \in {bidTick} : ~IsActive(lvls[t])}

BookmarkTicks(census, lvls, bidTick, askTick) ==
    census \cup {t \in {bidTick, askTick} : ~IsActive(lvls[t])}

RemoveBookFits(lvls, bidTick, askTick, lots) ==
    /\ MinusLotsFits(lvls[bidTick].bid, lots)
    /\ MinusLotsFits(lvls[askTick].ask, lots)

CutBookLiq(lvls, bidTick, askTick, lots) ==
    [lvls EXCEPT ![bidTick].bid = @ - lots, ![askTick].ask = @ - lots]

\* Mutant: a level is dropped once its bids are gone, asks or not.
EmptiedTicksBidOnly(lvls, bidTick, askTick, lots) ==
    {t \in {bidTick, askTick} : CutBookLiq(lvls, bidTick, askTick, lots)[t].bid = 0}

\* The levels that hold nothing on either side once the lots are gone.
EmptiedTicks(lvls, bidTick, askTick, lots) ==
    {t \in {bidTick, askTick} :
        ~IsActive(CutBookLiq(lvls, bidTick, askTick, lots)[t])}

RemoveBookLiq(lvls, bidTick, askTick, lots) ==
    [t \in Ticks |->
        IF t \in EmptiedTicks(lvls, bidTick, askTick, lots)
        THEN NoLevel
        ELSE CutBookLiq(lvls, bidTick, askTick, lots)[t]]

-----------------------------------------------------------------------------
\* Mutant: the odometer is set to the counter instead of being flipped.
CrossLevelCheckpoint(lvls, t, feeGlobal) == [lvls EXCEPT ![t].odo = feeGlobal]

\* Mutant: the flip adds.
CrossLevelAdds(lvls, t, feeGlobal) == [lvls EXCEPT ![t].odo = feeGlobal + @]

\* The price moves through the tick: flip the odometer, unless the global
\* counter equals the stored one.
CrossLevel(lvls, t, feeGlobal) ==
    [lvls EXCEPT ![t].odo = IF feeGlobal # @ THEN feeGlobal - @ ELSE @]

\* Mutant: a sell is not the reverse of a buy.
CrossDeltaOneWay(lvls, t, isBuy) == NetBump(lvls, t)

CrossDelta(lvls, t, isBuy) ==
    IF isBuy THEN NetBump(lvls, t) ELSE - NetBump(lvls, t)

CrossFlag(lvls, t, isBuy) ==
    HasKnockoutLiq(IF isBuy THEN lvls[t].ask ELSE lvls[t].bid)
=============================================================================
