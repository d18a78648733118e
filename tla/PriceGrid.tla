------------------------------ MODULE PriceGrid ------------------------------
(***************************************************************************)
(* When a range order fits the tick grid of its pool, and how much         *)
(* liquidity it must commit to be placed off the grid                      *)
(* (libraries/PriceGrid.sol).                                              *)
(*                                                                         *)
(* The prices of ticks (libraries/TickMath.sol) are a constant of the      *)
(* module: nothing here depends on how they are computed.                  *)
(***************************************************************************)
EXTENDS Integers, FiniteSets

CONSTANTS
    MIN_TICK, MAX_TICK,  \* the ticks that have a price
    RootPrice(_, _)      \* the root price at a tick, of base or of quote tokens

ASSUME RootPriceAssumption ==
    /\ MIN_TICK \in Int /\ MAX_TICK \in Int
    /\ \A inBase \in BOOLEAN : \A s, t \in MIN_TICK .. MAX_TICK :
          /\ RootPrice(inBase, s) \in Int
          /\ s # t => RootPrice(inBase, s) # RootPrice(inBase, t)

Abs(n) == IF n < 0 THEN -n ELSE n

\* The remainder by a grid of size zero is a panic: nothing fits it.
GridOkay(gridSize) == gridSize > 0

IsOnGrid(lowerTick, upperTick, gridSize) ==
    lowerTick % gridSize = 0 /\ upperTick % gridSize = 0

\* clipBelow and clipAbove call each other on the other side of zero.
ClipDown(tickSize, tick) == tick - (tick \div tickSize) * tickSize

ClipUp(tickSize, tick) ==
    IF tick = 0 THEN 0 ELSE ((tick - 1) \div tickSize + 1) * tickSize - tick

ClipBelow(tickSize, bidTick) ==
    IF bidTick < 0 THEN ClipDown(tickSize, -bidTick) ELSE ClipUp(tickSize, bidTick)

ClipAbove(tickSize, askTick) ==
    IF askTick < 0 THEN ClipUp(tickSize, -askTick) ELSE ClipDown(tickSize, askTick)

ClipNorm(tickSize, bidTick, askTick) ==
    IF \/ bidTick % tickSize = 0
       \/ askTick % tickSize = 0
       \/ bidTick \div tickSize # askTick \div tickSize
    THEN 0 ELSE askTick - bidTick

\* The ticks of an order that lies inside one cell of the grid.
ClipInside(tickSize, bidTick, askTick) ==
    IF bidTick < 0 /\ askTick < 0 THEN ClipNorm(tickSize, -askTick, -bidTick)
    ELSE IF bidTick < 0 THEN 0
    ELSE ClipNorm(tickSize, bidTick, askTick)

\* The liquidity whose collateral over `wingSize' ticks is `collateral'.
ConvertToLiq(collateral, tick, wingSize, inBase) ==
    collateral \div Abs(RootPrice(inBase, tick) - RootPrice(inBase, tick + wingSize))

LiqForWing(set, wingSize, refTick) ==
    IF wingSize = 0 THEN 0
    ELSE ConvertToLiq(set.unitCollateral, refTick, wingSize, set.inBase)

LiqForClip(set, wingSize, refTick) == 2 * LiqForWing(set, wingSize, refTick)

ImprovableThresh(set, tickSize, bidTick, askTick) ==
    LET unitClip == ClipInside(tickSize, bidTick, askTick)
    IN  IF unitClip > 0 THEN LiqForClip(set, unitClip, bidTick)
        ELSE LiqForWing(set, ClipBelow(tickSize, bidTick), bidTick)
             + LiqForWing(set, ClipAbove(tickSize, askTick), askTick)

\* The ticks whose prices the threshold looks up must have one: no order can
\* be improved whose upper wing would not fit below the last tick.
Priced(tickSize, bidTick, askTick) ==
    LET unitClip == ClipInside(tickSize, bidTick, askTick)
    IN  IF unitClip > 0 THEN {bidTick, bidTick + unitClip} \subseteq MIN_TICK .. MAX_TICK
        ELSE {bidTick, bidTick + ClipBelow(tickSize, bidTick),
              askTick, askTick + ClipAbove(tickSize, askTick)} \subseteq MIN_TICK .. MAX_TICK

CanImprove(set, priceTick, bidTick, askTick) ==
    /\ set.unitCollateral > 0
    /\ Abs(bidTick - priceTick) <= set.awayTicks
    /\ Abs(askTick - priceTick) <= set.awayTicks

\* The verifyFit of an order of a long command.  An order that may not be
\* improved is asked for more liquidity than there is.
FitsOffGrid(set, bidTick, askTick, liquidity, gridSize, priceTick) ==
    /\ CanImprove(set, priceTick, bidTick, askTick)
    /\ Priced(gridSize, bidTick, askTick)
    /\ liquidity >= ImprovableThresh(set, gridSize, bidTick, askTick)

-----------------------------------------------------------------------------
(***************************************************************************)
(* The same threshold without a case for the sign of a tick: the cell of   *)
(* the grid a tick lies in, the ticks of an order in a cell that the order *)
(* does not fill to its lower or to its upper end, and the collateral over *)
(* each of the two.                                                        *)
(***************************************************************************)
Cell(tickSize, t) == (t \div tickSize) * tickSize

LeftWing(tickSize, bidTick, askTick) ==
    {t \in bidTick .. askTick - 1 : Cell(tickSize, t) < bidTick}

RightWing(tickSize, bidTick, askTick) ==
    {t \in bidTick .. askTick - 1 : Cell(tickSize, t) + tickSize > askTick}

WingsThresh(set, tickSize, bidTick, askTick) ==
    LET left == LeftWing(tickSize, bidTick, askTick)
        right == RightWing(tickSize, bidTick, askTick)
    IN  IF left \cap right # {} THEN 2 * LiqForWing(set, Cardinality(left), bidTick)
        ELSE LiqForWing(set, Cardinality(left), bidTick)
             + LiqForWing(set, Cardinality(right), askTick)

\* The threshold of the code is that of the wings of the order.
ThreshIsWings(set, tickSize, bidTick, askTick) ==
    ImprovableThresh(set, tickSize, bidTick, askTick)
        = WingsThresh(set, tickSize, bidTick, askTick)
=============================================================================
