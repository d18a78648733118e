----------------------------- MODULE MCRegistry -----------------------------
(***************************************************************************)
(* One pair, an index without an oracle in its bits and one with, and      *)
(* orders below, at and over the tick zero.                                *)
(***************************************************************************)
EXTENDS PoolRegistry

CONSTANTS base, quote, small, large, oracle

MCTokens == {base, quote}
MCPairs == {<<base, quote>>}
MCIndexes == {small, large}
MCOracleAt == [idx \in MCIndexes |-> IF idx = large THEN oracle ELSE NoOracle]
MCSpecs == {SpecOf(2, 0), SpecOf(4, 255), SpecOf(0, 255)}
MCImprovements == {[unitCollateral |-> 12, awayTicks |-> 3]}
MCRanges == {<<-3, -1>>, <<-1, 2>>, <<0, 4>>}
MCPriceTicks == {0, 4}

MCMinTick == -8
MCMaxTick == 8

\* A price that is steeper above zero in base tokens, below it in quote.
MCRootPrice(inBase, tick) ==
    IF inBase THEN (IF tick < 0 THEN 2 * tick ELSE 3 * tick)
    ELSE (IF tick < 0 THEN -3 * tick ELSE -2 * tick)

-----------------------------------------------------------------------------
\* Every range order between two of the ticks, on grids of five sizes, with
\* collateral in either token: below, above and over the tick zero, inside
\* one cell and over several, on and off the grid.
MCGridSizes == {1, 2, 3, 4, 7}
MCSettings == [inBase : BOOLEAN, unitCollateral : {0, 12, 100}]

ASSUME ThreshAssumption ==
    \A bid, ask \in MCMinTick .. MCMaxTick, size \in MCGridSizes, set \in MCSettings :
        bid < ask => ThreshIsWings(set, size, bid, ask)
=============================================================================
