-------------------------- MODULE PositionRegistrar --------------------------
(***************************************************************************)
(* Range positions (mixins/PositionRegistrar.sol) as operators on one      *)
(* position record: its lots, the fee mileage its rewards are counted      *)
(* from, the block time of its last mint, and whether it is atomic (placed *)
(* off the grid, so never to be burned in part).                           *)
(***************************************************************************)
EXTENDS LiquidityMath

NoPosition == [lots |-> 0, mileage |-> 0, stamp |-> 0, atomic |-> FALSE]

\* The mileage of a position that holds nothing is not blended in.
MintMileage(pos, lots, feeMileage) ==
    BlendMileage(feeMileage, lots, IF pos.lots > 0 THEN pos.mileage ELSE 0, pos.lots)

\* Mutant: the second mint replaces the first.
IncrementPosLiqOverwrites(pos, lots, feeMileage, time) ==
    [pos EXCEPT !.lots = lots,
                !.mileage = MintMileage(pos, lots, feeMileage),
                !.stamp = time]

IncrementPosLiq(pos, lots, feeMileage, time) ==
    [pos EXCEPT !.lots = @ + lots,
                !.mileage = MintMileage(pos, lots, feeMileage),
                !.stamp = time]

\* Mutant: an order off the grid may later be burned in part.
MarkPosAtomicNot(pos) == pos

MarkPosAtomic(pos) == [pos EXCEPT !.atomic = TRUE]

\* minusDelta, the addition of deltaRewardsRate, and the atomic flag.
DecrementFits(pos, lots) ==
    /\ pos.lots >= lots
    /\ DeltaRewardsFits(pos.mileage)
    /\ pos.lots > lots => ~pos.atomic

\* Mutant: a partial burn closes the position.
DecrementLiqCloses(pos, lots) == NoPosition

\* A partial burn leaves the mileage: rewards are per unit of liquidity.
DecrementLiq(pos, lots) ==
    IF pos.lots > lots THEN [pos EXCEPT !.lots = @ - lots] ELSE NoPosition

HarvestFits(pos, feeMileage) ==
    feeMileage > pos.mileage => DeltaRewardsFits(pos.mileage)

HarvestPosLiq(pos, feeMileage) ==
    IF feeMileage > pos.mileage THEN [pos EXCEPT !.mileage = feeMileage] ELSE pos
=============================================================================
