---------------------------- MODULE LiquidityMath ----------------------------
(***************************************************************************)
(* The integer helpers of libraries/LiquidityMath.sol.                     *)
(*                                                                         *)
(* Liquidity is counted in lots (units of 1024).  A level stores a "lots   *)
(* word": an even number of lots whose least significant bit is borrowed   *)
(* as the flag "a knockout pivot rests on this side of the level".         *)
(* Fee mileage is a 64-bit word; FeeWord stands for 2^64 and LotLimit for  *)
(* 2^96, the width of a lots word.                                         *)
(***************************************************************************)
EXTENDS Integers

CONSTANTS LotLimit, FeeWord

ASSUME LotLimitAssumption == LotLimit \in Nat /\ LotLimit % 2 = 0 /\ LotLimit > 2
ASSUME FeeWordAssumption == FeeWord \in Nat /\ FeeWord > 4

LotWords == 0 .. LotLimit - 1
FeeWords == 0 .. FeeWord - 1

\* The require of liquidityToLots: a quantity a mint or a burn may carry.
IsLotSize(lots) == lots % 2 = 0 /\ lots < LotLimit - 1

HasKnockoutLiq(word) == word % 2 = 1
LotsToLiquidity(word) == word - (word % 2)
NetLotsOnLiquidity(incrWord, decrWord) ==
    LotsToLiquidity(incrWord) - LotsToLiquidity(decrWord)

\* Mutant: the overflow check is off by one, and blind to the flag.
AddLotsOffByOne(word, lots) == LotsToLiquidity(word) + lots <= LotLimit

\* addLots reverts where the sum leaves the word, minusLots where it borrows.
AddLotsFits(word, lots) == word + lots < LotLimit
MinusLotsFits(word, lots) == word >= lots

CalcBlend(mileage, weight, total) == (mileage * weight) \div total

\* Mutant: lots that join a position take over its mileage.
BlendMileageUnweighted(mileageX, lotsX, mileageY, lotsY) ==
    IF lotsY = 0 THEN mileageX ELSE mileageY

(***************************************************************************)
(* The size-weighted mileage of two stakes, rounded up by two units so     *)
(* that a blended position never earns more than its two halves.           *)
(***************************************************************************)
BlendMileage(mileageX, lotsX, mileageY, lotsY) ==
    IF lotsY = 0 THEN mileageX
    ELSE IF lotsX = 0 \/ mileageX = mileageY THEN mileageY
    ELSE CalcBlend(mileageX, lotsX, lotsX + lotsY) + 1
         + CalcBlend(mileageY, lotsY, lotsX + lotsY) + 1

\* The rewards earned between two clocks, rounded down by REWARD_ROUND_DOWN.
DeltaRewardsRate(feeMileage, oldMileage) ==
    IF feeMileage > oldMileage + 2 THEN feeMileage - oldMileage - 2 ELSE 0

\* oldMileage + REWARD_ROUND_DOWN is a checked 64-bit addition.
DeltaRewardsFits(oldMileage) == oldMileage + 2 < FeeWord
=============================================================================
