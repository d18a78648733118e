----------------------------- MODULE KnockoutLiq -----------------------------
(***************************************************************************)
(* Knockout liquidity (libraries/KnockoutLiq.sol and the record keeping of *)
(* mixins/KnockoutCounter.sol) as operators on records.                    *)
(*                                                                         *)
(* A location is [isBid, lower, upper]; its pivot lives at the lower tick  *)
(* of a bid and at the upper tick of an ask.  A pivot holds the lots of    *)
(* the tranche now resting there.  The Merkle slot of a pivot holds the    *)
(* tranche last knocked out in the clear, and all earlier ones behind a    *)
(* hash chain: here `root' is the sequence of links the chain was built    *)
(* from, which a hash without collisions determines.                       *)
(***************************************************************************)
EXTENDS LevelBook, Sequences, SequencesExt

NoPivot == [lots |-> 0, time |-> 0, width |-> 0]
NoMerkle == [root |-> <<>>, time |-> 0, mileage |-> 0]
NoKnockoutPos == [lots |-> 0, mileage |-> 0, stamp |-> 0]

KnockoutTick(loc) == IF loc.isBid THEN loc.lower ELSE loc.upper
PivotKey(loc) == <<loc.isBid, KnockoutTick(loc)>>
TickRange(loc) == loc.upper - loc.lower

\* The range order a pivot stands for.
PivotLower(key, width) == IF key[1] THEN key[2] ELSE key[2] - width
PivotUpper(key, width) == IF key[1] THEN key[2] + width ELSE key[2]

SpreadOkay(loc, priceTick, inside) ==
    IF loc.isBid THEN (IF inside THEN loc.lower ELSE loc.upper) < priceTick
                 ELSE (IF inside THEN loc.upper ELSE loc.lower) >= priceTick

\* bits is the pool's [width, inside, onGrid], or no bits at all when the
\* pool has knockout liquidity disabled.
GridOkay(loc, bits) ==
    TickRange(loc) = bits.width /\ (bits.onGrid => loc.upper % bits.width = 0)

AssertValidPos(loc, priceTick, bits) ==
    GridOkay(loc, bits) /\ SpreadOkay(loc, priceTick, bits.inside)

-----------------------------------------------------------------------------
MarkPivot(lvls, key) ==
    IF key[1]
    THEN [lvls EXCEPT ![key[2]].bid = LotsToLiquidity(@) + 1]
    ELSE [lvls EXCEPT ![key[2]].ask = LotsToLiquidity(@) + 1]

UnmarkPivot(lvls, key) ==
    IF key[1]
    THEN [lvls EXCEPT ![key[2]].bid = LotsToLiquidity(@)]
    ELSE [lvls EXCEPT ![key[2]].ask = LotsToLiquidity(@)]

\* freshenMerkle: no second tranche in the block of the last knockout.
FreshenMerkle(merkle, time) == merkle.time # time

\* Mutant: freshenMerkle is not called.
InjectFitsStale(pivot, merkle, loc, priceTick, bits, time) ==
    IF pivot.lots = 0
    THEN AssertValidPos(loc, priceTick, bits)
    ELSE pivot.width = TickRange(loc)

\* A pivot without lots opens a tranche stamped with the block time, unless
\* the tranche last knocked out carries that very time.
InjectFits(pivot, merkle, loc, priceTick, bits, time) ==
    IF pivot.lots = 0
    THEN FreshenMerkle(merkle, time) /\ AssertValidPos(loc, priceTick, bits)
    ELSE pivot.width = TickRange(loc)

\* Mutant: every mint stamps the tranche afresh.
InjectPivotRestamps(pivot, loc, lots, time) ==
    [lots |-> pivot.lots + lots, time |-> time, width |-> TickRange(loc)]

InjectPivot(pivot, loc, lots, time) ==
    IF pivot.lots = 0
    THEN [lots |-> lots, time |-> time, width |-> TickRange(loc)]
    ELSE [pivot EXCEPT !.lots = @ + lots]

\* Mutant: the last burn leaves an empty pivot behind.
RecallPivotKeepsTime(pivot, lots) == [pivot EXCEPT !.lots = @ - lots]

RecallPivot(pivot, lots) ==
    IF lots = pivot.lots THEN NoPivot ELSE [pivot EXCEPT !.lots = @ - lots]

InsertPosition(pos, lots, feeRange, time) ==
    [lots |-> pos.lots + lots,
     mileage |-> BlendMileage(feeRange, lots, pos.mileage, pos.lots),
     stamp |-> time]

RemovePosition(pos, lots) ==
    IF lots = pos.lots THEN NoKnockoutPos ELSE [pos EXCEPT !.lots = @ - lots]

-----------------------------------------------------------------------------
\* Mutant: the chain is started afresh by every knockout.
CommitKnockoutUnchained(merkle, pivot, feeRange) ==
    [root |-> <<[time |-> merkle.time, mileage |-> merkle.mileage]>>,
     time |-> pivot.time,
     mileage |-> feeRange]

CommitKnockout(merkle, pivot, feeRange) ==
    [root |-> Append(merkle.root, [time |-> merkle.time, mileage |-> merkle.mileage]),
     time |-> pivot.time,
     mileage |-> feeRange]

\* What a caller can prove: the tranche in the clear (an empty proof), or
\* any link of the chain (a proof that starts at that link).
ProvableHistory(merkle) ==
    {[time |-> merkle.time, mileage |-> merkle.mileage]} \cup ToSet(merkle.root)

\* confirmPivotDead compares times only.
ConfirmPivotDead(merkle, pivotTime) == merkle.time >= pivotTime

\* The rewards of a proven claim are a checked subtraction, skipped at zero.
ClaimFits(pos, feeSnap) == feeSnap > 0 => feeSnap >= pos.mileage
=============================================================================
