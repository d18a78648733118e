----------------------------- MODULE RewardLedger -----------------------------
(***************************************************************************)
(* The pool with a ledger beside it.  For every position the ledger keeps  *)
(* what the fee growth has earned it while it was live and in range, less  *)
(* what it has been paid.  The contracts keep no such ledger: they pay by  *)
(* the difference of two clock readings, and the ledger is what those      *)
(* readings are meant to stand for.                                        *)
(*                                                                         *)
(* The mileage rate is per lot; rates are integers, so what is owed is too.*)
(***************************************************************************)
EXTENDS TradeMatcher

VARIABLES
    owed,      \* by position, range or knockout: earned and not yet paid
    skewed     \* a crossing has skipped the flip of an odometer

ledgerVars == <<owed, skewed>>

LedgerInit ==
    /\ Init
    /\ owed = [k \in RangeKeys \cup KoKeys |-> 0]
    /\ skewed = FALSE

\* The lots that earn: those of a position still on the book.
EarningLots(k) ==
    IF k \in RangeKeys THEN positions[k].lots
    ELSE IF pivots[PivotKey(k[2])].time = k[3] THEN koPos[k].lots ELSE 0

LotsAfter(k) == IF k \in RangeKeys THEN positions'[k].lots ELSE koPos'[k].lots

Earned(k) == EarningLots(k) * GrowthInRange(k[2].lower, k[2].upper)

Owe(key, due) ==
    /\ owed' = [owed EXCEPT ![key] = due]
    /\ UNCHANGED skewed

\* Nothing is owed to a position that is gone: the rounding is the pool's.
Pay(key, paid) == Owe(key, IF LotsAfter(key) = 0 THEN 0 ELSE owed[key] - paid)

Accrue ==
    /\ owed' = [k \in DOMAIN owed |-> owed[k] + Earned(k)]
    /\ skewed' = (skewed \/ SkipsFlip)

-----------------------------------------------------------------------------
(***************************************************************************)
(* What each operation pays for a lot, as decrementLiq, removePosition and *)
(* claimPosition compute it.  A harvest pays all that is owed but for the  *)
(* rounding, and starts the mileage afresh.                                *)
(***************************************************************************)
RangeRate(key) ==
    DeltaRewardsRate(Clock(key[2].lower, key[2].upper), positions[key].mileage)

KnockoutRate(key) ==
    DeltaRewardsRate(Clock(key[2].lower, key[2].upper), koPos[key].mileage)

ClaimRate(key, feeSnap) == IF feeSnap > 0 THEN feeSnap - koPos[key].mileage ELSE 0

LedgerRange(o, r) ==
    \/ \E lots \in LotSizes, offGrid \in BOOLEAN :
           MintRange(o, r, lots, offGrid) /\ UNCHANGED ledgerVars
    \/ MarkRange(o, r) /\ UNCHANGED ledgerVars
    \/ \E lots \in LotSizes :
           BurnRange(o, r, lots) /\ Pay(<<o, r>>, lots * RangeRate(<<o, r>>))
    \/ /\ HarvestRange(o, r)
       /\ IF Clock(r.lower, r.upper) > positions[<<o, r>>].mileage
          THEN Owe(<<o, r>>, 0) ELSE UNCHANGED ledgerVars

LedgerKnockout(o, k) ==
    \/ \E lots \in LotSizes, bits \in KoBits :
           MintKnockout(o, k, lots, bits) /\ UNCHANGED ledgerVars
    \/ \E lots \in LotSizes :
           LET key == <<o, k, pivots[PivotKey(k)].time>>
           IN  BurnKnockout(o, k, lots) /\ Pay(key, lots * KnockoutRate(key))
    \/ \E proven \in ProvableHistory(merkles[PivotKey(k)]) :
           ClaimKnockout(o, k, proven) /\ Owe(<<o, k, proven.time>>, 0)
    \/ \E pivotTime \in Times :
           RecoverKnockout(o, k, pivotTime) /\ Owe(<<o, k, pivotTime>>, 0)

LedgerNext ==
    \/ \E o \in Owners, r \in RangeLocs : LedgerRange(o, r)
    \/ \E o \in Owners, k \in KoLocs : LedgerKnockout(o, k)
    \/ PassTime /\ UNCHANGED ledgerVars
    \/ (\E dir \in {"buy", "sell"} : SweepBegin(dir)) /\ UNCHANGED ledgerVars
    \/ SweepNext /\ Accrue

LedgerSpec == LedgerInit /\ [][LedgerNext]_<<vars, ledgerVars>>
LedgerFair == LedgerSpec /\ WF_<<vars, ledgerVars>>(SweepNext /\ Accrue)

-----------------------------------------------------------------------------
(***************************************************************************)
(* Properties.                                                             *)
(***************************************************************************)
\* A live position is never promised more than its lots have earned in range:
\* minting into it (blendMileage), partial burns, harvests, crossings and the
\* opening and closing of the levels under it do not inflate its claim, as
\* long as no crossing has skipped a flip.
RewardsNeverOverpaid ==
    ~skewed =>
        /\ \A k \in RangeKeys : positions[k].lots * RangeRate(k) <= owed[k]
        /\ \A k \in KoKeys :
               pivots[PivotKey(k[2])].time = k[3] => koPos[k].lots * KnockoutRate(k) <= owed[k]

\* A tranche that was knocked out claims what its range earned until then and
\* nothing of what the price does afterwards.
ClaimsNeverOverpaid ==
    ~skewed =>
        \A k \in KoKeys : \A proven \in ProvableHistory(merkles[PivotKey(k[2])]) :
            (koPos[k].lots > 0 /\ proven.time = k[3] /\ ClaimFits(koPos[k], proven.mileage))
            => koPos[k].lots * ClaimRate(k, proven.mileage) <= owed[k]
=============================================================================
