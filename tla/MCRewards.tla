------------------------------- MODULE MCRewards -------------------------------
(***************************************************************************)
(* The ledger over one range order and one knockout bid that share a       *)
(* boundary, with enough fee growth to be paid through the rounding.       *)
(***************************************************************************)
EXTENDS RewardLedger

MCRangeLocs == {[lower |-> 1, upper |-> 3]}
MCKnockoutLocs == {[isBid |-> TRUE, lower |-> 1, upper |-> 2]}
\* Nothing is claimed of a ledger once a flip was skipped.
LedgerOpen == ~skewed

MCKnockoutBits == {[width |-> 1, inside |-> TRUE, onGrid |-> FALSE]}
=============================================================================
