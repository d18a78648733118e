------------------------------ MODULE MCTranches ------------------------------
(***************************************************************************)
(* Two owners of bids of two widths that hang on one pivot, over several   *)
(* block times: tranche after tranche is opened, shared, knocked out,      *)
(* claimed and recovered.                                                  *)
(***************************************************************************)
EXTENDS TradeMatcher

MCRangeLocs == {}
MCKnockoutLocs == {[isBid |-> TRUE, lower |-> 1, upper |-> 2],
                   [isBid |-> TRUE, lower |-> 1, upper |-> 3]}
MCKnockoutBits == {[width |-> 1, inside |-> TRUE, onGrid |-> FALSE],
                   [width |-> 2, inside |-> TRUE, onGrid |-> FALSE]}

\* Owners are interchangeable: no definition tells one from another.
MCOwnerSymmetry == Permutations(Owners)
=============================================================================
