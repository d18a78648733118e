------------------------------ MODULE MCKnockout ------------------------------
(***************************************************************************)
(* The pool with a range order and with knockout orders on both sides of   *)
(* the price, against the abstract liquidity profile.  The bid and the ask *)
(* share the middle level, so one level carries both flags; the range      *)
(* order lies over the ticks of the bid.                                   *)
(***************************************************************************)
EXTENDS TradeMatcher

MCRangeLocs == {[lower |-> 1, upper |-> 2]}
MCKnockoutLocs == {[isBid |-> TRUE, lower |-> 1, upper |-> 2],
                   [isBid |-> FALSE, lower |-> 0, upper |-> 1]}
MCKnockoutBits == {[width |-> 1, inside |-> TRUE, onGrid |-> FALSE]}
=============================================================================
