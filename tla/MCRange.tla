------------------------------- MODULE MCRange -------------------------------
(***************************************************************************)
(* The pool with range orders: four price ticks and orders that touch,     *)
(* nest and overlap.                                                       *)
(***************************************************************************)
EXTENDS TradeMatcher

MCRangeLocs == {[lower |-> 1, upper |-> 2], [lower |-> 1, upper |-> 3],
                [lower |-> 2, upper |-> 3]}
MCOffGrid == {[lower |-> 1, upper |-> 3]}
MCKnockoutLocs == {}
MCKnockoutBits == {}
=============================================================================
