--------------------------- MODULE LiquidityProfile ---------------------------
(***************************************************************************)
(* What a pool promises its liquidity providers, in one page: liquidity is *)
(* supplied over ranges of ticks, the price moves, and the liquidity that  *)
(* is active is always the liquidity over the current price.  An order     *)
(* that is knocked out leaves on the side the price has left it on, so its *)
(* going never changes what is active.                                     *)
(***************************************************************************)
EXTENDS Integers

CONSTANTS
    MinTick, MaxTick,
    Quantities      \* the quantities that are supplied and withdrawn

Ticks == MinTick .. MaxTick

VARIABLES profile, price, active

profileVars == <<profile, price, active>>

Covers(lower, upper, t) == lower <= t /\ t < upper

Laid(lower, upper, lots) ==
    [t \in Ticks |-> IF Covers(lower, upper, t) THEN profile[t] + lots ELSE profile[t]]

Empty ==
    /\ profile = [t \in Ticks |-> 0]
    /\ price \in Ticks
    /\ active = 0

Supply(lower, upper, lots) ==
    /\ UNCHANGED price
    /\ profile' = Laid(lower, upper, lots)
    /\ active' = profile'[price]

\* Nothing is withdrawn that is not there.
Withdraw(lower, upper, lots) ==
    /\ UNCHANGED price
    /\ \A t \in Ticks : Covers(lower, upper, t) => lots <= profile[t]
    /\ profile' = Laid(lower, upper, -lots)
    /\ active' = profile'[price]

Move ==
    /\ price' \in Ticks
    /\ active' = profile[price']
    /\ UNCHANGED profile

\* The price leaves the order behind at one of its ends.
KnockOut(lower, upper, lots) ==
    /\ price' = lower - 1 \/ price' = upper
    /\ price' \in Ticks
    /\ \A t \in Ticks : Covers(lower, upper, t) => lots <= profile[t]
    /\ profile' = Laid(lower, upper, -lots)
    /\ active' = profile[price']

Step ==
    \/ Move
    \/ \E lower, upper \in Ticks :
           /\ lower < upper
           /\ \E lots \in Quantities :
                  \/ Supply(lower, upper, lots)
                  \/ Withdraw(lower, upper, lots)
                  \/ KnockOut(lower, upper, lots)

Promise == Empty /\ [][Step]_profileVars
=============================================================================
