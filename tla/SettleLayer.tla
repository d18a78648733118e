----------------------------- MODULE SettleLayer -----------------------------
(***************************************************************************)
(* Where money is and how commands move it: mixins/SettleLayer.sol and     *)
(* DepositDesk.sol, and the fees of ProtocolAccount.sol.                   *)
(*                                                                         *)
(* The operators map a ledger L to the ledger they leave.  A require, a    *)
(* checked subtraction or a transfer that fails clears L.ok, and a command *)
(* runs only if it leaves ok set: otherwise its transaction reverts.       *)
(*                                                                         *)
(* Owners are addresses, and an account is an owner's surplus collateral   *)
(* or one of its side pockets, the pocket with salt 0 being the former.    *)
(* pools, stray and banked are no storage of the dex: pools is what        *)
(* liquidity positions are worth, stray is what was paid in for nothing,   *)
(* and banked is the total of all accounts.                                *)
(***************************************************************************)
EXTENDS Integers, FiniteSets, Functions

CONSTANTS
    Owners,        \* the addresses that own something
    Pockets,       \* the salts of accounts and of nonces
    Ether,         \* the native asset, address 0
    Tokens,        \* the ERC20 tokens
    SafeTokens,    \* the tokens that transfer what they are told to
    TokenFee,      \* what a transfer of another token falls short by
    TipUnit,       \* the denominator of the take rate of tips, 256
    TakeOfTips     \* relayerTakeRate_

\* Addresses and salts are words, of which there are finitely many.
ASSUME SettleAssumption ==
    /\ IsFiniteSet(Owners) /\ IsFiniteSet(Pockets)
    /\ 0 \in Pockets
    /\ Ether \notin Tokens /\ SafeTokens \subseteq Tokens
    /\ TokenFee \in Nat
    /\ TipUnit \in Nat \ {0} /\ TakeOfTips \in 0 .. TipUnit

Assets == Tokens \cup {Ether}
SafeAssets == SafeTokens \cup {Ether}
Accounts == Owners \X Pockets
Primary(u) == <<u, 0>>

Ledgers ==
    [ok : BOOLEAN, wallet : [Owners -> [Assets -> Nat]],
     held : [Assets -> Nat], pools : [Assets -> Nat], fees : [Assets -> Nat],
     stray : [Assets -> Nat], banked : [Assets -> Int],
     surplus : [Accounts -> [Assets -> Nat]]]

Lesser(a, b) == IF a < b THEN a ELSE b

-----------------------------------------------------------------------------
\* Transfers

\* transferFrom and transfer of the tokens, and ether sent with a call.
Arrives(a, value) ==
    IF a \in SafeAssets \/ value < TokenFee THEN value ELSE value - TokenFee

Collect(L, u, a, value) ==
    [L EXCEPT !.ok = @ /\ L.wallet[u][a] >= value,
              !.wallet[u][a] = @ - value, !.held[a] = @ + Arrives(a, value)]

Pay(L, u, a, value) ==
    [L EXCEPT !.ok = @ /\ L.held[a] >= value,
              !.wallet[u][a] = @ + value, !.held[a] = @ - value]

\* Mutant: the balance is set, not raised.
CreditOverwrites(L, acct, a, value) ==
    [L EXCEPT !.surplus[acct][a] = value, !.banked[a] = @ + value]
Credit(L, acct, a, value) ==
    [L EXCEPT !.surplus[acct][a] = @ + value, !.banked[a] = @ + value]

\* Mutant: the subtraction is not checked.
DebitUnchecked(L, acct, a, value) ==
    [L EXCEPT !.surplus[acct][a] = @ - value, !.banked[a] = @ - value]
Debit(L, acct, a, value) ==
    [L EXCEPT !.ok = @ /\ L.surplus[acct][a] >= value,
              !.surplus[acct][a] = @ - value, !.banked[a] = @ - value]

Lose(L, a, value) == [L EXCEPT !.stray[a] = @ + value]

Require(L, cond) == [L EXCEPT !.ok = @ /\ cond]

-----------------------------------------------------------------------------
\* Settlement of the flow of a command: positive is owed by the user.  paid is
\* the ether of the message, and zero when a token is settled.

DebitUser(L, u, a, value, paid, useSurplus) ==
    LET covered == IF useSurplus THEN Lesser(L.surplus[Primary(u)][a], value) ELSE 0
        rest == value - covered
        M == Debit(L, Primary(u), a, covered)
    IN  IF a = Ether THEN Pay(Require(M, paid >= rest), u, a, paid - rest)
        ELSE Collect(M, u, a, rest)

CreditUser(L, u, a, value, paid, useSurplus) ==
    IF useSurplus THEN Pay(Credit(L, Primary(u), a, value), u, a, paid)
    ELSE Pay(L, u, a, value + paid)

TransactFlow(L, u, a, flow, paid, useSurplus) ==
    IF flow > 0 THEN DebitUser(L, u, a, flow, paid, useSurplus)
    ELSE CreditUser(L, u, a, -flow, paid, useSurplus)

\* One pair.  Ether can only be the base; if it is not, what was attached stays.
SettleFlat(L, u, pair, flow, useSurplus, paid) ==
    LET M == IF pair.base = Ether
             THEN TransactFlow(L, u, Ether, flow.base, paid, useSurplus.base)
             ELSE TransactFlow(Lose(L, Ether, paid), u, pair.base, flow.base, 0,
                               useSurplus.base)
    IN  TransactFlow(M, u, pair.quote, flow.quote, 0, useSurplus.quote)

\* A new pool is paid for with surplus first, and what the dex holds of each
\* token must then have grown by the whole flow.
CloseMatches(L, M, a, flow) ==
    a = Ether \/ (M.held[a] >= L.held[a] /\ flow >= 0 /\ M.held[a] - L.held[a] >= flow)
SettleInitFlow(L, u, pair, flow, paid) ==
    LET M == SettleFlat(L, u, pair, flow, [base |-> TRUE, quote |-> TRUE], paid)
    IN  Require(M, /\ CloseMatches(L, M, pair.base, flow.base)
                   /\ CloseMatches(L, M, pair.quote, flow.quote))

\* A leg of a long order.  Ether is left for the end of the order.
MoreThanDust(flow, chan) == flow > 0 \/ -flow > chan.dustThresh
EtherOf(flow, chan) ==
    IF chan.token = Ether /\ MoreThanDust(flow, chan) THEN flow ELSE 0
SettleLeg(L, u, flow, chan) ==
    LET M == Require(L, flow <= chan.limitQty)
    IN  IF ~ MoreThanDust(flow, chan) THEN Lose(M, chan.token, -flow)
        ELSE IF chan.token = Ether THEN M
        ELSE TransactFlow(M, u, chan.token, flow, 0, chan.useSurplus)

\* An order of two hops, the second without flow if there is only one.  The
\* flow that leaves a hop enters the next, and only the difference is settled.
LegFlows(order) ==
    [open |-> order.first.front, mid |-> order.first.back + order.second.front,
     close |-> order.second.back]
\* Mutant: only the ether of the last leg is settled.
EtherFlowLast(order) == EtherOf(LegFlows(order).close, order.close)
EtherFlow(order) ==
    EtherOf(LegFlows(order).open, order.open) + EtherOf(LegFlows(order).mid, order.mid)
        + EtherOf(LegFlows(order).close, order.close)
SettleLong(L, u, order, paid) ==
    LET flow == LegFlows(order)
        M == SettleLeg(SettleLeg(SettleLeg(L, u, flow.open, order.open),
                                 u, flow.mid, order.mid), u, flow.close, order.close)
    IN  TransactFlow(M, u, Ether, EtherFlow(order), paid, order.close.useSurplus)

-----------------------------------------------------------------------------
\* The other side of a command: the pool owes less or more, and fees are taken.
Book(L, a, flow, fee) ==
    [L EXCEPT !.ok = @ /\ L.pools[a] + flow - fee >= 0,
              !.pools[a] = @ + flow - fee, !.fees[a] = @ + fee]

CollectProtocol(L, treasury, a) ==
    Credit([L EXCEPT !.fees[a] = 0], Primary(treasury), a, L.fees[a])

-----------------------------------------------------------------------------
\* The deposit desk

DepositSurplus(L, u, recv, a, value, paid) ==
    LET M == IF a = Ether THEN Pay(Require(L, paid >= value), u, a, paid - value)
             ELSE Collect(Lose(L, Ether, paid), u, a, value)
    IN  Credit(M, recv, a, value)

\* Positive sizes are taken as they are, zero is everything, and a negative
\* size is everything but that.
TransactVal(size, balance) ==
    IF size < 0 THEN balance + size ELSE IF size = 0 THEN balance ELSE size

DisburseSurplus(L, u, recv, a, size) ==
    LET value == TransactVal(size, L.surplus[Primary(u)][a])
    IN  Pay(Debit(Require(L, value >= 0), Primary(u), a, value), recv, a, value)

MoveSurplus(L, from, to, a, size) ==
    LET value == TransactVal(size, L.surplus[from][a])
    IN  Credit(Debit(Require(L, value >= 0), from, a, value), to, a, value)

TipRelayer(L, u, tip, recv) ==
    LET whole == IF tip.all THEN L.surplus[Primary(u)][tip.token] ELSE tip.amount
        protoFee == (whole * TakeOfTips) \div TipUnit
        M == Credit(Debit(L, Primary(u), tip.token, whole), recv, tip.token,
                    whole - protoFee)
    IN  [M EXCEPT !.fees[tip.token] = @ + protoFee]

-----------------------------------------------------------------------------
\* What the dex owes of an asset, to everybody.
Owed(L, a) == L.pools[a] + L.fees[a] + L.stray[a] + L.banked[a]
Total(L, a) == SumFunctionOnSet([acct \in Accounts |-> L.surplus[acct][a]], Accounts)
=============================================================================
