------------------------------ MODULE AgentMask ------------------------------
(***************************************************************************)
(* The ways into the dex and whom a command runs for: mixins/AgentMask.sol *)
(* with the user commands of callpaths/ColdPath.sol.                       *)
(*                                                                         *)
(* A command runs for its sender, for the signer of a message that anybody *)
(* may relay, or for a client that has approved the sender as a router.    *)
(* It is one step: while it runs lockHolder_ refuses every other entry, so *)
(* a token or an account that is called back cannot come in between.       *)
(*                                                                         *)
(* A signature is membership in Messages, and the sender of a transaction  *)
(* is its origin.  Trades carry the flows the pools came up with, so they  *)
(* are any of Cmds.  RESET_NONCE is resetNonceCond too, whose oracle only  *)
(* decides whether it runs; checkGateOracle changes nothing.               *)
(***************************************************************************)
EXTENDS SettleLayer, Sequences

CONSTANTS
    Funds,         \* what owners have in their wallets at first
    Treasury,      \* the owner that protocol fees are paid to
    Cmds,          \* the commands that are sent
    Messages,      \* the messages that were signed
    Anyone,        \* the relayer of a message that names none
    NoTip,         \* the tip of a message that gives none
    AnySender,     \* the magic receiver of a tip: who sends the message
    Attached,      \* the amounts of ether sent along
    WordMax,       \* type(uint32).max
    MaxTime        \* bound: the block time

VARIABLES
    ledger,        \* userBals_ surplus, feesAccum_, and money elsewhere
    nonces,        \* userBals_ nonce_, by owner and salt
    agentCalls,    \* userBals_ agentCallsLeft_, by client, router and path
    now,           \* block.timestamp
    ran            \* auxiliary: the messages that ran, in that order

vars == <<ledger, nonces, agentCalls, now, ran>>

CallPaths == {"POOL", "LONG", "COLD"}
AgentKeys == Owners \X Owners \X CallPaths
Words == 0 .. WordMax
Times == 0 .. MaxTime

Pairs == [base : Assets, quote : Tokens]
PerSide(S) == [base : S, quote : S]
Channels == [token : Assets, limitQty : Int, dustThresh : Nat, useSurplus : BOOLEAN]
Hops == [front : Int, back : Int, frontFee : Nat, backFee : Nat]
Orders == [open : Channels, mid : Channels, close : Channels, first : Hops, second : Hops]

Codes == {"TRADE", "LONG", "INIT", "DEPOSIT", "DISBURSE", "TRANSFER", "SIDE_POCKET",
          "RESET_NONCE", "APPROVE"}
Commands ==
    [code : {"TRADE"}, pair : Pairs, flow : PerSide(Int), fee : PerSide(Nat),
     useSurplus : PerSide(BOOLEAN)]
        \cup [code : {"LONG"}, order : Orders]
        \cup [code : {"INIT"}, pair : Pairs, flow : PerSide(Nat)]
        \cup [code : {"DEPOSIT"}, recv : Accounts, asset : Assets, value : Nat]
        \cup [code : {"DISBURSE"}, recv : Owners, asset : Assets, size : Int]
        \cup [code : {"TRANSFER"}, to : Accounts, asset : Assets, size : Int]
        \cup [code : {"SIDE_POCKET"}, from : Pockets, to : Pockets, asset : Assets, size : Int]
        \cup [code : {"RESET_NONCE"}, salt : Pockets, nonce : Words]
        \cup [code : {"APPROVE"}, router : Owners, nCalls : Words, paths : SUBSET CallPaths]

Tips == [token : Assets, amount : Nat, all : BOOLEAN, recv : Accounts \cup {AnySender}]
SignedMessages ==
    [client : Owners, cmd : Commands, tip : Tips \cup {NoTip}, salt : Pockets,
     nonce : Words, alive : Nat, deadline : Nat, relayer : Owners \cup {Anyone}]

ASSUME AgentAssumption ==
    /\ Treasury \in Owners /\ Funds \in [Owners -> [Assets -> Nat]]
    /\ Cmds \subseteq Commands /\ Messages \subseteq SignedMessages
    /\ Anyone \notin Owners /\ AnySender \notin Accounts /\ NoTip \notin Tips
    /\ Attached \subseteq Nat /\ WordMax \in Nat /\ MaxTime \in Nat

\* Every variable has its type; no balance is ever negative.
TypeOK ==
    /\ ledger \in Ledgers
    /\ nonces \in [Accounts -> Words]
    /\ agentCalls \in [AgentKeys -> Words]
    /\ now \in Times
    /\ ran \in Seq(Messages)

Init ==
    LET none == [a \in Assets |-> 0] IN
    /\ ledger = [ok |-> TRUE, wallet |-> Funds, held |-> none, pools |-> none,
                 fees |-> none, stray |-> none, banked |-> none,
                 surplus |-> [acct \in Accounts |-> none]]
    /\ nonces = [acct \in Accounts |-> 0]
    /\ agentCalls = [key \in AgentKeys |-> 0]
    /\ now = 0
    /\ ran = <<>>

-----------------------------------------------------------------------------
\* Commands

PathOf(cmd) == CASE cmd.code = "TRADE" -> "POOL"
                 [] cmd.code = "LONG" -> "LONG"
                 [] OTHER -> "COLD"

BookHop(L, front, back, hop) ==
    Book(Book(L, front, hop.front, hop.frontFee), back, hop.back, hop.backFee)

\* What cmd does for u, who paid in the ether of the message.
Execute(L, u, cmd, paid) ==
    CASE cmd.code = "TRADE" ->
            LET M == SettleFlat(L, u, cmd.pair, cmd.flow, cmd.useSurplus, paid)
            IN  Book(Book(M, cmd.pair.base, cmd.flow.base, cmd.fee.base),
                     cmd.pair.quote, cmd.flow.quote, cmd.fee.quote)
      [] cmd.code = "LONG" ->
            LET o == cmd.order
                M == BookHop(L, o.open.token, o.mid.token, o.first)
            IN  SettleLong(BookHop(M, o.mid.token, o.close.token, o.second), u, o, paid)
      [] cmd.code = "INIT" ->
            LET M == SettleInitFlow(L, u, cmd.pair, cmd.flow, paid)
            IN  Book(Book(M, cmd.pair.base, cmd.flow.base, 0),
                     cmd.pair.quote, cmd.flow.quote, 0)
      [] cmd.code = "DEPOSIT" ->
            DepositSurplus(L, u, cmd.recv, cmd.asset, cmd.value, paid)
      [] cmd.code = "DISBURSE" ->
            DisburseSurplus(Lose(L, Ether, paid), u, cmd.recv, cmd.asset, cmd.size)
      [] cmd.code = "TRANSFER" ->
            MoveSurplus(Lose(L, Ether, paid), Primary(u), cmd.to, cmd.asset, cmd.size)
      [] cmd.code = "SIDE_POCKET" ->
            MoveSurplus(Lose(L, Ether, paid), <<u, cmd.from>>, <<u, cmd.to>>,
                        cmd.asset, cmd.size)
      [] cmd.code \in {"RESET_NONCE", "APPROVE"} -> Lose(L, Ether, paid)

\* Mutant: a nonce may be set back.
ResetOkayBack(u, cmd, before) == TRUE
ResetOkay(u, cmd, before) ==
    cmd.code = "RESET_NONCE" => cmd.nonce >= before[<<u, cmd.salt>>]
NoncesAfter(u, cmd, before) ==
    IF cmd.code = "RESET_NONCE" THEN [before EXCEPT ![<<u, cmd.salt>>] = cmd.nonce]
    ELSE before

\* Mutant: a router may be approved for every path.
ApproveOkayAny(cmd) == TRUE
ApproveOkay(cmd) == cmd.code = "APPROVE" => "COLD" \notin cmd.paths
CallsAfter(u, cmd, before) ==
    IF cmd.code = "APPROVE"
    THEN [key \in AgentKeys |->
            IF key \in {<<u, cmd.router, path>> : path \in cmd.paths}
            THEN cmd.nCalls ELSE before[key]]
    ELSE before

\* Mutant: the tip is taken from who sends the message.
GiveTipFromSender(L, u, tip, s) ==
    IF tip = NoTip THEN L
    ELSE TipRelayer(L, s, tip, IF tip.recv = AnySender THEN Primary(s) ELSE tip.recv)
GiveTip(L, u, tip, s) ==
    IF tip = NoTip THEN L
    ELSE TipRelayer(L, u, tip, IF tip.recv = AnySender THEN Primary(s) ELSE tip.recv)

\* A message is payable: its ether is there before anything runs.
Attach(L, s, paid) == Collect(L, s, Ether, paid)

\* s sends paid with a command that runs for u.
Serve(s, u, cmd, paid, tip) ==
    LET before == Attach(ledger, s, paid)
        after == GiveTip(Execute(before, u, cmd, paid), u, tip, s)
    IN  before.ok /\ after.ok /\ ledger' = after

-----------------------------------------------------------------------------
\* The ways in

Direct(s, cmd, paid) ==
    /\ ResetOkay(s, cmd, nonces) /\ ApproveOkay(cmd)
    /\ nonces' = NoncesAfter(s, cmd, nonces)
    /\ agentCalls' = CallsAfter(s, cmd, agentCalls)
    /\ UNCHANGED <<now, ran>>
    /\ Serve(s, s, cmd, paid, NoTip)

RelayConditions(s, m) ==
    /\ m.alive <= now /\ now <= m.deadline
    /\ m.relayer \in {Anyone, s}

NonceMatches(m) == m.nonce = nonces[<<m.client, m.salt>>]
StepNonce(m) == [nonces EXCEPT ![<<m.client, m.salt>>] = @ + 1]

Relayed(s, m, paid) ==
    /\ RelayConditions(s, m)
    /\ NonceMatches(m) /\ nonces[<<m.client, m.salt>>] < WordMax
    /\ ResetOkay(m.client, m.cmd, StepNonce(m)) /\ ApproveOkay(m.cmd)
    /\ nonces' = NoncesAfter(m.client, m.cmd, StepNonce(m))
    /\ agentCalls' = CallsAfter(m.client, m.cmd, agentCalls)
    /\ ran' = Append(ran, m)
    /\ UNCHANGED now
    /\ Serve(s, m.client, m.cmd, paid, m.tip)

\* The largest number of calls stands for any number of them.
StepAgent(client, router, path) ==
    LET left == agentCalls[<<client, router, path>>]
    IN  IF left < WordMax
        THEN [agentCalls EXCEPT ![<<client, router, path>>] = left - 1]
        ELSE agentCalls

Routed(s, client, cmd, paid) ==
    /\ agentCalls[<<client, s, PathOf(cmd)>>] > 0
    /\ ResetOkay(client, cmd, nonces) /\ ApproveOkay(cmd)
    /\ nonces' = NoncesAfter(client, cmd, nonces)
    /\ agentCalls' = CallsAfter(client, cmd, StepAgent(client, s, PathOf(cmd)))
    /\ UNCHANGED <<now, ran>>
    /\ Serve(s, client, cmd, paid, NoTip)

\* The protocol command that pays out fees.
CollectFees(a) ==
    /\ ledger.fees[a] > 0
    /\ ledger' = CollectProtocol(ledger, Treasury, a)
    /\ UNCHANGED <<nonces, agentCalls, now, ran>>

PassTime ==
    /\ now < MaxTime
    /\ now' = now + 1
    /\ UNCHANGED <<ledger, nonces, agentCalls, ran>>

Next ==
    \/ \E s \in Owners, cmd \in Cmds, paid \in Attached :
        Direct(s, cmd, paid) \/ \E client \in Owners : Routed(s, client, cmd, paid)
    \/ \E s \in Owners, m \in Messages, paid \in Attached : Relayed(s, m, paid)
    \/ \E a \in Assets : CollectFees(a)
    \/ PassTime

Spec == Init /\ [][Next]_vars

-----------------------------------------------------------------------------
\* Properties

\* What the dex holds of a conforming asset is what it owes of it, whatever
\* commands of whomever came before, and whatever other tokens did (TokenModel.md,
\* "Contract Wide Safety").
Balanced == \A a \in SafeAssets : ledger.held[a] = Owed(ledger, a)

\* What is owed to accounts is the sum of what each of them may take out: no
\* deposit, transfer, settlement or tip makes or destroys collateral, also
\* where payer and receiver are one account (moveSurplus, tipRelayer).
BankedInAccounts == \A a \in Assets : ledger.banked[a] = Total(ledger, a)

\* A step that runs one of some commands for u.
RunsFor(u, codes) ==
    \/ \E cmd \in {c \in Cmds : c.code \in codes}, paid \in Attached :
        Direct(u, cmd, paid) \/ \E s \in Owners : Routed(s, u, cmd, paid)
    \/ \E m \in {n \in Messages : n.client = u /\ n.cmd.code \in codes},
          paid \in Attached, s \in Owners : Relayed(s, m, paid)
\* A step whose transaction u sends.
Sends(u) ==
    \E paid \in Attached :
        \/ \E cmd \in Cmds, client \in Owners : Routed(u, client, cmd, paid)
        \/ \E m \in Messages : Relayed(u, m, paid)

\* Nobody is charged for another's command: an account falls only in a command
\* for its owner, a side pocket only in SIDE_POCKET, and a wallet only in a
\* command for its owner or by ether its owner sends (lockHolder_, debitor).
OnlyOwnerPays ==
    [][/\ \A acct \in Accounts, a \in Assets :
            ledger'.surplus[acct][a] < ledger.surplus[acct][a] =>
                RunsFor(acct[1], IF acct[2] = 0 THEN Codes ELSE {"SIDE_POCKET"})
       /\ \A u \in Owners, a \in Assets :
            ledger'.wallet[u][a] < ledger.wallet[u][a] =>
                RunsFor(u, Codes) \/ (a = Ether /\ Sends(u))]_vars

\* The messages of one track run in the order of their nonces, none twice,
\* whoever relays them and whatever nonces are set in between (stepNonce,
\* resetNonce).
StreamsInOrder ==
    \A i, j \in DOMAIN ran :
        (i < j /\ ran[i].client = ran[j].client /\ ran[i].salt = ran[j].salt)
            => ran[i].nonce < ran[j].nonce

\* A router can trade for its client and no more: nobody else gains or loses in
\* the dex, and no nonce, side pocket or approval for the cold path is touched,
\* by which it could pay itself or prolong its powers (approveRouter).
RouterConfined ==
    [][\A s, client \in Owners :
        (s # client /\ \E cmd \in Cmds, paid \in Attached : Routed(s, client, cmd, paid)) =>
            /\ \A acct \in Accounts \ {Primary(client)} :
                ledger'.surplus[acct] = ledger.surplus[acct]
            /\ \A u \in Owners \ {client} : \A a \in Assets :
                ledger'.wallet[u][a] <= ledger.wallet[u][a]
            /\ nonces' = nonces
            /\ \A key \in AgentKeys : agentCalls'[key] <= agentCalls[key]]_vars
=============================================================================
