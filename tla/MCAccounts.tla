------------------------------ MODULE MCAccounts ------------------------------
(***************************************************************************)
(* Alice trades, keeps collateral and signs messages; Bob relays them and  *)
(* is a router.  One token conforms to its standard and one falls short.   *)
(***************************************************************************)
EXTENDS AgentMask

CONSTANTS alice, bob, safe, taxed

MCFunds == [u \in Owners |->
    [a \in Assets |-> IF u = alice \/ a = Ether THEN 1 ELSE 0]]

MCPair(base, quote) == [base |-> base, quote |-> quote]
MCBoth(b, q) == [base |-> b, quote |-> q]
MCTrade(pair, flow, fee, flags) ==
    [code |-> "TRADE", pair |-> pair, flow |-> flow, fee |-> fee, useSurplus |-> flags]
MCChan(token, dust, useSurplus) ==
    [token |-> token, limitQty |-> 1, dustThresh |-> dust, useSurplus |-> useSurplus]
MCHop(front, back, frontFee) ==
    [front |-> front, back |-> back, frontFee |-> frontFee, backFee |-> 0]

MCTrades ==
    {MCTrade(MCPair(Ether, safe), MCBoth(1, -1), MCBoth(1, 0), MCBoth(use, use)) :
            use \in BOOLEAN}
        \cup {MCTrade(MCPair(Ether, safe), MCBoth(-1, 1), MCBoth(0, 0), MCBoth(FALSE, TRUE)),
              MCTrade(MCPair(safe, taxed), MCBoth(-1, 1), MCBoth(0, 0), MCBoth(FALSE, FALSE))}
\* Ether into the token and back again, and ether into so little of the token
\* that it is dust.
MCLongs ==
    {[code |-> "LONG",
      order |-> [open |-> MCChan(Ether, 0, FALSE), mid |-> MCChan(safe, dust, FALSE),
                 close |-> MCChan(Ether, 0, dust = 1),
                 first |-> MCHop(1, -1, 1 - dust), second |-> MCHop(1 - dust, dust - 1, 0)]] :
        dust \in {0, 1}}
MCColds ==
    {[code |-> "INIT", pair |-> MCPair(Ether, t), flow |-> MCBoth(1, 1)] : t \in Tokens}
        \cup {[code |-> "DEPOSIT", recv |-> <<alice, 0>>, asset |-> a, value |-> 1] : a \in Assets}
        \cup {[code |-> "DISBURSE", recv |-> bob, asset |-> Ether, size |-> -1],
              [code |-> "DISBURSE", recv |-> alice, asset |-> safe, size |-> 0],
              [code |-> "TRANSFER", to |-> <<bob, 0>>, asset |-> Ether, size |-> 1],
              [code |-> "SIDE_POCKET", from |-> 0, to |-> 1, asset |-> Ether, size |-> 1],
              [code |-> "SIDE_POCKET", from |-> 1, to |-> 0, asset |-> Ether, size |-> 0],
              [code |-> "RESET_NONCE", salt |-> 0, nonce |-> 1],
              [code |-> "APPROVE", router |-> bob, nCalls |-> 1, paths |-> {"POOL", "COLD"}],
              [code |-> "APPROVE", router |-> bob, nCalls |-> 2, paths |-> {"POOL", "LONG"}]}
MCCmds == MCTrades \cup MCLongs \cup MCColds

MCMessage(cmd, tip, nonce, alive, relayer) ==
    [client |-> alice, cmd |-> cmd, tip |-> tip, salt |-> 0, nonce |-> nonce,
     alive |-> alive, deadline |-> 1, relayer |-> relayer]
MCTip(token, all) ==
    [token |-> token, amount |-> 1, all |-> all, recv |-> AnySender]
MCMessages ==
    {MCMessage([code |-> "SIDE_POCKET", from |-> 1, to |-> 0, asset |-> Ether, size |-> 0],
               MCTip(Ether, TRUE), 0, 0, Anyone),
     MCMessage([code |-> "RESET_NONCE", salt |-> 1, nonce |-> 1], MCTip(safe, FALSE), 1, 0, bob),
     MCMessage([code |-> "DISBURSE", recv |-> alice, asset |-> Ether, size |-> 0],
               NoTip, 1, 1, Anyone)}
=============================================================================
