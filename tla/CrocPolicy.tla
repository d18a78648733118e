------------------------------ MODULE CrocPolicy ------------------------------
(***************************************************************************)
(* governance/CrocPolicy.sol in charge of a dex: the operations, treasury  *)
(* and emergency roles, the rules that let conduits send some protocol     *)
(* commands, and how a mandate protects a rule.                            *)
(*                                                                         *)
(* A conduit's rule is kept per conduit and call path.  cmdFlags_ is the   *)
(* set of its codes.  Block times and the sums with them are uint32 words, *)
(* whose addition is checked.  The successor of this policy as the         *)
(* authority of the dex is not modelled: the dex is then left to users.    *)
(***************************************************************************)
EXTENDS DexControl

CONSTANTS
    Policy,       \* this contract, one of the Masters
    Deployer,     \* who deployed it and holds every role at first
    Cabinets,     \* the assignments of roles that may be transferred to
    Conduits,     \* the oracles that rules are made for
    RulePaths,    \* the call paths rules are made for
    Drafts,       \* the rules governance may write
    TimeWord      \* the modulus of a uint32

Roles == {"ops", "treasury", "emergency"}
Rules == [cmdFlags : SUBSET Codes,
          mandateTime : 0 .. TimeWord - 1, expiryOffset : 0 .. TimeWord - 1]

ASSUME PolicyAssumption ==
    /\ Policy \in Masters
    /\ RulePaths \subseteq Paths
    /\ Drafts \subseteq Rules
    /\ \A cab \in Cabinets : cab = [r \in Roles |-> cab[r]]
    /\ TimeWord \in Nat \ {0} /\ MaxTime < TimeWord

VARIABLES
    roles,    \* opsAuthority_, treasuryAuthority_ and emergencyAuthority_
    rules,    \* rules_, by <<conduit, path>>
    pledged,  \* auxiliary: until when a code was mandated, since the treasury
              \* or the emergency role last wrote the rule
    halted,   \* auxiliary: no treasury resolution since an emergency halt
    namedAt   \* auxiliary: when the treasury was last named

vars == <<dex, holdings, now, roles, rules, pledged, halted, namedAt>>

RuleKeys == Conduits \X RulePaths
Senders == {Deployer} \cup UNION {{cab[r] : r \in Roles} : cab \in Cabinets}
EmptyRule == [cmdFlags |-> {}, mandateTime |-> 0, expiryOffset |-> 0]
NoPledge == [code \in Codes |-> 0]

\* Every variable has its type.
TypeOK ==
    /\ dex \in DexStates
    /\ holdings \in Holdings
    /\ now \in Times
    /\ roles \in [Roles -> Senders]
    /\ rules \in [RuleKeys -> Rules]
    /\ pledged \in [RuleKeys -> [Codes -> 0 .. TimeWord - 1]]
    /\ halted \in BOOLEAN
    /\ namedAt \in Times

\* CrocSwapDex is deployed with its sidecars, and its authority given to the
\* policy, whose roles are still the deployer's.
Init ==
    /\ \E rate \in TakeRates :
        dex = [authority |-> Policy, hotPathOpen |-> TRUE,
               inSafeMode |-> FALSE, proxyPaths |-> Paths, takeRate |-> rate,
               treasury |-> NoTreasury, treasuryStart |-> 0,
               feesAccum |-> 0, surplus |-> [p \in Payees |-> 0]]
    /\ holdings \in Holdings
    /\ now = 0
    /\ roles = [r \in Roles |-> Deployer]
    /\ rules = [k \in RuleKeys |-> EmptyRule]
    /\ pledged = [k \in RuleKeys |-> NoPledge]
    /\ halted = FALSE
    /\ namedAt = 0

-----------------------------------------------------------------------------
\* Rules

\* expireTime reverts when the sum does not fit, and so does who asks for it.
ExpireTime(rule) == rule.mandateTime + rule.expiryOffset
ExpireFits(rule) == ExpireTime(rule) < TimeWord
PassesPolicy(rule, code) ==
    /\ ExpireFits(rule)
    /\ now < ExpireTime(rule)
    /\ code \in rule.cmdFlags

\* Mutant: a shorter mandate does not count as weaker.
WeakensFlagsOnly(prev, next) == ~ prev.cmdFlags \subseteq next.cmdFlags
WeakensPolicy(prev, next) ==
    \/ ~ prev.cmdFlags \subseteq next.cmdFlags
    \/ next.mandateTime < prev.mandateTime

IsPostMandate(prev) == now > prev.mandateTime
IsLegal(prev, next) == WeakensPolicy(prev, next) => IsPostMandate(prev)

Latest(a, b) == IF a > b THEN a ELSE b
Pledges(before, rule) ==
    [code \in Codes |-> IF code \in rule.cmdFlags /\ ExpireFits(rule)
                        THEN Latest(before[code], rule.mandateTime)
                        ELSE before[code]]

-----------------------------------------------------------------------------
\* Who may do what

OpsAuth(s) == s \in {roles["ops"], roles["treasury"], roles["emergency"]}
TreasuryAuth(s) == s = roles["treasury"]
EmergencyAuth(s) == s = roles["emergency"]

Forward(path, cmd, sudo) ==
    /\ ProtocolOkay(dex, Policy, path, cmd, sudo, now)
    /\ dex' = ProtocolCmd(dex, path, cmd, now)
    /\ namedAt' = IF cmd.code = "SET_TREASURY" THEN now ELSE namedAt

OpsResolution(s, path, cmd) ==
    /\ OpsAuth(s)
    /\ Forward(path, cmd, FALSE)
    /\ UNCHANGED <<holdings, now, roles, rules, pledged, halted>>

TreasuryResolution(s, path, cmd, sudo) ==
    /\ TreasuryAuth(s)
    /\ Forward(path, cmd, sudo)
    /\ halted' = FALSE
    /\ UNCHANGED <<holdings, now, roles, rules, pledged>>

\* Two commands on the cold path, both or neither.
HotPathCmd == [code |-> "HOT_OPEN", open |-> FALSE]
SafeModeCmd == [code |-> "SAFE_MODE", inSafeMode |-> TRUE]
\* Mutant: the hot path is left open.
HaltCmdHot(d) == ProtocolCmd(d, "COLD", SafeModeCmd, now)
HaltCmd(d) ==
    ProtocolCmd(ProtocolCmd(d, "COLD", HotPathCmd, now), "COLD", SafeModeCmd, now)

EmergencyHalt(s) ==
    /\ EmergencyAuth(s)
    /\ ProtocolOkay(dex, Policy, "COLD", HotPathCmd, TRUE, now)
    /\ ProtocolOkay(ProtocolCmd(dex, "COLD", HotPathCmd, now),
                    Policy, "COLD", SafeModeCmd, TRUE, now)
    /\ dex' = HaltCmd(dex)
    /\ halted' = TRUE
    /\ UNCHANGED <<holdings, now, roles, rules, pledged, namedAt>>

InvokePolicy(conduit, path, cmd) ==
    /\ PassesPolicy(rules[<<conduit, path>>], cmd.code)
    /\ Forward(path, cmd, FALSE)
    /\ UNCHANGED <<holdings, now, roles, rules, pledged, halted>>

SetPolicy(s, key, rule) ==
    /\ OpsAuth(s)
    /\ IsLegal(rules[key], rule)
    /\ rules' = [rules EXCEPT ![key] = rule]
    /\ pledged' = [pledged EXCEPT ![key] = Pledges(@, rule)]
    /\ UNCHANGED <<dex, holdings, now, roles, halted, namedAt>>

ForcePolicy(s, key, rule) ==
    /\ TreasuryAuth(s)
    /\ rules' = [rules EXCEPT ![key] = rule]
    /\ pledged' = [pledged EXCEPT ![key] = Pledges(NoPledge, rule)]
    /\ UNCHANGED <<dex, holdings, now, roles, halted, namedAt>>

EmergencyReset(s, key) ==
    /\ EmergencyAuth(s)
    /\ rules' = [rules EXCEPT ![key] = EmptyRule]
    /\ pledged' = [pledged EXCEPT ![key] = NoPledge]
    /\ UNCHANGED <<dex, holdings, now, roles, halted, namedAt>>

\* The new holders are timelocks that accept this contract as their admin.
TransferGovernance(s, cabinet) ==
    /\ TreasuryAuth(s)
    /\ roles' = cabinet
    /\ UNCHANGED <<dex, holdings, now, rules, pledged, halted, namedAt>>

-----------------------------------------------------------------------------
\* Steps taken by a holder of a role, by a conduit, and by users.
Governs(s) ==
    \/ \E path \in Paths, cmd \in Cmds : OpsResolution(s, path, cmd)
    \/ \E path \in Paths, cmd \in Cmds, sudo \in BOOLEAN :
        TreasuryResolution(s, path, cmd, sudo)
    \/ EmergencyHalt(s)
    \/ \E key \in RuleKeys, rule \in Drafts :
        SetPolicy(s, key, rule) \/ ForcePolicy(s, key, rule)
    \/ \E key \in RuleKeys : EmergencyReset(s, key)
    \/ \E cabinet \in Cabinets : TransferGovernance(s, cabinet)

ConduitActs ==
    \E key \in RuleKeys, cmd \in Cmds : InvokePolicy(key[1], key[2], cmd)

UserActs ==
    /\ Swap \/ \E path \in Paths : UserCmd(path)
    /\ UNCHANGED <<now, roles, rules, pledged, halted, namedAt>>

PassTime ==
    /\ now < MaxTime
    /\ now' = now + 1
    /\ UNCHANGED <<dex, holdings, roles, rules, pledged, halted, namedAt>>

Next ==
    \/ \E s \in Senders : Governs(s)
    \/ ConduitActs
    \/ UserActs
    \/ PassTime

Spec == Init /\ [][Next]_vars

-----------------------------------------------------------------------------
\* Properties

\* A code that operations granted to a conduit under a mandate stays with it
\* until the mandate ends, whatever rules operations write later, unless the
\* treasury or the emergency role steps in (setPolicy, isLegal), or a later
\* rule has an expiry that does not fit a word, which expireTime cannot add.
MandateKept ==
    \A key \in RuleKeys, code \in Codes :
        now < pledged[key][code] => \/ PassesPolicy(rules[key], code)
                                    \/ ~ ExpireFits(rules[key])

\* The claim of setPolicy's comment, "authority to set a protocol command type
\* cannot be revoked before the mandate time", without that exception.
MandateCannotBeRevoked ==
    \A key \in RuleKeys, code \in Codes :
        now < pledged[key][code] => PassesPolicy(rules[key], code)

\* From an emergency halt to the next treasury resolution nothing happens in
\* the dex: no user trades, withdraws or pays fees, no operator, conduit or
\* emergency command changes a setting or lifts the halt.
HaltFreezes == [][halted /\ halted' => UNCHANGED <<dex, holdings>>]_vars

\* The treasury can always leave safe mode by itself, if need be by putting
\* back the sidecar of that path through the boot path, which therefore must
\* survive every upgrade and work in safe mode.
SafeModeEscapable ==
    LET install == [code |-> "UPGRADE", proxyIdx |-> "SAFE_MODE", installs |-> TRUE]
        leave == [code |-> "SAFE_MODE", inSafeMode |-> FALSE]
    IN  dex.authority = Policy /\ dex.inSafeMode =>
            /\ ProtocolOkay(dex, Policy, "BOOT", install, TRUE, now)
            /\ ProtocolOkay(ProtocolCmd(dex, "BOOT", install, now),
                            Policy, "SAFE_MODE", leave, TRUE, now)

\* What only sudo commands may change.
Privileged(d) == [d EXCEPT !.takeRate = 0, !.feesAccum = 0]
HaltForm(d) == [d EXCEPT !.hotPathOpen = FALSE, !.inSafeMode = TRUE]
\* A step that changes privileged state, other than by halting the dex, is one
\* that only the treasury can take: no other role, and no conduit whatever its
\* rules (sudo in opsResolution, invokePolicy and treasuryResolution).
PowersSeparated ==
    [][Privileged(dex') \notin {Privileged(dex), Privileged(HaltForm(dex))} =>
        /\ ~ ConduitActs
        /\ \A s \in Senders \ {roles["treasury"]} : ~ Governs(s)]_vars

\* Fees are only paid to a treasury that has been the named one for the whole
\* of the delay (setTreasury, collectProtocol).
TreasuryWaits ==
    [][\A p \in Treasuries : dex'.surplus[p] > dex.surplus[p] =>
        p = dex.treasury /\ now >= namedAt + TreasuryDelay]_vars
=============================================================================
