----------------------------- MODULE PolicyProofs -----------------------------
(***************************************************************************)
(* Mandates, safe mode, the emergency halt, the separation of the powers   *)
(* and the wait of a treasury, for every number of roles, conduits, rules  *)
(* and commands.                                                           *)
(***************************************************************************)
EXTENDS CrocPolicy, TLAPS

\* A pledge that still runs is backed by the rule in force: the code is set and
\* the mandate is no shorter.
PledgesBacked ==
    \A key \in RuleKeys, code \in Codes :
        now < pledged[key][code] =>
            /\ code \in rules[key].cmdFlags
            /\ pledged[key][code] <= rules[key].mandateTime

RulesTyped ==
    /\ now \in Times
    /\ rules \in [RuleKeys -> Rules]
    /\ pledged \in [RuleKeys -> [Codes -> 0 .. TimeWord - 1]]

MandateInv == RulesTyped /\ PledgesBacked

-----------------------------------------------------------------------------
(* What one write to the rule of a key does to the invariant.              *)

LEMMA PledgesTyped ==
    ASSUME NEW before \in [Codes -> 0 .. TimeWord - 1], NEW rule \in Rules
    PROVE  Pledges(before, rule) \in [Codes -> 0 .. TimeWord - 1]
BY PolicyAssumption DEF Pledges, Latest, Rules

LEMMA NoPledgeTyped == NoPledge \in [Codes -> 0 .. TimeWord - 1] /\ EmptyRule \in Rules
BY PolicyAssumption DEF NoPledge, EmptyRule, Rules

\* A rule may be replaced if its pledges that still run are kept by the new one.
LEMMA WriteKeepsPledges ==
    ASSUME MandateInv, NEW key \in RuleKeys, NEW rule \in Rules,
           NEW pledge \in [Codes -> 0 .. TimeWord - 1],
           rules' = [rules EXCEPT ![key] = rule],
           pledged' = [pledged EXCEPT ![key] = pledge], now' = now,
           \A code \in Codes : now < pledge[code] =>
               code \in rule.cmdFlags /\ pledge[code] <= rule.mandateTime
    PROVE  MandateInv'
<1>1. RulesTyped'
  BY DEF MandateInv, RulesTyped
<1>2. ASSUME NEW k \in RuleKeys, NEW code \in Codes, now' < pledged'[k][code]
      PROVE  code \in rules'[k].cmdFlags /\ pledged'[k][code] <= rules'[k].mandateTime
  <2>1. CASE k = key
    BY <1>2, <2>1 DEF MandateInv, RulesTyped
  <2>2. CASE k # key
    <3>1. rules'[k] = rules[k] /\ pledged'[k] = pledged[k]
      BY <2>2 DEF MandateInv, RulesTyped
    <3> QED BY <1>2, <3>1 DEF MandateInv, PledgesBacked
  <2> QED BY <2>1, <2>2
<1> QED BY <1>1, <1>2 DEF MandateInv, PledgesBacked

\* Inside the mandate, operations can only write a rule that is no weaker.
LEMMA LegalKeepsPledges ==
    ASSUME MandateInv, NEW key \in RuleKeys, NEW rule \in Rules,
           IsLegal(rules[key], rule), NEW code \in Codes,
           now < Pledges(pledged[key], rule)[code]
    PROVE  /\ code \in rule.cmdFlags
           /\ Pledges(pledged[key], rule)[code] <= rule.mandateTime
<1> DEFINE old == pledged[key][code]
           prev == rules[key]
<1>0. /\ old \in Nat /\ now \in Nat
      /\ rule.mandateTime \in Nat /\ prev.mandateTime \in Nat
  BY PolicyAssumption, DexBoundsAssumption DEF MandateInv, RulesTyped, Rules, Times
<1>1. now < old => code \in prev.cmdFlags /\ old <= prev.mandateTime
  BY DEF MandateInv, PledgesBacked
<1>2. now < old => code \in rule.cmdFlags /\ old <= rule.mandateTime
  <2>1. SUFFICES ASSUME now < old
                 PROVE  code \in rule.cmdFlags /\ old <= rule.mandateTime
    OBVIOUS
  <2>2. ~ IsPostMandate(prev)
    BY <1>0, <1>1, <2>1 DEF IsPostMandate
  <2>3. ~ WeakensPolicy(prev, rule)
    BY <2>2 DEF IsLegal
  <2> QED BY <1>0, <1>1, <2>1, <2>3 DEF WeakensPolicy
<1>3. Pledges(pledged[key], rule)[code] =
          IF code \in rule.cmdFlags /\ ExpireFits(rule)
          THEN Latest(old, rule.mandateTime) ELSE old
  BY DEF Pledges
<1> QED BY <1>0, <1>2, <1>3 DEF Latest

\* A rule backs the pledges it makes itself.
LEMMA OwnPledges ==
    ASSUME NEW rule \in Rules, NEW code \in Codes, now \in Nat,
           now < Pledges(NoPledge, rule)[code]
    PROVE  /\ code \in rule.cmdFlags
           /\ Pledges(NoPledge, rule)[code] <= rule.mandateTime
<1>1. rule.mandateTime \in Nat
  BY PolicyAssumption DEF Rules
<1> QED BY <1>1 DEF Pledges, NoPledge, Latest

-----------------------------------------------------------------------------

LEMMA MandateInit == Init => MandateInv
<1> SUFFICES ASSUME Init PROVE MandateInv
  OBVIOUS
<1>1. RulesTyped
  BY NoPledgeTyped, DexBoundsAssumption DEF Init, RulesTyped, Times
<1>2. PledgesBacked
  BY DEF Init, PledgesBacked, NoPledge
<1> QED BY <1>1, <1>2 DEF MandateInv

LEMMA MandateStep == MandateInv /\ [Next]_vars => MandateInv'
<1> SUFFICES ASSUME MandateInv, [Next]_vars PROVE MandateInv'
  OBVIOUS
<1> USE DEF MandateInv
<1>1. CASE now' = now /\ rules' = rules /\ pledged' = pledged
  BY <1>1 DEF RulesTyped, PledgesBacked
<1>2. ASSUME NEW s \in Senders, Governs(s) PROVE MandateInv'
  <2>1. ASSUME NEW path \in Paths, NEW cmd \in Cmds, OpsResolution(s, path, cmd)
        PROVE  MandateInv'
    BY <1>1, <2>1 DEF OpsResolution
  <2>2. ASSUME NEW path \in Paths, NEW cmd \in Cmds, NEW sudo \in BOOLEAN,
               TreasuryResolution(s, path, cmd, sudo)
        PROVE  MandateInv'
    BY <1>1, <2>2 DEF TreasuryResolution
  <2>3. CASE EmergencyHalt(s)
    BY <1>1, <2>3 DEF EmergencyHalt
  <2>4. ASSUME NEW key \in RuleKeys, NEW rule \in Drafts, SetPolicy(s, key, rule)
        PROVE  MandateInv'
    <3>1. rule \in Rules /\ pledged[key] \in [Codes -> 0 .. TimeWord - 1]
      BY PolicyAssumption DEF RulesTyped
    <3>2. Pledges(pledged[key], rule) \in [Codes -> 0 .. TimeWord - 1]
      BY <3>1, PledgesTyped
    <3>3. /\ rules' = [rules EXCEPT ![key] = rule]
          /\ pledged' = [pledged EXCEPT ![key] = Pledges(pledged[key], rule)]
          /\ now' = now /\ IsLegal(rules[key], rule)
      BY <2>4 DEF SetPolicy
    <3>4. \A code \in Codes : now < Pledges(pledged[key], rule)[code] =>
              /\ code \in rule.cmdFlags
              /\ Pledges(pledged[key], rule)[code] <= rule.mandateTime
      BY <3>1, <3>3, LegalKeepsPledges
    <3> QED BY <3>1, <3>2, <3>3, <3>4, WriteKeepsPledges
  <2>5. ASSUME NEW key \in RuleKeys, NEW rule \in Drafts, ForcePolicy(s, key, rule)
        PROVE  MandateInv'
    <3>1. rule \in Rules /\ now \in Nat
      BY PolicyAssumption, DexBoundsAssumption DEF RulesTyped, Times
    <3>2. Pledges(NoPledge, rule) \in [Codes -> 0 .. TimeWord - 1]
      BY <3>1, PledgesTyped, NoPledgeTyped
    <3>3. /\ rules' = [rules EXCEPT ![key] = rule]
          /\ pledged' = [pledged EXCEPT ![key] = Pledges(NoPledge, rule)]
          /\ now' = now
      BY <2>5 DEF ForcePolicy
    <3>4. \A code \in Codes : now < Pledges(NoPledge, rule)[code] =>
              /\ code \in rule.cmdFlags
              /\ Pledges(NoPledge, rule)[code] <= rule.mandateTime
      BY <3>1, OwnPledges
    <3> QED BY <3>1, <3>2, <3>3, <3>4, WriteKeepsPledges
  <2>6. ASSUME NEW key \in RuleKeys, EmergencyReset(s, key) PROVE MandateInv'
    <3>1. /\ rules' = [rules EXCEPT ![key] = EmptyRule]
          /\ pledged' = [pledged EXCEPT ![key] = NoPledge]
          /\ now' = now
      BY <2>6 DEF EmergencyReset
    <3>2. \A code \in Codes : ~ (now < NoPledge[code])
      BY DexBoundsAssumption DEF NoPledge, RulesTyped, Times
    <3> QED BY <3>1, <3>2, NoPledgeTyped, WriteKeepsPledges
  <2>7. ASSUME NEW cabinet \in Cabinets, TransferGovernance(s, cabinet)
        PROVE  MandateInv'
    BY <1>1, <2>7 DEF TransferGovernance
  <2> QED BY <1>2, <2>1, <2>2, <2>3, <2>4, <2>5, <2>6, <2>7 DEF Governs
<1>3. CASE ConduitActs
  BY <1>1, <1>3 DEF ConduitActs, InvokePolicy
<1>4. CASE UserActs
  BY <1>1, <1>4 DEF UserActs
<1>5. CASE PassTime
  BY <1>5, DexBoundsAssumption, PolicyAssumption DEF PassTime, RulesTyped, PledgesBacked, Times
<1>6. CASE UNCHANGED vars
  BY <1>1, <1>6 DEF vars
<1> QED BY <1>2, <1>3, <1>4, <1>5, <1>6 DEF Next

\* A code mandated by operations stays with its conduit until the mandate ends.
THEOREM MandatesKept == Spec => []MandateKept
<1>1. MandateInv => MandateKept
  <2> SUFFICES ASSUME MandateInv, NEW key \in RuleKeys, NEW code \in Codes,
                      now < pledged[key][code], ExpireFits(rules[key])
               PROVE  PassesPolicy(rules[key], code)
    BY DEF MandateKept
  <2>1. /\ code \in rules[key].cmdFlags
        /\ pledged[key][code] <= rules[key].mandateTime
    BY DEF MandateInv, PledgesBacked
  <2>2. /\ rules[key].mandateTime \in Nat /\ rules[key].expiryOffset \in Nat
        /\ pledged[key][code] \in Nat /\ now \in Nat
    BY PolicyAssumption, DexBoundsAssumption DEF MandateInv, RulesTyped, Rules, Times
  <2> QED BY <2>1, <2>2 DEF PassesPolicy, ExpireTime
<1> QED BY <1>1, MandateInit, MandateStep, PTL DEF Spec

-----------------------------------------------------------------------------
(* The control state of the dex.                                           *)

\* Fees are earned once in the model's bound.
FeesOnce(d) == d.feesAccum = 0 \/ \A p \in Payees : d.surplus[p] = 0
DexOkay(d) == d \in DexStates /\ FeesOnce(d) /\ "BOOT" \in d.proxyPaths

\* A halt is only lifted by the treasury.
HaltLasts == halted => ~ dex.hotPathOpen /\ dex.inSafeMode

ControlTyped ==
    /\ holdings \in Holdings
    /\ now \in Times
    /\ roles \in [Roles -> Senders]
    /\ halted \in BOOLEAN
    /\ namedAt \in Times

ControlInv == DexOkay(dex) /\ HaltLasts /\ ControlTyped

\* Every protocol command leaves a control state, with the boot path in it.
LEMMA ProtocolKeepsDex ==
    ASSUME NEW d, DexOkay(d), NEW path \in Paths, NEW cmd \in Cmds,
           NEW sudo, NEW t \in Times, ProtocolOkay(d, Policy, path, cmd, sudo, t)
    PROVE  DexOkay(ProtocolCmd(d, path, cmd, t))
<1> USE DexBoundsAssumption, TreasuryAssumption
<1>1. ASSUME cmd.code \in SudoCodes PROVE DexOkay(SudoCmd(d, cmd, t))
  <2>1. CASE cmd.code = "COLLECT"
    <3>1. SudoCmd(d, cmd, t) = CollectProtocol(d)
      BY <2>1 DEF SudoCmd
    <3>2. \A p \in Payees : d.surplus[p] + d.feesAccum \in 0 .. MaxFees
      BY DEF DexOkay, FeesOnce, DexStates
    <3>3. CollectProtocol(d) \in DexStates /\ CollectProtocol(d).feesAccum = 0
      <4> DEFINE paid == [d.surplus EXCEPT ![d.treasury] = @ + d.feesAccum]
      <4>1. d \in DexStates /\ d.surplus \in [Payees -> 0 .. MaxFees] /\ d.treasury \in Payees
        BY DEF DexOkay, DexStates
      <4>2. paid \in [Payees -> 0 .. MaxFees]
        BY <3>2, <4>1
      <4>3. CollectProtocol(d) = [d EXCEPT !.feesAccum = 0, !.surplus = paid]
        BY <4>1 DEF CollectProtocol, DexStates
      <4> HIDE DEF paid
      <4>4. [d EXCEPT !.feesAccum = 0] \in DexStates
        BY <4>1 DEF DexStates
      <4>5. CollectProtocol(d) = [[d EXCEPT !.feesAccum = 0] EXCEPT !.surplus = paid]
        BY <4>1, <4>3 DEF DexStates
      <4>6. CollectProtocol(d) \in DexStates
        BY <4>2, <4>4, <4>5 DEF DexStates
      <4>7. CollectProtocol(d).feesAccum = 0
        BY <4>1, <4>3 DEF DexStates
      <4> QED BY <4>6, <4>7
    <3>4. CollectProtocol(d).proxyPaths = d.proxyPaths
      BY DEF CollectProtocol, DexOkay, DexStates
    <3> QED BY <3>1, <3>3, <3>4 DEF DexOkay, FeesOnce
  <2>2. CASE cmd.code = "SET_TREASURY"
    <3>1. cmd.treasury \in Payees
      BY <2>2 DEF Cmds, Payees
    <3>2. t + TreasuryDelay \in 0 .. MaxTime + TreasuryDelay
      BY DEF Times
    <3>3. SudoCmd(d, cmd, t) = SetTreasury(d, cmd.treasury, t)
      BY <2>2 DEF SudoCmd
    <3> QED BY <3>1, <3>2, <3>3 DEF SetTreasury, DexOkay, DexStates, FeesOnce
  <2>3. CASE cmd.code = "AUTHORITY"
    <3>1. cmd.auth \in Masters
      BY <2>3 DEF Cmds
    <3>2. SudoCmd(d, cmd, t) = [d EXCEPT !.authority = cmd.auth]
      BY <2>3 DEF SudoCmd
    <3> QED BY <3>1, <3>2 DEF DexOkay, DexStates, FeesOnce
  <2>4. CASE cmd.code = "HOT_OPEN"
    <3>1. cmd.open \in BOOLEAN
      BY <2>4 DEF Cmds
    <3>2. SudoCmd(d, cmd, t) = [d EXCEPT !.hotPathOpen = cmd.open]
      BY <2>4 DEF SudoCmd
    <3> QED BY <3>1, <3>2 DEF DexOkay, DexStates, FeesOnce
  <2>5. CASE cmd.code = "SAFE_MODE"
    <3>1. cmd.inSafeMode \in BOOLEAN
      BY <2>5 DEF Cmds
    <3>2. SudoCmd(d, cmd, t) = [d EXCEPT !.inSafeMode = cmd.inSafeMode]
      BY <2>5 DEF SudoCmd
    <3> QED BY <3>1, <3>2 DEF DexOkay, DexStates, FeesOnce
  <2> QED BY <1>1, <2>1, <2>2, <2>3, <2>4, <2>5 DEF SudoCodes
<1>2. CASE path = "BOOT"
  <2>1. cmd.code = "UPGRADE" /\ cmd.proxyIdx # "BOOT"
    BY <1>2 DEF ProtocolOkay, BootOkay
  <2>2. cmd.proxyIdx \in Paths
    BY <2>1 DEF Cmds
  <2>3. ProtocolCmd(d, path, cmd, t) = BootCmd(d, cmd)
    BY <1>2 DEF ProtocolCmd
  <2> QED BY <2>1, <2>2, <2>3 DEF BootCmd, DexOkay, DexStates, FeesOnce
<1>3. CASE path = "COLD"
  <2>1. ProtocolCmd(d, path, cmd, t) = ColdCmd(d, cmd, t)
    BY <1>3 DEF ProtocolCmd
  <2>2. CASE cmd.code \in PolicyCodes
    <3>1. cmd.takeRate \in TakeRates
      BY <2>2 DEF Cmds, PolicyCodes
    <3> QED BY <2>1, <2>2, <3>1 DEF ColdCmd, DexOkay, DexStates, FeesOnce
  <2>3. CASE cmd.code \notin PolicyCodes
    <3>1. cmd.code \in SudoCodes
      BY <1>3, <2>3 DEF ProtocolOkay, ColdOkay, SudoOkay
    <3> QED BY <1>1, <2>1, <2>3, <3>1 DEF ColdCmd
  <2> QED BY <2>2, <2>3
<1>4. CASE path = "SAFE_MODE"
  <2>1. ProtocolCmd(d, path, cmd, t) = SudoCmd(d, cmd, t)
    BY <1>4 DEF ProtocolCmd
  <2>2. cmd.code \in SudoCodes
    BY <1>4 DEF ProtocolOkay, SudoOkay
  <2> QED BY <1>1, <2>1, <2>2
<1>5. path # "LP"
  BY DEF ProtocolOkay
<1> QED BY <1>2, <1>3, <1>4, <1>5 DEF Paths

\* Without privilege, nothing passes in safe mode.
LEMMA SafeModeStops ==
    ASSUME NEW d, NEW path, NEW cmd, NEW t, d.inSafeMode
    PROVE  ~ ProtocolOkay(d, Policy, path, cmd, FALSE, t)
BY DEF ProtocolOkay, AssertProxy, BootOkay, SudoOkay

\* What a halt leaves.
LEMMA HaltLeaves ==
    ASSUME DexOkay(dex)
    PROVE  /\ HotPathCmd \in Cmds /\ SafeModeCmd \in Cmds
           /\ HaltCmd(dex).hotPathOpen = FALSE /\ HaltCmd(dex).inSafeMode = TRUE
<1>1. HotPathCmd \in Cmds /\ SafeModeCmd \in Cmds
  BY DEF HotPathCmd, SafeModeCmd, Cmds
<1>2. ProtocolCmd(dex, "COLD", HotPathCmd, now) = [dex EXCEPT !.hotPathOpen = FALSE]
  BY DEF ProtocolCmd, ColdCmd, SudoCmd, HotPathCmd, PolicyCodes
<1>3. ASSUME NEW d
      PROVE  ProtocolCmd(d, "COLD", SafeModeCmd, now) = [d EXCEPT !.inSafeMode = TRUE]
  BY DEF ProtocolCmd, ColdCmd, SudoCmd, SafeModeCmd, PolicyCodes
<1> QED BY <1>1, <1>2, <1>3 DEF HaltCmd, DexOkay, DexStates

\* Fees accrue when none were earned.
LEMMA AccrueKeepsDex ==
    ASSUME DexOkay(dex), Accrue
    PROVE  /\ DexOkay(dex') /\ dex'.hotPathOpen = dex.hotPathOpen
           /\ dex'.inSafeMode = dex.inSafeMode
<1> USE DexBoundsAssumption
<1>1. CASE dex' = dex
  BY <1>1
<1>2. ASSUME FeesEarned(dex), NEW fee \in 1 .. MaxFees,
             dex' = [dex EXCEPT !.feesAccum = fee]
      PROVE  /\ DexOkay(dex') /\ dex'.hotPathOpen = dex.hotPathOpen
             /\ dex'.inSafeMode = dex.inSafeMode
  BY <1>2 DEF DexOkay, DexStates, FeesOnce, FeesEarned
<1> QED BY <1>1, <1>2 DEF Accrue

-----------------------------------------------------------------------------

LEMMA ControlInit == Init => ControlInv
<1> SUFFICES ASSUME Init PROVE ControlInv
  OBVIOUS
<1> USE DexBoundsAssumption, TreasuryAssumption, PolicyAssumption
<1>1. PICK rate \in TakeRates :
        dex = [authority |-> Policy, hotPathOpen |-> TRUE,
               inSafeMode |-> FALSE, proxyPaths |-> Paths, takeRate |-> rate,
               treasury |-> NoTreasury, treasuryStart |-> 0,
               feesAccum |-> 0, surplus |-> [p \in Payees |-> 0]]
  BY DEF Init
<1>2. DexOkay(dex)
  BY <1>1 DEF DexOkay, DexStates, FeesOnce, Payees, Paths
<1>3. roles \in [Roles -> Senders]
  BY DEF Init, Senders
<1>4. HaltLasts /\ ControlTyped
  <2>1. halted = FALSE /\ holdings \in Holdings
    BY DEF Init
  <2>2. now \in Times /\ namedAt \in Times
    BY DEF Init, Times
  <2> QED BY <1>3, <2>1, <2>2 DEF HaltLasts, ControlTyped
<1> QED BY <1>2, <1>4 DEF ControlInv

\* Forwarding a command, on behalf of anybody, keeps what is not about halts.
LEMMA ForwardKeepsDex ==
    ASSUME ControlInv, NEW path \in Paths, NEW cmd \in Cmds, NEW sudo,
           Forward(path, cmd, sudo)
    PROVE  DexOkay(dex') /\ namedAt' \in Times
BY ProtocolKeepsDex DEF ControlInv, ControlTyped, Forward

LEMMA ControlStep == ControlInv /\ [Next]_vars => ControlInv'
<1> SUFFICES ASSUME ControlInv, [Next]_vars PROVE ControlInv'
  OBVIOUS
<1>1. ASSUME dex' = dex, halted' = halted, holdings' = holdings, now' = now,
             namedAt' = namedAt, roles' \in [Roles -> Senders]
      PROVE  ControlInv'
  BY <1>1 DEF ControlInv, ControlTyped, HaltLasts, DexOkay, FeesOnce
<1>2. ASSUME NEW path \in Paths, NEW cmd \in Cmds, NEW sudo, Forward(path, cmd, sudo),
             HaltLasts', halted' \in BOOLEAN,
             holdings' = holdings, now' = now, roles' = roles
      PROVE  ControlInv'
  <2>1. DexOkay(dex') /\ namedAt' \in Times
    BY <1>2, ForwardKeepsDex
  <2> QED BY <1>2, <2>1 DEF ControlInv, ControlTyped, DexOkay, FeesOnce
<1>3. ASSUME NEW path, NEW cmd, Forward(path, cmd, FALSE), halted' = halted
      PROVE  HaltLasts'
  BY <1>3, SafeModeStops DEF Forward, HaltLasts, ControlInv
<1>4. ASSUME NEW s \in Senders, Governs(s) PROVE ControlInv'
  <2>1. ASSUME NEW path \in Paths, NEW cmd \in Cmds, OpsResolution(s, path, cmd)
        PROVE  ControlInv'
    <3>1. Forward(path, cmd, FALSE) /\ halted' = halted
      BY <2>1 DEF OpsResolution
    <3> QED BY <1>2, <1>3, <2>1, <3>1 DEF OpsResolution, ControlInv, ControlTyped
  <2>2. ASSUME NEW path \in Paths, NEW cmd \in Cmds, NEW sudo \in BOOLEAN,
               TreasuryResolution(s, path, cmd, sudo)
        PROVE  ControlInv'
    BY <1>2, <2>2 DEF TreasuryResolution, HaltLasts
  <2>3. CASE EmergencyHalt(s)
    <3> DEFINE hot == ProtocolCmd(dex, "COLD", HotPathCmd, now)
    <3>1. DexOkay(dex) /\ now \in Times
      BY DEF ControlInv, ControlTyped
    <3>2. HotPathCmd \in Cmds /\ SafeModeCmd \in Cmds /\ "COLD" \in Paths
      BY <3>1, HaltLeaves DEF Paths
    <3>3. /\ ProtocolOkay(dex, Policy, "COLD", HotPathCmd, TRUE, now)
          /\ ProtocolOkay(hot, Policy, "COLD", SafeModeCmd, TRUE, now)
          /\ dex' = ProtocolCmd(hot, "COLD", SafeModeCmd, now)
          /\ dex' = HaltCmd(dex)
      BY <2>3 DEF EmergencyHalt, HaltCmd
    <3>4. DexOkay(hot)
      BY <3>1, <3>2, <3>3, ProtocolKeepsDex
    <3>5. DexOkay(dex')
      <4> HIDE DEF hot
      <4> QED BY <3>1, <3>2, <3>3, <3>4, ProtocolKeepsDex
    <3>6. HaltLasts'
      BY <3>1, <3>3, HaltLeaves DEF HaltLasts
    <3> QED BY <2>3, <3>5, <3>6 DEF ControlInv, ControlTyped, EmergencyHalt, DexOkay, FeesOnce
  <2>4. ASSUME NEW key \in RuleKeys, NEW rule \in Drafts,
               SetPolicy(s, key, rule) \/ ForcePolicy(s, key, rule)
        PROVE  ControlInv'
    BY <1>1, <2>4 DEF SetPolicy, ForcePolicy, ControlInv, ControlTyped
  <2>5. ASSUME NEW key \in RuleKeys, EmergencyReset(s, key) PROVE ControlInv'
    BY <1>1, <2>5 DEF EmergencyReset, ControlInv, ControlTyped
  <2>6. ASSUME NEW cabinet \in Cabinets, TransferGovernance(s, cabinet)
        PROVE  ControlInv'
    <3>1. cabinet \in [Roles -> Senders]
      BY PolicyAssumption DEF Senders
    <3> QED BY <1>1, <2>6, <3>1 DEF TransferGovernance
  <2> QED BY <1>4, <2>1, <2>2, <2>3, <2>4, <2>5, <2>6 DEF Governs
<1>5. CASE ConduitActs
  <2>1. PICK key \in RuleKeys, cmd \in Cmds : InvokePolicy(key[1], key[2], cmd)
    BY <1>5 DEF ConduitActs
  <2>2. key[2] \in Paths
    BY PolicyAssumption DEF RuleKeys
  <2>3. Forward(key[2], cmd, FALSE) /\ halted' = halted
    BY <2>1 DEF InvokePolicy
  <2> QED BY <1>2, <1>3, <2>1, <2>2, <2>3 DEF InvokePolicy, ControlInv, ControlTyped
<1>6. CASE UserActs
  <2>1. Accrue /\ holdings' \in Holdings
    BY <1>6 DEF UserActs, Swap, UserCmd
  <2>2. /\ DexOkay(dex') /\ dex'.hotPathOpen = dex.hotPathOpen
        /\ dex'.inSafeMode = dex.inSafeMode
    BY <2>1, AccrueKeepsDex DEF ControlInv
  <2> QED BY <1>6, <2>1, <2>2 DEF UserActs, ControlInv, ControlTyped, HaltLasts, DexOkay, FeesOnce
<1>7. CASE PassTime
  BY <1>7, DexBoundsAssumption
     DEF PassTime, ControlInv, ControlTyped, HaltLasts, DexOkay, FeesOnce, Times
<1>8. CASE UNCHANGED vars
  BY <1>1, <1>8 DEF vars, ControlInv, ControlTyped
<1> QED BY <1>4, <1>5, <1>6, <1>7, <1>8 DEF Next

LEMMA ControlInvariant == Spec => []ControlInv
BY ControlInit, ControlStep, PTL DEF Spec

\* Every variable keeps its type.
THEOREM PolicyTypeCorrect == Spec => []TypeOK
<1>1. MandateInv /\ ControlInv => TypeOK
  BY DEF MandateInv, RulesTyped, ControlInv, ControlTyped, DexOkay, TypeOK
<1> QED BY <1>1, MandateInit, MandateStep, ControlInvariant, PTL DEF Spec

\* The treasury can always take the dex out of safe mode.
THEOREM SafeModeLeft == Spec => []SafeModeEscapable
<1>1. ControlInv => SafeModeEscapable
  <2> SUFFICES ASSUME ControlInv, dex.authority = Policy, dex.inSafeMode
               PROVE  SafeModeEscapable
    BY DEF SafeModeEscapable
  <2> DEFINE install == [code |-> "UPGRADE", proxyIdx |-> "SAFE_MODE", installs |-> TRUE]
             leave == [code |-> "SAFE_MODE", inSafeMode |-> FALSE]
  <2>1. "BOOT" \in dex.proxyPaths /\ dex \in DexStates
    BY DEF ControlInv, DexOkay
  <2>2. ProtocolOkay(dex, Policy, "BOOT", install, TRUE, now)
    BY <2>1 DEF ProtocolOkay, AssertProxy, BootOkay
  <2>3. ProtocolCmd(dex, "BOOT", install, now) =
            [dex EXCEPT !.proxyPaths = dex.proxyPaths \cup {"SAFE_MODE"}]
    BY <2>1 DEF ProtocolCmd, BootCmd, DexStates
  <2>4. ProtocolOkay(ProtocolCmd(dex, "BOOT", install, now),
                     Policy, "SAFE_MODE", leave, TRUE, now)
    BY <2>1, <2>3 DEF ProtocolOkay, AssertProxy, SudoOkay, SudoCodes, DexStates
  <2> QED BY <2>2, <2>4 DEF SafeModeEscapable
<1> QED BY <1>1, ControlInvariant, PTL

\* Nothing happens between an emergency halt and a treasury resolution.
THEOREM HaltIsComplete == Spec => HaltFreezes
<1>1. ControlInv /\ [Next]_vars => (halted /\ halted' => UNCHANGED <<dex, holdings>>)
  <2> SUFFICES ASSUME ControlInv, [Next]_vars, halted, halted'
               PROVE  dex' = dex /\ holdings' = holdings
    OBVIOUS
  <2>1. ~ dex.hotPathOpen /\ dex.inSafeMode
    BY DEF ControlInv, HaltLasts
  <2>2. ASSUME NEW path, NEW cmd, Forward(path, cmd, FALSE) PROVE FALSE
    BY <2>1, <2>2, SafeModeStops DEF Forward
  <2>3. ASSUME NEW s \in Senders, Governs(s)
        PROVE  dex' = dex /\ holdings' = holdings
    <3>1. \A path \in Paths, cmd \in Cmds : ~ OpsResolution(s, path, cmd)
      BY <2>2 DEF OpsResolution
    <3>2. \A path \in Paths, cmd \in Cmds, sudo \in BOOLEAN :
              ~ TreasuryResolution(s, path, cmd, sudo)
      BY DEF TreasuryResolution
    <3>3. ~ EmergencyHalt(s)
      BY <2>1 DEF EmergencyHalt, ProtocolOkay, AssertProxy
    <3> QED BY <2>3, <3>1, <3>2, <3>3
            DEF Governs, SetPolicy, ForcePolicy, EmergencyReset, TransferGovernance
  <2>4. ~ ConduitActs
    BY <2>2 DEF ConduitActs, InvokePolicy
  <2>5. ~ UserActs
    BY <2>1 DEF UserActs, Swap, UserCmd, AssertProxy
  <2> QED BY <2>3, <2>4, <2>5 DEF Next, PassTime, vars
<1> QED BY <1>1, ControlInvariant, PTL DEF Spec, HaltFreezes

-----------------------------------------------------------------------------
(* Powers.                                                                 *)

\* A step without privilege changes nothing that is privileged.
LEMMA ForwardUnprivileged ==
    ASSUME dex \in DexStates, NEW path, NEW cmd, Forward(path, cmd, FALSE)
    PROVE  Privileged(dex') = Privileged(dex)
<1>1. path = "COLD" /\ cmd.code \in PolicyCodes
  BY DEF Forward, ProtocolOkay, BootOkay, ColdOkay, SudoOkay
<1>2. dex' = [dex EXCEPT !.takeRate = cmd.takeRate]
  BY <1>1 DEF Forward, ProtocolCmd, ColdCmd
<1> QED BY <1>2 DEF Privileged, DexStates

\* A halt leaves what its name says.
LEMMA HaltUnprivileged ==
    ASSUME dex \in DexStates, NEW s, EmergencyHalt(s)
    PROVE  Privileged(dex') = Privileged(HaltForm(dex))
<1>1. ProtocolCmd(dex, "COLD", HotPathCmd, now) = [dex EXCEPT !.hotPathOpen = FALSE]
  BY DEF ProtocolCmd, ColdCmd, SudoCmd, HotPathCmd, PolicyCodes
<1>2. \A d : ProtocolCmd(d, "COLD", SafeModeCmd, now) = [d EXCEPT !.inSafeMode = TRUE]
  BY DEF ProtocolCmd, ColdCmd, SudoCmd, SafeModeCmd, PolicyCodes
<1>3. dex' = [[dex EXCEPT !.hotPathOpen = FALSE] EXCEPT !.inSafeMode = TRUE]
  BY <1>1, <1>2 DEF EmergencyHalt, HaltCmd
<1>4. dex' = HaltForm(dex)
  BY <1>3 DEF HaltForm, DexStates
<1> QED BY <1>4

\* No role but the treasury and no conduit changes privileged state, other than
\* by an emergency halt (opsResolution, invokePolicy, treasuryResolution).
THEOREM PowersAreSeparate == Spec => PowersSeparated
<1> DEFINE Separated ==
        Privileged(dex') \notin {Privileged(dex), Privileged(HaltForm(dex))} =>
            /\ ~ ConduitActs
            /\ \A s \in Senders \ {roles["treasury"]} : ~ Governs(s)
<1>1. ControlInv => Separated
  <2> SUFFICES ASSUME ControlInv,
                      Privileged(dex') \notin {Privileged(dex), Privileged(HaltForm(dex))}
               PROVE  /\ ~ ConduitActs
                      /\ \A s \in Senders \ {roles["treasury"]} : ~ Governs(s)
    OBVIOUS
  <2>1. dex \in DexStates
    BY DEF ControlInv, DexOkay
  <2>2. \A path, cmd : ~ Forward(path, cmd, FALSE)
    BY <2>1, ForwardUnprivileged
  <2>3. dex' # dex
    OBVIOUS
  <2>4. ~ ConduitActs
    BY <2>2 DEF ConduitActs, InvokePolicy
  <2>5. ASSUME NEW s \in Senders \ {roles["treasury"]} PROVE ~ Governs(s)
    <3>1. ~ TreasuryAuth(s)
      BY DEF TreasuryAuth
    <3>2. \A path, cmd : ~ OpsResolution(s, path, cmd)
      BY <2>2 DEF OpsResolution
    <3>3. ~ EmergencyHalt(s)
      BY <2>1, HaltUnprivileged
    <3>4. \A path, cmd, sudo : ~ TreasuryResolution(s, path, cmd, sudo)
      BY <3>1 DEF TreasuryResolution
    <3>5. \A key, rule : ~ (SetPolicy(s, key, rule) \/ ForcePolicy(s, key, rule))
      BY <2>3 DEF SetPolicy, ForcePolicy
    <3>6. (\A key : ~ EmergencyReset(s, key)) /\ (\A cab : ~ TransferGovernance(s, cab))
      BY <2>3 DEF EmergencyReset, TransferGovernance
    <3> QED BY <3>2, <3>3, <3>4, <3>5, <3>6 DEF Governs
  <2> QED BY <2>4, <2>5
<1>2. ControlInv /\ [Next]_vars => [Separated]_vars
  BY <1>1
<1> QED BY <1>2, ControlInvariant, PTL DEF Spec, PowersSeparated

-----------------------------------------------------------------------------
(* The wait of a treasury.                                                 *)

\* The delay runs from when the treasury was named.
StartFollows ==
    dex.treasury \in Treasuries => dex.treasuryStart = namedAt + TreasuryDelay

\* What a command does to the treasury, its wait and what it was paid.
LEMMA CommandAndTreasury ==
    ASSUME dex \in DexStates, NEW path \in Paths, NEW cmd \in Cmds, NEW sudo,
           Forward(path, cmd, sudo)
    PROVE  \/ /\ cmd.code = "SET_TREASURY"
              /\ dex'.treasuryStart = now + TreasuryDelay /\ namedAt' = now
              /\ dex'.surplus = dex.surplus
           \/ /\ cmd.code = "COLLECT" /\ now >= dex.treasuryStart
              /\ dex'.treasury = dex.treasury /\ dex'.treasuryStart = dex.treasuryStart
              /\ namedAt' = namedAt
              /\ \A p \in Payees \ {dex.treasury} : dex'.surplus[p] = dex.surplus[p]
           \/ /\ dex'.treasury = dex.treasury /\ dex'.treasuryStart = dex.treasuryStart
              /\ namedAt' = namedAt
              /\ dex'.surplus = dex.surplus
<1>1. /\ ProtocolOkay(dex, Policy, path, cmd, sudo, now)
      /\ dex' = ProtocolCmd(dex, path, cmd, now)
      /\ namedAt' = IF cmd.code = "SET_TREASURY" THEN now ELSE namedAt
  BY DEF Forward
<1>2. CASE path = "BOOT"
  <2>1. dex' = BootCmd(dex, cmd) /\ cmd.code = "UPGRADE"
    BY <1>1, <1>2 DEF ProtocolOkay, ProtocolCmd, BootOkay
  <2> QED BY <1>1, <2>1 DEF BootCmd, DexStates
<1>3. CASE path = "COLD" /\ cmd.code \in PolicyCodes
  <2>1. dex' = [dex EXCEPT !.takeRate = cmd.takeRate] /\ cmd.code = "SET_TAKE"
    BY <1>1, <1>3 DEF ProtocolCmd, ColdCmd, PolicyCodes
  <2> QED BY <1>1, <2>1 DEF DexStates
<1>4. CASE path = "SAFE_MODE" \/ (path = "COLD" /\ cmd.code \notin PolicyCodes)
  <2>1. /\ dex' = SudoCmd(dex, cmd, now) /\ cmd.code \in SudoCodes
        /\ cmd.code = "COLLECT" => now >= dex.treasuryStart
    BY <1>1, <1>4 DEF ProtocolOkay, ProtocolCmd, ColdOkay, ColdCmd, SudoOkay
  <2>2. CASE cmd.code = "COLLECT"
    <3>1. dex' = CollectProtocol(dex)
      BY <2>1, <2>2 DEF SudoCmd
    <3> QED BY <1>1, <2>1, <2>2, <3>1 DEF CollectProtocol, DexStates
  <2>3. CASE cmd.code = "SET_TREASURY"
    <3>1. dex' = SetTreasury(dex, cmd.treasury, now)
      BY <2>1, <2>3 DEF SudoCmd
    <3> QED BY <1>1, <2>3, <3>1 DEF SetTreasury, DexStates
  <2>4. CASE cmd.code = "AUTHORITY"
    <3>1. dex' = [dex EXCEPT !.authority = cmd.auth]
      BY <2>1, <2>4 DEF SudoCmd
    <3> QED BY <1>1, <2>4, <3>1 DEF DexStates
  <2>5. CASE cmd.code = "HOT_OPEN"
    <3>1. dex' = [dex EXCEPT !.hotPathOpen = cmd.open]
      BY <2>1, <2>5 DEF SudoCmd
    <3> QED BY <1>1, <2>5, <3>1 DEF DexStates
  <2>6. CASE cmd.code = "SAFE_MODE"
    <3>1. dex' = [dex EXCEPT !.inSafeMode = cmd.inSafeMode]
      BY <2>1, <2>6 DEF SudoCmd
    <3> QED BY <1>1, <2>6, <3>1 DEF DexStates
  <2> QED BY <2>1, <2>2, <2>3, <2>4, <2>5, <2>6 DEF SudoCodes
<1> QED BY <1>1, <1>2, <1>3, <1>4 DEF ProtocolOkay

\* One step keeps the wait and pays none but a treasury that has waited.
Waits ==
    \A p \in Treasuries : dex'.surplus[p] > dex.surplus[p] =>
        p = dex.treasury /\ now >= namedAt + TreasuryDelay

LEMMA WaitStep ==
    ASSUME ControlInv, StartFollows, [Next]_vars
    PROVE  StartFollows' /\ Waits
<1>1. /\ dex \in DexStates
      /\ \A p \in Treasuries : p \in Payees /\ dex.surplus[p] \in Int
  BY DexBoundsAssumption DEF ControlInv, DexOkay, DexStates, Payees
<1>2. ASSUME dex'.treasury = dex.treasury, dex'.treasuryStart = dex.treasuryStart,
             namedAt' = namedAt, dex'.surplus = dex.surplus
      PROVE  StartFollows' /\ Waits
  BY <1>1, <1>2 DEF StartFollows, Waits
<1>3. ASSUME NEW path \in Paths, NEW cmd \in Cmds, NEW sudo, Forward(path, cmd, sudo)
      PROVE  StartFollows' /\ Waits
  <2>1. CASE /\ cmd.code = "SET_TREASURY"
             /\ dex'.treasuryStart = now + TreasuryDelay /\ namedAt' = now
             /\ dex'.surplus = dex.surplus
    BY <1>1, <2>1 DEF StartFollows, Waits
  <2>2. CASE /\ cmd.code = "COLLECT" /\ now >= dex.treasuryStart
             /\ dex'.treasury = dex.treasury /\ dex'.treasuryStart = dex.treasuryStart
             /\ namedAt' = namedAt
             /\ \A p \in Payees \ {dex.treasury} : dex'.surplus[p] = dex.surplus[p]
    BY <1>1, <2>2 DEF StartFollows, Waits
  <2> QED BY <1>1, <1>2, <1>3, <2>1, <2>2, CommandAndTreasury
<1>4. ASSUME NEW s \in Senders, Governs(s) PROVE StartFollows' /\ Waits
  <2>1. CASE EmergencyHalt(s)
    <3>1. /\ HaltCmd(dex).treasury = dex.treasury
          /\ HaltCmd(dex).treasuryStart = dex.treasuryStart
          /\ HaltCmd(dex).surplus = dex.surplus
      BY <1>1 DEF HaltCmd, ProtocolCmd, ColdCmd, SudoCmd, SafeModeCmd, HotPathCmd,
                  PolicyCodes, DexStates
    <3> QED BY <1>2, <2>1, <3>1 DEF EmergencyHalt
  <2> QED BY <1>2, <1>3, <1>4, <2>1
          DEF Governs, OpsResolution, TreasuryResolution, SetPolicy, ForcePolicy,
              EmergencyReset, TransferGovernance
<1>5. CASE ConduitActs
  <2>1. PICK key \in RuleKeys, cmd \in Cmds : InvokePolicy(key[1], key[2], cmd)
    BY <1>5 DEF ConduitActs
  <2>2. key[2] \in Paths
    BY PolicyAssumption DEF RuleKeys
  <2> QED BY <1>3, <2>1, <2>2 DEF InvokePolicy
<1>6. CASE UserActs
  <2>1. Accrue /\ namedAt' = namedAt
    BY <1>6 DEF UserActs, Swap, UserCmd
  <2>2. /\ dex'.treasury = dex.treasury /\ dex'.treasuryStart = dex.treasuryStart
        /\ dex'.surplus = dex.surplus
    BY <1>1, <2>1 DEF Accrue, DexStates
  <2> QED BY <1>2, <2>1, <2>2
<1>7. CASE PassTime \/ UNCHANGED vars
  BY <1>2, <1>7 DEF PassTime, vars
<1> QED BY <1>4, <1>5, <1>6, <1>7 DEF Next

\* Fees go to a treasury that has waited out its delay since it was named, and
\* to nobody else (setTreasury, collectProtocol).
THEOREM TreasuriesWait == Spec => TreasuryWaits
<1>1. Init => StartFollows
  BY TreasuryAssumption DEF Init, StartFollows
<1>2. ControlInv /\ StartFollows /\ [Next]_vars => StartFollows' /\ [Waits]_vars
  BY WaitStep
<1> QED BY <1>1, <1>2, ControlInvariant, PTL DEF Spec, TreasuryWaits, Waits
=============================================================================
