---------------------------- MODULE GovernanceTools ----------------------------
(***************************************************************************)
(* The tooling that governs a deployed dex: misc/libs/governance.ts, which *)
(* prints the calldata multisigs send to their timelocks and decodes it    *)
(* again for the signers, misc/libs/pool.ts, and the constants both use.   *)
(*                                                                         *)
(* Calldata is a record of the function it selects and of its arguments,   *)
(* so the selector of a function is its name and encoding keeps every      *)
(* argument.  An operator with an Okay beside it throws unless Okay holds. *)
(***************************************************************************)
EXTENDS Integers

\* An address is known by the kind of its contract and which copy it is.
Addr(kind, n) == [kind |-> kind, n |-> n]
\* The convention for what is not deployed yet.
Empty == Addr("none", 0)

\* The address book: contracts, multisigs and timelocks.
Sidecars == {"cold", "warm", "long", "micro", "hot", "knockout", "koCross"}
Multisigs == {"multisigTreasury", "multisigOps", "multisigEmergency"}
Timelocks == {"timelockTreasury", "timelockOps", "timelockEmergency"}
Fields == {"dex", "policy", "query", "impact", "deployer"}
              \cup Sidecars \cup Multisigs \cup Timelocks
EmptyAddrs == [f \in Fields |-> Empty]

ProxyIdx == [boot |-> 0, hot |-> 1, warm |-> 2, cold |-> 3, long |-> 4,
             micro |-> 5, knockout |-> 7, koCross |-> 3500, safeMode |-> 9999]

PROTOCOL_AUTH_TRANSFER_CMD == 20
PROTOCOL_UPGRADE_CMD == 21
PROTOCOL_HOT_OPEN_CMD == 22

INIT_TIMELOCK_DELAY == 30

-----------------------------------------------------------------------------
\* Protocol commands

UpgradeCmd(contract, slot) ==
    [code |-> PROTOCOL_UPGRADE_CMD, contract |-> contract, slot |-> slot]
AuthTransferCmd(authority) ==
    [code |-> PROTOCOL_AUTH_TRANSFER_CMD, authority |-> authority]
HotOpenCmd(open) == [code |-> PROTOCOL_HOT_OPEN_CMD, open |-> open]

\* A command and the way it is sent: CrocProtocolCmd.
Cmd(protocolCmd, callpath, sudo) ==
    [protocolCmd |-> protocolCmd, callpath |-> callpath, sudo |-> sudo]

\* The parameters the pools of a chain are to have.
MainnetParams ==
    [initLiq |-> 10000, stdPoolIdx |-> 420,
     jitThresh |-> 30, tickSize |-> 16, feeBps |-> 27, knockoutOn |-> TRUE]

InitLiqCmd(params) ==
    Cmd([code |-> 112, initLiq |-> params.initLiq], ProxyIdx.cold, FALSE)

\* The exponents a knockout width may have.
WidthBits == 0 .. 15

PoolStdTemplOkay(params) ==
    /\ params.feeBps * 100 < 2 ^ 16
    /\ params.tickSize < 2 ^ 16
    /\ params.jitThresh % 10 = 0 /\ params.jitThresh \div 10 < 2 ^ 8
    /\ params.knockoutOn => \E w \in WidthBits : 2 ^ w = params.tickSize
PoolStdTemplCmd(params) ==
    Cmd([code |-> 110, poolIdx |-> params.stdPoolIdx,
         feeRate |-> params.feeBps * 100, tickSize |-> params.tickSize,
         jitThresh |-> params.jitThresh \div 10,
         knockout |-> IF params.knockoutOn
                      THEN 32 + CHOOSE w \in WidthBits : 2 ^ w = params.tickSize
                      ELSE 0],
        ProxyIdx.cold, FALSE)

-----------------------------------------------------------------------------
\* Printing instructions

\* Mutant: the two calls do not name the same operation.
PopulateTimelockCallsAnew(timelock, target, data, delay, salt) ==
    [timelock |-> timelock,
     schedule |-> [fn |-> "schedule", target |-> target, data |-> data,
                   salt |-> salt, delay |-> delay],
     execute |-> [fn |-> "execute", target |-> target, payload |-> data,
                  salt |-> salt + 1]]
\* The salt is the time of printing, so no two operations have the same.
PopulateTimelockCalls(timelock, target, data, delay, salt) ==
    [timelock |-> timelock,
     schedule |-> [fn |-> "schedule", target |-> target, data |-> data,
                   salt |-> salt, delay |-> delay],
     execute |-> [fn |-> "execute", target |-> target, payload |-> data,
                  salt |-> salt]]

\* What the signers of a multisig are asked to send, in two steps.
Instruction(multisig, calls) == [multisig |-> multisig, calls |-> calls]

OpsResolutionOkay(addrs) ==
    \A f \in {"timelockOps", "policy", "dex"} : addrs[f] # Empty
OpsResolution(addrs, cmd, delay, salt) ==
    Instruction("multisigOps",
        PopulateTimelockCalls(addrs["timelockOps"], addrs["policy"],
            [fn |-> "opsResolution", minion |-> addrs["dex"],
             proxyPath |-> cmd.callpath, cmd |-> cmd.protocolCmd],
            delay, salt))

TreasuryResolutionOkay(addrs) ==
    \A f \in {"timelockTreasury", "policy", "dex"} : addrs[f] # Empty
TreasuryResolution(addrs, cmd, delay, salt) ==
    Instruction("multisigTreasury",
        PopulateTimelockCalls(addrs["timelockTreasury"], addrs["policy"],
            [fn |-> "treasuryResolution", minion |-> addrs["dex"],
             proxyPath |-> cmd.callpath, cmd |-> cmd.protocolCmd,
             sudo |-> cmd.sudo],
            delay, salt))

\* The timelock sends the call to itself, scheduled under its old delay.
TimelockDelayOkay(timelock, newDelay) ==
    timelock # Empty /\ newDelay <= 7 * 3600 * 24
TimelockDelaySet(multisig, timelock, newDelay, oldDelay, salt) ==
    Instruction(multisig,
        PopulateTimelockCalls(timelock, timelock,
            [fn |-> "updateDelay", newDelay |-> newDelay], oldDelay, salt))
OpsTimelockSet(addrs, newDelay, oldDelay, salt) ==
    TimelockDelaySet("multisigOps", addrs["timelockOps"],
        newDelay, oldDelay, salt)
TreasuryTimelockSet(addrs, newDelay, oldDelay, salt) ==
    TimelockDelaySet("multisigTreasury", addrs["timelockTreasury"],
        newDelay, oldDelay, salt)

-----------------------------------------------------------------------------
\* Decoding instructions

\* Mutant: the labels of two slots swapped.
ProxyLabelSwapped(slot) ==
    IF \E f \in Sidecars \cup {"safeMode"} : ProxyIdx[f] = slot
    THEN CASE slot = ProxyIdx.hot  -> "warm"
           [] slot = ProxyIdx.warm -> "hot"
           [] OTHER -> CHOOSE f \in Sidecars \cup {"safeMode"} : ProxyIdx[f] = slot
    ELSE "Unknown"
ProxyLabel(slot) ==
    IF \E f \in Sidecars \cup {"safeMode"} : ProxyIdx[f] = slot
    THEN CHOOSE f \in Sidecars \cup {"safeMode"} : ProxyIdx[f] = slot
    ELSE "Unknown"

\* What the signers are told a protocol command does.
CmdLabel(proxyPath, cmd) ==
    CASE cmd.code = PROTOCOL_AUTH_TRANSFER_CMD /\ proxyPath = ProxyIdx.cold ->
            [label |-> "AuthTransfer", authority |-> cmd.authority]
      [] cmd.code = PROTOCOL_UPGRADE_CMD /\ proxyPath = ProxyIdx.boot ->
            [label |-> "Upgrade", proxy |-> ProxyLabel(cmd.slot),
             contract |-> cmd.contract]
      [] cmd.code = PROTOCOL_HOT_OPEN_CMD /\ proxyPath = ProxyIdx.cold ->
            [label |-> "HotOpen", open |-> cmd.open]
      [] OTHER -> [label |-> "Unknown", code |-> cmd.code]

\* Any call that is not a schedule is read as an execute.
Payload(call) == IF call.fn = "schedule" THEN call.data ELSE call.payload
DecodeOkay(policy, dex, call) ==
    /\ call.target = policy
    /\ Payload(call).fn \in {"opsResolution", "treasuryResolution"}
    /\ Payload(call).minion = dex
    /\ Payload(call).proxyPath \in {ProxyIdx.cold, ProxyIdx.boot}
DecodePolicySched(call) == CmdLabel(Payload(call).proxyPath, Payload(call).cmd)
=============================================================================
