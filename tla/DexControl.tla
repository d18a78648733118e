------------------------------ MODULE DexControl ------------------------------
(***************************************************************************)
(* The entry points of the dex contract and the state that governs them:   *)
(* CrocSwapDex.sol, mixins/ProxyCaller.sol and the protocol commands of    *)
(* callpaths/ColdPath.sol, BootPath.sol and SafeModePath.sol.              *)
(*                                                                         *)
(* A governance transaction may run several protocol commands, so they are *)
(* operators on the control state d of the dex: XOkay is the conjunction   *)
(* of the requires of X, and X(d, ...) the state it leaves.                *)
(*                                                                         *)
(* A sidecar accepts a single slot, so a slot holds its sidecar or nothing *)
(* and proxyPaths is a set of slots.  SET_TAKE stands for the eight policy *)
(* codes, which write parameters and need no privilege.  Amounts of fees   *)
(* are small numbers; what users hold is only known to change.             *)
(***************************************************************************)
EXTENDS Integers

CONSTANTS
    Masters,        \* contracts that accept the authority over the dex
    Treasuries,     \* contracts that may be named as the treasury
    NoTreasury,     \* the zero address, the treasury before any is named
    TakeRates,      \* values of protocolTakeRate_
    TreasuryDelay,  \* the 7 days a new treasury waits
    Holdings,       \* what users may hold: positions, pools and collateral
    MaxFees,        \* bound: fees ever earned by the protocol
    MaxTime         \* bound: the block time

ASSUME TreasuryAssumption ==
    /\ NoTreasury \notin Treasuries
    /\ TreasuryDelay \in Nat
ASSUME DexBoundsAssumption ==
    /\ MaxFees \in Nat
    /\ MaxTime \in Nat

\* The slots of proxyPaths_ that differ in how they are called.
Paths == {"BOOT", "LP", "COLD", "SAFE_MODE"}
PolicyCodes == {"SET_TAKE"}
SudoCodes == {"COLLECT", "SET_TREASURY", "AUTHORITY", "HOT_OPEN", "SAFE_MODE"}
Codes == PolicyCodes \cup SudoCodes \cup {"UPGRADE"}

\* An upgrade installs the slot's sidecar or clears the slot.
Cmds == [code : {"SET_TAKE"}, takeRate : TakeRates]
            \cup [code : {"COLLECT"}]
            \cup [code : {"SET_TREASURY"}, treasury : Treasuries]
            \cup [code : {"AUTHORITY"}, auth : Masters]
            \cup [code : {"HOT_OPEN"}, open : BOOLEAN]
            \cup [code : {"SAFE_MODE"}, inSafeMode : BOOLEAN]
            \cup [code : {"UPGRADE"}, proxyIdx : Paths, installs : BOOLEAN]

Times == 0 .. MaxTime
Payees == Treasuries \cup {NoTreasury}

\* The control state.  surplus is the collateral that fees were paid out to.
DexStates ==
    [authority : Masters, hotPathOpen : BOOLEAN, inSafeMode : BOOLEAN,
     proxyPaths : SUBSET Paths, takeRate : TakeRates,
     treasury : Payees, treasuryStart : 0 .. MaxTime + TreasuryDelay,
     feesAccum : 0 .. MaxFees, surplus : [Payees -> 0 .. MaxFees]]

-----------------------------------------------------------------------------
\* Protocol commands

\* Mutant: in safe mode only its own path is open.
AssertProxyNoBoot(d, path) ==
    /\ path \in d.proxyPaths
    /\ d.inSafeMode => path = "SAFE_MODE"
AssertProxy(d, path) ==
    /\ path \in d.proxyPaths
    /\ d.inSafeMode => path \in {"SAFE_MODE", "BOOT"}

\* Mutant: the privilege is not required.
SudoOkayAnyone(d, cmd, sudo, t) ==
    /\ cmd.code \in SudoCodes
    /\ cmd.code = "COLLECT" => t >= d.treasuryStart
SudoOkay(d, cmd, sudo, t) ==
    /\ sudo
    /\ cmd.code \in SudoCodes
    /\ cmd.code = "COLLECT" => t >= d.treasuryStart

\* Mutant: fees are paid out and kept.
CollectProtocolKeeps(d) == [d EXCEPT !.surplus[d.treasury] = @ + d.feesAccum]
CollectProtocol(d) ==
    [d EXCEPT !.feesAccum = 0, !.surplus[d.treasury] = @ + d.feesAccum]

\* Mutant: only the first treasury has to wait.
SetTreasuryOnce(d, treasury, t) ==
    [d EXCEPT !.treasury = treasury,
              !.treasuryStart = IF @ = 0 THEN t + TreasuryDelay ELSE @]
SetTreasury(d, treasury, t) ==
    [d EXCEPT !.treasury = treasury, !.treasuryStart = t + TreasuryDelay]

SudoCmd(d, cmd, t) ==
    CASE cmd.code = "COLLECT"      -> CollectProtocol(d)
      [] cmd.code = "SET_TREASURY" -> SetTreasury(d, cmd.treasury, t)
      [] cmd.code = "AUTHORITY"    -> [d EXCEPT !.authority = cmd.auth]
      [] cmd.code = "HOT_OPEN"     -> [d EXCEPT !.hotPathOpen = cmd.open]
      [] cmd.code = "SAFE_MODE"    -> [d EXCEPT !.inSafeMode = cmd.inSafeMode]

ColdOkay(d, cmd, sudo, t) ==
    cmd.code \in PolicyCodes \/ SudoOkay(d, cmd, sudo, t)
ColdCmd(d, cmd, t) ==
    IF cmd.code \in PolicyCodes THEN [d EXCEPT !.takeRate = cmd.takeRate]
    ELSE SudoCmd(d, cmd, t)

BootOkay(cmd, sudo) ==
    sudo /\ cmd.code = "UPGRADE" /\ cmd.proxyIdx # "BOOT"

BootCmd(d, cmd) ==
    [d EXCEPT !.proxyPaths =
        IF cmd.installs THEN @ \cup {cmd.proxyIdx} ELSE @ \ {cmd.proxyIdx}]

\* protocolCmd called by master; the sidecar of an LP has no protocolCmd.
ProtocolOkay(d, master, path, cmd, sudo, t) ==
    /\ master = d.authority
    /\ AssertProxy(d, path)
    /\ \/ path = "BOOT" /\ BootOkay(cmd, sudo)
       \/ path = "COLD" /\ ColdOkay(d, cmd, sudo, t)
       \/ path = "SAFE_MODE" /\ SudoOkay(d, cmd, sudo, t)

ProtocolCmd(d, path, cmd, t) ==
    CASE path = "BOOT"      -> BootCmd(d, cmd)
      [] path = "COLD"      -> ColdCmd(d, cmd, t)
      [] path = "SAFE_MODE" -> SudoCmd(d, cmd, t)

-----------------------------------------------------------------------------
\* User commands

VARIABLES
    dex,       \* the control state of the dex
    holdings,  \* everything users own in the dex
    now        \* block.timestamp

\* Fees of a swap, if any; the cap counts the fees already collected too.
FeesEarned(d) == d.feesAccum = 0 /\ \A p \in Payees : d.surplus[p] = 0
Accrue == \/ dex' = dex
          \/ /\ FeesEarned(dex) /\ MaxFees > 0
             /\ \E fee \in 1 .. MaxFees : dex' = [dex EXCEPT !.feesAccum = fee]

\* swap() does not go through a proxy.
Swap ==
    /\ dex.hotPathOpen
    /\ holdings' \in Holdings
    /\ Accrue

\* The boot and safe mode sidecars refuse every user command.
UserCmd(path) ==
    /\ AssertProxy(dex, path)
    /\ path \in {"LP", "COLD"}
    /\ holdings' \in Holdings
    /\ Accrue
=============================================================================
