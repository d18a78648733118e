--------------------------- MODULE DeploymentProofs ---------------------------
(***************************************************************************)
(* A deployment is safe for every number of contracts, crashes and         *)
(* instructions: types, what is in force is recorded, the book is written  *)
(* once, and the handover reaches its timelocks.                           *)
(***************************************************************************)
EXTENDS Deployment, TLAPS

AllAddrs == UNION {Recordable(f) : f \in Fields}
AddressBook == {b \in [Fields -> AllAddrs] : \A f \in Fields : b[f] \in Recordable(f)}
Installed == {Empty} \cup UNION {Copies(f) : f \in Sidecars}
DexStates == [authority : {Empty} \cup Copies("deployer") \cup Policies,
              hotOpen : BOOLEAN, proxies : [Slots -> Installed],
              initLiq : {0, Params.initLiq},
              templ : {NoTempl, PoolStdTemplCmd(Params).protocolCmd}]

Types ==
    /\ count \in [Kinds -> 0 .. MaxCopies]
    /\ dex \in DexStates
    /\ \A f \in Sidecars : dex.proxies[ProxyIdx[f]] \in Recordable(f)
    /\ roles \in [Policies -> [Roles -> TimelockCopies \cup {Wallet}]]
    /\ locks \in [TimelockCopies ->
            [owner : {Empty} \cup {MultisigAddr(m) : m \in Multisigs}, delay : Nat]]
    /\ {book, addrs, logged} \subseteq AddressBook
    /\ running \in 0 .. AltStep /\ pc \in 1 .. Len(Script) + 1
    /\ done \in 0 .. 10
    /\ prints \in Nat /\ mishaps \in 0 .. MaxMishaps

\* A script has printed all it knows unless it is about to, and its copy of
\* the book only ever fills in what was empty.
Writes(op) == op \in {"inflate", "readDex"}
Grown(b, c) == \A f \in Fields : b[f] # Empty => c[f] = b[f]
OneDex(b) == b["dex"] \in {Empty, Dex}
EmergencyShared(b) == b["timelockEmergency"] \in {Empty, b["timelockTreasury"]}
Silent == {5, 7, 8, 9, 10, AltStep}
Books ==
    /\ addrs # logged => pc > 1 /\ Writes(Script[pc - 1].op)
    /\ Grown(book, logged) /\ Grown(logged, addrs)
    /\ running \in {0} \cup Silent => addrs = book /\ logged = book
    /\ \A b \in {book, logged, addrs} : OneDex(b) /\ EmergencyShared(b)
    /\ running = 2 /\ pc > 1 => addrs["deployer"] = SaltedDeployer
    /\ running = 3 /\ pc > 1 => addrs["deployer"] # Empty
    /\ running = 6 /\ pc > 1 => addrs["timelockTreasury"] # Empty

\* Who is in charge.
AllWallet == [r \in Roles |-> Wallet]
Handed(b) == [r \in Roles |-> CASE r = "ops"      -> b["timelockOps"]
                                [] r = "treasury"  -> b["timelockTreasury"]
                                [] r = "emergency" -> b["timelockEmergency"]]
Owners == [timelockOps |-> "multisigOps", timelockTreasury |-> "multisigTreasury"]
Charge ==
    /\ InForceIsRecorded
    /\ count["dex"] = 0 => dex.authority = Empty
    /\ running = 3 /\ pc > 6 => dex.authority = addrs["policy"] /\ addrs["policy"] # Empty
    /\ done >= 3 => dex.authority = book["policy"] /\ book["policy"] # Empty
    /\ \A p \in Policies :
          \/ roles[p] = AllWallet
          \/ /\ roles[p] = Handed(book)
             /\ \A t \in Timelocks : book[t] # Empty
    /\ running = 7 /\ pc > 2 => roles[book["policy"]] # AllWallet
    /\ done >= 7 => roles[book["policy"]] # AllWallet
    /\ \A t \in DOMAIN Owners :
          addrs[t] # Empty => locks[addrs[t]].owner = MultisigAddr(Owners[t])

\* What has been printed and may yet run.
Harmless ==
    {UpgradeCmd(a, ProxyIdx["warm"]) : a \in {logged["warm"]} \ {Empty}}
        \cup {InitLiqCmd(Params).protocolCmd, PoolStdTemplCmd(Params).protocolCmd}
Resolution(data) ==
    /\ data.fn \in {"opsResolution", "treasuryResolution"}
    /\ data.cmd \in Harmless
DelaySet(data) == data.fn = "updateDelay" /\ data.newDelay \in Nat
KnownCall(c) ==
    /\ c.timelock \in TimelockCopies
    /\ \/ c.schedule.target \in Policies /\ Resolution(c.schedule.data)
       \/ c.schedule.target = c.timelock /\ DelaySet(c.schedule.data)
Commands ==
    {UpgradeCmd(a, ProxyIdx["warm"]) : a \in Copies("warm")}
        \cup {InitLiqCmd(Params).protocolCmd, PoolStdTemplCmd(Params).protocolCmd}
Datas ==
    [fn : {"opsResolution"}, minion : Copies("dex"), proxyPath : Nat,
     cmd : Commands]
    \cup [fn : {"treasuryResolution"}, minion : Copies("dex"), proxyPath : Nat,
          cmd : Commands, sudo : BOOLEAN]
    \cup [fn : {"updateDelay"}, newDelay : Nat]
CallTypes ==
    [timelock : TimelockCopies,
     schedule : [fn : {"schedule"}, target : Policies \cup TimelockCopies,
                 data : Datas, salt : Nat, delay : Nat],
     execute : [fn : {"execute"}, target : Policies \cup TimelockCopies,
                payload : Datas, salt : Nat]]
Calls ==
    /\ agenda \in [Multisigs -> Seq(CallTypes)]
    /\ \A m \in Multisigs : \A i \in 1 .. Len(agenda[m]) : KnownCall(agenda[m][i])
    /\ \A c \in pending : KnownCall(c)

IInv == Types /\ Books /\ Charge /\ Calls

-----------------------------------------------------------------------------
(***************************************************************************)
(* The statements of the scripts                                           *)
(***************************************************************************)

InflateShape(k, i, s) ==
    /\ s.field \in Kinds \ {"dex"}
    /\ \/ s.at = s.field /\ s.field # "timelockEmergency"
       \/ s.field = "timelockEmergency" /\ s.at = "timelockTreasury" /\ k = 6 /\ i > 1
    /\ s.field = "timelockOps" => s.args = {"multisigOps"}
    /\ s.field = "timelockTreasury" => s.args = {"multisigTreasury"}
    /\ k = 6 /\ i = 1 => s.field = "timelockTreasury"
SendShape(k, i, s) ==
    \/ s.cmd.name = "upgrade" /\ s.cmd.field \in Sidecars
    \/ /\ s.cmd.name = "authority" /\ s.cmd.field = "policy"
       /\ s.via = "deployer" /\ k = 3 /\ i = 6
    \/ s.cmd.name \in {"initLiq", "stdTempl"}
TransferShape(k, i, s) ==
    /\ k = 7 /\ i = 2
    /\ s["ops"] = "timelockOps" /\ s["treasury"] = "timelockTreasury"
    /\ s["emergency"] = "timelockEmergency"
ResolveShape(s) ==
    /\ s.delay \in Nat
    /\ \/ s.type = "treasury" /\ s.cmd = Install("warm")
       \/ s.type = "ops" /\ s.cmd \in {InitLiq, StdTempl}
SetDelayShape(s) ==
    s.type \in {"ops", "treasury"} /\ s.newDelay \in Nat /\ s.oldDelay \in Nat

Shape(k, i, s) ==
    /\ s.op = "mapSalt" => k = 2 /\ i = 1
    /\ s.op = "inflate" => InflateShape(k, i, s)
    /\ s.op = "create2" => k = 2 /\ i = 3
    /\ s.op = "send" => SendShape(k, i, s)
    /\ s.op = "transfer" => TransferShape(k, i, s)
    /\ s.op = "resolve" => ResolveShape(s)
    /\ s.op = "setDelay" => SetDelayShape(s)
    /\ s.op = "readDex" => k = 2
    /\ Writes(s.op) => k \notin Silent
    /\ k = 2 /\ i = 1 => s.op = "mapSalt"
    /\ k = 3 /\ i = 1 => s.op = "ref" /\ s.field = "deployer"
    /\ k = 6 /\ i = 1 => s.op = "inflate"
    /\ k = 3 /\ i = 6 => s.op = "send" /\ s.cmd.name = "authority"
    /\ k = 3 /\ i = 7 => s.op = "print"
    /\ k = 7 /\ i = 2 => s.op = "transfer"

ScriptFacts(k) ==
    /\ Len(Scripts[k]) \in Nat
    /\ k = 3 => Len(Scripts[k]) = 7
    /\ k = 7 => Len(Scripts[k]) = 2
    /\ \A i \in 1 .. Len(Scripts[k]) : Shape(k, i, Scripts[k][i])
    /\ \A i \in 2 .. Len(Scripts[k]) :
          Writes(Scripts[k][i - 1].op) => Scripts[k][i].op \in {"inflate", "readDex", "print"}

\* The first script, and so on.
LEMMA ShapeOf1 == ScriptFacts(1)
<1>1. Scripts[1] = Step1
  BY DEF Scripts
<1>2. Len(Step1) = 2 /\ Step1[1] = InflateAddr("deployer", "deployer", {})
      /\ Step1[2] = PrintAddrs
  BY DEF Step1
<1>3. Shape(1, 1, Step1[1]) /\ Shape(1, 2, Step1[2]) /\ Step1[2].op = "print"
  BY <1>2 DEF Shape, InflateShape, InflateAddr, PrintAddrs, Kinds, Fields, Multisigs,
              Writes, Silent, AltStep
<1>4. \A i \in 1 .. 2 : i = 1 \/ i = 2
  OBVIOUS
<1> QED  BY <1>1, <1>2, <1>3, <1>4 DEF ScriptFacts

LEMMA ShapeOf2 == ScriptFacts(2)
<1>1. Scripts[2] = Step2
  BY DEF Scripts
<1>2. /\ Len(Step2) = 5
      /\ Step2[1] = MapSalt /\ Step2[2] = RefContract("deployer")
      /\ Step2[3] = Create2 /\ Step2[4] = ReadDex /\ Step2[5] = PrintAddrs
  BY DEF Step2
<1>3. /\ \A i \in 1 .. 5 : Shape(2, i, Step2[i])
      /\ \A i \in 2 .. 5 : Writes(Step2[i - 1].op) => Step2[i].op = "print"
  BY <1>2 DEF Shape, MapSalt, RefContract, Create2, ReadDex, PrintAddrs,
              Writes, Silent, AltStep
<1> QED  BY <1>1, <1>2, <1>3 DEF ScriptFacts

LEMMA ShapeOf3 == ScriptFacts(3)
<1>1. Scripts[3] = Step3
  BY DEF Scripts
<1>2. /\ Len(Step3) = 7
      /\ Step3[1] = RefContract("deployer")
      /\ Step3[2] = InflateAddr("cold", "cold", {})
      /\ Step3[3] = InflateAddr("policy", "policy", {"dex"})
      /\ Step3[4] = PrintAddrs
      /\ Step3[5] = Send("deployer", Install("cold"))
      /\ Step3[6] = Send("deployer", Authority("policy"))
      /\ Step3[7] = PrintAddrs
  BY DEF Step3
<1>3. /\ \A i \in 1 .. 7 : Shape(3, i, Step3[i])
      /\ \A i \in 2 .. 7 : Writes(Step3[i - 1].op) => Step3[i].op \in {"inflate", "print"}
  BY <1>2 DEF Shape, InflateShape, SendShape, RefContract, InflateAddr, PrintAddrs,
              Send, Install, Authority, Kinds, Fields, Multisigs, Sidecars,
              Writes, Silent, AltStep
<1> QED  BY <1>1, <1>2, <1>3 DEF ScriptFacts

LEMMA ShapeOf4 == ScriptFacts(4)
<1>1. Scripts[4] = Step4
  BY DEF Scripts
<1>2. Len(Step4Order) = 10 /\ \A j \in 1 .. 10 : Step4Order[j] \in Sidecars \cup {"policy", "query", "impact"}
  BY DEF Step4Order, Sidecars
<1>3. Len(Step4) = 20
  BY <1>2 DEF Step4
<1>4. ASSUME NEW i \in 1 .. 20
      PROVE  \/ \E f \in Sidecars \cup {"policy", "query", "impact"} :
                   Step4[i] = InflateAddr(f, f, CtorArgs(f))
             \/ Step4[i] = PrintAddrs /\ i % 2 = 0
  BY <1>2 DEF Step4
<1>5. ASSUME NEW i \in 2 .. 20, Writes(Step4[i - 1].op)
      PROVE  Step4[i].op = "print"
  <2>1. i - 1 \in 1 .. 20 /\ (i - 1) % 2 = 1
    BY <1>2, <1>5 DEF Step4, PrintAddrs, Writes
  <2> QED  BY <1>2, <2>1 DEF Step4, PrintAddrs
<1>6. \A i \in 1 .. 20 : Shape(4, i, Step4[i])
  BY <1>4 DEF Shape, InflateShape, InflateAddr, PrintAddrs, Kinds, Fields, Multisigs,
              Sidecars, Timelocks, Writes, Silent, AltStep
<1> QED  BY <1>1, <1>3, <1>5, <1>6 DEF ScriptFacts

LEMMA ShapeOf5 == ScriptFacts(5)
<1>1. Scripts[5] = Step5
  BY DEF Scripts
<1>2. Len(Step5Order) = 6 /\ \A j \in 1 .. 6 : Step5Order[j] \in Sidecars
  BY DEF Step5Order, Sidecars
<1>3. Len(Step5) = 7
  BY <1>2 DEF Step5
<1>4. ASSUME NEW i \in 1 .. 7
      PROVE  \/ Step5[i] = RefContract("policy")
             \/ \E f \in Sidecars : Step5[i] = Send("treasury", Install(f))
  BY <1>2 DEF Step5
<1>5. /\ \A i \in 1 .. 7 : Shape(5, i, Step5[i])
      /\ \A i \in 2 .. 7 : ~Writes(Step5[i - 1].op)
  <2>1. ASSUME NEW i \in 1 .. 7
        PROVE  Shape(5, i, Step5[i]) /\ ~Writes(Step5[i].op)
    <3>1. CASE Step5[i] = RefContract("policy")
      BY <3>1 DEF Shape, RefContract, Writes
    <3>2. ASSUME NEW f \in Sidecars, Step5[i] = Send("treasury", Install(f))
          PROVE  Shape(5, i, Step5[i]) /\ ~Writes(Step5[i].op)
      BY <3>2 DEF Shape, SendShape, Send, Install, Writes
    <3> QED  BY <1>4, <3>1, <3>2
  <2> QED  BY <2>1
<1> QED  BY <1>1, <1>3, <1>5 DEF ScriptFacts

LEMMA ShapeOf6 == ScriptFacts(6)
<1>1. Scripts[6] = Step6
  BY DEF Scripts
<1>2. /\ Len(Step6) = 6
      /\ Step6[1] = InflateAddr("timelockTreasury", "timelockTreasury", {"multisigTreasury"})
      /\ Step6[2] = PrintAddrs
      /\ Step6[3] = InflateAddr("timelockOps", "timelockOps", {"multisigOps"})
      /\ Step6[4] = PrintAddrs
      /\ Step6[5] = InflateAddr("timelockEmergency", "timelockTreasury", {"multisigEmergency"})
      /\ Step6[6] = PrintAddrs
  BY DEF Step6
<1>3. /\ \A i \in 1 .. 6 : Shape(6, i, Step6[i])
      /\ \A i \in 2 .. 6 : Writes(Step6[i - 1].op) => Step6[i].op = "print"
  BY <1>2 DEF Shape, InflateShape, InflateAddr, PrintAddrs, Kinds, Fields, Multisigs,
              Timelocks, Writes, Silent, AltStep
<1> QED  BY <1>1, <1>2, <1>3 DEF ScriptFacts

LEMMA ShapeOf7 == ScriptFacts(7)
<1>1. Scripts[7] = Step7
  BY DEF Scripts
<1>2. /\ Len(Step7) = 2 /\ Step7[1] = RefContract("policy")
      /\ Step7[2] = TransferGovernance("timelockOps", "timelockTreasury", "timelockEmergency")
  BY DEF Step7
<1>3. \A i \in 1 .. 2 : Shape(7, i, Step7[i]) /\ ~Writes(Step7[i].op)
  BY <1>2 DEF Shape, TransferShape, RefContract, TransferGovernance, Writes
<1> QED  BY <1>1, <1>2, <1>3 DEF ScriptFacts

LEMMA ShapeOf8 == ScriptFacts(8)
<1>1. Scripts[8] = Step8
  BY DEF Scripts
<1>2. Len(Step8) = 1 /\ Step8[1] = PrintResolution("treasury", Install("warm"), 30)
  BY DEF Step8
<1>3. \A i \in 1 .. 1 : Shape(8, i, Step8[i]) /\ ~Writes(Step8[i].op)
  BY <1>2 DEF Shape, ResolveShape, PrintResolution, Writes
<1> QED  BY <1>1, <1>2, <1>3 DEF ScriptFacts

LEMMA ShapeOf9 == ScriptFacts(9)
<1>1. Scripts[9] = Step9
  BY DEF Scripts
<1>2. /\ Len(Step9) = 2
      /\ Step9[1] = PrintResolution("ops", InitLiq, 30)
      /\ Step9[2] = PrintResolution("ops", StdTempl, 30)
  BY DEF Step9, INIT_TIMELOCK_DELAY
<1>3. \A i \in 1 .. 2 : Shape(9, i, Step9[i]) /\ ~Writes(Step9[i].op)
  BY <1>2 DEF Shape, ResolveShape, PrintResolution, Writes
<1> QED  BY <1>1, <1>2, <1>3 DEF ScriptFacts

LEMMA ShapeOf10 == ScriptFacts(10)
<1>1. Scripts[10] = Step10
  BY DEF Scripts
<1>2. /\ Len(Step10) = 2
      /\ Step10[1] = PrintTimelockSet("ops", 172800, 30)
      /\ Step10[2] = PrintTimelockSet("treasury", 172800, 30)
  BY DEF Step10, INIT_TIMELOCK_DELAY, TwoDays
<1>3. \A i \in 1 .. 2 : Shape(10, i, Step10[i]) /\ ~Writes(Step10[i].op)
  BY <1>2 DEF Shape, SetDelayShape, PrintTimelockSet, Writes
<1> QED  BY <1>1, <1>2, <1>3 DEF ScriptFacts

LEMMA ShapeOf11 == ScriptFacts(11)
<1>1. Scripts[11] = Step6Alt
  BY DEF Scripts
<1>2. /\ Len(Step6Alt) = 3 /\ Step6Alt[1] = RefContract("policy")
      /\ Step6Alt[2] = Send("ops", InitLiq) /\ Step6Alt[3] = Send("ops", StdTempl)
  BY DEF Step6Alt
<1>3. \A i \in 1 .. 3 : Shape(11, i, Step6Alt[i]) /\ ~Writes(Step6Alt[i].op)
  BY <1>2 DEF Shape, SendShape, RefContract, Send, InitLiq, StdTempl, Writes
<1> QED  BY <1>1, <1>2, <1>3 DEF ScriptFacts

LEMMA ScriptsHaveShape == \A k \in 1 .. 11 : ScriptFacts(k)
BY ShapeOf1, ShapeOf2, ShapeOf3, ShapeOf4, ShapeOf5, ShapeOf6, ShapeOf7, ShapeOf8,
   ShapeOf9, ShapeOf10, ShapeOf11

-----------------------------------------------------------------------------
(***************************************************************************)
(* Addresses and the state of the dex                                      *)
(***************************************************************************)

LEMMA RecordableOf ==
    /\ \A f \in Fields \ (Multisigs \cup {"timelockEmergency"}) :
          Recordable(f) = {Empty} \cup Copies(f)
    /\ Recordable("timelockEmergency") = {Empty} \cup TimelockCopies
    /\ \A m \in Multisigs : Recordable(m) = {MultisigAddr(m)}
    /\ Sidecars \subseteq Fields \ (Multisigs \cup {"timelockEmergency"})
BY DEF Recordable, Fields, Multisigs, Timelocks, Sidecars

LEMMA CopiesApart ==
    /\ \A f \in Fields : \A a \in Copies(f) : a.kind = f /\ a # Empty /\ a # Wallet
    /\ \A f \in Fields : \A n \in 1 .. MaxCopies : Addr(f, n) \in Copies(f)
    /\ \A t \in Timelocks : Copies(t) \subseteq TimelockCopies
    /\ \A a \in TimelockCopies : a.kind \in Timelocks /\ a # Empty /\ a # Wallet
    /\ Dex \in Copies("dex") /\ SaltedDeployer \in Copies("deployer")
    /\ Wallet # Empty /\ Empty.kind \notin Kinds
<1>1. /\ \A f \in Fields : \A a \in Copies(f) : a.kind = f
      /\ Timelocks \subseteq Fields
      /\ Empty.kind \notin Fields /\ Wallet.kind \notin Fields /\ Wallet # Empty
  BY DEF Copies, Addr, Empty, Wallet, Fields, Sidecars, Multisigs, Timelocks
<1>2. MaxCopies \in Nat /\ MaxCopies >= 1
  BY DeployAssumption
<1> QED  BY <1>1, <1>2 DEF Copies, TimelockCopies, Dex, SaltedDeployer, Kinds

LEMMA BookEntries ==
    ASSUME NEW b \in AddressBook
    PROVE  /\ \A f \in Fields : b[f] \in Recordable(f) /\ b[f] \in AllAddrs
           /\ DOMAIN b = Fields
BY DEF AddressBook

LEMMA BookUpdate ==
    ASSUME NEW b \in AddressBook, NEW f \in Fields, NEW a \in Recordable(f)
    PROVE  [b EXCEPT ![f] = a] \in AddressBook
BY DEF AddressBook, AllAddrs

LEMMA ProxyDistinct ==
    /\ \A f, g \in Sidecars : ProxyIdx[f] = ProxyIdx[g] => f = g
    /\ \A f \in Sidecars : ProxyIdx[f] \in Slots /\ ProxyIdx[f] \in Nat
    /\ ProxyIdx["warm"] = ProxyIdx.warm
BY DEF ProxyIdx, Sidecars, Slots

DexTyped(d) ==
    d \in DexStates /\ \A f \in Sidecars : d.proxies[ProxyIdx[f]] \in Recordable(f)

LEMMA AfterUpgrade ==
    ASSUME NEW d, DexTyped(d), NEW f \in Sidecars, NEW a \in Copies(f)
    PROVE  LET e == DexAfter(d, UpgradeCmd(a, ProxyIdx[f]))
           IN  /\ DexTyped(e) /\ e.authority = d.authority
               /\ e.proxies[ProxyIdx[f]] = a
               /\ \A g \in Sidecars \ {f} : e.proxies[ProxyIdx[g]] = d.proxies[ProxyIdx[g]]
<1> DEFINE e == DexAfter(d, UpgradeCmd(a, ProxyIdx[f]))
<1>1. e = [d EXCEPT !.proxies[ProxyIdx[f]] = a]
  <2>1. UpgradeCmd(a, ProxyIdx[f]) = [code |-> 21, contract |-> a, slot |-> ProxyIdx[f]]
    BY DEF UpgradeCmd, PROTOCOL_UPGRADE_CMD
  <2> QED  BY <2>1 DEF DexAfter, PROTOCOL_AUTH_TRANSFER_CMD, PROTOCOL_UPGRADE_CMD,
                       PROTOCOL_HOT_OPEN_CMD
<1>2. a \in Installed /\ a \in Recordable(f)
  BY RecordableOf DEF Installed
<1>3. e \in DexStates
  BY <1>1, <1>2, ProxyDistinct DEF DexTyped, DexStates
<1>4. /\ e.proxies[ProxyIdx[f]] = a /\ e.authority = d.authority
      /\ \A g \in Sidecars \ {f} : e.proxies[ProxyIdx[g]] = d.proxies[ProxyIdx[g]]
  BY <1>1, ProxyDistinct DEF DexTyped, DexStates
<1> QED  BY <1>2, <1>3, <1>4 DEF DexTyped

LEMMA AfterAuthority ==
    ASSUME NEW d, DexTyped(d), NEW p \in Policies
    PROVE  LET e == DexAfter(d, AuthTransferCmd(p))
           IN  DexTyped(e) /\ e.authority = p /\ e.proxies = d.proxies
<1>1. DexAfter(d, AuthTransferCmd(p)) = [d EXCEPT !.authority = p]
  <2>1. AuthTransferCmd(p) = [code |-> 20, authority |-> p]
    BY DEF AuthTransferCmd, PROTOCOL_AUTH_TRANSFER_CMD
  <2> QED  BY <2>1 DEF DexAfter, PROTOCOL_AUTH_TRANSFER_CMD, PROTOCOL_UPGRADE_CMD,
                       PROTOCOL_HOT_OPEN_CMD
<1> QED  BY <1>1 DEF DexTyped, DexStates

LEMMA AfterParams ==
    ASSUME NEW d, DexTyped(d),
           NEW c \in {InitLiqCmd(Params).protocolCmd, PoolStdTemplCmd(Params).protocolCmd}
    PROVE  LET e == DexAfter(d, c)
           IN  DexTyped(e) /\ e.authority = d.authority /\ e.proxies = d.proxies
<1>1. CASE c = InitLiqCmd(Params).protocolCmd
  <2>1. DexAfter(d, c) = [d EXCEPT !.initLiq = Params.initLiq]
    BY <1>1 DEF DexAfter, InitLiqCmd, Cmd, PROTOCOL_AUTH_TRANSFER_CMD,
                PROTOCOL_UPGRADE_CMD, PROTOCOL_HOT_OPEN_CMD
  <2> QED  BY <2>1 DEF DexTyped, DexStates
<1>2. CASE c = PoolStdTemplCmd(Params).protocolCmd
  <2>1. c.code = 110
    BY <1>2 DEF PoolStdTemplCmd, Cmd
  <2>2. DexAfter(d, c) = [d EXCEPT !.templ = c]
    BY <2>1 DEF DexAfter, PROTOCOL_AUTH_TRANSFER_CMD,
                PROTOCOL_UPGRADE_CMD, PROTOCOL_HOT_OPEN_CMD
  <2> QED  BY <1>2, <2>2 DEF DexTyped, DexStates
<1> QED  BY <1>1, <1>2

-----------------------------------------------------------------------------
(***************************************************************************)
(* The statement a script is at                                            *)
(***************************************************************************)

LEMMA AtShape ==
    ASSUME Types, NEW op, AtStatement(op)
    PROVE  /\ running \in 1 .. 11 /\ Script = Scripts[running]
           /\ pc \in 1 .. Len(Script) /\ Len(Script) \in Nat
           /\ Statement.op = op /\ Shape(running, pc, Statement)
           /\ pc > 1 /\ Writes(Script[pc - 1].op) => op \in {"inflate", "readDex", "print"}
           /\ running = 3 => Len(Script) = 7
           /\ running = 7 => Len(Script) = 2
<1>1. running \in 1 .. 11 /\ Script = Scripts[running] /\ pc \in 1 .. Len(Script)
  BY DEF Types, AtStatement, Script, AltStep
<1>2. Statement.op = op
  BY DEF AtStatement, Statement
<1>3. ScriptFacts(running)
  BY <1>1, ScriptsHaveShape
<1>4. Len(Script) \in Nat /\ Shape(running, pc, Statement)
  BY <1>1, <1>3 DEF ScriptFacts, Statement
<1>5. ASSUME pc > 1, Writes(Script[pc - 1].op)
      PROVE  op \in {"inflate", "readDex", "print"}
  <2>1. pc \in 2 .. Len(Script)
    BY <1>1, <1>4, <1>5
  <2> QED  BY <1>1, <1>2, <1>3, <1>5, <2>1 DEF ScriptFacts, Statement
<1> QED  BY <1>1, <1>2, <1>3, <1>4, <1>5 DEF ScriptFacts

LEMMA HasPrinted ==
    ASSUME Types, Books, NEW op, AtStatement(op), op \notin {"inflate", "readDex", "print"}
    PROVE  addrs = logged
BY AtShape DEF Books

\* After a statement the script is at the next one.
LEMMA Onward ==
    ASSUME Types, NEW op, AtStatement(op), pc' = pc + 1, running' = running
    PROVE  /\ Script' = Script /\ pc' \in 1 .. Len(Script') + 1
           /\ running' \in 0 .. AltStep /\ running \notin {0}
           /\ pc' > 1 /\ Script'[pc' - 1].op = op
           /\ Writes(op) => running \notin Silent
           /\ running = 2 => pc > 1 \/ op = "mapSalt"
           /\ running = 3 => pc > 1 \/ (op = "ref" /\ Statement.field = "deployer")
           /\ running = 6 => pc > 1 \/ op = "inflate"
           /\ running = 3 /\ pc' > 6 =>
                \/ pc > 6
                \/ op = "send" /\ Statement.cmd.name = "authority"
           /\ running = 7 /\ pc' > 2 => pc > 2 \/ op = "transfer"
<1>1. /\ running \in 1 .. 11 /\ pc \in 1 .. Len(Script) /\ Len(Script) \in Nat
      /\ Statement.op = op /\ Shape(running, pc, Statement)
  BY AtShape
<1>2. Script' = Script
  BY DEF Script
<1> QED  BY <1>1, <1>2 DEF Shape, Statement, AltStep

-----------------------------------------------------------------------------
(***************************************************************************)
(* Frames                                                                  *)
(***************************************************************************)

\* The part of the book that a step may not lose.
Kept(b, c) == \A f \in Fields \ {"deployer"} : b[f] # Empty => c[f] = b[f]

OwnersHold ==
    \A t \in DOMAIN Owners :
        addrs[t] # Empty => locks[addrs[t]].owner = MultisigAddr(Owners[t])

LEMMA KeptParts ==
    ASSUME NEW b, NEW c, Kept(b, c)
    PROVE  /\ \A f \in Sidecars \cup Timelocks \cup {"policy"} :
                b[f] # Empty => c[f] = b[f]
           /\ Sidecars \cup Timelocks \cup {"policy"} \subseteq Fields
BY DEF Kept, Fields, Sidecars, Timelocks, Multisigs

\* Nobody's charge changes as long as the books only grow.
LEMMA ChargeFrame ==
    ASSUME Types, Charge, Kept(book, book'), Kept(logged, logged'),
           dex' = dex, roles' = roles, count'["dex"] = count["dex"],
           done' >= 3 => \/ done >= 3
                         \/ dex.authority = book'["policy"] /\ book'["policy"] # Empty,
           done' >= 7 => done >= 7 \/ roles[book'["policy"]] # AllWallet,
           OwnersHold',
           running' = 3 /\ pc' > 6 => dex.authority = addrs'["policy"] /\ addrs'["policy"] # Empty,
           running' = 7 /\ pc' > 2 => roles[book'["policy"]] # AllWallet
    PROVE  Charge'
<1>1. InForceIsRecorded'
  <2>1. dex.authority \in {Empty, SaltedDeployer, logged'["policy"]}
    BY KeptParts DEF Charge, InForceIsRecorded
  <2>2. \A f \in Sidecars : dex.proxies[ProxyIdx[f]] \in {Empty, logged'[f]}
    BY KeptParts DEF Charge, InForceIsRecorded
  <2>3. ASSUME NEW p \in Policies, NEW r \in Roles
        PROVE  roles[p][r] \in {Wallet} \cup {logged'[t] : t \in Timelocks}
    <3>1. roles[p][r] \in TimelockCopies \cup {Wallet}
      BY DEF Types
    <3>2. CASE roles[p][r] # Wallet
      <4>1. PICK t \in Timelocks : roles[p][r] = logged[t]
        BY <3>2 DEF Charge, InForceIsRecorded
      <4> QED  BY <3>1, <3>2, <4>1, KeptParts, CopiesApart
    <3> QED  BY <3>2
  <2> QED  BY <2>1, <2>2, <2>3 DEF InForceIsRecorded
<1>2. done' >= 3 => dex.authority = book'["policy"] /\ book'["policy"] # Empty
  BY KeptParts DEF Charge
<1>3. ASSUME NEW p \in Policies
      PROVE  \/ roles[p] = AllWallet
             \/ /\ roles[p] = Handed(book')
                /\ \A t \in Timelocks : book'[t] # Empty
  <2>1. CASE \A t \in Timelocks : book[t] # Empty
    <3>1. \A t \in Timelocks : book'[t] = book[t]
      BY <2>1, KeptParts
    <3>2. Handed(book') = Handed(book)
      BY <3>1 DEF Handed, Timelocks, Roles
    <3> QED  BY <2>1, <3>1, <3>2 DEF Charge
  <2>2. CASE ~\A t \in Timelocks : book[t] # Empty
    BY <2>2 DEF Charge
  <2> QED  BY <2>1, <2>2
<1>4. done' >= 7 => roles[book'["policy"]] # AllWallet
  <2>1. done >= 7 => book'["policy"] = book["policy"]
    BY KeptParts DEF Charge, Types
  <2> QED  BY <2>1 DEF Charge, AllWallet
<1> QED  BY <1>1, <1>2, <1>3, <1>4 DEF Charge, OwnersHold, AllWallet

\* The dex changes and nothing else does.
LEMMA ChargeDex ==
    ASSUME Types, Charge, InForceIsRecorded',
           UNCHANGED <<roles, locks, book, addrs, done>>,
           count'["dex"] = 0 => dex'.authority = Empty,
           running' = 3 /\ pc' > 6 => dex'.authority = addrs["policy"] /\ addrs["policy"] # Empty,
           done >= 3 => dex'.authority = dex.authority,
           running' = 7 /\ pc' > 2 => roles[book["policy"]] # AllWallet
    PROVE  Charge'
<1>1. \A p \in Policies :
          \/ roles'[p] = AllWallet
          \/ /\ roles'[p] = Handed(book')
             /\ \A t \in Timelocks : book'[t] # Empty
  <2>1. \A p \in Policies :
          \/ roles[p] = AllWallet
          \/ roles[p] = Handed(book) /\ \A t \in Timelocks : book[t] # Empty
    BY DEF Charge
  <2>2. roles' = roles /\ book' = book /\ Handed(book') = Handed(book)
    OBVIOUS
  <2> QED  BY <2>1, <2>2
<1>2. OwnersHold'
  BY DEF Charge, OwnersHold
<1>3. /\ done' >= 3 => dex'.authority = book'["policy"] /\ book'["policy"] # Empty
      /\ done' >= 7 => roles'[book'["policy"]] # AllWallet
  BY DEF Charge
<1>4. /\ running' = 3 /\ pc' > 6 => dex'.authority = addrs'["policy"] /\ addrs'["policy"] # Empty
      /\ running' = 7 /\ pc' > 2 => roles'[book'["policy"]] # AllWallet
  OBVIOUS
<1> QED  BY <1>1, <1>2, <1>3, <1>4 DEF Charge, OwnersHold, AllWallet

LEMMA KnownFrame ==
    ASSUME Kept(logged, logged'), NEW c, KnownCall(c)
    PROVE  KnownCall(c)'
<1>1. Harmless \subseteq Harmless'
  BY KeptParts DEF Harmless, Sidecars
<1> QED  BY <1>1 DEF KnownCall, Resolution, DelaySet

LEMMA CallsFrame ==
    ASSUME Calls, Kept(logged, logged'), agenda' = agenda, pending' \subseteq pending
    PROVE  Calls'
<1>1. \A m \in Multisigs : \A i \in 1 .. Len(agenda[m]) : KnownCall(agenda[m][i])'
  BY KnownFrame DEF Calls
<1>2. \A c \in pending : KnownCall(c)'
  BY KnownFrame DEF Calls
<1> QED  BY <1>1, <1>2 DEF Calls

LEMMA KeptSame == \A b : Kept(b, b)
BY DEF Kept

LEMMA GrownKept == \A b, c : Grown(b, c) => Kept(b, c)
BY DEF Kept, Grown

-----------------------------------------------------------------------------
(***************************************************************************)
(* The actions, one by one                                                 *)
(***************************************************************************)

LEMMA QuietKeeps == ASSUME IInv, DoRef \/ DoMapSalt PROVE IInv'
<1>0. Types /\ Books /\ Charge /\ Calls
  BY DEF IInv
<1>1. PICK op \in {"ref", "mapSalt"} :
        /\ AtStatement(op) /\ (op = "mapSalt" => MapSaltOkay) /\ (op = "ref" => RefOkay)
        /\ pc' = pc + 1 /\ running' = running
        /\ UNCHANGED <<count, dex, roles, locks, agenda, pending, prints, book,
                       done, mishaps, addrs, logged>>
  BY DEF DoRef, DoMapSalt, chain, signing
<1>2. /\ Script' = Script /\ pc' \in 1 .. Len(Script') + 1
      /\ running' \in 0 .. AltStep /\ running \notin {0}
      /\ running = 2 => pc > 1 \/ op = "mapSalt"
      /\ running = 3 => pc > 1 \/ (op = "ref" /\ Statement.field = "deployer")
      /\ running = 6 => pc > 1 \/ op = "inflate"
      /\ running = 3 /\ pc' > 6 => pc > 6 \/ op = "send"
      /\ running = 7 /\ pc' > 2 => pc > 2 \/ op = "transfer"
  BY <1>0, <1>1, Onward
<1>3. addrs = logged
  BY <1>0, <1>1, HasPrinted
<1>4. Types'
  BY <1>0, <1>1, <1>2 DEF Types
<1>5. Books'
  BY <1>0, <1>1, <1>2, <1>3 DEF Books, MapSaltOkay, RefOkay
<1>6. Charge'
  BY <1>0, <1>1, <1>2, ChargeFrame, KeptSame DEF Charge, OwnersHold
<1>7. Calls'
  BY <1>0, <1>1, CallsFrame, KeptSame
<1> QED  BY <1>4, <1>5, <1>6, <1>7 DEF IInv

LEMMA GrownTrans ==
    \A b, c, d : Grown(b, c) /\ Grown(c, d) => Grown(b, d) /\ Grown(d, d)
BY DEF Grown

LEMMA PrintKeeps == ASSUME IInv, DoPrint PROVE IInv'
<1>0. Types /\ Books /\ Charge /\ Calls
  BY DEF IInv
<1>1. /\ AtStatement("print") /\ pc' = pc + 1 /\ running' = running /\ logged' = addrs
      /\ UNCHANGED <<count, dex, roles, locks, agenda, pending, prints, book,
                     done, mishaps, addrs>>
  BY DEF DoPrint, chain, signing
<1>2. /\ Script' = Script /\ pc' \in 1 .. Len(Script') + 1
      /\ running' \in 0 .. AltStep
      /\ running = 2 => pc > 1
      /\ running = 3 => pc > 1
      /\ running = 6 => pc > 1
      /\ running = 3 /\ pc' > 6 => pc > 6
      /\ running = 7 /\ pc' > 2 => pc > 2
  BY <1>0, <1>1, Onward
<1>3. Kept(logged, logged')
  BY <1>0, <1>1, GrownKept DEF Books
<1>4. Types'
  BY <1>0, <1>1, <1>2 DEF Types
<1>5. Books'
  BY <1>0, <1>1, <1>2, GrownTrans DEF Books
<1>6. Charge'
  BY <1>0, <1>1, <1>2, <1>3, ChargeFrame, KeptSame DEF Charge, OwnersHold
<1>7. Calls'
  BY <1>0, <1>1, <1>3, CallsFrame
<1> QED  BY <1>4, <1>5, <1>6, <1>7 DEF IInv

\* An entry is written over nothing or over itself.
LEMMA WriteKeeps ==
    ASSUME IInv, NEW op \in {"inflate", "readDex"}, AtStatement(op),
           NEW f \in Kinds, NEW a \in Recordable(f),
           addrs' = [addrs EXCEPT ![f] = a], addrs[f] \in {Empty, a}, a # Empty,
           f = "dex" => a = Dex,
           f = "timelockEmergency" => a = addrs["timelockTreasury"],
           running = 6 /\ pc = 1 => f = "timelockTreasury",
           pc' = pc + 1, count'["dex"] = count["dex"], OwnersHold',
           UNCHANGED <<running, logged, book, dex, roles, agenda, pending, prints,
                       done, mishaps>>
    PROVE  {book, addrs, logged}' \subseteq AddressBook /\ Books' /\ Charge' /\ Calls'
<1>0. Types /\ Books /\ Charge /\ Calls
  BY DEF IInv
<1>1. /\ Script' = Script /\ pc' > 1 /\ Script'[pc' - 1].op = op
      /\ running \notin {0} /\ running \notin Silent
      /\ running = 2 => pc > 1
      /\ running = 3 => pc > 1
      /\ running = 3 /\ pc' > 6 => pc > 6
      /\ running = 7 /\ pc' > 2 => pc > 2
  BY <1>0, Onward DEF Writes
<1>2. /\ f \in Fields /\ addrs' \in AddressBook /\ addrs'[f] = a
      /\ \A g \in Fields \ {f} : addrs'[g] = addrs[g]
  <2>1. addrs \in AddressBook /\ f \in Fields
    BY <1>0 DEF Types, Kinds
  <2> QED  BY <2>1, BookUpdate, BookEntries
<1>3. Grown(addrs, addrs')
  BY <1>2 DEF Grown
<1>4. /\ {"dex", "timelockEmergency", "timelockTreasury", "deployer", "policy"} \subseteq Fields
      /\ f = "timelockTreasury" => addrs["timelockTreasury"] = Empty
                                   \/ a = addrs["timelockTreasury"]
  BY DEF Fields, Timelocks
<1>5. OneDex(addrs') /\ EmergencyShared(addrs')
  BY <1>0, <1>2, <1>4 DEF Books, OneDex, EmergencyShared
<1>6. Books'
  <2>1. running = 2 /\ pc' > 1 => addrs'["deployer"] = SaltedDeployer
    <3>1. SaltedDeployer # Empty
      BY CopiesApart, <1>4
    <3> QED  BY <1>0, <1>1, <1>3, <1>4, <3>1 DEF Books, Grown
  <2>6. running = 3 /\ pc' > 1 => addrs'["deployer"] # Empty
    BY <1>0, <1>1, <1>3, <1>4 DEF Books, Grown
  <2>2. running = 6 /\ pc' > 1 => addrs'["timelockTreasury"] # Empty
    <3>1. CASE pc = 1
      BY <3>1, <1>2
    <3>2. CASE pc > 1
      BY <3>2, <1>0, <1>3, <1>4 DEF Books, Grown
    <3> QED  BY <1>0, <3>1, <3>2, AtShape
  <2>3. Grown(logged, addrs')
    BY <1>0, <1>3, GrownTrans DEF Books
  <2>4. addrs' # logged' => pc' > 1 /\ Writes(Script'[pc' - 1].op)
    BY <1>1 DEF Writes
  <2>5. \A b \in {book, logged, addrs'} : OneDex(b) /\ EmergencyShared(b)
    BY <1>0, <1>5 DEF Books
  <2> QED  BY <1>0, <1>1, <2>1, <2>2, <2>3, <2>4, <2>5, <2>6 DEF Books
<1>7. Charge'
  <2>1. running' = 3 /\ pc' > 6 => dex.authority = addrs'["policy"] /\ addrs'["policy"] # Empty
    BY <1>0, <1>1, <1>3, <1>4 DEF Charge, Grown
  <2>2. running' = 7 /\ pc' > 2 => roles[book'["policy"]] # AllWallet
    BY <1>0, <1>1 DEF Charge
  <2> QED  BY <1>0, <2>1, <2>2, ChargeFrame, KeptSame
<1>8. Calls'
  BY <1>0, CallsFrame, KeptSame
<1> QED  BY <1>0, <1>2, <1>6, <1>7, <1>8 DEF Types

LEMMA ReadDexKeeps == ASSUME IInv, DoReadDex PROVE IInv'
<1>0. Types /\ Books /\ Charge /\ Calls
  BY DEF IInv
<1>1. /\ AtStatement("readDex") /\ pc' = pc + 1 /\ running' = running
      /\ addrs' = [addrs EXCEPT !["dex"] = Dex]
      /\ UNCHANGED <<count, dex, roles, locks, agenda, pending, prints, book,
                     done, mishaps, logged>>
  BY DEF DoReadDex, chain, signing
<1>2. /\ Script' = Script /\ pc' \in 1 .. Len(Script') + 1
      /\ running' \in 0 .. AltStep /\ running = 2
  <2>1. running = 2
    BY <1>0, <1>1, AtShape DEF Shape
  <2> QED  BY <1>0, <1>1, <2>1, Onward
<1>3. "dex" \in Kinds /\ Dex \in Recordable("dex") /\ Dex # Empty
  <2>1. "dex" \in Kinds /\ "dex" \in Fields \ (Multisigs \cup {"timelockEmergency"})
    BY DEF Kinds, Fields, Multisigs
  <2> QED  BY <2>1, RecordableOf, CopiesApart DEF Kinds
<1>4. addrs["dex"] \in {Empty, Dex}
  BY <1>0 DEF Books, OneDex
<1>5. OwnersHold'
  <2>1. \A t \in DOMAIN Owners : addrs'[t] = addrs[t]
    <3>1. DOMAIN Owners \subseteq Fields \ {"dex"}
      BY DEF Owners, Fields, Timelocks
    <3> QED  BY <1>0, <1>1, <3>1, <1>3, BookEntries DEF Types, Kinds
  <2> QED  BY <1>0, <1>1, <2>1 DEF Charge, OwnersHold
<1>6. {book, addrs, logged}' \subseteq AddressBook /\ Books' /\ Charge' /\ Calls'
  <2> DEFINE f == "dex"
             op == "readDex"
  <2>1. /\ f \in Kinds /\ Dex \in Recordable(f) /\ op \in {"inflate", "readDex"}
        /\ AtStatement(op) /\ addrs' = [addrs EXCEPT ![f] = Dex]
        /\ addrs[f] \in {Empty, Dex} /\ Dex # Empty
        /\ f # "timelockEmergency" /\ running # 6
        /\ count'["dex"] = count["dex"]
    BY <1>1, <1>2, <1>3, <1>4
  <2> HIDE DEF f, op
  <2> QED  BY <1>1, <1>5, <2>1, WriteKeeps
<1>7. Types'
  BY <1>0, <1>1, <1>2, <1>6 DEF Types
<1> QED  BY <1>6, <1>7 DEF IInv

\* What the loader of a contract does to the chain and to the book.
Inflated(f, a) ==
    /\ a # Empty
    /\ addrs' = [addrs EXCEPT ![f] = a] /\ addrs[f] \in {Empty, a}
    /\ f = "timelockEmergency" => a = addrs["timelockTreasury"]
    /\ running = 6 /\ pc = 1 => f = "timelockTreasury"
    /\ count' \in [Kinds -> 0 .. MaxCopies] /\ count'["dex"] = count["dex"]
    /\ locks' \in [TimelockCopies ->
          [owner : {Empty} \cup {MultisigAddr(m) : m \in Multisigs}, delay : Nat]]
    /\ OwnersHold'

LEMMA InflateEffect ==
    ASSUME Types, Books, Charge, DoInflate
    PROVE  \E f \in Kinds \ {"dex"} : \E a \in Recordable(f) : Inflated(f, a)
<1> DEFINE s == Statement
           f == Statement.field
           new == Addr(f, count[f] + 1)
<1>1. AtStatement("inflate") /\ InflateOkay
  BY DEF DoInflate
<1>2. InflateShape(running, pc, s)
  BY <1>1, AtShape DEF Shape
<1>3. f \in Kinds \ {"dex"} /\ f \in Fields
  BY <1>2 DEF InflateShape, Kinds
<1>4. /\ \A t \in {"timelockTreasury", "timelockOps", "timelockEmergency", "dex"} : t \in Fields
      /\ \A t \in Timelocks : t \in Fields /\ t \in Kinds
      /\ DOMAIN Owners = {"timelockTreasury", "timelockOps"} /\ DOMAIN Owners \subseteq Timelocks
      /\ "timelockEmergency" \in Timelocks
      /\ "dex" \in Kinds
  BY DEF Fields, Timelocks, Owners, Kinds, Multisigs
<1>5. addrs \in AddressBook
  BY DEF Types
<1>6. CASE addrs[s.at] # Empty
  <2> DEFINE a == addrs[s.at]
  <2>1. addrs' = [addrs EXCEPT ![f] = a] /\ count' = count /\ locks' = locks
    BY <1>6 DEF DoInflate
  <2>2. a \in Recordable(f) /\ a # Empty /\ addrs[f] \in {Empty, a}
        /\ (f = "timelockEmergency" => a = addrs["timelockTreasury"])
    <3>1. CASE s.at = f /\ f # "timelockEmergency"
      BY <1>3, <1>5, <1>6, <3>1, BookEntries
    <3>2. CASE f = "timelockEmergency" /\ s.at = "timelockTreasury"
      <4>1. a \in Copies("timelockTreasury")
        <5>1. "timelockTreasury" \in Fields \ (Multisigs \cup {"timelockEmergency"})
          BY DEF Fields, Timelocks, Multisigs
        <5> QED  BY <5>1, <1>5, <1>6, <3>2, BookEntries, RecordableOf
      <4>2. Copies("timelockTreasury") \subseteq TimelockCopies
        BY CopiesApart DEF Timelocks
      <4>3. addrs["timelockEmergency"] \in {Empty, a}
        BY <3>2 DEF Books, EmergencyShared
      <4> QED  BY <1>6, <3>2, <4>1, <4>2, <4>3, RecordableOf
    <3> QED  BY <1>2, <3>1, <3>2 DEF InflateShape
  <2>3. OwnersHold'
    <3>1. \A t \in DOMAIN Owners : addrs'[t] = addrs[t]
                                   \/ (addrs[t] = Empty /\ t = f)
      <4> SUFFICES ASSUME NEW t \in DOMAIN Owners
                   PROVE  addrs'[t] = addrs[t] \/ (addrs[t] = Empty /\ t = f)
        OBVIOUS
      <4>1. DOMAIN addrs = Fields /\ t \in Fields
        BY <1>4, <1>5, BookEntries
      <4> HIDE DEF a, f, s
      <4>2. CASE t = f
        BY <1>3, <2>1, <2>2, <4>1, <4>2
      <4>3. CASE t # f
        BY <1>3, <2>1, <4>1, <4>3
      <4> QED  BY <4>2, <4>3
    <3>2. s.at = f \/ f \notin DOMAIN Owners
      BY <1>2, <1>4 DEF InflateShape
    <3>3. \A t \in DOMAIN Owners : addrs'[t] = addrs[t]
      BY <1>6, <3>1, <3>2
    <3> QED  BY <2>1, <3>3 DEF Charge, OwnersHold
  <2>4. running = 6 /\ pc = 1 => f = "timelockTreasury"
    BY <1>2 DEF InflateShape
  <2>5. count \in [Kinds -> 0 .. MaxCopies]
        /\ locks \in [TimelockCopies ->
              [owner : {Empty} \cup {MultisigAddr(m) : m \in Multisigs}, delay : Nat]]
    BY DEF Types
  <2> QED  BY <1>3, <2>1, <2>2, <2>3, <2>4, <2>5 DEF Inflated
<1>7. CASE addrs[s.at] = Empty
  <2>1. /\ addrs' = [addrs EXCEPT ![f] = new]
        /\ count' = [count EXCEPT ![f] = @ + 1] /\ count[f] < MaxCopies
        /\ locks' = IF f \notin Timelocks THEN locks
                    ELSE [locks EXCEPT ![new] =
                            [owner |-> addrs[CHOOSE m \in s.args : TRUE],
                             delay |-> INIT_TIMELOCK_DELAY]]
    BY <1>1, <1>7 DEF DoInflate, InflateOkay
  <2>2. s.at = f /\ f # "timelockEmergency" /\ addrs[f] = Empty
    <3>1. s.at = "timelockTreasury" /\ running = 6 /\ pc > 1 => FALSE
      BY <1>7 DEF Books
    <3> QED  BY <1>2, <1>7, <3>1 DEF InflateShape
  <2>3. count[f] \in 0 .. MaxCopies /\ count[f] + 1 \in 1 .. MaxCopies
        /\ count' \in [Kinds -> 0 .. MaxCopies] /\ count'["dex"] = count["dex"]
    BY <1>3, <1>4, <2>1, DeployAssumption DEF Types
  <2>4. new \in Copies(f) /\ new # Empty /\ new \in Recordable(f)
    <3>1. f \in Fields \ (Multisigs \cup {"timelockEmergency"})
      BY <1>3, <2>2 DEF Kinds
    <3>2. new \in Copies(f)
      BY <1>3, <2>3 DEF Copies
    <3> QED  BY <3>1, <3>2, <1>3, CopiesApart, RecordableOf
  <2>5. f \in Timelocks => /\ f \in DOMAIN Owners /\ new \in TimelockCopies
                           /\ addrs[CHOOSE m \in s.args : TRUE] = MultisigAddr(Owners[f])
                           /\ Owners[f] \in Multisigs
    <3>1. ASSUME f \in Timelocks
          PROVE  f \in DOMAIN Owners /\ s.args = {Owners[f]} /\ Owners[f] \in Multisigs
      BY <3>1, <1>2, <2>2 DEF InflateShape, Timelocks, Owners, Multisigs
    <3>2. \A x : (CHOOSE m \in {x} : TRUE) = x
      OBVIOUS
    <3>3. \A m \in Multisigs : addrs[m] = MultisigAddr(m)
      BY <1>5, BookEntries, RecordableOf DEF Fields
    <3> QED  BY <3>1, <3>2, <3>3, <2>4, CopiesApart
  <2>6. locks' \in [TimelockCopies ->
              [owner : {Empty} \cup {MultisigAddr(m) : m \in Multisigs}, delay : Nat]]
    <3>1. INIT_TIMELOCK_DELAY \in Nat
      BY DEF INIT_TIMELOCK_DELAY
    <3> QED  BY <2>1, <2>5, <3>1 DEF Types
  <2>7. OwnersHold'
    <3> SUFFICES ASSUME NEW t \in DOMAIN Owners, addrs'[t] # Empty
                 PROVE  locks'[addrs'[t]].owner = MultisigAddr(Owners[t])
      BY DEF OwnersHold, Owners
    <3>1. CASE t = f
      <4>1. addrs'[t] = new /\ f \in Timelocks
        BY <3>1, <1>3, <1>4, <1>5, <2>1, BookEntries
      <4>2. locks'[new] = [owner |-> MultisigAddr(Owners[f]), delay |-> INIT_TIMELOCK_DELAY]
        BY <2>1, <2>5, <4>1 DEF Types
      <4> QED  BY <3>1, <4>1, <4>2
    <3>2. CASE t # f
      <4>1. addrs'[t] = addrs[t] /\ t \in Fields
        BY <3>2, <1>4, <1>5, <2>1, BookEntries
      <4>2. addrs[t] \in Copies(t)
        <5>1. t \in Fields \ (Multisigs \cup {"timelockEmergency"})
          BY <4>1, <1>4 DEF Timelocks, Multisigs
        <5> QED  BY <4>1, <5>1, <1>5, BookEntries, RecordableOf
      <4>3. addrs[t] # new
        BY <3>2, <4>1, <4>2, <2>4, <1>3, CopiesApart
      <4>4. locks'[addrs[t]] = locks[addrs[t]]
        <5>1. addrs[t] \in TimelockCopies
          BY <4>2, <1>4, CopiesApart
        <5> QED  BY <5>1, <4>3, <2>1, <2>5 DEF Types
      <4> QED  BY <4>1, <4>4 DEF Charge
    <3> QED  BY <3>1, <3>2
  <2> QED  BY <1>3, <2>1, <2>2, <2>3, <2>4, <2>6, <2>7, <1>2 DEF InflateShape, Inflated
<1> QED  BY <1>6, <1>7

LEMMA InflateKeeps == ASSUME IInv, DoInflate PROVE IInv'
<1>0. Types /\ Books /\ Charge /\ Calls
  BY DEF IInv
<1>1. /\ AtStatement("inflate") /\ pc' = pc + 1
      /\ UNCHANGED <<running, logged, book, dex, roles, agenda, pending, prints,
                     done, mishaps>>
  BY DEF DoInflate, signing
<1>2. PICK f \in Kinds \ {"dex"} : \E a \in Recordable(f) : Inflated(f, a)
  BY <1>0, InflateEffect
<1>3. PICK a \in Recordable(f) : Inflated(f, a)
  BY <1>2
<1>4. {book, addrs, logged}' \subseteq AddressBook /\ Books' /\ Charge' /\ Calls'
  <2> DEFINE op == "inflate"
  <2>1. op \in {"inflate", "readDex"} /\ AtStatement(op) /\ f # "dex"
    BY <1>1
  <2> HIDE DEF op
  <2> QED  BY <1>1, <1>3, <2>1, WriteKeeps DEF Inflated
<1>5. Types'
  <2>1. /\ Script' = Script /\ pc' \in 1 .. Len(Script') + 1
        /\ running' \in 0 .. AltStep
    BY <1>0, <1>1, Onward
  <2> QED  BY <1>0, <1>1, <1>3, <1>4, <2>1 DEF Types, Inflated
<1> QED  BY <1>4, <1>5 DEF IInv

-----------------------------------------------------------------------------
\* A statement that leaves the books alone.
LEMMA BooksFrame ==
    ASSUME Types, Books, NEW op, AtStatement(op),
           op \notin {"inflate", "readDex", "print", "mapSalt", "ref"},
           pc' = pc + 1, UNCHANGED <<running, addrs, logged, book>>
    PROVE  /\ Books' /\ Script' = Script /\ pc' \in 1 .. Len(Script') + 1
           /\ addrs = logged
<1>1. /\ Script' = Script /\ pc' \in 1 .. Len(Script') + 1
      /\ running' \in 0 .. AltStep /\ running \notin {0}
      /\ running = 2 => pc > 1
      /\ running = 3 => pc > 1
      /\ running = 6 => pc > 1
  BY Onward
<1>2. addrs = logged
  BY HasPrinted
<1> QED  BY <1>1, <1>2 DEF Books

\* A statement that changes the dex: the authority and the proxies count.
LEMMA Create2Keeps == ASSUME IInv, DoCreate2 PROVE IInv'
<1>0. Types /\ Books /\ Charge /\ Calls
  BY DEF IInv
<1>1. /\ AtStatement("create2") /\ Create2Okay /\ pc' = pc + 1
      /\ count' = [count EXCEPT !["dex"] = 1]
      /\ dex' = [dex EXCEPT !.authority = addrs["deployer"]]
      /\ UNCHANGED <<roles, locks, agenda, pending, prints, book, done, mishaps,
                     running, addrs, logged>>
  BY DEF DoCreate2, signing
<1>2. running = 2 /\ pc = 3
  BY <1>0, <1>1, AtShape DEF Shape
<1>3. addrs["deployer"] = SaltedDeployer
  BY <1>0, <1>2 DEF Books
<1>4. Books' /\ Script' = Script /\ pc' \in 1 .. Len(Script') + 1
  BY <1>0, <1>1, BooksFrame
<1>5. count["dex"] = 0 /\ dex.authority = Empty /\ ~(done >= 3)
  BY <1>0, <1>1 DEF Create2Okay, Charge
<1>6. /\ dex' \in DexStates /\ dex'.authority = SaltedDeployer /\ dex'.proxies = dex.proxies
      /\ count' \in [Kinds -> 0 .. MaxCopies] /\ count'["dex"] = 1
  <2>1. "dex" \in Kinds /\ 1 \in 0 .. MaxCopies
    BY DeployAssumption DEF Kinds, Fields, Multisigs
  <2> QED  BY <1>0, <1>1, <1>3, <2>1, CopiesApart DEF Types, DexStates
<1>7. Types'
  BY <1>0, <1>1, <1>4, <1>6 DEF Types
<1>8. Charge'
  <2>1. InForceIsRecorded'
    BY <1>0, <1>1, <1>6 DEF Charge, InForceIsRecorded
  <2>2. done \in 0 .. 10
    BY <1>0 DEF Types
  <2> QED  BY <1>0, <1>1, <1>2, <1>5, <1>6, <2>1, <2>2, ChargeDex
<1>9. Calls'
  BY <1>0, <1>1, CallsFrame, KeptSame
<1> QED  BY <1>4, <1>7, <1>8, <1>9 DEF IInv

LEMMA SendKeeps == ASSUME IInv, DoSend PROVE IInv'
<1> DEFINE c == Statement.cmd
<1>0. Types /\ Books /\ Charge /\ Calls
  BY DEF IInv
<1>1. /\ AtStatement("send") /\ SendOkay /\ pc' = pc + 1
      /\ dex' = DexAfter(dex, Fill(c).protocolCmd)
      /\ UNCHANGED <<count, roles, locks, agenda, pending, prints, book, done, mishaps,
                     running, addrs, logged>>
  BY DEF DoSend, signing
<1>2. SendShape(running, pc, Statement)
  BY <1>0, <1>1, AtShape DEF Shape
<1>3. Books' /\ Script' = Script /\ pc' \in 1 .. Len(Script') + 1 /\ addrs = logged
  BY <1>0, <1>1, BooksFrame
<1>4. /\ running = 3 /\ pc' > 6 => pc > 6 \/ c.name = "authority"
      /\ running = 7 /\ pc' > 2 => pc > 2
  BY <1>0, <1>1, Onward
<1>5. DexTyped(dex)
  BY <1>0 DEF Types, DexTyped
<1>6. CASE c.name # "authority"
  <2>1. /\ DexTyped(dex') /\ dex'.authority = dex.authority
        /\ \A g \in Sidecars : dex'.proxies[ProxyIdx[g]]
                                  \in {dex.proxies[ProxyIdx[g]], logged[g]}
    <3>1. CASE c.name = "upgrade" /\ c.field \in Sidecars
      <4> DEFINE f == c.field
                 a == addrs[c.field]
      <4>1. Fill(c).protocolCmd = UpgradeCmd(a, ProxyIdx[f])
        BY <3>1 DEF Fill, Cmd
      <4>2. a \in Copies(f) /\ f \in Sidecars /\ a = logged[f]
        <5>1. a # Empty
          BY <1>1, <3>1 DEF SendOkay, FillOkay
        <5>2. f \in Fields \ (Multisigs \cup {"timelockEmergency"}) /\ a \in Recordable(f)
          BY <1>0, <3>1, RecordableOf, BookEntries DEF Types
        <5> QED  BY <1>3, <3>1, <5>1, <5>2, RecordableOf
      <4> HIDE DEF f, a
      <4>3. dex' = DexAfter(dex, UpgradeCmd(a, ProxyIdx[f]))
        BY <1>1, <4>1
      <4> QED  BY <1>5, <4>2, <4>3, AfterUpgrade
    <3>2. CASE c.name \in {"initLiq", "stdTempl"}
      <4>1. Fill(c).protocolCmd
              \in {InitLiqCmd(Params).protocolCmd, PoolStdTemplCmd(Params).protocolCmd}
        BY <3>2 DEF Fill
      <4> QED  BY <1>1, <1>5, <4>1, AfterParams
    <3> QED  BY <1>2, <1>6, <3>1, <3>2 DEF SendShape
  <2>2. InForceIsRecorded'
    BY <1>0, <1>1, <2>1 DEF Charge, InForceIsRecorded
  <2>3. Charge'
    <3>1. /\ count["dex"] = 0 => dex.authority = Empty
          /\ running' = 3 /\ pc' > 6 => dex.authority = addrs["policy"] /\ addrs["policy"] # Empty
          /\ running' = 7 /\ pc' > 2 => roles[book["policy"]] # AllWallet
      BY <1>0, <1>1, <1>4, <1>6 DEF Charge
    <3> QED  BY <1>0, <1>1, <2>1, <2>2, <3>1, ChargeDex
  <2> QED  BY <1>0, <1>1, <1>3, <2>1, <2>3, CallsFrame, KeptSame DEF Types, DexTyped, IInv
<1>7. CASE c.name = "authority"
  <2>1. /\ c.field = "policy" /\ Statement.via = "deployer" /\ running = 3 /\ pc = 6
    BY <1>2, <1>7 DEF SendShape
  <2>2. {"policy", "deployer"} \subseteq Fields \ (Multisigs \cup {"timelockEmergency"})
    BY DEF Fields, Multisigs
  <2>3. /\ addrs["deployer"] = dex.authority /\ addrs["policy"] # Empty
        /\ Fill(c).protocolCmd = AuthTransferCmd(addrs["policy"])
    BY <1>1, <1>7, <2>1 DEF SendOkay, FillOkay, Fill, Cmd
  <2>4. addrs["policy"] \in Policies /\ addrs["deployer"] \in Copies("deployer")
    <3>1. addrs["deployer"] # Empty
      BY <1>0, <2>1 DEF Books
    <3> QED  BY <1>0, <2>2, <2>3, <3>1, BookEntries, RecordableOf DEF Types, Policies
  <2>5. ~(done >= 3) /\ count["dex"] # 0
    <3>1. done >= 3 => dex.authority \in Policies
      <4>1. book["policy"] # Empty => book["policy"] \in Policies
        BY <1>0, <2>2, BookEntries, RecordableOf DEF Types, Policies
      <4> QED  BY <1>0, <4>1 DEF Charge
    <3>2. dex.authority \notin Policies /\ dex.authority # Empty
      BY <2>2, <2>3, <2>4, CopiesApart DEF Policies
    <3> QED  BY <1>0, <3>1, <3>2 DEF Charge
  <2>6. DexTyped(dex') /\ dex'.authority = addrs["policy"] /\ dex'.proxies = dex.proxies
    BY <1>1, <1>5, <2>3, <2>4, AfterAuthority
  <2>7. InForceIsRecorded'
    BY <1>0, <1>1, <1>3, <2>6 DEF Charge, InForceIsRecorded
  <2>8. Charge'
    <3>1. done \in 0 .. 10
      BY <1>0 DEF Types
    <3> QED  BY <1>0, <1>1, <2>1, <2>3, <2>5, <2>6, <2>7, <3>1, ChargeDex
  <2> QED  BY <1>0, <1>1, <1>3, <2>6, <2>8, CallsFrame, KeptSame DEF Types, DexTyped, IInv
<1> QED  BY <1>6, <1>7

LEMMA TransferKeeps == ASSUME IInv, DoTransferGovernance PROVE IInv'
<1> DEFINE p == addrs["policy"]
<1>0. Types /\ Books /\ Charge /\ Calls
  BY DEF IInv
<1>1. /\ AtStatement("transfer") /\ TransferOkay /\ pc' = pc + 1
      /\ roles' = [roles EXCEPT ![p] = [r \in Roles |-> addrs[Statement[r]]]]
      /\ UNCHANGED <<count, dex, locks, agenda, pending, prints, book, done, mishaps,
                     running, addrs, logged>>
  BY DEF DoTransferGovernance, signing
<1>2. TransferShape(running, pc, Statement)
  BY <1>0, <1>1, AtShape DEF Shape
<1>3. Books' /\ Script' = Script /\ pc' \in 1 .. Len(Script') + 1
  BY <1>0, <1>1, BooksFrame
<1>4. running = 7 /\ addrs = book /\ logged = book
  BY <1>0, <1>2 DEF Books, TransferShape, Silent
<1>5. [r \in Roles |-> addrs[Statement[r]]] = Handed(book)
  BY <1>2, <1>4 DEF TransferShape, Handed, Roles
<1>6. /\ p \in Policies
      /\ \A t \in Timelocks : book[t] \in TimelockCopies
  <2>1. Deployed(p) /\ \A t \in Timelocks : Deployed(addrs[t])
    BY <1>1, <1>2 DEF TransferOkay, TransferShape, Roles, Timelocks
  <2>2. \A a : Deployed(a) => a # Empty
    BY CopiesApart DEF Deployed
  <2>3. /\ "policy" \in Fields \ (Multisigs \cup {"timelockEmergency"})
        /\ \A t \in Timelocks : t \in Fields
        /\ \A t \in Timelocks \ {"timelockEmergency"} :
              t \in Fields \ (Multisigs \cup {"timelockEmergency"})
    BY DEF Fields, Multisigs, Timelocks
  <2>4. p \in Policies
    BY <1>0, <2>1, <2>2, <2>3, BookEntries, RecordableOf DEF Types, Policies
  <2>5. ASSUME NEW t \in Timelocks PROVE addrs[t] \in TimelockCopies
    <3>1. CASE t = "timelockEmergency"
      BY <1>0, <2>1, <2>2, <2>3, <3>1, BookEntries, RecordableOf DEF Types
    <3>2. CASE t # "timelockEmergency"
      BY <1>0, <2>1, <2>2, <2>3, <3>2, BookEntries, RecordableOf, CopiesApart DEF Types
    <3> QED  BY <3>1, <3>2
  <2> QED  BY <1>4, <2>4, <2>5
<1>7. /\ \A r \in Roles : \E t \in Timelocks : Handed(book)[r] = book[t]
      /\ Handed(book) \in [Roles -> TimelockCopies]
      /\ Handed(book) # AllWallet
  <2>1. \A r \in Roles : \E t \in Timelocks : Handed(book)[r] = book[t]
    BY DEF Handed, Roles, Timelocks
  <2>2. Handed(book) \in [Roles -> TimelockCopies]
    BY <1>6, <2>1 DEF Handed
  <2>3. Handed(book)["ops"] \in TimelockCopies /\ AllWallet["ops"] = Wallet
    BY <2>2 DEF Roles, AllWallet
  <2> QED  BY <2>1, <2>2, <2>3, CopiesApart
<1>8. /\ roles' \in [Policies -> [Roles -> TimelockCopies \cup {Wallet}]]
      /\ roles'[p] = Handed(book) /\ \A q \in Policies \ {p} : roles'[q] = roles[q]
  BY <1>0, <1>1, <1>5, <1>6, <1>7 DEF Types
<1>9. Types'
  BY <1>0, <1>1, <1>3, <1>8 DEF Types
<1>10. Charge'
  <2>1. InForceIsRecorded'
    <3>1. \A q \in Policies, r \in Roles :
             roles'[q][r] \in {Wallet} \cup {logged[t] : t \in Timelocks}
      BY <1>0, <1>4, <1>7, <1>8 DEF Charge, InForceIsRecorded
    <3> QED  BY <1>0, <1>1, <3>1 DEF Charge, InForceIsRecorded
  <2>2. \A q \in Policies :
           \/ roles'[q] = AllWallet
           \/ roles'[q] = Handed(book) /\ \A t \in Timelocks : book[t] # Empty
    BY <1>0, <1>6, <1>8, CopiesApart DEF Charge
  <2>3. roles'[book["policy"]] # AllWallet
    BY <1>4, <1>7, <1>8
  <2>4. book' = book /\ Handed(book') = Handed(book) /\ OwnersHold'
    BY <1>0, <1>1 DEF Charge, OwnersHold
  <2>5. \A q \in Policies :
           \/ roles'[q] = AllWallet
           \/ roles'[q] = Handed(book') /\ \A t \in Timelocks : book'[t] # Empty
    BY <2>2, <2>4
  <2>6. /\ count'["dex"] = 0 => dex'.authority = Empty
        /\ done' >= 3 => dex'.authority = book'["policy"] /\ book'["policy"] # Empty
        /\ ~(running' = 3 /\ pc' > 6)
        /\ roles'[book'["policy"]] # AllWallet
    BY <1>0, <1>1, <1>4, <2>3 DEF Charge
  <2> QED  BY <2>1, <2>4, <2>5, <2>6 DEF Charge, OwnersHold
<1>11. Calls'
  BY <1>0, <1>1, CallsFrame, KeptSame
<1> QED  BY <1>3, <1>9, <1>10, <1>11 DEF IInv

\* An instruction is printed whose call is known.
LEMMA InstructionKeeps ==
    ASSUME IInv, NEW op \in {"resolve", "setDelay"}, AtStatement(op),
           pc' = pc + 1,
           UNCHANGED <<chain, pending, book, done, mishaps, running, addrs, logged>>,
           NEW m \in Multisigs, NEW c \in CallTypes, KnownCall(c),
           Issue(Instruction(m, c))
    PROVE  IInv'
<1>0. Types /\ Books /\ Charge /\ Calls
  BY DEF IInv
<1>1. /\ UNCHANGED <<count, dex, roles, locks>>
      /\ agenda' = [agenda EXCEPT ![m] = Append(@, c)] /\ prints' = prints + 1
  BY DEF chain, Issue, Instruction
<1>2. Books' /\ Script' = Script /\ pc' \in 1 .. Len(Script') + 1
  BY <1>0, BooksFrame
<1>3. Types'
  BY <1>0, <1>1, <1>2 DEF Types
<1>4. Charge'
  <2>1. /\ running' = 3 /\ pc' > 6 => pc > 6
        /\ running' = 7 /\ pc' > 2 => pc > 2
    BY <1>0, Onward
  <2> QED  BY <1>0, <1>1, <2>1, ChargeFrame, KeptSame DEF Charge, OwnersHold
<1>5. Calls'
  <2>1. agenda' \in [Multisigs -> Seq(CallTypes)]
    BY <1>0, <1>1 DEF Calls
  <2>2. ASSUME NEW n \in Multisigs, NEW i \in 1 .. Len(agenda'[n])
        PROVE  KnownCall(agenda'[n][i])
    <3>1. CASE n # m
      BY <1>0, <1>1, <2>2, <3>1 DEF Calls
    <3>2. CASE n = m
      <4>1. agenda'[m] = Append(agenda[m], c) /\ agenda[m] \in Seq(CallTypes)
        BY <1>0, <1>1 DEF Calls
      <4>2. CASE i <= Len(agenda[m])
        BY <1>0, <2>2, <3>2, <4>1, <4>2 DEF Calls
      <4>3. CASE i = Len(agenda[m]) + 1
        BY <3>2, <4>1, <4>3
      <4> QED  BY <2>2, <3>2, <4>1, <4>2, <4>3
    <3> QED  BY <3>1, <3>2
  <2>3. \A d : KnownCall(d)' <=> KnownCall(d)
    BY DEF KnownCall, Resolution, DelaySet, Harmless
  <2> QED  BY <1>0, <2>1, <2>2, <2>3 DEF Calls
<1> QED  BY <1>2, <1>3, <1>4, <1>5 DEF IInv

LEMMA TimelockOf ==
    ASSUME Types, NEW t \in {"timelockOps", "timelockTreasury"}, addrs[t] # Empty
    PROVE  addrs[t] \in TimelockCopies
<1>1. t \in Fields \ (Multisigs \cup {"timelockEmergency"}) /\ t \in Timelocks
  BY DEF Fields, Multisigs, Timelocks
<1> QED  BY <1>1, BookEntries, RecordableOf, CopiesApart DEF Types

\* The two calls of an instruction are well formed and harmless.
LEMMA CallsOf ==
    ASSUME NEW t \in TimelockCopies, NEW target \in Policies \cup TimelockCopies,
           NEW data \in Datas, NEW delay \in Nat, NEW salt \in Nat,
           \/ target \in Policies /\ Resolution(data)
           \/ target = t /\ DelaySet(data)
    PROVE  LET c == PopulateTimelockCalls(t, target, data, delay, salt)
           IN  c \in CallTypes /\ KnownCall(c)
BY DEF PopulateTimelockCalls, CallTypes, KnownCall

\* The commands that instructions are printed for.
LEMMA FillOf ==
    /\ Fill(Install("warm")) =
          Cmd(UpgradeCmd(addrs["warm"], ProxyIdx["warm"]), ProxyIdx.boot, TRUE)
    /\ Fill(InitLiq) = InitLiqCmd(Params)
    /\ Fill(StdTempl) = PoolStdTemplCmd(Params)
<1>1. Install("warm").name = "upgrade" /\ Install("warm").field = "warm"
  BY DEF Install
<1>2. InitLiq.name = "initLiq" /\ StdTempl.name = "stdTempl"
  BY DEF InitLiq, StdTempl
<1> QED  BY <1>1, <1>2 DEF Fill

LEMMA SentThrough ==
    \A c \in {Install("warm"), InitLiq, StdTempl} :
        Fill(c).callpath \in Nat /\ Fill(c).sudo \in BOOLEAN
<1>1. ProxyIdx.boot \in Nat /\ ProxyIdx.cold \in Nat
  BY DEF ProxyIdx
<1>2. /\ Fill(Install("warm")).callpath = ProxyIdx.boot /\ Fill(Install("warm")).sudo = TRUE
      /\ Fill(InitLiq).callpath = ProxyIdx.cold /\ Fill(InitLiq).sudo = FALSE
      /\ Fill(StdTempl).callpath = ProxyIdx.cold /\ Fill(StdTempl).sudo = FALSE
  BY FillOf DEF Cmd, InitLiqCmd, PoolStdTemplCmd
<1> QED  BY <1>1, <1>2

LEMMA ResolutionKeeps == ASSUME IInv, DoPrintResolution PROVE IInv'
<1> DEFINE c == Statement.cmd
           cmd == Fill(c)
           type == Statement.type
           t == addrs[IF type = "ops" THEN "timelockOps" ELSE "timelockTreasury"]
           m == IF type = "ops" THEN "multisigOps" ELSE "multisigTreasury"
           data == IF type = "ops"
                   THEN [fn |-> "opsResolution", minion |-> addrs["dex"],
                         proxyPath |-> cmd.callpath, cmd |-> cmd.protocolCmd]
                   ELSE [fn |-> "treasuryResolution", minion |-> addrs["dex"],
                         proxyPath |-> cmd.callpath, cmd |-> cmd.protocolCmd,
                         sudo |-> cmd.sudo]
           calls == PopulateTimelockCalls(t, addrs["policy"], data, Statement.delay, prints + 1)
<1>0. Types /\ Books /\ Charge /\ Calls
  BY DEF IInv
<1>1. /\ AtStatement("resolve") /\ ResolveOkay /\ pc' = pc + 1
      /\ UNCHANGED <<chain, pending, book, done, mishaps, running, addrs, logged>>
  BY DEF DoPrintResolution
<1>2. ResolveShape(Statement)
  BY <1>0, <1>1, AtShape DEF Shape
<1>3. Issue(Instruction(m, calls))
  BY DEF DoPrintResolution, OpsResolution, TreasuryResolution
<1>4. addrs = logged
  BY <1>0, <1>1, HasPrinted
<1>5. /\ addrs["dex"] = Dex /\ addrs["policy"] \in Policies /\ t \in TimelockCopies
  <2>1. addrs["dex"] # Empty /\ addrs["policy"] # Empty /\ t # Empty
    BY <1>1, <1>2 DEF ResolveOkay, OpsResolutionOkay, TreasuryResolutionOkay, ResolveShape
  <2>2. "policy" \in Fields \ (Multisigs \cup {"timelockEmergency"})
    BY DEF Fields, Multisigs
  <2>3. addrs["policy"] \in Policies
    BY <1>0, <2>1, <2>2, BookEntries, RecordableOf DEF Types, Policies
  <2>4. t \in TimelockCopies
    BY <1>0, <2>1, TimelockOf
  <2> QED  BY <1>0, <2>1, <2>3, <2>4 DEF Books, OneDex
<1>6. cmd.protocolCmd \in Harmless \cap Commands
  <2>1. CASE c = Install("warm")
    <3>1. cmd.protocolCmd = UpgradeCmd(logged["warm"], ProxyIdx["warm"])
      BY <1>4, <2>1 DEF Fill, Install, Cmd
    <3>2. logged["warm"] # Empty
      BY <1>1, <1>4, <2>1 DEF ResolveOkay, FillOkay, Install
    <3>3. logged["warm"] \in Copies("warm")
      <4>1. "warm" \in Fields \ (Multisigs \cup {"timelockEmergency"})
        BY DEF Fields, Multisigs, Sidecars
      <4> QED  BY <1>0, <3>2, <4>1, BookEntries, RecordableOf DEF Types
    <3> QED  BY <3>1, <3>2, <3>3 DEF Harmless, Commands
  <2>2. CASE c \in {InitLiq, StdTempl}
    BY <2>2, FillOf DEF Harmless, Commands
  <2> QED  BY <1>2, <2>1, <2>2 DEF ResolveShape
<1>7. cmd.callpath \in Nat /\ cmd.sudo \in BOOLEAN
  BY <1>2, SentThrough DEF ResolveShape
<1>8. data \in Datas /\ Resolution(data)
  <2>1. addrs["dex"] \in Copies("dex")
    BY <1>5, CopiesApart
  <2> HIDE DEF cmd, type
  <2> QED  BY <1>6, <1>7, <2>1 DEF Datas, Resolution
<1>9. Statement.delay \in Nat /\ prints + 1 \in Nat /\ m \in Multisigs
  BY <1>0, <1>2 DEF Types, ResolveShape, Multisigs
<1> HIDE DEF t, data, m
<1>10. calls \in CallTypes /\ KnownCall(calls)
  BY <1>5, <1>8, <1>9, CallsOf
<1> HIDE DEF calls
<1> DEFINE op == "resolve"
<1>11. op \in {"resolve", "setDelay"} /\ AtStatement(op)
  BY <1>1
<1> HIDE DEF op
<1> QED  BY <1>1, <1>3, <1>9, <1>10, <1>11, InstructionKeeps

LEMMA SetDelayKeeps == ASSUME IInv, DoPrintTimelockSet PROVE IInv'
<1> DEFINE type == Statement.type
           t == addrs[IF type = "ops" THEN "timelockOps" ELSE "timelockTreasury"]
           m == IF type = "ops" THEN "multisigOps" ELSE "multisigTreasury"
           data == [fn |-> "updateDelay", newDelay |-> Statement.newDelay]
           calls == PopulateTimelockCalls(t, t, data, Statement.oldDelay, prints + 1)
<1>0. Types /\ Books /\ Charge /\ Calls
  BY DEF IInv
<1>1. /\ AtStatement("setDelay") /\ SetDelayOkay /\ pc' = pc + 1
      /\ UNCHANGED <<chain, pending, book, done, mishaps, running, addrs, logged>>
  BY DEF DoPrintTimelockSet
<1>2. SetDelayShape(Statement)
  BY <1>0, <1>1, AtShape DEF Shape
<1>3. Issue(Instruction(m, calls))
  BY DEF DoPrintTimelockSet, OpsTimelockSet, TreasuryTimelockSet, TimelockDelaySet
<1>4. t \in TimelockCopies
  BY <1>0, <1>1, TimelockOf DEF SetDelayOkay, TimelockDelayOkay
<1>5. data \in Datas /\ DelaySet(data)
  BY <1>2 DEF Datas, DelaySet, SetDelayShape
<1>6. Statement.oldDelay \in Nat /\ prints + 1 \in Nat /\ m \in Multisigs
  BY <1>0, <1>2 DEF Types, SetDelayShape, Multisigs
<1> HIDE DEF t, data, m
<1>7. calls \in CallTypes /\ KnownCall(calls)
  BY <1>4, <1>5, <1>6, CallsOf
<1> HIDE DEF calls
<1> DEFINE op == "setDelay"
<1>8. op \in {"resolve", "setDelay"} /\ AtStatement(op)
  BY <1>1
<1> HIDE DEF op
<1> QED  BY <1>1, <1>3, <1>6, <1>7, <1>8, InstructionKeeps

-----------------------------------------------------------------------------
\* A script ends and its log is kept.
LEMMA StopKeeps ==
    ASSUME IInv, Stop, running # 0, done' \in 0 .. 10, mishaps' \in 0 .. MaxMishaps,
           \/ done' = done
           \/ pc > Len(Script) /\ done' = done + 1 /\ done' = running
    PROVE  IInv'
<1>0. Types /\ Books /\ Charge /\ Calls
  BY DEF IInv
<1>1. /\ book' = logged /\ addrs' = logged /\ logged' = logged
      /\ running' = 0 /\ pc' = 1
      /\ UNCHANGED <<count, dex, roles, locks, agenda, pending, prints>>
  BY DEF Stop, chain, signing
<1>2. Len(Script') = 0
  BY <1>1 DEF Script
<1>3. Kept(book, book') /\ Grown(logged, logged)
  BY <1>0, <1>1, GrownKept DEF Books, Grown
<1>4. Types'
  BY <1>0, <1>1, <1>2 DEF Types, AltStep
<1>5. Books'
  BY <1>0, <1>1, <1>3 DEF Books
<1>6. Charge'
  <2>1. OwnersHold'
    <3>1. \A t \in DOMAIN Owners : logged[t] # Empty => addrs[t] = logged[t]
      BY <1>0 DEF Books, Grown, Owners, Fields, Timelocks
    <3> QED  BY <1>0, <1>1, <3>1 DEF Charge, OwnersHold
  <2>2. CASE done' = done
    BY <1>0, <1>1, <1>3, <2>1, <2>2, ChargeFrame, KeptSame
  <2>3. CASE pc > Len(Script) /\ done' = done + 1 /\ done' = running
    <3>1. running \in 1 .. 11 /\ Script = Scripts[running] /\ ScriptFacts(running)
          /\ done \in 0 .. 10 /\ pc = Len(Script) + 1
      <4>1. running \in 1 .. 11
        BY <1>0 DEF Types, AltStep
      <4>2. Script = Scripts[running] /\ ScriptFacts(running)
        BY <4>1, ScriptsHaveShape DEF Script
      <4> QED  BY <1>0, <2>3, <4>1, <4>2 DEF Types, ScriptFacts
    <3>2. running = 3 => dex.authority = book'["policy"] /\ book'["policy"] # Empty
      <4>1. CASE running = 3
        <5>1. pc = 8 /\ Script[7].op = "print"
          <6>1. Len(Script) = 7 /\ \A i \in 1 .. 7 : Shape(3, i, Script[i])
            BY <3>1, <4>1 DEF ScriptFacts
          <6>2. Shape(3, 7, Script[7])
            BY <6>1
          <6> QED  BY <3>1, <6>1, <6>2 DEF Shape
        <5>2. addrs = logged
          BY <1>0, <5>1 DEF Books, Writes
        <5> QED  BY <1>0, <1>1, <4>1, <5>1, <5>2 DEF Charge
      <4> QED  BY <4>1
    <3>3. running = 7 => roles[book'["policy"]] # AllWallet
      <4>1. CASE running = 7
        <5>1. pc = 3 /\ logged = book
          BY <1>0, <3>1, <4>1 DEF ScriptFacts, Books, Silent
        <5> QED  BY <1>0, <1>1, <4>1, <5>1 DEF Charge
      <4> QED  BY <4>1
    <3>4. /\ done' >= 3 => \/ done >= 3
                           \/ dex.authority = book'["policy"] /\ book'["policy"] # Empty
          /\ done' >= 7 => done >= 7 \/ roles[book'["policy"]] # AllWallet
      BY <2>3, <3>1, <3>2, <3>3
    <3> QED  BY <1>0, <1>1, <1>3, <2>1, <3>4, ChargeFrame, KeptSame
  <2> QED  BY <2>2, <2>3
<1>7. Calls'
  BY <1>0, <1>1, CallsFrame, KeptSame
<1> QED  BY <1>4, <1>5, <1>6, <1>7 DEF IInv

LEMMA StopsKeep == ASSUME IInv, End \/ Crash \/ Abort PROVE IInv'
<1>1. CASE End
  <2>1. done \in 0 .. 10 /\ mishaps \in 0 .. MaxMishaps /\ running \in 0 .. 11
    BY DEF IInv, Types, AltStep
  <2>2. /\ done' \in 0 .. 10
        /\ done' = done \/ (done' = done + 1 /\ done' = running)
    BY <1>1, <2>1 DEF End, IsNext, Steps
  <2> QED  BY <1>1, <2>1, <2>2, StopKeeps DEF End
<1>2. CASE Crash
  <2>1. done \in 0 .. 10 /\ mishaps \in 0 .. MaxMishaps /\ MaxMishaps \in Nat
    BY DeployAssumption DEF IInv, Types
  <2> QED  BY <1>2, <2>1, StopKeeps DEF Crash
<1>3. CASE Abort
  <2>1. running # 0
    BY <1>3 DEF Abort, AtStatement, Script
  <2>2. done \in 0 .. 10 /\ mishaps \in 0 .. MaxMishaps
    BY DEF IInv, Types
  <2> QED  BY <1>3, <2>1, <2>2, StopKeeps DEF Abort
<1> QED  BY <1>1, <1>2, <1>3

LEMMA StartKeeps == ASSUME IInv, NEW k \in Steps \cup {AltStep}, Start(k) PROVE IInv'
<1>0. Types /\ Books /\ Charge /\ Calls
  BY DEF IInv
<1>1. /\ running = 0 /\ running' = k /\ pc' = 1 /\ addrs' = book /\ logged' = book
      /\ UNCHANGED <<count, dex, roles, locks, agenda, pending, prints, book, done>>
  BY DEF Start, chain, signing
<1>2. addrs = book /\ logged = book
  BY <1>0, <1>1 DEF Books
<1>3. k \in 1 .. 11 /\ mishaps' \in 0 .. MaxMishaps
  BY <1>0, DeployAssumption DEF Types, Start, Steps, AltStep
<1>4. 1 \in 1 .. Len(Script') + 1
  <2>1. Script' = Scripts[k] /\ ScriptFacts(k)
    BY <1>1, <1>3, ScriptsHaveShape DEF Script
  <2> QED  BY <2>1 DEF ScriptFacts
<1>5. Types'
  BY <1>0, <1>1, <1>3, <1>4 DEF Types, AltStep
<1>6. Books'
  BY <1>0, <1>1, <1>2 DEF Books, Grown
<1>7. Charge'
  <2>1. OwnersHold'
    BY <1>0, <1>1, <1>2 DEF Charge, OwnersHold
  <2> QED  BY <1>0, <1>1, <1>2, <2>1, ChargeFrame, KeptSame
<1>8. Calls'
  BY <1>0, <1>1, <1>2, CallsFrame, KeptSame
<1> QED  BY <1>5, <1>6, <1>7, <1>8 DEF IInv

\* What is looked up on the chain is a better deployer, or fills the dex in.
LEMMA LookUpEffect ==
    ASSUME IInv, LookUp
    PROVE  /\ book' \in AddressBook /\ OneDex(book') /\ Kept(book, book')
           /\ book'["timelockTreasury"] = book["timelockTreasury"]
           /\ book'["timelockEmergency"] = book["timelockEmergency"]
           /\ \A t \in DOMAIN Owners : book'[t] = book[t]
           /\ \/ done' = done
              \/ done' = 2
              \/ /\ done' = 3 /\ book' = book
                 /\ dex.authority = book["policy"] /\ book["policy"] # Empty
              \/ /\ done' = 7 /\ done = 6 /\ book' = book
                 /\ \A r \in Roles : roles[book["policy"]][r] # Wallet
<1>0. Types /\ Books
  BY DEF IInv
<1>1. book \in AddressBook /\ OneDex(book)
  BY <1>0 DEF Types, Books
<1>2. /\ {"dex", "deployer"} \subseteq Fields \ (Multisigs \cup {"timelockEmergency"})
      /\ "timelockTreasury" \in Fields /\ "timelockEmergency" \in Fields
      /\ DOMAIN Owners \subseteq Fields \ {"dex", "deployer"}
  BY DEF Fields, Multisigs, Timelocks, Owners
<1>3. Dex \in Recordable("dex") /\ SaltedDeployer \in Recordable("deployer")
  BY <1>2, RecordableOf, CopiesApart
<1>4. CASE book' = [book EXCEPT !["deployer"] = SaltedDeployer] /\ done' = done
  <2>1. book' \in AddressBook
    BY <1>1, <1>2, <1>3, <1>4, BookUpdate
  <2>2. \A f \in Fields \ {"deployer"} : book'[f] = book[f]
    BY <1>1, <1>4, BookEntries
  <2> QED  BY <1>1, <1>2, <1>4, <2>1, <2>2 DEF OneDex, Kept
<1>5. CASE book' = [book EXCEPT !["dex"] = Dex] /\ done' = 2
  <2>1. book' \in AddressBook
    BY <1>1, <1>2, <1>3, <1>5, BookUpdate
  <2>2. book'["dex"] = Dex /\ \A f \in Fields \ {"dex"} : book'[f] = book[f]
    BY <1>1, <1>2, <1>5, BookEntries
  <2> QED  BY <1>1, <1>2, <1>5, <2>1, <2>2 DEF OneDex, Kept
<1>6. CASE book' = book
  BY <1>1, <1>6, KeptSame DEF LookUp
<1> QED  BY <1>4, <1>5, <1>6 DEF LookUp

LEMMA LookUpKeeps == ASSUME IInv, LookUp PROVE IInv'
<1>0. Types /\ Books /\ Charge /\ Calls
  BY DEF IInv
<1>1. /\ running = 0 /\ addrs' = book' /\ logged' = book'
      /\ UNCHANGED <<count, dex, roles, locks, agenda, pending, prints, running, pc,
                     mishaps>>
  BY DEF LookUp, chain, signing
<1>2. addrs = book /\ logged = book /\ Script' = Script
  BY <1>0, <1>1 DEF Books, Script
<1>3. Types'
  BY <1>0, <1>1, <1>2, LookUpEffect DEF Types
<1>4. Books'
  BY <1>0, <1>1, LookUpEffect DEF Books, Grown, EmergencyShared
<1>5. Charge'
  <2>1. OwnersHold'
    BY <1>0, <1>1, <1>2, LookUpEffect DEF Charge, OwnersHold
  <2>2. done' >= 3 => \/ done >= 3
                      \/ dex.authority = book'["policy"] /\ book'["policy"] # Empty
    BY <1>0, LookUpEffect DEF Types
  <2>3. done' >= 7 => done >= 7 \/ roles[book'["policy"]] # AllWallet
    BY <1>0, LookUpEffect DEF Types, AllWallet, Roles
  <2> QED  BY <1>0, <1>1, <1>2, <2>1, <2>2, <2>3, LookUpEffect, ChargeFrame
<1>6. Calls'
  BY <1>0, <1>1, <1>2, LookUpEffect, CallsFrame
<1> QED  BY <1>3, <1>4, <1>5, <1>6 DEF IInv

-----------------------------------------------------------------------------
LEMMA ScheduleKeeps == ASSUME IInv, NEW m \in Multisigs, Schedule(m) PROVE IInv'
<1>0. Types /\ Books /\ Charge /\ Calls
  BY DEF IInv
<1>1. /\ agenda[m] # <<>> /\ agenda' = [agenda EXCEPT ![m] = Tail(@)]
      /\ pending' \subseteq pending \cup {Head(agenda[m])}
      /\ UNCHANGED <<count, dex, roles, locks, running, pc, addrs, logged, book, done,
                     prints, mishaps>>
  BY DEF Schedule, chain, script
<1>2. Types' /\ Books' /\ Charge'
  <2>1. Script' = Script
    BY <1>1 DEF Script
  <2>2. OwnersHold'
    BY <1>0, <1>1 DEF Charge, OwnersHold
  <2>3. Charge'
    BY <1>0, <1>1, <2>2, ChargeFrame, KeptSame DEF Charge
  <2> QED  BY <1>0, <1>1, <2>1, <2>3 DEF Types, Books
<1>3. Calls'
  <2>1. agenda[m] \in Seq(CallTypes) /\ Len(agenda[m]) >= 1
    BY <1>0, <1>1 DEF Calls
  <2>2. /\ Tail(agenda[m]) \in Seq(CallTypes) /\ Head(agenda[m]) = agenda[m][1]
        /\ Len(Tail(agenda[m])) = Len(agenda[m]) - 1
        /\ \A i \in 1 .. Len(agenda[m]) - 1 : Tail(agenda[m])[i] = agenda[m][i + 1]
    BY <2>1
  <2>3. agenda' \in [Multisigs -> Seq(CallTypes)]
    BY <1>0, <1>1, <2>2 DEF Calls
  <2>4. ASSUME NEW n \in Multisigs, NEW i \in 1 .. Len(agenda'[n])
        PROVE  KnownCall(agenda'[n][i])
    <3>1. CASE n # m
      BY <1>0, <1>1, <2>4, <3>1 DEF Calls
    <3>2. CASE n = m
      <4>1. agenda'[n] = Tail(agenda[m])
        BY <1>0, <1>1, <3>2 DEF Calls
      <4>2. i \in 1 .. Len(agenda[m]) - 1 /\ i + 1 \in 1 .. Len(agenda[m])
        BY <2>1, <2>2, <2>4, <4>1
      <4> QED  BY <1>0, <2>2, <3>2, <4>1, <4>2 DEF Calls
    <3> QED  BY <3>1, <3>2
  <2>5. \A c \in pending' : KnownCall(c)
    <3>1. KnownCall(Head(agenda[m]))
      BY <1>0, <2>1, <2>2 DEF Calls
    <3> QED  BY <1>0, <1>1, <3>1 DEF Calls
  <2>6. \A c : KnownCall(c)' <=> KnownCall(c)
    BY <1>1 DEF KnownCall, Resolution, DelaySet, Harmless
  <2> QED  BY <2>3, <2>4, <2>5, <2>6 DEF Calls
<1> QED  BY <1>2, <1>3 DEF IInv

LEMMA ExecuteKeeps == ASSUME IInv, NEW c \in pending, Execute(c) PROVE IInv'
<1> DEFINE call == c.schedule.data
           target == c.schedule.target
<1>0. Types /\ Books /\ Charge /\ Calls
  BY DEF IInv
<1>1. /\ pending' = pending \ {c}
      /\ UNCHANGED <<count, roles, running, pc, addrs, logged, book, done, agenda,
                     prints, mishaps>>
  BY DEF Execute, script
<1>2. KnownCall(c) /\ Script' = Script
  BY <1>0, <1>1 DEF Calls, Script
<1>3. Books' /\ Calls'
  <2>1. Books'
    BY <1>0, <1>1, <1>2 DEF Books
  <2>2. Calls'
    BY <1>0, <1>1, CallsFrame, KeptSame
  <2> QED  BY <2>1, <2>2
<1>4. CASE target \in Policies /\ dex' = DexAfter(dex, call.cmd) /\ locks' = locks
           /\ Resolves(c.timelock, target, call)
  <2>1. call.cmd \in Harmless
    <3>1. target # c.timelock
      <4>1. {"policy"} \cup Timelocks \subseteq Fields /\ "policy" \notin Timelocks
        BY DEF Fields, Timelocks
      <4> QED  BY <1>2, <1>4, <4>1, CopiesApart DEF KnownCall, Policies
    <3> QED  BY <1>2, <3>1 DEF KnownCall, Resolution
  <2>2. DexTyped(dex)
    BY <1>0 DEF Types, DexTyped
  <2>3. /\ DexTyped(dex') /\ dex'.authority = dex.authority
        /\ \A g \in Sidecars : dex'.proxies[ProxyIdx[g]]
                                  \in {dex.proxies[ProxyIdx[g]], logged[g]}
    <3>1. CASE call.cmd = UpgradeCmd(logged["warm"], ProxyIdx["warm"]) /\ logged["warm"] # Empty
      <4> DEFINE f == "warm"
                 a == logged["warm"]
      <4>1. f \in Sidecars /\ a \in Copies(f) /\ a = logged[f]
        <5>1. "warm" \in Sidecars /\ "warm" \in Fields \ (Multisigs \cup {"timelockEmergency"})
          BY DEF Fields, Multisigs, Sidecars
        <5> QED  BY <1>0, <3>1, <5>1, BookEntries, RecordableOf DEF Types
      <4>2. dex' = DexAfter(dex, UpgradeCmd(a, ProxyIdx[f]))
        BY <1>4, <3>1
      <4> HIDE DEF f, a
      <4> QED  BY <2>2, <4>1, <4>2, AfterUpgrade
    <3>2. CASE call.cmd
                \in {InitLiqCmd(Params).protocolCmd, PoolStdTemplCmd(Params).protocolCmd}
      BY <1>4, <2>2, <3>2, AfterParams
    <3> QED  BY <2>1, <3>1, <3>2 DEF Harmless
  <2>4. InForceIsRecorded'
    BY <1>0, <1>1, <2>3 DEF Charge, InForceIsRecorded
  <2>5. Charge'
    <3>1. /\ count["dex"] = 0 => dex.authority = Empty
          /\ running' = 3 /\ pc' > 6 => dex.authority = addrs["policy"] /\ addrs["policy"] # Empty
          /\ running' = 7 /\ pc' > 2 => roles[book["policy"]] # AllWallet
      BY <1>0, <1>1 DEF Charge
    <3> QED  BY <1>0, <1>1, <1>4, <2>3, <2>4, <3>1, ChargeDex
  <2>6. Types'
    BY <1>0, <1>1, <1>2, <1>4, <2>3 DEF Types, DexTyped
  <2> QED  BY <1>3, <2>5, <2>6 DEF IInv
<1>5. CASE target = c.timelock /\ call.fn = "updateDelay" /\ dex' = dex
           /\ locks' = [locks EXCEPT ![target].delay = call.newDelay]
  <2>1. c.timelock \in TimelockCopies /\ call.newDelay \in Nat
    BY <1>2, <1>5 DEF KnownCall, Resolution, DelaySet
  <2>2. /\ locks' \in [TimelockCopies ->
              [owner : {Empty} \cup {MultisigAddr(m) : m \in Multisigs}, delay : Nat]]
        /\ \A t \in TimelockCopies : locks'[t].owner = locks[t].owner
    BY <1>0, <1>5, <2>1 DEF Types
  <2>3. Types'
    BY <1>0, <1>1, <1>2, <1>5, <2>2 DEF Types
  <2>4. OwnersHold'
    <3> SUFFICES ASSUME NEW t \in DOMAIN Owners, addrs[t] # Empty
                 PROVE  locks'[addrs[t]].owner = MultisigAddr(Owners[t])
      BY <1>1 DEF OwnersHold
    <3>1. t \in {"timelockOps", "timelockTreasury"}
      BY DEF Owners
    <3>2. addrs[t] \in TimelockCopies
      BY <1>0, <3>1, TimelockOf
    <3> QED  BY <1>0, <2>2, <3>2 DEF Charge
  <2>5. Charge'
    BY <1>0, <1>1, <1>5, <2>4, ChargeFrame, KeptSame DEF Charge
  <2> QED  BY <1>3, <2>3, <2>5 DEF IInv
<1> QED  BY <1>4, <1>5 DEF Execute

-----------------------------------------------------------------------------
(***************************************************************************)
(* The theorems                                                            *)
(***************************************************************************)

LEMMA InitKeeps == ASSUME Init PROVE IInv
<1>1. InitBook \in AddressBook /\ \A f \in Fields \ Multisigs : InitBook[f] = Empty
  <2>1. ASSUME NEW f \in Fields
        PROVE  InitBook[f] \in Recordable(f) /\ (f \notin Multisigs => InitBook[f] = Empty)
    BY <2>1, RecordableOf DEF InitBook, EmptyAddrs
  <2> QED  BY <2>1 DEF AddressBook, AllAddrs, InitBook
<1>2. book = InitBook /\ addrs = InitBook /\ logged = InitBook
      /\ running = 0 /\ pc = 1 /\ done = 0 /\ Script = <<>>
  BY DEF Init, Script
<1>3. {"dex", "timelockEmergency", "timelockTreasury", "timelockOps"} \subseteq Fields \ Multisigs
  BY DEF Fields, Timelocks, Multisigs
<1>4. Types
  <2>1. /\ dex \in DexStates /\ dex.authority = Empty
        /\ \A f \in Sidecars : dex.proxies[ProxyIdx[f]] = Empty
    BY ProxyDistinct DEF Init, DexStates, Installed
  <2>2. \A f \in Sidecars : Empty \in Recordable(f)
    BY RecordableOf
  <2>3. 0 \in 0 .. MaxCopies /\ 0 \in 0 .. MaxMishaps
    BY DeployAssumption
  <2>4. roles \in [Policies -> [Roles -> TimelockCopies \cup {Wallet}]]
    BY DEF Init
  <2>5. locks \in [TimelockCopies ->
            [owner : {Empty} \cup {MultisigAddr(m) : m \in Multisigs}, delay : Nat]]
    BY DEF Init
  <2>6. count \in [Kinds -> 0 .. MaxCopies] /\ prints = 0 /\ mishaps = 0
    BY <2>3 DEF Init
  <2> QED  BY <1>1, <1>2, <2>1, <2>2, <2>3, <2>4, <2>5, <2>6 DEF Types, AltStep
<1>5. Books
  BY <1>1, <1>2, <1>3 DEF Books, Grown, OneDex, EmergencyShared
<1>6. Charge
  <2>1. /\ dex.authority = Empty /\ \A p \in Policies : roles[p] = AllWallet
        /\ \A f \in Sidecars : dex.proxies[ProxyIdx[f]] = Empty
    BY ProxyDistinct DEF Init, AllWallet
  <2>2. \A p \in Policies : \A r \in Roles : roles[p][r] = Wallet
    BY <2>1 DEF AllWallet
  <2>3. \A t \in DOMAIN Owners : addrs[t] = Empty
    BY <1>1, <1>2, <1>3 DEF Owners
  <2> QED  BY <1>2, <2>1, <2>2, <2>3 DEF Charge, InForceIsRecorded
<1>7. Calls
  BY DEF Init, Calls
<1> QED  BY <1>4, <1>5, <1>6, <1>7 DEF IInv

LEMMA NextKeeps == ASSUME IInv, [Next]_vars PROVE IInv'
<1>1. CASE UNCHANGED vars
  <2>1. /\ UNCHANGED <<count, dex, roles, locks, running, pc, addrs, logged, book, done,
                       agenda, pending, prints, mishaps>>
    BY <1>1 DEF vars, chain, script, signing
  <2>2. Types /\ Books /\ Charge /\ Calls /\ Script' = Script
    BY <2>1 DEF IInv, Script
  <2>3. OwnersHold'
    BY <2>1, <2>2 DEF Charge, OwnersHold
  <2>4. Charge'
    BY <2>1, <2>2, <2>3, ChargeFrame, KeptSame DEF Charge
  <2>5. Calls'
    BY <2>1, <2>2, CallsFrame, KeptSame
  <2> QED  BY <2>1, <2>2, <2>4, <2>5 DEF IInv, Types, Books
<1>2. CASE Next
  <2>1. CASE Statements
    BY <2>1, QuietKeeps, InflateKeeps, PrintKeeps, Create2Keeps, ReadDexKeeps, SendKeeps,
       TransferKeeps, ResolutionKeeps, SetDelayKeeps, StopsKeep DEF Statements
  <2>2. CASE Crash \/ LookUp
    BY <2>2, StopsKeep, LookUpKeeps
  <2>3. CASE Signing
    BY <2>3, ScheduleKeeps, ExecuteKeeps DEF Signing
  <2>4. CASE \E k \in Steps \cup {AltStep} : Start(k)
    BY <2>4, StartKeeps
  <2> QED  BY <1>2, <2>1, <2>2, <2>3, <2>4 DEF Next
<1> QED  BY <1>1, <1>2

\* Types, the books, who is in charge and what may yet run, in every state.
THEOREM DeploymentInv == Spec => []IInv
<1>1. Init => IInv
  BY InitKeeps
<1>2. IInv /\ [Next]_vars => IInv'
  BY NextKeeps
<1> QED  BY <1>1, <1>2, PTL DEF Spec

\* Every variable of a deployment has its type, however many contracts are
\* deployed, scripts crash and instructions are printed.
THEOREM DeploymentTyped == Spec => []TypeOK
<1>1. IInv => TypeOK
  <2> SUFFICES ASSUME Types, Calls PROVE TypeOK
    BY DEF IInv
  <2>1. dex.authority \in {Empty} \cup Copies("deployer") \cup Policies
    BY DEF Types, DexStates
  <2>2. \A f \in Fields : {book[f], addrs[f], logged[f]} \subseteq Recordable(f)
    BY BookEntries DEF Types
  <2>3. DOMAIN agenda = Multisigs
    BY DEF Calls
  <2> QED  BY <2>1, <2>2, <2>3 DEF Types, TypeOK
<1> QED  BY <1>1, DeploymentInv, PTL

\* Whatever is in force on the chain would be in the address book after a
\* crash at any statement (the scripts print before they send).
THEOREM InForceRecorded == Spec => []InForceIsRecorded
<1>1. IInv => InForceIsRecorded
  BY DEF IInv, Charge
<1> QED  BY <1>1, DeploymentInv, PTL

\* Once vanityStep7 is done the policy in charge answers to the timelocks of the
\* book, operations and treasury each to the one of its own multisig.
THEOREM HandoverDone == Spec => []HandoverReaches
<1>1. IInv => HandoverReaches
  <2> SUFFICES ASSUME Types, Books, Charge, done >= 7 PROVE HandoverReaches
    BY DEF IInv, HandoverReaches
  <2>1. dex.authority = book["policy"] /\ book["policy"] # Empty /\ done \in 0 .. 10
    BY DEF Charge, Types
  <2>2. book["policy"] \in Policies
    <3>1. "policy" \in Fields \ (Multisigs \cup {"timelockEmergency"})
      BY DEF Fields, Multisigs
    <3> QED  BY <2>1, <3>1, BookEntries, RecordableOf DEF Types, Policies
  <2>3. roles[book["policy"]] = Handed(book) /\ \A t \in Timelocks : book[t] # Empty
    BY <2>2 DEF Charge
  <2>4. Handed(book) = [ops |-> book["timelockOps"], treasury |-> book["timelockTreasury"],
                        emergency |-> book["timelockEmergency"]]
    BY DEF Handed, Roles
  <2>5. \A t \in DOMAIN Owners : addrs[t] = book[t] /\ book[t] # Empty
    <3>1. DOMAIN Owners \subseteq Fields /\ DOMAIN Owners \subseteq Timelocks
      BY DEF Owners, Fields, Timelocks
    <3> QED  BY <2>3, <3>1 DEF Books, Grown
  <2>6. \A t \in DOMAIN Owners : locks[book[t]].owner = MultisigAddr(Owners[t])
    BY <2>5 DEF Charge
  <2>7. /\ locks[book["timelockOps"]].owner = MultisigAddr("multisigOps")
        /\ locks[book["timelockTreasury"]].owner = MultisigAddr("multisigTreasury")
    BY <2>6 DEF Owners
  <2>8. /\ book["multisigOps"] = MultisigAddr("multisigOps")
        /\ book["multisigTreasury"] = MultisigAddr("multisigTreasury")
    <3>1. {"multisigOps", "multisigTreasury"} \subseteq Multisigs
          /\ {"multisigOps", "multisigTreasury"} \subseteq Fields
      BY DEF Multisigs, Fields
    <3> QED  BY <3>1, BookEntries, RecordableOf DEF Types
  <2> QED  BY <2>1, <2>3, <2>4, <2>7, <2>8 DEF HandoverReaches
<1> QED  BY <1>1, DeploymentInv, PTL

LEMMA BookGrows == ASSUME IInv, [Next]_vars PROVE Kept(book, book')
<1>0. Types /\ Books
  BY DEF IInv
<1>1. CASE Stop
  BY <1>0, <1>1, GrownKept DEF Books, Stop
<1>2. CASE LookUp
  BY <1>2, LookUpEffect
<1>3. CASE book' = book
  BY <1>3, KeptSame
<1>4. CASE UNCHANGED vars
  BY <1>4, <1>3 DEF vars
<1>5. CASE Next
  <2>1. CASE Statements
    <3>1. End \/ Abort => Stop
      BY DEF End, Abort
    <3>2. \/ DoRef \/ DoMapSalt \/ DoInflate \/ DoPrint \/ DoCreate2 \/ DoReadDex
          \/ DoSend \/ DoTransferGovernance \/ DoPrintResolution \/ DoPrintTimelockSet
          => book' = book
      BY DEF DoRef, DoMapSalt, DoInflate, DoPrint, DoCreate2, DoReadDex, DoSend,
             DoTransferGovernance, DoPrintResolution, DoPrintTimelockSet
    <3> QED  BY <1>1, <1>3, <2>1, <3>1, <3>2 DEF Statements
  <2>2. CASE Crash
    BY <1>1, <2>2 DEF Crash
  <2>3. CASE Signing
    BY <1>3, <2>3 DEF Signing, Schedule, Execute
  <2>4. CASE \E k \in Steps \cup {AltStep} : Start(k)
    BY <1>3, <2>4 DEF Start
  <2> QED  BY <1>2, <1>5, <2>1, <2>2, <2>3, <2>4 DEF Next
<1> QED  BY <1>4, <1>5

\* No address that was ever recorded is lost or replaced, but for a deployer
\* without a salt (inflateAddr attaches to what it finds).
THEOREM BookKept == Spec => BookWriteOnce
<1>1. IInv /\ [Next]_vars =>
        [\A f \in Fields \ {"deployer"} : book[f] # Empty => book'[f] = book[f]]_vars
  BY BookGrows DEF Kept
<1> QED  BY <1>1, DeploymentInv, PTL DEF Spec, BookWriteOnce

-----------------------------------------------------------------------------
(***************************************************************************)
(* What signers are shown                                                  *)
(***************************************************************************)

\* A slot that a command may name is labelled with the contract it is for.
LEMMA SlotLabels ==
    ASSUME NEW slot \in Slots
    PROVE  ProxyIdx[ProxyLabel(slot)] = slot
<1>1. \E f \in Sidecars \cup {"safeMode"} : ProxyIdx[f] = slot
  BY DEF Slots
<1>2. ProxyLabel(slot) = CHOOSE f \in Sidecars \cup {"safeMode"} : ProxyIdx[f] = slot
  BY <1>1, Zenon DEF ProxyLabel
<1> QED  BY <1>1, <1>2, Zenon

\* The codes of commands are distinct: what an upgrade does, and which path takes
\* which code.
LEMMA UpgradeEffect ==
    ASSUME NEW d, NEW c, c.code = 21
    PROVE  DexAfter(d, c) = [d EXCEPT !.proxies[c.slot] = c.contract]
BY SMT DEF DexAfter, PROTOCOL_UPGRADE_CMD, PROTOCOL_AUTH_TRANSFER_CMD,
  PROTOCOL_HOT_OPEN_CMD

LEMMA PathOf ==
    ASSUME NEW d, NEW path, NEW c, DexOkay(d, path, c, TRUE)
    PROVE  /\ c.code = 21 => path = ProxyIdx.boot
           /\ c.code = 22 => path = ProxyIdx.cold
BY SMT DEF DexOkay, PROTOCOL_UPGRADE_CMD, PROTOCOL_AUTH_TRANSFER_CMD, PROTOCOL_HOT_OPEN_CMD

\* The label of a command that the dex accepts is true of what it does.
LEMMA LabelsHold ==
    ASSUME NEW d \in DexStates, NEW path \in {ProxyIdx.boot, ProxyIdx.cold},
           NEW cmd \in DraftCmds, DexOkay(d, path, cmd, TRUE)
    PROVE  LabelHolds(CmdLabel(path, cmd), d, DexAfter(d, cmd))
<1>0. ProxyIdx.boot = 0 /\ ProxyIdx.cold = 3
  BY DEF ProxyIdx
<1>1. CASE \E a : \E slot \in Slots : cmd = UpgradeCmd(a, slot)
  <2>1. PICK a : \E slot \in Slots : cmd = UpgradeCmd(a, slot)
    BY <1>1
  <2>2. PICK slot \in Slots : cmd = UpgradeCmd(a, slot)
    BY <2>1
  <2>3. cmd.code = 21 /\ cmd.contract = a /\ cmd.slot = slot
    BY <2>2 DEF UpgradeCmd, PROTOCOL_UPGRADE_CMD
  <2>4. path = ProxyIdx.boot
    BY <2>3, PathOf
  <2>5. CmdLabel(path, cmd) = [label |-> "Upgrade", proxy |-> ProxyLabel(slot), contract |-> a]
    BY <2>3, <2>4, <1>0 DEF CmdLabel, PROTOCOL_UPGRADE_CMD, PROTOCOL_AUTH_TRANSFER_CMD,
       PROTOCOL_HOT_OPEN_CMD
  <2>6. DexAfter(d, cmd) = [d EXCEPT !.proxies[slot] = a]
    BY <2>3, UpgradeEffect
  <2>7. ProxyIdx[ProxyLabel(slot)] = slot
    BY SlotLabels
  <2>8. LabelHolds([label |-> "Upgrade", proxy |-> ProxyLabel(slot), contract |-> a],
                   d, DexAfter(d, cmd))
    BY <2>6, <2>7, SMT DEF LabelHolds
  <2> QED  BY <2>5, <2>8, Zenon
<1>2. CASE \E a : cmd = AuthTransferCmd(a)
  <2>1. PICK a : cmd = AuthTransferCmd(a)
    BY <1>2
  <2>2. cmd.code = 20 /\ cmd.authority = a
    BY <2>1 DEF AuthTransferCmd, PROTOCOL_AUTH_TRANSFER_CMD
  <2>3. path = ProxyIdx.cold
    BY <2>2, SMT DEF DexOkay, PROTOCOL_UPGRADE_CMD
  <2>4. CmdLabel(path, cmd) = [label |-> "AuthTransfer", authority |-> a]
    BY <2>2, <2>3, <1>0 DEF CmdLabel, PROTOCOL_UPGRADE_CMD, PROTOCOL_AUTH_TRANSFER_CMD,
       PROTOCOL_HOT_OPEN_CMD
  <2>5. DexAfter(d, cmd) = [d EXCEPT !.authority = a]
    BY <2>2 DEF DexAfter, PROTOCOL_UPGRADE_CMD, PROTOCOL_AUTH_TRANSFER_CMD,
       PROTOCOL_HOT_OPEN_CMD
  <2> QED  BY <2>4, <2>5 DEF LabelHolds
<1>3. CASE \E open \in BOOLEAN : cmd = HotOpenCmd(open)
  <2>1. PICK open \in BOOLEAN : cmd = HotOpenCmd(open)
    BY <1>3
  <2>2. cmd.code = 22 /\ cmd.open = open
    BY <2>1 DEF HotOpenCmd, PROTOCOL_HOT_OPEN_CMD
  <2>3. path = ProxyIdx.cold
    BY <2>2, PathOf
  <2>4. CmdLabel(path, cmd) = [label |-> "HotOpen", open |-> open]
    BY <2>2, <2>3, <1>0 DEF CmdLabel, PROTOCOL_UPGRADE_CMD, PROTOCOL_AUTH_TRANSFER_CMD,
       PROTOCOL_HOT_OPEN_CMD
  <2>5. DexAfter(d, cmd) = [d EXCEPT !.hotOpen = open]
    BY <2>2 DEF DexAfter, PROTOCOL_UPGRADE_CMD, PROTOCOL_AUTH_TRANSFER_CMD,
       PROTOCOL_HOT_OPEN_CMD
  <2> QED  BY <2>4, <2>5 DEF LabelHolds
<1>4. CASE cmd.code \in {110, 112}
  <2>1. CmdLabel(path, cmd) = [label |-> "Unknown", code |-> cmd.code]
    BY <1>4 DEF CmdLabel, PROTOCOL_UPGRADE_CMD, PROTOCOL_AUTH_TRANSFER_CMD,
       PROTOCOL_HOT_OPEN_CMD
  <2>2. \E liq, templ : DexAfter(d, cmd) = [d EXCEPT !.initLiq = liq, !.templ = templ]
    <3>1. CASE cmd.code = 112
      <4>1. DexAfter(d, cmd) = [d EXCEPT !.initLiq = cmd.initLiq]
        BY <3>1 DEF DexAfter, PROTOCOL_UPGRADE_CMD, PROTOCOL_AUTH_TRANSFER_CMD,
           PROTOCOL_HOT_OPEN_CMD
      <4>2. DexAfter(d, cmd) = [d EXCEPT !.initLiq = cmd.initLiq, !.templ = d.templ]
        BY <4>1 DEF DexStates
      <4> QED  BY <4>2
    <3>2. CASE cmd.code = 110
      <4>1. DexAfter(d, cmd) = [d EXCEPT !.templ = cmd]
        BY <3>2 DEF DexAfter, PROTOCOL_UPGRADE_CMD, PROTOCOL_AUTH_TRANSFER_CMD,
           PROTOCOL_HOT_OPEN_CMD
      <4>2. DexAfter(d, cmd) = [d EXCEPT !.initLiq = d.initLiq, !.templ = cmd]
        BY <4>1 DEF DexStates
      <4> QED  BY <4>2
    <3> QED  BY <1>4, <3>1, <3>2
  <2>3. PICK liq, templ : DexAfter(d, cmd) = [d EXCEPT !.initLiq = liq, !.templ = templ]
    BY <2>2
  <2>4. DexAfter(d, cmd).initLiq = liq /\ DexAfter(d, cmd).templ = templ
    BY <2>3 DEF DexStates
  <2> QED  BY <2>1, <2>3, <2>4 DEF LabelHolds
<1>5. \/ \E a : \E slot \in Slots : cmd = UpgradeCmd(a, slot)
      \/ \E a : cmd = AuthTransferCmd(a)
      \/ \E open \in BOOLEAN : cmd = HotOpenCmd(open)
      \/ cmd.code \in {110, 112}
  <2>1. CASE cmd \in {UpgradeCmd(Addr(f, 2), ProxyIdx[f]) : f \in Sidecars \cup {"safeMode"}}
    BY <2>1 DEF Slots
  <2>2. CASE cmd \in {UpgradeCmd(Empty, slot) : slot \in Slots}
    BY <2>2
  <2>3. CASE cmd \in {AuthTransferCmd(Addr("policy", n)) : n \in 1 .. MaxCopies}
    BY <2>3
  <2>4. CASE cmd \in {HotOpenCmd(open) : open \in BOOLEAN}
    BY <2>4
  <2>5. CASE cmd = InitLiqCmd(Params).protocolCmd
    BY <2>5 DEF InitLiqCmd, Cmd
  <2>6. CASE cmd = PoolStdTemplCmd(Params).protocolCmd
    BY <2>6 DEF PoolStdTemplCmd, Cmd
  <2> QED  BY <2>1, <2>2, <2>3, <2>4, <2>5, <2>6 DEF DraftCmds
<1> QED  BY <1>1, <1>2, <1>3, <1>4, <1>5

\* The signers of a completed deployment are shown what a treasury resolution
\* does (decodeResolution.ts reads either call back to a label that holds).
THEOREM SignersShown == Spec => []SignersSeeWhatRuns
<1>1. IInv => SignersSeeWhatRuns
  <2> SUFFICES ASSUME Types, Charge, Complete,
                      NEW cmd \in DraftCmds, NEW path \in {ProxyIdx.boot, ProxyIdx.cold},
                      DexOkay(dex, path, cmd, TRUE),
                      NEW call \in {TreasuryResolution(book, Cmd(cmd, path, TRUE), 30, 0).calls.schedule,
                                    TreasuryResolution(book, Cmd(cmd, path, TRUE), 30, 0).calls.execute}
               PROVE  Decode(call) /\ LabelHolds(DecodePolicySched(call), dex, DexAfter(dex, cmd))
    BY DEF IInv, SignersSeeWhatRuns
  <2>1. /\ call.target = book["policy"]
        /\ Payload(call) = [fn |-> "treasuryResolution", minion |-> book["dex"],
                            proxyPath |-> path, cmd |-> cmd, sudo |-> TRUE]
    <3> DEFINE data == [fn |-> "treasuryResolution", minion |-> book["dex"],
                        proxyPath |-> path, cmd |-> cmd, sudo |-> TRUE]
               calls == TreasuryResolution(book, Cmd(cmd, path, TRUE), 30, 0).calls
    <3>1. calls = PopulateTimelockCalls(book["timelockTreasury"], book["policy"], data, 30, 0)
      BY DEF TreasuryResolution, Instruction, Cmd
    <3>2. call \in {calls.schedule, calls.execute}
      OBVIOUS
    <3> HIDE DEF data, calls
    <3>3. /\ calls.schedule = [fn |-> "schedule", target |-> book["policy"],
                               data |-> data, salt |-> 0, delay |-> 30]
          /\ calls.execute = [fn |-> "execute", target |-> book["policy"],
                              payload |-> data, salt |-> 0]
      BY <3>1 DEF PopulateTimelockCalls
    <3>4. call.target = book["policy"] /\ Payload(call) = data
      BY <3>2, <3>3 DEF Payload
    <3> QED  BY <3>4 DEF data
  <2>2. DecodeOkay(book["policy"], book["dex"], call)
    BY <2>1 DEF DecodeOkay
  <2>3. DecodePolicySched(call) = CmdLabel(path, cmd)
    BY <2>1 DEF DecodePolicySched
  <2>4. book["policy"] # Empty /\ done = 10
    BY DEF Charge, Complete
  <2>5. book["dex"] # Empty
    BY DEF Complete, Validate, ValidateDeploy, Empty, Addr
  <2>6. book["timelockOps"] # Empty
    <3>1. "policy" \in Fields \ (Multisigs \cup {"timelockEmergency"})
      BY DEF Fields, Multisigs
    <3>2. book["policy"] \in Policies
      BY <2>4, <3>1, BookEntries, RecordableOf DEF Types, Policies
    <3>3. roles[book["policy"]] # AllWallet
      BY <2>4 DEF Charge
    <3>4. \A t \in Timelocks : book[t] # Empty
      BY <3>2, <3>3 DEF Charge
    <3> QED  BY <3>4 DEF Timelocks
  <2>7. Decode(call)
    BY <2>2, <2>4, <2>5, <2>6 DEF Decode
  <2>8. dex \in DexStates
    BY DEF Types
  <2>9. LabelHolds(CmdLabel(path, cmd), dex, DexAfter(dex, cmd))
    BY <2>8, LabelsHold
  <2> QED  BY <2>3, <2>7, <2>9
<1> QED  BY <1>1, DeploymentInv, PTL
=============================================================================
