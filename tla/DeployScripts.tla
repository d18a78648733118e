----------------------------- MODULE DeployScripts -----------------------------
(***************************************************************************)
(* The scripts that deploy a dex and hand it to governance, misc/scripts/  *)
(* deploy/vanityStep*.ts, each as the sequence of its statements: what it  *)
(* reads from the address book, what it deploys, prints and sends.         *)
(*                                                                         *)
(* A statement that starts with a capital is an operator of libs/chain.ts, *)
(* libs/governance.ts or of a contract.  Commands name the fields of the   *)
(* address book they take their addresses from.                            *)
(***************************************************************************)
EXTENDS GovernanceTools, Sequences

\* refContract, or inflateAddr of a contract that has constructor arguments
\* when it is given none: the contract has to be recorded.
RefContract(field) == [op |-> "ref", field |-> field]
\* inflateAddr: attaches to the contract recorded at "at", or deploys one with
\* the recorded addresses "args" as its arguments; its address goes to "field".
InflateAddr(field, at, args) ==
    [op |-> "inflate", field |-> field, at |-> at, args |-> args]
\* The address book as it then stands is written to the log.
PrintAddrs == [op |-> "print"]
MapSalt == [op |-> "mapSalt"]
Create2 == [op |-> "create2"]
ReadDex == [op |-> "readDex"]
\* Transactions of the wallet: a command to the dex through its deployer, or
\* through a role of the policy; and the transfer of the policy's roles.
Send(via, cmd) == [op |-> "send", via |-> via, cmd |-> cmd]
TransferGovernance(ops, treasury, emergency) ==
    [op |-> "transfer", ops |-> ops, treasury |-> treasury,
     emergency |-> emergency]
\* Calldata is printed for a multisig.
PrintResolution(type, cmd, delay) ==
    [op |-> "resolve", type |-> type, cmd |-> cmd, delay |-> delay]
PrintTimelockSet(type, newDelay, oldDelay) ==
    [op |-> "setDelay", type |-> type, newDelay |-> newDelay,
     oldDelay |-> oldDelay]

\* Commands with the field their address is taken from.
Install(field) == [name |-> "upgrade", field |-> field]
Authority(field) == [name |-> "authority", field |-> field]
InitLiq == [name |-> "initLiq"]
StdTempl == [name |-> "stdTempl"]

Step1 == <<InflateAddr("deployer", "deployer", {}), PrintAddrs>>

Step2 == <<MapSalt, RefContract("deployer"), Create2, ReadDex, PrintAddrs>>

\* Mutant: the new addresses are only printed at the end.
Step3PrintsLast ==
    <<RefContract("deployer"),
      InflateAddr("cold", "cold", {}), InflateAddr("policy", "policy", {"dex"}),
      Send("deployer", Install("cold")),
      Send("deployer", Authority("policy")),
      PrintAddrs>>
Step3 ==
    <<RefContract("deployer"),
      InflateAddr("cold", "cold", {}), InflateAddr("policy", "policy", {"dex"}),
      PrintAddrs,
      Send("deployer", Install("cold")),
      Send("deployer", Authority("policy")),
      PrintAddrs>>

Step4Order == <<"cold", "hot", "knockout", "koCross", "long", "micro", "warm",
                "policy", "query", "impact">>
CtorArgs(field) == IF field \in {"policy", "query", "impact"} THEN {"dex"} ELSE {}
Step4 == [i \in 1 .. 2 * Len(Step4Order) |->
            LET field == Step4Order[(i + 1) \div 2]
            IN  IF i % 2 = 1 THEN InflateAddr(field, field, CtorArgs(field))
                             ELSE PrintAddrs]

Step5Order == <<"long", "warm", "hot", "micro", "knockout", "koCross">>
Step5 == [i \in 1 .. Len(Step5Order) + 1 |->
            IF i = 1 THEN RefContract("policy")
                     ELSE Send("treasury", Install(Step5Order[i - 1]))]

\* The emergency timelock is looked for at the treasury's address.
Step6 ==
    <<InflateAddr("timelockTreasury", "timelockTreasury", {"multisigTreasury"}),
      PrintAddrs,
      InflateAddr("timelockOps", "timelockOps", {"multisigOps"}),
      PrintAddrs,
      InflateAddr("timelockEmergency", "timelockTreasury", {"multisigEmergency"}),
      PrintAddrs>>

\* Testnets, where governance stays with the wallet.
Step6Alt ==
    <<RefContract("policy"),
      Send("ops", InitLiq), Send("ops", StdTempl)>>

\* Mutant: operations and treasury swapped.
Step7Swapped ==
    <<RefContract("policy"),
      TransferGovernance("timelockTreasury", "timelockOps", "timelockEmergency")>>
Step7 ==
    <<RefContract("policy"),
      TransferGovernance("timelockOps", "timelockTreasury", "timelockEmergency")>>

\* The warm path is installed again, to see that the treasury's timelock works.
Step8 == <<PrintResolution("treasury", Install("warm"), 30)>>

Step9 ==
    <<PrintResolution("ops", InitLiq, INIT_TIMELOCK_DELAY),
      PrintResolution("ops", StdTempl, INIT_TIMELOCK_DELAY)>>

TwoDays == 2 * 24 * 3600
Step10 ==
    <<PrintTimelockSet("ops", TwoDays, INIT_TIMELOCK_DELAY),
      PrintTimelockSet("treasury", TwoDays, INIT_TIMELOCK_DELAY)>>

\* In the order they are to be run; the alternative step comes last.
Scripts == <<Step1, Step2, Step3, Step4, Step5, Step6, Step7, Step8, Step9,
             Step10, Step6Alt>>
Steps == 1 .. 10
AltStep == 11
=============================================================================
