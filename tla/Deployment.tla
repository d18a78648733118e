------------------------------ MODULE Deployment ------------------------------
(***************************************************************************)
(* A dex is deployed and handed to governance: one person runs the scripts *)
(* of DeployScripts one after the other against a chain, keeps the address *)
(* book constants/addrs.ts, and brings the printed instructions to the     *)
(* multisigs.                                                              *)
(*                                                                         *)
(* A script reads the book when it starts, works on its copy in memory and *)
(* may crash between any two statements, or fail at one.  The person then  *)
(* copies what it last printed into the book and may run it again.  Every  *)
(* statement is one step: a transaction that is sent is also mined.        *)
(*                                                                         *)
(* The delay of a timelock is compared but does not pass: an operation may *)
(* run at any time after it was scheduled.                                 *)
(***************************************************************************)
EXTENDS DeployScripts

CONSTANTS
    Params,     \* the parameters of constants/poolParams.ts for the chain
    MaxCopies,  \* bound: contracts of one kind ever deployed
    MaxMishaps, \* bound: crashes, scripts run again and detours
    MaxPrints   \* bound: instructions printed before a script is run again

ASSUME DeployAssumption ==
    /\ {MaxMishaps, MaxCopies, MaxPrints} \subseteq Nat
    /\ MaxMishaps < MaxCopies

Wallet == Addr("wallet", 1)
\* Kinds of contracts are named for the field that holds their address.
Kinds == Fields \ Multisigs
Copies(kind) == {Addr(kind, n) : n \in 1 .. MaxCopies}
Policies == Copies("policy")
TimelockCopies == UNION {Copies(t) : t \in Timelocks}
MultisigAddr(m) == Addr(m, 1)
\* What a field of the address book may hold.
Recordable(f) ==
    CASE f \in Multisigs          -> {MultisigAddr(f)}
      [] f = "timelockEmergency" -> {Empty} \cup TimelockCopies
      [] OTHER                   -> {Empty} \cup Copies(f)

Roles == {"ops", "treasury", "emergency"}
Slots == {ProxyIdx[f] : f \in Sidecars \cup {"safeMode"}}
NoTempl == [code |-> 0]

VARIABLES
    count,    \* contracts deployed, by kind
    dex,      \* the state of the dex that protocol commands change
    roles,    \* the authorities of every policy
    locks,    \* the owner and delay of every timelock
    book,     \* constants/addrs.ts
    running,  \* the script that runs, or 0
    pc,       \* its next statement
    addrs,    \* its copy of the address book
    logged,   \* the address book it last printed
    done,     \* steps that are finished
    agenda,   \* instructions each multisig still has to schedule
    pending,  \* operations scheduled with their timelock, to be executed
    prints,   \* instructions ever printed, the salt of the last one
    mishaps   \* crashes, scripts run again and detours so far

chain == <<count, dex, roles, locks>>
script == <<running, pc, addrs, logged>>
signing == <<agenda, pending, prints>>
vars == <<chain, script, signing, book, done, mishaps>>

Deployed(a) == a.kind \in Kinds /\ a.n \in 1 .. count[a.kind]
Dex == Addr("dex", 1)
\* The one deployer a salt was mined for: the wallet's first contract.
SaltedDeployer == Addr("deployer", 1)
InitBook ==
    [f \in Fields |-> IF f \in Multisigs THEN MultisigAddr(f) ELSE EmptyAddrs[f]]

Init ==
    /\ count = [kind \in Kinds |-> 0]
    /\ dex = [authority |-> Empty, hotOpen |-> TRUE,
              proxies |-> [slot \in Slots |-> Empty],
              initLiq |-> 0, templ |-> NoTempl]
    /\ roles = [p \in Policies |-> [r \in Roles |-> Wallet]]
    /\ locks = [t \in TimelockCopies |-> [owner |-> Empty, delay |-> 0]]
    /\ book = InitBook
    /\ running = 0 /\ pc = 1 /\ addrs = InitBook /\ logged = InitBook
    /\ done = 0
    /\ agenda = [m \in Multisigs |-> <<>>]
    /\ pending = {} /\ prints = 0
    /\ mishaps = 0

-----------------------------------------------------------------------------
\* Protocol commands on the chain

\* Every sidecar accepts the slot of its own kind; no address clears a slot.
AcceptsRole(contract, slot) ==
    \/ contract = Empty /\ slot # ProxyIdx.boot
    \/ /\ contract.kind \in Sidecars \cup {"safeMode"}
       /\ ProxyIdx[contract.kind] = slot

MAX_INIT_POOL_LIQ == 10000000
DexOkay(d, path, cmd, sudo) ==
    \/ /\ path = ProxyIdx.boot /\ sudo
       /\ cmd.code = PROTOCOL_UPGRADE_CMD
       /\ AcceptsRole(cmd.contract, cmd.slot)
    \/ /\ path = ProxyIdx.cold /\ d.proxies[path] # Empty
       /\ \/ cmd.code = 110
          \/ cmd.code = 112 /\ cmd.initLiq > 0 /\ cmd.initLiq < MAX_INIT_POOL_LIQ
          \/ /\ sudo /\ cmd.code = PROTOCOL_AUTH_TRANSFER_CMD
             /\ cmd.authority.kind = "policy"
          \/ sudo /\ cmd.code = PROTOCOL_HOT_OPEN_CMD

DexAfter(d, cmd) ==
    CASE cmd.code = PROTOCOL_UPGRADE_CMD ->
            [d EXCEPT !.proxies[cmd.slot] = cmd.contract]
      [] cmd.code = PROTOCOL_AUTH_TRANSFER_CMD ->
            [d EXCEPT !.authority = cmd.authority]
      [] cmd.code = PROTOCOL_HOT_OPEN_CMD -> [d EXCEPT !.hotOpen = cmd.open]
      [] cmd.code = 112 -> [d EXCEPT !.initLiq = cmd.initLiq]
      [] cmd.code = 110 -> [d EXCEPT !.templ = cmd]

\* Any role may send what operations may.
HasRole(policy, who, type) ==
    IF type = "treasury" THEN roles[policy]["treasury"] = who
    ELSE \E r \in Roles : roles[policy][r] = who

-----------------------------------------------------------------------------
\* The statements of a script

Script == IF running = 0 THEN <<>> ELSE Scripts[running]
AtStatement(op) == pc \in 1 .. Len(Script) /\ Script[pc].op = op
Statement == Script[pc]

RefOkay == addrs[Statement.field] # Empty
DoRef ==
    /\ AtStatement("ref") /\ RefOkay
    /\ pc' = pc + 1
    /\ UNCHANGED <<chain, signing, book, done, mishaps, running, addrs, logged>>

MapSaltOkay == addrs["deployer"] = SaltedDeployer
DoMapSalt ==
    /\ AtStatement("mapSalt") /\ MapSaltOkay
    /\ pc' = pc + 1
    /\ UNCHANGED <<chain, signing, book, done, mishaps, running, addrs, logged>>

InflateOkay ==
    \/ addrs[Statement.at] # Empty
    \/ /\ \A f \in Statement.args : addrs[f] # Empty
       /\ count[Statement.field] < MaxCopies
DoInflate ==
    /\ AtStatement("inflate") /\ InflateOkay
    /\ pc' = pc + 1
    /\ LET field == Statement.field
           new == Addr(field, count[field] + 1)
       IN  IF addrs[Statement.at] # Empty
           THEN /\ addrs' = [addrs EXCEPT ![field] = addrs[Statement.at]]
                /\ UNCHANGED <<count, locks>>
           ELSE /\ addrs' = [addrs EXCEPT ![field] = new]
                /\ count' = [count EXCEPT ![field] = @ + 1]
                /\ locks' = IF field \notin Timelocks THEN locks
                            ELSE [locks EXCEPT ![new] =
                                    [owner |-> addrs[CHOOSE m \in Statement.args : TRUE],
                                     delay |-> INIT_TIMELOCK_DELAY]]
    /\ UNCHANGED <<dex, roles, signing, book, done, mishaps, running, logged>>

DoPrint ==
    /\ AtStatement("print")
    /\ pc' = pc + 1
    /\ logged' = addrs
    /\ UNCHANGED <<chain, signing, book, done, mishaps, running, addrs>>

\* The address is the hash of the deployer, the code and the salt: it can be
\* taken only once.  The dex starts under the authority of its deployer.
Create2Okay == Deployed(addrs["deployer"]) /\ count["dex"] = 0
DoCreate2 ==
    /\ AtStatement("create2") /\ Create2Okay
    /\ pc' = pc + 1
    /\ count' = [count EXCEPT !["dex"] = 1]
    /\ dex' = [dex EXCEPT !.authority = addrs["deployer"]]
    /\ UNCHANGED <<roles, locks, signing, book, done, mishaps, running, addrs, logged>>

DoReadDex ==
    /\ AtStatement("readDex")
    /\ pc' = pc + 1
    /\ addrs' = [addrs EXCEPT !["dex"] = Dex]
    /\ UNCHANGED <<chain, signing, book, done, mishaps, running, logged>>

\* A command of the scripts with its addresses filled in.
Fill(c) ==
    CASE c.name = "upgrade" ->
            Cmd(UpgradeCmd(addrs[c.field], ProxyIdx[c.field]), ProxyIdx.boot, TRUE)
      [] c.name = "authority" ->
            Cmd(AuthTransferCmd(addrs[c.field]), ProxyIdx.cold, TRUE)
      [] c.name = "initLiq"  -> InitLiqCmd(Params)
      [] c.name = "stdTempl" -> PoolStdTemplCmd(Params)
FillOkay(c) ==
    /\ c.name \in {"upgrade", "authority"} => addrs[c.field] # Empty
    /\ c.name = "stdTempl" => PoolStdTemplOkay(Params)

SendOkay ==
    LET cmd == Fill(Statement.cmd)
        via == IF Statement.via = "deployer" THEN "deployer" ELSE "policy"
    IN  /\ FillOkay(Statement.cmd)
        /\ addrs["dex"] = Dex /\ addrs[via] = dex.authority
        /\ via = "policy" => HasRole(addrs["policy"], Wallet, Statement.via)
        /\ DexOkay(dex, cmd.callpath, cmd.protocolCmd, cmd.sudo)
DoSend ==
    /\ AtStatement("send") /\ SendOkay
    /\ pc' = pc + 1
    /\ dex' = DexAfter(dex, Fill(Statement.cmd).protocolCmd)
    /\ UNCHANGED <<count, roles, locks, signing, book, done, mishaps, running,
                   addrs, logged>>

TransferOkay ==
    /\ Deployed(addrs["policy"])
    /\ HasRole(addrs["policy"], Wallet, "treasury")
    /\ \A r \in Roles : Deployed(addrs[Statement[r]])
DoTransferGovernance ==
    /\ AtStatement("transfer") /\ TransferOkay
    /\ pc' = pc + 1
    /\ roles' = [roles EXCEPT ![addrs["policy"]] =
                    [r \in Roles |-> addrs[Statement[r]]]]
    /\ UNCHANGED <<count, dex, locks, signing, book, done, mishaps, running,
                   addrs, logged>>

\* An instruction joins the agenda of the multisig it is printed for.
Issue(instruction) ==
    /\ agenda' = [agenda EXCEPT ![instruction.multisig] =
                    Append(@, instruction.calls)]
    /\ prints' = prints + 1

ResolveOkay ==
    /\ FillOkay(Statement.cmd)
    /\ IF Statement.type = "ops" THEN OpsResolutionOkay(addrs)
                                 ELSE TreasuryResolutionOkay(addrs)
DoPrintResolution ==
    /\ AtStatement("resolve") /\ ResolveOkay
    /\ pc' = pc + 1
    /\ LET cmd == Fill(Statement.cmd)
       IN  IF Statement.type = "ops"
           THEN Issue(OpsResolution(addrs, cmd, Statement.delay, prints + 1))
           ELSE Issue(TreasuryResolution(addrs, cmd, Statement.delay, prints + 1))
    /\ UNCHANGED <<chain, pending, book, done, mishaps, running, addrs, logged>>

SetDelayOkay ==
    TimelockDelayOkay(addrs[IF Statement.type = "ops" THEN "timelockOps"
                            ELSE "timelockTreasury"], Statement.newDelay)
DoPrintTimelockSet ==
    /\ AtStatement("setDelay") /\ SetDelayOkay
    /\ pc' = pc + 1
    /\ IF Statement.type = "ops"
       THEN Issue(OpsTimelockSet(addrs, Statement.newDelay,
                                 Statement.oldDelay, prints + 1))
       ELSE Issue(TreasuryTimelockSet(addrs, Statement.newDelay,
                                      Statement.oldDelay, prints + 1))
    /\ UNCHANGED <<chain, pending, book, done, mishaps, running, addrs, logged>>

-----------------------------------------------------------------------------
\* The person who runs the scripts

IsNext(k) == k \in Steps /\ k = done + 1

\* Steps are run in order; a step may be run again, and the alternative step
\* once the sidecars are installed.
Start(k) ==
    /\ running = 0
    /\ \/ k \in Steps /\ k <= done + 1
       \/ k = AltStep /\ done >= 5
    /\ IF IsNext(k) THEN UNCHANGED mishaps
       ELSE /\ mishaps < MaxMishaps /\ prints < MaxPrints
            /\ mishaps' = mishaps + 1
    /\ running' = k /\ pc' = 1
    /\ addrs' = book /\ logged' = book
    /\ UNCHANGED <<chain, signing, book, done>>

\* However a script ends, what it last printed is copied into the book.
Stop ==
    /\ book' = logged
    /\ running' = 0 /\ pc' = 1
    /\ addrs' = logged
    /\ UNCHANGED <<chain, signing, logged>>

End ==
    /\ running # 0 /\ pc > Len(Script)
    /\ done' = IF IsNext(running) THEN running ELSE done
    /\ UNCHANGED mishaps
    /\ Stop

Crash ==
    /\ running # 0 /\ mishaps < MaxMishaps
    /\ mishaps' = mishaps + 1
    /\ UNCHANGED done
    /\ Stop

\* A statement throws, or its transaction reverts.
Abort ==
    /\ \/ AtStatement("ref") /\ ~RefOkay
       \/ AtStatement("mapSalt") /\ ~MapSaltOkay
       \/ AtStatement("inflate") /\ ~InflateOkay
       \/ AtStatement("create2") /\ ~Create2Okay
       \/ AtStatement("send") /\ ~SendOkay
       \/ AtStatement("transfer") /\ ~TransferOkay
       \/ AtStatement("resolve") /\ ~ResolveOkay
       \/ AtStatement("setDelay") /\ ~SetDelayOkay
    /\ UNCHANGED <<done, mishaps>>
    /\ Stop

\* The person finds on the chain what a crash kept from the log: the deployer
\* that has a salt, the dex, or that the transactions of a step went through.
LookUp ==
    /\ running = 0
    /\ \/ /\ done = 1 /\ book["deployer"] # SaltedDeployer
          /\ book' = [book EXCEPT !["deployer"] = SaltedDeployer]
          /\ UNCHANGED done
       \/ /\ done = 1 /\ count["dex"] = 1
          /\ book' = [book EXCEPT !["dex"] = Dex]
          /\ done' = 2
       \/ /\ done = 2 /\ book["policy"] # Empty /\ dex.authority = book["policy"]
          /\ done' = 3
          /\ UNCHANGED book
       \/ /\ done = 6 /\ \A r \in Roles : roles[book["policy"]][r] # Wallet
          /\ done' = 7
          /\ UNCHANGED book
    /\ addrs' = book' /\ logged' = book'
    /\ UNCHANGED <<chain, signing, running, pc, mishaps>>

-----------------------------------------------------------------------------
\* The multisigs and their timelocks

\* Instructions are scheduled in the order they were printed.  A call that the
\* timelock refuses is lost.
Schedule(m) ==
    /\ agenda[m] # <<>>
    /\ LET calls == Head(agenda[m])
           lock == locks[calls.timelock]
       IN  pending' = IF /\ lock.owner = MultisigAddr(m)
                         /\ calls.schedule.delay >= lock.delay
                      THEN pending \cup {calls} ELSE pending
    /\ agenda' = [agenda EXCEPT ![m] = Tail(@)]
    /\ UNCHANGED <<chain, script, book, done, prints, mishaps>>

\* An operation is known by the hash of its arguments.
SameOperation(calls) ==
    /\ calls.execute.target = calls.schedule.target
    /\ calls.execute.payload = calls.schedule.data
    /\ calls.execute.salt = calls.schedule.salt

\* The timelock calls the policy, which calls the dex, or itself.
Resolves(timelock, policy, call) ==
    LET type == IF call.fn = "treasuryResolution" THEN "treasury" ELSE "ops"
        sudo == call.fn = "treasuryResolution" /\ call.sudo
    IN  /\ HasRole(policy, timelock, type)
        /\ call.minion = Dex /\ dex.authority = policy
        /\ DexOkay(dex, call.proxyPath, call.cmd, sudo)
Execute(calls) ==
    /\ calls \in pending /\ SameOperation(calls)
    /\ LET target == calls.schedule.target
           call == calls.schedule.data
       IN  \/ /\ target \in Policies /\ Resolves(calls.timelock, target, call)
              /\ dex' = DexAfter(dex, call.cmd)
              /\ UNCHANGED locks
           \/ /\ target = calls.timelock /\ call.fn = "updateDelay"
              /\ locks' = [locks EXCEPT ![target].delay = call.newDelay]
              /\ UNCHANGED dex
    /\ pending' = pending \ {calls}
    /\ UNCHANGED <<count, roles, script, book, done, agenda, prints, mishaps>>

-----------------------------------------------------------------------------
Statements ==
    \/ DoRef \/ DoMapSalt \/ DoInflate \/ DoPrint \/ DoCreate2 \/ DoReadDex
    \/ DoSend \/ DoTransferGovernance \/ DoPrintResolution \/ DoPrintTimelockSet
    \/ End \/ Abort

Signing ==
    \/ \E m \in Multisigs : Schedule(m)
    \/ \E calls \in pending : Execute(calls)

Next ==
    \/ Statements \/ Crash \/ LookUp \/ Signing
    \/ \E k \in Steps \cup {AltStep} : Start(k)

Spec == Init /\ [][Next]_vars

\* A script that runs goes on, what is printed is signed and what is due is
\* executed.  The person comes back to the next step and to what the chain
\* shows however often a script failed in between.
FairSpec ==
    /\ Spec
    /\ WF_vars(Statements)
    /\ SF_vars(\E k \in Steps : IsNext(k) /\ Start(k))
    /\ SF_vars(LookUp)
    /\ WF_vars(Signing)

-----------------------------------------------------------------------------
\* Properties

\* Every variable has its type.
TypeOK ==
    /\ count \in [Kinds -> 0 .. MaxCopies]
    /\ dex.authority \in {Empty} \cup Copies("deployer") \cup Policies
    /\ \A f \in Sidecars : dex.proxies[ProxyIdx[f]] \in Recordable(f)
    /\ roles \in [Policies -> [Roles -> TimelockCopies \cup {Wallet}]]
    /\ locks \in [TimelockCopies ->
            [owner : {Empty} \cup {MultisigAddr(m) : m \in Multisigs}, delay : Nat]]
    /\ \A f \in Fields : {book[f], addrs[f], logged[f]} \subseteq Recordable(f)
    /\ running \in 0 .. AltStep /\ pc \in 1 .. Len(Script) + 1
    /\ done \in 0 .. 10
    /\ DOMAIN agenda = Multisigs
    /\ prints \in Nat /\ mishaps \in 0 .. MaxMishaps

\* Whatever is in force on the chain would be in the address book after a
\* crash at any statement of any script: the policy in charge, every sidecar
\* and every holder of a role.  Scripts print before they send.
InForceIsRecorded ==
    /\ dex.authority \in {Empty, SaltedDeployer, logged["policy"]}
    /\ \A f \in Sidecars : dex.proxies[ProxyIdx[f]] \in {Empty, logged[f]}
    /\ \A p \in Policies : \A r \in Roles :
          roles[p][r] \in {Wallet} \cup {logged[t] : t \in Timelocks}

\* Once the transfer of governance is done the wallet has no role left in the
\* policy that is in charge of the dex: operations and treasury are with the
\* timelock of their own multisig (vanityStep7), however often scripts crashed
\* and were run again before.
HandoverReaches ==
    done >= 7 =>
        /\ dex.authority = book["policy"]
        /\ roles[dex.authority] = [ops |-> book["timelockOps"],
                                   treasury |-> book["timelockTreasury"],
                                   emergency |-> book["timelockEmergency"]]
        /\ locks[book["timelockOps"]].owner = book["multisigOps"]
        /\ locks[book["timelockTreasury"]].owner = book["multisigTreasury"]

\* A recorded address is never lost or replaced: a script attaches to what it
\* finds in the book (inflateAddr).  Only a deployer without a salt is given up.
BookWriteOnce ==
    [][\A f \in Fields \ {"deployer"} : book[f] # Empty => book'[f] = book[f]]_vars

\* Any command the governors of a deployed dex may want to send.
DraftCmds ==
    {UpgradeCmd(Addr(f, 2), ProxyIdx[f]) : f \in Sidecars \cup {"safeMode"}}
        \cup {UpgradeCmd(Empty, slot) : slot \in Slots}
        \cup {AuthTransferCmd(Addr("policy", n)) : n \in 1 .. MaxCopies}
        \cup {HotOpenCmd(open) : open \in BOOLEAN}
        \cup {InitLiqCmd(Params).protocolCmd, PoolStdTemplCmd(Params).protocolCmd}

\* What a label claims of the dex before and after.
LabelHolds(l, d, e) ==
    CASE l.label = "Upgrade" ->
            e = [d EXCEPT !.proxies[ProxyIdx[l.proxy]] = l.contract]
      [] l.label = "AuthTransfer" -> e = [d EXCEPT !.authority = l.authority]
      [] l.label = "HotOpen" -> e = [d EXCEPT !.hotOpen = l.open]
      [] l.label = "Unknown" -> e = [d EXCEPT !.initLiq = e.initLiq,
                                              !.templ = e.templ]

\* The code at an address is compared with what the source builds.
ValidateDeploy(addr, contract) == Deployed(addr) /\ addr.kind = contract
Validate(addresses) ==
    \A f \in Sidecars \cup {"dex", "policy", "query", "impact"} :
        ValidateDeploy(addresses[f], f)

\* decodeResolution.ts can show a call to the signers.
Decode(call) ==
    /\ \A f \in {"timelockOps", "policy", "dex"} : book[f] # Empty
    /\ DecodeOkay(book["policy"], book["dex"], call)

\* All that the scripts are run for: contracts that validate, every sidecar in
\* its slot, pools with the parameters meant for them, roles handed over and
\* the delays raised.
Complete ==
    /\ done = 10 /\ dex.authority = book["policy"]
    /\ Validate(book)
    /\ \A f \in Sidecars : dex.proxies[ProxyIdx[f]] = book[f]
    /\ dex.initLiq = Params.initLiq
    /\ dex.templ # NoTempl /\ dex.templ.feeRate = 100 * Params.feeBps
    /\ dex.templ.jitThresh * 10 = Params.jitThresh
    /\ Params.knockoutOn => 2 ^ (dex.templ.knockout % 16) = Params.tickSize
    /\ \A t \in {"timelockOps", "timelockTreasury"} : locks[book[t]].delay = TwoDays

\* Signers decode the calldata they are given before they send it
\* (decodeResolution.ts).  If the dex would accept the command of a treasury
\* resolution then it can be decoded, from the call that schedules it as from
\* the one that executes it, and does to the dex what it is shown to do.
SignersSeeWhatRuns ==
    Complete => \A cmd \in DraftCmds : \A path \in {ProxyIdx.boot, ProxyIdx.cold} :
        LET calls == TreasuryResolution(book, Cmd(cmd, path, TRUE), 30, 0).calls
        IN  DexOkay(dex, path, cmd, TRUE) =>
                \A call \in {calls.schedule, calls.execute} :
                    /\ Decode(call)
                    /\ LabelHolds(DecodePolicySched(call), dex, DexAfter(dex, cmd))

\* However many scripts crash at whatever statement, running them again and
\* signing what they print completes the deployment, and nothing undoes it.
DeploymentCompletes == <>[]Complete

\* docs/GovernanceRoles.md:37, of the emergency role: an "escape valve" for
\* "critical issues that the treasury role cannot address if it's behind a long
\* timelock delay".  The third statement of vanityStep6 looks for the emergency
\* timelock at the treasury's address and never deploys it, so the role goes to
\* the treasury's own timelock.
EmergencyHasItsTimelock ==
    done >= 7 =>
        locks[roles[dex.authority]["emergency"]].owner = book["multisigEmergency"]
=============================================================================
