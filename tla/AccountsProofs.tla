---------------------------- MODULE AccountsProofs ----------------------------
(***************************************************************************)
(* What AgentMask and SettleLayer guarantee for all owners, tokens,        *)
(* commands and messages.                                                  *)
(*                                                                         *)
(* The first half relates the ledger before and after each operator, in    *)
(* five ways: its shape, whether the accounts add up to what is banked,    *)
(* what the dex holds beyond what it owes, whose accounts and wallets are  *)
(* touched, and whose are charged.  The second half lifts these to         *)
(* commands and to the steps of the specification.                         *)
(***************************************************************************)
EXTENDS AgentMask, SumLemmas

Amounts == [Assets -> Int]

\* A ledger within a command, which may fail yet: amounts may be negative.
Drafts ==
    [ok : BOOLEAN, wallet : [Owners -> Amounts], held : Amounts, pools : Amounts,
     fees : Amounts, stray : Amounts, banked : Amounts, surplus : [Accounts -> Amounts]]

\* The accounts add up to what is banked.
AddsUp(L) == \A a \in Assets : L.banked[a] = Total(L, a)

\* A draft that is a ledger if it has not failed.
Sound(L) == L \in Drafts /\ (L.ok => L \in Ledgers) /\ AddsUp(L)

\* What the dex holds of an asset beyond what it owes.
Gap(L, a) == L.held[a] - Owed(L, a)
Shifts(L, M, a, value) ==
    \A b \in SafeAssets : Gap(M, b) = Gap(L, b) + (IF b = a THEN value ELSE 0)

\* From L to M no account but those of accts, and no wallet but those of
\* owners, is changed; or none falls.
Touches(L, M, accts, owners) ==
    /\ \A acct \in Accounts \ accts : M.surplus[acct] = L.surplus[acct]
    /\ \A u \in Owners \ owners : M.wallet[u] = L.wallet[u]
Charges(L, M, accts, owners) ==
    /\ \A acct \in Accounts \ accts, a \in Assets : M.surplus[acct][a] >= L.surplus[acct][a]
    /\ \A u \in Owners \ owners, a \in Assets : M.wallet[u][a] >= L.wallet[u][a]

\* M is a draft made of L, by which value of a came in that is owed to nobody
\* yet, out of what belongs to accts and owners.
Makes(L, M, a, value, accts, owners) ==
    /\ Sound(M) /\ (M.ok => L.ok)
    /\ Shifts(L, M, a, value)
    /\ Touches(L, M, accts, owners)

-----------------------------------------------------------------------------
\* Transfers

LEMMA EtherIsAsset == Ether \in Assets /\ Ether \in SafeAssets /\ SafeAssets \subseteq Assets
    BY SettleAssumption DEF Assets, SafeAssets

LEMMA PrimaryIsAccount == \A u \in Owners : Primary(u) \in Accounts
    BY SettleAssumption DEF Primary, Accounts

LEMMA GapIsInt ==
    ASSUME NEW L, Sound(L)
    PROVE  \A b \in SafeAssets : Gap(L, b) \in Int
    BY EtherIsAsset DEF Sound, Drafts, Amounts, Gap, Owed

\* The accounts still add up when none is changed, or when one is changed by
\* what is banked more.
LEMMA AccountsStay ==
    ASSUME NEW L, NEW M, AddsUp(L), M.surplus = L.surplus, M.banked = L.banked
    PROVE  AddsUp(M)
    BY DEF AddsUp, Total

LEMMA AccountMoves ==
    ASSUME NEW L \in Drafts, AddsUp(L), NEW acct \in Accounts, NEW a \in Assets,
           NEW value \in Int, NEW M,
           M.surplus = [L.surplus EXCEPT ![acct][a] = @ + value],
           M.banked = [L.banked EXCEPT ![a] = @ + value]
    PROVE  AddsUp(M)
<1> SUFFICES ASSUME NEW b \in Assets PROVE M.banked[b] = Total(M, b)
    BY DEF AddsUp
<1> DEFINE f == [x \in Accounts |-> L.surplus[x][b]]
           g == [x \in Accounts |-> M.surplus[x][b]]
<1>1. L.surplus \in [Accounts -> Amounts] /\ L.banked \in Amounts
    BY DEF Drafts
<1>2. /\ \A x \in Accounts : f[x] \in Int
      /\ \A x \in Accounts : g[x] = IF x = acct /\ b = a THEN f[x] + value ELSE f[x]
    BY <1>1 DEF Amounts
<1>3. /\ L.banked[b] = SumFunctionOnSet(f, Accounts) /\ L.banked[b] \in Int
      /\ M.banked[b] = IF b = a THEN L.banked[b] + value ELSE L.banked[b]
      /\ Total(M, b) = SumFunctionOnSet(g, Accounts)
    BY <1>1 DEF AddsUp, Total, Amounts
<1>4. IsFiniteSet(Accounts)
    BY SettleAssumption, FS_Product DEF Accounts
<1> HIDE DEF f, g
<1>5. \A x \in Accounts : g[x] \in Int
    BY <1>2
<1>6. \A x \in Accounts \ {acct} : f[x] = g[x]
    BY <1>2
<1>7. SumFunctionOnSet(g, Accounts) = SumFunctionOnSet(f, Accounts) + g[acct] - f[acct]
    BY <1>2, <1>4, <1>5, <1>6, SumChanges
<1> QED BY <1>2, <1>3, <1>7

LEMMA ArrivesLess ==
    ASSUME NEW a \in Assets, NEW value \in Int
    PROVE  /\ Arrives(a, value) \in Int
           /\ value \in Nat => Arrives(a, value) \in Nat
           /\ a \in SafeAssets => Arrives(a, value) = value
    BY SettleAssumption DEF Arrives

LEMMA CollectMakes ==
    ASSUME NEW L, Sound(L), NEW u \in Owners, NEW a \in Assets,
           NEW value \in Int, L.ok => value \in Nat
    PROVE  LET M == Collect(L, u, a, value)
           IN  /\ Makes(L, M, a, value, {}, {u})
               /\ M.ok => Charges(L, M, {}, {u})
<1> DEFINE M == Collect(L, u, a, value)
<1>0. L \in Drafts /\ L.ok \in BOOLEAN /\ AddsUp(L)
    BY DEF Sound, Drafts
<1>p. /\ Arrives(a, value) \in Int /\ (value \in Nat => Arrives(a, value) \in Nat)
      /\ a \in SafeAssets => Arrives(a, value) = value
    BY ArrivesLess
<1>1. M \in Drafts
  <2>1. [L.wallet EXCEPT ![u][a] = @ - value] \in [Owners -> Amounts]
    BY <1>0, <1>p DEF Drafts, Amounts
  <2>2. [L.held EXCEPT ![a] = @ + Arrives(a, value)] \in Amounts
    BY <1>0, <1>p DEF Drafts, Amounts
  <2>3. (L.ok /\ L.wallet[u][a] >= value) \in BOOLEAN
    OBVIOUS
  <2> QED BY <1>0, <2>1, <2>2, <2>3 DEF Collect, Drafts
<1>2. M.ok => M \in Ledgers
  <2> SUFFICES ASSUME M.ok PROVE M \in Ledgers
    OBVIOUS
  <2>0. L.ok /\ L \in Ledgers /\ L.wallet[u][a] >= value /\ value \in Nat
    BY <1>0 DEF Collect, Sound, Drafts
  <2>1. [L.wallet EXCEPT ![u][a] = @ - value] \in [Owners -> [Assets -> Nat]]
    BY <2>0, <1>p DEF Ledgers
  <2>2. [L.held EXCEPT ![a] = @ + Arrives(a, value)] \in [Assets -> Nat]
    BY <2>0, <1>p DEF Ledgers
  <2>3. (L.ok /\ L.wallet[u][a] >= value) \in BOOLEAN
    OBVIOUS
  <2> QED BY <2>0, <2>1, <2>2, <2>3 DEF Collect, Ledgers
<1>3. Shifts(L, M, a, value)
    BY <1>0, EtherIsAsset, <1>p DEF Shifts, Gap, Owed, Collect, Drafts, Amounts
<1>4. Touches(L, M, {}, {u}) /\ (M.ok => Charges(L, M, {}, {u}))
    BY <1>0, <1>p DEF Touches, Charges, Collect, Drafts, Amounts
<1>5. M.ok => L.ok
    BY <1>0 DEF Collect, Drafts
<1>6. AddsUp(M)
    BY <1>0, AccountsStay DEF Collect, Drafts
<1> QED BY <1>1, <1>2, <1>3, <1>4, <1>5, <1>6 DEF Sound, Makes

LEMMA PayMakes ==
    ASSUME NEW L, Sound(L), NEW u \in Owners, NEW a \in Assets,
           NEW value \in Int, L.ok => value \in Nat
    PROVE  LET M == Pay(L, u, a, value)
           IN  /\ Makes(L, M, a, -value, {}, {u})
               /\ M.ok => Charges(L, M, {}, {})
<1> DEFINE M == Pay(L, u, a, value)
<1>0. L \in Drafts /\ L.ok \in BOOLEAN /\ AddsUp(L)
    BY DEF Sound, Drafts
<1>1. M \in Drafts
  <2>1. [L.wallet EXCEPT ![u][a] = @ + value] \in [Owners -> Amounts]
    BY <1>0 DEF Drafts, Amounts
  <2>2. [L.held EXCEPT ![a] = @ - value] \in Amounts
    BY <1>0 DEF Drafts, Amounts
  <2>3. (L.ok /\ L.held[a] >= value) \in BOOLEAN
    OBVIOUS
  <2> QED BY <1>0, <2>1, <2>2, <2>3 DEF Pay, Drafts
<1>2. M.ok => M \in Ledgers
  <2> SUFFICES ASSUME M.ok PROVE M \in Ledgers
    OBVIOUS
  <2>0. L.ok /\ L \in Ledgers /\ L.held[a] >= value /\ value \in Nat
    BY <1>0 DEF Pay, Sound, Drafts
  <2>1. [L.wallet EXCEPT ![u][a] = @ + value] \in [Owners -> [Assets -> Nat]]
    BY <2>0 DEF Ledgers
  <2>2. [L.held EXCEPT ![a] = @ - value] \in [Assets -> Nat]
    BY <2>0 DEF Ledgers
  <2>3. (L.ok /\ L.held[a] >= value) \in BOOLEAN
    OBVIOUS
  <2> QED BY <2>0, <2>1, <2>2, <2>3 DEF Pay, Ledgers
<1>3. Shifts(L, M, a, -value)
    BY <1>0, EtherIsAsset DEF Shifts, Gap, Owed, Pay, Drafts, Amounts
<1>4. Touches(L, M, {}, {u}) /\ (M.ok => Charges(L, M, {}, {}))
    BY <1>0 DEF Touches, Charges, Pay, Drafts, Amounts
<1>5. M.ok => L.ok
    BY <1>0 DEF Pay, Drafts
<1>6. AddsUp(M)
    BY <1>0, AccountsStay DEF Pay, Drafts
<1> QED BY <1>1, <1>2, <1>3, <1>4, <1>5, <1>6 DEF Sound, Makes

LEMMA CreditMakes ==
    ASSUME NEW L, Sound(L), NEW acct \in Accounts, NEW a \in Assets,
           NEW value \in Int, L.ok => value \in Nat
    PROVE  LET M == Credit(L, acct, a, value)
           IN  /\ Makes(L, M, a, -value, {acct}, {})
               /\ M.ok => Charges(L, M, {}, {})
<1> DEFINE M == Credit(L, acct, a, value)
<1>0. L \in Drafts /\ L.ok \in BOOLEAN /\ AddsUp(L)
    BY DEF Sound, Drafts
<1>1. M \in Drafts
  <2>1. [L.surplus EXCEPT ![acct][a] = @ + value] \in [Accounts -> Amounts]
    BY <1>0 DEF Drafts, Amounts
  <2>2. [L.banked EXCEPT ![a] = @ + value] \in Amounts
    BY <1>0 DEF Drafts, Amounts
  <2> QED BY <1>0, <2>1, <2>2 DEF Credit, Drafts
<1>2. M.ok => M \in Ledgers
  <2> SUFFICES ASSUME M.ok PROVE M \in Ledgers
    OBVIOUS
  <2>0. L.ok /\ L \in Ledgers /\ value \in Nat
    BY <1>0 DEF Credit, Sound, Drafts
  <2>1. [L.surplus EXCEPT ![acct][a] = @ + value] \in [Accounts -> [Assets -> Nat]]
    BY <2>0 DEF Ledgers
  <2>2. [L.banked EXCEPT ![a] = @ + value] \in [Assets -> Int]
    BY <2>0 DEF Ledgers
  <2> QED BY <2>0, <2>1, <2>2 DEF Credit, Ledgers
<1>3. Shifts(L, M, a, -value)
    BY <1>0, EtherIsAsset DEF Shifts, Gap, Owed, Credit, Drafts, Amounts
<1>4. Touches(L, M, {acct}, {}) /\ (M.ok => Charges(L, M, {}, {}))
    BY <1>0 DEF Touches, Charges, Credit, Drafts, Amounts
<1>5. M.ok => L.ok
    BY <1>0 DEF Credit, Drafts
<1>6. AddsUp(M)
  <2>1. /\ M.surplus = [L.surplus EXCEPT ![acct][a] = @ + value]
        /\ M.banked = [L.banked EXCEPT ![a] = @ + value]
    BY <1>0 DEF Credit, Drafts
  <2> QED BY <1>0, <2>1, AccountMoves
<1> QED BY <1>1, <1>2, <1>3, <1>4, <1>5, <1>6 DEF Sound, Makes

LEMMA DebitMakes ==
    ASSUME NEW L, Sound(L), NEW acct \in Accounts, NEW a \in Assets,
           NEW value \in Int, L.ok => value \in Nat
    PROVE  LET M == Debit(L, acct, a, value)
           IN  /\ Makes(L, M, a, value, {acct}, {})
               /\ M.ok => Charges(L, M, {acct}, {})
<1> DEFINE M == Debit(L, acct, a, value)
<1>0. L \in Drafts /\ L.ok \in BOOLEAN /\ AddsUp(L)
    BY DEF Sound, Drafts
<1>1. M \in Drafts
  <2>1. [L.surplus EXCEPT ![acct][a] = @ - value] \in [Accounts -> Amounts]
    BY <1>0 DEF Drafts, Amounts
  <2>2. [L.banked EXCEPT ![a] = @ - value] \in Amounts
    BY <1>0 DEF Drafts, Amounts
  <2>3. (L.ok /\ L.surplus[acct][a] >= value) \in BOOLEAN
    OBVIOUS
  <2> QED BY <1>0, <2>1, <2>2, <2>3 DEF Debit, Drafts
<1>2. M.ok => M \in Ledgers
  <2> SUFFICES ASSUME M.ok PROVE M \in Ledgers
    OBVIOUS
  <2>0. L.ok /\ L \in Ledgers /\ L.surplus[acct][a] >= value /\ value \in Nat
    BY <1>0 DEF Debit, Sound, Drafts
  <2>1. [L.surplus EXCEPT ![acct][a] = @ - value] \in [Accounts -> [Assets -> Nat]]
    BY <2>0 DEF Ledgers
  <2>2. [L.banked EXCEPT ![a] = @ - value] \in [Assets -> Int]
    BY <2>0 DEF Ledgers
  <2>3. (L.ok /\ L.surplus[acct][a] >= value) \in BOOLEAN
    OBVIOUS
  <2> QED BY <2>0, <2>1, <2>2, <2>3 DEF Debit, Ledgers
<1>3. Shifts(L, M, a, value)
    BY <1>0, EtherIsAsset DEF Shifts, Gap, Owed, Debit, Drafts, Amounts
<1>4. Touches(L, M, {acct}, {}) /\ (M.ok => Charges(L, M, {acct}, {}))
    BY <1>0 DEF Touches, Charges, Debit, Drafts, Amounts
<1>5. M.ok => L.ok
    BY <1>0 DEF Debit, Drafts
<1>6. AddsUp(M)
  <2>1. PICK change \in Int : change = -value
    OBVIOUS
  <2>2. /\ M.surplus = [L.surplus EXCEPT ![acct][a] = @ + change]
        /\ M.banked = [L.banked EXCEPT ![a] = @ + change]
    BY <1>0, <2>1 DEF Debit, Drafts, Amounts
  <2> QED BY <1>0, <2>2, AccountMoves
<1> QED BY <1>1, <1>2, <1>3, <1>4, <1>5, <1>6 DEF Sound, Makes

LEMMA LoseMakes ==
    ASSUME NEW L, Sound(L), NEW a \in Assets, NEW value \in Int,
           L.ok => value \in Nat
    PROVE  LET M == Lose(L, a, value)
           IN  /\ Makes(L, M, a, -value, {}, {})
               /\ M.ok => Charges(L, M, {}, {})
<1> DEFINE M == Lose(L, a, value)
<1>0. L \in Drafts /\ L.ok \in BOOLEAN /\ AddsUp(L)
    BY DEF Sound, Drafts
<1>1. M \in Drafts
  <2>1. [L.stray EXCEPT ![a] = @ + value] \in Amounts
    BY <1>0 DEF Drafts, Amounts
  <2> QED BY <1>0, <2>1 DEF Lose, Drafts
<1>2. M.ok => M \in Ledgers
  <2> SUFFICES ASSUME M.ok PROVE M \in Ledgers
    OBVIOUS
  <2>0. L.ok /\ L \in Ledgers /\ value \in Nat
    BY <1>0 DEF Lose, Sound, Drafts
  <2>1. [L.stray EXCEPT ![a] = @ + value] \in [Assets -> Nat]
    BY <2>0 DEF Ledgers
  <2> QED BY <2>0, <2>1 DEF Lose, Ledgers
<1>3. Shifts(L, M, a, -value)
    BY <1>0, EtherIsAsset DEF Shifts, Gap, Owed, Lose, Drafts, Amounts
<1>4. Touches(L, M, {}, {}) /\ (M.ok => Charges(L, M, {}, {}))
    BY <1>0 DEF Touches, Charges, Lose, Drafts, Amounts
<1>5. M.ok => L.ok
    BY <1>0 DEF Lose, Drafts
<1>6. AddsUp(M)
    BY <1>0, AccountsStay DEF Lose, Drafts
<1> QED BY <1>1, <1>2, <1>3, <1>4, <1>5, <1>6 DEF Sound, Makes

LEMMA BookMakes ==
    ASSUME NEW L, Sound(L), NEW a \in Assets, NEW flow \in Int, NEW fee \in Nat
    PROVE  LET M == Book(L, a, flow, fee)
           IN  /\ Makes(L, M, a, -flow, {}, {})
               /\ M.ok => Charges(L, M, {}, {})
<1> DEFINE M == Book(L, a, flow, fee)
<1>0. L \in Drafts /\ L.ok \in BOOLEAN /\ AddsUp(L)
    BY DEF Sound, Drafts
<1>1. M \in Drafts
  <2>1. [L.pools EXCEPT ![a] = @ + flow - fee] \in Amounts
    BY <1>0 DEF Drafts, Amounts
  <2>2. [L.fees EXCEPT ![a] = @ + fee] \in Amounts
    BY <1>0 DEF Drafts, Amounts
  <2>3. (L.ok /\ L.pools[a] + flow - fee >= 0) \in BOOLEAN
    OBVIOUS
  <2> QED BY <1>0, <2>1, <2>2, <2>3 DEF Book, Drafts
<1>2. M.ok => M \in Ledgers
  <2> SUFFICES ASSUME M.ok PROVE M \in Ledgers
    OBVIOUS
  <2>0. L.ok /\ L \in Ledgers /\ L.pools[a] + flow - fee >= 0
    BY <1>0 DEF Book, Sound, Drafts
  <2>1. [L.pools EXCEPT ![a] = @ + flow - fee] \in [Assets -> Nat]
    BY <2>0 DEF Ledgers
  <2>2. [L.fees EXCEPT ![a] = @ + fee] \in [Assets -> Nat]
    BY <2>0 DEF Ledgers
  <2>3. (L.ok /\ L.pools[a] + flow - fee >= 0) \in BOOLEAN
    OBVIOUS
  <2> QED BY <2>0, <2>1, <2>2, <2>3 DEF Book, Ledgers
<1>3. Shifts(L, M, a, -flow)
    BY <1>0, EtherIsAsset DEF Shifts, Gap, Owed, Book, Drafts, Amounts
<1>4. Touches(L, M, {}, {}) /\ (M.ok => Charges(L, M, {}, {}))
    BY <1>0 DEF Touches, Charges, Book, Drafts, Amounts
<1>5. M.ok => L.ok
    BY <1>0 DEF Book, Drafts
<1>6. AddsUp(M)
    BY <1>0, AccountsStay DEF Book, Drafts
<1> QED BY <1>1, <1>2, <1>3, <1>4, <1>5, <1>6 DEF Sound, Makes

LEMMA RequireMakes ==
    ASSUME NEW L, Sound(L), NEW cond \in BOOLEAN
    PROVE  LET M == Require(L, cond)
           IN  /\ Makes(L, M, Ether, 0, {}, {})
               /\ M.ok => cond /\ Charges(L, M, {}, {})
<1> DEFINE M == Require(L, cond)
<1>0. L \in Drafts /\ L.ok \in BOOLEAN /\ AddsUp(L)
    BY DEF Sound, Drafts
<1>1. M \in Drafts /\ (M.ok => cond /\ L.ok)
    BY <1>0 DEF Require, Drafts
<1>2. M.ok => M \in Ledgers
    BY <1>0 DEF Require, Sound, Drafts, Ledgers
<1>3. Shifts(L, M, Ether, 0)
    BY <1>0, EtherIsAsset DEF Shifts, Gap, Owed, Require, Drafts, Amounts
<1>4. Touches(L, M, {}, {}) /\ Charges(L, M, {}, {})
    BY <1>0 DEF Touches, Charges, Require, Drafts, Amounts
<1>5. AddsUp(M)
    BY <1>0, AccountsStay DEF Require, Drafts
<1> QED BY <1>1, <1>2, <1>3, <1>4, <1>5 DEF Sound, Makes

LEMMA ChargesTwice ==
    ASSUME NEW L, NEW M, NEW N, NEW accts, NEW owners, Sound(L), Sound(M), Sound(N),
           Charges(L, M, accts, owners), Charges(M, N, accts, owners)
    PROVE  Charges(L, N, accts, owners)
<1>1. L \in Drafts /\ M \in Drafts /\ N \in Drafts
    BY DEF Sound
<1>2. \A acct \in Accounts, a \in Assets :
        L.surplus[acct][a] \in Int /\ M.surplus[acct][a] \in Int /\ N.surplus[acct][a] \in Int
    BY <1>1 DEF Drafts, Amounts
<1>3. \A u \in Owners, a \in Assets :
        L.wallet[u][a] \in Int /\ M.wallet[u][a] \in Int /\ N.wallet[u][a] \in Int
    BY <1>1 DEF Drafts, Amounts
<1>4. \A acct \in Accounts \ accts, a \in Assets : N.surplus[acct][a] >= L.surplus[acct][a]
    BY <1>2 DEF Charges
<1>5. \A u \in Owners \ owners, a \in Assets : N.wallet[u][a] >= L.wallet[u][a]
    BY <1>3 DEF Charges
<1> QED BY <1>4, <1>5 DEF Charges

\* From draft L to draft M nobody but u is affected, in the account and the wallet.
Within(L, M, u) ==
    /\ Sound(L) /\ Sound(M) /\ (M.ok => L.ok)
    /\ Touches(L, M, {Primary(u)}, {u})
    /\ M.ok => Charges(L, M, {Primary(u)}, {u})

LEMMA WithinTwice ==
    ASSUME NEW u, NEW L, NEW M, NEW N, Within(L, M, u), Within(M, N, u)
    PROVE  Within(L, N, u)
<1>1. N.ok => Charges(L, N, {Primary(u)}, {u})
    BY ChargesTwice DEF Within
<1>2. Touches(L, N, {Primary(u)}, {u})
    BY DEF Within, Touches
<1> QED BY <1>1, <1>2 DEF Within

LEMMA MakesWithin ==
    ASSUME NEW u, NEW L, NEW M, NEW a, NEW value, NEW accts, NEW owners,
           NEW accts2, NEW owners2, Sound(L), Makes(L, M, a, value, accts, owners),
           M.ok => Charges(L, M, accts2, owners2),
           accts \subseteq {Primary(u)}, accts2 \subseteq {Primary(u)},
           owners \subseteq {u}, owners2 \subseteq {u}
    PROVE  Within(L, M, u) /\ Shifts(L, M, a, value)
    BY DEF Within, Makes, Touches, Charges

LEMMA CollectWithin ==
    ASSUME NEW u \in Owners, NEW L, Sound(L), NEW a \in Assets, NEW value \in Int,
           L.ok => value \in Nat
    PROVE  Within(L, Collect(L, u, a, value), u) /\ Shifts(L, Collect(L, u, a, value), a, value)
<1>1. /\ Makes(L, Collect(L, u, a, value), a, value, {}, {u})
      /\ Collect(L, u, a, value).ok => Charges(L, Collect(L, u, a, value), {}, {u})
    BY CollectMakes
<1> QED BY <1>1, MakesWithin

LEMMA PayWithin ==
    ASSUME NEW u \in Owners, NEW L, Sound(L), NEW a \in Assets, NEW value \in Int,
           L.ok => value \in Nat
    PROVE  Within(L, Pay(L, u, a, value), u) /\ Shifts(L, Pay(L, u, a, value), a, -value)
<1>1. /\ Makes(L, Pay(L, u, a, value), a, -value, {}, {u})
      /\ Pay(L, u, a, value).ok => Charges(L, Pay(L, u, a, value), {}, {})
    BY PayMakes
<1> QED BY <1>1, MakesWithin

LEMMA CreditWithin ==
    ASSUME NEW u \in Owners, NEW L, Sound(L), NEW a \in Assets, NEW value \in Int,
           L.ok => value \in Nat
    PROVE  Within(L, Credit(L, Primary(u), a, value), u) /\ Shifts(L, Credit(L, Primary(u), a, value), a, -value)
<1>1. /\ Makes(L, Credit(L, Primary(u), a, value), a, -value, {Primary(u)}, {})
      /\ Credit(L, Primary(u), a, value).ok => Charges(L, Credit(L, Primary(u), a, value), {}, {})
    BY PrimaryIsAccount, CreditMakes
<1> QED BY <1>1 DEF Within, Makes, Touches, Charges

LEMMA DebitWithin ==
    ASSUME NEW u \in Owners, NEW L, Sound(L), NEW a \in Assets, NEW value \in Int,
           L.ok => value \in Nat
    PROVE  Within(L, Debit(L, Primary(u), a, value), u) /\ Shifts(L, Debit(L, Primary(u), a, value), a, value)
<1>1. /\ Makes(L, Debit(L, Primary(u), a, value), a, value, {Primary(u)}, {})
      /\ Debit(L, Primary(u), a, value).ok => Charges(L, Debit(L, Primary(u), a, value), {Primary(u)}, {})
    BY PrimaryIsAccount, DebitMakes
<1> QED BY <1>1, MakesWithin

LEMMA LoseWithin ==
    ASSUME NEW u \in Owners, NEW L, Sound(L), NEW a \in Assets, NEW value \in Int,
           L.ok => value \in Nat
    PROVE  Within(L, Lose(L, a, value), u) /\ Shifts(L, Lose(L, a, value), a, -value)
<1>1. /\ Makes(L, Lose(L, a, value), a, -value, {}, {})
      /\ Lose(L, a, value).ok => Charges(L, Lose(L, a, value), {}, {})
    BY LoseMakes
<1> QED BY <1>1, MakesWithin

LEMMA BookWithin ==
    ASSUME NEW u \in Owners, NEW L, Sound(L), NEW a \in Assets, NEW flow \in Int, NEW fee \in Nat
    PROVE  Within(L, Book(L, a, flow, fee), u) /\ Shifts(L, Book(L, a, flow, fee), a, -flow)
<1>1. /\ Makes(L, Book(L, a, flow, fee), a, -flow, {}, {})
      /\ Book(L, a, flow, fee).ok => Charges(L, Book(L, a, flow, fee), {}, {})
    BY BookMakes
<1> QED BY <1>1, MakesWithin

LEMMA RequireWithin ==
    ASSUME NEW u \in Owners, NEW L, Sound(L), NEW cond \in BOOLEAN
    PROVE  /\ Within(L, Require(L, cond), u) /\ Shifts(L, Require(L, cond), Ether, 0)
           /\ Require(L, cond).ok => cond
<1>1. /\ Makes(L, Require(L, cond), Ether, 0, {}, {})
      /\ Require(L, cond).ok => cond /\ Charges(L, Require(L, cond), {}, {})
    BY RequireMakes
<1> QED BY <1>1, MakesWithin

-----------------------------------------------------------------------------
\* Settlement

LEMMA DebitUserSettles ==
    ASSUME NEW u \in Owners, NEW L, Sound(L), NEW a \in Assets, NEW value \in Nat,
           NEW paid \in Nat, NEW useSurplus \in BOOLEAN, a # Ether => paid = 0
    PROVE  LET M == DebitUser(L, u, a, value, paid, useSurplus)
           IN  Within(L, M, u) /\ Shifts(L, M, a, value - paid)
<1>1. L.surplus[Primary(u)][a] \in Int /\ (L.ok => L.surplus[Primary(u)][a] \in Nat)
    BY PrimaryIsAccount DEF Sound, Drafts, Ledgers, Amounts
<1>2. PICK covered : covered = IF useSurplus THEN Lesser(L.surplus[Primary(u)][a], value) ELSE 0
    OBVIOUS
<1>3. covered \in Int /\ value - covered \in Nat /\ (L.ok => covered \in Nat)
    BY <1>1, <1>2 DEF Lesser
<1>4. PICK rest \in Nat : rest = value - covered
    BY <1>3
<1>5. PICK M : M = Debit(L, Primary(u), a, covered)
    OBVIOUS
<1>6. Within(L, M, u) /\ Shifts(L, M, a, covered)
    BY <1>3, <1>5, DebitWithin
<1>7. Sound(M)
    BY <1>6 DEF Within
<1>8. \A b \in SafeAssets : Gap(L, b) \in Int
    BY GapIsInt
<1>9. CASE a = Ether
  <2>1. (paid >= rest) \in BOOLEAN
    OBVIOUS
  <2>2. PICK K : K = Require(M, paid >= rest)
    OBVIOUS
  <2>3. Within(M, K, u) /\ Shifts(M, K, Ether, 0) /\ (K.ok => paid >= rest)
    BY <1>7, <2>1, <2>2, RequireWithin
  <2>4. PICK N : N = Pay(K, u, a, paid - rest)
    OBVIOUS
  <2>5. Sound(K) /\ paid - rest \in Int /\ (K.ok => paid - rest \in Nat)
    BY <2>3 DEF Within
  <2>6. Within(K, N, u) /\ Shifts(K, N, a, -(paid - rest))
    BY <2>3, <2>4, <2>5, PayWithin
  <2>7. Within(L, N, u)
    BY <1>6, <2>3, <2>6, WithinTwice
  <2>8. Shifts(L, N, a, value - paid)
    BY <1>3, <1>4, <1>6, <1>8, <1>9, <2>3, <2>6 DEF Shifts
  <2>9. DebitUser(L, u, a, value, paid, useSurplus) = N
    BY <1>2, <1>4, <1>5, <1>9, <2>2, <2>4 DEF DebitUser
  <2> QED BY <2>7, <2>8, <2>9
<1>10. CASE a # Ether
  <2>1. PICK N : N = Collect(M, u, a, rest)
    OBVIOUS
  <2>2. Within(M, N, u) /\ Shifts(M, N, a, rest)
    BY <1>7, <2>1, CollectWithin
  <2>3. Within(L, N, u)
    BY <1>6, <2>2, WithinTwice
  <2>4. Shifts(L, N, a, value - paid)
    BY <1>3, <1>4, <1>6, <1>8, <1>10, <2>2 DEF Shifts
  <2>5. DebitUser(L, u, a, value, paid, useSurplus) = N
    BY <1>2, <1>4, <1>5, <1>10, <2>1 DEF DebitUser
  <2> QED BY <2>3, <2>4, <2>5
<1> QED BY <1>9, <1>10

LEMMA CreditUserSettles ==
    ASSUME NEW u \in Owners, NEW L, Sound(L), NEW a \in Assets, NEW value \in Nat,
           NEW paid \in Nat, NEW useSurplus \in BOOLEAN
    PROVE  LET M == CreditUser(L, u, a, value, paid, useSurplus)
           IN  Within(L, M, u) /\ Shifts(L, M, a, -value - paid)
<1>1. CASE useSurplus
  <2>1. PICK M : M = Credit(L, Primary(u), a, value)
    OBVIOUS
  <2>2. Within(L, M, u) /\ Shifts(L, M, a, -value)
    BY <2>1, CreditWithin
  <2>3. Sound(M)
    BY <2>2 DEF Within
  <2>4. PICK N : N = Pay(M, u, a, paid)
    OBVIOUS
  <2>5. Within(M, N, u) /\ Shifts(M, N, a, -paid)
    BY <2>3, <2>4, PayWithin
  <2>6. Within(L, N, u)
    BY <2>2, <2>5, WithinTwice
  <2>7. Shifts(L, N, a, -value - paid)
    BY <2>2, <2>5, GapIsInt DEF Shifts
  <2>8. CreditUser(L, u, a, value, paid, useSurplus) = N
    BY <1>1, <2>1, <2>4 DEF CreditUser
  <2> QED BY <2>6, <2>7, <2>8
<1>2. CASE ~ useSurplus
  <2>1. value + paid \in Nat /\ -(value + paid) = -value - paid
    OBVIOUS
  <2>2. CreditUser(L, u, a, value, paid, useSurplus) = Pay(L, u, a, value + paid)
    BY <1>2 DEF CreditUser
  <2> QED BY <2>1, <2>2, PayWithin
<1> QED BY <1>1, <1>2

\* A flow of a user comes in and what was paid for it is used up.
LEMMA TransactFlowSettles ==
    ASSUME NEW u \in Owners, NEW L, Sound(L), NEW a \in Assets, NEW flow \in Int,
           NEW paid \in Nat, NEW useSurplus \in BOOLEAN, a # Ether => paid = 0
    PROVE  LET M == TransactFlow(L, u, a, flow, paid, useSurplus)
           IN  Within(L, M, u) /\ Shifts(L, M, a, flow - paid)
<1>1. CASE flow > 0
    BY <1>1, DebitUserSettles DEF TransactFlow
<1>2. CASE ~ (flow > 0)
  <2>1. -flow \in Nat /\ -(-flow) - paid = flow - paid
    BY <1>2
  <2> QED BY <1>2, <2>1, CreditUserSettles DEF TransactFlow
<1> QED BY <1>1, <1>2

\* One pair: both flows come in.
LEMMA SettleFlatSettles ==
    ASSUME NEW u \in Owners, NEW L, Sound(L), NEW pair \in Pairs, NEW flow \in PerSide(Int),
           NEW useSurplus \in PerSide(BOOLEAN), NEW paid \in Nat
    PROVE  LET M == SettleFlat(L, u, pair, flow, useSurplus, paid)
           IN  /\ Within(L, M, u)
               /\ \A b \in SafeAssets :
                    Gap(M, b) = Gap(L, b) + (IF b = pair.base THEN flow.base ELSE 0)
                        + (IF b = pair.quote THEN flow.quote ELSE 0)
                        - (IF b = Ether THEN paid ELSE 0)
<1>1. /\ pair.base \in Assets /\ pair.quote \in Assets /\ pair.quote # Ether
      /\ flow.base \in Int /\ flow.quote \in Int
      /\ useSurplus.base \in BOOLEAN /\ useSurplus.quote \in BOOLEAN
    BY SettleAssumption DEF Pairs, PerSide, Assets
<1>2. \A b \in SafeAssets : Gap(L, b) \in Int
    BY GapIsInt
<1>3. PICK M : M = IF pair.base = Ether
                   THEN TransactFlow(L, u, Ether, flow.base, paid, useSurplus.base)
                   ELSE TransactFlow(Lose(L, Ether, paid), u, pair.base, flow.base, 0,
                                     useSurplus.base)
    OBVIOUS
<1>4. /\ Within(L, M, u)
      /\ \A b \in SafeAssets :
            Gap(M, b) = Gap(L, b) + (IF b = pair.base THEN flow.base ELSE 0)
                            - (IF b = Ether THEN paid ELSE 0)
  <2>1. CASE pair.base = Ether
    <3>1. Within(L, M, u) /\ Shifts(L, M, Ether, flow.base - paid)
        BY <1>1, <1>3, <2>1, TransactFlowSettles
    <3> QED BY <1>1, <1>2, <2>1, <3>1 DEF Shifts
  <2>2. CASE pair.base # Ether
    <3>1. PICK K : K = Lose(L, Ether, paid)
        OBVIOUS
    <3>2. Within(L, K, u) /\ Shifts(L, K, Ether, -paid)
        BY <3>1, LoseWithin, EtherIsAsset
    <3>3. Sound(K)
        BY <3>2 DEF Within
    <3>4. Within(K, M, u) /\ Shifts(K, M, pair.base, flow.base - 0)
        BY <1>1, <1>3, <2>2, <3>1, <3>3, TransactFlowSettles
    <3>5. Within(L, M, u)
        BY <3>2, <3>4, WithinTwice
    <3> QED BY <1>1, <1>2, <2>2, <3>2, <3>4, <3>5 DEF Shifts
  <2> QED BY <2>1, <2>2
<1>5. PICK N : N = TransactFlow(M, u, pair.quote, flow.quote, 0, useSurplus.quote)
    OBVIOUS
<1>6. Sound(M)
    BY <1>4 DEF Within
<1>7. Within(M, N, u) /\ Shifts(M, N, pair.quote, flow.quote - 0)
    BY <1>1, <1>5, <1>6, TransactFlowSettles
<1>8. Within(L, N, u)
    BY <1>4, <1>7, WithinTwice
<1>9. \A b \in SafeAssets :
        Gap(N, b) = Gap(L, b) + (IF b = pair.base THEN flow.base ELSE 0)
            + (IF b = pair.quote THEN flow.quote ELSE 0) - (IF b = Ether THEN paid ELSE 0)
    BY <1>1, <1>2, <1>4, <1>7 DEF Shifts
<1>10. SettleFlat(L, u, pair, flow, useSurplus, paid) = N
    BY <1>3, <1>5 DEF SettleFlat
<1> QED BY <1>8, <1>9, <1>10

\* A leg: its flow comes in, but for what is left to settle in ether.
LEMMA SettleLegSettles ==
    ASSUME NEW u \in Owners, NEW L, Sound(L), NEW flow \in Int, NEW chan \in Channels
    PROVE  LET M == SettleLeg(L, u, flow, chan)
           IN  /\ Within(L, M, u) /\ EtherOf(flow, chan) \in Int
               /\ \A b \in SafeAssets :
                    Gap(M, b) = Gap(L, b) + (IF b = chan.token THEN flow ELSE 0)
                        - (IF b = Ether THEN EtherOf(flow, chan) ELSE 0)
<1>1. /\ chan.token \in Assets /\ chan.limitQty \in Int /\ chan.dustThresh \in Nat
      /\ chan.useSurplus \in BOOLEAN
    BY DEF Channels
<1>2. \A b \in SafeAssets : Gap(L, b) \in Int
    BY GapIsInt
<1>3. (flow <= chan.limitQty) \in BOOLEAN
    OBVIOUS
<1>4. PICK M : M = Require(L, flow <= chan.limitQty)
    OBVIOUS
<1>5. Within(L, M, u) /\ Shifts(L, M, Ether, 0)
    BY <1>3, <1>4, RequireWithin
<1>6. Sound(M)
    BY <1>5 DEF Within
<1>7. CASE ~ MoreThanDust(flow, chan)
  <2>1. -flow \in Nat /\ -(-flow) = flow /\ EtherOf(flow, chan) = 0
    BY <1>7 DEF MoreThanDust, EtherOf
  <2>2. PICK N : N = Lose(M, chan.token, -flow)
    OBVIOUS
  <2>3. Within(M, N, u) /\ Shifts(M, N, chan.token, -(-flow))
    BY <1>1, <1>6, <2>1, <2>2, LoseWithin
  <2>4. Within(L, N, u)
    BY <1>5, <2>3, WithinTwice
  <2>5. SettleLeg(L, u, flow, chan) = N
    BY <1>4, <1>7, <2>2 DEF SettleLeg
  <2> QED BY <1>2, <1>5, <2>1, <2>3, <2>4, <2>5 DEF Shifts
<1>8. CASE MoreThanDust(flow, chan) /\ chan.token = Ether
  <2>1. SettleLeg(L, u, flow, chan) = M /\ EtherOf(flow, chan) = flow
    BY <1>4, <1>8 DEF SettleLeg, EtherOf
  <2> QED BY <1>2, <1>5, <1>8, <2>1 DEF Shifts
<1>9. CASE MoreThanDust(flow, chan) /\ chan.token # Ether
  <2>1. PICK N : N = TransactFlow(M, u, chan.token, flow, 0, chan.useSurplus)
    OBVIOUS
  <2>2. Within(M, N, u) /\ Shifts(M, N, chan.token, flow - 0)
    BY <1>1, <1>6, <1>9, <2>1, TransactFlowSettles
  <2>3. Within(L, N, u)
    BY <1>5, <2>2, WithinTwice
  <2>4. SettleLeg(L, u, flow, chan) = N /\ EtherOf(flow, chan) = 0
    BY <1>4, <1>9, <2>1 DEF SettleLeg, EtherOf
  <2> QED BY <1>2, <1>5, <2>2, <2>3, <2>4 DEF Shifts
<1> QED BY <1>7, <1>8, <1>9

LEMMA OrderTypes ==
    ASSUME NEW order \in Orders
    PROVE  /\ order.open \in Channels /\ order.mid \in Channels /\ order.close \in Channels
           /\ order.first.front \in Int /\ order.first.back \in Int
           /\ order.first.frontFee \in Nat /\ order.first.backFee \in Nat
           /\ order.second.front \in Int /\ order.second.back \in Int
           /\ order.second.frontFee \in Nat /\ order.second.backFee \in Nat
    BY DEF Orders, Hops

\* A long order: the flows of its legs come in, each in its own asset.
LEMMA SettleLongSettles ==
    ASSUME NEW u \in Owners, NEW L, Sound(L), NEW order \in Orders, NEW paid \in Nat
    PROVE  LET M == SettleLong(L, u, order, paid)
               flow == LegFlows(order)
           IN  /\ Within(L, M, u)
               /\ \A b \in SafeAssets :
                    Gap(M, b) = Gap(L, b) + (IF b = order.open.token THEN flow.open ELSE 0)
                        + (IF b = order.mid.token THEN flow.mid ELSE 0)
                        + (IF b = order.close.token THEN flow.close ELSE 0)
                        - (IF b = Ether THEN paid ELSE 0)
<1>1. PICK flow : flow = LegFlows(order)
    OBVIOUS
<1>2. flow.open \in Int /\ flow.mid \in Int /\ flow.close \in Int
    BY <1>1, OrderTypes DEF LegFlows
<1>3. /\ order.open \in Channels /\ order.mid \in Channels /\ order.close \in Channels
      /\ order.close.useSurplus \in BOOLEAN
    BY OrderTypes DEF Channels
<1>4. PICK e1, e2, e3 : /\ e1 = EtherOf(flow.open, order.open)
                        /\ e2 = EtherOf(flow.mid, order.mid)
                        /\ e3 = EtherOf(flow.close, order.close)
    OBVIOUS
<1>5. PICK M1 : M1 = SettleLeg(L, u, flow.open, order.open)
    OBVIOUS
<1>6. /\ Within(L, M1, u) /\ e1 \in Int
      /\ \A b \in SafeAssets :
            Gap(M1, b) = Gap(L, b) + (IF b = order.open.token THEN flow.open ELSE 0)
                            - (IF b = Ether THEN e1 ELSE 0)
    BY <1>2, <1>3, <1>4, <1>5, SettleLegSettles
<1>7. Sound(M1)
    BY <1>6 DEF Within
<1>8. PICK M2 : M2 = SettleLeg(M1, u, flow.mid, order.mid)
    OBVIOUS
<1>9. /\ Within(M1, M2, u) /\ e2 \in Int
      /\ \A b \in SafeAssets :
            Gap(M2, b) = Gap(M1, b) + (IF b = order.mid.token THEN flow.mid ELSE 0)
                            - (IF b = Ether THEN e2 ELSE 0)
    BY <1>2, <1>3, <1>4, <1>7, <1>8, SettleLegSettles
<1>10. Sound(M2)
    BY <1>9 DEF Within
<1>11. PICK M3 : M3 = SettleLeg(M2, u, flow.close, order.close)
    OBVIOUS
<1>12. /\ Within(M2, M3, u) /\ e3 \in Int
       /\ \A b \in SafeAssets :
            Gap(M3, b) = Gap(M2, b) + (IF b = order.close.token THEN flow.close ELSE 0)
                            - (IF b = Ether THEN e3 ELSE 0)
    BY <1>2, <1>3, <1>4, <1>10, <1>11, SettleLegSettles
<1>13. Sound(M3)
    BY <1>12 DEF Within
<1>14. PICK N : N = TransactFlow(M3, u, Ether, e1 + e2 + e3, paid, order.close.useSurplus)
    OBVIOUS
<1>15. Within(M3, N, u) /\ Shifts(M3, N, Ether, e1 + e2 + e3 - paid)
    BY <1>3, <1>6, <1>9, <1>12, <1>13, <1>14, EtherIsAsset, TransactFlowSettles
<1>16. Within(L, N, u)
    BY <1>6, <1>9, <1>12, <1>15, WithinTwice
<1>17. \A b \in SafeAssets :
        Gap(N, b) = Gap(L, b) + (IF b = order.open.token THEN flow.open ELSE 0)
            + (IF b = order.mid.token THEN flow.mid ELSE 0)
            + (IF b = order.close.token THEN flow.close ELSE 0) - (IF b = Ether THEN paid ELSE 0)
  <2>1. \A b \in SafeAssets : Gap(L, b) \in Int
    BY GapIsInt
  <2> QED BY <1>2, <1>6, <1>9, <1>12, <1>15, <2>1 DEF Shifts
<1>18. SettleLong(L, u, order, paid) = N
    BY <1>1, <1>4, <1>5, <1>8, <1>11, <1>14 DEF SettleLong, EtherFlow
<1> QED BY <1>1, <1>16, <1>17, <1>18

-----------------------------------------------------------------------------
\* Commands

\* From draft L to draft M no account but those of accts and no wallet but
\* those of owners pays.
Bills(L, M, accts, owners) ==
    /\ Sound(L) /\ Sound(M) /\ (M.ok => L.ok)
    /\ M.ok => Charges(L, M, accts, owners)

LEMMA BillsTwice ==
    ASSUME NEW accts, NEW owners, NEW L, NEW M, NEW N,
           Bills(L, M, accts, owners), Bills(M, N, accts, owners)
    PROVE  Bills(L, N, accts, owners)
    BY ChargesTwice DEF Bills

\* What a command does for u, who paid in paid: nothing of value is made or lost.
Runs(L, M, u, cmd, paid) ==
    /\ Bills(L, M, IF cmd.code = "SIDE_POCKET" THEN {u} \X Pockets ELSE {Primary(u)}, {u})
    /\ Shifts(L, M, Ether, -paid)
    /\ cmd.code \in {"TRADE", "LONG"} => Touches(L, M, {Primary(u)}, {u})

LEMMA WithinRuns ==
    ASSUME NEW u, NEW L, NEW M, NEW cmd, NEW paid, cmd.code # "SIDE_POCKET", Within(L, M, u),
           Shifts(L, M, Ether, -paid)
    PROVE  Runs(L, M, u, cmd, paid)
    BY DEF Within, Runs, Bills

LEMMA TradeRuns ==
    ASSUME NEW u \in Owners, NEW L, Sound(L), NEW cmd \in Commands, cmd.code = "TRADE",
           NEW paid \in Nat
    PROVE  Runs(L, Execute(L, u, cmd, paid), u, cmd, paid)
<1>1. /\ cmd.pair \in Pairs /\ cmd.flow \in PerSide(Int) /\ cmd.fee \in PerSide(Nat)
      /\ cmd.useSurplus \in PerSide(BOOLEAN)
    BY DEF Commands
<1>2. /\ cmd.pair.base \in Assets /\ cmd.pair.quote \in Assets
      /\ cmd.flow.base \in Int /\ cmd.flow.quote \in Int
      /\ cmd.fee.base \in Nat /\ cmd.fee.quote \in Nat
    BY <1>1 DEF Pairs, PerSide, Assets
<1>3. PICK M : M = SettleFlat(L, u, cmd.pair, cmd.flow, cmd.useSurplus, paid)
    OBVIOUS
<1>4. /\ Within(L, M, u)
      /\ \A b \in SafeAssets :
            Gap(M, b) = Gap(L, b) + (IF b = cmd.pair.base THEN cmd.flow.base ELSE 0)
                + (IF b = cmd.pair.quote THEN cmd.flow.quote ELSE 0)
                - (IF b = Ether THEN paid ELSE 0)
    BY <1>1, <1>3, SettleFlatSettles
<1>5. PICK K : K = Book(M, cmd.pair.base, cmd.flow.base, cmd.fee.base)
    OBVIOUS
<1>6. Sound(M)
    BY <1>4 DEF Within
<1>7. Within(M, K, u) /\ Shifts(M, K, cmd.pair.base, -cmd.flow.base)
    BY <1>2, <1>5, <1>6, BookWithin
<1>8. Sound(K)
    BY <1>7 DEF Within
<1>9. PICK N : N = Book(K, cmd.pair.quote, cmd.flow.quote, cmd.fee.quote)
    OBVIOUS
<1>10. Within(K, N, u) /\ Shifts(K, N, cmd.pair.quote, -cmd.flow.quote)
    BY <1>2, <1>8, <1>9, BookWithin
<1>11. Within(L, N, u)
    BY <1>4, <1>7, <1>10, WithinTwice
<1>12. Shifts(L, N, Ether, -paid)
  <2>1. \A b \in SafeAssets : Gap(L, b) \in Int
    BY GapIsInt
  <2> QED BY <1>2, <1>4, <1>7, <1>10, <2>1 DEF Shifts
<1>13. Execute(L, u, cmd, paid) = N
    BY <1>3, <1>5, <1>9 DEF Execute
<1> QED BY <1>11, <1>12, <1>13, WithinRuns

LEMMA InitRuns ==
    ASSUME NEW u \in Owners, NEW L, Sound(L), NEW cmd \in Commands, cmd.code = "INIT",
           NEW paid \in Nat
    PROVE  Runs(L, Execute(L, u, cmd, paid), u, cmd, paid)
<1>1. cmd.pair \in Pairs /\ cmd.flow \in PerSide(Nat) /\ cmd.flow \in PerSide(Int)
    BY DEF Commands, PerSide
<1>2. /\ cmd.pair.base \in Assets /\ cmd.pair.quote \in Assets
      /\ cmd.flow.base \in Int /\ cmd.flow.quote \in Int
    BY <1>1 DEF Pairs, PerSide, Assets
<1>3. PICK both : both = [base |-> TRUE, quote |-> TRUE]
    OBVIOUS
<1>4. both \in PerSide(BOOLEAN)
    BY <1>3 DEF PerSide
<1>5. PICK M : M = SettleFlat(L, u, cmd.pair, cmd.flow, both, paid)
    OBVIOUS
<1>6. /\ Within(L, M, u)
      /\ \A b \in SafeAssets :
            Gap(M, b) = Gap(L, b) + (IF b = cmd.pair.base THEN cmd.flow.base ELSE 0)
                + (IF b = cmd.pair.quote THEN cmd.flow.quote ELSE 0)
                - (IF b = Ether THEN paid ELSE 0)
    BY <1>1, <1>4, <1>5, SettleFlatSettles
<1>7. Sound(M)
    BY <1>6 DEF Within
<1>8. PICK I : I = SettleInitFlow(L, u, cmd.pair, cmd.flow, paid)
    OBVIOUS
<1>9. Within(M, I, u) /\ Shifts(M, I, Ether, 0)
  <2>1. PICK cond \in BOOLEAN : cond = (/\ CloseMatches(L, M, cmd.pair.base, cmd.flow.base)
                                        /\ CloseMatches(L, M, cmd.pair.quote, cmd.flow.quote))
    OBVIOUS
  <2>2. I = Require(M, cond)
    BY <1>3, <1>5, <1>8, <2>1 DEF SettleInitFlow
  <2> QED BY <1>7, <2>2, RequireWithin
<1>10. Sound(I)
    BY <1>9 DEF Within
<1>11. PICK K : K = Book(I, cmd.pair.base, cmd.flow.base, 0)
    OBVIOUS
<1>12. Within(I, K, u) /\ Shifts(I, K, cmd.pair.base, -cmd.flow.base)
    BY <1>2, <1>10, <1>11, BookWithin
<1>13. Sound(K)
    BY <1>12 DEF Within
<1>14. PICK N : N = Book(K, cmd.pair.quote, cmd.flow.quote, 0)
    OBVIOUS
<1>15. Within(K, N, u) /\ Shifts(K, N, cmd.pair.quote, -cmd.flow.quote)
    BY <1>2, <1>13, <1>14, BookWithin
<1>16. Within(L, N, u)
    BY <1>6, <1>9, <1>12, <1>15, WithinTwice
<1>17. Shifts(L, N, Ether, -paid)
  <2>1. \A b \in SafeAssets : Gap(L, b) \in Int
    BY GapIsInt
  <2> QED BY <1>2, <1>6, <1>9, <1>12, <1>15, <2>1 DEF Shifts
<1>18. Execute(L, u, cmd, paid) = N
    BY <1>8, <1>11, <1>14 DEF Execute
<1> QED BY <1>16, <1>17, <1>18, WithinRuns

LEMMA LongRuns ==
    ASSUME NEW u \in Owners, NEW L, Sound(L), NEW cmd \in Commands, cmd.code = "LONG",
           NEW paid \in Nat
    PROVE  Runs(L, Execute(L, u, cmd, paid), u, cmd, paid)
<1>1. PICK order \in Orders : order = cmd.order
    BY DEF Commands
<1>2. PICK t1, t2, t3 : t1 = order.open.token /\ t2 = order.mid.token /\ t3 = order.close.token
    OBVIOUS
<1>3. t1 \in Assets /\ t2 \in Assets /\ t3 \in Assets
    BY <1>2, OrderTypes DEF Channels
<1>4. PICK h1, h2 : h1 = order.first /\ h2 = order.second
    OBVIOUS
<1>5. /\ h1.front \in Int /\ h1.back \in Int /\ h1.frontFee \in Nat /\ h1.backFee \in Nat
      /\ h2.front \in Int /\ h2.back \in Int /\ h2.frontFee \in Nat /\ h2.backFee \in Nat
    BY <1>4, OrderTypes
<1>6. PICK M1 : M1 = Book(L, t1, h1.front, h1.frontFee)
    OBVIOUS
<1>7. Within(L, M1, u) /\ Sound(M1) /\ Shifts(L, M1, t1, -h1.front)
    BY <1>3, <1>5, <1>6, BookWithin DEF Within
<1>8. PICK M2 : M2 = Book(M1, t2, h1.back, h1.backFee)
    OBVIOUS
<1>9. Within(M1, M2, u) /\ Sound(M2) /\ Shifts(M1, M2, t2, -h1.back)
    BY <1>3, <1>5, <1>7, <1>8, BookWithin DEF Within
<1>10. PICK M3 : M3 = Book(M2, t2, h2.front, h2.frontFee)
    OBVIOUS
<1>11. Within(M2, M3, u) /\ Sound(M3) /\ Shifts(M2, M3, t2, -h2.front)
    BY <1>3, <1>5, <1>9, <1>10, BookWithin DEF Within
<1>12. PICK M4 : M4 = Book(M3, t3, h2.back, h2.backFee)
    OBVIOUS
<1>13. Within(M3, M4, u) /\ Sound(M4) /\ Shifts(M3, M4, t3, -h2.back)
    BY <1>3, <1>5, <1>11, <1>12, BookWithin DEF Within
<1>14. PICK N : N = SettleLong(M4, u, order, paid)
    OBVIOUS
<1>15. /\ Within(M4, N, u)
       /\ \A b \in SafeAssets :
            Gap(N, b) = Gap(M4, b) + (IF b = t1 THEN h1.front ELSE 0)
                + (IF b = t2 THEN h1.back + h2.front ELSE 0)
                + (IF b = t3 THEN h2.back ELSE 0) - (IF b = Ether THEN paid ELSE 0)
    BY <1>2, <1>4, <1>13, <1>14, SettleLongSettles DEF LegFlows
<1>16. Within(L, N, u)
    BY <1>7, <1>9, <1>11, <1>13, <1>15, WithinTwice
<1>17. Shifts(L, N, Ether, -paid)
  <2>1. \A b \in SafeAssets : Gap(L, b) \in Int
    BY GapIsInt
  <2> QED BY <1>5, <1>7, <1>9, <1>11, <1>13, <1>15, <2>1 DEF Shifts
<1>18. Execute(L, u, cmd, paid) = N
    BY <1>1, <1>2, <1>4, <1>6, <1>8, <1>10, <1>12, <1>14 DEF Execute, BookHop
<1> QED BY <1>16, <1>17, <1>18, WithinRuns

LEMMA DepositRuns ==
    ASSUME NEW u \in Owners, NEW L, Sound(L), NEW cmd \in Commands, cmd.code = "DEPOSIT",
           NEW paid \in Nat
    PROVE  Runs(L, Execute(L, u, cmd, paid), u, cmd, paid)
<1>1. PICK a \in Assets, value \in Nat, recv \in Accounts :
        a = cmd.asset /\ value = cmd.value /\ recv = cmd.recv
    BY DEF Commands
<1>2. PICK M : M = IF a = Ether THEN Pay(Require(L, paid >= value), u, a, paid - value)
                   ELSE Collect(Lose(L, Ether, paid), u, a, value)
    OBVIOUS
<1>3. \A b \in SafeAssets : Gap(L, b) \in Int
    BY GapIsInt
<1>4. /\ Within(L, M, u) /\ (M.ok => Charges(L, M, {}, {u}))
      /\ \A b \in SafeAssets : Gap(M, b) = Gap(L, b) + (IF b = a THEN value ELSE 0)
                                                - (IF b = Ether THEN paid ELSE 0)
  <2>1. CASE a = Ether
    <3>1. PICK K : K = Require(L, paid >= value)
        OBVIOUS
    <3>2. (paid >= value) \in BOOLEAN
        OBVIOUS
    <3>3. /\ Within(L, K, u) /\ Shifts(L, K, Ether, 0) /\ (K.ok => paid >= value)
          /\ K.ok => Charges(L, K, {}, {})
        BY <3>1, <3>2, RequireWithin, RequireMakes
    <3>4. Sound(K) /\ paid - value \in Int /\ (K.ok => paid - value \in Nat)
        BY <3>3 DEF Within
    <3>5. /\ Within(K, M, u) /\ Shifts(K, M, a, -(paid - value))
          /\ M.ok => Charges(K, M, {}, {})
        BY <1>2, <2>1, <3>1, <3>4, PayWithin, PayMakes
    <3>6. Within(L, M, u)
        BY <3>3, <3>5, WithinTwice
    <3>7. M.ok => Charges(L, M, {}, {})
        BY <3>3, <3>5, ChargesTwice DEF Within
    <3>8. M.ok => Charges(L, M, {}, {u})
        BY <3>7 DEF Charges
    <3> QED BY <1>3, <2>1, <3>3, <3>5, <3>6, <3>8 DEF Shifts
  <2>2. CASE a # Ether
    <3>1. PICK K : K = Lose(L, Ether, paid)
        OBVIOUS
    <3>2. /\ Within(L, K, u) /\ Shifts(L, K, Ether, -paid)
          /\ K.ok => Charges(L, K, {}, {})
        BY <3>1, EtherIsAsset, LoseWithin, LoseMakes
    <3>3. Sound(K)
        BY <3>2 DEF Within
    <3>4. /\ Within(K, M, u) /\ Shifts(K, M, a, value) /\ (M.ok => Charges(K, M, {}, {u}))
        BY <1>2, <2>2, <3>1, <3>3, CollectWithin, CollectMakes
    <3>5. Within(L, M, u)
        BY <3>2, <3>4, WithinTwice
    <3>6. K.ok => Charges(L, K, {}, {u})
        BY <3>2 DEF Charges
    <3>7. M.ok => Charges(L, M, {}, {u})
        BY <3>2, <3>4, <3>6, ChargesTwice DEF Within
    <3> QED BY <1>3, <2>2, <3>2, <3>4, <3>5, <3>7 DEF Shifts
  <2> QED BY <2>1, <2>2
<1>5. Sound(M)
    BY <1>4 DEF Within
<1>6. PICK N : N = Credit(M, recv, a, value)
    OBVIOUS
<1>7. Makes(M, N, a, -value, {recv}, {}) /\ (N.ok => Charges(M, N, {}, {}))
    BY <1>5, <1>6, CreditMakes
<1>8. Bills(M, N, {Primary(u)}, {u}) /\ Shifts(M, N, a, -value)
    BY <1>5, <1>7 DEF Makes, Bills, Charges
<1>9. Bills(L, M, {Primary(u)}, {u})
    BY <1>4 DEF Bills, Within
<1>10. Bills(L, N, {Primary(u)}, {u})
    BY <1>8, <1>9, BillsTwice
<1>11. Shifts(L, N, Ether, -paid)
    BY <1>3, <1>4, <1>8 DEF Shifts
<1>12. Execute(L, u, cmd, paid) = N
    BY <1>1, <1>2, <1>6 DEF Execute, DepositSurplus
<1> QED BY <1>10, <1>11, <1>12 DEF Runs

\* What may be taken from a balance.
LEMMA TransactValIsInt ==
    ASSUME NEW size \in Int, NEW balance \in Int
    PROVE  TransactVal(size, balance) \in Int
    BY DEF TransactVal

\* Moving surplus bills the account it is moved from.
LEMMA MoveSurplusBills ==
    ASSUME NEW L, Sound(L), NEW from \in Accounts, NEW to \in Accounts, NEW a \in Assets,
           NEW size \in Int
    PROVE  LET M == MoveSurplus(L, from, to, a, size)
           IN  Bills(L, M, {from}, {}) /\ Shifts(L, M, Ether, 0)
<1>1. L.surplus[from][a] \in Int
    BY DEF Sound, Drafts, Amounts
<1>2. PICK value \in Int : value = TransactVal(size, L.surplus[from][a])
    BY <1>1, TransactValIsInt
<1>3. (value >= 0) \in BOOLEAN
    OBVIOUS
<1>4. PICK K : K = Require(L, value >= 0)
    OBVIOUS
<1>5. Makes(L, K, Ether, 0, {}, {}) /\ (K.ok => value >= 0 /\ Charges(L, K, {}, {}))
    BY <1>3, <1>4, RequireMakes
<1>6. Bills(L, K, {from}, {}) /\ Shifts(L, K, Ether, 0)
    BY <1>5 DEF Makes, Bills, Charges
<1>7. Sound(K) /\ (K.ok => value \in Nat)
    BY <1>5 DEF Makes
<1>8. PICK M : M = Debit(K, from, a, value)
    OBVIOUS
<1>9. Makes(K, M, a, value, {from}, {}) /\ (M.ok => Charges(K, M, {from}, {}))
    BY <1>7, <1>8, DebitMakes
<1>10. Bills(K, M, {from}, {}) /\ Shifts(K, M, a, value)
    BY <1>7, <1>9 DEF Makes, Bills, Charges
<1>11. Sound(M) /\ (M.ok => value \in Nat)
    BY <1>7, <1>9 DEF Makes
<1>12. PICK N : N = Credit(M, to, a, value)
    OBVIOUS
<1>13. Makes(M, N, a, -value, {to}, {}) /\ (N.ok => Charges(M, N, {}, {}))
    BY <1>11, <1>12, CreditMakes
<1>14. Bills(M, N, {from}, {}) /\ Shifts(M, N, a, -value)
    BY <1>11, <1>13 DEF Makes, Bills, Charges
<1>15. Bills(L, N, {from}, {})
    BY <1>6, <1>10, <1>14, BillsTwice
<1>16. Shifts(L, N, Ether, 0)
    BY <1>6, <1>10, <1>14, GapIsInt DEF Shifts
<1>17. MoveSurplus(L, from, to, a, size) = N
    BY <1>2, <1>4, <1>8, <1>12 DEF MoveSurplus
<1> QED BY <1>15, <1>16, <1>17

LEMMA DisburseBills ==
    ASSUME NEW L, Sound(L), NEW u \in Owners, NEW recv \in Owners, NEW a \in Assets,
           NEW size \in Int
    PROVE  LET M == DisburseSurplus(L, u, recv, a, size)
           IN  Bills(L, M, {Primary(u)}, {}) /\ Shifts(L, M, Ether, 0)
<1>1. L.surplus[Primary(u)][a] \in Int
    BY PrimaryIsAccount DEF Sound, Drafts, Amounts
<1>2. PICK value \in Int : value = TransactVal(size, L.surplus[Primary(u)][a])
    BY <1>1, TransactValIsInt
<1>3. (value >= 0) \in BOOLEAN
    OBVIOUS
<1>4. PICK K : K = Require(L, value >= 0)
    OBVIOUS
<1>5. Makes(L, K, Ether, 0, {}, {}) /\ (K.ok => value >= 0 /\ Charges(L, K, {}, {}))
    BY <1>3, <1>4, RequireMakes
<1>6. Bills(L, K, {Primary(u)}, {}) /\ Shifts(L, K, Ether, 0)
    BY <1>5 DEF Makes, Bills, Charges
<1>7. Sound(K) /\ (K.ok => value \in Nat)
    BY <1>5 DEF Makes
<1>8. PICK M : M = Debit(K, Primary(u), a, value)
    OBVIOUS
<1>9. /\ Makes(K, M, a, value, {Primary(u)}, {})
      /\ M.ok => Charges(K, M, {Primary(u)}, {})
    BY <1>7, <1>8, PrimaryIsAccount, DebitMakes
<1>10. Bills(K, M, {Primary(u)}, {}) /\ Shifts(K, M, a, value)
    BY <1>7, <1>9 DEF Makes, Bills, Charges
<1>11. Sound(M) /\ (M.ok => value \in Nat)
    BY <1>7, <1>9 DEF Makes
<1>12. PICK N : N = Pay(M, recv, a, value)
    OBVIOUS
<1>13. Makes(M, N, a, -value, {}, {recv}) /\ (N.ok => Charges(M, N, {}, {}))
    BY <1>11, <1>12, PayMakes
<1>14. Bills(M, N, {Primary(u)}, {}) /\ Shifts(M, N, a, -value)
    BY <1>11, <1>13 DEF Makes, Bills, Charges
<1>15. Bills(L, N, {Primary(u)}, {})
    BY <1>6, <1>10, <1>14, BillsTwice
<1>16. Shifts(L, N, Ether, 0)
    BY <1>6, <1>10, <1>14, GapIsInt DEF Shifts
<1>17. DisburseSurplus(L, u, recv, a, size) = N
    BY <1>2, <1>4, <1>8, <1>12 DEF DisburseSurplus
<1> QED BY <1>15, <1>16, <1>17

\* The commands that leave what is attached in the dex, but for a deposit.
LEMMA OthersRun ==
    ASSUME NEW u \in Owners, NEW L, Sound(L), NEW cmd \in Commands,
           cmd.code \in {"DISBURSE", "TRANSFER", "SIDE_POCKET", "RESET_NONCE", "APPROVE"},
           NEW paid \in Nat
    PROVE  Runs(L, Execute(L, u, cmd, paid), u, cmd, paid)
<1>1. PICK K : K = Lose(L, Ether, paid)
    OBVIOUS
<1>2. Makes(L, K, Ether, -paid, {}, {}) /\ (K.ok => Charges(L, K, {}, {}))
    BY <1>1, EtherIsAsset, LoseMakes
<1>3. Shifts(L, K, Ether, -paid) /\ \A accts : Bills(L, K, accts, {u})
    BY <1>2 DEF Makes, Bills, Charges
<1>4. Sound(K)
    BY <1>2 DEF Makes
<1>5. PICK accts : accts = IF cmd.code = "SIDE_POCKET" THEN {u} \X Pockets ELSE {Primary(u)}
    OBVIOUS
<1>6. PICK N : N = Execute(L, u, cmd, paid)
    OBVIOUS
<1>7. Bills(K, N, accts, {u}) /\ Shifts(K, N, Ether, 0)
  <2>1. CASE cmd.code = "DISBURSE"
    <3>1. cmd.recv \in Owners /\ cmd.asset \in Assets /\ cmd.size \in Int
        BY <2>1 DEF Commands
    <3>2. N = DisburseSurplus(K, u, cmd.recv, cmd.asset, cmd.size)
        BY <1>1, <1>6, <2>1 DEF Execute
    <3>3. Bills(K, N, {Primary(u)}, {}) /\ Shifts(K, N, Ether, 0)
        BY <1>4, <3>1, <3>2, DisburseBills
    <3> QED BY <1>5, <2>1, <3>3 DEF Bills, Charges
  <2>2. CASE cmd.code = "TRANSFER"
    <3>1. cmd.to \in Accounts /\ cmd.asset \in Assets /\ cmd.size \in Int
        BY <2>2 DEF Commands
    <3>2. N = MoveSurplus(K, Primary(u), cmd.to, cmd.asset, cmd.size)
        BY <1>1, <1>6, <2>2 DEF Execute
    <3>3. Bills(K, N, {Primary(u)}, {}) /\ Shifts(K, N, Ether, 0)
        BY <1>4, <3>1, <3>2, PrimaryIsAccount, MoveSurplusBills
    <3> QED BY <1>5, <2>2, <3>3 DEF Bills, Charges
  <2>3. CASE cmd.code = "SIDE_POCKET"
    <3>1. /\ cmd.from \in Pockets /\ cmd.to \in Pockets /\ cmd.asset \in Assets
          /\ cmd.size \in Int
        BY <2>3 DEF Commands
    <3>2. PICK from, to : from = <<u, cmd.from>> /\ to = <<u, cmd.to>>
        OBVIOUS
    <3>3. from \in Accounts /\ to \in Accounts /\ from \in {u} \X Pockets
        BY <3>1, <3>2 DEF Accounts
    <3>4. N = MoveSurplus(K, from, to, cmd.asset, cmd.size)
        BY <1>1, <1>6, <2>3, <3>2 DEF Execute
    <3>5. Bills(K, N, {from}, {}) /\ Shifts(K, N, Ether, 0)
        BY <1>4, <3>1, <3>3, <3>4, MoveSurplusBills
    <3> QED BY <1>5, <2>3, <3>3, <3>5 DEF Bills, Charges
  <2>4. CASE cmd.code \in {"RESET_NONCE", "APPROVE"}
    <3>1. N = K
        BY <1>1, <1>6, <2>4 DEF Execute
    <3>2. \A b \in SafeAssets : Gap(K, b) \in Int
        BY <1>4, GapIsInt
    <3>3. Charges(K, K, accts, {u})
        BY <1>4 DEF Charges, Sound, Drafts, Amounts
    <3> QED BY <1>4, <3>1, <3>2, <3>3 DEF Bills, Shifts
  <2> QED BY <2>1, <2>2, <2>3, <2>4
<1>8. Bills(L, N, accts, {u})
    BY <1>3, <1>7, BillsTwice
<1>9. Shifts(L, N, Ether, -paid)
    BY <1>3, <1>7, GapIsInt DEF Shifts
<1> QED BY <1>5, <1>6, <1>8, <1>9 DEF Runs

LEMMA ExecuteRuns ==
    ASSUME NEW u \in Owners, NEW L, Sound(L), NEW cmd \in Commands, NEW paid \in Nat
    PROVE  Runs(L, Execute(L, u, cmd, paid), u, cmd, paid)
<1>1. cmd.code \in Codes
    BY DEF Commands, Codes
<1> QED BY <1>1, TradeRuns, LongRuns, InitRuns, DepositRuns, OthersRun DEF Codes

-----------------------------------------------------------------------------
\* Tips and fees

LEMMA FeesMake ==
    ASSUME NEW L, Sound(L), NEW a \in Assets, NEW value \in Int, L.ok => value \in Nat
    PROVE  LET M == [L EXCEPT !.fees[a] = value]
           IN  Bills(L, M, {}, {}) /\ Shifts(L, M, a, L.fees[a] - value)
<1> DEFINE M == [L EXCEPT !.fees[a] = value]
<1>0. L \in Drafts /\ L.ok \in BOOLEAN /\ AddsUp(L)
    BY DEF Sound, Drafts
<1>1. M \in Drafts
  <2>1. [L.fees EXCEPT ![a] = value] \in Amounts
    BY <1>0 DEF Drafts, Amounts
  <2> QED BY <1>0, <2>1 DEF Drafts
<1>2. M.ok => M \in Ledgers
  <2> SUFFICES ASSUME M.ok PROVE M \in Ledgers
    OBVIOUS
  <2>0. L.ok /\ L \in Ledgers /\ value \in Nat
    BY <1>0 DEF Sound, Drafts
  <2>1. [L.fees EXCEPT ![a] = value] \in [Assets -> Nat]
    BY <2>0 DEF Ledgers
  <2> QED BY <2>0, <2>1 DEF Ledgers
<1>3. Shifts(L, M, a, L.fees[a] - value)
    BY <1>0, EtherIsAsset DEF Shifts, Gap, Owed, Drafts, Amounts
<1>4. Charges(L, M, {}, {}) /\ (M.ok => L.ok)
    BY <1>0 DEF Charges, Drafts, Amounts
<1>5. AddsUp(M)
    BY <1>0, AccountsStay DEF Drafts
<1> QED BY <1>1, <1>2, <1>3, <1>4, <1>5 DEF Sound, Bills

\* The share of the protocol is no more than the tip.
LEMMA ShareOfTip ==
    ASSUME NEW whole \in Int
    PROVE  /\ (whole * TakeOfTips) \div TipUnit \in Int
           /\ whole \in Nat => (whole * TakeOfTips) \div TipUnit \in 0 .. whole
<1>1. TipUnit \in Nat \ {0} /\ TakeOfTips \in 0 .. TipUnit /\ TakeOfTips \in Nat
    BY SettleAssumption
<1>2. PICK x \in Int : x = whole * TakeOfTips
    BY <1>1
<1>3. PICK q : q = x \div TipUnit
    OBVIOUS
<1>4. q \in Int /\ TipUnit * q <= x /\ x < TipUnit * (q + 1)
    BY <1>1, <1>2, <1>3, SMTT(30)
<1>5. ASSUME whole \in Nat PROVE q \in 0 .. whole
  <2>1. 0 <= x /\ x <= whole * TipUnit
    BY <1>1, <1>2, <1>5, SMTT(30)
  <2>2. q >= 0
    <3>1. SUFFICES ASSUME q < 0 PROVE FALSE
        BY <1>4
    <3>2. TipUnit * (q + 1) <= 0
        BY <1>1, <1>4, <3>1, SMTT(30)
    <3> QED BY <1>1, <1>2, <1>4, <2>1, <3>2
  <2>3. q <= whole
    <3>1. SUFFICES ASSUME q >= whole + 1 PROVE FALSE
        BY <1>4, <1>5
    <3>2. TipUnit * q >= TipUnit * (whole + 1)
        BY <1>1, <1>4, <1>5, <3>1, SMTT(30)
    <3>3. TipUnit * (whole + 1) = whole * TipUnit + TipUnit
        BY <1>1, <1>5, SMTT(30)
    <3> QED BY <1>1, <1>2, <1>4, <1>5, <2>1, <3>2, <3>3, SMTT(30)
  <2> QED BY <1>4, <2>2, <2>3
<1> QED BY <1>2, <1>3, <1>4, <1>5

\* A tip bills the signer.
LEMMA TipBills ==
    ASSUME NEW L, Sound(L), NEW u \in Owners, NEW tip \in Tips, NEW recv \in Accounts
    PROVE  LET M == TipRelayer(L, u, tip, recv)
           IN  Bills(L, M, {Primary(u)}, {}) /\ Shifts(L, M, Ether, 0)
<1>1. PICK a \in Assets : a = tip.token
    BY DEF Tips
<1>2. tip.amount \in Nat
    BY DEF Tips
<1>3. PICK whole : whole = IF tip.all THEN L.surplus[Primary(u)][a] ELSE tip.amount
    OBVIOUS
<1>4. whole \in Int /\ (L.ok => whole \in Nat)
    BY <1>2, <1>3, PrimaryIsAccount DEF Sound, Drafts, Ledgers, Amounts
<1>5. PICK fee : fee = (whole * TakeOfTips) \div TipUnit
    OBVIOUS
<1>6. /\ fee \in Int /\ whole - fee \in Int
      /\ L.ok => fee \in Nat /\ whole - fee \in Nat
    BY <1>4, <1>5, ShareOfTip
<1>7. PICK D : D = Debit(L, Primary(u), a, whole)
    OBVIOUS
<1>8. /\ Makes(L, D, a, whole, {Primary(u)}, {})
      /\ D.ok => Charges(L, D, {Primary(u)}, {})
    BY <1>4, <1>7, PrimaryIsAccount, DebitMakes
<1>9. /\ Bills(L, D, {Primary(u)}, {}) /\ Shifts(L, D, a, whole)
      /\ Sound(D) /\ (D.ok => whole - fee \in Nat)
    BY <1>6, <1>8 DEF Makes, Bills
<1>10. PICK C : C = Credit(D, recv, a, whole - fee)
    OBVIOUS
<1>11. Makes(D, C, a, -(whole - fee), {recv}, {}) /\ (C.ok => Charges(D, C, {}, {}))
    BY <1>4, <1>6, <1>9, <1>10, CreditMakes
<1>12. /\ Bills(D, C, {Primary(u)}, {}) /\ Shifts(D, C, a, -(whole - fee))
       /\ Sound(C) /\ (C.ok => fee \in Nat)
    BY <1>6, <1>8, <1>9, <1>11 DEF Makes, Bills, Charges
<1>13. C.fees[a] \in Int /\ (C.ok => C.fees[a] \in Nat)
    BY <1>12 DEF Sound, Drafts, Ledgers, Amounts
<1>14. PICK N : N = [C EXCEPT !.fees[a] = C.fees[a] + fee]
    OBVIOUS
<1>15. C.fees[a] + fee \in Int /\ (C.ok => C.fees[a] + fee \in Nat)
    BY <1>6, <1>12, <1>13
<1>16. Bills(C, N, {}, {}) /\ Shifts(C, N, a, C.fees[a] - (C.fees[a] + fee))
    BY <1>12, <1>14, <1>15, FeesMake
<1>17. Bills(C, N, {Primary(u)}, {})
    BY <1>16 DEF Bills, Charges
<1>18. Bills(L, N, {Primary(u)}, {})
    BY <1>9, <1>12, <1>17, BillsTwice
<1>19. Shifts(L, N, Ether, 0)
    BY <1>4, <1>6, <1>9, <1>12, <1>13, <1>16, GapIsInt DEF Shifts
<1>20. TipRelayer(L, u, tip, recv) = N
    BY <1>1, <1>3, <1>5, <1>7, <1>10, <1>14 DEF TipRelayer
<1> QED BY <1>18, <1>19, <1>20

LEMMA GiveTipBills ==
    ASSUME NEW L, Sound(L), NEW u \in Owners, NEW s \in Owners, NEW tip \in Tips \cup {NoTip}
    PROVE  LET M == GiveTip(L, u, tip, s)
           IN  Bills(L, M, {Primary(u)}, {}) /\ Shifts(L, M, Ether, 0)
<1>1. CASE tip = NoTip
  <2>1. GiveTip(L, u, tip, s) = L
    BY <1>1 DEF GiveTip
  <2>2. Charges(L, L, {Primary(u)}, {})
    BY DEF Charges, Sound, Drafts, Amounts
  <2> QED BY <2>1, <2>2, GapIsInt DEF Bills, Shifts
<1>2. CASE tip # NoTip
  <2>1. PICK recv : recv = IF tip.recv = AnySender THEN Primary(s) ELSE tip.recv
    OBVIOUS
  <2>2. tip \in Tips /\ recv \in Accounts
    BY <1>2, <2>1, PrimaryIsAccount DEF Tips
  <2>3. GiveTip(L, u, tip, s) = TipRelayer(L, u, tip, recv)
    BY <1>2, <2>1 DEF GiveTip
  <2> QED BY <2>2, <2>3, TipBills
<1> QED BY <1>1, <1>2

\* Fees that are collected stay in the dex.
LEMMA CollectProtocolKeeps ==
    ASSUME NEW L, Sound(L), NEW t \in Owners, NEW a \in Assets
    PROVE  LET M == CollectProtocol(L, t, a)
           IN  Bills(L, M, {}, {}) /\ Shifts(L, M, Ether, 0) /\ M.ok = L.ok
<1>1. PICK fee : fee = L.fees[a]
    OBVIOUS
<1>2. fee \in Int /\ (L.ok => fee \in Nat)
    BY <1>1 DEF Sound, Drafts, Ledgers, Amounts
<1>3. PICK K : K = [L EXCEPT !.fees[a] = 0]
    OBVIOUS
<1>4. Bills(L, K, {}, {}) /\ Shifts(L, K, a, fee - 0)
  <2>1. 0 \in Int /\ 0 \in Nat
    OBVIOUS
  <2>2. Bills(L, K, {}, {}) /\ Shifts(L, K, a, L.fees[a] - 0)
    BY <1>3, <2>1, FeesMake
  <2> QED BY <1>1, <2>2
<1>5. Sound(K) /\ K.ok = L.ok
    BY <1>3, <1>4 DEF Bills, Sound, Drafts
<1>6. PICK M : M = Credit(K, Primary(t), a, fee)
    OBVIOUS
<1>7. Makes(K, M, a, -fee, {Primary(t)}, {}) /\ (M.ok => Charges(K, M, {}, {}))
    BY <1>2, <1>5, <1>6, PrimaryIsAccount, CreditMakes
<1>8. Bills(K, M, {}, {}) /\ Shifts(K, M, a, -fee)
    BY <1>5, <1>7 DEF Makes, Bills
<1>9. Bills(L, M, {}, {})
    BY <1>4, <1>8, BillsTwice
<1>10. Shifts(L, M, Ether, 0)
    BY <1>2, <1>4, <1>8, GapIsInt DEF Shifts
<1>11. M.ok = L.ok
    BY <1>5, <1>6 DEF Credit, Sound, Drafts
<1>12. CollectProtocol(L, t, a) = M
    BY <1>1, <1>3, <1>6 DEF CollectProtocol
<1> QED BY <1>9, <1>10, <1>11, <1>12

-----------------------------------------------------------------------------
\* Transactions

\* What a transaction of s does that runs cmd for u.
Served(s, u, cmd, tip) ==
    /\ ledger' \in Ledgers /\ ledger'.ok /\ BankedInAccounts'
    /\ \A b \in SafeAssets : Gap(ledger', b) = Gap(ledger, b)
    /\ Charges(ledger, ledger', IF cmd.code = "SIDE_POCKET" THEN {u} \X Pockets
                                ELSE {Primary(u)}, {u, s})
    /\ \A v \in Owners \ {u}, a \in Assets \ {Ether} :
        ledger'.wallet[v][a] >= ledger.wallet[v][a]
    /\ (cmd.code \in {"TRADE", "LONG"} /\ tip = NoTip) =>
        /\ \A acct \in Accounts \ {Primary(u)} : ledger'.surplus[acct] = ledger.surplus[acct]
        /\ \A v \in Owners \ {u}, a \in Assets : ledger'.wallet[v][a] <= ledger.wallet[v][a]

LEMMA ServeServed ==
    ASSUME ledger \in Ledgers, BankedInAccounts, NEW s \in Owners, NEW u \in Owners,
           NEW cmd \in Commands, NEW paid \in Nat, NEW tip \in Tips \cup {NoTip},
           Serve(s, u, cmd, paid, tip)
    PROVE  Served(s, u, cmd, tip)
<1>1. PICK L : L = ledger
    OBVIOUS
<1>2. L \in Ledgers /\ Sound(L) /\ L \in Drafts
    BY <1>1 DEF Sound, Drafts, Ledgers, Amounts, BankedInAccounts, AddsUp
<1>3. PICK B : B = Collect(L, s, Ether, paid)
    OBVIOUS
<1>4. Makes(L, B, Ether, paid, {}, {s}) /\ (B.ok => Charges(L, B, {}, {s}))
    BY <1>2, <1>3, EtherIsAsset, CollectMakes
<1>5. /\ Sound(B) /\ Shifts(L, B, Ether, paid)
      /\ \A acct \in Accounts : B.surplus[acct] = L.surplus[acct]
    BY <1>4 DEF Makes, Touches
<1>6. \A v \in Owners, a \in Assets :
        B.wallet[v][a] = IF v = s /\ a = Ether THEN L.wallet[v][a] - paid ELSE L.wallet[v][a]
    BY <1>2, <1>3, EtherIsAsset DEF Collect, Drafts, Amounts
<1>7. PICK M : M = Execute(B, u, cmd, paid)
    OBVIOUS
<1>8. Runs(B, M, u, cmd, paid)
    BY <1>5, <1>7, ExecuteRuns
<1>9. PICK N : N = GiveTip(M, u, tip, s)
    OBVIOUS
<1>10. Sound(M)
    BY <1>8 DEF Runs, Bills
<1>11. Bills(M, N, {Primary(u)}, {}) /\ Shifts(M, N, Ether, 0)
    BY <1>9, <1>10, GiveTipBills
<1>12. B.ok /\ N.ok /\ ledger' = N
    BY <1>1, <1>3, <1>7, <1>9 DEF Serve, Attach
<1>13. PICK accts : accts = IF cmd.code = "SIDE_POCKET" THEN {u} \X Pockets ELSE {Primary(u)}
    OBVIOUS
<1>14. Primary(u) \in accts
    BY <1>13, SettleAssumption DEF Primary
<1>15. Bills(B, M, accts, {u})
    BY <1>8, <1>13 DEF Runs
<1>16. Bills(M, N, accts, {u})
    BY <1>11, <1>14 DEF Bills, Charges
<1>17. Bills(B, N, accts, {u})
    BY <1>15, <1>16, BillsTwice
<1>18. N \in Ledgers /\ Sound(N) /\ N \in Drafts /\ Charges(B, N, accts, {u})
    BY <1>12, <1>17 DEF Bills, Sound
<1>19. \A b \in SafeAssets : Gap(N, b) = Gap(L, b)
  <2>1. Shifts(B, M, Ether, -paid)
    BY <1>8 DEF Runs
  <2> QED BY <1>2, <1>5, <1>11, <2>1, GapIsInt DEF Shifts
<1>20. Charges(L, N, accts, {u, s})
  <2>1. Charges(L, B, accts, {u, s})
    BY <1>4, <1>12 DEF Charges
  <2>2. Charges(B, N, accts, {u, s})
    BY <1>18 DEF Charges
  <2> QED BY <1>2, <1>5, <1>18, <2>1, <2>2, ChargesTwice
<1>21. \A v \in Owners \ {u}, a \in Assets \ {Ether} : N.wallet[v][a] >= L.wallet[v][a]
    BY <1>6, <1>18 DEF Charges
<1>22. ASSUME cmd.code \in {"TRADE", "LONG"}, tip = NoTip
       PROVE  /\ \A acct \in Accounts \ {Primary(u)} : N.surplus[acct] = L.surplus[acct]
              /\ \A v \in Owners \ {u}, a \in Assets : N.wallet[v][a] <= L.wallet[v][a]
  <2>1. N = M /\ Touches(B, M, {Primary(u)}, {u})
    BY <1>8, <1>9, <1>22 DEF Runs, GiveTip
  <2>2. \A v \in Owners, a \in Assets : L.wallet[v][a] \in Nat
    BY <1>2 DEF Ledgers
  <2> QED BY <1>5, <1>6, <2>1, <2>2 DEF Touches
<1>23. BankedInAccounts'
    BY <1>12, <1>18 DEF Sound, AddsUp, BankedInAccounts
<1> QED BY <1>1, <1>12, <1>13, <1>18, <1>19, <1>20, <1>21, <1>22, <1>23 DEF Served

LEMMA DirectServed ==
    ASSUME TypeOK, BankedInAccounts, NEW s \in Owners, NEW cmd \in Cmds, NEW paid \in Attached,
           Direct(s, cmd, paid)
    PROVE  Served(s, s, cmd, NoTip)
<1>1. cmd \in Commands /\ paid \in Nat /\ NoTip \in Tips \cup {NoTip}
    BY AgentAssumption
<1>2. ledger \in Ledgers /\ Serve(s, s, cmd, paid, NoTip)
    BY DEF TypeOK, Direct
<1> QED BY <1>1, <1>2, ServeServed

LEMMA RoutedServed ==
    ASSUME TypeOK, BankedInAccounts, NEW s \in Owners, NEW client \in Owners,
           NEW cmd \in Cmds, NEW paid \in Attached, Routed(s, client, cmd, paid)
    PROVE  Served(s, client, cmd, NoTip)
<1>1. cmd \in Commands /\ paid \in Nat /\ NoTip \in Tips \cup {NoTip}
    BY AgentAssumption
<1>2. ledger \in Ledgers /\ Serve(s, client, cmd, paid, NoTip)
    BY DEF TypeOK, Routed
<1> QED BY <1>1, <1>2, ServeServed

LEMMA RelayedServed ==
    ASSUME TypeOK, BankedInAccounts, NEW s \in Owners, NEW m \in Messages, NEW paid \in Attached,
           Relayed(s, m, paid)
    PROVE  Served(s, m.client, m.cmd, m.tip)
<1>1. m \in SignedMessages /\ paid \in Nat
    BY AgentAssumption
<1>2. m.client \in Owners /\ m.cmd \in Commands /\ m.tip \in Tips \cup {NoTip}
    BY <1>1 DEF SignedMessages
<1>3. ledger \in Ledgers /\ Serve(s, m.client, m.cmd, paid, m.tip)
    BY DEF TypeOK, Relayed
<1> QED BY <1>1, <1>2, <1>3, ServeServed

-----------------------------------------------------------------------------
\* Nonces and agents

LEMMA NoncesRise ==
    ASSUME NEW before \in [Accounts -> Words], NEW u \in Owners, NEW cmd \in Commands,
           ResetOkay(u, cmd, before)
    PROVE  /\ NoncesAfter(u, cmd, before) \in [Accounts -> Words]
           /\ \A k \in Accounts : NoncesAfter(u, cmd, before)[k] >= before[k]
<1>1. \A k \in Accounts : before[k] \in Int
    BY AgentAssumption DEF Words
<1>2. CASE cmd.code = "RESET_NONCE"
  <2>1. cmd.salt \in Pockets /\ cmd.nonce \in Words
    BY <1>2 DEF Commands
  <2>2. PICK k \in Accounts : k = <<u, cmd.salt>>
    BY <2>1 DEF Accounts
  <2>3. cmd.nonce >= before[k]
    BY <1>2, <2>2 DEF ResetOkay
  <2>4. NoncesAfter(u, cmd, before) = [before EXCEPT ![k] = cmd.nonce]
    BY <1>2, <2>2 DEF NoncesAfter
  <2> QED BY <1>1, <2>1, <2>3, <2>4
<1>3. CASE cmd.code # "RESET_NONCE"
  <2>1. NoncesAfter(u, cmd, before) = before
    BY <1>3 DEF NoncesAfter
  <2> QED BY <1>1, <2>1
<1> QED BY <1>2, <1>3

LEMMA ColdCallsStay ==
    ASSUME NEW before \in [AgentKeys -> Words], NEW u \in Owners, NEW cmd \in Commands,
           ApproveOkay(cmd)
    PROVE  /\ CallsAfter(u, cmd, before) \in [AgentKeys -> Words]
           /\ \A key \in AgentKeys :
                key[3] = "COLD" => CallsAfter(u, cmd, before)[key] = before[key]
<1>1. CASE cmd.code = "APPROVE"
  <2>1. cmd.nCalls \in Words /\ "COLD" \notin cmd.paths
    BY <1>1 DEF Commands, ApproveOkay
  <2>2. PICK given : given = {<<u, cmd.router, path>> : path \in cmd.paths}
    OBVIOUS
  <2>3. CallsAfter(u, cmd, before)
            = [key \in AgentKeys |-> IF key \in given THEN cmd.nCalls ELSE before[key]]
    BY <1>1, <2>2 DEF CallsAfter
  <2>4. \A key \in given : key[3] # "COLD"
    BY <2>1, <2>2
  <2> QED BY <2>1, <2>3, <2>4
<1>2. CASE cmd.code # "APPROVE"
    BY <1>2 DEF CallsAfter
<1> QED BY <1>1, <1>2

LEMMA StepNonceSteps ==
    ASSUME TypeOK, NEW m \in Messages, nonces[<<m.client, m.salt>>] < WordMax
    PROVE  /\ <<m.client, m.salt>> \in Accounts
           /\ StepNonce(m) \in [Accounts -> Words]
           /\ \A k \in Accounts : StepNonce(m)[k] =
                IF k = <<m.client, m.salt>> THEN nonces[k] + 1 ELSE nonces[k]
<1>1. m.client \in Owners /\ m.salt \in Pockets
    BY AgentAssumption DEF SignedMessages
<1>2. PICK k \in Accounts : k = <<m.client, m.salt>>
    BY <1>1 DEF Accounts
<1>3. nonces \in [Accounts -> Words]
    BY DEF TypeOK
<1>4. nonces[k] \in Nat /\ nonces[k] + 1 \in Words
    BY <1>2, <1>3, AgentAssumption DEF Words
<1> QED BY <1>2, <1>3, <1>4 DEF StepNonce

LEMMA StepAgentSteps ==
    ASSUME TypeOK, NEW client \in Owners, NEW router \in Owners, NEW path \in CallPaths,
           agentCalls[<<client, router, path>>] > 0
    PROVE  /\ StepAgent(client, router, path) \in [AgentKeys -> Words]
           /\ \A key \in AgentKeys : StepAgent(client, router, path)[key] <= agentCalls[key]
<1>1. PICK k \in AgentKeys : k = <<client, router, path>>
    BY DEF AgentKeys
<1>2. agentCalls \in [AgentKeys -> Words]
    BY DEF TypeOK
<1>3. \A key \in AgentKeys : agentCalls[key] \in Int
    BY <1>2, AgentAssumption DEF Words
<1>4. agentCalls[k] - 1 \in Words
    BY <1>1, <1>2, AgentAssumption DEF Words
<1> QED BY <1>1, <1>2, <1>3, <1>4 DEF StepAgent

-----------------------------------------------------------------------------
\* The invariant

\* The nonce of a message that ran is used up.
NoncesSpent ==
    \A i \in DOMAIN ran : ran[i].nonce < nonces[<<ran[i].client, ran[i].salt>>]

\* No router has calls on the cold path.
NoColdCalls == \A key \in AgentKeys : key[3] = "COLD" => agentCalls[key] = 0

AccountsInv ==
    TypeOK /\ ledger.ok /\ Balanced /\ BankedInAccounts /\ NoncesSpent /\ NoColdCalls

LEMMA PathIsPath ==
    ASSUME NEW cmd PROVE PathOf(cmd) \in CallPaths
    BY DEF PathOf, CallPaths

LEMMA InitInv == Init => AccountsInv
<1> SUFFICES ASSUME Init PROVE AccountsInv
    OBVIOUS
<1>1. ledger \in Ledgers
  <2>1. [a \in Assets |-> 0] \in [Assets -> Nat] /\ [a \in Assets |-> 0] \in [Assets -> Int]
    OBVIOUS
  <2> QED BY <2>1, AgentAssumption DEF Init, Ledgers
<1>2. nonces \in [Accounts -> Words] /\ agentCalls \in [AgentKeys -> Words] /\ now \in Times
    BY AgentAssumption DEF Init, Words, Times
<1>3. ran \in Seq(Messages) /\ DOMAIN ran = {}
    BY DEF Init
<1>4. Balanced
    BY EtherIsAsset DEF Init, Balanced, Owed
<1>5. BankedInAccounts
  <2> SUFFICES ASSUME NEW a \in Assets PROVE ledger.banked[a] = Total(ledger, a)
    BY DEF BankedInAccounts
  <2> DEFINE f == [acct \in Accounts |-> ledger.surplus[acct][a]]
  <2>1. (\A acct \in Accounts : f[acct] = 0) /\ ledger.banked[a] = 0
    BY DEF Init
  <2>2. IsFiniteSet(Accounts)
    BY SettleAssumption, FS_Product DEF Accounts
  <2> HIDE DEF f
  <2>3. SumFunctionOnSet(f, Accounts) = 0
    BY <2>1, <2>2, SumOfZeros
  <2> QED BY <2>1, <2>3 DEF Total, f
<1> QED BY <1>1, <1>2, <1>3, <1>4, <1>5
        DEF Init, AccountsInv, TypeOK, NoncesSpent, NoColdCalls

\* A transaction keeps what it does not name: the rest follows for each way in.
LEMMA ServedKeeps ==
    ASSUME AccountsInv, NEW s, NEW u, NEW cmd, NEW tip, Served(s, u, cmd, tip)
    PROVE  ledger' \in Ledgers /\ ledger'.ok /\ Balanced' /\ BankedInAccounts'
<1>1. \A b \in SafeAssets : ledger'.held[b] \in Int /\ Owed(ledger', b) \in Int
    BY EtherIsAsset DEF Served, Ledgers, Owed
<1>2. \A b \in SafeAssets : ledger.held[b] \in Int /\ Owed(ledger, b) \in Int
    BY EtherIsAsset DEF AccountsInv, TypeOK, Ledgers, Owed
<1>3. \A b \in SafeAssets : ledger.held[b] = Owed(ledger, b)
    BY DEF AccountsInv, Balanced
<1>4. \A b \in SafeAssets : Gap(ledger', b) = Gap(ledger, b)
    BY DEF Served
<1>5. \A b \in SafeAssets : ledger'.held[b] = Owed(ledger', b)
    BY <1>1, <1>2, <1>3, <1>4 DEF Gap
<1> QED BY <1>5 DEF Served, Balanced

\* Nonces only rise, so those that are used up stay so.
LEMMA SpentStay ==
    ASSUME AccountsInv, nonces' \in [Accounts -> Words], ran' = ran,
           \A k \in Accounts : nonces'[k] >= nonces[k]
    PROVE  NoncesSpent'
<1>1. \A m \in Messages : m.nonce \in Int /\ <<m.client, m.salt>> \in Accounts
    BY AgentAssumption DEF SignedMessages, Accounts, Words
<1>2. nonces \in [Accounts -> Words] /\ ran \in Seq(Messages) /\ Words \subseteq Int
    BY AgentAssumption DEF AccountsInv, TypeOK, Words
<1>3. SUFFICES ASSUME NEW i \in DOMAIN ran
               PROVE  ran[i].nonce < nonces'[<<ran[i].client, ran[i].salt>>]
    BY DEF NoncesSpent
<1>4. ran[i] \in Messages
    BY <1>2
<1>5. PICK k \in Accounts : k = <<ran[i].client, ran[i].salt>>
    BY <1>1, <1>4
<1>6. ran[i].nonce < nonces[k]
    BY <1>5 DEF AccountsInv, NoncesSpent
<1>7. ran[i].nonce \in Int /\ nonces[k] \in Int /\ nonces'[k] \in Int /\ nonces'[k] >= nonces[k]
    BY <1>1, <1>2, <1>4
<1> QED BY <1>5, <1>6, <1>7

LEMMA DirectKeeps ==
    ASSUME AccountsInv, NEW s \in Owners, NEW cmd \in Cmds, NEW paid \in Attached,
           Direct(s, cmd, paid)
    PROVE  AccountsInv'
<1>1. TypeOK /\ BankedInAccounts /\ cmd \in Commands
    BY AgentAssumption DEF AccountsInv
<1>2. ledger' \in Ledgers /\ ledger'.ok /\ Balanced' /\ BankedInAccounts'
    BY <1>1, DirectServed, ServedKeeps
<1>3. nonces' \in [Accounts -> Words] /\ \A k \in Accounts : nonces'[k] >= nonces[k]
    BY <1>1, NoncesRise DEF Direct, TypeOK
<1>4. agentCalls' \in [AgentKeys -> Words]
      /\ \A key \in AgentKeys : key[3] = "COLD" => agentCalls'[key] = agentCalls[key]
    BY <1>1, ColdCallsStay DEF Direct, TypeOK
<1>5. now' = now /\ ran' = ran
    BY DEF Direct
<1>6. NoncesSpent'
    BY <1>3, <1>5, SpentStay
<1> QED BY <1>1, <1>2, <1>3, <1>4, <1>5, <1>6 DEF AccountsInv, TypeOK, NoColdCalls

LEMMA RoutedKeeps ==
    ASSUME AccountsInv, NEW s \in Owners, NEW client \in Owners, NEW cmd \in Cmds,
           NEW paid \in Attached, Routed(s, client, cmd, paid)
    PROVE  AccountsInv'
<1>1. TypeOK /\ BankedInAccounts /\ cmd \in Commands
    BY AgentAssumption DEF AccountsInv
<1>2. ledger' \in Ledgers /\ ledger'.ok /\ Balanced' /\ BankedInAccounts'
    BY <1>1, RoutedServed, ServedKeeps
<1>3. nonces' \in [Accounts -> Words] /\ \A k \in Accounts : nonces'[k] >= nonces[k]
    BY <1>1, NoncesRise DEF Routed, TypeOK
<1>4. PICK calls : calls = StepAgent(client, s, PathOf(cmd))
    OBVIOUS
<1>5. /\ calls \in [AgentKeys -> Words]
      /\ \A key \in AgentKeys : calls[key] <= agentCalls[key]
    BY <1>1, <1>4, PathIsPath, StepAgentSteps DEF Routed
<1>6. /\ agentCalls' \in [AgentKeys -> Words]
      /\ \A key \in AgentKeys : key[3] = "COLD" => agentCalls'[key] = calls[key]
    BY <1>1, <1>4, <1>5, ColdCallsStay DEF Routed
<1>7. NoColdCalls'
    BY <1>5, <1>6, AgentAssumption DEF AccountsInv, NoColdCalls, Words
<1>8. now' = now /\ ran' = ran
    BY DEF Routed
<1>9. NoncesSpent'
    BY <1>3, <1>8, SpentStay
<1> QED BY <1>1, <1>2, <1>3, <1>6, <1>7, <1>8, <1>9 DEF AccountsInv, TypeOK

LEMMA RelayedKeeps ==
    ASSUME AccountsInv, NEW s \in Owners, NEW m \in Messages, NEW paid \in Attached,
           Relayed(s, m, paid)
    PROVE  AccountsInv'
<1>1. TypeOK /\ BankedInAccounts /\ m \in SignedMessages
    BY AgentAssumption DEF AccountsInv
<1>2. m.cmd \in Commands /\ m.client \in Owners
    BY <1>1 DEF SignedMessages
<1>3. ledger' \in Ledgers /\ ledger'.ok /\ Balanced' /\ BankedInAccounts'
    BY <1>1, RelayedServed, ServedKeeps
<1>4. PICK k : k = <<m.client, m.salt>>
    OBVIOUS
<1>5. PICK stepped : stepped = StepNonce(m)
    OBVIOUS
<1>6. /\ k \in Accounts /\ stepped \in [Accounts -> Words]
      /\ \A j \in Accounts : stepped[j] = IF j = k THEN nonces[j] + 1 ELSE nonces[j]
    BY <1>1, <1>4, <1>5, StepNonceSteps DEF Relayed
<1>7. nonces' \in [Accounts -> Words] /\ \A j \in Accounts : nonces'[j] >= stepped[j]
    BY <1>2, <1>5, <1>6, NoncesRise DEF Relayed
<1>8. /\ agentCalls' \in [AgentKeys -> Words]
      /\ \A key \in AgentKeys : key[3] = "COLD" => agentCalls'[key] = agentCalls[key]
    BY <1>1, <1>2, ColdCallsStay DEF Relayed, TypeOK
<1>9. now' = now /\ ran' = Append(ran, m) /\ ran \in Seq(Messages)
    BY <1>1 DEF Relayed, TypeOK
<1>10. ran' \in Seq(Messages)
    BY <1>9
<1>11. NoncesSpent'
  <2>1. \A n \in Messages : n.nonce \in Words /\ <<n.client, n.salt>> \in Accounts
    BY AgentAssumption DEF SignedMessages, Accounts
  <2>2. nonces \in [Accounts -> Words] /\ Words \subseteq Int
    BY <1>1, AgentAssumption DEF TypeOK, Words
  <2>3. (\A j \in Accounts : nonces'[j] >= nonces[j]) /\ nonces'[k] > nonces[k]
    <3>1. \A j \in Accounts : nonces[j] \in Int /\ stepped[j] \in Int /\ nonces'[j] \in Int
        BY <1>6, <1>7, <2>2
    <3>2. \A j \in Accounts : stepped[j] >= nonces[j] /\ nonces'[j] >= stepped[j]
        BY <1>6, <1>7, <3>1
    <3>3. stepped[k] = nonces[k] + 1
        BY <1>6
    <3> QED BY <1>6, <3>1, <3>2, <3>3
  <2>4. m.nonce = nonces[k]
    BY <1>4 DEF Relayed, NonceMatches
  <2>5. SUFFICES ASSUME NEW i \in DOMAIN ran'
                 PROVE  ran'[i].nonce < nonces'[<<ran'[i].client, ran'[i].salt>>]
    BY DEF NoncesSpent
  <2>6. CASE i \in DOMAIN ran
    <3>1. ran'[i] = ran[i] /\ ran[i] \in Messages
        BY <1>9, <2>6
    <3>2. ran[i].nonce < nonces[<<ran[i].client, ran[i].salt>>]
        BY <2>6 DEF AccountsInv, NoncesSpent
    <3>3. PICK j \in Accounts : j = <<ran[i].client, ran[i].salt>>
        BY <2>1, <3>1
    <3>4. ran[i].nonce \in Int /\ nonces[j] \in Int /\ nonces'[j] \in Int
        BY <1>7, <2>1, <2>2, <3>1, <3>3
    <3> QED BY <2>3, <3>1, <3>2, <3>3, <3>4
  <2>7. CASE i \notin DOMAIN ran
    <3>1. ran'[i] = m
        BY <1>9, <2>5, <2>7
    <3> QED BY <1>4, <2>3, <2>4, <1>6, <3>1
  <2> QED BY <2>6, <2>7
<1> QED BY <1>1, <1>3, <1>7, <1>8, <1>9, <1>10, <1>11 DEF AccountsInv, TypeOK, NoColdCalls

LEMMA CollectFeesKeeps ==
    ASSUME AccountsInv, NEW a \in Assets, CollectFees(a)
    PROVE  AccountsInv' /\ Charges(ledger, ledger', {}, {})
<1>1. PICK L : L = ledger
    OBVIOUS
<1>2. L \in Ledgers /\ Sound(L)
    BY <1>1 DEF AccountsInv, TypeOK, Sound, Drafts, Ledgers, Amounts, BankedInAccounts, AddsUp
<1>3. PICK M : M = CollectProtocol(L, Treasury, a)
    OBVIOUS
<1>4. Bills(L, M, {}, {}) /\ Shifts(L, M, Ether, 0) /\ M.ok = L.ok
    BY <1>2, <1>3, AgentAssumption, CollectProtocolKeeps
<1>5. ledger' = M
    BY <1>1, <1>3 DEF CollectFees
<1>6. /\ ledger' \in Ledgers /\ ledger'.ok /\ Charges(ledger, ledger', {}, {})
      /\ BankedInAccounts'
    BY <1>1, <1>4, <1>5 DEF AccountsInv, Bills, Sound, AddsUp, BankedInAccounts
<1>7. Balanced'
  <2>1. \A b \in SafeAssets : ledger'.held[b] \in Int /\ Owed(ledger', b) \in Int
    BY <1>6, EtherIsAsset DEF Ledgers, Owed
  <2>2. \A b \in SafeAssets : ledger.held[b] \in Int /\ Owed(ledger, b) \in Int
    BY <1>1, <1>2, EtherIsAsset DEF Ledgers, Owed
  <2>3. \A b \in SafeAssets : Gap(ledger', b) = Gap(ledger, b)
    BY <1>1, <1>2, <1>4, <1>5, GapIsInt DEF Shifts
  <2>4. \A b \in SafeAssets : ledger.held[b] = Owed(ledger, b)
    BY DEF AccountsInv, Balanced
  <2>5. \A b \in SafeAssets : ledger'.held[b] = Owed(ledger', b)
    BY <2>1, <2>2, <2>3, <2>4 DEF Gap
  <2> QED BY <2>5 DEF Balanced
<1> QED BY <1>6, <1>7 DEF CollectFees, AccountsInv, TypeOK, NoncesSpent, NoColdCalls

LEMMA PassTimeKeeps ==
    ASSUME AccountsInv, PassTime
    PROVE  AccountsInv'
<1>1. now' \in Times
    BY AgentAssumption DEF AccountsInv, TypeOK, PassTime, Times
<1> QED BY <1>1 DEF PassTime, AccountsInv, TypeOK, Balanced, BankedInAccounts, NoncesSpent,
                    NoColdCalls

LEMMA NextInv == AccountsInv /\ [Next]_vars => AccountsInv'
<1> SUFFICES ASSUME AccountsInv, [Next]_vars PROVE AccountsInv'
    OBVIOUS
<1>1. ASSUME NEW s \in Owners, NEW cmd \in Cmds, NEW paid \in Attached, Direct(s, cmd, paid)
      PROVE  AccountsInv'
    BY <1>1, DirectKeeps
<1>2. ASSUME NEW s \in Owners, NEW client \in Owners, NEW cmd \in Cmds, NEW paid \in Attached,
             Routed(s, client, cmd, paid)
      PROVE  AccountsInv'
    BY <1>2, RoutedKeeps
<1>3. ASSUME NEW s \in Owners, NEW m \in Messages, NEW paid \in Attached, Relayed(s, m, paid)
      PROVE  AccountsInv'
    BY <1>3, RelayedKeeps
<1>4. ASSUME NEW a \in Assets, CollectFees(a) PROVE AccountsInv'
    BY <1>4, CollectFeesKeeps
<1>5. CASE PassTime
    BY <1>5, PassTimeKeeps
<1>6. CASE UNCHANGED vars
    BY <1>6 DEF vars, AccountsInv, TypeOK, Balanced, BankedInAccounts, NoncesSpent, NoColdCalls
<1> QED BY <1>1, <1>2, <1>3, <1>4, <1>5, <1>6 DEF Next

\* The invariant of the accounts: every action keeps it.
THEOREM AccountsInvariant == Spec => []AccountsInv
<1>1. Init => AccountsInv
    BY InitInv
<1>2. AccountsInv /\ [Next]_vars => AccountsInv'
    BY NextInv
<1> QED BY <1>1, <1>2, PTL DEF Spec

\* Every state is well typed: no balance is ever below zero (debitSurplus,
\* moveSurplus, tipRelayer).
THEOREM AccountsTypeCorrect == Spec => []TypeOK
<1>1. AccountsInv => TypeOK
    BY DEF AccountsInv
<1> QED BY <1>1, AccountsInvariant, PTL

\* The dex holds exactly what it owes of every conforming asset, whatever the
\* commands (SettleLayer, DepositDesk).
THEOREM Conserved == Spec => []Balanced
<1>1. AccountsInv => Balanced
    BY DEF AccountsInv
<1> QED BY <1>1, AccountsInvariant, PTL

\* What is banked is what the accounts may take out, to the last unit: no
\* deposit, transfer, settlement or tip makes or destroys collateral.
THEOREM CollateralAddsUp == Spec => []BankedInAccounts
<1>1. AccountsInv => BankedInAccounts
    BY DEF AccountsInv
<1> QED BY <1>1, AccountsInvariant, PTL

\* Messages of a track run in the order of their nonces, none twice (stepNonce).
THEOREM MessagesInOrder == Spec => []StreamsInOrder
<1> DEFINE Inv == AccountsInv /\ StreamsInOrder
<1>1. Init => Inv
  <2>1. Init => StreamsInOrder
    BY DEF Init, StreamsInOrder
  <2> QED BY <2>1, InitInv
<1>2. Inv /\ [Next]_vars => Inv'
  <2> SUFFICES ASSUME Inv, [Next]_vars PROVE StreamsInOrder'
    BY NextInv
  <2>1. CASE ran' = ran
    BY <2>1 DEF StreamsInOrder
  <2>2. ASSUME NEW s \in Owners, NEW m \in Messages, NEW paid \in Attached, Relayed(s, m, paid)
        PROVE  StreamsInOrder'
    <3>1. ran \in Seq(Messages) /\ ran' = Append(ran, m)
        BY <2>2 DEF Relayed, AccountsInv, TypeOK
    <3>2. m.nonce = nonces[<<m.client, m.salt>>]
        BY <2>2 DEF Relayed, NonceMatches
    <3>3. SUFFICES ASSUME NEW i \in DOMAIN ran', NEW j \in DOMAIN ran', i < j,
                          ran'[i].client = ran'[j].client, ran'[i].salt = ran'[j].salt
                   PROVE  ran'[i].nonce < ran'[j].nonce
        BY DEF StreamsInOrder
    <3>4. i \in DOMAIN ran /\ ran'[i] = ran[i]
        BY <3>1, <3>3
    <3>5. CASE j \in DOMAIN ran
      <4>1. ran'[j] = ran[j]
        BY <3>1, <3>5
      <4> QED BY <3>3, <3>4, <3>5, <4>1 DEF StreamsInOrder
    <3>6. CASE j \notin DOMAIN ran
      <4>1. ran'[j] = m
        BY <3>1, <3>3, <3>6
      <4>2. ran[i].nonce < nonces[<<ran[i].client, ran[i].salt>>]
        BY <3>4 DEF AccountsInv, NoncesSpent
      <4> QED BY <3>2, <3>3, <3>4, <4>1, <4>2
    <3> QED BY <3>5, <3>6
  <2> QED BY <2>1, <2>2 DEF Next, Direct, Routed, CollectFees, PassTime, vars
<1>3. Inv => StreamsInOrder
    OBVIOUS
<1> QED BY <1>1, <1>2, <1>3, PTL DEF Spec

\* A router only trades for its client (userCmdRouter, approveRouter).
THEOREM RoutersConfined == Spec => RouterConfined
<1> DEFINE Confined ==
        \A s, client \in Owners :
            (s # client /\ \E cmd \in Cmds, paid \in Attached : Routed(s, client, cmd, paid)) =>
                /\ \A acct \in Accounts \ {Primary(client)} :
                    ledger'.surplus[acct] = ledger.surplus[acct]
                /\ \A u \in Owners \ {client} : \A a \in Assets :
                    ledger'.wallet[u][a] <= ledger.wallet[u][a]
                /\ nonces' = nonces
                /\ \A key \in AgentKeys : agentCalls'[key] <= agentCalls[key]
<1>1. AccountsInv => Confined
  <2> SUFFICES ASSUME AccountsInv, NEW s \in Owners, NEW client \in Owners, NEW cmd \in Cmds,
                      NEW paid \in Attached, Routed(s, client, cmd, paid)
               PROVE  /\ \A acct \in Accounts \ {Primary(client)} :
                            ledger'.surplus[acct] = ledger.surplus[acct]
                      /\ \A u \in Owners \ {client} : \A a \in Assets :
                            ledger'.wallet[u][a] <= ledger.wallet[u][a]
                      /\ nonces' = nonces
                      /\ \A key \in AgentKeys : agentCalls'[key] <= agentCalls[key]
    OBVIOUS
  <2>1. TypeOK /\ BankedInAccounts /\ cmd \in Commands
    BY AgentAssumption DEF AccountsInv
  <2>2. PICK key \in AgentKeys : key = <<client, s, PathOf(cmd)>>
    BY PathIsPath DEF AgentKeys
  <2>3. PathOf(cmd) # "COLD"
    <3>1. agentCalls[key] > 0
        BY <2>2 DEF Routed
    <3> QED BY <2>2, <3>1 DEF AccountsInv, NoColdCalls
  <2>4. cmd.code \in {"TRADE", "LONG"}
    BY <2>3 DEF PathOf
  <2>5. /\ \A acct \in Accounts \ {Primary(client)} :
                ledger'.surplus[acct] = ledger.surplus[acct]
        /\ \A u \in Owners \ {client} : \A a \in Assets :
                ledger'.wallet[u][a] <= ledger.wallet[u][a]
    BY <2>1, <2>4, RoutedServed DEF Served
  <2>6. nonces' = nonces /\ agentCalls' = StepAgent(client, s, PathOf(cmd))
    BY <2>4 DEF Routed, NoncesAfter, CallsAfter
  <2>7. \A k \in AgentKeys : agentCalls'[k] <= agentCalls[k]
    BY <2>1, <2>6, PathIsPath, StepAgentSteps DEF Routed
  <2> QED BY <2>5, <2>6, <2>7
<1>2. AccountsInv /\ [Next]_vars => [Confined]_vars
    BY <1>1
<1> QED BY <1>2, AccountsInvariant, PTL DEF Spec, RouterConfined

\* No account or wallet falls but in a command for its owner, or by ether its
\* owner sends (lockHolder_, tipRelayer).
THEOREM OwnersPay == Spec => OnlyOwnerPays
<1> DEFINE AccountsPay ==
        \A acct \in Accounts, a \in Assets :
            ledger'.surplus[acct][a] < ledger.surplus[acct][a] =>
                RunsFor(acct[1], IF acct[2] = 0 THEN Codes ELSE {"SIDE_POCKET"})
    WalletsPay ==
        \A u \in Owners, a \in Assets :
            ledger'.wallet[u][a] < ledger.wallet[u][a] =>
                RunsFor(u, Codes) \/ (a = Ether /\ Sends(u))
<1>1. ASSUME AccountsInv, NEW s \in Owners, NEW u \in Owners, NEW cmd \in Commands, NEW tip,
             Served(s, u, cmd, tip), s = u \/ Sends(s),
             \A codes : cmd.code \in codes => RunsFor(u, codes)
      PROVE  AccountsPay /\ WalletsPay
  <2>1. cmd.code \in Codes
    BY DEF Commands, Codes
  <2>2. PICK accts : accts = IF cmd.code = "SIDE_POCKET" THEN {u} \X Pockets ELSE {Primary(u)}
    OBVIOUS
  <2>3. Charges(ledger, ledger', accts, {u, s})
    BY <1>1, <2>2 DEF Served
  <2>4. ledger \in Ledgers /\ ledger' \in Ledgers
    BY <1>1 DEF AccountsInv, TypeOK, Served
  <2>5. \A acct \in Accounts, a \in Assets :
            ledger'.surplus[acct][a] \in Int /\ ledger.surplus[acct][a] \in Int
    BY <2>4 DEF Ledgers
  <2>6. \A v \in Owners, a \in Assets :
            ledger'.wallet[v][a] \in Int /\ ledger.wallet[v][a] \in Int
    BY <2>4 DEF Ledgers
  <2>7. ASSUME NEW acct \in Accounts, NEW a \in Assets,
               ledger'.surplus[acct][a] < ledger.surplus[acct][a]
        PROVE  RunsFor(acct[1], IF acct[2] = 0 THEN Codes ELSE {"SIDE_POCKET"})
    <3>1. acct \in accts
        BY <2>3, <2>5, <2>7 DEF Charges
    <3>2. CASE cmd.code = "SIDE_POCKET"
      <4>1. acct[1] = u
        BY <2>2, <3>1, <3>2
      <4> QED BY <1>1, <2>1, <3>2, <4>1
    <3>3. CASE cmd.code # "SIDE_POCKET"
      <4>1. acct[1] = u /\ acct[2] = 0
        BY <2>2, <3>1, <3>3 DEF Primary
      <4> QED BY <1>1, <2>1, <4>1
    <3> QED BY <3>2, <3>3
  <2>8. ASSUME NEW v \in Owners, NEW a \in Assets, ledger'.wallet[v][a] < ledger.wallet[v][a]
        PROVE  RunsFor(v, Codes) \/ (a = Ether /\ Sends(v))
    <3>1. v = u \/ v = s
        BY <2>3, <2>6, <2>8 DEF Charges
    <3>2. v # u => a = Ether
        BY <1>1, <2>6, <2>8 DEF Served
    <3> QED BY <1>1, <2>1, <3>1, <3>2
  <2> QED BY <2>7, <2>8
<1>2. AccountsInv /\ Next => AccountsPay /\ WalletsPay
  <2> SUFFICES ASSUME AccountsInv, Next PROVE AccountsPay /\ WalletsPay
    OBVIOUS
  <2>0. TypeOK /\ BankedInAccounts /\ Cmds \subseteq Commands
    BY AgentAssumption DEF AccountsInv
  <2>1. ASSUME NEW s \in Owners, NEW cmd \in Cmds, NEW paid \in Attached, Direct(s, cmd, paid)
        PROVE  AccountsPay /\ WalletsPay
    <3>1. Served(s, s, cmd, NoTip)
        BY <2>0, <2>1, DirectServed
    <3>2. \A codes : cmd.code \in codes => RunsFor(s, codes)
        BY <2>1 DEF RunsFor
    <3> QED BY <1>1, <2>0, <3>1, <3>2
  <2>2. ASSUME NEW s \in Owners, NEW client \in Owners, NEW cmd \in Cmds, NEW paid \in Attached,
               Routed(s, client, cmd, paid)
        PROVE  AccountsPay /\ WalletsPay
    <3>1. Served(s, client, cmd, NoTip)
        BY <2>0, <2>2, RoutedServed
    <3>2. Sends(s) /\ \A codes : cmd.code \in codes => RunsFor(client, codes)
        BY <2>2 DEF RunsFor, Sends
    <3> QED BY <1>1, <2>0, <3>1, <3>2
  <2>3. ASSUME NEW s \in Owners, NEW m \in Messages, NEW paid \in Attached, Relayed(s, m, paid)
        PROVE  AccountsPay /\ WalletsPay
    <3>1. Served(s, m.client, m.cmd, m.tip)
        BY <2>0, <2>3, RelayedServed
    <3>2. m.client \in Owners /\ m.cmd \in Commands
        BY AgentAssumption DEF SignedMessages
    <3>3. Sends(s)
        BY <2>3 DEF Sends
    <3>4. \A codes : m.cmd.code \in codes => RunsFor(m.client, codes)
        BY <2>3 DEF RunsFor
    <3> QED BY <1>1, <3>1, <3>2, <3>3, <3>4
  <2>4. ASSUME NEW a \in Assets, CollectFees(a) PROVE AccountsPay /\ WalletsPay
    <3>1. Charges(ledger, ledger', {}, {}) /\ AccountsInv'
        BY <2>4, CollectFeesKeeps
    <3>2. ledger \in Ledgers /\ ledger' \in Ledgers
        BY <3>1 DEF AccountsInv, TypeOK
    <3>3. \A acct \in Accounts, b \in Assets :
            ledger'.surplus[acct][b] \in Int /\ ledger.surplus[acct][b] \in Int
        BY <3>2 DEF Ledgers
    <3>4. \A v \in Owners, b \in Assets :
            ledger'.wallet[v][b] \in Int /\ ledger.wallet[v][b] \in Int
        BY <3>2 DEF Ledgers
    <3>5. AccountsPay
        BY <3>1, <3>3 DEF Charges
    <3>6. WalletsPay
        BY <3>1, <3>4 DEF Charges
    <3> QED BY <3>5, <3>6
  <2>5. CASE PassTime
    <3>1. ledger' = ledger /\ ledger \in Ledgers
        BY <2>0, <2>5 DEF PassTime, TypeOK
    <3>2. \A acct \in Accounts, b \in Assets : ledger.surplus[acct][b] \in Int
        BY <3>1 DEF Ledgers
    <3>3. \A v \in Owners, b \in Assets : ledger.wallet[v][b] \in Int
        BY <3>1 DEF Ledgers
    <3>4. AccountsPay
        BY <3>1, <3>2
    <3>5. WalletsPay
        BY <3>1, <3>3
    <3> QED BY <3>4, <3>5
  <2> QED BY <2>1, <2>2, <2>3, <2>4, <2>5 DEF Next
<1>3. AccountsInv /\ [Next]_vars => [AccountsPay /\ WalletsPay]_vars
    BY <1>2
<1> QED BY <1>3, AccountsInvariant, PTL DEF Spec, OnlyOwnerPays
=============================================================================
