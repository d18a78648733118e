------------------------------ MODULE SumLemmas ------------------------------
(***************************************************************************)
(* Finite sums, as SumFunctionOnSet of the module Functions takes them:    *)
(* what is true of the total of a book, whatever order it is added up in.  *)
(*                                                                         *)
(* The proofs go by a smallest counterexample: SmallestSet gives a set of  *)
(* a family that contains no other of it, which is what an induction over  *)
(* finite sets comes to without an operator as a parameter.                *)
(***************************************************************************)
EXTENDS Integers, Functions, FiniteSetTheorems, TLAPS

\* Every family of subsets of a finite set has a smallest member.
LEMMA SmallestSet ==
    ASSUME NEW S, IsFiniteSet(S), NEW B \in SUBSET (SUBSET S), B # {}
    PROVE  \E s \in B : \A t \in SUBSET s : t # s => t \notin B
<1>1. B \subseteq FiniteSubsetsOf(S)
  BY FS_Subset DEF FiniteSubsetsOf
<1>2. PICK s \in B : \A t \in B : ~ (<<t, s>> \in StrictSubsetOrdering(S))
  BY <1>1, FS_StrictSubsetOrderingWellFounded, WFMin
<1>3. \A t \in B : t \subseteq s => t = s
  BY <1>2 DEF StrictSubsetOrdering
<1> QED BY <1>3

\* The order in which a set is added up.
Pick(s) == CHOOSE x \in s : TRUE

\* The running totals of f over the subsets of S.
IsTotals(it, f, S) ==
    it = [s \in SUBSET S |-> IF s = {} THEN 0 ELSE f[Pick(s)] + it[s \ {Pick(s)}]]

\* Nothing but the running totals themselves is chosen by the sum.
LEMMA SumUnfolds ==
    ASSUME NEW f, NEW S
    PROVE  SumFunctionOnSet(f, S) = (CHOOSE it : IsTotals(it, f, S))[S]
BY DEF SumFunctionOnSet, FoldFunctionOnSet, MapThenFoldSet, IsTotals, Pick

LEMMA TotalsAt ==
    ASSUME NEW f, NEW S, NEW it, IsTotals(it, f, S), NEW s \in SUBSET S
    PROVE  /\ s = {} => it[s] = 0
           /\ s # {} => /\ Pick(s) \in s
                        /\ s \ {Pick(s)} \in SUBSET s
                        /\ s \ {Pick(s)} # s
                        /\ it[s] = f[Pick(s)] + it[s \ {Pick(s)}]
BY DEF IsTotals, Pick

LEMMA TotalsUnique ==
    ASSUME NEW f, NEW S, IsFiniteSet(S), NEW it, NEW jt,
           IsTotals(it, f, S), IsTotals(jt, f, S)
    PROVE  it = jt
<1> DEFINE B == {s \in SUBSET S : it[s] # jt[s]}
<1>1. B = {}
  <2> SUFFICES ASSUME B # {} PROVE FALSE
    OBVIOUS
  <2>1. PICK s \in B : \A t \in SUBSET s : t # s => t \notin B
    <3>1. B \in SUBSET (SUBSET S)
      OBVIOUS
    <3> HIDE DEF B
    <3> QED BY <3>1, SmallestSet
  <2>2. s \in SUBSET S /\ it[s] # jt[s]
    OBVIOUS
  <2>3. s # {}
    BY <2>2, TotalsAt
  <2>4. s \ {Pick(s)} \in SUBSET S /\ s \ {Pick(s)} \notin B
    BY <2>1, <2>2, <2>3, TotalsAt
  <2>5. it[s \ {Pick(s)}] = jt[s \ {Pick(s)}]
    BY <2>4
  <2> HIDE DEF B
  <2> QED BY <2>2, <2>3, <2>5, TotalsAt
<1> QED BY <1>1 DEF IsTotals

LEMMA TotalsRestrict ==
    ASSUME NEW f, NEW S, NEW it, IsTotals(it, f, S), NEW T \in SUBSET S
    PROVE  IsTotals([s \in SUBSET T |-> it[s]], f, T)
<1> DEFINE jt == [s \in SUBSET T |-> it[s]]
<1>1. ASSUME NEW s \in SUBSET T
      PROVE  jt[s] = IF s = {} THEN 0 ELSE f[Pick(s)] + jt[s \ {Pick(s)}]
  BY <1>1, TotalsAt
<1> QED BY <1>1 DEF IsTotals

\* A total of a smaller set is found among the totals of a larger one.
LEMMA TotalsAgree ==
    ASSUME NEW f, NEW S, IsFiniteSet(S), NEW it, IsTotals(it, f, S), NEW T \in SUBSET S
    PROVE  SumFunctionOnSet(f, T) = it[T]
<1> DEFINE jt == [s \in SUBSET T |-> it[s]]
           kt == CHOOSE k : IsTotals(k, f, T)
<1>1. IsTotals(jt, f, T)
  BY TotalsRestrict
<1>2. IsTotals(kt, f, T)
  BY <1>1
<1>3. kt = jt
  BY <1>1, <1>2, TotalsUnique, FS_Subset
<1> QED BY <1>3, SumUnfolds

LEMMA TotalsExist ==
    ASSUME NEW f, NEW S, IsFiniteSet(S)
    PROVE  \E it : IsTotals(it, f, S)
<1> DEFINE B == {s \in SUBSET S : ~ \E it : IsTotals(it, f, s)}
<1>1. B = {}
  <2> SUFFICES ASSUME B # {} PROVE FALSE
    OBVIOUS
  <2>1. PICK s \in B : \A t \in SUBSET s : t # s => t \notin B
    <3>1. B \in SUBSET (SUBSET S)
      OBVIOUS
    <3> HIDE DEF B
    <3> QED BY <3>1, SmallestSet
  <2> DEFINE Rest(t) == SumFunctionOnSet(f, t \ {Pick(t)})
             it == [t \in SUBSET s |-> IF t = {} THEN 0 ELSE f[Pick(t)] + Rest(t)]
  <2>2. ASSUME NEW u \in SUBSET s, u # s
        PROVE  SumFunctionOnSet(f, u) = it[u]
    <3>1. u \in SUBSET S /\ IsFiniteSet(u)
      BY FS_Subset
    <3>2. PICK k : IsTotals(k, f, u)
      BY <2>1, <2>2, <3>1
    <3>3. SumFunctionOnSet(f, u) = k[u]
      BY <3>1, <3>2, TotalsAgree
    <3>4. u # {} => Rest(u) = k[u \ {Pick(u)}]
      BY <3>1, <3>2, TotalsAgree
    <3> QED BY <3>2, <3>3, <3>4, TotalsAt
  <2>3. ASSUME NEW t \in SUBSET s
        PROVE  it[t] = IF t = {} THEN 0 ELSE f[Pick(t)] + it[t \ {Pick(t)}]
    <3>1. t # {} => /\ t \ {Pick(t)} \in SUBSET s
                    /\ t \ {Pick(t)} # s
      BY DEF Pick
    <3>2. t # {} => Rest(t) = it[t \ {Pick(t)}]
      BY <3>1, <2>2
    <3> QED BY <3>2
  <2>4. IsTotals(it, f, s)
    BY <2>3 DEF IsTotals
  <2> QED BY <2>4
<1> QED BY <1>1

-----------------------------------------------------------------------------
\* The total of a finite set, one member taken off.
LEMMA SumOfEmpty ==
    ASSUME NEW f
    PROVE  SumFunctionOnSet(f, {}) = 0
BY TotalsExist, TotalsAgree, TotalsAt, FS_EmptySet

LEMMA SumPicks ==
    ASSUME NEW f, NEW S, IsFiniteSet(S), S # {}
    PROVE  /\ Pick(S) \in S
           /\ SumFunctionOnSet(f, S) = f[Pick(S)] + SumFunctionOnSet(f, S \ {Pick(S)})
<1>1. PICK it : IsTotals(it, f, S)
  BY TotalsExist
<1>2. S \in SUBSET S /\ S \ {Pick(S)} \in SUBSET S
  OBVIOUS
<1>3. /\ SumFunctionOnSet(f, S) = it[S]
      /\ SumFunctionOnSet(f, S \ {Pick(S)}) = it[S \ {Pick(S)}]
  BY <1>1, <1>2, TotalsAgree
<1> QED BY <1>1, <1>2, <1>3, TotalsAt

LEMMA SumIsInt ==
    ASSUME NEW S, IsFiniteSet(S), NEW f, \A x \in S : f[x] \in Int
    PROVE  SumFunctionOnSet(f, S) \in Int
<1> DEFINE B == {s \in SUBSET S : SumFunctionOnSet(f, s) \notin Int}
<1>1. B = {}
  <2> SUFFICES ASSUME B # {} PROVE FALSE
    OBVIOUS
  <2>1. PICK s \in B : \A t \in SUBSET s : t # s => t \notin B
    <3>1. B \in SUBSET (SUBSET S)
      OBVIOUS
    <3> HIDE DEF B
    <3> QED BY <3>1, SmallestSet
  <2>2. s \in SUBSET S /\ SumFunctionOnSet(f, s) \notin Int /\ IsFiniteSet(s)
    BY FS_Subset
  <2>3. s # {}
    BY <2>2, SumOfEmpty
  <2>4. Pick(s) \in s /\ s \ {Pick(s)} \in SUBSET S /\ s \ {Pick(s)} \notin B
    BY <2>1, <2>2, <2>3, SumPicks
  <2>5. SumFunctionOnSet(f, s \ {Pick(s)}) \in Int
    BY <2>4
  <2> QED BY <2>2, <2>3, <2>4, <2>5, SumPicks
<1> QED BY <1>1

\* The order does not matter.
LEMMA SumTakesOff ==
    ASSUME NEW S, IsFiniteSet(S), NEW f, \A x \in S : f[x] \in Int, NEW x \in S
    PROVE  SumFunctionOnSet(f, S) = f[x] + SumFunctionOnSet(f, S \ {x})
<1> DEFINE Sum(s) == SumFunctionOnSet(f, s)
           B == {s \in SUBSET S : \E y \in s : Sum(s) # f[y] + Sum(s \ {y})}
<1>1. B = {}
  <2> SUFFICES ASSUME B # {} PROVE FALSE
    OBVIOUS
  <2>1. PICK s \in B : \A t \in SUBSET s : t # s => t \notin B
    <3>1. B \in SUBSET (SUBSET S)
      OBVIOUS
    <3> HIDE DEF B
    <3> QED BY <3>1, SmallestSet
  <2>2. PICK y \in s : Sum(s) # f[y] + Sum(s \ {y})
    OBVIOUS
  <2>3. s \in SUBSET S /\ IsFiniteSet(s) /\ s # {}
    BY FS_Subset
  <2> DEFINE p == Pick(s)
  <2>4. p \in s /\ Sum(s) = f[p] + Sum(s \ {p})
    BY <2>3, SumPicks
  <2>5. p # y
    BY <2>2, <2>4
  <2> HIDE DEF p
  <2>6. /\ s \ {p} \in SUBSET S /\ s \ {p} \notin B /\ y \in s \ {p}
        /\ s \ {y} \in SUBSET S /\ s \ {y} \notin B /\ p \in s \ {y}
    BY <2>1, <2>3, <2>4, <2>5
  <2>7. /\ Sum(s \ {p}) = f[y] + Sum((s \ {p}) \ {y})
        /\ Sum(s \ {y}) = f[p] + Sum((s \ {y}) \ {p})
    BY <2>6
  <2>8. (s \ {p}) \ {y} = (s \ {y}) \ {p} /\ (s \ {p}) \ {y} \in SUBSET S
    BY <2>3
  <2>9. f[p] \in Int /\ f[y] \in Int /\ Sum((s \ {p}) \ {y}) \in Int
    BY <2>3, <2>4, <2>8, SumIsInt, FS_Subset
  <2> QED BY <2>2, <2>4, <2>7, <2>8, <2>9
<1> QED BY <1>1

-----------------------------------------------------------------------------
\* Books that agree have the same total.
LEMMA SumAgree ==
    ASSUME NEW S, IsFiniteSet(S), NEW f, NEW g, \A x \in S : f[x] = g[x]
    PROVE  SumFunctionOnSet(f, S) = SumFunctionOnSet(g, S)
<1> DEFINE B == {s \in SUBSET S : SumFunctionOnSet(f, s) # SumFunctionOnSet(g, s)}
<1>1. B = {}
  <2> SUFFICES ASSUME B # {} PROVE FALSE
    OBVIOUS
  <2>1. PICK s \in B : \A t \in SUBSET s : t # s => t \notin B
    <3>1. B \in SUBSET (SUBSET S)
      OBVIOUS
    <3> HIDE DEF B
    <3> QED BY <3>1, SmallestSet
  <2>2. /\ s \in SUBSET S /\ IsFiniteSet(s)
        /\ SumFunctionOnSet(f, s) # SumFunctionOnSet(g, s)
    BY FS_Subset
  <2>3. s # {}
    BY <2>2, SumOfEmpty
  <2>4. Pick(s) \in s /\ s \ {Pick(s)} \in SUBSET S /\ s \ {Pick(s)} \notin B
    BY <2>1, <2>2, <2>3, SumPicks
  <2>5. SumFunctionOnSet(f, s \ {Pick(s)}) = SumFunctionOnSet(g, s \ {Pick(s)})
    BY <2>4
  <2> QED BY <2>2, <2>3, <2>4, <2>5, SumPicks
<1> QED BY <1>1

\* An entry that changes moves the total by as much.
LEMMA SumChanges ==
    ASSUME NEW S, IsFiniteSet(S), NEW x \in S,
           NEW f, \A y \in S : f[y] \in Int,
           NEW g, \A y \in S : g[y] \in Int,
           \A y \in S \ {x} : f[y] = g[y]
    PROVE  SumFunctionOnSet(g, S) = SumFunctionOnSet(f, S) + g[x] - f[x]
<1>1. SumFunctionOnSet(f, S) = f[x] + SumFunctionOnSet(f, S \ {x})
  BY SumTakesOff
<1>2. SumFunctionOnSet(g, S) = g[x] + SumFunctionOnSet(g, S \ {x})
  BY SumTakesOff
<1>3. SumFunctionOnSet(f, S \ {x}) = SumFunctionOnSet(g, S \ {x})
  BY SumAgree, FS_RemoveElement
<1>4. SumFunctionOnSet(f, S \ {x}) \in Int
  BY SumIsInt, FS_RemoveElement
<1> QED BY <1>1, <1>2, <1>3, <1>4

\* The same, for a part of the book that may have the entry or not.
LEMMA SumShifts ==
    ASSUME NEW S, IsFiniteSet(S), NEW T \in SUBSET S, NEW x \in S,
           NEW f, \A y \in S : f[y] \in Int,
           NEW g, \A y \in S : g[y] \in Int,
           \A y \in S \ {x} : f[y] = g[y]
    PROVE  SumFunctionOnSet(g, T)
             = SumFunctionOnSet(f, T) + (IF x \in T THEN g[x] - f[x] ELSE 0)
<1>1. IsFiniteSet(T)
  BY FS_Subset
<1>2. CASE x \in T
  BY <1>1, <1>2, SumChanges, SumIsInt
<1>3. CASE x \notin T
  <2>1. SumFunctionOnSet(g, T) = SumFunctionOnSet(f, T)
    BY <1>1, <1>3, SumAgree
  <2>2. SumFunctionOnSet(f, T) \in Int
    BY <1>1, SumIsInt
  <2> QED BY <1>3, <2>1, <2>2
<1> QED BY <1>2, <1>3

\* The total of a set is that of its two parts.
LEMMA SumSplits ==
    ASSUME NEW S, IsFiniteSet(S), NEW T, NEW f, \A x \in S : f[x] \in Int
    PROVE  SumFunctionOnSet(f, S)
             = SumFunctionOnSet(f, S \cap T) + SumFunctionOnSet(f, S \ T)
<1> DEFINE Sum(s) == SumFunctionOnSet(f, s)
           B == {s \in SUBSET S : Sum(s) # Sum(s \cap T) + Sum(s \ T)}
<1>1. B = {}
  <2> SUFFICES ASSUME B # {} PROVE FALSE
    OBVIOUS
  <2>1. PICK s \in B : \A t \in SUBSET s : t # s => t \notin B
    <3>1. B \in SUBSET (SUBSET S)
      OBVIOUS
    <3> HIDE DEF B
    <3> QED BY <3>1, SmallestSet
  <2>2. s \in SUBSET S /\ IsFiniteSet(s) /\ Sum(s) # Sum(s \cap T) + Sum(s \ T)
    BY FS_Subset
  <2>3. s # {}
    <3> SUFFICES ASSUME s = {} PROVE FALSE
      OBVIOUS
    <3>1. s \cap T = {} /\ s \ T = {}
      OBVIOUS
    <3>2. Sum(s) = 0 /\ Sum(s \cap T) = 0 /\ Sum(s \ T) = 0
      BY <3>1, SumOfEmpty
    <3> QED BY <2>2, <3>2
  <2>4. PICK p \in s : TRUE
    BY <2>3
  <2>5. s \ {p} \in SUBSET S /\ s \ {p} \notin B
    BY <2>1, <2>2, <2>4
  <2>6. Sum(s \ {p}) = Sum((s \ {p}) \cap T) + Sum((s \ {p}) \ T)
    BY <2>5
  <2>7. Sum(s) = f[p] + Sum(s \ {p})
    BY <2>2, SumTakesOff
  <2>8. IsFiniteSet(s \cap T) /\ IsFiniteSet(s \ T) /\ f[p] \in Int
    BY <2>2, FS_Subset
  <2>9. Sum((s \ {p}) \cap T) \in Int /\ Sum((s \ {p}) \ T) \in Int
    BY <2>2, SumIsInt, FS_Subset
  <2> DEFINE a == Sum((s \ {p}) \cap T)
             b == Sum((s \ {p}) \ T)
  <2>10. a \in Int /\ b \in Int /\ f[p] \in Int /\ Sum(s) = f[p] + (a + b)
    BY <2>6, <2>7, <2>8, <2>9
  <2>11. CASE p \in T
    <3>1. (s \ {p}) \cap T = (s \cap T) \ {p} /\ (s \ {p}) \ T = s \ T
      BY <2>11
    <3>2. Sum(s \cap T) = f[p] + Sum((s \cap T) \ {p})
      BY <2>2, <2>8, <2>11, SumTakesOff
    <3>3. Sum(s \cap T) = f[p] + a /\ Sum(s \ T) = b
      BY <3>1, <3>2
    <3> HIDE DEF Sum, B, a, b
    <3> QED BY <2>2, <2>10, <3>3
  <2>12. CASE p \notin T
    <3>1. (s \ {p}) \cap T = s \cap T /\ (s \ {p}) \ T = (s \ T) \ {p}
      BY <2>12
    <3>2. Sum(s \ T) = f[p] + Sum((s \ T) \ {p})
      BY <2>2, <2>8, <2>12, SumTakesOff
    <3>3. Sum(s \cap T) = a /\ Sum(s \ T) = f[p] + b
      BY <3>1, <3>2
    <3> HIDE DEF Sum, B, a, b
    <3> QED BY <2>2, <2>10, <3>3
  <2> QED BY <2>11, <2>12
<1> QED BY <1>1

-----------------------------------------------------------------------------
\* Totals of natural numbers.
LEMMA SumIsNat ==
    ASSUME NEW S, IsFiniteSet(S), NEW f, \A x \in S : f[x] \in Nat
    PROVE  SumFunctionOnSet(f, S) \in Nat
<1> DEFINE B == {s \in SUBSET S : SumFunctionOnSet(f, s) \notin Nat}
<1>1. B = {}
  <2> SUFFICES ASSUME B # {} PROVE FALSE
    OBVIOUS
  <2>1. PICK s \in B : \A t \in SUBSET s : t # s => t \notin B
    <3>1. B \in SUBSET (SUBSET S)
      OBVIOUS
    <3> HIDE DEF B
    <3> QED BY <3>1, SmallestSet
  <2>2. s \in SUBSET S /\ SumFunctionOnSet(f, s) \notin Nat /\ IsFiniteSet(s)
    BY FS_Subset
  <2>3. s # {}
    BY <2>2, SumOfEmpty
  <2>4. Pick(s) \in s /\ s \ {Pick(s)} \in SUBSET S /\ s \ {Pick(s)} \notin B
    BY <2>1, <2>2, <2>3, SumPicks
  <2>5. SumFunctionOnSet(f, s \ {Pick(s)}) \in Nat
    BY <2>4
  <2> QED BY <2>2, <2>3, <2>4, <2>5, SumPicks
<1> QED BY <1>1

\* A part is no more than the whole.
LEMMA SumCovers ==
    ASSUME NEW S, IsFiniteSet(S), NEW T \in SUBSET S, NEW f, \A x \in S : f[x] \in Nat
    PROVE  SumFunctionOnSet(f, T) <= SumFunctionOnSet(f, S)
<1>1. S \cap T = T
  OBVIOUS
<1>2. SumFunctionOnSet(f, S) = SumFunctionOnSet(f, T) + SumFunctionOnSet(f, S \ T)
  <2>1. \A x \in S : f[x] \in Int
    OBVIOUS
  <2>2. SumFunctionOnSet(f, S)
          = SumFunctionOnSet(f, S \cap T) + SumFunctionOnSet(f, S \ T)
    BY ONLY <2>1, SumSplits, IsFiniteSet(S)
  <2> QED BY <1>1, <2>2
<1>3. SumFunctionOnSet(f, T) \in Nat /\ SumFunctionOnSet(f, S \ T) \in Nat
  BY SumIsNat, FS_Subset
<1> QED BY <1>2, <1>3

LEMMA SumHolds ==
    ASSUME NEW S, IsFiniteSet(S), NEW x \in S, NEW f, \A y \in S : f[y] \in Nat
    PROVE  f[x] <= SumFunctionOnSet(f, S)
<1>1. SumFunctionOnSet(f, S) = f[x] + SumFunctionOnSet(f, S \ {x})
  BY SumTakesOff
<1>2. SumFunctionOnSet(f, S \ {x}) \in Nat
  BY SumIsNat, FS_RemoveElement
<1> QED BY <1>1, <1>2

\* Entries that are zero add up to nothing.
LEMMA SumOfZeros ==
    ASSUME NEW S, IsFiniteSet(S), NEW f, \A x \in S : f[x] = 0
    PROVE  SumFunctionOnSet(f, S) = 0
<1> DEFINE B == {s \in SUBSET S : SumFunctionOnSet(f, s) # 0}
<1>1. B = {}
  <2> SUFFICES ASSUME B # {} PROVE FALSE
    OBVIOUS
  <2>1. PICK s \in B : \A t \in SUBSET s : t # s => t \notin B
    <3>1. B \in SUBSET (SUBSET S)
      OBVIOUS
    <3> HIDE DEF B
    <3> QED BY <3>1, SmallestSet
  <2>2. s \in SUBSET S /\ SumFunctionOnSet(f, s) # 0 /\ IsFiniteSet(s)
    BY FS_Subset
  <2>3. s # {}
    BY <2>2, SumOfEmpty
  <2>4. Pick(s) \in s /\ s \ {Pick(s)} \in SUBSET S /\ s \ {Pick(s)} \notin B
    BY <2>1, <2>2, <2>3, SumPicks
  <2>5. SumFunctionOnSet(f, s \ {Pick(s)}) = 0
    BY <2>4
  <2> QED BY <2>2, <2>3, <2>4, <2>5, SumPicks
<1> QED BY <1>1
=============================================================================
