---------------------------- MODULE LayoutProofs ----------------------------
(***************************************************************************)
(* The verdict of compareLayouts.ts is exact for any set of variables and  *)
(* any number of entries.                                                  *)
(***************************************************************************)
EXTENDS StorageLayouts, TLAPS

\* Two lists of fields say as much as two variables.
LEMMA SameEntry ==
    ASSUME NEW v \in Variables, NEW w \in Variables
    PROVE  LocOf(EntryOf(v)) = LocOf(EntryOf(w)) <=> SameVariable(v, w)
<1>1. StandardizeTypeData(v.type) = StandardizeTypeData(w.type)
        <=> SameType(v.type, w.type)
  <2>1. /\ v.type = [text |-> v.type.text, struct |-> v.type.struct, id |-> v.type.id]
        /\ w.type = [text |-> w.type.text, struct |-> w.type.struct, id |-> w.type.id]
        /\ v.type.struct \in BOOLEAN /\ w.type.struct \in BOOLEAN
    BY LayoutAssumption
  <2> QED  BY <2>1 DEF StandardizeTypeData, SameType
<1> QED  BY <1>1 DEF LocOf, EntryOf, SameVariable

\* Intervals of bytes are disjoint if and only if no end point is inside.
LEMMA EndPoints ==
    ASSUME NEW v \in Variables, NEW w \in Variables
    PROVE  InsidePoints(SpaceOf(EntryOf(v)), SpaceOf(EntryOf(w)))
               <=> Bytes(v) \cap Bytes(w) # {}
<1> DEFINE a == v.slot * 32 + v.offset
           b == w.slot * 32 + w.offset
<1>1. /\ a \in Nat /\ b \in Nat
      /\ v.size \in Nat \ {0} /\ w.size \in Nat \ {0}
  BY LayoutAssumption
<1>2. Bytes(v) = a .. a + v.size - 1 /\ Bytes(w) = b .. b + w.size - 1
  BY DEF Bytes
<1>3. InsidePoints(SpaceOf(EntryOf(v)), SpaceOf(EntryOf(w)))
        <=> (a < b + w.size /\ b < a + v.size)
  BY <1>1 DEF InsidePoints, SpaceOf, EntryOf
<1> HIDE DEF a, b
<1>4. (a < b + w.size /\ b < a + v.size) <=> Bytes(v) \cap Bytes(w) # {}
  <2>1. ASSUME a < b + w.size, b < a + v.size  PROVE Bytes(v) \cap Bytes(w) # {}
    <3>1. CASE a <= b
      BY <1>1, <1>2, <2>1, <3>1, b \in Bytes(v) \cap Bytes(w)
    <3>2. CASE b < a
      BY <1>1, <1>2, <2>1, <3>2, a \in Bytes(v) \cap Bytes(w)
    <3> QED  BY <1>1, <3>1, <3>2
  <2>2. ASSUME NEW c \in Bytes(v) \cap Bytes(w)
        PROVE  a < b + w.size /\ b < a + v.size
    BY <1>1, <1>2, <2>2
  <2> QED  BY <2>1, <2>2
<1> QED  BY <1>3, <1>4

-----------------------------------------------------------------------------
(***************************************************************************)
(* What the two tables hold: the first location of a name is that of a     *)
(* variable read, every name read has one, and the spaces are those of the *)
(* variables read.  As long as there is no conflict the first location is  *)
(* the location of every variable of that name.                            *)
(***************************************************************************)
Seen == {snapshots[i] : i \in 1 .. read}

LayoutTypes ==
    /\ snapshots \in Seq(Variables) /\ read \in 0 .. Len(snapshots)
    /\ DOMAIN variablesBySlots = Names
    /\ hasConflicts \in BOOLEAN

TablesHold ==
    /\ \A name \in Names :
          IF \E v \in Seen : v.name = name
          THEN \E v \in Seen : /\ v.name = name
                               /\ variablesBySlots[name] = LocOf(EntryOf(v))
          ELSE variablesBySlots[name] = Unseen
    /\ storageLayout = {SpaceOf(EntryOf(v)) : v \in Seen}

Clashes == \E v, w \in Seen : Clash(v, w)

LayoutInv == LayoutTypes /\ TablesHold /\ (hasConflicts <=> Clashes)

LEMMA LocIsSeen == ASSUME NEW v PROVE LocOf(EntryOf(v)) # Unseen
BY DEF LocOf, EntryOf, Unseen

LEMMA ClashSymmetric ==
    ASSUME NEW v \in Variables, NEW w \in Variables
    PROVE  Clash(v, w) <=> Clash(w, v)
BY DEF Clash, SameVariable, SameType

LEMMA NoSelfClash == ASSUME NEW v \in Variables PROVE ~Clash(v, v)
BY DEF Clash, SameVariable, SameType

LEMMA SameTransitive ==
    ASSUME NEW u \in Variables, NEW v \in Variables, NEW w \in Variables,
           SameVariable(u, v), SameVariable(u, w)
    PROVE  SameVariable(v, w)
BY DEF SameVariable, SameType

-----------------------------------------------------------------------------
LEMMA LayoutInit == Init => LayoutInv
<1> SUFFICES ASSUME Init PROVE LayoutInv
  OBVIOUS
<1>1. LayoutTypes
  <2>1. snapshots = <<>> /\ read = 0 /\ hasConflicts = FALSE
    BY DEF Init
  <2>2. DOMAIN variablesBySlots = Names
    BY DEF Init
  <2>3. snapshots \in Seq(Variables) /\ Len(snapshots) = 0
    BY <2>1
  <2>4. hasConflicts \in BOOLEAN
    BY <2>1
  <2> QED  BY <2>1, <2>2, <2>3, <2>4 DEF LayoutTypes
<1>2. Seen = {}
  BY DEF Init, Seen
<1>3. TablesHold
  BY <1>2 DEF Init, TablesHold
<1> QED  BY <1>1, <1>2, <1>3 DEF Init, LayoutInv, Clashes

\* A snapshot adds nothing to what has been read.
LEMMA SnapshotKeeps ==
    ASSUME LayoutInv, NEW v \in Variables, Snapshot(v)
    PROVE  LayoutInv'
<1>1. LayoutTypes'
  BY DEF LayoutInv, LayoutTypes, Snapshot, Names
<1>2. Seen' = Seen
  BY DEF LayoutInv, LayoutTypes, Snapshot, Seen
<1>3. TablesHold'
  BY <1>2 DEF LayoutInv, TablesHold, Snapshot
<1> QED  BY <1>1, <1>2, <1>3 DEF LayoutInv, Clashes, Snapshot

LEMMA CompareKeeps ==
    ASSUME LayoutInv, Compare
    PROVE  LayoutInv'
<1> DEFINE v == snapshots[read + 1]
<1>1. v \in Variables /\ read + 1 \in 1 .. Len(snapshots)
  BY DEF LayoutInv, LayoutTypes, Compare
<1>2. Seen \subseteq Variables /\ v.name \in Names
  BY <1>1 DEF LayoutInv, LayoutTypes, Seen, Names
<1>3. Seen' = Seen \cup {v}
  BY <1>1 DEF LayoutInv, LayoutTypes, Compare, Seen
<1> HIDE DEF v
<1>4. /\ hasConflicts' = (hasConflicts \/ Mismatch(EntryOf(v)) \/ Overlap(EntryOf(v)))
      /\ variablesBySlots' =
            IF variablesBySlots[v.name] # Unseen THEN variablesBySlots
            ELSE [variablesBySlots EXCEPT ![v.name] = LocOf(EntryOf(v))]
      /\ storageLayout' = storageLayout \cup {SpaceOf(EntryOf(v))}
      /\ read' = read + 1 /\ snapshots' = snapshots
  BY DEF Compare, v, EntryOf
<1>5. LayoutTypes'
  BY <1>1, <1>4 DEF LayoutInv, LayoutTypes, Names
<1>6. TablesHold'
  <2>1. storageLayout' = {SpaceOf(EntryOf(w)) : w \in Seen'}
    BY <1>3, <1>4 DEF LayoutInv, TablesHold
  <2>2. ASSUME NEW name \in Names
        PROVE  IF \E w \in Seen' : w.name = name
               THEN \E w \in Seen' : /\ w.name = name
                                     /\ variablesBySlots'[name] = LocOf(EntryOf(w))
               ELSE variablesBySlots'[name] = Unseen
    <3>1. CASE \E w \in Seen : w.name = name
      <4>1. PICK w \in Seen : w.name = name /\ variablesBySlots[name] = LocOf(EntryOf(w))
        BY <3>1, <2>2 DEF LayoutInv, TablesHold
      <4>2. variablesBySlots'[name] = LocOf(EntryOf(w))
        BY <4>1, <1>4, <2>2, LocIsSeen DEF LayoutInv, LayoutTypes
      <4> QED  BY <1>3, <4>1, <4>2
    <3>2. CASE ~\E w \in Seen : w.name = name
      <4>1. variablesBySlots[name] = Unseen
        BY <3>2, <2>2 DEF LayoutInv, TablesHold
      <4> QED  BY <3>2, <4>1, <1>3, <1>4, <2>2, <1>2 DEF LayoutInv, LayoutTypes
    <3> QED  BY <3>1, <3>2
  <2> QED  BY <2>1, <2>2 DEF TablesHold
<1>7. hasConflicts' <=> Clashes'
  <2>1. Clashes' <=> Clashes \/ \E w \in Seen : Clash(w, v)
    BY <1>1, <1>2, <1>3, ClashSymmetric, NoSelfClash DEF Clashes
  <2>2. CASE Clashes
    BY <2>1, <2>2, <1>4 DEF LayoutInv
  <2>3. CASE ~Clashes
    <3>1. Overlap(EntryOf(v))
            <=> \E w \in Seen : w.name # v.name /\ Bytes(v) \cap Bytes(w) # {}
      <4>1. Overlap(EntryOf(v))
              <=> \E w \in Seen : /\ v.name # w.name
                                  /\ InsidePoints(SpaceOf(EntryOf(v)), SpaceOf(EntryOf(w)))
        <5>1. storageLayout = {SpaceOf(EntryOf(w)) : w \in Seen}
          BY DEF LayoutInv, TablesHold
        <5>2. EntryOf(v).name = v.name /\ \A w : SpaceOf(EntryOf(w)).name = w.name
          BY DEF SpaceOf, EntryOf
        <5> QED  BY <5>1, <5>2 DEF Overlap
      <4> QED  BY <4>1, <1>1, <1>2, EndPoints
    <3>2. Mismatch(EntryOf(v))
            <=> \E w \in Seen : w.name = v.name /\ ~SameVariable(w, v)
      <4>1. CASE \E w \in Seen : w.name = v.name
        <5>1. PICK u \in Seen : /\ u.name = v.name
                               /\ variablesBySlots[v.name] = LocOf(EntryOf(u))
          BY <4>1, <1>2 DEF LayoutInv, TablesHold
        <5>2. Mismatch(EntryOf(v)) <=> ~SameVariable(u, v)
          <6>1. EntryOf(v).name = v.name
            BY DEF EntryOf
          <6> QED  BY <6>1, <5>1, <1>1, <1>2, LocIsSeen, SameEntry DEF Mismatch
        <5>3. ASSUME NEW w \in Seen, w.name = v.name, SameVariable(u, v)
              PROVE  SameVariable(w, v)
          <6>1. SameVariable(u, w)
            BY <2>3, <5>1, <5>3 DEF Clashes, Clash
          <6> QED  BY <6>1, <5>3, <5>1, <1>1, <1>2, SameTransitive
        <5> QED  BY <5>1, <5>2, <5>3
      <4>2. CASE ~\E w \in Seen : w.name = v.name
        <5>1. variablesBySlots[v.name] = Unseen /\ EntryOf(v).name = v.name
          BY <4>2, <1>2 DEF LayoutInv, TablesHold, EntryOf
        <5> QED  BY <5>1, <4>2 DEF Mismatch
      <4> QED  BY <4>1, <4>2
    <3>3. (\E w \in Seen : Clash(w, v))
            <=> (Mismatch(EntryOf(v)) \/ Overlap(EntryOf(v)))
      BY <3>1, <3>2 DEF Clash
    <3> QED  BY <2>1, <2>3, <3>3, <1>4 DEF LayoutInv
  <2> QED  BY <2>2, <2>3
<1> QED  BY <1>5, <1>6, <1>7 DEF LayoutInv

\* However many files are compared in whatever order, there is a conflict if
\* and only if two of the variables read clash (compareLayouts.ts).
THEOREM LayoutVerdict == Spec => []VerdictExact
<1>1. LayoutInv /\ [Next]_vars => LayoutInv'
  <2>1. LayoutInv /\ UNCHANGED vars => LayoutInv'
    BY DEF LayoutInv, LayoutTypes, TablesHold, Clashes, Seen, vars
  <2> QED  BY <2>1, SnapshotKeeps, CompareKeeps DEF Next
<1>2. LayoutInv => VerdictExact
  BY DEF LayoutInv, Clashes, Seen, VerdictExact
<1> QED  BY LayoutInit, <1>1, <1>2, PTL DEF Spec
=============================================================================
