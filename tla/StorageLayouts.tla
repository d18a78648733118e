--------------------------- MODULE StorageLayouts ---------------------------
(***************************************************************************)
(* All sidecars run on the storage of the one dex, so their state          *)
(* variables have to agree.  snapshotLayout.ts writes the layout of every  *)
(* core contract of a build to a file, and compareLayouts.ts reads such    *)
(* files, one entry after the other, and says whether they conflict.       *)
(*                                                                         *)
(* Each step snapshots one state variable or compares the next entry; the  *)
(* files of all builds are one sequence.  A type is its text and, in a     *)
(* struct, the number the compiler gave it in that build.                  *)
(***************************************************************************)
EXTENDS Integers, Sequences

CONSTANTS
    Variables,   \* the state variables of all builds
    Core,        \* the contracts that run on the storage of the dex
    MaxEntries   \* bound: entries of all files

ASSUME LayoutAssumption ==
    /\ MaxEntries \in Nat
    /\ \A v \in Variables :
          v \in [contract : {v.contract}, name : {v.name}, slot : Nat,
                 offset : Nat, size : Nat \ {0},
                 type : [text : {v.type.text}, struct : BOOLEAN, id : Nat]]

VARIABLES
    snapshots,        \* variables with an entry, in the order they are read
    read,             \* how many of them have been compared
    variablesBySlots, \* the first location seen of every name
    storageLayout,    \* the bytes of all entries read
    hasConflicts

vars == <<snapshots, read, variablesBySlots, storageLayout, hasConflicts>>

Names == {v.name : v \in Variables}
Unseen == [slot |-> -1]

Init ==
    /\ snapshots = <<>> /\ read = 0
    /\ variablesBySlots = [name \in Names |-> Unseen]
    /\ storageLayout = {}
    /\ hasConflicts = FALSE

-----------------------------------------------------------------------------
\* The number of a struct differs from build to build and is dropped.
StandardizeTypeData(type) == IF type.struct THEN [type EXCEPT !.id = 0] ELSE type

IsCoreContract(contract) == contract \in Core

\* What the file says of a variable.
EntryOf(v) == [name |-> v.name, slot |-> v.slot, offset |-> v.offset,
               type |-> StandardizeTypeData(v.type), size |-> v.size]

Snapshot(v) ==
    /\ IsCoreContract(v.contract) /\ Len(snapshots) < MaxEntries
    /\ snapshots' = Append(snapshots, v)
    /\ UNCHANGED <<read, variablesBySlots, storageLayout, hasConflicts>>

-----------------------------------------------------------------------------
LocOf(entry) == [slot |-> entry.slot, offset |-> entry.offset,
                 size |-> entry.size, type |-> entry.type]

\* A name has one location.
Mismatch(entry) ==
    LET loc == variablesBySlots[entry.name]
    IN  loc # Unseen /\ loc # LocOf(entry)

SpaceOf(entry) ==
    LET byteStart == entry.slot * 32 + entry.offset
    IN  [name |-> entry.name, byteStart |-> byteStart,
         byteEnd |-> byteStart + entry.size]

\* Mutant: only x may begin or end inside y.
InsidePointsOneWay(x, y) ==
    \/ x.byteStart >= y.byteStart /\ x.byteStart < y.byteEnd
    \/ x.byteEnd > y.byteStart /\ x.byteEnd <= y.byteEnd

InsidePoints(x, y) ==
    \/ x.byteStart >= y.byteStart /\ x.byteStart < y.byteEnd
    \/ x.byteEnd > y.byteStart /\ x.byteEnd <= y.byteEnd
    \/ y.byteStart >= x.byteStart /\ y.byteStart < x.byteEnd
    \/ y.byteEnd > x.byteStart /\ y.byteEnd <= x.byteEnd

\* No byte has two names.
Overlap(entry) ==
    \E prev \in storageLayout :
        entry.name # prev.name /\ InsidePoints(SpaceOf(entry), prev)

Compare ==
    /\ read < Len(snapshots)
    /\ LET entry == EntryOf(snapshots[read + 1])
       IN  /\ hasConflicts' = (hasConflicts \/ Mismatch(entry) \/ Overlap(entry))
           /\ variablesBySlots' =
                IF variablesBySlots[entry.name] # Unseen THEN variablesBySlots
                ELSE [variablesBySlots EXCEPT ![entry.name] = LocOf(entry)]
           /\ storageLayout' = storageLayout \cup {SpaceOf(entry)}
    /\ read' = read + 1
    /\ UNCHANGED snapshots

Next == Compare \/ \E v \in Variables : Snapshot(v)

Spec == Init /\ [][Next]_vars

-----------------------------------------------------------------------------
Bytes(v) == v.slot * 32 + v.offset .. v.slot * 32 + v.offset + v.size - 1
SameType(s, t) ==
    s.text = t.text /\ s.struct = t.struct /\ (s.struct \/ s.id = t.id)
SameVariable(v, w) ==
    /\ v.slot = w.slot /\ v.offset = w.offset /\ v.size = w.size
    /\ SameType(v.type, w.type)

\* Two contracts cannot share a storage that has both variables.
Clash(v, w) ==
    \/ v.name = w.name /\ ~SameVariable(v, w)
    \/ v.name # w.name /\ Bytes(v) \cap Bytes(w) # {}

(***************************************************************************)
(* The verdict is exact: whatever the order of the files, it is a conflict *)
(* if and only if some two of the variables read so far clash, although an *)
(* entry is compared with the first location of its name alone, and spaces *)
(* by their end points.                                                    *)
(***************************************************************************)
VerdictExact ==
    hasConflicts <=> \E i, j \in 1 .. read : Clash(snapshots[i], snapshots[j])
=============================================================================
