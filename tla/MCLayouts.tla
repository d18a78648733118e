------------------------------ MODULE MCLayouts ------------------------------
(***************************************************************************)
(* The first variables of StorageLayout.sol as two builds may lay them out *)
(* (the array of sidecars cut to two words), with a bool that does not     *)
(* pack, an authority inside the array and a mapping whose struct changed. *)
(***************************************************************************)
EXTENDS StorageLayouts

Plain(text) == [text |-> text, struct |-> FALSE, id |-> 0]
Struct(text, id) == [text |-> text, struct |-> TRUE, id |-> id]
Var(contract, name, slot, offset, size, type) ==
    [contract |-> contract, name |-> name, slot |-> slot, offset |-> offset,
     size |-> size, type |-> type]

MCCore == {"HotPath", "ColdPath"}
MCVariables == {
    Var("HotPath", "lockHolder_", 0, 0, 20, Plain("address")),
    Var("ColdPath", "lockHolder_", 0, 1, 20, Plain("address")),
    Var("HotPath", "sudoMode_", 0, 20, 1, Plain("bool")),
    Var("HotPath", "proxyPaths_", 1, 0, 64, Plain("address[]")),
    Var("ColdPath", "authority_", 2, 0, 20, Plain("address")),
    Var("HotPath", "authority_", 3, 0, 20, Plain("address")),
    Var("HotPath", "levels_", 4, 0, 32, Struct("BookLevel", 71)),
    Var("ColdPath", "levels_", 4, 0, 32, Struct("BookLevel", 98)),
    Var("ColdPath", "levels_", 4, 0, 32, Struct("Pool", 98)),
    Var("MockPath", "levels_", 0, 0, 32, Plain("uint256")) }
=============================================================================
