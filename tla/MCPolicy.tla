------------------------------- MODULE MCPolicy -------------------------------
(***************************************************************************)
(* A policy over a dex: one conduit with rules on the cold path, and roles  *)
(* that pass from the deployer to three holders.                           *)
(***************************************************************************)
EXTENDS CrocPolicy

CONSTANTS ops, treasury, emergency

MCCabinets ==
    {[r \in Roles |-> CASE r = "ops" -> ops
                        [] r = "treasury" -> treasury
                        [] r = "emergency" -> emergency]}
MCRule(codes, mandate, offset) ==
    [cmdFlags |-> codes, mandateTime |-> mandate, expiryOffset |-> offset]
\* A mandate with time to spare, the same codes without mandate, fewer codes,
\* and an expiry that does not fit the word.
MCDrafts ==
    {MCRule({"SET_TAKE", "SAFE_MODE"}, 2, 1),
     MCRule({"SET_TAKE", "SAFE_MODE"}, 0, 1),
     MCRule({"SAFE_MODE"}, 2, 1),
     MCRule({"SET_TAKE", "SAFE_MODE"}, 2, 3)}
=============================================================================
