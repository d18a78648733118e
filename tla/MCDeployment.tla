----------------------------- MODULE MCDeployment -----------------------------
(***************************************************************************)
(* A deployment with the parameters of mainnet.                            *)
(***************************************************************************)
EXTENDS Deployment
=============================================================================
