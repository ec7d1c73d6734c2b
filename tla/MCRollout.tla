------------------------------ MODULE MCRollout ------------------------------
(***************************************************************************)
(* Small instances of Rollout.                                             *)
(***************************************************************************)
EXTENDS Rollout
=============================================================================
