---------------------------- MODULE MCRobotAgent ----------------------------
(***************************************************************************)
(* A small instance of RobotAgent: two goroutines, two versions.           *)
(***************************************************************************)
EXTENDS RobotAgent

CONSTANTS h1, h2, v0, v1
=============================================================================
