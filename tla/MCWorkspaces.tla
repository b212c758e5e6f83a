---------------------------- MODULE MCWorkspaces ----------------------------
(***************************************************************************)
(* Workspaces with interchangeable runs.                                   *)
(***************************************************************************)
EXTENDS Workspaces, TLC

RunSymmetry == Permutations(Runs)
=============================================================================
