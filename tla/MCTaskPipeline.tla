--------------------------- MODULE MCTaskPipeline ---------------------------
(***************************************************************************)
(* Values of TaskPipeline's constants for TLC.                             *)
(***************************************************************************)
EXTENDS TaskPipeline, TLC

\* Decide requests differ only in their decision, which Init chooses freely.
DeciderSymmetry == Permutations(Deciders)
=============================================================================
