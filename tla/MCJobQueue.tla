------------------------------ MODULE MCJobQueue ------------------------------
(***************************************************************************)
(* Instances of JobQueue for TLC.                                          *)
(***************************************************************************)
EXTENDS JobQueue, TLC

(* Jobs with and without a handler differ; workers do not. *)
Symmetry == Permutations(Workers)
=============================================================================
