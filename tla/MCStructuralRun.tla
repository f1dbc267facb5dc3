-------------------------- MODULE MCStructuralRun --------------------------
(***************************************************************************)
(* A run of three turns with one body that is rejected for what it names and *)
(* one that fits, on a store that could hold a draft for each of them.     *)
(***************************************************************************)
EXTENDS StructuralRun

CONSTANTS naming, fitting
=============================================================================
