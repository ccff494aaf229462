--------------------------- MODULE MCTestcaseExec ---------------------------
(***************************************************************************)
(* Instances of TestcaseExec for TLC: the constants are numbers, given in  *)
(* the configurations.                                                     *)
(***************************************************************************)
EXTENDS TestcaseExec
=============================================================================
