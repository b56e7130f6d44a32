-------------------------------- MODULE MCIntake --------------------------------
(***************************************************************************)
(* Instances of Intake for TLC.                                            *)
(***************************************************************************)
EXTENDS Intake

CONSTANTS c1, h1, h2, i1
================================================================================
