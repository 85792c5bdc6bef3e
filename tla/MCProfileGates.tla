--------------------------- MODULE MCProfileGates ---------------------------
(* ProfileGates on a small instance: gates.cfg gives the constants, numbers  *)
(* and model values.                                                         *)
EXTENDS ProfileGates
=============================================================================
