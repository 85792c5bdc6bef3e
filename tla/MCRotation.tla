---------------------------- MODULE MCRotation ------------------------------
(* Rotation on a small instance: rotation.cfg gives the constants.           *)
EXTENDS Rotation
=============================================================================
