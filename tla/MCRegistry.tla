---------------------------- MODULE MCRegistry ------------------------------
(* Registry on a small instance: registry.cfg and sub_resets_limit.cfg give  *)
(* the constants.                                                            *)
EXTENDS Registry
=============================================================================
