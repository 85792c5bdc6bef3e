----------------------------- MODULE MCEntryPool -----------------------------
(* EntryPool on a small instance.                                            *)
EXTENDS EntryPool, TLC

Symmetry == Permutations(Entries) \cup Permutations(Buffers)
=============================================================================
