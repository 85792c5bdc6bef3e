---------------------------- MODULE MCSyncTiers -----------------------------
(* SyncTiers on small instances: sync.cfg and close_strands_entries.cfg give *)
(* the constants.                                                            *)
EXTENDS SyncTiers
=============================================================================
