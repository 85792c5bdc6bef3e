--------------------------- MODULE MCAsyncLogger ---------------------------
(* AsyncLogger on small instances. *)
EXTENDS AsyncLogger, TLC

CONSTANTS p1, p2

\* p1 logs at INFO; p2 at a level above LevelError.
InfoAndCustom == p1 :> 1 @@ p2 :> 4
OneProducer   == p1 :> 1
=============================================================================
