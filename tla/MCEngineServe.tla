--------------------------- MODULE MCEngineServe ---------------------------
(* EngineServe with small sets of RPCs and both signals.  Symmetry is left *)
(* out: the runs check liveness.                                           *)
EXTENDS EngineServe
=============================================================================
