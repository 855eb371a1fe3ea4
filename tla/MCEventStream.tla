--------------------------- MODULE MCEventStream ---------------------------
(* EventStream on small instances. *)
EXTENDS EventStream, TLC
=============================================================================
