--------------------------- MODULE MCEventStream ---------------------------
(* A small instance of the event stream. *)
EXTENDS EventStream

CONSTANTS kitchen, bath, panel
=============================================================================
