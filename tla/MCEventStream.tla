--------------------------- MODULE MCEventStream ---------------------------
(* A small instance of EventStream for TLC.                                *)
EXTENDS EventStream

CONSTANTS c1, u1, u2, o1

MCUserOf == [c \in Clients |-> u1]
=============================================================================
