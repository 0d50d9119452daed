--------------------------- MODULE MCObservation ---------------------------
(* Instances of Observation: a connection and a room. *)
EXTENDS Observation

CONSTANTS s1, r1
=============================================================================
