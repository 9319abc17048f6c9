------------------------------- MODULE MCService -------------------------------
(* Instances of Service for TLC. *)
EXTENDS Service

CONSTANTS r1, r2, c1, c2

\* One caller on each replica.
MCHome == [c \in Callers |-> IF c = c1 THEN r1 ELSE r2]
==============================================================================
