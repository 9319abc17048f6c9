---------------------------- MODULE MCProjection ----------------------------
(* An instance of Projection for TLC. *)
EXTENDS Projection

CONSTANTS w1, w2, b1, s1, s2
=============================================================================
