--------------------------- MODULE MCBufferedWriter ---------------------------
(* Instances of BufferedWriter for TLC: each request carries a batch. *)
EXTENDS BufferedWriter

CONSTANTS q1, q2

MCBatchLen == [q \in Requests |-> 2]
==============================================================================
