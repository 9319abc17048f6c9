------------------------------- MODULE MCPaging -------------------------------
(* Instances of Paging for TLC: two namespaces that share names. *)
EXTENDS Paging

MCRows == {<<"n", "a">>, <<"n", "b">>, <<"n", "c">>, <<"n", "d">>, <<"m", "a">>, <<"m", "b">>}
MCRank == [a |-> 1, b |-> 2, c |-> 3, d |-> 4]
==============================================================================
