---------------------------- MODULE MCFieldLineage ----------------------------
(* Instances of FieldLineage for TLC: a copies into b, which feeds c, which   *)
(* may feed b and a again.                                                    *)
EXTENDS FieldLineage

MCColumns == [a |-> <<"p">>, b |-> <<"x", "y">>, c |-> <<"z">>]
P == <<"a", "p">>
X == <<"b", "x">>
Y == <<"b", "y">>
Z == <<"c", "z">>

SourcesOf(p, x, y, z) ==
  [f \in {P, X, Y, Z} |-> CASE f = P -> p [] f = X -> x [] f = Y -> y [] f = Z -> z]

MCSources == SourcesOf({Z}, {P, Z}, {P}, {X})
MCTagged == {P, Y, <<"b">>}
==============================================================================
