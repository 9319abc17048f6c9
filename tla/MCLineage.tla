------------------------------ MODULE MCLineage ------------------------------
(* Instances of Lineage for TLC: a job that reads what a later job writes,    *)
(* under namespaces of every form.                                            *)
EXTENDS Lineage

Uri(scheme, authority) == <<scheme, ":", "/", "/">> \o authority
Bucket == Uri("s3", <<"bucket">>)

\* Names of entities, for the properties of node ids.
MCSchemes == {"s3", "postgres"}
MCNamespaces ==
  {<<"ns">>, <<"team", "/", "ns">>, Bucket, Uri("s3", <<"bucket", "/", "dir">>), <<"s3">>}
MCNames ==
  {<<"t">>, <<"wh", "/", "t">>, <<"t", ":", "u">>, <<"wh", ":", "a", "/", "t">>,
   <<"/", "wh", "/", "t">>, Uri("s3", <<"other">>), <<"t", ":", "u", ":", "v">>}
MCFields == {<<"f">>, <<"f", "/", "g">>, <<"s3">>}

\* The rows of the tables.
D1 == <<"dataset", Bucket, <<"wh", "/", "t">>>>
D2 == <<"dataset", Bucket, <<"t", ":", "u">>>>
D3 == <<"dataset", <<"s3">>, <<"t">>>>
J1 == <<"job", <<"ns">>, <<"t">>>>
J2 == <<"job", <<"team", "/", "ns">>, <<"t", ":", "u">>>>

\* j1: d1 -> d2, j2: d2 -> d3, and j1 may read d3 too.
MCBatches == {{<<D1, J1>>, <<J1, D2>>}, {<<D2, J2>>, <<J2, D3>>}, {<<D3, J1>>}}

Rest(depths) == {[surface |-> "rest", depth |-> d] : d \in depths}
Connect(depths) == {[surface |-> "connect", depth |-> d] : d \in depths}
MCRequests == Rest({0, 1, 4}) \cup Connect({-1, 2})
==============================================================================
