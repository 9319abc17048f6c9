----------------------------- MODULE MCMigrations -----------------------------
(* Instances of Migrations for TLC: a deployment of a new build over an old one. *)
EXTENDS Migrations

CONSTANTS m1, m2, s1, s2

Old == <<"a">>
New == <<"a", "b", "c">>
MCChecksums == {"a", "b", "c", "d", "x"}
MCBuild == [p \in Processes |-> IF p \in {m1, s1} THEN Old ELSE New]

Migrated(applied, dirty) == [table |-> TRUE, applied |-> applied, dirty |-> dirty]
\* New, migrated by the old build, half migrated, edited after deploy, ahead of
\* both builds, left dirty.
MCDatabases ==
  {[table |-> FALSE, applied |-> << >>, dirty |-> FALSE],
   Migrated(Old, FALSE), Migrated(<<"a", "b">>, FALSE), Migrated(<<"a", "x", "c">>, FALSE),
   Migrated(<<"a", "b", "c", "d">>, FALSE), Migrated(Old, TRUE)}
==============================================================================
