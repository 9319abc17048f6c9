------------------------------ MODULE FoldedLog ------------------------------
(***************************************************************************)
(* What the projection promises the readers of the read tables, with no    *)
(* transactions, cursors or locks: the read tables are the fold of a       *)
(* prefix of the log in (xid, seq) order, each committed event counted     *)
(* once; an event that becomes visible later never belongs before one that *)
(* was already folded; a rebuild starts again from nothing.                *)
(***************************************************************************)
EXTENDS LogPosition

VARIABLES
  log,     \* the set of committed rows of `events`
  folded   \* the events the read tables are the fold of, in order

vars == <<log, folded>>

Init ==
  /\ log \subseteq Position
  /\ folded \in Seq(log)
  /\ Ascending(folded)
  /\ DownClosedIn(Range(folded), log)

\* Writers commit: the new rows come after everything folded so far.
Appear ==
  /\ log \subseteq log'
  /\ \A r \in log' \ log, q \in Range(folded) : Before(q, r)
  /\ UNCHANGED folded

\* A batch is folded: the next events in log order, none left out, none twice.
Fold ==
  /\ Len(folded) <= Len(folded')
  /\ \A i \in DOMAIN folded : folded'[i] = folded[i]
  /\ Ascending(folded')
  /\ Range(folded') \subseteq log
  /\ DownClosedIn(Range(folded'), log)
  /\ UNCHANGED log

Reset ==
  /\ folded' = << >>
  /\ UNCHANGED log

Next == Appear \/ Fold \/ Reset

Spec == Init /\ [][Next]_vars
==============================================================================
