----------------------------- MODULE LogPosition -----------------------------
(***************************************************************************)
(* Positions of rows in the `events` log.  A row is identified by the      *)
(* transaction that inserted it and by its BIGSERIAL `seq`; the projection *)
(* cursor is such a pair and the log is read in the row order              *)
(* `ORDER BY xid, seq`.                                                    *)
(***************************************************************************)
EXTENDS Integers, Sequences, FiniteSets, Functions

Position == [xid : Nat, seq : Nat]

\* (a.xid, a.seq) < (b.xid, b.seq), the SQL row comparison.
Before(a, b) ==
  \/ a.xid < b.xid
  \/ a.xid = b.xid /\ a.seq < b.seq

\* A sequence of positions in strictly increasing order.
Ascending(s) == \A i, j \in DOMAIN s : i < j => Before(s[i], s[j])

\* S holds every member of T that comes before one of its own.
DownClosedIn(S, T) ==
  \A q \in T : (\E r \in S : Before(q, r)) => q \in S

\* ORDER BY xid, seq LIMIT n over the finite set S.
FirstOf(n, S) == {r \in S : Cardinality({q \in S : Before(q, r)}) < n}

\* The last element of a non-empty sequence.
LastOf(s) == s[Len(s)]
==============================================================================
