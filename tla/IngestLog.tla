------------------------------ MODULE IngestLog ------------------------------
(***************************************************************************)
(* What the buffered writer promises those who hand it events, without     *)
(* channel, task, retries or counters: an at-least-once queue in front of  *)
(* the log.  Segments of the accepted events reach the log, each starting  *)
(* at the first event that is not acknowledged, so a lost answer repeats a *)
(* segment but nothing is skipped or overtaken; an abort gives up the rest.*)
(***************************************************************************)
EXTENDS Naturals, Sequences, SequencesExt

VARIABLES
  accepted,  \* the events accepted, in order
  settled,   \* how many of them are acknowledged or given up
  log,       \* the events inserted, in order, with repetitions
  aborted    \* the rest has been given up

vars == <<accepted, settled, log, aborted>>

Init ==
  /\ accepted = << >> /\ settled = 0 /\ log = << >>
  /\ aborted = FALSE

Accept ==
  /\ ~aborted
  /\ Len(accepted') = Len(accepted) + 1
  /\ IsPrefix(accepted, accepted')
  /\ UNCHANGED <<settled, log, aborted>>

Segment(n) == SubSeq(accepted, settled + 1, n)
Ahead == (settled + 1)..Len(accepted)

Write ==
  /\ ~aborted
  /\ \E n \in Ahead : log' = log \o Segment(n)
  /\ UNCHANGED <<accepted, settled, aborted>>

Acknowledge ==
  /\ ~aborted
  /\ settled' \in Ahead
  /\ IsSuffix(Segment(settled'), log)
  /\ UNCHANGED <<accepted, log, aborted>>

Abort ==
  /\ ~aborted /\ aborted'
  /\ settled' = Len(accepted)
  /\ UNCHANGED <<accepted, log>>

Next == Accept \/ Write \/ Acknowledge \/ Abort

Spec == Init /\ [][Next]_vars
==============================================================================
