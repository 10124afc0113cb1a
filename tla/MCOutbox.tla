------------------------------ MODULE MCOutbox ------------------------------
(* The outbox and its promise on a small table, for TLC. *)
EXTENDS OutboxRefinement

CONSTANTS p1, p2

MCTwoPublishers == {p1, p2}

\* The first and the last publication are of one id.
MCMessages == 1..3
MCId == <<1, 2, 1>>

=============================================================================
