--------------------------- MODULE MCDlqReprocess ---------------------------
(* Reprocessing with a few entries of two topics, for TLC. *)
EXTENDS DlqReprocess

CONSTANTS t1, t2

\* The first two entries are of one topic.
MCTopicOf == [e \in Entries |-> IF e <= 2 THEN t1 ELSE t2]
=============================================================================
