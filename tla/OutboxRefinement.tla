--------------------------- MODULE OutboxRefinement ---------------------------
(* The outbox keeps its promise on every message nobody contests. *)
EXTENDS Outbox

\* What the status column says to clients, forgetting how far the drain has got.
FateOf(m) ==
    CASE status[m] = "absent"  -> "unknown"
      [] status[m] = "deleted" -> "withdrawn"
      [] status[m] \in MessageStatus /\ m \in Contested -> "disputed"
      [] status[m] \in {"pending", "publishing", "retrying"} /\ m \notin Contested -> "owed"
      [] status[m] = "published" /\ m \notin Contested -> "published"
      [] status[m] \in {"dlq", "failed"} /\ m \notin Contested -> "buried"

Promise == INSTANCE OutboxPromise WITH fate <- [m \in Messages |-> FateOf(m)]

\* Every step of the drain, with two publishers racing over the rows, is a step
\* of the promise or invisible to it: nothing accepted is forgotten, settled
\* twice, published untaken or buried early, unless its id was withdrawn and
\* published again under a publisher's eyes or its lease ran out on one.
KeepsPromise == Promise!Spec

=============================================================================
