--------------------------- MODULE InboxRefinement ---------------------------
(* The consuming side keeps its promise if its settings never take it back. *)
EXTENDS InboxConsumer

\* Where a message is: in a row, in the loop, in the channel, behind or ahead.
FateOf(o) ==
    CASE o \in Elements(inbox)   -> "stored"
      [] o \notin Elements(inbox) /\ o \in Elements(pending) \cup Elements(channel)
             -> IF dispatched[o] > 0 THEN "delivered" ELSE "held"
      [] o \notin Elements(inbox) \cup Elements(pending) \cup Elements(channel)
             -> IF o < position THEN "gone" ELSE "ahead"

\* With automatic commits, or a reset to the earliest, messages come back: nothing
\* is promised.
Promise == INSTANCE InboxPromise
               WITH fate    <- [o \in Offsets |-> IF NeverGoesBack THEN FateOf(o) ELSE "ahead"],
                    mishaps <- faults

\* However polls, dispatches, inserts, rebalances, crashes and restarts interleave,
\* each step of the consumer is a step of the promise or invisible to it: messages
\* go through in order, none is stored undelivered (against data-model.md:91, see
\* InboxPromise), and none comes back once it is stored or lost.
KeepsPromise == Promise!Spec

-----------------------------------------------------------------------------
(* Inductive strengthening.                                                *)

\* The message that is being dispatched.
Undelivered == IF stage = "dispatch" THEN {pending[Len(pending)]} ELSE {}

\* A consumer that never goes back dispatches a message for the first time, and
\* what reaches the buffer parses.
AwaitsDispatch ==
    NeverGoesBack =>
        /\ \A o \in Offsets :
              o >= position \/ o \in Elements(channel) \cup Undelivered => dispatched[o] = 0
        /\ Undelivered \cap Bad = {}

=============================================================================
