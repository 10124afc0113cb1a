----------------------------- MODULE InboxPromise -----------------------------
(***************************************************************************)
(* What the consuming side promises of one partition, with no word of      *)
(* channels, buffers, offsets or tasks: messages are taken up in order,    *)
(* each is delivered before it is stored, what was delivered is stored     *)
(* together, and what is over is over.  A message gets lost only by a      *)
(* mishap, by not parsing, or for having been sent while nobody listened.  *)
(* The documents say "stored, then dispatched"; the promise is that of the *)
(* code, under which a mishap can leave a delivered message without a row. *)
(***************************************************************************)
EXTENDS Naturals

CONSTANTS
    LogSize, \* messages of the partition
    Bad      \* messages that do not parse

VARIABLES
    fate,    \* what has become of each message
    mishaps  \* crashes, rebalances, errors and failed inserts

vars == <<fate, mishaps>>

Messages == 0..(LogSize - 1)
Fate     == {"ahead", "held", "delivered", "stored", "gone"}

Init ==
    /\ fate = [m \in Messages |-> "ahead"]
    /\ mishaps = 0

Of(f) == {m \in Messages : fate[m] = f}

First(f, m) == m \in Of(f) /\ \A n \in Of(f) : m <= n

Becomes(S, f) == fate' = [m \in Messages |-> IF m \in S THEN f ELSE fate[m]]

\* The next message is taken up.
Take(m) ==
    /\ First("ahead", m)
    /\ Becomes({m}, "held")
    /\ UNCHANGED mishaps

\* The message that has been held longest is delivered, or found not to parse.
Deliver(m) ==
    /\ First("held", m)
    /\ m \notin Bad
    /\ Becomes({m}, "delivered")
    /\ UNCHANGED mishaps

Refuse(m) ==
    /\ First("held", m)
    /\ m \in Bad
    /\ Becomes({m}, "gone")
    /\ UNCHANGED mishaps

\* All that has been delivered is stored at once.
Store ==
    /\ Becomes(Of("delivered"), "stored")
    /\ UNCHANGED mishaps

\* A listener that has nothing in hand passes over what was sent before n.
Join(n) ==
    /\ Of("held") \cup Of("delivered") = {}
    /\ Becomes({m \in Of("ahead") : m < n}, "gone")
    /\ UNCHANGED mishaps

\* A mishap costs nothing, the batch, everything in hand, or what was sent before n.
Mishap ==
    /\ mishaps' = mishaps + 1
    /\ \/ UNCHANGED fate
       \/ Becomes(Of("delivered"), "gone")
       \/ Becomes(Of("held") \cup Of("delivered"), "gone")
       \/ \E n \in 0..LogSize : Becomes({m \in Of("ahead") : m < n}, "gone")

Next ==
    \/ \E m \in Messages : Take(m) \/ Deliver(m) \/ Refuse(m)
    \/ Store
    \/ \E n \in 0..LogSize : Join(n)
    \/ Mishap

Spec == Init /\ [][Next]_vars

=============================================================================
