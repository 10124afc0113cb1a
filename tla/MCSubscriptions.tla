--------------------------- MODULE MCSubscriptions ---------------------------
(* Two subscribers and two concurrent updates, for TLC. *)
EXTENDS Subscriptions, TLC

CONSTANTS s1, s2, e1, e2, P1, P2, u1, u2

MCSubscribers == {s1, s2}
MCEndpoints   == {e1, e2}
MCPatternSets == {P1, P2}
MCUpdates     == {u1, u2}

Ask(via, e, P, active) == [via |-> via, endpoint |-> e, patterns |-> P, active |-> active]

\* Over each transport a change of one field, or of all, with and without `active`.
MCRequests ==
    UNION {{Ask("http", e, None, None), Ask("grpc", e, P, FALSE), Ask("http", None, P, None),
            Ask("grpc", None, P, None), Ask("grpc", e, None, TRUE)} : e \in MCEndpoints, P \in MCPatternSets}
    \cup {Ask("http", None, None, FALSE), Ask("http", None, None, TRUE)}

\* No definition names a subscriber, a value or a handler.
Symmetry == Permutations(MCSubscribers) \cup Permutations(MCUpdates)
            \cup Permutations(MCEndpoints) \cup Permutations(MCPatternSets)

=============================================================================
