----------------------------- MODULE MCPublishRpc -----------------------------
(* Three publish RPCs over two named messages and two cancels, for TLC. *)
EXTENDS PublishRpc, TLC

CONSTANTS c1, c2, c3, x1, x2, a, b, g1, g2

MCCalls     == {c1, c2, c3}
MCCancels   == {x1, x2}
MCNamed     == {a, b}
MCGenerated == {g1, g2}

\* A request over gRPC for message i with these bytes.
Of(i, bytes) == [id |-> i, topic |-> "t", key |-> "k", event_type |-> "e", payload |-> bytes]
Good(i)      == Of(i, Text("typed"))

\* A request over HTTP for message i with these parts.
Post(i, p, b64) == [id |-> i, topic |-> "t", key |-> "", event_type |-> "e", payload |-> p, base64 |-> b64]

\* Over gRPC: a single request, one that is invalid, a batch with an invalid
\* request, with one id twice, with ids to be drawn, with an overlong topic.
\* Over HTTP: each way to give a payload, and one bad request beside a good one.
MCInputs ==
    {[via |-> "grpc", requests |-> r] : r \in
        {<<Good(a)>>, <<Of(a, NotJson)>>, <<Good(b), Good(BadId), Of(a, Empty)>>,
         <<Good(a), Good(a)>>, <<Of(None, Empty), Of(None, Text("null"))>>,
         <<Good(a), [Good(None) EXCEPT !.topic = "too long"]>>}}
    \cup
    {[via |-> "http", requests |-> r] : r \in
        {<<Post(a, "null", Missing), Post(b, "missing", Text("{}"))>>,
         <<Post(a, "missing", NotJson), Post(b, "typed", Missing)>>,
         <<Post(a, "typed", Missing), Post(b, "other", Text("other"))>>,
         <<Post(a, "missing", Malformed)>>}}

\* Handlers of a kind run the same code, and drawn ids are all alike.
CallSymmetry == Permutations(MCCalls) \cup Permutations(MCCancels) \cup Permutations(MCGenerated)

=============================================================================
