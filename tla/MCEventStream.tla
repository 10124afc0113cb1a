---------------------------- MODULE MCEventStream ----------------------------
(* Two streams and a matcher over short segments, for TLC. *)
EXTENDS EventStream

CONSTANTS grpc, sse

MCStreams    == {grpc, sse}
MCSseStreams == {sse}

\* Segments "", "a", "ab" and "b", and which of them start with "" and "a".
MCTexts      == {"", "a", "ab", "b"}
MCStartsWith == (MCTexts \X {""}) \cup ({"a", "ab"} \X {"a"})

\* All topics and patterns of up to three segments, for the matcher.
UpTo(S, n)    == UNION {[1..k -> S] : k \in 1..n}
MCAllTopics   == UpTo(MCTexts, 3)
MCAllPatterns == UpTo({Literal(l) : l \in MCTexts} \cup {Glob(""), Glob("a"), One, Many}, 3)

\* The ones that are broadcast, and that clients ask for.
MCTopics      == {<<"a">>, <<"a", "b">>}
MCPatternSets == {{<<Literal("a"), One>>}, {<<Glob("a")>>, <<Literal("b"), Many>>}, {<<Many>>}}

=============================================================================
