----------------------------- MODULE TopicMatch -----------------------------
(***************************************************************************)
(* The topic matcher that the callback fan-out, the gRPC stream and the    *)
(* SSE stream share (shared/topic.rs).                                     *)
(*                                                                         *)
(* A topic is the sequence of its segments, as splitting at each '.' gives *)
(* them: it is never empty, and "" is <<Blank>>.  A pattern is the same    *)
(* with segments that may be wildcards.  Kafka has no topic with a '*', so *)
(* a segment with one never equals a segment of a topic.                   *)
(***************************************************************************)
EXTENDS Naturals, Sequences

CONSTANTS
    Texts,      \* what a segment may be
    Blank,      \* the empty segment
    StartsWith, \* pairs <<segment, prefix>>: the segment starts with the prefix
    AllTopics,  \* topics of messages
    AllPatterns \* patterns of clients

Literal(l) == [kind |-> "literal", text |-> l]
One        == [kind |-> "one", text |-> Blank]      \* '+' or '*'
Many       == [kind |-> "many", text |-> Blank]     \* '#'
Glob(l)    == [kind |-> "glob", text |-> l]         \* l, '*', anything

PatternSegments == {Literal(l) : l \in Texts} \cup {One, Many} \cup {Glob(l) : l \in Texts}

ASSUME TextsAssumption    == Blank \in Texts
ASSUME TopicsAssumption   == AllTopics \subseteq Seq(Texts) \ {<<>>}
ASSUME PatternsAssumption == AllPatterns \subseteq Seq(PatternSegments) \ {<<>>}

\* next_segment stops where no byte is left: a trailing '.' opens no segment.
Segments(s, blank) == IF s[Len(s)] = blank THEN SubSeq(s, 1, Len(s) - 1) ELSE s

\* Mutant: '#' wants at least one segment.
match_segments_strict(topic, pattern) ==
    LET t == Segments(topic, Blank)
        p == Segments(pattern, Literal(Blank))
        from[i \in 1..(Len(p) + 1)] ==
            \/ i > Len(p) /\ i > Len(t)
            \/ /\ i <= Len(p) /\ i <= Len(t)
               /\ \/ p[i].kind = "many"
                  \/ p[i].kind = "glob" /\ <<t[i], p[i].text>> \in StartsWith
                  \/ (p[i].kind = "one" \/ p[i] = Literal(t[i])) /\ from[i + 1]
    IN  from[1]

\* Topic and pattern in lockstep: from[i] says that the segments from i on match.
match_segments(topic, pattern) ==
    LET t == Segments(topic, Blank)
        p == Segments(pattern, Literal(Blank))
        from[i \in 1..(Len(p) + 1)] ==
            \/ i > Len(p) /\ i > Len(t)
            \/ i <= Len(p) /\ p[i].kind = "many"
            \/ /\ i <= Len(p) /\ i <= Len(t)
               /\ \/ p[i].kind = "glob" /\ <<t[i], p[i].text>> \in StartsWith
                  \/ (p[i].kind = "one" \/ p[i] = Literal(t[i])) /\ from[i + 1]
    IN  from[1]

\* Empty topics and empty patterns are decided before the walk.
matches_topic(topic, pattern) ==
    IF pattern = <<Literal(Blank)>> THEN topic = <<Blank>>
    ELSE IF topic = <<Blank>> THEN pattern = <<Many>>
    ELSE match_segments(topic, pattern)

matches_any(topic, patterns) == \E p \in patterns : matches_topic(topic, p)

-----------------------------------------------------------------------------
(* The table of architecture.md, with no order of evaluation.              *)

\* '#' is "only valid as the last segment".
WellFormed(pattern) ==
    \A i \in 1..Len(pattern) : pattern[i].kind = "many" => i = Len(pattern)

\* Before the first '#' or glob every segment of the pattern stands for one of
\* the topic; a glob needs a segment that starts with its prefix; what follows
\* either of them is free.  Without them the lengths are equal.
Documented(topic, pattern) ==
    LET t == Segments(topic, Blank)
        p == Segments(pattern, Literal(Blank))
        open == {i \in 1..Len(p) : p[i].kind \in {"many", "glob"}}
    IN  /\ open = {} => Len(t) = Len(p)
        /\ \A i \in 1..Len(p) : (\A k \in open : i < k) =>
              i <= Len(t) /\ (p[i].kind = "one" \/ p[i].text = t[i])
        /\ \A k \in open : (\A j \in open : k <= j) /\ p[k].kind = "glob" =>
              k <= Len(t) /\ <<t[k], p[k].text>> \in StartsWith

=============================================================================
