-------------------------- MODULE EventStreamProofs --------------------------
(***************************************************************************)
(* The matcher follows its table on every topic and pattern, and streams   *)
(* are faithful, for any number of clients and any capacity.               *)
(*                                                                         *)
(* The library's induction theorems cannot be instantiated by the provers  *)
(* at hand, for they take a predicate.  What is said of recursive          *)
(* functions here rests on a smallest element of a set of naturals, which  *)
(* follows from the well-foundedness of finite sets under inclusion.       *)
(***************************************************************************)
EXTENDS EventStream, FiniteSetTheorems, SequenceTheorems, TLAPS

\* A set of natural numbers that is not empty has a smallest element.
LEMMA SmallestOf ==
    ASSUME NEW S \in SUBSET Nat, S # {}
    PROVE  \E n \in S : \A m \in S : n <= m
<1> DEFINE T == {1..n : n \in S}
<1>1. \A n \in S : 1..n \in FiniteSubsetsOf(Nat)
  <2> TAKE n \in S
  <2>1. IsFiniteSet(1..n)
    BY FS_Interval
  <2>2. 1..n \in SUBSET Nat
    OBVIOUS
  <2> QED BY <2>1, <2>2 DEF FiniteSubsetsOf
<1>2. PICK x \in T : \A y \in T : ~ (<<y, x>> \in StrictSubsetOrdering(Nat))
  <2>1. T \subseteq FiniteSubsetsOf(Nat) /\ T # {}
    BY <1>1
  <2> HIDE DEF T
  <2> QED BY <2>1, FS_StrictSubsetOrderingWellFounded, WFMin
<1>3. PICK n \in S : x = 1..n
  OBVIOUS
<1>4. ASSUME NEW m \in S, m < n PROVE FALSE
  <2>1. 1..m \subseteq 1..n /\ n \in 1..n /\ n \notin 1..m
    BY <1>4
  <2>2. <<1..m, x>> \in StrictSubsetOrdering(Nat)
    BY <2>1, <1>3 DEF StrictSubsetOrdering
  <2> QED BY <2>2, <1>2
<1> QED BY <1>4

\* So a set that has 0, and n + 1 with every n, has all of them.
LEMMA InductionOverSets ==
    ASSUME NEW S, 0 \in S, \A n \in Nat : n \in S => n + 1 \in S
    PROVE  Nat \subseteq S
<1> SUFFICES ASSUME Nat \ S # {} PROVE FALSE
  OBVIOUS
<1>1. PICK n \in Nat \ S : \A m \in Nat \ S : n <= m
  BY SmallestOf
<1>2. n # 0 /\ n - 1 \in Nat /\ n - 1 \in S
  BY <1>1
<1> QED BY <1>1, <1>2

-----------------------------------------------------------------------------
(* The matcher.                                                            *)

\* Segment k of the topic is what the pattern says; the pattern ends at segment k
\* and leaves the rest open.
Fits(t, p, k) == k <= Len(t) /\ (p[k].kind = "one" \/ p[k] = Literal(t[k]))
Stops(t, p, k) ==
    \/ p[k].kind = "many"
    \/ k <= Len(t) /\ p[k].kind = "glob" /\ <<t[k], p[k].text>> \in StartsWith

\* What the walk decides from segment i on.
Reach(t, p, i) ==
    \/ \E k \in i..Len(p) : Stops(t, p, k) /\ \A j \in i..(k - 1) : Fits(t, p, j)
    \/ Len(t) <= Len(p) /\ \A j \in i..Len(p) : Fits(t, p, j)

\* One step of the walk, with f for what it decides from the next segment on.
Walk(t, p, f, i) ==
    \/ i > Len(p) /\ i > Len(t)
    \/ i <= Len(p) /\ p[i].kind = "many"
    \/ /\ i <= Len(p) /\ i <= Len(t)
       /\ \/ p[i].kind = "glob" /\ <<t[i], p[i].text>> \in StartsWith
          \/ (p[i].kind = "one" \/ p[i] = Literal(t[i])) /\ f[i + 1]

\* Reach solves the equation of the walk.
LEMMA ReachIsWalk ==
    ASSUME NEW t, NEW p, Len(t) \in Nat, Len(p) \in Nat, NEW i \in 1..(Len(p) + 1)
    PROVE  /\ i <= Len(p) => (Reach(t, p, i) <=> Stops(t, p, i) \/ (Fits(t, p, i) /\ Reach(t, p, i + 1)))
           /\ i > Len(p) => (Reach(t, p, i) <=> i > Len(t))
<1>1. ASSUME i <= Len(p)
      PROVE  Reach(t, p, i) <=> Stops(t, p, i) \/ (Fits(t, p, i) /\ Reach(t, p, i + 1))
  <2>1. ASSUME Stops(t, p, i) PROVE Reach(t, p, i)
    <3>1. i \in i..Len(p) /\ \A j \in i..(i - 1) : Fits(t, p, j)
      BY <1>1
    <3> QED BY <2>1, <3>1 DEF Reach
  <2>2. ASSUME Fits(t, p, i), Reach(t, p, i + 1) PROVE Reach(t, p, i)
    <3>1. \A n \in Int : \A j \in i..n : j = i \/ j \in (i + 1)..n
      OBVIOUS
    <3>2. (i + 1)..Len(p) \subseteq i..Len(p)
      OBVIOUS
    <3> QED BY <2>2, <3>1, <3>2 DEF Reach
  <2>3. ASSUME Reach(t, p, i), ~ Stops(t, p, i) PROVE Fits(t, p, i) /\ Reach(t, p, i + 1)
    <3>1. CASE \E k \in i..Len(p) : Stops(t, p, k) /\ \A j \in i..(k - 1) : Fits(t, p, j)
      <4>1. PICK k \in i..Len(p) : Stops(t, p, k) /\ \A j \in i..(k - 1) : Fits(t, p, j)
        BY <3>1
      <4>2. k # i
        BY <2>3, <4>1
      <4>3. i \in i..(k - 1) /\ k \in (i + 1)..Len(p) /\ (i + 1)..(k - 1) \subseteq i..(k - 1)
        BY <4>2
      <4> QED BY <4>1, <4>3 DEF Reach
    <3>2. CASE Len(t) <= Len(p) /\ \A j \in i..Len(p) : Fits(t, p, j)
      <4>1. i \in i..Len(p) /\ (i + 1)..Len(p) \subseteq i..Len(p)
        BY <1>1
      <4> QED BY <3>2, <4>1 DEF Reach
    <3> QED BY <2>3, <3>1, <3>2 DEF Reach
  <2> QED BY <2>1, <2>2, <2>3
<1>2. ASSUME i > Len(p) PROVE Reach(t, p, i) <=> i > Len(t)
  <2>1. i..Len(p) = {} /\ (i > Len(t) <=> Len(t) <= Len(p))
    BY <1>2
  <2> QED BY <2>1 DEF Reach
<1> QED BY <1>1, <1>2

\* The walk that the matcher defines by recursion exists and decides Reach: a
\* function that solves its equation differs from Reach nowhere, for a last segment
\* at which it did would have to agree with it.
LEMMA WalkDecidesReach ==
    ASSUME NEW topic, NEW pattern,
           Len(Segments(topic, Blank)) \in Nat, Len(Segments(pattern, Literal(Blank))) \in Nat
    PROVE  match_segments(topic, pattern)
              <=> Reach(Segments(topic, Blank), Segments(pattern, Literal(Blank)), 1)
<1> DEFINE t == Segments(topic, Blank)
           p == Segments(pattern, Literal(Blank))
           D == 1..(Len(p) + 1)
           Solves(f) == f = [i \in D |-> Walk(t, p, f, i)]
           g == [i \in D |-> Reach(t, p, i)]
           from == CHOOSE f : Solves(f)
<1>1. match_segments(topic, pattern) = from[1]
  BY Zenon DEF match_segments, Walk
<1> HIDE DEF t, p
<1>2. Len(t) \in Nat /\ Len(p) \in Nat
  BY DEF t, p
<1>3. \A i \in D : Reach(t, p, i) = Walk(t, p, g, i)
  <2> SUFFICES ASSUME NEW i \in D PROVE Reach(t, p, i) = Walk(t, p, g, i)
    BY Zenon
  <2>0. i \in Nat
    BY <1>2
  <2>a. Reach(t, p, i) \in BOOLEAN /\ Walk(t, p, g, i) \in BOOLEAN
    BY DEF Reach, Walk
  <2>1. CASE i <= Len(p)
    <3>1. i + 1 \in D
      BY <1>2, <2>1
    <3>2. g[i + 1] = Reach(t, p, i + 1)
      BY <3>1, Zenon
    <3>3. Reach(t, p, i) <=> Stops(t, p, i) \/ (Fits(t, p, i) /\ Reach(t, p, i + 1))
      BY <1>2, <2>1, ReachIsWalk
    <3>4. Walk(t, p, g, i) <=> Stops(t, p, i) \/ (Fits(t, p, i) /\ g[i + 1])
      <4> HIDE DEF g
      <4> QED BY <1>2, <2>0, <2>1 DEF Walk, Stops, Fits
    <3> QED BY <2>a, <3>2, <3>3, <3>4, Zenon
  <2>2. CASE i > Len(p)
    <3>1. Reach(t, p, i) <=> i > Len(t)
      BY <1>2, <2>2, ReachIsWalk
    <3>2. Walk(t, p, g, i) <=> i > Len(t)
      <4> HIDE DEF g
      <4> QED BY <1>2, <2>0, <2>2 DEF Walk
    <3> QED BY <2>a, <3>1, <3>2, SMT
  <2> QED BY <1>2, <2>0, <2>1, <2>2
<1>4. Solves(g)
  BY <1>3, Zenon
<1>5. Solves(from)
  BY <1>4, Zenon
<1> HIDE DEF from
<1>6. \A i \in D : from[i] = Walk(t, p, from, i)
  BY <1>5, Zenon
<1>7. \A i \in D : from[i] = g[i]
  <2> DEFINE S == {n \in 0..Len(p) : from[Len(p) + 1 - n] # g[Len(p) + 1 - n]}
  <2>1. ASSUME S # {} PROVE FALSE
    <3>1. S \in SUBSET Nat
      BY <1>2
    <3>2. PICK n \in S : \A m \in S : n <= m
      <4> HIDE DEF S
      <4> QED BY <2>1, <3>1, SmallestOf
    <3> DEFINE i == Len(p) + 1 - n
    <3>3. n \in 0..Len(p) /\ from[i] # g[i]
      BY <3>2, Zenon
    <3>4. i \in D /\ i \in Nat
      BY <1>2, <3>3
    <3>5. Walk(t, p, from, i) # Walk(t, p, g, i)
      BY <1>3, <1>6, <3>3, <3>4, Zenon
    <3>6. CASE n = 0
      <4>1. i > Len(p)
        BY <1>2, <3>6
      <4>2. Walk(t, p, from, i) = Walk(t, p, g, i)
        <5> HIDE DEF g, i
        <5> QED BY <1>2, <3>4, <4>1 DEF Walk
      <4> QED BY <3>5, <4>2, Zenon
    <3>7. CASE n # 0
      <4>1. n - 1 \in 0..Len(p) /\ ~ (n <= n - 1) /\ Len(p) + 1 - (n - 1) = i + 1
        BY <1>2, <3>3, <3>7
      <4>2. from[i + 1] = g[i + 1]
        <5>1. n - 1 \notin S
          BY <3>2, <4>1, Zenon
        <5>2. from[Len(p) + 1 - (n - 1)] = g[Len(p) + 1 - (n - 1)]
          BY <5>1, <4>1, Zenon
        <5> HIDE DEF i
        <5> QED BY <5>2, <4>1, Zenon
      <4>3. Walk(t, p, from, i) = Walk(t, p, g, i)
        BY <4>2, Zenon DEF Walk
      <4> QED BY <3>5, <4>3, Zenon
    <3> QED BY <3>6, <3>7, Zenon
  <2>2. ASSUME NEW i \in D PROVE from[i] = g[i]
    <3>1. Len(p) + 1 - i \in 0..Len(p) /\ Len(p) + 1 - (Len(p) + 1 - i) = i
      BY <1>2
    <3>2. Len(p) + 1 - i \notin S
      BY <2>1, Zenon
    <3>3. from[Len(p) + 1 - (Len(p) + 1 - i)] = g[Len(p) + 1 - (Len(p) + 1 - i)]
      BY <3>1, <3>2, Zenon
    <3> QED BY <3>1, <3>3, Zenon
  <2> QED BY <2>2, Zenon
<1>8. 1 \in D
  BY <1>2
<1>9. from[1] = Reach(t, p, 1)
  BY <1>7, <1>8, Zenon
<1> QED BY <1>1, <1>9, Zenon DEF t, p

\* A segment of a pattern is a wildcard that leaves the rest open, or fits what it says.
LEMMA SegmentsAreOpenOrFit ==
    ASSUME NEW q \in PatternSegments
    PROVE  /\ q.kind \in {"many", "glob"} => q.kind # "one" /\ \A l : q # Literal(l)
           /\ q.kind \notin {"many", "glob"} =>
                 \A l : (q.kind = "one" \/ q = Literal(l)) <=> (q.kind = "one" \/ q.text = l)
<1>1. CASE \E l \in Texts : q = Literal(l)
  BY <1>1 DEF Literal
<1>2. CASE q \in {One, Many}
  BY <1>2 DEF One, Many, Literal
<1>3. CASE \E l \in Texts : q = Glob(l)
  BY <1>3 DEF Glob, Literal
<1> QED BY <1>1, <1>2, <1>3 DEF PatternSegments

\* What the walk decides is what the table says.
LEMMA ReachIsDocumented ==
    ASSUME NEW topic, NEW pattern,
           Len(Segments(topic, Blank)) \in Nat, Len(Segments(pattern, Literal(Blank))) \in Nat,
           \A k \in 1..Len(Segments(pattern, Literal(Blank))) :
               Segments(pattern, Literal(Blank))[k] \in PatternSegments
    PROVE  Reach(Segments(topic, Blank), Segments(pattern, Literal(Blank)), 1)
              <=> Documented(topic, pattern)
<1> DEFINE t == Segments(topic, Blank)
           p == Segments(pattern, Literal(Blank))
           open == {i \in 1..Len(p) : p[i].kind \in {"many", "glob"}}
           NoneOpen == open = {} => Len(t) = Len(p)
           FitBefore == \A i \in 1..Len(p) : (\A k \in open : i < k) =>
                           i <= Len(t) /\ (p[i].kind = "one" \/ p[i].text = t[i])
           GlobFits == \A k \in open : (\A j \in open : k <= j) /\ p[k].kind = "glob" =>
                          k <= Len(t) /\ <<t[k], p[k].text>> \in StartsWith
<1>1. Documented(topic, pattern) <=> NoneOpen /\ FitBefore /\ GlobFits
  BY Zenon DEF Documented
<1> HIDE DEF t, p
<1>2. Len(t) \in Nat /\ Len(p) \in Nat /\ \A k \in 1..Len(p) : p[k] \in PatternSegments
  BY Zenon DEF t, p
<1>3. \A k \in 1..Len(p) : Fits(t, p, k) => k \notin open
  BY <1>2, SegmentsAreOpenOrFit DEF Fits
<1>4. \A k \in 1..Len(p) : k \notin open =>
         (Fits(t, p, k) <=> k <= Len(t) /\ (p[k].kind = "one" \/ p[k].text = t[k]))
  <2> SUFFICES ASSUME NEW k \in 1..Len(p), k \notin open
               PROVE  Fits(t, p, k) <=> k <= Len(t) /\ (p[k].kind = "one" \/ p[k].text = t[k])
    OBVIOUS
  <2>1. p[k] \in PatternSegments /\ p[k].kind \notin {"many", "glob"}
    BY <1>2
  <2>2. (p[k].kind = "one" \/ p[k] = Literal(t[k])) <=> (p[k].kind = "one" \/ p[k].text = t[k])
    BY <2>1, SegmentsAreOpenOrFit, Zenon
  <2> QED BY <2>2, Zenon DEF Fits
<1>5. \A k \in 1..Len(p) : Stops(t, p, k) => k \in open
  BY DEF Stops
<1>6. ASSUME Reach(t, p, 1) PROVE NoneOpen /\ FitBefore /\ GlobFits
  <2>1. CASE \E k \in 1..Len(p) : Stops(t, p, k) /\ \A j \in 1..(k - 1) : Fits(t, p, j)
    <3>1. PICK k \in 1..Len(p) : Stops(t, p, k) /\ \A j \in 1..(k - 1) : Fits(t, p, j)
      BY <2>1
    <3>2. k \in open
      BY <3>1, <1>5
    <3>3. \A j \in 1..(k - 1) : j \in 1..Len(p) /\ Fits(t, p, j) /\ j \notin open
      BY <3>1, <1>2, <1>3
    <3>4. FitBefore
      <4> SUFFICES ASSUME NEW i \in 1..Len(p), \A l \in open : i < l
                   PROVE  i <= Len(t) /\ (p[i].kind = "one" \/ p[i].text = t[i])
        OBVIOUS
      <4>1. i \in 1..(k - 1)
        <5>1. i < k
          BY <3>2, Zenon
        <5> QED BY <5>1, <1>2
      <4>2. i \notin open /\ Fits(t, p, i)
        BY <3>3, <4>1, Zenon
      <4> QED BY <4>2, <1>4, Zenon
    <3>5. \A l \in open : (\A j \in open : l <= j) => l = k
      <4> SUFFICES ASSUME NEW l \in open, l <= k PROVE l = k
        BY <3>2
      <4> QED BY <3>3, <1>2
    <3>6. p[k].kind = "glob" => k <= Len(t) /\ <<t[k], p[k].text>> \in StartsWith
      BY <3>1 DEF Stops
    <3> HIDE DEF open
    <3> QED BY <3>2, <3>4, <3>5, <3>6
  <2>2. CASE Len(t) <= Len(p) /\ \A j \in 1..Len(p) : Fits(t, p, j)
    <3>1. \A j \in 1..Len(p) : j \notin open
      BY <2>2, <1>3, Zenon
    <3>2. open = {}
      BY <3>1
    <3>3. Len(t) = Len(p)
      <4>1. CASE Len(p) = 0
        BY <4>1, <2>2, <1>2
      <4>2. CASE Len(p) # 0
        <5>1. Len(p) \in 1..Len(p)
          BY <4>2, <1>2
        <5>2. Len(p) <= Len(t)
          BY <5>1, <2>2 DEF Fits
        <5> QED BY <5>2, <2>2, <1>2
      <4> QED BY <4>1, <4>2
    <3>4. \A i \in 1..Len(p) : i <= Len(t) /\ (p[i].kind = "one" \/ p[i].text = t[i])
      BY <2>2, <3>1, <1>4, Zenon
    <3> QED BY <3>2, <3>3, <3>4, Zenon
  <2> QED BY <1>6, <2>1, <2>2, Zenon DEF Reach
<1>7. ASSUME NoneOpen, FitBefore, GlobFits PROVE Reach(t, p, 1)
  <2>1. CASE open = {}
    <3>1. \A j \in 1..Len(p) : j \notin open /\ Fits(t, p, j)
      <4> HIDE DEF open
      <4> QED BY <2>1, <1>7, <1>4
    <3>2. Len(t) <= Len(p)
      <4> HIDE DEF open
      <4> QED BY <2>1, <1>7, <1>2
    <3> QED BY <3>1, <3>2, Zenon DEF Reach
  <2>2. CASE open # {}
    <3>1. open \in SUBSET Nat
      BY <1>2
    <3>2. PICK k \in open : \A j \in open : k <= j
      <4> HIDE DEF open
      <4> QED BY <2>2, <3>1, SmallestOf
    <3>3. k \in 1..Len(p) /\ p[k].kind \in {"many", "glob"}
      OBVIOUS
    <3>4. Stops(t, p, k)
      BY <3>2, <3>3, <1>7 DEF Stops
    <3>5. ASSUME NEW j \in 1..(k - 1) PROVE Fits(t, p, j)
      <4>1. j \in 1..Len(p) /\ \A l \in open : j < l
        <5> HIDE DEF open
        <5> QED BY <3>1, <3>2, <3>3, <1>2
      <4>2. j \notin open
        BY <4>1
      <4>3. j <= Len(t) /\ (p[j].kind = "one" \/ p[j].text = t[j])
        BY <4>1, <1>7, Zenon
      <4> QED BY <4>1, <4>2, <4>3, <1>4, Zenon
    <3> QED BY <3>3, <3>4, <3>5, Zenon DEF Reach
  <2> QED BY <2>1, <2>2
<1>8. Reach(t, p, 1) <=> Documented(topic, pattern)
  BY <1>1, <1>6, <1>7, Zenon
<1> QED BY <1>8, Zenon DEF t, p

\* The first n elements of a sequence.
LEMMA PrefixOfSequence ==
    ASSUME NEW T, NEW s, NEW n \in Nat, \A i \in 1..n : s[i] \in T
    PROVE  Len(SubSeq(s, 1, n)) = n /\ \A k \in 1..n : SubSeq(s, 1, n)[k] = s[k]
<1>1. /\ Len(SubSeq(s, 1, n)) = IF 1 <= n THEN n - 1 + 1 ELSE 0
      /\ \A i \in 1..(n - 1 + 1) : SubSeq(s, 1, n)[i] = s[1 + i - 1]
  BY SubSeqProperties
<1> QED BY <1>1

\* What splitting leaves of a topic or a pattern: its segments without a trailing blank one.
LEMMA SegmentsOfSequence ==
    ASSUME NEW T, NEW s \in Seq(T) \ {<<>>}, NEW blank
    PROVE  /\ Len(Segments(s, blank)) \in Nat
           /\ \A k \in 1..Len(Segments(s, blank)) : Segments(s, blank)[k] \in T
           /\ Len(Segments(s, blank)) = 0 => s = <<blank>>
<1>1. Len(s) \in Nat /\ Len(s) # 0
  BY EmptySeq
<1>2. CASE s[Len(s)] = blank
  <2>1. Segments(s, blank) = SubSeq(s, 1, Len(s) - 1)
    BY <1>2, Zenon DEF Segments
  <2>2. /\ Len(SubSeq(s, 1, Len(s) - 1)) = Len(s) - 1
        /\ \A k \in 1..(Len(s) - 1) : SubSeq(s, 1, Len(s) - 1)[k] = s[k] /\ s[k] \in T
    <3> DEFINE n == Len(s) - 1
    <3>1. n \in Nat /\ \A i \in 1..n : s[i] \in T
      BY <1>1
    <3> HIDE DEF n
    <3>2. Len(SubSeq(s, 1, n)) = n /\ \A k \in 1..n : SubSeq(s, 1, n)[k] = s[k]
      BY <3>1, PrefixOfSequence
    <3> QED BY <3>1, <3>2, Zenon DEF n
  <2>3. Len(s) = 1 => s = <<blank>>
    BY <1>1, <1>2
  <2> QED BY <1>1, <2>1, <2>2, <2>3
<1>3. CASE s[Len(s)] # blank
  BY <1>1, <1>3 DEF Segments
<1> QED BY <1>2, <1>3

\* The matcher follows the table on every topic and every well-formed pattern.
LEMMA MatcherFollowsTable ==
    ASSUME NEW topic \in AllTopics, NEW pattern \in AllPatterns, WellFormed(pattern)
    PROVE  matches_topic(topic, pattern) <=> Documented(topic, pattern)
<1> DEFINE t == Segments(topic, Blank)
           p == Segments(pattern, Literal(Blank))
           open == {i \in 1..Len(p) : p[i].kind \in {"many", "glob"}}
<1>1. topic \in Seq(Texts) \ {<<>>} /\ pattern \in Seq(PatternSegments) \ {<<>>}
  BY TopicsAssumption, PatternsAssumption
<1>2. /\ Len(t) \in Nat
      /\ Len(t) = 0 => topic = <<Blank>>
  BY <1>1, SegmentsOfSequence, Zenon
<1>3. /\ Len(p) \in Nat
      /\ \A k \in 1..Len(p) : p[k] \in PatternSegments
      /\ Len(p) = 0 => pattern = <<Literal(Blank)>>
  BY <1>1, SegmentsOfSequence, Zenon
<1>4. match_segments(topic, pattern) <=> Documented(topic, pattern)
  BY <1>2, <1>3, WalkDecidesReach, ReachIsDocumented, Zenon
<1>5. topic = <<Blank>> => Len(t) = 0
  BY DEF Segments
<1>6. pattern = <<Literal(Blank)>> => Len(p) = 0
  BY DEF Segments
<1>7. CASE pattern = <<Literal(Blank)>>
  <2>1. matches_topic(topic, pattern) <=> topic = <<Blank>>
    BY <1>7, Zenon DEF matches_topic
  <2>2. Documented(topic, pattern) => Len(t) = Len(p)
    <3>1. {i \in 1..Len(p) : p[i].kind \in {"many", "glob"}} = {}
      <4> HIDE DEF p
      <4> QED BY <1>6, <1>7
    <3> QED BY <3>1, Zenon DEF Documented
  <2>3. Len(t) = 0 /\ Len(p) = 0 => Documented(topic, pattern)
    <3>1. Len(t) = 0 /\ Len(p) = 0 => Reach(t, p, 1)
      <4> HIDE DEF t, p
      <4> QED BY DEF Reach
    <3> QED BY <3>1, <1>2, <1>3, ReachIsDocumented, Zenon
  <2> HIDE DEF t, p
  <2> QED BY <1>2, <1>5, <1>6, <1>7, <2>1, <2>2, <2>3
<1>8. CASE pattern # <<Literal(Blank)>> /\ topic = <<Blank>>
  <2>1. matches_topic(topic, pattern) <=> pattern = <<Many>>
    BY <1>8, Zenon DEF matches_topic
  <2>2. Documented(topic, pattern) <=> Reach(t, p, 1)
    BY <1>2, <1>3, ReachIsDocumented, Zenon
  <2>3. Len(t) = 0 /\ Len(p) \in Nat \ {0}
    BY <1>3, <1>5, <1>8
  <2>4. Reach(t, p, 1) <=> p[1].kind = "many"
    <3> HIDE DEF t, p
    <3>1. \A k \in 1..Len(p) : ~ Fits(t, p, k)
      BY <2>3 DEF Fits
    <3>2. \A k \in 1..Len(p) : Stops(t, p, k) <=> p[k].kind = "many"
      BY <2>3 DEF Stops
    <3>3. 1 \in 1..Len(p) /\ \A j \in 1..(1 - 1) : Fits(t, p, j)
      BY <2>3
    <3>4. ASSUME Reach(t, p, 1) PROVE p[1].kind = "many"
      <4>1. PICK k \in 1..Len(p) : Stops(t, p, k) /\ \A j \in 1..(k - 1) : Fits(t, p, j)
        BY <3>1, <3>3, <3>4, Zenon DEF Reach
      <4>2. 1 \notin 1..(k - 1)
        BY <3>1, <3>3, <4>1, Zenon
      <4>3. k = 1
        BY <4>2, <2>3
      <4> QED BY <3>2, <4>1, <4>3, Zenon
    <3>5. p[1].kind = "many" => Reach(t, p, 1)
      BY <3>2, <3>3, Zenon DEF Reach
    <3> QED BY <3>4, <3>5, Zenon
  <2>5. p[1] = pattern[1]
    BY <1>1, <2>3 DEF Segments
  <2>6. pattern[1].kind = "many" <=> pattern = <<Many>>
    <3>1. Len(pattern) \in Nat \ {0} /\ pattern[1] \in PatternSegments
      BY <1>1, EmptySeq
    <3>2. pattern[1].kind = "many" <=> pattern[1] = Many
      BY <3>1 DEF PatternSegments, Literal, One, Many, Glob
    <3>3. pattern[1].kind = "many" => Len(pattern) = 1
      <4>1. 1 \in 1..Len(pattern)
        BY <3>1
      <4> QED BY <4>1, Zenon DEF WellFormed
    <3>4. Len(pattern) = 1 => pattern = <<pattern[1]>>
      BY <1>1
    <3> QED BY <3>1, <3>2, <3>3, <3>4
  <2> QED BY <2>1, <2>2, <2>4, <2>5, <2>6, Zenon
<1>9. CASE pattern # <<Literal(Blank)>> /\ topic # <<Blank>>
  BY <1>4, <1>9, Zenon DEF matches_topic
<1> QED BY <1>7, <1>8, <1>9

\* The walk with its early returns and the two cases decided before it compute what
\* the table of architecture.md says, for segments, topics and patterns of any
\* number and length.
THEOREM MatcherIsDocumented == Spec => []MatchesAsDocumented
<1>1. MatchesAsDocumented
  BY MatcherFollowsTable, Zenon DEF MatchesAsDocumented
<1> QED BY <1>1, PTL

-----------------------------------------------------------------------------
(* What the lag notices of a stream count.                                 *)

\* f has the sums of the first notices among the first n items.
Sums(f, items, n) == f[0] = 0 /\ \A i \in 1..n : f[i] = f[i - 1] + items[i].missed

\* There are such sums, and only one choice of them.
LEMMA SumsExist ==
    ASSUME NEW items, NEW n \in Nat, \A i \in 1..n : items[i].missed \in Nat
    PROVE  \E f \in [0..n -> Nat] : Sums(f, items, n)
<1> DEFINE S == {k \in Nat : k <= n => \E f \in [0..k -> Nat] : Sums(f, items, k)}
<1>1. 0 \in S
  <2>1. [i \in 0..0 |-> 0] \in [0..0 -> Nat] /\ Sums([i \in 0..0 |-> 0], items, 0)
    BY DEF Sums
  <2> QED BY <2>1
<1>2. ASSUME NEW k \in Nat, k \in S PROVE k + 1 \in S
  <2> SUFFICES ASSUME k + 1 <= n
               PROVE  \E f \in [0..(k + 1) -> Nat] : Sums(f, items, k + 1)
    OBVIOUS
  <2>1. PICK f \in [0..k -> Nat] : Sums(f, items, k)
    BY <1>2
  <2> DEFINE g == [i \in 0..(k + 1) |-> IF i <= k THEN f[i] ELSE f[k] + items[k + 1].missed]
  <2>2. items[k + 1].missed \in Nat
    OBVIOUS
  <2>3. g \in [0..(k + 1) -> Nat]
    BY <2>1, <2>2
  <2>4. g[0] = 0
    BY <2>1 DEF Sums
  <2>5. ASSUME NEW i \in 1..(k + 1) PROVE g[i] = g[i - 1] + items[i].missed
    <3>1. CASE i = k + 1
      BY <3>1
    <3>2. CASE i # k + 1
      <4>1. i \in 1..k /\ g[i] = f[i] /\ g[i - 1] = f[i - 1]
        BY <3>2
      <4> QED BY <2>1, <4>1 DEF Sums
    <3> QED BY <3>1, <3>2
  <2> HIDE DEF g
  <2> QED BY <2>3, <2>4, <2>5 DEF Sums
<1>3. n \in S
  <2> HIDE DEF S
  <2> QED BY <1>1, <1>2, InductionOverSets
<1> QED BY <1>3

\* Two functions with the sums of the same items agree on them.
LEMMA SumsAgree ==
    ASSUME NEW items, NEW n \in Nat, NEW f, NEW g, Sums(f, items, n), Sums(g, items, n)
    PROVE  \A i \in 0..n : f[i] = g[i]
<1> DEFINE S == {k \in Nat : k <= n => f[k] = g[k]}
<1>1. 0 \in S
  BY DEF Sums
<1>2. ASSUME NEW k \in Nat, k \in S PROVE k + 1 \in S
  <2> SUFFICES ASSUME k + 1 <= n PROVE f[k + 1] = g[k + 1]
    OBVIOUS
  <2>1. f[k] = g[k] /\ k + 1 \in 1..n /\ (k + 1) - 1 = k
    BY <1>2
  <2>2. f[k + 1] = f[(k + 1) - 1] + items[k + 1].missed
    BY <2>1 DEF Sums
  <2>3. g[k + 1] = g[(k + 1) - 1] + items[k + 1].missed
    BY <2>1 DEF Sums
  <2> QED BY <2>1, <2>2, <2>3
<1>3. Nat \subseteq S
  <2> HIDE DEF S
  <2> QED BY <1>1, <1>2, InductionOverSets
<1> QED BY <1>3

\* The total that the definition computes by recursion is the last of the sums.
LEMMA TotalMissedIsSum ==
    ASSUME NEW items, Len(items) \in Nat, \A i \in 1..Len(items) : items[i].missed \in Nat
    PROVE  \E f \in [0..Len(items) -> Nat] :
              Sums(f, items, Len(items)) /\ TotalMissed(items) = f[Len(items)]
<1> DEFINE n == Len(items)
           Solves(f) == f = [i \in 0..n |-> IF i = 0 THEN 0 ELSE f[i - 1] + items[i].missed]
           upTo == CHOOSE f : Solves(f)
<1>1. TotalMissed(items) = upTo[n]
  BY Zenon DEF TotalMissed
<1> HIDE DEF n
<1>2. n \in Nat /\ \A i \in 1..n : items[i].missed \in Nat
  BY DEF n
<1>3. PICK f \in [0..n -> Nat] : Sums(f, items, n)
  BY <1>2, SumsExist
<1>4. Solves(f)
  <2>1. \A i \in 0..n : f[i] = IF i = 0 THEN 0 ELSE f[i - 1] + items[i].missed
    BY <1>2, <1>3 DEF Sums
  <2> QED BY <1>3, <2>1, Zenon
<1>5. Solves(upTo)
  BY <1>4, Zenon
<1> HIDE DEF upTo
<1>6. Sums(upTo, items, n)
  <2>1. \A i \in 0..n : upTo[i] = IF i = 0 THEN 0 ELSE upTo[i - 1] + items[i].missed
    BY <1>5, Zenon
  <2>2. 0 \in 0..n /\ \A i \in 1..n : i \in 0..n /\ i # 0
    BY <1>2
  <2> QED BY <2>1, <2>2, Zenon DEF Sums
<1>7. n \in 0..n
  BY <1>2
<1>8. f[n] = upTo[n]
  <2>1. \A i \in 0..n : f[i] = upTo[i]
    BY <1>2, <1>3, <1>6, SumsAgree
  <2> QED BY <2>1, <1>7
<1>9. Sums(f, items, n) /\ TotalMissed(items) = f[n]
  BY <1>1, <1>3, <1>8, Zenon DEF n
<1> QED BY <1>3, <1>9, Zenon DEF n

Items == [event : Nat, missed : Nat]

\* One more notice adds what it counts.
LEMMA TotalMissedOfAppend ==
    ASSUME NEW items \in Seq(Items), NEW x \in Items
    PROVE  /\ TotalMissed(items) \in Nat
           /\ TotalMissed(Append(items, x)) = TotalMissed(items) + x.missed
<1> DEFINE n == Len(items)
           more == Append(items, x)
<1>1. n \in Nat /\ \A i \in 1..n : items[i].missed \in Nat
  <2>1. n \in Nat /\ \A i \in 1..n : items[i] \in Items
    OBVIOUS
  <2> QED BY <2>1 DEF Items
<1>2. /\ Len(more) = n + 1
      /\ \A i \in 1..n : more[i] = items[i]
      /\ more[n + 1] = x
      /\ \A i \in 1..(n + 1) : more[i].missed \in Nat
  <2>1. Len(more) = n + 1 /\ (\A i \in 1..n : more[i] = items[i]) /\ more[n + 1] = x
    OBVIOUS
  <2>2. x.missed \in Nat
    BY DEF Items
  <2> HIDE DEF more
  <2> QED BY <1>1, <2>1, <2>2
<1>3. PICK f \in [0..n -> Nat] : Sums(f, items, n) /\ TotalMissed(items) = f[n]
  BY <1>1, TotalMissedIsSum
<1> HIDE DEF more
<1>4. PICK g \in [0..(n + 1) -> Nat] : Sums(g, more, n + 1) /\ TotalMissed(more) = g[n + 1]
  BY <1>1, <1>2, TotalMissedIsSum
<1> HIDE DEF n
<1>5. Sums(g, items, n)
  BY <1>1, <1>2, <1>4 DEF Sums
<1>6. f[n] = g[n]
  BY <1>1, <1>3, <1>5, SumsAgree
<1>7. g[n + 1] = g[n] + x.missed
  BY <1>1, <1>2, <1>4 DEF Sums
<1> QED BY <1>1, <1>3, <1>4, <1>6, <1>7 DEF more

\* A stream that has told nothing has counted nothing.
LEMMA TotalMissedOfNothing == TotalMissed(<<>>) = 0
<1>1. Len(<<>>) = 0
  OBVIOUS
<1>2. \E f \in [0..0 -> Nat] : Sums(f, <<>>, 0) /\ TotalMissed(<<>>) = f[0]
  BY <1>1, TotalMissedIsSum
<1> QED BY <1>2 DEF Sums

-----------------------------------------------------------------------------
(* What a stream has handed over.                                          *)

EventsOf(items) == {items[i].event : i \in 1..Len(items)} \ {0}

InOrder(items) ==
    \A i, j \in 1..Len(items) :
        i < j /\ items[i].event # 0 /\ items[j].event # 0 => items[i].event < items[j].event

\* Handing over one more item.
LEMMA EventsOfAppend ==
    ASSUME NEW items \in Seq(Items), NEW x \in Items
    PROVE  EventsOf(Append(items, x)) = EventsOf(items) \cup ({x.event} \ {0})
<1> DEFINE n == Len(items)
           more == Append(items, x)
<1>1. n \in Nat /\ Len(more) = n + 1 /\ (\A i \in 1..n : more[i] = items[i]) /\ more[n + 1] = x
  OBVIOUS
<1> HIDE DEF more
<1>2. EventsOf(more) \subseteq EventsOf(items) \cup ({x.event} \ {0})
  <2> SUFFICES ASSUME NEW i \in 1..(n + 1), more[i].event # 0
               PROVE  more[i].event \in EventsOf(items) \cup {x.event}
    BY <1>1 DEF EventsOf
  <2>1. CASE i = n + 1
    BY <1>1, <2>1
  <2>2. CASE i # n + 1
    <3>1. i \in 1..n
      BY <1>1, <2>2
    <3> QED BY <1>1, <3>1 DEF EventsOf
  <2> QED BY <2>1, <2>2
<1>3. EventsOf(items) \subseteq EventsOf(more)
  <2> SUFFICES ASSUME NEW i \in 1..n, items[i].event # 0
               PROVE  items[i].event \in EventsOf(more)
    BY DEF EventsOf
  <2>1. i \in 1..Len(more) /\ more[i].event = items[i].event
    BY <1>1
  <2> QED BY <2>1 DEF EventsOf
<1>4. {x.event} \ {0} \subseteq EventsOf(more)
  <2>1. n + 1 \in 1..Len(more) /\ more[n + 1] = x
    BY <1>1
  <2> QED BY <2>1 DEF EventsOf
<1> QED BY <1>2, <1>3, <1>4 DEF more

\* Items stay in order if the new one is later than all of them or is no event.
LEMMA OrderOfAppend ==
    ASSUME NEW items \in Seq(Items), NEW x \in Items, InOrder(items),
           x.event # 0 => \A e \in EventsOf(items) : e < x.event
    PROVE  InOrder(Append(items, x))
<1> DEFINE n == Len(items)
           more == Append(items, x)
<1>1. n \in Nat /\ Len(more) = n + 1 /\ (\A i \in 1..n : more[i] = items[i]) /\ more[n + 1] = x
  OBVIOUS
<1> HIDE DEF more
<1>2. ASSUME NEW i \in 1..(n + 1), NEW j \in 1..(n + 1), i < j,
             more[i].event # 0, more[j].event # 0
      PROVE  more[i].event < more[j].event
  <2>1. i \in 1..n /\ more[i] = items[i]
    BY <1>1, <1>2
  <2>2. CASE j = n + 1
    <3>1. items[i].event \in EventsOf(items)
      BY <1>2, <2>1, Zenon DEF EventsOf
    <3>2. more[j] = x
      BY <1>1, <2>2
    <3> QED BY <1>2, <2>1, <3>1, <3>2
  <2>3. CASE j # n + 1
    <3>1. j \in 1..n /\ more[j] = items[j]
      BY <1>1, <2>3
    <3> QED BY <1>2, <2>1, <3>1 DEF InOrder
  <2> QED BY <2>2, <2>3
<1>3. InOrder(more)
  BY <1>1, <1>2 DEF InOrder
<1> QED BY <1>3 DEF more

\* A set that grows by at most the positions a..(b - 1) grows by at most b - a.
LEMMA GrowsByAtMost ==
    ASSUME NEW S, IsFiniteSet(S), NEW a \in Nat, NEW b \in Nat, a <= b,
           NEW T, T \subseteq S \cup (a..(b - 1))
    PROVE  Cardinality(T) <= Cardinality(S) + (b - a)
<1>1. IsFiniteSet(a..(b - 1)) /\ Cardinality(a..(b - 1)) = b - a
  <2>1. /\ IsFiniteSet(a..(b - 1))
        /\ Cardinality(a..(b - 1)) = IF a > b - 1 THEN 0 ELSE (b - 1) - a + 1
    BY FS_Interval
  <2> QED BY <2>1
<1>2. /\ IsFiniteSet(S \cup (a..(b - 1)))
      /\ Cardinality(S \cup (a..(b - 1)))
            = Cardinality(S) + Cardinality(a..(b - 1)) - Cardinality(S \cap (a..(b - 1)))
  BY <1>1, FS_Union
<1>3. IsFiniteSet(S \cap (a..(b - 1)))
  BY <1>1, FS_Intersection
<1>4. Cardinality(T) <= Cardinality(S \cup (a..(b - 1)))
  BY <1>2, FS_Subset
<1>5. /\ IsFiniteSet(T)
  BY <1>2, FS_Subset
<1>6. /\ Cardinality(S) \in Nat /\ Cardinality(T) \in Nat
      /\ Cardinality(S \cap (a..(b - 1))) \in Nat
      /\ Cardinality(S \cup (a..(b - 1))) \in Nat
  BY <1>2, <1>3, <1>5, FS_CardinalityType
<1> QED BY <1>1, <1>2, <1>4, <1>6

-----------------------------------------------------------------------------
(* The streams.                                                            *)

\* The oldest event of the channel is a position of the log or the next one.
LEMMA OldestIsAPosition ==
    ASSUME StreamTypeOK
    PROVE  /\ Len(log) \in Nat /\ Oldest \in Nat /\ Oldest >= 1 /\ Oldest <= Len(log) + 1
           /\ \A n \in Nat : n >= 1 /\ n < Oldest => n + Capacity <= Len(log)
  BY CapacityAssumption DEF StreamTypeOK, Oldest

\* What a stream hands over, as a record.
LEMMA ItemsAreRecords ==
    /\ \A n \in Nat : Deliver(n) \in Items /\ Deliver(n).event = n /\ Deliver(n).missed = 0
    /\ \A n \in Nat : Lagged(n) \in Items /\ Lagged(n).event = 0 /\ Lagged(n).missed = n
  BY DEF Deliver, Lagged, Items

\* Pushing an item onto what a stream has told.
LEMMA PushedItems ==
    ASSUME out \in [Streams -> Seq(Items)], NEW s \in Streams, NEW x \in Items, Push(s, x)
    PROVE  /\ out' \in [Streams -> Seq(Items)]
           /\ out'[s] = Append(out[s], x)
           /\ \A r \in Streams : r # s => out'[r] = out[r]
<1>1. Append(out[s], x) \in Seq(Items)
  OBVIOUS
<1> QED BY <1>1 DEF Push

\* Types and positions are kept by every step.
LEMMA StreamTypesStay ==
    ASSUME StreamTypeOK, [Next]_vars
    PROVE  StreamTypeOK'
<1>1. /\ Len(log) \in Nat /\ Oldest \in Nat /\ Oldest >= 1 /\ Oldest <= Len(log) + 1
  BY OldestIsAPosition
<1>0. out \in [Streams -> Seq(Items)]
  BY DEF StreamTypeOK, Items
<1>2. ASSUME NEW t \in Topics, Broadcast(t) PROVE StreamTypeOK'
  <2>1. log' \in Seq(Topics) /\ Len(log') = Len(log) + 1
    BY <1>2 DEF Broadcast, StreamTypeOK
  <2> QED BY <1>1, <1>2, <2>1 DEF Broadcast, StreamTypeOK
<1>3. ASSUME NEW s \in Streams, NEW P \in PatternSets, Subscribe(s, P) PROVE StreamTypeOK'
  BY <1>1, <1>3 DEF Subscribe, StreamTypeOK
<1>4. ASSUME NEW s \in Streams, ReadLag(s) PROVE StreamTypeOK'
  <2>1. Lagged(Oldest - next[s]) \in Items
    <3>1. Oldest - next[s] \in Nat
      BY <1>1, <1>4 DEF ReadLag, StreamTypeOK
    <3> QED BY <3>1, ItemsAreRecords, Zenon
  <2>2. out' \in [Streams -> Seq(Items)]
    <3>1. Push(s, Lagged(Oldest - next[s])) \/ UNCHANGED out
      BY <1>4, Zenon DEF ReadLag
    <3> QED BY <1>0, <2>1, <3>1, PushedItems
  <2>3. next' = [next EXCEPT ![s] = Oldest] /\ UNCHANGED <<log, patterns, since>>
    BY <1>4, Zenon DEF ReadLag
  <2>4. next[s] # Closed /\ next[s] < Oldest
    BY <1>4, Zenon DEF ReadLag
  <2> QED BY <1>1, <2>2, <2>3, <2>4 DEF StreamTypeOK, Items
<1>5. ASSUME NEW s \in Streams, ReadEvent(s) PROVE StreamTypeOK'
  <2>1. next[s] \in Nat /\ Deliver(next[s]) \in Items
    <3>1. next[s] \in Nat
      BY DEF StreamTypeOK
    <3> QED BY <3>1, ItemsAreRecords, Zenon
  <2>2. out' \in [Streams -> Seq(Items)]
    <3>1. Push(s, Deliver(next[s])) \/ UNCHANGED out
      BY <1>5, Zenon DEF ReadEvent
    <3> QED BY <1>0, <2>1, <3>1, PushedItems
  <2>3. next' = [next EXCEPT ![s] = @ + 1] /\ UNCHANGED <<log, patterns, since>>
    BY <1>5, Zenon DEF ReadEvent
  <2>4. next[s] # Closed /\ next[s] \in Oldest..Len(log)
    BY <1>5, Zenon DEF ReadEvent
  <2> QED BY <1>1, <2>1, <2>2, <2>3, <2>4 DEF StreamTypeOK, Items
<1>6. ASSUME NEW s \in Streams, Close(s) PROVE StreamTypeOK'
  <2>1. out' \in [Streams -> Seq(Items)]
    <3>1. <<>> \in Seq(Items)
      OBVIOUS
    <3> QED BY <1>0, <1>6, <3>1 DEF Close
  <2> QED BY <1>1, <1>6, <2>1 DEF Close, Closed, StreamTypeOK, Items
<1>7. CASE UNCHANGED vars
  BY <1>7 DEF vars, StreamTypeOK
<1> QED BY <1>2, <1>3, <1>4, <1>5, <1>6, <1>7 DEF Next

\* A stream that takes no step while the log grows owes and has told what it did before.
Untouched(s) ==
    /\ next'[s] = next[s] /\ patterns'[s] = patterns[s]
    /\ out'[s] = out[s] /\ since'[s] = since[s]
    /\ Len(log) <= Len(log') /\ \A n \in 1..Len(log) : log'[n] = log[n]

\* The positions it has passed were in the log before, and the log only grows.
LEMMA UntouchedStreamsStay ==
    ASSUME StreamTypeOK, NEW s \in Streams, Untouched(s), next[s] # Closed => since[s] # Closed
    PROVE  Delivered(s)' = Delivered(s) /\ Due(s)' = Due(s) /\ Missing(s)' = Missing(s)
<1>1. \A n \in since[s]..(next[s] - 1) : n \in 1..Len(log)
  BY DEF StreamTypeOK, Closed
<1>2. \A t : Wanted(s, t)' <=> Wanted(s, t)
  BY Zenon DEF Untouched, Wanted
<1>3. \A n \in 1..Len(log) : log'[n] = log[n]
  BY Zenon DEF Untouched
<1>4. next'[s] = next[s] /\ since'[s] = since[s] /\ out'[s] = out[s]
  BY Zenon DEF Untouched
<1>5. \A n \in since[s]..(next[s] - 1) : Wanted(s, log[n])' <=> Wanted(s, log[n])
  <2>1. \A n \in since[s]..(next[s] - 1) : \A t : t = log[n] => log'[n] = t
    BY <1>1, <1>3, Zenon
  <2> QED BY <2>1, Zenon DEF Wanted, Untouched
<1>6. Due(s)' = Due(s)
  BY <1>4, <1>5 DEF Due
<1>7. Delivered(s)' = Delivered(s)
  BY <1>4 DEF Delivered
<1> QED BY <1>6, <1>7 DEF Missing

\* What the matcher lets through is what the client asked for.
LEMMA WantedIsMatched ==
    ASSUME StreamTypeOK, NEW s \in Streams, NEW n \in 1..Len(log)
    PROVE  Wanted(s, log[n]) <=> matches_any(log[n], patterns[s])
<1>1. log[n] \in AllTopics
  BY ClientsAssumption DEF StreamTypeOK
<1>2. patterns[s] \subseteq AllPatterns
  BY ClientsAssumption DEF StreamTypeOK
<1> QED BY <1>1, <1>2, MatcherFollowsTable, Zenon DEF Wanted, matches_any

\* A stream that is moved forward hands over nothing, and owes nothing but what it
\* skipped; over HTTP it tells the number of these.
LEMMA OvertakenStream ==
    ASSUME StreamTypeOK, NEW s \in Streams, since[s] # Closed, InOrder(out[s]), ReadLag(s)
    PROVE  /\ Delivered(s)' = Delivered(s) /\ InOrder(out'[s])
           /\ Due(s) \subseteq Due(s)' /\ Due(s)' \subseteq Due(s) \cup (next[s]..(Oldest - 1))
           /\ s \in SseStreams =>
                 TotalMissed(out'[s]) = TotalMissed(out[s]) + (Oldest - next[s])
<1>1. /\ next[s] \in Nat /\ next[s] # 0 /\ next[s] < Oldest /\ Oldest \in Nat
      /\ since[s] \in Nat /\ since[s] # 0
      /\ next'[s] = Oldest /\ UNCHANGED <<log, patterns, since>>
  BY OldestIsAPosition DEF ReadLag, StreamTypeOK, Closed
<1>2. out \in [Streams -> Seq(Items)] /\ out[s] \in Seq(Items)
  BY DEF StreamTypeOK, Items
<1> DEFINE x == Lagged(Oldest - next[s])
<1>3. x \in Items /\ x.event = 0 /\ x.missed = Oldest - next[s]
  <2>1. Oldest - next[s] \in Nat
    BY <1>1
  <2> QED BY <2>1, ItemsAreRecords, Zenon
<1> HIDE DEF x
<1>4. IF s \in SseStreams THEN out'[s] = Append(out[s], x) ELSE out'[s] = out[s]
  <2>1. IF s \in SseStreams THEN Push(s, x) ELSE UNCHANGED out
    BY Zenon DEF ReadLag, x
  <2> QED BY <1>2, <1>3, <2>1, PushedItems
<1>5. EventsOf(out'[s]) = EventsOf(out[s]) /\ InOrder(out'[s])
  <2>1. EventsOf(Append(out[s], x)) = EventsOf(out[s])
    <3>1. EventsOf(Append(out[s], x)) = EventsOf(out[s]) \cup ({x.event} \ {0})
      BY <1>2, <1>3, EventsOfAppend
    <3>2. {x.event} \ {0} = {}
      BY <1>3
    <3> QED BY <3>1, <3>2
  <2>2. InOrder(Append(out[s], x))
    BY <1>2, <1>3, OrderOfAppend
  <2> QED BY <1>4, <2>1, <2>2
<1>6. s \in SseStreams => TotalMissed(out'[s]) = TotalMissed(out[s]) + (Oldest - next[s])
  <2>1. TotalMissed(Append(out[s], x)) = TotalMissed(out[s]) + x.missed
    BY <1>2, <1>3, TotalMissedOfAppend
  <2> QED BY <1>3, <1>4, <2>1
<1>7. Delivered(s)' = EventsOf(out'[s]) /\ Delivered(s) = EventsOf(out[s])
  BY Zenon DEF Delivered, EventsOf
<1>8. \A n : Wanted(s, log[n])' <=> Wanted(s, log[n])
  BY <1>1, Zenon DEF Wanted
<1>9. Due(s)' = {n \in since[s]..(Oldest - 1) : Wanted(s, log[n])}
  BY <1>1, <1>8, Zenon DEF Due
<1>10. Due(s) \subseteq Due(s)' /\ Due(s)' \subseteq Due(s) \cup (next[s]..(Oldest - 1))
  BY <1>1, <1>9 DEF Due
<1> QED BY <1>5, <1>6, <1>7, <1>10

\* A stream that reads an event hands it over exactly if its client wants it.
LEMMA ReadingStream ==
    ASSUME StreamTypeOK, NEW s \in Streams, since[s] # Closed, InOrder(out[s]),
           Delivered(s) \subseteq Due(s), ReadEvent(s)
    PROVE  /\ InOrder(out'[s]) /\ TotalMissed(out'[s]) = TotalMissed(out[s])
           /\ \/ Due(s)' = Due(s) \cup {next[s]} /\ Delivered(s)' = Delivered(s) \cup {next[s]}
              \/ Due(s)' = Due(s) /\ Delivered(s)' = Delivered(s)
<1>1. /\ next[s] \in Nat /\ next[s] # 0 /\ next[s] \in 1..Len(log)
      /\ since[s] \in Nat /\ since[s] # 0 /\ since[s] <= next[s]
      /\ next'[s] = next[s] + 1 /\ UNCHANGED <<log, patterns, since>>
  BY OldestIsAPosition DEF ReadEvent, StreamTypeOK, Closed
<1>2. out \in [Streams -> Seq(Items)] /\ out[s] \in Seq(Items)
  BY DEF StreamTypeOK, Items
<1> DEFINE x == Deliver(next[s])
<1>3. x \in Items /\ x.event = next[s] /\ x.missed = 0
  BY <1>1, ItemsAreRecords, Zenon
<1> HIDE DEF x
<1>4. IF Wanted(s, log[next[s]]) THEN out'[s] = Append(out[s], x) ELSE out'[s] = out[s]
  <2>1. IF Wanted(s, log[next[s]]) THEN Push(s, x) ELSE UNCHANGED out
    BY <1>1, WantedIsMatched, Zenon DEF ReadEvent, x
  <2> QED BY <1>2, <1>3, <2>1, PushedItems
<1>5. Delivered(s)' = EventsOf(out'[s]) /\ Delivered(s) = EventsOf(out[s])
  BY Zenon DEF Delivered, EventsOf
<1>6. \A e \in EventsOf(out[s]) : e < next[s]
  BY <1>1, <1>5 DEF Due
<1>7. /\ EventsOf(Append(out[s], x)) = EventsOf(out[s]) \cup {next[s]}
      /\ InOrder(Append(out[s], x))
      /\ TotalMissed(Append(out[s], x)) = TotalMissed(out[s])
  <2>1. EventsOf(Append(out[s], x)) = EventsOf(out[s]) \cup ({x.event} \ {0})
    BY <1>2, <1>3, EventsOfAppend
  <2>2. InOrder(Append(out[s], x))
    BY <1>2, <1>3, <1>6, OrderOfAppend
  <2>3. TotalMissed(out[s]) \in Nat /\ TotalMissed(Append(out[s], x)) = TotalMissed(out[s]) + x.missed
    BY <1>2, <1>3, TotalMissedOfAppend
  <2> QED BY <1>1, <1>3, <2>1, <2>2, <2>3
<1>8. \A n : Wanted(s, log[n])' <=> Wanted(s, log[n])
  BY <1>1, Zenon DEF Wanted
<1>9. Due(s)' = {n \in since[s]..((next[s] + 1) - 1) : Wanted(s, log[n])}
  BY <1>1, <1>8, Zenon DEF Due
<1>10. CASE Wanted(s, log[next[s]])
  <2>1. Due(s)' = Due(s) \cup {next[s]}
    BY <1>1, <1>9, <1>10 DEF Due
  <2> QED BY <1>4, <1>5, <1>7, <1>10, <2>1
<1>11. CASE ~ Wanted(s, log[next[s]])
  <2>1. Due(s)' = Due(s)
    BY <1>1, <1>9, <1>11 DEF Due
  <2> QED BY <1>4, <1>5, <1>11, <2>1
<1> QED BY <1>10, <1>11

-----------------------------------------------------------------------------
(* The inductive invariant: a closed stream has told nothing, an open one  *)
(* has a subscription, and what was handed over and told fits what is due. *)

Faithful(s) ==
    /\ next[s] = Closed => out[s] = <<>>
    /\ next[s] # Closed => since[s] # Closed
    /\ Delivered(s) \subseteq Due(s)
    /\ InOrder(out[s])
    /\ s \in SseStreams => Cardinality(Missing(s)) <= TotalMissed(out[s])

FaithfulInv == StreamTypeOK /\ \A s \in Streams : Faithful(s)

\* What a stream passes over in a step is older than the channel keeps.
OvertakenOnly(s) == next[s] # Closed /\ next'[s] # Closed =>
                       \A n \in Missing(s)' \ Missing(s) : n + Capacity <= Len(log)

\* A stream that has told nothing and is due nothing misses nothing.
LEMMA NothingTold ==
    EventsOf(<<>>) = {} /\ InOrder(<<>>) /\ TotalMissed(<<>>) = 0 /\ Cardinality({}) = 0
<1>1. EventsOf(<<>>) = {} /\ InOrder(<<>>)
  BY DEF EventsOf, InOrder
<1> QED BY <1>1, TotalMissedOfNothing, FS_EmptySet

\* Before and after a subscription a stream is faithful for want of anything to tell.
LEMMA FreshStream ==
    ASSUME NEW s \in Streams, out'[s] = <<>>, Due(s)' = {}
    PROVE  /\ Delivered(s)' \subseteq Due(s)' /\ InOrder(out[s])'
           /\ (Cardinality(Missing(s)) <= TotalMissed(out[s]))'
<1>1. Delivered(s)' = {} /\ Missing(s)' = {}
  <2>1. Delivered(s)' = EventsOf(<<>>)
    BY Zenon DEF Delivered, EventsOf
  <2>2. Delivered(s)' = {}
    BY <2>1, NothingTold, Zenon
  <2> QED BY <2>2 DEF Missing
<1>2. Cardinality(Missing(s))' = 0 /\ TotalMissed(out[s])' = 0 /\ InOrder(out[s])'
  <2>1. InOrder(out'[s]) /\ TotalMissed(out'[s]) = 0
    BY NothingTold, Zenon
  <2>2. Cardinality(Missing(s)') = 0
    BY <1>1, NothingTold, Zenon
  <2> QED BY <2>1, <2>2
<1> QED BY <1>1, <1>2

\* What a stream misses lies between its subscription and its position.
LEMMA MissingIsFinite ==
    ASSUME StreamTypeOK, NEW s \in Streams
    PROVE  IsFiniteSet(Missing(s)) /\ Cardinality(Missing(s)) \in Nat
<1>1. since[s] \in Int /\ next[s] - 1 \in Int
  BY DEF StreamTypeOK
<1>2. IsFiniteSet(since[s]..(next[s] - 1))
  BY <1>1, FS_Interval
<1>3. Missing(s) \in SUBSET (since[s]..(next[s] - 1))
  BY DEF Missing, Due
<1>4. IsFiniteSet(Missing(s))
  BY <1>2, <1>3, FS_Subset
<1> QED BY <1>4, FS_CardinalityType

\* The notices of a stream count a natural number.
LEMMA TotalMissedIsNatural ==
    ASSUME StreamTypeOK, NEW s \in Streams
    PROVE  TotalMissed(out[s]) \in Nat
<1>1. out[s] \in Seq(Items) /\ Lagged(0) \in Items
  BY ItemsAreRecords DEF StreamTypeOK, Items
<1> QED BY <1>1, TotalMissedOfAppend

\* Each kind of step keeps a stream faithful.
LEMMA UntouchedStaysFaithful ==
    ASSUME StreamTypeOK, NEW s \in Streams, Faithful(s), Untouched(s)
    PROVE  Faithful(s)' /\ OvertakenOnly(s)
<1>1. Delivered(s)' = Delivered(s) /\ Due(s)' = Due(s) /\ Missing(s)' = Missing(s)
  BY UntouchedStreamsStay DEF Faithful
<1>2. next'[s] = next[s] /\ out'[s] = out[s] /\ since'[s] = since[s]
  BY Zenon DEF Untouched
<1>3. OvertakenOnly(s)
  BY <1>1, Zenon DEF OvertakenOnly
<1>4. /\ InOrder(out'[s]) /\ Delivered(s)' \subseteq Due(s)'
      /\ s \in SseStreams => Cardinality(Missing(s)') <= TotalMissed(out'[s])
  BY <1>1, <1>2 DEF Faithful
<1> QED BY <1>2, <1>3, <1>4 DEF Faithful

\* A subscription begins with nothing due;
LEMMA SubscribedStaysFaithful ==
    ASSUME StreamTypeOK, NEW s \in Streams, Faithful(s), NEW P, Subscribe(s, P)
    PROVE  Faithful(s)' /\ OvertakenOnly(s)
<1>1. next[s] = Closed /\ out'[s] = <<>>
  BY DEF Faithful, Subscribe
<1>2. next'[s] = Len(log) + 1 /\ since'[s] = Len(log) + 1 /\ Len(log) \in Nat
  BY DEF Subscribe, StreamTypeOK
<1>3. Due(s)' = {}
  BY <1>2 DEF Due
<1>4. OvertakenOnly(s)
  BY <1>1, Zenon DEF OvertakenOnly
<1>5. since'[s] # Closed /\ next'[s] # Closed
  BY <1>2 DEF Closed
<1> QED BY <1>1, <1>3, <1>4, <1>5, FreshStream, Zenon DEF Faithful

\* ... a stream that is closed is due nothing any more;
LEMMA ClosedStaysFaithful ==
    ASSUME StreamTypeOK, NEW s \in Streams, Close(s)
    PROVE  Faithful(s)' /\ OvertakenOnly(s)
<1>1. out'[s] = <<>> /\ next'[s] = Closed /\ since'[s] = Closed
  BY DEF Close, StreamTypeOK
<1>2. Due(s)' = {}
  BY <1>1 DEF Due, Closed
<1>3. OvertakenOnly(s)
  BY <1>1, Zenon DEF OvertakenOnly
<1> QED BY <1>1, <1>2, <1>3, FreshStream, Zenon DEF Faithful

\* ... a lag notice counts every position that the stream skips;
LEMMA OvertakenStaysFaithful ==
    ASSUME StreamTypeOK, NEW s \in Streams, Faithful(s), ReadLag(s)
    PROVE  Faithful(s)' /\ OvertakenOnly(s)
<1>1. next[s] # Closed /\ since[s] # Closed /\ InOrder(out[s]) /\ Delivered(s) \subseteq Due(s)
  BY Zenon DEF Faithful, ReadLag
<1>2. /\ Delivered(s)' = Delivered(s) /\ InOrder(out'[s])
      /\ Due(s) \subseteq Due(s)' /\ Due(s)' \subseteq Due(s) \cup (next[s]..(Oldest - 1))
      /\ s \in SseStreams => TotalMissed(out'[s]) = TotalMissed(out[s]) + (Oldest - next[s])
  BY <1>1, OvertakenStream
<1>3. /\ next[s] \in Nat /\ next[s] >= 1 /\ next[s] < Oldest /\ Oldest \in Nat
      /\ next'[s] = Oldest /\ since'[s] = since[s]
  BY <1>1, OldestIsAPosition DEF ReadLag, StreamTypeOK, Closed
<1>4. Missing(s)' \subseteq Missing(s) \cup (next[s]..(Oldest - 1))
  BY <1>2 DEF Missing
<1>5. OvertakenOnly(s)
  BY <1>3, <1>4, OldestIsAPosition DEF OvertakenOnly
<1>6. s \in SseStreams => Cardinality(Missing(s)') <= TotalMissed(out'[s])
  <2> SUFFICES ASSUME s \in SseStreams PROVE Cardinality(Missing(s)') <= TotalMissed(out'[s])
    OBVIOUS
  <2>1. Cardinality(Missing(s)') <= Cardinality(Missing(s)) + (Oldest - next[s])
    BY <1>3, <1>4, MissingIsFinite, GrowsByAtMost
  <2>2. Cardinality(Missing(s)) <= TotalMissed(out[s])
    BY DEF Faithful
  <2>3. Cardinality(Missing(s)) \in Nat /\ Cardinality(Missing(s)') \in Nat
    <3>1. IsFiniteSet(Missing(s) \cup (next[s]..(Oldest - 1)))
      <4>1. IsFiniteSet(next[s]..(Oldest - 1))
        BY <1>3, FS_Interval
      <4> QED BY <4>1, MissingIsFinite, FS_Union
    <3>2. IsFiniteSet(Missing(s)')
      BY <3>1, <1>4, FS_Subset
    <3> QED BY <3>2, MissingIsFinite, FS_CardinalityType
  <2>4. TotalMissed(out[s]) \in Nat
    BY TotalMissedIsNatural
  <2> QED BY <1>2, <1>3, <2>1, <2>2, <2>3, <2>4
<1>7. next'[s] # Closed /\ since'[s] # Closed
  BY <1>1, <1>3 DEF Closed
<1>8. Delivered(s)' \subseteq Due(s)'
  BY <1>1, <1>2
<1> QED BY <1>2, <1>5, <1>6, <1>7, <1>8, Zenon DEF Faithful

\* ... and an event is handed over exactly if it becomes due.
LEMMA ReadingStaysFaithful ==
    ASSUME StreamTypeOK, NEW s \in Streams, Faithful(s), ReadEvent(s)
    PROVE  Faithful(s)' /\ OvertakenOnly(s)
<1>1. next[s] # Closed /\ since[s] # Closed /\ InOrder(out[s]) /\ Delivered(s) \subseteq Due(s)
  BY Zenon DEF Faithful, ReadEvent
<1>2. /\ InOrder(out'[s]) /\ TotalMissed(out'[s]) = TotalMissed(out[s])
      /\ \/ Due(s)' = Due(s) \cup {next[s]} /\ Delivered(s)' = Delivered(s) \cup {next[s]}
         \/ Due(s)' = Due(s) /\ Delivered(s)' = Delivered(s)
  BY <1>1, ReadingStream
<1>3. Missing(s)' \subseteq Missing(s) /\ Delivered(s)' \subseteq Due(s)'
  BY <1>1, <1>2 DEF Missing
<1>4. OvertakenOnly(s)
  BY <1>3, Zenon DEF OvertakenOnly
<1>5. Cardinality(Missing(s)') <= Cardinality(Missing(s))
  BY <1>3, MissingIsFinite, FS_Subset
<1>6. s \in SseStreams => Cardinality(Missing(s)') <= TotalMissed(out'[s])
  <2>1. IsFiniteSet(Missing(s)')
    BY <1>3, MissingIsFinite, FS_Subset
  <2>2. Cardinality(Missing(s)) \in Nat /\ Cardinality(Missing(s)') \in Nat
    BY <2>1, MissingIsFinite, FS_CardinalityType
  <2>3. TotalMissed(out[s]) \in Nat
    BY TotalMissedIsNatural
  <2>4. s \in SseStreams => Cardinality(Missing(s)) <= TotalMissed(out[s])
    BY Zenon DEF Faithful
  <2> QED BY <1>2, <1>5, <2>2, <2>3, <2>4
<1>7. next'[s] # Closed /\ since'[s] # Closed
  <2>1. next'[s] = next[s] + 1 /\ since'[s] = since[s] /\ next[s] \in Nat
    BY DEF ReadEvent, StreamTypeOK
  <2> QED BY <1>1, <2>1 DEF Closed
<1> QED BY <1>2, <1>3, <1>4, <1>6, <1>7, Zenon DEF Faithful

\* A step of one stream, and the consumer's broadcast, leave the other streams alone.
LEMMA OthersAreUntouched ==
    ASSUME StreamTypeOK, NEW r \in Streams, NEW s \in Streams, s # r,
           \/ \E P \in PatternSets : Subscribe(r, P)
           \/ ReadLag(r) \/ ReadEvent(r) \/ Close(r)
    PROVE  Untouched(s)
<1>1. Len(log) \in Nat
  BY DEF StreamTypeOK
<1>2. CASE \E P \in PatternSets : Subscribe(r, P)
  BY <1>1, <1>2 DEF Subscribe, StreamTypeOK, Untouched
<1>3. CASE ReadLag(r)
  BY <1>1, <1>3 DEF ReadLag, Push, StreamTypeOK, Untouched
<1>4. CASE ReadEvent(r)
  <2>1. (\E x : Push(r, x)) \/ UNCHANGED out
    BY <1>4, Zenon DEF ReadEvent
  <2>2. next' = [next EXCEPT ![r] = @ + 1] /\ UNCHANGED <<log, patterns, since>>
    BY <1>4, Zenon DEF ReadEvent
  <2> QED BY <1>1, <2>1, <2>2 DEF Push, StreamTypeOK, Untouched
<1>5. CASE Close(r)
  BY <1>1, <1>5 DEF Close, StreamTypeOK, Untouched
<1> QED BY <1>2, <1>3, <1>4, <1>5

\* The consumer broadcasts whatever the streams do.
LEMMA BroadcastTouchesNoStream ==
    ASSUME StreamTypeOK, NEW s \in Streams, (\E t \in Topics : Broadcast(t)) \/ UNCHANGED vars
    PROVE  Untouched(s)
<1>1. Len(log) \in Nat
  BY DEF StreamTypeOK
<1>2. CASE \E t \in Topics : Broadcast(t)
  <2>1. PICK t \in Topics : log' = Append(log, t) /\ UNCHANGED <<next, patterns, out, since>>
    BY <1>2, Zenon DEF Broadcast
  <2>2. Len(log') = Len(log) + 1 /\ \A n \in 1..Len(log) : log'[n] = log[n]
    BY <2>1 DEF StreamTypeOK
  <2> QED BY <1>1, <2>1, <2>2 DEF Untouched
<1>3. CASE UNCHANGED vars
  BY <1>1, <1>3 DEF vars, Untouched
<1> QED BY <1>2, <1>3

\* Every step keeps all streams faithful, and what it passes over had been overtaken.
LEMMA StepsStayFaithful ==
    ASSUME FaithfulInv, [Next]_vars
    PROVE  FaithfulInv' /\ \A s \in Streams : OvertakenOnly(s)
<1>1. StreamTypeOK /\ StreamTypeOK'
  BY StreamTypesStay DEF FaithfulInv
<1>2. ASSUME NEW s \in Streams PROVE Faithful(s)' /\ OvertakenOnly(s)
  <2>0. Faithful(s)
    BY DEF FaithfulInv
  <2>1. CASE Untouched(s)
    BY <1>1, <2>0, <2>1, UntouchedStaysFaithful
  <2>2. CASE (\E t \in Topics : Broadcast(t)) \/ UNCHANGED vars
    BY <1>1, <2>1, <2>2, BroadcastTouchesNoStream
  <2>3. ASSUME NEW r \in Streams, \/ \E P \in PatternSets : Subscribe(r, P)
                                  \/ ReadLag(r) \/ ReadEvent(r) \/ Close(r)
        PROVE  Faithful(s)' /\ OvertakenOnly(s)
    <3>1. CASE r # s
      BY <1>1, <2>1, <2>3, <3>1, OthersAreUntouched
    <3>2. CASE r = s
      BY <1>1, <2>0, <2>3, <3>2, SubscribedStaysFaithful, OvertakenStaysFaithful,
         ReadingStaysFaithful, ClosedStaysFaithful, Zenon
    <3> QED BY <3>1, <3>2
  <2> QED BY <2>2, <2>3, Zenon DEF Next
<1> QED BY <1>1, <1>2, Zenon DEF FaithfulInv

\* No stream is open at first.
LEMMA StreamsStartFaithful ==
    ASSUME Init
    PROVE  FaithfulInv
<1>1. StreamTypeOK
  <2>1. <<>> \in Seq(Topics) /\ <<>> \in Seq([event : Nat, missed : Nat])
    OBVIOUS
  <2> QED BY <2>1 DEF Init, StreamTypeOK, Closed
<1>2. ASSUME NEW s \in Streams PROVE Faithful(s)
  <2>1. next[s] = Closed /\ since[s] = Closed /\ out[s] = <<>>
    BY DEF Init
  <2>2. Due(s) = {}
    BY <2>1 DEF Due, Closed
  <2>3. Delivered(s) = {}
    <3>1. Delivered(s) = EventsOf(<<>>)
      BY <2>1, Zenon DEF Delivered, EventsOf
    <3> QED BY <3>1, NothingTold, Zenon
  <2>4. Missing(s) = {}
    BY <2>2 DEF Missing
  <2>5. InOrder(out[s]) /\ TotalMissed(out[s]) = 0 /\ Cardinality(Missing(s)) = 0
    BY <2>1, <2>4, NothingTold, Zenon
  <2> QED BY <2>1, <2>2, <2>3, <2>5 DEF Faithful
<1> QED BY <1>1, <1>2 DEF FaithfulInv

\* The invariant says what the run checks of a stream.
LEMMA FaithfulIsPromised ==
    ASSUME FaithfulInv
    PROVE  StreamsAreFaithful
<1>1. StreamTypeOK /\ \A s \in Streams : Faithful(s)
  BY Zenon DEF FaithfulInv
<1>2. \A s \in Streams : Delivered(s) \subseteq Due(s)
  BY <1>1, Zenon DEF Faithful
<1>3. \A s \in Streams : \A i, j \in 1..Len(out[s]) :
         i < j /\ out[s][i].event # 0 /\ out[s][j].event # 0
             => out[s][i].event < out[s][j].event
  BY <1>1, Zenon DEF Faithful, InOrder
<1>4. \A s \in SseStreams : Cardinality(Missing(s)) <= TotalMissed(out[s])
  BY <1>1, StreamsAssumption, Zenon DEF Faithful
<1> QED BY <1>1, <1>2, <1>3, <1>4, Zenon DEF StreamsAreFaithful

\* However far a stream falls behind and however often clients come and go: it hands
\* over only events that its client asked for and that were broadcast after its
\* subscription, each once and in order, and the lag notices of an SSE stream count
\* at least the matching events it did not hand over.
THEOREM StreamsStayFaithful == Spec => []StreamsAreFaithful
<1>1. Init => FaithfulInv
  BY StreamsStartFaithful
<1>2. FaithfulInv /\ [Next]_vars => FaithfulInv'
  BY StepsStayFaithful
<1>3. FaithfulInv => StreamsAreFaithful
  BY FaithfulIsPromised
<1> QED BY <1>1, <1>2, <1>3, PTL DEF Spec

\* Whatever a stream passes over without handing it over was older than the Capacity
\* newest events when it did, for every capacity.
THEOREM OnlyOvertakenAreMissing == Spec => OnlyOvertakenEventsAreMissing
<1>1. Init => FaithfulInv
  BY StreamsStartFaithful
<1>2. FaithfulInv /\ [Next]_vars => FaithfulInv'
  BY StepsStayFaithful
<1>3. FaithfulInv /\ [Next]_vars =>
         [\A s \in Streams : next[s] # Closed /\ next'[s] # Closed =>
             \A n \in Missing(s)' \ Missing(s) : n + Capacity <= Len(log)]_vars
  BY StepsStayFaithful, Zenon DEF OvertakenOnly
<1> QED BY <1>1, <1>2, <1>3, PTL DEF Spec, OnlyOvertakenEventsAreMissing

=============================================================================
