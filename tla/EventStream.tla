----------------------------- MODULE EventStream -----------------------------
(***************************************************************************)
(* The live streams: the consumer loop broadcasts every message it has     *)
(* dispatched, and each open stream, gRPC or SSE, reads the broadcast at   *)
(* the pace of its client.  The channel keeps the last Capacity events; a  *)
(* stream that falls behind by more is moved forward, which only SSE tells *)
(* the client.                                                             *)
(***************************************************************************)
EXTENDS TopicMatch, FiniteSets

CONSTANTS
    Streams,    \* connections of clients
    SseStreams, \* the ones over HTTP; the others are gRPC
    Topics,     \* topics the consumer is subscribed to
    PatternSets,\* topic patterns a client may ask for
    Capacity,   \* events the channel keeps
    MaxEvents   \* bound: events broadcast

ASSUME StreamsAssumption  == SseStreams \subseteq Streams
ASSUME ClientsAssumption  == Topics \subseteq AllTopics /\ PatternSets \subseteq SUBSET AllPatterns
ASSUME CapacityAssumption == Capacity \in Nat \ {0} /\ MaxEvents \in Nat

VARIABLES
    log,      \* topics of all events broadcast so far
    next,     \* position each stream reads next, Closed if there is none
    patterns, \* what its client asked for
    out,      \* what it handed to the client
    since     \* ghost: the first position after its subscription

vars == <<log, next, patterns, out, since>>

Closed == 0

\* `event: deliver` with the event at a position, or `event: lagged`.
Deliver(n) == [event |-> n, missed |-> 0]
Lagged(k)  == [event |-> 0, missed |-> k]

StreamTypeOK ==
    /\ log \in Seq(Topics)
    /\ next \in [Streams -> Nat]
    /\ patterns \in [Streams -> PatternSets \cup {{}}]
    /\ out \in [Streams -> Seq([event : Nat, missed : Nat])]
    /\ since \in [Streams -> Nat]
    /\ \A s \in Streams : next[s] # Closed => since[s] <= next[s] /\ next[s] <= Len(log) + 1

Init ==
    /\ log = <<>>
    /\ next = [s \in Streams |-> Closed]
    /\ patterns = [s \in Streams |-> {}]
    /\ out = [s \in Streams |-> <<>>]
    /\ since = [s \in Streams |-> Closed]

\* The oldest position the channel still has.
Oldest == IF Len(log) > Capacity THEN Len(log) - Capacity + 1 ELSE 1

\* The consumer loop sends the event of a message; no receiver is no error.
Broadcast(t) ==
    /\ Len(log) < MaxEvents
    /\ log' = Append(log, t)
    /\ UNCHANGED <<next, patterns, out, since>>

\* subscribe_events_inner: a fresh receiver sees what is sent from now on.
Subscribe(s, P) ==
    /\ next[s] = Closed
    /\ next' = [next EXCEPT ![s] = Len(log) + 1]
    /\ since' = [since EXCEPT ![s] = Len(log) + 1]
    /\ patterns' = [patterns EXCEPT ![s] = P]
    /\ UNCHANGED <<log, out>>

Push(s, item) == out' = [out EXCEPT ![s] = Append(@, item)]

\* Mutant: SSE drops the lag like gRPC.
ReadLagInSilence(s) ==
    /\ next[s] # Closed
    /\ next[s] < Oldest
    /\ next' = [next EXCEPT ![s] = Oldest]
    /\ UNCHANGED <<log, patterns, out, since>>

\* Mutant: a lagging stream starts over with the newest events.
ReadLagToEnd(s) ==
    /\ next[s] # Closed
    /\ next[s] < Oldest
    /\ next' = [next EXCEPT ![s] = Len(log) + 1]
    /\ IF s \in SseStreams THEN Push(s, Lagged(Len(log) + 1 - next[s])) ELSE UNCHANGED out
    /\ UNCHANGED <<log, patterns, since>>

\* Mutant: a lag is taken for an empty channel, the receiver waits.
ReadLagWaits(s) ==
    /\ next[s] # Closed
    /\ next[s] < Oldest
    /\ UNCHANGED vars

\* The receiver has been overtaken: it goes on with the oldest event left, and
\* SSE tells how many it missed; gRPC logs it.
ReadLag(s) ==
    /\ next[s] # Closed
    /\ next[s] < Oldest
    /\ next' = [next EXCEPT ![s] = Oldest]
    /\ IF s \in SseStreams THEN Push(s, Lagged(Oldest - next[s])) ELSE UNCHANGED out
    /\ UNCHANGED <<log, patterns, since>>

\* The next event is handed over if it matches, passed over if not.
ReadEvent(s) ==
    /\ next[s] # Closed
    /\ next[s] \in Oldest..Len(log)
    /\ next' = [next EXCEPT ![s] = @ + 1]
    /\ IF matches_any(log[next[s]], patterns[s]) THEN Push(s, Deliver(next[s]))
       ELSE UNCHANGED out
    /\ UNCHANGED <<log, patterns, since>>

\* The client goes away and the receiver is dropped.
Close(s) ==
    /\ next[s] # Closed
    /\ next' = [next EXCEPT ![s] = Closed]
    /\ since' = [since EXCEPT ![s] = Closed]
    /\ patterns' = [patterns EXCEPT ![s] = {}]
    /\ out' = [out EXCEPT ![s] = <<>>]
    /\ UNCHANGED log

Next ==
    \/ \E t \in Topics : Broadcast(t)
    \/ \E s \in Streams :
          \/ \E P \in PatternSets : Subscribe(s, P)
          \/ ReadLag(s)
          \/ ReadEvent(s)
          \/ Close(s)

Spec == Init /\ [][Next]_vars

\* Clients keep reading what their stream has; nothing else is assumed.
FairSpec == Spec /\ \A s \in Streams : WF_vars(ReadLag(s) \/ ReadEvent(s))

-----------------------------------------------------------------------------
(* What a client may rely on.                                              *)

\* What the client asked for: the table of architecture.md, where it says something.
Wanted(s, topic) ==
    \E p \in patterns[s] : IF WellFormed(p) THEN Documented(topic, p) ELSE matches_topic(topic, p)

\* The events broadcast since the subscription and passed by that the client wants.
Due(s) == {n \in since[s]..(next[s] - 1) : Wanted(s, log[n])}

\* The events handed to the client, and the ones it should have got beside them.
Delivered(s) == {out[s][i].event : i \in 1..Len(out[s])} \ {0}
Missing(s)   == Due(s) \ Delivered(s)

\* The number of events that lag notices count.
TotalMissed(items) ==
    LET upTo[i \in 0..Len(items)] == IF i = 0 THEN 0 ELSE upTo[i - 1] + items[i].missed
    IN  upTo[Len(items)]

\* A stream hands over only what its client asked for and what was broadcast
\* after the subscription, each event once and in order, however far it lags in
\* between; and an SSE client can tell that it missed events: the lag notices
\* it got count at least the matching ones it did not get.
StreamsAreFaithful ==
    /\ StreamTypeOK
    /\ \A s \in Streams :
          /\ Delivered(s) \subseteq Due(s)
          /\ \A i, j \in 1..Len(out[s]) :
                i < j /\ out[s][i].event # 0 /\ out[s][j].event # 0
                    => out[s][i].event < out[s][j].event
    /\ \A s \in SseStreams : Cardinality(Missing(s)) <= TotalMissed(out[s])

\* The matcher, a walk with early returns, computes what the table says.  It does
\* not depend on the state: one look before the first event is enough.
MatchesAsDocumented ==
    log = <<>> =>
        \A t \in AllTopics, p \in AllPatterns :
            WellFormed(p) => (matches_topic(t, p) <=> Documented(t, p))

\* The channel keeps the last Capacity events: whatever a stream fails to hand
\* over was already older than that when the stream passed over it.
OnlyOvertakenEventsAreMissing ==
    [][\A s \in Streams : next[s] # Closed /\ next'[s] # Closed =>
          \A n \in Missing(s)' \ Missing(s) : n + Capacity <= Len(log)]_vars

\* A stream whose client keeps reading gets past every event: falling behind
\* does not end it.
StreamsCatchUp ==
    \A s \in Streams : \A n \in 1..MaxEvents :
        (next[s] # Closed /\ next[s] <= n /\ n <= Len(log)) ~> (next[s] = Closed \/ next[s] > n)

=============================================================================
