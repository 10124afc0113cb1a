------------------------------ MODULE Delivery ------------------------------
(***************************************************************************)
(* SubscriberDispatcher: the fan-out of a message to the subscribers, the  *)
(* cache of endpoints it works from, the circuit breaker of each endpoint, *)
(* and the task that refreshes the cache from the subscribers table.       *)
(*                                                                         *)
(* A delivery takes the lock of the cache twice, to ask the breaker and to *)
(* record the outcome, and releases it during the call; a refresh reads    *)
(* the table first and takes the lock later.  Deliveries of one fan-out,   *)
(* refreshes and changes of the table interleave at those points.          *)
(***************************************************************************)
EXTENDS Integers, FiniteSets

CONSTANTS
    Subs,              \* subscribers
    FailureThreshold,  \* failures that open a closed breaker
    SuccessThreshold,  \* successes that close a half-open breaker
    FanOut             \* fan_out_concurrency

ASSUME SubsAssumption       == IsFiniteSet(Subs)
ASSUME ThresholdsAssumption == /\ FailureThreshold \in Nat \ {0}
                               /\ SuccessThreshold \in Nat \ {0}
                               /\ FanOut \in Nat \ {0}

VARIABLES
    active,      \* subscribers whose row is active
    endpoints,   \* keys of the endpoint cache
    breaker,     \* circuit breaker of each endpoint; Fresh for the absent ones
    delivery,    \* progress of the fan-out at each subscriber
    snapshot,    \* what a refresh has read and not merged: no set or one set
    run          \* ghost: length of the run of equal outcomes recorded by each
                 \* breaker, negative for failures

cache == <<endpoints, breaker, run>>
vars  == <<active, cache, delivery, snapshot>>

State    == {"closed", "open", "half_open"}
Breaker  == [state : State, failures : Nat, successes : Nat, cooled : BOOLEAN]
Progress == {"none", "queued", "calling"}

\* CircuitBreaker::new
Fresh == [state |-> "closed", failures |-> 0, successes |-> 0, cooled |-> FALSE]

TypeOK ==
    /\ active \subseteq Subs
    /\ endpoints \subseteq Subs
    /\ breaker \in [Subs -> Breaker]
    /\ delivery \in [Subs -> Progress]
    /\ snapshot \subseteq SUBSET Subs
    /\ run \in [Subs -> Int]

Init ==
    /\ active \in SUBSET Subs
    /\ endpoints = {}
    /\ breaker = [s \in Subs |-> Fresh]
    /\ delivery = [s \in Subs |-> "none"]
    /\ snapshot = {}
    /\ run = [s \in Subs |-> 0]

-----------------------------------------------------------------------------
(* The circuit breaker.  `failures` only matters up to the threshold, so    *)
(* the model stops counting there (CapFailures), as do the ghost runs.      *)

CapFailures(n) == IF n > FailureThreshold THEN FailureThreshold ELSE n

LongerRun(n, ok) ==
    LET cap == FailureThreshold + SuccessThreshold
    IN  IF ok THEN (IF n < 0 THEN 1 ELSE IF n = cap THEN n ELSE n + 1)
              ELSE (IF n > 0 THEN -1 ELSE IF n = -cap THEN n ELSE n - 1)

\* can_execute: whether a call may go out,
CanExecute(b) == b.state # "open" \/ b.cooled

\* Mutant: a breaker that has cooled lets calls through and stays open.
ProbingStaysOpen(b) == b

\* ... and the breaker after it: one that has cooled is half open from here.
Probing(b) ==
    IF b.state = "open" /\ b.cooled
    THEN [b EXCEPT !.state = "half_open", !.successes = 0]
    ELSE b

\* Mutant: a success does not end a run of failures.
RecordSuccessKeepsFailures(b) ==
    CASE b.state = "closed"    -> b
      [] b.state = "half_open" -> IF b.successes + 1 >= SuccessThreshold THEN Fresh
                                  ELSE [b EXCEPT !.successes = @ + 1]
      [] b.state = "open"      -> [b EXCEPT !.state = "half_open", !.successes = 0]

\* Mutant: the first successful probe closes the breaker.
RecordSuccessClosesAtOnce(b) ==
    CASE b.state = "closed"    -> [b EXCEPT !.failures = 0]
      [] b.state = "half_open" -> Fresh
      [] b.state = "open"      -> [b EXCEPT !.state = "half_open", !.successes = 0]

RecordSuccess(b) ==
    CASE b.state = "closed"    -> [b EXCEPT !.failures = 0]
      [] b.state = "half_open" -> IF b.successes + 1 >= SuccessThreshold THEN Fresh
                                  ELSE [b EXCEPT !.successes = @ + 1]
      [] b.state = "open"      -> [b EXCEPT !.state = "half_open", !.successes = 0]

RecordFailure(b) ==
    LET c == [b EXCEPT !.failures = CapFailures(@ + 1)]
    IN  IF b.state = "closed" /\ c.failures < FailureThreshold THEN c
        ELSE [c EXCEPT !.state = "open", !.cooled = FALSE,
                       !.successes = IF b.state = "half_open" THEN 0 ELSE @]

\* open_duration has passed since the breaker opened.
CoolsDown(s) ==
    /\ s \in endpoints
    /\ breaker[s].state = "open"
    /\ ~breaker[s].cooled
    /\ breaker' = [breaker EXCEPT ![s].cooled = TRUE]
    /\ UNCHANGED <<active, endpoints, run, delivery, snapshot>>

-----------------------------------------------------------------------------
(* The subscribers table and the refresh of the cache.                     *)

\* Registering and reactivating by an update make a row active; unregistering
\* and an update that says so make it inactive.
Activate(s) ==
    /\ s \notin active
    /\ active' = active \cup {s}
    /\ UNCHANGED <<cache, delivery, snapshot>>

Deactivate(s) ==
    /\ s \in active
    /\ active' = active \ {s}
    /\ UNCHANGED <<cache, delivery, snapshot>>

\* load_subscribers; if the query fails nothing happens until the next tick.
Load ==
    /\ snapshot = {}
    /\ snapshot' = {active}
    /\ UNCHANGED <<active, cache, delivery>>

\* Mutant: the map is only retained, newcomers are forgotten.
MergeAddsNobody ==
    \E S \in snapshot :
        /\ endpoints' = endpoints \cap S
        /\ breaker' = [s \in Subs |-> IF s \in endpoints \cap S THEN breaker[s] ELSE Fresh]
        /\ run' = [s \in Subs |-> IF s \in endpoints \cap S THEN run[s] ELSE 0]
        /\ snapshot' = {}
        /\ UNCHANGED <<active, delivery>>

\* merge_subscribers: others leave, newcomers get a fresh breaker.
Merge ==
    \E S \in snapshot :
        /\ endpoints' = S
        /\ breaker' = [s \in Subs |-> IF s \in endpoints \cap S THEN breaker[s] ELSE Fresh]
        /\ run' = [s \in Subs |-> IF s \in endpoints \cap S THEN run[s] ELSE 0]
        /\ snapshot' = {}
        /\ UNCHANGED <<active, delivery>>

-----------------------------------------------------------------------------
(* The fan-out.  The consumer loop awaits one dispatch_to_all at a time.    *)

Calling == {s \in Subs : delivery[s] = "calling"}
Idle    == \A s \in Subs : delivery[s] = "none"

\* get_matching_subscribers: M are the cached ones the topic matches.
DispatchToAll(M) ==
    /\ Idle
    /\ M # {}
    /\ M \subseteq endpoints
    /\ delivery' = [s \in Subs |-> IF s \in M THEN "queued" ELSE "none"]
    /\ UNCHANGED <<active, cache, snapshot>>

\* Mutant: the concurrency is one too low, and may be zero.
AdmittedOneLess == Cardinality(Calling) < FanOut - 1

\* buffer_unordered polls at most this many deliveries at a time.
Admitted == Cardinality(Calling) < FanOut

\* dispatch, up to the call: the endpoint is looked up, or created again if it
\* left the cache meanwhile, and the breaker asked.  A refused delivery is
\* over.
Dispatch(s) ==
    /\ delivery[s] = "queued"
    /\ Admitted
    /\ endpoints' = endpoints \cup {s}
    /\ breaker' = [breaker EXCEPT ![s] = Probing(@)]
    /\ delivery' = [delivery EXCEPT ![s] = IF CanExecute(breaker[s]) THEN "calling" ELSE "none"]
    /\ UNCHANGED <<active, run, snapshot>>

\* The call returns or the timeout of ten seconds ends it; the outcome is
\* recorded if the endpoint is still there.  An answer that says the delivery
\* failed is a success for the breaker.
Record(s, ok) ==
    /\ delivery[s] = "calling"
    /\ delivery' = [delivery EXCEPT ![s] = "none"]
    /\ IF s \in endpoints
       THEN /\ breaker' = [breaker EXCEPT ![s] = IF ok THEN RecordSuccess(@) ELSE RecordFailure(@)]
            /\ run' = [run EXCEPT ![s] = LongerRun(@, ok)]
       ELSE UNCHANGED <<breaker, run>>
    /\ UNCHANGED <<active, endpoints, snapshot>>

Deliver(s) == Dispatch(s) \/ Record(s, TRUE) \/ Record(s, FALSE)

Next ==
    \/ Load \/ Merge
    \/ \E M \in SUBSET Subs : DispatchToAll(M)
    \/ \E s \in Subs : Deliver(s) \/ CoolsDown(s) \/ Activate(s) \/ Deactivate(s)

Spec == Init /\ [][Next]_vars

\* The runtime polls its tasks, calls end by their timeout, the interval ticks
\* and the table can be read now and then, time passes.  Traffic is an
\* assumption: messages for each cached subscriber keep coming.
FairSpec ==
    /\ Spec
    /\ WF_vars(Load) /\ WF_vars(Merge)
    /\ \A s \in Subs :
          /\ WF_vars(Deliver(s))
          /\ WF_vars(CoolsDown(s))
          /\ SF_vars(\E M \in SUBSET Subs : s \in M /\ DispatchToAll(M))

-----------------------------------------------------------------------------
(* What the dispatcher guarantees.                                         *)

\* record_success on an open breaker "should not happen": while a call is out
\* the breaker of its endpoint is never open, although refreshes drop and
\* re-create endpoints during calls.
NoAnswerWhileOpen ==
    \A s \in Subs : delivery[s] = "calling" /\ s \in endpoints => breaker[s].state # "open"

\* Whatever is dropped and re-created, the counters stay below the thresholds
\* that make the breaker move.
CountersBelowThresholds ==
    \A s \in Subs :
        /\ breaker[s].state = "closed" => breaker[s].failures < FailureThreshold
        /\ breaker[s].state = "half_open" => breaker[s].successes < SuccessThreshold

\* Subscribers that a fan-out is calling at the same time.
InFlightBounded == Cardinality(Calling) <= FanOut

\* A closed breaker opens only when FailureThreshold outcomes in a row were
\* failures; refreshes in between neither lengthen nor shorten the run.
OpensAfterFailuresInARow ==
    [][\A s \in Subs :
          breaker[s].state = "closed" /\ breaker'[s].state = "open"
              => run'[s] <= -FailureThreshold]_vars

\* As long as its endpoint stays cached, a breaker that opened closes only
\* after SuccessThreshold successful probes in a row.
ClosesAfterProbesInARow ==
    [][\A s \in endpoints \cap endpoints' :
          breaker[s].state # "closed" /\ breaker'[s].state = "closed"
              => run'[s] >= SuccessThreshold]_vars

\* Every fan-out ends: refused, answered or timed out, no delivery hangs the
\* consumer loop.
FanOutEnds == \A s \in Subs : delivery[s] # "none" ~> delivery[s] = "none"

\* No breaker stays open for ever: as long as its endpoint is cached and
\* messages for it come, it is probed again.
OpenIsProbed ==
    \A s \in Subs :
        breaker[s].state = "open" ~> (breaker[s].state # "open" \/ s \notin endpoints)

\* The cache follows the table: who is registered enters it, and who is
\* unregistered leaves it, although a delivery of a running fan-out may put a
\* subscriber back that a refresh has just removed.
CacheFollowsTable ==
    \A s \in Subs :
        /\ s \in active ~> (s \in endpoints \/ s \notin active)
        /\ s \notin active ~> (s \notin endpoints \/ s \in active)

-----------------------------------------------------------------------------
(* Inductive strengthening.                                                *)

\* An endpoint that is not cached has no history; run and breaker agree.
HistoriesAgree ==
    \A s \in Subs :
        /\ s \notin endpoints => breaker[s] = Fresh /\ run[s] = 0
        /\ breaker[s].state = "closed" /\ breaker[s].failures > 0
              => run[s] <= -breaker[s].failures
        /\ breaker[s].state = "half_open" /\ breaker[s].successes > 0
              => run[s] >= breaker[s].successes

=============================================================================
