--------------------------- MODULE DeliveryProofs ---------------------------
(***************************************************************************)
(* What the circuit breakers guarantee, for any subscribers and thresholds, *)
(* and the channel pools that the deliveries share.                        *)
(***************************************************************************)
EXTENDS Delivery, ChannelPool, FiniteSetTheorems, TLAPS

USE SubsAssumption, ThresholdsAssumption

\* What the operations of a breaker return is a breaker.
LEMMA BreakerOperations ==
    ASSUME NEW b \in Breaker
    PROVE  /\ Probing(b) \in Breaker
           /\ RecordSuccess(b) \in Breaker
           /\ RecordFailure(b) \in Breaker
           /\ Fresh \in Breaker
<1>1. Probing(b) \in Breaker
  <2>1. [b EXCEPT !.state = "half_open", !.successes = 0] \in Breaker
    BY DEF Breaker, State
  <2> QED BY <2>1 DEF Probing
<1>2. RecordSuccess(b) \in Breaker
  <2>1. [b EXCEPT !.failures = 0] \in Breaker
    BY DEF Breaker
  <2>2. [b EXCEPT !.successes = @ + 1] \in Breaker
    BY DEF Breaker
  <2>3. [b EXCEPT !.state = "half_open", !.successes = 0] \in Breaker
    BY DEF Breaker, State
  <2>4. Fresh \in Breaker
    BY DEF Fresh, Breaker, State
  <2>5. b.state \in {"closed", "half_open", "open"}
    BY DEF Breaker, State
  <2>6. CASE b.state = "closed"
    BY <2>1, <2>6 DEF RecordSuccess
  <2>7. CASE b.state = "half_open"
    BY <2>2, <2>4, <2>7 DEF RecordSuccess
  <2>8. CASE b.state = "open"
    BY <2>3, <2>8 DEF RecordSuccess
  <2> QED BY <2>5, <2>6, <2>7, <2>8
<1>3. RecordFailure(b) \in Breaker
  <2> DEFINE c == [b EXCEPT !.failures = CapFailures(@ + 1)]
             o == [c EXCEPT !.state = "open", !.cooled = FALSE,
                            !.successes = IF b.state = "half_open" THEN 0 ELSE @]
  <2>1. CapFailures(b.failures + 1) \in Nat
    BY DEF CapFailures, Breaker
  <2>2. c \in Breaker
    BY <2>1 DEF Breaker
  <2>3. o \in Breaker
    <3> HIDE DEF c
    <3> QED BY <2>2 DEF Breaker, State
  <2>4. RecordFailure(b) = c \/ RecordFailure(b) = o
    BY DEF RecordFailure
  <2> QED BY <2>2, <2>3, <2>4
<1>4. Fresh \in Breaker
  BY DEF Fresh, Breaker, State
<1> QED BY <1>1, <1>2, <1>3, <1>4

\* The ghost run of outcomes stays an integer.
LEMMA LongerRunIsInt ==
    ASSUME NEW n \in Int, NEW ok \in BOOLEAN PROVE LongerRun(n, ok) \in Int
BY DEF LongerRun

\* The dispatcher keeps its types.
THEOREM TypeCorrect == Spec => []TypeOK
<1>1. Init => TypeOK
  BY DEF Init, TypeOK, Fresh, Breaker, State, Progress
<1>2. TypeOK /\ [Next]_vars => TypeOK'
  <2> SUFFICES ASSUME TypeOK, [Next]_vars PROVE TypeOK'
    OBVIOUS
  <2> USE DEF TypeOK
  <2>1. CASE Load
    BY <2>1 DEF Load, cache
  <2>2. CASE Merge
    <3>1. PICK S \in snapshot :
             /\ endpoints' = S
             /\ breaker' = [s \in Subs |-> IF s \in endpoints \cap S THEN breaker[s] ELSE Fresh]
             /\ run' = [s \in Subs |-> IF s \in endpoints \cap S THEN run[s] ELSE 0]
             /\ snapshot' = {}
             /\ UNCHANGED <<active, delivery>>
      BY <2>2 DEF Merge
    <3>2. breaker' \in [Subs -> Breaker]
      BY <3>1, BreakerOperations DEF Fresh, Breaker, State
    <3> QED BY <3>1, <3>2
  <2>3. ASSUME NEW M \in SUBSET Subs, DispatchToAll(M) PROVE TypeOK'
    BY <2>3 DEF DispatchToAll, Progress, cache
  <2>4. ASSUME NEW s \in Subs, Dispatch(s) PROVE TypeOK'
    BY <2>4, BreakerOperations DEF Dispatch, Progress
  <2>5. ASSUME NEW s \in Subs, NEW ok \in BOOLEAN, Record(s, ok) PROVE TypeOK'
    BY <2>5, BreakerOperations, LongerRunIsInt DEF Record, Progress
  <2>6. ASSUME NEW s \in Subs, CoolsDown(s) PROVE TypeOK'
    BY <2>6 DEF CoolsDown, Breaker
  <2>7. ASSUME NEW s \in Subs, Activate(s) \/ Deactivate(s) PROVE TypeOK'
    BY <2>7 DEF Activate, Deactivate, cache
  <2>8. CASE UNCHANGED vars
    BY <2>8 DEF vars, cache
  <2> QED BY <2>1, <2>2, <2>3, <2>4, <2>5, <2>6, <2>7, <2>8 DEF Next, Deliver
<1> QED BY <1>1, <1>2, PTL DEF Spec

-----------------------------------------------------------------------------
(* Breakers move at their thresholds.  The three parts need each other: a  *)
(* call is never out on an open breaker, so an outcome is recorded by a    *)
(* closed or a half-open one, whose counters agree with the ghost runs.    *)

BreakerInv == NoAnswerWhileOpen /\ CountersBelowThresholds /\ HistoriesAgree

\* The same, said of one endpoint.
EndpointInv(cached, b, r, calling) ==
    /\ calling /\ cached => b.state # "open"
    /\ b.state = "closed" => b.failures < FailureThreshold
    /\ b.state = "half_open" => b.successes < SuccessThreshold
    /\ ~cached => b = Fresh /\ r = 0
    /\ b.state = "closed" /\ b.failures > 0 => r <= -b.failures
    /\ b.state = "half_open" /\ b.successes > 0 => r >= b.successes

Endpoint(s) == EndpointInv(s \in endpoints, breaker[s], run[s], delivery[s] = "calling")

\* The invariant speaks of each endpoint by itself.
LEMMA ByEndpoint == BreakerInv <=> \A s \in Subs : Endpoint(s)
BY DEF BreakerInv, NoAnswerWhileOpen, CountersBelowThresholds, HistoriesAgree,
       Endpoint, EndpointInv

\* Recording an outcome keeps the counters below the thresholds and in step
\* with the run; a closed breaker opens only at a full run of failures, a
\* half-open one closes only at a full run of successes.
LEMMA SuccessIsCounted ==
    ASSUME NEW b \in Breaker, NEW r \in Int, EndpointInv(TRUE, b, r, TRUE)
    PROVE  /\ EndpointInv(TRUE, RecordSuccess(b), LongerRun(r, TRUE), FALSE)
           /\ ~(b.state = "closed" /\ RecordSuccess(b).state = "open")
           /\ b.state # "closed" /\ RecordSuccess(b).state = "closed"
                 => LongerRun(r, TRUE) >= SuccessThreshold
<1> USE DEF EndpointInv, RecordSuccess, LongerRun, Breaker
<1>1. CASE b.state = "closed"
  BY <1>1
<1>2. CASE b.state = "half_open"
  BY <1>2 DEF Fresh
<1> QED BY <1>1, <1>2 DEF State

\* A failure lengthens the run of failures that the counter reflects; a breaker it
\* opens has seen a full run, and it never closes one.
LEMMA FailureIsCounted ==
    ASSUME NEW b \in Breaker, NEW r \in Int, EndpointInv(TRUE, b, r, TRUE)
    PROVE  /\ EndpointInv(TRUE, RecordFailure(b), LongerRun(r, FALSE), FALSE)
           /\ b.state = "closed" /\ RecordFailure(b).state = "open"
                 => LongerRun(r, FALSE) <= -FailureThreshold
           /\ ~(b.state # "closed" /\ RecordFailure(b).state = "closed")
<1> USE DEF EndpointInv, RecordFailure, LongerRun, CapFailures, Breaker
<1>1. CASE b.state = "closed"
  BY <1>1
<1>2. CASE b.state = "half_open"
  BY <1>2
<1> QED BY <1>1, <1>2 DEF State

\* What a step of the dispatcher may do to one breaker.
LEMMA StepOfEndpoint ==
    ASSUME TypeOK, BreakerInv, [Next]_vars, NEW s \in Subs
    PROVE  /\ Endpoint(s)'
           /\ breaker[s].state = "closed" /\ breaker'[s].state = "open"
                 => run'[s] <= -FailureThreshold
           /\ s \in endpoints /\ s \in endpoints'
                 /\ breaker[s].state # "closed" /\ breaker'[s].state = "closed"
                 => run'[s] >= SuccessThreshold
<1>a. /\ breaker[s] \in Breaker /\ run[s] \in Int
      /\ EndpointInv(s \in endpoints, breaker[s], run[s], delivery[s] = "calling")
  BY ByEndpoint DEF TypeOK, Endpoint
<1>b. Fresh.state = "closed"
  BY DEF Fresh
<1> USE DEF Endpoint
<1>1. CASE Load
  BY <1>1, <1>a DEF Load, cache
<1>2. CASE Merge
  <2>1. PICK S \in snapshot :
           /\ endpoints' = S
           /\ breaker' = [t \in Subs |-> IF t \in endpoints \cap S THEN breaker[t] ELSE Fresh]
           /\ run' = [t \in Subs |-> IF t \in endpoints \cap S THEN run[t] ELSE 0]
           /\ delivery' = delivery
    BY <1>2 DEF Merge
  <2>2. CASE s \in endpoints \cap S
    <3>1. breaker'[s] = breaker[s] /\ run'[s] = run[s] /\ s \in endpoints'
      BY <2>1, <2>2
    <3> QED BY <1>a, <2>1, <2>2, <3>1 DEF EndpointInv
  <2>3. CASE s \notin endpoints \cap S
    <3>1. breaker'[s] = Fresh /\ run'[s] = 0
      BY <2>1, <2>3
    <3>2. Endpoint(s)'
      BY <2>1, <3>1 DEF EndpointInv, Fresh
    <3> QED BY <1>b, <2>1, <2>3, <3>1, <3>2
  <2> QED BY <2>2, <2>3
<1>3. ASSUME NEW M \in SUBSET Subs, DispatchToAll(M)
      PROVE  /\ Endpoint(s)' /\ UNCHANGED breaker
  BY <1>3, <1>a DEF DispatchToAll, cache, EndpointInv
<1>4. ASSUME NEW t \in Subs, Dispatch(t)
      PROVE  /\ Endpoint(s)'
             /\ breaker[s].state = "closed" <=> breaker'[s].state = "closed"
  <2>1. CASE s = t
    <3>1. /\ s \in endpoints'
          /\ breaker'[s] = Probing(breaker[s])
          /\ run'[s] = run[s]
          /\ delivery'[s] = IF CanExecute(breaker[s]) THEN "calling" ELSE "none"
      BY <1>4, <2>1 DEF Dispatch, TypeOK
    <3> QED BY <1>a, <3>1 DEF EndpointInv, Probing, CanExecute, Fresh, Breaker
  <2>2. CASE s # t
    <3>1. /\ s \in endpoints' <=> s \in endpoints
          /\ breaker'[s] = breaker[s]
          /\ run'[s] = run[s]
          /\ delivery'[s] = delivery[s]
      BY <1>4, <2>2 DEF Dispatch, TypeOK
    <3> QED BY <1>a, <3>1 DEF EndpointInv
  <2> QED BY <2>1, <2>2
<1>5. ASSUME NEW t \in Subs, NEW ok \in BOOLEAN, Record(t, ok)
      PROVE  /\ Endpoint(s)'
             /\ breaker[s].state = "closed" /\ breaker'[s].state = "open"
                   => run'[s] <= -FailureThreshold
             /\ breaker[s].state # "closed" /\ breaker'[s].state = "closed"
                   => run'[s] >= SuccessThreshold
  <2>1. CASE s = t /\ s \in endpoints
    <3>1. /\ s \in endpoints'
          /\ breaker'[s] = IF ok THEN RecordSuccess(breaker[s]) ELSE RecordFailure(breaker[s])
          /\ run'[s] = LongerRun(run[s], ok)
          /\ delivery[s] = "calling" /\ delivery'[s] = "none"
      BY <1>5, <2>1 DEF Record, TypeOK
    <3>2. EndpointInv(TRUE, breaker[s], run[s], TRUE)
      BY <1>a, <2>1, <3>1 DEF EndpointInv
    <3>3. Endpoint(s)' <=> EndpointInv(TRUE, breaker'[s], run'[s], FALSE)
      BY <3>1 DEF EndpointInv
    <3>4. CASE ok
      BY <1>a, <3>1, <3>2, <3>3, <3>4, SuccessIsCounted
    <3>5. CASE ~ok
      BY <1>a, <3>1, <3>2, <3>3, <3>5, FailureIsCounted
    <3> QED BY <3>4, <3>5
  <2>2. CASE s # t \/ s \notin endpoints
    <3>1. /\ endpoints' = endpoints
          /\ breaker'[s] = breaker[s]
          /\ run'[s] = run[s]
          /\ delivery'[s] = "calling" => delivery[s] = "calling"
      BY <1>5, <2>2 DEF Record, TypeOK
    <3> QED BY <1>a, <3>1 DEF EndpointInv
  <2> QED BY <2>1, <2>2
<1>6. ASSUME NEW t \in Subs, CoolsDown(t)
      PROVE  /\ Endpoint(s)'
             /\ breaker'[s].state = breaker[s].state
  <2>1. /\ endpoints' = endpoints /\ run' = run /\ delivery' = delivery
        /\ t \in endpoints /\ breaker[t].state = "open"
        /\ breaker' = [breaker EXCEPT ![t].cooled = TRUE]
    BY <1>6 DEF CoolsDown
  <2>2. CASE s = t
    <3>1. breaker'[s] = [breaker[s] EXCEPT !.cooled = TRUE]
      BY <2>1, <2>2 DEF TypeOK
    <3> QED BY <1>a, <2>1, <2>2, <3>1 DEF EndpointInv, Breaker
  <2>3. CASE s # t
    <3>1. breaker'[s] = breaker[s]
      BY <2>1, <2>3 DEF TypeOK
    <3> QED BY <1>a, <2>1, <3>1
  <2> QED BY <2>2, <2>3
<1>7. ASSUME NEW t \in Subs, Activate(t) \/ Deactivate(t)
      PROVE  Endpoint(s)' /\ UNCHANGED breaker
  BY <1>7, <1>a DEF Activate, Deactivate, cache
<1>8. CASE UNCHANGED vars
  BY <1>8, <1>a DEF vars, cache
<1>9. State = {"closed", "open", "half_open"} /\ breaker[s].state \in State
  BY <1>a DEF State, Breaker
<1> QED BY <1>1, <1>2, <1>3, <1>4, <1>5, <1>6, <1>7, <1>8, <1>9 DEF Next, Deliver

\* The breakers' invariant holds in every reachable state.
THEOREM BreakersHold == Spec => []BreakerInv
<1>1. Init => BreakerInv
  BY DEF Init, BreakerInv, NoAnswerWhileOpen, CountersBelowThresholds, HistoriesAgree, Fresh
<1>2. TypeOK /\ BreakerInv /\ [Next]_vars => BreakerInv'
  <2> SUFFICES ASSUME TypeOK, BreakerInv, [Next]_vars PROVE BreakerInv'
    OBVIOUS
  <2>1. \A s \in Subs : Endpoint(s)'
    BY StepOfEndpoint
  <2> QED BY <2>1 DEF BreakerInv, NoAnswerWhileOpen, CountersBelowThresholds, HistoriesAgree,
                      Endpoint, EndpointInv
<1> QED BY <1>1, <1>2, TypeCorrect, PTL DEF Spec

\* While a call is out its breaker is not open: the case that record_success
\* says should not happen does not.
THEOREM NeverAnsweredWhileOpen == Spec => []NoAnswerWhileOpen
<1>1. BreakerInv => NoAnswerWhileOpen
  BY DEF BreakerInv
<1> QED BY <1>1, BreakersHold, PTL

\* The counters stay below the thresholds, for any thresholds.
THEOREM CountersStayBelow == Spec => []CountersBelowThresholds
<1>1. BreakerInv => CountersBelowThresholds
  BY DEF BreakerInv
<1> QED BY <1>1, BreakersHold, PTL

\* A breaker opens only at the end of a full run of failures.
THEOREM OpensAtThreshold == Spec => OpensAfterFailuresInARow
<1>1. TypeOK /\ BreakerInv /\ [Next]_vars
         => [\A s \in Subs : breaker[s].state = "closed" /\ breaker'[s].state = "open"
                  => run'[s] <= -FailureThreshold]_vars
  BY StepOfEndpoint
<1> QED BY <1>1, TypeCorrect, BreakersHold, PTL DEF Spec, OpensAfterFailuresInARow

\* A breaker that stays cached closes only at the end of a full run of probes.
THEOREM ClosesAtThreshold == Spec => ClosesAfterProbesInARow
<1>1. TypeOK /\ BreakerInv /\ [Next]_vars
         => [\A s \in endpoints \cap endpoints' :
                  breaker[s].state # "closed" /\ breaker'[s].state = "closed"
                  => run'[s] >= SuccessThreshold]_vars
  BY StepOfEndpoint DEF TypeOK
<1> QED BY <1>1, TypeCorrect, BreakersHold, PTL DEF Spec, ClosesAfterProbesInARow

\* A fan-out has at most fan_out_concurrency calls out.
THEOREM InFlightIsBounded == Spec => []InFlightBounded
<1>1. Init => InFlightBounded
  <2>1. Init => Calling = {}
    BY DEF Init, Calling
  <2> QED BY <2>1, FS_EmptySet DEF InFlightBounded
<1>2. TypeOK /\ InFlightBounded /\ [Next]_vars => InFlightBounded'
  <2> SUFFICES ASSUME TypeOK, InFlightBounded, [Next]_vars PROVE InFlightBounded'
    OBVIOUS
  <2>1. /\ IsFiniteSet(Calling) /\ IsFiniteSet(Calling')
        /\ Cardinality(Calling) \in Nat /\ Cardinality(Calling') \in Nat
    <3>1. Calling \subseteq Subs /\ Calling' \subseteq Subs
      BY DEF Calling
    <3>2. IsFiniteSet(Calling) /\ IsFiniteSet(Calling')
      BY <3>1, FS_Subset
    <3> QED BY <3>2, FS_CardinalityType
  <2>2. ASSUME Calling' \subseteq Calling PROVE InFlightBounded'
    <3>1. Cardinality(Calling') <= Cardinality(Calling)
      BY <2>1, <2>2, FS_Subset
    <3> QED BY <2>1, <3>1 DEF InFlightBounded
  <2>3. ASSUME NEW s \in Subs, Dispatch(s) PROVE InFlightBounded'
    <3>1. Calling' \subseteq Calling \cup {s}
      BY <2>3 DEF Dispatch, Calling, TypeOK
    <3>2. /\ IsFiniteSet(Calling \cup {s})
          /\ Cardinality(Calling \cup {s}) <= Cardinality(Calling) + 1
          /\ Cardinality(Calling \cup {s}) \in Nat
      <4>1. /\ IsFiniteSet(Calling \cup {s})
            /\ Cardinality(Calling \cup {s})
                  = IF s \in Calling THEN Cardinality(Calling) ELSE Cardinality(Calling) + 1
        BY <2>1, FS_AddElement, Zenon
      <4>2. Cardinality(Calling \cup {s}) \in Nat
        BY <4>1, FS_CardinalityType
      <4> QED BY <2>1, <4>1, <4>2
    <3>3. Cardinality(Calling') <= Cardinality(Calling \cup {s})
      BY <3>1, <3>2, FS_Subset
    <3>4. Cardinality(Calling) < FanOut
      BY <2>3 DEF Dispatch, Admitted
    <3> QED BY <2>1, <3>2, <3>3, <3>4 DEF InFlightBounded
  <2>4. ASSUME NEW s \in Subs, NEW ok \in BOOLEAN, Record(s, ok) PROVE InFlightBounded'
    BY <2>2, <2>4 DEF Record, Calling, TypeOK
  <2>5. ASSUME NEW M \in SUBSET Subs, DispatchToAll(M) PROVE InFlightBounded'
    BY <2>2, <2>5 DEF DispatchToAll, Calling
  <2>6. ASSUME delivery' = delivery PROVE InFlightBounded'
    BY <2>2, <2>6 DEF Calling
  <2> QED BY <2>3, <2>4, <2>5, <2>6
          DEF Next, Deliver, Load, Merge, CoolsDown, Activate, Deactivate, vars
<1> QED BY <1>1, <1>2, TypeCorrect, PTL DEF Spec

-----------------------------------------------------------------------------
(* The channels of the callback endpoints: deliveries never lose, mix up or *)
(* overfill the pools, for any number of tasks, endpoints and pools.        *)

\* A lookup gives the task the pool of its endpoint or sends it to the miss path.
LEMMA LookupInvariant ==
    ASSUME PoolInv, ConstantsAreSane,
           NEW t \in Tasks, NEW here \in Step \ {"idle"}, NEW miss \in Step \ {"take", "store"},
           NEW found \in Step,
           Lookup(t, here, miss, found)
    PROVE  PoolInv'
<1>0. PoolTypeOK /\ TasksHaveEndpoints /\ NoPoolIsOrphaned /\ PoolsArePrivate
  BY DEF PoolInv
<1>1. at[t] \in Endpoints /\ here # "idle"
  BY <1>0 DEF PoolTypeOK, TasksHaveEndpoints, Lookup, Step
<1>2. UNCHANGED <<pools, stored, at>> /\ pc[t] = here
  BY DEF Lookup
<1>3. CASE pools[at[t]] = None
  <2>1. pc' = [pc EXCEPT ![t] = miss] /\ hand' = hand
    BY <1>3 DEF Lookup, Goto
  <2>2. PoolTypeOK'
    BY <1>0, <1>2, <2>1 DEF PoolTypeOK
  <2>3. TasksHaveEndpoints' /\ PoolsArePrivate'
    BY <1>0, <1>1, <1>2, <2>1 DEF TasksHaveEndpoints, PoolsArePrivate, PoolTypeOK
  <2>4. NoPoolIsOrphaned'
    BY <1>0, <1>2, <2>1 DEF NoPoolIsOrphaned, PoolTypeOK
  <2> QED BY <2>2, <2>3, <2>4 DEF PoolInv
<1>4. CASE pools[at[t]] # None
  <2>1. pc' = [pc EXCEPT ![t] = found] /\ hand' = [hand EXCEPT ![t] = pools[at[t]]]
    BY <1>4 DEF Lookup, Goto
  <2>2. PoolTypeOK'
    BY <1>0, <1>1, <1>2, <2>1 DEF PoolTypeOK
  <2>3. TasksHaveEndpoints' /\ PoolsArePrivate'
    BY <1>0, <1>1, <1>2, <2>1 DEF TasksHaveEndpoints, PoolsArePrivate, PoolTypeOK
  <2>4. NoPoolIsOrphaned'
    BY <1>0, <1>2, <1>4, <2>1 DEF NoPoolIsOrphaned, PoolTypeOK
  <2> QED BY <2>2, <2>3, <2>4 DEF PoolInv
<1> QED BY <1>3, <1>4

\* The miss path finds the pool that somebody else created, or creates one that
\* no endpoint has; either way the pools that exist stay where they are.
LEMMA InsertPoolInvariant ==
    ASSUME PoolInv, ConstantsAreSane,
           NEW t \in Tasks, NEW here \in Step \ {"idle"}, NEW found \in Step,
           InsertPool(t, here, found)
    PROVE  PoolInv' /\ \A e \in Endpoints : pools[e] # None => pools'[e] = pools[e]
<1>0. PoolTypeOK /\ TasksHaveEndpoints /\ NoPoolIsOrphaned /\ PoolsArePrivate
  BY DEF PoolInv
<1>1. at[t] \in Endpoints /\ pc[t] = here
  BY <1>0 DEF PoolTypeOK, TasksHaveEndpoints, InsertPool, Step
<1>2. /\ hand' = [hand EXCEPT ![t] = pools'[at[t]]]
      /\ pc' = [pc EXCEPT ![t] = found]
      /\ UNCHANGED <<stored, at>>
  BY DEF InsertPool, Goto
<1>3. /\ pools' \in [Endpoints -> Handles \cup {None}]
      /\ pools'[at[t]] \in Handles
      /\ \A e \in Endpoints : pools[e] # None => pools'[e] = pools[e]
      /\ PoolsArePrivate'
  <2>1. CASE pools[at[t]] # None
    <3>1. UNCHANGED pools
      BY <2>1 DEF InsertPool
    <3> QED BY <1>0, <1>1, <2>1, <3>1 DEF PoolTypeOK, PoolsArePrivate
  <2>2. CASE pools[at[t]] = None
    <3>1. PICK h \in Handles : /\ \A e \in Endpoints : pools[e] # h
                               /\ pools' = [pools EXCEPT ![at[t]] = h]
      BY <2>2 DEF InsertPool
    <3>2. h # None
      BY DEF ConstantsAreSane
    <3> QED BY <1>0, <1>1, <2>2, <3>1, <3>2 DEF PoolTypeOK, PoolsArePrivate
  <2> QED BY <2>1, <2>2
<1>4. PoolTypeOK'
  BY <1>0, <1>1, <1>2, <1>3 DEF PoolTypeOK
<1>5. TasksHaveEndpoints'
  BY <1>0, <1>1, <1>2 DEF TasksHaveEndpoints, PoolTypeOK, ConstantsAreSane
<1>6. NoPoolIsOrphaned'
  <2> SUFFICES ASSUME NEW u \in Tasks, pc'[u] \in {"take", "store"}
               PROVE  hand'[u] # None /\ hand'[u] = pools'[at'[u]]
    BY DEF NoPoolIsOrphaned
  <2>1. CASE u = t
    BY <1>0, <1>2, <1>3, <2>1 DEF PoolTypeOK, ConstantsAreSane
  <2>2. CASE u # t
    <3>1. pc[u] \in {"take", "store"} /\ hand'[u] = hand[u] /\ at'[u] = at[u]
      BY <1>0, <1>2, <2>2 DEF PoolTypeOK
    <3>2. hand[u] # None /\ hand[u] = pools[at[u]]
      BY <1>0, <3>1 DEF NoPoolIsOrphaned
    <3>3. at[u] \in Endpoints
      BY <1>0, <3>1 DEF TasksHaveEndpoints, PoolTypeOK
    <3> QED BY <1>3, <3>1, <3>2, <3>3
  <2> QED BY <2>1, <2>2
<1> QED BY <1>3, <1>4, <1>5, <1>6 DEF PoolInv

\* The steps that leave the map of pools and the lookups alone: the delivery
\* goes on somewhere else, and the contents of a pool stay within the limit.
LEMMA LocalStepInvariant ==
    ASSUME PoolInv, ConstantsAreSane, NEW t \in Tasks,
           (\E e \in Endpoints : Notify(t, e)) \/ Take(t) \/ Connect(t) \/ Store(t) \/ Finish(t)
    PROVE  PoolInv' /\ UNCHANGED pools
<1>0. PoolTypeOK /\ TasksHaveEndpoints /\ NoPoolIsOrphaned /\ PoolsArePrivate
  BY DEF PoolInv
<1>1. CASE \E e \in Endpoints : Notify(t, e)
  <2>1. PICK e \in Endpoints : Notify(t, e)
    BY <1>1
  <2>2. PoolTypeOK' /\ UNCHANGED pools
    BY <1>0, <2>1 DEF Notify, Goto, PoolTypeOK, Step
  <2>3. TasksHaveEndpoints' /\ PoolsArePrivate'
    BY <1>0, <2>1 DEF Notify, Goto, PoolTypeOK, TasksHaveEndpoints, PoolsArePrivate, ConstantsAreSane
  <2>4. NoPoolIsOrphaned'
    BY <1>0, <2>1 DEF Notify, Goto, PoolTypeOK, NoPoolIsOrphaned
  <2> QED BY <2>2, <2>3, <2>4 DEF PoolInv
<1>2. CASE Take(t)
  <2>1. hand[t] \in Handles
    BY <1>0, <1>2 DEF Take, PoolTypeOK, NoPoolIsOrphaned
  <2>2. PICK k \in 0..stored[hand[t]] :
          IF k = 0
          THEN stored' = [stored EXCEPT ![hand[t]] = 0] /\ Goto(t, "connect")
          ELSE stored' = [stored EXCEPT ![hand[t]] = k - 1] /\ Goto(t, "put")
    BY <1>2 DEF Take
  <2>3. stored[hand[t]] \in 0..MaxChannels /\ UNCHANGED <<pools, at, hand>>
    BY <1>0, <1>2, <2>1 DEF Take, PoolTypeOK
  <2>4. stored' \in [Handles -> 0..MaxChannels]
    <3>1. k \in Nat /\ k <= MaxChannels /\ MaxChannels \in Nat
      BY <2>3 DEF ConstantsAreSane
    <3>2. CASE k = 0
      BY <1>0, <2>2, <3>1, <3>2 DEF PoolTypeOK
    <3>3. CASE k # 0
      <4>1. k - 1 \in 0..MaxChannels
        BY <3>1, <3>3
      <4> QED BY <1>0, <2>2, <3>3, <4>1 DEF PoolTypeOK
    <3> QED BY <3>2, <3>3
  <2>5. PICK step \in {"connect", "put"} : pc' = [pc EXCEPT ![t] = step]
    BY <2>2 DEF Goto
  <2>6. PoolTypeOK' /\ PoolsArePrivate'
    BY <1>0, <2>3, <2>4, <2>5 DEF PoolTypeOK, PoolsArePrivate, Step
  <2>7. pc[t] # "idle"
    BY <1>2 DEF Take
  <2>8. TasksHaveEndpoints' /\ NoPoolIsOrphaned'
    BY <1>0, <2>3, <2>5, <2>7 DEF PoolTypeOK, TasksHaveEndpoints, NoPoolIsOrphaned
  <2> QED BY <2>3, <2>6, <2>8 DEF PoolInv
<1>3. CASE Connect(t) \/ Finish(t)
  <2>1. PICK step \in {"put", "idle"} : pc' = [pc EXCEPT ![t] = step]
    BY <1>3 DEF Connect, Finish, Goto
  <2>2. UNCHANGED <<pools, stored, at, hand>> /\ pc[t] # "idle"
    BY <1>3 DEF Connect, Finish
  <2>3. PoolTypeOK' /\ PoolsArePrivate'
    BY <1>0, <2>1, <2>2 DEF PoolTypeOK, PoolsArePrivate, Step
  <2>4. TasksHaveEndpoints' /\ NoPoolIsOrphaned'
    BY <1>0, <2>1, <2>2 DEF PoolTypeOK, TasksHaveEndpoints, NoPoolIsOrphaned
  <2> QED BY <2>2, <2>3, <2>4 DEF PoolInv
<1>4. CASE Store(t)
  <2>1. hand[t] \in Handles /\ pc[t] # "idle"
    BY <1>0, <1>4 DEF Store, PoolTypeOK, NoPoolIsOrphaned
  <2>2. pc' = [pc EXCEPT ![t] = "call"] /\ UNCHANGED <<pools, at, hand>>
    BY <1>4 DEF Store, Goto
  <2>3. stored' \in [Handles -> 0..MaxChannels]
    <3>1. stored[hand[t]] \in 0..MaxChannels /\ MaxChannels \in Nat
      BY <1>0, <2>1 DEF PoolTypeOK, ConstantsAreSane
    <3>2. CASE stored[hand[t]] < MaxChannels
      <4>1. stored[hand[t]] + 1 \in 0..MaxChannels
        BY <3>1, <3>2
      <4>2. stored' = [stored EXCEPT ![hand[t]] = stored[hand[t]] + 1]
        BY <1>4, <3>2 DEF Store
      <4> QED BY <1>0, <4>1, <4>2 DEF PoolTypeOK
    <3>3. CASE ~ (stored[hand[t]] < MaxChannels)
      BY <1>0, <1>4, <3>3 DEF Store, PoolTypeOK
    <3> QED BY <3>2, <3>3
  <2>4. PoolTypeOK' /\ PoolsArePrivate'
    BY <1>0, <2>2, <2>3 DEF PoolTypeOK, PoolsArePrivate, Step
  <2>5. TasksHaveEndpoints' /\ NoPoolIsOrphaned'
    BY <1>0, <2>1, <2>2 DEF PoolTypeOK, TasksHaveEndpoints, NoPoolIsOrphaned
  <2> QED BY <2>2, <2>4, <2>5 DEF PoolInv
<1> QED BY <1>1, <1>2, <1>3, <1>4

\* No step of any delivery replaces a pool, and every step keeps the invariant.
LEMMA PoolStep ==
    ASSUME PoolInv, ConstantsAreSane, [PoolNext]_poolVars
    PROVE  PoolInv' /\ \A e \in Endpoints : pools[e] # None => pools'[e] = pools[e]
<1>1. CASE UNCHANGED poolVars
  BY <1>1 DEF poolVars, PoolInv, PoolTypeOK, TasksHaveEndpoints, NoPoolIsOrphaned, PoolsArePrivate
<1>2. CASE PoolNext
  <2> PICK t \in Tasks :
        \/ \E e \in Endpoints : Notify(t, e)
        \/ Lookup(t, "get", "get_miss", "take")
        \/ InsertPool(t, "get_miss", "take")
        \/ Take(t)
        \/ Connect(t)
        \/ Lookup(t, "put", "put_miss", "store")
        \/ InsertPool(t, "put_miss", "store")
        \/ Store(t)
        \/ Finish(t)
    BY <1>2 DEF PoolNext
  <2>1. CASE (\E e \in Endpoints : Notify(t, e)) \/ Take(t) \/ Connect(t) \/ Store(t) \/ Finish(t)
    BY <2>1, LocalStepInvariant
  <2>2. CASE Lookup(t, "get", "get_miss", "take")
    <3>1. PoolInv'
      BY <2>2, LookupInvariant DEF Step
    <3> QED BY <2>2, <3>1 DEF Lookup
  <2>3. CASE Lookup(t, "put", "put_miss", "store")
    <3>1. PoolInv'
      BY <2>3, LookupInvariant DEF Step
    <3> QED BY <2>3, <3>1 DEF Lookup
  <2>4. CASE InsertPool(t, "get_miss", "take")
    BY <2>4, InsertPoolInvariant DEF Step
  <2>5. CASE InsertPool(t, "put_miss", "store")
    BY <2>5, InsertPoolInvariant DEF Step
  <2> QED BY <2>1, <2>2, <2>3, <2>4, <2>5
<1> QED BY <1>1, <1>2

\* get_channel and put_channel keep one private pool of at most
\* max_channels_per_endpoint channels for each endpoint, and a delivery always
\* works on the pool of its endpoint, however deliveries interleave on the miss
\* path.
THEOREM PoolsAreSound == ASSUME ConstantsAreSane PROVE PoolSpec => []PoolInv
<1>1. PoolInit => PoolInv
  BY DEF PoolInit, PoolInv, PoolTypeOK, TasksHaveEndpoints, NoPoolIsOrphaned, PoolsArePrivate, Step,
         ConstantsAreSane
<1>2. PoolInv /\ [PoolNext]_poolVars => PoolInv'
  BY PoolStep
<1> QED BY <1>1, <1>2, PTL DEF PoolSpec

\* A pool that was created, by whichever delivery came first, is never replaced.
THEOREM PoolsAreNeverReplaced == ASSUME ConstantsAreSane PROVE PoolSpec => PoolsStay
<1>1. PoolInv /\ [PoolNext]_poolVars => [\A e \in Endpoints : pools[e] # None => pools'[e] = pools[e]]_poolVars
  BY PoolStep
<1> QED BY <1>1, PoolsAreSound, PTL DEF PoolSpec, PoolsStay

=============================================================================
