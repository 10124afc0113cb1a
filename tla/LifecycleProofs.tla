--------------------------- MODULE LifecycleProofs ---------------------------
(***************************************************************************)
(* What overlapping processes, their tasks and their settings guarantee,   *)
(* for any number of processes and calls and whatever they are started     *)
(* with.                                                                   *)
(***************************************************************************)
EXTENDS Lifecycle, FiniteSetTheorems, TLAPS

USE FaultsAssumption, NoneAssumption

-----------------------------------------------------------------------------
(* Types, ports and calls.                                                 *)

\* Every way to end keeps the types.
LEMMA EndsKeepsTypes ==
    ASSUME TypeOK, NEW p \in Processes, NEW how \in Ended, Ends(p, how), faults' \in 0..MaxFaults
    PROVE  TypeOK'
<1>1. call' \in [Calls -> Open \cup {None}]
  BY DEF TypeOK, Ends
<1>2. \A c \in OpenAt(p) : call[c].via \in {"http", "sse", "grpc"}
  BY DEF TypeOK, OpenAt, Open
<1>3. cut' \subseteq Ended \X {"http", "sse", "grpc"}
  BY <1>2 DEF TypeOK, Ends
<1> QED
  BY <1>1, <1>3 DEF TypeOK, Ends, Ended

\* Every step keeps the types.
LEMMA TypesStay == TypeOK /\ [Next]_vars => TypeOK'
<1> SUFFICES ASSUME TypeOK, [Next]_vars PROVE TypeOK'
  OBVIOUS
<1> USE DEF Starting, Ended, Open
<1>1. ASSUME NEW p \in Processes, NEW l \in Launches, LoadSettings(p, l) PROVE TypeOK'
  BY <1>1 DEF TypeOK, LoadSettings, tasks
<1>2. ASSUME NEW p \in Processes, Connect(p) \/ Migrate(p) \/ Signal(p) \/ Drained(p) \/ StopPublisher(p)
      PROVE  TypeOK'
  BY <1>2 DEF TypeOK, Connect, Migrate, Signal, Drained, StopPublisher, Goes, tasks
<1>3. ASSUME NEW p \in Processes, Build(p) PROVE TypeOK'
  BY <1>3 DEF TypeOK, Build, Goes, Fault
<1>4. ASSUME NEW p \in Processes, StartTasks(p) PROVE TypeOK'
  BY <1>4 DEF TypeOK, StartTasks
<1>5. ASSUME NEW p \in Processes, Seed(p) PROVE TypeOK'
  BY <1>5 DEF TypeOK, Seed, Goes
<1>6. ASSUME NEW p \in Processes, BindGrpc(p) \/ PublisherStops(p) PROVE TypeOK'
  BY <1>6 DEF TypeOK, BindGrpc, PublisherStops
<1>7. ASSUME NEW p \in Processes, NEW c \in Calls, NEW via \in {"http", "sse", "grpc"}, Arrives(c, p, via)
      PROVE  TypeOK'
  BY <1>7 DEF TypeOK, Arrives, tasks
<1>8. ASSUME NEW c \in Calls, Leaves(c) PROVE TypeOK'
  BY <1>8 DEF TypeOK, Leaves, tasks
<1>9. ASSUME NEW p \in Processes, RouterPanics(p) \/ Return(p) \/ BuildFails(p) \/ Killed(p)
      PROVE  TypeOK'
  BY <1>9, EndsKeepsTypes DEF RouterPanics, Return, BuildFails, Killed, Fault, TypeOK
<1>10. ASSUME NEW p \in Processes, BindHttp(p) PROVE TypeOK'
  <2>1. CASE HttpPort = {}
    BY <1>10, <2>1 DEF BindHttp, TypeOK, Goes, tasks
  <2>2. CASE HttpPort # {}
    BY <1>10, <2>2, EndsKeepsTypes DEF BindHttp, TypeOK
  <2> QED BY <2>1, <2>2
<1>11. CASE UNCHANGED vars
  BY <1>11 DEF vars, tasks, TypeOK
<1> QED
  BY <1>1, <1>2, <1>3, <1>4, <1>5, <1>6, <1>7, <1>8, <1>9, <1>10, <1>11 DEF Next, MainStep

\* A process whose ending is not its killing is not one that HTTP clients are
\* connected to: what an end cuts is gRPC only.
LEMMA EndsKeepsInvariant ==
    ASSUME IInv, NEW p \in Processes, NEW how \in Ended, Ends(p, how), TypeOK',
           how = "killed" \/ main[p] \notin {"serving", "draining"}
    PROVE  IInv'
<1>1. \A c \in Calls : call'[c] = IF c \in OpenAt(p) THEN None ELSE call[c]
  BY DEF Ends
<1>2. /\ \A q \in Processes : main'[q] = IF q = p THEN how ELSE main[q]
      /\ \A q \in Processes : grpc'[q] = IF q = p THEN "off" ELSE grpc[q]
      /\ \A q \in Processes : publisher'[q] = IF q = p THEN "off" ELSE publisher[q]
      /\ \A q \in Processes : consumer'[q] = IF q = p THEN "none" ELSE consumer[q]
  BY DEF Ends, IInv, TypeOK
<1>3. \A q \in Processes : OpenAt(q)' = IF q = p THEN {} ELSE OpenAt(q)
  BY <1>1 DEF OpenAt
<1>4. \A q \in Processes : \A via : Via(q, via)' = IF q = p THEN {} ELSE Via(q, via)
  BY <1>1 DEF Via, OpenAt
<1>5. PortsAreOwned'
  BY <1>2 DEF IInv, PortsAreOwned, Ended
<1>6. NothingIsLeftBehind'
  BY <1>2, <1>3 DEF IInv, NothingIsLeftBehind
<1>7. CallsAreServed'
  BY <1>2, <1>4 DEF IInv, CallsAreServed
<1>8. OnlyGrpcIsCut'
  <2>1. ASSUME NEW c \in OpenAt(p), how # "killed" PROVE call[c].via = "grpc"
    <3>1. main[p] \notin {"serving", "draining"}
      BY <2>1
    <3>2. Via(p, "http") \cup Via(p, "sse") = {}
      BY <3>1 DEF IInv, CallsAreServed
    <3>3. call[c].via \in {"http", "sse", "grpc"}
      BY DEF IInv, TypeOK, OpenAt, Open
    <3> QED BY <3>2, <3>3 DEF Via
  <2>2. \A x \in cut' : x \in cut \/ \E c \in OpenAt(p) : x = <<how, call[c].via>>
    BY DEF Ends
  <2> QED BY <2>1, <2>2 DEF IInv, OnlyGrpcIsCut
<1> QED
  BY <1>5, <1>6, <1>7, <1>8 DEF IInv

\* As long as no call is opened, closed or cut, the calls are where they were.
LEMMA CallsStay ==
    ASSUME UNCHANGED <<call, cut>>
    PROVE  /\ \A q \in Processes : OpenAt(q)' = OpenAt(q)
           /\ \A q \in Processes, via \in {"http", "sse", "grpc"} : Via(q, via)' = Via(q, via)
           /\ OnlyGrpcIsCut => OnlyGrpcIsCut'
BY DEF OpenAt, Via, OnlyGrpcIsCut

\* A step of main that touches no task and leaves the port and the listeners alone.
LEMMA GoesKeepsInvariant ==
    ASSUME IInv, NEW p \in Processes, NEW from, NEW to, Goes(p, from, to), UNCHANGED tasks, TypeOK',
           to = "serving" => HttpPort = {},
           to \in {"serving", "draining", "stopping", "leaving", "seed", "bind"} \/ from \in {"connect", "migrate"},
           to \notin {"down"} \cup Ended,
           from = "serving" => to = "draining",
           from = "draining" => Via(p, "http") \cup Via(p, "sse") = {}
    PROVE  IInv'
<1>1. \A q \in Processes : main'[q] = IF q = p THEN to ELSE main[q]
  BY DEF Goes, IInv, TypeOK
<1>2. PortsAreOwned'
  BY <1>1 DEF IInv, PortsAreOwned, tasks, HttpPort
<1>3. NothingIsLeftBehind'
  BY <1>1, CallsStay DEF IInv, NothingIsLeftBehind, tasks, Goes, Ended
<1>4. CallsAreServed'
  BY <1>1, CallsStay DEF IInv, CallsAreServed, tasks, Goes
<1> QED
  BY <1>2, <1>3, <1>4, CallsStay DEF IInv, Goes

\* Every step keeps ports, calls and what a process leaves behind in order.
LEMMA InvariantStays == IInv /\ [Next]_vars => IInv'
<1> SUFFICES ASSUME IInv, [Next]_vars PROVE IInv'
  OBVIOUS
<1>0. TypeOK /\ TypeOK'
  BY TypesStay DEF IInv
<1> USE DEF Starting
<1>1. ASSUME NEW p \in Processes, NEW l \in Launches, LoadSettings(p, l) PROVE IInv'
  <2>1. \A q \in Processes : q # p => main'[q] = main[q]
    BY <1>1 DEF LoadSettings, IInv, TypeOK
  <2>2. main[p] = "down" /\ main'[p] \in {"connect", "failed"}
    BY <1>1, <1>0 DEF LoadSettings, TypeOK
  <2>3. PortsAreOwned'
    BY <1>1, <2>1, <2>2 DEF LoadSettings, IInv, PortsAreOwned, tasks
  <2>4. NothingIsLeftBehind'
    BY <1>1, <2>1, <2>2, CallsStay DEF LoadSettings, IInv, NothingIsLeftBehind, tasks
  <2>5. Via(p, "http") \cup Via(p, "sse") = {}
    BY <2>2 DEF IInv, CallsAreServed
  <2>6. CallsAreServed'
    BY <1>1, <2>1, <2>2, <2>5, CallsStay DEF LoadSettings, IInv, CallsAreServed, tasks
  <2> QED
    BY <1>0, <1>1, <2>3, <2>4, <2>6, CallsStay DEF IInv, LoadSettings
<1>2. ASSUME NEW p \in Processes, Connect(p) \/ Migrate(p) PROVE IInv'
  BY <1>0, <1>2, GoesKeepsInvariant DEF Connect, Migrate, Ended
<1>3. ASSUME NEW p \in Processes, Signal(p) \/ Drained(p) \/ StopPublisher(p) PROVE IInv'
  BY <1>0, <1>3, GoesKeepsInvariant DEF Signal, Drained, StopPublisher, Ended
<1>4. ASSUME NEW p \in Processes, Build(p) PROVE IInv'
  <2>1. /\ main[p] = "build" /\ main' = [main EXCEPT ![p] = "run"]
        /\ UNCHANGED <<call, cut, grpc, publisher>>
        /\ \A q \in Processes : consumer'[q] = consumer[q] \/ consumer'[q] # "up"
    BY <1>4, <1>0 DEF Build, Goes, TypeOK
  <2>2. PortsAreOwned' /\ NothingIsLeftBehind' /\ CallsAreServed'
    BY <1>0, <2>1, CallsStay DEF IInv, TypeOK, PortsAreOwned, NothingIsLeftBehind, CallsAreServed, Ended
  <2> QED BY <1>0, <2>1, <2>2, CallsStay DEF IInv
<1>5. ASSUME NEW p \in Processes, StartTasks(p) PROVE IInv'
  <2>1. PortsAreOwned' /\ NothingIsLeftBehind' /\ CallsAreServed'
    BY <1>0, <1>5, CallsStay
    DEF IInv, TypeOK, StartTasks, PortsAreOwned, NothingIsLeftBehind, CallsAreServed, Ended
  <2> QED BY <1>0, <1>5, <2>1, CallsStay DEF IInv, StartTasks
<1>6. ASSUME NEW p \in Processes, Seed(p) PROVE IInv'
  <2>1. PortsAreOwned' /\ NothingIsLeftBehind' /\ CallsAreServed'
    BY <1>0, <1>6, CallsStay
    DEF IInv, TypeOK, Seed, Goes, PortsAreOwned, NothingIsLeftBehind, CallsAreServed, Ended
  <2> QED BY <1>0, <1>6, <2>1, CallsStay DEF IInv, Seed, Goes
<1>7. ASSUME NEW p \in Processes, BindGrpc(p) PROVE IInv'
  <2>1. PortsAreOwned'
    BY <1>0, <1>7 DEF IInv, TypeOK, BindGrpc, PortsAreOwned, GrpcPort
  <2>2. NothingIsLeftBehind' /\ CallsAreServed'
    BY <1>0, <1>7, CallsStay DEF IInv, TypeOK, BindGrpc, NothingIsLeftBehind, CallsAreServed
  <2> QED BY <1>0, <1>7, <2>1, <2>2, CallsStay DEF IInv, BindGrpc
<1>8. ASSUME NEW p \in Processes, PublisherStops(p) PROVE IInv'
  <2>1. PortsAreOwned' /\ NothingIsLeftBehind' /\ CallsAreServed'
    BY <1>0, <1>8, CallsStay
    DEF IInv, TypeOK, PublisherStops, PortsAreOwned, NothingIsLeftBehind, CallsAreServed, Ended
  <2> QED BY <1>0, <1>8, <2>1, CallsStay DEF IInv, PublisherStops
<1>9. ASSUME NEW p \in Processes, NEW c \in Calls, NEW via \in {"http", "sse", "grpc"}, Arrives(c, p, via)
      PROVE  IInv'
  <2>1. /\ call' = [call EXCEPT ![c] = [at |-> p, via |-> via]]
        /\ UNCHANGED <<main, grpc, publisher, consumer, cut>>
        /\ IF via = "grpc" THEN grpc[p] = "up" ELSE main[p] = "serving"
    BY <1>9 DEF Arrives, tasks
  <2>2. \A q \in Processes : OpenAt(q)' \subseteq OpenAt(q) \cup (IF q = p THEN {c} ELSE {})
    BY <1>0, <2>1 DEF OpenAt, TypeOK
  <2>3. \A q \in Processes, v \in {"http", "sse", "grpc"} :
            Via(q, v)' \subseteq Via(q, v) \cup (IF q = p /\ v = via THEN {c} ELSE {})
    BY <1>0, <2>1 DEF Via, OpenAt, TypeOK
  <2>4. main[p] \notin {"down", "connect", "migrate", "build", "run"} \cup Ended
    BY <2>1 DEF IInv, NothingIsLeftBehind, Ended
  <2>5. PortsAreOwned' /\ NothingIsLeftBehind'
    BY <2>1, <2>2, <2>4 DEF IInv, PortsAreOwned, NothingIsLeftBehind
  <2>6. CallsAreServed'
    BY <2>1, <2>3 DEF IInv, CallsAreServed
  <2> QED BY <1>0, <2>1, <2>5, <2>6 DEF IInv, OnlyGrpcIsCut
<1>10. ASSUME NEW c \in Calls, Leaves(c) PROVE IInv'
  <2>1. /\ \A q \in Processes : OpenAt(q)' \subseteq OpenAt(q)
        /\ \A q \in Processes, v \in {"http", "sse", "grpc"} : Via(q, v)' \subseteq Via(q, v)
    BY <1>0, <1>10 DEF Leaves, OpenAt, Via, TypeOK
  <2>2. PortsAreOwned' /\ NothingIsLeftBehind' /\ CallsAreServed'
    BY <1>10, <2>1 DEF Leaves, tasks, IInv, PortsAreOwned, NothingIsLeftBehind, CallsAreServed
  <2> QED BY <1>0, <1>10, <2>2 DEF IInv, OnlyGrpcIsCut, Leaves
<1>11. ASSUME NEW p \in Processes, RouterPanics(p) \/ Return(p) \/ BuildFails(p) PROVE IInv'
  BY <1>0, <1>11, EndsKeepsInvariant DEF RouterPanics, Return, BuildFails, Ended
<1>12. ASSUME NEW p \in Processes, Killed(p) PROVE IInv'
  BY <1>0, <1>12, EndsKeepsInvariant DEF Killed, Ended
<1>13. ASSUME NEW p \in Processes, BindHttp(p) PROVE IInv'
  <2>1. CASE HttpPort = {}
    BY <1>0, <1>13, <2>1, GoesKeepsInvariant DEF BindHttp, Ended
  <2>2. CASE HttpPort # {}
    BY <1>0, <1>13, <2>2, EndsKeepsInvariant DEF BindHttp, Ended
  <2> QED BY <2>1, <2>2
<1>14. CASE UNCHANGED vars
  <2>1. PortsAreOwned' /\ NothingIsLeftBehind' /\ CallsAreServed'
    BY <1>14, CallsStay DEF vars, tasks, IInv, PortsAreOwned, NothingIsLeftBehind, CallsAreServed
  <2> QED BY <1>0, <1>14, <2>1, CallsStay DEF IInv, vars
<1> QED
  BY <1>1, <1>2, <1>3, <1>4, <1>5, <1>6, <1>7, <1>8, <1>9, <1>10, <1>11, <1>12, <1>13, <1>14
  DEF Next, MainStep

\* Each port has one owner, an end leaves nothing behind, calls are open where
\* they are served, and only a kill cuts an HTTP request or a stream: however
\* many processes overlap, and whatever fails.
THEOREM LifecycleInvariant == Spec => []IInv
<1>1. Init => IInv
  BY DEF Init, IInv, TypeOK, PortsAreOwned, NothingIsLeftBehind, CallsAreServed, OnlyGrpcIsCut,
         OpenAt, Via, Starting, Ended
<1> QED
  BY <1>1, InvariantStays, PTL DEF Spec

-----------------------------------------------------------------------------
(* What works while a process serves.                                      *)

\* The tasks of each process by the step main has reached: what WorksWhileItServes
\* says of the last steps has to be prepared by all the steps before.
TasksBySteps ==
    \A p \in Processes :
        /\ main[p] \in {"seed", "bind", "serving", "draining", "stopping"}
              => publisher[p] = "up" \/ ZeroInterval(p)
        /\ main[p] = "run" => consumer[p] = "created" \/ NoTopics(p) \/ faults > 0
        /\ main[p] = "seed" => consumer[p] = "created"
        /\ main[p] \in {"bind", "serving", "draining", "stopping"}
              => consumer[p] = "up" \/ NoTopics(p) \/ faults > 0

\* Unless p itself loads its settings, what they say stays.
LEMMA SettingsStay ==
    ASSUME NEW p \in Processes, launch'[p] = launch[p]
    PROVE  /\ NoTopics(p)' <=> NoTopics(p)
           /\ ZeroInterval(p)' <=> ZeroInterval(p)
BY DEF NoTopics, ZeroInterval, Settings

\* Ends of one process do not touch what another one runs.
LEMMA EndsKeepsTasks ==
    ASSUME TypeOK, TasksBySteps, NEW p \in Processes, NEW how \in Ended, Ends(p, how),
           faults' \in Nat, faults' >= faults
    PROVE  TasksBySteps'
<1>1. \A q \in Processes : q # p => /\ main'[q] = main[q] /\ publisher'[q] = publisher[q]
                                    /\ consumer'[q] = consumer[q]
  BY DEF Ends, TypeOK
<1>2. main'[p] \in Ended
  BY DEF Ends, TypeOK
<1>3. \A q \in Processes : launch'[q] = launch[q]
  BY DEF Ends
<1>4. faults \in Nat
  BY DEF TypeOK
<1> QED
  BY <1>1, <1>2, <1>3, <1>4, SettingsStay DEF TasksBySteps, Ended

\* Every step keeps the tasks of a process in step with its start and its shutdown.
LEMMA TasksBeforeServing == TypeOK /\ TasksBySteps /\ [Next]_vars => TasksBySteps'
<1> SUFFICES ASSUME TypeOK, TasksBySteps, [Next]_vars PROVE TasksBySteps'
  OBVIOUS
<1>0. faults \in Nat
  BY DEF TypeOK
<1>1. ASSUME NEW p \in Processes, NEW l \in Launches, LoadSettings(p, l) PROVE TasksBySteps'
  <2>1. \A q \in Processes : q # p => main'[q] = main[q] /\ launch'[q] = launch[q]
    BY <1>1 DEF LoadSettings, TypeOK
  <2>2. main'[p] \in {"connect", "failed"}
    BY <1>1 DEF LoadSettings, TypeOK
  <2> QED
    BY <1>1, <2>1, <2>2, SettingsStay DEF LoadSettings, tasks, TasksBySteps
<1>2. ASSUME NEW p \in Processes, Connect(p) \/ Migrate(p) \/ Signal(p) \/ Drained(p) \/ StopPublisher(p)
      PROVE  TasksBySteps'
  BY <1>2, SettingsStay
  DEF Connect, Migrate, Signal, Drained, StopPublisher, Goes, tasks, TasksBySteps, TypeOK
<1>3. ASSUME NEW p \in Processes, Build(p) PROVE TasksBySteps'
  <2>1. /\ \A q \in Processes : main'[q] = IF q = p THEN "run" ELSE main[q]
        /\ \A q \in Processes : q # p => consumer'[q] = consumer[q]
        /\ UNCHANGED <<launch, publisher>>
        /\ faults' \in {faults, faults + 1}
    BY <1>3 DEF Build, Goes, Fault, TypeOK
  <2>2. NoTopics(p) \/ consumer'[p] = "created" \/ faults' > 0
    BY <1>0, <1>3 DEF Build, Fault, TypeOK
  <2> QED
    BY <1>0, <2>1, <2>2, SettingsStay DEF TasksBySteps
<1>4. ASSUME NEW p \in Processes, StartTasks(p) PROVE TasksBySteps'
  BY <1>4, SettingsStay DEF StartTasks, TasksBySteps, TypeOK
<1>5. ASSUME NEW p \in Processes, Seed(p) PROVE TasksBySteps'
  BY <1>5, SettingsStay DEF Seed, Goes, TasksBySteps, TypeOK
<1>6. ASSUME NEW p \in Processes, BindGrpc(p) PROVE TasksBySteps'
  BY <1>6, SettingsStay DEF BindGrpc, TasksBySteps
<1>7. ASSUME NEW p \in Processes, PublisherStops(p) PROVE TasksBySteps'
  BY <1>7, SettingsStay DEF PublisherStops, TasksBySteps, TypeOK
<1>8. ASSUME NEW p \in Processes, NEW c \in Calls, NEW via \in {"http", "sse", "grpc"},
             Arrives(c, p, via) \/ Leaves(c)
      PROVE  TasksBySteps'
  BY <1>8, SettingsStay DEF Arrives, Leaves, tasks, TasksBySteps
<1>9. ASSUME NEW p \in Processes, RouterPanics(p) \/ Return(p) \/ BuildFails(p) \/ Killed(p)
      PROVE  TasksBySteps'
  BY <1>0, <1>9, EndsKeepsTasks DEF RouterPanics, Return, BuildFails, Killed, Fault, Ended
<1>10. ASSUME NEW p \in Processes, BindHttp(p) PROVE TasksBySteps'
  <2>1. CASE HttpPort = {}
    BY <1>10, <2>1, SettingsStay DEF BindHttp, Goes, tasks, TasksBySteps, TypeOK
  <2>2. CASE HttpPort # {}
    BY <1>0, <1>10, <2>2, EndsKeepsTasks DEF BindHttp, Ended
  <2> QED BY <2>1, <2>2
<1>11. ASSUME NEW c \in Calls, Leaves(c) PROVE TasksBySteps'
  BY <1>11, SettingsStay DEF Leaves, tasks, TasksBySteps
<1>12. CASE UNCHANGED vars
  BY <1>12, SettingsStay DEF vars, tasks, TasksBySteps
<1> QED
  BY <1>1, <1>2, <1>3, <1>4, <1>5, <1>6, <1>7, <1>8, <1>9, <1>10, <1>11, <1>12 DEF Next, MainStep

\* While HTTP is served or drained the publisher works unless its interval is
\* zero, and the consumer unless it has no topics or could not be created.
THEOREM TasksWorkWhileServing == Spec => []WorksWhileItServes
<1>1. Init => TasksBySteps
  BY DEF Init, TasksBySteps
<1>2. IInv => TypeOK
  BY DEF IInv
<1>3. TasksBySteps => WorksWhileItServes
  BY DEF TasksBySteps, WorksWhileItServes
<1> QED
  BY <1>1, <1>2, <1>3, TasksBeforeServing, LifecycleInvariant, PTL DEF Spec

-----------------------------------------------------------------------------
(* The settings.                                                           *)

\* A finite set with two elements has a cardinality above one.
LEMMA TwoAreMoreThanOne ==
    ASSUME NEW S, IsFiniteSet(S), Cardinality(S) <= 1, NEW x \in S, NEW y \in S
    PROVE  x = y
<1> SUFFICES ASSUME x # y PROVE FALSE
  OBVIOUS
<1>1. IsFiniteSet(S \ {x}) /\ Cardinality(S \ {x}) = Cardinality(S) - 1
  BY FS_RemoveElement
<1>2. IsFiniteSet((S \ {x}) \ {y}) /\ Cardinality((S \ {x}) \ {y}) = Cardinality(S \ {x}) - 1
  BY <1>1, FS_RemoveElement
<1> QED
  BY <1>1, <1>2, FS_CardinalityType

\* What load_from_file accepts has at most one name for each field.
LEMMA AcceptedHasOneName ==
    ASSUME NEW layers, ~ Refused(layers), NEW f \in Fields,
           NEW j \in NamesGiven(layers, f), NEW k \in NamesGiven(layers, f)
    PROVE  j = k
<1>1. NamesGiven(layers, f) \subseteq
         {f, "kafka.brokers", "kafka.consumer.consumer_group_id"}
  BY DEF NamesGiven, NamesOf
<1>2. IsFiniteSet(NamesGiven(layers, f))
  <2>1. IsFiniteSet({f, "kafka.brokers", "kafka.consumer.consumer_group_id"})
    <3>1. IsFiniteSet({f} \cup {"kafka.brokers"})
      BY FS_Singleton, FS_AddElement
    <3>2. IsFiniteSet(({f} \cup {"kafka.brokers"}) \cup {"kafka.consumer.consumer_group_id"})
      BY <3>1, FS_AddElement
    <3>3. ({f} \cup {"kafka.brokers"}) \cup {"kafka.consumer.consumer_group_id"}
             = {f, "kafka.brokers", "kafka.consumer.consumer_group_id"}
      OBVIOUS
    <3> QED BY <3>2, <3>3
  <2> QED BY <1>1, <2>1, FS_Subset
<1>3. Cardinality(NamesGiven(layers, f)) <= 1
  BY <1>2, FS_CardinalityType DEF Refused
<1> QED BY <1>2, <1>3, TwoAreMoreThanOne

\* default.toml gives the brokers and the group id under these names.
FileName(f) == IF f = "kafka.bootstrap_servers" THEN "kafka.brokers" ELSE f

\* A field is given under one name or not at all: default.toml gives the brokers
\* and the group id, so that a second name for them is refused.
LEMMA OnlyOneName ==
    ASSUME NEW l \in Launches, ~ Refused(Layers(l)), NEW f \in Fields
    PROVE  NamesGiven(Layers(l), f) \subseteq {FileName(f)}
<1>1. Len(Layers(l)) = 3 /\ Layers(l)[1] = DefaultToml
  BY DEF Layers
<1>2. ASSUME f \in {"kafka.bootstrap_servers", "kafka.consumer.group_id"}
      PROVE  FileName(f) \in NamesGiven(Layers(l), f)
  <2>1. FileName(f) \in DOMAIN DefaultToml
    BY <1>2 DEF FileName, DefaultToml, ConsumerFields
  <2>2. 1 \in Giving(Layers(l), FileName(f))
    BY <1>1, <2>1 DEF Giving
  <2> QED
    BY <1>2, <2>2 DEF NamesGiven, NamesOf, FileName
<1>3. CASE f \in {"kafka.bootstrap_servers", "kafka.consumer.group_id"}
  BY <1>2, <1>3, AcceptedHasOneName
<1>4. CASE f \notin {"kafka.bootstrap_servers", "kafka.consumer.group_id"}
  BY <1>4 DEF NamesGiven, NamesOf, FileName
<1> QED BY <1>3, <1>4

\* The maximum of some of three layers is one of them and above the others.
LEMMA HighestLayer ==
    ASSUME NEW G \in SUBSET (1..3), G # {}
    PROVE  Max(G) \in G /\ \A i \in G : Max(G) >= i
<1>1. \E i \in G : \A j \in G : i >= j
  <2>1. CASE 3 \in G
    BY <2>1
  <2>2. CASE 3 \notin G /\ 2 \in G
    BY <2>2
  <2>3. CASE 3 \notin G /\ 2 \notin G
    <3>1. \A i \in G : i = 1
      BY <2>3
    <3>2. 1 \in G
      BY <3>1
    <3> QED BY <3>1, <3>2
  <2> QED BY <2>1, <2>2, <2>3
<1> QED
  BY <1>1 DEF Max

\* The name by which three layers give a field is the one its value is read under.
LEMMA ReadByItsName ==
    ASSUME NEW layers, NEW f, NEW name \in NamesOf(f),
           NamesGiven(layers, f) \subseteq {name}, Giving(layers, name) # {}
    PROVE  ValueOf(layers, f) = [from |-> Max(Giving(layers, name)),
                                 is |-> Deserialized(layers[Max(Giving(layers, name))][name])]
<1>1. \A n \in NamesOf(f) : Giving(layers, n) # {} <=> n = name
  BY DEF NamesGiven
<1>2. name = CHOOSE n \in NamesOf(f) : Giving(layers, n) # {}
  BY <1>1
<1>3. NamesGiven(layers, f) # {}
  BY DEF NamesGiven
<1> QED
  BY <1>2, <1>3 DEF ValueOf

\* What a process runs with is what the highest layer says under a name that is
\* documented and read.
LEMMA HighestLayerWins ==
    ASSUME NEW l \in DOMAIN Loaded, NEW f \in Fields, ~ (DocumentedNames(f) \subseteq Misnamed)
    PROVE  IsFromHighest(Loaded[l][f], Layers(l), f, DocumentedNames(f) \ Misnamed)
<1> DEFINE name  == FileName(f)
           given == Giving(Layers(l), name)
<1>1. l \in Launches /\ ~ Refused(Layers(l)) /\ Loaded[l][f] = ValueOf(Layers(l), f)
  BY DEF Loaded
<1>2. given \subseteq 1..3
  BY DEF Giving, Layers
<1>3. DocumentedNames(f) \ Misnamed = {name}
  BY DEF DocumentedNames, Misnamed, FileName
<1>4. name \in NamesOf(f)
  BY DEF FileName, NamesOf
<1>5. CASE given = {}
  <2>1. NamesGiven(Layers(l), f) = {}
    BY <1>1, <1>5, OnlyOneName DEF NamesGiven
  <2>2. Loaded[l][f] = DefaultOf(f)
    BY <1>1, <2>1 DEF ValueOf
  <2> QED BY <1>3, <1>5, <2>2 DEF IsFromHighest
<1>6. CASE given # {}
  <2>1. Loaded[l][f] = [from |-> Max(given), is |-> Deserialized(Layers(l)[Max(given)][name])]
    BY <1>1, <1>4, <1>6, OnlyOneName, ReadByItsName
  <2>2. Max(given) \in given /\ \A i \in given : i <= Max(given)
    BY <1>2, <1>6, HighestLayer
  <2> QED BY <1>3, <1>6, <2>1, <2>2 DEF IsFromHighest
<1> QED BY <1>5, <1>6

\* A setting that has an effect is what it would be without the names that the
\* documents have wrong.
LEMMA MisnamedSetNothing ==
    ASSUME NEW l \in Launches, NEW f, NamesOf(f) \cap Misnamed = {}
    PROVE  ValueOf(Layers(l), f) = ValueOf(WithoutMisnamed(Layers(l)), f)
<1> DEFINE layers == Layers(l)
           less   == WithoutMisnamed(layers)
<1>1. DOMAIN layers = 1..3 /\ Len(layers) = 3
  BY DEF Layers
<1>2. less = <<less[1], less[2], less[3]>> /\ Len(less) = 3
  BY <1>1 DEF WithoutMisnamed
<1>3. ASSUME NEW n \in NamesOf(f)
      PROVE  /\ Giving(less, n) = Giving(layers, n)
             /\ \A i \in Giving(layers, n) : less[i][n] = layers[i][n]
  BY <1>1, <1>2, <1>3 DEF WithoutMisnamed, Giving
<1>4. NamesGiven(less, f) = NamesGiven(layers, f)
  BY <1>3 DEF NamesGiven
<1>5. CASE NamesGiven(layers, f) = {}
  BY <1>4, <1>5 DEF ValueOf
<1>6. CASE NamesGiven(layers, f) # {}
  <2> DEFINE k == CHOOSE n \in NamesOf(f) : Giving(layers, n) # {}
  <2>1. k = CHOOSE n \in NamesOf(f) : Giving(less, n) # {}
    BY <1>3
  <2>2. k \in NamesOf(f) /\ Giving(layers, k) # {}
    BY <1>6 DEF NamesGiven
  <2>3. Giving(layers, k) \subseteq 1..3
    BY <1>1 DEF Giving
  <2>4. Max(Giving(layers, k)) \in Giving(layers, k)
    BY <2>2, <2>3, HighestLayer
  <2>5. /\ Giving(less, k) = Giving(layers, k)
        /\ less[Max(Giving(layers, k))][k] = layers[Max(Giving(layers, k))][k]
    BY <1>3, <2>2, <2>4
  <2> QED
    BY <1>4, <1>6, <2>1, <2>5 DEF ValueOf
<1> QED BY <1>5, <1>6

\* No name of a setting that has an effect is one that sets nothing.
LEMMA EffectiveAreNamed ==
    ASSUME NEW settings, NEW f \in Effective(settings)
    PROVE  NamesOf(f) \cap Misnamed = {}
<1>1. f \notin Misnamed
  <2>1. (ConnectionUrl(settings) \cup PoolSettings \cup AppSettings) \cap Misnamed = {}
    BY DEF ConnectionUrl, PoolSettings, AppSettings, Misnamed
  <2>2. (ProducerSettings \cup ConsumerSettings) \cap Misnamed = {}
    BY DEF ProducerSettings, ProducerFields, ConsumerSettings, Misnamed
  <2>3. "kafka.consumer.topics" \notin Misnamed
    BY DEF Misnamed
  <2> QED BY <2>1, <2>2, <2>3 DEF Effective
<1> QED
  BY <1>1 DEF NamesOf, Misnamed

\* Everything the program reads is a field.
LEMMA EffectiveAreFields ==
    ASSUME NEW settings
    PROVE  Effective(settings) \subseteq Fields
<1>1. ConnectionUrl(settings) \cup PoolSettings \subseteq Fields
  BY DEF ConnectionUrl, PoolSettings, Fields, DatabaseFields
<1>2. ProducerSettings \cup ConsumerSettings \subseteq Fields
  BY DEF ProducerSettings, ConsumerSettings, Fields, KafkaFields, ProducerFields, ConsumerFields
<1>3. AppSettings \subseteq Fields
  BY DEF AppSettings, Fields, ServerFields, GrpcFields, ObservedFields, PipelineFields, RetryFields
<1>4. "kafka.consumer.topics" \in Fields
  BY DEF Fields, ConsumerFields
<1> QED
  BY <1>1, <1>2, <1>3, <1>4 DEF Effective

\* A process that goes on has settings that were accepted.
LoadedBeforeConnect == \A p \in Processes : main[p] = "connect" => launch[p] \in DOMAIN Loaded

\* Every step keeps it so: only accepted settings lead on to connecting.
LEMMA LoadedStays == TypeOK /\ LoadedBeforeConnect /\ [Next]_vars => LoadedBeforeConnect'
<1> SUFFICES ASSUME TypeOK, LoadedBeforeConnect, [Next]_vars PROVE LoadedBeforeConnect'
  OBVIOUS
<1> USE DEF LoadedBeforeConnect
<1>1. ASSUME NEW p \in Processes, NEW l \in Launches, LoadSettings(p, l) PROVE LoadedBeforeConnect'
  BY <1>1 DEF LoadSettings, TypeOK
<1>2. ASSUME NEW p \in Processes, MainStep(p) \/ Signal(p) \/ BuildFails(p) \/ Killed(p)
      PROVE  LoadedBeforeConnect'
  BY <1>2
  DEF TypeOK, MainStep, Signal, BuildFails, Killed, Connect, Migrate, Build, StartTasks, RouterPanics,
      Seed, BindHttp, Drained, StopPublisher, Return, Goes, Ends
<1>3. ASSUME NEW p \in Processes, BindGrpc(p) \/ PublisherStops(p) PROVE LoadedBeforeConnect'
  BY <1>3 DEF BindGrpc, PublisherStops
<1>4. ASSUME NEW p \in Processes, NEW c \in Calls, NEW via \in {"http", "sse", "grpc"}, Arrives(c, p, via)
      PROVE  LoadedBeforeConnect'
  BY <1>4 DEF Arrives
<1>5. ASSUME NEW c \in Calls, Leaves(c) PROVE LoadedBeforeConnect'
  BY <1>5 DEF Leaves
<1>6. CASE UNCHANGED vars
  BY <1>6 DEF vars
<1> QED
  BY <1>1, <1>2, <1>3, <1>4, <1>5, <1>6 DEF Next

\* Whatever overlay and environment a process is started with: it is refused, or
\* runs with what the highest layer says under a documented name, except that
\* seven documented names set nothing, whichever layer gives them.
THEOREM SettingsFromHighestLayer == Spec => []SettingsAsDocumented
<1>1. Init => LoadedBeforeConnect
  BY DEF Init, LoadedBeforeConnect
<1>2. IInv => TypeOK
  BY DEF IInv
<1>3. LoadedBeforeConnect => SettingsAsDocumented
  <2> SUFFICES ASSUME LoadedBeforeConnect, NEW p \in Processes, main[p] = "connect",
                      NEW f \in Effective(Settings(p))
               PROVE  /\ DocumentedNames(f) \subseteq Misnamed
                         \/ IsFromHighest(Settings(p)[f], Layers(launch[p]), f, DocumentedNames(f) \ Misnamed)
                      /\ Settings(p)[f] = ValueOf(WithoutMisnamed(Layers(launch[p])), f)
    BY DEF SettingsAsDocumented
  <2>1. launch[p] \in DOMAIN Loaded /\ f \in Fields
    BY EffectiveAreFields DEF LoadedBeforeConnect
  <2>2. launch[p] \in Launches /\ Settings(p)[f] = ValueOf(Layers(launch[p]), f)
    BY <2>1 DEF Loaded, Settings
  <2>3. NamesOf(f) \cap Misnamed = {}
    BY EffectiveAreNamed
  <2> QED
    BY <2>1, <2>2, <2>3, HighestLayerWins, MisnamedSetNothing DEF Settings
<1> QED
  BY <1>1, <1>2, <1>3, LoadedStays, LifecycleInvariant, PTL DEF Spec

=============================================================================
