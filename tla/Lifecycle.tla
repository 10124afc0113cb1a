------------------------------ MODULE Lifecycle ------------------------------
(***************************************************************************)
(* The life of server processes on one host: load, build, run, the         *)
(* graceful shutdown and every other way to end.  main runs the steps in   *)
(* order and serves HTTP itself; the gRPC server, the publisher and the    *)
(* consumer are tasks it spawns, never awaits, and takes down when it      *)
(* ends.  Processes that overlap (a restart during a shutdown) meet at the *)
(* two ports of the host.                                                  *)
(***************************************************************************)
EXTENDS Configuration

CONSTANTS
    Processes, \* processes started one after the other or side by side
    Calls,     \* HTTP requests, SSE streams and gRPC calls that may be open at once
    Launches,  \* what a process may be started with: an overlay and an environment
    None,      \* a call that is not open
    MaxFaults  \* bound: failures of the surroundings and kills

ASSUME NoneAssumption   == None \notin [at : Processes, via : {"http", "sse", "grpc"}]
ASSUME FaultsAssumption == MaxFaults \in Nat

VARIABLES
    main,      \* what main does next in each process, or how it ended
    launch,    \* the overlay and environment each process was started with
    grpc,      \* its gRPC task
    publisher, \* its publisher task
    consumer,  \* its consumer, created by build and run by a task
    call,      \* each call: the process and transport it is open at
    cut,       \* ghost: <<end of a process, what it cut short>>
    faults     \* faults so far, at most MaxFaults

vars == <<main, launch, grpc, publisher, consumer, call, cut, faults>>
tasks == <<grpc, publisher, consumer>>

Starting == {"connect", "migrate", "build", "run", "seed", "bind"}
Ended    == {"stopped", "failed", "killed"}
Open     == [at : Processes, via : {"http", "sse", "grpc"}]

Init ==
    /\ main = [p \in Processes |-> "down"]
    /\ launch = [p \in Processes |-> None]
    /\ grpc = [p \in Processes |-> "off"]
    /\ publisher = [p \in Processes |-> "off"]
    /\ consumer = [p \in Processes |-> "none"]
    /\ call = [c \in Calls |-> None]
    /\ cut = {}
    /\ faults = 0

Fault == faults < MaxFaults /\ faults' = faults + 1

\* The calls open at p, and those over one transport.
OpenAt(p)   == {c \in Calls : call[c] # None /\ call[c].at = p}
Via(p, via) == {c \in OpenAt(p) : call[c].via = via}

\* main goes on from one step to the next and nothing else changes.
Goes(p, from, to) ==
    /\ main[p] = from
    /\ main' = [main EXCEPT ![p] = to]
    /\ UNCHANGED <<launch, call, cut>>

\* main returns, panics or is killed: the runtime drops every task where it stands.
Ends(p, how) ==
    /\ main' = [main EXCEPT ![p] = how]
    /\ grpc' = [grpc EXCEPT ![p] = "off"]
    /\ publisher' = [publisher EXCEPT ![p] = "off"]
    /\ consumer' = [consumer EXCEPT ![p] = "none"]
    /\ call' = [c \in Calls |-> IF c \in OpenAt(p) THEN None ELSE call[c]]
    /\ cut' = cut \cup {<<how, call[c].via>> : c \in OpenAt(p)}
    /\ UNCHANGED launch

-----------------------------------------------------------------------------
(* Start.                                                                  *)

\* The layers of launch l, lowest first, and the settings they make.
Layers(l)   == <<DefaultToml, l.overlay, l.env>>
Loaded      == [l \in {x \in Launches : ~ Refused(Layers(x))} |->
                   [f \in Fields |-> ValueOf(Layers(l), f)]]
Settings(p) == Loaded[launch[p]]

\* with_config.
LoadSettings(p, l) ==
    /\ main[p] = "down"
    /\ main' = [main EXCEPT ![p] = IF l \in DOMAIN Loaded THEN "connect" ELSE "failed"]
    /\ launch' = [launch EXCEPT ![p] = l]
    /\ UNCHANGED <<tasks, call, cut, faults>>

\* build: the pool, whatever its URL is made of, then the migrations, always.
Connect(p) == Goes(p, "connect", "migrate") /\ UNCHANGED <<tasks, faults>>
Migrate(p) == Goes(p, "migrate", "build") /\ UNCHANGED <<tasks, faults>>

\* The pool, a migration or the producer fails and ends the process.
BuildFails(p) ==
    /\ main[p] \in {"connect", "migrate", "build"}
    /\ Fault
    /\ Ends(p, "failed")

\* The setting without which there is no consumer, and the one that kills the publisher.
NoTopics(p)     == Settings(p)["kafka.consumer.topics"].is = "empty"
ZeroInterval(p) == Settings(p)["outbox.poll_interval_ms"].is = "zero"
BadRoute(p)     == /\ Settings(p)["metrics.enabled"].is # "off"
                   /\ Settings(p)["metrics.path"].is \in {"unroutable", "empty"}

\* The rest of build: no topics, no consumer; a consumer that cannot be created
\* or subscribed is only logged.
Build(p) ==
    /\ Goes(p, "build", "run")
    /\ \/ NoTopics(p) /\ UNCHANGED <<consumer, faults>>
       \/ ~ NoTopics(p) /\ consumer' = [consumer EXCEPT ![p] = "created"] /\ UNCHANGED faults
       \/ ~ NoTopics(p) /\ Fault /\ UNCHANGED consumer
    /\ UNCHANGED <<grpc, publisher>>

\* run: the router, which panics at a path it cannot take; then the gRPC task
\* and the publisher, whose task dies of an interval of zero; then the consumer.
StartTasks(p) ==
    /\ main[p] = "run"
    /\ ~ BadRoute(p)
    /\ main' = [main EXCEPT ![p] = IF consumer[p] = "created" THEN "seed" ELSE "bind"]
    /\ grpc' = [grpc EXCEPT ![p] = "binding"]
    /\ publisher' = [publisher EXCEPT ![p] = IF ZeroInterval(p) THEN "dead" ELSE "up"]
    /\ UNCHANGED <<launch, consumer, call, cut, faults>>

RouterPanics(p) ==
    /\ main[p] = "run"
    /\ BadRoute(p)
    /\ Ends(p, "failed")
    /\ UNCHANGED faults

\* The first refresh of the subscribers is awaited, successful or not; then the
\* refresh and the consumer loop are spawned.
Seed(p) ==
    /\ Goes(p, "seed", "bind")
    /\ consumer' = [consumer EXCEPT ![p] = "up"]
    /\ UNCHANGED <<grpc, publisher, faults>>

\* A port is held while somebody listens on it: HTTP until the shutdown begins,
\* gRPC until the process ends.
HttpPort == {q \in Processes : main[q] = "serving"}
GrpcPort == {q \in Processes : grpc[q] = "up"}

BindHttp(p) ==
    /\ main[p] = "bind"
    /\ IF HttpPort = {} THEN Goes(p, "bind", "serving") /\ UNCHANGED tasks
                        ELSE Ends(p, "failed")
    /\ UNCHANGED faults

\* The gRPC task binds in its own time; a failure is logged and ends the task.
BindGrpc(p) ==
    /\ grpc[p] = "binding"
    /\ grpc' = [grpc EXCEPT ![p] = IF GrpcPort = {} THEN "up" ELSE "failed"]
    /\ UNCHANGED <<main, launch, publisher, consumer, call, cut, faults>>

-----------------------------------------------------------------------------
(* Calls.                                                                  *)

\* A call arrives where somebody listens.
Arrives(c, p, via) ==
    /\ call[c] = None
    /\ IF via = "grpc" THEN grpc[p] = "up" ELSE main[p] = "serving"
    /\ call' = [call EXCEPT ![c] = [at |-> p, via |-> via]]
    /\ UNCHANGED <<main, launch, tasks, cut, faults>>

\* A request is answered or its client leaves; a stream ends with its client only.
\* Nothing bounds either: a request waits for its body and for its statements
\* without a timeout.
Leaves(c) ==
    /\ call[c] # None
    /\ call' = [call EXCEPT ![c] = None]
    /\ UNCHANGED <<main, launch, tasks, cut, faults>>

-----------------------------------------------------------------------------
(* End.                                                                    *)

\* Mutant: the shutdown stops the publisher first.
SignalStopsPublisher(p) ==
    /\ Goes(p, "serving", "draining")
    /\ publisher' = [publisher EXCEPT ![p] = "stopped"]
    /\ UNCHANGED <<grpc, consumer, faults>>

\* The first SIGTERM or ctrl-C, or a handler that could not be installed: HTTP
\* stops listening.  Later signals find a handler that nobody waits for.
Signal(p) == Goes(p, "serving", "draining") /\ UNCHANGED <<tasks, faults>>

\* Mutant: the drain ends with the requests and leaves the streams behind.
DrainedOfRequests(p) ==
    /\ Via(p, "http") = {}
    /\ Goes(p, "draining", "stopping")
    /\ UNCHANGED <<tasks, faults>>

\* serve returns once no HTTP connection is left, of a request or of a stream.
Drained(p) ==
    /\ Via(p, "http") \cup Via(p, "sse") = {}
    /\ Goes(p, "draining", "stopping")
    /\ UNCHANGED <<tasks, faults>>

\* publisher.stop leaves a message in its channel and does not wait; main goes on.
StopPublisher(p) == Goes(p, "stopping", "leaving") /\ UNCHANGED <<tasks, faults>>

\* The publisher finds the message between two ticks, if main is still there.
PublisherStops(p) ==
    /\ main[p] = "leaving"
    /\ publisher[p] = "up"
    /\ publisher' = [publisher EXCEPT ![p] = "stopped"]
    /\ UNCHANGED <<main, launch, grpc, consumer, call, cut, faults>>

\* Mutant: main waits for the publisher to stop, which may be dead.
ReturnAwaitsPublisher(p) ==
    /\ main[p] = "leaving"
    /\ publisher[p] = "stopped"
    /\ Ends(p, "stopped")
    /\ UNCHANGED faults

\* run and main return.
Return(p) ==
    /\ main[p] = "leaving"
    /\ Ends(p, "stopped")
    /\ UNCHANGED faults

\* SIGKILL, a crash, or a SIGTERM before the handlers are installed.
Killed(p) ==
    /\ main[p] \notin {"down"} \cup Ended
    /\ Fault
    /\ Ends(p, "killed")

MainStep(p) ==
    \/ Connect(p) \/ Migrate(p) \/ Build(p) \/ StartTasks(p) \/ RouterPanics(p)
    \/ Seed(p) \/ BindHttp(p) \/ Drained(p) \/ StopPublisher(p) \/ Return(p)

Next ==
    \/ \E p \in Processes :
          \/ \E l \in Launches : LoadSettings(p, l)
          \/ MainStep(p)
          \/ BindGrpc(p)
          \/ Signal(p)
          \/ PublisherStops(p)
          \/ BuildFails(p)
          \/ Killed(p)
          \/ \E c \in Calls, via \in {"http", "sse", "grpc"} : Arrives(c, p, via)
    \/ \E c \in Calls : Leaves(c)

\* Before these steps main awaits a statement of the database without a timeout;
\* only getting a connection has one.
AwaitsStatement == {"migrate", "seed"}

\* main goes on unless it awaits a statement.
OwnStep(p) == main[p] \notin AwaitsStatement /\ MainStep(p)

\* The runtime polls main and the gRPC task.  Nothing is assumed of clients,
\* requests, streams, statements, signals and kills.
Fairness == \A p \in Processes : WF_vars(OwnStep(p)) /\ WF_vars(BindGrpc(p))

Spec == Init /\ [][Next]_vars /\ Fairness

-----------------------------------------------------------------------------
(* What operators and clients may rely on.                                 *)

TypeOK ==
    /\ main \in [Processes -> {"down", "serving", "draining", "stopping", "leaving"}
                              \cup Starting \cup Ended]
    /\ launch \in [Processes -> Launches \cup {None}]
    /\ grpc \in [Processes -> {"off", "binding", "up", "failed"}]
    /\ publisher \in [Processes -> {"off", "up", "stopped", "dead"}]
    /\ consumer \in [Processes -> {"none", "created", "up"}]
    /\ call \in [Calls -> Open \cup {None}]
    /\ cut \subseteq Ended \X {"http", "sse", "grpc"}
    /\ faults \in 0..MaxFaults

\* Each port has one owner, however processes overlap.
PortsAreOwned ==
    \A p, q \in Processes : p # q =>
        /\ ~ (main[p] = "serving" /\ main[q] = "serving")
        /\ ~ (grpc[p] = "up" /\ grpc[q] = "up")

\* A process that has failed half-way, or ended otherwise, leaves nothing behind:
\* no task, no port, no call.
NothingIsLeftBehind ==
    \A p \in Processes : main[p] \in {"down", "connect", "migrate", "build", "run"} \cup Ended =>
        /\ grpc[p] = "off" /\ publisher[p] = "off" /\ consumer[p] # "up"
        /\ OpenAt(p) = {}

\* A call is open only where it is served.
CallsAreServed ==
    \A p \in Processes :
        /\ Via(p, "grpc") # {} => grpc[p] = "up"
        /\ Via(p, "http") \cup Via(p, "sse") # {} => main[p] \in {"serving", "draining"}

\* An orderly end and a failed start cut gRPC calls at most: HTTP requests and
\* streams are waited for until they end by themselves, unless the process is killed.
OnlyGrpcIsCut == \A x \in cut : x[1] # "killed" => x[2] = "grpc"

\* The types, the ports and the calls: the inductive invariant.
IInv == TypeOK /\ PortsAreOwned /\ NothingIsLeftBehind /\ CallsAreServed /\ OnlyGrpcIsCut

\* While a process answers over HTTP, and as long as its shutdown waits for
\* streams, it goes on publishing, and consuming if it has topics.  Only an
\* interval of zero kills the publisher, only a failure the consumer.
WorksWhileItServes ==
    \A p \in Processes : main[p] \in {"serving", "draining"} =>
        /\ publisher[p] = "up" \/ ZeroInterval(p)
        /\ consumer[p] = "up" \/ NoTopics(p) \/ faults > 0

\* The names under which the documents tell operators to give setting f
\* (configuration.md, .env.example, README.md and the comment at kafka.rs:154).
DocumentedNames(f) ==
    CASE f = "kafka.bootstrap_servers"      -> {"kafka.brokers"}
      [] f = "kafka.consumer.group_id"      -> {f, "kafka.consumer_group_id"}
      [] f = "database.connection_timeout"  -> {"database.connect_timeout_secs"}
      [] f = "database.max_lifetime"        -> {"database.max_lifetime_secs"}
      [] f = "database.min_idle_connections" -> {"database.min_connections"}
      [] f = "database.password"            -> {f, "_database.password"}
      [] f = "grpc.port"                    -> {"server.grpc_port"}
      [] f = "retry.enable_dlq"             -> {"dlq.enabled"}
      [] OTHER                              -> {f}

\* The documented names that set nothing.
Misnamed ==
    {"kafka.consumer_group_id", "database.connect_timeout_secs", "database.max_lifetime_secs",
     "database.min_connections", "_database.password", "server.grpc_port", "dlq.enabled"}

\* Setting s is the default of f if no layer gives one of the names, and
\* otherwise what the highest layer to do so gives.
IsFromHighest(s, layers, f, names) ==
    IF \A k \in names : Giving(layers, k) = {}
    THEN s = DefaultOf(f)
    ELSE \E k \in names :
            /\ s.from \in Giving(layers, k)
            /\ s.is = Deserialized(layers[s.from][k])
            /\ \A n \in names : \A i \in Giving(layers, n) : i <= s.from

\* The layers without what they give under a name that sets nothing.
WithoutMisnamed(layers) ==
    [i \in DOMAIN layers |-> [k \in DOMAIN layers[i] \ Misnamed |-> layers[i][k]]]

\* A process that has loaded its settings, and keeps them from then on, runs with
\* what the highest layer says under a documented name, for every setting that
\* has an effect in it.  The documents are wrong about seven names: what is given
\* under those sets nothing, and five settings can be given under another name only.
SettingsAsDocumented ==
    \A p \in Processes : main[p] = "connect" =>
        \A f \in Effective(Settings(p)) :
            /\ DocumentedNames(f) \subseteq Misnamed
               \/ IsFromHighest(Settings(p)[f], Layers(launch[p]), f, DocumentedNames(f) \ Misnamed)
            /\ Settings(p)[f] = ValueOf(WithoutMisnamed(Layers(launch[p])), f)

\* p is on its way up or down.
OnItsWay(p) == main[p] \notin {"down", "serving"} \cup Ended

\* A start or a shutdown that never ends awaits one of two things for ever: a
\* statement that the database never answers, or one and the same connection over
\* HTTP, of a stream that stays open or of a request that never gets its answer.
NothingElseHoldsMain ==
    \A p \in Processes : <>[]OnItsWay(p) =>
        \/ <>[](main[p] \in AwaitsStatement)
        \/ \E c \in Calls : <>[](main[p] = "draining" /\ c \in Via(p, "http") \cup Via(p, "sse"))

\* "Graceful shutdown timeout in seconds": a shutdown ends.
ShutdownIsBounded == \A p \in Processes : main[p] = "draining" ~> main[p] \in Ended

=============================================================================
