----------------------------- MODULE MCLifecycle -----------------------------
(* Two processes on one host, started with the settings that matter, for TLC. *)
EXTENDS Lifecycle

CONSTANTS p1, p2, c1, c2

MCProcesses == {p1, p2}
MCCalls     == {c1, c2}

\* A layer that gives key k a value of class c.
Gives(k, c) == [x \in {k} |-> c]
Nothing     == [x \in {} |-> "plain"]

\* No file and no variable; a port and the brokers from the overlay, the port
\* again from the environment; no topics; a second name for the brokers; a value
\* of a wrong type; all names that set nothing, and a port under its own; an
\* interval of zero; a path without a slash.
MCLaunches ==
    {[overlay |-> Nothing, env |-> Nothing],
     [overlay |-> [x \in {"server.http_port", "kafka.brokers"} |-> "plain"],
      env |-> [x \in {"server.http_port", "database.url"} |-> "plain"]],
     [overlay |-> Gives("retry.max_retries", "plain"), env |-> Gives("kafka.consumer.topics", "blanks")],
     [overlay |-> Nothing, env |-> Gives("kafka.bootstrap_servers", "plain")],
     [overlay |-> Gives("grpc.port", "mistyped"), env |-> Nothing],
     [overlay |-> [k \in Misnamed |-> "plain"],
      env |-> [k \in {"kafka.consumer_group_id", "dlq.enabled", "grpc.port"} |->
                  IF k = "dlq.enabled" THEN "off" ELSE "plain"]],
     [overlay |-> Gives("kafka.consumer.topics", "joined"), env |-> Gives("outbox.poll_interval_ms", "zero")],
     [overlay |-> Gives("metrics.path", "unroutable"), env |-> Nothing]}

\* Two launches are enough to shut down.
MCDefaultLaunch == {[overlay |-> Nothing, env |-> Nothing]}

=============================================================================
