---------------------------- MODULE Configuration ----------------------------
(***************************************************************************)
(* Settings::load_from_file: three layers of keys become one settings      *)
(* value.  A layer gives some keys; of what it gives only a class matters, *)
(* the cases in which the program branches:                                *)
(*   "plain"          a value the program takes as it is                   *)
(*   "empty", "zero", "off"   the empty string, 0, FALSE                   *)
(*   "mistyped"       a value that does not parse as the field's type      *)
(*   "unroutable"     a path the HTTP router does not accept               *)
(*   "list"           a list of names, "joined" names separated by commas  *)
(*   "blanks"         a string of nothing but blanks and commas            *)
(***************************************************************************)
EXTENDS Naturals, Sequences, FiniteSetsExt

-----------------------------------------------------------------------------
(* The fields of the settings, by section.                                 *)

ServerFields ==
    {"server.mode", "server.host", "server.http_port", "server.grpc_port",
     "server.shutdown_timeout_secs", "server.request_timeout_secs"}

DatabaseFields ==
    {"database.url", "database.type", "database.host", "database.port", "database.username",
     "database.password", "database.database", "database.max_connections",
     "database.min_idle_connections", "database.min_connections",
     "database.connection_timeout", "database.max_lifetime", "database.auto_migrate"}

KafkaFields ==
    {"kafka.bootstrap_servers", "kafka.client_id", "kafka.security_protocol",
     "kafka.sasl_mechanism", "kafka.sasl_username", "kafka.sasl_password"}

ProducerFields ==
    {"kafka.producer.acks", "kafka.producer.linger_ms", "kafka.producer.batch_size",
     "kafka.producer.request_timeout_ms", "kafka.producer.message_timeout_ms",
     "kafka.producer.enable_idempotence", "kafka.producer.compression_type"}

ConsumerFields ==
    {"kafka.consumer.group_id", "kafka.consumer.auto_offset_reset",
     "kafka.consumer.enable_auto_commit", "kafka.consumer.auto_commit_interval_ms",
     "kafka.consumer.session_timeout_ms", "kafka.consumer.heartbeat_interval_ms",
     "kafka.consumer.max_poll_records", "kafka.consumer.topics"}

GrpcFields ==
    {"grpc.enabled", "grpc.host", "grpc.port", "grpc.max_concurrent_streams",
     "grpc.connection_timeout"}

RetryFields ==
    {"retry.max_retries", "retry.initial_delay_ms", "retry.multiplier", "retry.max_delay_ms",
     "retry.enable_dlq", "retry.dlq_topic"}

\* [logging] and [metrics].
ObservedFields == {"logging.format", "metrics.enabled", "metrics.path", "metrics.port"}

\* [outbox], [inbox], [dlq] and [subscriber].
PipelineFields ==
    {"outbox.poll_interval_ms", "outbox.batch_size", "outbox.max_concurrent",
     "outbox.retention_days", "inbox.max_concurrent_deliveries", "inbox.delivery_timeout_ms",
     "inbox.retention_days", "dlq.enabled", "dlq.topic_suffix", "dlq.log_messages",
     "subscriber.default_timeout_ms", "subscriber.default_max_retries"}

Fields == ServerFields \cup DatabaseFields \cup KafkaFields \cup ProducerFields
          \cup ConsumerFields \cup GrpcFields \cup RetryFields \cup ObservedFields
          \cup PipelineFields

\* The fields that are empty unless a layer gives them; all others have a
\* default that the program takes as it is.
DatabaseEmpty == {"database.url", "database.password"}
KafkaEmpty    == {"kafka.sasl_mechanism", "kafka.sasl_username", "kafka.sasl_password",
                  "kafka.consumer.topics"}

DefaultOf(f) == [from |-> 0, is |-> IF f \in DatabaseEmpty \cup KafkaEmpty THEN "empty" ELSE "plain"]

\* What default.toml gives, the lowest layer; keys that no field has are ignored.
DefaultToml ==
    LET plain == (ServerFields \cup ProducerFields \cup RetryFields \cup ObservedFields
                  \cup PipelineFields
                  \cup {"database.type", "database.host", "database.port", "database.username",
                        "database.password", "database.database", "database.max_connections",
                        "database.min_connections", "database.auto_migrate", "kafka.brokers",
                        "kafka.client_id", "kafka.security_protocol", "kafka.sasl_mechanism",
                        "retry.jitter_factor"}
                  \cup (ConsumerFields \ {"kafka.consumer.topics"}))
                 \ {"logging.format", "retry.enable_dlq", "retry.dlq_topic"}
    IN  [k \in plain \cup {"kafka.consumer.topics"} |->
            IF k = "kafka.consumer.topics" THEN "list" ELSE "plain"]

-----------------------------------------------------------------------------
(* Loading.                                                                *)

\* The layers that give key k; the highest wins.
Giving(layers, k) == {i \in 1..Len(layers) : k \in DOMAIN layers[i]}

\* The names under which a layer may give field f: its own and its alias.
NamesOf(f) ==
    {f} \cup (IF f = "kafka.bootstrap_servers" THEN {"kafka.brokers"} ELSE {})
        \cup (IF f = "kafka.consumer.group_id" THEN {"kafka.consumer.consumer_group_id"} ELSE {})

\* The names of f that the merged layers have.
NamesGiven(layers, f) == {k \in NamesOf(f) : Giving(layers, k) # {}}

\* A string of topics is split at the commas, trimmed, and rid of empty names.
Deserialized(class) == IF class = "blanks" THEN "empty" ELSE class

\* Mutant: the layers are merged in the opposite order.
ValueOfLowest(layers, f) ==
    IF NamesGiven(layers, f) = {}
    THEN DefaultOf(f)
    ELSE LET k == CHOOSE n \in NamesOf(f) : Giving(layers, n) # {}
             i == Min(Giving(layers, k))
         IN  [from |-> i, is |-> Deserialized(layers[i][k])]

\* The value of a field: from the highest layer, or layer 0, the default in the code.
ValueOf(layers, f) ==
    IF NamesGiven(layers, f) = {}
    THEN DefaultOf(f)
    ELSE LET k == CHOOSE n \in NamesOf(f) : Giving(layers, n) # {}
             i == Max(Giving(layers, k))
         IN  [from |-> i, is |-> Deserialized(layers[i][k])]

\* load_from_file refuses a field that has two names, and a value of a wrong type.
Refused(layers) ==
    \E f \in Fields : \/ Cardinality(NamesGiven(layers, f)) > 1
                      \/ ValueOf(layers, f).is = "mistyped"

-----------------------------------------------------------------------------
(* What the program makes of its settings.                                 *)

\* The parts a database URL is made of: `url` alone unless it is empty.
ConnectionUrl(settings) ==
    IF settings["database.url"].is # "empty" THEN {"database.url"}
    ELSE {"database.type", "database.username", "database.host", "database.port",
          "database.database"}
         \cup (IF settings["database.password"].is # "empty" THEN {"database.password"} ELSE {})

PoolSettings == {"database.max_connections", "database.connection_timeout",
                 "database.max_lifetime", "database.min_idle_connections"}

ProducerSettings == {"kafka.bootstrap_servers", "kafka.client_id"} \cup ProducerFields

ConsumerSettings ==
    {"kafka.bootstrap_servers", "kafka.client_id", "kafka.consumer.group_id",
     "kafka.consumer.auto_offset_reset", "kafka.consumer.enable_auto_commit",
     "kafka.consumer.session_timeout_ms", "kafka.consumer.topics"}

\* What build and run read themselves; the delays of [retry] are computed by the
\* publisher's strategy and then dropped.
AppSettings == {"server.http_port", "grpc.port", "metrics.enabled", "metrics.path",
                "outbox.batch_size", "outbox.poll_interval_ms",
                "retry.max_retries", "retry.enable_dlq", "retry.dlq_topic"}

\* The settings that have an effect; those of all other fields are read by nobody.
Effective(settings) ==
    ConnectionUrl(settings) \cup PoolSettings \cup ProducerSettings \cup AppSettings
    \cup (IF settings["kafka.consumer.topics"].is = "empty"
          THEN {"kafka.consumer.topics"} ELSE ConsumerSettings)

=============================================================================
