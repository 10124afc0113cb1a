---------------------------- MODULE MCKafkaSink -----------------------------
(* The outbox over Kafka with short queues, for TLC. *)
EXTENDS KafkaSink

MCMessages == 1..2
MCId == <<1, 2>>
=============================================================================
