------------------------------ MODULE KafkaSink ------------------------------
(***************************************************************************)
(* The outbox over its Kafka adapter.  KafkaMessageSink::send only appends *)
(* the record to the bounded in-memory queue of the producer; the client   *)
(* library transmits it later, gives it up after message.timeout.ms, or    *)
(* loses it with the process.  The publisher hears of none of this: it     *)
(* marks a row published once the record is in the queue.  The library     *)
(* frees the place of a record when the application reads its delivery     *)
(* report, and this application never polls its BaseProducer.              *)
(*                                                                         *)
(* This module composes every step of Outbox with the queue and closes     *)
(* what Outbox leaves open: when the sink accepts and when it pushes back. *)
(***************************************************************************)
EXTENDS Outbox, SequencesExt

CONSTANTS
    QueueCap,  \* records the producer's queue has room for
    MaxLosses  \* bound: records timed out, and crashes between two ticks

ASSUME QueueAssumption == QueueCap \in Nat \ {0} /\ MaxLosses \in Nat

VARIABLES
    queue,   \* records in the memory of each publisher's producer
    broker,  \* records the brokers have acknowledged
    unread,  \* delivery reports each producer holds, each in its record's place
    lost,    \* ghost: records given up by the library or lost with a process
    losses   \* losses so far, at most MaxLosses; Outbox counts the other faults

sink      == <<queue, broker, unread, lost, losses>>
kafkaVars == <<vars, sink>>

\* A record is a message for its own topic, or its copy for the DLQ topic.
Record == [id : Messages, dlq : BOOLEAN]
Main(m) == [id |-> m, dlq |-> FALSE]
Dead(m) == [id |-> m, dlq |-> TRUE]

\* The places of the queue that are taken.
Occupied(p) == Len(queue[p]) + unread[p]

KafkaTypeOK ==
    /\ TypeOK
    /\ \A p \in Publishers :
          queue[p] \in Seq(Record) /\ unread[p] \in Nat /\ Occupied(p) <= QueueCap
    /\ broker \subseteq Record
    /\ lost \subseteq Record
    /\ losses \in Nat

KafkaInit ==
    /\ Init
    /\ queue = [p \in Publishers |-> <<>>]
    /\ broker = {}
    /\ unread = [p \in Publishers |-> 0]
    /\ lost = {}
    /\ losses = 0

Queued == UNION {{queue[p][i] : i \in 1..Len(queue[p])} : p \in Publishers}

-----------------------------------------------------------------------------
(* The adapter's send.                                                     *)

\* Mutant: the capacity is off by one.
HasRoomOneLess(p) == Occupied(p) < QueueCap - 1

HasRoom(p) == Occupied(p) < QueueCap

Push(p, r) ==
    /\ HasRoom(p)
    /\ queue' = [queue EXCEPT ![p] = Append(@, r)]
    /\ UNCHANGED <<broker, unread, lost, losses>>

\* Ok: the record is in the queue.
Enqueue(p, b) == SendTaken(p, b) /\ Push(p, Main(b.row))

\* Mutant: a full queue is answered like room in it.
QueueFullAsOk(p, b) == SendTaken(p, b) /\ ~HasRoom(p) /\ UNCHANGED sink

\* Mutant: a record that does not fit is skipped.
QueueFullSkips(p, b) ==
    /\ phase[p] = "sending"
    /\ batch' = [batch EXCEPT ![p] = @ \ {b}]
    /\ ~HasRoom(p)
    /\ UNCHANGED <<rows, phase, hand, sent, checked, faults, ghosts, sink>>

\* QueueFull becomes Backpressure.
QueueFull(p, b) == SendBackpressure(p, b) /\ ~HasRoom(p) /\ UNCHANGED sink

\* Any other error of the producer becomes Transport; the copy for the DLQ
\* topic is a record like any other, and the publisher ignores what becomes
\* of it.
Refuse(p, b) ==
    /\ SendFails(p, b)
    /\ \/ evaluate_publish_failure(b) = "dlq" /\ b.row \in dlqTaken' /\ Push(p, Dead(b.row))
       \/ dlqTaken' = dlqTaken /\ UNCHANGED sink

-----------------------------------------------------------------------------
(* The client library.  Records of different partitions overtake another.  *)

Loss == losses < MaxLosses /\ losses' = losses + 1

\* A record leaves the queue; its report, which nobody reads, takes its place.
Report(p, i) ==
    /\ queue' = [queue EXCEPT ![p] = RemoveAt(@, i)]
    /\ unread' = [unread EXCEPT ![p] = @ + 1]

\* A record is acknowledged.
Transmit(p) ==
    \E i \in 1..Len(queue[p]) :
        /\ broker' = broker \cup {queue[p][i]}
        /\ Report(p, i)
        /\ UNCHANGED <<vars, lost, losses>>

\* message.timeout.ms has passed.
TimeOut(p) ==
    \E i \in 1..Len(queue[p]) :
        /\ Loss
        /\ lost' = lost \cup {queue[p][i]}
        /\ Report(p, i)
        /\ UNCHANGED <<vars, broker>>

\* The process dies, or stops without a flush, and its queue with it.
CrashWithQueue(p) ==
    /\ \/ Crash(p) /\ UNCHANGED losses
       \/ phase[p] = "idle" /\ Loss /\ UNCHANGED vars
    /\ lost' = lost \cup {queue[p][i] : i \in 1..Len(queue[p])}
    /\ queue' = [queue EXCEPT ![p] = <<>>]
    /\ unread' = [unread EXCEPT ![p] = 0]
    /\ UNCHANGED broker

-----------------------------------------------------------------------------
\* What a publisher does besides sending, and everybody else: the queues are
\* not involved.
Elsewhere ==
    /\ \/ \E p \in Publishers :
             \/ Claim(p) \/ ClaimLost(p)
             \/ ReleaseClaim(p) \/ IncrementRetry(p) \/ UpdateStatus(p) \/ StatementFails(p)
             \/ MarkPublishedBatch(p) \/ MarkFails(p)
       \/ Environment
    /\ UNCHANGED sink

KafkaSend(p) == \E b \in batch[p] : Enqueue(p, b) \/ QueueFull(p, b) \/ Refuse(p, b)

KafkaNext ==
    \/ \E p \in Publishers :
          KafkaSend(p) \/ Transmit(p) \/ TimeOut(p) \/ CrashWithQueue(p)
    \/ Elsewhere

KafkaSpec == KafkaInit /\ [][KafkaNext]_kafkaVars

KafkaProgress(p) ==
    \/ KafkaSend(p)
    \/ /\ Claim(p) \/ ReleaseClaim(p) \/ IncrementRetry(p) \/ UpdateStatus(p) \/ MarkPublishedBatch(p)
       /\ UNCHANGED sink

\* Weak fairness only: ticks go on, leases run out, and the library's thread
\* transmits.  That a full queue takes records again is not assumed.
KafkaFairSpec ==
    /\ KafkaSpec
    /\ \A p \in Publishers : WF_kafkaVars(KafkaProgress(p)) /\ WF_kafkaVars(Transmit(p))
    /\ \A m \in Messages : WF_kafkaVars(LeaseExpires(m) /\ UNCHANGED sink)

-----------------------------------------------------------------------------
(* What the outbox means over Kafka.                                       *)

\* What the sink took is at the brokers, or on its way, or one of the records
\* the library gave up or a process took along; dead letters included.  With
\* PublishedWasTaken this says what a row that says published stands for.
TakenIsAccountedFor ==
    /\ \A m \in taken : Main(m) \in broker \cup Queued \cup lost
    /\ \A m \in dlqTaken : Dead(m) \in broker \cup Queued \cup lost

\* Only reports nobody reads are left in the queue: it will not drain again.
Clogged(p) == unread[p] = QueueCap

\* The drain comes to an end again and again, although nothing is assumed of
\* the sink but that its library transmits what is queued; a clogged producer
\* is the only excuse.
SettlesUnlessClogged ==
    []<>(\/ \A m \in Messages : status[m] \in Given \cup {"absent", "deleted"}
         \/ \E p \in Publishers : Clogged(p))

\* A published message reaches the brokers, unless it is lost.
PublishedArrives ==
    \A m \in Messages : status[m] = "published" ~>
        \E k \in Messages : Id[k] = Id[m] /\ Main(k) \in broker \cup lost

\* The composed system is an outbox in the sense of Outbox.
IsAnOutbox == Spec

-----------------------------------------------------------------------------
(* What a comment says, and the code does not keep.                        *)

\* ports.rs: on backpressure "the message is still perfectly good, and the
\* queue will drain": a message that is pushed back settles later.
BackpressureEnds == EverythingSettles

=============================================================================
