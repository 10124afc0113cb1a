----------------------------- MODULE MessagePath -----------------------------
(***************************************************************************)
(* What becomes of the data of one message between the client that         *)
(* publishes it and the clients that receive it: HTTP body, proto request, *)
(* row of the outbox, Kafka record, row of the inbox, callback, event of a *)
(* stream.  A JSON value is one of a few classes; bytes are empty, the     *)
(* text of a JSON value, or neither; a field that may be missing is "".    *)
(***************************************************************************)

\* JSON values: null, the empty object, one that has a string member
\* `event_type`, any other one.
Values == {"null", "{}", "typed", "other"}

Empty    == [is |-> "empty", value |-> "null"]
Text(v)  == [is |-> "json", value |-> v]
NotJson  == [is |-> "not json", value |-> "null"]

\* The field payload_base64 of an HTTP request, when it is no bytes.
Missing   == [is |-> "missing", value |-> "null"]
Malformed == [is |-> "malformed", value |-> "null"]

\* What a request may be, over gRPC and over HTTP, with its id in I.
Bytes           == {Empty, NotJson} \cup {Text(v) : v \in Values}
ProtoRequest(I) == [id : I, topic : STRING, key : STRING, event_type : STRING, payload : Bytes]
HttpRequest(I)  == [id : I, topic : STRING, key : STRING, event_type : STRING,
                    payload : Values \cup {"missing"}, base64 : Bytes \cup {Missing, Malformed}]

-----------------------------------------------------------------------------
(* The HTTP gateway.                                                       *)

\* serde reads a `payload` of null as one that is missing.
HasPayload(q) == q.payload \notin {"missing", "null"}

\* from_request_parts refuses two payloads and base64 that does not decode.
BadParts(q) ==
    \/ HasPayload(q) /\ q.base64 # Missing
    \/ q.base64 = Malformed

\* into_proto of a request whose parts are good.
IntoProto(q) ==
    [id |-> q.id, topic |-> q.topic, key |-> q.key, event_type |-> q.event_type,
     payload |-> IF HasPayload(q) THEN Text(q.payload)
                 ELSE IF q.base64 # Missing THEN q.base64 ELSE Empty]

-----------------------------------------------------------------------------
(* From the request to Kafka.                                              *)

\* The value in bytes that are empty or parse.
Parsed(bytes) == IF bytes = Empty THEN "{}" ELSE bytes.value

\* build, once the id is known: an empty key is no key.
OutboxMessage(r, id) ==
    [id |-> id, topic |-> r.topic, partition_key |-> r.key, event_type |-> r.event_type,
     payload |-> Parsed(r.payload)]

\* publish_pending and the sink: neither headers nor the event type go along.
ProducerMessage(m) == [topic |-> m.topic, key |-> m.partition_key, payload |-> Text(m.payload)]

-----------------------------------------------------------------------------
(* From Kafka to the clients.                                              *)

\* The row of the inbox: InboxMessage::new leaves key and event type empty.
InboxMessage(record) ==
    [topic |-> record.topic, key |-> "", event_type |-> "", payload |-> Parsed(record.payload)]

\* What the callback of a subscriber is handed.
DeliverNotification(record) ==
    [topic |-> record.topic, payload |-> record.payload, event_type |-> ""]

\* Mutant: the event is made from the parsed payload and has no key.
DeliverEventWithoutKey(record) ==
    [topic |-> record.topic, key |-> "", payload |-> record.payload,
     event_type |-> IF Parsed(record.payload) = "typed" THEN "of payload" ELSE ""]

\* What the streams are handed: the event type is read from the payload.
DeliverEvent(record) ==
    [topic |-> record.topic, key |-> record.key, payload |-> record.payload,
     event_type |-> IF Parsed(record.payload) = "typed" THEN "of payload" ELSE ""]

\* to_response_value: empty bytes become null, bytes that do not parse a base64
\* string in the same field.
ResponseValue(bytes) ==
    CASE bytes.is = "json"  -> [is |-> "value", value |-> bytes.value]
      [] bytes.is = "empty" -> [is |-> "value", value |-> "null"]
      [] OTHER              -> [is |-> "base64", value |-> "null"]

\* The event as an SSE client reads it.
DeliverEventDto(e) == [e EXCEPT !.payload = ResponseValue(e.payload)]

-----------------------------------------------------------------------------
(* The contract, from one end to the other.                                *)

\* The JSON value a request asks to publish: none, null or empty bytes ask for {}.
AskedValue(r) == IF r.payload = Empty THEN "{}" ELSE r.payload.value

\* Message m, made from request r, arrives over Kafka as r asked: its topic, its
\* key and its value reach a stream, the value and topic every other reader, and
\* all of them see one and the same value.
ArrivesAsAsked(r, m) ==
    LET record == ProducerMessage(m)
        dto    == DeliverEventDto(DeliverEvent(record))
        row    == InboxMessage(record)
        call   == DeliverNotification(record)
    IN  /\ dto.topic = r.topic /\ row.topic = r.topic /\ call.topic = r.topic
        /\ dto.key = r.key
        /\ dto.payload = [is |-> "value", value |-> AskedValue(r)]
        /\ row.payload = AskedValue(r)
        /\ call.payload = Text(AskedValue(r))
        /\ dto.event_type # "" <=> AskedValue(r) = "typed"

=============================================================================
