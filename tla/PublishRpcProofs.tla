-------------------------- MODULE PublishRpcProofs --------------------------
(***************************************************************************)
(* Proofs about the publish RPCs, for any calls, ids, inputs and faults:   *)
(* what is stored together, whose work a success is, and that messages     *)
(* arrive as they were asked for.                                          *)
(***************************************************************************)
EXTENDS PublishRpc, TLAPS

USE IdsAssumption, FaultsAssumption

-----------------------------------------------------------------------------
(* The data of a message.                                                  *)

\* What a client may put into the id of a request.
GivenIds == Named \cup {None, BadId}

\* The gateway turns a request with good parts into a proto request.
LEMMA GatewayMakesProtoRequests ==
    ASSUME NEW q \in HttpRequest(GivenIds), ~ BadParts(q)
    PROVE  IntoProto(q) \in ProtoRequest(GivenIds)
<1>1. CASE HasPayload(q)
  <2>1. q.payload \in Values
    BY <1>1 DEF HttpRequest, HasPayload
  <2>2. Text(q.payload) \in Bytes
    BY <2>1 DEF Bytes
  <2>3. QED
    BY <1>1, <2>2 DEF IntoProto, HttpRequest, ProtoRequest
<1>2. CASE ~ HasPayload(q) /\ q.base64 # Missing
  <2>1. q.base64 \in Bytes
    BY <1>2 DEF BadParts, HttpRequest
  <2>2. QED
    BY <1>2, <2>1 DEF IntoProto, HttpRequest, ProtoRequest
<1>3. CASE ~ HasPayload(q) /\ q.base64 = Missing
  BY <1>3 DEF IntoProto, HttpRequest, ProtoRequest, Bytes
<1>4. QED
  BY <1>1, <1>2, <1>3

\* Whatever a client sends, the handlers work on a sequence of proto requests.
LEMMA HandlersGetProtoRequests ==
    ASSUME NEW in \in Inputs, ~ GatewayRefuses(in)
    PROVE  ProtoRequests(in) \in Seq(ProtoRequest(GivenIds))
<1>1. CASE in.via = "grpc" /\ in.requests \in Seq(ProtoRequest(GivenIds))
  BY <1>1 DEF ProtoRequests
<1>2. CASE in.via = "http" /\ in.requests \in Seq(HttpRequest(GivenIds))
  <2>1. \A i \in DOMAIN in.requests : IntoProto(in.requests[i]) \in ProtoRequest(GivenIds)
    BY <1>2, GatewayMakesProtoRequests DEF GatewayRefuses
  <2>2. QED
    BY <1>2, <2>1 DEF ProtoRequests
<1>3. QED
  BY <1>1, <1>2, InputsAssumption DEF GivenIds

\* A message that build makes of a valid request arrives as the request asked,
\* through the outbox, Kafka, the consumer and the transports of its readers.
THEOREM MessagesArriveAsAsked ==
    ASSUME NEW r \in ProtoRequest(GivenIds), Valid(r), NEW id
    PROVE  ArrivesAsAsked(r, OutboxMessage(r, id))
<1> DEFINE m == OutboxMessage(r, id)
           record == ProducerMessage(m)
<1>1. r.payload = Empty \/ \E v \in Values : r.payload = Text(v)
  BY DEF Valid, ProtoRequest, Bytes
<1>2. /\ m.topic = r.topic /\ m.partition_key = r.key
      /\ m.payload = AskedValue(r)
  BY DEF OutboxMessage, AskedValue, Parsed
<1>3. /\ record.topic = r.topic /\ record.key = r.key
      /\ record.payload = Text(AskedValue(r))
  BY <1>2 DEF ProducerMessage
<1> HIDE DEF m, record
<1>4. Parsed(record.payload) = AskedValue(r)
  <2>1. Text(AskedValue(r)).is # Empty.is /\ Text(AskedValue(r)).value = AskedValue(r)
    BY DEF Text, Empty
  <2>2. QED
    BY <1>3, <2>1 DEF Parsed
<1>5. ResponseValue(record.payload) = [is |-> "value", value |-> AskedValue(r)]
  BY <1>3 DEF ResponseValue, Text
<1>6. /\ InboxMessage(record).topic = r.topic
      /\ InboxMessage(record).payload = AskedValue(r)
  BY <1>3, <1>4 DEF InboxMessage
<1>7. /\ DeliverNotification(record).topic = r.topic
      /\ DeliverNotification(record).payload = Text(AskedValue(r))
  BY <1>3 DEF DeliverNotification
<1> DEFINE e == DeliverEvent(record)
<1>8. /\ DeliverEventDto(e).topic = r.topic
      /\ DeliverEventDto(e).key = r.key
      /\ DeliverEventDto(e).payload = [is |-> "value", value |-> AskedValue(r)]
      /\ DeliverEventDto(e).event_type # "" <=> AskedValue(r) = "typed"
  BY <1>3, <1>4, <1>5 DEF DeliverEvent, DeliverEventDto
<1>9. QED
  BY <1>6, <1>7, <1>8 DEF ArrivesAsAsked, m, record

-----------------------------------------------------------------------------
(* The table.                                                              *)

\* No call is None: a row without a call is no row.
LEMMA NoneIsNoCall == None \notin Calls
BY DEF Ids

\* What a call has stored depends on the table only, what it built on `built`.
LEMMA BuiltIdsKept ==
    ASSUME NEW c \in Calls, built'[c] = built[c]
    PROVE  BuiltIds(c)' = BuiltIds(c)
BY DEF BuiltIds

\* Successes name messages.
LEMMA SuccessesHaveIds ==
    ASSUME PublishTypeOK, NEW c \in Calls, NEW i \in DOMAIN answers[c].results,
           answers[c].results[i].ok
    PROVE  answers[c].results[i].id \in Ids
<1>1. answers[c].results[i] \in Answer
  BY DEF PublishTypeOK
<1>2. CASE answers[c].results[i] \in [ok : {TRUE}, id : Ids]
  BY <1>2
<1>3. CASE answers[c].results[i] = Error
  <2>1. answers[c].results[i].ok = FALSE
    BY <1>3 DEF Error
  <2>2. QED
    BY <2>1
<1>4. QED
  BY <1>1, <1>2, <1>3 DEF Answer

\* A step after which a call has stored what it had stored, and that changes no
\* more of it than its stage, keeps the promises to it.
LEMMA PromisesKept ==
    ASSUME PublishInv, NEW c \in Calls, built'[c] = built[c], answers'[c] = answers[c],
           \A i \in Ids : WasStored(c, i)' <=> WasStored(c, i)
    PROVE  StoredTogether(c)' /\ SuccessIsOwn(c)'
<1>1. BuiltIds(c)' = BuiltIds(c) /\ BuiltIds(c) \subseteq Ids
  BY BuiltIdsKept DEF PublishInv, PublishTypeOK
<1>2. StoredTogether(c)'
  BY <1>1 DEF PublishInv, StoredTogether
<1>3. SuccessIsOwn(c)'
  <2>1. \A i \in DOMAIN answers[c].results :
           answers[c].results[i].ok => answers[c].results[i].id \in Ids
    BY SuccessesHaveIds DEF PublishInv
  <2>2. QED
    BY <2>1 DEF PublishInv, SuccessIsOwn, WasStored
<1>4. QED
  BY <1>2, <1>3

\* Calls that have not been through their insert have stored nothing.
LEMMA NothingStoredBeforeInsert ==
    ASSUME PublishInv, NEW c \in Calls, stage[c] \notin {"answered", "dropped"}, NEW i \in Ids
    PROVE  ~ WasStored(c, i) /\ rows[i] # c
BY NoneIsNoCall DEF PublishInv, RowsHaveCalls, WasStored

-----------------------------------------------------------------------------
(* Steps before the insert.                                                *)

\* A request that is refused leaves the table alone.
LEMMA RefusedKeepsInv ==
    ASSUME PublishInv, NEW c \in Calls, NEW in \in Inputs, Refused(c, in)
    PROVE  PublishInv'
<1> USE DEF Refused, table
<1>1. PublishTypeOK'
  BY DEF PublishInv, PublishTypeOK, BuiltIds
<1>2. \A d \in Calls : stage'[d] # stage[d] => stage[d] = "new"
  BY DEF PublishInv, PublishTypeOK
<1>3. RowsHaveCalls'
  BY <1>2, NoneIsNoCall DEF PublishInv, PublishTypeOK, RowsHaveCalls, BuiltIds
<1>4. \A d \in Calls : StoredTogether(d)' /\ SuccessIsOwn(d)'
  <2>1. \A d \in Calls, i \in Ids : WasStored(d, i)' <=> WasStored(d, i)
    BY DEF WasStored
  <2>2. QED
    BY <2>1, PromisesKept
<1>5. QED
  BY <1>1, <1>3, <1>4 DEF PublishInv

\* Building messages stores nothing, and the ids it draws are drawn once.
LEMMA SubmitKeepsInv ==
    ASSUME PublishInv, NEW c \in Calls, NEW in \in Inputs, Submit(c, in)
    PROVE  PublishInv'
<1> DEFINE proto == ProtoRequests(in)
           valid == {i \in DOMAIN proto : Valid(proto[i])}
<1>1. PICK ids \in [valid -> Ids] :
         built' = [built EXCEPT ![c] = [i \in valid |-> OutboxMessage(proto[i], ids[i])]]
  BY DEF Submit
<1>2. /\ stage[c] = "new" /\ stage' = [stage EXCEPT ![c] = "insert"]
      /\ requests' = [requests EXCEPT ![c] = proto]
      /\ answers' = answers /\ rows' = rows /\ taken' = taken
      /\ cancel' = cancel /\ cancelled' = cancelled /\ faults' = faults
  BY DEF Submit, table
<1>3. proto \in Seq(ProtoRequest(GivenIds))
  BY HandlersGetProtoRequests DEF Submit
<1> HIDE DEF proto
<1>4. \A d \in Calls : d # c => built'[d] = built[d] /\ requests'[d] = requests[d] /\ stage'[d] = stage[d]
  BY <1>1, <1>2
<1>5. DOMAIN built'[c] = valid /\ BuiltIds(c)' \subseteq Ids
  <2>1. built'[c] = [i \in valid |-> OutboxMessage(proto[i], ids[i])]
    BY <1>1 DEF PublishInv, PublishTypeOK
  <2>2. \A i \in valid : OutboxMessage(proto[i], ids[i]).id = ids[i]
    BY DEF OutboxMessage
  <2>3. QED
    BY <2>1, <2>2 DEF BuiltIds
<1>6. PublishTypeOK'
  <2>1. \A d \in Calls : /\ DOMAIN built'[d] \subseteq DOMAIN requests'[d]
                         /\ BuiltIds(d)' \subseteq Ids
    <3> SUFFICES ASSUME NEW d \in Calls
                 PROVE  DOMAIN built'[d] \subseteq DOMAIN requests'[d] /\ BuiltIds(d)' \subseteq Ids
      OBVIOUS
    <3>1. CASE d = c
      BY <3>1, <1>2, <1>5 DEF PublishInv, PublishTypeOK
    <3>2. CASE d # c
      BY <3>2, <1>4, BuiltIdsKept DEF PublishInv, PublishTypeOK
    <3>3. QED
      BY <3>1, <3>2
  <2>2. /\ requests' \in [Calls -> Seq(ProtoRequest(Named \cup {None, BadId}))]
        /\ stage' \in [Calls -> {"new", "insert", "answered", "refused", "dropped"}]
        /\ DOMAIN built' = Calls
    BY <1>1, <1>2, <1>3 DEF PublishInv, PublishTypeOK, GivenIds
  <2>3. QED
    BY <2>1, <2>2, <1>2 DEF PublishInv, PublishTypeOK
<1>7. RowsHaveCalls'
  <2>1. \A d \in Calls : stage[d] \in {"answered", "dropped"} =>
           d # c /\ stage'[d] = stage[d] /\ BuiltIds(d)' = BuiltIds(d)
    BY <1>2, <1>4, BuiltIdsKept
  <2>2. QED
    BY <2>1, <1>2, NoneIsNoCall DEF PublishInv, PublishTypeOK, RowsHaveCalls
<1>8. \A d \in Calls : StoredTogether(d)' /\ SuccessIsOwn(d)'
  <2> SUFFICES ASSUME NEW d \in Calls PROVE StoredTogether(d)' /\ SuccessIsOwn(d)'
    OBVIOUS
  <2>1. \A i \in Ids : WasStored(d, i)' <=> WasStored(d, i)
    BY <1>2 DEF WasStored
  <2>2. SuccessIsOwn(d)'
    BY <1>2, <2>1, SuccessesHaveIds DEF PublishInv, SuccessIsOwn
  <2>3. CASE d = c
    <3>1. \A i \in BuiltIds(d)' : ~ WasStored(d, i)'
      BY <2>1, <2>3, <1>2, <1>5, NothingStoredBeforeInsert
    <3>2. QED
      BY <2>2, <3>1 DEF StoredTogether
  <2>4. CASE d # c
    BY <2>1, <2>4, <1>2, <1>4, PromisesKept
  <2>5. QED
    BY <2>3, <2>4
<1>9. QED
  BY <1>6, <1>7, <1>8 DEF PublishInv

-----------------------------------------------------------------------------
(* The insert.                                                             *)

\* The answers of an insert that stores what c built, and of one that fails.
LEMMA AnswersOfInsert ==
    ASSUME PublishTypeOK, NEW c \in Calls, NEW ok \in BOOLEAN, Respond(c, ok)
    PROVE  /\ stage' = [stage EXCEPT ![c] = "answered"]
           /\ requests' = requests /\ built' = built
           /\ DOMAIN answers' = Calls
           /\ \A d \in Calls : d # c => answers'[d] = answers[d]
           /\ answers'[c].errors = DOMAIN requests[c] \ DOMAIN built[c]
           /\ answers'[c].results \in [DOMAIN built[c] -> Answer]
           /\ \A i \in DOMAIN built[c] :
                 /\ answers'[c].results[i].ok = ok
                 /\ ok => answers'[c].results[i].id = built[c][i].id
<1>1. answers' = [answers EXCEPT ![c] =
          [errors  |-> DOMAIN requests[c] \ DOMAIN built[c],
           results |-> [i \in DOMAIN built[c] |->
                           IF ok THEN [ok |-> TRUE, id |-> built[c][i].id] ELSE Error]]]
  BY DEF Respond
<1>2. \A i \in DOMAIN built[c] : built[c][i].id \in Ids
  BY DEF PublishTypeOK, BuiltIds
<1>3. answers'[c] = [errors  |-> DOMAIN requests[c] \ DOMAIN built[c],
                     results |-> [i \in DOMAIN built[c] |->
                           IF ok THEN [ok |-> TRUE, id |-> built[c][i].id] ELSE Error]]
  BY <1>1 DEF PublishTypeOK
<1>4. answers'[c].results = [i \in DOMAIN built[c] |->
                           IF ok THEN [ok |-> TRUE, id |-> built[c][i].id] ELSE Error]
  BY <1>3
<1>5. \A i \in DOMAIN built[c] :
         (IF ok THEN [ok |-> TRUE, id |-> built[c][i].id] ELSE Error) \in Answer
  BY <1>2 DEF Answer, Error
<1>6. answers'[c].results \in [DOMAIN built[c] -> Answer]
  BY <1>4, <1>5
<1>7. \A i \in DOMAIN built[c] :
                 /\ answers'[c].results[i].ok = ok
                 /\ ok => answers'[c].results[i].id = built[c][i].id
  <2> SUFFICES ASSUME NEW i \in DOMAIN built[c]
               PROVE  /\ answers'[c].results[i].ok = ok
                      /\ ok => answers'[c].results[i].id = built[c][i].id
    OBVIOUS
  <2>1. CASE ok
    <3>1. answers'[c].results[i] = [ok |-> TRUE, id |-> built[c][i].id]
      BY <1>4, <2>1
    <3>2. answers'[c].results[i].ok /\ answers'[c].results[i].id = built[c][i].id
      BY <3>1
    <3>3. answers'[c].results[i].ok = TRUE
      BY <3>1
    <3>4. ok = TRUE
      BY <2>1
    <3>5. QED
      BY <3>2, <3>3, <3>4
  <2>2. CASE ~ ok
    <3>1. answers'[c].results[i] = [ok |-> FALSE, id |-> None]
      BY <1>4, <2>2 DEF Error
    <3>2. answers'[c].results[i].ok = FALSE
      BY <3>1
    <3>3. ok = FALSE
      BY <2>2
    <3>4. QED
      BY <3>2, <3>3, <2>2
  <2>3. QED
    BY <2>1, <2>2
<1>8. answers'[c].errors = DOMAIN requests[c] \ DOMAIN built[c]
  BY <1>3
<1>9. DOMAIN answers' = Calls /\ \A d \in Calls : d # c => answers'[d] = answers[d]
  BY <1>1 DEF PublishTypeOK
<1>10. /\ stage' = [stage EXCEPT ![c] = "answered"]
       /\ requests' = requests /\ built' = built
  BY DEF Respond
<1> HIDE DEF PublishTypeOK
<1>11. QED
  BY <1>6, <1>7, <1>8, <1>9, <1>10, Zenon

\* What the statement of call c may have done to the table.
TableStep(c) == UNCHANGED table \/ (~ Refuses(c) /\ InsertRows(c))

\* It stores all messages of c or none, and takes no row from another call.
LEMMA TableSteps ==
    ASSUME PublishInv, NEW c \in Calls, stage[c] = "insert", TableStep(c)
    PROVE  /\ rows' \in [Ids -> Calls \cup {None}]
           /\ taken' = taken /\ cancel' = cancel /\ cancelled' = cancelled
           /\ \A i \in Ids : rows'[i] # rows[i] => rows'[i] = c /\ i \in BuiltIds(c)
           /\ \A d \in Calls, i \in Ids : d # c => (WasStored(d, i)' <=> WasStored(d, i))
           /\ \/ \A i \in BuiltIds(c) : WasStored(c, i)'
              \/ rows' = rows /\ \A i \in Ids : ~ WasStored(c, i)'
<1>1. BuiltIds(c) \subseteq Ids /\ rows \in [Ids -> Calls \cup {None}]
  BY DEF PublishInv, PublishTypeOK
<1>2. CASE UNCHANGED table
  <2>1. \A i \in Ids : ~ WasStored(c, i)
    BY NothingStoredBeforeInsert
  <2>2. QED
    BY <1>1, <1>2, <2>1 DEF table, WasStored
<1>3. CASE ~ Refuses(c) /\ InsertRows(c)
  <2>1. \A i \in BuiltIds(c) : rows[i] = None
    BY <1>3 DEF Refuses, BuiltIds
  <2>2. /\ rows' = [i \in Ids |-> IF i \in BuiltIds(c) THEN c ELSE rows[i]]
        /\ taken' = taken /\ cancel' = cancel /\ cancelled' = cancelled
    BY <1>3 DEF InsertRows
  <2>3. \A d \in Calls, i \in Ids : d # c => (WasStored(d, i)' <=> WasStored(d, i))
    BY <2>1, <2>2, NoneIsNoCall DEF WasStored
  <2>4. \A i \in BuiltIds(c) : WasStored(c, i)'
    BY <1>1, <2>2 DEF WasStored
  <2>5. QED
    BY <1>1, <2>2, <2>3, <2>4
<1>4. QED
  BY <1>2, <1>3 DEF TableStep

\* The rest of the invariant after such a statement.
LEMMA TableStepKeepsInv ==
    ASSUME PublishInv, NEW c \in Calls, stage[c] = "insert", TableStep(c),
           stage' = [stage EXCEPT ![c] = "answered"] \/ stage' = [stage EXCEPT ![c] = "dropped"],
           requests' = requests, built' = built,
           DOMAIN answers' = Calls, \A d \in Calls : d # c => answers'[d] = answers[d],
           answers'[c].results \in [DOMAIN answers'[c].results -> Answer],
           SuccessIsOwn(c)', faults' \in 0..MaxFaults
    PROVE  PublishInv'
<1>1. \A d \in Calls : BuiltIds(d)' = BuiltIds(d)
  BY DEF BuiltIds
<1>2. PublishTypeOK'
  <2>1. /\ rows' \in [Ids -> Calls \cup {None}] /\ taken' \subseteq Ids
        /\ cancel' \in [Cancels -> Ids \cup {None}] /\ cancelled' \subseteq Ids \X Calls
    BY TableSteps DEF PublishInv, PublishTypeOK
  <2>2. ASSUME NEW d \in Calls
        PROVE  /\ DOMAIN built'[d] \subseteq DOMAIN requests'[d]
               /\ BuiltIds(d)' \subseteq Ids
               /\ answers'[d].results \in [DOMAIN answers'[d].results -> Answer]
    <3>1. DOMAIN built[d] \subseteq DOMAIN requests[d] /\ BuiltIds(d) \subseteq Ids
      BY DEF PublishInv, PublishTypeOK
    <3>2. answers'[d].results \in [DOMAIN answers'[d].results -> Answer]
      <4>1. CASE d = c
        BY <4>1
      <4>2. CASE d # c
        <5>1. answers'[d] = answers[d]
          BY <4>2
        <5>2. answers[d].results \in [DOMAIN answers[d].results -> Answer]
          BY DEF PublishInv, PublishTypeOK
        <5>3. QED
          BY <5>1, <5>2
      <4>3. QED
        BY <4>1, <4>2
    <3>3. QED
      BY <1>1, <3>1, <3>2
  <2>3. stage' \in [Calls -> {"new", "insert", "answered", "refused", "dropped"}]
    BY DEF PublishInv, PublishTypeOK
  <2>4. QED
    BY <2>1, <2>2, <2>3 DEF PublishInv, PublishTypeOK
<1>3. \A d \in Calls : stage[d] \in {"answered", "dropped"} => stage'[d] \in {"answered", "dropped"}
  BY DEF PublishInv, PublishTypeOK
<1>4. stage'[c] \in {"answered", "dropped"}
  BY DEF PublishInv, PublishTypeOK
<1>5. ASSUME NEW i \in Ids, NEW d \in Calls, rows'[i] = d
      PROVE  i \in BuiltIds(d)' /\ stage'[d] \in {"answered", "dropped"}
  <2>1. CASE rows[i] = d
    <3>1. i \in BuiltIds(d) /\ stage[d] \in {"answered", "dropped"}
      BY <2>1, NoneIsNoCall DEF PublishInv, RowsHaveCalls
    <3>2. QED
      BY <3>1, <1>1, <1>3
  <2>2. CASE rows[i] # d
    BY <1>1, <1>4, <1>5, <2>2, TableSteps
  <2>3. QED
    BY <2>1, <2>2
<1>6. RowsHaveCalls'
  <2>1. cancelled' = cancelled /\ cancelled \subseteq Ids \X Calls
    BY TableSteps DEF PublishInv, PublishTypeOK
  <2>2. \A y \in cancelled : y[2] \in Calls
    BY <2>1
  <2>3. ASSUME NEW y \in cancelled
        PROVE  y[1] \in BuiltIds(y[2])' /\ stage'[y[2]] \in {"answered", "dropped"}
    <3>1. y[1] \in BuiltIds(y[2]) /\ stage[y[2]] \in {"answered", "dropped"}
      BY DEF PublishInv, RowsHaveCalls
    <3>2. QED
      BY <1>1, <1>3, <2>2, <3>1
  <2>4. rows' \in [Ids -> Calls \cup {None}]
    BY TableSteps
  <2>5. QED
    BY <1>5, <2>1, <2>3, <2>4 DEF RowsHaveCalls
<1>7. ASSUME NEW d \in Calls
      PROVE  StoredTogether(d)' /\ SuccessIsOwn(d)'
  <2>1. CASE d = c
    <3>1. BuiltIds(c)' = BuiltIds(c) /\ BuiltIds(c) \subseteq Ids
      BY <1>1 DEF PublishInv, PublishTypeOK
    <3>2. \/ \A i \in BuiltIds(c) : WasStored(c, i)'
          \/ \A i \in Ids : ~ WasStored(c, i)'
      BY TableSteps
    <3>3. StoredTogether(c)'
      BY <3>1, <3>2 DEF StoredTogether
    <3>4. QED
      BY <2>1, <3>3
  <2>2. CASE d # c
    BY <2>2, TableSteps, PromisesKept
  <2>3. QED
    BY <2>1, <2>2
<1>8. QED
  BY <1>2, <1>6, <1>7 DEF PublishInv

\* The insert stores what the handler built, or answers errors.
LEMMA InsertKeepsInv ==
    ASSUME PublishInv, NEW c \in Calls, Insert(c)
    PROVE  PublishInv'
<1> DEFINE ok == ~ Refuses(c)
<1>1. stage[c] = "insert" /\ Respond(c, ok) /\ faults' = faults
  BY DEF Insert
<1>2. TableStep(c)
  BY DEF Insert, TableStep
<1>3. ok \in BOOLEAN
  OBVIOUS
<1> HIDE DEF ok
<1>4. /\ stage' = [stage EXCEPT ![c] = "answered"]
      /\ requests' = requests /\ built' = built /\ DOMAIN answers' = Calls
      /\ \A d \in Calls : d # c => answers'[d] = answers[d]
      /\ answers'[c].results \in [DOMAIN built[c] -> Answer]
      /\ \A i \in DOMAIN built[c] :
            answers'[c].results[i].ok = ok /\ (ok => answers'[c].results[i].id = built[c][i].id)
  BY <1>1, <1>3, AnswersOfInsert DEF PublishInv
<1>5. ok => \A i \in BuiltIds(c) : WasStored(c, i)'
  <2>1. ok => InsertRows(c)
    BY DEF Insert, ok
  <2>2. BuiltIds(c) \subseteq Ids
    BY DEF PublishInv, PublishTypeOK
  <2>3. QED
    BY <2>1, <2>2 DEF InsertRows, WasStored
<1>6. SuccessIsOwn(c)'
  <2>1. ASSUME NEW i \in DOMAIN built[c], answers'[c].results[i].ok
        PROVE  WasStored(c, built[c][i].id)'
    <3>1. ok
      BY <1>4, <2>1
    <3>2. built[c][i].id \in BuiltIds(c)
      BY DEF BuiltIds
    <3>3. QED
      BY <1>4, <1>5, <3>1, <3>2 DEF WasStored
  <2>2. QED
    BY <1>4, <2>1 DEF SuccessIsOwn, WasStored
<1>7. faults' \in 0..MaxFaults
  BY <1>1 DEF PublishInv, PublishTypeOK
<1>8. QED
  BY <1>1, <1>2, <1>4, <1>6, <1>7, TableStepKeepsInv

\* An insert whose answer is lost reports errors, whether it stored or not.
LEMMA InsertUnansweredKeepsInv ==
    ASSUME PublishInv, NEW c \in Calls, InsertUnanswered(c)
    PROVE  PublishInv'
<1> faults' \in 0..MaxFaults
  BY DEF InsertUnanswered, Fault, PublishInv, PublishTypeOK
<1>1. stage[c] = "insert" /\ Respond(c, FALSE)
  BY DEF InsertUnanswered
<1>2. TableStep(c)
  BY DEF InsertUnanswered, TableStep
<1>3. /\ stage' = [stage EXCEPT ![c] = "answered"]
      /\ requests' = requests /\ built' = built /\ DOMAIN answers' = Calls
      /\ \A d \in Calls : d # c => answers'[d] = answers[d]
      /\ answers'[c].results \in [DOMAIN built[c] -> Answer]
      /\ \A i \in DOMAIN built[c] : answers'[c].results[i].ok = FALSE
  BY <1>1, AnswersOfInsert DEF PublishInv
<1>4. SuccessIsOwn(c)'
  BY <1>3 DEF SuccessIsOwn
<1>5. QED
  BY <1>1, <1>2, <1>3, <1>4, TableStepKeepsInv

\* A handler that is dropped answers nothing, whether it stored or not.
LEMMA DroppedKeepsInv ==
    ASSUME PublishInv, NEW c \in Calls, Dropped(c)
    PROVE  PublishInv'
<1>1. /\ stage[c] = "insert" /\ stage' = [stage EXCEPT ![c] = "dropped"]
      /\ requests' = requests /\ built' = built /\ answers' = answers
      /\ faults' \in 0..MaxFaults
  BY DEF Dropped, Fault, PublishInv, PublishTypeOK
<1>2. TableStep(c)
  BY DEF Dropped, TableStep
<1>3. /\ DOMAIN answers' = Calls
      /\ answers'[c].results \in [DOMAIN answers'[c].results -> Answer]
  BY <1>1 DEF PublishInv, PublishTypeOK
<1>4. SuccessIsOwn(c)'
  <2>1. \A i \in Ids : WasStored(c, i) => WasStored(c, i)'
    BY <1>1, NothingStoredBeforeInsert
  <2>2. \A i \in DOMAIN answers[c].results :
           answers[c].results[i].ok => answers[c].results[i].id \in Ids
    BY SuccessesHaveIds DEF PublishInv
  <2>3. QED
    BY <1>1, <2>1, <2>2 DEF PublishInv, SuccessIsOwn, WasStored
<1>5. QED
  BY <1>1, <1>2, <1>3, <1>4, TableStepKeepsInv

-----------------------------------------------------------------------------
(* Cancel and the drain.                                                   *)

\* A row that goes is remembered: what calls have stored stays stored.
LEMMA DeleteRowKeepsInv ==
    ASSUME PublishInv, NEW i \in Ids, DeleteRow(i), UNCHANGED rpc,
           cancel' \in [Cancels -> Ids \cup {None}], faults' \in 0..MaxFaults
    PROVE  PublishInv'
<1>1. /\ stage' = stage /\ requests' = requests /\ built' = built /\ answers' = answers
      /\ rows' = [rows EXCEPT ![i] = None]
      /\ taken' = taken \ {i}
      /\ cancelled' = IF rows[i] = None THEN cancelled ELSE cancelled \cup {<<i, rows[i]>>}
  BY DEF DeleteRow, rpc
<1>2. \A d \in Calls : BuiltIds(d)' = BuiltIds(d)
  BY <1>1 DEF BuiltIds
<1>3. rows \in [Ids -> Calls \cup {None}] /\ cancelled \subseteq Ids \X Calls
  BY DEF PublishInv, PublishTypeOK
<1>4. PublishTypeOK'
  <2>1. rows' \in [Ids -> Calls \cup {None}] /\ taken' \subseteq Ids
    BY <1>1, <1>3 DEF PublishInv, PublishTypeOK
  <2>2. cancelled' \subseteq Ids \X Calls
    <3>1. rows[i] # None => <<i, rows[i]>> \in Ids \X Calls
      BY <1>3
    <3>2. QED
      BY <1>1, <1>3, <3>1
  <2>3. /\ stage' \in [Calls -> {"new", "insert", "answered", "refused", "dropped"}]
        /\ requests' \in [Calls -> Seq(ProtoRequest(Named \cup {None, BadId}))]
        /\ DOMAIN built' = Calls /\ DOMAIN answers' = Calls
    BY <1>1 DEF PublishInv, PublishTypeOK
  <2>4. \A c \in Calls :
          /\ DOMAIN built'[c] \subseteq DOMAIN requests'[c]
          /\ BuiltIds(c)' \subseteq Ids
          /\ answers'[c].results \in [DOMAIN answers'[c].results -> Answer]
    BY <1>1, <1>2 DEF PublishInv, PublishTypeOK
  <2>5. QED
    BY <2>1, <2>2, <2>3, <2>4 DEF PublishTypeOK
<1>5. RowsHaveCalls'
  <2>1. ASSUME NEW j \in Ids, NEW d \in Calls, rows'[j] = d
        PROVE  j \in BuiltIds(d)' /\ stage'[d] \in {"answered", "dropped"}
    BY <1>1, <1>2, <1>3, <2>1, NoneIsNoCall DEF PublishInv, RowsHaveCalls
  <2>2. ASSUME NEW y \in cancelled'
        PROVE  y[1] \in BuiltIds(y[2])' /\ stage'[y[2]] \in {"answered", "dropped"}
    <3>1. CASE y \in cancelled
      BY <1>1, <1>2, <1>3, <3>1 DEF PublishInv, RowsHaveCalls
    <3>2. CASE rows[i] # None /\ y = <<i, rows[i]>>
      <4>1. rows[i] \in Calls /\ y[1] = i /\ y[2] = rows[i]
        BY <1>3, <3>2
      <4>2. i \in BuiltIds(rows[i]) /\ stage[rows[i]] \in {"answered", "dropped"}
        BY <3>2 DEF PublishInv, RowsHaveCalls
      <4>3. QED
        BY <1>1, <1>2, <4>1, <4>2
    <3>3. QED
      BY <1>1, <2>2, <3>1, <3>2
  <2>3. rows' \in [Ids -> Calls \cup {None}]
    BY <1>1, <1>3
  <2>4. QED
    BY <2>1, <2>2, <2>3 DEF RowsHaveCalls
<1>6. ASSUME NEW d \in Calls
      PROVE  StoredTogether(d)' /\ SuccessIsOwn(d)'
  <2>1. \A j \in Ids : WasStored(d, j)' <=> WasStored(d, j)
    BY <1>1, <1>3, NoneIsNoCall DEF WasStored
  <2>2. QED
    BY <1>1, <2>1, PromisesKept
<1>7. QED
  BY <1>4, <1>5, <1>6 DEF PublishInv

\* Steps that leave rows, calls and the ghost of the cancels alone.
LEMMA QuietStepKeepsInv ==
    ASSUME PublishInv, UNCHANGED <<rpc, rows, cancelled>>, taken' \subseteq Ids,
           cancel' \in [Cancels -> Ids \cup {None}], faults' \in 0..MaxFaults
    PROVE  PublishInv'
<1>1. /\ stage' = stage /\ requests' = requests /\ built' = built /\ answers' = answers
      /\ rows' = rows /\ cancelled' = cancelled
  BY DEF rpc
<1>2. PublishTypeOK'
  BY <1>1 DEF PublishInv, PublishTypeOK, BuiltIds
<1>3. RowsHaveCalls'
  BY <1>1 DEF PublishInv, RowsHaveCalls, BuiltIds
<1>4. ASSUME NEW d \in Calls
      PROVE  StoredTogether(d)' /\ SuccessIsOwn(d)'
  <2>1. \A j \in Ids : WasStored(d, j)' <=> WasStored(d, j)
    BY <1>1 DEF WasStored
  <2>2. QED
    BY <1>1, <2>1, PromisesKept
<1>5. QED
  BY <1>2, <1>3, <1>4 DEF PublishInv

\* A failed cancel reports nothing, whether it deleted or not.
LEMMA CancelFailsKeepsInv ==
    ASSUME PublishInv, NEW x \in Cancels, CancelFails(x)
    PROVE  PublishInv'
<1>1. /\ cancel[x] # None /\ UNCHANGED rpc
      /\ cancel' \in [Cancels -> Ids \cup {None}] /\ faults' \in 0..MaxFaults
  BY DEF CancelFails, Fault, PublishInv, PublishTypeOK
<1>2. CASE DeleteRow(cancel[x])
  <2>1. cancel[x] \in Ids
    BY <1>1 DEF PublishInv, PublishTypeOK
  <2>2. QED
    BY <1>1, <1>2, <2>1, DeleteRowKeepsInv
<1>3. CASE UNCHANGED <<rows, taken, cancelled>>
  BY <1>1, <1>3, QuietStepKeepsInv DEF PublishInv, PublishTypeOK
<1>4. QED
  BY <1>2, <1>3 DEF CancelFails

-----------------------------------------------------------------------------
(* The invariant.                                                          *)

\* The publish RPCs: what is valid in a call becomes rows together or not at all,
\* a success is the work of the very call it answers, and every row belongs to a
\* call that got to its insert, whatever is lost, repeated or cancelled.
THEOREM PublishInvariant == Spec => []PublishInv
<1>1. Init => PublishInv
  <2> SUFFICES ASSUME Init PROVE PublishInv
    OBVIOUS
  <2>1. \A c \in Calls : BuiltIds(c) = {} /\ DOMAIN answers[c].results = {}
    BY DEF Init, BuiltIds
  <2>2. PublishTypeOK
    <3>1. /\ stage \in [Calls -> {"new", "insert", "answered", "refused", "dropped"}]
          /\ requests \in [Calls -> Seq(ProtoRequest(Named \cup {None, BadId}))]
          /\ rows \in [Ids -> Calls \cup {None}]
          /\ taken \subseteq Ids /\ cancelled \subseteq Ids \X Calls
          /\ cancel \in [Cancels -> Ids \cup {None}]
          /\ faults \in 0..MaxFaults
      BY DEF Init
    <3>2. DOMAIN built = Calls /\ DOMAIN answers = Calls
      BY DEF Init
    <3>3. \A c \in Calls :
            /\ DOMAIN built[c] \subseteq DOMAIN requests[c]
            /\ BuiltIds(c) \subseteq Ids
      BY <2>1 DEF Init
    <3>4. \A c \in Calls : answers[c].results \in [DOMAIN answers[c].results -> Answer]
      <4>1. \A c \in Calls : answers[c].results = <<>>
        BY DEF Init
      <4>2. <<>> \in [DOMAIN <<>> -> Answer]
        OBVIOUS
      <4>3. QED
        BY <4>1, <4>2
    <3>5. QED
      BY <3>1, <3>2, <3>3, <3>4 DEF PublishTypeOK
  <2>3. RowsHaveCalls
    BY DEF Init, RowsHaveCalls
  <2>4. \A c \in Calls : StoredTogether(c) /\ SuccessIsOwn(c)
    BY <2>1 DEF StoredTogether, SuccessIsOwn
  <2>5. QED
    BY <2>2, <2>3, <2>4 DEF PublishInv
<1>2. PublishInv /\ [Next]_vars => PublishInv'
  <2> SUFFICES ASSUME PublishInv, [Next]_vars PROVE PublishInv'
    OBVIOUS
  <2>1. ASSUME NEW c \in Calls, NEW in \in Inputs, Refused(c, in) PROVE PublishInv'
    BY <2>1, RefusedKeepsInv
  <2>2. ASSUME NEW c \in Calls, NEW in \in Inputs, Submit(c, in) PROVE PublishInv'
    BY <2>2, SubmitKeepsInv
  <2>3. ASSUME NEW c \in Calls, Insert(c) PROVE PublishInv'
    BY <2>3, InsertKeepsInv
  <2>4. ASSUME NEW c \in Calls, InsertUnanswered(c) PROVE PublishInv'
    BY <2>4, InsertUnansweredKeepsInv
  <2>5. ASSUME NEW c \in Calls, Dropped(c) PROVE PublishInv'
    BY <2>5, DroppedKeepsInv
  <2>6. ASSUME NEW i \in Ids, Take(i) PROVE PublishInv'
    BY <2>6, QuietStepKeepsInv DEF Take, PublishInv, PublishTypeOK
  <2>7. ASSUME NEW x \in Cancels, NEW i \in Ids, CancelCheck(x, i) PROVE PublishInv'
    BY <2>7, QuietStepKeepsInv DEF CancelCheck, PublishInv, PublishTypeOK
  <2>8. ASSUME NEW x \in Cancels, CancelDelete(x) PROVE PublishInv'
    <3>1. cancel[x] \in Ids
      BY <2>8 DEF CancelDelete, PublishInv, PublishTypeOK
    <3>2. /\ DeleteRow(cancel[x]) /\ UNCHANGED rpc
          /\ cancel' \in [Cancels -> Ids \cup {None}] /\ faults' \in 0..MaxFaults
      BY <2>8 DEF CancelDelete, PublishInv, PublishTypeOK
    <3>3. QED
      BY <3>1, <3>2, DeleteRowKeepsInv
  <2>9. ASSUME NEW x \in Cancels, CancelFails(x) PROVE PublishInv'
    BY <2>9, CancelFailsKeepsInv
  <2>10. CASE UNCHANGED vars
    BY <2>10, QuietStepKeepsInv DEF vars, table, PublishInv, PublishTypeOK
  <2>11. QED
    BY <2>1, <2>2, <2>3, <2>4, <2>5, <2>6, <2>7, <2>8, <2>9, <2>10 DEF Next
<1>3. QED
  BY <1>1, <1>2, PTL DEF Spec

-----------------------------------------------------------------------------
(* The answers.                                                            *)

\* Every step leaves what other calls built and answered alone, and so does a
\* cancel with what any call has stored.
LEMMA StepsOfOthers ==
    ASSUME PublishInv, [Next]_vars, NEW d \in Calls,
           \A in \in Inputs : ~ Submit(d, in),
           ~ Insert(d), ~ InsertUnanswered(d), ~ Dropped(d)
    PROVE  /\ requests'[d] = requests[d] /\ built'[d] = built[d] /\ answers'[d] = answers[d]
           /\ \A i \in Ids : WasStored(d, i)' <=> WasStored(d, i)
           /\ stage'[d] = "answered" => stage[d] = "answered"
           /\ faults' = 0 => faults = 0
<1> DEFINE Goal == /\ requests'[d] = requests[d] /\ built'[d] = built[d] /\ answers'[d] = answers[d]
                   /\ \A i \in Ids : WasStored(d, i)' <=> WasStored(d, i)
                   /\ stage'[d] = "answered" => stage[d] = "answered"
                   /\ faults' = 0 => faults = 0
<1>0. faults \in Nat /\ DOMAIN stage = Calls /\ DOMAIN requests = Calls
      /\ DOMAIN built = Calls /\ DOMAIN answers = Calls /\ rows \in [Ids -> Calls \cup {None}]
  BY FaultsAssumption DEF PublishInv, PublishTypeOK
<1>1. ASSUME NEW c \in Calls, NEW in \in Inputs, Refused(c, in) PROVE Goal
  BY <1>0, <1>1 DEF Refused, table, WasStored
<1>2. ASSUME NEW c \in Calls, NEW in \in Inputs, Submit(c, in) PROVE Goal
  <2>1. c # d
    BY <1>2
  <2>2. PICK f : built' = [built EXCEPT ![c] = f]
    BY <1>2 DEF Submit
  <2>3. QED
    BY <1>0, <1>2, <2>1, <2>2 DEF Submit, table, WasStored
<1>3. ASSUME NEW c \in Calls, Insert(c) \/ InsertUnanswered(c) PROVE Goal
  <2>1. c # d /\ stage[c] = "insert"
    BY <1>3 DEF Insert, InsertUnanswered
  <2>2. TableStep(c)
    BY <1>3 DEF Insert, InsertUnanswered, TableStep
  <2>3. PICK ok \in BOOLEAN : Respond(c, ok)
    BY <1>3 DEF Insert, InsertUnanswered
  <2>4. \A i \in Ids : WasStored(d, i)' <=> WasStored(d, i)
    BY <2>1, <2>2, TableSteps
  <2>5. /\ requests'[d] = requests[d] /\ built'[d] = built[d] /\ answers'[d] = answers[d]
        /\ stage'[d] = stage[d]
    BY <1>0, <2>1, <2>3, AnswersOfInsert DEF PublishInv
  <2>6. faults' = 0 => faults = 0
    <3>1. faults' = faults \/ faults' = faults + 1
      BY <1>3 DEF Insert, InsertUnanswered, Fault
    <3>2. QED
      BY <1>0, <3>1
  <2>7. QED
    BY <2>4, <2>5, <2>6
<1>4. ASSUME NEW c \in Calls, Dropped(c) PROVE Goal
  <2>1. c # d /\ stage[c] = "insert"
    BY <1>4 DEF Dropped
  <2>2. TableStep(c)
    BY <1>4 DEF Dropped, TableStep
  <2>3. \A i \in Ids : WasStored(d, i)' <=> WasStored(d, i)
    BY <2>1, <2>2, TableSteps
  <2>4. QED
    BY <1>0, <1>4, <2>1, <2>3 DEF Dropped, Fault
<1>5. ASSUME NEW i \in Ids, Take(i) PROVE Goal
  BY <1>0, <1>5 DEF Take, rpc, WasStored
<1>6. ASSUME NEW x \in Cancels, NEW i \in Ids, CancelCheck(x, i) PROVE Goal
  BY <1>0, <1>6 DEF CancelCheck, rpc, WasStored
<1>7. ASSUME NEW x \in Cancels, CancelDelete(x) \/ CancelFails(x) PROVE Goal
  <2>1. UNCHANGED rpc /\ cancel[x] \in Ids /\ (faults' = 0 => faults = 0)
    BY <1>0, <1>7 DEF CancelDelete, CancelFails, Fault, PublishInv, PublishTypeOK
  <2>2. DeleteRow(cancel[x]) \/ UNCHANGED <<rows, taken, cancelled>>
    BY <1>7 DEF CancelDelete, CancelFails
  <2>3. \A i \in Ids : WasStored(d, i)' <=> WasStored(d, i)
    BY <1>0, <2>1, <2>2, NoneIsNoCall DEF DeleteRow, WasStored
  <2>4. QED
    BY <2>1, <2>3 DEF rpc
<1>8. ASSUME UNCHANGED vars PROVE Goal
  BY <1>8 DEF vars, rpc, table, WasStored
<1> HIDE DEF Goal
<1>9. Goal
  BY <1>1, <1>2, <1>3, <1>4, <1>5, <1>6, <1>7, <1>8 DEF Next
<1>10. QED
  BY <1>9 DEF Goal

\* What AnswersAreTrue says of one call.
AnswersTo(c) ==
    /\ stage[c] = "answered" => OneAnswerEach(c) /\ ErrorIsHonest(c)
    /\ \A i \in DOMAIN built[c] : ArrivesAsAsked(requests[c][i], built[c][i])

\* The message built at the submit are those the requests asked for.
LEMMA SubmitAnswers ==
    ASSUME PublishInv, NEW c \in Calls, NEW in \in Inputs, Submit(c, in)
    PROVE  AnswersTo(c)'
<1> DEFINE proto == ProtoRequests(in)
           valid == {i \in DOMAIN proto : Valid(proto[i])}
<1>1. PICK ids \in [valid -> Ids] :
         built' = [built EXCEPT ![c] = [i \in valid |-> OutboxMessage(proto[i], ids[i])]]
  BY DEF Submit
<1>2. requests' = [requests EXCEPT ![c] = proto] /\ stage' = [stage EXCEPT ![c] = "insert"]
  BY DEF Submit
<1>3. proto \in Seq(ProtoRequest(GivenIds))
  BY HandlersGetProtoRequests DEF Submit
<1> HIDE DEF proto
<1>4. \A i \in valid : proto[i] \in ProtoRequest(GivenIds) /\ Valid(proto[i])
  BY <1>3
<1>5. \A i \in valid : ArrivesAsAsked(proto[i], OutboxMessage(proto[i], ids[i]))
  BY <1>4, MessagesArriveAsAsked
<1> HIDE DEF valid
<1>6. /\ built'[c] = [i \in valid |-> OutboxMessage(proto[i], ids[i])]
      /\ requests'[c] = proto /\ stage'[c] = "insert"
  BY <1>1, <1>2 DEF PublishInv, PublishTypeOK
<1>7. \A i \in DOMAIN built'[c] : ArrivesAsAsked(requests'[c][i], built'[c][i])
  BY <1>5, <1>6
<1>8. QED
  BY <1>6, <1>7 DEF AnswersTo, ArrivesAsAsked

\* The answer to an insert: one per request, all alike, and without a fault an
\* error only if the table has refused.
LEMMA InsertAnswers ==
    ASSUME PublishInv, NEW c \in Calls, AnswersTo(c), Insert(c) \/ InsertUnanswered(c)
    PROVE  AnswersTo(c)'
<1>1. PICK ok \in BOOLEAN : Respond(c, ok) /\ (ok \/ Refuses(c) \/ faults' # 0)
  <2>1. CASE Insert(c) /\ Refuses(c)
    <3>1. Respond(c, FALSE)
      BY <2>1 DEF Insert, Respond
    <3>2. QED
      BY <2>1, <3>1
  <2>2. CASE Insert(c) /\ ~ Refuses(c)
    <3>1. Respond(c, TRUE)
      BY <2>2 DEF Insert, Respond
    <3>2. QED
      BY <3>1
  <2>3. CASE InsertUnanswered(c)
    <3>1. Respond(c, FALSE) /\ faults' = faults + 1
      BY <2>3 DEF InsertUnanswered, Fault
    <3>2. faults \in Nat
      BY FaultsAssumption DEF PublishInv, PublishTypeOK
    <3>3. faults' # 0
      BY <3>1, <3>2
    <3>4. QED
      BY <3>1, <3>3
  <2>4. QED
    BY <2>1, <2>2, <2>3
<1>2. /\ requests' = requests /\ built' = built
      /\ answers'[c].errors = DOMAIN requests[c] \ DOMAIN built[c]
      /\ answers'[c].results \in [DOMAIN built[c] -> Answer]
      /\ \A i \in DOMAIN built[c] : answers'[c].results[i].ok = ok
  BY <1>1, AnswersOfInsert DEF PublishInv
<1>3. DOMAIN built[c] \subseteq DOMAIN requests[c] /\ BuiltIds(c)' = BuiltIds(c)
  BY <1>2 DEF PublishInv, PublishTypeOK, BuiltIds
<1>4. OneAnswerEach(c)'
  BY <1>2, <1>3 DEF OneAnswerEach
<1>5. ErrorIsHonest(c)'
  <2> SUFFICES ASSUME NEW i \in DOMAIN answers'[c].results,
                      ~ answers'[c].results[i].ok, faults' = 0,
                      NEW j \in BuiltIds(c)
               PROVE  ~ WasStored(c, j)'
    BY <1>3 DEF ErrorIsHonest, WasStored
  <2>1. Refuses(c)
    BY <1>1, <1>2
  <2>2. rows' = rows /\ cancelled' = cancelled
    BY <2>1 DEF Insert, InsertUnanswered, table
  <2>3. ~ WasStored(c, j)
    BY NothingStoredBeforeInsert DEF Insert, InsertUnanswered, PublishInv, PublishTypeOK
  <2>4. QED
    BY <2>2, <2>3 DEF WasStored
<1>6. QED
  BY <1>2, <1>4, <1>5 DEF AnswersTo, ArrivesAsAsked

\* Every request of an answered call has one answer, an error without a fault
\* means that nothing was stored, and what was built arrives as asked.
THEOREM AnswersTrue == Spec => []AnswersAreTrue
<1> DEFINE A == \A c \in Calls : AnswersTo(c)
<1>1. Init => A
  BY DEF Init, AnswersTo
<1>2. PublishInv /\ A /\ [Next]_vars => A'
  <2> SUFFICES ASSUME PublishInv, A, [Next]_vars, NEW d \in Calls PROVE AnswersTo(d)'
    OBVIOUS
  <2>1. CASE \E in \in Inputs : Submit(d, in)
    BY <2>1, SubmitAnswers
  <2>2. CASE Insert(d) \/ InsertUnanswered(d)
    BY <2>2, InsertAnswers
  <2>3. CASE Dropped(d)
    <3>1. stage'[d] = "dropped" /\ requests' = requests /\ built' = built
      BY <2>3 DEF Dropped, PublishInv, PublishTypeOK
    <3>2. QED
      BY <3>1 DEF AnswersTo, ArrivesAsAsked
  <2>4. CASE ~ (\/ \E in \in Inputs : Submit(d, in)
                \/ Insert(d) \/ InsertUnanswered(d) \/ Dropped(d))
    <3>1. /\ requests'[d] = requests[d] /\ built'[d] = built[d] /\ answers'[d] = answers[d]
          /\ \A i \in Ids : WasStored(d, i)' <=> WasStored(d, i)
          /\ stage'[d] = "answered" => stage[d] = "answered"
          /\ faults' = 0 => faults = 0
      BY <2>4, StepsOfOthers
    <3>2. BuiltIds(d)' = BuiltIds(d) /\ BuiltIds(d) \subseteq Ids
      BY <3>1, BuiltIdsKept DEF PublishInv, PublishTypeOK
    <3>3. OneAnswerEach(d) => OneAnswerEach(d)'
      BY <3>1 DEF OneAnswerEach
    <3>4. ErrorIsHonest(d) => ErrorIsHonest(d)'
      BY <3>1, <3>2 DEF ErrorIsHonest
    <3>5. (\A i \in DOMAIN built[d] : ArrivesAsAsked(requests[d][i], built[d][i]))
             => (\A i \in DOMAIN built'[d] : ArrivesAsAsked(requests'[d][i], built'[d][i]))
      BY <3>1
    <3>6. (\A i \in DOMAIN built[d] : ArrivesAsAsked(requests[d][i], built[d][i]))'
             <=> (\A i \in DOMAIN built'[d] : ArrivesAsAsked(requests'[d][i], built'[d][i]))
      BY DEF ArrivesAsAsked
    <3>7. QED
      BY <3>1, <3>3, <3>4, <3>5, <3>6, Zenon DEF AnswersTo
  <2>5. QED
    BY <2>1, <2>2, <2>3, <2>4
<1>3. A <=> AnswersAreTrue
  BY DEF AnswersTo, AnswersAreTrue
<1>4. QED
  BY <1>1, <1>2, <1>3, PublishInvariant, PTL DEF Spec

=============================================================================
