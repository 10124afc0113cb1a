----------------------------- MODULE PublishRpc -----------------------------
(***************************************************************************)
(* The publish RPCs up to the row in the outbox: publish, publish_batch    *)
(* and each request of stream_publish, over gRPC or HTTP; and cancel.      *)
(* Clients may name their messages, repeat a request whose answer they     *)
(* lost, cancel, and call from many connections at once; the unique key of *)
(* the table is all that recognises a message.  Outbox takes over where    *)
(* the row exists: of the drain only the claim is seen here.               *)
(***************************************************************************)
EXTENDS Naturals, Sequences, MessagePath

CONSTANTS
    Calls,     \* handlers of publish RPCs
    Cancels,   \* handlers of cancel_message
    Named,     \* message ids that clients give
    Generated, \* message ids that the server draws
    None,      \* no id in a request, no call for a row, no message to cancel
    BadId,     \* an id that is not a UUID
    Inputs,    \* what clients may send in one RPC: transport and requests
    MaxFaults  \* bound: failed statements, lost answers, dropped handlers

Ids == Named \cup Generated

ASSUME IdsAssumption    == /\ Named \cap Generated = {} /\ None # BadId
                           /\ {None, BadId} \cap (Ids \cup Calls) = {}
ASSUME InputsAssumption ==
    \A in \in Inputs :
        \/ in.via = "grpc" /\ in.requests \in Seq(ProtoRequest(Named \cup {None, BadId}))
        \/ in.via = "http" /\ in.requests \in Seq(HttpRequest(Named \cup {None, BadId}))
ASSUME FaultsAssumption == MaxFaults \in Nat

VARIABLES
    stage,     \* what each publish handler does next
    requests,  \* the proto requests it works on
    built,     \* the messages it built, by the positions of the valid ones
    answers,   \* its responses: first the requests in error, then the results
    rows,      \* the table: ghost, the call whose statement inserted the row
    taken,     \* rows that are no longer pending
    cancel,    \* the message each cancel handler has found pending
    cancelled, \* ghost: <<id, call>> of the rows that cancels have deleted
    faults     \* faults so far, at most MaxFaults

rpc   == <<stage, requests, built, answers>>
table == <<rows, taken, cancel, cancelled>>
vars  == <<rpc, table, faults>>

\* A success names the message, an error does not.
Error  == [ok |-> FALSE, id |-> None]
Answer == [ok : {TRUE}, id : Ids] \cup {Error}

Init ==
    /\ stage = [c \in Calls |-> "new"]
    /\ requests = [c \in Calls |-> <<>>]
    /\ built = [c \in Calls |-> <<>>]
    /\ answers = [c \in Calls |-> [errors |-> {}, results |-> <<>>]]
    /\ rows = [i \in Ids |-> None]
    /\ taken = {}
    /\ cancel = [x \in Cancels |-> None]
    /\ cancelled = {}
    /\ faults = 0

Fault == faults < MaxFaults /\ faults' = faults + 1

-----------------------------------------------------------------------------
(* Publish.                                                                *)

\* The gateway refuses the whole RPC if the parts of one request are bad.
GatewayRefuses(in) == in.via = "http" /\ \E i \in DOMAIN in.requests : BadParts(in.requests[i])

\* The proto requests of what a client sends.
ProtoRequests(in) ==
    IF in.via = "http" THEN [i \in DOMAIN in.requests |-> IntoProto(in.requests[i])]
    ELSE in.requests

Refused(c, in) ==
    /\ stage[c] = "new"
    /\ GatewayRefuses(in)
    /\ stage' = [stage EXCEPT ![c] = "refused"]
    /\ UNCHANGED <<requests, built, answers, table, faults>>

\* build accepts an id that is empty or a UUID, and a payload that is empty or JSON.
Valid(r) == r.id # BadId /\ r.payload # NotJson

\* The ids of the messages of c.
BuiltIds(c) == {built[c][i].id : i \in DOMAIN built[c]}

\* Ids drawn by any handler: a UUIDv7 does not come twice.
Drawn == UNION {BuiltIds(c) : c \in Calls} \cap Generated

\* The handler builds a message from every valid request, drawing the ids that
\* are missing, and goes on to the insert.
Submit(c, in) ==
    LET proto == ProtoRequests(in)
        valid == {i \in DOMAIN proto : Valid(proto[i])}
    IN  /\ stage[c] = "new"
        /\ ~ GatewayRefuses(in)
        /\ \E ids \in [valid -> Ids] :
              /\ \A i \in valid :
                    IF proto[i].id # None THEN ids[i] = proto[i].id
                    ELSE ids[i] \in Generated \ Drawn
              /\ \A i, j \in valid : ids[i] = ids[j] /\ i # j => ids[i] \in Named
              /\ built' = [built EXCEPT ![c] = [i \in valid |-> OutboxMessage(proto[i], ids[i])]]
        /\ requests' = [requests EXCEPT ![c] = proto]
        /\ stage' = [stage EXCEPT ![c] = "insert"]
        /\ UNCHANGED <<answers, table, faults>>

\* The table refuses a batch that repeats an id, names an existing row, or has a
\* topic longer than its column.
Refuses(c) ==
    \/ \E i, j \in DOMAIN built[c] : i # j /\ built[c][i].id = built[c][j].id
    \/ \E i \in DOMAIN built[c] : rows[built[c][i].id] # None \/ built[c][i].topic = "too long"

\* The one INSERT of create or create_batch; an empty batch makes no statement.
InsertRows(c) ==
    /\ rows' = [i \in Ids |-> IF i \in BuiltIds(c) THEN c ELSE rows[i]]
    /\ UNCHANGED <<taken, cancel, cancelled>>

\* The responses: the errors of the invalid requests, then, in their order, one
\* result for each message.
Respond(c, ok) ==
    /\ answers' = [answers EXCEPT ![c] =
          [errors  |-> DOMAIN requests[c] \ DOMAIN built[c],
           results |-> [i \in DOMAIN built[c] |->
                           IF ok THEN [ok |-> TRUE, id |-> built[c][i].id] ELSE Error]]]
    /\ stage' = [stage EXCEPT ![c] = "answered"]
    /\ UNCHANGED <<requests, built>>

\* Mutant: existing rows are passed over (ON CONFLICT DO NOTHING).
InsertSkipsDuplicates(c) ==
    /\ stage[c] = "insert"
    /\ rows' = [i \in Ids |-> IF rows[i] = None /\ i \in BuiltIds(c) THEN c ELSE rows[i]]
    /\ Respond(c, TRUE)
    /\ UNCHANGED <<taken, cancel, cancelled, faults>>

\* The statement runs and is answered.
Insert(c) ==
    /\ stage[c] = "insert"
    /\ IF Refuses(c) THEN UNCHANGED table ELSE InsertRows(c)
    /\ Respond(c, ~ Refuses(c))
    /\ UNCHANGED faults

\* The statement fails, or it commits and its answer is lost: the handler
\* cannot tell and reports a failed insert.
InsertUnanswered(c) ==
    /\ stage[c] = "insert"
    /\ DOMAIN built[c] # {}
    /\ Fault
    /\ UNCHANGED table \/ (~ Refuses(c) /\ InsertRows(c))
    /\ Respond(c, FALSE)

\* The client disconnects and the handler is dropped, before or after the
\* statement has been executed.
Dropped(c) ==
    /\ stage[c] = "insert"
    /\ Fault
    /\ UNCHANGED table \/ (~ Refuses(c) /\ InsertRows(c))
    /\ stage' = [stage EXCEPT ![c] = "dropped"]
    /\ UNCHANGED <<requests, built, answers>>

-----------------------------------------------------------------------------
(* Cancel, and the drain as far as cancel sees it.                         *)

\* A publisher claims row i.
Take(i) ==
    /\ rows[i] # None
    /\ i \notin taken
    /\ taken' = taken \cup {i}
    /\ UNCHANGED <<rpc, rows, cancel, cancelled, faults>>

\* cancel_message, first half: the row is there and pending.  In all other cases
\* the handler answers at once.
CancelCheck(x, i) ==
    /\ cancel[x] = None
    /\ rows[i] # None
    /\ i \notin taken
    /\ cancel' = [cancel EXCEPT ![x] = i]
    /\ UNCHANGED <<rpc, rows, taken, cancelled, faults>>

\* Row i goes, whatever it has become since the check, or whosever it is by now.
DeleteRow(i) ==
    /\ rows' = [rows EXCEPT ![i] = None]
    /\ taken' = taken \ {i}
    /\ cancelled' = IF rows[i] = None THEN cancelled ELSE cancelled \cup {<<i, rows[i]>>}

\* cancel_message, second half.
CancelDelete(x) ==
    /\ cancel[x] # None
    /\ DeleteRow(cancel[x])
    /\ cancel' = [cancel EXCEPT ![x] = None]
    /\ UNCHANGED <<rpc, faults>>

\* The delete fails, loses its answer, or the handler is dropped around it.
CancelFails(x) ==
    /\ cancel[x] # None
    /\ Fault
    /\ DeleteRow(cancel[x]) \/ UNCHANGED <<rows, taken, cancelled>>
    /\ cancel' = [cancel EXCEPT ![x] = None]
    /\ UNCHANGED rpc

Next ==
    \/ \E c \in Calls :
          \/ \E in \in Inputs : Refused(c, in) \/ Submit(c, in)
          \/ Insert(c)
          \/ InsertUnanswered(c)
          \/ Dropped(c)
    \/ \E i \in Ids : Take(i)
    \/ \E x \in Cancels : (\E i \in Ids : CancelCheck(x, i)) \/ CancelDelete(x) \/ CancelFails(x)

Spec == Init /\ [][Next]_vars

-----------------------------------------------------------------------------
(* What the caller of a publish RPC may rely on.                           *)

PublishTypeOK ==
    /\ stage \in [Calls -> {"new", "insert", "answered", "refused", "dropped"}]
    /\ requests \in [Calls -> Seq(ProtoRequest(Named \cup {None, BadId}))]
    /\ DOMAIN built = Calls /\ DOMAIN answers = Calls
    /\ rows \in [Ids -> Calls \cup {None}]
    /\ taken \subseteq Ids
    /\ cancel \in [Cancels -> Ids \cup {None}]
    /\ cancelled \subseteq Ids \X Calls
    /\ faults \in 0..MaxFaults
    /\ \A c \in Calls :
          /\ DOMAIN built[c] \subseteq DOMAIN requests[c]
          /\ BuiltIds(c) \subseteq Ids
          /\ answers[c].results \in [DOMAIN answers[c].results -> Answer]

\* Message i of call c has had a row: it is there, or a cancel has deleted it.
WasStored(c, i) == rows[i] = c \/ <<i, c>> \in cancelled

\* "All messages are persisted atomically": of the valid requests of a call
\* either all have become rows or none has, whatever fails on the way.
StoredTogether(c) ==
    \/ \A i \in BuiltIds(c) : WasStored(c, i)
    \/ \A i \in BuiltIds(c) : ~ WasStored(c, i)

\* A success is the work of this very call, so that of all calls that name one
\* message, concurrent or repeated, no second one succeeds unless the message of
\* the first has been cancelled.
SuccessIsOwn(c) ==
    LET results == answers[c].results
    IN  \A i \in DOMAIN results : results[i].ok => WasStored(c, results[i].id)

\* Rows come from handlers that have been through their insert.
RowsHaveCalls ==
    /\ \A i \in Ids : rows[i] # None =>
          i \in BuiltIds(rows[i]) /\ stage[rows[i]] \in {"answered", "dropped"}
    /\ \A y \in cancelled : y[1] \in BuiltIds(y[2]) /\ stage[y[2]] \in {"answered", "dropped"}

\* The inductive invariant of the publish RPCs.
PublishInv ==
    /\ PublishTypeOK
    /\ RowsHaveCalls
    /\ \A c \in Calls : StoredTogether(c) /\ SuccessIsOwn(c)

\* Every request is answered once, and the results of the valid ones agree.
OneAnswerEach(c) ==
    /\ answers[c].errors \cup DOMAIN answers[c].results = DOMAIN requests[c]
    /\ answers[c].errors \cap DOMAIN answers[c].results = {}
    /\ \A i, j \in DOMAIN answers[c].results : answers[c].results[i].ok = answers[c].results[j].ok

\* A failed result means that nothing was stored, unless an answer was lost.
ErrorIsHonest(c) ==
    \A i \in DOMAIN answers[c].results :
        ~ answers[c].results[i].ok /\ faults = 0 => \A j \in BuiltIds(c) : ~ WasStored(c, j)

\* The answers of a publish RPC tell what happened, and the messages it built
\* arrive over Kafka as their requests asked.
AnswersAreTrue ==
    \A c \in Calls :
        /\ stage[c] = "answered" => OneAnswerEach(c) /\ ErrorIsHonest(c)
        /\ \A i \in DOMAIN built[c] : ArrivesAsAsked(requests[c][i], built[c][i])

=============================================================================
