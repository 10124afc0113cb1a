---------------------------- MODULE Subscriptions ----------------------------
(***************************************************************************)
(* The subscription registry: rows of the subscribers table and the RPCs   *)
(* that register, unregister, update and list them, over gRPC or HTTP.  An *)
(* update reads the row in one statement and writes all of it back in      *)
(* another; anything may happen between the two, as no transaction spans   *)
(* them.  Delivery takes over where the active rows are read.              *)
(***************************************************************************)
EXTENDS Naturals

CONSTANTS
    Subscribers, \* row ids, drawn by register_subscriber
    Endpoints,   \* grpc_endpoint values
    PatternSets, \* topic_patterns values
    Updates,     \* handlers of update_subscriber
    Requests,    \* what clients may send to them
    None,        \* no row, no change of a field
    MaxFaults    \* bound: failed statements and dropped handlers

Fields == {"endpoint", "patterns", "active"}
Row    == [endpoint : Endpoints, patterns : PatternSets, active : BOOLEAN]

\* An empty endpoint or pattern list in the request leaves the field alone.
Request == [via : {"grpc", "http"}, endpoint : Endpoints \cup {None},
            patterns : PatternSets \cup {None}, active : BOOLEAN \cup {None}]

ASSUME NoneAssumption     == /\ None \notin Subscribers \cup Endpoints \cup PatternSets \cup BOOLEAN
                             /\ None \notin Row
ASSUME RequestsAssumption == Requests \subseteq Request
ASSUME FaultsAssumption   == MaxFaults \in Nat

\* Mutant: the gateway fills in the default of the type.
ActiveOfDefault(q) == q.active = TRUE

\* `active` has no such value: the gateway takes a missing one for true, and
\* over gRPC a missing one is false.
ActiveOf(q) == IF q.active # None THEN q.active ELSE q.via = "http"

Idle == [id |-> None]

VARIABLES
    rows,   \* the table: a row for each id, or None
    update, \* what each update handler is about to write
    faults, \* faults so far, at most MaxFaults
    undone  \* ghost: fields of its row that others changed since each handler's read

vars == <<rows, update, faults, undone>>

Init ==
    /\ rows = [s \in Subscribers |-> None]
    /\ update = [u \in Updates |-> Idle]
    /\ faults = 0
    /\ undone = [u \in Updates |-> {}]

Fault == faults < MaxFaults /\ faults' = faults + 1

\* Row s becomes r; the handlers that have read s work on an older one now.
Write(s, r) ==
    /\ rows' = [rows EXCEPT ![s] = r]
    /\ undone' = [u \in Updates |->
          IF update[u] # Idle /\ update[u].id = s
          THEN undone[u] \cup {f \in Fields : rows[s][f] # r[f]} ELSE undone[u]]

\* register_subscriber: a fresh id and an active row.
Register(s, e, P) ==
    /\ rows[s] = None
    /\ rows' = [rows EXCEPT ![s] = [endpoint |-> e, patterns |-> P, active |-> TRUE]]
    /\ UNCHANGED <<update, faults, undone>>

\* Mutant: the row is deleted under the handlers that have read it.
UnregisterDeletes(s) ==
    /\ rows[s] # None
    /\ rows' = [rows EXCEPT ![s] = None]
    /\ UNCHANGED <<update, faults, undone>>

\* unregister_subscriber deactivates; an id without a row is a success, too.
Unregister(s) ==
    /\ rows[s] # None
    /\ Write(s, [rows[s] EXCEPT !.active = FALSE])
    /\ UNCHANGED <<update, faults>>

\* Mutant: an omitted pattern list overwrites the old one with a default.
MergedWithDefaults(row, q) ==
    [endpoint |-> IF q.endpoint = None THEN row.endpoint ELSE q.endpoint,
     patterns |-> IF q.patterns = None THEN CHOOSE P \in PatternSets : TRUE ELSE q.patterns,
     active   |-> ActiveOf(q)]

\* The row in memory with the fields of the request.
Merged(row, q) ==
    [endpoint |-> IF q.endpoint = None THEN row.endpoint ELSE q.endpoint,
     patterns |-> IF q.patterns = None THEN row.patterns ELSE q.patterns,
     active   |-> ActiveOf(q)]

\* update_subscriber, first half: get_by_id and the changes in memory.  An
\* unknown id is answered not found.
UpdateRead(u, s, q) ==
    /\ update[u] = Idle
    /\ rows[s] # None
    /\ update' = [update EXCEPT ![u] = [id |-> s, request |-> q, row |-> Merged(rows[s], q)]]
    /\ undone' = [undone EXCEPT ![u] = {}]
    /\ UNCHANGED <<rows, faults>>

\* update_subscriber, second half: all columns are written.
UpdateWrite(u) ==
    /\ update[u] # Idle
    /\ Write(update[u].id, update[u].row)
    /\ update' = [update EXCEPT ![u] = Idle]
    /\ UNCHANGED faults

\* The write fails, or the handler is dropped before it.
UpdateFails(u) ==
    /\ update[u] # Idle
    /\ Fault
    /\ update' = [update EXCEPT ![u] = Idle]
    /\ UNCHANGED <<rows, undone>>

Next ==
    \/ \E s \in Subscribers :
          \/ \E e \in Endpoints, P \in PatternSets : Register(s, e, P)
          \/ Unregister(s)
    \/ \E u \in Updates :
          \/ \E s \in Subscribers, q \in Requests : UpdateRead(u, s, q)
          \/ UpdateWrite(u)
          \/ UpdateFails(u)

Spec == Init /\ [][Next]_vars

-----------------------------------------------------------------------------
(* What the owner of a subscription may rely on.                           *)

\* The subscribers that list_subscribers and the dispatcher are given, whatever
\* filter a client sends along.
Listed == {s \in Subscribers : rows[s] # None /\ rows[s].active}

SubscriptionTypeOK ==
    /\ rows \in [Subscribers -> Row \cup {None}]
    /\ update \in [Updates -> {Idle} \cup [id : Subscribers, request : Request, row : Row]]
    /\ faults \in 0..MaxFaults
    /\ undone \in [Updates -> SUBSET Fields]
    /\ \A u \in Updates : update[u] # Idle => rows[update[u].id] # None

\* The request of u sets field f.
Asks(u, f) == f = "active" \/ update[u].request[f] # None

\* A handler is about to write what its request asks for, and elsewhere what the
\* row holds, unless the row has changed since it was read.
WritesAreCurrent(u) ==
    update[u] # Idle =>
        /\ \A f \in Fields \ {"active"} : Asks(u, f) => update[u].row[f] = update[u].request[f]
        /\ update[u].row.active = ActiveOf(update[u].request)
        /\ \A f \in Fields : ~ Asks(u, f) /\ f \notin undone[u] =>
              update[u].row[f] = rows[update[u].id][f]

\* The inductive invariant of the registry.
SubscriptionInv == SubscriptionTypeOK /\ \A u \in Updates : WritesAreCurrent(u)

\* Update u writes row s in this step.
Finishes(u, s) == update[u] # Idle /\ update[u].id = s /\ update'[u] = Idle

\* The endpoint and the patterns of a subscription change only because a request
\* asks for it, or because an update that leaves them alone undoes a change made
\* since its read; updates that do not overlap lose nothing.
OnlyOverlapsUndo ==
    [][\A s \in Subscribers, f \in Fields \ {"active"} :
          rows[s] # None /\ rows'[s][f] # rows[s][f] =>
             \E u \in Updates :
                /\ Finishes(u, s)
                /\ \/ Asks(u, f) /\ rows'[s][f] = update[u].request[f]
                   \/ f \in undone[u]]_vars

\* Who is unregistered stays out of the list until an update over HTTP brings it
\* back, by asking for it or by not mentioning `active`, or one over gRPC that
\* asks for it; and no update over HTTP takes out of the list who does not ask
\* for it, however it overlaps with others.
OnlyUpdatesRevive ==
    [][\A s \in Subscribers :
          /\ rows[s] # None /\ s \notin Listed /\ s \in Listed' =>
                \E u \in Updates : /\ Finishes(u, s)
                                   /\ \/ update[u].request.active = TRUE
                                      \/ update[u].request.active = None /\ update[u].request.via = "http"
          /\ s \in Listed /\ s \notin Listed' =>
                \A u \in Updates : Finishes(u, s) =>
                    ~ (update[u].request.via = "http" /\ update[u].request.active # FALSE)]_vars

=============================================================================
