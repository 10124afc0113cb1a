------------------------ MODULE SubscriptionsProofs ------------------------
(***************************************************************************)
(* Proofs about the subscription registry, for any subscribers, values,    *)
(* handlers and requests: what a handler is about to write, that only      *)
(* updates which overlap lose a change, and what brings back a subscriber  *)
(* that has been unregistered.                                             *)
(***************************************************************************)
EXTENDS Subscriptions, TLAPS

USE NoneAssumption, RequestsAssumption, FaultsAssumption

\* What a handler that is not idle has.
Update == [id : Subscribers, request : Request, row : Row]

\* A handler that is idle has nothing to write.
LEMMA IdleIsNoUpdate == Idle \notin Update
<1>1. \A x \in Update : x.id # None
  BY DEF Update
<1>2. QED
  BY <1>1 DEF Idle

\* Merging a request into a row gives a row, with what the request asks for and
\* elsewhere what was there.
LEMMA MergedIsRow ==
    ASSUME NEW row \in Row, NEW q \in Request
    PROVE  /\ ActiveOf(q) \in BOOLEAN
           /\ Merged(row, q) \in Row
           /\ Merged(row, q).active = ActiveOf(q)
           /\ \A f \in Fields \ {"active"} :
                 Merged(row, q)[f] = IF q[f] = None THEN row[f] ELSE q[f]
<1>1. ActiveOf(q) \in BOOLEAN
  <2>1. CASE q.active # None
    BY <2>1 DEF ActiveOf, Request
  <2>2. CASE q.active = None
    BY <2>2 DEF ActiveOf
  <2>3. QED
    BY <2>1, <2>2
<1>2. Merged(row, q).active = ActiveOf(q)
  BY DEF Merged
<1>3. \A f \in Fields \ {"active"} : Merged(row, q)[f] = IF q[f] = None THEN row[f] ELSE q[f]
  BY DEF Merged, Fields
<1>4. Merged(row, q) \in Row
  <2>1. /\ (IF q.endpoint = None THEN row.endpoint ELSE q.endpoint) \in Endpoints
        /\ (IF q.patterns = None THEN row.patterns ELSE q.patterns) \in PatternSets
    BY DEF Row, Request
  <2>2. QED
    BY <1>1, <2>1 DEF Merged, Row
<1>5. QED
  BY <1>1, <1>2, <1>3, <1>4

\* The facts of the type invariant that the steps need, about one handler.
LEMMA BusyHandler ==
    ASSUME SubscriptionTypeOK, NEW u \in Updates, update[u] # Idle
    PROVE  /\ update[u] \in Update /\ update[u].id \in Subscribers
           /\ update[u].request \in Request /\ update[u].row \in Row
           /\ rows[update[u].id] \in Row
<1>1. update[u] \in Update
  BY DEF SubscriptionTypeOK, Update
<1>2. update[u].id \in Subscribers /\ update[u].request \in Request /\ update[u].row \in Row
  BY <1>1 DEF Update
<1>3. rows[update[u].id] \in Row
  BY <1>2 DEF SubscriptionTypeOK
<1>4. QED
  BY <1>1, <1>2, <1>3

-----------------------------------------------------------------------------
(* Writes.                                                                 *)

\* A write keeps what the handlers that stay busy are about to write current:
\* the fields it changes are undone for those that have read the row.
LEMMA WriteKeepsCurrent ==
    ASSUME SubscriptionInv, NEW s \in Subscribers, NEW r \in Row, rows[s] # None, Write(s, r),
           NEW u \in Updates, update'[u] = update[u]
    PROVE  WritesAreCurrent(u)'
<1>1. /\ rows' = [rows EXCEPT ![s] = r]
      /\ undone'[u] = IF update[u] # Idle /\ update[u].id = s
                      THEN undone[u] \cup {f \in Fields : rows[s][f] # r[f]} ELSE undone[u]
  BY DEF Write
<1>2. CASE update[u] = Idle
  BY <1>2 DEF WritesAreCurrent
<1>3. CASE update[u] # Idle
  <2>1. update[u].id \in Subscribers
    BY <1>3, BusyHandler DEF SubscriptionInv
  <2>2. \A f \in Fields : Asks(u, f)' <=> Asks(u, f)
    BY DEF Asks
  <2>3. ASSUME NEW f \in Fields, ~ Asks(u, f), f \notin undone'[u]
        PROVE  update[u].row[f] = rows'[update[u].id][f]
    <3>1. update[u].row[f] = rows[update[u].id][f]
      BY <1>1, <1>3, <2>3 DEF SubscriptionInv, WritesAreCurrent
    <3>2. CASE update[u].id = s
      BY <1>1, <1>3, <2>3, <3>1, <3>2 DEF SubscriptionInv, SubscriptionTypeOK
    <3>3. CASE update[u].id # s
      BY <1>1, <2>1, <3>1, <3>3 DEF SubscriptionInv, SubscriptionTypeOK
    <3>4. QED
      BY <3>2, <3>3
  <2>4. QED
    BY <1>3, <2>2, <2>3 DEF SubscriptionInv, WritesAreCurrent, ActiveOf
<1>4. QED
  BY <1>2, <1>3

\* The type invariant after a write.
LEMMA WriteKeepsType ==
    ASSUME SubscriptionTypeOK, NEW s \in Subscribers, NEW r \in Row, Write(s, r),
           update' \in [Updates -> {Idle} \cup Update], faults' = faults,
           \A u \in Updates : update'[u] # Idle => update'[u] = update[u]
    PROVE  SubscriptionTypeOK'
<1>1. rows' \in [Subscribers -> Row \cup {None}]
  BY DEF Write, SubscriptionTypeOK
<1>2. undone' \in [Updates -> SUBSET Fields]
  <2>1. \A u \in Updates : (IF update[u] # Idle /\ update[u].id = s
                            THEN undone[u] \cup {f \in Fields : rows[s][f] # r[f]} ELSE undone[u])
                           \in SUBSET Fields
    BY DEF SubscriptionTypeOK
  <2>2. QED
    BY <2>1 DEF Write
<1>3. ASSUME NEW u \in Updates, update'[u] # Idle
      PROVE  rows'[update'[u].id] # None
  <2>1. update'[u] = update[u] /\ update[u].id \in Subscribers /\ rows[update[u].id] # None
    BY <1>3, BusyHandler DEF SubscriptionTypeOK
  <2>2. QED
    BY <2>1 DEF Write, SubscriptionTypeOK
<1>4. QED
  BY <1>1, <1>2, <1>3 DEF SubscriptionTypeOK, Update

-----------------------------------------------------------------------------
(* The invariant.                                                          *)

\* Every step keeps it.
LEMMA InvariantStep ==
    ASSUME SubscriptionInv, [Next]_vars
    PROVE  SubscriptionInv'
<1>0. update \in [Updates -> {Idle} \cup Update] /\ rows \in [Subscribers -> Row \cup {None}]
      /\ undone \in [Updates -> SUBSET Fields] /\ faults \in 0..MaxFaults
  BY DEF SubscriptionInv, SubscriptionTypeOK, Update
<1>1. ASSUME NEW s \in Subscribers, NEW e \in Endpoints, NEW P \in PatternSets, Register(s, e, P)
      PROVE  SubscriptionInv'
  <2> DEFINE r == [endpoint |-> e, patterns |-> P, active |-> TRUE]
  <2>1. /\ r \in Row /\ rows' = [rows EXCEPT ![s] = r] /\ rows[s] = None
        /\ update' = update /\ faults' = faults /\ undone' = undone
    BY <1>1 DEF Register, Row
  <2>2. \A u \in Updates : update[u] # Idle =>
           update[u].id \in Subscribers /\ update[u].id # s
    BY <2>1, BusyHandler DEF SubscriptionInv, SubscriptionTypeOK
  <2> HIDE DEF r
  <2>3. \A u \in Updates : update[u] # Idle => rows'[update[u].id] = rows[update[u].id]
    BY <1>0, <2>1, <2>2
  <2>4. SubscriptionTypeOK'
    <3>1. rows' \in [Subscribers -> Row \cup {None}]
      BY <1>0, <2>1
    <3>2. \A u \in Updates : update'[u] # Idle => rows'[update'[u].id] # None
      BY <2>1, <2>3 DEF SubscriptionInv, SubscriptionTypeOK
    <3>3. QED
      BY <2>1, <3>1, <3>2 DEF SubscriptionInv, SubscriptionTypeOK
  <2>5. \A u \in Updates : WritesAreCurrent(u)'
    BY <2>1, <2>3 DEF SubscriptionInv, WritesAreCurrent, Asks, ActiveOf
  <2>6. QED
    BY <2>4, <2>5 DEF SubscriptionInv
<1>2. ASSUME NEW s \in Subscribers, Unregister(s) PROVE SubscriptionInv'
  <2> DEFINE r == [rows[s] EXCEPT !.active = FALSE]
  <2>1. /\ rows[s] # None /\ Write(s, r) /\ update' = update /\ faults' = faults
    BY <1>2 DEF Unregister
  <2>2. r \in Row
    BY <1>0, <2>1 DEF Row
  <2> HIDE DEF r
  <2>3. QED
    BY <1>0, <2>1, <2>2, WriteKeepsType, WriteKeepsCurrent DEF SubscriptionInv
<1>3. ASSUME NEW u \in Updates, NEW s \in Subscribers, NEW q \in Requests, UpdateRead(u, s, q)
      PROVE  SubscriptionInv'
  <2> DEFINE new == [id |-> s, request |-> q, row |-> Merged(rows[s], q)]
  <2>1. /\ rows[s] \in Row /\ q \in Request /\ rows' = rows /\ faults' = faults
        /\ update' = [update EXCEPT ![u] = new] /\ undone' = [undone EXCEPT ![u] = {}]
    BY <1>0, <1>3 DEF UpdateRead
  <2>2. new \in Update /\ new.id = s /\ new.request = q /\ new.row = Merged(rows[s], q)
    BY <2>1, MergedIsRow DEF Update
  <2> HIDE DEF new
  <2>3. SubscriptionTypeOK'
    <3>1. /\ update' \in [Updates -> {Idle} \cup Update]
          /\ undone' \in [Updates -> SUBSET Fields]
      BY <1>0, <2>1, <2>2
    <3>2. \A v \in Updates : update'[v] # Idle => rows'[update'[v].id] # None
      BY <1>0, <2>1, <2>2 DEF SubscriptionInv, SubscriptionTypeOK
    <3>3. QED
      BY <2>1, <3>1, <3>2 DEF SubscriptionInv, SubscriptionTypeOK, Update
  <2>4. ASSUME NEW v \in Updates PROVE WritesAreCurrent(v)'
    <3>1. CASE v = u
      <4>1. update'[v] = new /\ undone'[v] = {} /\ rows'[s] = rows[s]
        BY <1>0, <2>1, <3>1
      <4>2. \A f \in Fields \ {"active"} : Asks(v, f)' <=> q[f] # None
        BY <2>2, <4>1 DEF Asks
      <4>3. Asks(v, "active")'
        BY DEF Asks
      <4>4. \A f \in Fields \ {"active"} :
               new.row[f] = IF q[f] = None THEN rows[s][f] ELSE q[f]
        BY <2>1, <2>2, MergedIsRow
      <4>5. new.row.active = ActiveOf(q)
        BY <2>1, <2>2, MergedIsRow
      <4>6. QED
        BY <2>2, <4>1, <4>2, <4>3, <4>4, <4>5 DEF WritesAreCurrent, ActiveOf
    <3>2. CASE v # u
      <4>1. update'[v] = update[v] /\ undone'[v] = undone[v] /\ rows' = rows
        BY <1>0, <2>1, <3>2
      <4>2. QED
        BY <4>1 DEF SubscriptionInv, WritesAreCurrent, Asks, ActiveOf
    <3>3. QED
      BY <3>1, <3>2
  <2>5. QED
    BY <2>3, <2>4 DEF SubscriptionInv
<1>4. ASSUME NEW u \in Updates, UpdateWrite(u) PROVE SubscriptionInv'
  <2>1. /\ update[u] # Idle /\ Write(update[u].id, update[u].row)
        /\ update' = [update EXCEPT ![u] = Idle] /\ faults' = faults
    BY <1>4 DEF UpdateWrite
  <2>2. update[u].id \in Subscribers /\ update[u].row \in Row /\ rows[update[u].id] # None
    BY <2>1, BusyHandler DEF SubscriptionInv, SubscriptionTypeOK
  <2>3. SubscriptionTypeOK'
    BY <1>0, <2>1, <2>2, WriteKeepsType DEF SubscriptionInv
  <2>4. ASSUME NEW v \in Updates PROVE WritesAreCurrent(v)'
    <3>1. CASE v = u
      BY <1>0, <2>1, <3>1 DEF WritesAreCurrent
    <3>2. CASE v # u
      BY <1>0, <2>1, <2>2, <3>2, WriteKeepsCurrent
    <3>3. QED
      BY <3>1, <3>2
  <2>5. QED
    BY <2>3, <2>4 DEF SubscriptionInv
<1>5. ASSUME NEW u \in Updates, UpdateFails(u) PROVE SubscriptionInv'
  <2>1. /\ update' = [update EXCEPT ![u] = Idle] /\ rows' = rows /\ undone' = undone
        /\ faults' \in 0..MaxFaults
    BY <1>0, <1>5 DEF UpdateFails, Fault
  <2>2. SubscriptionTypeOK'
    BY <1>0, <2>1 DEF SubscriptionInv, SubscriptionTypeOK, Update
  <2>3. ASSUME NEW v \in Updates PROVE WritesAreCurrent(v)'
    <3>1. update'[v] = Idle \/ update'[v] = update[v]
      BY <1>0, <2>1
    <3>2. QED
      BY <2>1, <3>1 DEF SubscriptionInv, WritesAreCurrent, Asks, ActiveOf
  <2>4. QED
    BY <2>2, <2>3 DEF SubscriptionInv
<1>6. CASE UNCHANGED vars
  BY <1>6 DEF vars, SubscriptionInv, SubscriptionTypeOK, WritesAreCurrent, Asks, ActiveOf
<1>7. QED
  BY <1>1, <1>2, <1>3, <1>4, <1>5, <1>6 DEF Next

\* Each handler is about to write what its request asks for and, in the fields
\* that nobody else has changed since it read them, what the row holds.
THEOREM SubscriptionInvariant == Spec => []SubscriptionInv
<1>1. Init => SubscriptionInv
  BY DEF Init, SubscriptionInv, SubscriptionTypeOK, WritesAreCurrent
<1>2. QED
  BY <1>1, InvariantStep, PTL DEF Spec

-----------------------------------------------------------------------------
(* What a step may do to a subscription.                                   *)

\* The row of a subscriber changes in two ways: it is unregistered, or one update
\* writes what it has in hand, and no other update ends in that step.
LEMMA RowChanges ==
    ASSUME SubscriptionInv, [Next]_vars,
           NEW s \in Subscribers, rows[s] # None, rows'[s] # rows[s]
    PROVE  \/ /\ rows'[s] = [rows[s] EXCEPT !.active = FALSE]
              /\ \A v \in Updates : ~ Finishes(v, s)
           \/ \E u \in Updates :
                 /\ Finishes(u, s)
                 /\ rows'[s] = update[u].row
                 /\ \A v \in Updates : Finishes(v, s) => v = u
<1> DEFINE Goal ==
           \/ /\ rows'[s] = [rows[s] EXCEPT !.active = FALSE]
              /\ \A v \in Updates : ~ Finishes(v, s)
           \/ \E u \in Updates :
                 /\ Finishes(u, s)
                 /\ rows'[s] = update[u].row
                 /\ \A v \in Updates : Finishes(v, s) => v = u
<1>0. update \in [Updates -> {Idle} \cup Update] /\ rows \in [Subscribers -> Row \cup {None}]
  BY DEF SubscriptionInv, SubscriptionTypeOK, Update
<1>1. ASSUME NEW t \in Subscribers, NEW e \in Endpoints, NEW P \in PatternSets, Register(t, e, P)
      PROVE  Goal
  <2>1. rows[t] = None /\ \E r : rows' = [rows EXCEPT ![t] = r]
    BY <1>1 DEF Register
  <2>2. rows'[s] = rows[s]
    BY <1>0, <2>1
  <2>3. QED
    BY <2>2
<1>2. ASSUME NEW t \in Subscribers, Unregister(t) PROVE Goal
  <2>1. /\ rows' = [rows EXCEPT ![t] = [rows[t] EXCEPT !.active = FALSE]]
        /\ update' = update
    BY <1>2 DEF Unregister, Write
  <2>2. rows'[s] = [rows[s] EXCEPT !.active = FALSE]
    BY <1>0, <2>1
  <2>3. \A v \in Updates : ~ Finishes(v, s)
    BY <2>1 DEF Finishes
  <2>4. QED
    BY <2>2, <2>3
<1>3. ASSUME NEW u \in Updates, UpdateWrite(u) PROVE Goal
  <2>1. /\ update[u] # Idle /\ rows' = [rows EXCEPT ![update[u].id] = update[u].row]
        /\ update' = [update EXCEPT ![u] = Idle]
    BY <1>3 DEF UpdateWrite, Write
  <2>2. update[u].id = s /\ rows'[s] = update[u].row
    BY <1>0, <2>1
  <2>3. Finishes(u, s) /\ \A v \in Updates : Finishes(v, s) => v = u
    BY <1>0, <2>1, <2>2 DEF Finishes
  <2>4. QED
    BY <2>2, <2>3
<1>4. ASSUME \E u \in Updates : UpdateFails(u) \/ \E t \in Subscribers, q \in Requests : UpdateRead(u, t, q)
      PROVE  Goal
  BY <1>4 DEF UpdateFails, UpdateRead
<1>5. ASSUME UNCHANGED vars PROVE Goal
  BY <1>5 DEF vars
<1> HIDE DEF Goal
<1>6. Goal
  BY <1>1, <1>2, <1>3, <1>4, <1>5 DEF Next
<1>7. QED
  BY <1>6 DEF Goal

\* For any number of concurrent updates: a field changes because it was asked
\* for, or because an update undoes a change made since its read.
THEOREM OnlyOverlapsUndoIt == Spec => OnlyOverlapsUndo
<1> DEFINE A == \A s \in Subscribers, f \in Fields \ {"active"} :
          rows[s] # None /\ rows'[s][f] # rows[s][f] =>
             \E u \in Updates :
                /\ Finishes(u, s)
                /\ \/ Asks(u, f) /\ rows'[s][f] = update[u].request[f]
                   \/ f \in undone[u]
<1>1. SubscriptionInv /\ [Next]_vars => A
  <2> SUFFICES ASSUME SubscriptionInv, [Next]_vars,
                      NEW s \in Subscribers, NEW f \in Fields \ {"active"},
                      rows[s] # None, rows'[s][f] # rows[s][f]
               PROVE  \E u \in Updates :
                         /\ Finishes(u, s)
                         /\ \/ Asks(u, f) /\ rows'[s][f] = update[u].request[f]
                            \/ f \in undone[u]
    OBVIOUS
  <2>1. rows[s] \in Row
    BY DEF SubscriptionInv, SubscriptionTypeOK
  <2>2. [rows[s] EXCEPT !.active = FALSE][f] = rows[s][f]
    BY <2>1 DEF Row, Fields
  <2>3. PICK u \in Updates : Finishes(u, s) /\ rows'[s] = update[u].row
    BY <2>2, RowChanges
  <2>4. \/ Asks(u, f) /\ rows'[s][f] = update[u].request[f]
        \/ f \in undone[u]
    BY <2>3 DEF Finishes, SubscriptionInv, WritesAreCurrent
  <2>5. QED
    BY <2>3, <2>4
<1>2. QED
  BY <1>1, SubscriptionInvariant, PTL DEF Spec, OnlyOverlapsUndo

\* For any number of concurrent updates: whose request brings a subscriber back,
\* and whose cannot take it out of the list.
THEOREM OnlyUpdatesReviveIt == Spec => OnlyUpdatesRevive
<1> DEFINE A == \A s \in Subscribers :
          /\ rows[s] # None /\ s \notin Listed /\ s \in Listed' =>
                \E u \in Updates : /\ Finishes(u, s)
                                   /\ \/ update[u].request.active = TRUE
                                      \/ update[u].request.active = None /\ update[u].request.via = "http"
          /\ s \in Listed /\ s \notin Listed' =>
                \A u \in Updates : Finishes(u, s) =>
                    ~ (update[u].request.via = "http" /\ update[u].request.active # FALSE)
<1>1. SubscriptionInv /\ [Next]_vars => A
  <2> SUFFICES ASSUME SubscriptionInv, [Next]_vars, NEW s \in Subscribers, rows[s] # None
               PROVE
          /\ s \notin Listed /\ s \in Listed' =>
                \E u \in Updates : /\ Finishes(u, s)
                                   /\ \/ update[u].request.active = TRUE
                                      \/ update[u].request.active = None /\ update[u].request.via = "http"
          /\ s \in Listed /\ s \notin Listed' =>
                \A u \in Updates : Finishes(u, s) =>
                    ~ (update[u].request.via = "http" /\ update[u].request.active # FALSE)
    BY DEF Listed
  <2>0. rows[s] \in Row /\ rows'[s] \in Row \cup {None}
    <3>1. SubscriptionTypeOK /\ SubscriptionTypeOK'
      BY InvariantStep DEF SubscriptionInv
    <3>2. QED
      BY <3>1 DEF SubscriptionTypeOK
  <2>1. ASSUME s \notin Listed, s \in Listed'
        PROVE  \E u \in Updates : /\ Finishes(u, s)
                                  /\ \/ update[u].request.active = TRUE
                                     \/ update[u].request.active = None /\ update[u].request.via = "http"
    <3>1. rows'[s].active /\ ~ rows[s].active
      BY <2>1 DEF Listed
    <3>2. ~ [rows[s] EXCEPT !.active = FALSE].active
      BY <2>0 DEF Row
    <3>3. PICK u \in Updates : Finishes(u, s) /\ rows'[s] = update[u].row
      BY <3>1, <3>2, RowChanges
    <3>4. ActiveOf(update[u].request)
      BY <3>1, <3>3 DEF Finishes, SubscriptionInv, WritesAreCurrent
    <3>5. update[u].request \in Request
      BY <3>3, BusyHandler DEF Finishes, SubscriptionInv
    <3>6. QED
      BY <3>3, <3>4, <3>5 DEF ActiveOf, Request
  <2>2. ASSUME s \in Listed, s \notin Listed', NEW u \in Updates, Finishes(u, s),
               update[u].request.via = "http", update[u].request.active # FALSE
        PROVE  FALSE
    <3>1. rows[s].active /\ ~ (rows'[s] # None /\ rows'[s].active)
      BY <2>2 DEF Listed
    <3>2. rows'[s] # rows[s]
      BY <3>1
    <3>3. rows'[s] = update[u].row
      BY <2>2, <3>2, RowChanges
    <3>4. update[u].request \in Request /\ update[u].row \in Row
      BY <2>2, BusyHandler DEF Finishes, SubscriptionInv
    <3>5. update[u].row.active = ActiveOf(update[u].request)
      BY <2>2 DEF Finishes, SubscriptionInv, WritesAreCurrent
    <3>6. ActiveOf(update[u].request)
      BY <2>2, <3>4 DEF ActiveOf, Request
    <3>7. rows'[s] # None
      BY <3>3, <3>4
    <3>8. QED
      BY <3>1, <3>3, <3>5, <3>6, <3>7
  <2>3. QED
    BY <2>1, <2>2
<1>2. QED
  BY <1>1, SubscriptionInvariant, PTL DEF Spec, OnlyUpdatesRevive

=============================================================================
