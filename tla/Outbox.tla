------------------------------- MODULE Outbox -------------------------------
(***************************************************************************)
(* The outbox: rows of the outbox_messages table, the publishers that      *)
(* drain them to the message sink, and the cancel RPC that deletes them.   *)
(*                                                                         *)
(* Every statement of the PostgreSQL repository is one atomic action; a    *)
(* publisher runs publish_pending as a sequence of such statements and of  *)
(* calls of the sink, and anything may happen between two of them.  Any    *)
(* number of publishers (threads or replicas of the server) share a table. *)
(*                                                                         *)
(* Statements address rows by message id, and ids come from clients.  The  *)
(* unique key refuses an id only while its row is in the table: once a     *)
(* cancel has deleted the row, the id can be published again, and a late   *)
(* statement of a publisher that held the old row hits the new one.  So    *)
(* the model tells publications from ids, and two ghosts name the messages *)
(* on which two pieces of work may collide: `reused` and `overrun`.        *)
(***************************************************************************)
EXTENDS Naturals, FiniteSets

CONSTANTS
    Messages,    \* publications, numbered in created_at order
    Id,          \* the message id of each publication
    Publishers,  \* the background workers draining the outbox
    NoOne,       \* not a message
    MaxRetries,  \* RetryConfig.max_retries
    EnableDlq,   \* RetryConfig.enable_dlq
    BatchSize,   \* rows claimed per tick
    MaxPublished, \* bound: publications
    MaxFaults    \* bound: crashes, failed statements, lost answers, late batches

ASSUME MessagesAssumption   == Messages \subseteq Nat /\ IsFiniteSet(Messages)
ASSUME PublishersAssumption == IsFiniteSet(Publishers)
ASSUME NoOneAssumption      == NoOne \notin Messages
ASSUME BoundsAssumption     == /\ MaxRetries \in Nat
                               /\ BatchSize \in Nat
                               /\ MaxPublished \in Nat
                               /\ MaxFaults \in Nat
ASSUME SwitchAssumption     == EnableDlq \in BOOLEAN

VARIABLES
    status,      \* column status; "absent" before the INSERT, "deleted" after the DELETE
    retryCount,  \* column retry_count
    expired,     \* rows whose updated_at is older than CLAIM_LEASE_SECS
    phase,       \* what each publisher does next
    batch,       \* claimed rows it has not handled yet, as the claim returned them
    hand,        \* the message whose failed send it is handling
    sent,        \* its `published` vector
    checked,     \* messages some cancel has seen pending and not deleted yet
    faults,      \* faults so far, at most MaxFaults
    taken,       \* ghost: messages whose send the sink accepted at least once
    dlqTaken,    \* ghost: messages whose copy for the DLQ topic the sink accepted
    failures,    \* ghost: failed sends of each message, backpressure excluded
    reused,      \* ghost: published while the id's deleted row was still in work
    overrun      \* ghost: messages whose lease ended while a publisher had them

rows   == <<status, retryCount, expired>>
work   == <<phase, batch, hand, sent>>
ghosts == <<taken, dlqTaken, failures, reused, overrun>>
vars   == <<rows, work, checked, faults, ghosts>>

MessageStatus == {"pending", "publishing", "published", "retrying", "failed", "dlq"}
Given         == {"published", "failed", "dlq"}
Phase         == {"idle", "sending", "releasing", "retrying", "dlq", "failed"}
Statements    == {"releasing", "retrying", "dlq", "failed"}

TypeOK ==
    /\ status \in [Messages -> MessageStatus \cup {"absent", "deleted"}]
    /\ retryCount \in [Messages -> Nat]
    /\ expired \subseteq Messages
    /\ phase \in [Publishers -> Phase]
    /\ batch \in [Publishers -> SUBSET [row : Messages, retry_count : Nat]]
    /\ hand \in [Publishers -> Messages \cup {NoOne}]
    /\ sent \in [Publishers -> SUBSET Messages]
    /\ checked \subseteq Messages
    /\ faults \in Nat
    /\ taken \subseteq Messages
    /\ dlqTaken \subseteq Messages
    /\ failures \in [Messages -> Nat]
    /\ reused \subseteq Messages
    /\ overrun \subseteq Messages

Init ==
    /\ status = [m \in Messages |-> "absent"]
    /\ retryCount = [m \in Messages |-> 0]
    /\ expired = {}
    /\ phase = [p \in Publishers |-> "idle"]
    /\ batch = [p \in Publishers |-> {}]
    /\ hand = [p \in Publishers |-> NoOne]
    /\ sent = [p \in Publishers |-> {}]
    /\ checked = {}
    /\ faults = 0
    /\ taken = {}
    /\ dlqTaken = {}
    /\ failures = [m \in Messages |-> 0]
    /\ reused = {}
    /\ overrun = {}

-----------------------------------------------------------------------------
(* Rows, claims and decisions.                                             *)

\* The rows a statement about the messages in S finds: WHERE id = ...
RowsOf(S) == {n \in Messages : status[n] \in MessageStatus /\ \E m \in S : Id[n] = Id[m]}

\* The messages publisher p is still responsible for.
Held(p) == {b.row : b \in batch[p]} \cup sent[p] \cup ({hand[p]} \ {NoOne})

\* Mutant: rows in "publishing" are claimable before their lease is over.
ClaimableWithoutLease == {m \in Messages : status[m] \in {"pending", "retrying", "publishing"}}

\* Mutant: rows abandoned in "publishing" are never claimed again.
ClaimableNeverReclaimed == {m \in Messages : status[m] \in {"pending", "retrying"}}

\* Mutant: a failed row is offered again.
ClaimableFailed ==
    {m \in Messages : \/ status[m] \in {"pending", "retrying", "failed", "dlq"}
                      \/ status[m] = "publishing" /\ m \in expired}

\* Rows the claim's subquery selects, before ORDER BY and LIMIT.
Claimable ==
    {m \in Messages : \/ status[m] \in {"pending", "retrying"}
                      \/ status[m] = "publishing" /\ m \in expired}

\* Rows another transaction may have locked when p claims: the ones a
\* statement in flight addresses.  SKIP LOCKED passes over them.
Lockable(p) ==
    RowsOf(checked \cup UNION {({hand[q]} \ {NoOne}) \cup sent[q] : q \in Publishers \ {p}})

\* ORDER BY created_at ASC LIMIT n.
Oldest(S, n) == {m \in S : Cardinality({k \in S : k < m}) < n}

\* Mutants: one retry too many; the attempt being made counts, too.
should_retry_once_more(attempt) == attempt <= MaxRetries
should_retry_once_less(attempt) == attempt + 1 < MaxRetries

\* The retry policy.
should_retry(attempt) == attempt < MaxRetries

\* The retry -> DLQ -> failed ladder, decided on the claimed snapshot.
evaluate_publish_failure(b) ==
    IF should_retry(b.retry_count) THEN "retrying"
    ELSE IF EnableDlq THEN "dlq" ELSE "failed"

\* An UPDATE that sets the status of the rows S: the trigger refreshes updated_at.
SetStatus(S, s) ==
    /\ status' = [m \in Messages |-> IF m \in S THEN s ELSE status[m]]
    /\ expired' = expired \ S

Fault == faults < MaxFaults /\ faults' = faults + 1

-----------------------------------------------------------------------------
(* The publish RPCs.                                                       *)

\* AcceptMessage inserts one row (apply) or, in one transaction, several
\* (apply_batch).  The unique key rejects the whole insert if two of the ids
\* are equal or one is in the table: the RPC answers errors and nothing changes.
\* The publications of one id are numbered in the order of their inserts.
Accept(S) ==
    /\ S # {}
    /\ Cardinality(S \cup {m \in Messages : status[m] # "absent"}) <= MaxPublished
    /\ \A m \in S : status[m] = "absent"
    /\ \A m, n \in S : Id[m] = Id[n] => m = n
    /\ RowsOf(S) = {}
    /\ \A m \in S, k \in Messages : k < m /\ Id[k] = Id[m] => status[k] = "deleted"
    /\ status' = [m \in Messages |-> IF m \in S THEN "pending" ELSE status[m]]
    /\ reused' = reused \cup {m \in S : \E p \in Publishers : \E k \in Held(p) : Id[k] = Id[m]}
    /\ UNCHANGED <<retryCount, expired, work, checked, faults,
                   taken, dlqTaken, failures, overrun>>

-----------------------------------------------------------------------------
(* publish_pending.                                                        *)

\* The claim statement flips the rows in S to "publishing".
FlipToPublishing(S) == SetStatus(S, "publishing") /\ UNCHANGED retryCount

\* claim_pending: the statement returns the rows it flipped, in no order.
Claim(p) ==
    \E locked \in SUBSET Lockable(p) :
        LET S == Oldest(Claimable \ locked, BatchSize)
        IN  /\ phase[p] = "idle"
            /\ S # {}
            /\ FlipToPublishing(S)
            /\ batch' = [batch EXCEPT ![p] = {[row |-> m, retry_count |-> retryCount[m]] : m \in S}]
            /\ phase' = [phase EXCEPT ![p] = "sending"]
            /\ UNCHANGED <<hand, sent, checked, faults, ghosts>>

\* The claim commits but its answer is lost: nobody works on the rows.
ClaimLost(p) ==
    \E locked \in SUBSET Lockable(p) :
        LET S == Oldest(Claimable \ locked, BatchSize)
        IN  /\ phase[p] = "idle"
            /\ S # {}
            /\ FlipToPublishing(S)
            /\ Fault
            /\ UNCHANGED <<work, checked, ghosts>>

\* sink.send answers Ok: the id is pushed on `published`.
SendTaken(p, b) ==
    /\ phase[p] = "sending"
    /\ b \in batch[p]
    /\ batch' = [batch EXCEPT ![p] = @ \ {b}]
    /\ sent' = [sent EXCEPT ![p] = @ \cup {b.row}]
    /\ taken' = taken \cup {b.row}
    /\ UNCHANGED <<rows, phase, hand, checked, faults, dlqTaken, failures, reused, overrun>>

\* Mutant: a full queue counts as taken.
SendBackpressureAsOk(p, b) ==
    /\ phase[p] = "sending"
    /\ b \in batch[p]
    /\ batch' = [batch EXCEPT ![p] = @ \ {b}]
    /\ sent' = [sent EXCEPT ![p] = @ \cup {b.row}]
    /\ UNCHANGED <<rows, phase, hand, checked, faults, ghosts>>

\* Mutant: a full queue goes down the retry ladder like a failed send.
SendBackpressureAsFailure(p, b) ==
    /\ phase[p] = "sending"
    /\ b \in batch[p]
    /\ batch' = [batch EXCEPT ![p] = @ \ {b}]
    /\ phase' = [phase EXCEPT ![p] = evaluate_publish_failure(b)]
    /\ hand' = [hand EXCEPT ![p] = b.row]
    /\ UNCHANGED <<rows, sent, checked, faults, ghosts>>

\* sink.send answers Backpressure: the claim will be released.
SendBackpressure(p, b) ==
    /\ phase[p] = "sending"
    /\ b \in batch[p]
    /\ batch' = [batch EXCEPT ![p] = @ \ {b}]
    /\ phase' = [phase EXCEPT ![p] = "releasing"]
    /\ hand' = [hand EXCEPT ![p] = b.row]
    /\ UNCHANGED <<rows, sent, checked, faults, ghosts>>

\* sink.send answers any other error: the ladder decides, and a dead letter
\* is offered to the DLQ topic at once, its failure only logged.
SendFails(p, b) ==
    /\ phase[p] = "sending"
    /\ b \in batch[p]
    /\ batch' = [batch EXCEPT ![p] = @ \ {b}]
    /\ phase' = [phase EXCEPT ![p] = evaluate_publish_failure(b)]
    /\ hand' = [hand EXCEPT ![p] = b.row]
    /\ failures' = [failures EXCEPT ![b.row] = @ + 1]
    /\ \/ evaluate_publish_failure(b) = "dlq" /\ dlqTaken' = dlqTaken \cup {b.row}
       \/ UNCHANGED dlqTaken
    /\ UNCHANGED <<rows, sent, checked, faults, taken, reused, overrun>>

\* The publisher has dealt with the message in hand and goes on.
PutDown(p) ==
    /\ phase' = [phase EXCEPT ![p] = "sending"]
    /\ hand' = [hand EXCEPT ![p] = NoOne]
    /\ UNCHANGED <<batch, sent>>

\* release_claim: back to "pending" if the row is still "publishing".
ReleaseClaim(p) ==
    /\ phase[p] = "releasing"
    /\ SetStatus({m \in RowsOf({hand[p]}) : status[m] = "publishing"}, "pending")
    /\ PutDown(p)
    /\ UNCHANGED <<retryCount, checked, faults, ghosts>>

\* Mutant: the retry is written although the row is gone, as an upsert would.
IncrementRetryUpsert(p) ==
    /\ phase[p] = "retrying"
    /\ SetStatus({hand[p]}, "retrying")
    /\ retryCount' = [retryCount EXCEPT ![hand[p]] = @ + 1]
    /\ PutDown(p)
    /\ UNCHANGED <<checked, faults, ghosts>>

\* increment_retry: whatever the row's status; no row is an error, logged.
IncrementRetry(p) ==
    LET found == RowsOf({hand[p]})
    IN  /\ phase[p] = "retrying"
        /\ SetStatus(found, "retrying")
        /\ retryCount' = [m \in Messages |-> retryCount[m] + IF m \in found THEN 1 ELSE 0]
        /\ PutDown(p)
        /\ UNCHANGED <<checked, faults, ghosts>>

\* update_status to dlq or failed: whatever the row's status, if there is one.
UpdateStatus(p) ==
    /\ phase[p] \in {"dlq", "failed"}
    /\ SetStatus(RowsOf({hand[p]}), phase[p])
    /\ PutDown(p)
    /\ UNCHANGED <<retryCount, checked, faults, ghosts>>

\* A statement about the message in hand fails: the error is only logged.
StatementFails(p) ==
    /\ phase[p] \in Statements
    /\ Fault
    /\ PutDown(p)
    /\ UNCHANGED <<rows, checked, ghosts>>

\* The rows mark_published_batch updates for p: no check of who claimed them.
Markable(p) == {m \in RowsOf(sent[p]) : status[m] = "publishing"}

\* The tick ends; an empty `published` makes no statement.
EndTick(p) ==
    /\ phase' = [phase EXCEPT ![p] = "idle"]
    /\ sent' = [sent EXCEPT ![p] = {}]
    /\ UNCHANGED <<batch, hand, retryCount, checked, ghosts>>

MarkPublishedBatch(p) ==
    /\ phase[p] = "sending"
    /\ batch[p] = {}
    /\ SetStatus(Markable(p), "published")
    /\ EndTick(p)
    /\ UNCHANGED faults

\* The mark fails: logged, the rows stay "publishing" until the lease is over.
MarkFails(p) ==
    /\ phase[p] = "sending"
    /\ batch[p] = {}
    /\ sent[p] # {}
    /\ Fault
    /\ EndTick(p)
    /\ UNCHANGED <<status, expired>>

\* The process dies between two awaits, or is shut down: stop() is not awaited.
Crash(p) ==
    /\ phase[p] # "idle"
    /\ Fault
    /\ phase' = [phase EXCEPT ![p] = "idle"]
    /\ batch' = [batch EXCEPT ![p] = {}]
    /\ hand' = [hand EXCEPT ![p] = NoOne]
    /\ sent' = [sent EXCEPT ![p] = {}]
    /\ UNCHANGED <<rows, checked, ghosts>>

\* updated_at of a claimed row becomes older than the lease, because its
\* publisher is gone or, which counts as a fault, takes longer than that.
LeaseExpires(m) ==
    /\ status[m] = "publishing"
    /\ m \notin expired
    /\ expired' = expired \cup {m}
    /\ IF \E p \in Publishers : m \in Held(p)
       THEN Fault /\ overrun' = overrun \cup {m}
       ELSE UNCHANGED <<faults, overrun>>
    /\ UNCHANGED <<status, retryCount, work, checked, taken, dlqTaken, failures, reused>>

-----------------------------------------------------------------------------
(* The cancel RPC: get_by_id, the check, then delete by id.  Several calls *)
(* may have checked the same row.                                          *)

CancelCheck(m) ==
    /\ status[m] = "pending"
    /\ checked' = checked \cup {m}
    /\ UNCHANGED <<rows, work, faults, ghosts>>

\* A call is over: the last one that had checked m, or there are others.
CancelEnds(m) ==
    /\ m \in checked
    /\ checked' \in {checked, checked \ {m}}

CancelDelete(m) ==
    /\ CancelEnds(m)
    /\ SetStatus(RowsOf({m}), "deleted")
    /\ UNCHANGED <<retryCount, work, faults, ghosts>>

\* The delete fails, or the handler is dropped before it.
CancelFails(m) == CancelEnds(m) /\ Fault /\ UNCHANGED <<rows, work, ghosts>>

-----------------------------------------------------------------------------
Send(p) == \E b \in batch[p] :
    SendTaken(p, b) \/ SendBackpressure(p, b) \/ SendFails(p, b)

\* What a publisher that does not fail does by itself.
Progress(p) ==
    \/ Claim(p)
    \/ Send(p)
    \/ ReleaseClaim(p)
    \/ IncrementRetry(p)
    \/ UpdateStatus(p)
    \/ MarkPublishedBatch(p)

Failure(p) == ClaimLost(p) \/ StatementFails(p) \/ MarkFails(p) \/ Crash(p)

Cancel(m) == CancelCheck(m) \/ CancelDelete(m) \/ CancelFails(m)

\* What clients and the clock do.
Environment ==
    \/ \E S \in SUBSET Messages : Accept(S)
    \/ \E m \in Messages : LeaseExpires(m) \/ Cancel(m)

Next ==
    \/ \E p \in Publishers : Progress(p) \/ Failure(p)
    \/ Environment

Spec == Init /\ [][Next]_vars

\* The sink gives p an answer that is not backpressure.
Answered(p) == \E b \in batch[p] : SendTaken(p, b) \/ SendFails(p, b)

\* The interval keeps ticking and awaited calls return (WF on Progress), time
\* passes (WF on LeaseExpires), and a full producer queue drains now and then
\* (SF on Answered).  Nothing is assumed of clients, crashes and faults.
Fairness ==
    /\ \A p \in Publishers : WF_vars(Progress(p)) /\ SF_vars(Answered(p))
    /\ \A m \in Messages : WF_vars(LeaseExpires(m))

FairSpec == Spec /\ Fairness

-----------------------------------------------------------------------------
(* What the outbox guarantees.                                             *)

\* Messages two pieces of work may be about: the id was published again while
\* a publisher still had its deleted row, or the batch outlasted the lease.
Contested == reused \cup overrun

\* A row is reported as published only if the sink accepted the message at
\* least once (publish_pending marks what it pushed after an Ok, and nothing
\* else writes "published").  For a reused id what was accepted may have been
\* the cancelled publication; for any other it was this one.
PublishedWasTaken ==
    \A m \in Messages : status[m] = "published" =>
        /\ \E k \in taken : Id[k] = Id[m]
        /\ m \in taken \cup reused

\* A message is dead-lettered or failed only after max_retries + 1 sends of
\* it failed: backpressure, crashes, lost statements, batches that outlast
\* their lease and publishers working from old snapshots never bury a message
\* early.  Only the failures of a cancelled publication of its id can.
BuriedOnlyAfterRetries ==
    \A m \in Messages \ reused : status[m] \in {"dlq", "failed"} => failures[m] > MaxRetries

\* How far publishers working from old snapshots can overrun max_retries.
RetryLimit(m) ==
    IF MaxRetries = 0 \/ m \notin Contested THEN MaxRetries
    ELSE MaxRetries + Cardinality(Publishers) - 1

\* Publishers working from old snapshots, or for a cancelled publication of the
\* same id, overrun max_retries by at most one retry each; on a message nobody
\* contests none does.
RetryBudget == \A m \in Messages : retryCount[m] <= RetryLimit(m)

\* "Concurrent publishers observe disjoint sets": whatever crashes, fails, is
\* cancelled or published again, two publishers have the same id in hands only
\* if its lease ran out on one of them, or if it was cancelled and published
\* again under the eyes of one.
ClaimsDisjoint ==
    \A p, q \in Publishers : p # q =>
        \A k \in Held(p), m \in Held(q) : Id[k] = Id[m] => {k, m} \cap Contested # {}

\* A row that reached published, failed or dlq keeps that status unless it is
\* contested; only a cancel that had read it earlier may still delete it.
GivenStaysGiven ==
    [][\A m \in Messages \ Contested :
           status[m] \in Given => status'[m] \in {status[m], "deleted"}]_vars

\* A cancel that deleted a row lets go of the message for good.  It may come
\* too late for the publishers that claimed the row between its check and its
\* delete, or had held it before: those may still send it.  But no publisher
\* joins them, and none of their statements brings the row back, even when the
\* id is published again.
CancelledIsLetGo ==
    [][\A m \in Messages : status[m] = "deleted" =>
           /\ status'[m] = "deleted"
           /\ \A p \in Publishers : m \in Held(p)' => m \in Held(p)]_vars

\* The drain comes to an end again and again: no accepted message is left
\* pending, publishing or retrying, although publishers crash, statements fail,
\* answers get lost and late work reopens rows that were settled.
EverythingSettles ==
    []<>(\A m \in Messages : status[m] \in Given \cup {"absent", "deleted"})

-----------------------------------------------------------------------------
(* Why the guarantees hold: an inductive invariant.                        *)

\* Nothing is known of a message before its insert.
AbsentIsUntouched ==
    \A m \in Messages : status[m] = "absent" =>
        /\ retryCount[m] = 0
        /\ m \notin checked \cup Contested
        /\ \A p \in Publishers : m \notin Held(p)

\* The unique key: an id has one row at most.
IdsAreUnique == \A m, n \in RowsOf(Messages) : Id[m] = Id[n] => m = n

\* A publisher that has a message meets another message of the same id, in the
\* table or in other hands, only if that one, or its own, was a reuse of the id.
StrangersAreReused ==
    \A p \in Publishers : \A k \in Held(p) :
        /\ \A m \in RowsOf({k}) \ {k} : m \in reused
        /\ \A q \in Publishers : \A m \in Held(q) \ {k} :
              Id[k] = Id[m] => {k, m} \cap reused # {}

\* The publishers handling a failed send of m right now.
Failing(m) == {p \in Publishers : hand[p] = m /\ phase[p] \in {"retrying", "dlq", "failed"}}

\* A publisher has a message in hand exactly while a statement about it is due,
\* and an idle publisher has nothing at all.
HandsMatchPhases ==
    \A p \in Publishers :
        /\ phase[p] \in Statements <=> hand[p] # NoOne
        /\ phase[p] = "idle" => batch[p] = {} /\ sent[p] = {}

\* The parts of a publisher's work name different ids: a claim
\* returns a row once, and a send moves its message from the batch on.
InOnePlace(p) ==
    /\ \A b \in batch[p] : \A m \in sent[p] \cup ({hand[p]} \ {NoOne}) : Id[b.row] # Id[m]
    /\ \A b, c \in batch[p] : Id[b.row] = Id[c.row] => b = c
    /\ \A m, n \in sent[p] : Id[m] = Id[n] => m = n
    /\ \A m \in sent[p] : hand[p] # NoOne => Id[hand[p]] # Id[m]

IdsInOnePlace == \A p \in Publishers : InOnePlace(p)

\* Only what the sink accepted waits to be marked.
SentWasTaken == \A p \in Publishers : sent[p] \subseteq taken

\* The database never counts fewer retries than a claimed snapshot, and it has
\* counted them all when a publisher is about to give up.
SnapshotsAreOld ==
    \A p \in Publishers :
        /\ \A b \in batch[p] : b.retry_count <= retryCount[b.row]
        /\ phase[p] = "retrying" => MaxRetries > 0
        /\ phase[p] \in {"dlq", "failed"} => retryCount[hand[p]] >= MaxRetries

\* Each counted retry, and each failure being handled, is a failed send.
RetriesAreFailures ==
    \A m \in Messages \ reused : retryCount[m] + Cardinality(Failing(m)) <= failures[m]

IInv ==
    /\ TypeOK
    /\ AbsentIsUntouched
    /\ IdsAreUnique
    /\ StrangersAreReused
    /\ HandsMatchPhases
    /\ IdsInOnePlace
    /\ SentWasTaken
    /\ PublishedWasTaken
    /\ SnapshotsAreOld
    /\ RetriesAreFailures
    /\ BuriedOnlyAfterRetries

\* The publishers that may still count a retry of the row of m.
Retriers(m) ==
    {p \in Publishers :
        \/ \E b \in batch[p] : Id[b.row] = Id[m] /\ b.retry_count < MaxRetries
        \/ phase[p] = "retrying" /\ Id[hand[p]] = Id[m]}

\* What the table has counted leaves room for every retry that may still be
\* counted.
RetriesLeft ==
    /\ RetryBudget
    /\ \A m \in RowsOf(Messages) : retryCount[m] + Cardinality(Retriers(m)) <= RetryLimit(m)

\* The row of an uncontested message in a publisher's hands is still
\* "publishing" within the lease, or was cancelled.
HoldersOwn ==
    /\ ClaimsDisjoint
    /\ \A p \in Publishers : \A m \in Held(p) \ Contested :
          status[m] \in {"publishing", "deleted"} /\ m \notin expired
    /\ \A m \in expired : status[m] = "publishing"

=============================================================================
