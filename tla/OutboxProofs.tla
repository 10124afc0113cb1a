---------------------------- MODULE OutboxProofs ----------------------------
(***************************************************************************)
(* Proofs about the outbox for any messages, ids, publishers and bounds:   *)
(* its inductive invariant; for every message nobody contests, disjoint    *)
(* claims, final statuses, the retry budget and that the drain implements  *)
(* the promise of the publish RPC.  The last part proves that the outbox   *)
(* over Kafka is such an outbox, and accounts for every message it took.   *)
(***************************************************************************)
EXTENDS OutboxRefinement, KafkaSink, FiniteSetTheorems, SequenceTheorems, TLAPS

\* Facts about the constants that every proof below needs.
USE NoOneAssumption, BoundsAssumption, SwitchAssumption

\* The oldest rows of a set are rows of it: a claim flips claimable rows only.
LEMMA OldestIsSubset ==
    ASSUME NEW S, NEW n
    PROVE  Oldest(S, n) \subseteq S
BY DEF Oldest

\* The rows a claim flips are messages, and their snapshots carry the retry
\* count the database has at that moment.
LEMMA ClaimedRows ==
    ASSUME TypeOK, NEW locked
    PROVE  /\ Oldest(Claimable \ locked, BatchSize) \subseteq Messages
           /\ {[row |-> m, retry_count |-> retryCount[m]] :
                  m \in Oldest(Claimable \ locked, BatchSize)}
                 \in SUBSET [row : Messages, retry_count : Nat]
<1>1. Oldest(Claimable \ locked, BatchSize) \subseteq Messages
  BY OldestIsSubset DEF Claimable
<1>2. \A m \in Messages : [row |-> m, retry_count |-> retryCount[m]] \in [row : Messages, retry_count : Nat]
  BY DEF TypeOK
<1>3. QED
  BY <1>1, <1>2

\* The ladder names a phase in which a statement about the message is due.
LEMMA LadderIsPhase ==
    ASSUME NEW b
    PROVE  evaluate_publish_failure(b) \in {"retrying", "dlq", "failed"}
BY DEF evaluate_publish_failure

-----------------------------------------------------------------------------
(* Type correctness.                                                       *)

\* The initial state has its types.
LEMMA InitTypeOK == Init => TypeOK
BY DEF Init, TypeOK, MessageStatus, Phase

\* Every step a publisher takes by itself keeps the types: claims, sends and
\* statements only move messages.
LEMMA ProgressTypeOK ==
    ASSUME TypeOK, NEW p \in Publishers, Progress(p)
    PROVE  TypeOK'
<1> USE DEF TypeOK, rows, work, ghosts, MessageStatus, Phase
<1>1. CASE Claim(p)
  <2>1. PICK locked \in SUBSET Lockable(p) :
           LET S == Oldest(Claimable \ locked, BatchSize)
           IN  /\ FlipToPublishing(S)
               /\ batch' = [batch EXCEPT ![p] = {[row |-> m, retry_count |-> retryCount[m]] : m \in S}]
               /\ phase' = [phase EXCEPT ![p] = "sending"]
               /\ UNCHANGED <<hand, sent, checked, faults, ghosts>>
    BY <1>1 DEF Claim
  <2>2. QED
    BY <2>1, ClaimedRows DEF FlipToPublishing, SetStatus
<1>2. ASSUME NEW b \in batch[p], SendTaken(p, b)
      PROVE  TypeOK'
  BY <1>2 DEF SendTaken
<1>3. ASSUME NEW b \in batch[p], SendBackpressure(p, b)
      PROVE  TypeOK'
  BY <1>3 DEF SendBackpressure
<1>4. ASSUME NEW b \in batch[p], SendFails(p, b)
      PROVE  TypeOK'
  BY <1>4, LadderIsPhase DEF SendFails
<1>5. CASE ReleaseClaim(p)
  BY <1>5 DEF ReleaseClaim, SetStatus, PutDown
<1>6. CASE IncrementRetry(p)
  BY <1>6 DEF IncrementRetry, SetStatus, PutDown
<1>7. CASE UpdateStatus(p)
  BY <1>7 DEF UpdateStatus, SetStatus, PutDown
<1>8. CASE MarkPublishedBatch(p)
  BY <1>8 DEF MarkPublishedBatch, EndTick, SetStatus
<1>9. QED
  BY <1>1, <1>2, <1>3, <1>4, <1>5, <1>6, <1>7, <1>8 DEF Progress, Send

\* So does every way it can fail.
LEMMA FailureTypeOK ==
    ASSUME TypeOK, NEW p \in Publishers, Failure(p)
    PROVE  TypeOK'
<1> USE DEF TypeOK, rows, work, ghosts, MessageStatus, Phase, Fault
<1>1. CASE ClaimLost(p)
  BY <1>1 DEF ClaimLost, FlipToPublishing, SetStatus
<1>2. CASE StatementFails(p)
  BY <1>2 DEF StatementFails, PutDown
<1>3. CASE MarkFails(p)
  BY <1>3 DEF MarkFails, EndTick
<1>4. CASE Crash(p)
  BY <1>4 DEF Crash
<1>5. QED
  BY <1>1, <1>2, <1>3, <1>4 DEF Failure

\* So does an insert.
LEMMA AcceptTypeOK ==
    ASSUME TypeOK, NEW S \in SUBSET Messages, Accept(S)
    PROVE  TypeOK'
BY DEF Accept, TypeOK, rows, work, ghosts, MessageStatus

\* So do the clock and the cancels.
LEMMA MessageStepTypeOK ==
    ASSUME TypeOK, NEW m \in Messages, LeaseExpires(m) \/ Cancel(m)
    PROVE  TypeOK'
<1> USE DEF TypeOK, rows, work, ghosts, MessageStatus, Phase, Fault
<1>1. CASE LeaseExpires(m)
  BY <1>1 DEF LeaseExpires
<1>2. CASE CancelCheck(m)
  BY <1>2 DEF CancelCheck
<1>3. CASE CancelDelete(m)
  BY <1>3 DEF CancelDelete, CancelEnds, SetStatus
<1>4. CASE CancelFails(m)
  BY <1>4 DEF CancelFails, CancelEnds
<1>5. QED
  BY <1>1, <1>2, <1>3, <1>4 DEF Cancel

\* Hence every step.
LEMMA TypeOKStep ==
    ASSUME TypeOK, [Next]_vars
    PROVE  TypeOK'
<1>1. CASE UNCHANGED vars
  BY <1>1 DEF TypeOK, vars, rows, work, ghosts
<1>2. CASE Next
  BY <1>2, ProgressTypeOK, FailureTypeOK, AcceptTypeOK, MessageStepTypeOK DEF Next, Environment
<1>3. QED
  BY <1>1, <1>2

\* The outbox stays within its types: every status is one the table's CHECK
\* allows (or no row), every snapshot in a batch is of a message.
THEOREM TypeCorrect == Spec => []TypeOK
BY InitTypeOK, TypeOKStep, PTL DEF Spec

-----------------------------------------------------------------------------
(* What a step can do to a row and to a publisher's work.                  *)

\* Held depends on the publisher's own variables only.
LEMMA HeldKept ==
    ASSUME NEW p, batch'[p] = batch[p], sent'[p] = sent[p], hand'[p] = hand[p]
    PROVE  Held(p)' = Held(p)
BY DEF Held

\* What a publisher has are messages: NoOne in its hand does not count.
LEMMA HeldAreMessages ==
    ASSUME TypeOK, NEW p \in Publishers
    PROVE  Held(p) \subseteq Messages
BY DEF TypeOK, Held

\* A claim flips claimable rows, whether its answer arrives or not.
LEMMA ClaimFlips ==
    ASSUME NEW p \in Publishers, Claim(p) \/ ClaimLost(p)
    PROVE  \E S \in SUBSET Claimable : FlipToPublishing(S)
<1>1. CASE Claim(p)
  <2>1. PICK locked : FlipToPublishing(Oldest(Claimable \ locked, BatchSize))
    BY <1>1 DEF Claim
  <2>2. QED
    BY <2>1, OldestIsSubset
<1>2. CASE ClaimLost(p)
  <2>1. PICK locked : FlipToPublishing(Oldest(Claimable \ locked, BatchSize))
    BY <1>2 DEF ClaimLost
  <2>2. QED
    BY <2>1, OldestIsSubset
<1>3. QED
  BY <1>1, <1>2

\* A message stays unpublished until its insert, and deleted after its delete;
\* in between it has a row.
LEMMA StatusStep ==
    ASSUME TypeOK, [Next]_vars, NEW m \in Messages
    PROVE  /\ status[m] = "absent" =>
                 \/ status'[m] = "absent"
                 \/ status'[m] = "pending" /\ \E S \in SUBSET Messages : Accept(S) /\ m \in S
           /\ status[m] \in MessageStatus => status'[m] \in MessageStatus \cup {"deleted"}
           /\ status[m] = "deleted" => status'[m] = "deleted"
<1> USE DEF TypeOK, MessageStatus, rows, work, ghosts
<1>1. CASE UNCHANGED vars
  BY <1>1 DEF vars
<1>2. CASE \E S \in SUBSET Messages : Accept(S)
  BY <1>2 DEF Accept
<1>3. CASE \E n \in Messages : LeaseExpires(n) \/ CancelCheck(n) \/ CancelFails(n)
  BY <1>3 DEF LeaseExpires, CancelCheck, CancelFails
<1>4. CASE \E n \in Messages : CancelDelete(n)
  BY <1>4 DEF CancelDelete, SetStatus, RowsOf
<1>5. ASSUME NEW p \in Publishers, Claim(p) \/ ClaimLost(p)
      PROVE  status'[m] = status[m] \/ (m \in Claimable /\ status'[m] = "publishing")
  <2>1. PICK S \in SUBSET Claimable : FlipToPublishing(S)
    BY <1>5, ClaimFlips
  <2>2. QED
    BY <2>1 DEF FlipToPublishing, SetStatus
<1>6. CASE \E p \in Publishers : Send(p) \/ StatementFails(p) \/ MarkFails(p) \/ Crash(p)
  BY <1>6 DEF Send, SendTaken, SendBackpressure, SendFails, StatementFails, MarkFails, Crash
<1>7. CASE \E p \in Publishers : ReleaseClaim(p) \/ IncrementRetry(p) \/ UpdateStatus(p)
  BY <1>7 DEF ReleaseClaim, IncrementRetry, UpdateStatus, SetStatus, RowsOf
<1>8. CASE \E p \in Publishers : MarkPublishedBatch(p)
  BY <1>8 DEF MarkPublishedBatch, Markable, SetStatus, RowsOf
<1>9. QED
  BY <1>1, <1>2, <1>3, <1>4, <1>5, <1>6, <1>7, <1>8
  DEF Next, Environment, Cancel, Progress, Failure, Claimable

\* Messages come to be contested, and stay so; reused ones at their insert.
LEMMA ContestedStep ==
    ASSUME [Next]_vars
    PROVE  /\ reused \subseteq reused' /\ overrun \subseteq overrun'
           /\ \/ reused' = reused
              \/ \E S \in SUBSET Messages : Accept(S)
           /\ \/ overrun' = overrun
              \/ \E m \in Messages : LeaseExpires(m) /\ overrun' = overrun \cup {m}
<1> USE DEF ghosts
<1>1. CASE UNCHANGED vars
  BY <1>1 DEF vars
<1>2. CASE Environment
  BY <1>2 DEF Environment, Accept, LeaseExpires, Cancel, CancelCheck, CancelDelete, CancelFails
<1>3. CASE \E p \in Publishers : Claim(p) \/ ClaimLost(p)
  BY <1>3 DEF Claim, ClaimLost
<1>4. CASE \E p \in Publishers : Send(p)
  BY <1>4 DEF Send, SendTaken, SendBackpressure, SendFails
<1>5. CASE \E p \in Publishers : ReleaseClaim(p) \/ IncrementRetry(p) \/ UpdateStatus(p)
                                  \/ StatementFails(p)
  BY <1>5 DEF ReleaseClaim, IncrementRetry, UpdateStatus, StatementFails
<1>6. CASE \E p \in Publishers : MarkPublishedBatch(p) \/ MarkFails(p) \/ Crash(p)
  BY <1>6 DEF MarkPublishedBatch, MarkFails, EndTick, Crash
<1>7. QED
  BY <1>1, <1>2, <1>3, <1>4, <1>5, <1>6 DEF Next, Progress, Failure

\* What a claim flips and what its publisher then has.
LEMMA ClaimEffect ==
    ASSUME TypeOK, HandsMatchPhases, NEW p \in Publishers, Claim(p)
    PROVE  \E S :
              /\ S \subseteq Claimable /\ S \subseteq Messages
              /\ status' = [m \in Messages |-> IF m \in S THEN "publishing" ELSE status[m]]
              /\ expired' = expired \ S
              /\ batch'[p] = {[row |-> m, retry_count |-> retryCount[m]] : m \in S}
              /\ \A b \in batch'[p] : b.row \in S /\ b.retry_count = retryCount[b.row]
              /\ batch[p] = {} /\ sent[p] = {} /\ hand[p] = NoOne
              /\ phase' = [phase EXCEPT ![p] = "sending"]
              /\ sent' = sent /\ hand' = hand
              /\ \A q \in Publishers \ {p} : batch'[q] = batch[q] /\ Held(q)' = Held(q)
              /\ Held(p)' = S
              /\ UNCHANGED <<retryCount, checked, faults, ghosts>>
<1> USE DEF TypeOK
<1>1. PICK locked \in SUBSET Lockable(p) :
         LET S == Oldest(Claimable \ locked, BatchSize)
         IN  /\ FlipToPublishing(S)
             /\ batch' = [batch EXCEPT ![p] = {[row |-> m, retry_count |-> retryCount[m]] : m \in S}]
             /\ phase' = [phase EXCEPT ![p] = "sending"]
             /\ UNCHANGED <<hand, sent, checked, faults, ghosts>>
  BY DEF Claim
<1> DEFINE S == Oldest(Claimable \ locked, BatchSize)
<1>2. S \subseteq Claimable /\ S \subseteq Messages
  BY OldestIsSubset, ClaimedRows
<1>3. batch'[p] = {[row |-> m, retry_count |-> retryCount[m]] : m \in S}
  BY <1>1
<1>4. batch[p] = {} /\ sent[p] = {} /\ hand[p] = NoOne
  BY DEF Claim, HandsMatchPhases, Statements
<1>5. sent' = sent /\ hand' = hand
  BY <1>1
<1>6. \A q \in Publishers \ {p} : batch'[q] = batch[q] /\ Held(q)' = Held(q)
  BY <1>1, <1>5, HeldKept
<1>7. /\ status' = [m \in Messages |-> IF m \in S THEN "publishing" ELSE status[m]]
      /\ expired' = expired \ S
      /\ retryCount' = retryCount
  BY <1>1 DEF FlipToPublishing, SetStatus
<1>8. /\ phase' = [phase EXCEPT ![p] = "sending"]
      /\ UNCHANGED <<checked, faults, ghosts>>
  BY <1>1
<1> HIDE DEF S
<1>9. ASSUME NEW b \in batch'[p]
      PROVE  b.row \in S /\ b.retry_count = retryCount[b.row]
  <2>1. PICK m \in S : b = [row |-> m, retry_count |-> retryCount[m]]
    BY <1>3
  <2>2. QED
    BY <2>1
<1>10. ASSUME NEW m \in S
       PROVE  \E b \in batch'[p] : b.row = m
  <2>1. [row |-> m, retry_count |-> retryCount[m]] \in batch'[p]
    BY <1>3
  <2>2. QED
    BY <2>1
<1>11. Held(p)' = S
  <2>1. Held(p)' = {b.row : b \in batch'[p]} \cup sent'[p] \cup ({hand'[p]} \ {NoOne})
    BY DEF Held
  <2>2. {b.row : b \in batch'[p]} = S
    BY <1>9, <1>10
  <2>3. QED
    BY <1>4, <1>5, <2>1, <2>2
<1>12. QED
  BY <1>2, <1>3, <1>4, <1>5, <1>6, <1>7, <1>8, <1>9, <1>11

\* What a send leaves its publisher with: the message moves within its hands.
LEMMA SendEffect ==
    ASSUME TypeOK, HandsMatchPhases, NEW p \in Publishers, NEW b \in batch[p],
           SendTaken(p, b) \/ SendBackpressure(p, b) \/ SendFails(p, b)
    PROVE  /\ UNCHANGED rows /\ UNCHANGED <<checked, faults, reused, overrun>>
           /\ b.row \in Messages /\ b.row # NoOne
           /\ hand[p] = NoOne
           /\ batch'[p] = batch[p] \ {b}
           /\ \/ hand'[p] = NoOne /\ phase'[p] = "sending" /\ sent'[p] = sent[p] \cup {b.row}
              \/ /\ hand'[p] = b.row /\ sent'[p] = sent[p]
                 /\ phase'[p] \in {"releasing", evaluate_publish_failure(b)}
           /\ \A q \in Publishers \ {p} :
                 batch'[q] = batch[q] /\ sent'[q] = sent[q] /\ hand'[q] = hand[q] /\ phase'[q] = phase[q]
<1> USE DEF TypeOK
<1>1. hand[p] = NoOne /\ phase[p] = "sending"
  BY DEF SendTaken, SendBackpressure, SendFails, HandsMatchPhases, Statements
<1>2. b.row \in Messages /\ b.row # NoOne
  OBVIOUS
<1>3. CASE SendTaken(p, b)
  BY <1>1, <1>2, <1>3 DEF SendTaken
<1>4. CASE SendBackpressure(p, b)
  BY <1>1, <1>2, <1>4 DEF SendBackpressure, ghosts
<1>5. CASE SendFails(p, b)
  BY <1>1, <1>2, <1>5 DEF SendFails
<1>6. QED
  BY <1>3, <1>4, <1>5

\* Every other step of a publisher only lets go of what it had.
LEMMA LettingGo ==
    ASSUME TypeOK, NEW p \in Publishers,
           \/ ReleaseClaim(p) \/ IncrementRetry(p) \/ UpdateStatus(p) \/ StatementFails(p)
           \/ MarkPublishedBatch(p) \/ MarkFails(p) \/ Crash(p)
    PROVE  /\ batch'[p] \subseteq batch[p] /\ sent'[p] \subseteq sent[p]
           /\ hand'[p] \in {NoOne, hand[p]} /\ phase'[p] \in {"idle", "sending", phase[p]}
           /\ \A q \in Publishers \ {p} :
                 batch'[q] = batch[q] /\ sent'[q] = sent[q] /\ hand'[q] = hand[q] /\ phase'[q] = phase[q]
<1> USE DEF TypeOK
<1>1. CASE ReleaseClaim(p) \/ IncrementRetry(p) \/ UpdateStatus(p) \/ StatementFails(p)
  BY <1>1 DEF ReleaseClaim, IncrementRetry, UpdateStatus, StatementFails, PutDown
<1>2. CASE MarkPublishedBatch(p) \/ MarkFails(p) \/ Crash(p)
  BY <1>2 DEF MarkPublishedBatch, MarkFails, EndTick, Crash
<1>3. QED
  BY <1>1, <1>2

\* The environment and a lost claim leave the publishers' work alone.
LEMMA WorkKept ==
    ASSUME Environment \/ UNCHANGED vars \/ \E q \in Publishers : ClaimLost(q)
    PROVE  UNCHANGED work
BY DEF Environment, Accept, LeaseExpires, Cancel, CancelCheck, CancelDelete, CancelFails,
       ClaimLost, vars, work

\* A publisher comes to have a message only by claiming its row.
LEMMA HeldStep ==
    ASSUME TypeOK, HandsMatchPhases, [Next]_vars,
           NEW p \in Publishers, NEW m \in Held(p)', m \notin Held(p)
    PROVE  /\ Claim(p)
           /\ m \in Claimable /\ m \in RowsOf(Messages)
           /\ status'[m] = "publishing" /\ m \notin expired'
           /\ \A q \in Publishers \ {p} : Held(q)' = Held(q)
<1> USE DEF Held
<1>1. ~(Environment \/ UNCHANGED vars \/ \E q \in Publishers : ClaimLost(q))
  BY WorkKept DEF work
<1>2. ASSUME NEW q \in Publishers, NEW b \in batch[q],
             SendTaken(q, b) \/ SendBackpressure(q, b) \/ SendFails(q, b)
      PROVE  FALSE
  BY <1>2, SendEffect
<1>3. ASSUME NEW q \in Publishers,
             ReleaseClaim(q) \/ IncrementRetry(q) \/ UpdateStatus(q) \/ StatementFails(q)
             \/ MarkPublishedBatch(q) \/ MarkFails(q) \/ Crash(q)
      PROVE  FALSE
  BY <1>3, LettingGo
<1>4. PICK q \in Publishers : Claim(q)
  BY <1>1, <1>2, <1>3 DEF Next, Progress, Failure, Send
<1> HIDE DEF Held
<1>5. PICK S :
         /\ S \subseteq Claimable /\ S \subseteq Messages
         /\ status' = [n \in Messages |-> IF n \in S THEN "publishing" ELSE status[n]]
         /\ expired' = expired \ S
         /\ \A t \in Publishers \ {q} : Held(t)' = Held(t)
         /\ Held(q)' = S
  BY <1>4, ClaimEffect
<1>6. q = p /\ m \in S
  BY <1>5
<1>7. m \in RowsOf(Messages)
  BY <1>5, <1>6 DEF RowsOf, Claimable, MessageStatus
<1>8. QED
  BY <1>4, <1>5, <1>6, <1>7


-----------------------------------------------------------------------------
(* The inductive invariant: messages, ids and hands.                       *)

\* A row of the table after a step was one before, or was inserted by it.
LEMMA RowsStep ==
    ASSUME TypeOK, [Next]_vars, NEW m \in Messages, status'[m] \in MessageStatus
    PROVE  \/ status[m] \in MessageStatus
           \/ \E S \in SUBSET Messages : Accept(S) /\ m \in S
<1>1. status[m] \in MessageStatus \cup {"absent", "deleted"}
  BY DEF TypeOK
<1>2. CASE status[m] = "absent"
  BY <1>2, StatusStep DEF MessageStatus
<1>3. CASE status[m] = "deleted"
  BY <1>3, StatusStep DEF MessageStatus
<1>4. QED
  BY <1>1, <1>2, <1>3

\* Retries are counted, and rows seen pending, by one statement each.
LEMMA CountStep ==
    ASSUME TypeOK, [Next]_vars
    PROVE  /\ \/ retryCount' = retryCount
              \/ \E p \in Publishers : IncrementRetry(p)
           /\ \A m \in checked' : m \in checked \/ status[m] = "pending"
<1> USE DEF rows, work, ghosts
<1>1. CASE UNCHANGED vars
  BY <1>1 DEF vars
<1>2. CASE Environment
  BY <1>2 DEF Environment, Accept, LeaseExpires, Cancel, CancelCheck, CancelDelete, CancelFails,
              CancelEnds
<1>3. CASE \E p \in Publishers : Claim(p) \/ ClaimLost(p)
  BY <1>3 DEF Claim, ClaimLost, FlipToPublishing
<1>4. CASE \E p \in Publishers : Send(p)
  BY <1>4 DEF Send, SendTaken, SendBackpressure, SendFails
<1>5. CASE \E p \in Publishers : ReleaseClaim(p) \/ IncrementRetry(p) \/ UpdateStatus(p)
                                  \/ StatementFails(p)
  BY <1>5 DEF ReleaseClaim, IncrementRetry, UpdateStatus, StatementFails
<1>6. CASE \E p \in Publishers : MarkPublishedBatch(p) \/ MarkFails(p) \/ Crash(p)
  BY <1>6 DEF MarkPublishedBatch, MarkFails, EndTick, Crash
<1>7. QED
  BY <1>1, <1>2, <1>3, <1>4, <1>5, <1>6 DEF Next, Progress, Failure

\* Only the insert touches a message without a row: claims, cancels and
\* statements need one.
LEMMA AbsentIsUntouchedStep ==
    ASSUME TypeOK, HandsMatchPhases, AbsentIsUntouched, [Next]_vars
    PROVE  AbsentIsUntouched'
<1> SUFFICES ASSUME NEW m \in Messages, status'[m] = "absent"
             PROVE  /\ retryCount'[m] = 0
                    /\ m \notin (checked \cup Contested)'
                    /\ \A p \in Publishers : m \notin Held(p)'
  BY DEF AbsentIsUntouched
<1>1. status[m] = "absent"
  BY StatusStep DEF TypeOK, MessageStatus
<1>2. /\ retryCount[m] = 0 /\ m \notin checked \cup reused \cup overrun
      /\ \A p \in Publishers : m \notin Held(p)
  BY <1>1 DEF AbsentIsUntouched, Contested
<1>3. retryCount'[m] = 0
  <2>1. CASE retryCount' = retryCount
    BY <1>2, <2>1
  <2>2. CASE \E p \in Publishers : IncrementRetry(p)
    BY <1>1, <1>2, <2>2 DEF IncrementRetry, RowsOf, MessageStatus
  <2>3. QED
    BY <2>1, <2>2, CountStep
<1>4. m \notin checked'
  BY <1>1, <1>2, CountStep
<1>5. m \notin reused'
  <2>1. ASSUME NEW S \in SUBSET Messages, Accept(S)
        PROVE  m \notin reused'
    BY <1>2, <2>1 DEF Accept, TypeOK
  <2>2. QED
    BY <1>2, <2>1, ContestedStep
<1>6. m \notin overrun'
  <2>1. ASSUME NEW n \in Messages, LeaseExpires(n), overrun' = overrun \cup {n}
        PROVE  m \notin overrun'
    BY <1>1, <1>2, <2>1 DEF LeaseExpires
  <2>2. QED
    BY <1>2, <2>1, ContestedStep
<1>7. ASSUME NEW p \in Publishers, m \in Held(p)'
      PROVE  FALSE
  <2>1. m \in RowsOf(Messages)
    BY <1>2, <1>7, HeldStep
  <2>2. QED
    BY <1>1, <2>1 DEF RowsOf, MessageStatus
<1>8. QED
  BY <1>3, <1>4, <1>5, <1>6, <1>7 DEF Contested

\* An insert is refused while the id has a row, and nothing else adds rows.
LEMMA IdsAreUniqueStep ==
    ASSUME TypeOK, IdsAreUnique, [Next]_vars
    PROVE  IdsAreUnique'
<1> SUFFICES ASSUME NEW m \in Messages, NEW n \in Messages, Id[m] = Id[n],
                    status'[m] \in MessageStatus, status'[n] \in MessageStatus
             PROVE  m = n
  BY DEF IdsAreUnique, RowsOf
<1>1. CASE status[m] \in MessageStatus /\ status[n] \in MessageStatus
  BY <1>1 DEF IdsAreUnique, RowsOf
<1>2. ASSUME NEW S \in SUBSET Messages, Accept(S), m \in S \/ n \in S
      PROVE  m = n
  <2>1. /\ status' = [k \in Messages |-> IF k \in S THEN "pending" ELSE status[k]]
        /\ \A k, l \in S : Id[k] = Id[l] => k = l
        /\ RowsOf(S) = {}
    BY <1>2 DEF Accept
  <2>2. \A k \in Messages : status[k] \in MessageStatus => \A l \in S : Id[k] # Id[l]
    BY <2>1 DEF RowsOf
  <2>3. CASE m \in S /\ n \in S
    BY <2>1, <2>3
  <2>4. CASE m \in S /\ n \notin S
    BY <2>1, <2>2, <2>4
  <2>5. CASE m \notin S /\ n \in S
    BY <2>1, <2>2, <2>5
  <2>6. QED
    BY <1>2, <2>3, <2>4, <2>5
<1>3. QED
  BY <1>1, <1>2, RowsStep

\* While work and rows of one id overlap, the later row was counted as a reuse
\* at its insert; a claim adds no overlap, for an id has one row.
LEMMA StrangersAreReusedStep ==
    ASSUME TypeOK, HandsMatchPhases, IdsAreUnique, StrangersAreReused, [Next]_vars
    PROVE  StrangersAreReused'
<1> SUFFICES ASSUME NEW p \in Publishers, NEW k \in Held(p)'
             PROVE  /\ \A m \in RowsOf({k})' \ {k} : m \in reused'
                    /\ \A q \in Publishers : \A m \in Held(q)' \ {k} :
                          Id[k] = Id[m] => {k, m} \cap reused' # {}
  BY DEF StrangersAreReused
<1>1. TypeOK' /\ reused \subseteq reused'
  BY TypeOKStep, ContestedStep
<1>2. k \in Messages
  BY <1>1 DEF TypeOK, Held
<1>3. \A q \in Publishers : \A n \in Held(q)' : n \in Held(q) \/ n \in RowsOf(Messages)
  BY HeldStep
<1>4. ASSUME NEW m \in RowsOf({k})', m # k
      PROVE  m \in reused'
  <2>1. m \in Messages /\ Id[m] = Id[k] /\ status'[m] \in MessageStatus
    BY <1>4 DEF RowsOf
  <2>2. CASE status[m] \in MessageStatus /\ k \in Held(p)
    BY <1>1, <1>4, <2>1, <2>2 DEF StrangersAreReused, RowsOf
  <2>3. CASE status[m] \in MessageStatus /\ k \in RowsOf(Messages)
    BY <1>4, <2>1, <2>3 DEF IdsAreUnique, RowsOf
  <2>4. ASSUME NEW S \in SUBSET Messages, Accept(S), m \in S
        PROVE  m \in reused'
    <3>1. k \in Held(p)
      BY <2>4, HeldKept DEF Accept, work
    <3>2. QED
      BY <2>1, <2>4, <3>1 DEF Accept
  <2>5. QED
    BY <1>3, <2>1, <2>2, <2>3, <2>4, RowsStep
<1>5. ASSUME NEW q \in Publishers, NEW m \in Held(q)', m # k, Id[k] = Id[m]
      PROVE  {k, m} \cap reused' # {}
  <2>1. m \in Messages
    BY <1>1, <1>5 DEF TypeOK, Held
  <2>2. CASE k \in Held(p) /\ m \in Held(q)
    <3>1. {k, m} \cap reused # {}
      BY <1>5, <2>2 DEF StrangersAreReused
    <3>2. QED
      BY <1>1, <3>1
  <2>3. CASE k \in RowsOf(Messages) /\ m \in Held(q)
    BY <1>1, <1>2, <1>5, <2>1, <2>3 DEF StrangersAreReused, RowsOf
  <2>4. CASE k \in Held(p) /\ m \in RowsOf(Messages)
    BY <1>1, <1>2, <1>5, <2>1, <2>4 DEF StrangersAreReused, RowsOf
  <2>5. CASE k \in RowsOf(Messages) /\ m \in RowsOf(Messages)
    BY <1>5, <2>5 DEF IdsAreUnique
  <2>6. QED
    BY <1>3, <2>2, <2>3, <2>4, <2>5
<1>6. QED
  BY <1>4, <1>5

\* A statement falls due with the message it is about, and a tick ends with
\* nothing in hands.
LEMMA HandsMatchPhasesStep ==
    ASSUME TypeOK, HandsMatchPhases, [Next]_vars
    PROVE  HandsMatchPhases'
<1> USE DEF HandsMatchPhases, TypeOK, Statements, Phase, rows, work, ghosts
<1>1. CASE UNCHANGED vars
  BY <1>1 DEF vars
<1>2. CASE Environment
  BY <1>2 DEF Environment, Accept, LeaseExpires, Cancel, CancelCheck, CancelDelete, CancelFails
<1>3. ASSUME NEW p \in Publishers, Claim(p) \/ ClaimLost(p)
      PROVE  HandsMatchPhases'
  BY <1>3 DEF Claim, ClaimLost
<1>4. ASSUME NEW p \in Publishers, NEW b \in batch[p], SendTaken(p, b)
      PROVE  HandsMatchPhases'
  BY <1>4 DEF SendTaken
<1>5. ASSUME NEW p \in Publishers, NEW b \in batch[p], SendBackpressure(p, b)
      PROVE  HandsMatchPhases'
  <2>1. b.row \in Messages
    OBVIOUS
  <2>2. QED
    BY <1>5, <2>1 DEF SendBackpressure
<1>6. ASSUME NEW p \in Publishers, NEW b \in batch[p], SendFails(p, b)
      PROVE  HandsMatchPhases'
  <2>1. b.row \in Messages
    OBVIOUS
  <2>2. QED
    BY <1>6, <2>1, LadderIsPhase DEF SendFails
<1>7. ASSUME NEW p \in Publishers,
             ReleaseClaim(p) \/ IncrementRetry(p) \/ UpdateStatus(p) \/ StatementFails(p)
      PROVE  HandsMatchPhases'
  BY <1>7 DEF ReleaseClaim, IncrementRetry, UpdateStatus, StatementFails, PutDown
<1>8. ASSUME NEW p \in Publishers, MarkPublishedBatch(p) \/ MarkFails(p)
      PROVE  HandsMatchPhases'
  BY <1>8 DEF MarkPublishedBatch, MarkFails, EndTick
<1>9. ASSUME NEW p \in Publishers, Crash(p)
      PROVE  HandsMatchPhases'
  BY <1>9 DEF Crash
<1>10. QED
  BY <1>1, <1>2, <1>3, <1>4, <1>5, <1>6, <1>7, <1>8, <1>9
  DEF Next, Progress, Failure, Send

\* A publisher that only lets go still has every id once.
LEMMA OnePlaceKept ==
    ASSUME NEW p, InOnePlace(p), batch'[p] \subseteq batch[p], sent'[p] \subseteq sent[p],
           hand'[p] \in {NoOne, hand[p]}
    PROVE  InOnePlace(p)'
BY DEF InOnePlace

\* A claim returns an id once, because the table has it once.
LEMMA IdsInOnePlaceStep ==
    ASSUME TypeOK, HandsMatchPhases, IdsAreUnique, IdsInOnePlace, [Next]_vars
    PROVE  IdsInOnePlace'
<1>1. CASE UNCHANGED work
  BY <1>1 DEF IdsInOnePlace, InOnePlace, work
<1>2. ASSUME NEW p \in Publishers,
             \A q \in Publishers \ {p} : batch'[q] = batch[q] /\ sent'[q] = sent[q] /\ hand'[q] = hand[q],
             InOnePlace(p)'
      PROVE  IdsInOnePlace'
  BY <1>2 DEF IdsInOnePlace, InOnePlace
<1>3. ASSUME NEW p \in Publishers, Claim(p)
      PROVE  IdsInOnePlace'
  <2>1. PICK S :
           /\ S \subseteq Claimable
           /\ \A b \in batch'[p] : b.row \in S /\ b.retry_count = retryCount[b.row]
           /\ batch'[p] \in SUBSET [row : Messages, retry_count : Nat]
           /\ sent'[p] = {} /\ hand'[p] = NoOne
           /\ \A q \in Publishers \ {p} : batch'[q] = batch[q] /\ sent'[q] = sent[q] /\ hand'[q] = hand[q]
    BY <1>3, ClaimEffect, TypeOKStep DEF TypeOK
  <2>2. S \subseteq RowsOf(Messages)
    BY <2>1 DEF Claimable, RowsOf, MessageStatus
  <2>3. ASSUME NEW b \in batch'[p], NEW c \in batch'[p], Id[b.row] = Id[c.row]
        PROVE  b = c
    <3>1. b.row = c.row
      BY <2>1, <2>2, <2>3 DEF IdsAreUnique
    <3>2. QED
      BY <2>1, <3>1
  <2>4. QED
    BY <1>2, <2>1, <2>3 DEF InOnePlace
<1>4. ASSUME NEW p \in Publishers, NEW b \in batch[p],
             SendTaken(p, b) \/ SendBackpressure(p, b) \/ SendFails(p, b)
      PROVE  IdsInOnePlace'
  <2>1. InOnePlace(p)
    BY DEF IdsInOnePlace
  <2>2. /\ b.row # NoOne
        /\ hand[p] = NoOne
        /\ batch'[p] = batch[p] \ {b}
        /\ \/ hand'[p] = NoOne /\ sent'[p] = sent[p] \cup {b.row}
           \/ hand'[p] = b.row /\ sent'[p] = sent[p]
    BY <1>4, SendEffect
  <2>3. \A q \in Publishers \ {p} : batch'[q] = batch[q] /\ sent'[q] = sent[q] /\ hand'[q] = hand[q]
    BY <1>4, SendEffect
  <2>4. \A c \in batch'[p] : c \in batch[p] /\ Id[c.row] # Id[b.row]
    BY <2>1, <2>2 DEF InOnePlace
  <2>5. InOnePlace(p)'
    BY <2>1, <2>2, <2>4 DEF InOnePlace
  <2>6. QED
    BY <1>2, <2>3, <2>5
<1>5. ASSUME NEW p \in Publishers,
             \/ ReleaseClaim(p) \/ IncrementRetry(p) \/ UpdateStatus(p) \/ StatementFails(p)
             \/ MarkPublishedBatch(p) \/ MarkFails(p) \/ Crash(p)
      PROVE  IdsInOnePlace'
  BY <1>2, <1>5, LettingGo, OnePlaceKept DEF IdsInOnePlace
<1>6. QED
  BY <1>1, <1>3, <1>4, <1>5, WorkKept DEF Next, Progress, Failure, Send

\* What waits to be marked was taken, and so was what a mark then marks.
LEMMA SentWasTakenStep ==
    ASSUME TypeOK, StrangersAreReused, SentWasTaken, PublishedWasTaken, [Next]_vars
    PROVE  SentWasTaken' /\ PublishedWasTaken'
<1> USE DEF SentWasTaken, PublishedWasTaken, TypeOK, rows, work, ghosts
<1>1. CASE UNCHANGED vars
  BY <1>1 DEF vars
<1>2. CASE Environment
  BY <1>2 DEF Environment, Accept, LeaseExpires, Cancel, CancelCheck, CancelDelete, CancelFails, SetStatus
<1>3. ASSUME NEW p \in Publishers, Claim(p) \/ ClaimLost(p)
      PROVE  SentWasTaken' /\ PublishedWasTaken'
  BY <1>3 DEF Claim, ClaimLost, FlipToPublishing, SetStatus
<1>4. ASSUME NEW p \in Publishers, NEW b \in batch[p], SendTaken(p, b)
      PROVE  SentWasTaken' /\ PublishedWasTaken'
  BY <1>4 DEF SendTaken
<1>5. ASSUME NEW p \in Publishers, NEW b \in batch[p],
             SendBackpressure(p, b) \/ SendFails(p, b)
      PROVE  SentWasTaken' /\ PublishedWasTaken'
  BY <1>5 DEF SendBackpressure, SendFails
<1>6. ASSUME NEW p \in Publishers,
             ReleaseClaim(p) \/ IncrementRetry(p) \/ UpdateStatus(p) \/ StatementFails(p)
      PROVE  SentWasTaken' /\ PublishedWasTaken'
  BY <1>6 DEF ReleaseClaim, IncrementRetry, UpdateStatus, StatementFails, PutDown, SetStatus
<1>7. ASSUME NEW p \in Publishers, MarkPublishedBatch(p)
      PROVE  SentWasTaken' /\ PublishedWasTaken'
  <2>1. ASSUME NEW m \in Markable(p)
        PROVE  (\E k \in taken : Id[k] = Id[m]) /\ m \in taken \cup reused
    <3>1. PICK k \in sent[p] : Id[m] = Id[k] /\ m \in RowsOf({k})
      BY <2>1 DEF Markable, RowsOf
    <3>2. k \in Held(p) /\ k \in taken
      BY <3>1 DEF Held
    <3>3. QED
      BY <3>1, <3>2 DEF StrangersAreReused
  <2>2. /\ status' = [m \in Messages |-> IF m \in Markable(p) THEN "published" ELSE status[m]]
        /\ taken' = taken /\ reused' = reused /\ \A q \in Publishers : sent'[q] \subseteq sent[q]
    BY <1>7 DEF MarkPublishedBatch, EndTick, SetStatus
  <2>3. QED
    BY <2>1, <2>2
<1>8. ASSUME NEW p \in Publishers, MarkFails(p) \/ Crash(p)
      PROVE  SentWasTaken' /\ PublishedWasTaken'
  BY <1>8 DEF MarkFails, EndTick, Crash
<1>9. QED
  BY <1>1, <1>2, <1>3, <1>4, <1>5, <1>6, <1>7, <1>8 DEF Next, Progress, Failure, Send

-----------------------------------------------------------------------------
(* The inductive invariant: retries and failures.                          *)

\* The column retry_count never goes down, so snapshots stay below it.
LEMMA SnapshotsAreOldStep ==
    ASSUME TypeOK, HandsMatchPhases, SnapshotsAreOld, [Next]_vars
    PROVE  SnapshotsAreOld'
<1> USE DEF SnapshotsAreOld, TypeOK, rows, work, ghosts
<1>1. CASE UNCHANGED vars
  BY <1>1 DEF vars
<1>2. CASE Environment
  BY <1>2 DEF Environment, Accept, LeaseExpires, Cancel, CancelCheck, CancelDelete, CancelFails
<1>3. ASSUME NEW p \in Publishers, Claim(p)
      PROVE  SnapshotsAreOld'
  <2>1. /\ retryCount' = retryCount /\ hand' = hand
        /\ phase' = [phase EXCEPT ![p] = "sending"]
        /\ \A b \in batch'[p] : b.retry_count = retryCount[b.row]
        /\ \A q \in Publishers \ {p} : batch'[q] = batch[q]
    BY <1>3, ClaimEffect
  <2>2. \A b \in batch'[p] : b.retry_count <= retryCount[b.row]
    <3>1. TypeOK'
      BY TypeOKStep
    <3>2. QED
      BY <2>1, <3>1
  <2>3. QED
    BY <2>1, <2>2
<1>4. ASSUME NEW p \in Publishers, ClaimLost(p)
      PROVE  SnapshotsAreOld'
  BY <1>4 DEF ClaimLost, FlipToPublishing
<1>5. ASSUME NEW p \in Publishers, NEW b \in batch[p],
             SendTaken(p, b) \/ SendBackpressure(p, b)
      PROVE  SnapshotsAreOld'
  BY <1>5 DEF SendTaken, SendBackpressure
<1>6. ASSUME NEW p \in Publishers, NEW b \in batch[p], SendFails(p, b)
      PROVE  SnapshotsAreOld'
  <2>1. b.row \in Messages /\ b.retry_count \in Nat /\ retryCount[b.row] \in Nat
    OBVIOUS
  <2>2. /\ evaluate_publish_failure(b) # "retrying" => retryCount[b.row] >= MaxRetries
        /\ evaluate_publish_failure(b) = "retrying" => MaxRetries > 0
    BY <2>1 DEF evaluate_publish_failure, should_retry
  <2>3. QED
    BY <1>6, <2>1, <2>2 DEF SendFails
<1>7. ASSUME NEW p \in Publishers, ReleaseClaim(p) \/ UpdateStatus(p) \/ StatementFails(p)
      PROVE  SnapshotsAreOld'
  BY <1>7 DEF ReleaseClaim, UpdateStatus, StatementFails, PutDown, SetStatus
<1>8. ASSUME NEW p \in Publishers, IncrementRetry(p)
      PROVE  SnapshotsAreOld'
  <2>1. \A m \in Messages : retryCount'[m] >= retryCount[m] /\ retryCount'[m] \in Nat
    BY <1>8 DEF IncrementRetry
  <2>2. \A q \in Publishers : phase[q] \in {"dlq", "failed"} => hand[q] \in Messages
    BY DEF HandsMatchPhases, Statements
  <2>3. \A q \in Publishers : phase'[q] \in {"dlq", "failed", "retrying"} =>
           phase'[q] = phase[q] /\ hand'[q] = hand[q]
    BY <1>8 DEF IncrementRetry, PutDown
  <2>4. batch' = batch
    BY <1>8 DEF IncrementRetry, PutDown
  <2>5. ASSUME NEW q \in Publishers, NEW b \in batch'[q]
        PROVE  b.retry_count <= retryCount'[b.row]
    <3>1. b.row \in Messages /\ b.retry_count \in Nat /\ b.retry_count <= retryCount[b.row]
      BY <2>4
    <3>2. QED
      BY <3>1, <2>1
  <2>6. ASSUME NEW q \in Publishers, phase'[q] \in {"dlq", "failed"}
        PROVE  retryCount'[hand'[q]] >= MaxRetries
    <3>1. hand[q] \in Messages /\ retryCount[hand[q]] >= MaxRetries
      BY <2>2, <2>3, <2>6
    <3>2. QED
      BY <3>1, <2>1, <2>3, <2>6
  <2>7. QED
    BY <2>3, <2>5, <2>6
<1>9. ASSUME NEW p \in Publishers, MarkPublishedBatch(p) \/ MarkFails(p) \/ Crash(p)
      PROVE  SnapshotsAreOld'
  BY <1>9 DEF MarkPublishedBatch, MarkFails, EndTick, Crash
<1>10. QED
  BY <1>1, <1>2, <1>3, <1>4, <1>5, <1>6, <1>7, <1>8, <1>9 DEF Next, Progress, Failure, Send

\* The publishers handling a failed send of m are finitely many.
LEMMA FailingIsFinite ==
    ASSUME NEW m
    PROVE  IsFiniteSet(Failing(m)) /\ Cardinality(Failing(m)) \in Nat
<1>1. IsFiniteSet(Publishers) /\ Failing(m) \subseteq Publishers
  BY PublishersAssumption DEF Failing
<1>2. QED
  BY <1>1, FS_Subset, FS_CardinalityType

\* A step that counts nothing and takes up no failed send keeps the account.
LEMMA AccountKept ==
    ASSUME TypeOK, RetriesAreFailures, reused \subseteq reused',
           retryCount' = retryCount, failures' = failures,
           \A m \in Messages : Failing(m)' \subseteq Failing(m)
    PROVE  RetriesAreFailures'
<1> SUFFICES ASSUME NEW m \in Messages, m \notin reused'
             PROVE  retryCount[m] + Cardinality(Failing(m)') <= failures[m]
  BY DEF RetriesAreFailures
<1>1. IsFiniteSet(Failing(m)) /\ Failing(m)' \subseteq Failing(m)
  BY FailingIsFinite
<1>2. /\ Cardinality(Failing(m)') <= Cardinality(Failing(m))
      /\ Cardinality(Failing(m)') \in Nat
      /\ Cardinality(Failing(m)) \in Nat
  BY <1>1, FS_Subset, FS_CardinalityType
<1>3. retryCount[m] \in Nat /\ failures[m] \in Nat
  BY DEF TypeOK
<1>4. retryCount[m] + Cardinality(Failing(m)) <= failures[m]
  BY DEF RetriesAreFailures
<1>5. QED
  BY <1>2, <1>3, <1>4

\* A failed send adds one failure and one publisher that handles it.
LEMMA FailureCounted ==
    ASSUME TypeOK, RetriesAreFailures,
           NEW p \in Publishers, NEW b \in batch[p], SendFails(p, b)
    PROVE  RetriesAreFailures'
<1> USE DEF TypeOK
<1> DEFINE n == b.row
<1>1. n \in Messages /\ n # NoOne
  OBVIOUS
<1>2. /\ phase[p] = "sending"
      /\ phase' = [phase EXCEPT ![p] = evaluate_publish_failure(b)]
      /\ hand' = [hand EXCEPT ![p] = n]
      /\ failures' = [failures EXCEPT ![n] = @ + 1]
      /\ retryCount' = retryCount /\ reused' = reused
  BY DEF SendFails, rows
<1>3. p \notin Failing(n) /\ Failing(n)' = Failing(n) \cup {p}
  BY <1>1, <1>2, LadderIsPhase DEF Failing
<1>4. \A m \in Messages : m # n => Failing(m)' = Failing(m)
  BY <1>1, <1>2 DEF Failing
<1>5. Cardinality(Failing(n)') = Cardinality(Failing(n)) + 1
  BY <1>3, FailingIsFinite, FS_AddElement
<1>6. ASSUME NEW m \in Messages, m \notin reused
      PROVE  retryCount'[m] + Cardinality(Failing(m)') <= failures'[m]
  <2>1. /\ retryCount[m] \in Nat /\ failures[m] \in Nat
        /\ Cardinality(Failing(m)) \in Nat
        /\ retryCount[m] + Cardinality(Failing(m)) <= failures[m]
    BY <1>6, FailingIsFinite DEF RetriesAreFailures
  <2>2. CASE m = n
    BY <1>1, <1>2, <1>5, <2>1, <2>2
  <2>3. CASE m # n
    BY <1>2, <1>4, <2>1, <2>3
  <2>4. QED
    BY <2>2, <2>3
<1>7. QED
  BY <1>2, <1>6 DEF RetriesAreFailures

\* A counted retry takes the place of the publisher that handled the failure;
\* the row it counts on is that of the message in hand, or of a reused id.
LEMMA RetryCounted ==
    ASSUME TypeOK, HandsMatchPhases, StrangersAreReused, RetriesAreFailures,
           NEW p \in Publishers, IncrementRetry(p)
    PROVE  RetriesAreFailures'
<1> USE DEF TypeOK
<1>1. PICK n \in Messages : n = hand[p] /\ phase[p] = "retrying" /\ n # NoOne
  BY DEF IncrementRetry, HandsMatchPhases, Statements
<1>2. /\ phase' = [phase EXCEPT ![p] = "sending"]
      /\ hand' = [hand EXCEPT ![p] = NoOne]
      /\ failures' = failures /\ reused' = reused
      /\ retryCount' = [m \in Messages |-> retryCount[m] + IF m \in RowsOf({n}) THEN 1 ELSE 0]
  BY <1>1 DEF IncrementRetry, PutDown, ghosts
<1>3. p \in Failing(n) /\ Failing(n)' = Failing(n) \ {p}
  BY <1>1, <1>2 DEF Failing
<1>4. \A m \in Messages : m # n => Failing(m)' = Failing(m)
  BY <1>1, <1>2 DEF Failing
<1>5. Cardinality(Failing(n)') = Cardinality(Failing(n)) - 1
  BY <1>3, FailingIsFinite, FS_RemoveElement
<1>6. RowsOf({n}) \ {n} \subseteq reused
  <2>1. n \in Held(p)
    BY <1>1 DEF Held
  <2>2. QED
    BY <2>1 DEF StrangersAreReused
<1>7. ASSUME NEW m \in Messages, m \notin reused
      PROVE  retryCount'[m] + Cardinality(Failing(m)') <= failures'[m]
  <2>1. /\ retryCount[m] \in Nat /\ failures[m] \in Nat
        /\ Cardinality(Failing(m)) \in Nat
        /\ retryCount[m] + Cardinality(Failing(m)) <= failures[m]
    BY <1>7, FailingIsFinite DEF RetriesAreFailures
  <2>2. CASE m = n
    <3>1. retryCount'[m] \in {retryCount[m], retryCount[m] + 1}
      BY <1>2
    <3>2. QED
      BY <1>2, <1>5, <2>1, <2>2, <3>1
  <2>3. CASE m # n
    <3>1. m \notin RowsOf({n})
      BY <1>6, <1>7, <2>3
    <3>2. retryCount'[m] = retryCount[m]
      BY <1>2, <2>1, <3>1
    <3>3. QED
      BY <1>2, <1>4, <2>1, <2>3, <3>2
  <2>4. QED
    BY <2>2, <2>3
<1>8. QED
  BY <1>2, <1>7 DEF RetriesAreFailures

\* Every step keeps the account: a retry is counted for a failure only.
LEMMA RetriesAreFailuresStep ==
    ASSUME TypeOK, HandsMatchPhases, StrangersAreReused, RetriesAreFailures, [Next]_vars
    PROVE  RetriesAreFailures'
<1> USE DEF TypeOK, Failing, rows, work, ghosts
<1>0. reused \subseteq reused'
  BY ContestedStep
<1>1. CASE UNCHANGED vars
  BY <1>0, <1>1, AccountKept DEF vars
<1>2. CASE Environment
  BY <1>0, <1>2, AccountKept
  DEF Environment, Accept, LeaseExpires, Cancel, CancelCheck, CancelDelete, CancelFails
<1>3. ASSUME NEW p \in Publishers, Claim(p) \/ ClaimLost(p)
      PROVE  RetriesAreFailures'
  BY <1>0, <1>3, AccountKept DEF Claim, ClaimLost, FlipToPublishing
<1>4. ASSUME NEW p \in Publishers, NEW b \in batch[p],
             SendTaken(p, b) \/ SendBackpressure(p, b)
      PROVE  RetriesAreFailures'
  BY <1>0, <1>4, AccountKept DEF SendTaken, SendBackpressure
<1>5. ASSUME NEW p \in Publishers, NEW b \in batch[p], SendFails(p, b)
      PROVE  RetriesAreFailures'
  BY <1>5, FailureCounted
<1>6. ASSUME NEW p \in Publishers, IncrementRetry(p)
      PROVE  RetriesAreFailures'
  BY <1>6, RetryCounted
<1>7. ASSUME NEW p \in Publishers, ReleaseClaim(p) \/ UpdateStatus(p) \/ StatementFails(p)
      PROVE  RetriesAreFailures'
  BY <1>0, <1>7, AccountKept DEF ReleaseClaim, UpdateStatus, StatementFails, PutDown
<1>8. ASSUME NEW p \in Publishers, MarkPublishedBatch(p) \/ MarkFails(p) \/ Crash(p)
      PROVE  RetriesAreFailures'
  BY <1>0, <1>8, AccountKept DEF MarkPublishedBatch, MarkFails, EndTick, Crash
<1>9. QED
  BY <1>1, <1>2, <1>3, <1>4, <1>5, <1>6, <1>7, <1>8 DEF Next, Progress, Failure, Send

\* When a publisher is about to bury the message in hand, max_retries + 1
\* sends of it have failed, unless its id was reused; and it buries no other
\* message whose id was not.
LEMMA BurialIsDue ==
    ASSUME IInv, NEW p \in Publishers, UpdateStatus(p), NEW m \in RowsOf({hand[p]}), m \notin reused
    PROVE  m = hand[p] /\ failures[m] > MaxRetries
<1>1. m = hand[p]
  <2>1. hand[p] \in Held(p)
    BY DEF IInv, HandsMatchPhases, Statements, UpdateStatus, Held
  <2>2. QED
    BY <2>1 DEF IInv, StrangersAreReused
<1>2. m \in Messages /\ p \in Failing(m)
  BY <1>1 DEF UpdateStatus, Failing, RowsOf
<1>3. Cardinality(Failing(m)) \in Nat /\ Cardinality(Failing(m)) # 0
  BY <1>2, FailingIsFinite, FS_EmptySet
<1>4. retryCount[m] >= MaxRetries
  BY <1>1 DEF IInv, SnapshotsAreOld, UpdateStatus
<1>5. retryCount[m] + Cardinality(Failing(m)) <= failures[m]
  BY <1>2 DEF IInv, RetriesAreFailures
<1>6. retryCount[m] \in Nat /\ failures[m] \in Nat
  BY <1>2 DEF IInv, TypeOK
<1>7. failures[m] > MaxRetries
  BY <1>3, <1>4, <1>5, <1>6
<1>8. QED
  BY <1>1, <1>7

\* Only update_status buries, and then the burial is due.
LEMMA BuriedOnlyAfterRetriesStep ==
    ASSUME IInv, [Next]_vars
    PROVE  BuriedOnlyAfterRetries'
<1> USE DEF BuriedOnlyAfterRetries, TypeOK, rows, work, ghosts
<1>1. TypeOK /\ BuriedOnlyAfterRetries
  BY DEF IInv
<1>2. CASE UNCHANGED vars
  BY <1>1, <1>2 DEF vars
<1>3. CASE Environment
  BY <1>1, <1>3
  DEF Environment, Accept, LeaseExpires, Cancel, CancelCheck, CancelDelete, CancelFails, SetStatus
<1>4. ASSUME NEW p \in Publishers, Claim(p) \/ ClaimLost(p)
      PROVE  BuriedOnlyAfterRetries'
  BY <1>1, <1>4 DEF Claim, ClaimLost, FlipToPublishing, SetStatus
<1>5. ASSUME NEW p \in Publishers, NEW b \in batch[p],
             SendTaken(p, b) \/ SendBackpressure(p, b)
      PROVE  BuriedOnlyAfterRetries'
  BY <1>1, <1>5 DEF SendTaken, SendBackpressure
<1>6. ASSUME NEW p \in Publishers, NEW b \in batch[p], SendFails(p, b)
      PROVE  BuriedOnlyAfterRetries'
  <2>1. /\ status' = status /\ reused' = reused
        /\ \A m \in Messages : failures'[m] >= failures[m] /\ failures'[m] \in Nat
    BY <1>1, <1>6 DEF SendFails
  <2>2. QED
    BY <1>1, <2>1
<1>7. ASSUME NEW p \in Publishers, ReleaseClaim(p) \/ IncrementRetry(p) \/ StatementFails(p)
      PROVE  BuriedOnlyAfterRetries'
  BY <1>1, <1>7 DEF ReleaseClaim, IncrementRetry, StatementFails, SetStatus
<1>8. ASSUME NEW p \in Publishers, UpdateStatus(p)
      PROVE  BuriedOnlyAfterRetries'
  <2>1. \A m \in RowsOf({hand[p]}) : m \in reused \/ failures[m] > MaxRetries
    BY <1>8, BurialIsDue
  <2>2. /\ failures' = failures /\ reused' = reused
        /\ status' = [m \in Messages |-> IF m \in RowsOf({hand[p]}) THEN phase[p] ELSE status[m]]
    BY <1>8 DEF UpdateStatus, SetStatus
  <2>3. QED
    BY <1>1, <2>1, <2>2
<1>9. ASSUME NEW p \in Publishers, MarkPublishedBatch(p) \/ MarkFails(p) \/ Crash(p)
      PROVE  BuriedOnlyAfterRetries'
  BY <1>1, <1>9 DEF MarkPublishedBatch, MarkFails, EndTick, Crash, SetStatus
<1>10. QED
  BY <1>2, <1>3, <1>4, <1>5, <1>6, <1>7, <1>8, <1>9 DEF Next, Progress, Failure, Send

\* Nothing has happened yet.
LEMMA InitIInv == Init => IInv
<1> SUFFICES ASSUME Init
             PROVE  IInv
  OBVIOUS
<1>1. TypeOK
  BY InitTypeOK
<1>2. \A m \in Messages : Failing(m) = {}
  BY DEF Init, Failing
<1>3. RetriesAreFailures
  BY <1>2, FS_EmptySet DEF Init, RetriesAreFailures
<1>4. HandsMatchPhases /\ IdsInOnePlace /\ SentWasTaken /\ PublishedWasTaken
  BY DEF Init, HandsMatchPhases, IdsInOnePlace, InOnePlace, SentWasTaken, PublishedWasTaken, Statements
<1>5. SnapshotsAreOld /\ BuriedOnlyAfterRetries
  BY DEF Init, SnapshotsAreOld, BuriedOnlyAfterRetries
<1>6. AbsentIsUntouched /\ StrangersAreReused
  BY DEF Init, AbsentIsUntouched, StrangersAreReused, Contested, Held
<1>7. IdsAreUnique
  BY DEF Init, IdsAreUnique, RowsOf, MessageStatus
<1>8. QED
  BY <1>1, <1>3, <1>4, <1>5, <1>6, <1>7 DEF IInv

\* The inductive invariant holds: an id has one row and every publisher has it
\* once, work and rows of one id overlap only after a reuse, snapshots are old,
\* and retry counts never outrun the sends that failed.
THEOREM InvariantHolds == Spec => []IInv
<1>1. IInv /\ [Next]_vars => IInv'
  BY TypeOKStep, AbsentIsUntouchedStep, IdsAreUniqueStep, StrangersAreReusedStep,
     HandsMatchPhasesStep, IdsInOnePlaceStep, SentWasTakenStep, SnapshotsAreOldStep,
     RetriesAreFailuresStep, BuriedOnlyAfterRetriesStep
  DEF IInv
<1>2. QED
  BY InitIInv, <1>1, PTL DEF Spec

\* A row says "published" only if the sink accepted the message, for any number
\* of publishers, whatever crashes and however long a batch takes; if its id was
\* published again under a publisher that still had it, a message of that id.
THEOREM PublishedOnlyIfTaken == Spec => []PublishedWasTaken
<1>1. IInv => PublishedWasTaken
  BY DEF IInv
<1>2. QED
  BY InvariantHolds, <1>1, PTL

\* No message whose id was not reused under a publisher's eyes is dead-lettered
\* or failed before max_retries + 1 of its sends failed, for any number of
\* publishers, leases that run out and any interleaving of stale ones.
THEOREM NoEarlyBurial == Spec => []BuriedOnlyAfterRetries
<1>1. IInv => BuriedOnlyAfterRetries
  BY DEF IInv
<1>2. QED
  BY InvariantHolds, <1>1, PTL

-----------------------------------------------------------------------------
(* Uncontested messages: disjoint claims and final statuses.               *)

\* A publisher has an id once.
LEMMA HeldOnce ==
    ASSUME TypeOK, IdsInOnePlace, NEW p \in Publishers,
           NEW k \in Held(p), NEW m \in Held(p), Id[k] = Id[m]
    PROVE  k = m
<1>1. \A n \in Held(p) : \/ \E b \in batch[p] : b.row = n
                         \/ n \in sent[p]
                         \/ n = hand[p] /\ n # NoOne
  BY DEF Held
<1>2. InOnePlace(p)
  BY DEF IdsInOnePlace
<1>3. QED
  BY <1>1, <1>2 DEF InOnePlace

\* Whoever has the id of an uncontested row has that very message.
LEMMA RowIsHeld ==
    ASSUME StrangersAreReused, NEW m \in RowsOf(Messages), m \notin Contested,
           NEW p \in Publishers, NEW k \in Held(p), Id[k] = Id[m]
    PROVE  k = m
BY DEF StrangersAreReused, RowsOf, Contested

\* A statement about the message in hand writes rows of its id, and lets go of
\* the message.
LEMMA StatementEffect ==
    ASSUME TypeOK, HandsMatchPhases, IdsInOnePlace, NEW p \in Publishers,
           ReleaseClaim(p) \/ IncrementRetry(p) \/ UpdateStatus(p)
    PROVE  /\ hand[p] \in Held(p) /\ hand[p] \in Messages
           /\ hand[p] \notin Held(p)'
           /\ \E R \in SUBSET RowsOf({hand[p]}) : \E s : SetStatus(R, s)
<1> USE DEF TypeOK
<1>1. hand[p] \in Messages /\ hand[p] # NoOne
  BY DEF ReleaseClaim, IncrementRetry, UpdateStatus, HandsMatchPhases, Statements
<1>2. hand'[p] = NoOne /\ batch'[p] = batch[p] /\ sent'[p] = sent[p]
  BY DEF ReleaseClaim, IncrementRetry, UpdateStatus, PutDown
<1>3. hand[p] \in Held(p)
  BY <1>1 DEF Held
<1>4. hand[p] \notin Held(p)'
  <2>1. Held(p)' = {b.row : b \in batch[p]} \cup sent[p]
    BY <1>2 DEF Held
  <2>2. QED
    BY <1>1, <2>1 DEF IdsInOnePlace, InOnePlace
<1>5. \E R \in SUBSET RowsOf({hand[p]}) : \E s : SetStatus(R, s)
  BY DEF ReleaseClaim, IncrementRetry, UpdateStatus
<1>6. QED
  BY <1>1, <1>3, <1>4, <1>5

\* What can happen to a row: a claim of a claimable one, a cancel, a statement
\* of a publisher that had a message of its id and is done with it, or time.
LEMMA RowStep ==
    ASSUME TypeOK, HandsMatchPhases, IdsInOnePlace, [Next]_vars, NEW m \in RowsOf(Messages)
    PROVE  \/ /\ status'[m] = status[m]
              /\ m \in expired' => m \in expired \/ LeaseExpires(m)
           \/ m \in Claimable /\ status'[m] = "publishing" /\ m \notin expired'
           \/ status'[m] = "deleted" /\ m \notin expired'
           \/ /\ \E p \in Publishers : \E k \in Held(p) : Id[k] = Id[m] /\ k \notin Held(p)'
              /\ m \notin expired'
<1> USE DEF TypeOK, rows, work, ghosts
<1>1. m \in Messages /\ status[m] \in MessageStatus
  BY DEF RowsOf
<1>2. CASE UNCHANGED vars
  BY <1>2 DEF vars
<1>3. ASSUME NEW S \in SUBSET Messages, Accept(S)
      PROVE  status'[m] = status[m] /\ expired' = expired
  BY <1>1, <1>3 DEF Accept, MessageStatus
<1>4. ASSUME NEW n \in Messages, LeaseExpires(n)
      PROVE  status'[m] = status[m] /\ (m \in expired' => m \in expired \/ m = n)
  BY <1>4 DEF LeaseExpires
<1>5. ASSUME NEW n \in Messages, CancelCheck(n) \/ CancelFails(n)
      PROVE  status'[m] = status[m] /\ expired' = expired
  BY <1>5 DEF CancelCheck, CancelFails
<1>6. ASSUME NEW R, NEW s, SetStatus(R, s)
      PROVE  \/ status'[m] = status[m] /\ m \notin R /\ (m \in expired' => m \in expired)
             \/ status'[m] = s /\ m \in R /\ m \notin expired'
  BY <1>1, <1>6 DEF SetStatus
<1>7. ASSUME NEW n \in Messages, CancelDelete(n)
      PROVE  \/ status'[m] = status[m] /\ (m \in expired' => m \in expired)
             \/ status'[m] = "deleted" /\ m \notin expired'
  BY <1>6, <1>7 DEF CancelDelete
<1>8. ASSUME NEW p \in Publishers, Claim(p) \/ ClaimLost(p)
      PROVE  \/ status'[m] = status[m] /\ (m \in expired' => m \in expired)
             \/ m \in Claimable /\ status'[m] = "publishing" /\ m \notin expired'
  <2>1. PICK S \in SUBSET Claimable : SetStatus(S, "publishing")
    BY <1>8, ClaimFlips DEF FlipToPublishing
  <2>2. QED
    BY <1>6, <2>1
<1>9. ASSUME NEW p \in Publishers, Send(p) \/ StatementFails(p) \/ MarkFails(p) \/ Crash(p)
      PROVE  status'[m] = status[m] /\ expired' = expired
  BY <1>9 DEF Send, SendTaken, SendBackpressure, SendFails, StatementFails, MarkFails, Crash
<1>10. ASSUME NEW p \in Publishers, ReleaseClaim(p) \/ IncrementRetry(p) \/ UpdateStatus(p)
       PROVE  \/ status'[m] = status[m] /\ (m \in expired' => m \in expired)
              \/ /\ \E k \in Held(p) : Id[k] = Id[m] /\ k \notin Held(p)'
                 /\ m \notin expired'
  <2>1. PICK R \in SUBSET RowsOf({hand[p]}) : \E s : SetStatus(R, s)
    BY <1>10, StatementEffect
  <2>2. hand[p] \in Held(p) /\ hand[p] \notin Held(p)'
    BY <1>10, StatementEffect
  <2>3. m \in R => Id[hand[p]] = Id[m]
    BY <2>1 DEF RowsOf
  <2>4. QED
    BY <1>6, <2>1, <2>2, <2>3
<1>11. ASSUME NEW p \in Publishers, MarkPublishedBatch(p)
       PROVE  \/ status'[m] = status[m] /\ (m \in expired' => m \in expired)
              \/ /\ \E k \in Held(p) : Id[k] = Id[m] /\ k \notin Held(p)'
                 /\ m \notin expired'
  <2>1. SetStatus(Markable(p), "published")
    BY <1>11 DEF MarkPublishedBatch
  <2>2. Held(p)' = {}
    BY <1>11 DEF MarkPublishedBatch, EndTick, HandsMatchPhases, Statements, Held
  <2>3. m \in Markable(p) => \E k \in Held(p) : Id[k] = Id[m]
    BY DEF Markable, RowsOf, Held
  <2>4. QED
    BY <1>6, <2>1, <2>2, <2>3
<1>12. QED
  BY <1>2, <1>3, <1>4, <1>5, <1>7, <1>8, <1>9, <1>10, <1>11
  DEF Next, Environment, Cancel, Progress, Failure

\* Only rows in "publishing" are past a lease.
LEMMA ExpiredStep ==
    ASSUME TypeOK, \A m \in expired : status[m] = "publishing", [Next]_vars
    PROVE  \A m \in expired' : status'[m] = "publishing"
<1> USE DEF TypeOK, rows, work, ghosts
<1>1. CASE UNCHANGED vars
  BY <1>1 DEF vars
<1>2. CASE Environment
  BY <1>2 DEF Environment, Accept, LeaseExpires, Cancel, CancelCheck, CancelDelete, CancelFails, SetStatus
<1>3. CASE \E p \in Publishers : Claim(p) \/ ClaimLost(p)
  BY <1>3, ClaimFlips DEF FlipToPublishing, SetStatus
<1>4. CASE \E p \in Publishers : Send(p) \/ StatementFails(p) \/ MarkFails(p) \/ Crash(p)
  BY <1>4 DEF Send, SendTaken, SendBackpressure, SendFails, StatementFails, MarkFails, Crash
<1>5. CASE \E p \in Publishers : ReleaseClaim(p) \/ IncrementRetry(p) \/ UpdateStatus(p)
                                  \/ MarkPublishedBatch(p)
  BY <1>5 DEF ReleaseClaim, IncrementRetry, UpdateStatus, MarkPublishedBatch, SetStatus
<1>6. QED
  BY <1>1, <1>2, <1>3, <1>4, <1>5 DEF Next, Progress, Failure

\* A claim never takes an uncontested message from other hands.
LEMMA ClaimsDisjointStep ==
    ASSUME IInv, HoldersOwn, [Next]_vars
    PROVE  ClaimsDisjoint'
<1>1. TypeOK /\ HandsMatchPhases /\ StrangersAreReused /\ reused \subseteq Contested
  BY DEF IInv, Contested
<1>2. Contested \subseteq Contested'
  BY ContestedStep DEF Contested
<1>3. ASSUME NEW p \in Publishers, NEW q \in Publishers, p # q,
             NEW k \in Held(p)', k \notin Held(p), NEW m \in Held(q)', Id[k] = Id[m]
      PROVE  {k, m} \cap Contested # {}
  <2>1. k \in Claimable /\ k \in RowsOf(Messages) /\ m \in Held(q)
    BY <1>1, <1>3, HeldStep
  <2>2. CASE k = m
    BY <2>1, <2>2 DEF HoldersOwn, Claimable
  <2>3. CASE k # m
    BY <1>1, <1>3, <2>1, <2>3, RowIsHeld
  <2>4. QED
    BY <2>2, <2>3
<1>4. ASSUME NEW p \in Publishers, NEW q \in Publishers, p # q,
             NEW k \in Held(p)', NEW m \in Held(q)', Id[k] = Id[m]
      PROVE  {k, m} \cap Contested' # {}
  <2>1. CASE k \in Held(p) /\ m \in Held(q)
    <3>1. {k, m} \cap Contested # {}
      BY <1>4, <2>1 DEF HoldersOwn, ClaimsDisjoint
    <3>2. QED
      BY <1>2, <3>1
  <2>2. CASE k \notin Held(p)
    BY <1>2, <1>3, <1>4, <2>2
  <2>3. CASE m \notin Held(q)
    <3>1. {m, k} \cap Contested # {}
      BY <1>3, <1>4, <2>3
    <3>2. QED
      BY <1>2, <3>1
  <2>4. QED
    BY <2>1, <2>2, <2>3
<1>5. QED
  BY <1>4 DEF ClaimsDisjoint

\* A row changes under an uncontested holder only by a cancel, for whoever else
\* could write it would hold the same message.
LEMMA HoldersOwnStep ==
    ASSUME IInv, HoldersOwn, [Next]_vars
    PROVE  HoldersOwn'
<1>1. /\ TypeOK /\ HandsMatchPhases /\ IdsInOnePlace /\ StrangersAreReused
      /\ Contested \subseteq Contested'
  BY ContestedStep DEF IInv, Contested
<1>2. \A m \in expired' : status'[m] = "publishing"
  BY <1>1, ExpiredStep DEF HoldersOwn
<1>3. ASSUME NEW p \in Publishers, NEW m \in Held(p)', m \notin Contested'
      PROVE  status'[m] \in {"publishing", "deleted"} /\ m \notin expired'
  <2>1. CASE m \notin Held(p)
    BY <1>1, <1>3, <2>1, HeldStep
  <2>2. CASE m \in Held(p)
    <3>1. m \notin Contested /\ m \in Messages
      BY <1>1, <2>2, <1>3, HeldAreMessages
    <3>2. status[m] \in {"publishing", "deleted"} /\ m \notin expired
      BY <2>2, <3>1 DEF HoldersOwn
    <3>3. CASE status[m] = "deleted"
      BY <1>1, <1>2, <3>1, <3>3, StatusStep
    <3>4. CASE status[m] = "publishing"
      <4>1. m \in RowsOf(Messages) /\ m \notin Claimable
        BY <3>1, <3>2, <3>4 DEF RowsOf, MessageStatus, Claimable
      <4>2. ASSUME LeaseExpires(m)
            PROVE  FALSE
        BY <1>3, <2>2, <4>2 DEF LeaseExpires, Contested
      <4>3. ASSUME NEW q \in Publishers, NEW k \in Held(q), Id[k] = Id[m], k \notin Held(q)'
            PROVE  FALSE
        <5>1. k = m
          BY <1>1, <3>1, <4>1, <4>3, RowIsHeld
        <5>2. q = p
          BY <2>2, <3>1, <4>3, <5>1 DEF HoldersOwn, ClaimsDisjoint
        <5>3. QED
          BY <1>3, <4>3, <5>1, <5>2
      <4>4. QED
        BY <1>1, <3>2, <3>4, <4>1, <4>2, <4>3, RowStep
    <3>5. QED
      BY <3>2, <3>3, <3>4
  <2>3. QED
    BY <2>1, <2>2
<1>4. QED
  BY <1>2, <1>3, ClaimsDisjointStep DEF HoldersOwn

\* Whoever holds a message nobody contests has its row: it is "publishing" and
\* within its lease, or was cancelled.
THEOREM LeaseInvariantHolds == Spec => []HoldersOwn
<1>1. Init => HoldersOwn
  BY DEF Init, HoldersOwn, ClaimsDisjoint, Held
<1>2. IInv /\ HoldersOwn /\ [Next]_vars => HoldersOwn'
  BY HoldersOwnStep
<1>3. QED
  BY InvariantHolds, <1>1, <1>2, PTL DEF Spec

\* Concurrent publishers observe disjoint sets, for any number of publishers,
\* messages and ids, whatever is cancelled: two of them have one id in hands
\* only if a lease ran out on one or a deleted id was published again under one.
THEOREM DisjointClaims == Spec => []ClaimsDisjoint
<1>1. HoldersOwn => ClaimsDisjoint
  BY DEF HoldersOwn
<1>2. QED
  BY LeaseInvariantHolds, <1>1, PTL

\* No step takes the row of an uncontested message out of published, failed or
\* dlq, except the delete of a cancel that had read it before.
THEOREM FinalStatusesAreFinal == Spec => GivenStaysGiven
<1> DEFINE Stays == \A m \in Messages \ Contested :
                       status[m] \in Given => status'[m] \in {status[m], "deleted"}
<1>1. ASSUME IInv, HoldersOwn, [Next]_vars
      PROVE  Stays
  <2>1. TypeOK /\ HandsMatchPhases /\ IdsInOnePlace /\ StrangersAreReused
    BY <1>1 DEF IInv
  <2>2. SUFFICES ASSUME NEW m \in Messages, m \notin Contested, status[m] \in Given
                 PROVE  status'[m] \in {status[m], "deleted"}
    OBVIOUS
  <2>3. m \in RowsOf(Messages) /\ m \notin Claimable
    BY <2>2 DEF RowsOf, MessageStatus, Claimable, Given
  <2>4. ASSUME NEW q \in Publishers, NEW k \in Held(q), Id[k] = Id[m]
        PROVE  FALSE
    <3>1. k = m
      BY <2>1, <2>2, <2>3, <2>4, RowIsHeld
    <3>2. QED
      BY <1>1, <2>2, <2>4, <3>1 DEF HoldersOwn, Given
  <2>5. QED
    BY <1>1, <2>1, <2>3, <2>4, RowStep
<1>2. IInv /\ HoldersOwn /\ [Next]_vars => [Stays]_vars
  BY <1>1
<1>3. QED
  BY InvariantHolds, LeaseInvariantHolds, <1>2, PTL DEF Spec, GivenStaysGiven

-----------------------------------------------------------------------------
(* The retry budget.                                                       *)

\* Retriers are publishers, so they are finitely many.
LEMMA RetriersAreFinite ==
    ASSUME NEW m
    PROVE  /\ IsFiniteSet(Retriers(m)) /\ Cardinality(Retriers(m)) \in Nat
           /\ Cardinality(Retriers(m)) <= Cardinality(Publishers)
           /\ Cardinality(Publishers) \in Nat
<1>1. IsFiniteSet(Publishers) /\ Retriers(m) \subseteq Publishers
  BY PublishersAssumption DEF Retriers
<1>2. QED
  BY <1>1, FS_Subset, FS_CardinalityType

\* The limit of a message only grows, when it comes to be contested.
LEMMA LimitGrows ==
    ASSUME Publishers # {}, [Next]_vars, NEW m
    PROVE  /\ RetryLimit(m) \in Nat /\ RetryLimit(m)' \in Nat
           /\ MaxRetries <= RetryLimit(m) /\ RetryLimit(m) <= RetryLimit(m)'
           /\ m \in Contested' /\ MaxRetries # 0 =>
                 RetryLimit(m)' = MaxRetries + Cardinality(Publishers) - 1
<1>1. Cardinality(Publishers) \in Nat /\ Cardinality(Publishers) # 0
  BY PublishersAssumption, FS_CardinalityType, FS_EmptySet
<1>2. m \in Contested => m \in Contested'
  BY ContestedStep DEF Contested
<1>3. QED
  BY <1>1, <1>2 DEF RetryLimit

\* Who may count a retry of a row has a message of its id.
LEMMA RetriersHold ==
    ASSUME IInv, NEW m, NEW p \in Retriers(m)
    PROVE  p \in Publishers /\ MaxRetries > 0 /\ \E k \in Held(p) : Id[k] = Id[m]
<1>1. p \in Publishers
  BY DEF Retriers
<1>2. CASE \E b \in batch[p] : Id[b.row] = Id[m] /\ b.retry_count < MaxRetries
  <2>1. PICK b \in batch[p] : Id[b.row] = Id[m] /\ b.retry_count < MaxRetries
    BY <1>2
  <2>2. b.row \in Held(p) /\ b.retry_count \in Nat
    BY <1>1 DEF Held, IInv, TypeOK
  <2>3. QED
    BY <1>1, <2>1, <2>2
<1>3. CASE phase[p] = "retrying" /\ Id[hand[p]] = Id[m]
  <2>1. hand[p] \in Held(p)
    BY <1>1, <1>3 DEF IInv, HandsMatchPhases, Statements, Held
  <2>2. QED
    BY <1>1, <1>3, <2>1 DEF IInv, SnapshotsAreOld
<1>4. QED
  BY <1>2, <1>3 DEF Retriers

\* A publisher comes to be a retrier only by a claim.
LEMMA RetriersStep ==
    ASSUME TypeOK, HandsMatchPhases, [Next]_vars, NEW m,
           NEW p \in Retriers(m)', p \notin Retriers(m)
    PROVE  Claim(p)
<1>1. p \in Publishers
  BY DEF Retriers
<1>2. ~UNCHANGED <<batch[p], hand[p], phase[p]>>
  BY DEF Retriers
<1>3. ASSUME NEW q \in Publishers, NEW b \in batch[q],
             SendTaken(q, b) \/ SendBackpressure(q, b) \/ SendFails(q, b)
      PROVE  FALSE
  <2>1. /\ b.row # NoOne /\ hand[q] = NoOne
        /\ batch'[q] = batch[q] \ {b}
        /\ \/ hand'[q] = NoOne /\ phase'[q] = "sending"
           \/ hand'[q] = b.row /\ phase'[q] \in {"releasing", evaluate_publish_failure(b)}
    BY <1>3, SendEffect
  <2>2. q = p
    BY <1>1, <1>2, <1>3, SendEffect
  <2>3. CASE hand'[p] = b.row /\ phase'[p] = "retrying"
    <3>1. b.retry_count < MaxRetries
      BY <2>1, <2>2, <2>3 DEF evaluate_publish_failure, should_retry
    <3>2. QED
      BY <1>1, <1>3, <2>1, <2>2, <2>3, <3>1 DEF Retriers
  <2>4. CASE phase'[p] # "retrying"
    BY <1>1, <2>1, <2>2, <2>4 DEF Retriers
  <2>5. QED
    BY <2>1, <2>2, <2>3, <2>4
<1>4. ASSUME NEW q \in Publishers,
             \/ ReleaseClaim(q) \/ IncrementRetry(q) \/ UpdateStatus(q) \/ StatementFails(q)
             \/ MarkPublishedBatch(q) \/ MarkFails(q) \/ Crash(q)
      PROVE  FALSE
  <2>1. q = p
    BY <1>1, <1>2, <1>4, LettingGo
  <2>2. /\ batch'[p] \subseteq batch[p]
        /\ phase'[p] = "sending" \/ phase'[p] = "idle"
    BY <1>4, <2>1
    DEF ReleaseClaim, IncrementRetry, UpdateStatus, StatementFails, PutDown,
        MarkPublishedBatch, MarkFails, EndTick, Crash, TypeOK
  <2>3. QED
    BY <2>2 DEF Retriers
<1>5. ~(Environment \/ UNCHANGED vars \/ \E q \in Publishers : ClaimLost(q))
  BY <1>2, WorkKept DEF work
<1>6. PICK q \in Publishers : Claim(q)
  BY <1>3, <1>4, <1>5 DEF Next, Progress, Failure, Send
<1>7. q = p
  BY <1>1, <1>2, <1>6, ClaimEffect DEF TypeOK
<1>8. QED
  BY <1>6, <1>7

\* Where no retry is counted and nobody becomes a retrier, the room is kept.
LEMMA RoomKept ==
    ASSUME IInv, Publishers # {}, [Next]_vars, NEW m \in Messages,
           retryCount[m] + Cardinality(Retriers(m)) <= RetryLimit(m),
           retryCount'[m] = retryCount[m], Retriers(m)' \subseteq Retriers(m)
    PROVE  retryCount'[m] + Cardinality(Retriers(m)') <= RetryLimit(m)'
<1>1. Cardinality(Retriers(m)') <= Cardinality(Retriers(m)) /\ Cardinality(Retriers(m)') \in Nat
  BY RetriersAreFinite, FS_Subset, FS_CardinalityType
<1>2. retryCount[m] \in Nat /\ Cardinality(Retriers(m)) \in Nat
  BY RetriersAreFinite DEF IInv, TypeOK
<1>3. QED
  BY <1>1, <1>2, LimitGrows

\* A new row has no retries counted; those who had a message of its id make it
\* a reuse, and there is room for all of them.
LEMMA NewRowHasRoom ==
    ASSUME IInv, Publishers # {}, [Next]_vars,
           NEW S \in SUBSET Messages, Accept(S), NEW m \in S
    PROVE  retryCount'[m] + Cardinality(Retriers(m)') <= RetryLimit(m)'
<1>1. retryCount'[m] = 0 /\ Retriers(m)' = Retriers(m)
  <2>1. status[m] = "absent" /\ UNCHANGED <<retryCount, batch, hand, phase>>
    BY DEF Accept, work
  <2>2. QED
    BY <2>1 DEF IInv, AbsentIsUntouched, Retriers
<1>2. CASE Retriers(m) = {}
  BY <1>1, <1>2, LimitGrows, FS_EmptySet
<1>3. CASE Retriers(m) # {}
  <2>1. PICK p \in Publishers : MaxRetries > 0 /\ \E k \in Held(p) : Id[k] = Id[m]
    BY <1>3, RetriersHold
  <2>2. m \in Contested'
    BY <2>1 DEF Accept, Contested
  <2>3. QED
    BY <1>1, <2>1, <2>2, LimitGrows, RetriersAreFinite
<1>4. QED
  BY <1>2, <1>3

\* A claim makes p a retrier of what it claims below the limit, where there is
\* room for one, or for all publishers if the message is contested.
LEMMA ClaimKeepsRoom ==
    ASSUME IInv, HoldersOwn, RetriesLeft, Publishers # {}, [Next]_vars,
           NEW p \in Publishers, Claim(p), NEW m \in RowsOf(Messages)
    PROVE  retryCount'[m] + Cardinality(Retriers(m)') <= RetryLimit(m)'
<1>1. /\ TypeOK /\ HandsMatchPhases /\ StrangersAreReused /\ IdsAreUnique
      /\ m \in Messages /\ retryCount[m] \in Nat
  BY DEF IInv, TypeOK, RowsOf
<1>2. PICK S :
         /\ S \subseteq Claimable /\ retryCount' = retryCount
         /\ phase' = [phase EXCEPT ![p] = "sending"]
         /\ \A b \in batch'[p] : b.row \in S /\ b.retry_count = retryCount[b.row]
         /\ \A q \in Publishers \ {p} : batch'[q] = batch[q]
         /\ hand' = hand
  BY <1>1, ClaimEffect
<1>3. \A q \in Retriers(m)' : q # p => q \in Retriers(m)
  BY <1>1, RetriersStep, <1>2 DEF Retriers, TypeOK
<1>4. p \in Retriers(m)' => m \in S /\ retryCount[m] < MaxRetries
  <2>1. SUFFICES ASSUME p \in Retriers(m)'
                 PROVE  m \in S /\ retryCount[m] < MaxRetries
    OBVIOUS
  <2>2. phase'[p] = "sending"
    BY <1>1, <1>2 DEF TypeOK
  <2>3. PICK b \in batch'[p] : Id[b.row] = Id[m] /\ b.retry_count < MaxRetries
    BY <2>1, <2>2 DEF Retriers
  <2>4. b.row \in RowsOf(Messages)
    BY <1>2 DEF Claimable, RowsOf, MessageStatus
  <2>5. QED
    BY <1>1, <1>2, <2>3, <2>4 DEF IdsAreUnique
<1>5. CASE p \notin Retriers(m)'
  <2>1. Retriers(m)' \subseteq Retriers(m)
    BY <1>3, <1>5
  <2>2. QED
    BY <1>1, <1>2, <2>1, RoomKept DEF RetriesLeft
<1>6. CASE p \in Retriers(m)' /\ m \in Contested'
  <2>1. RetryLimit(m)' = MaxRetries + Cardinality(Publishers) - 1
    BY <1>1, <1>4, <1>6, LimitGrows
  <2>2. Cardinality(Retriers(m)') <= Cardinality(Publishers) /\ Cardinality(Retriers(m)') \in Nat
    <3>1. Retriers(m)' \subseteq Publishers
      BY DEF Retriers
    <3>2. QED
      BY <3>1, PublishersAssumption, FS_Subset, FS_CardinalityType
  <2>3. retryCount'[m] = retryCount[m] /\ retryCount[m] < MaxRetries
    BY <1>2, <1>4, <1>6
  <2>4. Cardinality(Publishers) \in Nat
    BY RetriersAreFinite
  <2>5. QED
    BY <1>1, <2>1, <2>2, <2>3, <2>4
<1>7. CASE p \in Retriers(m)' /\ m \notin Contested'
  <2>1. m \notin Contested /\ m \in Claimable
    BY <1>2, <1>4, <1>7, ContestedStep DEF Contested
  <2>2. Retriers(m)' \subseteq {p}
    <3>1. ASSUME NEW q \in Retriers(m)', q # p
          PROVE  FALSE
      <4>1. PICK k \in Held(q) : q \in Publishers /\ Id[k] = Id[m]
        BY <1>3, <3>1, RetriersHold
      <4>2. k = m
        BY <1>1, <2>1, <4>1, RowIsHeld
      <4>3. QED
        BY <2>1, <4>1, <4>2 DEF HoldersOwn, Claimable
    <3>2. QED
      BY <3>1
  <2>3. Cardinality(Retriers(m)') <= 1 /\ Cardinality(Retriers(m)') \in Nat
    <3>1. IsFiniteSet({p}) /\ Cardinality({p}) = 1
      BY FS_Singleton
    <3>2. QED
      BY <2>2, <3>1, FS_Subset, FS_CardinalityType
  <2>4. QED
    BY <1>1, <1>2, <1>4, <1>7, <2>3, LimitGrows
<1>8. QED
  BY <1>5, <1>6, <1>7

\* A counted retry uses up the publisher that counts it.
LEMMA RetryUsesRoom ==
    ASSUME IInv, RetriesLeft, Publishers # {}, [Next]_vars,
           NEW p \in Publishers, IncrementRetry(p), NEW m \in RowsOf({hand[p]})
    PROVE  /\ retryCount'[m] <= RetryLimit(m)'
           /\ retryCount'[m] + Cardinality(Retriers(m)') <= RetryLimit(m)'
<1>1. /\ TypeOK /\ HandsMatchPhases /\ InOnePlace(p)
      /\ m \in Messages /\ m \in RowsOf(Messages) /\ retryCount[m] \in Nat /\ Id[m] = Id[hand[p]]
  BY DEF IInv, TypeOK, RowsOf, IdsInOnePlace
<1>2. /\ hand[p] # NoOne /\ phase[p] = "retrying" /\ phase'[p] = "sending"
      /\ batch' = batch /\ retryCount'[m] = retryCount[m] + 1
  BY <1>1 DEF IncrementRetry, PutDown, HandsMatchPhases, Statements, TypeOK
<1>3. p \in Retriers(m)
  BY <1>1, <1>2 DEF Retriers
<1>4. p \notin Retriers(m)'
  BY <1>1, <1>2 DEF Retriers, InOnePlace
<1>5. Retriers(m)' \subseteq Retriers(m) \ {p}
  <2>1. \A q \in Publishers \ {p} : batch'[q] = batch[q] /\ hand'[q] = hand[q] /\ phase'[q] = phase[q]
    BY <1>1, LettingGo
  <2>2. QED
    BY <1>4, <2>1 DEF Retriers
<1>6. /\ Cardinality(Retriers(m)') \in Nat /\ Cardinality(Retriers(m)) \in Nat
      /\ Cardinality(Retriers(m)') <= Cardinality(Retriers(m)) - 1
  <2>1. IsFiniteSet(Retriers(m) \ {p}) /\ Cardinality(Retriers(m) \ {p}) = Cardinality(Retriers(m)) - 1
    BY <1>3, RetriersAreFinite, FS_RemoveElement
  <2>2. QED
    BY <1>5, <2>1, RetriersAreFinite, FS_Subset, FS_CardinalityType
<1>7. retryCount[m] + Cardinality(Retriers(m)) <= RetryLimit(m)
  BY <1>1 DEF RetriesLeft
<1>8. QED
  BY <1>1, <1>2, <1>6, <1>7, LimitGrows

\* The room for retries is kept by every step.
LEMMA RetriesLeftStep ==
    ASSUME IInv, HoldersOwn, RetriesLeft, Publishers # {}, [Next]_vars
    PROVE  RetriesLeft'
<1>1. TypeOK /\ HandsMatchPhases
  BY DEF IInv
<1>2. ASSUME NEW m \in Messages
      PROVE  \/ retryCount'[m] = retryCount[m]
             \/ \E p \in Publishers : IncrementRetry(p) /\ m \in RowsOf({hand[p]})
  <2>1. ASSUME NEW p \in Publishers, IncrementRetry(p), m \notin RowsOf({hand[p]})
        PROVE  retryCount'[m] = retryCount[m]
    BY <1>1, <2>1 DEF IncrementRetry, TypeOK
  <2>2. QED
    BY <1>1, <2>1, CountStep
<1>3. ASSUME NEW m \in Messages
      PROVE  retryCount'[m] <= RetryLimit(m)'
  <2>1. CASE retryCount'[m] = retryCount[m]
    <3>1. retryCount[m] \in Nat /\ retryCount[m] <= RetryLimit(m)
      BY <1>1 DEF RetriesLeft, RetryBudget, TypeOK
    <3>2. QED
      BY <2>1, <3>1, LimitGrows
  <2>2. QED
    BY <1>2, <2>1, RetryUsesRoom
<1>4. ASSUME NEW m \in RowsOf(Messages)'
      PROVE  retryCount'[m] + Cardinality(Retriers(m)') <= RetryLimit(m)'
  <2>1. m \in Messages /\ status'[m] \in MessageStatus
    BY <1>4 DEF RowsOf
  <2>2. ASSUME NEW S \in SUBSET Messages, Accept(S), m \in S
        PROVE  retryCount'[m] + Cardinality(Retriers(m)') <= RetryLimit(m)'
    BY <2>2, NewRowHasRoom
  <2>3. CASE status[m] \in MessageStatus
    <3>1. m \in RowsOf(Messages)
      BY <2>1, <2>3 DEF RowsOf
    <3>2. CASE \E p \in Publishers : Claim(p)
      BY <3>1, <3>2, ClaimKeepsRoom
    <3>3. CASE \E p \in Publishers : IncrementRetry(p) /\ m \in RowsOf({hand[p]})
      BY <3>3, RetryUsesRoom
    <3>4. CASE ~(\E p \in Publishers : Claim(p)) /\ retryCount'[m] = retryCount[m]
      <4>1. Retriers(m)' \subseteq Retriers(m)
        <5>1. \A p \in Retriers(m)' : p \in Publishers
          BY DEF Retriers
        <5>2. QED
          BY <1>1, <3>4, <5>1, RetriersStep
      <4>2. QED
        BY <2>1, <3>1, <3>4, <4>1, RoomKept DEF RetriesLeft
    <3>5. QED
      BY <1>2, <2>1, <3>2, <3>3, <3>4
  <2>4. QED
    BY <1>1, <2>1, <2>2, <2>3, RowsStep
<1>5. QED
  BY <1>3, <1>4 DEF RetriesLeft, RetryBudget

\* No row of an uncontested message counts more than max_retries retries, and
\* no row at all more than one per extra publisher above it, for any number of
\* publishers, reused ids and leases that run out.
THEOREM RetriesAreBudgeted == Publishers # {} /\ Spec => []RetryBudget
<1> SUFFICES ASSUME Publishers # {}
             PROVE  Spec => []RetryBudget
  OBVIOUS
<1>1. Init => RetriesLeft
  <2> SUFFICES ASSUME Init PROVE RetriesLeft
    OBVIOUS
  <2>1. RowsOf(Messages) = {}
    BY DEF Init, RowsOf, MessageStatus
  <2>2. \A m \in Messages : retryCount[m] = 0 /\ m \notin Contested
    BY DEF Init, Contested
  <2>3. QED
    BY <2>1, <2>2 DEF RetriesLeft, RetryBudget, RetryLimit
<1>2. IInv /\ HoldersOwn /\ RetriesLeft /\ [Next]_vars => RetriesLeft'
  BY RetriesLeftStep
<1>3. RetriesLeft => RetryBudget
  BY DEF RetriesLeft
<1>4. QED
  BY InvariantHolds, LeaseInvariantHolds, <1>1, <1>2, <1>3, PTL DEF Spec

-----------------------------------------------------------------------------
(* Cancels.                                                                *)

\* Once a cancel has deleted it the row stays away and only the publishers
\* that held the message may still send it, for any number of publishers,
\* however long their batches take and whatever is published again.
THEOREM CancelLetsGo == Spec => CancelledIsLetGo
<1> DEFINE LetsGo == \A m \in Messages : status[m] = "deleted" =>
                        /\ status'[m] = "deleted"
                        /\ \A p \in Publishers : m \in Held(p)' => m \in Held(p)
<1>1. ASSUME IInv, [Next]_vars
      PROVE  LetsGo
  <2> SUFFICES ASSUME NEW m \in Messages, status[m] = "deleted"
               PROVE  /\ status'[m] = "deleted"
                      /\ \A p \in Publishers : m \in Held(p)' => m \in Held(p)
    OBVIOUS
  <2>1. TypeOK /\ HandsMatchPhases
    BY <1>1 DEF IInv
  <2>2. m \notin Claimable
    BY DEF Claimable
  <2>3. QED
    BY <1>1, <2>1, <2>2, StatusStep, HeldStep
<1>2. IInv /\ [Next]_vars => [LetsGo]_vars
  BY <1>1
<1>3. QED
  BY InvariantHolds, <1>2, PTL DEF Spec, CancelledIsLetGo

-----------------------------------------------------------------------------
(* The drain implements the promise of the publish RPC.                    *)

\* The value of each status under the mapping.
LEMMA Fates ==
    ASSUME NEW m
    PROVE  /\ status[m] = "absent" => FateOf(m) = "unknown"
           /\ status[m] = "deleted" => FateOf(m) = "withdrawn"
           /\ status[m] \in MessageStatus /\ m \in Contested => FateOf(m) = "disputed"
           /\ m \notin Contested =>
                 /\ status[m] \in {"pending", "publishing", "retrying"} => FateOf(m) = "owed"
                 /\ status[m] = "published" => FateOf(m) = "published"
                 /\ status[m] \in {"dlq", "failed"} => FateOf(m) = "buried"
BY DEF FateOf, MessageStatus

\* And of each status after a step.
LEMMA NextFates ==
    ASSUME NEW m
    PROVE  /\ status'[m] = "absent" => FateOf(m)' = "unknown"
           /\ status'[m] = "deleted" => FateOf(m)' = "withdrawn"
           /\ status'[m] \in MessageStatus /\ m \in Contested' => FateOf(m)' = "disputed"
           /\ m \notin Contested' =>
                 /\ status'[m] \in {"pending", "publishing", "retrying"} => FateOf(m)' = "owed"
                 /\ status'[m] = "published" => FateOf(m)' = "published"
                 /\ status'[m] \in {"dlq", "failed"} => FateOf(m)' = "buried"
BY DEF FateOf, MessageStatus

\* A message whose status and dispute stay keeps its fate.
LEMMA SameFate ==
    ASSUME NEW m, status'[m] = status[m], m \in Contested' <=> m \in Contested
    PROVE  FateOf(m)' = FateOf(m)
BY DEF FateOf

\* Steps that leave every fate alone are stutters of the promise.
LEMMA InvisibleStep ==
    ASSUME \A m \in Messages :
              FateOf(m)' = FateOf(m),
           taken' = taken, failures' = failures
    PROVE  UNCHANGED Promise!vars
BY DEF Promise!vars

\* So are the steps that leave statuses and disputes alone.
LEMMA SilentStep ==
    ASSUME \A m \in Messages : status'[m] = status[m], Contested' = Contested,
           taken' = taken, failures' = failures
    PROVE  UNCHANGED Promise!vars
BY SameFate, InvisibleStep

\* New messages are owed; one whose id a publisher still has is disputed, and
\* what that publisher has was withdrawn.
LEMMA AcceptRefines ==
    ASSUME IInv, NEW S \in SUBSET Messages, Accept(S)
    PROVE  Promise!Accept(S, S \cap reused')
<1> DEFINE fate == [m \in Messages |-> FateOf(m)]
<1>1. /\ S # {} /\ RowsOf(S) = {} /\ \A m \in S : status[m] = "absent"
      /\ \A m, n \in S : Id[m] = Id[n] => m = n
      /\ status' = [m \in Messages |-> IF m \in S THEN "pending" ELSE status[m]]
      /\ reused' = reused \cup {m \in S : \E p \in Publishers : \E k \in Held(p) : Id[k] = Id[m]}
      /\ overrun' = overrun /\ taken' = taken /\ failures' = failures
  BY DEF Accept
<1>2. \A m \in S : m \notin reused /\ m \notin overrun
  BY <1>1 DEF IInv, AbsentIsUntouched, Contested
<1>3. \A m \in S : FateOf(m) = "unknown"
  BY <1>1, Fates, NextFates, SameFate
<1>4. ASSUME NEW m \in S, NEW k \in Messages, Id[k] = Id[m]
      PROVE  /\ status[k] \in {"absent", "deleted"}
             /\ FateOf(k) \in {"unknown", "withdrawn"}
  <2>1. status[k] \notin MessageStatus
    BY <1>1, <1>4 DEF RowsOf
  <2>2. status[k] \in {"absent", "deleted"}
    BY <2>1 DEF IInv, TypeOK
  <2>3. QED
    BY <2>2, Fates, NextFates, SameFate
<1>5. ASSUME NEW m \in S \cap reused'
      PROVE  \E k \in Messages : Id[k] = Id[m] /\ FateOf(k) = "withdrawn"
  <2>1. PICK p \in Publishers : \E k \in Held(p) : Id[k] = Id[m]
    BY <1>1, <1>2
  <2>2. PICK k \in Held(p) : Id[k] = Id[m]
    BY <2>1
  <2>3. k \in Messages /\ status[k] # "absent"
    BY <2>2, HeldAreMessages DEF IInv, AbsentIsUntouched
  <2>4. status[k] = "deleted"
    BY <1>4, <2>2, <2>3
  <2>5. QED
    BY <2>2, <2>3, <2>4, Fates, NextFates, SameFate
<1>6. ASSUME NEW m \in Messages
      PROVE  FateOf(m)' =
                IF m \in S \cap reused' THEN "disputed"
                ELSE IF m \in S THEN "owed" ELSE FateOf(m)
  <2>1. CASE m \in S
    <3>1. status'[m] = "pending" /\ (m \in Contested' <=> m \in reused')
      BY <1>1, <1>2, <2>1 DEF Contested
    <3>2. QED
      BY <2>1, <3>1, Fates, NextFates, SameFate DEF MessageStatus
  <2>2. CASE m \notin S
    <3>1. status'[m] = status[m] /\ (m \in Contested' <=> m \in Contested)
      BY <1>1, <2>2 DEF Contested
    <3>2. QED
      BY <2>2, <3>1, SameFate
  <2>3. QED
    BY <2>1, <2>2
<1>7. \A m \in S, k \in Messages : k # m /\ Id[k] = Id[m] => k \notin S /\ fate[k] \in {"unknown", "withdrawn"}
  BY <1>1, <1>4
<1>8. \A m \in S \cap reused' : \E k \in Messages : Id[k] = Id[m] /\ fate[k] = "withdrawn"
  BY <1>5
<1>9. \A m \in S : fate[m] = "unknown"
  BY <1>3
<1>10. fate' = [m \in Messages |-> IF m \in S \cap reused' THEN "disputed"
                                   ELSE IF m \in S THEN "owed" ELSE fate[m]]
  BY <1>6
<1>11. QED
  BY <1>1, <1>7, <1>8, <1>9, <1>10 DEF Promise!Accept

\* Inserts, deletes and late batches are steps of the promise; checks are not
\* visible to it.
LEMMA EnvironmentRefines ==
    ASSUME IInv, Environment
    PROVE  [Promise!Next]_(Promise!vars)
<1> USE DEF IInv, TypeOK, rows, work, ghosts
<1>1. ASSUME NEW S \in SUBSET Messages, Accept(S)
      PROVE  Promise!Next
  <2>1. Promise!Accept(S, S \cap reused')
    BY <1>1, AcceptRefines
  <2>2. S \cap reused' \in SUBSET S
    OBVIOUS
  <2>3. QED
    BY <2>1, <2>2 DEF Promise!Next
<1>2. ASSUME NEW m \in Messages, CancelDelete(m)
      PROVE  [Promise!Next]_(Promise!vars)
  <2>1. /\ status' = [k \in Messages |-> IF k \in RowsOf({m}) THEN "deleted" ELSE status[k]]
        /\ UNCHANGED <<taken, failures>> /\ Contested' = Contested
    BY <1>2 DEF CancelDelete, SetStatus, Contested
  <2>2. CASE RowsOf({m}) = {}
    BY <2>1, <2>2, SilentStep
  <2>3. ASSUME NEW n \in RowsOf({m})
        PROVE  Promise!Withdraw(n)
    <3>1. RowsOf({m}) = {n} /\ n \in Messages /\ status[n] \in MessageStatus
      BY <2>3 DEF IdsAreUnique, RowsOf
    <3>2. FateOf(n) # "unknown"
      BY <3>1, Fates, NextFates, SameFate DEF MessageStatus
    <3>3. \A k \in Messages :
             FateOf(k)' =
                IF k = n THEN "withdrawn" ELSE FateOf(k)
      BY <2>1, <3>1, Fates, NextFates, SameFate
    <3>4. QED
      BY <2>1, <3>1, <3>2, <3>3 DEF Promise!Withdraw
  <2>4. QED
    BY <2>2, <2>3 DEF Promise!Next, RowsOf
<1>3. ASSUME NEW m \in Messages, LeaseExpires(m)
      PROVE  [Promise!Next]_(Promise!vars)
  <2>1. /\ status[m] = "publishing" /\ status' = status /\ UNCHANGED <<taken, failures>>
        /\ Contested' \in {Contested, Contested \cup {m}}
    BY <1>3 DEF LeaseExpires, Contested
  <2>2. CASE Contested' = Contested
    BY <2>1, <2>2, SilentStep
  <2>3. CASE Contested' # Contested
    <3>1. m \notin Contested /\ Contested' = Contested \cup {m}
      BY <2>1, <2>3
    <3>2. \A k \in Messages :
             FateOf(k)' =
                IF k = m THEN "disputed" ELSE FateOf(k)
      BY <2>1, <3>1, Fates, NextFates, SameFate DEF MessageStatus
    <3>3. FateOf(m) = "owed"
      BY <2>1, <3>1, Fates, NextFates, SameFate
    <3>4. Promise!Dispute(m)
      BY <2>1, <3>2, <3>3 DEF Promise!Dispute
    <3>5. QED
      BY <3>4 DEF Promise!Next
  <2>4. QED
    BY <2>2, <2>3
<1>4. ASSUME NEW m \in Messages, CancelCheck(m) \/ CancelFails(m)
      PROVE  UNCHANGED Promise!vars
  BY <1>4, SilentStep DEF CancelCheck, CancelFails, Contested
<1>5. QED
  BY <1>1, <1>2, <1>3, <1>4 DEF Environment, Cancel

\* A claim does not change what is owed.
LEMMA ClaimRefines ==
    ASSUME IInv, NEW p \in Publishers, Claim(p) \/ ClaimLost(p)
    PROVE  UNCHANGED Promise!vars
<1>1. PICK S \in SUBSET Claimable : FlipToPublishing(S)
  BY ClaimFlips
<1>2. taken' = taken /\ failures' = failures /\ Contested' = Contested
  BY DEF Claim, ClaimLost, ghosts, Contested
<1>3. ASSUME NEW m \in Messages
      PROVE  FateOf(m)' = FateOf(m)
  BY <1>1, <1>2, Fates, NextFates, SameFate DEF FlipToPublishing, SetStatus, Claimable, MessageStatus
<1>4. QED
  BY <1>2, <1>3, InvisibleStep

\* An answered send is an attempt at a message handed over and not settled.
LEMMA SendRefines ==
    ASSUME IInv, HoldersOwn, NEW p \in Publishers, Send(p)
    PROVE  [Promise!Next]_(Promise!vars)
<1>1. PICK b \in batch[p] : SendTaken(p, b) \/ SendBackpressure(p, b) \/ SendFails(p, b)
  BY DEF Send
<1>2. b.row \in Messages /\ b.row \in Held(p)
  BY DEF IInv, TypeOK, Held
<1>3. FateOf(b.row) \in {"owed", "withdrawn", "disputed"}
  <2>1. status[b.row] \in MessageStatus \cup {"deleted"}
    BY <1>2 DEF IInv, TypeOK, AbsentIsUntouched
  <2>2. b.row \notin Contested => status[b.row] \in {"publishing", "deleted"}
    BY <1>2 DEF HoldersOwn
  <2>3. QED
    BY <2>1, <2>2, Fates, NextFates, SameFate
<1>4. status' = status /\ Contested' = Contested
  BY <1>1 DEF SendTaken, SendBackpressure, SendFails, rows, ghosts, Contested
<1>5. \A m \in Messages : FateOf(m)' = FateOf(m)
  BY <1>4, SameFate
<1>6. CASE SendTaken(p, b)
  <2>1. taken' = taken \cup {b.row} /\ failures' = failures
    BY <1>6 DEF SendTaken
  <2>2. Promise!Succeed(b.row)
    BY <1>2, <1>3, <1>5, <2>1 DEF Promise!Succeed
  <2>3. QED
    BY <1>2, <2>2 DEF Promise!Next
<1>7. CASE SendBackpressure(p, b)
  BY <1>4, <1>7, SilentStep DEF SendBackpressure, ghosts
<1>8. CASE SendFails(p, b)
  <2>1. failures' = [failures EXCEPT ![b.row] = @ + 1] /\ taken' = taken
    BY <1>8 DEF SendFails
  <2>2. Promise!Fail(b.row)
    BY <1>2, <1>3, <1>5, <2>1 DEF Promise!Fail
  <2>3. QED
    BY <1>2, <2>2 DEF Promise!Next
<1>9. QED
  BY <1>1, <1>6, <1>7, <1>8

\* A statement on an uncontested row is one about the message in hand, which is
\* owed; nothing can be said of a disputed one.
LEMMA StatementRefines ==
    ASSUME IInv, HoldersOwn, NEW p \in Publishers,
           ReleaseClaim(p) \/ IncrementRetry(p) \/ UpdateStatus(p)
    PROVE  [Promise!Next]_(Promise!vars)
<1>1. TypeOK /\ HandsMatchPhases /\ IdsInOnePlace /\ StrangersAreReused
  BY DEF IInv
<1>2. taken' = taken /\ failures' = failures /\ Contested' = Contested
  BY DEF ReleaseClaim, IncrementRetry, UpdateStatus, ghosts, Contested
<1>3. PICK n \in Messages : n = hand[p] /\ n \in Held(p)
  BY <1>1, StatementEffect
<1>4. PICK R \in SUBSET RowsOf({n}) : \E s \in {"pending", "retrying", "dlq", "failed"} : SetStatus(R, s)
  BY <1>3 DEF ReleaseClaim, IncrementRetry, UpdateStatus
<1>5. PICK s \in {"pending", "retrying", "dlq", "failed"} : SetStatus(R, s)
  BY <1>4
<1>6. \A m \in R : m \in Messages /\ status[m] \in MessageStatus /\ (m \notin Contested => m = n)
  BY <1>1, <1>3, <1>4, RowIsHeld DEF RowsOf
<1>7. n \in R \ Contested => status[n] = "publishing"
  BY <1>3, <1>6 DEF HoldersOwn, MessageStatus
<1>8. \A m \in Messages : status'[m] = IF m \in R THEN s ELSE status[m]
  BY <1>5 DEF SetStatus
<1>9. ASSUME NEW m \in Messages, m \notin R \/ m \in Contested \/ s \in {"pending", "retrying"}
      PROVE  FateOf(m)' = FateOf(m)
  <2>1. CASE m \notin R
    BY <1>2, <1>8, <2>1, SameFate
  <2>2. CASE m \in R /\ m \in Contested
    <3>1. status'[m] \in MessageStatus /\ status[m] \in MessageStatus
      BY <1>6, <1>8, <2>2 DEF MessageStatus
    <3>2. QED
      BY <1>2, <2>2, <3>1, Fates, NextFates, SameFate
  <2>3. CASE m \in R /\ m \notin Contested /\ s \in {"pending", "retrying"}
    <3>1. status[m] = "publishing" /\ status'[m] = s
      BY <1>6, <1>7, <1>8, <2>3
    <3>2. QED
      BY <1>2, <2>3, <3>1, Fates, NextFates, SameFate
  <2>4. QED
    BY <1>9, <2>1, <2>2, <2>3
<1>10. CASE n \in R \ Contested /\ s \in {"dlq", "failed"}
  <2>1. UpdateStatus(p) /\ n \in RowsOf({n})
    <3>1. s = status'[n]
      BY <1>3, <1>8, <1>10
    <3>2. QED
      BY <1>3, <1>4, <1>7, <1>10, <3>1
      DEF ReleaseClaim, IncrementRetry, UpdateStatus, SetStatus
  <2>2. failures[n] > MaxRetries
    BY <1>3, <1>10, <2>1, BurialIsDue DEF Contested
  <2>3. /\ FateOf(n) = "owed"
        /\ FateOf(n)' = "buried"
    BY <1>2, <1>3, <1>7, <1>8, <1>10, Fates, NextFates, SameFate
  <2>4. \A m \in Messages : m # n =>
           FateOf(m)' = FateOf(m)
    BY <1>6, <1>9
  <2>5. Promise!Bury(n)
    BY <1>2, <1>3, <2>2, <2>3, <2>4 DEF Promise!Bury
  <2>6. QED
    BY <1>3, <2>5 DEF Promise!Next
<1>11. CASE ~(n \in R \ Contested /\ s \in {"dlq", "failed"})
  <2>1. \A m \in Messages : m \notin R \/ m \in Contested \/ s \in {"pending", "retrying"}
    BY <1>5, <1>6, <1>11
  <2>2. QED
    BY <1>2, <1>9, <2>1, InvisibleStep
<1>12. QED
  BY <1>10, <1>11

\* The uncontested rows a mark updates are owed, and were taken.
LEMMA MarkRefines ==
    ASSUME IInv, NEW p \in Publishers, MarkPublishedBatch(p)
    PROVE  [Promise!Next]_(Promise!vars)
<1> DEFINE S == Markable(p) \ Contested
<1>1. /\ status' = [m \in Messages |-> IF m \in Markable(p) THEN "published" ELSE status[m]]
      /\ taken' = taken /\ failures' = failures /\ Contested' = Contested
  BY DEF MarkPublishedBatch, SetStatus, EndTick, ghosts, Contested
<1>2. \A m \in Markable(p) : m \in Messages /\ m \in RowsOf(Messages) /\ status[m] = "publishing"
  BY DEF Markable, RowsOf
<1>3. ASSUME NEW m \in S
      PROVE  FateOf(m) = "owed" /\ m \in taken
  <2>1. PICK k \in sent[p] : Id[k] = Id[m]
    BY <1>3 DEF Markable, RowsOf
  <2>2. k = m
    BY <1>2, <1>3, <2>1, RowIsHeld DEF IInv, Held
  <2>3. QED
    BY <1>2, <1>3, <2>1, <2>2, Fates, NextFates, SameFate DEF IInv, SentWasTaken
<1>4. ASSUME NEW m \in Messages
      PROVE  FateOf(m)' =
                IF m \in S THEN "published" ELSE FateOf(m)
  <2>1. CASE m \in S
    BY <1>1, <2>1, Fates, NextFates, SameFate
  <2>2. CASE m \in Markable(p) /\ m \in Contested
    BY <1>1, <1>2, <2>2, Fates, NextFates, SameFate DEF MessageStatus
  <2>3. CASE m \notin Markable(p)
    BY <1>1, <2>3, SameFate
  <2>4. QED
    BY <2>1, <2>2, <2>3
<1>5. S \in SUBSET Messages
  BY <1>2
<1> HIDE DEF S
<1>6. CASE S = {}
  BY <1>1, <1>4, <1>6, InvisibleStep
<1>7. CASE S # {}
  <2>1. Promise!Publish(S)
    BY <1>1, <1>3, <1>4, <1>5, <1>7 DEF Promise!Publish
  <2>2. QED
    BY <1>5, <2>1 DEF Promise!Next
<1>8. QED
  BY <1>6, <1>7

\* So every step of the drain is a step of the promise, or a stutter.
LEMMA StepRefines ==
    ASSUME IInv, HoldersOwn, [Next]_vars
    PROVE  [Promise!Next]_(Promise!vars)
<1>1. CASE UNCHANGED vars
  BY <1>1, SilentStep DEF vars, rows, ghosts, Contested
<1>2. CASE Environment
  BY <1>2, EnvironmentRefines
<1>3. ASSUME NEW p \in Publishers, StatementFails(p) \/ MarkFails(p) \/ Crash(p)
      PROVE  UNCHANGED Promise!vars
  BY <1>3, SilentStep DEF StatementFails, MarkFails, EndTick, Crash, rows, ghosts, Contested
<1>4. QED
  BY <1>1, <1>2, <1>3, ClaimRefines, SendRefines, StatementRefines, MarkRefines
  DEF Next, Progress, Failure

\* Every behaviour of the drain is one the promise allows: accepted messages
\* are owed until they are published after being taken, buried after
\* max_retries + 1 failures, withdrawn, or disputed.
THEOREM DrainKeepsPromise == Spec => KeepsPromise
<1>1. Init => Promise!Init
  BY Fates, NextFates DEF Init, Promise!Init
<1>2. IInv /\ HoldersOwn /\ [Next]_vars => [Promise!Next]_(Promise!vars)
  BY StepRefines
<1>3. QED
  BY InvariantHolds, LeaseInvariantHolds, <1>1, <1>2, PTL DEF Spec, KeepsPromise, Promise!Spec

-----------------------------------------------------------------------------
(* Over Kafka: every step of KafkaSink is a step of Outbox or leaves it     *)
(* alone, so what is proved above holds there too; and the producer forgets *)
(* nothing it took.                                                        *)
USE MessagesAssumption, PublishersAssumption, QueueAssumption

\* The queue of the producer only restricts what the outbox does.
LEMMA StepIsAnOutboxStep == [KafkaNext]_kafkaVars => [Next]_vars
<1> SUFFICES ASSUME [KafkaNext]_kafkaVars PROVE Next \/ UNCHANGED vars
  OBVIOUS
<1> USE DEF Next, Progress, Failure
<1>1. ASSUME NEW p \in Publishers, KafkaSend(p) PROVE Next
  BY <1>1 DEF KafkaSend, Enqueue, QueueFull, Refuse, Send
<1>2. ASSUME NEW p \in Publishers, Transmit(p) \/ TimeOut(p) PROVE UNCHANGED vars
  BY <1>2 DEF Transmit, TimeOut
<1>3. ASSUME NEW p \in Publishers, CrashWithQueue(p) PROVE Next \/ UNCHANGED vars
  BY <1>3 DEF CrashWithQueue
<1>4. CASE Elsewhere
  BY <1>4 DEF Elsewhere
<1>5. CASE UNCHANGED kafkaVars
  BY <1>5 DEF kafkaVars
<1> QED BY <1>1, <1>2, <1>3, <1>4, <1>5 DEF KafkaNext

\* The composed system is an outbox, for any queues, losses and crashes.
THEOREM KafkaImplementsOutbox == KafkaSpec => IsAnOutbox
<1>1. KafkaInit => Init
  BY DEF KafkaInit
<1> QED BY <1>1, StepIsAnOutboxStep, PTL DEF KafkaSpec, IsAnOutbox, Spec

-----------------------------------------------------------------------------
(* Sequences of records.                                                   *)

Elements(q) == {q[i] : i \in 1..Len(q)}

\* Taking one record out of a queue leaves the others in it.
LEMMA RemovedOne ==
    ASSUME NEW q \in Seq(Record), NEW i \in 1..Len(q)
    PROVE  /\ RemoveAt(q, i) \in Seq(Record)
           /\ Len(RemoveAt(q, i)) = Len(q) - 1
           /\ Elements(q) \subseteq Elements(RemoveAt(q, i)) \cup {q[i]}
<1> DEFINE a == SubSeq(q, 1, i - 1)
           b == SubSeq(q, i + 1, Len(q))
<1>1. /\ a \in Seq(Record) /\ Len(a) = i - 1
      /\ \A j \in 1..(i - 1) : a[j] = q[j]
  OBVIOUS
<1>2. /\ b \in Seq(Record) /\ Len(b) = Len(q) - i
      /\ \A j \in 1..(Len(q) - i) : b[j] = q[i + j]
  OBVIOUS
<1>3. RemoveAt(q, i) = a \o b
  BY DEF RemoveAt
<1> HIDE DEF a, b
<1>4. /\ a \o b \in Seq(Record)
      /\ Len(a \o b) = Len(q) - 1
      /\ \A j \in 1..(Len(q) - 1) :
            (a \o b)[j] = IF j <= i - 1 THEN a[j] ELSE b[j - (i - 1)]
  <2>1. /\ a \o b \in Seq(Record)
        /\ Len(a \o b) = Len(a) + Len(b)
        /\ \A j \in 1..(Len(a) + Len(b)) :
              (a \o b)[j] = IF j <= Len(a) THEN a[j] ELSE b[j - Len(a)]
    BY <1>1, <1>2, ConcatProperties
  <2>2. Len(a) = i - 1 /\ Len(a) + Len(b) = Len(q) - 1
    BY <1>1, <1>2
  <2> QED BY <2>1, <2>2
<1>5. ASSUME NEW j \in 1..Len(q), j # i PROVE q[j] \in Elements(a \o b)
  <2>1. CASE j < i
    <3>1. j \in 1..(Len(q) - 1) /\ j \in 1..(i - 1) /\ j <= i - 1
      BY <2>1
    <3>2. (a \o b)[j] = q[j]
      BY <1>1, <1>4, <3>1
    <3> QED BY <1>4, <3>1, <3>2 DEF Elements
  <2>2. CASE j > i
    <3>1. /\ j - 1 \in 1..(Len(q) - 1) /\ ~(j - 1 <= i - 1)
          /\ j - i \in 1..(Len(q) - i) /\ (j - 1) - (i - 1) = j - i /\ i + (j - i) = j
      BY <2>2
    <3>2. (a \o b)[j - 1] = b[j - i]
      BY <1>4, <3>1
    <3>3. b[j - i] = q[j]
      BY <1>2, <3>1
    <3> QED BY <1>4, <3>1, <3>2, <3>3 DEF Elements
  <2> QED BY <1>5, <2>1, <2>2
<1> QED BY <1>3, <1>4, <1>5 DEF Elements

\* A record put at the end of a queue joins its records and makes it one longer.
LEMMA AppendedOne ==
    ASSUME NEW q \in Seq(Record), NEW r \in Record
    PROVE  /\ Append(q, r) \in Seq(Record)
           /\ Len(Append(q, r)) = Len(q) + 1
           /\ Elements(Append(q, r)) = Elements(q) \cup {r}
<1>1. /\ Append(q, r) \in Seq(Record) /\ Len(Append(q, r)) = Len(q) + 1
      /\ \A j \in 1..Len(q) : Append(q, r)[j] = q[j]
      /\ Append(q, r)[Len(q) + 1] = r
  OBVIOUS
<1>2. Elements(Append(q, r)) \subseteq Elements(q) \cup {r}
  BY <1>1 DEF Elements
<1>3. Elements(q) \cup {r} \subseteq Elements(Append(q, r))
  BY <1>1 DEF Elements
<1> QED BY <1>1, <1>2, <1>3

-----------------------------------------------------------------------------
SinkOK ==
    /\ queue \in [Publishers -> Seq(Record)]
    /\ unread \in [Publishers -> Nat]
    /\ \A p \in Publishers : Len(queue[p]) + unread[p] <= QueueCap
    /\ broker \subseteq Record
    /\ lost \subseteq Record
    /\ losses \in Nat

Known == broker \cup Queued \cup lost

\* The queues keep their types and their capacity, and nothing that is known
\* is forgotten.
LEMMA SinkStep ==
    ASSUME TypeOK, SinkOK, [KafkaNext]_kafkaVars
    PROVE  SinkOK' /\ Known \subseteq Known'
<1>q. Queued = UNION {Elements(queue[p]) : p \in Publishers}
      /\ Queued' = UNION {Elements(queue'[p]) : p \in Publishers}
  BY DEF Queued, Elements
<1>1. ASSUME UNCHANGED sink PROVE SinkOK' /\ Known \subseteq Known'
  BY <1>1 DEF sink, SinkOK, Known, Queued
<1>2. ASSUME NEW p \in Publishers, NEW r \in Record, Push(p, r)
      PROVE  SinkOK' /\ Known \subseteq Known'
  <2>1. /\ queue[p] \in Seq(Record) /\ Len(queue[p]) + unread[p] < QueueCap
        /\ queue' = [queue EXCEPT ![p] = Append(queue[p], r)]
        /\ broker' = broker /\ unread' = unread /\ lost' = lost /\ losses' = losses
    BY <1>2 DEF Push, HasRoom, Occupied, SinkOK
  <2>2. /\ Append(queue[p], r) \in Seq(Record)
        /\ Len(Append(queue[p], r)) + unread[p] <= QueueCap
        /\ Elements(queue[p]) \subseteq Elements(Append(queue[p], r))
    BY <2>1, AppendedOne DEF SinkOK
  <2>3. SinkOK'
    BY <2>1, <2>2 DEF SinkOK
  <2>4. \A t \in Publishers : Elements(queue[t]) \subseteq Elements(queue'[t])
    BY <2>1, <2>2 DEF SinkOK
  <2> QED BY <1>q, <2>1, <2>3, <2>4 DEF Known
<1>3. ASSUME NEW p \in Publishers, Transmit(p) \/ TimeOut(p)
      PROVE  SinkOK' /\ Known \subseteq Known'
  <2>1. PICK i \in 1..Len(queue[p]) :
           /\ queue' = [queue EXCEPT ![p] = RemoveAt(queue[p], i)]
           /\ unread' = [unread EXCEPT ![p] = unread[p] + 1]
           /\ broker \subseteq broker' /\ lost \subseteq lost'
           /\ queue[p][i] \in broker' \cup lost'
           /\ broker' \subseteq broker \cup {queue[p][i]}
           /\ lost' \subseteq lost \cup {queue[p][i]}
           /\ losses' \in {losses, losses + 1}
    BY <1>3 DEF Transmit, TimeOut, Report, Loss
  <2>2. queue[p] \in Seq(Record) /\ queue[p][i] \in Record
    BY DEF SinkOK
  <2>3. /\ RemoveAt(queue[p], i) \in Seq(Record)
        /\ Len(RemoveAt(queue[p], i)) = Len(queue[p]) - 1
        /\ Elements(queue[p]) \subseteq Elements(RemoveAt(queue[p], i)) \cup {queue[p][i]}
    BY <2>2, RemovedOne
  <2>4. Len(RemoveAt(queue[p], i)) + (unread[p] + 1) <= QueueCap
    BY <2>2, <2>3 DEF SinkOK
  <2>5. SinkOK'
    BY <2>1, <2>2, <2>3, <2>4 DEF SinkOK
  <2>6. \A t \in Publishers : Elements(queue[t]) \subseteq Elements(queue'[t]) \cup {queue[p][i]}
    BY <2>1, <2>3 DEF SinkOK
  <2> QED BY <1>q, <2>1, <2>5, <2>6 DEF Known
<1>4. ASSUME NEW p \in Publishers, CrashWithQueue(p)
      PROVE  SinkOK' /\ Known \subseteq Known'
  <2>1. /\ queue' = [queue EXCEPT ![p] = <<>>]
        /\ unread' = [unread EXCEPT ![p] = 0]
        /\ lost' = lost \cup Elements(queue[p])
        /\ broker' = broker
        /\ losses' \in {losses, losses + 1}
    BY <1>4 DEF CrashWithQueue, Elements, Loss
  <2>2. Elements(queue[p]) \subseteq Record
    BY DEF Elements, SinkOK
  <2>3. <<>> \in Seq(Record) /\ Len(<<>>) = 0
    OBVIOUS
  <2>4. SinkOK'
    BY <2>1, <2>2, <2>3 DEF SinkOK
  <2>5. \A t \in Publishers : Elements(queue[t]) \subseteq Elements(queue'[t]) \cup lost'
    BY <2>1 DEF SinkOK
  <2> QED BY <1>q, <2>1, <2>4, <2>5 DEF Known
<1>5. ASSUME NEW p \in Publishers, KafkaSend(p) PROVE SinkOK' /\ Known \subseteq Known'
  <2>1. PICK b \in batch[p] : Enqueue(p, b) \/ QueueFull(p, b) \/ Refuse(p, b)
    BY <1>5 DEF KafkaSend
  <2>2. Main(b.row) \in Record /\ Dead(b.row) \in Record
    BY <2>1 DEF TypeOK, Main, Dead, Record
  <2> QED BY <1>1, <1>2, <2>1, <2>2 DEF Enqueue, QueueFull, Refuse
<1>6. CASE Elsewhere
  BY <1>1, <1>6 DEF Elsewhere
<1>7. CASE UNCHANGED kafkaVars
  BY <1>1, <1>7 DEF kafkaVars
<1> QED BY <1>3, <1>4, <1>5, <1>6, <1>7 DEF KafkaNext

-----------------------------------------------------------------------------
(* Accounting: nothing the sink took is forgotten.                         *)

\* Only the adapter's Ok adds to taken and dlqTaken, and it does so together
\* with the record in the queue.
LEMMA TakenStep ==
    ASSUME TypeOK, SinkOK, TakenIsAccountedFor, [KafkaNext]_kafkaVars
    PROVE  TakenIsAccountedFor'
<1>1. Known \subseteq Known'
  BY SinkStep
<1>2. ASSUME UNCHANGED <<taken, dlqTaken>> PROVE TakenIsAccountedFor'
  BY <1>1, <1>2 DEF TakenIsAccountedFor, Known, Main, Dead
<1>3. ASSUME NEW p \in Publishers, NEW r \in Record, Push(p, r) PROVE r \in Known'
  <2>1. queue[p] \in Seq(Record) /\ queue'[p] = Append(queue[p], r)
    BY <1>3 DEF Push, SinkOK
  <2>2. r \in Elements(queue'[p])
    BY <2>1, AppendedOne
  <2>3. Elements(queue'[p]) \subseteq Queued'
    BY DEF Queued, Elements
  <2> QED BY <2>2, <2>3 DEF Known
<1>4. ASSUME NEW p \in Publishers, KafkaSend(p) PROVE TakenIsAccountedFor'
  <2>1. PICK b \in batch[p] : Enqueue(p, b) \/ QueueFull(p, b) \/ Refuse(p, b)
    BY <1>4 DEF KafkaSend
  <2>2. b.row \in Messages /\ Main(b.row) \in Record /\ Dead(b.row) \in Record
    BY <2>1 DEF TypeOK, Main, Dead, Record
  <2>3. CASE Enqueue(p, b)
    <3>1. taken' = taken \cup {b.row} /\ dlqTaken' = dlqTaken
      BY <2>3 DEF Enqueue, SendTaken
    <3>2. Main(b.row) \in Known'
      BY <1>3, <2>2, <2>3 DEF Enqueue
    <3> QED BY <1>1, <3>1, <3>2 DEF TakenIsAccountedFor, Known, Main, Dead
  <2>4. CASE QueueFull(p, b)
    BY <1>2, <2>4 DEF QueueFull, SendBackpressure, ghosts
  <2>5. CASE Refuse(p, b)
    <3>1. CASE dlqTaken' = dlqTaken
      BY <1>2, <2>5, <3>1 DEF Refuse, SendFails
    <3>2. CASE dlqTaken' # dlqTaken
      <4>1. taken' = taken /\ dlqTaken' = dlqTaken \cup {b.row} /\ Push(p, Dead(b.row))
        BY <2>5, <3>2 DEF Refuse, SendFails
      <4>2. Dead(b.row) \in Known'
        BY <1>3, <2>2, <4>1
      <4> QED BY <1>1, <4>1, <4>2 DEF TakenIsAccountedFor, Known, Main, Dead
    <3> QED BY <3>1, <3>2
  <2> QED BY <2>1, <2>3, <2>4, <2>5
<1>5. ASSUME NEW p \in Publishers, Transmit(p) \/ TimeOut(p) \/ CrashWithQueue(p)
      PROVE  UNCHANGED <<taken, dlqTaken>>
  BY <1>5 DEF Transmit, TimeOut, CrashWithQueue, Crash, vars, ghosts
<1>6. CASE Elsewhere
  <2>1. UNCHANGED <<taken, dlqTaken>>
    BY <1>6 DEF Elsewhere, Claim, ClaimLost, ReleaseClaim, IncrementRetry, UpdateStatus,
                StatementFails, MarkPublishedBatch, MarkFails, EndTick, Environment,
                Accept, LeaseExpires, Cancel, CancelCheck, CancelDelete, CancelFails, CancelEnds, ghosts
  <2> QED BY <1>2, <2>1
<1>7. CASE UNCHANGED kafkaVars
  BY <1>2, <1>7 DEF kafkaVars, vars, ghosts
<1> QED BY <1>2, <1>4, <1>5, <1>6, <1>7 DEF KafkaNext

\* The queues, the brokers and the losses keep their types; no queue outgrows
\* its capacity, however often the publishers push back and retry.
THEOREM QueuesStayBounded == KafkaSpec => []KafkaTypeOK
<1>1. KafkaSpec => []TypeOK
  BY KafkaImplementsOutbox, TypeCorrect, PTL DEF IsAnOutbox
<1>2. KafkaInit => SinkOK
  BY DEF KafkaInit, SinkOK
<1>3. TypeOK /\ SinkOK /\ [KafkaNext]_kafkaVars => SinkOK'
  BY SinkStep
<1>4. TypeOK /\ SinkOK => KafkaTypeOK
  BY DEF SinkOK, KafkaTypeOK, Occupied
<1> QED BY <1>1, <1>2, <1>3, <1>4, PTL DEF KafkaSpec

\* Whatever the sink took is at the brokers, in a queue, or one of the records
\* the library gave up or a process took along.
THEOREM TakenIsNeverForgotten == KafkaSpec => []TakenIsAccountedFor
<1>1. KafkaSpec => []TypeOK
  BY KafkaImplementsOutbox, TypeCorrect, PTL DEF IsAnOutbox
<1>2. KafkaInit => SinkOK /\ TakenIsAccountedFor
  BY DEF KafkaInit, Init, SinkOK, TakenIsAccountedFor
<1>3. TypeOK /\ SinkOK /\ TakenIsAccountedFor /\ [KafkaNext]_kafkaVars
      => SinkOK' /\ TakenIsAccountedFor'
  BY SinkStep, TakenStep
<1> QED BY <1>1, <1>2, <1>3, PTL DEF KafkaSpec

\* Over Kafka, too, only what the sink took is reported as published, a message
\* is buried only after max_retries + 1 failed sends, claims are disjoint and the
\* promise is kept, with what is said of contested messages.
THEOREM OutboxGuaranteesOverKafka ==
    KafkaSpec => /\ [](PublishedWasTaken /\ BuriedOnlyAfterRetries /\ ClaimsDisjoint)
                 /\ KeepsPromise
  BY KafkaImplementsOutbox, PublishedOnlyIfTaken, NoEarlyBurial, DisjointClaims,
     DrainKeepsPromise, PTL
  DEF IsAnOutbox

=============================================================================
