------------------------- MODULE DlqReprocessProofs -------------------------
(* No dead letter is lost, and copies are bounded, for any number of calls. *)
EXTENDS DlqReprocess, FiniteSetTheorems, TLAPS

USE EntriesAssumption, TopicsAssumption, CallersAssumption, BoundsAssumption

-----------------------------------------------------------------------------
(* Types.                                                                  *)

\* A page holds nothing but what it was taken from.
LEMMA NewestIsSubset == \A S : Newest(S) \subseteq S
  BY DEF Newest

\* A request can only name entries.
LEMMA SelectorsAreEntries == \A sel \in Selectors : sel \subseteq Entries
  BY DEF Selectors

\* Sets of entries can be counted, and only the empty one counts none.
LEMMA SubsetCount ==
    ASSUME NEW S \in SUBSET Entries
    PROVE  Cardinality(S) \in Nat /\ (S # {} => Cardinality(S) # 0)
  BY FS_Subset, FS_CardinalityType, FS_EmptySet

\* What Select does to the call that reads.
LEMMA SelectEffect ==
    ASSUME NEW c \in Callers, NEW sel \in Selectors, Select(c, sel)
    PROVE  \E S \in SUBSET Entries :
              /\ Idle(c) /\ Cardinality(S) \in Nat \ {0}
              /\ \A e \in S : entry[e] = "stored"
              /\ todo' = [todo EXCEPT ![c] = S]
              /\ picked' = [picked EXCEPT ![c] = Cardinality(S)]
              /\ UNCHANGED <<entry, copies, deleting, reprocessed, failed, faults>>
<1> DEFINE S == Newest({e \in sel : entry[e] = "stored"})
<1>1. S \subseteq {e \in sel : entry[e] = "stored"}
  BY NewestIsSubset
<1>2. S \in SUBSET Entries /\ \A e \in S : entry[e] = "stored"
  BY <1>1, SelectorsAreEntries
<1>3. /\ Idle(c) /\ S # {}
      /\ todo' = [todo EXCEPT ![c] = S]
      /\ picked' = [picked EXCEPT ![c] = Cardinality(S)]
      /\ UNCHANGED <<entry, copies, deleting, reprocessed, failed, faults>>
  BY DEF Select
<1>4. Cardinality(S) \in Nat \ {0}
  BY <1>2, <1>3, SubsetCount
<1> HIDE DEF S
<1> QED BY <1>2, <1>3, <1>4

\* Each handler step keeps the types.
LEMMA TypeOKStep == TypeOK /\ [Next]_vars => TypeOK'
<1> SUFFICES ASSUME TypeOK, [Next]_vars PROVE TypeOK'
  OBVIOUS
<1> USE DEF TypeOK
<1>1. ASSUME NEW e \in Entries, MoveToDlq(e) PROVE TypeOK'
  BY <1>1 DEF MoveToDlq, call
<1>2. ASSUME NEW c \in Callers, NEW sel \in Selectors, Select(c, sel) PROVE TypeOK'
  <2>1. PICK S \in SUBSET Entries :
           /\ Cardinality(S) \in Nat \ {0}
           /\ todo' = [todo EXCEPT ![c] = S]
           /\ picked' = [picked EXCEPT ![c] = Cardinality(S)]
           /\ UNCHANGED <<entry, copies, deleting, reprocessed, failed, faults>>
    BY <1>2, SelectEffect
  <2> QED BY <2>1
<1>3. ASSUME NEW c \in Callers, NEW e \in Entries, CreateOk(c, e) PROVE TypeOK'
  BY <1>3 DEF CreateOk
<1>4. ASSUME NEW c \in Callers, NEW e \in Entries, CreateFails(c, e) PROVE TypeOK'
  <2>1. /\ \/ copies' = [copies EXCEPT ![e] = @ + 1]
           \/ copies' = copies
        /\ copies \in [Entries -> Nat]
    BY <1>4 DEF CreateFails
  <2>2. copies' \in [Entries -> Nat]
    BY <2>1
  <2> QED BY <1>4, <2>2 DEF CreateFails, Fault
<1>5. ASSUME NEW c \in Callers, DeleteOk(c) PROVE TypeOK'
  BY <1>5 DEF DeleteOk, Count
<1>6. ASSUME NEW c \in Callers, DeleteFails(c) PROVE TypeOK'
  BY <1>6 DEF DeleteFails, Count, Fault
<1>7. ASSUME NEW c \in Callers, Answer(c) PROVE TypeOK'
  BY <1>7 DEF Answer, End
<1>8. ASSUME NEW c \in Callers, Drop(c) PROVE TypeOK'
  BY <1>8 DEF Drop, End, Fault
<1>9. CASE UNCHANGED vars
  BY <1>9 DEF vars, call
<1> QED BY <1>1, <1>2, <1>3, <1>4, <1>5, <1>6, <1>7, <1>8, <1>9 DEF Next, Progress

\* The rows of the table and the bookkeeping of every call keep their types.
THEOREM TypeCorrect == Spec => []TypeOK
<1>1. Init => TypeOK
  BY DEF Init, TypeOK
<1> QED BY <1>1, TypeOKStep, PTL DEF Spec

-----------------------------------------------------------------------------
(* No dead letter is lost: a call only deletes what it has copied.         *)

Safe == TypeOK /\ NoEntryLost /\ DeletingWasCopied /\ TodoWasStored

\* No step loses an entry, or lets a call delete one it has not copied.
LEMMA SafeStep == Safe /\ [Next]_vars => Safe'
<1> SUFFICES ASSUME Safe, [Next]_vars PROVE Safe'
  OBVIOUS
<1>t. TypeOK /\ TypeOK'
  BY TypeOKStep DEF Safe
<1> USE DEF TypeOK, Safe, NoEntryLost, DeletingWasCopied, TodoWasStored, Idle
<1>1. ASSUME NEW e \in Entries, MoveToDlq(e) PROVE Safe'
  BY <1>1, <1>t DEF MoveToDlq, call
<1>2. ASSUME NEW c \in Callers, NEW sel \in Selectors, Select(c, sel) PROVE Safe'
  <2>1. PICK S \in SUBSET Entries :
           /\ Idle(c) /\ Cardinality(S) \in Nat \ {0}
           /\ \A e \in S : entry[e] = "stored"
           /\ todo' = [todo EXCEPT ![c] = S]
           /\ picked' = [picked EXCEPT ![c] = Cardinality(S)]
           /\ UNCHANGED <<entry, copies, deleting, reprocessed, failed, faults>>
    BY <1>2, SelectEffect
  <2> QED BY <1>t, <2>1
<1>3. ASSUME NEW c \in Callers, NEW e \in Entries, CreateOk(c, e) PROVE Safe'
  BY <1>3, <1>t DEF CreateOk, Turn
<1>4. ASSUME NEW c \in Callers, NEW e \in Entries, CreateFails(c, e) PROVE Safe'
  <2>1. /\ entry' = entry /\ deleting' = deleting /\ picked' = picked
        /\ todo' = [todo EXCEPT ![c] = todo[c] \ {e}]
        /\ deleting[c] = NoEntry
    BY <1>4 DEF CreateFails
  <2>2. \A f \in Entries : copies'[f] \in {copies[f], copies[f] + 1}
    BY <1>4 DEF CreateFails
  <2>3. NoEntryLost'
    BY <1>t, <2>1, <2>2
  <2>4. DeletingWasCopied'
    <3> SUFFICES ASSUME NEW d \in Callers, deleting[d] # NoEntry
                 PROVE  deleting[d] \in todo'[d] /\ copies'[deleting[d]] > 0
      BY <2>1
    <3>1. d # c /\ deleting[d] \in todo[d] /\ copies[deleting[d]] > 0 /\ deleting[d] \in Entries
      BY <2>1
    <3>2. todo'[d] = todo[d]
      BY <2>1, <3>1
    <3>3. copies'[deleting[d]] \in {copies[deleting[d]], copies[deleting[d]] + 1}
      BY <2>2, <3>1
    <3>4. copies[deleting[d]] \in Nat
      BY <1>t, <3>1
    <3> QED BY <3>1, <3>2, <3>3, <3>4
  <2>5. TodoWasStored'
    BY <1>t, <2>1
  <2> QED BY <1>t, <2>3, <2>4, <2>5
<1>5. ASSUME NEW c \in Callers, DeleteOk(c) PROVE Safe'
  BY <1>5, <1>t DEF DeleteOk, Count
<1>6. ASSUME NEW c \in Callers, DeleteFails(c) PROVE Safe'
  BY <1>6, <1>t DEF DeleteFails, Count, Fault
<1>7. ASSUME NEW c \in Callers, Answer(c) PROVE Safe'
  BY <1>7, <1>t DEF Answer, End
<1>8. ASSUME NEW c \in Callers, Drop(c) PROVE Safe'
  BY <1>8, <1>t DEF Drop, End, Fault
<1>9. CASE UNCHANGED vars
  BY <1>9 DEF vars, call
<1> QED BY <1>1, <1>2, <1>3, <1>4, <1>5, <1>6, <1>7, <1>8, <1>9 DEF Next, Progress

\* Whichever statements fail, whichever calls overlap or are dropped, a deleted
\* entry has a copy in the outbox.
THEOREM DeadLettersSurvive == Spec => []NoEntryLost
<1>1. Init => Safe
  BY DEF Init, Safe, TypeOK, NoEntryLost, DeletingWasCopied, TodoWasStored
<1>2. Safe => NoEntryLost
  BY DEF Safe
<1> QED BY <1>1, <1>2, SafeStep, PTL DEF Spec

-----------------------------------------------------------------------------
(* Copies are bounded: a call that copies an entry gives up its free copy, *)
(* and only a fault gives one back.                                        *)

\* Sets of calls can be counted, and are no larger than that of all calls.
LEMMA MayCopyCount ==
    ASSUME NEW S \in SUBSET Callers
    PROVE  IsFiniteSet(S) /\ Cardinality(S) \in Nat /\ Cardinality(S) <= Cardinality(Callers)
  BY FS_Subset, FS_CardinalityType

\* Part of a set of calls has no more members than the set.
LEMMA FewerCallers ==
    ASSUME NEW S \in SUBSET Callers, NEW T \in SUBSET S
    PROVE  Cardinality(T) <= Cardinality(S)
  BY MayCopyCount, FS_Subset

\* A set of calls that one call leaves is smaller by one at least.
LEMMA OneCallerLess ==
    ASSUME NEW S \in SUBSET Callers, NEW c \in S, NEW T \in SUBSET (S \ {c})
    PROVE  Cardinality(T) + 1 <= Cardinality(S)
<1>1. Cardinality(S \ {c}) = Cardinality(S) - 1
  BY MayCopyCount, FS_RemoveElement
<1>2. Cardinality(T) <= Cardinality(S \ {c})
  BY FewerCallers
<1> QED BY <1>1, <1>2, MayCopyCount

\* A set of calls that one call joins is larger by one at most.
LEMMA OneCallerMore ==
    ASSUME NEW S \in SUBSET Callers, NEW c \in Callers, NEW T \in SUBSET (S \cup {c})
    PROVE  Cardinality(T) <= Cardinality(S) + 1
<1>1. Cardinality(S \cup {c}) <= Cardinality(S) + 1
  BY MayCopyCount, FS_AddElement
<1>2. S \cup {c} \in SUBSET Callers
  OBVIOUS
<1>3. Cardinality(T) <= Cardinality(S \cup {c})
  BY <1>2, FewerCallers
<1> QED BY <1>1, <1>2, <1>3, MayCopyCount

Paid(e) == copies[e] + Cardinality(MayCopy(e)) <= Cardinality(Callers) + faults

\* The four ways a step can touch the account of e.
LEMMA AccountStep ==
    ASSUME TypeOK, TypeOK', NEW e \in Entries, Paid(e),
           \/ /\ copies'[e] = copies[e] /\ faults <= faults'
              /\ MayCopy(e)' \subseteq MayCopy(e)
           \/ /\ copies'[e] = copies[e] + 1 /\ faults' = faults
              /\ \E c \in MayCopy(e) : MayCopy(e)' \subseteq MayCopy(e) \ {c}
           \/ /\ copies'[e] \in {copies[e], copies[e] + 1} /\ faults' = faults + 1
              /\ MayCopy(e)' \subseteq MayCopy(e)
           \/ /\ copies'[e] = copies[e] /\ faults' = faults + 1
              /\ \E c \in Callers : MayCopy(e)' \subseteq MayCopy(e) \cup {c}
    PROVE  Paid(e)'
<1> DEFINE S == MayCopy(e)
           T == MayCopy(e)'
           k == Cardinality(Callers)
<1>1. S \in SUBSET Callers /\ T \in SUBSET Callers
  BY DEF MayCopy
<1>2. /\ copies[e] \in Nat /\ copies'[e] \in Nat /\ faults \in Nat /\ faults' \in Nat
      /\ Cardinality(S) \in Nat /\ Cardinality(T) \in Nat /\ k \in Nat
  BY <1>1, MayCopyCount DEF TypeOK
<1>3. copies[e] + Cardinality(S) <= k + faults
  BY DEF Paid
<1> SUFFICES copies'[e] + Cardinality(T) <= k + faults'
  BY DEF Paid
<1> HIDE DEF S, T, k
<1>4. CASE T \subseteq S /\ copies'[e] = copies[e] /\ faults <= faults'
  <2>1. Cardinality(T) <= Cardinality(S)
    BY <1>1, <1>4, FewerCallers
  <2> QED BY <1>2, <1>3, <1>4, <2>1
<1>5. CASE copies'[e] = copies[e] + 1 /\ faults' = faults /\ \E c \in S : T \subseteq S \ {c}
  <2>1. Cardinality(T) + 1 <= Cardinality(S)
    BY <1>1, <1>5, OneCallerLess
  <2> QED BY <1>2, <1>3, <1>5, <2>1
<1>6. CASE T \subseteq S /\ copies'[e] \in {copies[e], copies[e] + 1} /\ faults' = faults + 1
  <2>1. Cardinality(T) <= Cardinality(S)
    BY <1>1, <1>6, FewerCallers
  <2> QED BY <1>2, <1>3, <1>6, <2>1
<1>7. CASE copies'[e] = copies[e] /\ faults' = faults + 1 /\ \E c \in Callers : T \subseteq S \cup {c}
  <2>1. Cardinality(T) <= Cardinality(S) + 1
    BY <1>1, <1>7, OneCallerMore
  <2> QED BY <1>2, <1>3, <1>7, <2>1
<1> QED BY <1>4, <1>5, <1>6, <1>7 DEF S, T

\* No step makes a copy without a call that had it due or a fault.
LEMMA CopiesPaidForStep == Safe /\ CopiesPaidFor /\ [Next]_vars => CopiesPaidFor'
<1> SUFFICES ASSUME Safe, CopiesPaidFor, [Next]_vars, NEW e \in Entries PROVE Paid(e)'
  BY DEF CopiesPaidFor, Paid
<1>t. TypeOK /\ TypeOK' /\ Paid(e)
  BY TypeOKStep DEF Safe, CopiesPaidFor, Paid
<1> DEFINE Same == /\ copies'[e] = copies[e] /\ faults <= faults'
                   /\ MayCopy(e)' \subseteq MayCopy(e)
           Pays == /\ copies'[e] = copies[e] + 1 /\ faults' = faults
                   /\ \E c \in MayCopy(e) : MayCopy(e)' \subseteq MayCopy(e) \ {c}
           Slip == /\ copies'[e] \in {copies[e], copies[e] + 1} /\ faults' = faults + 1
                   /\ MayCopy(e)' \subseteq MayCopy(e)
           Back == /\ copies'[e] = copies[e] /\ faults' = faults + 1
                   /\ \E c \in Callers : MayCopy(e)' \subseteq MayCopy(e) \cup {c}
<1> SUFFICES Same \/ Pays \/ Slip \/ Back
  BY <1>t, AccountStep
<1> USE DEF TypeOK, MayCopy
<1>1. ASSUME NEW f \in Entries, MoveToDlq(f) PROVE Same
  BY <1>1, <1>t DEF MoveToDlq, call
<1>2. ASSUME NEW c \in Callers, NEW sel \in Selectors, Select(c, sel) PROVE Same
  <2>1. PICK S \in SUBSET Entries :
           /\ \A f \in S : entry[f] = "stored"
           /\ todo' = [todo EXCEPT ![c] = S]
           /\ UNCHANGED <<entry, copies, deleting, faults>>
    BY <1>2, SelectEffect
  <2> QED BY <1>t, <2>1
<1>3. ASSUME NEW c \in Callers, NEW f \in Entries, CreateOk(c, f) PROVE Same \/ Pays
  <2>1. /\ f \in todo[c] /\ deleting[c] = NoEntry
        /\ copies' = [copies EXCEPT ![f] = copies[f] + 1]
        /\ deleting' = [deleting EXCEPT ![c] = f]
        /\ UNCHANGED <<entry, todo, faults>>
    BY <1>3 DEF CreateOk, Turn
  <2>2. CASE e = f
    <3>1. c \in MayCopy(e) /\ MayCopy(e)' \subseteq MayCopy(e) \ {c}
      BY <1>t, <2>1, <2>2
    <3>2. copies'[e] = copies[e] + 1 /\ faults' = faults
      BY <1>t, <2>1, <2>2
    <3> QED BY <3>1, <3>2
  <2>3. CASE e # f
    BY <1>t, <2>1, <2>3
  <2> QED BY <2>2, <2>3
<1>4. ASSUME NEW c \in Callers, NEW f \in Entries, CreateFails(c, f) PROVE Slip
  BY <1>4, <1>t DEF CreateFails, Fault
<1>5. ASSUME NEW c \in Callers, DeleteOk(c) PROVE Same
  BY <1>5, <1>t DEF DeleteOk, Count
<1>6. ASSUME NEW c \in Callers, DeleteFails(c) PROVE Back
  <2>1. copies'[e] = copies[e] /\ faults' = faults + 1
    BY <1>6 DEF DeleteFails, Count, Fault
  <2>2. MayCopy(e)' \subseteq MayCopy(e) \cup {c}
    BY <1>6, <1>t DEF DeleteFails, Count
  <2> QED BY <2>1, <2>2
<1>7. ASSUME NEW c \in Callers, Answer(c) PROVE Same
  BY <1>7, <1>t DEF Answer, End, Safe, DeletingWasCopied
<1>8. ASSUME NEW c \in Callers, Drop(c) PROVE Back
  <2>1. copies'[e] = copies[e] /\ faults' = faults + 1
    BY <1>8 DEF Drop, End, Fault
  <2>2. MayCopy(e)' \subseteq MayCopy(e) \cup {c}
    BY <1>8, <1>t DEF Drop, End
  <2> QED BY <2>1, <2>2
<1>9. CASE UNCHANGED vars
  BY <1>9, <1>t DEF vars, call
<1> QED BY <1>1, <1>2, <1>3, <1>4, <1>5, <1>6, <1>7, <1>8, <1>9 DEF Next, Progress

\* Before anything is copied each call may copy an entry once.
LEMMA InitPaid == Init => CopiesPaidFor
<1> SUFFICES ASSUME Init, NEW e \in Entries
             PROVE  copies[e] + Cardinality(MayCopy(e)) <= Cardinality(Callers) + faults
  BY DEF CopiesPaidFor
<1>1. MayCopy(e) \in SUBSET Callers /\ copies[e] = 0 /\ faults = 0
  BY DEF Init, MayCopy
<1> QED BY <1>1, MayCopyCount, FS_CardinalityType

\* The inductive invariant of reprocessing holds.
THEOREM InvariantHolds == Spec => []IInv
<1>1. Init => Safe
  BY DEF Init, Safe, TypeOK, NoEntryLost, DeletingWasCopied, TodoWasStored
<1>2. Safe /\ CopiesPaidFor <=> IInv
  BY DEF Safe, IInv
<1> QED BY <1>1, <1>2, InitPaid, SafeStep, CopiesPaidForStep, PTL DEF Spec

\* Each copy of an entry beyond the first costs a fault or an overlapping call,
\* for any number of entries and calls.
THEOREM CopiesStayBounded == Spec => []CopiesBounded
<1>1. IInv => CopiesBounded
  <2> SUFFICES ASSUME IInv, NEW e \in Entries
               PROVE  copies[e] <= Cardinality(Callers) + faults
    BY DEF CopiesBounded
  <2>1. copies[e] + Cardinality(MayCopy(e)) <= Cardinality(Callers) + faults
    BY DEF IInv, CopiesPaidFor
  <2>2. Cardinality(MayCopy(e)) \in Nat /\ copies[e] \in Nat /\ faults \in Nat
        /\ Cardinality(Callers) \in Nat
    BY MayCopyCount, FS_CardinalityType DEF IInv, TypeOK, MayCopy
  <2> QED BY <2>1, <2>2
<1> QED BY <1>1, InvariantHolds, PTL

-----------------------------------------------------------------------------
(* The counts of an answer.                                                *)

AddsUp(c) == reprocessed[c] + failed[c] + Cardinality(todo[c]) = picked[c]

\* One entry less to do is one more in a count.
LEMMA EntryIsCounted ==
    ASSUME TypeOK, NEW c \in Callers, AddsUp(c), NEW e \in todo[c],
           todo' = [todo EXCEPT ![c] = @ \ {e}], picked' = picked,
           \/ reprocessed' = [reprocessed EXCEPT ![c] = @ + 1] /\ failed' = failed
           \/ failed' = [failed EXCEPT ![c] = @ + 1] /\ reprocessed' = reprocessed
    PROVE  \A d \in Callers : AddsUp(d) => AddsUp(d)'
<1>1. todo[c] \subseteq Entries /\ IsFiniteSet(todo[c]) /\ Cardinality(todo[c]) \in Nat
  BY FS_Subset, FS_CardinalityType DEF TypeOK
<1>2. Cardinality(todo[c] \ {e}) = Cardinality(todo[c]) - 1
  BY <1>1, FS_RemoveElement
<1>3. /\ todo'[c] = todo[c] \ {e} /\ picked'[c] = picked[c]
      /\ reprocessed'[c] + failed'[c] = reprocessed[c] + failed[c] + 1
      /\ reprocessed[c] \in Nat /\ failed[c] \in Nat
      /\ reprocessed'[c] \in Nat /\ failed'[c] \in Nat
  BY DEF TypeOK
<1>4. AddsUp(c)'
  <2> DEFINE n == Cardinality(todo[c])
             k == Cardinality(todo'[c])
  <2>1. n \in Nat /\ k = n - 1 /\ reprocessed[c] + failed[c] + n = picked[c]
    BY <1>1, <1>2, <1>3 DEF AddsUp
  <2> HIDE DEF n, k
  <2>2. reprocessed'[c] + failed'[c] + k = picked'[c]
    BY <1>3, <2>1
  <2> QED BY <2>2 DEF AddsUp, k
<1>5. \A d \in Callers : d # c => /\ todo'[d] = todo[d] /\ picked'[d] = picked[d]
                                  /\ reprocessed'[d] = reprocessed[d] /\ failed'[d] = failed[d]
  BY DEF TypeOK
<1> QED BY <1>4, <1>5 DEF AddsUp

\* Each step of a call moves entries between its counters or what is left.
LEMMA CountsStep == Safe /\ CountsAddUp /\ [Next]_vars => CountsAddUp'
<1> SUFFICES ASSUME Safe, CountsAddUp, [Next]_vars PROVE \A d \in Callers : AddsUp(d)'
  BY DEF CountsAddUp, AddsUp
<1> DEFINE Goal == \A d \in Callers : AddsUp(d)'
<1>t. TypeOK /\ \A d \in Callers : AddsUp(d)
  BY DEF Safe, CountsAddUp, AddsUp
<1>1. ASSUME NEW c \in Callers, NEW sel \in Selectors, Select(c, sel) PROVE Goal
  <2>1. PICK S \in SUBSET Entries :
           /\ Idle(c) /\ Cardinality(S) \in Nat \ {0}
           /\ todo' = [todo EXCEPT ![c] = S]
           /\ picked' = [picked EXCEPT ![c] = Cardinality(S)]
           /\ UNCHANGED <<entry, copies, deleting, reprocessed, failed, faults>>
    BY <1>1, SelectEffect
  <2>2. reprocessed[c] = 0 /\ failed[c] = 0
    <3>1. todo[c] \in SUBSET Entries /\ reprocessed[c] \in Nat /\ failed[c] \in Nat
      BY <1>t DEF TypeOK
    <3>2. Cardinality(todo[c]) \in Nat
      BY <3>1, SubsetCount
    <3>3. reprocessed[c] + failed[c] + Cardinality(todo[c]) = 0
      BY <1>t, <2>1 DEF AddsUp, Idle
    <3> DEFINE n == Cardinality(todo[c])
    <3>4. n \in Nat /\ reprocessed[c] + failed[c] + n = 0
      BY <3>2, <3>3
    <3> HIDE DEF n
    <3> QED BY <3>1, <3>4
  <2>3. AddsUp(c)'
    <3>1. /\ todo'[c] = S /\ picked'[c] = Cardinality(S)
          /\ reprocessed'[c] = 0 /\ failed'[c] = 0
      BY <1>t, <2>1, <2>2 DEF TypeOK
    <3> QED BY <2>1, <3>1 DEF AddsUp
  <2>4. \A d \in Callers : d # c => AddsUp(d)'
    BY <1>t, <2>1 DEF AddsUp, TypeOK
  <2> QED BY <2>3, <2>4
<1>2. ASSUME NEW c \in Callers, NEW e \in Entries, CreateFails(c, e) PROVE Goal
  BY <1>2, <1>t, EntryIsCounted DEF CreateFails, Turn
<1>3. ASSUME NEW c \in Callers, DeleteOk(c) \/ DeleteFails(c) PROVE Goal
  <2>1. deleting[c] \in todo[c] /\ Count(c)
    BY <1>3 DEF DeleteOk, DeleteFails, Safe, DeletingWasCopied
  <2> QED BY <1>t, <2>1, EntryIsCounted DEF Count
<1>4. ASSUME NEW c \in Callers, Answer(c) \/ Drop(c) PROVE Goal
  <2>1. End(c) /\ Cardinality({}) = 0
    BY <1>4, FS_EmptySet DEF Answer, Drop
  <2>2. AddsUp(c)'
    BY <1>t, <2>1 DEF End, AddsUp, TypeOK
  <2>3. \A d \in Callers : d # c => AddsUp(d)'
    BY <1>t, <2>1 DEF End, AddsUp, TypeOK
  <2> QED BY <2>2, <2>3
<1>5. ASSUME UNCHANGED <<todo, reprocessed, failed, picked>> PROVE Goal
  BY <1>t, <1>5 DEF AddsUp
<1>6. ASSUME \/ UNCHANGED vars \/ \E e \in Entries : MoveToDlq(e)
             \/ \E c \in Callers, e \in Entries : CreateOk(c, e)
      PROVE  Goal
  BY <1>5, <1>6 DEF vars, call, MoveToDlq, CreateOk
<1> HIDE DEF Goal
<1>7. Goal
  BY <1>1, <1>2, <1>3, <1>4, <1>6 DEF Next, Progress
<1> QED BY <1>7 DEF Goal

\* Whatever fails and overlaps, the two counts of an answer and the entries still
\* to be done are the entries the call has read.
THEOREM CountsAreComplete == Spec => []CountsAddUp
<1>1. Init => Safe /\ CountsAddUp
  <2>1. Init => CountsAddUp
    BY FS_EmptySet DEF Init, CountsAddUp
  <2> QED BY <2>1 DEF Init, Safe, TypeOK, NoEntryLost, DeletingWasCopied, TodoWasStored
<1> QED BY <1>1, SafeStep, CountsStep, PTL DEF Spec

=============================================================================
