---------------------------- MODULE DlqReprocess ----------------------------
(***************************************************************************)
(* DlqHandler: the rows of dlq_messages and the ReprocessDlq RPC, which    *)
(* puts dead letters back into the outbox.                                 *)
(*                                                                         *)
(* A call reads its entries in one statement, then inserts an outbox row   *)
(* and deletes the entry, entry by entry, each in a statement of its own.  *)
(* Calls of several clients interleave at the statements, any statement    *)
(* may fail or take effect and lose its answer, and a call may be dropped. *)
(***************************************************************************)
EXTENDS Naturals, FiniteSets

CONSTANTS
    Entries,    \* dead letters, numbered in created_at order
    Topics,     \* original topics
    TopicOf,    \* original_topic of each entry
    Callers,    \* calls of ReprocessDlq that may run at the same time
    NoEntry,    \* not an entry
    Limit,      \* REPROCESS_BATCH_LIMIT
    MaxFaults   \* bound: failed statements, lost answers and dropped calls

ASSUME EntriesAssumption == Entries \subseteq Nat /\ IsFiniteSet(Entries) /\ NoEntry \notin Entries
ASSUME TopicsAssumption  == TopicOf \in [Entries -> Topics]
ASSUME CallersAssumption == IsFiniteSet(Callers)
ASSUME BoundsAssumption  == Limit \in Nat \ {0} /\ MaxFaults \in Nat

VARIABLES
    entry,       \* row of each dead letter: absent, stored or deleted
    copies,      \* outbox rows inserted for it
    todo,        \* entries a call has read and not finished
    deleting,    \* the entry whose row it deletes next
    reprocessed, \* reprocessed_count of the running call
    failed,      \* failure_count of the running call
    picked,      \* ghost: how many entries the running call read
    faults       \* faults so far, at most MaxFaults

call == <<todo, deleting, reprocessed, failed, picked>>
vars == <<entry, copies, call, faults>>

TypeOK ==
    /\ entry \in [Entries -> {"absent", "stored", "deleted"}]
    /\ copies \in [Entries -> Nat]
    /\ todo \in [Callers -> SUBSET Entries]
    /\ deleting \in [Callers -> Entries \cup {NoEntry}]
    /\ reprocessed \in [Callers -> Nat]
    /\ failed \in [Callers -> Nat]
    /\ picked \in [Callers -> Nat]
    /\ faults \in Nat

Init ==
    /\ entry = [e \in Entries |-> "absent"]
    /\ copies = [e \in Entries |-> 0]
    /\ todo = [c \in Callers |-> {}]
    /\ deleting = [c \in Callers |-> NoEntry]
    /\ reprocessed = [c \in Callers |-> 0]
    /\ failed = [c \in Callers |-> 0]
    /\ picked = [c \in Callers |-> 0]
    /\ faults = 0

Fault == faults < MaxFaults /\ faults' = faults + 1

-----------------------------------------------------------------------------
\* move_to_dlq inserts an entry under a new id.
MoveToDlq(e) ==
    /\ entry[e] = "absent"
    /\ entry' = [entry EXCEPT ![e] = "stored"]
    /\ UNCHANGED <<copies, call, faults>>

\* A selector: one id, all of a topic, or everything.
Selectors == {{e} : e \in Entries} \cup {{e \in Entries : TopicOf[e] = t} : t \in Topics} \cup {Entries}

\* Mutant: the query skips the first page.
NewestSecondPage(S) ==
    {e \in S : Cardinality({f \in S : f > e}) \in Limit..(2 * Limit - 1)}

\* ORDER BY created_at DESC LIMIT
Newest(S) == {e \in S : Cardinality({f \in S : f > e}) < Limit}

Idle(c) == picked[c] = 0

\* The call reads the entries it will work on.  If there are none it answers
\* zero, or an error for an id, and nothing has happened.
Select(c, sel) ==
    LET S == Newest({e \in sel : entry[e] = "stored"})
    IN  /\ Idle(c)
        /\ S # {}
        /\ todo' = [todo EXCEPT ![c] = S]
        /\ picked' = [picked EXCEPT ![c] = Cardinality(S)]
        /\ UNCHANGED <<entry, copies, deleting, reprocessed, failed, faults>>

\* The entry whose turn it is: the loop goes from the newest to the oldest.
Turn(c, e) == e \in todo[c] /\ \A f \in todo[c] : f <= e

\* The outbox row is in.
CreateOk(c, e) ==
    /\ Turn(c, e)
    /\ deleting[c] = NoEntry
    /\ copies' = [copies EXCEPT ![e] = @ + 1]
    /\ deleting' = [deleting EXCEPT ![c] = e]
    /\ UNCHANGED <<entry, todo, reprocessed, failed, picked, faults>>

\* Mutant: the entry is deleted although its copy failed.
CreateFailsDeletes(c, e) ==
    /\ Turn(c, e)
    /\ deleting[c] = NoEntry
    /\ Fault
    /\ entry' = [entry EXCEPT ![e] = "deleted"]
    /\ todo' = [todo EXCEPT ![c] = @ \ {e}]
    /\ failed' = [failed EXCEPT ![c] = @ + 1]
    /\ UNCHANGED <<copies, deleting, reprocessed, picked>>

\* The insert answers an error, whether or not the row is in: the entry stays.
CreateFails(c, e) ==
    /\ Turn(c, e)
    /\ deleting[c] = NoEntry
    /\ Fault
    /\ \/ copies' = [copies EXCEPT ![e] = @ + 1]
       \/ UNCHANGED copies
    /\ todo' = [todo EXCEPT ![c] = @ \ {e}]
    /\ failed' = [failed EXCEPT ![c] = @ + 1]
    /\ UNCHANGED <<entry, deleting, reprocessed, picked>>

\* The entry counts as reprocessed and the loop goes on.
Count(c) ==
    /\ reprocessed' = [reprocessed EXCEPT ![c] = @ + 1]
    /\ todo' = [todo EXCEPT ![c] = @ \ {deleting[c]}]
    /\ deleting' = [deleting EXCEPT ![c] = NoEntry]
    /\ UNCHANGED <<copies, failed, picked>>

\* Deletes the row, if another call has not.
DeleteOk(c) ==
    /\ deleting[c] # NoEntry
    /\ entry' = [entry EXCEPT ![deleting[c]] = "deleted"]
    /\ Count(c)
    /\ UNCHANGED faults

\* Mutant: a failed delete is not counted at all.
DeleteFailsUncounted(c) ==
    /\ deleting[c] # NoEntry
    /\ Fault
    /\ todo' = [todo EXCEPT ![c] = @ \ {deleting[c]}]
    /\ deleting' = [deleting EXCEPT ![c] = NoEntry]
    /\ UNCHANGED <<entry, copies, reprocessed, failed, picked>>

\* Mutant: a failed delete is tried again with the insert before it.
DeleteFailsRestarts(c) ==
    /\ deleting[c] # NoEntry
    /\ faults < MaxFaults
    /\ deleting' = [deleting EXCEPT ![c] = NoEntry]
    /\ UNCHANGED <<entry, copies, todo, reprocessed, failed, picked, faults>>

\* The delete answers an error, whether or not the row is gone: only logged.
DeleteFails(c) ==
    /\ deleting[c] # NoEntry
    /\ Fault
    /\ \/ entry' = [entry EXCEPT ![deleting[c]] = "deleted"]
       \/ UNCHANGED entry
    /\ Count(c)

\* The call is over: its counts become the answer.
End(c) ==
    /\ todo' = [todo EXCEPT ![c] = {}]
    /\ deleting' = [deleting EXCEPT ![c] = NoEntry]
    /\ reprocessed' = [reprocessed EXCEPT ![c] = 0]
    /\ failed' = [failed EXCEPT ![c] = 0]
    /\ picked' = [picked EXCEPT ![c] = 0]
    /\ UNCHANGED <<entry, copies>>

Answer(c) == ~Idle(c) /\ todo[c] = {} /\ End(c) /\ UNCHANGED faults

\* The client hangs up and the handler is dropped, or the process dies.
Drop(c) == ~Idle(c) /\ Fault /\ End(c)

Progress(c) ==
    \/ \E e \in Entries : CreateOk(c, e) \/ CreateFails(c, e)
    \/ DeleteOk(c) \/ DeleteFails(c)
    \/ Answer(c)

Next ==
    \/ \E e \in Entries : MoveToDlq(e)
    \/ \E c \in Callers : Progress(c) \/ Drop(c) \/ \E sel \in Selectors : Select(c, sel)

Spec == Init /\ [][Next]_vars

\* Statements return (WF on Progress), and somebody keeps asking for all
\* entries, which is an assumption about the operators of the broker.
FairSpec ==
    /\ Spec
    /\ \A c \in Callers : WF_vars(Progress(c)) /\ WF_vars(Select(c, Entries))

-----------------------------------------------------------------------------
(* What reprocessing guarantees.                                           *)

\* No dead letter is lost: its row is deleted only after a copy of it is in
\* the outbox, whichever statements fail and however calls overlap.
NoEntryLost == \A e \in Entries : entry[e] = "deleted" => copies[e] > 0

\* "Keeping the operation idempotent per DLQ entry" holds for calls that do not
\* overlap and do not fail: each copy of an entry beyond the first costs a
\* fault or an overlapping call.
CopiesBounded == \A e \in Entries : copies[e] <= Cardinality(Callers) + faults

\* The counts account for every entry the call read, whatever failed.
CountsAddUp ==
    \A c \in Callers : reprocessed[c] + failed[c] + Cardinality(todo[c]) = picked[c]

\* If all entries are asked for again and again, every entry is copied in the
\* end: the newest do not keep the older ones out of the page.
EveryEntryIsReprocessed == \A e \in Entries : entry[e] = "stored" ~> copies[e] > 0

-----------------------------------------------------------------------------
(* Why copies are bounded: an inductive invariant.                         *)

\* Calls that may still copy e for free.
MayCopy(e) ==
    {c \in Callers : /\ deleting[c] # e
                     /\ entry[e] = "deleted" => e \in todo[c]}

CopiesPaidFor ==
    \A e \in Entries : copies[e] + Cardinality(MayCopy(e)) <= Cardinality(Callers) + faults

\* A call deletes an entry it has copied and not finished.
DeletingWasCopied ==
    \A c \in Callers : deleting[c] # NoEntry => deleting[c] \in todo[c] /\ copies[deleting[c]] > 0

\* Nothing is read before it is stored, an idle call has nothing to do.
TodoWasStored ==
    \A c \in Callers :
        /\ \A e \in todo[c] : entry[e] # "absent"
        /\ Idle(c) => todo[c] = {}

IInv == TypeOK /\ NoEntryLost /\ DeletingWasCopied /\ TodoWasStored /\ CopiesPaidFor

=============================================================================
