---------------------------- MODULE OutboxPromise ----------------------------
(***************************************************************************)
(* What the outbox promises the client of the publish RPC, with no word    *)
(* of tables, claims, batches or publishers: an accepted message is owed,  *)
(* and it stops being owed only by being handed to the transport, by       *)
(* failing MaxRetries + 1 times, or because its owner cancelled it.        *)
(* Two things void the promise: handing over an id again that was          *)
(* withdrawn, perhaps too late for the attempts under way, and attempts    *)
(* that take longer than they are given.  What is reported of a disputed   *)
(* message then proves nothing.                                            *)
(***************************************************************************)
EXTENDS Naturals

CONSTANTS
    Messages,
    Id,         \* the id the client gives each message
    MaxRetries

VARIABLES
    fate,    \* what has become of each message
    taken,   \* messages the transport accepted at least once
    failures \* failed attempts at each message

vars == <<fate, taken, failures>>

Fate == {"unknown", "owed", "published", "buried", "withdrawn", "disputed"}

Init ==
    /\ fate = [m \in Messages |-> "unknown"]
    /\ taken = {}
    /\ failures = [m \in Messages |-> 0]

\* Clients hand over one message or several, no two of one id, unless the id
\* is in use; from here on they are owed.  A withdrawn id may be disputed.
Accept(S, disputed) ==
    /\ S # {}
    /\ \A m \in S : fate[m] = "unknown"
    /\ \A m \in S, k \in Messages :
          k # m /\ Id[k] = Id[m] => k \notin S /\ fate[k] \in {"unknown", "withdrawn"}
    /\ \A m \in disputed : \E k \in Messages : Id[k] = Id[m] /\ fate[k] = "withdrawn"
    /\ fate' = [m \in Messages |-> IF m \in disputed THEN "disputed"
                                   ELSE IF m \in S THEN "owed" ELSE fate[m]]
    /\ UNCHANGED <<taken, failures>>

\* An attempt takes too long.
Dispute(m) ==
    /\ fate[m] = "owed"
    /\ fate' = [fate EXCEPT ![m] = "disputed"]
    /\ UNCHANGED <<taken, failures>>

\* An attempt may come too late to matter (the message is withdrawn), but none
\* is made at a message never handed over, or already published or buried.
Succeed(m) ==
    /\ fate[m] \in {"owed", "withdrawn", "disputed"}
    /\ taken' = taken \cup {m}
    /\ UNCHANGED <<fate, failures>>

Fail(m) ==
    /\ fate[m] \in {"owed", "withdrawn", "disputed"}
    /\ failures' = [failures EXCEPT ![m] = @ + 1]
    /\ UNCHANGED <<fate, taken>>

\* Several messages may be settled at once.
Publish(S) ==
    /\ S # {}
    /\ \A m \in S : fate[m] = "owed" /\ m \in taken
    /\ fate' = [m \in Messages |-> IF m \in S THEN "published" ELSE fate[m]]
    /\ UNCHANGED <<taken, failures>>

Bury(m) ==
    /\ fate[m] = "owed"
    /\ failures[m] > MaxRetries
    /\ fate' = [fate EXCEPT ![m] = "buried"]
    /\ UNCHANGED <<taken, failures>>

\* The client withdraws the message, possibly too late to stop it.
Withdraw(m) ==
    /\ fate[m] # "unknown"
    /\ fate' = [fate EXCEPT ![m] = "withdrawn"]
    /\ UNCHANGED <<taken, failures>>

Next ==
    \/ \E S \in SUBSET Messages : Publish(S) \/ \E disputed \in SUBSET S : Accept(S, disputed)
    \/ \E m \in Messages : Dispute(m) \/ Succeed(m) \/ Fail(m) \/ Bury(m) \/ Withdraw(m)

Spec == Init /\ [][Next]_vars

=============================================================================
