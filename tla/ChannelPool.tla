----------------------------- MODULE ChannelPool -----------------------------
(***************************************************************************)
(* The connections to the callback endpoints.  Every delivery takes a      *)
(* channel from the pool of its endpoint, or connects, and puts it back    *)
(* before it calls: a channel is a handle that any number of calls share.  *)
(* Deliveries run concurrently; each lock is released between two steps,   *)
(* and a delivery that times out is dropped wherever it waits.             *)
(*                                                                         *)
(* Which channels have been idle for too long is left open: any number of  *)
(* the stored ones may have expired when a pool is looked into.            *)
(***************************************************************************)
EXTENDS Naturals

CONSTANTS
    Tasks,      \* deliveries in flight
    Endpoints,  \* normalized endpoints of subscribers
    Handles,    \* endpoint pools that may be created
    None,       \* no pool, no endpoint
    MaxChannels \* max_channels_per_endpoint

\* What the configuration provides; the theorems take it as their hypothesis.
ConstantsAreSane == None \notin Endpoints \cup Handles /\ MaxChannels \in Nat

VARIABLES
    pools,  \* endpoint -> its pool, once there is one
    stored, \* channels in each pool
    pc,     \* what each task does next
    at,     \* the endpoint it delivers to
    hand    \* the pool it has looked up

poolVars == <<pools, stored, pc, at, hand>>

Step == {"idle", "get", "get_miss", "take", "connect", "put", "put_miss", "store", "call"}

PoolTypeOK ==
    /\ pools \in [Endpoints -> Handles \cup {None}]
    /\ stored \in [Handles -> 0..MaxChannels]
    /\ pc \in [Tasks -> Step]
    /\ at \in [Tasks -> Endpoints \cup {None}]
    /\ hand \in [Tasks -> Handles \cup {None}]

PoolInit ==
    /\ pools = [e \in Endpoints |-> None]
    /\ stored = [h \in Handles |-> 0]
    /\ pc = [t \in Tasks |-> "idle"]
    /\ at = [t \in Tasks |-> None]
    /\ hand = [t \in Tasks |-> None]

Goto(t, step) == pc' = [pc EXCEPT ![t] = step]

\* notify: the delivery begins with get_channel.
Notify(t, e) ==
    /\ pc[t] = "idle"
    /\ at' = [at EXCEPT ![t] = e]
    /\ Goto(t, "get")
    /\ UNCHANGED <<pools, stored, hand>>

\* Under the read lock: the pool of the endpoint, if there is one.
Lookup(t, here, miss, found) ==
    /\ pc[t] = here
    /\ IF pools[at[t]] = None
       THEN Goto(t, miss) /\ UNCHANGED hand
       ELSE Goto(t, found) /\ hand' = [hand EXCEPT ![t] = pools[at[t]]]
    /\ UNCHANGED <<pools, stored, at>>

\* Under the write lock: the pool that somebody else has created meanwhile, or
\* a new one.
InsertPool(t, here, found) ==
    /\ pc[t] = here
    /\ \/ pools[at[t]] # None /\ UNCHANGED pools
       \/ /\ pools[at[t]] = None
          /\ \E h \in Handles : /\ \A e \in Endpoints : pools[e] # h
                                /\ pools' = [pools EXCEPT ![at[t]] = h]
    /\ hand' = [hand EXCEPT ![t] = pools'[at[t]]]
    /\ Goto(t, found)
    /\ UNCHANGED <<stored, at>>

\* Under the lock of the pool: expired channels go, one of the k others is taken.
Take(t) ==
    /\ pc[t] = "take"
    /\ \E k \in 0..stored[hand[t]] :
          IF k = 0
          THEN stored' = [stored EXCEPT ![hand[t]] = 0] /\ Goto(t, "connect")
          ELSE stored' = [stored EXCEPT ![hand[t]] = k - 1] /\ Goto(t, "put")
    /\ UNCHANGED <<pools, at, hand>>

\* create_channel: the endpoint answers, or the delivery fails.
Connect(t) ==
    /\ pc[t] = "connect"
    /\ Goto(t, "put") \/ Goto(t, "idle")
    /\ UNCHANGED <<pools, stored, at, hand>>

\* Under the lock of the pool: a full pool drops the channel.
Store(t) ==
    /\ pc[t] = "store"
    /\ IF stored[hand[t]] < MaxChannels
       THEN stored' = [stored EXCEPT ![hand[t]] = @ + 1] ELSE UNCHANGED stored
    /\ Goto(t, "call")
    /\ UNCHANGED <<pools, at, hand>>

\* The call ends, or the timeout of the dispatcher drops the whole delivery.
Finish(t) ==
    /\ pc[t] # "idle"
    /\ Goto(t, "idle")
    /\ UNCHANGED <<pools, stored, at, hand>>

PoolNext ==
    \E t \in Tasks :
        \/ \E e \in Endpoints : Notify(t, e)
        \/ Lookup(t, "get", "get_miss", "take")
        \/ InsertPool(t, "get_miss", "take")
        \/ Take(t)
        \/ Connect(t)
        \/ Lookup(t, "put", "put_miss", "store")
        \/ InsertPool(t, "put_miss", "store")
        \/ Store(t)
        \/ Finish(t)

PoolSpec == PoolInit /\ [][PoolNext]_poolVars

-----------------------------------------------------------------------------
(* What a delivery may rely on.                                            *)

\* "A concurrently created pool is never overwritten": the pool a delivery has
\* looked up, however long ago, is the pool of its endpoint, so no channel is
\* put where nobody looks for it.
NoPoolIsOrphaned ==
    \A t \in Tasks : pc[t] \in {"take", "store"} =>
        hand[t] # None /\ hand[t] = pools[at[t]]

\* Two endpoints never share a pool: a channel is only used for the endpoint it
\* is connected to.
PoolsArePrivate ==
    \A e, f \in Endpoints : pools[e] = pools[f] /\ pools[e] # None => e = f

\* A delivery that is under way has an endpoint.
TasksHaveEndpoints == \A t \in Tasks : pc[t] # "idle" => at[t] # None

PoolInv == PoolTypeOK /\ TasksHaveEndpoints /\ NoPoolIsOrphaned /\ PoolsArePrivate

\* Pools, once there, stay for good.
PoolsStay == [][\A e \in Endpoints : pools[e] # None => pools'[e] = pools[e]]_poolVars

=============================================================================
