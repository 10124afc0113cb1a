--------------------------- MODULE InboxConsumer ----------------------------
(***************************************************************************)
(* The consuming side: one partition of a Kafka topic, the task that polls *)
(* it into a bounded channel, and the consumer loop that dispatches each   *)
(* message to the subscribers and stores the messages in the inbox table   *)
(* in batches.  A message is its offset.                                   *)
(*                                                                         *)
(* The loop awaits a dispatch for every message and a database statement   *)
(* for every batch; the polling task runs on between any two steps of it,  *)
(* the group may be rebalanced, and the process may die.                   *)
(***************************************************************************)
EXTENDS Integers, Sequences

CONSTANTS
    LogSize,        \* bound: messages the producers append to the partition
    Bad,            \* offsets whose payload is not JSON
    ChannelCap,     \* capacity of the mpsc channel of stream()
    MaxInboxBatch,  \* MAX_INBOX_BATCH
    AutoCommit,     \* settings of consumer.enable_auto_commit, FALSE by default
    OffsetReset,    \* settings of consumer.auto_offset_reset: config/default.toml says
                    \* "latest", compose.yml and the default of the field "earliest"
    MaxFaults       \* bound: crashes, rebalances, poll errors, failed stores

ASSUME LogAssumption      == LogSize \in Nat
ASSUME BatchAssumption    == MaxInboxBatch \in Nat \ {0}
ASSUME ConsumerAssumption == /\ Bad \subseteq Nat
                             /\ ChannelCap \in Nat \ {0}
                             /\ AutoCommit \subseteq BOOLEAN
                             /\ OffsetReset \subseteq {"latest", "earliest"}
                             /\ MaxFaults \in Nat

VARIABLES
    autoCommit,  \* the consumer's enable.auto.commit and auto.offset.reset, read
    offsetReset, \* once at its creation
    logEnd,      \* offset after the last message of the partition
    committed,   \* the group's committed offset, or NoOffset
    position,    \* offset the consumer polls next
    channel,     \* what stream() handed over and the loop has not received
    pending,     \* the loop's buffer of messages not stored yet
    stage,       \* what the loop does next; "down" when there is no process
    inbox,       \* rows of inbox_messages, in the order of their insertion
    dispatched,  \* ghost: how often each message was dispatched
    first,       \* ghost: position at the first start, NoOffset before
    faults       \* faults so far

kafka == <<autoCommit, offsetReset, logEnd, committed>>
loop  == <<pending, stage, inbox, dispatched>>
vars  == <<kafka, position, channel, loop, first, faults>>

Offsets     == 0..(LogSize - 1)
NoOffset    == -1
StreamError == -2
Stage       == {"down", "recv", "dispatch", "store"}

TypeOK ==
    /\ autoCommit \in AutoCommit
    /\ offsetReset \in OffsetReset
    /\ logEnd \in 0..LogSize
    /\ committed \in 0..LogSize \cup {NoOffset}
    /\ position \in 0..LogSize
    /\ channel \in Seq(Offsets \cup {StreamError})
    /\ pending \in Seq(Offsets)
    /\ stage \in Stage
    /\ inbox \in Seq(Offsets)
    /\ dispatched \in [Offsets -> Nat]
    /\ first \in 0..LogSize \cup {NoOffset}
    /\ faults \in Nat

Init ==
    /\ autoCommit \in AutoCommit
    /\ offsetReset \in OffsetReset
    /\ logEnd \in 0..LogSize
    /\ committed = NoOffset
    /\ position = 0
    /\ channel = <<>>
    /\ pending = <<>>
    /\ stage = "down"
    /\ inbox = <<>>
    /\ dispatched = [o \in Offsets |-> 0]
    /\ first = NoOffset
    /\ faults = 0

Up == stage # "down"

Fault == faults < MaxFaults /\ faults' = faults + 1

-----------------------------------------------------------------------------
(* Kafka and its client library.                                           *)

\* Mutant: the committed offset is used without looking whether there is one.
StartAtCommitted == committed

\* Where a consumer that is assigned the partition starts.
StartPosition ==
    IF committed # NoOffset THEN committed
    ELSE IF offsetReset = "latest" THEN logEnd ELSE 0

Produce ==
    /\ logEnd < LogSize
    /\ logEnd' = logEnd + 1
    /\ UNCHANGED <<autoCommit, offsetReset, committed, position, channel, loop, first, faults>>

\* The client commits behind the application's back, if it is told to: what
\* was polled, not what was stored.
AutoCommits ==
    /\ autoCommit
    /\ Up
    /\ committed # position
    /\ committed' = position
    /\ UNCHANGED <<autoCommit, offsetReset, logEnd, position, channel, loop, first, faults>>

\* The group is rebalanced and the partition comes back to this consumer.
Rebalance ==
    /\ Up
    /\ Fault
    /\ position' = StartPosition
    /\ UNCHANGED <<kafka, channel, loop, first>>

-----------------------------------------------------------------------------
(* The polling task of stream().                                           *)

\* A full channel suspends tx.send().
Poll ==
    /\ Up
    /\ position < logEnd
    /\ Len(channel) < ChannelCap
    /\ channel' = Append(channel, position)
    /\ position' = position + 1
    /\ UNCHANGED <<kafka, loop, first, faults>>

PollError ==
    /\ Up
    /\ Len(channel) < ChannelCap
    /\ Fault
    /\ channel' = Append(channel, StreamError)
    /\ UNCHANGED <<kafka, position, loop, first>>

-----------------------------------------------------------------------------
(* The consumer loop.                                                      *)

\* Mutant: the batch is flushed only after it has outgrown its limit.
FlushDueLate(buffer, chan) ==
    buffer # <<>> /\ (Len(buffer) > MaxInboxBatch \/ chan = <<>>)

\* Mutant: the batch waits until it is full.
FlushDueWhenFull(buffer, chan) == buffer # <<>> /\ Len(buffer) >= MaxInboxBatch

\* The check at the end of an iteration; storing nothing is no statement.
FlushDue(buffer, chan) ==
    buffer # <<>> /\ (Len(buffer) >= MaxInboxBatch \/ chan = <<>>)

AfterCheck(buffer, chan) == IF FlushDue(buffer, chan) THEN "store" ELSE "recv"

\* Mutant: the iteration ends without waiting for the dispatch.
ReceiveWithoutDispatch ==
    /\ stage = "recv"
    /\ channel # <<>>
    /\ Head(channel) \in Offsets \ Bad
    /\ channel' = Tail(channel)
    /\ pending' = Append(pending, Head(channel))
    /\ stage' = AfterCheck(pending', channel')
    /\ UNCHANGED <<kafka, position, inbox, dispatched, first, faults>>

\* rx.recv() returns a message whose payload parses.
ReceiveMessage ==
    /\ stage = "recv"
    /\ channel # <<>>
    /\ Head(channel) \in Offsets \ Bad
    /\ channel' = Tail(channel)
    /\ pending' = Append(pending, Head(channel))
    /\ stage' = "dispatch"
    /\ UNCHANGED <<kafka, position, inbox, dispatched, first, faults>>

\* A payload that does not parse: `continue`, past the check.
ReceiveBad ==
    /\ stage = "recv"
    /\ channel # <<>>
    /\ Head(channel) \in Bad
    /\ channel' = Tail(channel)
    /\ UNCHANGED <<kafka, position, loop, first, faults>>

\* An error of the stream is logged; the check follows.
ReceiveError ==
    /\ stage = "recv"
    /\ channel # <<>>
    /\ Head(channel) = StreamError
    /\ channel' = Tail(channel)
    /\ stage' = AfterCheck(pending, channel')
    /\ UNCHANGED <<kafka, position, pending, inbox, dispatched, first, faults>>

\* The message just received goes to the subscribers and to the event
\* streams, whatever becomes of the deliveries; then the check.
Dispatch ==
    /\ stage = "dispatch"
    /\ dispatched' = [dispatched EXCEPT ![pending[Len(pending)]] = @ + 1]
    /\ stage' = AfterCheck(pending, channel)
    /\ UNCHANGED <<kafka, position, channel, pending, inbox, first, faults>>

\* Mutant: the buffer is not taken out before it is stored.
StoreKeepsPending ==
    /\ stage = "store"
    /\ inbox' = inbox \o pending
    /\ stage' = "recv"
    /\ UNCHANGED <<kafka, position, channel, pending, dispatched, first, faults>>

\* Mutant: only the newest message of the buffer is stored.
StoreOnlyNewest ==
    /\ stage = "store"
    /\ inbox' = Append(inbox, pending[Len(pending)])
    /\ pending' = <<>>
    /\ stage' = "recv"
    /\ UNCHANGED <<kafka, position, channel, dispatched, first, faults>>

\* store_messages inserts the whole buffer with one statement.
Store ==
    /\ stage = "store"
    /\ inbox' = inbox \o pending
    /\ pending' = <<>>
    /\ stage' = "recv"
    /\ UNCHANGED <<kafka, position, channel, dispatched, first, faults>>

\* The statement fails: the batch is logged and dropped.
StoreFails ==
    /\ stage = "store"
    /\ Fault
    /\ pending' = <<>>
    /\ stage' = "recv"
    /\ UNCHANGED <<kafka, position, channel, inbox, dispatched, first>>

-----------------------------------------------------------------------------
(* The process.                                                            *)

\* The consumer subscribes and the loop is spawned.
Start ==
    /\ ~Up
    /\ position' = StartPosition
    /\ stage' = "recv"
    /\ first' = IF first = NoOffset THEN StartPosition ELSE first
    /\ UNCHANGED <<kafka, channel, pending, inbox, dispatched, faults>>

\* The process dies, or run() returns: nobody waits for the consumer tasks.
Crash ==
    /\ Up
    /\ Fault
    /\ stage' = "down"
    /\ channel' = <<>>
    /\ pending' = <<>>
    /\ UNCHANGED <<kafka, position, inbox, dispatched, first>>

Iteration == ReceiveMessage \/ ReceiveBad \/ ReceiveError \/ Dispatch \/ Store

Next ==
    \/ Produce \/ AutoCommits \/ Rebalance
    \/ Poll \/ PollError
    \/ Iteration \/ StoreFails
    \/ Start \/ Crash

Spec == Init /\ [][Next]_vars

\* Awaited calls return and the runtime polls its tasks; a process that died
\* is started again.
FairSpec == Spec /\ WF_vars(Poll) /\ WF_vars(Iteration) /\ WF_vars(Start)

-----------------------------------------------------------------------------
(* What the loop guarantees.                                               *)

\* The elements of a sequence.
Elements(s) == {s[i] : i \in 1..Len(s)}

\* As long as nothing fails, every good message polled so far is, exactly once
\* and in the order of the partition, in the inbox, in the buffer or in the
\* channel, and payloads that do not parse get no further than the channel:
\* bursts, full channels and partial batches lose, repeat and reorder nothing.
PolledIsAccountedFor ==
    Up /\ faults = 0 =>
        LET kept == inbox \o pending \o channel
        IN  /\ \A i, j \in 1..Len(kept) : i < j => kept[i] < kept[j]
            /\ Elements(kept) \ Bad = (first..(position - 1)) \ Bad
            /\ Elements(inbox \o pending) \cap Bad = {}

\* "Bounded so a burst of messages cannot grow the pending buffer without
\* limit": whatever is polled, misparsed or fails, a batch never exceeds the
\* limit.
BatchIsBounded == Len(pending) <= MaxInboxBatch

\* Without commits and with a reset to the latest, the settings of default.toml,
\* the consumer never goes back to what it has polled.
NeverGoesBack == ~autoCommit /\ offsetReset = "latest"

\* With these settings no message gets two rows, although the table has no key
\* that would forbid it and whatever crashes and rebalances happen.
OneRowPerMessage ==
    NeverGoesBack => \A i, j \in 1..Len(inbox) : inbox[i] = inbox[j] => i = j

\* Rows follow deliveries: what is in the inbox went out to the subscribers.  This
\* is the order of the code, which dispatches (app.rs:424) and broadcasts before it
\* inserts (app.rs:463); data-model.md:91 and architecture.md:127 have the insert
\* first.
StoredWasDispatched == \A i \in 1..Len(inbox) : dispatched[inbox[i]] > 0

\* Each row stands for a message that went out before and, if the consumer never goes
\* back, for a message of its own.
RowsAreTrue == OneRowPerMessage /\ StoredWasDispatched

\* "Flush the batch when it is full, or when the channel has nothing more to
\* hand over right now": the loop never goes to sleep on an empty channel with
\* messages in its buffer.
NothingWaitsInSilence == stage = "recv" /\ channel = <<>> => pending = <<>>

\* What the code does of it: only a payload that does not parse, received when
\* the channel holds nothing else, puts the loop to sleep on a filled buffer.
SilenceOnlyAfterBad ==
    [][NothingWaitsInSilence /\ ~NothingWaitsInSilence'
           => channel # <<>> /\ Head(channel) \in Bad /\ channel' = Tail(channel)]_vars

\* Every message appended after the first start gets its row in the end, unless
\* something fails or the partition ends with a payload that does not parse.
EverythingIsStored ==
    \A o \in Offsets \ Bad :
        (first # NoOffset /\ first <= o /\ o < logEnd)
            ~> \/ faults > 0
               \/ logEnd - 1 \in Bad
               \/ \E i \in 1..Len(inbox) : inbox[i] = o

-----------------------------------------------------------------------------
(* Inductive strengthening.                                                *)

\* A full buffer is always about to be stored, and a buffer is never empty
\* while a message is dispatched or a batch stored.
BufferIsFlushed ==
    /\ BatchIsBounded
    /\ stage = "recv" => Len(pending) < MaxInboxBatch
    /\ stage \in {"dispatch", "store"} => pending # <<>>
    /\ stage = "down" => pending = <<>> /\ channel = <<>>

\* The types and the flush together are inductive.
IInv == TypeOK /\ BufferIsFlushed

\* Every message in the buffer was dispatched, the one being dispatched aside.
RowsFollowDispatch ==
    /\ StoredWasDispatched
    /\ \A i \in 1..Len(pending) :
          dispatched[pending[i]] > 0 \/ (i = Len(pending) /\ stage = "dispatch")

\* The messages of s are in the order of the partition; those of s come before
\* those of t; the ones of s are older than n.
InOrder(s) ==
    \A i, j \in 1..Len(s) : i < j /\ s[i] # StreamError /\ s[j] # StreamError => s[i] < s[j]
Before(s, t) ==
    \A i \in 1..Len(s), j \in 1..Len(t) :
        s[i] # StreamError /\ t[j] # StreamError => s[i] < t[j]
Older(s, n) == \A i \in 1..Len(s) : s[i] < n

\* Everything polled is older than the position, and in order from the rows over
\* the buffer to the channel.
PolledInOrder ==
    /\ InOrder(inbox) /\ InOrder(pending) /\ InOrder(channel)
    /\ Before(inbox, pending) /\ Before(inbox, channel) /\ Before(pending, channel)
    /\ Older(inbox, position) /\ Older(pending, position) /\ Older(channel, position)

\* Without commits and with a reset to the latest, the consumer only ever moves
\* forward, so everything it has polled is in order.
OnlyForward ==
    NeverGoesBack =>
        committed = NoOffset /\ position <= logEnd /\ PolledInOrder

\* Until something fails there is one process at most, and what it polled since
\* its start is where PolledIsAccountedFor looks for it.
NothingSkipped ==
    faults = 0 =>
        IF Up
        THEN /\ first \in 0..position
             /\ PolledInOrder
             /\ StreamError \notin Elements(channel)
             /\ (Elements(inbox) \cup Elements(pending) \cup Elements(channel)) \ Bad
                   = (first..(position - 1)) \ Bad
             /\ (Elements(inbox) \cup Elements(pending)) \cap Bad = {}
        ELSE first = NoOffset /\ inbox = <<>>

=============================================================================
