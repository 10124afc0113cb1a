------------------------ MODULE InboxConsumerProofs -------------------------
(* What the consumer loop guarantees for every log, channel and batch size. *)
EXTENDS InboxRefinement, TLAPS

USE LogAssumption, BatchAssumption, ConsumerAssumption

\* The position a consumer starts from is an offset of the log.
LEMMA StartIsInLog == ASSUME TypeOK PROVE StartPosition \in 0..LogSize
BY DEF TypeOK, StartPosition, NoOffset

\* Counting one more of anything keeps a vector of counts a vector of counts.
LEMMA CountUp ==
    ASSUME NEW S, NEW f \in [S -> Nat], NEW x
    PROVE  [f EXCEPT ![x] = f[x] + 1] \in [S -> Nat]
<1> DEFINE g == [f EXCEPT ![x] = f[x] + 1]
<1>1. g = [y \in S |-> IF y = x THEN f[x] + 1 ELSE f[y]]
  OBVIOUS
<1>2. \A y \in S : (IF y = x THEN f[x] + 1 ELSE f[y]) \in Nat
  OBVIOUS
<1> QED BY <1>1, <1>2

\* A buffer that was appended to is not empty.
LEMMA AppendedIsNotEmpty ==
    ASSUME NEW S, NEW s \in Seq(S), NEW x \in S PROVE Append(s, x) # <<>>
<1>1. Len(Append(s, x)) = Len(s) + 1
  OBVIOUS
<1> QED BY <1>1

\* The loop keeps its types: offsets stay in the log, buffers hold messages.
THEOREM TypeCorrect == Spec => []TypeOK
<1>1. Init => TypeOK
  BY DEF Init, TypeOK, Offsets, NoOffset, Stage
<1>2. TypeOK /\ [Next]_vars => TypeOK'
  <2> SUFFICES ASSUME TypeOK, [Next]_vars PROVE TypeOK'
    OBVIOUS
  <2> USE DEF TypeOK, Offsets, NoOffset, StreamError, Stage
  <2>1. CASE Produce
    BY <2>1 DEF Produce, loop
  <2>2. CASE AutoCommits
    BY <2>2 DEF AutoCommits, loop
  <2>3. CASE Rebalance
    BY <2>3, StartIsInLog DEF Rebalance, Fault, kafka, loop
  <2>4. CASE Poll
    BY <2>4 DEF Poll, kafka, loop
  <2>5. CASE PollError
    BY <2>5 DEF PollError, Fault, kafka, loop
  <2>6. CASE ReceiveMessage
    BY <2>6 DEF ReceiveMessage, kafka
  <2>7. CASE ReceiveBad
    BY <2>7 DEF ReceiveBad, kafka, loop
  <2>8. CASE ReceiveError
    BY <2>8 DEF ReceiveError, AfterCheck, kafka
  <2>9. CASE Dispatch
    <3>1. dispatched' \in [Offsets -> Nat]
      BY <2>9, CountUp DEF Dispatch
    <3> QED BY <2>9, <3>1 DEF Dispatch, AfterCheck, kafka
  <2>10. CASE Store
    BY <2>10 DEF Store, kafka
  <2>11. CASE StoreFails
    BY <2>11 DEF StoreFails, Fault, kafka
  <2>12. CASE Start
    BY <2>12, StartIsInLog DEF Start, kafka
  <2>13. CASE Crash
    BY <2>13 DEF Crash, Fault, kafka
  <2>14. CASE UNCHANGED vars
    BY <2>14 DEF vars, kafka, loop
  <2> QED BY <2>1, <2>2, <2>3, <2>4, <2>5, <2>6, <2>7, <2>8, <2>9, <2>10, <2>11,
             <2>12, <2>13, <2>14 DEF Next, Iteration
<1> QED BY <1>1, <1>2, PTL DEF Spec

\* The buffer is handed over before it outgrows a batch: it never exceeds
\* MAX_INBOX_BATCH, and it is below it whenever the loop waits for a message.
THEOREM BufferAlwaysFlushed == Spec => []BufferIsFlushed
<1> USE DEF BufferIsFlushed, BatchIsBounded, TypeOK
<1>1. Init => BufferIsFlushed
  BY DEF Init
<1>2. TypeOK /\ BufferIsFlushed /\ [Next]_vars => BufferIsFlushed'
  <2> SUFFICES ASSUME TypeOK, BufferIsFlushed, [Next]_vars PROVE BufferIsFlushed'
    OBVIOUS
  <2>1. CASE Produce \/ AutoCommits \/ UNCHANGED vars
    BY <2>1 DEF Produce, AutoCommits, vars, loop
  <2>2. CASE Rebalance \/ Poll \/ PollError
    BY <2>2 DEF Rebalance, Poll, PollError, Up, loop
  <2>3. CASE ReceiveMessage
    <3>1. pending \in Seq(Offsets) /\ Head(channel) \in Offsets /\ Len(pending) < MaxInboxBatch
      BY <2>3 DEF ReceiveMessage
    <3>2. Len(pending') = Len(pending) + 1 /\ stage' = "dispatch"
      BY <2>3, <3>1 DEF ReceiveMessage
    <3>3. pending' # <<>>
      BY <2>3, <3>1, AppendedIsNotEmpty DEF ReceiveMessage
    <3> QED BY <3>1, <3>2, <3>3
  <2>4. CASE ReceiveBad
    BY <2>4 DEF ReceiveBad, loop
  <2>5. CASE ReceiveError
    BY <2>5 DEF ReceiveError, AfterCheck, FlushDue
  <2>6. CASE Dispatch
    BY <2>6 DEF Dispatch, AfterCheck, FlushDue
  <2>7. CASE Store \/ StoreFails
    BY <2>7 DEF Store, StoreFails
  <2>8. CASE Start
    BY <2>8 DEF Start, Up
  <2>9. CASE Crash
    BY <2>9 DEF Crash
  <2> QED BY <2>1, <2>2, <2>3, <2>4, <2>5, <2>6, <2>7, <2>8, <2>9 DEF Next, Iteration
<1> QED BY <1>1, <1>2, TypeCorrect, PTL DEF Spec

\* The invariant the run checks: types and flush.
COROLLARY ConsumerInvariant == Spec => []IInv
BY TypeCorrect, BufferAlwaysFlushed, PTL DEF IInv

\* The batch insert never exceeds its limit, so it stays inside the bind
\* parameter limit of the database.
COROLLARY BatchStaysBounded == Spec => []BatchIsBounded
<1>1. BufferIsFlushed => BatchIsBounded
  BY DEF BufferIsFlushed
<1> QED BY <1>1, BufferAlwaysFlushed, PTL

\* Whatever fails and however the group is rebalanced, only a payload that does
\* not parse leaves the loop asleep on a filled buffer.
THEOREM SilenceHasOneCause == Spec => SilenceOnlyAfterBad
<1> USE DEF NothingWaitsInSilence, TypeOK
<1>1. TypeOK /\ BufferIsFlushed /\ [Next]_vars
      => [NothingWaitsInSilence /\ ~NothingWaitsInSilence'
             => channel # <<>> /\ Head(channel) \in Bad /\ channel' = Tail(channel)]_vars
  <2> SUFFICES ASSUME TypeOK, BufferIsFlushed, NothingWaitsInSilence, [Next]_vars,
                      ~NothingWaitsInSilence'
               PROVE  channel # <<>> /\ Head(channel) \in Bad /\ channel' = Tail(channel)
    OBVIOUS
  <2>1. CASE Produce \/ AutoCommits \/ Rebalance \/ UNCHANGED vars
    BY <2>1 DEF Produce, AutoCommits, Rebalance, vars, loop
  <2>2. CASE Poll \/ PollError
    <3>1. channel' # <<>>
      <4>1. position < logEnd /\ logEnd \in 0..LogSize => position \in Offsets
        BY DEF Offsets
      <4>2. \E x \in Offsets \cup {StreamError} : channel' = Append(channel, x)
        BY <2>2, <4>1 DEF Poll, PollError
      <4> QED BY <4>2, AppendedIsNotEmpty
    <3> QED BY <3>1
  <2>3. CASE ReceiveMessage
    BY <2>3 DEF ReceiveMessage
  <2>4. CASE ReceiveBad
    BY <2>4 DEF ReceiveBad
  <2>5. CASE ReceiveError
    BY <2>5 DEF ReceiveError, AfterCheck, FlushDue
  <2>6. CASE Dispatch
    BY <2>6 DEF Dispatch, AfterCheck, FlushDue
  <2>7. CASE Store \/ StoreFails
    BY <2>7 DEF Store, StoreFails
  <2>8. CASE Start
    BY <2>8 DEF Start, Up, BufferIsFlushed, Stage
  <2>9. CASE Crash
    BY <2>9 DEF Crash
  <2> QED BY <2>1, <2>2, <2>3, <2>4, <2>5, <2>6, <2>7, <2>8, <2>9 DEF Next, Iteration
<1> QED BY <1>1, TypeCorrect, BufferAlwaysFlushed, PTL DEF Spec, SilenceOnlyAfterBad

\* So if every payload parses, the loop never waits on an empty channel while
\* it has messages to store.
THEOREM NoSilence == ASSUME Bad = {} PROVE Spec => []NothingWaitsInSilence
<1>1. Init => NothingWaitsInSilence
  BY DEF Init, NothingWaitsInSilence
<1>2. NothingWaitsInSilence
      /\ [NothingWaitsInSilence /\ ~NothingWaitsInSilence'
             => channel # <<>> /\ Head(channel) \in Bad /\ channel' = Tail(channel)]_vars
      => NothingWaitsInSilence'
  BY DEF NothingWaitsInSilence, vars, loop
<1> QED BY <1>1, <1>2, SilenceHasOneCause, PTL DEF Spec, SilenceOnlyAfterBad

-----------------------------------------------------------------------------
(* One row per message, for a consumer that never goes back.               *)

\* Taking the head of a sequence keeps what is said of all its elements.
LEMMA TailParts ==
    ASSUME NEW S, NEW s \in Seq(S), s # <<>>
    PROVE  /\ Head(s) \in S /\ Tail(s) \in Seq(S)
           /\ Len(s) \in Nat /\ Len(s) >= 1 /\ Head(s) = s[1]
           /\ Len(Tail(s)) = Len(s) - 1
           /\ \A i \in 1..(Len(s) - 1) : Tail(s)[i] = s[i + 1]
OBVIOUS

\* What Append and \o return, element by element.
LEMMA AppendParts ==
    ASSUME NEW S, NEW s \in Seq(S), NEW x \in S
    PROVE  /\ Append(s, x) \in Seq(S)
           /\ Len(Append(s, x)) = Len(s) + 1
           /\ Append(s, x)[Len(s) + 1] = x
           /\ \A i \in 1..Len(s) : Append(s, x)[i] = s[i]
OBVIOUS

\* The elements of a concatenation, by their places.
LEMMA ConcatParts ==
    ASSUME NEW S, NEW s \in Seq(S), NEW t \in Seq(S)
    PROVE  /\ Len(s \o t) = Len(s) + Len(t)
           /\ \A i \in 1..Len(s) : (s \o t)[i] = s[i]
           /\ \A i \in (Len(s) + 1)..(Len(s) + Len(t)) : (s \o t)[i] = t[i - Len(s)]
OBVIOUS

\* Items are the things a channel may hold, messages among them.
LEMMA AppendKeepsOrder ==
    ASSUME NEW s \in Seq(Int), NEW x \in Int, InOrder(s), x # StreamError => Older(s, x)
    PROVE  InOrder(Append(s, x))
<1>1. \A i \in 1..Len(Append(s, x)) : i \in 1..Len(s) \/ i = Len(s) + 1
  BY AppendParts
<1> QED BY <1>1, AppendParts DEF InOrder, Older

\* An item newer than all of r may be appended after r.
LEMMA AppendStaysBefore ==
    ASSUME NEW r \in Seq(Int), NEW s \in Seq(Int), NEW x \in Int,
           Before(r, s), x # StreamError => Older(r, x)
    PROVE  Before(r, Append(s, x))
<1>1. \A i \in 1..Len(Append(s, x)) : i \in 1..Len(s) \/ i = Len(s) + 1
  BY AppendParts
<1> QED BY <1>1, AppendParts DEF Before, Older

\* So may one that is older than all of t, before t.
LEMMA AppendComesBefore ==
    ASSUME NEW s \in Seq(Int), NEW x \in Int, NEW t \in Seq(Int), Before(s, t),
           \A j \in 1..Len(t) : x # StreamError /\ t[j] # StreamError => x < t[j]
    PROVE  Before(Append(s, x), t)
<1>1. \A i \in 1..Len(Append(s, x)) : i \in 1..Len(s) \/ i = Len(s) + 1
  BY AppendParts
<1> QED BY <1>1, AppendParts DEF Before

\* An item older than n keeps a sequence older than n.
LEMMA AppendStaysOlder ==
    ASSUME NEW s \in Seq(Int), NEW x \in Int, NEW n \in Int, Older(s, n), x < n
    PROVE  Older(Append(s, x), n)
<1>1. \A i \in 1..Len(Append(s, x)) : i \in 1..Len(s) \/ i = Len(s) + 1
  BY AppendParts
<1> QED BY <1>1, AppendParts DEF Older

\* Taking the head off disturbs no order.
LEMMA TailKeeps ==
    ASSUME NEW s \in Seq(Int), s # <<>>
    PROVE  /\ InOrder(s) => InOrder(Tail(s))
           /\ \A n \in Int : Older(s, n) => Older(Tail(s), n)
           /\ \A r \in Seq(Int) : Before(r, s) => Before(r, Tail(s))
<1>1. /\ Len(s) \in Nat /\ Len(s) >= 1 /\ Len(Tail(s)) = Len(s) - 1
      /\ \A i \in 1..(Len(s) - 1) : i + 1 \in 1..Len(s) /\ Tail(s)[i] = s[i + 1]
  BY TailParts
<1>2. InOrder(s) => InOrder(Tail(s))
  BY <1>1 DEF InOrder
<1>3. ASSUME NEW n \in Int PROVE Older(s, n) => Older(Tail(s), n)
  BY <1>1 DEF Older
<1>4. ASSUME NEW r \in Seq(Int) PROVE Before(r, s) => Before(r, Tail(s))
  BY <1>1 DEF Before
<1> QED BY <1>2, <1>3, <1>4

\* Two sequences in order, the first before the second, are one in order.
LEMMA ConcatKeeps ==
    ASSUME NEW s \in Seq(Int), NEW t \in Seq(Int), InOrder(s), InOrder(t), Before(s, t)
    PROVE  /\ InOrder(s \o t)
           /\ \A n \in Int : Older(s, n) /\ Older(t, n) => Older(s \o t, n)
           /\ \A r \in Seq(Int) : Before(s, r) /\ Before(t, r) => Before(s \o t, r)
<1>1. \A i \in 1..Len(s \o t) :
         \/ i \in 1..Len(s) /\ (s \o t)[i] = s[i]
         \/ i - Len(s) \in 1..Len(t) /\ i > Len(s) /\ (s \o t)[i] = t[i - Len(s)]
  BY ConcatParts
<1>2. InOrder(s \o t)
  <2> SUFFICES ASSUME NEW i \in 1..Len(s \o t), NEW j \in 1..Len(s \o t), i < j,
                      (s \o t)[i] # StreamError, (s \o t)[j] # StreamError
               PROVE  (s \o t)[i] < (s \o t)[j]
    BY DEF InOrder
  <2>0. Len(s) \in Nat /\ Len(t) \in Nat /\ i \in Int /\ j \in Int
    OBVIOUS
  <2>1. CASE j \in 1..Len(s) /\ (s \o t)[j] = s[j]
    <3>1. i \in 1..Len(s)
      BY <2>0, <2>1
    <3>2. (s \o t)[i] = s[i]
      BY <3>1, ConcatParts
    <3> QED BY <2>1, <3>1, <3>2 DEF InOrder
  <2>2. CASE j - Len(s) \in 1..Len(t) /\ j > Len(s) /\ (s \o t)[j] = t[j - Len(s)]
    <3>1. CASE i \in 1..Len(s) /\ (s \o t)[i] = s[i]
      BY <2>2, <3>1 DEF Before
    <3>2. CASE i - Len(s) \in 1..Len(t) /\ (s \o t)[i] = t[i - Len(s)]
      <4>1. i - Len(s) < j - Len(s)
        BY <2>0
      <4> QED BY <2>2, <3>2, <4>1 DEF InOrder
    <3> QED BY <1>1, <3>1, <3>2
  <2> QED BY <1>1, <2>1, <2>2
<1>3. ASSUME NEW n \in Int PROVE Older(s, n) /\ Older(t, n) => Older(s \o t, n)
  BY <1>1 DEF Older
<1>4. ASSUME NEW r \in Seq(Int) PROVE Before(s, r) /\ Before(t, r) => Before(s \o t, r)
  BY <1>1 DEF Before
<1> QED BY <1>2, <1>3, <1>4

\* The insert never overtakes the dispatch: what waits to be stored has gone out
\* to the subscribers, but for the message that is going out.
THEOREM DispatchComesFirst == Spec => []RowsFollowDispatch
<1> USE DEF TypeOK, RowsFollowDispatch, StoredWasDispatched
<1>1. Init => RowsFollowDispatch
  BY DEF Init
<1>2. TypeOK /\ BufferIsFlushed /\ RowsFollowDispatch /\ [Next]_vars => RowsFollowDispatch'
  <2> SUFFICES ASSUME TypeOK, BufferIsFlushed, RowsFollowDispatch, [Next]_vars
               PROVE  RowsFollowDispatch'
    OBVIOUS
  <2>1. CASE Produce \/ AutoCommits \/ Rebalance \/ Poll \/ PollError \/ ReceiveBad \/ UNCHANGED vars
    BY <2>1 DEF Produce, AutoCommits, Rebalance, Poll, PollError, ReceiveBad, vars, loop
  <2>2. CASE ReceiveMessage
    <3>1. pending \in Seq(Offsets) /\ Head(channel) \in Offsets
      BY <2>2 DEF ReceiveMessage
    <3>2. /\ Len(pending') = Len(pending) + 1
          /\ \A i \in 1..Len(pending) : pending'[i] = pending[i]
      BY <2>2, <3>1, AppendParts DEF ReceiveMessage
    <3>3. \A i \in 1..Len(pending') : i \in 1..Len(pending) \/ i = Len(pending')
      BY <3>1, <3>2
    <3>4. \A i \in 1..Len(pending) : dispatched[pending[i]] > 0
      BY <2>2 DEF ReceiveMessage
    <3> QED BY <2>2, <3>2, <3>3, <3>4 DEF ReceiveMessage
  <2>3. CASE ReceiveError
    BY <2>3 DEF ReceiveError
  <2>4. CASE Dispatch
    <3> DEFINE last == pending[Len(pending)]
    <3>1. pending # <<>> /\ Len(pending) \in 1..Len(pending) /\ last \in Offsets
      BY <2>4 DEF Dispatch, BufferIsFlushed
    <3>2. /\ dispatched' = [dispatched EXCEPT ![last] = dispatched[last] + 1]
          /\ UNCHANGED <<pending, inbox>>
      BY <2>4 DEF Dispatch
    <3>3. \A o \in Offsets : dispatched[o] \in Nat /\ dispatched'[o] >= dispatched[o]
      BY <3>1, <3>2
    <3>4. dispatched'[last] > 0
      BY <3>1, <3>2
    <3>5. \A i \in 1..Len(inbox) : inbox[i] \in Offsets
      OBVIOUS
    <3>6. \A i \in 1..Len(pending) : pending[i] \in Offsets
      OBVIOUS
    <3>7. StoredWasDispatched'
      BY <3>2, <3>3, <3>5
    <3>8. ASSUME NEW i \in 1..Len(pending) PROVE dispatched'[pending[i]] > 0
      <4>1. dispatched[pending[i]] > 0 \/ i = Len(pending)
        OBVIOUS
      <4>2. CASE i = Len(pending)
        BY <3>4, <4>2
      <4>3. CASE dispatched[pending[i]] > 0
        <5>1. pending[i] \in Offsets
          BY <3>6
        <5>2. dispatched[pending[i]] \in Nat /\ dispatched'[pending[i]] \in Nat
              /\ dispatched'[pending[i]] >= dispatched[pending[i]]
          BY <3>2, <3>3, <5>1, CountUp
        <5> QED BY <4>3, <5>2
      <4> QED BY <4>1, <4>2, <4>3
    <3> QED BY <3>2, <3>7, <3>8
  <2>5. CASE Store
    <3>1. inbox' = inbox \o pending /\ pending' = <<>> /\ UNCHANGED dispatched
      BY <2>5 DEF Store
    <3>2. \A i \in 1..Len(pending) : dispatched[pending[i]] > 0
      BY <2>5 DEF Store
    <3>3. \A i \in 1..Len(inbox') :
             \/ i \in 1..Len(inbox) /\ inbox'[i] = inbox[i]
             \/ i - Len(inbox) \in 1..Len(pending) /\ inbox'[i] = pending[i - Len(inbox)]
      BY <3>1, ConcatParts
    <3> QED BY <3>1, <3>2, <3>3
  <2>6. CASE StoreFails \/ Crash
    <3>1. pending' = <<>> /\ UNCHANGED <<inbox, dispatched>>
      BY <2>6 DEF StoreFails, Crash
    <3> QED BY <3>1
  <2>7. CASE Start
    <3>1. pending = <<>> /\ UNCHANGED <<pending, inbox, dispatched>>
      BY <2>7 DEF Start, Up, BufferIsFlushed, Stage
    <3> QED BY <3>1
  <2> QED BY <2>1, <2>2, <2>3, <2>4, <2>5, <2>6, <2>7 DEF Next, Iteration
<1> QED BY <1>1, <1>2, TypeCorrect, BufferAlwaysFlushed, PTL DEF Spec

\* A row is only written for a message that went out to the subscribers.
COROLLARY RowsFollowDeliveries == Spec => []StoredWasDispatched
<1>1. RowsFollowDispatch => StoredWasDispatched
  BY DEF RowsFollowDispatch
<1> QED BY <1>1, DispatchComesFirst, PTL

\* Whatever happens, as long as the position does not go back: what was polled is
\* in order, from the rows over the buffer to the channel.
LEMMA OrderStays ==
    ASSUME TypeOK, PolledInOrder, [Next]_vars, position' >= position
    PROVE  PolledInOrder'
<1>0. SUFFICES /\ InOrder(inbox') /\ InOrder(pending') /\ InOrder(channel')
               /\ Before(inbox', pending') /\ Before(inbox', channel')
               /\ Before(pending', channel')
               /\ Older(inbox', position') /\ Older(pending', position')
               /\ Older(channel', position')
  BY DEF PolledInOrder, InOrder, Before, Older
<1>a. /\ InOrder(inbox) /\ InOrder(pending) /\ InOrder(channel)
      /\ Before(inbox, pending) /\ Before(inbox, channel) /\ Before(pending, channel)
      /\ Older(inbox, position) /\ Older(pending, position) /\ Older(channel, position)
  BY DEF PolledInOrder
<1>b. /\ inbox \in Seq(Int) /\ pending \in Seq(Int) /\ channel \in Seq(Int)
      /\ position \in Int
  BY DEF TypeOK, Offsets, StreamError
<1>c. /\ InOrder(<<>>) /\ \A n \in Int : Older(<<>>, n)
      /\ \A s \in Seq(Int) : Before(s, <<>>) /\ Before(<<>>, s)
  BY DEF InOrder, Before, Older
<1>d. ASSUME NEW s \in Seq(Int), NEW n \in Int, n >= position, Older(s, position)
      PROVE  Older(s, n)
  <2>1. \A i \in 1..Len(s) : s[i] \in Int
    OBVIOUS
  <2> QED BY <1>b, <1>d, <2>1 DEF Older
<1>1. CASE Produce \/ AutoCommits \/ UNCHANGED vars
  BY <1>1, <1>a DEF Produce, AutoCommits, vars, kafka, loop
<1>3. CASE Rebalance \/ Start
  <2>1. position' \in Int
    BY <1>3, StartIsInLog DEF Rebalance, Start
  <2> QED BY <1>3, <1>a, <1>b, <1>d, <2>1 DEF Rebalance, Start, kafka, loop
<1>4. CASE Poll
  <2>1. position # StreamError /\ position + 1 \in Int /\ position < position + 1
    BY DEF TypeOK, StreamError
  <2>2. channel' = Append(channel, position) /\ position' = position + 1
        /\ UNCHANGED <<inbox, pending>>
    BY <1>4, <1>b DEF Poll, kafka, loop
  <2>3. InOrder(channel') /\ Before(inbox, channel') /\ Before(pending, channel')
    BY <1>a, <1>b, <2>2, AppendKeepsOrder, AppendStaysBefore
  <2>4. Older(inbox, position + 1) /\ Older(pending, position + 1) /\ Older(channel, position + 1)
    BY <1>a, <1>b, <1>d, <2>1
  <2>5. Older(channel', position')
    BY <1>b, <2>1, <2>2, <2>4, AppendStaysOlder
  <2> QED BY <1>a, <2>2, <2>3, <2>4, <2>5
<1>5. CASE PollError
  <2>1. StreamError \in Int /\ StreamError < position
    BY DEF TypeOK, StreamError
  <2>2. channel' = Append(channel, StreamError)
        /\ UNCHANGED <<inbox, pending, position>>
    BY <1>5 DEF PollError, kafka, loop
  <2>3. InOrder(channel') /\ Before(inbox, channel') /\ Before(pending, channel')
    BY <1>a, <1>b, <2>1, <2>2, AppendKeepsOrder, AppendStaysBefore
  <2>4. Older(channel', position')
    BY <1>a, <1>b, <2>1, <2>2, AppendStaysOlder
  <2> QED BY <1>a, <2>2, <2>3, <2>4
<1>6. CASE ReceiveMessage
  <2> DEFINE x == Head(channel)
  <2>1. /\ channel # <<>> /\ channel' = Tail(channel) /\ pending' = Append(pending, x)
        /\ UNCHANGED <<inbox, position>>
        /\ x # StreamError
    BY <1>6 DEF ReceiveMessage, kafka, Offsets, StreamError
  <2>2. /\ Len(channel) \in Nat /\ Len(channel) >= 1 /\ x = channel[1] /\ x \in Int
        /\ Tail(channel) \in Seq(Int) /\ Len(Tail(channel)) = Len(channel) - 1
        /\ \A i \in 1..(Len(channel) - 1) :
              i + 1 \in 1..Len(channel) /\ Tail(channel)[i] = channel[i + 1]
    BY <1>b, <2>1, TailParts
  <2>3. /\ InOrder(channel') /\ Before(inbox, channel') /\ Before(pending, channel')
        /\ Older(channel', position)
    BY <1>a, <1>b, <2>1, TailKeeps
  <2>4. Older(pending, x) /\ Older(inbox, x) /\ x < position
    <3>1. \A i \in 1..Len(pending) : pending[i] # StreamError
      BY DEF TypeOK, Offsets, StreamError
    <3>2. \A i \in 1..Len(inbox) : inbox[i] # StreamError
      BY DEF TypeOK, Offsets, StreamError
    <3>3. Older(pending, x)
      BY <1>a, <2>1, <2>2, <3>1 DEF Before, Older
    <3>4. Older(inbox, x)
      BY <1>a, <2>1, <2>2, <3>2 DEF Before, Older
    <3>5. x < position
      BY <1>a, <2>2 DEF Older
    <3> QED BY <3>3, <3>4, <3>5
  <2>5. InOrder(pending') /\ Before(inbox, pending') /\ Older(pending', position)
    BY <1>a, <1>b, <2>1, <2>2, <2>4, AppendKeepsOrder, AppendStaysBefore, AppendStaysOlder
  <2>6. Before(pending', channel')
    <3>1. \A j \in 1..Len(Tail(channel)) :
             x # StreamError /\ Tail(channel)[j] # StreamError => x < Tail(channel)[j]
      BY <1>a, <2>2 DEF InOrder
    <3> QED BY <1>b, <2>1, <2>2, <2>3, <3>1, AppendComesBefore
  <2> QED BY <1>a, <2>1, <2>3, <2>5, <2>6
<1>7. CASE ReceiveBad \/ ReceiveError
  <2>1. /\ channel # <<>> /\ channel' = Tail(channel)
        /\ UNCHANGED <<inbox, pending, position>>
    BY <1>7 DEF ReceiveBad, ReceiveError, kafka, loop
  <2> QED BY <1>a, <1>b, <2>1, TailKeeps
<1>8. CASE Dispatch
  BY <1>8, <1>a DEF Dispatch, kafka
<1>9. CASE Store
  <2>1. /\ inbox' = inbox \o pending /\ pending' = <<>>
        /\ UNCHANGED <<channel, position>>
    BY <1>9 DEF Store, kafka
  <2>2. InOrder(inbox') /\ Older(inbox', position) /\ Before(inbox', channel)
    BY <1>a, <1>b, <2>1, ConcatKeeps
  <2>3. inbox' \in Seq(Int)
    BY <1>b, <2>1
  <2> QED BY <1>a, <1>b, <1>c, <2>1, <2>2, <2>3
<1>10. CASE StoreFails \/ Crash
  <2>1. /\ pending' = <<>> /\ (channel' = channel \/ channel' = <<>>)
        /\ UNCHANGED <<inbox, position>>
    BY <1>10 DEF StoreFails, Crash, kafka
  <2>2. CASE channel' = channel
    BY <1>a, <1>b, <1>c, <2>1, <2>2
  <2>3. CASE channel' = <<>>
    <3>1. InOrder(channel') /\ Older(channel', position') /\ Before(inbox, channel')
      BY <1>b, <1>c, <2>1, <2>3
    <3>2. <<>> \in Seq(Int)
      OBVIOUS
    <3>3. InOrder(pending') /\ Older(pending', position') /\ Before(inbox, pending')
      BY <1>b, <1>c, <2>1
    <3>4. Before(pending', channel')
      BY <1>c, <2>1, <2>3, <3>2
    <3> QED BY <1>a, <2>1, <3>1, <3>3, <3>4
  <2> QED BY <2>1, <2>2, <2>3
<1> QED BY <1>1, <1>3, <1>4, <1>5, <1>6, <1>7, <1>8, <1>9, <1>10 DEF Next, Iteration

\* Without automatic commits, and starting at the end, the consumer never goes
\* back, so that everything it polled stays in order.
THEOREM ConsumerMovesForward == Spec => []OnlyForward
<1>1. Init => OnlyForward
  BY DEF Init, OnlyForward, PolledInOrder, InOrder, Before, Older
<1>2. TypeOK /\ OnlyForward /\ [Next]_vars => OnlyForward'
  <2> SUFFICES ASSUME TypeOK, OnlyForward, [Next]_vars, NeverGoesBack'
               PROVE  committed' = NoOffset /\ position' <= logEnd' /\ PolledInOrder'
    BY DEF OnlyForward
  <2>1. NeverGoesBack
    BY DEF NeverGoesBack, Next, Iteration, vars, kafka, loop, Produce, AutoCommits, Rebalance, Poll, PollError,
           ReceiveMessage, ReceiveBad, ReceiveError, Dispatch, Store, StoreFails, Start, Crash
  <2>2. committed = NoOffset /\ position <= logEnd /\ PolledInOrder
    BY <2>1 DEF OnlyForward
  <2>3. StartPosition = logEnd
    BY <2>1, <2>2 DEF StartPosition, NeverGoesBack
  <2>4. committed' = NoOffset /\ position' >= position /\ position' <= logEnd'
    BY <2>1, <2>2, <2>3
    DEF NeverGoesBack, TypeOK, Next, Iteration, vars, kafka, loop, Produce, AutoCommits, Rebalance, Poll,
        PollError, ReceiveMessage, ReceiveBad, ReceiveError, Dispatch, Store, StoreFails, Start, Crash
  <2> QED BY <2>2, <2>4, OrderStays
<1> QED BY <1>1, <1>2, TypeCorrect, PTL DEF Spec

\* A consumer that never goes back never gives a message a second row, whatever
\* crashes, rebalances and failed statements happen: the table needs no key for
\* that.
THEOREM NoSecondRow == Spec => []OneRowPerMessage
<1>1. TypeOK /\ OnlyForward => OneRowPerMessage
  <2> SUFFICES ASSUME TypeOK, OnlyForward,
                      NeverGoesBack,
                      NEW i \in 1..Len(inbox), NEW j \in 1..Len(inbox), inbox[i] = inbox[j]
               PROVE  i = j
    BY DEF OneRowPerMessage
  <2>1. \A k \in 1..Len(inbox) : inbox[k] \in Int /\ inbox[k] # StreamError
    BY DEF TypeOK, Offsets, StreamError
  <2>2. InOrder(inbox) /\ i \in Int /\ j \in Int
    BY DEF OnlyForward, PolledInOrder
  <2> QED BY <2>1, <2>2 DEF InOrder
<1> QED BY <1>1, TypeCorrect, ConsumerMovesForward, PTL

\* Rows are what the table says they are, for any log, channel, batch and faults.
COROLLARY RowsStayTrue == Spec => []RowsAreTrue
BY NoSecondRow, RowsFollowDeliveries, PTL DEF RowsAreTrue

-----------------------------------------------------------------------------
(* Nothing polled is lost, repeated or reordered while nothing fails.      *)

\* What appending, taking the head and concatenating make of the elements.
LEMMA ElementsOfAppend ==
    ASSUME NEW s \in Seq(Int), NEW x \in Int
    PROVE  Elements(Append(s, x)) = Elements(s) \cup {x}
<1>1. 1..Len(Append(s, x)) = 1..Len(s) \cup {Len(s) + 1}
  BY AppendParts
<1> QED BY <1>1, AppendParts DEF Elements

\* A sequence has its head and the elements of its tail.
LEMMA ElementsOfTail ==
    ASSUME NEW s \in Seq(Int), s # <<>>
    PROVE  Elements(s) = {Head(s)} \cup Elements(Tail(s))
<1>1. /\ Len(s) \in Nat /\ Len(s) >= 1 /\ Head(s) = s[1] /\ Len(Tail(s)) = Len(s) - 1
      /\ \A i \in 1..(Len(s) - 1) : Tail(s)[i] = s[i + 1]
  BY TailParts
<1>2. \A i \in 1..Len(s) : i = 1 \/ (i - 1 \in 1..(Len(s) - 1) /\ s[i] = Tail(s)[i - 1])
  BY <1>1
<1>3. \A i \in 1..(Len(s) - 1) : i + 1 \in 1..Len(s)
  BY <1>1
<1>4. ASSUME NEW i \in 1..Len(s) PROVE s[i] \in {Head(s)} \cup Elements(Tail(s))
  <2>1. CASE i = 1
    BY <1>1, <2>1
  <2>2. CASE i - 1 \in 1..Len(Tail(s)) /\ s[i] = Tail(s)[i - 1]
    BY <2>2 DEF Elements
  <2> QED BY <1>1, <1>2, <2>1, <2>2
<1>5. {Head(s)} \cup Elements(Tail(s)) \subseteq Elements(s)
  BY <1>1, <1>3 DEF Elements
<1> QED BY <1>4, <1>5 DEF Elements

\* The elements of two sequences, one after the other.
LEMMA ElementsOfConcat ==
    ASSUME NEW s \in Seq(Int), NEW t \in Seq(Int)
    PROVE  Elements(s \o t) = Elements(s) \cup Elements(t)
<1>1. /\ Len(s \o t) = Len(s) + Len(t) /\ Len(s) \in Nat /\ Len(t) \in Nat
      /\ \A i \in 1..Len(s) : i \in 1..Len(s \o t) /\ (s \o t)[i] = s[i]
      /\ \A i \in 1..Len(t) : Len(s) + i \in 1..Len(s \o t) /\ (s \o t)[Len(s) + i] = t[i]
  BY ConcatParts
<1>2. \A i \in 1..Len(s \o t) :
         \/ i \in 1..Len(s) /\ (s \o t)[i] = s[i]
         \/ i - Len(s) \in 1..Len(t) /\ (s \o t)[i] = t[i - Len(s)]
  BY ConcatParts
<1>3. Elements(s \o t) \subseteq Elements(s) \cup Elements(t)
  BY <1>2 DEF Elements
<1>4. Elements(s) \cup Elements(t) \subseteq Elements(s \o t)
  BY <1>1 DEF Elements
<1> QED BY <1>3, <1>4

\* No step takes a fault back, so a run without faults has none before.
LEMMA FaultsOnlyGrow == TypeOK /\ [Next]_vars /\ faults' = 0 => faults = 0 /\ ~Rebalance /\ ~PollError /\ ~StoreFails /\ ~Crash
BY DEF TypeOK, Next, Iteration, vars, kafka, loop, Produce, AutoCommits, Rebalance, Poll, PollError,
       ReceiveMessage, ReceiveBad, ReceiveError, Dispatch, Store, StoreFails, Start, Crash, Fault

\* The invariant: the elements move from the channel over the buffer to the rows.
LEMMA NothingIsSkipped ==
    ASSUME TypeOK, BufferIsFlushed, NothingSkipped, [Next]_vars
    PROVE  NothingSkipped'
<1> SUFFICES ASSUME faults' = 0
             PROVE  IF Up'
                    THEN /\ first' \in 0..position'
                         /\ PolledInOrder'
                         /\ StreamError \notin Elements(channel')
                         /\ (Elements(inbox') \cup Elements(pending') \cup Elements(channel')) \ Bad
                               = (first'..(position' - 1)) \ Bad
                         /\ (Elements(inbox') \cup Elements(pending')) \cap Bad = {}
                    ELSE first' = NoOffset /\ inbox' = <<>>
  BY DEF NothingSkipped, Elements
<1>0. faults = 0 /\ ~Rebalance /\ ~PollError /\ ~StoreFails /\ ~Crash
  BY FaultsOnlyGrow
<1>a. /\ inbox \in Seq(Int) /\ pending \in Seq(Int) /\ channel \in Seq(Int)
      /\ position \in Nat /\ logEnd \in Nat
  BY DEF TypeOK, Offsets, StreamError
<1>b. Elements(<<>>) = {}
  BY DEF Elements
<1>1. CASE Start
  <2>1. /\ first = NoOffset /\ inbox = <<>> /\ pending = <<>> /\ channel = <<>>
    BY <1>0, <1>1 DEF Start, NothingSkipped, BufferIsFlushed, Up, Stage
  <2>2. /\ position' = StartPosition /\ first' = StartPosition /\ StartPosition \in Nat
        /\ inbox' = <<>> /\ pending' = <<>> /\ channel' = <<>> /\ Up'
    BY <1>1, <2>1, StartIsInLog DEF Start, Up
  <2>3. PolledInOrder'
    BY <2>2 DEF PolledInOrder, InOrder, Before, Older
  <2> QED BY <1>b, <2>2, <2>3
<1>2. CASE ~Start
  <2>1. Up' <=> Up
    BY <1>0, <1>2
    DEF Up, Next, Iteration, vars, kafka, loop, Produce, AutoCommits, Poll, ReceiveMessage, ReceiveBad,
        ReceiveError, Dispatch, Store, AfterCheck
  <2>2. first' = first /\ position' \in {position, position + 1}
    BY <1>0, <1>2
    DEF Next, Iteration, vars, kafka, loop, Produce, AutoCommits, Poll, ReceiveMessage, ReceiveBad,
        ReceiveError, Dispatch, Store
  <2>3. CASE ~Up
    <3>1. inbox' = inbox
      BY <1>0, <1>2, <2>3
      DEF Up, Next, Iteration, vars, kafka, loop, Produce, AutoCommits, Poll, ReceiveMessage, ReceiveBad,
          ReceiveError, Dispatch, Store
    <3> QED BY <1>0, <2>1, <2>2, <2>3, <3>1 DEF NothingSkipped
  <2>4. CASE Up
    <3>0. /\ first \in 0..position
          /\ PolledInOrder
          /\ StreamError \notin Elements(channel)
          /\ (Elements(inbox) \cup Elements(pending) \cup Elements(channel)) \ Bad
                = (first..(position - 1)) \ Bad
          /\ (Elements(inbox) \cup Elements(pending)) \cap Bad = {}
      BY <1>0, <2>4 DEF NothingSkipped
    <3>a. PolledInOrder' /\ first' \in 0..position'
      BY <1>a, <2>2, <3>0, OrderStays
    <3>b. SUFFICES
             /\ StreamError \notin Elements(channel')
             /\ (Elements(inbox') \cup Elements(pending') \cup Elements(channel')) \ Bad
                   = (first..(position' - 1)) \ Bad
             /\ (Elements(inbox') \cup Elements(pending')) \cap Bad = {}
      BY <2>1, <2>2, <2>4, <3>a
    <3>1. CASE Produce \/ AutoCommits \/ Dispatch \/ UNCHANGED vars
      BY <3>0, <3>1 DEF Produce, AutoCommits, Dispatch, vars, kafka, loop
    <3>2. CASE Poll
      <4>1. /\ channel' = Append(channel, position) /\ position' = position + 1
            /\ UNCHANGED <<inbox, pending>> /\ position # StreamError
        BY <1>a, <3>2 DEF Poll, kafka, loop, StreamError
      <4>2. Elements(channel') = Elements(channel) \cup {position}
        BY <1>a, <4>1, ElementsOfAppend
      <4>3. first..(position' - 1) = (first..(position - 1)) \cup {position}
        BY <1>a, <3>0, <4>1
      <4> QED BY <3>0, <4>1, <4>2, <4>3
    <3>3. CASE ReceiveMessage
      <4>1. /\ channel # <<>> /\ channel' = Tail(channel) /\ pending' = Append(pending, Head(channel))
            /\ UNCHANGED <<inbox, position>> /\ Head(channel) \in Int /\ Head(channel) \notin Bad
        BY <3>3 DEF ReceiveMessage, kafka, Offsets
      <4>2. Elements(channel) = {Head(channel)} \cup Elements(channel')
        BY <1>a, <4>1, ElementsOfTail
      <4>3. Elements(pending') = Elements(pending) \cup {Head(channel)}
        BY <1>a, <4>1, ElementsOfAppend
      <4> QED BY <3>0, <4>1, <4>2, <4>3
    <3>4. CASE ReceiveBad \/ ReceiveError
      <4>1. /\ channel # <<>> /\ channel' = Tail(channel)
            /\ UNCHANGED <<inbox, pending, position>> /\ Head(channel) \in Bad \cup {StreamError}
        BY <3>4 DEF ReceiveBad, ReceiveError, kafka, loop
      <4>2. Elements(channel) = {Head(channel)} \cup Elements(channel')
        BY <1>a, <4>1, ElementsOfTail
      <4> QED BY <3>0, <4>1, <4>2
    <3>5. CASE Store
      <4>1. /\ inbox' = inbox \o pending /\ pending' = <<>> /\ UNCHANGED <<channel, position>>
        BY <3>5 DEF Store, kafka
      <4>2. Elements(inbox') = Elements(inbox) \cup Elements(pending)
        BY <1>a, <4>1, ElementsOfConcat
      <4> QED BY <1>b, <3>0, <4>1, <4>2
    <3> QED BY <1>0, <1>2, <3>1, <3>2, <3>3, <3>4, <3>5 DEF Next, Iteration
  <2> QED BY <2>3, <2>4
<1> QED BY <1>1, <1>2

\* A sequence that is in order and has no errors is strictly increasing.
LEMMA OrderIsStrict ==
    ASSUME NEW s \in Seq(Int), InOrder(s), StreamError \notin Elements(s)
    PROVE  \A i, j \in 1..Len(s) : i < j => s[i] < s[j]
BY DEF InOrder, Elements

\* While nothing fails, every message polled that parses is in the rows, in the
\* buffer or in the channel, once and in the order of the partition.
THEOREM PolledMessagesAreKept == Spec => []PolledIsAccountedFor
<1>1. Init => NothingSkipped
  BY DEF Init, NothingSkipped, Up
<1>2. TypeOK /\ BufferIsFlushed /\ NothingSkipped /\ [Next]_vars => NothingSkipped'
  BY NothingIsSkipped
<1>3. TypeOK /\ NothingSkipped => PolledIsAccountedFor
  <2> SUFFICES ASSUME TypeOK, NothingSkipped, Up, faults = 0
               PROVE  /\ \A i, j \in 1..Len(inbox \o pending \o channel) : i < j =>
                            (inbox \o pending \o channel)[i] < (inbox \o pending \o channel)[j]
                      /\ Elements(inbox \o pending \o channel) \ Bad = (first..(position - 1)) \ Bad
                      /\ Elements(inbox \o pending) \cap Bad = {}
    BY DEF PolledIsAccountedFor
  <2>1. inbox \in Seq(Int) /\ pending \in Seq(Int) /\ channel \in Seq(Int)
    BY DEF TypeOK, Offsets, StreamError
  <2>2. inbox \o pending \in Seq(Int) /\ inbox \o pending \o channel \in Seq(Int)
    BY <2>1
  <2>3. /\ PolledInOrder
        /\ StreamError \notin Elements(channel)
        /\ (Elements(inbox) \cup Elements(pending) \cup Elements(channel)) \ Bad
              = (first..(position - 1)) \ Bad
        /\ (Elements(inbox) \cup Elements(pending)) \cap Bad = {}
    BY DEF NothingSkipped
  <2>4. /\ Elements(inbox \o pending) = Elements(inbox) \cup Elements(pending)
        /\ Elements(inbox \o pending \o channel)
              = Elements(inbox) \cup Elements(pending) \cup Elements(channel)
    <3>1. Elements(inbox \o pending) = Elements(inbox) \cup Elements(pending)
      BY <2>1, ElementsOfConcat
    <3>2. Elements((inbox \o pending) \o channel) = Elements(inbox \o pending) \cup Elements(channel)
      BY <2>1, <2>2, ElementsOfConcat
    <3> QED BY <3>1, <3>2
  <2>5. InOrder(inbox \o pending) /\ Before(inbox \o pending, channel)
    BY <2>1, <2>3, ConcatKeeps DEF PolledInOrder
  <2>6. InOrder(inbox \o pending \o channel)
    BY <2>1, <2>2, <2>3, <2>5, ConcatKeeps DEF PolledInOrder
  <2>7. StreamError \notin Elements(inbox) \cup Elements(pending)
    BY DEF TypeOK, Offsets, StreamError, Elements
  <2> QED BY <2>2, <2>3, <2>4, <2>6, <2>7, OrderIsStrict
<1> QED BY <1>1, <1>2, <1>3, TypeCorrect, BufferAlwaysFlushed, PTL DEF Spec

-----------------------------------------------------------------------------
(* The refinement: each step of a consumer that never goes back is a step  *)
(* of the promise or invisible to it.                                      *)

\* What the refinement rests on.
RInv == TypeOK /\ BufferIsFlushed /\ RowsFollowDispatch /\ OnlyForward /\ AwaitsDispatch

\* The settings are read once.
LEMMA SettingsStay == [Next]_vars => (NeverGoesBack' <=> NeverGoesBack)
BY DEF NeverGoesBack, Next, Iteration, vars, kafka, loop, Produce, AutoCommits, Rebalance, Poll, PollError,
       ReceiveMessage, ReceiveBad, ReceiveError, Dispatch, Store, StoreFails, Start, Crash

\* Offsets are integers, and so is the mark of an error.
LEMMA SequencesOfIntegers ==
    ASSUME TypeOK
    PROVE  /\ inbox \in Seq(Int) /\ pending \in Seq(Int) /\ channel \in Seq(Int)
           /\ position \in Nat /\ logEnd \in Nat
           /\ Elements(inbox) \subseteq Offsets /\ Elements(pending) \subseteq Offsets
           /\ Elements(channel) \subseteq Offsets \cup {StreamError}
           /\ StreamError \notin Offsets /\ Offsets \subseteq Nat
<1>1. StreamError \notin Offsets /\ Offsets \subseteq Nat /\ StreamError \in Int
  BY DEF Offsets, StreamError
<1>2. inbox \in Seq(Int) /\ pending \in Seq(Int) /\ channel \in Seq(Int)
  BY DEF TypeOK, Offsets, StreamError
<1>3. Elements(inbox) \subseteq Offsets /\ Elements(pending) \subseteq Offsets
  BY DEF TypeOK, Elements
<1>4. Elements(channel) \subseteq Offsets \cup {StreamError}
  BY DEF TypeOK, Elements
<1> QED BY <1>1, <1>2, <1>3, <1>4 DEF TypeOK

\* Rows, buffer and channel hold different messages, all of them polled; what
\* is going out is in the buffer.
LEMMA ApartFromEachOther ==
    ASSUME TypeOK, BufferIsFlushed, OnlyForward, NeverGoesBack
    PROVE  /\ committed = NoOffset /\ position <= logEnd /\ ~autoCommit /\ StartPosition = logEnd
           /\ PolledInOrder
           /\ \A o \in Elements(inbox) \cup Elements(pending) \cup Elements(channel) : o < position
           /\ \A o \in Elements(inbox) : o \notin Elements(pending) /\ o \notin Elements(channel)
           /\ \A o \in Elements(pending) : o \notin Elements(channel)
           /\ \A o \in Elements(pending), n \in Elements(channel) \ {StreamError} : o < n
           /\ Undelivered \subseteq Elements(pending)
<1>1. /\ committed = NoOffset /\ position <= logEnd /\ ~autoCommit
      /\ PolledInOrder
  BY DEF OnlyForward, NeverGoesBack
<1>2. StartPosition = logEnd
  BY <1>1 DEF StartPosition, NeverGoesBack
<1>3. \A o \in Elements(inbox) \cup Elements(pending) \cup Elements(channel) : o < position
  BY <1>1 DEF PolledInOrder, Older, Elements
<1>4. /\ \A o \in Elements(inbox), n \in Elements(pending) : o < n
      /\ \A o \in Elements(inbox), n \in Elements(channel) \ {StreamError} : o < n
      /\ \A o \in Elements(pending), n \in Elements(channel) \ {StreamError} : o < n
  <2>1. \A i \in 1..Len(inbox) : inbox[i] # StreamError
    BY DEF TypeOK, Offsets, StreamError
  <2>2. \A i \in 1..Len(pending) : pending[i] # StreamError
    BY DEF TypeOK, Offsets, StreamError
  <2> QED BY <1>1, <2>1, <2>2 DEF PolledInOrder, Before, Elements
<1>5. Undelivered \subseteq Elements(pending)
  BY DEF Undelivered, BufferIsFlushed, TypeOK, Elements
<1> QED BY <1>1, <1>2, <1>3, <1>4, <1>5, SequencesOfIntegers

\* A message that has not been dispatched when it is received is dispatched once.
LEMMA FirstDispatches ==
    ASSUME TypeOK, BufferIsFlushed, OnlyForward, AwaitsDispatch, [Next]_vars
    PROVE  AwaitsDispatch'
<1> SUFFICES ASSUME NeverGoesBack'
             PROVE  /\ \A o \in Offsets :
                          o >= position' \/ o \in Elements(channel') \cup Undelivered' => dispatched'[o] = 0
                    /\ Undelivered' \cap Bad = {}
  BY DEF AwaitsDispatch, Elements
<1>0. NeverGoesBack
  BY SettingsStay
<1>a. /\ \A o \in Offsets :
            o >= position \/ o \in Elements(channel) \cup Undelivered => dispatched[o] = 0
      /\ Undelivered \cap Bad = {}
  BY <1>0 DEF AwaitsDispatch
<1>b. Elements(<<>>) = {}
  BY DEF Elements
<1>1. CASE Produce \/ AutoCommits \/ UNCHANGED vars
  BY <1>1, <1>a DEF Produce, AutoCommits, vars, kafka, loop, Undelivered
<1>2. CASE Rebalance
  <2>1. /\ position' >= position /\ position' \in Nat
        /\ UNCHANGED <<channel, pending, stage, dispatched>>
    BY <1>0, <1>2, ApartFromEachOther, SequencesOfIntegers DEF Rebalance, kafka, loop
  <2>2. \A o \in Offsets : o >= position' => o >= position
    BY <2>1, SequencesOfIntegers
  <2> QED BY <1>a, <2>1, <2>2 DEF Undelivered
<1>3. CASE Poll
  <2>1. /\ position' = position + 1 /\ Elements(channel') = Elements(channel) \cup {position}
        /\ UNCHANGED <<pending, stage, dispatched>>
    BY <1>3, SequencesOfIntegers, ElementsOfAppend DEF Poll, kafka, loop
  <2>2. \A o \in Offsets : o >= position' => o >= position
    BY <2>1, SequencesOfIntegers
  <2>3. position >= position
    BY SequencesOfIntegers
  <2> QED BY <1>a, <2>1, <2>2, <2>3 DEF Undelivered
<1>4. CASE PollError
  <2>1. /\ Elements(channel') = Elements(channel) \cup {StreamError}
        /\ UNCHANGED <<position, pending, stage, dispatched>>
    BY <1>4, SequencesOfIntegers, ElementsOfAppend DEF PollError, kafka, loop, StreamError
  <2> QED BY <1>a, <2>1, SequencesOfIntegers DEF Undelivered
<1>5. CASE ReceiveMessage
  <2>1. /\ channel # <<>> /\ channel' = Tail(channel) /\ Head(channel) \in Offsets \ Bad
        /\ pending' = Append(pending, Head(channel)) /\ stage' = "dispatch"
        /\ UNCHANGED <<position, dispatched>>
    BY <1>5 DEF ReceiveMessage, kafka
  <2>2. Elements(channel) = {Head(channel)} \cup Elements(channel')
    BY <2>1, SequencesOfIntegers, ElementsOfTail
  <2>3. Undelivered' = {Head(channel)}
    BY <2>1, SequencesOfIntegers, AppendParts DEF Undelivered
  <2> QED BY <1>a, <2>1, <2>2, <2>3
<1>6. CASE ReceiveBad \/ ReceiveError
  <2>1. /\ channel # <<>> /\ channel' = Tail(channel) /\ stage = "recv" /\ stage' # "dispatch"
        /\ UNCHANGED <<position, dispatched>>
    BY <1>6 DEF ReceiveBad, ReceiveError, kafka, loop, AfterCheck
  <2>2. Elements(channel) = {Head(channel)} \cup Elements(channel')
    BY <2>1, SequencesOfIntegers, ElementsOfTail
  <2> QED BY <1>a, <2>1, <2>2 DEF Undelivered
<1>7. CASE Dispatch
  <2> DEFINE last == pending[Len(pending)]
  <2>1. /\ stage = "dispatch" /\ stage' # "dispatch"
        /\ dispatched' = [dispatched EXCEPT ![last] = @ + 1]
        /\ UNCHANGED <<position, channel, pending>>
    BY <1>7 DEF Dispatch, kafka, AfterCheck
  <2>2. last \in Elements(pending)
    BY <1>0, <2>1, ApartFromEachOther DEF Undelivered
  <2>3. last \in Offsets /\ last < position /\ last \notin Elements(channel)
    BY <1>0, <2>2, ApartFromEachOther, SequencesOfIntegers
  <2>4. \A o \in Offsets : o # last => dispatched'[o] = dispatched[o]
    BY <2>1 DEF TypeOK
  <2>5. \A o \in Offsets : o >= position => o # last
    BY <2>3, SequencesOfIntegers
  <2> QED BY <1>a, <2>1, <2>3, <2>4, <2>5 DEF Undelivered
<1>8. CASE Store \/ StoreFails
  <2>1. stage' = "recv" /\ UNCHANGED <<position, channel, dispatched>>
    BY <1>8 DEF Store, StoreFails, kafka
  <2> QED BY <1>a, <2>1 DEF Undelivered
<1>9. CASE Start
  <2>1. /\ position' >= position /\ position' \in Nat /\ stage' = "recv"
        /\ UNCHANGED <<channel, dispatched>>
    BY <1>0, <1>9, ApartFromEachOther, SequencesOfIntegers DEF Start, kafka
  <2>2. \A o \in Offsets : o >= position' => o >= position
    BY <2>1, SequencesOfIntegers
  <2> QED BY <1>a, <2>1, <2>2 DEF Undelivered
<1>10. CASE Crash
  <2>1. channel' = <<>> /\ stage' = "down" /\ UNCHANGED <<position, dispatched>>
    BY <1>10 DEF Crash, kafka
  <2> QED BY <1>a, <1>b, <2>1 DEF Undelivered
<1> QED BY <1>1, <1>2, <1>3, <1>4, <1>5, <1>6, <1>7, <1>8, <1>9, <1>10 DEF Next, Iteration

\* All of it together, for any log, channel, batch, commits and faults.
LEMMA RefinementInvariant == Spec => []RInv
<1>1. Init => AwaitsDispatch
  BY DEF Init, AwaitsDispatch, Undelivered
<1>2. TypeOK /\ BufferIsFlushed /\ OnlyForward /\ AwaitsDispatch /\ [Next]_vars => AwaitsDispatch'
  BY FirstDispatches
<1> QED BY <1>1, <1>2, TypeCorrect, BufferAlwaysFlushed, DispatchComesFirst, ConsumerMovesForward, PTL
        DEF Spec, RInv

\* Where a message is, read off the sets: the rows, what was delivered and waits to
\* be stored, what waits to be delivered, what the position has passed.
Waiting == (Elements(channel) \cup Undelivered) \cap Offsets
Out == Elements(pending) \ Undelivered
Where(o) ==
    IF o \in Elements(inbox) THEN "stored"
    ELSE IF o \in Out THEN "delivered"
    ELSE IF o \in Waiting THEN "held"
    ELSE IF o < position THEN "gone" ELSE "ahead"

\* The fate of a message is where it is.
FatesAre == NeverGoesBack => \A o \in Offsets : FateOf(o) = Where(o)

\* Whether it was dispatched tells apart what of the buffer was delivered.
LEMMA FatesHold == RInv => FatesAre
<1> SUFFICES ASSUME RInv, NeverGoesBack, NEW o \in Offsets
             PROVE  FateOf(o) = Where(o)
  BY DEF FatesAre
<1>1. /\ TypeOK /\ BufferIsFlushed /\ RowsFollowDispatch /\ OnlyForward
      /\ \A n \in Elements(channel) \cup Undelivered : n \in Offsets => dispatched[n] = 0
  BY DEF RInv, AwaitsDispatch
<1>2. Undelivered \subseteq Elements(pending)
  BY <1>1, ApartFromEachOther
<1>3. o \in Out => dispatched[o] > 0
  BY <1>1 DEF Out, Undelivered, Elements, RowsFollowDispatch
<1>4. o \in Waiting => ~(dispatched[o] > 0)
  BY <1>1 DEF Waiting
<1> QED BY <1>2, <1>3, <1>4 DEF FateOf, Where, Waiting, Out

\* While a message is not the one going out, the buffer has been delivered.
LEMMA NoneGoesOut == stage # "dispatch" => Undelivered = {} /\ Out = Elements(pending)
BY DEF Undelivered, Out

\* A step that moves no message.
LEMMA Unmoved ==
    ASSUME Elements(inbox') = Elements(inbox), Out' = Out, Waiting' = Waiting, position' = position
    PROVE  \A o \in Offsets : Where(o)' = Where(o)
BY DEF Where

\* Moving the messages of S, and those only, is a move of the promise.
LEMMA Moves ==
    ASSUME NeverGoesBack, NeverGoesBack', FatesAre, FatesAre', NEW S, NEW f,
           \A o \in Offsets : Where(o)' = IF o \in S THEN f ELSE Where(o)
    PROVE  Promise!Becomes(S, f)
BY DEF FatesAre, Promise!Becomes, Promise!Messages, Offsets

\* A step that moves none leaves the fates alone.
LEMMA StaysPut ==
    ASSUME NeverGoesBack, NeverGoesBack', FatesAre, FatesAre',
           \A o \in Offsets : Where(o)' = Where(o), UNCHANGED faults
    PROVE  UNCHANGED Promise!vars
BY DEF FatesAre, Promise!vars

\* The messages of a fate.
LEMMA OfAFate ==
    ASSUME NeverGoesBack, FatesAre, NEW f
    PROVE  Promise!Of(f) = {o \in Offsets : Where(o) = f}
BY DEF FatesAre, Promise!Of, Promise!Messages, Offsets

\* Which these are, for the fates but "gone".
LEMMA SetsOfFates ==
    ASSUME RInv, NeverGoesBack, FatesAre
    PROVE  /\ Promise!Of("delivered") = Out
           /\ Promise!Of("held") = Waiting
           /\ Promise!Of("ahead") = {o \in Offsets : o >= position}
<1>1. TypeOK /\ BufferIsFlushed /\ OnlyForward
  BY DEF RInv
<1>2. /\ \A o \in Elements(inbox) \cup Elements(pending) \cup Elements(channel) : o < position
      /\ \A o \in Elements(inbox) : o \notin Elements(pending) /\ o \notin Elements(channel)
      /\ \A o \in Elements(pending) : o \notin Elements(channel)
      /\ Undelivered \subseteq Elements(pending)
  BY <1>1, ApartFromEachOther
<1>3. Elements(pending) \subseteq Offsets /\ position \in Nat /\ Offsets \subseteq Nat
  BY <1>1, SequencesOfIntegers
<1>4. Out \subseteq Offsets /\ Waiting \subseteq Offsets
  BY <1>3 DEF Out, Waiting
<1>5. \A o \in Offsets : Where(o) = "delivered" <=> o \in Out
  BY <1>2 DEF Where, Out
<1>6. \A o \in Offsets : Where(o) = "held" <=> o \in Waiting
  BY <1>2 DEF Where, Out, Waiting
<1>7. \A o \in Offsets : Where(o) = "ahead" <=> o >= position
  BY <1>2, <1>3 DEF Where, Out, Waiting
<1> QED BY <1>3, <1>4, <1>5, <1>6, <1>7, OfAFate

\* With automatic commits or a reset to the earliest nothing is promised.
LEMMA NothingPromised ==
    ASSUME RInv, [Next]_vars, ~NeverGoesBack
    PROVE  Promise!Mishap \/ UNCHANGED Promise!vars
<1>1. ~NeverGoesBack'
  BY SettingsStay
<1>2. faults' = faults + 1 \/ UNCHANGED faults
  BY DEF Next, Iteration, vars, kafka, loop, Produce, AutoCommits, Rebalance, Poll, PollError,
         ReceiveMessage, ReceiveBad, ReceiveError, Dispatch, Store, StoreFails, Start, Crash, Fault
<1> QED BY <1>1, <1>2 DEF Promise!Mishap, Promise!vars

\* Step by step, for a consumer that never goes back.
LEMMA ConsumerStep ==
    ASSUME RInv, FatesAre, FatesAre', [Next]_vars, NeverGoesBack
    PROVE  Promise!Next \/ UNCHANGED Promise!vars
<1>0. NeverGoesBack'
  BY SettingsStay
<1>a. /\ TypeOK /\ BufferIsFlushed /\ OnlyForward /\ Undelivered \cap Bad = {}
  BY DEF RInv, AwaitsDispatch
<1>b. /\ position <= logEnd /\ ~autoCommit /\ StartPosition = logEnd
      /\ PolledInOrder
      /\ \A o \in Elements(inbox) \cup Elements(pending) \cup Elements(channel) : o < position
      /\ \A o \in Elements(inbox) : o \notin Elements(pending) /\ o \notin Elements(channel)
      /\ \A o \in Elements(pending) : o \notin Elements(channel)
      /\ \A o \in Elements(pending), n \in Elements(channel) \ {StreamError} : o < n
      /\ Undelivered \subseteq Elements(pending)
  BY <1>a, ApartFromEachOther
<1>c. /\ inbox \in Seq(Int) /\ pending \in Seq(Int) /\ channel \in Seq(Int)
      /\ position \in Nat /\ logEnd \in Nat
      /\ Elements(inbox) \subseteq Offsets /\ Elements(pending) \subseteq Offsets
      /\ Elements(channel) \subseteq Offsets \cup {StreamError}
      /\ StreamError \notin Offsets /\ Offsets \subseteq Nat
  BY <1>a, SequencesOfIntegers
<1>d. /\ Promise!Of("delivered") = Out
      /\ Promise!Of("held") = Waiting
      /\ Promise!Of("ahead") = {o \in Offsets : o >= position}
  BY SetsOfFates
<1>e. /\ Out \subseteq Offsets /\ Waiting \subseteq Offsets /\ Elements(<<>>) = {}
      /\ Promise!Messages = Offsets
  BY <1>c DEF Out, Waiting, Elements, Promise!Messages, Offsets
<1>1. CASE Produce \/ AutoCommits \/ UNCHANGED vars
  <2>1. UNCHANGED <<inbox, pending, channel, stage, position, faults>>
    BY <1>1, <1>b DEF Produce, AutoCommits, vars, loop, kafka
  <2>2. Out' = Out /\ Waiting' = Waiting
    BY <2>1 DEF Out, Waiting, Undelivered
  <2> QED BY <1>0, <2>1, <2>2, Unmoved, StaysPut
<1>2. CASE Rebalance
  <2>1. /\ UNCHANGED <<inbox, pending, channel, stage>> /\ position' = logEnd /\ faults' = faults + 1
    BY <1>2, <1>b DEF Rebalance, Fault, kafka, loop
  <2>2. Out' = Out /\ Waiting' = Waiting
    BY <2>1 DEF Out, Waiting, Undelivered
  <2> DEFINE S == {o \in Promise!Of("ahead") : o < logEnd}
  <2>3. \A o \in Offsets : Where(o)' = IF o \in S THEN "gone" ELSE Where(o)
    BY <1>b, <1>c, <1>d, <2>1, <2>2 DEF Where, Out, Waiting
  <2>4. Promise!Becomes(S, "gone")
    BY <1>0, <2>3, Moves
  <2>5. logEnd \in 0..LogSize
    BY <1>a DEF TypeOK
  <2>6. Promise!Mishap
    BY <2>1, <2>4, <2>5 DEF Promise!Mishap
  <2> QED BY <2>6 DEF Promise!Next
<1>3. CASE Poll
  <2>1. /\ UNCHANGED <<inbox, pending, stage, faults>> /\ position' = position + 1
        /\ Elements(channel') = Elements(channel) \cup {position}
        /\ position \in Offsets
    <3>1. position < logEnd /\ logEnd \in 0..LogSize
      BY <1>3, <1>a DEF Poll, TypeOK
    <3> QED BY <1>3, <1>c, <3>1, ElementsOfAppend DEF Poll, kafka, loop, Offsets
  <2>2. Out' = Out /\ Waiting' = Waiting \cup {position}
    BY <2>1 DEF Out, Waiting, Undelivered
  <2>3. \A o \in Offsets : Where(o)' = IF o \in {position} THEN "held" ELSE Where(o)
    BY <1>b, <1>c, <2>1, <2>2 DEF Where, Out, Waiting
  <2>4. Promise!Becomes({position}, "held")
    BY <1>0, <2>3, Moves
  <2>5. Promise!First("ahead", position)
    BY <1>c, <1>d, <2>1 DEF Promise!First
  <2>6. Promise!Take(position)
    BY <2>1, <2>4, <2>5 DEF Promise!Take
  <2> QED BY <1>e, <2>1, <2>6 DEF Promise!Next
<1>4. CASE PollError
  <2>1. /\ UNCHANGED <<inbox, pending, stage, position>> /\ faults' = faults + 1
        /\ Elements(channel') = Elements(channel) \cup {StreamError}
    BY <1>4, <1>c, ElementsOfAppend DEF PollError, Fault, kafka, loop, StreamError
  <2>2. Out' = Out /\ Waiting' = Waiting
    BY <1>c, <2>1 DEF Out, Waiting, Undelivered
  <2>3. \A o \in Offsets : Where(o)' = IF o \in {} THEN "gone" ELSE Where(o)
    BY <2>1, <2>2, Unmoved
  <2>4. Promise!Becomes({}, "gone")
    BY <1>0, <2>3, Moves
  <2>5. {m \in Promise!Of("ahead") : m < 0} = {} /\ 0 \in 0..LogSize
    <3>1. \A m \in Promise!Of("ahead") : m \in Nat
      BY <1>c, <1>d
    <3>2. \A m \in Nat : ~(m < 0)
      OBVIOUS
    <3>3. 0 \in 0..LogSize
      OBVIOUS
    <3> QED BY <3>1, <3>2, <3>3
  <2>6. Promise!Mishap
    BY <2>1, <2>4, <2>5 DEF Promise!Mishap
  <2> QED BY <2>6 DEF Promise!Next
<1>5. CASE ReceiveMessage
  <2> DEFINE x == Head(channel)
  <2>1. /\ channel # <<>> /\ channel' = Tail(channel) /\ x \in Offsets /\ stage = "recv"
        /\ pending' = Append(pending, x) /\ stage' = "dispatch"
        /\ UNCHANGED <<inbox, position, faults>>
    BY <1>5 DEF ReceiveMessage, kafka
  <2>2. /\ Elements(channel) = {x} \cup Elements(channel')
        /\ Elements(pending') = Elements(pending) \cup {x}
    BY <1>c, <2>1, ElementsOfTail, ElementsOfAppend
  <2>3. Undelivered = {} /\ Undelivered' = {x} /\ x \notin Elements(pending)
    BY <1>b, <1>c, <2>1, <2>2, AppendParts DEF Undelivered
  <2>4. Out' = Out /\ Waiting' = Waiting
    BY <2>1, <2>2, <2>3 DEF Out, Waiting
  <2> QED BY <1>0, <2>1, <2>4, Unmoved, StaysPut
<1>6. CASE ReceiveBad
  <2> DEFINE x == Head(channel)
  <2>1. /\ channel # <<>> /\ channel' = Tail(channel) /\ x \in Bad /\ stage = "recv"
        /\ UNCHANGED <<inbox, pending, stage, position, faults>>
    BY <1>6 DEF ReceiveBad, kafka, loop
  <2>2. Elements(channel) = {x} \cup Elements(channel')
    BY <1>c, <2>1, ElementsOfTail
  <2>3. x # StreamError /\ x \in Offsets
    BY <1>c, <2>1, <2>2 DEF StreamError
  <2>4. Undelivered = {} /\ Undelivered' = {}
    BY <2>1 DEF Undelivered
  <2>5. x \notin Elements(channel') /\ \A o \in Waiting : x <= o
    <3>1. /\ Len(channel) \in Nat /\ Len(channel) >= 1 /\ x = channel[1]
          /\ Len(Tail(channel)) = Len(channel) - 1
          /\ \A i \in 1..(Len(channel) - 1) : Tail(channel)[i] = channel[i + 1]
      BY <1>c, <2>1, TailParts
    <3>2. InOrder(channel)
      BY <1>b DEF PolledInOrder
    <3>3. \A i \in 2..Len(channel) : channel[i] # StreamError => x < channel[i]
      BY <2>3, <3>1, <3>2 DEF InOrder
    <3>4. \A o \in Elements(channel') : o = StreamError \/ x < o
      <4>1. \A i \in 1..(Len(channel) - 1) : i + 1 \in 2..Len(channel)
        BY <3>1
      <4> QED BY <2>1, <3>1, <3>3, <4>1 DEF Elements
    <3>5. x \notin Elements(channel')
      <4>1. x \in Nat
        BY <1>c, <2>3
      <4>2. \A n \in Nat : ~(n < n)
        OBVIOUS
      <4> QED BY <2>3, <3>4, <4>1, <4>2
    <3>6. ASSUME NEW o \in Waiting PROVE x <= o
      <4>1. o \in Nat /\ x \in Nat /\ (o = x \/ o \in Elements(channel')) /\ o # StreamError
        BY <1>c, <2>2, <2>3, <2>4 DEF Waiting
      <4> QED BY <3>4, <4>1
    <3> QED BY <3>5, <3>6
  <2>6. Out' = Out /\ Waiting' = Waiting \ {x} /\ x \in Waiting
    BY <2>1, <2>2, <2>3, <2>4, <2>5 DEF Out, Waiting
  <2>7. \A o \in Offsets : Where(o)' = IF o \in {x} THEN "gone" ELSE Where(o)
    BY <1>b, <2>1, <2>2, <2>6 DEF Where, Out
  <2>8. Promise!Becomes({x}, "gone")
    BY <1>0, <2>7, Moves
  <2>9. Promise!First("held", x)
    BY <1>d, <2>5, <2>6 DEF Promise!First
  <2>10. Promise!Refuse(x)
    BY <2>1, <2>8, <2>9 DEF Promise!Refuse
  <2> QED BY <1>e, <2>3, <2>10 DEF Promise!Next
<1>7. CASE ReceiveError
  <2>1. /\ channel # <<>> /\ channel' = Tail(channel) /\ Head(channel) = StreamError
        /\ stage = "recv" /\ stage' # "dispatch"
        /\ UNCHANGED <<inbox, pending, position, faults>>
    BY <1>7 DEF ReceiveError, AfterCheck, kafka
  <2>2. Elements(channel) = {StreamError} \cup Elements(channel')
    BY <1>c, <2>1, ElementsOfTail
  <2>3. Out' = Out /\ Waiting' = Waiting
    BY <1>c, <2>1, <2>2 DEF Out, Waiting, Undelivered
  <2> QED BY <1>0, <2>1, <2>3, Unmoved, StaysPut
<1>8. CASE Dispatch
  <2> DEFINE last == pending[Len(pending)]
  <2>1. /\ stage = "dispatch" /\ stage' # "dispatch"
        /\ UNCHANGED <<inbox, pending, channel, position, faults>>
    BY <1>8 DEF Dispatch, AfterCheck, kafka
  <2>2. Undelivered = {last} /\ Undelivered' = {} /\ last \in Elements(pending)
    BY <1>b, <2>1 DEF Undelivered
  <2>3. last \in Offsets /\ last \notin Bad /\ last \notin Elements(channel)
    BY <1>a, <1>b, <1>c, <2>2
  <2>4. Out' = Out \cup {last} /\ Waiting' = Waiting \ {last} /\ last \in Waiting
    BY <2>1, <2>2, <2>3 DEF Out, Waiting
  <2>5. \A o \in Offsets : Where(o)' = IF o \in {last} THEN "delivered" ELSE Where(o)
    BY <1>b, <2>1, <2>2, <2>4 DEF Where
  <2>6. Promise!Becomes({last}, "delivered")
    BY <1>0, <2>5, Moves
  <2>7. ASSUME NEW o \in Waiting PROVE last <= o
    <3>1. o = last \/ last < o
      BY <1>b, <1>c, <2>2 DEF Waiting
    <3>2. last \in Nat /\ o \in Nat
      BY <1>c, <1>e, <2>3
    <3> QED BY <3>1, <3>2
  <2>8. Promise!First("held", last)
    BY <1>d, <2>4, <2>7 DEF Promise!First
  <2>9. Promise!Deliver(last)
    BY <2>1, <2>3, <2>6, <2>8 DEF Promise!Deliver
  <2> QED BY <1>e, <2>3, <2>9 DEF Promise!Next
<1>9. CASE Store
  <2>1. /\ stage = "store" /\ stage' = "recv" /\ inbox' = inbox \o pending /\ pending' = <<>>
        /\ UNCHANGED <<channel, position, faults>>
    BY <1>9 DEF Store, kafka
  <2>2. Elements(inbox') = Elements(inbox) \cup Elements(pending)
    BY <1>c, <2>1, ElementsOfConcat
  <2>3. Out = Elements(pending) /\ Out' = {} /\ Waiting' = Waiting
    BY <1>e, <2>1 DEF Out, Waiting, Undelivered
  <2>4. \A o \in Offsets : Where(o)' = IF o \in Out THEN "stored" ELSE Where(o)
    BY <2>1, <2>2, <2>3 DEF Where
  <2>5. Promise!Becomes(Out, "stored")
    BY <1>0, <2>4, Moves
  <2>6. Promise!Store
    BY <1>d, <2>1, <2>5 DEF Promise!Store
  <2> QED BY <2>6 DEF Promise!Next
<1>10. CASE StoreFails
  <2>1. /\ stage = "store" /\ stage' = "recv" /\ pending' = <<>> /\ faults' = faults + 1
        /\ UNCHANGED <<inbox, channel, position>>
    BY <1>10 DEF StoreFails, Fault, kafka
  <2>2. Out = Elements(pending) /\ Out' = {} /\ Waiting' = Waiting
    BY <1>e, <2>1 DEF Out, Waiting, Undelivered
  <2>3. \A o \in Offsets : Where(o)' = IF o \in Out THEN "gone" ELSE Where(o)
    BY <1>b, <2>1, <2>2 DEF Where, Waiting, Undelivered
  <2>4. Promise!Becomes(Out, "gone")
    BY <1>0, <2>3, Moves
  <2>5. Promise!Mishap
    BY <1>d, <2>1, <2>4 DEF Promise!Mishap
  <2> QED BY <2>5 DEF Promise!Next
<1>11. CASE Start
  <2>1. /\ pending = <<>> /\ channel = <<>> /\ stage = "down"
    BY <1>11, <1>a DEF Start, Up, BufferIsFlushed, Stage
  <2>2. /\ UNCHANGED <<inbox, pending, channel, faults>> /\ stage' = "recv" /\ position' = logEnd
    BY <1>11, <1>b DEF Start, kafka
  <2>3. Out = {} /\ Waiting = {} /\ Out' = {} /\ Waiting' = {}
    BY <1>e, <2>1, <2>2 DEF Out, Waiting, Undelivered
  <2> DEFINE S == {o \in Promise!Of("ahead") : o < logEnd}
  <2>4. \A o \in Offsets : Where(o)' = IF o \in S THEN "gone" ELSE Where(o)
    BY <1>b, <1>c, <1>d, <2>2, <2>3 DEF Where
  <2>5. Promise!Becomes(S, "gone")
    BY <1>0, <2>4, Moves
  <2>6. Promise!Join(logEnd)
    BY <1>d, <2>2, <2>3, <2>5 DEF Promise!Join
  <2>7. logEnd \in 0..LogSize
    BY <1>a DEF TypeOK
  <2> QED BY <2>6, <2>7 DEF Promise!Next
<1>12. CASE Crash
  <2>1. /\ channel' = <<>> /\ pending' = <<>> /\ stage' = "down" /\ faults' = faults + 1
        /\ UNCHANGED <<inbox, position>>
    BY <1>12 DEF Crash, Fault, kafka
  <2>2. Out' = {} /\ Waiting' = {}
    BY <1>e, <2>1 DEF Out, Waiting, Undelivered
  <2>3. \A o \in Offsets : Where(o)' = IF o \in Waiting \cup Out THEN "gone" ELSE Where(o)
    BY <1>b, <2>1, <2>2 DEF Where, Waiting, Out
  <2>4. Promise!Becomes(Waiting \cup Out, "gone")
    BY <1>0, <2>3, Moves
  <2>5. Promise!Mishap
    BY <1>d, <2>1, <2>4 DEF Promise!Mishap
  <2> QED BY <2>5 DEF Promise!Next
<1> QED BY <1>1, <1>2, <1>3, <1>4, <1>5, <1>6, <1>7, <1>8, <1>9, <1>10, <1>11, <1>12
        DEF Next, Iteration

\* If the consumer never goes back, messages go through in order, none is stored before it
\* is delivered, none comes back once it is stored or lost, and only a mishap, a
\* payload that does not parse or a listener's absence loses one: for any log,
\* channel, batch and number of faults.
THEOREM ConsumerKeepsPromise == Spec => KeepsPromise
<1>1. Init => Promise!Init
  BY DEF Init, FateOf, Elements, Promise!Init, Promise!Messages, Offsets
<1>2. RInv /\ FatesAre /\ FatesAre' /\ [Next]_vars => [Promise!Next]_(Promise!vars)
  <2>1. Promise!Mishap => Promise!Next
    BY DEF Promise!Next
  <2> QED BY <2>1, ConsumerStep, NothingPromised
<1> QED BY <1>1, <1>2, RefinementInvariant, FatesHold, PTL DEF Spec, KeepsPromise, Promise!Spec

=============================================================================
