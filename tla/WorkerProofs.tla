---------------------------- MODULE WorkerProofs ----------------------------
(***************************************************************************)
(* Proofs about a whole worker (WorkerSync) for every committee, batch     *)
(* size and capacity, and for every number of transactions, commands,      *)
(* messages and broken streams.                                            *)
(*                                                                         *)
(* A connection matches answers with messages by position.  That is right  *)
(* because the pending replies are, in their order, the answers on their   *)
(* way back followed by the frames still to be read.                       *)
(***************************************************************************)
EXTENDS WorkerSync, SharedLemmas

-----------------------------------------------------------------------------
(***************************************************************************)
(* The invariant of a connection that was handed the messages 1 .. n, some *)
(* of which are cancelled.                                                 *)
(***************************************************************************)
Connections(n) ==
    [channel : Seq(1 .. n), buffer : Seq(1 .. n), pending : Seq(1 .. n), up : BOOLEAN,
     wire : Seq(1 .. n), acks : Seq(1 .. n), received : SUBSET (1 .. n),
     resolved : SUBSET (1 .. n)]

Held(c) == Range(c.pending) \cup Range(c.buffer) \cup Range(c.channel)

\* What is held ascends.
InOrder(c) ==
    /\ Ascending(c.pending) /\ Ascending(c.buffer) /\ Ascending(c.channel)
    /\ Below(c.pending, c.buffer) /\ Below(c.pending, c.channel) /\ Below(c.buffer, c.channel)

\* The position of an answer tells which message it is for.
Matched(c) ==
    /\ c.pending = c.acks \o c.wire
    /\ ~c.up => c.pending = <<>>
    /\ Range(c.acks) \subseteq c.received
    /\ c.resolved \subseteq c.received

Delivering(c, n, cancelled) ==
    /\ c \in Connections(n)
    /\ InOrder(c)
    /\ Matched(c)
    /\ (1 .. n) \ (c.resolved \cup cancelled) \subseteq Held(c)

-----------------------------------------------------------------------------
Keys == Nat \cup Foreign
Waiters == [digest : Foreign, id : Nat]
Entries == [digest : Foreign, id : Nat, round : Nat, old : BOOLEAN]
Writes == [op : {"write"}, key : Keys]
Notifies == [op : {"notify"}, key : Foreign, waiter : Waiters]

MakerTypes ==
    /\ budget \in [BudgetFields -> Nat]
    /\ sent \in Nat /\ sent + budget["transactions"] <= MaxTransactions
    /\ at \in {"top", "paused", "select"}
    /\ batch \in Seq(Nat) /\ Len(batch) < BatchSize
    /\ batches \in Seq(Seq(Nat))

\* The frames of the proposer's streams and what the runners make of them.
Pausing ==
    /\ told \in Seq(BOOLEAN)
    /\ Delivering(link, Len(told), 1 .. (Len(told) - 1))
    /\ stale \in Seq(1 .. Len(told))
    /\ checked \in [{"live", "stale"} -> (1 .. Len(told)) \cup {Idle}]
    /\ watch \in 0 .. Len(told)
    /\ changed \in BOOLEAN

Broadcasting ==
    /\ DOMAIN connection = Peers
    /\ \A p \in Peers : Delivering(connection[p], Len(batches), closed)

\* Who has read batch b, ourselves included.
Holders(b) == {Me} \cup {p \in Peers : b \in connection[p].received}

Counting ==
    /\ waiting \in Seq(1 .. Len(batches))
    /\ processing \in Seq(1 .. Len(batches))
    /\ closed \subseteq 1 .. Len(batches)
    /\ waiter # Idle =>
        /\ waiter \in [batch : 1 .. Len(batches), counted : SUBSET Peers]
        /\ \A p \in waiter.counted : waiter.batch \in connection[p].resolved
    /\ \A b \in Range(processing) : IsQuorum(Holders(b))

Announcing ==
    /\ announced \subseteq (1 .. Len(batches)) \cup Foreign
    /\ announced \subseteq Readable(store)
    /\ \A b \in announced \cap Nat : IsQuorum(Holders(b))

Commands == Writes \cup {c \in Notifies : c.key = c.waiter.digest}

Stores ==
    [commands : Seq(Commands), db : SUBSET Keys, obligations : SUBSET (Foreign \X Waiters),
     answered : SUBSET Waiters]

Storing == store \in Stores

Mailing ==
    /\ requests \in [Peers -> Seq(SUBSET Foreign)]
    /\ replies \in [Peers -> Seq(Foreign)]

\* Commands are numbered downwards: a new waiter has a number no cancelled one has.
Synchronizing ==
    /\ sync \in [round : Nat, pending : SUBSET Entries, unpolled : SUBSET Waiters,
                 waiting : SUBSET Waiters, cancelled : SUBSET Waiters]
    /\ \A w \in sync.cancelled : w.id > budget["commands"]
    /\ \A e \in sync.pending : e.id > budget["commands"]
    /\ \A e, f \in sync.pending : e.digest = f.digest => e = f

(***************************************************************************)
(* The inductive invariant of the worker.                                  *)
(***************************************************************************)
IInv ==
    /\ MakerTypes
    /\ Pausing
    /\ Broadcasting
    /\ Counting
    /\ Announcing
    /\ Storing
    /\ Mailing
    /\ Synchronizing
    /\ WaiterForEveryPending

-----------------------------------------------------------------------------
(***************************************************************************)
(* Every step of a connection keeps its invariant, and takes back nothing  *)
(* that was received or resolved.                                          *)
(***************************************************************************)
Later(c, d) == c.received \subseteq d.received /\ c.resolved \subseteq d.resolved

\* The fields of a connection, whose numbers are naturals.
LEMMA ConnectionFields ==
  ASSUME NEW n \in Nat, NEW c \in Connections(n)
  PROVE  /\ c.channel \in Seq(1 .. n) /\ c.buffer \in Seq(1 .. n) /\ c.pending \in Seq(1 .. n)
         /\ c.wire \in Seq(1 .. n) /\ c.acks \in Seq(1 .. n) /\ c.up \in BOOLEAN
         /\ c.received \in SUBSET (1 .. n) /\ c.resolved \in SUBSET (1 .. n)
         /\ c.channel \in Seq(Nat) /\ c.buffer \in Seq(Nat) /\ c.pending \in Seq(Nat)
         /\ c.wire \in Seq(Nat) /\ c.acks \in Seq(Nat)
<1>1. 1 .. n \subseteq Nat
  OBVIOUS
<1>2. Seq(1 .. n) \subseteq Seq(Nat)
  BY <1>1, SeqMonotonic
<1> QED
  BY <1>2 DEF Connections

LEMMA NewDelivers ==
  ASSUME NEW cancelled
  PROVE  Delivering(NewConnection, 0, cancelled)
<1> DEFINE c == NewConnection
<1>1. <<>> \in Seq(1 .. 0)
  OBVIOUS
<1>2. c \in Connections(0)
  BY <1>1 DEF NewConnection, Connections
<1>3. /\ c.channel = <<>> /\ c.buffer = <<>> /\ c.pending = <<>> /\ c.wire = <<>>
      /\ c.acks = <<>> /\ c.received = {} /\ c.resolved = {} /\ c.up = FALSE
  BY DEF NewConnection
<1> HIDE DEF c
<1>4. InOrder(c)
  BY <1>3, EmptyRange DEF InOrder, Below
<1>5. <<>> \o <<>> = <<>>
  OBVIOUS
<1>6. Matched(c)
  BY <1>3, <1>5, EmptyRange DEF Matched
<1> QED
  BY <1>2, <1>4, <1>6 DEF Delivering, c

LEMMA MoreCancelled ==
  ASSUME NEW n, NEW c, NEW K, NEW L, K \subseteq L, Delivering(c, n, K)
  PROVE  Delivering(c, n, L)
BY DEF Delivering

LEMMA SendDelivers ==
  ASSUME NEW n \in Nat, NEW c, NEW K, NEW L, K \subseteq L, Delivering(c, n, K)
  PROVE  Delivering(Send(c, n + 1), n + 1, L) /\ Later(c, Send(c, n + 1))
<1> DEFINE m == n + 1
           d == Send(c, m)
<1>0. c \in Connections(n)
  BY DEF Delivering
<1>1. /\ c.channel \in Seq(1 .. n) /\ c.buffer \in Seq(1 .. n) /\ c.pending \in Seq(1 .. n)
      /\ c.wire \in Seq(1 .. n) /\ c.acks \in Seq(1 .. n) /\ c.up \in BOOLEAN
      /\ c.received \in SUBSET (1 .. n) /\ c.resolved \in SUBSET (1 .. n)
      /\ c.channel \in Seq(Nat) /\ c.buffer \in Seq(Nat) /\ c.pending \in Seq(Nat)
  BY <1>0, ConnectionFields
<1>2. 1 .. n \subseteq 1 .. m /\ m \in 1 .. m /\ m \in Nat /\ \A i \in 1 .. n : i < m
  OBVIOUS
<1>3. Seq(1 .. n) \subseteq Seq(1 .. m)
  BY <1>2, SeqMonotonic
<1>4. /\ d.channel = Append(c.channel, m) /\ d.buffer = c.buffer /\ d.pending = c.pending
      /\ d.wire = c.wire /\ d.acks = c.acks /\ d.received = c.received
      /\ d.resolved = c.resolved /\ d.up = c.up
  BY <1>0 DEF Send, Connections
<1>5. Append(c.channel, m) \in Seq(1 .. m)
  BY <1>1, <1>2, <1>3, AppendProperties
<1>6. d \in Connections(m)
  <2>1. \A k : k \in 1 .. n => k \in 1 .. m
    BY <1>2
  <2>2. d = [c EXCEPT !.channel = Append(c.channel, m)]
    BY DEF Send
  <2>3. /\ c.buffer \in Seq(1 .. m) /\ c.pending \in Seq(1 .. m)
        /\ c.wire \in Seq(1 .. m) /\ c.acks \in Seq(1 .. m)
        /\ c.received \in SUBSET (1 .. m) /\ c.resolved \in SUBSET (1 .. m)
    BY <1>1, <1>3, <2>1
  <2> HIDE DEF d, m
  <2> QED
    BY <1>0, <1>5, <2>2, <2>3 DEF Connections
<1> HIDE DEF d, m
<1>7. \A s \in Seq(1 .. n) : \A a \in Range(s) : a \in 1 .. n
  BY RangeMember
<1>8. Range(d.channel) = Range(c.channel) \cup {m}
  BY <1>1, <1>2, <1>3, <1>4, AppendRange, SMTT(30)
<1>9. InOrder(d)
  <2>1. InOrder(c)
    BY DEF Delivering
  <2>2. \A a \in Range(c.channel) : a < m
    BY <1>1, <1>2, <1>7
  <2>3. Ascending(d.channel)
    BY <1>1, <1>2, <1>4, <2>1, <2>2, AppendAscending DEF InOrder
  <2>4. Below(d.pending, d.channel)
    BY <1>1, <1>2, <1>4, <1>7, <1>8, <2>1 DEF InOrder, Below
  <2>5. Below(d.buffer, d.channel)
    BY <1>1, <1>2, <1>4, <1>7, <1>8, <2>1 DEF InOrder, Below
  <2> QED
    BY <1>4, <2>1, <2>3, <2>4, <2>5 DEF InOrder
<1>10. Matched(d)
  BY <1>4 DEF Delivering, Matched
<1>11. (1 .. m) \ (d.resolved \cup L) \subseteq Held(d)
  <2>1. (1 .. n) \ (c.resolved \cup K) \subseteq Held(c)
    BY DEF Delivering
  <2>2. \A i \in 1 .. m : i \in 1 .. n \/ i = m
    BY DEF m
  <2> QED
    BY <1>4, <1>8, <2>1, <2>2 DEF Held
<1>12. Later(c, d)
  BY <1>4 DEF Later
<1> QED
  BY <1>6, <1>9, <1>10, <1>11, <1>12 DEF Delivering, d, m

LEMMA ConnectDelivers ==
  ASSUME NEW n \in Nat, NEW c, NEW K, Delivering(c, n, K)
  PROVE  Delivering(Connect(c), n, K) /\ Later(c, Connect(c))
<1> DEFINE d == Connect(c)
<1>0. c \in Connections(n)
  BY DEF Delivering
<1>1. /\ d.channel = c.channel /\ d.buffer = c.buffer /\ d.pending = c.pending
      /\ d.wire = c.wire /\ d.acks = c.acks /\ d.received = c.received
      /\ d.resolved = c.resolved /\ d.up = TRUE /\ d \in Connections(n)
  BY <1>0 DEF Connect, Connections
<1> HIDE DEF d
<1> QED
  BY <1>1 DEF Delivering, InOrder, Matched, Held, Later, d

LEMMA DrainDelivers ==
  ASSUME NEW n \in Nat, NEW c, NEW K, Delivering(c, n, K), CanDrain(c)
  PROVE  Delivering(Drain(c, K), n, K) /\ Later(c, Drain(c, K))
<1> DEFINE d == Drain(c, K)
           m == Head(c.channel)
           buffered == Append(c.buffer, m)
           left == Keep(buffered, ToSet(buffered) \ K)
<1>0. c \in Connections(n) /\ c.channel # <<>> /\ ~c.up
  BY DEF Delivering, CanDrain
<1>1. /\ c.channel \in Seq(1 .. n) /\ c.buffer \in Seq(1 .. n)
      /\ c.channel \in Seq(Nat) /\ c.buffer \in Seq(Nat) /\ c.pending \in Seq(Nat)
  BY <1>0, ConnectionFields
<1>2. /\ m \in 1 .. n /\ m \in Nat /\ Tail(c.channel) \in Seq(1 .. n)
      /\ Range(c.channel) = {m} \cup Range(Tail(c.channel))
  BY <1>0, <1>1, HeadTailRange
<1>3. /\ buffered \in Seq(1 .. n) /\ buffered \in Seq(Nat)
      /\ Range(buffered) = Range(c.buffer) \cup {m}
  BY <1>1, <1>2, AppendRange, AppendProperties
<1>4. InOrder(c)
  BY DEF Delivering
<1>5. Ascending(Tail(c.channel)) /\ \A b \in Range(Tail(c.channel)) : m < b
  BY <1>0, <1>1, <1>4, TailAscending DEF InOrder
<1>6. Ascending(buffered)
  <2>1. \A a \in Range(c.buffer) : a < m
    BY <1>2, <1>4 DEF InOrder, Below
  <2> QED
    BY <1>1, <1>2, <1>4, <2>1, AppendAscending DEF InOrder
<1>7. d = [c EXCEPT !.channel = Tail(@), !.buffer = left]
  BY DEF Drain
<1> HIDE DEF buffered
<1>8. /\ left \in Seq(1 .. n) /\ Ascending(left)
      /\ Range(left) = Range(buffered) \ K
  <2>1. ToSet(buffered) = Range(buffered)
    BY RangeIsToSet
  <2> QED
    BY <1>3, <1>6, <2>1, KeepRange, KeepAscending
<1> HIDE DEF left, d, m
<1>9. /\ d.channel = Tail(c.channel) /\ d.buffer = left /\ d.pending = c.pending
      /\ d.wire = c.wire /\ d.acks = c.acks /\ d.received = c.received
      /\ d.resolved = c.resolved /\ d.up = c.up /\ d \in Connections(n)
  BY <1>0, <1>2, <1>7, <1>8 DEF Connections
<1>10. InOrder(d)
  <2>1. Below(d.buffer, d.channel)
    BY <1>2, <1>3, <1>4, <1>5, <1>8, <1>9 DEF InOrder, Below
  <2>2. Below(d.pending, d.buffer) /\ Below(d.pending, d.channel)
    BY <1>2, <1>3, <1>4, <1>8, <1>9 DEF InOrder, Below
  <2> QED
    BY <1>4, <1>5, <1>8, <1>9, <2>1, <2>2 DEF InOrder
<1>11. Matched(d)
  BY <1>9 DEF Delivering, Matched
<1>12. (1 .. n) \ (d.resolved \cup K) \subseteq Held(d)
  BY <1>2, <1>3, <1>8, <1>9 DEF Delivering, Held
<1> QED
  BY <1>9, <1>10, <1>11, <1>12 DEF Delivering, Later, d

LEMMA TransmitDelivers ==
  ASSUME NEW n \in Nat, NEW c, NEW K, Delivering(c, n, K), CanTransmit(c)
  PROVE  Delivering(Transmit(c, K), n, K) /\ Later(c, Transmit(c, K))
<1> DEFINE d == Transmit(c, K)
           m == Head(c.buffer)
<1>0. c \in Connections(n) /\ c.buffer # <<>> /\ c.up
  BY DEF Delivering, CanTransmit
<1>1. /\ c.wire \in Seq(1 .. n) /\ c.acks \in Seq(1 .. n) /\ c.pending \in Seq(1 .. n)
      /\ c.buffer \in Seq(1 .. n) /\ c.buffer \in Seq(Nat) /\ c.pending \in Seq(Nat)
      /\ c.channel \in Seq(Nat)
  BY <1>0, ConnectionFields
<1>2. /\ m \in 1 .. n /\ m \in Nat /\ Tail(c.buffer) \in Seq(1 .. n)
      /\ Range(c.buffer) = {m} \cup Range(Tail(c.buffer))
  BY <1>0, <1>1, HeadTailRange
<1>3. InOrder(c) /\ Matched(c)
  BY DEF Delivering
<1>4. Ascending(Tail(c.buffer)) /\ \A b \in Range(Tail(c.buffer)) : m < b
  BY <1>0, <1>1, <1>3, TailAscending DEF InOrder
<1>5. CASE m \in K
  <2>1. d = [c EXCEPT !.buffer = Tail(@)]
    BY <1>5 DEF Transmit
  <2> HIDE DEF d, m
  <2>2. /\ d.channel = c.channel /\ d.buffer = Tail(c.buffer) /\ d.pending = c.pending
        /\ d.wire = c.wire /\ d.acks = c.acks /\ d.received = c.received
        /\ d.resolved = c.resolved /\ d.up = c.up /\ d \in Connections(n)
    BY <1>0, <1>2, <2>1 DEF Connections
  <2>3. InOrder(d)
    BY <1>2, <1>3, <1>4, <2>2 DEF InOrder, Below
  <2>4. Matched(d)
    BY <1>3, <2>2 DEF Matched
  <2>5. (1 .. n) \ (d.resolved \cup K) \subseteq Held(d)
    BY <1>2, <1>5, <2>2 DEF Delivering, Held
  <2> QED
    BY <2>2, <2>3, <2>4, <2>5 DEF Delivering, Later, d
<1>6. CASE m \notin K
  <2> DEFINE pending == Append(c.pending, m)
             wire == Append(c.wire, m)
  <2>1. d = [c EXCEPT !.buffer = Tail(@), !.pending = pending, !.wire = wire]
    BY <1>6 DEF Transmit
  <2>2. /\ pending \in Seq(1 .. n) /\ wire \in Seq(1 .. n)
        /\ Range(pending) = Range(c.pending) \cup {m}
    BY <1>1, <1>2, AppendProperties, AppendRange
  <2>3. \A a \in Range(c.pending) : a < m
    BY <1>2, <1>3 DEF InOrder, Below
  <2>4. Ascending(pending)
    BY <1>1, <1>2, <1>3, <2>3, AppendAscending DEF InOrder
  <2>5. pending = c.acks \o wire
    <3> DEFINE S == 1 .. n
               a == c.acks
               w == c.wire
    <3>1. a \in Seq(S) /\ w \in Seq(S) /\ m \in S
      BY <1>1, <1>2
    <3>2. pending = Append(a \o w, m) /\ wire = Append(w, m)
      BY <1>3 DEF Matched
    <3> HIDE DEF S, m, a, w, pending, wire
    <3>3. a \o Append(w, m) = Append(a \o w, m)
      BY <3>1, ConcatAppend
    <3>4. pending = a \o wire
      BY <3>2, <3>3
    <3> QED
      BY <3>4 DEF a
  <2> HIDE DEF d, m, pending, wire
  <2>6. /\ d.channel = c.channel /\ d.buffer = Tail(c.buffer) /\ d.pending = pending
        /\ d.wire = wire /\ d.acks = c.acks /\ d.received = c.received
        /\ d.resolved = c.resolved /\ d.up = c.up /\ d \in Connections(n)
    BY <1>0, <1>2, <2>1, <2>2 DEF Connections
  <2>7. InOrder(d)
    <3>1. Below(d.pending, d.buffer)
      BY <1>2, <1>3, <1>4, <2>2, <2>6 DEF InOrder, Below
    <3>2. Below(d.pending, d.channel) /\ Below(d.buffer, d.channel)
      BY <1>2, <1>3, <2>2, <2>6 DEF InOrder, Below
    <3> QED
      BY <1>3, <1>4, <2>4, <2>6, <3>1, <3>2 DEF InOrder
  <2>8. Matched(d)
    BY <1>0, <1>3, <2>5, <2>6 DEF Matched
  <2>9. (1 .. n) \ (d.resolved \cup K) \subseteq Held(d)
    BY <1>2, <2>2, <2>6 DEF Delivering, Held
  <2> QED
    BY <2>6, <2>7, <2>8, <2>9 DEF Delivering, Later, d
<1> QED
  BY <1>5, <1>6

LEMMA FetchDelivers ==
  ASSUME NEW n \in Nat, NEW c, NEW K, Delivering(c, n, K), CanFetch(c)
  PROVE  Delivering(Fetch(c), n, K) /\ Later(c, Fetch(c))
<1> DEFINE d == Fetch(c)
           m == Head(c.channel)
           one == <<m>>
<1>0. c \in Connections(n) /\ c.channel # <<>> /\ c.buffer = <<>>
  BY DEF Delivering, CanFetch
<1>1. c.channel \in Seq(1 .. n) /\ c.channel \in Seq(Nat) /\ c.pending \in Seq(Nat)
  BY <1>0, ConnectionFields
<1>2. /\ m \in 1 .. n /\ m \in Nat /\ Tail(c.channel) \in Seq(1 .. n)
      /\ Range(c.channel) = {m} \cup Range(Tail(c.channel))
  BY <1>0, <1>1, HeadTailRange
<1>3. InOrder(c)
  BY DEF Delivering
<1>4. Ascending(Tail(c.channel)) /\ \A b \in Range(Tail(c.channel)) : m < b
  BY <1>0, <1>1, <1>3, TailAscending DEF InOrder
<1>5. d = [c EXCEPT !.channel = Tail(@), !.buffer = one]
  BY DEF Fetch
<1>6. one \in Seq(1 .. n) /\ Range(one) = {m} /\ Ascending(one)
  <2>1. one \in Seq(1 .. n) /\ DOMAIN one = 1 .. 1 /\ one[1] = m
    BY <1>2
  <2> HIDE DEF one
  <2>2. \A i \in 1 .. 1 : i = 1
    OBVIOUS
  <2> QED
    BY <2>1, <2>2 DEF Range, Ascending
<1> HIDE DEF d, m, one
<1>7. /\ d.channel = Tail(c.channel) /\ d.buffer = one /\ d.pending = c.pending
      /\ d.wire = c.wire /\ d.acks = c.acks /\ d.received = c.received
      /\ d.resolved = c.resolved /\ d.up = c.up /\ d \in Connections(n)
  BY <1>0, <1>2, <1>5, <1>6 DEF Connections
<1>8. InOrder(d)
  <2>1. Below(d.buffer, d.channel)
    BY <1>4, <1>6, <1>7 DEF Below
  <2>2. Below(d.pending, d.buffer) /\ Below(d.pending, d.channel)
    BY <1>2, <1>3, <1>6, <1>7 DEF InOrder, Below
  <2> QED
    BY <1>3, <1>4, <1>6, <1>7, <2>1, <2>2 DEF InOrder
<1>9. Matched(d)
  BY <1>7 DEF Delivering, Matched
<1>10. (1 .. n) \ (d.resolved \cup K) \subseteq Held(d)
  BY <1>0, <1>2, <1>6, <1>7, EmptyRange DEF Delivering, Held
<1> QED
  BY <1>7, <1>8, <1>9, <1>10 DEF Delivering, Later, d

LEMMA FailDelivers ==
  ASSUME NEW n \in Nat, NEW c, NEW K, Delivering(c, n, K), NEW k \in 0 .. Len(c.wire)
  PROVE  Delivering(Fail(c, k), n, K) /\ Later(c, Fail(c, k))
<1> DEFINE d == Fail(c, k)
           buffer == c.pending \o c.buffer
           received == c.received \cup ToSet(SubSeq(c.wire, 1, k))
<1>0. c \in Connections(n)
  BY DEF Delivering
<1>1. /\ c.pending \in Seq(1 .. n) /\ c.buffer \in Seq(1 .. n) /\ c.wire \in Seq(1 .. n)
      /\ c.pending \in Seq(Nat) /\ c.buffer \in Seq(Nat) /\ c.received \in SUBSET (1 .. n)
  BY <1>0, ConnectionFields
<1>2. d = [c EXCEPT !.up = FALSE, !.buffer = buffer, !.pending = <<>>, !.wire = <<>>,
                    !.acks = <<>>, !.received = received]
  BY DEF Fail
<1>3. InOrder(c)
  BY DEF Delivering
<1>4. /\ buffer \in Seq(1 .. n) /\ Ascending(buffer)
      /\ Range(buffer) = Range(c.pending) \cup Range(c.buffer)
  BY <1>1, <1>3, ConcatAscending, ConcatProperties DEF InOrder
<1>5. received \in SUBSET (1 .. n)
  <2>1. Range(SubSeq(c.wire, 1, k)) \subseteq Range(c.wire)
    BY <1>1, PrefixRange
  <2>2. Range(c.wire) \subseteq 1 .. n
    BY <1>1, RangeMember
  <2> QED
    BY <1>1, <2>1, <2>2, RangeIsToSet
<1>6. c.received \subseteq received
  OBVIOUS
<1>7. <<>> \in Seq(1 .. n) /\ <<>> \o <<>> = <<>>
  OBVIOUS
<1> HIDE DEF d, buffer, received
<1>8. /\ d.channel = c.channel /\ d.buffer = buffer /\ d.pending = <<>>
      /\ d.wire = <<>> /\ d.acks = <<>> /\ d.received = received
      /\ d.resolved = c.resolved /\ d.up = FALSE /\ d \in Connections(n)
  BY <1>0, <1>2, <1>4, <1>5, <1>7 DEF Connections
<1>9. InOrder(d)
  BY <1>3, <1>4, <1>8, EmptyRange DEF InOrder, Below
<1>10. Matched(d)
  BY <1>6, <1>7, <1>8, EmptyRange DEF Delivering, Matched
<1>11. (1 .. n) \ (d.resolved \cup K) \subseteq Held(d)
  BY <1>4, <1>8 DEF Delivering, Held
<1> QED
  BY <1>6, <1>8, <1>9, <1>10, <1>11 DEF Delivering, Later, d

LEMMA ReadDelivers ==
  ASSUME NEW n \in Nat, NEW c, NEW K, Delivering(c, n, K), CanRead(c)
  PROVE  Delivering(Read(c), n, K) /\ Later(c, Read(c)) /\ Head(c.wire) \in 1 .. n
<1> DEFINE d == Read(c)
           m == Head(c.wire)
           acks == Append(c.acks, m)
           received == c.received \cup {m}
<1>0. c \in Connections(n) /\ c.wire # <<>>
  BY DEF Delivering, CanRead
<1>1. /\ c.wire \in Seq(1 .. n) /\ c.acks \in Seq(1 .. n) /\ c.received \in SUBSET (1 .. n)
  BY <1>0, ConnectionFields
<1>2. m \in 1 .. n /\ Tail(c.wire) \in Seq(1 .. n)
  BY <1>0, <1>1, HeadTailRange
<1>3. acks \in Seq(1 .. n) /\ Range(acks) = Range(c.acks) \cup {m}
  <2> DEFINE S == 1 .. n
  <2>1. c.acks \in Seq(S) /\ m \in S
    BY <1>1, <1>2
  <2> HIDE DEF S, m
  <2>2. acks \in Seq(S) /\ Range(acks) = Range(c.acks) \cup {m}
    BY <2>1, AppendRange, AppendProperties
  <2> QED
    BY <2>2 DEF S
<1>4. acks \o Tail(c.wire) = c.acks \o c.wire
  BY <1>0, <1>1, ConcatShift
<1>5. d = [c EXCEPT !.wire = Tail(@), !.acks = acks, !.received = received]
  BY DEF Read
<1>6. received \in SUBSET (1 .. n) /\ c.received \subseteq received /\ m \in received
  BY <1>1, <1>2
<1> HIDE DEF d, m, acks, received
<1>7. /\ d.channel = c.channel /\ d.buffer = c.buffer /\ d.pending = c.pending
      /\ d.wire = Tail(c.wire) /\ d.acks = acks /\ d.received = received
      /\ d.resolved = c.resolved /\ d.up = c.up /\ d \in Connections(n)
  BY <1>0, <1>2, <1>3, <1>5, <1>6 DEF Connections
<1>8. InOrder(d)
  BY <1>7 DEF Delivering, InOrder
<1>9. Matched(d)
  BY <1>3, <1>4, <1>6, <1>7 DEF Delivering, Matched
<1>10. (1 .. n) \ (d.resolved \cup K) \subseteq Held(d)
  BY <1>7 DEF Delivering, Held
<1> QED
  BY <1>2, <1>6, <1>7, <1>8, <1>9, <1>10 DEF Delivering, Later, d, m

LEMMA TakeAckDelivers ==
  ASSUME NEW n \in Nat, NEW c, NEW K, Delivering(c, n, K), CanTakeAck(c)
  PROVE  Delivering(TakeAck(c, K), n, K) /\ Later(c, TakeAck(c, K))
<1> DEFINE d == TakeAck(c, K)
           m == Head(c.pending)
           resolved == IF m \in K THEN c.resolved ELSE c.resolved \cup {m}
<1>0. c \in Connections(n) /\ c.acks # <<>> /\ c.up
  BY DEF Delivering, CanTakeAck
<1>1. /\ c.wire \in Seq(1 .. n) /\ c.acks \in Seq(1 .. n) /\ c.pending \in Seq(1 .. n)
      /\ c.pending \in Seq(Nat) /\ c.resolved \in SUBSET (1 .. n)
  BY <1>0, ConnectionFields
<1>2. InOrder(c) /\ Matched(c)
  BY DEF Delivering
<1>3. /\ c.pending # <<>> /\ m = Head(c.acks)
      /\ Tail(c.pending) = Tail(c.acks) \o c.wire
  <2> DEFINE S == 1 .. n
  <2>1. c.acks \in Seq(S) /\ c.wire \in Seq(S)
    BY <1>1
  <2>2. c.pending = c.acks \o c.wire
    BY <1>2 DEF Matched
  <2> HIDE DEF S
  <2>3. /\ c.acks \o c.wire # <<>> /\ Head(c.acks \o c.wire) = Head(c.acks)
        /\ Tail(c.acks \o c.wire) = Tail(c.acks) \o c.wire
    BY <1>0, <2>1, ConcatTail
  <2> QED
    BY <2>2, <2>3
<1>4. /\ Head(c.acks) \in 1 .. n /\ Tail(c.acks) \in Seq(1 .. n)
      /\ Range(c.acks) = {Head(c.acks)} \cup Range(Tail(c.acks))
  BY <1>0, <1>1, HeadTailRange
<1>5. /\ m \in 1 .. n /\ Tail(c.pending) \in Seq(1 .. n)
      /\ Range(c.pending) = {m} \cup Range(Tail(c.pending))
  BY <1>1, <1>3, HeadTailRange
<1>6. Ascending(Tail(c.pending))
  BY <1>1, <1>2, <1>3, TailAscending DEF InOrder
<1>7. d = [c EXCEPT !.acks = Tail(@), !.pending = Tail(@), !.resolved = resolved]
  BY <1>3 DEF TakeAck
<1>8. /\ resolved \in SUBSET (1 .. n) /\ c.resolved \subseteq resolved
      /\ resolved \subseteq c.resolved \cup {m}
      /\ m \in K \/ m \in resolved
  BY <1>1, <1>5
<1>9. m \in c.received
  BY <1>2, <1>3, <1>4 DEF Matched
<1> HIDE DEF d, m, resolved
<1>10. /\ d.channel = c.channel /\ d.buffer = c.buffer /\ d.pending = Tail(c.pending)
       /\ d.wire = c.wire /\ d.acks = Tail(c.acks) /\ d.received = c.received
       /\ d.resolved = resolved /\ d.up = c.up /\ d \in Connections(n)
  BY <1>0, <1>4, <1>5, <1>7, <1>8 DEF Connections
<1>11. InOrder(d)
  BY <1>2, <1>5, <1>6, <1>10 DEF InOrder, Below
<1>12. Matched(d)
  BY <1>0, <1>2, <1>3, <1>4, <1>8, <1>9, <1>10 DEF Matched
<1>13. (1 .. n) \ (d.resolved \cup K) \subseteq Held(d)
  BY <1>5, <1>8, <1>10 DEF Delivering, Held
<1> QED
  BY <1>8, <1>10, <1>11, <1>12, <1>13 DEF Delivering, Later, d

-----------------------------------------------------------------------------
(***************************************************************************)
(* The store keeps what was written, and whoever it promised an answer.    *)
(***************************************************************************)
Promised(s, w) ==
    \/ \E c \in Range(s.commands) : c.op = "notify" /\ c.waiter = w
    \/ <<w.digest, w>> \in s.obligations /\ w.digest \notin s.db
    \/ w \in s.answered

Written(s) == {c \in Range(s.commands) : c.op = "write"}

LEMMA ReadableIs ==
  ASSUME NEW s
  PROVE  Readable(s) = s.db \cup {c.key : c \in Written(s)}
BY DEF Readable, ToSet, Range, Written

LEMMA CommandFacts ==
  /\ \A k \in Keys : [op |-> "write", key |-> k] \in Commands
  /\ \A w \in Waiters : [op |-> "notify", key |-> w.digest, waiter |-> w] \in Commands
  /\ \A c \in Commands : \/ c.op = "write" /\ c.key \in Keys
                         \/ /\ c.op = "notify" /\ c.waiter \in Waiters
                            /\ c.key = c.waiter.digest /\ c.key \in Foreign
<1>1. \A k \in Keys : [op |-> "write", key |-> k] \in Commands
  BY DEF Commands, Writes
<1>2. ASSUME NEW w \in Waiters PROVE [op |-> "notify", key |-> w.digest, waiter |-> w] \in Commands
  <2>1. w.digest \in Foreign
    BY DEF Waiters
  <2> QED
    BY <2>1 DEF Commands, Notifies
<1>3. ASSUME NEW c \in Writes PROVE c.op = "write" /\ c.key \in Keys
  BY DEF Writes
<1>4. ASSUME NEW c \in Notifies
      PROVE  c.op = "notify" /\ c.waiter \in Waiters /\ c.key \in Foreign
  BY DEF Notifies
<1> QED
  BY <1>1, <1>2, <1>3, <1>4 DEF Commands

LEMMA WriteKeeps ==
  ASSUME NEW s \in Stores, NEW k \in Keys
  PROVE  /\ Write(s, k) \in Stores
         /\ Readable(Write(s, k)) = Readable(s) \cup {k}
         /\ \A w : Promised(s, w) => Promised(Write(s, k), w)
<1> DEFINE d == Write(s, k)
           c == [op |-> "write", key |-> k]
           commands == Append(s.commands, c)
<1>1. s.commands \in Seq(Commands) /\ c \in Commands /\ c.op = "write" /\ c.key = k
  BY CommandFacts DEF Stores
<1>2. d = [s EXCEPT !.commands = commands]
  BY DEF Write
<1> HIDE DEF c
<1>3. commands \in Seq(Commands) /\ Range(commands) = Range(s.commands) \cup {c}
  BY <1>1, AppendRange, AppendProperties
<1> HIDE DEF d, commands
<1>4. /\ d \in Stores /\ d.commands = commands /\ d.db = s.db
      /\ d.obligations = s.obligations /\ d.answered = s.answered
  BY <1>2, <1>3 DEF Stores
<1>5. Written(d) = Written(s) \cup {c}
  BY <1>1, <1>3, <1>4 DEF Written
<1>6. Readable(d) = Readable(s) \cup {k}
  BY <1>1, <1>4, <1>5, ReadableIs
<1> QED
  BY <1>3, <1>4, <1>6 DEF Promised, d

LEMMA NotifyKeeps ==
  ASSUME NEW s \in Stores, NEW v \in Waiters
  PROVE  /\ NotifyRead(s, v.digest, v) \in Stores
         /\ Readable(NotifyRead(s, v.digest, v)) = Readable(s)
         /\ \A w : Promised(s, w) => Promised(NotifyRead(s, v.digest, v), w)
         /\ Promised(NotifyRead(s, v.digest, v), v)
<1> DEFINE d == NotifyRead(s, v.digest, v)
           c == [op |-> "notify", key |-> v.digest, waiter |-> v]
           commands == Append(s.commands, c)
<1>1. s.commands \in Seq(Commands) /\ c \in Commands /\ c.op = "notify" /\ c.waiter = v
  BY CommandFacts DEF Stores
<1>2. d = [s EXCEPT !.commands = commands]
  BY DEF NotifyRead
<1> HIDE DEF c
<1>3. commands \in Seq(Commands) /\ Range(commands) = Range(s.commands) \cup {c}
  BY <1>1, AppendRange, AppendProperties
<1> HIDE DEF d, commands
<1>4. /\ d \in Stores /\ d.commands = commands /\ d.db = s.db
      /\ d.obligations = s.obligations /\ d.answered = s.answered
  BY <1>2, <1>3 DEF Stores
<1>5. Written(d) = Written(s)
  BY <1>1, <1>3, <1>4 DEF Written
<1>6. Readable(d) = Readable(s)
  BY <1>4, <1>5, ReadableIs
<1> QED
  BY <1>1, <1>3, <1>4, <1>6 DEF Promised, d

LEMMA ForgetKeeps ==
  ASSUME NEW s \in Stores, NEW v
  PROVE  /\ Forget(s, v) \in Stores
         /\ Readable(Forget(s, v)) = Readable(s)
         /\ \A w : w # v /\ Promised(s, w) => Promised(Forget(s, v), w)
<1> DEFINE d == Forget(s, v)
           others == {c \in ToSet(s.commands) : c.op = "write" \/ c.waiter # v}
           commands == Keep(s.commands, others)
           obligations == {o \in s.obligations : o[2] # v}
<1>1. /\ s.commands \in Seq(Commands) /\ s.obligations \in SUBSET (Foreign \X Waiters)
      /\ s.answered \in SUBSET Waiters
  BY DEF Stores
<1>2. d = [s EXCEPT !.commands = commands, !.obligations = obligations,
                    !.answered = @ \ {v}]
  BY DEF Forget
<1>3. others = {c \in Range(s.commands) : c.op = "write" \/ c.waiter # v}
  BY RangeIsToSet
<1> HIDE DEF others
<1>4. commands \in Seq(Commands) /\ Range(commands) = Range(s.commands) \cap others
  BY <1>1, KeepRange
<1>5. Range(commands) = others
  BY <1>3, <1>4
<1>6. obligations \in SUBSET (Foreign \X Waiters)
  BY <1>1
<1> HIDE DEF d, commands
<1>7. /\ d \in Stores /\ d.commands = commands /\ d.db = s.db
      /\ d.obligations = obligations /\ d.answered = s.answered \ {v}
  BY <1>1, <1>2, <1>4, <1>6 DEF Stores
<1>8. Written(d) = Written(s)
  BY <1>3, <1>5, <1>7 DEF Written
<1>9. Readable(d) = Readable(s)
  BY <1>7, <1>8, ReadableIs
<1>10. ASSUME NEW w, w # v, Promised(s, w) PROVE Promised(d, w)
  <2>1. CASE \E c \in Range(s.commands) : c.op = "notify" /\ c.waiter = w
    BY <1>3, <1>5, <1>7, <1>10, <2>1 DEF Promised
  <2>2. CASE <<w.digest, w>> \in s.obligations /\ w.digest \notin s.db
    BY <1>7, <1>10, <2>2 DEF Promised
  <2>3. CASE w \in s.answered
    BY <1>7, <1>10, <2>3 DEF Promised
  <2> QED
    BY <1>10, <2>1, <2>2, <2>3 DEF Promised
<1> QED
  BY <1>7, <1>9, <1>10 DEF d

LEMMA PerformKeeps ==
  ASSUME NEW s \in Stores, s.commands # <<>>
  PROVE  /\ Perform(s) \in Stores
         /\ Readable(Perform(s)) = Readable(s)
         /\ \A w \in Waiters : Promised(s, w) => Promised(Perform(s), w)
<1> DEFINE d == Perform(s)
           c == Head(s.commands)
           due == {o \in s.obligations : o[1] = c.key}
           answered == {o[2] : o \in due}
<1>1. /\ s.commands \in Seq(Commands) /\ s.obligations \in SUBSET (Foreign \X Waiters)
      /\ s.answered \in SUBSET Waiters /\ s.db \in SUBSET Keys
  BY DEF Stores
<1>2. /\ c \in Commands /\ Tail(s.commands) \in Seq(Commands)
      /\ Range(s.commands) = {c} \cup Range(Tail(s.commands))
  BY <1>1, HeadTailRange
<1>3. answered \in SUBSET Waiters
  BY <1>1
<1>4. CASE c.op = "write"
  <2>1. c.key \in Keys
    BY <1>2, <1>4, CommandFacts
  <2>2. d = [s EXCEPT !.commands = Tail(@), !.db = @ \cup {c.key}, !.obligations = @ \ due,
                      !.answered = @ \cup answered]
    BY <1>4 DEF Perform
  <2>3. s.obligations \ due \in SUBSET (Foreign \X Waiters)
    BY <1>1
  <2>0. \A w : <<w.digest, w>> \in s.obligations /\ w.digest = c.key => w \in answered
    OBVIOUS
  <2>01. \A w : <<w.digest, w>> \in s.obligations /\ w.digest # c.key =>
                    <<w.digest, w>> \in s.obligations \ due
    OBVIOUS
  <2> HIDE DEF d, c, due, answered
  <2>4. /\ d \in Stores /\ d.commands = Tail(s.commands) /\ d.db = s.db \cup {c.key}
        /\ d.obligations = s.obligations \ due /\ d.answered = s.answered \cup answered
    BY <1>1, <1>2, <1>3, <2>1, <2>2, <2>3 DEF Stores
  <2>5. Written(s) = Written(d) \cup {c}
    BY <1>2, <1>4, <2>4 DEF Written
  <2>6. Readable(d) = Readable(s)
    BY <2>4, <2>5, ReadableIs
  <2>7. ASSUME NEW w, Promised(s, w) PROVE Promised(d, w)
    <3>1. CASE \E b \in Range(s.commands) : b.op = "notify" /\ b.waiter = w
      BY <1>2, <1>4, <2>4, <3>1 DEF Promised
    <3>2. CASE <<w.digest, w>> \in s.obligations /\ w.digest \notin s.db
      BY <2>0, <2>01, <2>4, <3>2 DEF Promised
    <3>3. CASE w \in s.answered
      BY <2>4, <3>3 DEF Promised
    <3> QED
      BY <2>7, <3>1, <3>2, <3>3 DEF Promised
  <2> QED
    BY <2>4, <2>6, <2>7 DEF d
<1>5. CASE c.op # "write"
  <2>1. c.op = "notify" /\ c.waiter \in Waiters /\ c.key = c.waiter.digest /\ c.key \in Foreign
    BY <1>2, <1>5, CommandFacts
  <2> DEFINE v == c.waiter
  <2>2. CASE c.key \in s.db
    <3>1. d = [s EXCEPT !.commands = Tail(@), !.answered = @ \cup {v}]
      BY <1>5, <2>2 DEF Perform
    <3> HIDE DEF d, c
    <3>2. /\ d \in Stores /\ d.commands = Tail(s.commands) /\ d.db = s.db
          /\ d.obligations = s.obligations /\ d.answered = s.answered \cup {v}
      BY <1>1, <1>2, <2>1, <3>1 DEF Stores
    <3>3. Written(s) = Written(d)
      BY <1>2, <2>1, <3>2 DEF Written
    <3>4. Readable(d) = Readable(s)
      BY <3>2, <3>3, ReadableIs
    <3>5. ASSUME NEW w, Promised(s, w) PROVE Promised(d, w)
      BY <1>2, <3>2, <3>5 DEF Promised
    <3> QED
      BY <3>2, <3>4, <3>5 DEF d
  <2>3. CASE c.key \notin s.db
    <3>1. d = [s EXCEPT !.commands = Tail(@), !.obligations = @ \cup {<<c.key, v>>}]
      BY <1>5, <2>3 DEF Perform
    <3>2. s.obligations \cup {<<c.key, v>>} \in SUBSET (Foreign \X Waiters)
      BY <1>1, <2>1
    <3> HIDE DEF d, c
    <3>3. /\ d \in Stores /\ d.commands = Tail(s.commands) /\ d.db = s.db
          /\ d.obligations = s.obligations \cup {<<c.key, v>>} /\ d.answered = s.answered
      BY <1>1, <1>2, <3>1, <3>2 DEF Stores
    <3>4. Written(s) = Written(d)
      BY <1>2, <2>1, <3>3 DEF Written
    <3>5. Readable(d) = Readable(s)
      BY <3>3, <3>4, ReadableIs
    <3>6. ASSUME NEW w, Promised(s, w) PROVE Promised(d, w)
      BY <1>2, <2>1, <2>3, <3>3, <3>6 DEF Promised
    <3> QED
      BY <3>3, <3>5, <3>6 DEF d
  <2> QED
    BY <2>2, <2>3
<1> QED
  BY <1>4, <1>5

-----------------------------------------------------------------------------
(***************************************************************************)
(* Stake, budgets and mail.                                                *)
(***************************************************************************)
\* A quorum of acknowledgements and our own stake is a quorum of holders.
LEMMA OwnStake ==
  ASSUME NEW S \in SUBSET Peers
  PROVE  StakeOf({Me} \cup S) = Stake[Me] + StakeOf(S)
<1>1. Me \in Authorities /\ {Me} \cup S \in SUBSET Authorities /\ S \in SUBSET Authorities
  BY WorkerAssumption DEF Peers
<1>2. ({Me} \cup S) \ S = {Me} /\ ({Me} \cup S) \cap S = S
  BY DEF Peers
<1>3. StakeOf({Me} \cup S) = StakeOf({Me}) + StakeOf(S)
  BY <1>1, <1>2, StakeSplit
<1>4. StakeOf({Me}) = Stake[Me]
  BY <1>1, StakeOfOne
<1> QED
  BY <1>3, <1>4

LEMMA Spending ==
  ASSUME budget \in [BudgetFields -> Nat], NEW f \in BudgetFields, Spend(f)
  PROVE  /\ budget' \in [BudgetFields -> Nat]
         /\ budget[f] > 0 /\ budget'[f] = budget[f] - 1
         /\ \A g \in BudgetFields : g # f => budget'[g] = budget[g]
BY DEF Spend

LEMMA BudgetFieldsFacts ==
  /\ "transactions" \in BudgetFields /\ "failures" \in BudgetFields
  /\ "notices" \in BudgetFields /\ "breaks" \in BudgetFields /\ "commands" \in BudgetFields
  /\ "cleanups" \in BudgetFields /\ "losses" \in BudgetFields
BY DEF BudgetFields

\* The transactions of a behaviour are bounded.
LEMMA TransactionsBounded ==
  /\ MaxTransactions \in Nat
  /\ \A b \in Budgets : b["transactions"] <= MaxTransactions
<1> DEFINE S == {b.transactions : b \in Budgets}
<1>1. \A b \in Budgets : b.transactions \in Nat /\ b.transactions = b["transactions"]
  BY WorkerAssumption, BudgetFieldsFacts
<1>2. \E x \in S : \A y \in S : x >= y
  BY <1>1, WorkerAssumption
<1>3. MaxTransactions \in S /\ \A y \in S : MaxTransactions >= y
  BY <1>2 DEF MaxTransactions, Max
<1> QED
  BY <1>1, <1>3

\* The answer of a helper is a sequence of batches.
LEMMA AnswerIsSeq ==
  ASSUME NEW S \in SUBSET Foreign
  PROVE  SetToSeq(S) \in Seq(Foreign)
<1>1. IsFiniteSet(S)
  BY WorkerSyncAssumption, FS_Subset
<1>2. Cardinality(S) \in Nat
  BY <1>1, FS_CardinalityType
<1> DEFINE n == Cardinality(S)
<1>3. PICK g : g \in Bijection(1 .. n, S)
  BY <1>1, FS_CountingElements, FS_CardinalityType DEF ExistsBijection
<1>4. g \in [1 .. n -> S] /\ IsInjective(g)
  BY <1>3 DEF Bijection, Injection, IsInjective
<1>5. SetToSeq(S) \in [1 .. n -> S]
  BY <1>4 DEF SetToSeq
<1>6. SetToSeq(S) \in [1 .. n -> Foreign]
  BY <1>5
<1> QED
  BY <1>2, <1>6, IsASeq

-----------------------------------------------------------------------------
(***************************************************************************)
(* Parts of the invariant that a step leaves alone.                        *)
(***************************************************************************)
LEMMA InitIInv == NodeInit => IInv
<1> SUFFICES ASSUME NodeInit PROVE IInv
  OBVIOUS
<1> USE DEF NodeInit, Init
<1>1. <<>> \in Seq(Nat) /\ <<>> \in Seq(Seq(Nat)) /\ <<>> \in Seq(BOOLEAN)
      /\ <<>> \in Seq(1 .. 0) /\ <<>> \in Seq(Commands) /\ <<>> \in Seq(SUBSET Foreign)
      /\ <<>> \in Seq(Foreign) /\ Len(<<>>) = 0
  OBVIOUS
<1>2. MakerTypes
  <2>1. budget \in [BudgetFields -> Nat] /\ budget["transactions"] \in Nat
    BY WorkerAssumption, BudgetFieldsFacts
  <2>2. sent + budget["transactions"] <= MaxTransactions
    BY <2>1, TransactionsBounded
  <2>3. Len(batch) < BatchSize
    BY <1>1, WorkerAssumption
  <2> QED
    BY <1>1, <2>1, <2>2, <2>3 DEF MakerTypes
<1>3. Pausing
  <2>1. Delivering(link, 0, 1 .. (0 - 1))
    BY NewDelivers
  <2>2. checked \in [{"live", "stale"} -> (1 .. 0) \cup {Idle}]
    OBVIOUS
  <2>3. told = <<>> /\ stale = <<>> /\ watch = 0 /\ changed = FALSE
    OBVIOUS
  <2>4. 0 \in 0 .. 0
    OBVIOUS
  <2> HIDE DEF NodeInit, Init
  <2> QED
    BY <1>1, <2>1, <2>2, <2>3, <2>4 DEF Pausing
<1>4. Broadcasting
  BY <1>1, NewDelivers DEF Broadcasting
<1>5. Counting
  BY <1>1, EmptyRange DEF Counting
<1>6. Announcing
  BY DEF Announcing
<1>7. Storing
  BY <1>1 DEF Storing, Stores, NewStore
<1>8. Mailing
  BY <1>1 DEF Mailing, NoMail
<1>9. Synchronizing /\ WaiterForEveryPending
  BY DEF Synchronizing, NewSync, WaiterForEveryPending
<1> QED
  BY <1>2, <1>3, <1>4, <1>5, <1>6, <1>7, <1>8, <1>9 DEF IInv

LEMMA NumberedBatches ==
  ASSUME MakerTypes
  PROVE  Len(batches) \in Nat /\ Batches = 1 .. Len(batches)
BY LenProperties DEF MakerTypes, Batches

\* Nothing that concerns batches changes.
LEMMA PathKept ==
  ASSUME UNCHANGED <<batches, connection, waiting, waiter, closed, processing>>
  PROVE  /\ Broadcasting => Broadcasting'
         /\ Counting => Counting'
         /\ Announcing /\ announced' = announced /\ Readable(store) \subseteq Readable(store)'
                => Announcing'
BY DEF Broadcasting, Counting, Announcing, Holders

LEMMA MakerKept ==
  ASSUME MakerTypes, UNCHANGED <<sent, at, batch, batches>>,
         budget' \in [BudgetFields -> Nat], budget'["transactions"] = budget["transactions"]
  PROVE  MakerTypes'
BY DEF MakerTypes

LEMMA PausingKept ==
  ASSUME Pausing, UNCHANGED pauseVars
  PROVE  Pausing'
BY DEF Pausing, pauseVars

\* Neither the Synchronizer nor its mail and its store step.
LEMMA SyncKept ==
  ASSUME UNCHANGED <<sync, requests, replies, store>>,
         Storing, Mailing, Synchronizing, WaiterForEveryPending,
         budget'["commands"] = budget["commands"]
  PROVE  Storing' /\ Mailing' /\ Synchronizing' /\ WaiterForEveryPending'
BY DEF Storing, Mailing, Synchronizing, WaiterForEveryPending

\* Batches that a quorum has stay at a quorum.
LEMMA HoldersStay ==
  ASSUME \A p \in Peers : Later(connection[p], connection'[p]), NEW b, IsQuorum(Holders(b))
  PROVE  IsQuorum(Holders(b)')
<1>1. Holders(b) \subseteq Holders(b)'
  BY DEF Holders, Later
<1>2. Holders(b)' \in SUBSET Authorities
  BY WorkerAssumption DEF Holders, Peers
<1> QED
  BY <1>1, <1>2, QuorumMonotone

-----------------------------------------------------------------------------
(***************************************************************************)
(* The pause.                                                              *)
(***************************************************************************)
\* What a step of the proposer's connections and runners leaves alone.
OthersKeep ==
    UNCHANGED <<makerVars, connection, waiterVars, syncVars>>

LEMMA PauseStep ==
  ASSUME IInv, OthersKeep, Pausing', budget' \in [BudgetFields -> Nat],
         budget'["transactions"] = budget["transactions"],
         budget'["commands"] = budget["commands"]
  PROVE  IInv'
<1>1. UNCHANGED <<sent, at, batch, batches, connection, waiting, waiter, closed, processing,
                  store, announced, sync, requests, replies>>
  BY DEF OthersKeep, makerVars, waiterVars, syncVars
<1>2. MakerTypes'
  BY <1>1, MakerKept DEF IInv
<1>3. Readable(store) \subseteq Readable(store)'
  BY <1>1
<1>4. Broadcasting' /\ Counting' /\ Announcing'
  BY <1>1, <1>3, PathKept DEF IInv
<1>5. Storing' /\ Mailing' /\ Synchronizing' /\ WaiterForEveryPending'
  BY <1>1, SyncKept DEF IInv
<1> QED
  BY <1>2, <1>4, <1>5 DEF IInv

LEMMA NotifyStep ==
  ASSUME IInv, NEW pause \in BOOLEAN, Notify(pause), UNCHANGED syncVars
  PROVE  IInv'
<1> DEFINE n == Len(told)
<1>1. /\ budget' \in [BudgetFields -> Nat] /\ budget'["transactions"] = budget["transactions"]
      /\ budget'["commands"] = budget["commands"]
  BY Spending, BudgetFieldsFacts DEF IInv, MakerTypes, Notify
<1>2. n \in Nat /\ told' \in Seq(BOOLEAN) /\ Len(told') = n + 1
  BY AppendProperties, LenProperties DEF Notify, IInv, Pausing
<1>3. link' = Send(link, n + 1)
  BY <1>2 DEF Notify
<1>4. Delivering(link, n, 1 .. (n - 1))
  BY DEF IInv, Pausing
<1> DEFINE K == 1 .. (n - 1)
           L == 1 .. ((n + 1) - 1)
<1>5. K \subseteq L
  BY <1>2
<1> HIDE DEF n, K, L
<1>6. Delivering(link', n + 1, L)
  <2>1. Delivering(link, n, K)
    BY <1>4 DEF K
  <2> QED
    BY <1>2, <1>3, <1>5, <2>1, SendDelivers
<1>7. stale' \in Seq(1 .. (n + 1))
  <2>1. stale' = stale /\ stale \in Seq(1 .. n)
    BY DEF Notify, IInv, Pausing, n
  <2>2. 1 .. n \subseteq 1 .. (n + 1)
    BY <1>2
  <2> QED
    BY <2>1, <2>2, SeqMonotonic
<1>8. checked' \in [{"live", "stale"} -> (1 .. (n + 1)) \cup {Idle}]
  <2>1. checked' = checked /\ checked \in [{"live", "stale"} -> (1 .. n) \cup {Idle}]
    BY DEF Notify, IInv, Pausing, n
  <2>2. \A k \in 1 .. n : k \in 1 .. (n + 1)
    BY <1>2
  <2> QED
    BY <2>1, <2>2
<1>9. watch' \in 0 .. (n + 1) /\ changed' \in BOOLEAN
  <2>1. watch' = watch /\ changed' = changed /\ watch \in 0 .. n /\ changed \in BOOLEAN
    BY DEF Notify, IInv, Pausing, n
  <2> QED
    BY <1>2, <2>1
<1>10. Pausing'
  BY <1>2, <1>6, <1>7, <1>8, <1>9 DEF Pausing, L
<1>11. OthersKeep
  BY DEF Notify, OthersKeep
<1> QED
  BY <1>1, <1>10, <1>11, PauseStep

LEMMA StepLinkStep ==
  ASSUME IInv, NEW c, StepLink(c), UNCHANGED syncVars,
         Delivering(c, Len(told), 1 .. (Len(told) - 1))
  PROVE  IInv'
<1>1. /\ budget' = budget /\ told' = told /\ link' = c /\ stale' = stale /\ checked' = checked
      /\ watch' = watch /\ changed' = changed
  BY DEF StepLink
<1>2. Pausing'
  BY <1>1 DEF IInv, Pausing
<1>3. OthersKeep
  BY DEF StepLink, OthersKeep
<1> QED
  BY <1>1, <1>2, <1>3, PauseStep DEF IInv, MakerTypes

LEMMA ExchangeLinkStep ==
  ASSUME IInv, ExchangeLink, UNCHANGED syncVars
  PROVE  IInv'
<1> DEFINE n == Len(told)
           K == 1 .. (n - 1)
<1>1. n \in Nat /\ Delivering(link, n, K) /\ Cancelled = K
  BY LenProperties DEF IInv, Pausing, Cancelled
<1> HIDE DEF n, K
<1>2. ASSUME NEW c, StepLink(c), Delivering(c, n, K) PROVE IInv'
  BY <1>2, StepLinkStep DEF n, K
<1>3. CASE StepLink(Connect(link))
  BY <1>1, <1>2, <1>3, ConnectDelivers
<1>4. CASE CanDrain(link) /\ StepLink(Drain(link, K))
  BY <1>1, <1>2, <1>4, DrainDelivers
<1>5. CASE CanTransmit(link) /\ StepLink(Transmit(link, K))
  BY <1>1, <1>2, <1>5, TransmitDelivers
<1>6. CASE CanFetch(link) /\ StepLink(Fetch(link))
  BY <1>1, <1>2, <1>6, FetchDelivers
<1>7. CASE CanTakeAck(link) /\ StepLink(TakeAck(link, K))
  BY <1>1, <1>2, <1>7, TakeAckDelivers
<1> QED
  BY <1>1, <1>3, <1>4, <1>5, <1>6, <1>7 DEF ExchangeLink

LEMMA BreakLinkStep ==
  ASSUME IInv, BreakLink, UNCHANGED syncVars
  PROVE  IInv'
<1> DEFINE n == Len(told)
           K == 1 .. (n - 1)
<1>1. /\ budget' \in [BudgetFields -> Nat] /\ budget'["transactions"] = budget["transactions"]
      /\ budget'["commands"] = budget["commands"]
  BY Spending, BudgetFieldsFacts DEF IInv, MakerTypes, BreakLink
<1>2. n \in Nat /\ Delivering(link, n, K)
  BY LenProperties DEF IInv, Pausing
<1>3. PICK k \in 0 .. Len(link.wire) :
        link' = Fail(link, k) /\ stale' = SubSeq(link.wire, 1, k)
  BY DEF BreakLink
<1>4. link.wire \in Seq(1 .. n)
  BY <1>2, ConnectionFields DEF Delivering
<1>5. /\ told' = told /\ watch' = watch /\ changed' = changed
      /\ checked' = [live |-> Idle, stale |-> checked["live"]]
  BY DEF BreakLink
<1>6. checked' \in [{"live", "stale"} -> (1 .. n) \cup {Idle}]
  <2>1. checked["live"] \in (1 .. n) \cup {Idle}
    BY DEF IInv, Pausing
  <2> QED
    BY <1>5, <2>1
<1>7. stale' \in Seq(1 .. n)
  BY <1>3, <1>4, PrefixRange
<1>8. Delivering(link', n, K)
  <2> HIDE DEF n, K
  <2> QED
    BY <1>2, <1>3, FailDelivers
<1>9. Pausing'
  BY <1>5, <1>6, <1>7, <1>8 DEF IInv, Pausing
<1>10. OthersKeep
  BY DEF BreakLink, OthersKeep
<1> QED
  BY <1>1, <1>9, <1>10, PauseStep

LEMMA CompareStep ==
  ASSUME IInv, NEW r \in {"live", "stale"}, Compare(r), UNCHANGED syncVars
  PROVE  IInv'
<1> DEFINE n == Len(told)
           K == 1 .. (n - 1)
           frames == IF r = "live" THEN link.wire ELSE stale
<1>1. n \in Nat /\ Delivering(link, n, K)
  BY LenProperties DEF IInv, Pausing
<1>2. /\ told' = told /\ watch' = watch /\ changed' = changed /\ budget' = budget
      /\ frames # <<>>
      /\ IF r = "live" THEN link' = Read(link) /\ stale' = stale
         ELSE stale' = Tail(stale) /\ link' = link
      /\ checked' = [checked EXCEPT ![r] = IF IsNewer(Head(frames)) THEN Head(frames) ELSE Idle]
  BY DEF Compare
<1>3. stale \in Seq(1 .. n) /\ checked \in [{"live", "stale"} -> (1 .. n) \cup {Idle}]
  BY DEF IInv, Pausing
<1>4. /\ Delivering(link', n, K) /\ stale' \in Seq(1 .. n)
      /\ Head(frames) \in 1 .. n
  <2>1. CASE r = "live"
    <3>1. CanRead(link) /\ link' = Read(link) /\ stale' = stale /\ frames = link.wire
      BY <1>2, <2>1 DEF CanRead
    <3> HIDE DEF n, K, frames
    <3> QED
      BY <1>1, <1>3, <3>1, ReadDelivers
  <2>2. CASE r = "stale"
    <3>1. stale # <<>> /\ stale' = Tail(stale) /\ link' = link /\ frames = stale
      BY <1>2, <2>2
    <3> HIDE DEF n, K, frames
    <3> QED
      BY <1>1, <1>3, <3>1, HeadTailRange
  <2> QED
    BY <2>1, <2>2
<1>5. checked' \in [{"live", "stale"} -> (1 .. n) \cup {Idle}]
  <2> HIDE DEF n, frames
  <2> QED
    BY <1>2, <1>3, <1>4
<1>6. Pausing'
  BY <1>2, <1>4, <1>5 DEF IInv, Pausing
<1>7. OthersKeep
  BY DEF Compare, OthersKeep
<1> QED
  BY <1>2, <1>6, <1>7, PauseStep DEF IInv, MakerTypes

LEMMA ReplaceStep ==
  ASSUME IInv, NEW r \in {"live", "stale"}, Replace(r), UNCHANGED syncVars
  PROVE  IInv'
<1> DEFINE n == Len(told)
<1>1. /\ told' = told /\ link' = link /\ stale' = stale /\ budget' = budget
      /\ checked[r] # Idle /\ watch' = checked[r] /\ changed' = TRUE
      /\ checked' = [checked EXCEPT ![r] = Idle]
  BY DEF Replace
<1>2. n \in Nat /\ checked \in [{"live", "stale"} -> (1 .. n) \cup {Idle}]
  BY LenProperties DEF IInv, Pausing
<1>3. checked' \in [{"live", "stale"} -> (1 .. n) \cup {Idle}]
  BY <1>1, <1>2
<1>4. watch' \in 0 .. n
  <2>1. watch' \in 1 .. n
    BY <1>1, <1>2
  <2> QED
    BY <1>2, <2>1
<1>5. Pausing'
  BY <1>1, <1>3, <1>4 DEF IInv, Pausing
<1>6. OthersKeep
  BY DEF Replace, OthersKeep
<1> QED
  BY <1>1, <1>5, <1>6, PauseStep DEF IInv, MakerTypes

-----------------------------------------------------------------------------
(***************************************************************************)
(* The BatchMaker.                                                         *)
(***************************************************************************)
\* Its steps leave the connection of the proposer and the store alone.
LEMMA MakerStep ==
  ASSUME IInv, MakerTypes', Broadcasting', Counting', Announcing',
         UNCHANGED <<told, link, stale, checked, watch, store, syncVars>>,
         changed' \in BOOLEAN, budget'["commands"] = budget["commands"]
  PROVE  IInv'
<1>1. Pausing'
  BY DEF IInv, Pausing
<1>2. Storing' /\ Mailing' /\ Synchronizing' /\ WaiterForEveryPending'
  BY SyncKept DEF IInv, syncVars
<1> QED
  BY <1>1, <1>2 DEF IInv

LEMMA SendTransactionStep ==
  ASSUME IInv, SendTransaction, UNCHANGED syncVars
  PROVE  IInv'
<1>1. UNCHANGED <<at, batch, batches, pauseVars, connection, waiterVars>>
  BY DEF SendTransaction
<1>2. /\ budget' \in [BudgetFields -> Nat] /\ budget["transactions"] \in Nat
      /\ budget'["transactions"] = budget["transactions"] - 1
      /\ budget'["commands"] = budget["commands"]
  BY Spending, BudgetFieldsFacts DEF IInv, MakerTypes, SendTransaction
<1>3. sent' = sent + 1 /\ sent \in Nat /\ sent + budget["transactions"] <= MaxTransactions
  BY DEF SendTransaction, IInv, MakerTypes
<1>4. sent' \in Nat /\ sent' + budget'["transactions"] <= MaxTransactions
  BY <1>2, <1>3, TransactionsBounded
<1>5. MakerTypes'
  BY <1>1, <1>2, <1>4 DEF IInv, MakerTypes
<1>6. Broadcasting' /\ Counting' /\ Announcing'
  BY <1>1, PathKept DEF IInv, waiterVars
<1> QED
  BY <1>1, <1>2, <1>5, <1>6, MakerStep DEF IInv, Pausing, pauseVars, waiterVars

LEMMA LookStep ==
  ASSUME IInv, CheckPause \/ SeeChange, UNCHANGED syncVars
  PROVE  IInv'
<1>1. /\ UNCHANGED <<budget, sent, batch, batches, told, link, stale, checked, watch,
                     connection, waiting, waiter, closed, processing, store, announced>>
      /\ at' \in {"top", "paused", "select"}
      /\ changed' = changed \/ changed' = FALSE
  BY DEF CheckPause, SeeChange, Goto
<1>2. MakerTypes'
  BY <1>1 DEF IInv, MakerTypes
<1>3. Broadcasting' /\ Counting' /\ Announcing'
  BY <1>1, PathKept DEF IInv
<1>4. changed' \in BOOLEAN
  BY <1>1 DEF IInv, Pausing
<1> QED
  BY <1>1, <1>2, <1>3, <1>4, MakerStep

\* A new batch is in every channel and with the QuorumWaiter.
LEMMA SealKeeps ==
  ASSUME IInv, NEW txs \in Seq(Nat), Seal(txs),
         UNCHANGED <<closed, waiter, processing, store, announced>>
  PROVE  /\ batches' \in Seq(Seq(Nat)) /\ batch' = <<>>
         /\ Broadcasting' /\ Counting' /\ Announcing'
<1> DEFINE n == Len(batches)
           m == n + 1
<1>1. n \in Nat /\ batches' \in Seq(Seq(Nat)) /\ Len(batches') = m /\ batch' = <<>>
  BY LenProperties, AppendProperties DEF IInv, MakerTypes, Seal
<1>2. /\ connection' = [p \in Peers |-> Send(connection[p], m)]
      /\ waiting' = Append(waiting, m)
  BY <1>1 DEF Seal
<1>3. \A p \in Peers : Delivering(connection[p], n, closed)
  BY DEF IInv, Broadcasting
<1>4. /\ waiting \in Seq(1 .. n) /\ processing \in Seq(1 .. n) /\ closed \subseteq 1 .. n
      /\ waiter # Idle =>
            /\ waiter \in [batch : 1 .. n, counted : SUBSET Peers]
            /\ \A p \in waiter.counted : waiter.batch \in connection[p].resolved
      /\ \A b \in Range(processing) : IsQuorum(Holders(b))
  BY DEF IInv, Counting
<1>5. 1 .. n \subseteq 1 .. m /\ m \in 1 .. m
  BY <1>1
<1> HIDE DEF n
<1>6. \A p \in Peers : Delivering(connection'[p], m, closed) /\ Later(connection[p], connection'[p])
  BY <1>1, <1>2, <1>3, SendDelivers
<1>7. Broadcasting'
  BY <1>1, <1>2, <1>6 DEF Broadcasting
<1> HIDE DEF m
<1>8. Seq(1 .. n) \subseteq Seq(1 .. m)
  BY <1>5, SeqMonotonic
<1>9. waiting' \in Seq(1 .. m)
  BY <1>2, <1>4, <1>5, <1>8, AppendProperties
<1>10. ASSUME waiter # Idle
       PROVE  /\ waiter \in [batch : 1 .. m, counted : SUBSET Peers]
              /\ \A p \in waiter.counted : waiter.batch \in connection'[p].resolved
  <2>1. /\ waiter \in [batch : 1 .. n, counted : SUBSET Peers]
        /\ \A p \in waiter.counted : waiter.batch \in connection[p].resolved
    BY <1>4, <1>10
  <2>2. waiter \in [batch : 1 .. m, counted : SUBSET Peers]
    BY <1>5, <2>1
  <2>3. \A p \in waiter.counted : p \in Peers
    BY <2>1
  <2> QED
    BY <1>6, <2>1, <2>2, <2>3 DEF Later
<1>11. Counting'
  <2>1. \A b \in Range(processing) : IsQuorum(Holders(b)')
    BY <1>4, <1>6, HoldersStay
  <2>2. \A b \in Range(processing') : IsQuorum(Holders(b))'
    BY <2>1
  <2> QED
    BY <1>1, <1>4, <1>5, <1>8, <1>9, <1>10, <2>2 DEF Counting
<1>12. Announcing'
  <2>1. /\ announced \subseteq (1 .. n) \cup Foreign /\ announced \subseteq Readable(store)
        /\ \A b \in announced \cap Nat : IsQuorum(Holders(b))
    BY DEF IInv, Announcing, n
  <2>2. \A b \in announced \cap Nat : IsQuorum(Holders(b)')
    BY <1>6, <2>1, HoldersStay
  <2>3. \A b \in announced' \cap Nat : IsQuorum(Holders(b))'
    BY <2>2
  <2> QED
    BY <1>1, <1>5, <2>1, <2>3 DEF Announcing
<1> QED
  BY <1>1, <1>7, <1>11, <1>12

LEMMA TakenType ==
  ASSUME MakerTypes
  PROVE  Taken \in Nat
<1>1. FlattenSeq(batches) \in Seq(Nat)
  <2>1. batches \in Seq(Seq(Nat)) /\ <<>> \in Seq(Nat)
    BY DEF MakerTypes
  <2> QED
    BY <2>1, FlattenAppend
<1>2. Len(FlattenSeq(batches)) \in Nat /\ Len(batch) \in Nat
  BY <1>1, LenProperties DEF MakerTypes
<1> QED
  BY <1>2 DEF Taken

LEMMA GatherStep ==
  ASSUME IInv, TakeTransaction \/ SealOnTimer, UNCHANGED syncVars
  PROVE  IInv'
<1> DEFINE txs == Append(batch, Taken + 1)
<1>1. /\ UNCHANGED <<budget, sent, told, link, stale, checked, watch, waiter, closed,
                     processing, store, announced, changed>>
      /\ at' = "top"
  BY DEF TakeTransaction, SealOnTimer, Goto
<1>2. /\ batch \in Seq(Nat) /\ batches \in Seq(Seq(Nat)) /\ BatchSize \in Nat \ {0}
      /\ Len(batch) \in Nat
  BY WorkerAssumption, LenProperties DEF IInv, MakerTypes
<1>3. txs \in Seq(Nat) /\ Len(txs) = Len(batch) + 1
  BY <1>2, TakenType, AppendProperties DEF IInv
<1>4. \/ Seal(txs) \/ Seal(batch)
      \/ ~Full(txs) /\ batch' = txs /\ UNCHANGED <<batches, connection, waiting>>
  BY DEF TakeTransaction, SealOnTimer
<1> HIDE DEF txs
<1>5. ASSUME NEW b \in Seq(Nat), Seal(b) PROVE IInv'
  <2>1. /\ batches' \in Seq(Seq(Nat)) /\ batch' = <<>>
        /\ Broadcasting' /\ Counting' /\ Announcing'
    BY <1>1, <1>5, SealKeeps
  <2>2. <<>> \in Seq(Nat) /\ Len(<<>>) = 0
    OBVIOUS
  <2>3. MakerTypes'
    BY <1>1, <1>2, <2>1, <2>2 DEF IInv, MakerTypes
  <2>4. changed' \in BOOLEAN
    BY <1>1 DEF IInv, Pausing
  <2> QED
    BY <1>1, <2>1, <2>3, <2>4, MakerStep
<1>6. CASE ~Full(txs) /\ batch' = txs /\ UNCHANGED <<batches, connection, waiting>>
  <2>1. Len(txs) < BatchSize
    BY <1>2, <1>3, <1>6 DEF Full
  <2>2. MakerTypes'
    BY <1>1, <1>3, <1>6, <2>1 DEF IInv, MakerTypes
  <2>3. Broadcasting' /\ Counting' /\ Announcing'
    BY <1>1, <1>6, PathKept DEF IInv
  <2>4. changed' \in BOOLEAN
    BY <1>1 DEF IInv, Pausing
  <2> QED
    BY <1>1, <2>2, <2>3, <2>4, MakerStep
<1> QED
  BY <1>2, <1>3, <1>4, <1>5, <1>6

-----------------------------------------------------------------------------
(***************************************************************************)
(* The connections to the peers, the QuorumWaiter and the Processor.       *)
(***************************************************************************)
LEMMA PeerStep ==
  ASSUME IInv, NEW p \in Peers, NEW c, Step(p, c), UNCHANGED syncVars,
         Delivering(c, Len(batches), closed), Later(connection[p], c),
         budget' \in [BudgetFields -> Nat], budget'["transactions"] = budget["transactions"],
         budget'["commands"] = budget["commands"]
  PROVE  IInv'
<1>1. /\ UNCHANGED <<sent, at, batch, batches, pauseVars, waiting, waiter, closed, processing,
                     store, announced, sync, requests, replies>>
      /\ connection' = [connection EXCEPT ![p] = c]
  BY DEF Step, makerVars, waiterVars, syncVars
<1>2. \A q \in Peers : /\ Delivering(connection'[q], Len(batches), closed)
                       /\ Later(connection[q], connection'[q])
  BY <1>1 DEF IInv, Broadcasting, Later
<1>3. Broadcasting'
  BY <1>1, <1>2 DEF IInv, Broadcasting
<1>4. Counting'
  <2>1. \A b \in Range(processing) : IsQuorum(Holders(b)')
    BY <1>2, HoldersStay DEF IInv, Counting
  <2>2. \A b \in Range(processing') : IsQuorum(Holders(b))'
    BY <1>1, <2>1
  <2>3. waiter # Idle => \A q \in waiter.counted : waiter.batch \in connection'[q].resolved
    <3> SUFFICES ASSUME waiter # Idle, NEW q \in waiter.counted
                 PROVE  waiter.batch \in connection'[q].resolved
      OBVIOUS
    <3>1. q \in Peers /\ waiter.batch \in connection[q].resolved
      BY DEF IInv, Counting
    <3> QED
      BY <1>2, <3>1 DEF Later
  <2> QED
    BY <1>1, <2>2, <2>3 DEF IInv, Counting
<1>5. Announcing'
  <2>1. \A b \in announced \cap Nat : IsQuorum(Holders(b)')
    BY <1>2, HoldersStay DEF IInv, Announcing
  <2>2. \A b \in announced' \cap Nat : IsQuorum(Holders(b))'
    BY <1>1, <2>1
  <2> QED
    BY <1>1, <2>2 DEF IInv, Announcing
<1>6. MakerTypes'
  BY <1>1, MakerKept DEF IInv
<1>7. Pausing'
  BY <1>1, PausingKept DEF IInv
<1>8. Storing' /\ Mailing' /\ Synchronizing' /\ WaiterForEveryPending'
  BY <1>1, SyncKept DEF IInv
<1> QED
  BY <1>3, <1>4, <1>5, <1>6, <1>7, <1>8 DEF IInv

LEMMA ExchangeStep ==
  ASSUME IInv, NEW p \in Peers, Exchange(p), UNCHANGED syncVars
  PROVE  IInv'
<1> DEFINE n == Len(batches)
           c == connection[p]
<1>1. n \in Nat /\ Delivering(c, n, closed)
  BY NumberedBatches DEF IInv, Broadcasting
<1>2. budget' = budget
  BY DEF Exchange
<1>3. \/ Step(p, Connect(c))
      \/ CanDrain(c) /\ Step(p, Drain(c, closed))
      \/ CanTransmit(c) /\ Step(p, Transmit(c, closed))
      \/ CanFetch(c) /\ Step(p, Fetch(c))
      \/ CanTakeAck(c) /\ Step(p, TakeAck(c, closed))
      \/ CanRead(c) /\ Step(p, Read(c))
  BY DEF Exchange
<1>4. ASSUME NEW d, Step(p, d), Delivering(d, n, closed), Later(c, d) PROVE IInv'
  BY <1>2, <1>4, PeerStep DEF IInv, MakerTypes
<1> HIDE DEF n, c
<1>5. CASE Step(p, Connect(c))
  BY <1>1, <1>4, <1>5, ConnectDelivers
<1>6. CASE CanDrain(c) /\ Step(p, Drain(c, closed))
  BY <1>1, <1>4, <1>6, DrainDelivers
<1>7. CASE CanTransmit(c) /\ Step(p, Transmit(c, closed))
  BY <1>1, <1>4, <1>7, TransmitDelivers
<1>8. CASE CanFetch(c) /\ Step(p, Fetch(c))
  BY <1>1, <1>4, <1>8, FetchDelivers
<1>9. CASE CanTakeAck(c) /\ Step(p, TakeAck(c, closed))
  BY <1>1, <1>4, <1>9, TakeAckDelivers
<1>10. CASE CanRead(c) /\ Step(p, Read(c))
  BY <1>1, <1>4, <1>10, ReadDelivers
<1> QED
  BY <1>3, <1>5, <1>6, <1>7, <1>8, <1>9, <1>10

LEMMA BreakStep ==
  ASSUME IInv, NEW p \in Peers, Break(p), UNCHANGED syncVars
  PROVE  IInv'
<1> DEFINE n == Len(batches)
           c == connection[p]
<1>1. n \in Nat /\ Delivering(c, n, closed)
  BY NumberedBatches DEF IInv, Broadcasting
<1>2. /\ budget' \in [BudgetFields -> Nat] /\ budget'["transactions"] = budget["transactions"]
      /\ budget'["commands"] = budget["commands"]
  BY Spending, BudgetFieldsFacts DEF IInv, MakerTypes, Break
<1>3. PICK k \in 0 .. Len(c.wire) : Step(p, Fail(c, k))
  BY DEF Break
<1>4. ASSUME NEW d, Step(p, d), Delivering(d, n, closed), Later(c, d) PROVE IInv'
  BY <1>2, <1>4, PeerStep
<1> HIDE DEF n, c
<1> QED
  BY <1>1, <1>3, <1>4, FailDelivers

\* The QuorumWaiter and the Processor leave makers, connections and the Synchronizer alone.
LEMMA WaiterStep ==
  ASSUME IInv, UNCHANGED <<budget, makerVars, pauseVars, connection, syncVars>>,
         Broadcasting', Counting', Announcing', Storing', WaiterForEveryPending'
  PROVE  IInv'
<1>1. MakerTypes' /\ Pausing'
  BY MakerKept, PausingKept DEF IInv, MakerTypes, makerVars
<1>2. Mailing' /\ Synchronizing'
  BY DEF IInv, Mailing, Synchronizing, syncVars
<1> QED
  BY <1>1, <1>2 DEF IInv

LEMMA StartWaitingStep ==
  ASSUME IInv, StartWaiting, UNCHANGED syncVars
  PROVE  IInv'
<1> DEFINE n == Len(batches)
<1>1. /\ UNCHANGED <<budget, makerVars, pauseVars, connection, closed, processing, store,
                     announced, syncVars>>
      /\ waiting # <<>> /\ waiting' = Tail(waiting)
      /\ waiter' = [batch |-> Head(waiting), counted |-> {}]
  BY DEF StartWaiting
<1>2. batches' = batches
  BY <1>1 DEF makerVars
<1>3. Head(waiting) \in 1 .. n /\ waiting' \in Seq(1 .. n)
  BY <1>1, HeadTailRange DEF IInv, Counting
<1>4. waiter' \in [batch : 1 .. n, counted : SUBSET Peers] /\ waiter'.counted = {}
  BY <1>1, <1>3
<1>5. Counting'
  BY <1>1, <1>2, <1>3, <1>4 DEF IInv, Counting, Holders
<1>6. Broadcasting' /\ Announcing'
  BY <1>1, <1>2 DEF IInv, Broadcasting, Announcing, Holders
<1>7. Storing' /\ WaiterForEveryPending'
  BY <1>1 DEF IInv, Storing, WaiterForEveryPending, syncVars
<1> QED
  BY <1>1, <1>5, <1>6, <1>7, WaiterStep

LEMMA CountAckStep ==
  ASSUME IInv, NEW p \in Peers, CountAck(p), UNCHANGED syncVars
  PROVE  IInv'
<1> DEFINE n == Len(batches)
           b == waiter.batch
           counted == waiter.counted \cup {p}
<1>1. /\ UNCHANGED <<budget, makerVars, pauseVars, connection, waiting, store, announced,
                     syncVars>>
      /\ waiter # Idle /\ b \in connection[p].resolved
  BY DEF CountAck
<1>2. batches' = batches
  BY <1>1 DEF makerVars
<1>3. /\ waiter \in [batch : 1 .. n, counted : SUBSET Peers]
      /\ \A q \in waiter.counted : b \in connection[q].resolved
      /\ processing \in Seq(1 .. n) /\ closed \subseteq 1 .. n
      /\ waiting \in Seq(1 .. n)
      /\ \A x \in Range(processing) : IsQuorum(Holders(x))
  BY <1>1 DEF IInv, Counting
<1>4. b \in 1 .. n /\ counted \in SUBSET Peers /\ \A q \in counted : b \in connection[q].resolved
  BY <1>1, <1>3
<1>5. Announcing'
  BY <1>1, <1>2 DEF IInv, Announcing, Holders
<1>6. Storing' /\ WaiterForEveryPending'
  BY <1>1 DEF IInv, Storing, WaiterForEveryPending, syncVars
<1>7. CASE EnoughAcks(counted)
  <2>1. /\ waiter' = Idle /\ closed' = closed \cup {b} /\ processing' = Append(processing, b)
    BY <1>7 DEF CountAck
  <2> HIDE DEF n, b, counted
  <2>2. IsQuorum(Holders(b))
    <3>1. StakeOf({Me} \cup counted) >= QuorumThreshold
      BY <1>4, <1>7, OwnStake DEF EnoughAcks
    <3>2. counted \subseteq {q \in Peers : b \in connection[q].received}
      BY <1>4 DEF IInv, Broadcasting, Delivering, Matched
    <3>3. {Me} \cup counted \in SUBSET Holders(b)
      BY <3>2 DEF Holders
    <3>4. Holders(b) \in SUBSET Authorities
      BY WorkerAssumption DEF Holders, Peers
    <3> QED
      BY <3>1, <3>3, <3>4, QuorumMonotone DEF IsQuorum
  <2>3. processing' \in Seq(1 .. n) /\ Range(processing') = Range(processing) \cup {b}
    <3> DEFINE S == 1 .. n
    <3>1. processing \in Seq(S) /\ b \in S
      BY <1>3, <1>4
    <3> HIDE DEF S
    <3>2. processing' \in Seq(S) /\ Range(processing') = Range(processing) \cup {b}
      BY <2>1, <3>1, AppendProperties, AppendRange
    <3> QED
      BY <3>2 DEF S
  <2>4. \A x \in Range(processing') : IsQuorum(Holders(x))
    BY <1>3, <2>2, <2>3
  <2>5. \A x \in Range(processing') : IsQuorum(Holders(x))'
    BY <1>1, <2>4 DEF Holders
  <2>6. closed' \subseteq 1 .. n
    BY <1>3, <1>4, <2>1
  <2>7. Counting'
    BY <1>1, <1>2, <1>3, <2>1, <2>3, <2>5, <2>6 DEF Counting, n
  <2>8. Broadcasting'
    <3>1. \A q \in Peers : Delivering(connection[q], Len(batches), closed')
      BY <2>1, MoreCancelled DEF IInv, Broadcasting
    <3> QED
      BY <1>1, <1>2, <3>1 DEF IInv, Broadcasting
  <2> QED
    BY <1>1, <1>5, <1>6, <2>7, <2>8, WaiterStep
<1>8. CASE ~EnoughAcks(counted)
  <2>1. /\ waiter' = [waiter EXCEPT !.counted = counted]
        /\ closed' = closed /\ processing' = processing
    BY <1>8 DEF CountAck
  <2>2. /\ waiter' \in [batch : 1 .. n, counted : SUBSET Peers]
        /\ waiter'.batch = b /\ waiter'.counted = counted
    <3> HIDE DEF n, counted
    <3> QED
      BY <1>3, <1>4, <2>1
  <2>3. Counting'
    <3>1. \A q \in waiter'.counted : waiter'.batch \in connection'[q].resolved
      BY <1>1, <1>4, <2>2
    <3>2. \A x \in Range(processing') : IsQuorum(Holders(x))'
      BY <1>1, <1>3, <2>1 DEF Holders
    <3> HIDE DEF b, counted
    <3> QED
      BY <1>1, <1>2, <1>3, <2>1, <2>2, <3>1, <3>2 DEF Counting
  <2>4. Broadcasting'
    BY <1>1, <1>2, <2>1 DEF IInv, Broadcasting
  <2> QED
    BY <1>1, <1>5, <1>6, <2>3, <2>4, WaiterStep
<1> QED
  BY <1>7, <1>8

\* Whoever is pending is polled, or promised an answer.
LEMMA PendingIs ==
  ASSUME Synchronizing
  PROVE  /\ \A e \in sync.pending : WaiterOf(e) \in Waiters /\ WaiterOf(e).digest = e.digest
         /\ WaiterForEveryPending <=>
              \A e \in sync.pending :
                /\ WaiterOf(e) \notin sync.cancelled
                /\ WaiterOf(e) \in sync.unpolled \/ Promised(store, WaiterOf(e))
<1>1. \A e \in sync.pending : e.digest \in Foreign /\ e.id \in Nat
  BY DEF Synchronizing, Entries
<1>2. \A e \in sync.pending : WaiterOf(e) \in Waiters /\ WaiterOf(e).digest = e.digest
  BY <1>1 DEF WaiterOf, Waiters
<1>3. \A e \in sync.pending :
        Promised(store, WaiterOf(e)) <=>
            \/ \E c \in Range(store.commands) : c.op = "notify" /\ c.waiter = WaiterOf(e)
            \/ <<e.digest, WaiterOf(e)>> \in store.obligations /\ e.digest \notin store.db
            \/ WaiterOf(e) \in store.answered
  BY <1>2 DEF Promised
<1> QED
  BY <1>2, <1>3 DEF WaiterForEveryPending

\* The Synchronizer does not step, and the store keeps its promises.
LEMMA PendingKept ==
  ASSUME Synchronizing, WaiterForEveryPending, sync' = sync,
         \A w \in Waiters : Promised(store, w) => Promised(store', w)
  PROVE  WaiterForEveryPending'
<1>1. \A e \in sync.pending :
        /\ WaiterOf(e) \in Waiters /\ WaiterOf(e).digest = e.digest
        /\ WaiterOf(e) \notin sync.cancelled
        /\ WaiterOf(e) \in sync.unpolled \/ Promised(store', WaiterOf(e))
  BY PendingIs
<1> QED
  BY <1>1 DEF WaiterForEveryPending, Promised

LEMMA ProcessStep ==
  ASSUME IInv, Process, UNCHANGED syncVars
  PROVE  IInv'
<1> DEFINE n == Len(batches)
           b == Head(processing)
<1>1. /\ UNCHANGED <<budget, makerVars, pauseVars, connection, waiting, waiter, closed, syncVars>>
      /\ processing # <<>> /\ processing' = Tail(processing)
      /\ store' = Write(store, b) /\ announced' = announced \cup {b}
  BY DEF Process
<1>2. batches' = batches
  BY <1>1 DEF makerVars
<1>3. /\ b \in 1 .. n /\ processing' \in Seq(1 .. n)
      /\ Range(processing) = {b} \cup Range(processing')
  BY <1>1, HeadTailRange DEF IInv, Counting
<1>4. b \in Keys
  BY <1>3 DEF Keys
<1> HIDE DEF b
<1>5. /\ store' \in Stores /\ Readable(store') = Readable(store) \cup {b}
      /\ \A w : Promised(store, w) => Promised(store', w)
  BY <1>1, <1>4, WriteKeeps DEF IInv, Storing
<1>6. Counting'
  <2>1. \A x \in Range(processing') : IsQuorum(Holders(x))'
    BY <1>1, <1>3 DEF IInv, Counting, Holders
  <2> QED
    BY <1>1, <1>2, <1>3, <2>1 DEF IInv, Counting
<1>7. Announcing'
  <2>1. \A x \in announced' \cap Nat : IsQuorum(Holders(x))'
    BY <1>1, <1>3 DEF IInv, Counting, Announcing, Holders
  <2>2. announced' \subseteq (1 .. n) \cup Foreign
    BY <1>1, <1>3 DEF IInv, Announcing
  <2>3. announced' \subseteq Readable(store')
    BY <1>1, <1>5 DEF IInv, Announcing
  <2> QED
    BY <1>2, <2>1, <2>2, <2>3 DEF Announcing
<1>8. Broadcasting'
  BY <1>1, <1>2 DEF IInv, Broadcasting
<1>9. Storing' /\ WaiterForEveryPending'
  BY <1>1, <1>5, PendingKept DEF IInv, Storing, syncVars
<1> QED
  BY <1>1, <1>6, <1>7, <1>8, <1>9, WaiterStep

LEMMA ServeStep ==
  ASSUME IInv, Serve, UNCHANGED syncVars
  PROVE  IInv'
<1>1. /\ UNCHANGED <<budget, makerVars, pauseVars, connection, waiting, waiter, closed,
                     processing, announced, syncVars>>
      /\ store.commands # <<>> /\ store' = Perform(store)
  BY DEF Serve
<1>2. /\ store' \in Stores /\ Readable(store') = Readable(store)
      /\ \A w \in Waiters : Promised(store, w) => Promised(store', w)
  BY <1>1, PerformKeeps DEF IInv, Storing
<1>3. Broadcasting' /\ Counting' /\ Announcing'
  BY <1>1, <1>2, PathKept DEF IInv, makerVars
<1>4. Storing' /\ WaiterForEveryPending'
  BY <1>1, <1>2, PendingKept DEF IInv, Storing, syncVars
<1> QED
  BY <1>1, <1>3, <1>4, WaiterStep

-----------------------------------------------------------------------------
(***************************************************************************)
(* The Synchronizer.                                                       *)
(***************************************************************************)
Syncs ==
    [round : Nat, pending : SUBSET Entries, unpolled : SUBSET Waiters,
     waiting : SUBSET Waiters, cancelled : SUBSET Waiters]

LEMMA SyncStep ==
  ASSUME IInv, PathUnchanged, budget' \in [BudgetFields -> Nat],
         budget'["transactions"] = budget["transactions"],
         Announcing', Storing', Mailing', Synchronizing', WaiterForEveryPending'
  PROVE  IInv'
<1>1. UNCHANGED <<sent, at, batch, batches, pauseVars, connection, waiting, waiter, closed,
                  processing>>
  BY DEF PathUnchanged, makerVars
<1>2. MakerTypes' /\ Pausing'
  BY <1>1, MakerKept, PausingKept DEF IInv
<1>3. Broadcasting' /\ Counting'
  BY <1>1, PathKept DEF IInv
<1> QED
  BY <1>2, <1>3 DEF IInv

\* Neither the store nor what was announced changes.
LEMMA StoreUnchanged ==
  ASSUME IInv, PathUnchanged, UNCHANGED <<store, announced>>
  PROVE  Announcing' /\ Storing'
<1>1. UNCHANGED <<batches, connection, waiting, waiter, closed, processing>>
  BY DEF PathUnchanged, makerVars
<1>2. Readable(store) \subseteq Readable(store)'
  <2>1. Readable(store)' = Readable(store')
    OBVIOUS
  <2> QED
    BY <2>1
<1> QED
  BY <1>1, <1>2, PathKept DEF IInv, Storing

LEMMA SynchronizeStep ==
  ASSUME IInv, NEW digests \in SUBSET Foreign, NEW target \in Peers,
         SynchronizeBatches(digests, target)
  PROVE  IInv'
<1> DEFINE id == budget["commands"]
           fresh == Fresh(sync, digests)
           entries == [digest : fresh, id : {id}, round : {sync.round}, old : {FALSE}]
           waiters == {WaiterOf(e) : e \in entries}
<1>1. /\ PathUnchanged /\ UNCHANGED <<replies, store, announced>>
      /\ sync' = Synchronize(sync, digests, budget.commands)
      /\ requests' = Post(requests, target, Missing(sync, digests, Readable(store)))
  BY DEF SynchronizeBatches
<1>2. /\ budget' \in [BudgetFields -> Nat] /\ budget'["transactions"] = budget["transactions"]
      /\ budget'["commands"] = id - 1 /\ id \in Nat /\ id - 1 \in Nat
  <2>1. budget \in [BudgetFields -> Nat] /\ Spend("commands") /\ "commands" \in BudgetFields
    BY BudgetFieldsFacts DEF IInv, MakerTypes, SynchronizeBatches
  <2>2. /\ budget' \in [BudgetFields -> Nat]
        /\ budget["commands"] > 0 /\ budget'["commands"] = budget["commands"] - 1
        /\ \A g \in BudgetFields : g # "commands" => budget'[g] = budget[g]
    BY <2>1, Spending
  <2>3. budget["commands"] \in Nat
    BY <2>1
  <2>4. "transactions" # "commands" /\ "transactions" \in BudgetFields
    BY BudgetFieldsFacts
  <2> QED
    BY <2>2, <2>3, <2>4
<1>3. budget.commands = id
  BY BudgetFieldsFacts DEF IInv, MakerTypes
<1>4. /\ fresh \in SUBSET Foreign
      /\ \A d \in fresh : \A e \in sync.pending : e.digest # d
  BY DEF Fresh
<1>5. sync' = [sync EXCEPT !.pending = @ \cup entries, !.unpolled = @ \cup waiters]
  BY <1>1, <1>3 DEF Synchronize
<1>6. sync \in Syncs /\ sync.round \in Nat
  BY DEF IInv, Synchronizing, Syncs
<1>7. \A e \in entries : e.digest \in fresh /\ e.id = id /\ e.round = sync.round /\ e.old = FALSE
  OBVIOUS
<1>8. \A e \in entries : e \in Entries /\ WaiterOf(e) \in Waiters /\ WaiterOf(e).id = id
                         /\ WaiterOf(e).digest = e.digest
  BY <1>2, <1>4, <1>6 DEF Entries, WaiterOf, Waiters
<1>9. \A e, f \in entries : e.digest = f.digest => e = f
  <2>1. \A e \in entries :
           e = [digest |-> e.digest, id |-> e.id, round |-> e.round, old |-> e.old]
    OBVIOUS
  <2> HIDE DEF entries
  <2> QED
    BY <1>7, <2>1
<1> HIDE DEF id, fresh, entries
<1>10. entries \subseteq Entries /\ waiters \subseteq Waiters
  BY <1>8
<1>11. \A e \in entries : WaiterOf(e) \in waiters
  OBVIOUS
<1> HIDE DEF waiters
<1>12. /\ sync' \in Syncs /\ sync'.pending = sync.pending \cup entries
       /\ sync'.unpolled = sync.unpolled \cup waiters /\ sync'.cancelled = sync.cancelled
  BY <1>5, <1>6, <1>10 DEF Syncs
<1>13. /\ \A w \in sync.cancelled : w \in Waiters /\ w.id > id
       /\ \A e \in sync.pending : e.id > id /\ e \in Entries
       /\ \A e, f \in sync.pending : e.digest = f.digest => e = f
  BY DEF IInv, Synchronizing, id
<1>14. Synchronizing'
  <2>1. \A w \in sync'.cancelled : w.id > id - 1
    <3>1. \A w \in Waiters : w.id \in Nat
      BY DEF Waiters
    <3> QED
      BY <1>2, <1>12, <1>13, <3>1
  <2>2. \A e \in sync'.pending : e.id > id - 1
    <3>1. \A e \in Entries : e.id \in Nat
      BY DEF Entries
    <3> QED
      BY <1>2, <1>7, <1>12, <1>13, <3>1
  <2>3. \A e, f \in sync'.pending : e.digest = f.digest => e = f
    BY <1>4, <1>7, <1>9, <1>12, <1>13
  <2> QED
    BY <1>2, <1>12, <2>1, <2>2, <2>3 DEF Synchronizing, Syncs
<1>15. WaiterForEveryPending'
  <2>1. \A e \in sync.pending :
            /\ WaiterOf(e).digest = e.digest /\ WaiterOf(e) \notin sync.cancelled
            /\ WaiterOf(e) \in sync.unpolled \/ Promised(store, WaiterOf(e))
    BY PendingIs DEF IInv
  <2>2. \A e \in entries : WaiterOf(e) \notin sync.cancelled /\ WaiterOf(e) \in waiters
    BY <1>2, <1>8, <1>11, <1>13
  <2>3. \A e \in sync'.pending :
            /\ WaiterOf(e) \notin sync'.cancelled
            /\ WaiterOf(e) \in sync'.unpolled \/ Promised(store', WaiterOf(e))
    BY <1>1, <1>12, <2>1, <2>2
  <2>4. \A e \in sync'.pending : WaiterOf(e).digest = e.digest
    BY <1>8, <1>12, <2>1
  <2> QED
    BY <2>3, <2>4 DEF WaiterForEveryPending, Promised
<1>16. Mailing'
  <2>1. requests \in [Peers -> Seq(SUBSET Foreign)] /\ replies \in [Peers -> Seq(Foreign)]
    BY DEF IInv, Mailing
  <2>2. Missing(sync, digests, Readable(store)) \in SUBSET Foreign
    BY <1>4 DEF Missing, fresh
  <2>3. Append(requests[target], Missing(sync, digests, Readable(store))) \in Seq(SUBSET Foreign)
    BY <2>1, <2>2, AppendProperties
  <2> QED
    BY <1>1, <2>1, <2>3 DEF Mailing, Post
<1> QED
  BY <1>1, <1>2, <1>14, <1>15, <1>16, StoreUnchanged, SyncStep

LEMMA CleanUpStep ==
  ASSUME IInv, NEW round \in Nat, CleanUpBatches(round)
  PROVE  IInv'
<1> DEFINE gone == IF round < GcDepth THEN {} ELSE Outdated(sync, round)
           waiters == {WaiterOf(e) : e \in gone}
<1>1. /\ PathUnchanged /\ UNCHANGED <<requests, replies, store, announced>>
      /\ sync' = CleanUp(sync, round)
  BY DEF CleanUpBatches
<1>2. /\ budget' \in [BudgetFields -> Nat] /\ budget'["transactions"] = budget["transactions"]
      /\ budget'["commands"] = budget["commands"]
  BY Spending, BudgetFieldsFacts DEF IInv, MakerTypes, CleanUpBatches
<1>3. sync' = [sync EXCEPT !.round = round, !.pending = @ \ gone, !.cancelled = @ \cup waiters]
  BY <1>1 DEF CleanUp
<1>4. gone \subseteq sync.pending
  BY DEF Outdated
<1> HIDE DEF gone
<1>5. /\ sync \in Syncs
      /\ \A w \in sync.cancelled : w.id > budget["commands"]
      /\ \A e \in sync.pending : e.id > budget["commands"]
      /\ \A e, f \in sync.pending : e.digest = f.digest => e = f
  BY DEF IInv, Synchronizing, Syncs
<1>6. \A e \in sync.pending :
        /\ WaiterOf(e) \in Waiters /\ WaiterOf(e).digest = e.digest
        /\ WaiterOf(e) \notin sync.cancelled
        /\ WaiterOf(e) \in sync.unpolled \/ Promised(store, WaiterOf(e))
  BY PendingIs DEF IInv
<1>7. \A e \in sync.pending : WaiterOf(e).id = e.id
  BY DEF WaiterOf
<1>8. \A w \in waiters : \E e \in gone : w = WaiterOf(e)
  OBVIOUS
<1>9. waiters \subseteq Waiters
  BY <1>4, <1>6
<1> HIDE DEF waiters
<1>10. /\ sync' \in Syncs /\ sync'.pending = sync.pending \ gone
       /\ sync'.unpolled = sync.unpolled /\ sync'.cancelled = sync.cancelled \cup waiters
  BY <1>3, <1>5, <1>9 DEF Syncs
<1>11. Synchronizing'
  <2>1. \A w \in sync'.cancelled : w.id > budget["commands"]
    BY <1>4, <1>5, <1>7, <1>8, <1>10
  <2> QED
    BY <1>2, <1>5, <1>10, <2>1 DEF Synchronizing, Syncs
<1>12. WaiterForEveryPending'
  <2>1. \A e \in sync'.pending : WaiterOf(e) \notin waiters
    BY <1>4, <1>5, <1>6, <1>8, <1>10
  <2>2. \A e \in sync'.pending :
            /\ WaiterOf(e).digest = e.digest
            /\ WaiterOf(e) \notin sync'.cancelled
            /\ WaiterOf(e) \in sync'.unpolled \/ Promised(store', WaiterOf(e))
    BY <1>1, <1>6, <1>10, <2>1
  <2> QED
    BY <2>2 DEF WaiterForEveryPending, Promised
<1>13. Mailing'
  BY <1>1 DEF IInv, Mailing
<1> QED
  BY <1>1, <1>2, <1>11, <1>12, <1>13, StoreUnchanged, SyncStep

LEMMA PollStep ==
  ASSUME IInv, NEW w \in sync.unpolled, PollWaiter(w)
  PROVE  IInv'
<1>1. /\ PathUnchanged /\ UNCHANGED <<budget, requests, replies, announced>>
      /\ sync' = Poll(sync, w) /\ store' = NotifyRead(store, w.digest, w)
  BY DEF PollWaiter
<1>2. sync \in Syncs /\ w \in Waiters
  BY DEF IInv, Synchronizing, Syncs
<1>3. /\ sync' \in Syncs /\ sync'.pending = sync.pending
      /\ sync'.unpolled = sync.unpolled \ {w} /\ sync'.cancelled = sync.cancelled
  <2>1. sync' = [sync EXCEPT !.unpolled = @ \ {w}, !.waiting = @ \cup {w}]
    BY <1>1 DEF Poll
  <2> QED
    BY <1>2, <2>1 DEF Syncs
<1>4. /\ store' \in Stores /\ Readable(store') = Readable(store)
      /\ \A v : Promised(store, v) => Promised(store', v)
      /\ Promised(store', w)
  BY <1>1, <1>2, NotifyKeeps DEF IInv, Storing
<1>5. Synchronizing'
  BY <1>1, <1>3 DEF IInv, Synchronizing, Syncs
<1>6. WaiterForEveryPending'
  <2>1. \A e \in sync.pending :
            /\ WaiterOf(e).digest = e.digest /\ WaiterOf(e) \notin sync.cancelled
            /\ WaiterOf(e) \in sync.unpolled \/ Promised(store, WaiterOf(e))
    BY PendingIs DEF IInv
  <2>2. \A e \in sync'.pending :
            /\ WaiterOf(e).digest = e.digest /\ WaiterOf(e) \notin sync'.cancelled
            /\ WaiterOf(e) \in sync'.unpolled \/ Promised(store', WaiterOf(e))
    BY <1>3, <1>4, <2>1
  <2> QED
    BY <2>2 DEF WaiterForEveryPending, Promised
<1>7. Announcing'
  BY <1>1, <1>4, PathKept DEF IInv, PathUnchanged, makerVars
<1>8. Storing' /\ Mailing'
  BY <1>1, <1>4 DEF IInv, Storing, Mailing
<1> QED
  BY <1>1, <1>5, <1>6, <1>7, <1>8, SyncStep DEF IInv, MakerTypes

LEMMA ResumeStep ==
  ASSUME IInv, NEW w, ResumeWaiter(w)
  PROVE  IInv'
<1>1. /\ PathUnchanged /\ UNCHANGED <<budget, requests, replies, announced>>
      /\ store' = Forget(store, w)
      /\ \/ w \in store.answered /\ sync' = Resolve(sync, w)
         \/ w \in sync.cancelled /\ sync' = GiveUp(sync, w)
  BY DEF ResumeWaiter
<1>2. /\ sync \in Syncs
      /\ \A v \in sync.cancelled : v.id > budget["commands"]
      /\ \A e \in sync.pending : e.id > budget["commands"]
      /\ \A e, f \in sync.pending : e.digest = f.digest => e = f
  BY DEF IInv, Synchronizing, Syncs
<1>3. /\ store' \in Stores /\ Readable(store') = Readable(store)
      /\ \A v : v # w /\ Promised(store, v) => Promised(store', v)
  BY <1>1, ForgetKeeps DEF IInv, Storing
<1>4. \A e \in sync.pending :
        /\ WaiterOf(e) \in Waiters /\ WaiterOf(e).digest = e.digest /\ WaiterOf(e).id = e.id
        /\ WaiterOf(e) \notin sync.cancelled
        /\ WaiterOf(e) \in sync.unpolled \/ Promised(store, WaiterOf(e))
  <2>1. \A e \in sync.pending : WaiterOf(e).id = e.id
    BY DEF WaiterOf
  <2> QED
    BY <2>1, PendingIs DEF IInv
<1>5. Announcing'
  BY <1>1, <1>3, PathKept DEF IInv, PathUnchanged, makerVars
<1>6. Storing' /\ Mailing'
  BY <1>1, <1>3 DEF IInv, Storing, Mailing
\* What is left of pending is not the entry of w, and none of it is cancelled.
<1>7. ASSUME sync' \in Syncs, sync'.pending \subseteq sync.pending,
             \A v \in sync'.cancelled : v.id > budget["commands"],
             \A e \in sync'.pending :
                /\ WaiterOf(e) # w /\ WaiterOf(e) \notin sync'.cancelled
                /\ WaiterOf(e) \in sync.unpolled => WaiterOf(e) \in sync'.unpolled
      PROVE  IInv'
  <2>1. Synchronizing'
    BY <1>1, <1>2, <1>7 DEF Synchronizing, Syncs
  <2>2. \A e \in sync'.pending :
            /\ WaiterOf(e).digest = e.digest /\ WaiterOf(e) \notin sync'.cancelled
            /\ WaiterOf(e) \in sync'.unpolled \/ Promised(store', WaiterOf(e))
    BY <1>3, <1>4, <1>7
  <2>3. WaiterForEveryPending'
    BY <2>2 DEF WaiterForEveryPending, Promised
  <2> QED
    BY <1>1, <1>5, <1>6, <2>1, <2>3, SyncStep DEF IInv, MakerTypes
<1>8. CASE w \in store.answered /\ sync' = Resolve(sync, w)
  <2> DEFINE gone == {e \in sync.pending : e.digest = w.digest}
             waiters == {WaiterOf(e) : e \in gone}
  <2>1. sync' = [sync EXCEPT !.pending = @ \ gone, !.waiting = @ \ {w},
                             !.cancelled = (@ \cup waiters) \ {w}]
    BY <1>8 DEF Resolve
  <2>2. \A v \in waiters : \E e \in sync.pending : v = WaiterOf(e) /\ e.digest = w.digest
    OBVIOUS
  <2>3. waiters \subseteq Waiters
    BY <1>4
  <2>4. \A e \in sync.pending \ gone : e \in sync.pending /\ e.digest # w.digest
    OBVIOUS
  <2> HIDE DEF gone, waiters
  <2>5. /\ sync' \in Syncs /\ sync'.pending = sync.pending \ gone
        /\ sync'.unpolled = sync.unpolled
        /\ sync'.cancelled = (sync.cancelled \cup waiters) \ {w}
    BY <1>2, <2>1, <2>3 DEF Syncs
  <2>6. \A v \in sync'.cancelled : v.id > budget["commands"]
    BY <1>2, <1>4, <2>2, <2>5
  <2>7. \A e \in sync'.pending : WaiterOf(e) # w /\ WaiterOf(e) \notin sync'.cancelled
    BY <1>4, <2>2, <2>4, <2>5
  <2> QED
    BY <1>7, <2>5, <2>6, <2>7
<1>9. CASE w \in sync.cancelled /\ sync' = GiveUp(sync, w)
  <2>1. sync' = [sync EXCEPT !.unpolled = @ \ {w}, !.waiting = @ \ {w}, !.cancelled = @ \ {w}]
    BY <1>9 DEF GiveUp
  <2>2. /\ sync' \in Syncs /\ sync'.pending = sync.pending
        /\ sync'.unpolled = sync.unpolled \ {w} /\ sync'.cancelled = sync.cancelled \ {w}
    BY <1>2, <2>1 DEF Syncs
  <2>3. \A e \in sync.pending : WaiterOf(e) # w
    BY <1>4, <1>9
  <2> QED
    BY <1>2, <1>4, <1>7, <2>2, <2>3
<1> QED
  BY <1>1, <1>8, <1>9

LEMMA AgeStep ==
  ASSUME IInv, NEW e \in sync.pending, AgeBatch(e)
  PROVE  IInv'
<1> DEFINE f == [e EXCEPT !.old = TRUE]
<1>1. /\ PathUnchanged /\ UNCHANGED <<budget, requests, replies, store, announced>>
      /\ sync' = [sync EXCEPT !.pending = (@ \ {e}) \cup {f}]
  BY DEF AgeBatch, Age
<1>2. /\ sync \in Syncs /\ e \in Entries
      /\ \A v \in sync.cancelled : v.id > budget["commands"]
      /\ \A g \in sync.pending : g.id > budget["commands"]
      /\ \A g, h \in sync.pending : g.digest = h.digest => g = h
  BY DEF IInv, Synchronizing, Syncs
<1>3. f \in Entries /\ f.digest = e.digest /\ f.id = e.id
  BY <1>2 DEF Entries
<1> HIDE DEF f
<1>4. WaiterOf(f) = WaiterOf(e)
  BY <1>3 DEF WaiterOf
<1>5. /\ sync' \in Syncs /\ sync'.pending = (sync.pending \ {e}) \cup {f}
      /\ sync'.unpolled = sync.unpolled /\ sync'.cancelled = sync.cancelled
  BY <1>1, <1>2, <1>3 DEF Syncs
<1>6. Synchronizing'
  <2>1. \A g \in sync'.pending : g.id > budget["commands"]
    BY <1>2, <1>3, <1>5
  <2>2. \A g, h \in sync'.pending : g.digest = h.digest => g = h
    BY <1>2, <1>3, <1>5
  <2> QED
    BY <1>1, <1>2, <1>5, <2>1, <2>2 DEF Synchronizing, Syncs
<1>7. WaiterForEveryPending'
  <2>1. \A g \in sync.pending :
            /\ WaiterOf(g).digest = g.digest /\ WaiterOf(g) \notin sync.cancelled
            /\ WaiterOf(g) \in sync.unpolled \/ Promised(store, WaiterOf(g))
    BY PendingIs DEF IInv
  <2>2. \A g \in sync'.pending :
            /\ WaiterOf(g).digest = g.digest /\ WaiterOf(g) \notin sync'.cancelled
            /\ WaiterOf(g) \in sync'.unpolled \/ Promised(store', WaiterOf(g))
    BY <1>1, <1>3, <1>4, <1>5, <2>1
  <2> QED
    BY <2>2 DEF WaiterForEveryPending, Promised
<1>8. Mailing'
  BY <1>1 DEF IInv, Mailing
<1> QED
  BY <1>1, <1>6, <1>7, <1>8, StoreUnchanged, SyncStep DEF IInv, MakerTypes

\* Only the mail changes.
LEMMA MailStep ==
  ASSUME IInv, PathUnchanged, UNCHANGED <<sync, store, announced>>, Mailing',
         budget' \in [BudgetFields -> Nat], budget'["transactions"] = budget["transactions"],
         budget'["commands"] = budget["commands"]
  PROVE  IInv'
<1>1. Synchronizing' /\ WaiterForEveryPending'
  BY DEF IInv, Synchronizing, WaiterForEveryPending
<1> QED
  BY <1>1, StoreUnchanged, SyncStep

LEMMA RetryStep ==
  ASSUME IInv, NEW S \in SUBSET Peers, RetryBatches(S)
  PROVE  IInv'
<1>1. /\ PathUnchanged /\ UNCHANGED <<budget, sync, replies, store, announced>>
      /\ requests' = Broadcast(requests, S, Overdue(sync))
  BY DEF RetryBatches
<1>2. requests \in [Peers -> Seq(SUBSET Foreign)] /\ replies \in [Peers -> Seq(Foreign)]
  BY DEF IInv, Mailing
<1>3. Overdue(sync) \in SUBSET Foreign
  <2>1. \A e \in sync.pending : e.digest \in Foreign
    BY DEF IInv, Synchronizing, Entries
  <2> QED
    BY <2>1 DEF Overdue
<1>4. \A p \in Peers : Append(requests[p], Overdue(sync)) \in Seq(SUBSET Foreign)
  BY <1>2, <1>3, AppendProperties
<1>5. requests' = [p \in Peers |-> IF p \in S THEN Append(requests[p], Overdue(sync))
                                   ELSE requests[p]]
  BY <1>1, <1>2 DEF Broadcast
<1>6. Mailing'
  BY <1>1, <1>2, <1>4, <1>5 DEF Mailing
<1> QED
  BY <1>1, <1>6, MailStep DEF IInv, MakerTypes

LEMMA HelpStep ==
  ASSUME IInv, NEW p \in Peers, HelpWithBatches(p)
  PROVE  IInv'
<1> DEFINE reply == SetToSeq(Answers(Has[p], Arrived(requests, p)))
<1>1. /\ PathUnchanged /\ UNCHANGED <<budget, sync, store, announced>>
      /\ requests[p] # <<>>
      /\ requests' = [requests EXCEPT ![p] = Tail(@)]
      /\ replies' = [replies EXCEPT ![p] = @ \o reply]
  BY DEF HelpWithBatches, Take
<1>2. requests \in [Peers -> Seq(SUBSET Foreign)] /\ replies \in [Peers -> Seq(Foreign)]
  BY DEF IInv, Mailing
<1>3. reply \in Seq(Foreign)
  <2>1. Has[p] \in SUBSET Foreign
    BY WorkerSyncAssumption
  <2>2. Answers(Has[p], Arrived(requests, p)) \in SUBSET Foreign
    BY <2>1 DEF Answers
  <2> QED
    BY <2>2, AnswerIsSeq
<1> HIDE DEF reply
<1>4. Tail(requests[p]) \in Seq(SUBSET Foreign) /\ replies[p] \o reply \in Seq(Foreign)
  BY <1>1, <1>2, <1>3, HeadTailProperties, ConcatProperties
<1>5. Mailing'
  BY <1>1, <1>2, <1>4 DEF Mailing
<1> QED
  BY <1>1, <1>5, MailStep DEF IInv, MakerTypes

LEMMA LoseStep ==
  ASSUME IInv, NEW p \in Peers, LoseMail(p)
  PROVE  IInv'
<1>1. /\ PathUnchanged /\ UNCHANGED <<sync, store, announced>>
      /\ \/ requests' = [requests EXCEPT ![p] = <<>>] /\ UNCHANGED replies
         \/ replies' = [replies EXCEPT ![p] = <<>>] /\ UNCHANGED requests
  BY DEF LoseMail, Lose
<1>2. /\ budget' \in [BudgetFields -> Nat] /\ budget'["transactions"] = budget["transactions"]
      /\ budget'["commands"] = budget["commands"]
  BY Spending, BudgetFieldsFacts DEF IInv, MakerTypes, LoseMail
<1>3. requests \in [Peers -> Seq(SUBSET Foreign)] /\ replies \in [Peers -> Seq(Foreign)]
  BY DEF IInv, Mailing
<1>4. <<>> \in Seq(SUBSET Foreign) /\ <<>> \in Seq(Foreign)
  OBVIOUS
<1>5. Mailing'
  BY <1>1, <1>3, <1>4 DEF Mailing
<1> QED
  BY <1>1, <1>2, <1>5, MailStep

LEMMA ReceiveStep ==
  ASSUME IInv, NEW p \in Peers, ReceiveBatch(p)
  PROVE  IInv'
<1> DEFINE b == Head(replies[p])
<1>1. /\ PathUnchanged /\ UNCHANGED <<budget, sync, requests>>
      /\ replies[p] # <<>>
      /\ store' = Write(store, b) /\ announced' = announced \cup {b}
      /\ replies' = [replies EXCEPT ![p] = Tail(@)]
  BY DEF ReceiveBatch, Arrived, Take
<1>2. requests \in [Peers -> Seq(SUBSET Foreign)] /\ replies \in [Peers -> Seq(Foreign)]
  BY DEF IInv, Mailing
<1>3. b \in Foreign /\ Tail(replies[p]) \in Seq(Foreign)
  BY <1>1, <1>2, HeadTailProperties
<1>4. b \in Keys /\ b \notin Nat
  BY <1>3, WorkerSyncAssumption DEF Keys
<1>5. Mailing'
  BY <1>1, <1>2, <1>3 DEF Mailing
<1> HIDE DEF b
<1>6. /\ store' \in Stores /\ Readable(store') = Readable(store) \cup {b}
      /\ \A w : Promised(store, w) => Promised(store', w)
  BY <1>1, <1>4, WriteKeeps DEF IInv, Storing
<1>7. Storing' /\ Synchronizing' /\ WaiterForEveryPending'
  BY <1>1, <1>6, PendingKept DEF IInv, Storing, Synchronizing
<1>8. UNCHANGED <<batches, connection>>
  BY <1>1 DEF PathUnchanged, makerVars
<1>9. Announcing'
  <2>1. \A x \in announced' \cap Nat : IsQuorum(Holders(x))'
    BY <1>1, <1>4, <1>8 DEF IInv, Announcing, Holders
  <2>2. announced' \subseteq (1 .. Len(batches)) \cup Foreign /\ announced' \subseteq Readable(store')
    BY <1>1, <1>3, <1>6 DEF IInv, Announcing
  <2> QED
    BY <1>8, <2>1, <2>2 DEF Announcing
<1> QED
  BY <1>1, <1>5, <1>7, <1>9, SyncStep DEF IInv, MakerTypes

-----------------------------------------------------------------------------
(***************************************************************************)
(* Every step of the worker keeps the invariant.                           *)
(***************************************************************************)
LEMMA PathNext ==
  ASSUME IInv, Next, UNCHANGED syncVars
  PROVE  IInv'
<1>0. DOMAIN checked = {"live", "stale"}
  BY DEF IInv, Pausing
<1>1. CASE Progress
  <2>1. CASE ExchangeLink
    BY <2>1, ExchangeLinkStep
  <2>2. ASSUME NEW r \in DOMAIN checked, Compare(r) \/ Replace(r)
        PROVE  IInv'
    BY <1>0, <2>2, CompareStep, ReplaceStep
  <2>3. CASE CheckPause \/ SeeChange
    BY <2>3, LookStep
  <2>4. CASE TakeTransaction \/ SealOnTimer
    BY <2>4, GatherStep
  <2>5. ASSUME NEW p \in Peers, Exchange(p) \/ CountAck(p)
        PROVE  IInv'
    BY <2>5, ExchangeStep, CountAckStep
  <2>6. CASE StartWaiting
    BY <2>6, StartWaitingStep
  <2>7. CASE Process
    BY <2>7, ProcessStep
  <2> QED
    BY <1>1, <2>1, <2>2, <2>3, <2>4, <2>5, <2>6, <2>7 DEF Progress
<1>2. CASE Serve
  BY <1>2, ServeStep
<1>3. ASSUME NEW pause \in BOOLEAN, Notify(pause)
      PROVE  IInv'
  BY <1>3, NotifyStep
<1>4. CASE BreakLink
  BY <1>4, BreakLinkStep
<1>5. CASE SendTransaction
  BY <1>5, SendTransactionStep
<1>6. ASSUME NEW p \in Peers, Break(p)
      PROVE  IInv'
  BY <1>6, BreakStep
<1> QED
  BY <1>1, <1>2, <1>3, <1>4, <1>5, <1>6 DEF Next

LEMMA SynchronizerNext ==
  ASSUME IInv, SyncNext
  PROVE  IInv'
<1>1. ASSUME NEW digests \in SUBSET Foreign \ {{}}, NEW target \in Peers,
             SynchronizeBatches(digests, target)
      PROVE  IInv'
  BY <1>1, SynchronizeStep
<1>2. ASSUME NEW round \in 1 .. (GcDepth + 1), CleanUpBatches(round)
      PROVE  IInv'
  <2>1. round \in Nat
    BY GcDepthAssumption
  <2> QED
    BY <1>2, <2>1, CleanUpStep
<1>3. ASSUME NEW w \in sync.unpolled, PollWaiter(w)
      PROVE  IInv'
  BY <1>3, PollStep
<1>4. ASSUME NEW w \in sync.unpolled \cup sync.waiting, ResumeWaiter(w)
      PROVE  IInv'
  BY <1>4, ResumeStep
<1>5. ASSUME NEW e \in sync.pending, AgeBatch(e)
      PROVE  IInv'
  BY <1>5, AgeStep
<1>6. ASSUME NEW S \in LuckyChoices(Peers, SyncRetryNodes), RetryBatches(S)
      PROVE  IInv'
  <2>1. S \in SUBSET Peers
    BY DEF LuckyChoices
  <2> QED
    BY <1>6, <2>1, RetryStep
<1>7. ASSUME NEW p \in Peers, HelpWithBatches(p) \/ ReceiveBatch(p) \/ LoseMail(p)
      PROVE  IInv'
  BY <1>7, HelpStep, ReceiveStep, LoseStep
<1> QED
  BY <1>1, <1>2, <1>3, <1>4, <1>5, <1>6, <1>7 DEF SyncNext

LEMMA Stuttering ==
  ASSUME IInv, UNCHANGED nodeVars
  PROVE  IInv'
<1>1. /\ UNCHANGED <<budget, sync, requests, replies, store, announced>>
      /\ UNCHANGED <<makerVars, pauseVars, connection, waiting, waiter, closed, processing>>
  BY DEF nodeVars, vars, waiterVars, syncVars
<1>2. PathUnchanged
  BY <1>1 DEF PathUnchanged
<1>3. Announcing' /\ Storing'
  BY <1>1, <1>2, StoreUnchanged
<1>4. Mailing' /\ Synchronizing' /\ WaiterForEveryPending'
  BY <1>1 DEF IInv, Mailing, Synchronizing, WaiterForEveryPending
<1>5. budget' \in [BudgetFields -> Nat] /\ budget'["transactions"] = budget["transactions"]
  BY <1>1 DEF IInv, MakerTypes
<1> QED
  BY <1>2, <1>3, <1>4, <1>5, SyncStep

(***************************************************************************)
(* The inductive invariant holds in every state of a worker: acknowledg-   *)
(* ements stay matched with the messages they are for (ReliableSender),    *)
(* what the QuorumWaiter passes on and the Processor announces is held by  *)
(* a quorum, and every pending digest of the Synchronizer has a waiter.    *)
(***************************************************************************)
THEOREM WorkerInvariant == NodeSpec => []IInv
<1>1. IInv /\ [NodeNext]_nodeVars => IInv'
  BY PathNext, SynchronizerNext, Stuttering DEF NodeNext
<1> QED
  BY <1>1, InitIInv, PTL DEF NodeSpec

(***************************************************************************)
(* Type correctness: the open batch of the BatchMaker stays below          *)
(* batch_size, the QuorumWaiter counts only peers and closes only batches  *)
(* that were sealed, and the watched round is one the proposer broadcast.  *)
(***************************************************************************)
THEOREM WorkerTypeCorrect == NodeSpec => []TypeOK
<1>1. IInv => TypeOK
  <2> SUFFICES ASSUME IInv PROVE TypeOK
    OBVIOUS
  <2>1. MakerTypes /\ Pausing /\ Broadcasting /\ Counting
    BY DEF IInv
  <2>2. Len(batches) \in Nat /\ Batches = 1 .. Len(batches)
    BY <2>1, NumberedBatches
  <2>3. sent \in 0 .. MaxTransactions
    <3>1. budget["transactions"] \in Nat /\ sent \in Nat
          /\ sent + budget["transactions"] <= MaxTransactions
      BY <2>1, BudgetFieldsFacts DEF MakerTypes
    <3>2. MaxTransactions \in Nat
      BY TransactionsBounded
    <3> QED
      BY <3>1, <3>2
  <2>4. told \in Seq(BOOLEAN) /\ changed \in BOOLEAN /\ watch \in {0} \cup DOMAIN told
    <3>1. told \in Seq(BOOLEAN) /\ changed \in BOOLEAN /\ watch \in 0 .. Len(told)
      BY <2>1 DEF Pausing
    <3>2. DOMAIN told = 1 .. Len(told) /\ Len(told) \in Nat
      BY <3>1, LenProperties
    <3> QED
      BY <3>1, <3>2
  <2>5. \A p \in Peers : connection[p].resolved \subseteq Batches
    <3> TAKE p \in Peers
    <3>1. connection[p] \in Connections(Len(batches))
      BY <2>1 DEF Broadcasting, Delivering
    <3> QED
      BY <2>2, <3>1, ConnectionFields
  <2>6. /\ waiter # Idle => waiter.batch \in Batches /\ waiter.counted \subseteq Peers
        /\ closed \subseteq Batches
    BY <2>1, <2>2 DEF Counting
  <2> QED
    BY <2>1, <2>3, <2>4, <2>5, <2>6 DEF TypeOK, MakerTypes
<1> QED
  BY <1>1, WorkerInvariant, PTL

(***************************************************************************)
(* A digest that goes to the primary is of a batch that is in our store or *)
(* ahead in its queue and that workers of a quorum have received: the      *)
(* QuorumWaiter counts stake by handlers that the connections resolve by   *)
(* position (quorum_waiter.rs, reliable_sender.rs), whatever streams break *)
(* and whatever handlers were dropped before.                              *)
(***************************************************************************)
THEOREM WorkerAnnouncesAtQuorum == NodeSpec => []AnnouncedAtQuorum
<1>1. IInv => AnnouncedAtQuorum
  <2> SUFFICES ASSUME IInv, NEW b \in announced \cap Batches
               PROVE  b \in Readable(store) /\ IsQuorum(Holders(b))
    BY DEF AnnouncedAtQuorum, Holders
  <2>1. b \in Nat
    BY NumberedBatches DEF IInv
  <2> QED
    BY <2>1 DEF IInv, Announcing
<1> QED
  BY <1>1, WorkerInvariant, PTL

(***************************************************************************)
(* A connection of the ReliableSender neither loses, multiplies nor        *)
(* reorders: what is neither acknowledged nor cancelled is once in its     *)
(* channel, its buffer or its pending replies, however often keep_alive()  *)
(* fails and its pending replies go back to the buffer.                    *)
(***************************************************************************)
THEOREM WorkerLosesNothing == NodeSpec => []NothingLost
<1>1. IInv => NothingLost
  <2> SUFFICES ASSUME IInv, NEW p \in Peers
               PROVE  LET c == connection[p]
                          held == c.pending \o c.buffer \o c.channel
                      IN  /\ \A i, j \in DOMAIN held : i < j => held[i] < held[j]
                          /\ Batches \ (c.resolved \cup closed) \subseteq Range(held)
    BY DEF NothingLost
  <2> DEFINE c == connection[p]
             a == c.pending
             b == c.buffer
             d == c.channel
             n == Len(batches)
  <2>1. n \in Nat /\ Batches = 1 .. n
    BY NumberedBatches DEF IInv
  <2>2. Delivering(c, n, closed)
    BY DEF IInv, Broadcasting
  <2>3. c \in Connections(n)
    BY <2>2 DEF Delivering
  <2>4. a \in Seq(Nat) /\ b \in Seq(Nat) /\ d \in Seq(Nat)
    BY <2>1, <2>3, ConnectionFields
  <2>5. /\ Ascending(a) /\ Ascending(b) /\ Ascending(d)
        /\ Below(a, b) /\ Below(a, d) /\ Below(b, d)
    BY <2>2 DEF Delivering, InOrder
  <2>6. (1 .. n) \ (c.resolved \cup closed) \subseteq Range(a) \cup Range(b) \cup Range(d)
    BY <2>2 DEF Delivering, Held
  <2> HIDE DEF a, b, d, n
  <2>7. a \o b \in Seq(Nat) /\ Range(a \o b) = Range(a) \cup Range(b) /\ Ascending(a \o b)
    BY <2>4, <2>5, ConcatAscending
  <2>8. Below(a \o b, d)
    BY <2>5, <2>7 DEF Below
  <2> DEFINE ab == a \o b
  <2>9. ab \in Seq(Nat) /\ Ascending(ab) /\ Below(ab, d)
    BY <2>7, <2>8
  <2> HIDE DEF ab
  <2>10. Range(ab \o d) = Range(ab) \cup Range(d) /\ Ascending(ab \o d)
    BY <2>4, <2>5, <2>9, ConcatAscending
  <2>11. Range(ab) = Range(a) \cup Range(b)
    BY <2>7 DEF ab
  <2>12. ab \o d = c.pending \o c.buffer \o c.channel
    BY DEF ab, a, b, d
  <2> QED
    BY <2>1, <2>6, <2>10, <2>11, <2>12 DEF Ascending
<1> QED
  BY <1>1, WorkerInvariant, PTL

(***************************************************************************)
(* No wake-up of the Synchronizer is lost: a pending digest has a waiter   *)
(* of its own that is not cancelled and has still to call the store, is in *)
(* its queue, is owed an answer for a batch that is not there, or is       *)
(* answered, although other waiters of the same digest are cancelled and   *)
(* forgotten by the store meanwhile (synchronizer.rs, store/src/lib.rs).   *)
(***************************************************************************)
THEOREM WorkerForgetsNoWaiter == NodeSpec => []WaiterForEveryPending
<1>1. IInv => WaiterForEveryPending
  BY DEF IInv
<1> QED
  BY <1>1, WorkerInvariant, PTL
=============================================================================
