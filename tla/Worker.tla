------------------------------- MODULE Worker -------------------------------
(***************************************************************************)
(* The path of a client transaction through one worker (worker/src): the   *)
(* BatchMaker gathers transactions and broadcasts batches through one      *)
(* ReliableSender connection per peer, the QuorumWaiter waits until peers  *)
(* of a quorum have acknowledged, the Processor stores the batch and the   *)
(* PrimaryConnector is handed its digest.  The proposer of the primary     *)
(* pauses and resumes the BatchMaker, through one more such connection.    *)
(* Streams break at any moment.                                            *)
(*                                                                         *)
(* Abstractions.  Transactions are numbered in the order clients send them *)
(* and have size 1; a batch is known by its number.  The rounds of the     *)
(* BatchSilent messages are numbered without gaps: only their order        *)
(* matters.  Only the channel of the store has a bound.  A peer that has   *)
(* read a batch has it: its Processor, which is like ours, is left out.    *)
(***************************************************************************)
EXTENDS Committee, ReliableSender, Store

CONSTANTS
    Me,         \* the authority of this worker
    BatchSize,  \* batch_size
    Budgets,    \* what may happen in a behaviour, see below
    Idle        \* no batch, no message

\* A budget bounds the transactions, the broken streams to peers, the messages of the
\* proposer and the broken streams from it, and, for WorkerSync, the commands and clean-ups
\* of the Synchronizer and the best-effort connections that are lost.  Every behaviour
\* starts with one of them.
BudgetFields ==
    {"transactions", "failures", "notices", "breaks", "commands", "cleanups", "losses"}

ASSUME WorkerAssumption ==
    /\ Me \in Authorities
    /\ BatchSize \in Nat \ {0}
    /\ Budgets \subseteq [BudgetFields -> Nat]
    /\ \E b \in Budgets : \A c \in Budgets : c.transactions <= b.transactions

Peers == Authorities \ {Me}
MaxTransactions == Max({b.transactions : b \in Budgets})

VARIABLES
    budget,      \* what may still happen
    sent,        \* number of transactions clients have sent
    at,          \* where the BatchMaker is: "top", "paused" or "select"
    batch,       \* current_batch
    batches,     \* the batches sealed so far
    changed,     \* the BatchMaker has not seen the last change of watch
    told,        \* round -> what the proposer broadcast of it
    link,        \* the connection of the proposer to this worker
    stale,       \* frames of its broken stream, still to be read by the runner of that
    checked,     \* runner -> the message it found to be newer, or Idle
    overlapped,  \* auxiliary: a runner compared while the other was about to write
    watch,       \* the round of the watched pause state; 0 at the start
    connection,  \* peer -> connection
    waiting,     \* batches on the way to the QuorumWaiter
    waiter,      \* the batch it waits for and the peers counted, or Idle
    closed,      \* batches whose cancel handlers were dropped
    processing,  \* batches on the way to the Processor
    store,       \* the store of the worker
    announced    \* digests handed to the PrimaryConnector

makerVars == <<sent, at, batch, batches>>
pauseVars == <<told, link, stale, checked, overlapped, watch, changed>>
waiterVars == <<waiting, waiter, closed, processing, store, announced>>
vars == <<budget, makerVars, pauseVars, connection, waiterVars>>

Batches == DOMAIN batches

\* The pause state: (Round::default(), false) at the start.
Silent == watch > 0 /\ told[watch]

Init ==
    /\ budget \in Budgets
    /\ sent = 0
    /\ at = "top"
    /\ batch = <<>>
    /\ batches = <<>>
    /\ told = <<>>
    /\ link = NewConnection
    /\ stale = <<>>
    /\ checked = [r \in {"live", "stale"} |-> Idle]
    /\ overlapped = FALSE
    /\ watch = 0
    /\ changed = FALSE
    /\ connection = [p \in Peers |-> NewConnection]
    /\ waiting = <<>>
    /\ waiter = Idle
    /\ closed = {}
    /\ processing = <<>>
    /\ store = NewStore
    /\ announced = {}

\* One of what f bounds happens.
Spend(f) == budget[f] > 0 /\ budget' = [budget EXCEPT ![f] = @ - 1]

-----------------------------------------------------------------------------
\* prepare_round() of the proposer: the state of the next round.  It replaces the cancel
\* handlers of the last message, which is cancelled if it is not acknowledged.
Notify(pause) ==
    /\ Spend("notices")
    /\ told' = Append(told, pause)
    /\ link' = Send(link, Len(told'))
    /\ UNCHANGED <<makerVars, stale, checked, overlapped, watch, changed, connection, waiterVars>>

Cancelled == 1 .. (Len(told) - 1)

\* The connection of the proposer steps, and the runner of its stream does not.
StepLink(c) ==
    /\ link' = c
    /\ UNCHANGED <<budget, makerVars, told, stale, checked, overlapped, watch, changed,
                   connection, waiterVars>>

ExchangeLink ==
    \/ ~link.up /\ told # <<>> /\ StepLink(Connect(link))
    \/ CanDrain(link) /\ StepLink(Drain(link, Cancelled))
    \/ CanTransmit(link) /\ StepLink(Transmit(link, Cancelled))
    \/ CanFetch(link) /\ StepLink(Fetch(link))
    \/ CanTakeAck(link) /\ StepLink(TakeAck(link, Cancelled))

\* The stream of the proposer breaks.  Frames that have reached us are left to its runner;
\* a new stream gets a new one.
BreakLink ==
    /\ link.up
    /\ Spend("breaks")
    /\ stale = <<>> /\ checked["stale"] = Idle
    /\ \E k \in 0 .. Len(link.wire) :
        /\ link' = Fail(link, k)
        /\ stale' = SubSeq(link.wire, 1, k)
    /\ checked' = [live |-> Idle, stale |-> checked["live"]]
    /\ UNCHANGED <<makerVars, told, overlapped, watch, changed, connection, waiterVars>>

\* Fault seeded to test the properties: whatever comes last is taken.
IsNewerAlways(round) == TRUE

IsNewer(round) == round >= watch

\* PrimaryReceiverHandler: a runner acknowledges a message and compares its round with the
\* watched one.  Nothing keeps the other runner from doing so before the first has written.
Compare(r) ==
    LET frames == IF r = "live" THEN link.wire ELSE stale IN
    /\ checked[r] = Idle
    /\ frames # <<>>
    /\ IF r = "live" THEN link' = Read(link) /\ UNCHANGED stale
       ELSE stale' = Tail(stale) /\ UNCHANGED link
    /\ checked' = [checked EXCEPT ![r] = IF IsNewer(Head(frames)) THEN Head(frames) ELSE Idle]
    /\ overlapped' = (overlapped \/ \A q \in DOMAIN checked : checked'[q] # Idle)
    /\ UNCHANGED <<budget, makerVars, told, watch, changed, connection, waiterVars>>

\* Fault seeded to test the properties: the end of a pause is not signalled.
ReplaceUnnotified(r) ==
    /\ checked[r] # Idle
    /\ watch' = checked[r]
    /\ changed' = (changed \/ told[checked[r]])
    /\ checked' = [checked EXCEPT ![r] = Idle]
    /\ UNCHANGED <<budget, makerVars, told, link, stale, overlapped, connection, waiterVars>>

\* The runner replaces the watched state.
Replace(r) ==
    /\ checked[r] # Idle
    /\ watch' = checked[r]
    /\ changed' = TRUE
    /\ checked' = [checked EXCEPT ![r] = Idle]
    /\ UNCHANGED <<budget, makerVars, told, link, stale, overlapped, connection, waiterVars>>

-----------------------------------------------------------------------------
\* A client sends a transaction (TxReceiverHandler).
SendTransaction ==
    /\ Spend("transactions")
    /\ sent' = sent + 1
    /\ UNCHANGED <<at, batch, batches, pauseVars, connection, waiterVars>>

\* The BatchMaker goes on at place p of run().
Goto(p) ==
    /\ at' = p
    /\ UNCHANGED <<budget, sent, told, link, stale, checked, overlapped, watch, waiter, closed,
                   processing, store, announced>>

\* The check at the top of run().
CheckPause ==
    /\ at = "top"
    /\ Goto(IF Silent THEN "paused" ELSE "select")
    /\ UNCHANGED <<batch, batches, changed, connection, waiting>>

\* changed() returns, in the pause or as the first branch of select!.
SeeChange ==
    /\ at \in {"paused", "select"}
    /\ changed
    /\ changed' = FALSE
    /\ Goto("top")
    /\ UNCHANGED <<batch, batches, connection, waiting>>

\* seal(): broadcast the batch, hand it to the QuorumWaiter and start a new one.
Seal(txs) ==
    /\ batches' = Append(batches, txs)
    /\ batch' = <<>>
    /\ connection' = [p \in Peers |-> Send(connection[p], Len(batches'))]
    /\ waiting' = Append(waiting, Len(batches'))

Taken == Len(FlattenSeq(batches)) + Len(batch)

\* Fault seeded to test the properties: a batch is sealed when it is larger than its size.
FullBeyond(txs) == Len(txs) > BatchSize

Full(txs) == Len(txs) >= BatchSize

\* The second branch of select!: a transaction.
TakeTransaction ==
    LET txs == Append(batch, Taken + 1) IN
    /\ at = "select"
    /\ ~changed
    /\ Taken < sent
    /\ IF Full(txs) THEN Seal(txs)
       ELSE batch' = txs /\ UNCHANGED <<batches, connection, waiting>>
    /\ Goto("top")
    /\ UNCHANGED changed

\* The last branch: the timer, when the others are not ready.
SealOnTimer ==
    /\ at = "select"
    /\ ~changed
    /\ Taken = sent
    /\ batch # <<>>
    /\ Seal(batch)
    /\ Goto("top")
    /\ UNCHANGED changed

-----------------------------------------------------------------------------
\* The step of peer p's connection that leaves it as c.
Step(p, c) ==
    /\ connection' = [connection EXCEPT ![p] = c]
    /\ UNCHANGED <<makerVars, pauseVars, waiterVars>>

\* What the connection and the peer do on their own.  The first message for a peer spawns
\* its connection, which retries until it has a stream and drains its channel meanwhile.
Exchange(p) ==
    LET c == connection[p] IN
    /\ \/ ~c.up /\ batches # <<>> /\ Step(p, Connect(c))
       \/ CanDrain(c) /\ Step(p, Drain(c, closed))
       \/ CanTransmit(c) /\ Step(p, Transmit(c, closed))
       \/ CanFetch(c) /\ Step(p, Fetch(c))
       \/ CanTakeAck(c) /\ Step(p, TakeAck(c, closed))
       \/ CanRead(c) /\ Step(p, Read(c))
    /\ UNCHANGED budget

\* The stream breaks; the connection finds out when it reads or writes.
Break(p) ==
    LET c == connection[p] IN
    /\ c.up
    /\ Spend("failures")
    /\ \E k \in 0 .. Len(c.wire) : Step(p, Fail(c, k))

-----------------------------------------------------------------------------
\* The QuorumWaiter takes the next batch; it starts from our own stake.
StartWaiting ==
    /\ waiter = Idle
    /\ waiting # <<>>
    /\ waiter' = [batch |-> Head(waiting), counted |-> {}]
    /\ waiting' = Tail(waiting)
    /\ UNCHANGED <<budget, makerVars, pauseVars, connection, closed, processing, store, announced>>

\* Fault seeded to test the properties: our own stake is not counted.
EnoughAcksWithoutUs(S) == StakeOf(S) >= QuorumThreshold

EnoughAcks(S) == Stake[Me] + StakeOf(S) >= QuorumThreshold

\* The handler of a peer resolves.  At a quorum the batch moves on, and the handlers that
\* are left are dropped.
CountAck(p) ==
    /\ waiter # Idle
    /\ p \notin waiter.counted
    /\ waiter.batch \in connection[p].resolved
    /\ LET counted == waiter.counted \cup {p} IN
       IF EnoughAcks(counted)
       THEN /\ waiter' = Idle
            /\ closed' = closed \cup {waiter.batch}
            /\ processing' = Append(processing, waiter.batch)
       ELSE /\ waiter' = [waiter EXCEPT !.counted = counted]
            /\ UNCHANGED <<closed, processing>>
    /\ UNCHANGED <<budget, makerVars, pauseVars, connection, waiting, store, announced>>

\* The Processor writes the batch to the store and passes on its digest.
Process ==
    /\ processing # <<>>
    /\ Accepts(store)
    /\ store' = Write(store, Head(processing))
    /\ announced' = announced \cup {Head(processing)}
    /\ processing' = Tail(processing)
    /\ UNCHANGED <<budget, makerVars, pauseVars, connection, waiting, waiter, closed>>

\* The task of the store serves a command.
Serve ==
    /\ store.commands # <<>>
    /\ store' = Perform(store)
    /\ UNCHANGED <<budget, makerVars, pauseVars, connection, waiting, waiter, closed, processing,
                   announced>>

\* What the tasks do on their own.
Progress ==
    \/ ExchangeLink \/ \E r \in DOMAIN checked : Compare(r) \/ Replace(r)
    \/ CheckPause \/ SeeChange \/ TakeTransaction \/ SealOnTimer
    \/ \E p \in Peers : Exchange(p) \/ CountAck(p)
    \/ StartWaiting \/ Process

Next ==
    \/ Progress \/ Serve
    \/ \E pause \in BOOLEAN : Notify(pause)
    \/ BreakLink
    \/ SendTransaction
    \/ \E p \in Peers : Break(p)

(***************************************************************************)
(* The tasks keep running, and addresses that are right are reached in the *)
(* end (a connection retries for ever).  It is enough that some task goes  *)
(* on while one can: none of them has an endless supply of steps.  Nothing *)
(* is assumed of clients, of the proposer and of breaking streams.         *)
(***************************************************************************)
Fairness == WF_vars(Progress) /\ WF_vars(Serve)

-----------------------------------------------------------------------------
TypeOK ==
    /\ sent \in 0 .. MaxTransactions
    /\ at \in {"top", "paused", "select"}
    /\ Len(batch) < BatchSize
    /\ watch \in {0} \cup DOMAIN told
    /\ told \in Seq(BOOLEAN)
    /\ changed \in BOOLEAN
    /\ waiter # Idle => waiter.batch \in Batches /\ waiter.counted \subseteq Peers
    /\ closed \subseteq Batches
    /\ \A p \in Peers : connection[p].resolved \subseteq Batches

(***************************************************************************)
(* A digest that goes to the primary is of a batch that workers of a       *)
(* quorum have, ours included: acknowledgements carry no name and are      *)
(* matched by position, on streams that break and start again ("waits for  *)
(* 2f authorities to acknowledge reception", quorum_waiter.rs:22).  Our    *)
(* own store may still have it in its queue, ahead of every later read.    *)
(***************************************************************************)
AnnouncedAtQuorum ==
    \A b \in announced \cap Batches :
        b \in Readable(store) /\ IsQuorum({Me} \cup {p \in Peers : b \in connection[p].received})

(***************************************************************************)
(* A connection neither loses nor multiplies a message: one that is not    *)
(* acknowledged and not cancelled is exactly once in its channel, buffer   *)
(* and pending replies together, and these are in the order of sending.    *)
(***************************************************************************)
NothingLost ==
    \A p \in Peers :
        LET c == connection[p]
            held == c.pending \o c.buffer \o c.channel
        IN  /\ \A i, j \in DOMAIN held : i < j => held[i] < held[j]
            /\ Batches \ (c.resolved \cup closed) \subseteq Range(held)

(***************************************************************************)
(* Again and again every sealed batch is announced, although streams break *)
(* while it is on its way and handlers of other batches are dropped.       *)
(***************************************************************************)
BatchesAnnounced == []<>(Batches \subseteq announced)

(***************************************************************************)
(* No wake-up is lost: again and again every transaction the clients have  *)
(* sent is sealed in a batch, or the worker is paused.                     *)
(***************************************************************************)
TransactionsSealed == []<>(Len(FlattenSeq(batches)) = sent \/ Silent)

(***************************************************************************)
(* The worker ends up with what the proposer broadcast last, although a    *)
(* stream breaks, messages are repeated on the next one and frames of the  *)
(* old one are read late.  The exception is two runners that both compare  *)
(* before either has written: the older message may then stay.             *)
(***************************************************************************)
PauseFollows == <>[](overlapped \/ watch = Len(told))
=============================================================================
