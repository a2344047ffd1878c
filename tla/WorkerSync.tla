----------------------------- MODULE WorkerSync -----------------------------
(***************************************************************************)
(* A whole worker: the path of Worker, and beside it, on the same store,   *)
(* the Synchronizer that fetches batches it is told are missing, with the  *)
(* Helpers of the peers it asks and the Processor of what they send.       *)
(*                                                                         *)
(* Abstractions.  The batches of other workers are Foreign; which of them  *)
(* a peer has does not change.  Its Helper reads and answers a request in  *)
(* one step.  The reads of one Synchronize are one step: they are of       *)
(* different keys.  A batch that arrives is processed at once.  Commands   *)
(* of the primary are any Synchronize and any later Cleanup.               *)
(***************************************************************************)
EXTENDS Worker, BatchSync, SimpleSender

CONSTANTS
    Foreign,         \* batches of other workers; ours are numbers
    Has,             \* peer -> the batches of Foreign it has
    SyncRetryNodes   \* sync_retry_nodes

ASSUME WorkerSyncAssumption ==
    /\ IsFiniteSet(Foreign) /\ Foreign \cap Nat = {}
    /\ Has \in [Peers -> SUBSET Foreign]
    /\ SyncRetryNodes \in Nat \ {0}

VARIABLES
    sync,      \* the fields of the Synchronizer
    requests,  \* peer -> our batch requests on their way to it
    replies    \* peer -> batches it has sent us

syncVars == <<sync, requests, replies>>
nodeVars == <<vars, syncVars>>

NodeInit ==
    /\ Init
    /\ sync = NewSync
    /\ requests = NoMail(Peers)
    /\ replies = NoMail(Peers)

\* The rest of the worker does not step.
PathUnchanged ==
    UNCHANGED <<makerVars, pauseVars, connection, waiting, waiter, closed, processing>>

-----------------------------------------------------------------------------
\* Synchronize.  The digests that are missing are asked of the target, which may have none.
SynchronizeBatches(digests, target) ==
    LET missing == Missing(sync, digests, Readable(store)) IN
    /\ Spend("commands")
    /\ HasRoom(requests, {target})
    /\ sync' = Synchronize(sync, digests, budget.commands)
    /\ requests' = Post(requests, target, missing)
    /\ UNCHANGED <<replies, store, announced>>
    /\ PathUnchanged

\* Cleanup.
CleanUpBatches(round) ==
    /\ Spend("cleanups")
    /\ round > sync.round
    /\ sync' = CleanUp(sync, round)
    /\ UNCHANGED <<requests, replies, store, announced>>
    /\ PathUnchanged

\* A new waiter calls the store.
PollWaiter(w) ==
    /\ Accepts(store)
    /\ sync' = Poll(sync, w)
    /\ store' = NotifyRead(store, w.digest, w)
    /\ UNCHANGED <<budget, requests, replies, announced>>
    /\ PathUnchanged

\* A waiter returns: with its digest when it was answered, with None when it was cancelled,
\* with either when it was both.
ResumeWaiter(w) ==
    /\ \/ w \in store.answered /\ sync' = Resolve(sync, w)
       \/ w \in sync.cancelled /\ sync' = GiveUp(sync, w)
    /\ store' = Forget(store, w)
    /\ UNCHANGED <<budget, requests, replies, announced>>
    /\ PathUnchanged

\* sync_retry_delay passes for an entry.
AgeBatch(e) ==
    /\ ~e.old
    /\ sync' = Age(sync, e)
    /\ UNCHANGED <<budget, requests, replies, store, announced>>
    /\ PathUnchanged

\* The timer: what is overdue is asked of a few peers picked at random.
RetryBatches(S) ==
    /\ Overdue(sync) # {}
    /\ HasRoom(requests, S)
    /\ requests' = Broadcast(requests, S, Overdue(sync))
    /\ UNCHANGED <<budget, sync, replies, store, announced>>
    /\ PathUnchanged

\* The Helper of a peer sends the batches of a request that it has.
HelpWithBatches(p) ==
    LET batchesSent == SetToSeq(Answers(Has[p], Arrived(requests, p))) IN
    /\ requests[p] # <<>>
    /\ HasRoom(replies, {p})
    /\ requests' = Take(requests, p)
    /\ replies' = [replies EXCEPT ![p] = @ \o batchesSent]
    /\ UNCHANGED <<budget, sync, store, announced>>
    /\ PathUnchanged

\* A batch of a peer arrives; a Processor of its own stores it and passes on its digest.
ReceiveBatch(p) ==
    /\ replies[p] # <<>>
    /\ Accepts(store)
    /\ store' = Write(store, Arrived(replies, p))
    /\ announced' = announced \cup {Arrived(replies, p)}
    /\ replies' = Take(replies, p)
    /\ UNCHANGED <<budget, sync, requests>>
    /\ PathUnchanged

\* A connection to a peer or from it is lost.
LoseMail(p) ==
    /\ Spend("losses")
    /\ \/ requests[p] # <<>> /\ requests' = Lose(requests, p) /\ UNCHANGED replies
       \/ replies[p] # <<>> /\ replies' = Lose(replies, p) /\ UNCHANGED requests
    /\ UNCHANGED <<sync, store, announced>>
    /\ PathUnchanged

SyncNext ==
    \/ \E digests \in SUBSET Foreign \ {{}}, target \in Peers : SynchronizeBatches(digests, target)
    \/ \E round \in 1 .. (GcDepth + 1) : CleanUpBatches(round)
    \/ \E w \in sync.unpolled : PollWaiter(w)
    \/ \E w \in sync.unpolled \cup sync.waiting : ResumeWaiter(w)
    \/ \E e \in sync.pending : AgeBatch(e)
    \/ \E S \in LuckyChoices(Peers, SyncRetryNodes) : RetryBatches(S)
    \/ \E p \in Peers : HelpWithBatches(p) \/ ReceiveBatch(p) \/ LoseMail(p)

NodeNext == (Next /\ UNCHANGED syncVars) \/ SyncNext

NodeSpec == NodeInit /\ [][NodeNext]_nodeVars

(***************************************************************************)
(* The Synchronizer polls its waiters, its timer fires again and again,    *)
(* and its random choice does not avoid a set of peers for ever; peers     *)
(* that are asked answer, and only finitely many connections are lost.     *)
(***************************************************************************)
NodeFairness ==
    /\ WF_nodeVars(\/ \E w \in sync.unpolled : PollWaiter(w)
                   \/ \E w \in sync.unpolled \cup sync.waiting : ResumeWaiter(w)
                   \/ \E e \in sync.pending : AgeBatch(e))
    /\ \A S \in LuckyChoices(Peers, SyncRetryNodes) : SF_nodeVars(RetryBatches(S))
    /\ \A p \in Peers : WF_nodeVars(HelpWithBatches(p) \/ ReceiveBatch(p))

LiveNodeSpec == NodeSpec /\ Fairness /\ NodeFairness

-----------------------------------------------------------------------------
(***************************************************************************)
(* No wake-up is lost between the Synchronizer and the store: whoever is   *)
(* pending has a waiter of its own that will come back: it has still to    *)
(* call the store, its call is queued, it is owed an answer for a batch    *)
(* that is not there yet, or it is answered.                               *)
(***************************************************************************)
WaiterForEveryPending ==
    \A e \in sync.pending :
        LET w == WaiterOf(e) IN
        /\ w \notin sync.cancelled
        /\ \/ w \in sync.unpolled
           \/ \E c \in Range(store.commands) : c.op = "notify" /\ c.waiter = w
           \/ <<e.digest, w>> \in store.obligations /\ e.digest \notin store.db
           \/ w \in store.answered

(***************************************************************************)
(* A batch the Synchronizer was told of ends up in the store if a peer has *)
(* it, whatever the target has and whatever messages are lost, unless the  *)
(* clean-up passes the round it was asked in.                              *)
(***************************************************************************)
BatchFetched ==
    \A d \in UNION Range(Has), r \in 0 .. (GcDepth + 1) :
        (\E e \in sync.pending : e.digest = d /\ e.round = r)
            ~> (d \in store.db \/ sync.round >= r + GcDepth)
=============================================================================
