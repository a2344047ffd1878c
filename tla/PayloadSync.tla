----------------------------- MODULE PayloadSync -----------------------------
(***************************************************************************)
(* How a primary gets the payload it misses: the core and the part of the  *)
(* HeaderWaiter that sends Synchronize commands                            *)
(* (primary/src/header_waiter.rs), the Synchronizers and Helpers of the    *)
(* workers of all authorities, and our worker's announcements.  Nothing is *)
(* lost here and every task runs; only the broadcast of a batch need not   *)
(* reach us, since its author stops at a quorum.                           *)
(*                                                                         *)
(* Abstractions.  Every authority has one worker, and a header has one     *)
(* batch, which bears its name.  A waiter of a worker resumes once the     *)
(* batch is stored.  A Helper answers a request in one step.               *)
(***************************************************************************)
EXTENDS Core, SimpleSender

CONSTANT SyncRetryNodes  \* sync_retry_nodes

VARIABLES
    asked,     \* HeaderWaiter.batch_requests
    commands,  \* worker -> Synchronize commands of our primary on their way to it
    syncs,     \* worker -> its Synchronizer
    requests,  \* worker -> batch requests on their way to it
    replies,   \* worker -> batches on their way to it
    dbs        \* worker -> batches it has stored

syncVars == <<asked, commands, syncs, requests, replies, dbs>>
allVars == <<vars, syncVars>>

\* The Synchronizer of a worker.
W == INSTANCE BatchSync

\* A batch is stored by a quorum before a header names it: here by all workers but ours.
SyncInit ==
    /\ Init
    /\ asked = {}
    /\ commands = NoMail(Authorities)
    /\ syncs = [a \in Authorities |-> W!NewSync]
    /\ requests = NoMail(Authorities)
    /\ replies = NoMail(Authorities)
    /\ dbs = [a \in Authorities |-> {h \in WithPayload : a # Me \/ h.author = Me}]

\* The worker that gets the command: primary_to_worker of the author of the header.
CommandedWorker(h) == h.author

\* SyncBatches: the batches nobody asked for yet.
CommandWorker ==
    LET fresh == {p.id : p \in {q \in headerWaiter' \ headerWaiter : q.on = "payload"}}
        toAsk == fresh \ asked
        Command(h) == [digests |-> {h}, target |-> h.author]
    IN  /\ asked' = asked \cup fresh
        /\ commands' =
            FoldSet(LAMBDA h, m : Post(m, CommandedWorker(h), Command(h)), commands, toAsk)

-----------------------------------------------------------------------------
HeaderArrives(h) ==
    /\ ReceiveHeader(h)
    /\ CommandWorker
    /\ UNCHANGED <<syncs, requests, replies, dbs>>

\* The payload is there: the request is forgotten and the header goes back to the core.
HeaderResumes(p) ==
    /\ LoopbackHeader(p)
    /\ asked' = asked \ {p.id}
    /\ UNCHANGED <<commands, syncs, requests, replies, dbs>>

\* Worker a takes a Synchronize command: it waits for the batches, and asks the worker of
\* the target for those it does not have.
SynchronizeAt(a) ==
    LET c == Arrived(commands, a)
        request == [digests |-> W!Missing(syncs[a], c.digests, dbs[a]), from |-> a]
    IN  /\ commands[a] # <<>>
        /\ commands' = Take(commands, a)
        /\ syncs' = [syncs EXCEPT ![a] = W!Synchronize(@, c.digests, 1)]
        /\ requests' = Post(requests, c.target, request)
        /\ UNCHANGED <<vars, asked, replies, dbs>>

\* A waiter of worker a resumes.
ResolveAt(a) ==
    \E w \in syncs[a].unpolled :
        /\ w.digest \in dbs[a]
        /\ syncs' = [syncs EXCEPT ![a] = W!Resolve(W!Poll(@, w), w)]
        /\ UNCHANGED <<vars, asked, commands, requests, replies, dbs>>

AgeAt(a) ==
    \E e \in syncs[a].pending :
        /\ ~e.old
        /\ syncs' = [syncs EXCEPT ![a] = W!Age(@, e)]
        /\ UNCHANGED <<vars, asked, commands, requests, replies, dbs>>

\* The timer of worker a.
RetryAt(a, S) ==
    LET overdue == W!Overdue(syncs[a]) IN
    /\ overdue # {}
    /\ HasRoom(requests, S)
    /\ requests' = Broadcast(requests, S, [digests |-> overdue, from |-> a])
    /\ UNCHANGED <<vars, asked, commands, syncs, replies, dbs>>

\* The Helper of worker a answers a request.
HelpAt(a) ==
    LET r == Arrived(requests, a) IN
    /\ requests[a] # <<>>
    /\ HasRoom(replies, {r.from})
    /\ requests' = Take(requests, a)
    /\ replies' = FoldSet(LAMBDA b, m : Post(m, r.from, b), replies, W!Answers(dbs[a], r.digests))
    /\ UNCHANGED <<vars, asked, commands, syncs, dbs>>

\* Worker a stores batch b, and our worker announces it to our primary.
StoreAt(a, b) ==
    /\ dbs' = [dbs EXCEPT ![a] = @ \cup {b}]
    /\ IF a = Me /\ b \notin payloads THEN ReceivePayload(b) ELSE UNCHANGED vars

ReplyArrives(a) ==
    /\ replies[a] # <<>>
    /\ replies' = Take(replies, a)
    /\ StoreAt(a, Arrived(replies, a))
    /\ UNCHANGED <<asked, commands, syncs, requests>>

\* The broadcast of a batch reaches our worker, or never does: its author drops the message
\* once others of a quorum have acknowledged it.
BroadcastArrives(b) ==
    /\ b \in WithPayload \ dbs[Me]
    /\ StoreAt(Me, b)
    /\ UNCHANGED <<asked, commands, syncs, requests, replies>>

SyncNext ==
    \/ \E h \in Sent : HeaderArrives(h) \/ BroadcastArrives(h)
    \/ \E p \in headerWaiter : HeaderResumes(p)
    \/ \E a \in Authorities :
        \/ SynchronizeAt(a) \/ ResolveAt(a) \/ AgeAt(a) \/ HelpAt(a) \/ ReplyArrives(a)
        \/ \E S \in LuckyChoices(Authorities \ {a}, SyncRetryNodes) : RetryAt(a, S)

\* Every task runs, and the random choices avoid nobody for ever.  Nothing is assumed of
\* headers and of the broadcast of batches.
LiveSyncSpec ==
    /\ SyncInit /\ [][SyncNext]_allVars
    /\ WF_allVars(\E p \in headerWaiter : HeaderResumes(p))
    /\ \A a \in Authorities :
        /\ WF_allVars(SynchronizeAt(a)) /\ WF_allVars(ResolveAt(a) \/ AgeAt(a))
        /\ WF_allVars(HelpAt(a)) /\ WF_allVars(ReplyArrives(a))
        /\ \A S \in LuckyChoices(Authorities \ {a}, SyncRetryNodes) : SF_allVars(RetryAt(a, S))

-----------------------------------------------------------------------------
(***************************************************************************)
(* A header that waits for its payload, which its author has, is voted for *)
(* in the end: the primary commands the HeaderWaiter "to synchronizer with *)
(* other nodes, wait for their reply, and re-schedule execution of the     *)
(* header once we have all missing data" (primary.rs:167).                 *)
(***************************************************************************)
PayloadArrives ==
    \A h \in WithPayload :
        (\E p \in headerWaiter : p.id = h /\ p.on = "payload")
            ~> (SlotOf(h) \in core.lastVoted)
=============================================================================
