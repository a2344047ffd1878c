----------------------------- MODULE ParentSync -----------------------------
(***************************************************************************)
(* How a primary gets the parents it misses: the core, the part of the     *)
(* HeaderWaiter that asks for them (primary/src/header_waiter.rs) and the  *)
(* Helpers of the primaries it asks (primary/src/helper.rs), over          *)
(* best-effort connections that lose what they carry.                      *)
(*                                                                         *)
(* Abstractions.  Which certificates a peer has does not change, so that   *)
(* it does not matter when its Helper reads a request: what it will answer *)
(* is on its way as soon as it is asked.  A copy of a header that we       *)
(* process or of a certificate that we hold is dropped here: Core is       *)
(* checked with copies.  Timestamps are left out: a retry asks for         *)
(* everything that is wanted, in the code for what is older than           *)
(* sync_retry_delay, as every request is in the end.                       *)
(***************************************************************************)
EXTENDS Core, SimpleSender

CONSTANTS
    Broadcasts,      \* certificates that reach us on their own
    Has,             \* peer -> the certificates it has stored
    SyncRetryNodes,  \* sync_retry_nodes
    MaxLosses        \* bound on the connections that are lost

Peers == Authorities \ {Me}

ASSUME ParentSyncAssumption ==
    /\ Broadcasts \subseteq Others
    /\ Has \in [Peers -> SUBSET Others]
    /\ SyncRetryNodes \in Nat \ {0} /\ MaxLosses \in Nat

VARIABLES
    wanted,   \* parent_requests: records of a certificate and a round
    mail,     \* peer -> certificates on their way from it
    losses,   \* number of connections lost so far
    dropped   \* auxiliary: the headers that were dropped while they waited for parents

syncVars == <<wanted, mail, losses, dropped>>
allVars == <<vars, syncVars>>

SyncInit ==
    /\ Init
    /\ wanted = {}
    /\ mail = NoMail(Peers)
    /\ losses = 0
    /\ dropped = {}

\* The headers that wait for parents.
Waiting == {p.id : p \in {q \in headerWaiter : q.on = "parents"}}

Wanted == {w.cert : w \in wanted}

\* The Helpers of the peers in S answer a request with what they have, one message per
\* certificate.  m is the mail so far.
Help(m, S, request) ==
    [p \in Peers |-> IF p \in S THEN m[p] \o SetToSeq(request \cap Has[p]) ELSE m[p]]

\* What a header that starts to wait for its parents adds to parent_requests.
Entries(h) == [cert : MissingParents(World, h) \ Wanted, round : {h.round}]

\* SyncParents: the certificates nobody asked for yet are asked of the author of the header.
\* In a step of the core at most one header starts to wait.  m is the mail so far.
AskAuthor(m) ==
    LET fresh == {p.id : p \in {q \in headerWaiter' \ headerWaiter : q.on = "parents"}}
        entries == UNION {Entries(h) : h \in fresh}
    IN  /\ wanted' = wanted \cup entries
        /\ mail' = Help(m, {h.author : h \in fresh}, {e.cert : e \in entries})

-----------------------------------------------------------------------------
\* A header arrives.
HeaderArrives(h) ==
    /\ h \notin core.processing
    /\ ReceiveHeader(h)
    /\ AskAuthor(mail)
    /\ UNCHANGED <<losses, dropped>>

\* A certificate arrives in the broadcast of its author.
BroadcastArrives(x) ==
    /\ x \in Broadcasts \ Received
    /\ ReceiveCertificate(x)
    /\ AskAuthor(mail)
    /\ UNCHANGED <<losses, dropped>>

\* A certificate we asked for arrives.  sanitize_certificate refuses it when the garbage
\* collector has overtaken its round.
ReplyArrives(p) ==
    LET x == Arrived(mail, p) IN
    /\ mail[p] # <<>>
    /\ IF x.round < core.gcRound \/ x \in Received
       THEN RefuseMessage /\ mail' = Take(mail, p) /\ UNCHANGED wanted
       ELSE ReceiveCertificate(x) /\ AskAuthor(Take(mail, p))
    /\ UNCHANGED <<losses, dropped>>

\* Fault seeded to test the properties: all requests of the round of the header are forgotten.
AnsweredRound(h) == {w \in wanted : w.round = h.round}

\* The requests a header that is complete removes.
Answered(h) == {w \in wanted : w.cert \in Parents[h]}

\* A header whose parents are there goes back to the core, which may make it wait again,
\* for its payload.
HeaderResumes(p) ==
    /\ LoopbackHeader(p)
    /\ wanted' = wanted \ Answered(p.id)
    /\ UNCHANGED <<mail, losses, dropped>>

CertificateResumes(x) ==
    /\ LoopbackCertificate(x)
    /\ AskAuthor(mail)
    /\ UNCHANGED <<losses, dropped>>

\* The garbage collector moves on, and the HeaderWaiter forgets what it overtook.
CommitLeader(x) == Commit(x) /\ UNCHANGED syncVars

ForgetOvertaken ==
    /\ CleanupWaiter
    /\ wanted' = {w \in wanted : w.round > consensusRound - GcDepth}
    /\ dropped' = dropped \cup (Waiting \ Waiting')
    /\ UNCHANGED <<mail, losses>>

\* Fault seeded to test the properties: a request is retried only once.
RetryRequestsOnce(S) ==
    /\ wanted # {}
    /\ HasRoom(mail, S)
    /\ mail' = Help(mail, S, Wanted)
    /\ wanted' = {}
    /\ UNCHANGED <<vars, losses, dropped>>

\* The timer: what is overdue is asked of a few peers picked at random.  (With nothing
\* overdue an empty request goes out, which no Helper answers.)
RetryRequests(S) ==
    /\ wanted # {}
    /\ HasRoom(mail, S)
    /\ mail' = Help(mail, S, Wanted)
    /\ UNCHANGED <<vars, wanted, losses, dropped>>

\* The connection to a peer or from it is lost, and the answers with it.
LoseMail(p) ==
    /\ mail[p] # <<>>
    /\ losses < MaxLosses
    /\ losses' = losses + 1
    /\ mail' = Lose(mail, p)
    /\ UNCHANGED <<vars, wanted, dropped>>

SyncNext ==
    \/ \E h \in Sent : HeaderArrives(h)
    \/ \E x \in Ids : BroadcastArrives(x) \/ CertificateResumes(x) \/ CommitLeader(x)
    \/ \E p \in headerWaiter : HeaderResumes(p)
    \/ ForgetOvertaken
    \/ \E p \in Peers : ReplyArrives(p) \/ LoseMail(p)
    \/ \E S \in LuckyChoices(Peers, SyncRetryNodes) : RetryRequests(S)

SyncSpec == SyncInit /\ [][SyncNext]_allVars

(***************************************************************************)
(* The waiters are polled, the timer fires again and again, its random     *)
(* choice does not avoid a set of peers for ever; peers that are asked     *)
(* answer, what they send is processed, and only finitely many connections *)
(* are lost.  Nothing is assumed of headers, of broadcasts, of the         *)
(* consensus and of the clean-up.                                          *)
(***************************************************************************)
LiveSyncSpec ==
    /\ SyncSpec
    /\ WF_allVars(\/ \E p \in headerWaiter : HeaderResumes(p)
                  \/ \E x \in Ids : CertificateResumes(x))
    /\ \A p \in Peers : WF_allVars(ReplyArrives(p))
    /\ \A S \in LuckyChoices(Peers, SyncRetryNodes) : SF_allVars(RetryRequests(S))

-----------------------------------------------------------------------------
\* The request for x is gone although h misses it: another header of a lower round had
\* asked for x first, and the request, which bore that round, was dropped with it.
Orphaned(x, h) == \E b \in dropped : x \in Parents[b] /\ b.round < h.round

(***************************************************************************)
(* The requests are those of the headers that wait, although headers share *)
(* them: a parent that is missing is asked for until it is there, and what *)
(* is asked for is a parent of a header that waits.  The exception is what *)
(* a header of a lower round asked for first.  A header is checked only    *)
(* once its parents are there (core.rs:149-171), so that any header can    *)
(* ask for any certificate, and the clean-up goes by the round of the one  *)
(* that asked (header_waiter.rs:208, 289).                                 *)
(***************************************************************************)
RequestsMatchPending ==
    /\ \A h \in Waiting : \A x \in MissingParents(World, h) : x \in Wanted \/ Orphaned(x, h)
    /\ \A w \in wanted : \E h \in Waiting : h.round = w.round /\ w.cert \in Parents[h]

Ancestors[h \in Ids] ==
    LET own == Parents[h] \ GenesisIds IN own \cup UNION {Ancestors[p] : p \in own}

Overtaken(h) == h.round + GcDepth <= consensusRound

\* A certificate h needs would be refused when it comes: the garbage collector has
\* overtaken its round.
TooFarBehind(h) == \E x \in Ancestors[h] \ certs : x.round + GcDepth < consensusRound

\* A certificate h needs may not be asked for any more: a header that names it against the
\* rules asked first and was dropped.
Starved(h) ==
    \E x \in Ancestors[h] \ certs : \E b \in dropped : x \in Parents[b] /\ ~WellFormedParents(b)

(***************************************************************************)
(* A header that passes the checks and waits for its parents is voted for  *)
(* in the end, however deep the history it lacks, if some peer has each    *)
(* certificate of that: the author may have lost them, and messages are    *)
(* lost.  Three things get in the way: the garbage collector overtakes the *)
(* header; it overtakes a certificate the header needs, which is then      *)
(* refused for ever; or it overtakes an ill-formed header that had asked   *)
(* for such a certificate first.                                           *)
(***************************************************************************)
ParentsFetched ==
    \A h \in {g \in Sent : WellFormedParents(g)} :
        (h \in Waiting /\ Ancestors[h] \subseteq UNION Range(Has))
            ~> (h \in voted \/ Overtaken(h) \/ TooFarBehind(h) \/ Starved(h))
=============================================================================
