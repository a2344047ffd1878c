-------------------------------- MODULE Core --------------------------------
(***************************************************************************)
(* The core task of one primary (primary/src/core.rs) with the aggregators *)
(* it owns, the Synchronizer it calls, and the two waiters and the garbage *)
(* collector that feed it.  Messages of other primaries arrive in any      *)
(* order and any number of times; a Byzantine author may sign two headers  *)
(* for one round.                                                          *)
(*                                                                         *)
(* Abstractions.  A header is a record without its contents; a certificate *)
(* is its header (its digest is a hash of the id of that header).         *)
(* Signatures are valid: only headers, votes and certificates that verify  *)
(* are delivered.  A payload is present or not.  The sync requests sent to *)
(* other nodes are left out here: a missing certificate or payload may     *)
(* arrive at any time (ParentSync and PayloadSync have them).  Each        *)
(* handler is one step: Core runs one at a time and no other task writes   *)
(* its fields.                                                             *)
(***************************************************************************)
EXTENDS Committee, SequencesExt

CONSTANTS
    Me,             \* this authority
    Parents,        \* header -> its parents
    Others,         \* headers of other authors that are certified
    Sent,           \* headers that reach us on their own, not only in a certificate
    WithPayload,    \* headers whose payload is not empty
    GcDepth,        \* gc_depth
    MaxDeliveries,  \* bound on the certificates received from the network
    MaxRestarts,    \* bound on restarts of the node
    None            \* Header::default(): no header of our own yet

\* A header is a record of a round, an author and a tag that tells apart the headers an
\* author signs for one round.
Ids == DOMAIN Parents
MaxRound == Max({h.round : h \in Ids})

\* The genesis certificates.
GenesisIds == [round : {0}, author : Authorities, tag : {1}]

SlotOf(h) == <<h.round, h.author>>

\* The checks of process_header: parents of the round below that hold a quorum of stake.
WellFormedParents(h) ==
    /\ \A p \in Parents[h] : p.round + 1 = h.round
    /\ IsQuorum({p.author : p \in Parents[h]})

\* Headers start at round 1, and some header has the highest round; a parent is another
\* header or genesis.
ASSUME HeadersAssumption ==
    /\ Ids \subseteq [round : Nat \ {0}, author : Authorities, tag : Nat]
    /\ \E g \in Ids : \A h \in Ids : h.round <= g.round
    /\ \A h \in Ids : Parents[h] \subseteq Ids \cup GenesisIds
    /\ None \notin Ids
\* Our vote alone is no quorum.
ASSUME OwnStakeAssumption == Me \in Authorities /\ ~IsQuorum({Me})
\* Other authors get at most one header per round certified, and only a header that
\* passes the checks.
ASSUME OthersAssumption ==
    /\ Others \subseteq {h \in Ids : h.author # Me}
    /\ \A h \in Others : WellFormedParents(h)
    /\ \A g, h \in Others : SlotOf(g) = SlotOf(h) => g = h
ASSUME SentAssumption ==
    Sent \cup WithPayload \subseteq {h \in Ids : h.author # Me}
ASSUME BoundsAssumption == GcDepth \in Nat /\ MaxDeliveries \in Nat /\ MaxRestarts \in Nat

VARIABLES
    core,            \* the fields of struct Core and what it sent (see Boot)
    certs,           \* store: certificates
    payloads,        \* store: headers whose whole payload our workers announced
    consensusRound,  \* the AtomicU64 the garbage collector writes
    headerWaiter,    \* HeaderWaiter.pending
    certWaiter,      \* certificates in the CertificateWaiter, with multiplicity
    proposed,        \* our headers so far
    voted,           \* auxiliary: every vote we ever signed, as header ids
    assembled,       \* our headers that became certificates
    deliveries,      \* certificates received from the network so far
    restarts

vars == <<core, certs, payloads, consensusRound, headerWaiter, certWaiter, proposed, voted,
          assembled, deliveries, restarts>>

NoCertificates == [used |-> {}, certificates |-> {}]

Boot ==
    [gcRound     |-> 0,
     lastVoted   |-> {},       \* pairs of a round and an author
     processing  |-> {},       \* header ids
     current     |-> None,     \* current_header
     used        |-> {},       \* votes_aggregator: who voted
     weight      |-> 0,        \* votes_aggregator: stake since the last quorum
     aggregators |-> [r \in 0 .. MaxRound |-> NoCertificates],
     toProposer  |-> <<>>,     \* messages to the Proposer
     toConsensus |-> <<>>,     \* certificates sent to the consensus
     panicked    |-> FALSE]

Init ==
    /\ core = Boot
    /\ certs = {}
    /\ payloads = {}
    /\ consensusRound = 0
    /\ headerWaiter = {}
    /\ certWaiter = [h \in Ids |-> 0]
    /\ proposed = {}
    /\ voted = {}
    /\ assembled = {}
    /\ deliveries = 0
    /\ restarts = 0

-----------------------------------------------------------------------------
(***************************************************************************)
(* The handlers, as functions on a record w of everything they change.     *)
(***************************************************************************)
World ==
    [core |-> core, certs |-> certs, headerWaiter |-> headerWaiter,
     certWaiter |-> certWaiter, voted |-> voted, assembled |-> assembled]

Panic(w) == [w EXCEPT !.core.panicked = TRUE]

\* get_parents and deliver_certificate: genesis is always there, the rest is read from
\* the store.
MissingParents(w, h) == Parents[h] \ (GenesisIds \cup w.certs)

\* Fault seeded to test the properties: the HeaderWaiter syncs only once per round.
SuspendOncePerRound(w, h, on) ==
    IF \E p \in w.headerWaiter : p.id.round = h.round THEN w
    ELSE [w EXCEPT !.headerWaiter = @ \cup {[id |-> h, on |-> on]}]

\* The HeaderWaiter syncs only once per header.
Suspend(w, h, on) ==
    IF \E p \in w.headerWaiter : p.id = h THEN w
    ELSE [w EXCEPT !.headerWaiter = @ \cup {[id |-> h, on |-> on]}]

MissingPayload(h) == h.author # Me /\ h \in WithPayload \ payloads

\* Fault seeded to test the properties: only a second vote for the same header is refused.
CanVoteTwice(w, h) == h \notin w.voted

\* Fault seeded to test the properties: the answer of last_voted is ignored.
CanVoteAlways(w, h) == TRUE

CanVote(w, h) == SlotOf(h) \notin w.core.lastVoted

\* process_header up to the vote.  The id is marked as processed whatever comes next.
\* A header without parents is dropped: get_parents answers it like a missing parent.
ProcessHeaderBody(w, h) ==
    LET w1 == [w EXCEPT !.core.processing = @ \cup {h}] IN
    IF MissingParents(w, h) # {} THEN Suspend(w1, h, "parents")
    ELSE IF Parents[h] = {} \/ ~WellFormedParents(h) THEN w1
    ELSE IF MissingPayload(h) THEN Suspend(w1, h, "payload")
    ELSE IF CanVote(w, h)
         THEN [w1 EXCEPT !.core.lastVoted = @ \cup {SlotOf(h)},
                         !.voted = @ \cup {h}]
    ELSE w1

\* Whether that ended in a vote for a header of our own, which is not sent but processed.
VotesForSelf(w, h) ==
    /\ h.author = Me
    /\ MissingParents(w, h) = {} /\ Parents[h] # {} /\ WellFormedParents(h)
    /\ CanVote(w, h)

\* VotesAggregator::append for a first vote; the weight restarts at a quorum.
ReachesQuorum(w, a) == w.core.weight + Stake[a] >= QuorumThreshold

\* Fault seeded to test the properties: the weight does not restart at a quorum.
AppendVoteNoReset(w, a) ==
    [w EXCEPT !.core.used = @ \cup {a}, !.core.weight = @ + Stake[a]]

AppendVote(w, a) ==
    [w EXCEPT !.core.used = @ \cup {a},
              !.core.weight = IF ReachesQuorum(w, a) THEN 0 ELSE @ + Stake[a]]

\* The CertificateWaiter holds every copy it is handed.
Park(w, x) == [w EXCEPT !.certWaiter[x] = @ + 1]

\* Fault seeded to test the properties: the certificate is not written to the store.
AcceptUnstored(w, x) == [w EXCEPT !.core.toConsensus = Append(@, x)]

\* Fault seeded to test the properties: the aggregator takes a second certificate of an author.
AcceptCopies(w, x) ==
    LET r == x.round
        used == w.core.aggregators[r].used \cup {x.author}
        held == w.core.aggregators[r].certificates \cup {x}
    IN  [w EXCEPT
            !.certs = @ \cup {x},
            !.core.aggregators[r] =
                [used |-> used, certificates |-> IF IsQuorum(used) THEN {} ELSE held],
            !.core.toProposer =
                IF IsQuorum(used) THEN Append(@, [round |-> r, parents |-> held]) ELSE @,
            !.core.toConsensus = Append(@, x)]

\* Store the certificate, hand it to the aggregator of its round and to the consensus.  At
\* a quorum the aggregator gives away all it holds, and from then on every further one.
Accept(w, x) ==
    LET r == x.round
        agg == w.core.aggregators[r]
        fresh == x.author \notin agg.used
        used == agg.used \cup {x.author}
        held == IF fresh THEN agg.certificates \cup {x} ELSE agg.certificates
        ready == fresh /\ IsQuorum(used)
    IN  [w EXCEPT
            !.certs = @ \cup {x},
            !.core.aggregators[r] =
                [used |-> used, certificates |-> IF ready THEN {} ELSE held],
            !.core.toProposer =
                IF ready THEN Append(@, [round |-> r, parents |-> held]) ELSE @,
            !.core.toConsensus = Append(@, x)]

\* Fault seeded to test the properties: missing parents do not hold a certificate back.
DeliverCertificateEager(w, x) == Accept(w, x)

\* process_certificate after its header.
DeliverCertificate(w, x) ==
    IF MissingParents(w, x) # {} THEN Park(w, x) ELSE Accept(w, x)

\* A quorum of votes was reached: our certificate is made and processed.  Its header is
\* processed again if the clean-up forgot it, and our own vote is then a second one,
\* which the aggregator refuses and process_header does not expect.
Assemble(w) ==
    LET x == w.core.current
        w1 == [w EXCEPT !.assembled = @ \cup {x}]
    IN  IF x \in w.core.processing THEN DeliverCertificate(w1, x)
        ELSE LET w2 == ProcessHeaderBody(w1, x) IN
             IF ~VotesForSelf(w1, x) THEN DeliverCertificate(w2, x)
             ELSE IF Me \in w2.core.used THEN Panic(w2)
             ELSE DeliverCertificate(AppendVote(w2, Me), x)

\* process_vote.  A second vote of an authority is an error; for our own vote it is one
\* the code expects never to see.
ProcessVote(w, a) ==
    IF a \in w.core.used THEN (IF a = Me THEN Panic(w) ELSE w)
    ELSE IF ReachesQuorum(w, a) THEN Assemble(AppendVote(w, a))
    ELSE AppendVote(w, a)

ProcessHeader(w, h) ==
    LET w1 == ProcessHeaderBody(w, h)
    IN  IF VotesForSelf(w, h) THEN ProcessVote(w1, Me) ELSE w1

\* Fault seeded to test the properties: a certificate whose header was processed is taken
\* for a copy.
ProcessCertificateOnce(w, x) ==
    LET w1 == ProcessHeader(w, x)
    IN  IF x \in w.core.processing THEN w
        ELSE IF w1.core.panicked THEN w1 ELSE DeliverCertificate(w1, x)

\* process_certificate.  An error of process_header would end it, but the header of a
\* certificate passes the checks, of our own as of others.
ProcessCertificate(w, x) ==
    LET w1 == IF x \in w.core.processing THEN w ELSE ProcessHeader(w, x)
    IN  IF w1.core.panicked THEN w1 ELSE DeliverCertificate(w1, x)

\* The clean-up at the end of every iteration of run().
Cleanup(w) ==
    LET gc == consensusRound - GcDepth IN
    IF consensusRound <= GcDepth \/ w.core.panicked THEN w
    ELSE [w EXCEPT
            !.core.lastVoted = {v \in @ : v[1] >= gc},
            !.core.processing = {h \in @ : h.round >= gc},
            !.core.aggregators = [r \in DOMAIN @ |-> IF r >= gc THEN @[r] ELSE NoCertificates],
            !.core.gcRound = gc]

\* One iteration of run(): the handler that turns the world into w, then the clean-up.
Iterate(w) ==
    \E done \in {Cleanup(w)} :
        /\ ~core.panicked
        /\ core' = done.core
        /\ certs' = done.certs
        /\ headerWaiter' = done.headerWaiter
        /\ certWaiter' = done.certWaiter
        /\ voted' = done.voted
        /\ assembled' = done.assembled

-----------------------------------------------------------------------------
\* The proposer made a header of our own: one per round since the start, with a quorum of
\* the parents the core gave it (HeadersBuildOnQuorum of Proposer).  After a restart that
\* may be a header it has made before.
GivenParents(r) ==
    IF r = 0 THEN GenesisIds
    ELSE UNION {m.parents : m \in {n \in Range(core.toProposer) : n.round = r}}

OwnHeader(h) ==
    /\ h.author = Me
    /\ WellFormedParents(h)
    /\ core.current # None => core.current.round < h.round
    /\ Parents[h] \subseteq GivenParents(h.round - 1)
    /\ proposed' = proposed \cup {h}
    /\ Iterate(ProcessHeader([World EXCEPT !.core.current = h, !.core.used = {},
                                           !.core.weight = 0], h))
    /\ UNCHANGED <<payloads, consensusRound, deliveries, restarts>>

\* A header from the network; sanitize_header refuses rounds below gc_round.  Our own
\* header can come back from a peer.
ReceiveHeader(h) ==
    /\ h \in Sent \cup proposed
    /\ core.gcRound <= h.round
    /\ Iterate(ProcessHeader(World, h))
    /\ UNCHANGED <<payloads, consensusRound, proposed, deliveries, restarts>>

\* A vote from the network for the current header; sanitize_vote refuses all others.
ReceiveVote(a) ==
    /\ a # Me
    /\ core.current # None
    /\ Iterate(ProcessVote(World, a))
    /\ UNCHANGED <<payloads, consensusRound, proposed, deliveries, restarts>>

\* A certificate from the network, first copy or not.
ReceiveCertificate(x) ==
    /\ x \in Others \cup assembled
    /\ core.gcRound <= x.round
    /\ deliveries < MaxDeliveries
    /\ deliveries' = deliveries + 1
    /\ Iterate(ProcessCertificate(World, x))
    /\ UNCHANGED <<payloads, consensusRound, proposed, restarts>>

\* A message that is refused (too old, or a vote for another header) changes nothing, but
\* the iteration ends with the clean-up all the same.
RefuseMessage ==
    /\ Iterate(World)
    /\ UNCHANGED <<payloads, consensusRound, proposed, deliveries, restarts>>

\* What a suspended header waits for is in the store: the HeaderWaiter forgets it and the
\* core processes it, without sanitize_header.
LoopbackHeader(p) ==
    /\ p \in headerWaiter
    /\ IF p.on = "parents" THEN MissingParents(World, p.id) = {} ELSE p.id \in payloads
    /\ Iterate(ProcessHeader([World EXCEPT !.headerWaiter = @ \ {p}], p.id))
    /\ UNCHANGED <<payloads, consensusRound, proposed, deliveries, restarts>>

\* All parents of a parked certificate are stored.
LoopbackCertificate(x) ==
    /\ certWaiter[x] > 0
    /\ Parents[x] \subseteq certs
    /\ Iterate(ProcessCertificate([World EXCEPT !.certWaiter[x] = @ - 1], x))
    /\ UNCHANGED <<payloads, consensusRound, proposed, deliveries, restarts>>

\* Our workers announce the payload of a header (PayloadReceiver).
ReceivePayload(h) ==
    /\ h \in WithPayload \ payloads
    /\ payloads' = payloads \cup {h}
    /\ UNCHANGED <<core, certs, consensusRound, headerWaiter, certWaiter, proposed, voted,
                   assembled, deliveries, restarts>>

\* The consensus commits a leader of an even round, once f+1 of the stake of the next round
\* names it as a parent.  What is output with it comes in the order of the rounds, and the
\* garbage collector publishes each new round, up to that of the leader.
Commit(x) ==
    LET sent == Range(core.toConsensus) IN
    /\ x \in sent
    /\ x.round % 2 = 0
    /\ x.author = Leader(x.round)
    /\ IsValidity({y.author : y \in {c \in sent : x \in Parents[c]}})
    /\ x.round > consensusRound
    /\ consensusRound' \in (consensusRound + 1) .. x.round
    /\ UNCHANGED <<core, certs, payloads, headerWaiter, certWaiter, proposed, voted,
                   assembled, deliveries, restarts>>

\* The HeaderWaiter drops the headers the garbage collector overtook.  It is a task of its
\* own, and the timer makes it do so whether or not the core has work for it.
CleanupWaiter ==
    /\ consensusRound > GcDepth
    /\ headerWaiter' = {p \in headerWaiter : p.id.round > consensusRound - GcDepth}
    /\ headerWaiter' # headerWaiter
    /\ UNCHANGED <<core, certs, payloads, consensusRound, certWaiter, proposed, voted,
                   assembled, deliveries, restarts>>

\* The node stops and starts again: the store is all that is left.
Restart ==
    /\ restarts < MaxRestarts
    /\ restarts' = restarts + 1
    /\ core' = Boot
    /\ consensusRound' = 0
    /\ headerWaiter' = {}
    /\ certWaiter' = [h \in Ids |-> 0]
    /\ UNCHANGED <<certs, payloads, proposed, voted, assembled, deliveries>>

Next ==
    \/ \E h \in Ids : \/ OwnHeader(h) \/ ReceiveHeader(h) \/ ReceiveCertificate(h)
                      \/ LoopbackCertificate(h) \/ ReceivePayload(h) \/ Commit(h)
    \/ \E a \in Authorities : ReceiveVote(a)
    \/ \E p \in headerWaiter : LoopbackHeader(p)
    \/ RefuseMessage
    \/ CleanupWaiter
    \/ Restart

Spec == Init /\ [][Next]_vars

\* The CertificateWaiter polls all its futures and the core takes what it returns.
LiveSpec == Spec /\ \A x \in Ids : WF_vars(LoopbackCertificate(x))

-----------------------------------------------------------------------------
Pending == [id : Ids, on : {"parents", "payload"}]

TypeOK ==
    /\ core.gcRound \in 0 .. MaxRound
    /\ core.lastVoted \subseteq (1 .. MaxRound) \X Authorities
    /\ core.processing \subseteq Ids
    /\ core.current \in Ids \cup {None}
    /\ core.used \subseteq Authorities
    /\ core.weight \in 0 .. (QuorumThreshold - 1)
    /\ \A r \in 0 .. MaxRound : core.aggregators[r].certificates \subseteq Ids
    /\ Range(core.toConsensus) \subseteq certs
    /\ certs \subseteq Others \cup assembled
    /\ payloads \subseteq Ids
    /\ consensusRound \in 0 .. MaxRound
    /\ headerWaiter \subseteq Pending
    /\ certWaiter \in [Ids -> 0 .. MaxDeliveries]
    /\ proposed \subseteq Ids /\ voted \subseteq Ids /\ assembled \subseteq proposed

(***************************************************************************)
(* A primary signs at most one vote per round and author.  The exception   *)
(* is a round the garbage collector has overtaken: last_voted forgets it,  *)
(* and a header that comes back from the HeaderWaiter is not sanitized, so *)
(* it can be voted for although another one was.                           *)
(***************************************************************************)
VoteOncePerSlot ==
    \A g, h \in voted : (SlotOf(g) = SlotOf(h) /\ g # h) => g.round < core.gcRound

\* The abstract specification, in terms of the store and of what the core has sent.
Promise ==
    INSTANCE CausalDelivery WITH
        Genesis   <- GenesisIds,
        Rounds    <- 1 .. MaxRound,
        known     <- certs,
        delivered <- Range(core.toConsensus),
        given     <- [r \in 1 .. MaxRound |-> GivenParents(r)]

(***************************************************************************)
(* The core implements CausalDelivery: whatever the order in which headers *)
(* and certificates arrive, however often, and however the garbage         *)
(* collector thins out the aggregators, a certificate is passed on only    *)
(* after its parents, and the proposer gets nothing before a quorum.       *)
(***************************************************************************)
DeliversCausally == Promise!Spec

(***************************************************************************)
(* Until the garbage collector takes a round, the Proposer is given no     *)
(* parent of it before there is a quorum, and from then on every           *)
(* certificate of the round exactly once, however often it is received.    *)
(***************************************************************************)
ParentsGivenOnce ==
    \A r \in core.gcRound .. MaxRound :
        LET known == {x \in Range(core.toConsensus) : x.round = r}
            messages == {i \in DOMAIN core.toProposer : core.toProposer[i].round = r}
        IN  /\ r > 0 =>
                GivenParents(r) = IF IsQuorum({x.author : x \in known}) THEN known ELSE {}
            /\ \A i, j \in messages :
                i # j => core.toProposer[i].parents \cap core.toProposer[j].parents = {}

(***************************************************************************)
(* No header is stranded: one that is being processed, passes the checks   *)
(* and is not overtaken by the garbage collector is in the HeaderWaiter,   *)
(* or we voted in its slot.  So if what it lacks is stored, it resumes.    *)
(***************************************************************************)
NoStrandedHeader ==
    \A h \in core.processing :
        (WellFormedParents(h) /\ h.round + GcDepth > consensusRound)
            => \/ SlotOf(h) \in core.lastVoted
               \/ \E p \in headerWaiter : p.id = h

\* The copies of certificates that the CertificateWaiter holds, numbered.
ParkedCopies == UNION {{x} \X (1 .. certWaiter[x]) : x \in Ids}

(***************************************************************************)
(* As long as the node runs, certificates are neither lost nor multiplied: *)
(* each one received from the network and each one assembled from votes is *)
(* passed to the consensus once, or is parked in the CertificateWaiter.    *)
(***************************************************************************)
EveryCertificateAccounted ==
    (restarts = 0 /\ ~core.panicked) =>
        Len(core.toConsensus) + Cardinality(ParkedCopies)
            = deliveries + Cardinality(assembled)

\* The certificates received since the start.
Received == Range(core.toConsensus) \cup {x \in Ids : certWaiter[x] > 0}

\* A set of certificates with all the parents of its members.
Complete(S) == \A x \in S : Parents[x] \subseteq S \cup GenesisIds

(***************************************************************************)
(* Parked certificates get out: once a set of certificates with their      *)
(* whole history is received, in whatever order, every one of them is      *)
(* eventually stored and sent to the consensus, every copy of it, unless   *)
(* the node stops or restarts first.                                       *)
(***************************************************************************)
ParkedCertificatesResume ==
    \A x \in Ids, k \in 0 .. MaxRestarts :
        (restarts = k /\ x \in Received /\ Complete(Received))
            ~> \/ certWaiter[x] = 0 /\ x \in certs
               \/ core.panicked
               \/ restarts > k

(***************************************************************************)
(* Our own vote is refused, and stops the core, only when it is a second   *)
(* one for a header the core has forgotten: after a restart, or behind the *)
(* garbage collector.                                                      *)
(***************************************************************************)
OwnVoteRefusedOnlyAfterLoss ==
    core.panicked => (restarts > 0 \/ consensusRound > GcDepth)
=============================================================================
