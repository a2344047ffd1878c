------------------------------ MODULE Proposer ------------------------------
(***************************************************************************)
(* The proposer of one primary (primary/src/proposer.rs): it gathers       *)
(* parents from the core and digests from the workers, decides when to     *)
(* leave a round, and makes the header of the next one, unless the         *)
(* adversary schedule (primary/src/adversary.rs) keeps it silent there.    *)
(*                                                                         *)
(* The core speaks for the rest of the system: for each round it gives a   *)
(* quorum of certificates first and every further one by itself, and it    *)
(* gives a quorum of a round only after one of the round below, except for *)
(* the rounds it had stored before the last restart of the node.           *)
(*                                                                         *)
(* Abstractions.  Of the parents of a certificate only one matters here:   *)
(* whether the leader of the round below is among them.  Digests are       *)
(* numbered in the order they arrive and have size 1.  Time is a timer     *)
(* that may expire at any moment.                                          *)
(***************************************************************************)
EXTENDS Committee, SequencesExt

CONSTANTS
    Me,          \* name
    Faults,      \* adversary_faults: BULLSHARK_FAULTS
    Score,       \* round and authority -> score(): a hash of both and the seed
    HeaderSize,  \* header_size
    StoredUpTo,  \* last round of which certificates were stored before the start
    MaxRound,    \* bound on the rounds
    MaxDigests   \* bound on the digests the workers send

\* Somebody holds stake: the genesis certificates are a quorum.
ASSUME ProposerAssumption ==
    /\ Me \in Authorities
    /\ \E a \in Authorities : Stake[a] > 0
    /\ {Faults, HeaderSize, StoredUpTo, MaxDigests} \subseteq Nat
    /\ MaxRound \in Nat \ {0}
    /\ Score \in [1 .. MaxRound -> [Authorities -> Nat]]

VARIABLES
    round,       \* the round of the parents being gathered
    parents,     \* last_parents
    leader,      \* last_leader: the round whose leader it is; 0 for None
    digests,     \* digests; payload_size is always its length
    advance,
    silence,     \* silence_round and silent
    expired,     \* timer.is_elapsed()
    atTop,       \* the loop is before its check, not in select!
    given,       \* round -> certificates the core gave so far
    received,    \* number of digests received so far
    told,        \* auxiliary: the last BatchSilent broadcast to the workers
    left,        \* auxiliary: round -> the parents held when leaving it
    headers      \* auxiliary: the headers made, in order

vars == <<round, parents, leader, digests, advance, silence, expired, atTop, given,
          received, told, left, headers>>

Rounds == 1 .. MaxRound

\* A certificate the core gives: votes is whether its header names the leader of the
\* round below, which only matters in odd rounds; genesis is no leader to vote for.
Certs(r) ==
    [round : {r}, author : Authorities,
     votes : IF r > 1 /\ r % 2 = 1 THEN BOOLEAN ELSE {FALSE}]

Authors(S) == {x.author : x \in S}

-----------------------------------------------------------------------------
\* selected(): the steady leader takes one slot; the others go to the lowest scores.
Rank(a, r) ==
    LET key(c) == <<Score[r][c], c>>
        below(c, d) == key(c)[1] < key(d)[1] \/ (key(c)[1] = key(d)[1] /\ c < d)
    IN  Cardinality({c \in Authorities \ {Leader(r)} : below(c, a)})

Selected(a, r) ==
    LET faults == Min({Faults, N}) IN
    /\ faults > 0
    /\ a = Leader(r) \/ Rank(a, r) + 1 < faults

ComputeSilence(r) == Selected(Me, r)

\* prepare_round(): the cached decision, and what the workers are told of it (when the
\* adversary is on; BULLSHARK_CLIENT_DURING_SILENCE has its default, pause).
PrepareRound(r) ==
    /\ silence' = [round |-> r, silent |-> ComputeSilence(r)]
    /\ told' = IF Faults = 0 THEN told ELSE [round |-> r, pause |-> ComputeSilence(r)]

Init ==
    /\ round = 0
    /\ parents = [round : {0}, author : Authorities, votes : {FALSE}]
    /\ leader = 0
    /\ digests = <<>>
    /\ advance = TRUE
    /\ silence = [round |-> 1, silent |-> ComputeSilence(1)]
    /\ told = IF Faults = 0 THEN [round |-> 0, pause |-> FALSE]
                            ELSE [round |-> 1, pause |-> ComputeSilence(1)]
    /\ expired = FALSE
    /\ atTop = TRUE
    /\ given = [r \in Rounds |-> {}]
    /\ received = 0
    /\ left = [r \in 0 .. MaxRound |-> {}]
    /\ headers = <<>>

-----------------------------------------------------------------------------
\* update_leader() on the parents ps of round r: the leader's certificate among them.
UpdateLeader(ps, r) == IF Leader(r) \in Authors(ps) THEN r ELSE 0

\* Fault seeded to test the properties: f+1 votes are enough.
EnoughVotesFewer(ps, r) ==
    LET for == {x \in ps : x.votes /\ leader + 1 = r}
    IN  leader = 0 \/ IsValidity(Authors(for)) \/ IsValidity(Authors(ps \ for))

\* enough_votes() on the parents ps of round r: 2f+1 votes for the last leader, f+1 of the
\* others, or no last leader.
EnoughVotes(ps, r) ==
    LET for == {x \in ps : x.votes /\ leader + 1 = r}
    IN  leader = 0 \/ IsQuorum(Authors(for)) \/ IsValidity(Authors(ps \ for))

\* Fault seeded to test the properties: only a full header is proposed.
ReadyWhenFull == Len(digests) >= HeaderSize /\ advance /\ parents # {}

\* A quorum of parents, and the timer or enough digests on the happy path.
Ready == (expired \/ (Len(digests) >= HeaderSize /\ advance)) /\ parents # {}

\* The check at the top of the loop, when it has nothing to do.
Pass ==
    /\ atTop
    /\ ~Ready
    /\ atTop' = FALSE
    /\ UNCHANGED <<round, parents, leader, digests, advance, silence, expired, given,
                   received, told, left, headers>>

\* make_header()
Header ==
    [round   |-> round + 1,
     parents |-> parents,
     payload |-> Range(digests),
     timeout |-> expired]

\* Fault seeded to test the properties: the cached decision is used whatever its round.
SilentInCached(r) == silence.silent

\* Whether to stay silent in round r: the cached decision, renewed if it is of another round.
SilentIn(r) == IF silence.round # r THEN ComputeSilence(r) ELSE silence.silent

MakeHeader ==
    /\ headers' = Append(headers, Header)
    /\ digests' = <<>>
    /\ UNCHANGED leader

\* Fault seeded to test the properties: a silent round drops the digests like a header does.
StaySilentDrained ==
    /\ leader' = 0
    /\ digests' = <<>>
    /\ UNCHANGED headers

StaySilent ==
    /\ leader' = 0
    /\ UNCHANGED <<digests, headers>>

\* The check at the top of the loop: move to the next round, with a header or in silence.
Propose ==
    LET next == round + 1 IN
    /\ atTop
    /\ Ready
    /\ round < MaxRound
    /\ round' = next
    /\ IF silence.round # next THEN PrepareRound(next) ELSE UNCHANGED <<silence, told>>
    /\ IF SilentIn(next) THEN StaySilent ELSE MakeHeader
    /\ parents' = {}
    /\ left' = [left EXCEPT ![round] = Authors(parents)]
    /\ expired' = FALSE
    /\ atTop' = FALSE
    /\ UNCHANGED <<advance, given, received>>

\* Fault seeded to test the properties: late parents of earlier rounds are kept.
TakeParentsLate(ps, r) ==
    LET held == IF r > round THEN ps ELSE parents \cup ps
        now == IF r > round THEN r ELSE round
        found == UpdateLeader(held, now)
    IN  /\ round' = now
        /\ parents' = held
        /\ IF r > round THEN PrepareRound(r) ELSE UNCHANGED <<silence, told>>
        /\ IF now % 2 = 0 THEN leader' = found /\ advance' = (found # 0)
                          ELSE leader' = leader /\ advance' = EnoughVotes(held, now)
        /\ left' = IF r > round THEN [left EXCEPT ![round] = Authors(parents)] ELSE left

\* The rx_core branch, for the parents ps of round r: jump ahead, ignore them or add them;
\* then find out whether the round may be left before the timer expires.
TakeParents(ps, r) ==
    LET held == IF r > round THEN ps ELSE IF r = round THEN parents \cup ps ELSE parents
        now == IF r > round THEN r ELSE round
        found == UpdateLeader(held, now)
    IN  /\ round' = now
        /\ parents' = held
        /\ IF r > round THEN PrepareRound(r) ELSE UNCHANGED <<silence, told>>
        /\ IF now % 2 = 0 THEN leader' = found /\ advance' = (found # 0)
                          ELSE leader' = leader /\ advance' = EnoughVotes(held, now)
        /\ left' = IF r > round THEN [left EXCEPT ![round] = Authors(parents)] ELSE left

\* What the core can give: a certificate that verifies, that it has not given yet, and
\* whose parents it has.  One of ours is of a header of ours, made since the start or before.
CanGive(x) ==
    /\ Stake[x.author] > 0
    /\ x.author \notin Authors(given[x.round])
    /\ x.author = Me =>
            x.round <= StoredUpTo \/ \E i \in DOMAIN headers : headers[i].round = x.round
    /\ x.round > StoredUpTo + 1 =>
            /\ given[x.round - 1] # {}
            /\ x.votes => Leader(x.round - 1) \in Authors(given[x.round - 1])

\* CertificatesAggregator::append returned the certificates S of round r.
Gives(S, r) ==
    /\ \A x, y \in S : x.author = y.author => x = y
    /\ IF given[r] = {}
       THEN IsQuorum(Authors(S)) /\ \E x \in S : ~IsQuorum(Authors(S \ {x}))
       ELSE Cardinality(S) = 1

\* Parents of round r arrive from the core.
ReceiveParents(r) ==
    /\ ~atTop
    /\ \E S \in SUBSET {x \in Certs(r) : CanGive(x)} :
        /\ Gives(S, r)
        /\ given' = [given EXCEPT ![r] = @ \cup S]
        /\ TakeParents(S, r)
    /\ atTop' = TRUE
    /\ UNCHANGED <<digests, expired, received, headers>>

\* A digest arrives from a worker.
ReceiveDigest ==
    /\ ~atTop
    /\ received < MaxDigests
    /\ received' = received + 1
    /\ digests' = Append(digests, received + 1)
    /\ atTop' = TRUE
    /\ UNCHANGED <<round, parents, leader, advance, silence, expired, given, told, left, headers>>

\* The timer expires, at any point of the loop, and wakes it up.
Timer ==
    /\ ~expired
    /\ expired' = TRUE
    /\ atTop' = TRUE
    /\ UNCHANGED <<round, parents, leader, digests, advance, silence, given, received,
                   told, left, headers>>

Next ==
    \/ Pass \/ Propose \/ ReceiveDigest \/ Timer
    \/ \E r \in Rounds : ReceiveParents(r)

Spec == Init /\ [][Next]_vars

\* The runtime fires the timer and keeps running the loop.
LiveSpec == Spec /\ WF_vars(Timer) /\ WF_vars(Pass) /\ WF_vars(Propose)

-----------------------------------------------------------------------------
TypeOK ==
    /\ round \in 0 .. MaxRound
    /\ \A x \in parents : x.round = round /\ x.author \in Authorities
    /\ leader \in 0 .. MaxRound
    /\ digests \in Seq(1 .. MaxDigests)
    /\ {advance, expired, atTop, silence.silent, told.pause} \subseteq BOOLEAN
    /\ silence.round \in Rounds
    /\ received \in 0 .. MaxDigests
    /\ \A r \in Rounds : given[r] \subseteq Certs(r)

(***************************************************************************)
(* Every header has a quorum of parents, all of the round below: parents   *)
(* of different rounds never mix, and the extra parents of a round the     *)
(* proposer has left never make up a header on their own, although         *)
(* last_parents is only tested for being empty.                            *)
(***************************************************************************)
HeadersBuildOnQuorum ==
    \A i \in DOMAIN headers :
        /\ \A x \in headers[i].parents : x.round + 1 = headers[i].round
        /\ IsQuorum(Authors(headers[i].parents))

(***************************************************************************)
(* At most one header is made per round and none in a silent round, also   *)
(* after a jump, which leaves the decision of another round in the cache:  *)
(* "Silent Primaries suppress Header creation" (README.md).                *)
(***************************************************************************)
HeaderOnlyWhenActive ==
    /\ \A i, j \in DOMAIN headers : i < j => headers[i].round < headers[j].round
    /\ \A i \in DOMAIN headers : ~Selected(Me, headers[i].round)

(***************************************************************************)
(* No digest is lost or proposed twice, and no header overtakes an earlier *)
(* digest: what silent rounds leave over is in the next header.            *)
(***************************************************************************)
DigestsProposedOnce ==
    /\ (UNION {headers[i].payload : i \in DOMAIN headers}) \cup Range(digests) = 1 .. received
    /\ \A i, j \in DOMAIN headers :
           i < j => \A a \in headers[i].payload, b \in headers[j].payload : a < b
    /\ \A i \in DOMAIN headers : \A a \in headers[i].payload, b \in Range(digests) : a < b

(***************************************************************************)
(* A round is left before the timer expires only when it helps the leader. *)
(* A header of an odd round names the leader of the round below.  A header *)
(* of an even round knows 2f+1 votes for the leader two rounds below, or   *)
(* f+1 certificates without one, unless we had no leader to vote for when  *)
(* we left its round, or were silent.  Jumps and late parents must not     *)
(* make the answer of an earlier round count for a later one.              *)
(***************************************************************************)
HappyPathWaits ==
    \A i \in DOMAIN headers :
        LET r == headers[i].round - 1
            for == {x \in headers[i].parents : x.votes}
        IN  (r > 1 /\ ~headers[i].timeout) =>
                IF r % 2 = 0 THEN Leader(r) \in Authors(headers[i].parents)
                ELSE \/ IsQuorum(Authors(for))
                     \/ IsValidity(Authors(headers[i].parents \ for))
                     \/ Leader(r - 1) \notin left[r - 1]
                     \/ Selected(Me, r)

(***************************************************************************)
(* A proposer with parents gets out of its round, whatever the leader does *)
(* and although the workers may send nothing.                              *)
(***************************************************************************)
RoundsAreLeft ==
    \A r \in 0 .. (MaxRound - 1) : (round = r /\ parents # {}) ~> (round > r)
=============================================================================
