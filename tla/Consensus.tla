----------------------------- MODULE Consensus -----------------------------
(***************************************************************************)
(* The consensus task of one validator (consensus/src/lib.rs).  Its        *)
(* primary sends it certificates over a channel; each one is inserted in   *)
(* the in-memory DAG and may commit a leader, whose uncommitted history is *)
(* then flattened, output and cleaned up.                                  *)
(*                                                                         *)
(* The certified DAG is chosen once, in Init: certificates are made        *)
(* independently of what this task does, so only the order in which they   *)
(* are delivered matters, and every order that respects the parent links   *)
(* is explored.                                                            *)
(*                                                                         *)
(* Abstractions.  A certificate is its round and origin (see               *)
(* Certificates).  The depth-first search of order_dag is replaced by the  *)
(* set of certificates it visits, which does not depend on the order of    *)
(* the visit; that order only shows in the output among certificates of    *)
(* one round, where the order of the digests, which is arbitrary, is       *)
(* replaced by the order of the origins.  Logging is left out.             *)
(***************************************************************************)
EXTENDS Certificates, SequencesExt

CONSTANTS
    Dags,            \* the certified DAGs to consider
    GcDepth,         \* gc_depth
    Dynamic,         \* dynamic_adversary_enabled(): BULLSHARK_FAULTS > 0
    MaxRedeliveries  \* bound on certificates the primary sends a second time

ASSUME DagsAssumption == \A d \in Dags : WellFormed(d)
ASSUME ParametersAssumption ==
    GcDepth \in Nat /\ Dynamic \in BOOLEAN /\ MaxRedeliveries \in Nat

VARIABLES
    parents,       \* the certified DAG
    delivered,     \* certificates received from the primary so far
    redeliveries,  \* how many certificates were received again
    state,         \* struct State
    output,        \* sequence sent to the application and to the primary
    leaders,       \* auxiliary: the leaders whose history was flattened, in order
    direct         \* auxiliary: the leaders committed by their own support

vars == <<parents, delivered, redeliveries, state, output, leaders, direct>>

\* State::new
NewState ==
    [dag                    |-> Genesis,
     lastCommitted          |-> [a \in Authorities |-> 0],
     lastCommittedRound     |-> 0,
     resolvedFallbackRounds |-> {}]

TypeOK ==
    /\ DOMAIN parents \subseteq Certificate
    /\ delivered \subseteq DOMAIN parents \ Genesis
    /\ redeliveries \in 0 .. MaxRedeliveries
    /\ state.dag \subseteq DOMAIN parents
    /\ state.lastCommitted \in [Authorities -> Nat]
    /\ state.lastCommittedRound = Max({state.lastCommitted[a] : a \in Authorities})
    /\ state.resolvedFallbackRounds \subseteq Nat
    /\ output \in Seq(DOMAIN parents)
    /\ leaders \in Seq(DOMAIN parents)
    /\ direct \subseteq Range(leaders)

Init ==
    /\ parents \in Dags
    /\ delivered = {}
    /\ redeliveries = 0
    /\ state = NewState
    /\ output = <<>>
    /\ leaders = <<>>
    /\ direct = {}

-----------------------------------------------------------------------------
\* Election.  Both functions return the set holding the elected certificate of the
\* round, or the empty set when the DAG at hand does not have it.

ElectedIn(dag, r, a) == {x \in dag : x.round = r /\ x.origin = a}

\* leader(): round-robin, seeded by the round.
LeaderIn(r, dag) == ElectedIn(dag, r, Leader(r))

\* The constant 0x9E3779B9 of fallback_leader modulo n, computed within 32 bits.
GoldenMod(n) == ((40503 % n) * (65536 % n) + 31161) % n

\* The sequence of the elements of S in the order before (SetToSortSeq, for larger sets
\* than TLC can enumerate the permutations of).
SortedBy(S, before(_, _)) ==
    [i \in 1 .. Cardinality(S) |->
        CHOOSE x \in S : Cardinality({y \in S : before(y, x)}) = i - 1]

\* fallback_leader(): a pseudo-random authority other than the two steady leaders of
\* the wave.  rotate_left(7) is a product by 128 and nothing wraps around while the
\* wave is below 2^32.
FallbackLeaderIn(first, dag) ==
    LET candidates == SortedBy(Authorities \ {Leader(first), Leader(first + 2)}, <)
        n == Len(candidates)
        wave == (IF first < 2 THEN 0 ELSE first - 2) \div 4
        mixed == wave * GoldenMod(n) + wave * 128
    IN  IF n = 0 THEN {} ELSE ElectedIn(dag, first, candidates[1 + (mixed % n)])

\* The leader round that the arrival of a certificate of this round may decide; 0 when
\* there is none.
DecidedRound(round) ==
    IF Dynamic THEN (IF round < 5 \/ round % 4 # 1 THEN 0 ELSE round - 3)
               ELSE (IF round < 3 \/ (round - 1) % 2 # 0 THEN 0 ELSE round - 1)

Candidate(r, dag) == IF Dynamic THEN FallbackLeaderIn(r, dag) ELSE LeaderIn(r, dag)

\* linked(): the walk from one certificate down to the round of another, inside the
\* in-memory DAG.
Linked(x, prev, dag) == prev \in Reach(parents, x, dag)[prev.round]

\* The authorities whose certificate of this round supports the leader.
SupportFor(l, round, dag) ==
    Origins({y \in AtRound(dag, round) :
                IF Dynamic THEN Linked(y, l, dag) ELSE l \in parents[y]})

\* Fault seeded to test the properties: any support commits a leader.
EnoughSupportAny(S) == S # {}

\* Fault seeded to test the properties: steady leaders need a quorum.
EnoughSupportQuorum(S) == IsQuorum(S)

EnoughSupport(S) == IF Dynamic THEN IsQuorum(S) ELSE IsValidity(S)

-----------------------------------------------------------------------------
\* Committing.

\* The leader of round r goes in front of a chain whose head is linked to it.
Extend(chain, r, dag) ==
    SetToSeq({p \in LeaderIn(r, dag) : Linked(Head(chain), p, dag)}) \o chain

\* order_leaders(): the past leaders to commit before this one, oldest first.  The
\* range lastCommittedRound + 2 .. leader.round - 1 is walked down from its top in
\* steps of two.
OrderLeaders(leader, st) ==
    LET count == (leader.round - st.lastCommittedRound - 1) \div 2
        chain[i \in 0 .. count] ==
            IF i = 0 THEN <<leader>>
            ELSE Extend(chain[i - 1], leader.round + 1 - 2 * i, st.dag)
    IN  chain[count]

\* Fault seeded to test the properties: the last committed certificates are not skipped.
OrderDagNoSkip(leader, st) ==
    {x \in UNION Range(Reach(parents, leader, st.dag)) :
        x.round + GcDepth >= st.lastCommittedRound}

\* Fault seeded to test the properties: the search stops at the last committed round.
OrderDagShallow(leader, st) ==
    LET open == {y \in st.dag : y.round > st.lastCommittedRound}
    IN  UNION Range(Reach(parents, leader, open))

\* order_dag(): the certificates to output with a leader.  The search goes through what
\* the DAG still holds, and stops at the last committed certificate of each authority.
OrderDag(leader, st) ==
    LET open == {y \in st.dag : st.lastCommitted[y.origin] # y.round}
    IN  {x \in UNION Range(Reach(parents, leader, open)) :
            x.round + GcDepth >= st.lastCommittedRound}

\* Fault seeded to test the properties: the sequence keeps the order of the search.
SortByRoundUnsorted(S) ==
    LET before(x, y) == \/ x.round > y.round
                        \/ x.round = y.round /\ x.origin < y.origin
    IN  SortedBy(S, before)

\* sort_by_key(round)
SortByRound(S) ==
    LET before(x, y) == \/ x.round < y.round
                        \/ x.round = y.round /\ x.origin < y.origin
    IN  SortedBy(S, before)

\* Fault seeded to test the properties: the last committed round is not recomputed.
UpdateStale(st, S) ==
    LET lc == [a \in Authorities |->
                Max({st.lastCommitted[a]} \cup {x.round : x \in {y \in S : y.origin = a}})]
    IN  [st EXCEPT !.lastCommitted = lc]

\* Fault seeded to test the properties: the comparison with the garbage collection depth is reversed.
UpdateReversed(st, S) ==
    LET lc == [a \in Authorities |->
                Max({st.lastCommitted[a]} \cup {x.round : x \in {y \in S : y.origin = a}})]
        lcr == Max({lc[a] : a \in Authorities})
    IN  [st EXCEPT
            !.lastCommitted = lc,
            !.lastCommittedRound = lcr,
            !.dag = {y \in @ : y.round >= lc[y.origin] /\ y.round + GcDepth <= lcr + GcDepth}]

\* update(), called for every certificate of S in turn.  Each call only raises
\* lastCommitted and only removes from the DAG what the last call removes as well.
Update(st, S) ==
    LET lc == [a \in Authorities |->
                Max({st.lastCommitted[a]} \cup {x.round : x \in {y \in S : y.origin = a}})]
        lcr == Max({lc[a] : a \in Authorities})
    IN  [st EXCEPT
            !.lastCommitted = lc,
            !.lastCommittedRound = lcr,
            !.dag = {y \in @ : y.round >= lc[y.origin] /\ y.round + GcDepth >= lcr}]

\* One leader is committed: the state it leaves, and the sequence so far.
Commit(done, leader) ==
    LET S == OrderDag(leader, done.st)
    IN  [st |-> Update(done.st, S), sequence |-> done.sequence \o SortByRound(S)]

\* The loop over the leaders to commit.
CommitAll(st, chain) ==
    LET done[i \in 0 .. Len(chain)] ==
            IF i = 0 THEN [st |-> st, sequence |-> <<>>] ELSE Commit(done[i - 1], chain[i])
    IN  done[Len(chain)]

LeadersToCommit(leader, st) == IF Dynamic THEN <<leader>> ELSE OrderLeaders(leader, st)

-----------------------------------------------------------------------------
\* One iteration of run(): a certificate is inserted and one of three things follows.

Inserted(x) == [state EXCEPT !.dag = @ \cup {x}]

\* Fault seeded to test the properties: the support round is counted without the new certificate.
EvaluatesBefore(x, st) ==
    LET r == DecidedRound(x.round) IN
    /\ r > st.lastCommittedRound
    /\ Dynamic => /\ r \notin st.resolvedFallbackRounds
                  /\ IsQuorum(Origins(AtRound(st.dag, x.round) \ {x}))

\* The early continues: no leader round, or one that is already decided, or (dynamic)
\* no quorum of the support round yet.
Evaluates(x, st) ==
    LET r == DecidedRound(x.round) IN
    /\ r > st.lastCommittedRound
    /\ Dynamic => /\ r \notin st.resolvedFallbackRounds
                  /\ IsQuorum(Origins(AtRound(st.dag, x.round)))

\* The leader that the certificate commits (at most one).
Supported(x, st) ==
    {l \in Candidate(DecidedRound(x.round), st.dag) :
        EnoughSupport(SupportFor(l, x.round, st.dag))}

\* Nothing is decided.  A steady leader that is missing or lacks support is left for
\* the next certificate.
Wait(x) ==
    LET st == Inserted(x) IN
    /\ Evaluates(x, st) => ~Dynamic /\ Supported(x, st) = {}
    /\ state' = st
    /\ UNCHANGED <<output, leaders, direct>>

\* A fallback that is missing or lacks support is skipped for good.
SkipFallback(x) ==
    LET st == Inserted(x) IN
    /\ Dynamic
    /\ Evaluates(x, st)
    /\ Supported(x, st) = {}
    /\ state' = [st EXCEPT !.resolvedFallbackRounds = @ \cup {DecidedRound(x.round)}]
    /\ UNCHANGED <<output, leaders, direct>>

\* The leader is committed, after the past leaders it is linked to.
CommitLeader(x) ==
    LET st == Inserted(x) IN
    /\ Evaluates(x, st)
    /\ \E leader \in Supported(x, st) :
        LET chain == LeadersToCommit(leader, st)
            done == CommitAll(st, chain)
        IN  /\ state' = IF Dynamic
                        THEN [done.st EXCEPT !.resolvedFallbackRounds = @ \cup {leader.round}]
                        ELSE done.st
            /\ output' = output \o done.sequence
            /\ leaders' = leaders \o chain
            /\ direct' = direct \cup {leader}

Handle(x) == Wait(x) \/ SkipFallback(x) \/ CommitLeader(x)

\* The primary sends a certificate for the first time, after its whole history.
Deliver(x) ==
    /\ x \notin delivered
    /\ parents[x] \subseteq delivered \cup Genesis
    /\ Handle(x)
    /\ delivered' = delivered \cup {x}
    /\ UNCHANGED <<parents, redeliveries>>

\* The primary sends a certificate again: process_certificate passes on every copy that
\* reaches it (retransmission, answer to a sync request, loopback of a waiter).
Redeliver(x) ==
    /\ x \in delivered
    /\ redeliveries < MaxRedeliveries
    /\ Handle(x)
    /\ redeliveries' = redeliveries + 1
    /\ UNCHANGED <<parents, delivered>>

Next == \E x \in DOMAIN parents \ Genesis : Deliver(x) \/ Redeliver(x)

Spec == Init /\ [][Next]_vars

-----------------------------------------------------------------------------
Committed == Range(output)

(***************************************************************************)
(* The output is a causal order: nothing is output after a certificate     *)
(* that names it as a parent, as long as the primary sends nothing twice.  *)
(***************************************************************************)
ParentsFirst ==
    redeliveries = 0 => \A i, j \in DOMAIN output : output[i] \in parents[output[j]] => i < j

(***************************************************************************)
(* Above the last committed round the in-memory DAG has no empty round     *)
(* below a certificate it holds, so the walks of linked(), which stay      *)
(* above that round, never hit "We should have the whole history by now".  *)
(***************************************************************************)
WholeHistory ==
    \A x \in state.dag : \A r \in (state.lastCommittedRound + 1) .. (x.round - 1) :
        AtRound(state.dag, r) # {}

(***************************************************************************)
(* A leader committed by its own support is in the history of every        *)
(* certificate that any validator can use to commit a later leader: the    *)
(* certificates two rounds up in normal mode, four in dynamic mode.        *)
(***************************************************************************)
DirectCommitIsFinal ==
    \A l \in direct : \A x \in DOMAIN parents :
        x.round >= l.round + (IF Dynamic THEN 4 ELSE 2) => InHistory(parents, l, x)

(***************************************************************************)
(* No decision is missed.  In normal mode a leader above the last          *)
(* committed round never has f+1 of support among the delivered            *)
(* certificates, whatever the order in which leader and support arrived;   *)
(* in dynamic mode a fallback round whose support round has a delivered    *)
(* quorum is resolved or already overtaken.                                *)
(***************************************************************************)
NoMissedDecision ==
    \A r \in {DecidedRound(x.round) : x \in delivered} :
        r > state.lastCommittedRound =>
            IF Dynamic
            THEN IsQuorum(Origins(AtRound(delivered, r + 3)))
                    => r \in state.resolvedFallbackRounds
            ELSE \A l \in LeaderIn(r, delivered) :
                    ~IsValidity(SupportFor(l, r + 1, delivered))

(***************************************************************************)
(* A parent of an output certificate is output too, unless the clean-up of *)
(* update took it: it is older than the last committed certificate of its  *)
(* author, or older than the garbage collection depth.                     *)
(***************************************************************************)
LossOnlyBehindCleanup ==
    \A x \in Committed : \A y \in parents[x] \ Genesis :
        \/ y \in Committed
        \/ y.round < state.lastCommitted[y.origin]
        \/ y.round + GcDepth < state.lastCommittedRound

(***************************************************************************)
(* A certificate is output twice only if the primary sent one again, and   *)
(* only if a later one of its author was output: the last committed        *)
(* certificate of each author, which the DAG keeps, is never repeated.     *)
(* The code keeps no record of what it output: it relies on last_committed *)
(* ("ensure we don't commit twice the same certificate", lib.rs:22-23), on *)
(* the clean-up of update and on what order_dag skips.                     *)
(***************************************************************************)
RepeatsAreOvertaken ==
    \A i, j \in DOMAIN output :
        (i # j /\ output[i] = output[j])
            => redeliveries > 0 /\ output[i].round < state.lastCommitted[output[i].origin]

-----------------------------------------------------------------------------
\* What comments and documentation say, and the code does not do.

\* "we need to recursively go back to the last committed leader, and commit all preceding
\* leaders in the right order" (lib.rs:206-207): between two leaders that are committed
\* one after the other there is no leader of an even round that the second one reaches.
PastLeadersCommitted ==
    \A i \in DOMAIN leaders :
        LET last == IF i = 1 THEN 0 ELSE leaders[i - 1].round IN
        \A r \in (last + 1) .. (leaders[i].round - 1) :
            r % 2 = 0 =>
                \A l \in LeaderIn(r, DOMAIN parents) : ~InHistory(parents, l, leaders[i])

\* "A fallback requires `2f+1` causal support to commit; otherwise it is counted as
\* skipped." (README.md): a fallback that is skipped does not have that support in the
\* DAG, so every validator counts it the same way.
SkippedFallbackLacksSupport ==
    \A r \in state.resolvedFallbackRounds : \A l \in FallbackLeaderIn(r, DOMAIN parents) :
        l \notin direct => ~IsQuorum(SupportFor(l, r + 3, DOMAIN parents))
=============================================================================
