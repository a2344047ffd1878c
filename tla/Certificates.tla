---------------------------- MODULE Certificates ----------------------------
(***************************************************************************)
(* Certificates and the parent links between them.                         *)
(*                                                                         *)
(* A certificate is identified by its round and its origin: the digest of  *)
(* Certificate hashes the header id, the round and the origin, and at most *)
(* one header per round and origin gathers a quorum of votes.  A DAG is a  *)
(* function from the certificates that exist to the set of their parents.  *)
(***************************************************************************)
EXTENDS Committee

Certificate == [round : Nat, origin : Authorities]

\* Certificate::genesis: one parentless certificate of round 0 per authority.
Genesis == [round : {0}, origin : Authorities]

Origins(S) == {x.origin : x \in S}

AtRound(S, r) == {x \in S : x.round = r}

\* Fault seeded to test the properties: parents are accepted from f+1 of the stake.
ValidParentsFewer(P, r) ==
    /\ \A p \in P : p.round + 1 = r
    /\ IsValidity(Origins(P))

\* Fault seeded to test the properties: the rounds of the parents are not compared.
ValidParentsAnyRound(P, r) == IsQuorum(Origins(P))

\* The checks process_header makes on the parents of a header of round r: each is of
\* the round below, and together they hold a quorum of the stake.
ValidParents(P, r) ==
    /\ \A p \in P : p.round + 1 = r
    /\ IsQuorum(Origins(P))

\* A DAG that primaries can build: every parent is in it, and only genesis is exempt
\* from the checks.
WellFormed(parents) ==
    /\ Genesis \subseteq DOMAIN parents
    /\ DOMAIN parents \subseteq Certificate
    /\ \A x \in DOMAIN parents :
        /\ parents[x] \subseteq DOMAIN parents
        /\ IF x.round = 0 THEN parents[x] = {} ELSE ValidParents(parents[x], x.round)

\* The certificates of each round that are reached from x by parent links through
\* members of the set within: a walk down from x, one round at a time.
Reach(parents, x, within) ==
    LET layer[k \in 0 .. x.round] ==
            IF k = 0 THEN {x}
            ELSE LET named == UNION {parents[c] : c \in layer[k - 1]}
                 IN  {y \in named \cap within : y.round + k = x.round}
    IN  [r \in 0 .. x.round |-> layer[x.round - r]]

\* y is in the causal history of x.
InHistory(parents, y, x) ==
    y.round < x.round /\ y \in Reach(parents, x, DOMAIN parents)[y.round]
=============================================================================
