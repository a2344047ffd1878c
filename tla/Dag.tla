-------------------------------- MODULE Dag --------------------------------
(***************************************************************************)
(* The certified DAG that the primaries of a committee build together, as  *)
(* the consensus layer relies on it: certificates appear one by one, in    *)
(* any order that respects the parent links, and each one refers to a      *)
(* quorum of certificates of the round below.                              *)
(*                                                                         *)
(* This is the abstract promise of the primary (Core, Proposer and their   *)
(* helpers).  It leaves out how a certificate comes about; it keeps what   *)
(* process_header checks before any vote is cast.                          *)
(***************************************************************************)
EXTENDS Certificates

CONSTANT MaxRound   \* bound on the rounds of the DAG

ASSUME MaxRoundAssumption == MaxRound \in Nat

VARIABLES
    parents,    \* the certified DAG: certificate -> its parents
    ancestors   \* auxiliary: certificate -> its causal history

vars == <<parents, ancestors>>

Certified == DOMAIN parents

\* Every certificate refers to certificates that exist and are of the round below.
TypeOK ==
    /\ parents \in [Certified -> SUBSET Certified]
    /\ \A x \in Certified : \A p \in parents[x] : p.round + 1 = x.round
    /\ ancestors \in [Certified -> SUBSET Certificate]
    /\ Genesis \subseteq Certified
    /\ Certified \subseteq [round : 0 .. MaxRound, origin : Authorities]

Init ==
    /\ parents = [g \in Genesis |-> {}]
    /\ ancestors = [g \in Genesis |-> {}]

(***************************************************************************)
(* A header x with parents P becomes a certificate.  process_header votes  *)
(* for it only if the parents are stored, of the round below and a quorum; *)
(* the votes of a quorum make it a certificate.                            *)
(***************************************************************************)
Certify(x, P) ==
    /\ x \notin Certified
    /\ x.round > 0
    /\ ValidParents(P, x.round)
    /\ parents' = [y \in Certified \cup {x} |-> IF y = x THEN P ELSE parents[y]]
    /\ ancestors' = [y \in Certified \cup {x} |->
                        IF y = x THEN P \cup UNION {ancestors[p] : p \in P}
                                 ELSE ancestors[y]]

\* The author of a header may name any certificates of lower rounds as its parents.
Next ==
    \E x \in [round : 1 .. MaxRound, origin : Authorities] :
        \E P \in SUBSET {p \in Certified : p.round < x.round} : Certify(x, P)

Spec == Init /\ [][Next]_vars

-----------------------------------------------------------------------------
\* The authorities whose certificate of round r has l in its causal history.  For the
\* round after l these are the certificates that name l as a parent.
Support(l, r) == Origins({y \in Certified : y.round = r /\ l \in ancestors[y]})

\* Those whose certificate of round r does not.
Opposition(l, r) == Origins({y \in Certified : y.round = r /\ l \notin ancestors[y]})

(***************************************************************************)
(* The fact both commit rules of consensus/src/lib.rs rest on: once f+1 of *)
(* the stake of some round supports a certificate l, every certificate of  *)
(* a later round has l in its history, including certificates that were    *)
(* made before that support was complete.  Otherwise a validator could     *)
(* commit a leader that another validator's next leader does not reach.    *)
(***************************************************************************)
SupportIsInherited ==
    \A l, x \in Certified : \A r \in 0 .. MaxRound :
        (l.round < r /\ r < x.round /\ IsValidity(Support(l, r))) => l \in ancestors[x]

\* Every round below a certificate holds a quorum of certificates, so a validator that
\* sees a certificate of round r can wait for a quorum of any lower round.
QuorumBelow ==
    \A x \in Certified : \A r \in 0 .. MaxRound :
        r < x.round => IsQuorum(Origins(AtRound(Certified, r)))
=============================================================================
