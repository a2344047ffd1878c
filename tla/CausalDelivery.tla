--------------------------- MODULE CausalDelivery ---------------------------
(***************************************************************************)
(* What the primary of one node promises the tasks it feeds, without how   *)
(* it keeps the promise.  The consensus relies on it ("The primary should  *)
(* send us new certificates only if it already sent us its whole history", *)
(* consensus/src/lib.rs), and so does the proposer, which tests the        *)
(* parents it holds only for being there.                                  *)
(*                                                                         *)
(* The promise is about the store: what a node has stored outlives it,     *)
(* what its consensus was sent does not.  Only a node that never restarts  *)
(* keeps it towards its consensus as well.                                 *)
(***************************************************************************)
EXTENDS Committee

CONSTANTS
    Ids,      \* the certificates
    Parents,  \* certificate -> its parents
    Genesis,  \* the certificates everyone has
    Rounds    \* the rounds of the certificates

VARIABLES
    known,      \* stored certificates
    delivered,  \* certificates sent to the consensus since the start
    given       \* round -> certificates handed to the proposer since the start

vars == <<known, delivered, given>>

Nothing == [r \in Rounds |-> {}]

Init ==
    /\ known = {}
    /\ delivered = {}
    /\ given = Nothing

\* The proposer is handed more of round r: a quorum at first, and nothing that was not
\* delivered.
Give(r) ==
    /\ given[r] \subseteq given'[r]
    /\ given'[r] \subseteq {x \in delivered' : x.round = r}
    /\ IsQuorum({x.author : x \in given'[r]})

\* The certificates S are delivered, for the first time or again, after their parents.
Deliver(S) ==
    /\ \A x \in S : Parents[x] \subseteq known \cup Genesis
    /\ known' = known \cup S
    /\ delivered' = delivered \cup S
    /\ given' = [r \in Rounds |-> given'[r]]
    /\ \A r \in Rounds : given'[r] = given[r] \/ (Give(r) /\ \E x \in S : x.round = r)

Restart ==
    /\ delivered' = {}
    /\ given' = Nothing
    /\ UNCHANGED known

\* One certificate at a time, or two: a certificate of our own that comes back after a
\* restart makes the core vote for its header, and that vote may be the last one the
\* header under way has waited for.
Next == Restart \/ \E x, y \in Ids : Deliver({x, y})

Spec == Init /\ [][Next]_vars
=============================================================================
