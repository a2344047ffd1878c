------------------------------- MODULE MCCore -------------------------------
(***************************************************************************)
(* Instances of Core: the primary of authority 0 among four.  Authorities  *)
(* 1 and 2 hold three votes each and the other two one each, so a quorum   *)
(* (six of eight) is 1 and 2 together, and either of them reaches validity *)
(* (three).                                                                *)
(***************************************************************************)
EXTENDS Core

TwoHeavy == [a \in 0 .. 3 |-> IF a \in {1, 2} THEN 3 ELSE 1]

H(r, a, t) == [round |-> r, author |-> a, tag |-> t]

M(r) == H(r, 0, 1)
A(r) == H(r, 1, 1)
B(r) == H(r, 2, 1)

\* Authority 3 signs two headers for round 1, and one for round 2 without a quorum of
\* parents.
Z1 == H(1, 3, 1)
Z1Twin == H(1, 3, 2)
Z2 == H(2, 3, 1)

OverGenesis(S) == [h \in S |-> GenesisIds]

\* Authorities 1 and 2 build the DAG up to round 3, where the leader of round 2 commits.
Backbone ==
    OverGenesis({A(1), B(1)}) @@ (A(2) :> {A(1), B(1)}) @@ (B(2) :> {A(1), B(1)})
        @@ (A(3) :> {A(2), B(2)})

BackboneOthers == {A(1), B(1), A(2), B(2), A(3)}

Equivocation == Backbone @@ OverGenesis({Z1, Z1Twin}) @@ (Z2 :> {A(1)})

EquivocationSent == {Z1, Z1Twin, Z2, A(2)}
EquivocationPayload == {Z1Twin}

\* Our own headers of rounds 1 and 2, and a certificate that may come before its parents.
Own == OverGenesis({M(1), A(1), B(1)}) @@ (M(2) :> {M(1), A(1), B(1)})
        @@ (A(2) :> {A(1), B(1)})

OwnOthers == {A(1), B(1), A(2)}
OwnSent == {A(2)}
OwnPayload == {A(2)}
=============================================================================
