---------------------------- MODULE MCConsensus ----------------------------
(***************************************************************************)
(* Instances of Consensus: authorities of one vote each, and families of   *)
(* DAGs in which certificates are missing or leave out a parent.           *)
(***************************************************************************)
EXTENDS Consensus

CONSTANT Rounds   \* the height of the DAGs

UnitStake == [a \in Authorities |-> 1]

Cell == (1 .. Rounds) \X Authorities

Nobody == N

\* The DAG without the certificates of the cells in dead, in which the certificate of
\* round r and origin a leaves out the parent of origin omit[r, a], provided the other
\* parents are a quorum.
DagOf(omit, dead) ==
    LET exists(x) == <<x.round, x.origin>> \notin dead
        at(r) == {x \in [round : {r}, origin : Authorities] : exists(x)}
    IN  [x \in {y \in [round : 0 .. Rounds, origin : Authorities] : exists(y)} |->
            IF x.round = 0 THEN {}
            ELSE LET all == at(x.round - 1)
                     kept == {p \in all : p.origin # omit[x.round, x.origin]}
                 IN  IF IsQuorum(Origins(kept)) THEN kept ELSE all]

-----------------------------------------------------------------------------
\* Normal mode, four authorities.

\* Omissions that vary with the round and with the origin in a linear way.
Rotations ==
    {[c \in Cell |-> (p * c[1] + q * c[2] + s) % 5] : p \in {0, 1, 2}, q, s \in 0 .. 4}

\* In the rounds after a leader round those in against leave the leader out; in the other
\* rounds the omissions rotate.
Leaderless(against, q, s) ==
    [c \in Cell |->
        IF c[1] % 2 = 1
        THEN IF c[2] \in against[c[1]] THEN Leader(c[1] - 1) ELSE Nobody
        ELSE (q * c[2] + s) % 5]

Camps == {{}, {0, 1}, {1, 3}, {0, 1, 3}}

Contested ==
    {Leaderless([r \in 1 .. Rounds |-> IF r = 1 THEN {} ELSE IF r = 3 THEN A ELSE B], q, s) :
        A, B \in Camps, q \in {0, 1}, s \in 0 .. 4}

\* A leader that never makes a certificate, and an authority that stops.
Crashes == {{<<2, 2>>}, {<<4, 0>>}, {<<r, 1>> : r \in 3 .. Rounds}}

SteadyDags ==
    {DagOf(omit, {}) : omit \in Rotations \cup Contested}
        \cup {DagOf(omit, dead) : omit \in Rotations, dead \in Crashes}

ContestedDags == {DagOf(omit, {}) : omit \in Contested}

-----------------------------------------------------------------------------
\* Dynamic mode, seven authorities: a quorum is five, and the adversary (with one fault)
\* silences the steady leader of every round, so six certificates exist in each.

Silenced == {<<r, Leader(r)>> : r \in 1 .. Rounds}

\* Support for the fallback of round r is kept thin: only the first authority of the next
\* round names it, only the second one of the round after that names the first, and in
\* the support round those in against leave that one out.
Thin(r, l, first, second, against) ==
    [c \in Cell |->
        CASE c[1] = r + 1 /\ c[2] # first  -> l
          [] c[1] = r + 2 /\ c[2] # second -> first
          [] c[1] = r + 3 /\ c[2] \in against -> second
          [] OTHER -> Nobody]

FallbackOf(r) ==
    (CHOOSE x \in FallbackLeaderIn(r, [round : {r}, origin : Authorities]) : TRUE).origin

ThinFallbacks ==
    {Thin(2, FallbackOf(2), 1, 2, A) : A \in {{}, {0}, {0, 1}}}
        \cup {Thin(6, FallbackOf(6), 1, 2, A) : A \in {{3}, {3, 4}}}

\* Only authority 6 of the support round is linked to the first fallback, and nobody of the
\* round above names it.
Lost ==
    [c \in Cell |->
        IF c[1] = 6 THEN 6 ELSE Thin(2, FallbackOf(2), 1, 2, Authorities \ {6})[c]]

Turning == {[c \in Cell |-> (p * c[1] + c[2] + s) % 8] : p \in {0, 1}, s \in {0, 3}}

DynamicDags == {DagOf(omit, Silenced) : omit \in ThinFallbacks \cup Turning \cup {Lost}}

ThinDags == {DagOf(omit, Silenced) : omit \in ThinFallbacks}
=============================================================================
