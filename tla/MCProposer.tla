----------------------------- MODULE MCProposer -----------------------------
(***************************************************************************)
(* An instance of Proposer: authority 0 among five that hold 2, 3, 2, 0    *)
(* and 0 votes.  A quorum (five of seven) is authority 1 with 0 or 2, so   *)
(* one of round 2 may lack its leader, authority 2.  The schedule picks    *)
(* the leader and the one with the lowest score of the others: authority 0 *)
(* is silent in round 2 and active before and after.                       *)
(***************************************************************************)
EXTENDS Proposer

Weighted == [a \in 0 .. 4 |-> CASE a = 1 -> 3 [] a \in {0, 2} -> 2 [] OTHER -> 0]

Scores == [r \in 1 .. MaxRound |-> [a \in 0 .. 4 |-> IF a = 0 /\ r # 2 THEN 5 ELSE a]]
=============================================================================
