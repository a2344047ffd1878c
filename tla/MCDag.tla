------------------------------- MODULE MCDag -------------------------------
EXTENDS Dag, TLC

\* Three authorities that hold 3, 2 and 2 of seven votes: f is 2, a quorum needs five
\* (the first authority and one of the others) and validity needs three (the first
\* authority alone, or both others).
UnevenStake == (0 :> 3) @@ (1 :> 2) @@ (2 :> 2)
=============================================================================
