-------------------------- MODULE MCCertification --------------------------
EXTENDS Certification

UnitStake == [a \in 0 .. 3 |-> 1]

\* Authority 3 is Byzantine and signs two headers for round 1; authority 0 signs one.
TwinHeaders ==
    {[round |-> 1, author |-> 3, tag |-> t] : t \in {1, 2}}
        \cup {[round |-> 1, author |-> 0, tag |-> 1]}
=============================================================================
