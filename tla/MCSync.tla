------------------------------- MODULE MCSync -------------------------------
(***************************************************************************)
(* An instance of ParentSync: authority 0 hears of a DAG of three rounds   *)
(* from a certificate and a header of round 3, whose histories overlap.    *)
(* Authority 1 sends one more header, of round 2, that names a certificate *)
(* of its own round, which the header of round 3 misses too; the headers   *)
(* share that request.  The leader of round 2 commits as soon as its       *)
(* certificate is delivered, and the garbage collector then drops the bad  *)
(* header and refuses what is missing of round 1.                          *)
(*                                                                         *)
(* Authority 2 holds five of seven votes, a quorum (five) by itself, which *)
(* keeps the DAG small; it has lost all its certificates and answers       *)
(* nothing.                                                                *)
(***************************************************************************)
EXTENDS ParentSync

OneHeavy == [a \in 0 .. 2 |-> IF a = 2 THEN 5 ELSE 1]

A(r) == [round |-> r, author |-> 2, tag |-> 1]
C(r) == [round |-> r, author |-> 1, tag |-> 1]

\* A header that names a certificate of its own round.
Bad == [round |-> 2, author |-> 1, tag |-> 2]

History ==
    [h \in {A(1), C(1)} |-> GenesisIds]
        @@ (A(2) :> {A(1)}) @@ (C(2) :> {A(1), C(1)})
        @@ (Bad :> {C(1), C(2)}) @@ (A(3) :> {A(2)}) @@ (C(3) :> {A(2), C(2)})

Certified == {A(1), C(1), A(2), C(2), A(3)}
LateCertificates == {A(3)}
LateHeaders == {C(3), Bad}

Holders == (1 :> Certified) @@ (2 :> {})
=============================================================================
