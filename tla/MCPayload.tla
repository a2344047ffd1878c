----------------------------- MODULE MCPayload -----------------------------
(***************************************************************************)
(* An instance of PayloadSync: authority 0 gets a header of authority 1    *)
(* whose batch its worker does not have.  Authorities 1, 2 and 3 are a     *)
(* quorum, at which authority 1 stops the broadcast of the batch.          *)
(***************************************************************************)
EXTENDS PayloadSync

EqualStake == [a \in 0 .. 3 |-> 1]

C1 == [round |-> 1, author |-> 1, tag |-> 1]

TheHeader == {C1}

OneHeader == C1 :> GenesisIds
=============================================================================
