------------------------------ MODULE MCWorker ------------------------------
(***************************************************************************)
(* An instance of WorkerSync: the worker of authority 0, which holds two   *)
(* of four votes; its two peers hold one each.  A quorum is three, so      *)
(* either peer completes it and the message to the other is cancelled.     *)
(* Only peer 2 has the batch that peer 1 may be asked for.                 *)
(***************************************************************************)
EXTENDS WorkerSync

HalfStake == [a \in 0 .. 2 |-> IF a = 0 THEN 2 ELSE 1]

CONSTANT X  \* a batch of another worker

OneHolder == (1 :> {}) @@ (2 :> {X})

Nothing == [f \in BudgetFields |-> 0]

\* Two batches over streams that break.
Path == [Nothing EXCEPT !.transactions = 2, !.failures = 1]
\* Pauses that come and go while a transaction waits, and over streams that break.
Pauses == [Nothing EXCEPT !.transactions = 1, !.notices = 2]
Reconnects == [Nothing EXCEPT !.notices = 2, !.breaks = 1]
\* Batches to fetch.
Fetches == [Nothing EXCEPT !.commands = 2, !.cleanups = 1, !.losses = 1]

Plans == {Path, Pauses, Reconnects, Fetches}
=============================================================================
