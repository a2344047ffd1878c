------------------------------ MODULE BatchSync ------------------------------
(***************************************************************************)
(* The Synchronizer of a worker (worker/src/synchronizer.rs) and the       *)
(* Helper that answers it (worker/src/helper.rs), as operators on a record *)
(* z of the fields of the Synchronizer:                                    *)
(*                                                                         *)
(*   round      the last round of a Cleanup                                *)
(*   pending    entries [digest, id, round, old]: the round when it was    *)
(*              asked for, and whether sync_retry_delay has passed since   *)
(*   unpolled   waiters that have not called the store yet                 *)
(*   waiting    waiters that have                                          *)
(*   cancelled  waiters whose handler was signalled or dropped             *)
(*                                                                         *)
(* A waiter is named by its digest and the number of the command that made *)
(* it.                                                                     *)
(***************************************************************************)
EXTENDS Naturals

CONSTANT GcDepth  \* gc_depth

ASSUME GcDepthAssumption == GcDepth \in Nat

NewSync == [round |-> 0, pending |-> {}, unpolled |-> {}, waiting |-> {}, cancelled |-> {}]

WaiterOf(e) == [digest |-> e.digest, id |-> e.id]

\* We do not send twice the same request.
Fresh(z, digests) == {d \in digests : \A e \in z.pending : e.digest # d}

\* Synchronize: every digest that is not waited for gets a waiter, stored or not.
Synchronize(z, digests, id) ==
    LET entries == [digest : Fresh(z, digests), id : {id}, round : {z.round}, old : {FALSE}] IN
    [z EXCEPT !.pending = @ \cup entries, !.unpolled = @ \cup {WaiterOf(e) : e \in entries}]

\* What it then asks of its target: those of them that a read did not find.
Missing(z, digests, readable) == Fresh(z, digests) \ readable

Outdated(z, round) == {e \in z.pending : e.round <= round - GcDepth}

\* Cleanup.
CleanUp(z, round) ==
    LET gone == IF round < GcDepth THEN {} ELSE Outdated(z, round) IN
    [z EXCEPT !.round = round, !.pending = @ \ gone,
              !.cancelled = @ \cup {WaiterOf(e) : e \in gone}]

\* A waiter calls notify_read.
Poll(z, w) == [z EXCEPT !.unpolled = @ \ {w}, !.waiting = @ \cup {w}]

\* A waiter returns its digest.  The entry of the digest goes, even if it is another
\* waiter's, whose handler is then dropped.
Resolve(z, w) ==
    LET gone == {e \in z.pending : e.digest = w.digest} IN
    [z EXCEPT !.pending = @ \ gone, !.waiting = @ \ {w},
              !.cancelled = (@ \cup {WaiterOf(e) : e \in gone}) \ {w}]

\* A waiter returns None.
GiveUp(z, w) ==
    [z EXCEPT !.unpolled = @ \ {w}, !.waiting = @ \ {w}, !.cancelled = @ \ {w}]

\* Time passes for an entry.
Age(z, e) == [z EXCEPT !.pending = (@ \ {e}) \cup {[e EXCEPT !.old = TRUE]}]

\* Fault seeded to test the properties: the test of the delay is inverted.
OverdueInverted(z) == {e.digest : e \in {f \in z.pending : ~f.old}}

\* What the timer asks for again.
Overdue(z) == {e.digest : e \in {f \in z.pending : f.old}}

\* The Helper answers with what it has of a request.
Answers(db, digests) == digests \cap db
=============================================================================
