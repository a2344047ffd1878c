--------------------------- MODULE Certification ---------------------------
(***************************************************************************)
(* How the primaries of a committee turn headers into certificates, seen   *)
(* from the votes alone.  An honest primary votes for the first header it  *)
(* accepts in a slot (a round and an author), as long as it remembers the  *)
(* slot; a Byzantine one signs what it likes.  A header with the votes of  *)
(* a quorum is a certificate.                                              *)
(*                                                                         *)
(* What else Core checks before it votes (parents, payload) only removes   *)
(* votes and is left out here; Core models it for one primary.  A header   *)
(* of any round may still be voted for, since the headers that come back   *)
(* from the HeaderWaiter are not compared with gc_round.                   *)
(***************************************************************************)
EXTENDS Committee

CONSTANTS
    Headers,    \* the headers that are signed: records with a round and an author
    Byzantine,  \* authorities that do not follow the protocol
    GcRounds    \* the rounds the garbage collectors may reach

ASSUME HeadersAssumption == \A h \in Headers : h.round \in Nat /\ h.author \in Authorities
ASSUME GcRoundsAssumption == GcRounds \subseteq Nat
\* The Byzantine stake is at most f.
ASSUME ByzantineAssumption == Byzantine \subseteq Authorities /\ ~IsValidity(Byzantine)

Honest == Authorities \ Byzantine

VARIABLES
    lastVoted,  \* last_voted of each primary: slots
    gcRound,    \* gc_round of each primary
    votes,      \* the votes signed so far: voter and header
    certified   \* headers with a certificate

vars == <<lastVoted, gcRound, votes, certified>>

SlotOf(h) == <<h.round, h.author>>

Slots == {SlotOf(h) : h \in Headers}

TypeOK ==
    /\ lastVoted \in [Honest -> SUBSET Slots]
    /\ gcRound \in [Honest -> Nat]
    /\ votes \subseteq Authorities \X Headers
    /\ certified \subseteq Headers

Init ==
    /\ lastVoted = [n \in Honest |-> {}]
    /\ gcRound = [n \in Honest |-> 0]
    /\ votes = {}
    /\ certified = {}

\* Fault seeded to test the properties: last_voted is not consulted.
CastVoteAgain(n, h) ==
    /\ lastVoted' = [lastVoted EXCEPT ![n] = @ \cup {SlotOf(h)}]
    /\ votes' = votes \cup {<<n, h>>}
    /\ UNCHANGED <<gcRound, certified>>

\* Fault seeded to test the properties: round and author are swapped in the memory.
CastVoteSwapped(n, h) ==
    /\ SlotOf(h) \notin lastVoted[n]
    /\ lastVoted' = [lastVoted EXCEPT ![n] = @ \cup {<<h.author, h.round>>}]
    /\ votes' = votes \cup {<<n, h>>}
    /\ UNCHANGED <<gcRound, certified>>

\* The end of process_header: vote unless last_voted has the author for that round.
CastVote(n, h) ==
    /\ SlotOf(h) \notin lastVoted[n]
    /\ lastVoted' = [lastVoted EXCEPT ![n] = @ \cup {SlotOf(h)}]
    /\ votes' = votes \cup {<<n, h>>}
    /\ UNCHANGED <<gcRound, certified>>

\* A Byzantine authority signs a vote.
ForgeVote(n, h) ==
    /\ votes' = votes \cup {<<n, h>>}
    /\ UNCHANGED <<lastVoted, gcRound, certified>>

Voters(h) == {n \in Authorities : <<n, h>> \in votes}

\* The votes of a quorum are aggregated into a certificate that verifies.
Assemble(h) ==
    /\ IsQuorum(Voters(h))
    /\ certified' = certified \cup {h}
    /\ UNCHANGED <<lastVoted, gcRound, votes>>

\* The clean-up of run(): slots below the new gc_round are forgotten.
Collect(n, r) ==
    /\ r > gcRound[n]
    /\ gcRound' = [gcRound EXCEPT ![n] = r]
    /\ lastVoted' = [lastVoted EXCEPT ![n] = {s \in @ : s[1] >= r}]
    /\ UNCHANGED <<votes, certified>>

Next ==
    \/ \E n \in Honest : \/ \E h \in Headers : CastVote(n, h)
                         \/ \E r \in GcRounds : Collect(n, r)
    \/ \E n \in Byzantine, h \in Headers : ForgeVote(n, h)
    \/ \E h \in Headers : Assemble(h)

Spec == Init /\ [][Next]_vars

-----------------------------------------------------------------------------
(***************************************************************************)
(* Two different headers of one round and author are never both certified, *)
(* unless the garbage collector of an honest primary is past that round.   *)
(* This is what lets every other component identify a certificate with its *)
(* round and origin, as the Dag of consensus/src/lib.rs does.              *)
(***************************************************************************)
NoEquivocation ==
    \A g, h \in certified :
        (SlotOf(g) = SlotOf(h) /\ g # h) => \E n \in Honest : g.round < gcRound[n]
=============================================================================
