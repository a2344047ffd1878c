------------------------ MODULE CertificationProofs ------------------------
(***************************************************************************)
(* Proofs about Certification, for every committee, every set of headers,  *)
(* every Byzantine set of at most f of the stake and every schedule of the *)
(* garbage collectors.                                                     *)
(*                                                                         *)
(* NoEquivocation needs two facts about an honest primary: a vote it cast  *)
(* is remembered until its garbage collector passes the round, and so two  *)
(* votes in a slot mean that it has.  The votes behind two certificates    *)
(* have an honest voter in common, who has then voted twice.               *)
(***************************************************************************)
EXTENDS Certification, SharedLemmas

VotesRemembered ==
    \A n \in Honest : \A h \in Headers :
        <<n, h>> \in votes => SlotOf(h) \in lastVoted[n] \/ h.round < gcRound[n]

VotesOnce ==
    \A n \in Honest : \A g, h \in Headers :
        (<<n, g>> \in votes /\ <<n, h>> \in votes /\ SlotOf(g) = SlotOf(h) /\ g # h)
            => g.round < gcRound[n]

CertifiedByQuorum == \A h \in certified : IsQuorum(Voters(h))

IInv == TypeOK /\ VotesRemembered /\ VotesOnce /\ CertifiedByQuorum

-----------------------------------------------------------------------------
LEMMA SlotEquality ==
  ASSUME NEW g \in Headers, NEW h \in Headers, SlotOf(g) = SlotOf(h)
  PROVE  g.round = h.round
BY DEF SlotOf

LEMMA InitIInv == Init => IInv
BY DEF Init, IInv, TypeOK, VotesRemembered, VotesOnce, CertifiedByQuorum

LEMMA CastVoteIInv ==
  ASSUME IInv, NEW n \in Honest, NEW h \in Headers, CastVote(n, h)
  PROVE  IInv'
<1>0. n \in Authorities /\ SlotOf(h) \in Slots
  BY DEF Honest, Slots
<1>1. TypeOK'
  BY <1>0 DEF IInv, TypeOK, CastVote
<1>2. VotesRemembered'
  BY DEF IInv, TypeOK, VotesRemembered, CastVote
<1>3. VotesOnce'
  \* A second vote in the slot of h is one that n has forgotten.
  <2> SUFFICES ASSUME NEW m \in Honest, NEW g \in Headers, NEW k \in Headers,
                      <<m, g>> \in votes', <<m, k>> \in votes',
                      SlotOf(g) = SlotOf(k), g # k
               PROVE  g.round < gcRound[m]
    BY DEF VotesOnce, CastVote
  <2>1. g.round = k.round
    BY SlotEquality
  <2>2. CASE <<m, g>> \in votes /\ <<m, k>> \in votes
    BY <2>2 DEF IInv, VotesOnce
  <2>3. CASE <<m, g>> \notin votes
    <3>1. m = n /\ g = h /\ <<m, k>> \in votes
      BY <2>3 DEF CastVote
    <3>2. SlotOf(k) \notin lastVoted[m]
      BY <3>1 DEF CastVote
    <3> QED
      BY <2>1, <3>1, <3>2 DEF IInv, VotesRemembered
  <2>4. CASE <<m, k>> \notin votes
    <3>1. m = n /\ k = h /\ <<m, g>> \in votes
      BY <2>4 DEF CastVote
    <3>2. SlotOf(g) \notin lastVoted[m]
      BY <3>1 DEF CastVote
    <3> QED
      BY <3>1, <3>2 DEF IInv, VotesRemembered
  <2> QED
    BY <2>2, <2>3, <2>4
<1>4. CertifiedByQuorum'
  <2> SUFFICES ASSUME NEW k \in certified PROVE IsQuorum(Voters(k)')
    BY DEF CertifiedByQuorum, CastVote
  <2>1. Voters(k) \in SUBSET Voters(k)' /\ Voters(k)' \in SUBSET Authorities
    BY DEF CastVote, Voters
  <2>2. IsQuorum(Voters(k))
    BY DEF IInv, CertifiedByQuorum
  <2> QED
    BY <2>1, <2>2, QuorumMonotone
<1> QED
  BY <1>1, <1>2, <1>3, <1>4 DEF IInv

LEMMA ForgeVoteIInv ==
  ASSUME IInv, NEW n \in Byzantine, NEW h \in Headers, ForgeVote(n, h)
  PROVE  IInv'
<1>1. TypeOK'
  BY ByzantineAssumption DEF IInv, TypeOK, ForgeVote
<1>2. \A m \in Honest : \A k \in Headers : <<m, k>> \in votes' => <<m, k>> \in votes
  BY DEF ForgeVote, Honest
<1>3. VotesRemembered' /\ VotesOnce'
  BY <1>2 DEF IInv, VotesRemembered, VotesOnce, ForgeVote
<1>4. CertifiedByQuorum'
  <2> SUFFICES ASSUME NEW k \in certified PROVE IsQuorum(Voters(k)')
    BY DEF CertifiedByQuorum, ForgeVote
  <2>1. Voters(k) \in SUBSET Voters(k)' /\ Voters(k)' \in SUBSET Authorities
    BY DEF ForgeVote, Voters
  <2>2. IsQuorum(Voters(k))
    BY DEF IInv, CertifiedByQuorum
  <2> QED
    BY <2>1, <2>2, QuorumMonotone
<1> QED
  BY <1>1, <1>3, <1>4 DEF IInv

LEMMA AssembleIInv ==
  ASSUME IInv, NEW h \in Headers, Assemble(h)
  PROVE  IInv'
<1>1. TypeOK' /\ VotesRemembered' /\ VotesOnce'
  BY DEF IInv, TypeOK, VotesRemembered, VotesOnce, Assemble
<1>2. CertifiedByQuorum'
  BY DEF IInv, CertifiedByQuorum, Assemble, Voters
<1> QED
  BY <1>1, <1>2 DEF IInv

LEMMA CollectIInv ==
  ASSUME IInv, NEW n \in Honest, NEW r \in GcRounds, Collect(n, r)
  PROVE  IInv'
<1>0. r \in Nat
  BY GcRoundsAssumption
<1>1. TypeOK'
  BY <1>0 DEF IInv, TypeOK, Collect
<1>2. \A m \in Honest : gcRound[m] <= gcRound'[m] /\ gcRound[m] \in Nat /\ gcRound'[m] \in Nat
  BY <1>0 DEF IInv, TypeOK, Collect
<1>3. VotesRemembered'
  \* A slot that is forgotten is below the new gc_round.
  <2> SUFFICES ASSUME NEW m \in Honest, NEW h \in Headers, <<m, h>> \in votes
               PROVE  SlotOf(h) \in lastVoted'[m] \/ h.round < gcRound'[m]
    BY DEF VotesRemembered, Collect
  <2>1. SlotOf(h) \in lastVoted[m] \/ h.round < gcRound[m]
    BY DEF IInv, VotesRemembered
  <2>2. h.round \in Nat /\ SlotOf(h)[1] = h.round
    BY HeadersAssumption DEF SlotOf
  <2>3. CASE m # n
    BY <2>1, <2>3 DEF IInv, TypeOK, Collect
  <2>4. CASE m = n
    <3>1. /\ gcRound'[m] = r /\ gcRound[m] < r
          /\ lastVoted'[m] = {s \in lastVoted[m] : s[1] >= r}
      BY <2>4, <1>0 DEF IInv, TypeOK, Collect
    <3> QED
      BY <2>1, <2>2, <3>1, <1>0, <1>2
  <2> QED
    BY <2>3, <2>4
<1>4. VotesOnce'
  <2> SUFFICES ASSUME NEW m \in Honest, NEW g \in Headers, NEW h \in Headers,
                      <<m, g>> \in votes, <<m, h>> \in votes, SlotOf(g) = SlotOf(h), g # h
               PROVE  g.round < gcRound'[m]
    BY DEF VotesOnce, Collect
  <2>1. g.round < gcRound[m]
    BY DEF IInv, VotesOnce
  <2> QED
    BY <2>1, <1>2, HeadersAssumption
<1>5. CertifiedByQuorum'
  BY DEF IInv, CertifiedByQuorum, Collect, Voters
<1> QED
  BY <1>1, <1>3, <1>4, <1>5 DEF IInv

-----------------------------------------------------------------------------
LEMMA NextIInv == IInv /\ [Next]_vars => IInv'
<1> SUFFICES ASSUME IInv, [Next]_vars PROVE IInv'
  OBVIOUS
<1>1. ASSUME NEW n \in Honest, NEW h \in Headers, CastVote(n, h) PROVE IInv'
  BY <1>1, CastVoteIInv
<1>2. ASSUME NEW n \in Honest, NEW r \in GcRounds, Collect(n, r) PROVE IInv'
  BY <1>2, CollectIInv
<1>3. ASSUME NEW n \in Byzantine, NEW h \in Headers, ForgeVote(n, h) PROVE IInv'
  BY <1>3, ForgeVoteIInv
<1>4. ASSUME NEW h \in Headers, Assemble(h) PROVE IInv'
  BY <1>4, AssembleIInv
<1>5. CASE UNCHANGED vars
  BY <1>5 DEF vars, IInv, TypeOK, VotesRemembered, VotesOnce, CertifiedByQuorum, Voters
<1> QED
  BY <1>1, <1>2, <1>3, <1>4, <1>5 DEF Next

LEMMA IInvInvariant == Spec => []IInv
BY InitIInv, NextIInv, PTL DEF Spec

\* Votes, memories and certificates stay well typed.
THEOREM TypeCorrect == Spec => []TypeOK
<1>1. IInv => TypeOK
  BY DEF IInv
<1> QED
  BY <1>1, IInvInvariant, PTL

LEMMA TwoCertificates == IInv => NoEquivocation
<1> SUFFICES ASSUME IInv, NEW g \in certified, NEW h \in certified,
                    SlotOf(g) = SlotOf(h), g # h
             PROVE  \E n \in Honest : g.round < gcRound[n]
  BY DEF NoEquivocation
<1>1. g \in Headers /\ h \in Headers
  BY DEF IInv, TypeOK
<1>2. IsQuorum(Voters(g)) /\ IsQuorum(Voters(h))
  BY DEF IInv, CertifiedByQuorum
<1>3. Voters(g) \in SUBSET Authorities /\ Voters(h) \in SUBSET Authorities
  BY DEF Voters
<1>4. (Voters(g) \cap Voters(h)) \ Byzantine # {}
  BY <1>2, <1>3, ByzantineAssumption, QuorumsMeetHonestly
<1>5. PICK n \in Honest : <<n, g>> \in votes /\ <<n, h>> \in votes
  BY <1>4 DEF Voters, Honest
<1> QED
  BY <1>1, <1>5 DEF IInv, VotesOnce

(***************************************************************************)
(* At most one header per round and author is certified in the rounds that *)
(* no honest garbage collector has passed.                                 *)
(***************************************************************************)
THEOREM Unequivocal == Spec => []NoEquivocation
<1> QED
  BY TwoCertificates, IInvInvariant, PTL
=============================================================================
