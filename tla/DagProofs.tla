----------------------------- MODULE DagProofs -----------------------------
(***************************************************************************)
(* Proofs about Dag, for every committee, every distribution of stake and  *)
(* every height of the DAG.                                                *)
(*                                                                         *)
(* SupportIsInherited is not inductive: it says nothing of a certificate   *)
(* whose supporters come later.  The induction is on the opposite fact,    *)
(* Unreached: if x does not have l in its history, then in every round     *)
(* between the two a quorum of certificates does not have it either.  That *)
(* quorum leaves too little stake for f+1 supporters, now or ever.         *)
(***************************************************************************)
EXTENDS Dag, SharedLemmas

\* The history of a certificate consists of certificates that already exist.
HistoryCertified == \A x \in Certified : ancestors[x] \subseteq Certified

Unreached ==
    \A l, x \in Certified : \A r \in 0 .. MaxRound :
        (l.round < r /\ r < x.round /\ l \notin ancestors[x]) => IsQuorum(Opposition(l, r))

IInv == TypeOK /\ HistoryCertified /\ QuorumBelow /\ Unreached

-----------------------------------------------------------------------------
LEMMA OriginsType ==
  ASSUME TypeOK, NEW S \in SUBSET Certified
  PROVE  Origins(S) \in SUBSET Authorities
BY DEF TypeOK, Origins, Certificate

LEMMA InitIInv == Init => IInv
<1> SUFFICES ASSUME Init PROVE IInv
  OBVIOUS
<1>1. Certified = Genesis
  BY DEF Init, Certified
<1>2. TypeOK
  <2>1. /\ parents \in [Certified -> SUBSET Certified]
        /\ \A x \in Certified : \A p \in parents[x] : p.round + 1 = x.round
    BY <1>1 DEF Init
  <2>2. ancestors \in [Certified -> SUBSET Certificate]
    BY <1>1 DEF Init
  <2>3. Genesis \subseteq [round : 0 .. MaxRound, origin : Authorities]
    BY MaxRoundAssumption DEF Genesis
  <2> QED
    BY <1>1, <2>1, <2>2, <2>3 DEF TypeOK
<1>3. HistoryCertified
  BY <1>1 DEF Init, HistoryCertified
<1>4. \A x \in Certified : x.round = 0
  BY <1>1 DEF Genesis
<1> QED
  BY <1>2, <1>3, <1>4 DEF IInv, QuorumBelow, Unreached

\* What a step adds: one certificate x of a positive round, whose history is that of its
\* parents; everything else keeps its history.
LEMMA CertifyStep ==
  ASSUME IInv, NEW x \in [round : 1 .. MaxRound, origin : Authorities],
         NEW P \in SUBSET {p \in Certified : p.round < x.round}, Certify(x, P)
  PROVE  /\ Certified' = Certified \cup {x}
         /\ x \notin Certified
         /\ P \subseteq Certified
         /\ \A p \in P : p.round = x.round - 1
         /\ IsQuorum(Origins(P))
         /\ \A y \in Certified : ancestors'[y] = ancestors[y]
         /\ ancestors'[x] = P \cup UNION {ancestors[p] : p \in P}
<1>1. \A p \in P : p \in Certified /\ p.round + 1 = x.round
  BY DEF Certify, ValidParents
<1>2. \A p \in P : p.round = x.round - 1
  <2> SUFFICES ASSUME NEW p \in P PROVE p.round = x.round - 1
    OBVIOUS
  <2>1. p.round \in Nat /\ x.round \in Nat
    BY <1>1, MaxRoundAssumption DEF IInv, TypeOK
  <2> QED
    BY <2>1, <1>1
<1> QED
  BY <1>1, <1>2 DEF Certify, Certified, ValidParents

LEMMA CertifyType ==
  ASSUME IInv, NEW x \in [round : 1 .. MaxRound, origin : Authorities],
         NEW P \in SUBSET {p \in Certified : p.round < x.round}, Certify(x, P)
  PROVE  TypeOK' /\ HistoryCertified'
<1>0. /\ Certified' = Certified \cup {x}
      /\ x \notin Certified
      /\ P \subseteq Certified
      /\ \A p \in P : p.round = x.round - 1
      /\ IsQuorum(Origins(P))
      /\ \A y \in Certified : ancestors'[y] = ancestors[y]
      /\ ancestors'[x] = P \cup UNION {ancestors[p] : p \in P}
  BY CertifyStep
<1>1. \A p \in P : ancestors[p] \subseteq Certified
  BY <1>0 DEF IInv, HistoryCertified
<1>2. HistoryCertified'
  BY <1>1, <1>0 DEF IInv, HistoryCertified
<1>3. Certified' \subseteq [round : 0 .. MaxRound, origin : Authorities]
  BY <1>0, MaxRoundAssumption DEF IInv, TypeOK
<1>4. /\ parents' = [y \in Certified' |-> IF y = x THEN P ELSE parents[y]]
      /\ \A p \in P : p.round + 1 = x.round
  BY <1>0 DEF Certify, ValidParents
<1>5. /\ parents' \in [Certified' -> SUBSET Certified']
      /\ \A y \in Certified' : \A p \in parents'[y] : p.round + 1 = y.round
  BY <1>4, <1>0 DEF IInv, TypeOK
<1>6. ancestors' \in [Certified' -> SUBSET Certificate]
  <2>1. ancestors' = [y \in Certified' |-> ancestors'[y]]
    BY <1>0 DEF Certify
  <2>2. Certified' \subseteq Certificate
    BY <1>3, MaxRoundAssumption DEF Certificate
  <2>3. \A y \in Certified' : ancestors'[y] \in SUBSET Certificate
    BY <1>2, <2>2 DEF HistoryCertified
  <2> QED
    BY <2>1, <2>3
<1>7. Genesis \subseteq Certified'
  BY <1>0 DEF IInv, TypeOK
<1> QED
  BY <1>2, <1>3, <1>5, <1>6, <1>7 DEF TypeOK

\* Certificates are only added, so a round that has a quorum keeps it.
LEMMA CertifyQuorumBelow ==
  ASSUME IInv, NEW x \in [round : 1 .. MaxRound, origin : Authorities],
         NEW P \in SUBSET {p \in Certified : p.round < x.round}, Certify(x, P)
  PROVE  QuorumBelow'
<1> SUFFICES ASSUME NEW z \in Certified', NEW r \in 0 .. MaxRound, r < z.round
             PROVE  IsQuorum(Origins(AtRound(Certified', r)))
  BY DEF QuorumBelow
<1>0. /\ Certified' = Certified \cup {x}
      /\ x \notin Certified
      /\ P \subseteq Certified
      /\ \A p \in P : p.round = x.round - 1
      /\ IsQuorum(Origins(P))
      /\ \A y \in Certified : ancestors'[y] = ancestors[y]
      /\ ancestors'[x] = P \cup UNION {ancestors[p] : p \in P}
  BY CertifyStep
<1>1. TypeOK /\ TypeOK'
  BY CertifyType DEF IInv
<1>2. Origins(AtRound(Certified', r)) \in SUBSET Authorities
  BY <1>1 DEF TypeOK, Origins, AtRound
<1>3. Origins(AtRound(Certified, r)) \in SUBSET Origins(AtRound(Certified', r))
  BY <1>0 DEF Origins, AtRound
<1>4. CASE z # x
  <2>1. IsQuorum(Origins(AtRound(Certified, r)))
    BY <1>4, <1>0 DEF IInv, QuorumBelow
  <2> QED
    BY <1>2, <1>3, <2>1, QuorumMonotone
<1>5. CASE z = x /\ r = x.round - 1
  <2>1. Origins(P) \in SUBSET Origins(AtRound(Certified', r))
    BY <1>5, <1>0 DEF Origins, AtRound
  <2> QED
    BY <1>2, <2>1, <1>0, QuorumMonotone
<1>6. CASE z = x /\ r # x.round - 1
  <2>1. Origins(P) \in SUBSET Authorities
    BY <1>1, <1>0, OriginsType
  <2>2. PICK p \in P : TRUE
    <3>1. Origins(P) # {}
      BY <2>1, <1>0, QuorumNonEmpty
    <3> QED
      BY <3>1 DEF Origins
  <2>3. p \in Certified /\ r < p.round
    BY <1>6, <2>2, <1>0
  <2>4. IsQuorum(Origins(AtRound(Certified, r)))
    BY <2>3 DEF IInv, QuorumBelow
  <2> QED
    BY <1>2, <1>3, <2>4, QuorumMonotone
<1> QED
  BY <1>4, <1>5, <1>6

LEMMA CertifyUnreached ==
  ASSUME IInv, NEW x \in [round : 1 .. MaxRound, origin : Authorities],
         NEW P \in SUBSET {p \in Certified : p.round < x.round}, Certify(x, P)
  PROVE  Unreached'
<1> SUFFICES ASSUME NEW l \in Certified', NEW z \in Certified', NEW r \in 0 .. MaxRound,
                    l.round < r, r < z.round, l \notin ancestors'[z]
             PROVE  IsQuorum(Opposition(l, r)')
  BY DEF Unreached
<1>0. /\ Certified' = Certified \cup {x}
      /\ x \notin Certified
      /\ P \subseteq Certified
      /\ \A p \in P : p.round = x.round - 1
      /\ IsQuorum(Origins(P))
      /\ \A y \in Certified : ancestors'[y] = ancestors[y]
      /\ ancestors'[x] = P \cup UNION {ancestors[p] : p \in P}
  BY CertifyStep
<1>1. TypeOK /\ TypeOK'
  BY CertifyType DEF IInv
<1>2. Opposition(l, r)' \in SUBSET Authorities
  BY <1>1 DEF TypeOK, Opposition, Origins
<1>3. Opposition(l, r) \in SUBSET Opposition(l, r)'
  BY <1>0 DEF Opposition, Origins
<1>4. CASE l # x /\ z # x
  \* Nothing changed for l and z, and the opposition only grows.
  <2>1. IsQuorum(Opposition(l, r))
    BY <1>4, <1>0 DEF IInv, Unreached
  <2> QED
    BY <1>2, <1>3, <2>1, QuorumMonotone
<1>5. CASE l = x /\ z # x
  \* l is new: no certificate of the quorum that round r already holds knows it.
  <2>1. IsQuorum(Origins(AtRound(Certified, r)))
    BY <1>5, <1>0 DEF IInv, QuorumBelow
  <2>2. \A y \in Certified : l \notin ancestors'[y]
    BY <1>5, <1>0 DEF IInv, HistoryCertified
  <2>3. Origins(AtRound(Certified, r)) \in SUBSET Opposition(l, r)'
    BY <2>2, <1>0 DEF Opposition, Origins, AtRound
  <2> QED
    BY <1>2, <2>1, <2>3, QuorumMonotone
<1>6. CASE z = x
  <2>1. l \in Certified /\ l \notin P /\ \A p \in P : l \notin ancestors[p]
    BY <1>6, <1>0, <1>1 DEF TypeOK
  <2>2. CASE r = x.round - 1
    \* The parents of x are such a quorum.
    <3>1. Origins(P) \in SUBSET Opposition(l, r)'
      BY <2>1, <2>2, <1>0 DEF Opposition, Origins
    <3> QED
      BY <1>2, <3>1, <1>0, QuorumMonotone
  <2>3. CASE r # x.round - 1
    \* Any parent of x already had such a quorum below it.
    <3>1. Origins(P) \in SUBSET Authorities
      BY <1>1, <1>0, OriginsType
    <3>2. PICK p \in P : TRUE
      <4>1. Origins(P) # {}
        BY <3>1, <1>0, QuorumNonEmpty
      <4> QED
        BY <4>1 DEF Origins
    <3>3. p \in Certified /\ r < p.round /\ l \notin ancestors[p]
      <4>1. p \in Certified /\ p.round = x.round - 1 /\ l \notin ancestors[p]
        BY <2>1, <3>2, <1>0
      <4>2. r \in Nat /\ x.round \in Nat /\ r < x.round
        BY <1>6
      <4> QED
        BY <2>3, <4>1, <4>2
    <3>4. IsQuorum(Opposition(l, r))
      BY <2>1, <3>3 DEF IInv, Unreached
    <3> QED
      BY <1>2, <1>3, <3>4, QuorumMonotone
  <2> QED
    BY <2>2, <2>3
<1> QED
  BY <1>4, <1>5, <1>6

-----------------------------------------------------------------------------
LEMMA NextIInv == IInv /\ [Next]_vars => IInv'
<1> SUFFICES ASSUME IInv, [Next]_vars PROVE IInv'
  OBVIOUS
<1>1. CASE Next
  <2>1. PICK x \in [round : 1 .. MaxRound, origin : Authorities] :
            \E P \in SUBSET {p \in Certified : p.round < x.round} : Certify(x, P)
    BY <1>1 DEF Next
  <2>2. PICK P \in SUBSET {p \in Certified : p.round < x.round} : Certify(x, P)
    BY <2>1
  <2>3. TypeOK' /\ HistoryCertified'
    BY <2>2, CertifyType
  <2>4. QuorumBelow'
    BY <2>2, CertifyQuorumBelow
  <2>5. Unreached'
    BY <2>2, CertifyUnreached
  <2> QED
    BY <2>3, <2>4, <2>5 DEF IInv
<1>2. CASE UNCHANGED vars
  BY <1>2 DEF vars, IInv, TypeOK, HistoryCertified, QuorumBelow, Unreached, Certified,
              Opposition
<1> QED
  BY <1>1, <1>2

LEMMA IInvInvariant == Spec => []IInv
BY InitIInv, NextIInv, PTL DEF Spec

(***************************************************************************)
(* The DAG stays well formed: certificates of rounds 0 to MaxRound, each   *)
(* referring to certificates that exist and are of the round below, as     *)
(* process_header checks before it votes.                                  *)
(***************************************************************************)
THEOREM TypeCorrect == Spec => []TypeOK
<1>1. IInv => TypeOK
  BY DEF IInv
<1> QED
  BY <1>1, IInvInvariant, PTL

(***************************************************************************)
(* Every round below a certificate holds a quorum of certificates.         *)
(***************************************************************************)
THEOREM QuorumBelowHolds == Spec => []QuorumBelow
<1>1. IInv => QuorumBelow
  BY DEF IInv
<1> QED
  BY <1>1, IInvInvariant, PTL

LEMMA UnreachedLacksSupport == IInv => SupportIsInherited
<1> SUFFICES ASSUME IInv, NEW l \in Certified, NEW x \in Certified, NEW r \in 0 .. MaxRound,
                    l.round < r, r < x.round, IsValidity(Support(l, r)), l \notin ancestors[x]
             PROVE  FALSE
  BY DEF SupportIsInherited
<1>1. IsQuorum(Opposition(l, r))
  BY DEF IInv, Unreached
<1>2. Support(l, r) \in SUBSET Authorities /\ Opposition(l, r) \in SUBSET Authorities
  BY DEF IInv, TypeOK, Support, Opposition, Origins
<1>3. PICK a : a \in Opposition(l, r) /\ a \in Support(l, r)
  BY <1>1, <1>2, QuorumMeetsValidity
<1>4. PICK y \in Certified : y.round = r /\ l \notin ancestors[y] /\ y.origin = a
  BY <1>3 DEF Opposition, Origins
<1>5. PICK z \in Certified : z.round = r /\ l \in ancestors[z] /\ z.origin = a
  BY <1>3 DEF Support, Origins
<1>6. y = z
  BY <1>4, <1>5 DEF IInv, TypeOK
<1> QED
  BY <1>4, <1>5, <1>6

(***************************************************************************)
(* Once f+1 of the stake of a round supports a certificate, every          *)
(* certificate of a later round has it in its history.  With one round in  *)
(* between this is the soundness of the steady commit rule of              *)
(* consensus/src/lib.rs; with three it covers the fallback rule.           *)
(***************************************************************************)
THEOREM SupportInherited == Spec => []SupportIsInherited
<1> QED
  BY UnreachedLacksSupport, IInvInvariant, PTL
=============================================================================
