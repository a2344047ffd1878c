---------------------------- MODULE SharedLemmas ----------------------------
(***************************************************************************)
(* Facts that the proofs about the components share.                       *)
(*                                                                         *)
(* About stake, for every committee and every distribution: it is monotone *)
(* and additive on disjoint sets, a quorum is never empty, meets every set *)
(* that reaches the validity threshold, and meets every other quorum       *)
(* outside any set that does not.                                          *)
(*                                                                         *)
(* About sequences: their elements and the order of these, what Keep       *)
(* leaves of one, and what FlattenSeq makes of a sequence of sequences.    *)
(***************************************************************************)
EXTENDS Committee, SequencesExt, Subsequences, FiniteSetTheorems, SequenceTheorems,
        NaturalsInduction, WellFoundedInduction, TLAPS

\* Authorities hold finitely many shares.
LEMMA SharesFinite == IsFiniteSet(Shares(Authorities))
<1> DEFINE holding == [a \in Authorities |-> {a} \X (1 .. Stake[a])]
           held == {{a} \X (1 .. Stake[a]) : a \in Authorities}
<1>1. IsFiniteSet(Authorities)
  BY FS_Interval, NAssumption DEF Authorities
<1>2. holding \in Surjection(Authorities, held)
  BY DEF Surjection
<1>3. IsFiniteSet(held)
  BY <1>1, <1>2, FS_Surjection
<1>4. \A T \in held : IsFiniteSet(T)
  <2> SUFFICES ASSUME NEW a \in Authorities
               PROVE  IsFiniteSet({a} \X (1 .. Stake[a]))
    OBVIOUS
  <2>1. Stake[a] \in Int
    BY StakeAssumption
  <2>2. IsFiniteSet(1 .. Stake[a])
    BY <2>1, 1 \in Int, FS_Interval
  <2>3. IsFiniteSet({a})
    BY FS_Singleton
  <2> QED
    BY <2>2, <2>3, FS_Product
<1> QED
  BY <1>3, <1>4, FS_UNION DEF Shares

\* The stake of one authority.
LEMMA StakeOfOne ==
  ASSUME NEW a \in Authorities
  PROVE  StakeOf({a}) = Stake[a] /\ Stake[a] \in Nat
<1> DEFINE k == Stake[a]
<1>1. k \in Nat
  BY StakeAssumption
<1>2. Shares({a}) = {a} \X (1 .. k)
  BY DEF Shares
<1> HIDE DEF k
<1>3. IsFiniteSet(1 .. k) /\ Cardinality(1 .. k) = IF 1 > k THEN 0 ELSE k - 1 + 1
  <2>1. 1 \in Int /\ k \in Int
    BY <1>1
  <2> QED
    BY <2>1, FS_Interval, Zenon
<1>4. IsFiniteSet({a}) /\ Cardinality({a}) = 1
  BY FS_Singleton
<1>5. Cardinality({a} \X (1 .. k)) = Cardinality({a}) * Cardinality(1 .. k)
  BY <1>3, <1>4, FS_Product, Zenon
<1>6. Cardinality(1 .. k) = k /\ 1 * k = k
  BY <1>1, <1>3
<1>7. Cardinality(Shares({a})) = k
  BY <1>2, <1>4, <1>5, <1>6
<1> QED
  BY <1>1, <1>7 DEF StakeOf, k

\* The stake of a set of authorities is a number, and at most the stake of any larger set.
LEMMA StakeMonotone ==
  ASSUME NEW S \in SUBSET Authorities, NEW T \in SUBSET S
  PROVE  /\ StakeOf(S) \in Nat
         /\ StakeOf(T) \in Nat
         /\ StakeOf(T) <= StakeOf(S)
<1>1. Shares(S) \in SUBSET Shares(Authorities) /\ Shares(T) \in SUBSET Shares(S)
  BY DEF Shares
<1>2. IsFiniteSet(Shares(S))
  BY <1>1, SharesFinite, FS_Subset
<1> QED
  BY <1>1, <1>2, FS_Subset, FS_CardinalityType DEF StakeOf

\* Sets of authorities without a common member hold at most all the stake between them.
LEMMA StakeDisjoint ==
  ASSUME NEW S \in SUBSET Authorities, NEW T \in SUBSET Authorities, S \cap T = {}
  PROVE  StakeOf(S) + StakeOf(T) <= TotalVotes
<1>1. Shares(S) \in SUBSET Shares(Authorities) /\ Shares(T) \in SUBSET Shares(Authorities)
  BY DEF Shares
<1>2. Shares(S) \cap Shares(T) = {}
  BY DEF Shares
<1>3. IsFiniteSet(Shares(S)) /\ IsFiniteSet(Shares(T))
  BY <1>1, SharesFinite, FS_Subset
<1>4. Cardinality(Shares(S) \cup Shares(T)) = Cardinality(Shares(S)) + Cardinality(Shares(T))
  <2>1. Cardinality(Shares(S) \cap Shares(T)) = 0
    BY <1>2, FS_EmptySet
  <2>2. Cardinality(Shares(S)) \in Nat /\ Cardinality(Shares(T)) \in Nat
    BY <1>3, FS_CardinalityType
  <2>3. Cardinality(Shares(S) \cup Shares(T)) =
            Cardinality(Shares(S)) + Cardinality(Shares(T)) - Cardinality(Shares(S) \cap Shares(T))
    BY <1>3, FS_Union
  <2> QED
    BY <2>1, <2>2, <2>3
<1>5. Shares(S) \cup Shares(T) \in SUBSET Shares(Authorities)
  BY <1>1
<1>6. Cardinality(Shares(S) \cup Shares(T)) <= Cardinality(Shares(Authorities))
  BY <1>5, SharesFinite, FS_Subset
<1> QED
  BY <1>4, <1>6 DEF StakeOf, TotalVotes

\* A set holds what its two parts hold.
LEMMA StakeSplit ==
  ASSUME NEW S \in SUBSET Authorities, NEW T \in SUBSET Authorities
  PROVE  StakeOf(S) = StakeOf(S \ T) + StakeOf(S \cap T)
<1> DEFINE A == Shares(S \ T)
           B == Shares(S \cap T)
<1>1. A \in SUBSET Shares(Authorities) /\ B \in SUBSET Shares(Authorities)
  BY DEF Shares
<1>2. IsFiniteSet(A) /\ IsFiniteSet(B)
  BY <1>1, SharesFinite, FS_Subset
<1>3. Shares(S) = A \cup B
  BY DEF Shares
<1>4. A \cap B = {}
  BY DEF Shares
<1>5. Cardinality(A \cap B) = 0
  BY <1>4, FS_EmptySet
<1>6. Cardinality(A) \in Nat /\ Cardinality(B) \in Nat
  BY <1>2, FS_CardinalityType
<1>7. Cardinality(A \cup B) = Cardinality(A) + Cardinality(B) - Cardinality(A \cap B)
  BY <1>2, FS_Union
<1>8. Cardinality(A \cup B) = Cardinality(A) + Cardinality(B)
  BY <1>5, <1>6, <1>7
<1> QED
  BY <1>3, <1>8 DEF StakeOf

LEMMA StakeType ==
  ASSUME NEW S \in SUBSET Authorities
  PROVE  StakeOf(S) \in Nat /\ TotalVotes \in Nat
BY StakeMonotone DEF TotalVotes

LEMMA QuorumNonEmpty ==
  ASSUME NEW S \in SUBSET Authorities, IsQuorum(S)
  PROVE  S # {}
<1> SUFFICES ASSUME S = {} PROVE FALSE
  OBVIOUS
<1>1. Shares(S) = {}
  BY DEF Shares
<1>2. StakeOf(S) = 0
  BY <1>1, FS_EmptySet DEF StakeOf
<1> QED
  BY <1>2, StakeType DEF IsQuorum, QuorumThreshold

\* Two quorums need more votes than there are.
LEMMA QuorumIsMajority == QuorumThreshold \in Nat /\ 2 * QuorumThreshold > TotalVotes
<1> DEFINE t == TotalVotes
<1>1. t \in Nat
  BY StakeType DEF Authorities
<1>2. QuorumThreshold = (2 * t) \div 3 + 1
  BY DEF QuorumThreshold
<1> HIDE DEF t
<1>3. 2 * ((2 * t) \div 3 + 1) > t /\ (2 * t) \div 3 + 1 \in Nat
  BY <1>1
<1> QED
  BY <1>2, <1>3 DEF t

LEMMA QuorumMonotone ==
  ASSUME NEW S \in SUBSET Authorities, NEW T \in SUBSET S, IsQuorum(T)
  PROVE  IsQuorum(S)
BY StakeMonotone, StakeType DEF IsQuorum, QuorumThreshold

(***************************************************************************)
(* A quorum and a set that reaches the validity threshold have a common    *)
(* member: f+1 supporters of a leader cannot hide from 2f+1 parents.       *)
(***************************************************************************)
THEOREM QuorumMeetsValidity ==
  ASSUME NEW Q \in SUBSET Authorities, NEW V \in SUBSET Authorities,
         IsQuorum(Q), IsValidity(V)
  PROVE  Q \cap V # {}
<1> SUFFICES ASSUME Q \cap V = {} PROVE FALSE
  OBVIOUS
<1>1. StakeOf(Q) + StakeOf(V) <= TotalVotes
  BY StakeDisjoint
<1>2. StakeOf(Q) \in Nat /\ StakeOf(V) \in Nat /\ TotalVotes \in Nat
  BY StakeType
<1> QED
  BY <1>1, <1>2 DEF IsQuorum, IsValidity, QuorumThreshold, ValidityThreshold

(***************************************************************************)
(* Two quorums have a common member outside any set that does not reach    *)
(* the validity threshold: f of the stake cannot hide a second quorum of   *)
(* votes in one slot.                                                      *)
(***************************************************************************)
THEOREM QuorumsMeetHonestly ==
  ASSUME NEW Q \in SUBSET Authorities, NEW R \in SUBSET Authorities,
         NEW F \in SUBSET Authorities, IsQuorum(Q), IsQuorum(R), ~IsValidity(F)
  PROVE  (Q \cap R) \ F # {}
<1> SUFFICES ASSUME (Q \cap R) \ F = {} PROVE FALSE
  OBVIOUS
<1>1. StakeOf(Q \ R) + StakeOf(R) <= TotalVotes
  BY StakeDisjoint, (Q \ R) \cap R = {}
<1>2. StakeOf(Q) = StakeOf(Q \ R) + StakeOf(Q \cap R)
  BY StakeSplit
<1>3. StakeOf(Q \cap R) <= StakeOf(F)
  BY StakeMonotone, Q \cap R \in SUBSET F
<1>4. /\ StakeOf(Q) \in Nat /\ StakeOf(R) \in Nat /\ StakeOf(F) \in Nat
      /\ StakeOf(Q \ R) \in Nat /\ StakeOf(Q \cap R) \in Nat /\ TotalVotes \in Nat
  BY StakeType
<1> QED
  BY <1>1, <1>2, <1>3, <1>4 DEF IsQuorum, IsValidity, QuorumThreshold, ValidityThreshold

-----------------------------------------------------------------------------

(***************************************************************************)
(* Keep and FlattenSeq are recursive functions.  What they compute is      *)
(* shown by induction over the length, stated for the set of the numbers   *)
(* that have the property.                                                 *)
(***************************************************************************)
LEMMA NatSetInduction ==
  ASSUME NEW S, 0 \in S, \A n \in Nat : n \in S => n + 1 \in S
  PROVE  Nat \subseteq S
<1> SUFFICES ASSUME Nat \ S # {} PROVE FALSE
  OBVIOUS
<1> DEFINE R == {p \in Nat \X Nat : p[1] < p[2]}
<1>1. IsWellFoundedOn(R, Nat)
  BY NatLessThanWellFounded DEF OpToRel
<1>2. PICK x \in Nat \ S : \A y \in Nat \ S : ~(<<y, x>> \in R)
  <2> HIDE DEF R
  <2> QED
    BY <1>1, WFMin, Zenon
<1>3. \A y \in Nat : <<y, x>> \in R <=> y < x
  OBVIOUS
<1>4. x # 0 /\ x - 1 \in Nat /\ x - 1 < x
  BY <1>2
<1>5. x - 1 \in S
  BY <1>2, <1>3, <1>4
<1> QED
  BY <1>4, <1>5

-----------------------------------------------------------------------------
(***************************************************************************)
(* The elements of a sequence, and their order.                            *)
(***************************************************************************)
Ascending(s) == \A i, j \in DOMAIN s : i < j => s[i] < s[j]

\* Everything in s is below everything in t.
Below(s, t) == \A a \in Range(s), b \in Range(t) : a < b

LEMMA RangeIsToSet ==
  ASSUME NEW s
  PROVE  ToSet(s) = Range(s)
BY DEF ToSet, Range

LEMMA EmptyRange ==
  /\ Range(<<>>) = {}
  /\ Ascending(<<>>)
BY DEF Range, Ascending

LEMMA RangeMember ==
  ASSUME NEW S, NEW s \in Seq(S)
  PROVE  /\ \A i \in 1 .. Len(s) : s[i] \in Range(s)
         /\ \A x \in Range(s) : x \in S /\ \E i \in 1 .. Len(s) : s[i] = x
         /\ s \in Seq(Range(s))
<1>1. DOMAIN s = 1 .. Len(s) /\ \A i \in 1 .. Len(s) : s[i] \in S
  BY LenProperties, ElementOfSeq
<1> QED
  BY <1>1, SeqOfRange DEF Range

LEMMA AppendRange ==
  ASSUME NEW S, NEW s \in Seq(S), NEW e \in S
  PROVE  Range(Append(s, e)) = Range(s) \cup {e}
<1> DEFINE t == Append(s, e)
<1>1. /\ DOMAIN s = 1 .. Len(s) /\ Len(s) \in Nat
      /\ t \in Seq(S) /\ Len(t) = Len(s) + 1
      /\ \A i \in 1 .. Len(s) : t[i] = s[i]
      /\ t[Len(s) + 1] = e
  BY LenProperties, AppendProperties
<1>2. DOMAIN t = 1 .. (Len(s) + 1)
  BY <1>1, LenProperties
<1> HIDE DEF t
<1>3. \A x \in Range(t) : x \in Range(s) \cup {e}
  <2> SUFFICES ASSUME NEW i \in 1 .. (Len(s) + 1) PROVE t[i] \in Range(s) \cup {e}
    BY <1>2 DEF Range
  <2>1. i \in 1 .. Len(s) \/ i = Len(s) + 1
    BY <1>1
  <2> QED
    BY <1>1, <2>1 DEF Range
<1>4. \A x \in Range(s) : x \in Range(t)
  <2> SUFFICES ASSUME NEW i \in 1 .. Len(s) PROVE s[i] \in Range(t)
    BY <1>1 DEF Range
  <2>1. i \in 1 .. (Len(s) + 1)
    BY <1>1
  <2> QED
    BY <1>1, <1>2, <2>1 DEF Range
<1>5. e \in Range(t)
  <2>1. Len(s) + 1 \in 1 .. (Len(s) + 1)
    BY <1>1
  <2> QED
    BY <1>1, <1>2, <2>1 DEF Range
<1> QED
  BY <1>3, <1>4, <1>5 DEF t

LEMMA HeadTailRange ==
  ASSUME NEW S, NEW s \in Seq(S), s # <<>>
  PROVE  /\ Head(s) \in S /\ Tail(s) \in Seq(S)
         /\ Range(s) = {Head(s)} \cup Range(Tail(s))
<1> DEFINE t == Tail(s)
           n == Len(s)
<1>1. /\ DOMAIN s = 1 .. n /\ n \in Nat /\ n # 0 /\ Head(s) = s[1]
  BY LenProperties, EmptySeq
<1>2. /\ t \in Seq(S) /\ Len(t) = n - 1 /\ Head(s) \in S
      /\ \A i \in 1 .. (n - 1) : t[i] = s[i + 1]
  BY HeadTailProperties
<1>3. DOMAIN t = 1 .. (n - 1)
  BY <1>2, LenProperties
<1> HIDE DEF t, n
<1>4. \A x \in Range(s) : x \in {Head(s)} \cup Range(t)
  <2> SUFFICES ASSUME NEW i \in 1 .. n PROVE s[i] \in {Head(s)} \cup Range(t)
    BY <1>1 DEF Range
  <2>1. i = 1 \/ (i - 1 \in 1 .. (n - 1) /\ (i - 1) + 1 = i)
    BY <1>1
  <2> QED
    BY <1>1, <1>2, <1>3, <2>1 DEF Range
<1>5. \A x \in Range(t) : x \in Range(s)
  <2> SUFFICES ASSUME NEW i \in 1 .. (n - 1) PROVE t[i] \in Range(s)
    BY <1>3 DEF Range
  <2>1. i + 1 \in 1 .. n
    BY <1>1
  <2> QED
    BY <1>1, <1>2, <2>1 DEF Range
<1>6. Head(s) \in Range(s)
  BY <1>1 DEF Range
<1> QED
  BY <1>2, <1>4, <1>5, <1>6 DEF t

LEMMA AppendAscending ==
  ASSUME NEW s \in Seq(Nat), NEW e \in Nat, Ascending(s), \A a \in Range(s) : a < e
  PROVE  Ascending(Append(s, e))
<1> DEFINE t == Append(s, e)
           n == Len(s)
<1>1. /\ n \in Nat /\ DOMAIN s = 1 .. n
      /\ t \in Seq(Nat) /\ Len(t) = n + 1
      /\ \A i \in 1 .. n : t[i] = s[i]
      /\ t[n + 1] = e
  BY LenProperties, AppendProperties
<1>2. DOMAIN t = 1 .. (n + 1)
  BY <1>1, LenProperties
<1>3. \A i \in 1 .. n : s[i] < e
  BY <1>1 DEF Range
<1>4. \A i, j \in 1 .. n : i < j => s[i] < s[j]
  BY <1>1 DEF Ascending
<1> HIDE DEF t, n
<1> SUFFICES ASSUME NEW i \in 1 .. (n + 1), NEW j \in 1 .. (n + 1), i < j PROVE t[i] < t[j]
  BY <1>2 DEF Ascending, t
<1>5. i \in 1 .. n /\ (j \in 1 .. n \/ j = n + 1)
  BY <1>1
<1> QED
  BY <1>1, <1>3, <1>4, <1>5

LEMMA TailAscending ==
  ASSUME NEW s \in Seq(Nat), s # <<>>, Ascending(s)
  PROVE  /\ Ascending(Tail(s))
         /\ \A b \in Range(Tail(s)) : Head(s) < b
<1> DEFINE t == Tail(s)
           n == Len(s)
<1>1. DOMAIN s = 1 .. n /\ n \in Nat /\ n # 0 /\ Head(s) = s[1]
  BY LenProperties, EmptySeq
<1>2. /\ t \in Seq(Nat) /\ Len(t) = n - 1
      /\ \A i \in 1 .. (n - 1) : t[i] = s[i + 1]
  BY HeadTailProperties
<1>3. DOMAIN t = 1 .. (n - 1)
  BY <1>2, LenProperties
<1> HIDE DEF t, n
<1>4. \A i, j \in 1 .. n : i < j => s[i] < s[j]
  BY <1>1 DEF Ascending
<1>5. ASSUME NEW i \in 1 .. (n - 1), NEW j \in 1 .. (n - 1), i < j PROVE t[i] < t[j]
  <2>1. i + 1 \in 1 .. n /\ j + 1 \in 1 .. n /\ i + 1 < j + 1
    BY <1>1, <1>5
  <2> QED
    BY <1>2, <1>4, <2>1
<1>6. ASSUME NEW i \in 1 .. (n - 1) PROVE Head(s) < t[i]
  <2>1. i + 1 \in 1 .. n /\ 1 < i + 1 /\ 1 \in 1 .. n
    BY <1>1
  <2> QED
    BY <1>1, <1>2, <1>4, <2>1
<1> QED
  BY <1>3, <1>5, <1>6 DEF Ascending, Range, t

\* A concatenation ascends if its parts do, the second above the first.
LEMMA ConcatAscending ==
  ASSUME NEW s \in Seq(Nat), NEW t \in Seq(Nat)
  PROVE  /\ s \o t \in Seq(Nat)
         /\ Range(s \o t) = Range(s) \cup Range(t)
         /\ Ascending(s \o t) <=> Ascending(s) /\ Ascending(t) /\ Below(s, t)
<1> DEFINE u == s \o t
           m == Len(s)
           n == Len(t)
<1>1. /\ u \in Seq(Nat) /\ Len(u) = m + n
      /\ \A i \in 1 .. (m + n) : u[i] = IF i <= m THEN s[i] ELSE t[i - m]
  BY ConcatProperties
<1>2. /\ DOMAIN u = 1 .. (m + n) /\ DOMAIN s = 1 .. m /\ DOMAIN t = 1 .. n
      /\ m \in Nat /\ n \in Nat
  BY <1>1, LenProperties
<1>3. Range(u) = Range(s) \cup Range(t)
  BY RangeConcatenation
<1> HIDE DEF u, m, n
<1>4. ASSUME NEW i \in 1 .. m PROVE i \in 1 .. (m + n) /\ u[i] = s[i]
  BY <1>1, <1>2
<1>5. ASSUME NEW j \in 1 .. n PROVE j + m \in 1 .. (m + n) /\ u[j + m] = t[j]
  <2>1. j + m \in 1 .. (m + n) /\ ~(j + m <= m) /\ (j + m) - m = j
    BY <1>2
  <2> QED
    BY <1>1, <2>1
<1>6. ASSUME Ascending(u) PROVE Ascending(s) /\ Ascending(t) /\ Below(s, t)
  <2>0. \A i, j \in 1 .. (m + n) : i < j => u[i] < u[j]
    BY <1>2, <1>6 DEF Ascending
  <2>1. Ascending(s)
    BY <1>2, <1>4, <2>0 DEF Ascending
  <2>2. ASSUME NEW i \in 1 .. n, NEW j \in 1 .. n, i < j PROVE t[i] < t[j]
    <3>1. i + m < j + m
      BY <1>2, <2>2
    <3> QED
      BY <1>5, <2>0, <3>1
  <2>3. ASSUME NEW i \in 1 .. m, NEW j \in 1 .. n PROVE s[i] < t[j]
    <3>1. i < j + m
      BY <1>2
    <3> QED
      BY <1>4, <1>5, <2>0, <3>1
  <2> QED
    BY <1>2, <2>1, <2>2, <2>3 DEF Ascending, Below, Range
<1>7. ASSUME Ascending(s), Ascending(t), Below(s, t) PROVE Ascending(u)
  <2> SUFFICES ASSUME NEW i \in 1 .. (m + n), NEW j \in 1 .. (m + n), i < j
               PROVE  u[i] < u[j]
    BY <1>2 DEF Ascending
  <2>1. CASE j <= m
    <3>1. i \in 1 .. m /\ j \in 1 .. m
      BY <1>2, <2>1
    <3> QED
      BY <1>2, <1>4, <1>7, <3>1 DEF Ascending
  <2>2. CASE i <= m /\ ~(j <= m)
    <3>1. i \in 1 .. m /\ j - m \in 1 .. n
      BY <1>2, <2>2
    <3>2. u[i] = s[i] /\ u[j] = t[j - m]
      BY <1>1, <2>2
    <3>3. s[i] \in Range(s) /\ t[j - m] \in Range(t)
      BY <1>2, <3>1 DEF Range
    <3> QED
      BY <1>7, <3>2, <3>3 DEF Below
  <2>3. CASE ~(i <= m)
    <3>1. i - m \in 1 .. n /\ j - m \in 1 .. n /\ i - m < j - m /\ ~(j <= m)
      BY <1>2, <2>3
    <3>2. u[i] = t[i - m] /\ u[j] = t[j - m]
      BY <1>1, <2>3, <3>1
    <3> QED
      BY <1>2, <1>7, <3>1, <3>2 DEF Ascending
  <2> QED
    BY <2>1, <2>2, <2>3
<1> QED
  BY <1>1, <1>3, <1>6, <1>7 DEF u

\* Moving an element from one part of a concatenation to the next, and to its end.
LEMMA ConcatShift ==
  ASSUME NEW S, NEW s \in Seq(S), NEW t \in Seq(S), t # <<>>
  PROVE  Append(s, Head(t)) \o Tail(t) = s \o t
<1> DEFINE e == Head(t)
           r == Tail(t)
           a == Append(s, e)
           m == Len(s)
           n == Len(t)
<1>1. /\ m \in Nat /\ n \in Nat /\ n # 0 /\ e = t[1] /\ e \in S
      /\ r \in Seq(S) /\ Len(r) = n - 1 /\ \A i \in 1 .. (n - 1) : r[i] = t[i + 1]
  BY LenProperties, EmptySeq, HeadTailProperties
<1>2. /\ a \in Seq(S) /\ Len(a) = m + 1
      /\ \A i \in 1 .. m : a[i] = s[i]
      /\ a[m + 1] = e
  BY <1>1, AppendProperties
<1> HIDE DEF e, r, a
<1>3. /\ a \o r \in Seq(S) /\ Len(a \o r) = (m + 1) + (n - 1)
      /\ \A i \in 1 .. ((m + 1) + (n - 1)) :
            (a \o r)[i] = IF i <= m + 1 THEN a[i] ELSE r[i - (m + 1)]
  <2>1. /\ a \o r \in Seq(S) /\ Len(a \o r) = Len(a) + Len(r)
        /\ \A i \in 1 .. (Len(a) + Len(r)) :
              (a \o r)[i] = IF i <= Len(a) THEN a[i] ELSE r[i - Len(a)]
    BY <1>1, <1>2, ConcatProperties
  <2> QED
    BY <1>1, <1>2, <2>1
<1>4. /\ s \o t \in Seq(S) /\ Len(s \o t) = m + n
      /\ \A i \in 1 .. (m + n) : (s \o t)[i] = IF i <= m THEN s[i] ELSE t[i - m]
  BY ConcatProperties
<1>5. (m + 1) + (n - 1) = m + n
  BY <1>1
<1> HIDE DEF m, n
<1>6. ASSUME NEW i \in 1 .. (m + n) PROVE (a \o r)[i] = (s \o t)[i]
  <2>1. CASE i <= m
    <3>1. i \in 1 .. m /\ i <= m + 1
      BY <1>1, <2>1
    <3> QED
      BY <1>2, <1>3, <1>4, <1>5, <2>1, <3>1
  <2>2. CASE i = m + 1
    <3>1. i - m = 1 /\ ~(i <= m) /\ i <= m + 1
      BY <1>1, <2>2
    <3> QED
      BY <1>1, <1>2, <1>3, <1>4, <1>5, <2>2, <3>1
  <2>3. CASE i > m + 1
    <3>1. /\ i - (m + 1) \in 1 .. (n - 1) /\ (i - (m + 1)) + 1 = i - m
          /\ ~(i <= m) /\ ~(i <= m + 1)
      BY <1>1, <2>3
    <3>2. r[i - (m + 1)] = t[i - m]
      BY <1>1, <3>1
    <3> QED
      BY <1>3, <1>4, <1>5, <3>1, <3>2
  <2>4. i <= m \/ i = m + 1 \/ i > m + 1
    BY <1>1
  <2> QED
    BY <2>1, <2>2, <2>3, <2>4
<1>7. Len(a \o r) = Len(s \o t) /\ \A i \in 1 .. Len(a \o r) : (a \o r)[i] = (s \o t)[i]
  BY <1>3, <1>4, <1>5, <1>6
<1>8. a \o r = s \o t
  BY <1>3, <1>4, <1>7, SeqEqual
<1> QED
  BY <1>8 DEF a, r, e

LEMMA ConcatAppend ==
  ASSUME NEW S, NEW s \in Seq(S), NEW t \in Seq(S), NEW e \in S
  PROVE  s \o Append(t, e) = Append(s \o t, e)
<1>1. <<e>> \in Seq(S) /\ s \o t \in Seq(S)
  BY ConcatProperties
<1>2. Append(t, e) = t \o <<e>> /\ Append(s \o t, e) = (s \o t) \o <<e>>
  BY <1>1, AppendIsConcat
<1> QED
  BY <1>1, <1>2, ConcatAssociative

LEMMA ConcatTail ==
  ASSUME NEW S, NEW s \in Seq(S), NEW t \in Seq(S), s # <<>>
  PROVE  /\ s \o t # <<>>
         /\ Head(s \o t) = Head(s)
         /\ Tail(s \o t) = Tail(s) \o t
<1> DEFINE u == s \o t
           r == Tail(s)
           v == Tail(u)
           m == Len(s)
           n == Len(t)
<1>1. /\ m \in Nat /\ n \in Nat /\ m # 0 /\ Head(s) = s[1]
      /\ r \in Seq(S) /\ Len(r) = m - 1 /\ \A i \in 1 .. (m - 1) : r[i] = s[i + 1]
  BY LenProperties, EmptySeq, HeadTailProperties
<1>2. /\ u \in Seq(S) /\ Len(u) = m + n
      /\ \A i \in 1 .. (m + n) : u[i] = IF i <= m THEN s[i] ELSE t[i - m]
  BY ConcatProperties
<1>3. u # <<>>
  BY <1>1, <1>2, EmptySeq
<1>4. Head(u) = u[1] /\ u[1] = s[1]
  BY <1>1, <1>2, <1>3
<1>5. /\ v \in Seq(S) /\ Len(v) = (m + n) - 1
      /\ \A i \in 1 .. ((m + n) - 1) : v[i] = u[i + 1]
  BY <1>2, <1>3, HeadTailProperties
<1>6. /\ r \o t \in Seq(S) /\ Len(r \o t) = (m - 1) + n
      /\ \A i \in 1 .. ((m - 1) + n) : (r \o t)[i] = IF i <= m - 1 THEN r[i] ELSE t[i - (m - 1)]
  BY <1>1, ConcatProperties
<1>7. (m - 1) + n = (m + n) - 1
  BY <1>1
<1> HIDE DEF u, r, v, m, n
<1>8. ASSUME NEW i \in 1 .. ((m + n) - 1) PROVE v[i] = (r \o t)[i]
  <2>1. i + 1 \in 1 .. (m + n) /\ i - (m - 1) = (i + 1) - m
    BY <1>1
  <2>2. CASE i <= m - 1
    <3>1. i + 1 <= m /\ i \in 1 .. (m - 1)
      BY <1>1, <2>2
    <3> QED
      BY <1>1, <1>2, <1>5, <1>6, <1>7, <2>1, <2>2, <3>1
  <2>3. CASE ~(i <= m - 1)
    <3>1. ~(i + 1 <= m)
      BY <1>1, <2>3
    <3> QED
      BY <1>2, <1>5, <1>6, <1>7, <2>1, <2>3, <3>1
  <2> QED
    BY <2>2, <2>3
<1>9. Len(v) = Len(r \o t) /\ \A i \in 1 .. Len(v) : v[i] = (r \o t)[i]
  BY <1>5, <1>6, <1>7, <1>8
<1>10. v = r \o t
  BY <1>5, <1>6, <1>9, SeqEqual
<1> QED
  BY <1>1, <1>3, <1>4, <1>10 DEF u, v, r

\* The first elements of a sequence are elements of it.
LEMMA PrefixRange ==
  ASSUME NEW S, NEW s \in Seq(S), NEW k \in 0 .. Len(s)
  PROVE  SubSeq(s, 1, k) \in Seq(S) /\ Range(SubSeq(s, 1, k)) \subseteq Range(s)
<1>1. Len(s) \in Nat /\ DOMAIN s = 1 .. Len(s)
  BY LenProperties
<1>2. CASE k = 0
  <2>1. SubSeq(s, 1, k) = <<>>
    BY <1>2, SubSeqEmpty
  <2>2. <<>> \in Seq(S)
    OBVIOUS
  <2> QED
    BY <2>1, <2>2, EmptyRange
<1>3. CASE k # 0
  <2>1. k \in 1 .. Len(s) /\ \A i \in 1 .. k : i \in 1 .. Len(s)
    BY <1>1, <1>3
  <2>2. /\ SubSeq(s, 1, k) \in Seq(S) /\ Len(SubSeq(s, 1, k)) = k
        /\ \A i \in 1 .. k : SubSeq(s, 1, k)[i] = s[i]
    BY <1>1, <2>1
  <2>3. DOMAIN SubSeq(s, 1, k) = 1 .. k
    BY <2>2, LenProperties
  <2> HIDE <1>3
  <2> QED
    BY <1>1, <2>1, <2>2, <2>3 DEF Range
<1> QED
  BY <1>2, <1>3

-----------------------------------------------------------------------------
(***************************************************************************)
(* Keep.                                                                   *)
(***************************************************************************)
\* f is the function Keep(s, S) is defined by, up to n.
IsKept(f, s, S, n) ==
    f = [i \in 0 .. n |-> IF i = 0 THEN <<>>
                          ELSE IF s[i] \in S THEN Append(f[i - 1], s[i]) ELSE f[i - 1]]

LEMMA KeptExists ==
  ASSUME NEW s, NEW S
  PROVE  \A n \in Nat : \E f : IsKept(f, s, S, n)
<1> DEFINE T == {n \in Nat : \E f : IsKept(f, s, S, n)}
           next(f, i) == IF i = 0 THEN <<>>
                         ELSE IF s[i] \in S THEN Append(f[i - 1], s[i]) ELSE f[i - 1]
<1>1. 0 \in T
  <2> DEFINE f == [i \in 0 .. 0 |-> <<>>]
  <2>1. IsKept(f, s, S, 0)
    BY DEF IsKept
  <2> QED
    BY <2>1
<1>2. ASSUME NEW n \in Nat, n \in T PROVE n + 1 \in T
  <2>1. PICK f : f = [i \in 0 .. n |-> next(f, i)]
    BY <1>2 DEF IsKept
  <2> DEFINE g == [i \in 0 .. (n + 1) |-> next(f, i)]
  <2>2. \A i \in 0 .. n : g[i] = f[i]
    <3> HIDE DEF next
    <3>1. \A i \in 0 .. n : f[i] = next(f, i)
      BY <2>1
    <3>2. \A i \in 0 .. n : g[i] = next(f, i)
      OBVIOUS
    <3> QED
      BY <3>1, <3>2
  <2>3. /\ g = [i \in 0 .. (n + 1) |-> g[i]]
        /\ \A i \in 0 .. (n + 1) : g[i] = next(f, i)
    <3> HIDE DEF next
    <3> QED
      OBVIOUS
  <2> HIDE DEF g
  <2>4. g = [i \in 0 .. (n + 1) |-> next(g, i)]
    <3>1. \A i \in 0 .. (n + 1) : i # 0 => i - 1 \in 0 .. n
      OBVIOUS
    <3>2. \A i \in 0 .. (n + 1) : i # 0 => g[i - 1] = f[i - 1]
      BY <2>2, <3>1
    <3>3. \A i \in 0 .. (n + 1) : next(g, i) = next(f, i)
      BY <3>2
    <3>4. \A i \in 0 .. (n + 1) : g[i] = next(g, i)
      BY <2>3, <3>3
    <3> HIDE DEF next
    <3> QED
      BY <2>3, <3>4
  <2>5. IsKept(g, s, S, n + 1)
    BY <2>4 DEF IsKept
  <2> QED
    BY <2>5
<1> HIDE DEF T
<1>3. Nat \subseteq T
  BY <1>1, <1>2, NatSetInduction
<1> QED
  BY <1>3 DEF T

\* What Keep is.
LEMMA KeepIs ==
  ASSUME NEW s, NEW S, Len(s) \in Nat
  PROVE  \E f : IsKept(f, s, S, Len(s)) /\ Keep(s, S) = f[Len(s)]
<1> DEFINE f == CHOOSE g : g = [i \in 0 .. Len(s) |->
                    IF i = 0 THEN <<>>
                    ELSE IF s[i] \in S THEN Append(g[i - 1], s[i]) ELSE g[i - 1]]
<1>1. \E g : g = [i \in 0 .. Len(s) |->
                    IF i = 0 THEN <<>>
                    ELSE IF s[i] \in S THEN Append(g[i - 1], s[i]) ELSE g[i - 1]]
  <2>1. \E g : IsKept(g, s, S, Len(s))
    BY KeptExists
  <2> QED
    BY <2>1 DEF IsKept
<1>2. f = [i \in 0 .. Len(s) |->
                    IF i = 0 THEN <<>>
                    ELSE IF s[i] \in S THEN Append(f[i - 1], s[i]) ELSE f[i - 1]]
  BY <1>1, Zenon
<1>3. Keep(s, S) = f[Len(s)]
  BY DEF Keep
<1> HIDE DEF f
<1> QED
  BY <1>2, <1>3 DEF IsKept

\* It leaves the elements in S, and only these.
LEMMA KeepRange ==
  ASSUME NEW U, NEW s \in Seq(U), NEW S
  PROVE  /\ Keep(s, S) \in Seq(U)
         /\ Range(Keep(s, S)) = Range(s) \cap S
<1> DEFINE n == Len(s)
<1>1. n \in Nat /\ DOMAIN s = 1 .. n /\ \A i \in 1 .. n : s[i] \in U
  BY LenProperties, ElementOfSeq
<1>2. PICK f : IsKept(f, s, S, n) /\ Keep(s, S) = f[n]
  BY <1>1, KeepIs
<1>3. \A i \in 0 .. n : f[i] = IF i = 0 THEN <<>>
                          ELSE IF s[i] \in S THEN Append(f[i - 1], s[i]) ELSE f[i - 1]
  BY <1>2 DEF IsKept
<1> HIDE DEF n
<1> DEFINE first(k) == {x \in U : \E i \in 1 .. k : s[i] = x}
           Done(k) == f[k] \in Seq(U) /\ Range(f[k]) = first(k) \cap S
           T == {k \in Nat : k \in 0 .. n => Done(k)}
<1>4. 0 \in T
  <2>1. f[0] = <<>>
    BY <1>1, <1>3
  <2>2. <<>> \in Seq(U)
    OBVIOUS
  <2>3. first(0) = {}
    OBVIOUS
  <2>4. Done(0)
    BY <2>1, <2>2, <2>3, EmptyRange
  <2> QED
    BY <2>4
<1>5. ASSUME NEW k \in Nat, k \in T PROVE k + 1 \in T
  <2> SUFFICES ASSUME k + 1 \in 0 .. n PROVE Done(k + 1)
    OBVIOUS
  <2>1. k \in 0 .. n /\ k + 1 # 0 /\ (k + 1) - 1 = k /\ k + 1 \in 1 .. n
    BY <1>1
  <2>2. Done(k)
    BY <1>5, <2>1
  <2>3. s[k + 1] \in U
    BY <1>1, <2>1
  <2>4. first(k + 1) = first(k) \cup {s[k + 1]}
    <3>1. \A i \in 1 .. (k + 1) : i \in 1 .. k \/ i = k + 1
      OBVIOUS
    <3>2. \A i \in 1 .. k : i \in 1 .. (k + 1)
      OBVIOUS
    <3>3. k + 1 \in 1 .. (k + 1)
      OBVIOUS
    <3> QED
      BY <2>3, <3>1, <3>2, <3>3
  <2> HIDE DEF first
  <2>5. f[k + 1] = IF s[k + 1] \in S THEN Append(f[k], s[k + 1]) ELSE f[k]
    BY <1>3, <2>1
  <2>6. CASE s[k + 1] \in S
    BY <2>2, <2>3, <2>4, <2>5, <2>6, AppendRange, AppendProperties
  <2>7. CASE s[k + 1] \notin S
    BY <2>2, <2>4, <2>5, <2>7
  <2> QED
    BY <2>6, <2>7
<1> HIDE DEF T
<1>6. Nat \subseteq T
  BY <1>4, <1>5, NatSetInduction
<1>7. Done(n)
  BY <1>1, <1>6 DEF T
<1>8. first(n) = Range(s)
  BY <1>1 DEF Range
<1> QED
  BY <1>2, <1>7, <1>8

\* It keeps their order.
LEMMA KeepAscending ==
  ASSUME NEW s \in Seq(Nat), NEW S, Ascending(s)
  PROVE  Ascending(Keep(s, S))
<1> DEFINE n == Len(s)
<1>1. n \in Nat /\ DOMAIN s = 1 .. n /\ \A i \in 1 .. n : s[i] \in Nat
  BY LenProperties, ElementOfSeq
<1>2. PICK f : IsKept(f, s, S, n) /\ Keep(s, S) = f[n]
  BY <1>1, KeepIs
<1>3. \A i \in 0 .. n : f[i] = IF i = 0 THEN <<>>
                          ELSE IF s[i] \in S THEN Append(f[i - 1], s[i]) ELSE f[i - 1]
  BY <1>2 DEF IsKept
<1>4. \A i, j \in 1 .. n : i < j => s[i] < s[j]
  BY <1>1 DEF Ascending
<1> HIDE DEF n
<1> DEFINE Done(k) == /\ f[k] \in Seq(Nat) /\ Ascending(f[k])
                      /\ \A x \in Range(f[k]) : \E i \in 1 .. k : s[i] = x
           T == {k \in Nat : k \in 0 .. n => Done(k)}
<1>5. 0 \in T
  <2>1. f[0] = <<>>
    BY <1>1, <1>3
  <2>2. <<>> \in Seq(Nat)
    OBVIOUS
  <2> QED
    BY <2>1, <2>2, EmptyRange
<1>6. ASSUME NEW k \in Nat, k \in T PROVE k + 1 \in T
  <2> SUFFICES ASSUME k + 1 \in 0 .. n PROVE Done(k + 1)
    OBVIOUS
  <2>1. k \in 0 .. n /\ k + 1 # 0 /\ (k + 1) - 1 = k /\ k + 1 \in 1 .. n
    BY <1>1
  <2>2. Done(k)
    BY <1>6, <2>1
  <2>3. s[k + 1] \in Nat
    BY <1>1, <2>1
  <2>4. f[k + 1] = IF s[k + 1] \in S THEN Append(f[k], s[k + 1]) ELSE f[k]
    BY <1>3, <2>1
  <2>5. \A i \in 1 .. k : i \in 1 .. (k + 1) /\ s[i] < s[k + 1]
    <3>1. \A i \in 1 .. k : i \in 1 .. n /\ i < k + 1 /\ i \in 1 .. (k + 1)
      BY <1>1, <2>1
    <3> QED
      BY <1>4, <2>1, <3>1
  <2>6. \A x \in Range(f[k]) : x < s[k + 1] /\ \E i \in 1 .. (k + 1) : s[i] = x
    BY <2>2, <2>5
  <2>7. CASE s[k + 1] \in S
    <3>1. /\ Append(f[k], s[k + 1]) \in Seq(Nat) /\ Ascending(Append(f[k], s[k + 1]))
          /\ Range(Append(f[k], s[k + 1])) = Range(f[k]) \cup {s[k + 1]}
      <4>1. f[k] \in Seq(Nat) /\ Ascending(f[k]) /\ \A a \in Range(f[k]) : a < s[k + 1]
        BY <2>2, <2>6
      <4> HIDE DEF Done
      <4>2. Ascending(Append(f[k], s[k + 1]))
        BY <2>3, <4>1, AppendAscending
      <4> QED
        BY <2>3, <4>1, <4>2, AppendRange, AppendProperties
    <3>2. k + 1 \in 1 .. (k + 1)
      OBVIOUS
    <3> QED
      <4>1. f[k + 1] = Append(f[k], s[k + 1])
        BY <2>4, <2>7
      <4>2. \A x \in Range(f[k + 1]) : \E i \in 1 .. (k + 1) : s[i] = x
        BY <2>6, <3>1, <3>2, <4>1
      <4> QED
        BY <3>1, <4>1, <4>2
  <2>8. CASE s[k + 1] \notin S
    BY <2>2, <2>4, <2>6, <2>8
  <2> QED
    BY <2>7, <2>8
<1> HIDE DEF T
<1>7. Nat \subseteq T
  BY <1>5, <1>6, NatSetInduction
<1> QED
  BY <1>1, <1>2, <1>7 DEF T

-----------------------------------------------------------------------------
(***************************************************************************)
(* FlattenSeq.                                                             *)
(***************************************************************************)
\* f is the function FlattenSeq(s) is defined by, up to n.
IsFlatten(f, s, n) == f = [i \in 1 .. n |-> IF i = 1 THEN s[i] ELSE f[i - 1] \o s[i]]

LEMMA FlattenExists ==
  ASSUME NEW s
  PROVE  \A n \in Nat : \E f : IsFlatten(f, s, n)
<1> DEFINE S == {n \in Nat : \E f : IsFlatten(f, s, n)}
<1>1. 0 \in S
  <2> DEFINE f == [i \in 1 .. 0 |-> s[i]]
  <2>1. IsFlatten(f, s, 0)
    BY DEF IsFlatten
  <2> QED
    BY <2>1
<1>2. ASSUME NEW n \in Nat, n \in S PROVE n + 1 \in S
  <2>1. PICK f : f = [i \in 1 .. n |-> IF i = 1 THEN s[i] ELSE f[i - 1] \o s[i]]
    BY <1>2 DEF IsFlatten
  <2> DEFINE g == [i \in 1 .. (n + 1) |-> IF i = 1 THEN s[i] ELSE f[i - 1] \o s[i]]
  <2>2. \A i \in 1 .. n : g[i] = f[i]
    <3>1. \A i \in 1 .. n : f[i] = IF i = 1 THEN s[i] ELSE f[i - 1] \o s[i]
      BY <2>1
    <3>2. \A i \in 1 .. n : g[i] = IF i = 1 THEN s[i] ELSE f[i - 1] \o s[i]
      OBVIOUS
    <3> QED
      BY <3>1, <3>2
  <2>3. /\ g = [i \in 1 .. (n + 1) |-> g[i]]
        /\ \A i \in 1 .. (n + 1) : g[i] = IF i = 1 THEN s[i] ELSE f[i - 1] \o s[i]
    OBVIOUS
  <2> HIDE DEF g
  <2>4. g = [i \in 1 .. (n + 1) |-> IF i = 1 THEN s[i] ELSE g[i - 1] \o s[i]]
    <3>1. \A i \in 1 .. (n + 1) : i # 1 => i - 1 \in 1 .. n
      OBVIOUS
    <3>2. \A i \in 1 .. (n + 1) : i # 1 => g[i - 1] = f[i - 1]
      BY <2>2, <3>1
    <3>3. \A i \in 1 .. (n + 1) : g[i] = IF i = 1 THEN s[i] ELSE g[i - 1] \o s[i]
      BY <2>3, <3>2
    <3> QED
      BY <2>3, <3>3
  <2>5. \E h : IsFlatten(h, s, n + 1)
    BY <2>4 DEF IsFlatten
  <2> QED
    BY <2>5
<1> HIDE DEF S
<1>3. Nat \subseteq S
  BY <1>1, <1>2, NatSetInduction
<1> QED
  BY <1>3 DEF S

SameUpTo(s, t, n) == \A i \in 1 .. n : s[i] = t[i]

\* Two such functions agree where their sequences do, and their values are sequences.
LEMMA FlattenAgree ==
  ASSUME NEW s, NEW t, NEW f, NEW g, NEW m \in Nat, NEW n \in Nat, m <= n,
         IsFlatten(f, s, m), IsFlatten(g, t, n), SameUpTo(s, t, m)
  PROVE  SameUpTo(f, g, m)
<1> DEFINE S == {k \in Nat : k \in 1 .. m => f[k] = g[k]}
<1>1. \A i \in 1 .. m : f[i] = IF i = 1 THEN s[i] ELSE f[i - 1] \o s[i]
  BY DEF IsFlatten
<1>2. \A i \in 1 .. n : g[i] = IF i = 1 THEN t[i] ELSE g[i - 1] \o t[i]
  BY DEF IsFlatten
<1>3. 0 \in S
  OBVIOUS
<1>4. ASSUME NEW k \in Nat, k \in S PROVE k + 1 \in S
  <2> SUFFICES ASSUME k + 1 \in 1 .. m PROVE f[k + 1] = g[k + 1]
    OBVIOUS
  <2>1. k + 1 \in 1 .. n /\ s[k + 1] = t[k + 1]
    BY DEF SameUpTo
  <2>2. CASE k = 0
    BY <1>1, <1>2, <2>1, <2>2
  <2>3. CASE k # 0
    <3>1. k \in 1 .. m /\ k + 1 # 1 /\ (k + 1) - 1 = k
      BY <2>3
    <3>2. f[k] = g[k]
      BY <1>4, <3>1
    <3>3. f[k + 1] = f[k] \o s[k + 1] /\ g[k + 1] = g[k] \o t[k + 1]
      BY <1>1, <1>2, <2>1, <3>1
    <3> QED
      BY <2>1, <3>2, <3>3
  <2> QED
    BY <2>2, <2>3
<1> HIDE DEF S
<1>5. Nat \subseteq S
  BY <1>3, <1>4, NatSetInduction
<1> QED
  BY <1>5 DEF S, SameUpTo

LEMMA FlattenType ==
  ASSUME NEW T, NEW s, NEW f, NEW n \in Nat, IsFlatten(f, s, n),
         \A i \in 1 .. n : s[i] \in Seq(T)
  PROVE  \A k \in 1 .. n : f[k] \in Seq(T)
<1> DEFINE S == {k \in Nat : k \in 1 .. n => f[k] \in Seq(T)}
<1>1. \A i \in 1 .. n : f[i] = IF i = 1 THEN s[i] ELSE f[i - 1] \o s[i]
  BY DEF IsFlatten
<1>2. 0 \in S
  OBVIOUS
<1>3. ASSUME NEW k \in Nat, k \in S PROVE k + 1 \in S
  <2> SUFFICES ASSUME k + 1 \in 1 .. n PROVE f[k + 1] \in Seq(T)
    OBVIOUS
  <2>1. CASE k = 0
    BY <1>1, <2>1
  <2>2. CASE k # 0
    <3>1. k \in 1 .. n /\ k + 1 # 1 /\ (k + 1) - 1 = k
      BY <2>2
    <3>2. f[k] \in Seq(T) /\ s[k + 1] \in Seq(T)
      BY <1>3, <3>1
    <3>3. f[k + 1] = f[k] \o s[k + 1]
      BY <1>1, <3>1
    <3> QED
      BY <3>2, <3>3, ConcatProperties
  <2> QED
    BY <2>1, <2>2
<1> HIDE DEF S
<1>4. Nat \subseteq S
  BY <1>2, <1>3, NatSetInduction
<1> QED
  BY <1>4 DEF S

\* What FlattenSeq is.
LEMMA FlattenIs ==
  ASSUME NEW s, Len(s) \in Nat \ {0}
  PROVE  \E f : IsFlatten(f, s, Len(s)) /\ FlattenSeq(s) = f[Len(s)]
<1> DEFINE f == CHOOSE g : g = [i \in 1 .. Len(s) |-> IF i = 1 THEN s[i] ELSE g[i - 1] \o s[i]]
<1>1. \E g : g = [i \in 1 .. Len(s) |-> IF i = 1 THEN s[i] ELSE g[i - 1] \o s[i]]
  BY FlattenExists DEF IsFlatten
<1>2. f = [i \in 1 .. Len(s) |-> IF i = 1 THEN s[i] ELSE f[i - 1] \o s[i]]
  BY <1>1, Zenon
<1>3. FlattenSeq(s) = f[Len(s)]
  BY DEF FlattenSeq
<1> HIDE DEF f
<1> QED
  BY <1>2, <1>3 DEF IsFlatten

LEMMA FlattenAppend ==
  ASSUME NEW T, NEW s \in Seq(Seq(T)), NEW e \in Seq(T)
  PROVE  /\ FlattenSeq(s) \in Seq(T)
         /\ FlattenSeq(Append(s, e)) = FlattenSeq(s) \o e
<1> DEFINE t == Append(s, e)
           n == Len(s)
<1>1. /\ t \in Seq(Seq(T)) /\ n \in Nat /\ Len(t) = n + 1
      /\ \A i \in 1 .. n : s[i] \in Seq(T) /\ t[i] = s[i]
      /\ t[n + 1] = e
  BY AppendProperties, LenProperties, ElementOfSeq
<1> HIDE DEF t
<1>2. PICK g : IsFlatten(g, t, n + 1) /\ FlattenSeq(t) = g[n + 1]
  BY <1>1, FlattenIs
<1>3. \A i \in 1 .. (n + 1) : g[i] = IF i = 1 THEN t[i] ELSE g[i - 1] \o t[i]
  BY <1>2 DEF IsFlatten
<1>4. CASE n = 0
  <2>1. s = <<>> /\ FlattenSeq(s) = s
    BY <1>4, EmptySeq DEF FlattenSeq
  <2>2. g[1] = e
    BY <1>1, <1>3, <1>4
  <2>3. <<>> \o e = e /\ <<>> \in Seq(T)
    BY ConcatEmptySeq, EmptySeq
  <2> QED
    <3>1. FlattenSeq(t) = g[1] /\ s \o e = e
      BY <1>2, <1>4, <2>1, <2>3
    <3> QED
      BY <2>1, <2>2, <2>3, <3>1 DEF t
<1>5. CASE n # 0
  <2>1. PICK f : IsFlatten(f, s, n) /\ FlattenSeq(s) = f[n]
    BY <1>1, <1>5, FlattenIs
  <2>2. n \in 1 .. n /\ n <= n + 1 /\ n + 1 # 1 /\ (n + 1) - 1 = n /\ n + 1 \in 1 .. (n + 1)
        /\ n + 1 \in Nat
    BY <1>1, <1>5
  <2>3. SameUpTo(s, t, n)
    BY <1>1 DEF SameUpTo
  <2>4. SameUpTo(f, g, n)
    <3> DEFINE m == n + 1
    <3>1. /\ n \in Nat /\ m \in Nat /\ n <= m
          /\ IsFlatten(f, s, n) /\ IsFlatten(g, t, m)
      BY <1>1, <1>2, <2>1, <2>2
    <3> HIDE DEF m, n
    <3> QED
      BY <2>3, <3>1, FlattenAgree
  <2>5. f[n] \in Seq(T)
    BY <1>1, <2>1, <2>2, FlattenType
  <2>6. g[n + 1] = g[n] \o e
    BY <1>1, <1>3, <2>2
  <2> QED
    BY <1>2, <2>1, <2>2, <2>4, <2>5, <2>6 DEF t, SameUpTo
<1> QED
  BY <1>4, <1>5
=============================================================================
