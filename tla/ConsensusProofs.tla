-------------------------- MODULE ConsensusProofs --------------------------
(***************************************************************************)
(* Proofs about Consensus for every committee, every certified DAG, every  *)
(* order of delivery and every number of repeated certificates, in normal  *)
(* and in adversary mode.                                                  *)
(*                                                                         *)
(* The task keeps no record of its output.  That it does not repeat itself *)
(* follows from what update leaves in the DAG: of what was output, only    *)
(* the last certificate of each authority, which order_dag skips.          *)
(***************************************************************************)
EXTENDS Consensus, SharedLemmas

States ==
    [dag : SUBSET Certificate, lastCommitted : [Authorities -> Nat], lastCommittedRound : Nat,
     resolvedFallbackRounds : SUBSET Nat]

\* The last committed round is the highest one.
Highest(st) ==
    /\ \A a \in Authorities : st.lastCommitted[a] <= st.lastCommittedRound
    /\ \E a \in Authorities : st.lastCommitted[a] = st.lastCommittedRound

\* The in-memory DAG holds what was received, except for what update took.
Holding(st, D) ==
    /\ st.dag \subseteq D \cup Genesis
    /\ \A y \in st.dag \cap Genesis : st.lastCommitted[y.origin] = 0
    /\ \A y \in D \ st.dag :
        \/ y.round < st.lastCommitted[y.origin]
        \/ y.round + GcDepth < st.lastCommittedRound

\* last_committed bounds what was output, and names certificates that were.
Recorded(st, out, D) ==
    /\ out \in Seq(D)
    /\ \A x \in Range(out) : x.round <= st.lastCommitted[x.origin]
    /\ \A a \in Authorities :
        st.lastCommitted[a] > 0 =>
            \E x \in Range(out) : x.origin = a /\ x.round = st.lastCommitted[a]

\* LossOnlyBehindCleanup of the parents P.
Lossless(st, out, P) ==
    \A x \in Range(out) : \A y \in P[x] \ Genesis :
        \/ y \in Range(out)
        \/ y.round < st.lastCommitted[y.origin]
        \/ y.round + GcDepth < st.lastCommittedRound

\* RepeatsAreOvertaken, first meaning that the primary has sent nothing twice.
Overtaken(st, out, first) ==
    \A i, j \in DOMAIN out :
        (i # j /\ out[i] = out[j]) => ~first /\ out[i].round < st.lastCommitted[out[i].origin]

\* Of what was output, and of the parents of that, only last committed certificates are
\* still in the DAG.
Spent(st, out, P) ==
    /\ \A y \in st.dag \cap Range(out) : y.round = st.lastCommitted[y.origin]
    /\ \A x \in Range(out) : \A y \in P[x] \cap st.dag : y.round = st.lastCommitted[y.origin]

Causal(out, P) == \A i, j \in DOMAIN out : out[i] \in P[out[j]] => i < j

\* What the loop over the leaders keeps.
Good(st, out, D, P, first) ==
    /\ st \in States
    /\ Highest(st)
    /\ Holding(st, D)
    /\ Recorded(st, out, D)
    /\ Lossless(st, out, P)
    /\ Overtaken(st, out, first)
    /\ first => Spent(st, out, P) /\ Causal(out, P)

\* What was received is closed under parents and has no empty round.
Complete(D, P) ==
    /\ D \subseteq DOMAIN P \ Genesis
    /\ IsFiniteSet(D)
    /\ \A x \in D : P[x] \subseteq D \cup Genesis
    /\ \A x \in D : \A r \in 1 .. x.round : AtRound(D, r) # {}

\* The distance of a leader to its support round.
Distance == IF Dynamic THEN 3 ELSE 1

\* The leaders, and the support of those that had it.
Elected(P) ==
    /\ leaders \in Seq(DOMAIN P)
    /\ direct \subseteq Range(leaders)
    /\ \A l \in direct : EnoughSupport(SupportFor(l, l.round + Distance, DOMAIN P))

(***************************************************************************)
(* The inductive invariant of the consensus task.                          *)
(***************************************************************************)
IInv ==
    /\ parents \in Dags
    /\ redeliveries \in 0 .. MaxRedeliveries
    /\ Complete(delivered, parents)
    /\ Good(state, output, delivered, parents, redeliveries = 0)
    /\ Elected(parents)
    /\ NoMissedDecision

-----------------------------------------------------------------------------
(***************************************************************************)
(* Certificates, and what the walk of Reach visits.                        *)
(***************************************************************************)
LEMMA CertificateFacts ==
  /\ \A x \in Certificate : x.round \in Nat /\ x.origin \in Authorities
  /\ \A x, y \in Certificate : (x.round = y.round /\ x.origin = y.origin) => x = y
  /\ Genesis \subseteq Certificate
  /\ \A x \in Genesis : x.round = 0
  /\ \A x \in Certificate : x.round = 0 => x \in Genesis
  /\ GcDepth \in Nat
<1>1. \A x \in Certificate : x = [round |-> x.round, origin |-> x.origin]
  BY DEF Certificate
<1>2. \A x, y \in Certificate : (x.round = y.round /\ x.origin = y.origin) => x = y
  BY <1>1, Zenon
<1> QED
  BY <1>1, <1>2, ParametersAssumption DEF Certificate, Genesis

\* The parents of a certificate, in any DAG that is considered.
LEMMA DagFacts ==
  ASSUME NEW P \in Dags
  PROVE  /\ Genesis \subseteq DOMAIN P /\ DOMAIN P \subseteq Certificate
         /\ \A x \in DOMAIN P :
              /\ P[x] \subseteq DOMAIN P
              /\ \A p \in P[x] : p.round + 1 = x.round
              /\ x.round # 0 => IsQuorum(Origins(P[x]))
              /\ x \in Genesis => P[x] = {}
<1>1. WellFormed(P)
  BY DagsAssumption
<1>2. \A x \in Genesis : x.round = 0
  BY CertificateFacts
<1> QED
  BY <1>1, <1>2 DEF WellFormed, ValidParents

\* The layers Reach is defined by, up to n.
IsLayers(f, P, x, W, n) ==
    f = [k \in 0 .. n |->
            IF k = 0 THEN {x}
            ELSE LET named == UNION {P[c] : c \in f[k - 1]}
                 IN  {y \in named \cap W : y.round + k = x.round}]

LEMMA LayersExist ==
  ASSUME NEW P, NEW x, NEW W
  PROVE  \A n \in Nat : \E f : IsLayers(f, P, x, W, n)
<1> DEFINE T == {n \in Nat : \E f : IsLayers(f, P, x, W, n)}
           next(f, k) == IF k = 0 THEN {x}
                         ELSE LET named == UNION {P[c] : c \in f[k - 1]}
                              IN  {y \in named \cap W : y.round + k = x.round}
<1>1. 0 \in T
  <2> DEFINE f == [k \in 0 .. 0 |-> {x}]
  <2>1. IsLayers(f, P, x, W, 0)
    BY DEF IsLayers
  <2> QED
    BY <2>1
<1>2. ASSUME NEW n \in Nat, n \in T PROVE n + 1 \in T
  <2>1. PICK f : f = [k \in 0 .. n |-> next(f, k)]
    BY <1>2 DEF IsLayers
  <2> DEFINE g == [k \in 0 .. (n + 1) |-> next(f, k)]
  <2>2. \A k \in 0 .. n : g[k] = f[k]
    <3> HIDE DEF next
    <3>1. \A k \in 0 .. n : f[k] = next(f, k)
      BY <2>1
    <3>2. \A k \in 0 .. n : g[k] = next(f, k)
      OBVIOUS
    <3> QED
      BY <3>1, <3>2
  <2>3. /\ g = [k \in 0 .. (n + 1) |-> g[k]]
        /\ \A k \in 0 .. (n + 1) : g[k] = next(f, k)
    <3> HIDE DEF next
    <3> QED
      OBVIOUS
  <2> HIDE DEF g
  <2>4. g = [k \in 0 .. (n + 1) |-> next(g, k)]
    <3>1. \A k \in 0 .. (n + 1) : k # 0 => k - 1 \in 0 .. n
      OBVIOUS
    <3>2. \A k \in 0 .. (n + 1) : k # 0 => g[k - 1] = f[k - 1]
      BY <2>2, <3>1
    <3>3. \A k \in 0 .. (n + 1) : next(g, k) = next(f, k)
      BY <3>2
    <3>4. \A k \in 0 .. (n + 1) : g[k] = next(g, k)
      BY <2>3, <3>3
    <3> HIDE DEF next
    <3> QED
      BY <2>3, <3>4
  <2>5. IsLayers(g, P, x, W, n + 1)
    BY <2>4 DEF IsLayers
  <2> QED
    BY <2>5
<1> HIDE DEF T
<1>3. Nat \subseteq T
  BY <1>1, <1>2, NatSetInduction
<1> QED
  BY <1>3 DEF T

\* What Reach is.
LEMMA ReachIs ==
  ASSUME NEW P, NEW x, x.round \in Nat, NEW W
  PROVE  \E f : /\ IsLayers(f, P, x, W, x.round)
                /\ Reach(P, x, W) = [r \in 0 .. x.round |-> f[x.round - r]]
<1> DEFINE f == CHOOSE g : g = [k \in 0 .. x.round |->
                    IF k = 0 THEN {x}
                    ELSE LET named == UNION {P[c] : c \in g[k - 1]}
                         IN  {y \in named \cap W : y.round + k = x.round}]
<1>1. \E g : g = [k \in 0 .. x.round |->
                    IF k = 0 THEN {x}
                    ELSE LET named == UNION {P[c] : c \in g[k - 1]}
                         IN  {y \in named \cap W : y.round + k = x.round}]
  <2>1. \E g : IsLayers(g, P, x, W, x.round)
    BY LayersExist
  <2> QED
    BY <2>1 DEF IsLayers
<1>2. IsLayers(f, P, x, W, x.round)
  BY <1>1 DEF IsLayers
<1>3. Reach(P, x, W) = [r \in 0 .. x.round |-> f[x.round - r]]
  BY DEF Reach
<1> HIDE DEF f
<1> QED
  BY <1>2, <1>3

\* What is reached is x itself, or a certificate of the set and of the right round.  The
\* walk goes on to every parent in the set, and to nothing else.
LEMMA ReachFacts ==
  ASSUME NEW P \in Dags, NEW x \in DOMAIN P, NEW W \in SUBSET Certificate
  PROVE  /\ DOMAIN Reach(P, x, W) = 0 .. x.round /\ x.round \in Nat
         /\ Reach(P, x, W)[x.round] = {x}
         /\ \A r \in 0 .. x.round : \A y \in Reach(P, x, W)[r] :
               y.round = r /\ (y = x \/ y \in W)
         /\ \A r \in 1 .. x.round : \A y \in Reach(P, x, W)[r] :
               \A p \in P[y] \cap W : p.round + 1 = r => p \in Reach(P, x, W)[r - 1]
         /\ \A r \in 1 .. x.round : \A y \in Reach(P, x, W)[r - 1] :
               y \in W /\ \E c \in Reach(P, x, W)[r] : y \in P[c]
<1>1. x.round \in Nat
  BY DagFacts, CertificateFacts
<1> DEFINE n == x.round
           R == Reach(P, x, W)
<1>2. PICK f : IsLayers(f, P, x, W, n) /\ R = [r \in 0 .. n |-> f[n - r]]
  BY <1>1, ReachIs
<1>3. /\ \A r \in 0 .. n : R[r] = f[n - r]
      /\ DOMAIN R = 0 .. n
  BY <1>2
<1>4. /\ f[0] = {x}
      /\ \A k \in 1 .. n : \A y :
            y \in f[k] <=> (\E c \in f[k - 1] : y \in P[c]) /\ y \in W /\ y.round + k = n
  <2> DEFINE F(k) == IF k = 0 THEN {x}
                     ELSE LET named == UNION {P[c] : c \in f[k - 1]}
                          IN  {y \in named \cap W : y.round + k = x.round}
  <2>1. 0 \in 0 .. n /\ \A k \in 1 .. n : k \in 0 .. n /\ k # 0
    BY <1>1
  <2>2. f = [k \in 0 .. n |-> F(k)]
    BY <1>2 DEF IsLayers
  <2>3. \A k \in 0 .. n : f[k] = F(k)
    <3> HIDE DEF F
    <3> QED
      BY <2>2
  <2>4. f[0] = F(0) /\ F(0) = {x}
    BY <2>1, <2>3
  <2>5. ASSUME NEW k \in 1 .. n, NEW y
        PROVE  y \in f[k] <=> (\E c \in f[k - 1] : y \in P[c]) /\ y \in W /\ y.round + k = n
    <3>1. f[k] = F(k) /\ k # 0
      BY <2>1, <2>3
    <3> DEFINE S == f[k - 1]
    <3>2. F(k) = {z \in (UNION {P[c] : c \in S}) \cap W : z.round + k = x.round}
      BY <3>1, Zenon
    <3> HIDE DEF F, S
    <3>3. y \in F(k) <=> y \in (UNION {P[c] : c \in S}) /\ y \in W /\ y.round + k = n
      BY <3>2, Zenon
    <3>4. y \in (UNION {P[c] : c \in S}) <=> \E c \in S : y \in P[c]
      BY Zenon
    <3> QED
      BY <3>1, <3>3, <3>4, Zenon DEF S
  <2> QED
    BY <2>4, <2>5
<1> HIDE DEF R
<1>5. R[n] = {x}
  <2>1. n \in 0 .. n /\ n - n = 0
    BY <1>1
  <2> QED
    BY <1>3, <1>4, <2>1
<1>6. ASSUME NEW r \in 0 .. n, NEW y \in R[r] PROVE y.round = r /\ (y = x \/ y \in W)
  <2>1. n - r \in 0 .. n /\ y \in f[n - r]
    BY <1>1, <1>3
  <2>2. CASE r = n
    BY <1>5, <2>2
  <2>3. CASE r # n
    <3>1. n - r \in 1 .. n
      BY <1>1, <2>3
    <3>2. y \in W /\ y.round + (n - r) = n
      BY <1>4, <2>1, <3>1
    <3>3. y.round \in Nat
      BY <3>2, CertificateFacts
    <3> QED
      BY <1>1, <3>2, <3>3
  <2> QED
    BY <2>2, <2>3
<1>7. ASSUME NEW r \in 1 .. n, NEW y \in R[r], NEW p \in P[y] \cap W, p.round + 1 = r
      PROVE  p \in R[r - 1]
  <2>1. /\ r \in 0 .. n /\ r - 1 \in 0 .. n /\ n - (r - 1) = (n - r) + 1
        /\ (n - r) + 1 \in 1 .. n /\ ((n - r) + 1) - 1 = n - r
    BY <1>1
  <2>2. y \in f[n - r] /\ R[r - 1] = f[(n - r) + 1]
    BY <1>3, <2>1
  <2>3. p \in f[(n - r) + 1] <=>
            (\E c \in f[n - r] : p \in P[c]) /\ p \in W /\ p.round + ((n - r) + 1) = n
    BY <1>4, <2>1
  <2>4. p.round + ((n - r) + 1) = n
    <3>1. p.round \in Nat
      BY CertificateFacts
    <3> QED
      BY <1>1, <1>7, <3>1
  <2> QED
    BY <2>2, <2>3, <2>4
<1>8. ASSUME NEW r \in 1 .. n, NEW y \in R[r - 1]
      PROVE  y \in W /\ \E c \in R[r] : y \in P[c]
  <2>1. /\ r \in 0 .. n /\ r - 1 \in 0 .. n /\ n - (r - 1) = (n - r) + 1
        /\ (n - r) + 1 \in 1 .. n /\ ((n - r) + 1) - 1 = n - r
    BY <1>1
  <2>2. y \in f[(n - r) + 1] /\ R[r] = f[n - r]
    BY <1>3, <2>1
  <2>3. y \in f[(n - r) + 1] <=>
            (\E c \in f[n - r] : y \in P[c]) /\ y \in W /\ y.round + ((n - r) + 1) = n
    BY <1>4, <2>1
  <2> QED
    BY <2>2, <2>3
<1> QED
  BY <1>1, <1>3, <1>5, <1>6, <1>7, <1>8 DEF R

-----------------------------------------------------------------------------
(***************************************************************************)
(* What is output with a leader.                                           *)
(***************************************************************************)
Open(st) == {y \in st.dag : st.lastCommitted[y.origin] # y.round}

LEMMA OrderDagFacts ==
  ASSUME parents \in Dags, NEW l \in DOMAIN parents, NEW st \in States,
         st.dag \subseteq DOMAIN parents, st.lastCommittedRound <= l.round
  PROVE  /\ l \in OrderDag(l, st)
         /\ \A x \in OrderDag(l, st) : x.round <= l.round /\ (x = l \/ x \in Open(st))
         /\ \A x \in OrderDag(l, st) : \A p \in parents[x] \cap Open(st) :
                p.round + GcDepth >= st.lastCommittedRound => p \in OrderDag(l, st)
<1> DEFINE R == Reach(parents, l, Open(st))
           n == l.round
           S == OrderDag(l, st)
<1>1. Open(st) \in SUBSET Certificate /\ st.lastCommittedRound \in Nat
  BY DEF Open, States
<1>2. /\ DOMAIN R = 0 .. n /\ n \in Nat
      /\ R[n] = {l}
      /\ \A r \in 0 .. n : \A y \in R[r] : y.round = r /\ (y = l \/ y \in Open(st))
      /\ \A r \in 1 .. n : \A y \in R[r] :
            \A p \in parents[y] \cap Open(st) : p.round + 1 = r => p \in R[r - 1]
  BY <1>1, ReachFacts
<1>3. S = {x \in UNION Range(R) : x.round + GcDepth >= st.lastCommittedRound}
  BY DEF OrderDag, Open
<1> HIDE DEF R, S
<1>4. \A x : x \in UNION Range(R) <=> \E r \in 0 .. n : x \in R[r]
  BY <1>2 DEF Range
<1>5. \A x : x \in S <=> /\ \E r \in 0 .. n : x \in R[r]
                         /\ x.round + GcDepth >= st.lastCommittedRound
  BY <1>3, <1>4
<1>6. l \in S
  <2>1. n \in 0 .. n /\ l \in R[n] /\ l.round + GcDepth >= st.lastCommittedRound
    BY <1>1, <1>2, CertificateFacts
  <2> QED
    BY <1>5, <2>1
<1>7. \A x \in S : x.round <= n /\ (x = l \/ x \in Open(st))
  BY <1>2, <1>5
<1>8. ASSUME NEW x \in S, NEW p \in parents[x] \cap Open(st),
             p.round + GcDepth >= st.lastCommittedRound
      PROVE  p \in S
  <2>1. PICK r \in 0 .. n : x \in R[r]
    BY <1>5
  <2>2. x.round = r /\ x \in DOMAIN parents
    BY <1>2, <1>7, <2>1 DEF Open
  <2>3. p.round \in Nat /\ p.round + 1 = r
    BY <1>1, <2>2, CertificateFacts, DagFacts
  <2>4. r \in 1 .. n /\ r - 1 \in 0 .. n
    BY <1>2, <2>3
  <2>5. p \in R[r - 1]
    BY <1>2, <2>1, <2>3, <2>4
  <2> QED
    BY <1>5, <1>8, <2>4, <2>5
<1> QED
  BY <1>6, <1>7, <1>8 DEF S

-----------------------------------------------------------------------------
(***************************************************************************)
(* The largest element of a bounded set.                                   *)
(***************************************************************************)
LEMMA MaxFacts ==
  ASSUME NEW S \in SUBSET Nat, S # {}, NEW b \in Nat, \A s \in S : s <= b
  PROVE  Max(S) \in S /\ \A s \in S : s <= Max(S)
<1> DEFINE Bounds(n) == \A T \in SUBSET Nat :
                (T # {} /\ \A t \in T : t <= n) => \E m \in T : \A t \in T : m >= t
           B == {n \in Nat : Bounds(n)}
<1>1. 0 \in B
  <2>1. ASSUME NEW T \in SUBSET Nat, T # {}, \A t \in T : t <= 0
        PROVE  \E m \in T : \A t \in T : m >= t
    <3>1. \A t \in T : t = 0
      BY <2>1
    <3>2. PICK m \in T : TRUE
      BY <2>1
    <3>3. \A t \in T : m >= t
      BY <3>1, <3>2
    <3> QED
      BY <3>3
  <2> QED
    BY <2>1
<1>2. ASSUME NEW n \in Nat, n \in B PROVE n + 1 \in B
  <2>1. ASSUME NEW T \in SUBSET Nat, T # {}, \A t \in T : t <= n + 1
        PROVE  \E m \in T : \A t \in T : m >= t
    <3>1. CASE n + 1 \in T
      <4>1. \A t \in T : n + 1 >= t
        BY <2>1
      <4> QED
        BY <3>1, <4>1
    <3>2. CASE n + 1 \notin T
      <4>1. \A t \in T : t <= n
        BY <2>1, <3>2
      <4> QED
        BY <1>2, <2>1, <4>1
    <3> QED
      BY <3>1, <3>2
  <2> QED
    BY <2>1
<1>3. Nat \subseteq B
  <2> HIDE DEF B
  <2> QED
    BY <1>1, <1>2, NatSetInduction
<1>4. \E m \in S : \A s \in S : m >= s
  BY <1>3
<1>5. Max(S) \in S /\ \A s \in S : Max(S) >= s
  BY <1>4 DEF Max
<1> QED
  BY <1>5

-----------------------------------------------------------------------------
(***************************************************************************)
(* The order of the output within one leader.                              *)
(***************************************************************************)
Precedes(x, y) ==
    \/ x.round < y.round
    \/ x.round = y.round /\ x.origin < y.origin

\* How many certificates of S come before x.
Rank(S, x) == Cardinality({y \in S : Precedes(y, x)})

\* Every number below the size of S is the rank of exactly one certificate.
LEMMA Ranking ==
  ASSUME NEW S \in SUBSET Certificate, IsFiniteSet(S)
  PROVE  /\ Cardinality(S) \in Nat
         /\ \A x \in S : Rank(S, x) \in 0 .. (Cardinality(S) - 1)
         /\ \A x, y \in S : Precedes(x, y) => Rank(S, x) < Rank(S, y)
         /\ \A x, y \in S : Rank(S, x) = Rank(S, y) => x = y
         /\ \A k \in 0 .. (Cardinality(S) - 1) : \E x \in S : Rank(S, x) = k
<1> DEFINE n == Cardinality(S)
           Before(x) == {y \in S : Precedes(y, x)}
<1>1. \A x \in S : x.round \in Nat /\ x.origin \in Nat
  BY CertificateFacts, NAssumption DEF Authorities
<1>2. \A x, y, z \in S : Precedes(x, y) /\ Precedes(y, z) => Precedes(x, z)
  BY <1>1 DEF Precedes
<1>3. \A x \in S : ~Precedes(x, x)
  BY <1>1 DEF Precedes
<1>4. \A x, y \in S : x # y => Precedes(x, y) \/ Precedes(y, x)
  <2>1. \A x, y \in S : x # y => x.round # y.round \/ x.origin # y.origin
    BY CertificateFacts
  <2> QED
    BY <1>1, <2>1 DEF Precedes
<1>5. n \in Nat /\ IsFiniteSet(S)
  BY FS_CardinalityType
<1>6. \A T \in SUBSET S : Cardinality(T) \in Nat /\ Cardinality(T) <= n /\ IsFiniteSet(T)
  BY <1>5, FS_Subset, FS_CardinalityType
<1>7. ASSUME NEW T \in SUBSET S, NEW U \in SUBSET T, T # U
      PROVE  Cardinality(U) < Cardinality(T)
  <2>1. IsFiniteSet(T) /\ Cardinality(T) \in Nat /\ Cardinality(U) \in Nat
    BY <1>6
  <2>2. Cardinality(U) <= Cardinality(T) /\ (Cardinality(T) = Cardinality(U) => T = U)
    BY <2>1, FS_Subset
  <2> QED
    BY <1>7, <2>1, <2>2
<1>8. \A x \in S : Rank(S, x) = Cardinality(Before(x)) /\ Before(x) \in SUBSET S
                   /\ x \notin Before(x)
  BY <1>3 DEF Rank
<1>9. ASSUME NEW x \in S PROVE Rank(S, x) \in 0 .. (n - 1)
  <2>1. Before(x) \in SUBSET S /\ S # Before(x) /\ Rank(S, x) = Cardinality(Before(x))
    BY <1>8
  <2> HIDE DEF Before
  <2>2. Cardinality(Before(x)) < n /\ Cardinality(Before(x)) \in Nat
    BY <1>6, <1>7, <2>1
  <2> QED
    BY <1>5, <2>1, <2>2
<1>10. ASSUME NEW x \in S, NEW y \in S, Precedes(x, y) PROVE Rank(S, x) < Rank(S, y)
  <2>1. Before(x) \in SUBSET Before(y) /\ x \in Before(y)
    BY <1>2, <1>10
  <2>2. /\ x \notin Before(x) /\ Before(y) \in SUBSET S
        /\ Rank(S, x) = Cardinality(Before(x)) /\ Rank(S, y) = Cardinality(Before(y))
    BY <1>8
  <2> HIDE DEF Before
  <2>3. Before(x) # Before(y)
    BY <2>1, <2>2
  <2> QED
    BY <1>7, <2>1, <2>2, <2>3
<1> HIDE DEF Before
<1>11. ASSUME NEW x \in S, NEW y \in S, Rank(S, x) = Rank(S, y) PROVE x = y
  <2>1. Rank(S, x) \in Nat /\ Rank(S, y) \in Nat
    BY <1>5, <1>9
  <2> SUFFICES ASSUME x # y PROVE FALSE
    OBVIOUS
  <2>2. Rank(S, x) < Rank(S, y) \/ Rank(S, y) < Rank(S, x)
    BY <1>4, <1>10
  <2> QED
    BY <1>11, <2>1, <2>2
<1>12. ASSUME NEW k \in 0 .. (n - 1) PROVE \E x \in S : Rank(S, x) = k
  <2> DEFINE T == 0 .. (n - 1)
             rank == [x \in S |-> Rank(S, x)]
  <2>1. rank \in [S -> T]
    BY <1>9
  <2>2. IsInjective(rank)
    BY <1>11 DEF IsInjective
  <2>3. rank \in Injection(S, T)
    BY <2>1, <2>2 DEF Injection
  <2>4. IsFiniteSet(T) /\ Cardinality(T) = n
    <3>1. 0 \in Int /\ n - 1 \in Int
      BY <1>5
    <3>2. IsFiniteSet(T) /\ Cardinality(T) = IF 0 > n - 1 THEN 0 ELSE (n - 1) - 0 + 1
      BY <3>1, FS_Interval, Zenon
    <3> QED
      BY <1>5, <3>2
  <2> HIDE DEF rank, T
  <2>5. rank \in Surjection(S, T)
    BY <2>3, <2>4, FS_Injection
  <2>6. \A t \in T : \E x \in S : rank[x] = t
    BY <2>5 DEF Surjection
  <2> QED
    BY <2>6 DEF rank, T
<1> QED
  BY <1>5, <1>9, <1>10, <1>11, <1>12

LEMMA Sorting ==
  ASSUME NEW S \in SUBSET Certificate, IsFiniteSet(S)
  PROVE  /\ SortByRound(S) \in Seq(S)
         /\ Range(SortByRound(S)) = S
         /\ \A i, j \in DOMAIN SortByRound(S) : SortByRound(S)[i] = SortByRound(S)[j] => i = j
         /\ \A i, j \in DOMAIN SortByRound(S) :
               SortByRound(S)[i].round < SortByRound(S)[j].round => i < j
<1> DEFINE s == SortByRound(S)
           n == Cardinality(S)
<1>1. s = [i \in 1 .. n |-> CHOOSE x \in S : Rank(S, x) = i - 1]
  BY DEF SortByRound, SortedBy, Rank, Precedes
<1>2. n \in Nat
  BY Ranking
<1>3. ASSUME NEW i \in 1 .. n PROVE s[i] \in S /\ Rank(S, s[i]) = i - 1
  <2>1. i - 1 \in 0 .. (n - 1)
    BY <1>2
  <2>2. \E x \in S : Rank(S, x) = i - 1
    BY <2>1, Ranking
  <2>3. s[i] = CHOOSE x \in S : Rank(S, x) = i - 1
    BY <1>1
  <2> HIDE DEF s
  <2> QED
    BY <2>2, <2>3
<1>4. DOMAIN s = 1 .. n
  BY <1>1
<1>5. s = [i \in 1 .. n |-> s[i]]
  BY <1>1
<1> HIDE DEF s
<1>6. s \in Seq(S)
  <2>1. s \in [1 .. n -> S]
    BY <1>3, <1>5
  <2> QED
    BY <1>2, <2>1
<1>7. \A x \in S : \E i \in 1 .. n : s[i] = x
  <2> TAKE x \in S
  <2>1. Rank(S, x) \in 0 .. (n - 1)
    BY Ranking
  <2> DEFINE i == Rank(S, x) + 1
  <2>2. i \in 1 .. n /\ i - 1 = Rank(S, x)
    BY <1>2, <2>1
  <2>3. s[i] \in S /\ Rank(S, s[i]) = Rank(S, x)
    BY <1>3, <2>2
  <2>4. s[i] = x
    BY <2>3, Ranking
  <2> QED
    BY <2>2, <2>4
<1>8. Range(s) = S
  BY <1>3, <1>4, <1>7 DEF Range
<1>9. \A i, j \in 1 .. n : s[i] = s[j] => i = j
  <2> TAKE i, j \in 1 .. n
  <2>1. Rank(S, s[i]) = i - 1 /\ Rank(S, s[j]) = j - 1
    BY <1>3
  <2> QED
    BY <2>1
<1>10. \A i, j \in 1 .. n : s[i].round < s[j].round => i < j
  <2> TAKE i, j \in 1 .. n
  <2> HAVE s[i].round < s[j].round
  <2>1. s[i] \in S /\ s[j] \in S /\ Rank(S, s[i]) = i - 1 /\ Rank(S, s[j]) = j - 1
    BY <1>3
  <2>2. Precedes(s[i], s[j])
    BY DEF Precedes
  <2>3. Rank(S, s[i]) < Rank(S, s[j])
    BY <2>1, <2>2, Ranking
  <2> QED
    BY <2>1, <2>3
<1> QED
  BY <1>4, <1>6, <1>8, <1>9, <1>10 DEF s

-----------------------------------------------------------------------------
(***************************************************************************)
(* What update leaves.                                                     *)
(***************************************************************************)
LEMMA UpdateFacts ==
  ASSUME NEW st \in States, Highest(st), NEW S \in SUBSET Certificate, NEW l \in S,
         \A x \in S : x.round <= l.round, st.lastCommittedRound <= l.round
  PROVE  /\ Update(st, S) \in States
         /\ Highest(Update(st, S))
         /\ Update(st, S).lastCommittedRound = l.round
         /\ Update(st, S).resolvedFallbackRounds = st.resolvedFallbackRounds
         /\ \A a \in Authorities : st.lastCommitted[a] <= Update(st, S).lastCommitted[a]
         /\ \A x \in S : x.round <= Update(st, S).lastCommitted[x.origin]
         /\ \A a \in Authorities :
               \/ Update(st, S).lastCommitted[a] = st.lastCommitted[a]
               \/ \E x \in S : x.origin = a /\ x.round = Update(st, S).lastCommitted[a]
         /\ \A y : y \in Update(st, S).dag <=>
               /\ y \in st.dag
               /\ y.round >= Update(st, S).lastCommitted[y.origin]
               /\ y.round + GcDepth >= l.round
<1> DEFINE rounds(a) == {st.lastCommitted[a]} \cup {x.round : x \in {y \in S : y.origin = a}}
           lc == [a \in Authorities |-> Max(rounds(a))]
           all == {lc[a] : a \in Authorities}
           lcr == Max(all)
           u == Update(st, S)
<1>1. /\ st.dag \in SUBSET Certificate /\ st.lastCommitted \in [Authorities -> Nat]
      /\ st.lastCommittedRound \in Nat /\ st.resolvedFallbackRounds \in SUBSET Nat
      /\ \A a \in Authorities :
            st.lastCommitted[a] \in Nat /\ st.lastCommitted[a] <= st.lastCommittedRound
  BY DEF States, Highest
<1>2. /\ l.round \in Nat /\ l.origin \in Authorities
      /\ \A x \in S : x.round \in Nat /\ x.origin \in Authorities
  BY CertificateFacts
<1>3. ASSUME NEW a \in Authorities
      PROVE  /\ rounds(a) \in SUBSET Nat /\ rounds(a) # {}
             /\ \A s \in rounds(a) : s <= l.round
  BY <1>1, <1>2
<1>4. ASSUME NEW a \in Authorities
      PROVE  lc[a] \in rounds(a) /\ \A s \in rounds(a) : s <= lc[a]
  <2> HIDE DEF rounds
  <2>1. Max(rounds(a)) \in rounds(a) /\ \A s \in rounds(a) : s <= Max(rounds(a))
    BY <1>2, <1>3, MaxFacts
  <2> QED
    BY <2>1
<1>5. lc \in [Authorities -> Nat]
  <2>1. \A a \in Authorities : lc[a] \in Nat
    BY <1>3, <1>4
  <2> HIDE DEF rounds
  <2> QED
    BY <2>1
<1>6. \A a \in Authorities : st.lastCommitted[a] <= lc[a] /\ lc[a] <= l.round
  BY <1>3, <1>4
<1>7. \A x \in S : x.round <= lc[x.origin]
  BY <1>2, <1>4
<1>8. \A a \in Authorities :
        lc[a] = st.lastCommitted[a] \/ \E x \in S : x.origin = a /\ x.round = lc[a]
  BY <1>4
<1>9. u = [st EXCEPT !.lastCommitted = lc, !.lastCommittedRound = lcr,
                     !.dag = {y \in @ : y.round >= lc[y.origin] /\ y.round + GcDepth >= lcr}]
  BY DEF Update
<1> HIDE DEF lc, rounds
<1>10. lcr = l.round
  <2>1. lc[l.origin] = l.round
    BY <1>2, <1>5, <1>6, <1>7
  <2>2. all \in SUBSET Nat /\ l.round \in all /\ \A s \in all : s <= l.round
    BY <1>2, <1>5, <1>6, <2>1
  <2> HIDE DEF all
  <2>3. lcr \in all /\ \A s \in all : s <= lcr
    BY <1>2, <2>2, MaxFacts
  <2> HIDE DEF lcr
  <2>4. lcr \in Nat /\ lcr <= l.round /\ l.round <= lcr
    BY <2>2, <2>3
  <2> QED
    BY <1>2, <2>4
<1> HIDE DEF lcr, u
<1>11. /\ u \in States
       /\ u.lastCommitted = lc /\ u.lastCommittedRound = l.round
       /\ u.resolvedFallbackRounds = st.resolvedFallbackRounds
       /\ u.dag = {y \in st.dag : y.round >= lc[y.origin] /\ y.round + GcDepth >= l.round}
  BY <1>1, <1>2, <1>5, <1>9, <1>10 DEF States
<1>12. Highest(u)
  <2>1. lc[l.origin] = l.round
    BY <1>2, <1>5, <1>6, <1>7
  <2> QED
    BY <1>2, <1>6, <1>11, <2>1 DEF Highest
<1> QED
  BY <1>6, <1>7, <1>8, <1>11, <1>12 DEF u

-----------------------------------------------------------------------------
(***************************************************************************)
(* One leader is committed.                                                *)
(***************************************************************************)
\* What the history of a leader is made of.
LEMMA OrderDagReceived ==
  ASSUME parents \in Dags, NEW D, Complete(D, parents), NEW st \in States, Holding(st, D),
         NEW l \in D, st.lastCommittedRound <= l.round
  PROVE  /\ l \in OrderDag(l, st)
         /\ OrderDag(l, st) \in SUBSET Certificate
         /\ OrderDag(l, st) \subseteq D
         /\ IsFiniteSet(OrderDag(l, st))
         /\ \A x \in OrderDag(l, st) : x.round <= l.round /\ (x = l \/ x \in Open(st))
         /\ \A x \in OrderDag(l, st) : \A p \in parents[x] \cap Open(st) :
                p.round + GcDepth >= st.lastCommittedRound => p \in OrderDag(l, st)
<1>1. D \subseteq DOMAIN parents /\ IsFiniteSet(D) /\ DOMAIN parents \subseteq Certificate
  BY DagFacts DEF Complete
<1>2. st.dag \subseteq DOMAIN parents
  BY <1>1, DagFacts DEF Holding
<1>3. /\ l \in OrderDag(l, st)
      /\ \A x \in OrderDag(l, st) : x.round <= l.round /\ (x = l \/ x \in Open(st))
      /\ \A x \in OrderDag(l, st) : \A p \in parents[x] \cap Open(st) :
                p.round + GcDepth >= st.lastCommittedRound => p \in OrderDag(l, st)
  BY <1>1, <1>2, OrderDagFacts
<1>4. Open(st) \subseteq D
  BY CertificateFacts DEF Open, Holding
<1>5. OrderDag(l, st) \subseteq D
  BY <1>3, <1>4
<1>6. IsFiniteSet(OrderDag(l, st))
  BY <1>1, <1>5, FS_Subset
<1> QED
  BY <1>1, <1>3, <1>5, <1>6

\* The output extended by the sorted history.
LEMMA OutputFacts ==
  ASSUME NEW D \in SUBSET Certificate, NEW out \in Seq(D), NEW S \in SUBSET D, IsFiniteSet(S)
  PROVE  /\ out \o SortByRound(S) \in Seq(D)
         /\ SortByRound(S) \in Seq(D)
         /\ Range(out \o SortByRound(S)) = Range(out) \cup S
         /\ \A i, j \in DOMAIN (out \o SortByRound(S)) :
              LET u == out \o SortByRound(S) IN
              \/ i \in DOMAIN out /\ j \in DOMAIN out /\ u[i] = out[i] /\ u[j] = out[j]
              \/ i < j /\ u[i] \in Range(out) /\ u[j] \in S
              \/ j < i /\ u[j] \in Range(out) /\ u[i] \in S
              \/ /\ u[i] \in S /\ u[j] \in S
                 /\ u[i] = u[j] => i = j
                 /\ u[i].round < u[j].round => i < j
<1> DEFINE s == SortByRound(S)
           m == Len(out)
           n == Len(s)
           u == out \o s
<1>1. /\ s \in Seq(S) /\ Range(s) = S
      /\ \A i, j \in DOMAIN s : s[i] = s[j] => i = j
      /\ \A i, j \in DOMAIN s : s[i].round < s[j].round => i < j
  BY Sorting
<1> HIDE DEF s
<1>2. s \in Seq(D)
  BY <1>1
<1>3. /\ m \in Nat /\ n \in Nat /\ DOMAIN out = 1 .. m /\ DOMAIN s = 1 .. n
      /\ \A k \in 1 .. m : out[k] \in Range(out)
      /\ \A k \in 1 .. n : s[k] \in S
  BY <1>1, LenProperties, RangeMember, ElementOfSeq
<1>4. /\ u \in Seq(D) /\ Len(u) = m + n
      /\ \A i \in 1 .. (m + n) : u[i] = IF i <= m THEN out[i] ELSE s[i - m]
  BY <1>2, ConcatProperties
<1>5. DOMAIN u = 1 .. (m + n)
  BY <1>4, LenProperties
<1>6. Range(u) = Range(out) \cup S
  BY <1>1, <1>2, RangeConcatenation
<1> HIDE DEF u, m, n
<1>7. ASSUME NEW i \in DOMAIN u, NEW j \in DOMAIN u
      PROVE  \/ i \in DOMAIN out /\ j \in DOMAIN out /\ u[i] = out[i] /\ u[j] = out[j]
             \/ i < j /\ u[i] \in Range(out) /\ u[j] \in S
             \/ j < i /\ u[j] \in Range(out) /\ u[i] \in S
             \/ /\ u[i] \in S /\ u[j] \in S
                /\ u[i] = u[j] => i = j
                /\ u[i].round < u[j].round => i < j
  <2>1. /\ i \in Nat /\ j \in Nat /\ i \in 1 .. (m + n) /\ j \in 1 .. (m + n)
        /\ \A k \in {i, j} : k <= m => k \in 1 .. m /\ u[k] = out[k]
        /\ \A k \in {i, j} : ~(k <= m) => k - m \in 1 .. n /\ u[k] = s[k - m]
    BY <1>3, <1>4, <1>5
  <2>2. CASE i <= m /\ j <= m
    BY <1>3, <2>1, <2>2
  <2>3. CASE i <= m /\ ~(j <= m)
    BY <1>3, <2>1, <2>3
  <2>4. CASE ~(i <= m) /\ j <= m
    BY <1>3, <2>1, <2>4
  <2>5. CASE ~(i <= m) /\ ~(j <= m)
    <3>1. /\ i - m \in DOMAIN s /\ j - m \in DOMAIN s
          /\ u[i] = s[i - m] /\ u[j] = s[j - m]
      BY <1>3, <2>1, <2>5
    <3>2. /\ u[i] = u[j] => i - m = j - m
          /\ u[i].round < u[j].round => i - m < j - m
      BY <1>1, <3>1
    <3>3. u[i] \in S /\ u[j] \in S
      BY <1>3, <3>1
    <3> QED
      BY <1>3, <2>1, <3>2, <3>3
  <2> QED
    BY <2>2, <2>3, <2>4, <2>5
<1> QED
  BY <1>2, <1>4, <1>6, <1>7 DEF u, s

\* Committing a leader above the last committed round keeps what the loop relies on.
LEMMA CommitGood ==
  ASSUME parents \in Dags, NEW D, Complete(D, parents), NEW st, NEW out, NEW first \in BOOLEAN,
         Good(st, out, D, parents, first), NEW l \in D, l.round > st.lastCommittedRound
  PROVE  LET S == OrderDag(l, st) IN
         /\ Good(Update(st, S), out \o SortByRound(S), D, parents, first)
         /\ SortByRound(S) \in Seq(D)
         /\ Update(st, S).lastCommittedRound = l.round
         /\ Update(st, S).resolvedFallbackRounds = st.resolvedFallbackRounds
<1> DEFINE S == OrderDag(l, st)
           u == Update(st, S)
           t == out \o SortByRound(S)
<1>1. /\ D \in SUBSET Certificate /\ \A x \in D : parents[x] \subseteq D \cup Genesis
      /\ \A x \in D : x \notin Genesis
  BY DagFacts DEF Complete
<1>2. /\ st \in States /\ Highest(st) /\ Holding(st, D) /\ out \in Seq(D)
      /\ Recorded(st, out, D) /\ Lossless(st, out, parents) /\ Overtaken(st, out, first)
      /\ first => Spent(st, out, parents) /\ Causal(out, parents)
  BY DEF Good, Recorded
<1>3. /\ st.dag \in SUBSET Certificate /\ st.lastCommitted \in [Authorities -> Nat]
      /\ st.lastCommittedRound \in Nat /\ l.round \in Nat
      /\ \A a \in Authorities :
            st.lastCommitted[a] \in Nat /\ st.lastCommitted[a] <= st.lastCommittedRound
  BY <1>1, <1>2, CertificateFacts DEF States, Highest
<1>4. st.lastCommittedRound <= l.round
  BY <1>3
<1>5. /\ l \in S /\ S \in SUBSET Certificate /\ S \subseteq D /\ IsFiniteSet(S)
      /\ \A x \in S : x.round <= l.round /\ (x = l \/ x \in Open(st))
      /\ \A x \in S : \A p \in parents[x] \cap Open(st) :
                p.round + GcDepth >= st.lastCommittedRound => p \in S
  BY <1>2, <1>4, OrderDagReceived
<1> HIDE DEF S
<1>6. /\ u \in States /\ Highest(u)
      /\ u.lastCommittedRound = l.round
      /\ u.resolvedFallbackRounds = st.resolvedFallbackRounds
      /\ \A a \in Authorities : st.lastCommitted[a] <= u.lastCommitted[a]
      /\ \A x \in S : x.round <= u.lastCommitted[x.origin]
      /\ \A a \in Authorities :
            \/ u.lastCommitted[a] = st.lastCommitted[a]
            \/ \E x \in S : x.origin = a /\ x.round = u.lastCommitted[a]
      /\ \A y : y \in u.dag <=>
            /\ y \in st.dag
            /\ y.round >= u.lastCommitted[y.origin]
            /\ y.round + GcDepth >= l.round
  BY <1>2, <1>4, <1>5, UpdateFacts
<1>7. /\ t \in Seq(D) /\ SortByRound(S) \in Seq(D)
      /\ Range(t) = Range(out) \cup S
      /\ \A i, j \in DOMAIN t :
              \/ i \in DOMAIN out /\ j \in DOMAIN out /\ t[i] = out[i] /\ t[j] = out[j]
              \/ i < j /\ t[i] \in Range(out) /\ t[j] \in S
              \/ j < i /\ t[j] \in Range(out) /\ t[i] \in S
              \/ /\ t[i] \in S /\ t[j] \in S
                 /\ t[i] = t[j] => i = j
                 /\ t[i].round < t[j].round => i < j
  BY <1>1, <1>2, <1>5, OutputFacts
<1> HIDE DEF u, t
<1>8. /\ u.lastCommitted \in [Authorities -> Nat]
      /\ \A a \in Authorities : u.lastCommitted[a] \in Nat
      /\ \A x \in Certificate : x.round \in Nat /\ x.origin \in Authorities
      /\ GcDepth \in Nat
      /\ Range(out) \subseteq D
  <2>1. Range(out) \subseteq D
    BY <1>2, RangeMember
  <2> QED
    BY <1>6, <2>1, CertificateFacts DEF States
<1>9. ASSUME NEW y \in Certificate,
             y.round < st.lastCommitted[y.origin] \/ y.round + GcDepth < st.lastCommittedRound
      PROVE  y.round < u.lastCommitted[y.origin] \/ y.round + GcDepth < u.lastCommittedRound
  BY <1>3, <1>6, <1>8, <1>9
<1>10. Holding(u, D)
  <2>1. u.dag \subseteq D \cup Genesis
    BY <1>2, <1>6 DEF Holding
  <2>2. ASSUME NEW y \in u.dag \cap Genesis PROVE u.lastCommitted[y.origin] = 0
    <3>1. y.round = 0 /\ y \in Certificate
      BY CertificateFacts
    <3> QED
      BY <1>6, <1>8, <3>1
  <2>3. ASSUME NEW y \in D \ u.dag
        PROVE  y.round < u.lastCommitted[y.origin] \/ y.round + GcDepth < u.lastCommittedRound
    <3>1. y \in Certificate
      BY <1>1
    <3>2. CASE y \in st.dag
      BY <1>3, <1>6, <1>8, <3>1, <3>2
    <3>3. CASE y \notin st.dag
      BY <1>2, <1>9, <3>1, <3>3 DEF Holding
    <3> QED
      BY <3>2, <3>3
  <2> QED
    BY <2>1, <2>2, <2>3 DEF Holding
<1>11. Recorded(u, t, D)
  <2>1. ASSUME NEW x \in Range(t) PROVE x.round <= u.lastCommitted[x.origin]
    <3>1. x \in Certificate
      BY <1>1, <1>5, <1>7, <1>8
    <3>2. x \in Range(out) => x.round <= st.lastCommitted[x.origin]
      BY <1>2 DEF Recorded
    <3>3. x \in Range(out) \/ x \in S
      BY <1>7
    <3>4. CASE x \in S
      BY <1>6, <3>4
    <3>5. CASE x \in Range(out)
      BY <1>3, <1>6, <1>8, <3>1, <3>2, <3>5
    <3> QED
      BY <3>3, <3>4, <3>5
  <2>2. ASSUME NEW a \in Authorities, u.lastCommitted[a] > 0
        PROVE  \E x \in Range(t) : x.origin = a /\ x.round = u.lastCommitted[a]
    <3>1. CASE u.lastCommitted[a] = st.lastCommitted[a]
      <4>1. \E x \in Range(out) : x.origin = a /\ x.round = st.lastCommitted[a]
        BY <1>2, <2>2, <3>1 DEF Recorded
      <4> QED
        BY <1>7, <3>1, <4>1
    <3>2. CASE \E x \in S : x.origin = a /\ x.round = u.lastCommitted[a]
      BY <1>7, <3>2
    <3> QED
      BY <1>6, <3>1, <3>2
  <2> QED
    BY <1>7, <2>1, <2>2 DEF Recorded
<1>12. Lossless(u, t, parents)
  <2>1. ASSUME NEW x \in Range(t), NEW y \in parents[x] \ Genesis
        PROVE  \/ y \in Range(t)
               \/ y.round < u.lastCommitted[y.origin]
               \/ y.round + GcDepth < u.lastCommittedRound
    <3>1. x \in D /\ y \in D /\ y \in Certificate
      BY <1>1, <1>5, <1>7, <1>8
    <3>2. CASE x \in Range(out)
      BY <1>2, <1>7, <1>9, <3>1, <3>2 DEF Lossless
    <3>3. CASE x \in S
      <4>1. CASE y \notin st.dag
        BY <1>2, <1>9, <3>1, <4>1 DEF Holding
      <4>2. CASE y \in Open(st)
        <5>1. CASE y.round + GcDepth >= st.lastCommittedRound
          BY <1>5, <1>7, <3>3, <4>2, <5>1
        <5>2. CASE ~(y.round + GcDepth >= st.lastCommittedRound)
          BY <1>3, <1>8, <1>9, <3>1, <5>2
        <5> QED
          BY <5>1, <5>2
      <4>3. CASE y \in st.dag /\ y \notin Open(st)
        <5>1. st.lastCommitted[y.origin] = y.round
          BY <4>3 DEF Open
        <5>2. y.round > 0 /\ y.origin \in Authorities
          BY <1>8, <3>1, CertificateFacts
        <5>3. PICK z \in Range(out) : z.origin = y.origin /\ z.round = y.round
          BY <1>2, <5>1, <5>2 DEF Recorded
        <5>4. z = y
          BY <1>1, <1>8, <3>1, <5>3, CertificateFacts
        <5> QED
          BY <1>7, <5>3, <5>4
      <4> QED
        BY <4>1, <4>2, <4>3
    <3> QED
      BY <1>7, <3>2, <3>3
  <2> QED
    BY <2>1 DEF Lossless
<1>13. ASSUME NEW z \in Range(out), z \in S
       PROVE  ~first /\ z.round < u.lastCommitted[z.origin]
  <2>1. z \in Certificate /\ z.round <= st.lastCommitted[z.origin]
    BY <1>2, <1>5, <1>13 DEF Recorded
  <2>2. z # l
    BY <1>3, <1>8, <2>1
  <2>3. z \in st.dag /\ st.lastCommitted[z.origin] # z.round
    BY <1>5, <1>13, <2>2 DEF Open
  <2>4. ~first
    BY <1>2, <2>3 DEF Spent
  <2> QED
    BY <1>3, <1>6, <1>8, <2>1, <2>3, <2>4
<1>14. Overtaken(u, t, first)
  <2>1. ASSUME NEW i \in DOMAIN t, NEW j \in DOMAIN t, i # j, t[i] = t[j]
        PROVE  ~first /\ t[i].round < u.lastCommitted[t[i].origin]
    <3>1. CASE i \in DOMAIN out /\ j \in DOMAIN out /\ t[i] = out[i] /\ t[j] = out[j]
      <4>1. ~first /\ t[i].round < st.lastCommitted[t[i].origin]
        BY <1>2, <2>1, <3>1 DEF Overtaken
      <4>2. t[i] \in Certificate
        BY <1>1, <1>8, <3>1 DEF Range
      <4> QED
        BY <1>3, <1>6, <1>8, <4>1, <4>2
    <3>2. CASE t[i] \in Range(out) /\ t[j] \in S
      BY <1>13, <2>1, <3>2
    <3>3. CASE t[j] \in Range(out) /\ t[i] \in S
      BY <1>13, <2>1, <3>3
    <3> QED
      BY <1>7, <2>1, <3>1, <3>2, <3>3
  <2> QED
    BY <2>1 DEF Overtaken
<1>15. ASSUME first PROVE Spent(u, t, parents)
  <2>1. \A y \in u.dag \cap Range(t) : y.round = u.lastCommitted[y.origin]
    <3> SUFFICES ASSUME NEW y \in u.dag \cap Range(t) PROVE y.round = u.lastCommitted[y.origin]
      OBVIOUS
    <3>1. y.round <= u.lastCommitted[y.origin] /\ y.round >= u.lastCommitted[y.origin]
      BY <1>6, <1>11 DEF Recorded
    <3>2. y.round \in Nat /\ u.lastCommitted[y.origin] \in Nat
      BY <1>3, <1>6, <1>8
    <3> QED
      BY <3>1, <3>2
  <2>2. ASSUME NEW x \in Range(t), NEW y \in parents[x] \cap u.dag
        PROVE  y.round = u.lastCommitted[y.origin]
    <3>1. /\ y \in st.dag /\ y \in Certificate /\ y.round >= u.lastCommitted[y.origin]
          /\ y.round + GcDepth >= l.round
      BY <1>3, <1>6
    <3>2. /\ y.round \in Nat /\ u.lastCommitted[y.origin] \in Nat
          /\ st.lastCommitted[y.origin] <= u.lastCommitted[y.origin]
          /\ st.lastCommitted[y.origin] \in Nat
      BY <1>3, <1>6, <1>8, <3>1
    <3>3. CASE y.round = st.lastCommitted[y.origin]
      BY <3>1, <3>2, <3>3
    <3>4. CASE x \in S /\ y.round # st.lastCommitted[y.origin]
      <4>1. y \in Open(st)
        BY <3>1, <3>4 DEF Open
      <4>2. y.round + GcDepth >= st.lastCommittedRound
        BY <1>3, <1>8, <3>1, <3>2
      <4>3. y \in S
        BY <1>5, <3>4, <4>1, <4>2
      <4> QED
        BY <1>7, <2>1, <4>3
    <3>5. CASE x \in Range(out)
      BY <1>2, <1>15, <3>1, <3>3, <3>5 DEF Spent
    <3> QED
      BY <1>7, <3>3, <3>4, <3>5
  <2> QED
    BY <2>1, <2>2 DEF Spent
<1>16. ASSUME first PROVE Causal(t, parents)
  <2>1. ASSUME NEW i \in DOMAIN t, NEW j \in DOMAIN t, t[i] \in parents[t[j]] PROVE i < j
    <3>0. t[j] \in D /\ t[i] \in D
      BY <1>7, <1>5, <1>8 DEF Range
    <3>1. /\ t[i].round + 1 = t[j].round /\ t[i].round \in Nat /\ t[j].round \in Nat
          /\ t[i] \in Certificate /\ t[j] \in Certificate
      BY <1>1, <1>8, <2>1, <3>0, DagFacts DEF Complete
    <3>2. CASE i \in DOMAIN out /\ j \in DOMAIN out /\ t[i] = out[i] /\ t[j] = out[j]
      BY <1>2, <1>16, <2>1, <3>2 DEF Causal
    <3>3. CASE t[i] \in S /\ t[j] \in S /\ (t[i].round < t[j].round => i < j)
      BY <3>1, <3>3
    <3>4. CASE t[j] \in Range(out) /\ t[i] \in S
      <4>1. t[j].round <= st.lastCommittedRound
        <5>1. t[j].round <= st.lastCommitted[t[j].origin]
          BY <1>2, <3>4 DEF Recorded
        <5> QED
          BY <1>3, <1>8, <3>1, <5>1
      <4>2. t[i] # l
        BY <1>3, <3>1, <4>1
      <4>3. t[i] \in st.dag /\ st.lastCommitted[t[i].origin] # t[i].round
        BY <1>5, <3>4, <4>2 DEF Open
      <4> QED
        BY <1>2, <1>16, <2>1, <3>4, <4>3 DEF Spent
    <3> QED
      BY <1>7, <3>2, <3>3, <3>4
  <2> QED
    BY <2>1 DEF Causal
<1>17. Good(u, t, D, parents, first)
  BY <1>6, <1>10, <1>11, <1>12, <1>14, <1>15, <1>16 DEF Good
<1> QED
  BY <1>6, <1>7, <1>17 DEF u, t, S

-----------------------------------------------------------------------------
(***************************************************************************)
(* The loop over the leaders.                                              *)
(***************************************************************************)
\* f is the function CommitAll(st, chain) is defined by, up to n.
IsDone(f, st, chain, n) ==
    f = [i \in 0 .. n |->
            IF i = 0 THEN [st |-> st, sequence |-> <<>>] ELSE Commit(f[i - 1], chain[i])]

LEMMA DoneExists ==
  ASSUME NEW st, NEW chain
  PROVE  \A n \in Nat : \E f : IsDone(f, st, chain, n)
<1> DEFINE T == {n \in Nat : \E f : IsDone(f, st, chain, n)}
           next(f, i) == IF i = 0 THEN [st |-> st, sequence |-> <<>>]
                         ELSE Commit(f[i - 1], chain[i])
<1>1. 0 \in T
  <2> DEFINE f == [i \in 0 .. 0 |-> [st |-> st, sequence |-> <<>>]]
  <2>1. IsDone(f, st, chain, 0)
    BY DEF IsDone
  <2> QED
    BY <2>1
<1>2. ASSUME NEW n \in Nat, n \in T PROVE n + 1 \in T
  <2>1. PICK f : f = [i \in 0 .. n |-> next(f, i)]
    BY <1>2 DEF IsDone
  <2> DEFINE g == [i \in 0 .. (n + 1) |-> next(f, i)]
  <2>2. \A i \in 0 .. n : g[i] = f[i]
    <3> HIDE DEF next
    <3>1. \A i \in 0 .. n : f[i] = next(f, i)
      BY <2>1
    <3>2. \A i \in 0 .. n : g[i] = next(f, i)
      OBVIOUS
    <3> QED
      BY <3>1, <3>2
  <2>3. /\ g = [i \in 0 .. (n + 1) |-> g[i]]
        /\ \A i \in 0 .. (n + 1) : g[i] = next(f, i)
    <3> HIDE DEF next
    <3> QED
      OBVIOUS
  <2> HIDE DEF g
  <2>4. g = [i \in 0 .. (n + 1) |-> next(g, i)]
    <3>1. \A i \in 0 .. (n + 1) : i # 0 => i - 1 \in 0 .. n
      OBVIOUS
    <3>2. \A i \in 0 .. (n + 1) : i # 0 => g[i - 1] = f[i - 1]
      BY <2>2, <3>1
    <3>3. \A i \in 0 .. (n + 1) : next(g, i) = next(f, i)
      BY <3>2
    <3>4. \A i \in 0 .. (n + 1) : g[i] = next(g, i)
      BY <2>3, <3>3
    <3> HIDE DEF next
    <3> QED
      BY <2>3, <3>4
  <2>5. IsDone(g, st, chain, n + 1)
    BY <2>4 DEF IsDone
  <2> QED
    BY <2>5
<1> HIDE DEF T
<1>3. Nat \subseteq T
  BY <1>1, <1>2, NatSetInduction
<1> QED
  BY <1>3 DEF T

LEMMA CommitAllIs ==
  ASSUME NEW st, NEW chain, Len(chain) \in Nat
  PROVE  \E f : IsDone(f, st, chain, Len(chain)) /\ CommitAll(st, chain) = f[Len(chain)]
<1> DEFINE f == CHOOSE g : g = [i \in 0 .. Len(chain) |->
                    IF i = 0 THEN [st |-> st, sequence |-> <<>>]
                    ELSE Commit(g[i - 1], chain[i])]
<1>1. \E g : g = [i \in 0 .. Len(chain) |->
                    IF i = 0 THEN [st |-> st, sequence |-> <<>>]
                    ELSE Commit(g[i - 1], chain[i])]
  <2>1. \E g : IsDone(g, st, chain, Len(chain))
    BY DoneExists
  <2> QED
    BY <2>1 DEF IsDone
<1>2. f = [i \in 0 .. Len(chain) |->
                    IF i = 0 THEN [st |-> st, sequence |-> <<>>]
                    ELSE Commit(f[i - 1], chain[i])]
  BY <1>1, Zenon
<1>3. CommitAll(st, chain) = f[Len(chain)]
  BY DEF CommitAll
<1> HIDE DEF f
<1> QED
  BY <1>2, <1>3 DEF IsDone

\* Leaders of ascending rounds above r.
Climbing(chain, r) ==
    /\ \A i \in 1 .. Len(chain) : chain[i].round > r
    /\ \A i, j \in 1 .. Len(chain) : i < j => chain[i].round < chain[j].round

LEMMA CommitAllGood ==
  ASSUME parents \in Dags, NEW D, Complete(D, parents), NEW st, NEW out, NEW first \in BOOLEAN,
         Good(st, out, D, parents, first), NEW chain \in Seq(D), chain # <<>>,
         Climbing(chain, st.lastCommittedRound)
  PROVE  LET done == CommitAll(st, chain) IN
         /\ Good(done.st, out \o done.sequence, D, parents, first)
         /\ done.st.lastCommittedRound = chain[Len(chain)].round
         /\ done.st.resolvedFallbackRounds = st.resolvedFallbackRounds
<1> DEFINE n == Len(chain)
<1>1. n \in Nat /\ n > 0 /\ \A i \in 1 .. n : chain[i] \in D
  BY LenProperties, EmptySeq, ElementOfSeq
<1>2. PICK f : IsDone(f, st, chain, n) /\ CommitAll(st, chain) = f[n]
  BY <1>1, CommitAllIs
<1>3. \A i \in 0 .. n : f[i] = IF i = 0 THEN [st |-> st, sequence |-> <<>>]
                               ELSE Commit(f[i - 1], chain[i])
  BY <1>2 DEF IsDone
<1> DEFINE Done(i) == /\ Good(f[i].st, out \o f[i].sequence, D, parents, first)
                      /\ f[i].sequence \in Seq(D)
                      /\ i = 0 => f[i].st.lastCommittedRound = st.lastCommittedRound
                      /\ i > 0 => f[i].st.lastCommittedRound = chain[i].round
                      /\ f[i].st.resolvedFallbackRounds = st.resolvedFallbackRounds
           T == {i \in Nat : i \in 0 .. n => Done(i)}
<1>4. out \in Seq(D)
  BY DEF Good, Recorded
<1>5. 0 \in T
  <2>1. 0 \in 0 .. n
    BY <1>1
  <2>2. f[0] = [st |-> st, sequence |-> <<>>]
    BY <1>3, <2>1
  <2>3. f[0].st = st /\ f[0].sequence = <<>> /\ ~(0 > 0)
    BY <2>2
  <2>4. <<>> \in Seq(D) /\ out \o <<>> = out
    BY <1>4, ConcatEmptySeq
  <2>5. Done(0)
    BY <2>3, <2>4
  <2> QED
    BY <2>5
<1>6. ASSUME NEW i \in Nat, i \in T PROVE i + 1 \in T
  <2> SUFFICES ASSUME i + 1 \in 0 .. n PROVE Done(i + 1)
    OBVIOUS
  <2>1. i \in 0 .. n /\ i + 1 \in 1 .. n /\ (i + 1) - 1 = i /\ i + 1 # 0
    BY <1>1
  <2> DEFINE l == chain[i + 1]
             s == f[i].st
             q == f[i].sequence
             S == OrderDag(l, s)
  <2>2. Done(i)
    BY <1>6, <2>1
  <2>3. f[i + 1] = Commit(f[i], l)
    BY <1>3, <2>1
  <2>4. f[i + 1].st = Update(s, S) /\ f[i + 1].sequence = q \o SortByRound(S)
    <3> DEFINE v == Update(s, S)
               w == q \o SortByRound(S)
    <3>1. f[i + 1] = [st |-> v, sequence |-> w]
      BY <2>3 DEF Commit
    <3> HIDE DEF v, w
    <3>2. f[i + 1].st = v /\ f[i + 1].sequence = w
      BY <3>1
    <3> QED
      BY <3>2 DEF v, w
  <2>5. l \in D /\ l.round > s.lastCommittedRound
    <3>1. CASE i = 0
      BY <1>1, <2>1, <2>2, <3>1 DEF Climbing
    <3>2. CASE i > 0
      <4>1. i \in 1 .. n /\ i < i + 1
        BY <1>1, <2>1, <3>2
      <4>2. chain[i].round < chain[i + 1].round
        BY <2>1, <4>1 DEF Climbing
      <4>3. chain[i].round \in Nat /\ chain[i + 1].round \in Nat
        BY <1>1, <2>1, <4>1, CertificateFacts, DagFacts DEF Complete
      <4> QED
        BY <1>1, <2>1, <2>2, <3>2, <4>2, <4>3
    <3> QED
      BY <3>1, <3>2
  <2>6. /\ Good(s, out \o q, D, parents, first) /\ q \in Seq(D)
        /\ s.resolvedFallbackRounds = st.resolvedFallbackRounds
    BY <2>2
  <2> HIDE DEF l, s, q
  <2>7. /\ Good(Update(s, S), (out \o q) \o SortByRound(S), D, parents, first)
        /\ SortByRound(S) \in Seq(D)
        /\ Update(s, S).lastCommittedRound = l.round
        /\ Update(s, S).resolvedFallbackRounds = s.resolvedFallbackRounds
    BY <2>5, <2>6, CommitGood
  <2> HIDE DEF S
  <2>8. /\ (out \o q) \o SortByRound(S) = out \o (q \o SortByRound(S))
        /\ q \o SortByRound(S) \in Seq(D)
    <3> DEFINE w == SortByRound(S)
    <3>1. out \in Seq(D) /\ q \in Seq(D) /\ w \in Seq(D)
      BY <1>4, <2>6, <2>7
    <3> HIDE DEF w
    <3>2. (out \o q) \o w = out \o (q \o w)
      BY <3>1, ConcatAssociative, SMTT(30)
    <3>3. q \o w \in Seq(D)
      BY <3>1, ConcatProperties
    <3> QED
      BY <3>2, <3>3 DEF w
  <2>9. l = chain[i + 1] /\ i + 1 # 0
    BY <2>1 DEF l
  <2> QED
    BY <2>4, <2>6, <2>7, <2>8, <2>9
<1> HIDE DEF T
<1>7. Nat \subseteq T
  BY <1>5, <1>6, NatSetInduction
<1>8. Done(n)
  BY <1>1, <1>7 DEF T
<1> QED
  BY <1>1, <1>2, <1>8

-----------------------------------------------------------------------------
(***************************************************************************)
(* The past leaders that are committed with a leader.                      *)
(***************************************************************************)
LEMMA AtMostOne ==
  ASSUME NEW T, \A x, y \in T : x = y
  PROVE  SetToSeq(T) \in Seq(T) /\ Len(SetToSeq(T)) \in 0 .. 1
<1> DEFINE n == Cardinality(T)
<1>1. T = {} \/ \E p : T = {p}
  OBVIOUS
<1>2. IsFiniteSet(T) /\ n \in 0 .. 1
  <2>1. CASE T = {}
    BY <2>1, FS_EmptySet
  <2>2. CASE \E p : T = {p}
    BY <2>2, FS_Singleton
  <2> QED
    BY <1>1, <2>1, <2>2
<1>3. n \in Nat
  BY <1>2
<1>4. PICK g : g \in Bijection(1 .. n, T)
  BY <1>2, FS_CountingElements, FS_CardinalityType DEF ExistsBijection
<1>5. g \in [1 .. n -> T] /\ IsInjective(g)
  BY <1>4 DEF Bijection, Injection, IsInjective
<1>6. SetToSeq(T) \in [1 .. n -> T]
  BY <1>5 DEF SetToSeq
<1> HIDE DEF n
<1>7. SetToSeq(T) \in Seq(T)
  BY <1>3, <1>6, IsASeq
<1>8. Len(SetToSeq(T)) = n
  BY <1>3, <1>6, <1>7, LenProperties
<1> QED
  BY <1>2, <1>7, <1>8

\* Received leaders of ascending rounds from low on, the last one being l.
IsChain(c, D, l, low) ==
    /\ c \in Seq(D) /\ Len(c) > 0
    /\ c[Len(c)] = l
    /\ \A i \in 1 .. Len(c) : c[i].round >= low
    /\ \A i, j \in 1 .. Len(c) : i < j => c[i].round < c[j].round

LEMMA ExtendChain ==
  ASSUME NEW D \in SUBSET Certificate, NEW dag, dag \subseteq D \cup Genesis, NEW l,
         NEW low \in Nat, NEW c, IsChain(c, D, l, low), NEW r \in Nat, 0 < r, r < low
  PROVE  IsChain(Extend(c, r, dag), D, l, r)
<1> DEFINE T == {p \in LeaderIn(r, dag) : Linked(Head(c), p, dag)}
           s == SetToSeq(T)
           m == Len(s)
           n == Len(c)
           e == s \o c
<1>1. \A p \in T : p \in D /\ p.round = r /\ p.origin = Leader(r)
  BY CertificateFacts DEF LeaderIn, ElectedIn
<1>2. \A x, y \in T : x = y
  BY <1>1, CertificateFacts
<1>3. Extend(c, r, dag) = e
  BY DEF Extend
<1> HIDE DEF T
<1>4. s \in Seq(T) /\ m \in 0 .. 1
  BY <1>2, AtMostOne
<1>5. s \in Seq(D)
  BY <1>1, <1>4
<1>6. m \in Nat /\ \A i \in 1 .. m : s[i].round = r /\ i = 1 /\ m = 1
  BY <1>1, <1>4, ElementOfSeq, LenProperties
<1>7. /\ c \in Seq(D) /\ n \in Nat /\ n > 0 /\ c[n] = l
      /\ \A i \in 1 .. n : c[i] \in D /\ c[i].round \in Nat /\ c[i].round >= low
      /\ \A i, j \in 1 .. n : i < j => c[i].round < c[j].round
  <2>1. c \in Seq(D) /\ n \in Nat /\ \A i \in 1 .. n : c[i] \in D
    BY LenProperties, ElementOfSeq DEF IsChain
  <2> QED
    BY <2>1, CertificateFacts DEF IsChain
<1>8. /\ e \in Seq(D) /\ Len(e) = m + n
      /\ \A i \in 1 .. (m + n) : e[i] = IF i <= m THEN s[i] ELSE c[i - m]
  BY <1>5, <1>7, ConcatProperties
<1> HIDE DEF s, m, n, e
<1>9. e[m + n] = l
  <2>1. m + n \in 1 .. (m + n) /\ ~(m + n <= m) /\ (m + n) - m = n
    BY <1>6, <1>7
  <2> QED
    BY <1>7, <1>8, <2>1
<1>10. \A i \in 1 .. (m + n) :
          /\ i <= m => i = 1 /\ e[i].round = r
          /\ ~(i <= m) => i - m \in 1 .. n /\ e[i] = c[i - m]
  <2> TAKE i \in 1 .. (m + n)
  <2>1. CASE i <= m
    <3>1. i \in 1 .. m /\ e[i] = s[i]
      BY <1>6, <1>8, <2>1
    <3> QED
      BY <1>6, <2>1, <3>1
  <2>2. CASE ~(i <= m)
    BY <1>6, <1>7, <1>8, <2>2
  <2> QED
    BY <2>1, <2>2
<1>11. ASSUME NEW i \in 1 .. (m + n) PROVE e[i].round >= r
  BY <1>7, <1>10
<1>12. ASSUME NEW i \in 1 .. (m + n), NEW j \in 1 .. (m + n), i < j
       PROVE  e[i].round < e[j].round
  <2>1. ~(j <= m)
    BY <1>6, <1>10, <1>12
  <2>2. j - m \in 1 .. n /\ e[j] = c[j - m]
    BY <1>10, <2>1
  <2>3. CASE i <= m
    BY <1>7, <1>10, <2>2, <2>3
  <2>4. CASE ~(i <= m)
    <3>1. i - m \in 1 .. n /\ e[i] = c[i - m] /\ i - m < j - m
      BY <1>6, <1>10, <1>12, <2>4
    <3> QED
      BY <1>7, <2>2, <3>1
  <2> QED
    BY <2>3, <2>4
<1>13. m + n > 0
  BY <1>6, <1>7
<1> QED
  BY <1>3, <1>8, <1>9, <1>11, <1>12, <1>13 DEF IsChain

\* f is the function OrderLeaders(l, st) is defined by, up to n.
IsLinking(f, l, dag, n) ==
    f = [i \in 0 .. n |->
            IF i = 0 THEN <<l>> ELSE Extend(f[i - 1], l.round + 1 - 2 * i, dag)]

LEMMA LinkingExists ==
  ASSUME NEW l, NEW dag
  PROVE  \A n \in Nat : \E f : IsLinking(f, l, dag, n)
<1> DEFINE T == {n \in Nat : \E f : IsLinking(f, l, dag, n)}
           next(f, i) == IF i = 0 THEN <<l>> ELSE Extend(f[i - 1], l.round + 1 - 2 * i, dag)
<1>1. 0 \in T
  <2> DEFINE f == [i \in 0 .. 0 |-> <<l>>]
  <2>1. IsLinking(f, l, dag, 0)
    BY DEF IsLinking
  <2> QED
    BY <2>1
<1>2. ASSUME NEW n \in Nat, n \in T PROVE n + 1 \in T
  <2>1. PICK f : f = [i \in 0 .. n |-> next(f, i)]
    BY <1>2 DEF IsLinking
  <2> DEFINE g == [i \in 0 .. (n + 1) |-> next(f, i)]
  <2>2. \A i \in 0 .. n : g[i] = f[i]
    <3> HIDE DEF next
    <3>1. \A i \in 0 .. n : f[i] = next(f, i)
      BY <2>1
    <3>2. \A i \in 0 .. n : g[i] = next(f, i)
      OBVIOUS
    <3> QED
      BY <3>1, <3>2
  <2>3. /\ g = [i \in 0 .. (n + 1) |-> g[i]]
        /\ \A i \in 0 .. (n + 1) : g[i] = next(f, i)
    <3> HIDE DEF next
    <3> QED
      OBVIOUS
  <2> HIDE DEF g
  <2>4. g = [i \in 0 .. (n + 1) |-> next(g, i)]
    <3>1. \A i \in 0 .. (n + 1) : i # 0 => i - 1 \in 0 .. n
      OBVIOUS
    <3>2. \A i \in 0 .. (n + 1) : i # 0 => g[i - 1] = f[i - 1]
      BY <2>2, <3>1
    <3>3. \A i \in 0 .. (n + 1) : next(g, i) = next(f, i)
      BY <3>2
    <3>4. \A i \in 0 .. (n + 1) : g[i] = next(g, i)
      BY <2>3, <3>3
    <3> HIDE DEF next
    <3> QED
      BY <2>3, <3>4
  <2>5. IsLinking(g, l, dag, n + 1)
    BY <2>4 DEF IsLinking
  <2> QED
    BY <2>5
<1> HIDE DEF T
<1>3. Nat \subseteq T
  BY <1>1, <1>2, NatSetInduction
<1> QED
  BY <1>3 DEF T

LEMMA OrderLeadersIs ==
  ASSUME NEW l, NEW st, NEW n \in Nat, n = (l.round - st.lastCommittedRound - 1) \div 2
  PROVE  \E f : IsLinking(f, l, st.dag, n) /\ OrderLeaders(l, st) = f[n]
<1> DEFINE f == CHOOSE g : g = [i \in 0 .. n |->
                    IF i = 0 THEN <<l>> ELSE Extend(g[i - 1], l.round + 1 - 2 * i, st.dag)]
<1>1. \E g : g = [i \in 0 .. n |->
                    IF i = 0 THEN <<l>> ELSE Extend(g[i - 1], l.round + 1 - 2 * i, st.dag)]
  <2>1. \E g : IsLinking(g, l, st.dag, n)
    BY LinkingExists
  <2> QED
    BY <2>1 DEF IsLinking
<1>2. f = [i \in 0 .. n |->
                    IF i = 0 THEN <<l>> ELSE Extend(f[i - 1], l.round + 1 - 2 * i, st.dag)]
  BY <1>1, Zenon
<1>3. OrderLeaders(l, st) = f[n]
  BY DEF OrderLeaders
<1> HIDE DEF f
<1> QED
  BY <1>2, <1>3 DEF IsLinking

LEMMA OrderLeadersChain ==
  ASSUME NEW D \in SUBSET Certificate, NEW st \in States, st.dag \subseteq D \cup Genesis,
         NEW l \in D, l.round > st.lastCommittedRound
  PROVE  IsChain(OrderLeaders(l, st), D, l, st.lastCommittedRound + 1)
<1> DEFINE n == (l.round - st.lastCommittedRound - 1) \div 2
           lcr == st.lastCommittedRound
<1>1. l.round \in Nat /\ lcr \in Nat
  BY CertificateFacts DEF States
<1>2. n \in Nat /\ 2 * n + lcr + 1 <= l.round
  BY <1>1
<1> HIDE DEF lcr
<1>3. PICK f : IsLinking(f, l, st.dag, n) /\ OrderLeaders(l, st) = f[n]
  BY <1>2, OrderLeadersIs DEF lcr
<1> HIDE DEF n
<1>4. \A i \in 0 .. n :
        f[i] = IF i = 0 THEN <<l>> ELSE Extend(f[i - 1], l.round + 1 - 2 * i, st.dag)
  BY <1>3 DEF IsLinking
<1> DEFINE Done(i) == IsChain(f[i], D, l, l.round - 2 * i)
           T == {i \in Nat : i \in 0 .. n => Done(i)}
<1>5. 0 \in T
  <2>1. f[0] = <<l>> /\ l.round - 2 * 0 = l.round
    BY <1>1, <1>2, <1>4
  <2>2. IsChain(<<l>>, D, l, l.round)
    BY <1>1 DEF IsChain
  <2> QED
    BY <2>1, <2>2
<1>6. ASSUME NEW i \in Nat, i \in T PROVE i + 1 \in T
  <2> SUFFICES ASSUME i + 1 \in 0 .. n PROVE Done(i + 1)
    OBVIOUS
  <2> DEFINE r == l.round + 1 - 2 * (i + 1)
             low == l.round - 2 * i
  <2>1. i \in 0 .. n /\ (i + 1) - 1 = i /\ i + 1 # 0
    BY <1>2
  <2>2. low \in Nat /\ r \in Nat /\ 0 < r /\ r < low /\ l.round - 2 * (i + 1) <= r
        /\ l.round - 2 * (i + 1) \in Int
    BY <1>1, <1>2
  <2>3. IsChain(f[i], D, l, low)
    BY <1>6, <2>1
  <2>4. f[i + 1] = Extend(f[i], r, st.dag)
    BY <1>4, <2>1
  <2> HIDE DEF r, low
  <2>5. IsChain(f[i + 1], D, l, r)
    BY <2>2, <2>3, <2>4, ExtendChain
  <2>6. \A k \in 1 .. Len(f[i + 1]) : f[i + 1][k].round \in Nat
    BY <2>5, ElementOfSeq, CertificateFacts DEF IsChain
  <2>7. \A k \in 1 .. Len(f[i + 1]) : f[i + 1][k].round >= l.round - 2 * (i + 1)
    BY <2>2, <2>5, <2>6 DEF IsChain
  <2> QED
    BY <2>5, <2>7 DEF IsChain
<1> HIDE DEF T
<1>7. Nat \subseteq T
  BY <1>5, <1>6, NatSetInduction
<1>8. IsChain(f[n], D, l, l.round - 2 * n)
  BY <1>2, <1>7 DEF T
<1>9. \A k \in 1 .. Len(f[n]) : f[n][k].round \in Nat
  BY <1>8, ElementOfSeq, CertificateFacts DEF IsChain
<1>10. l.round - 2 * n >= lcr + 1 /\ l.round - 2 * n \in Int
  BY <1>1, <1>2
<1>11. \A k \in 1 .. Len(f[n]) : f[n][k].round >= lcr + 1
  BY <1>1, <1>8, <1>9, <1>10 DEF IsChain
<1> QED
  BY <1>3, <1>8, <1>11 DEF IsChain, lcr

-----------------------------------------------------------------------------
(***************************************************************************)
(* Support, and what it means for later certificates.                      *)
(***************************************************************************)
\* What is reached from a certificate that is reached from x is reached from x.
LEMMA ReachInto ==
  ASSUME NEW P \in Dags, NEW x \in DOMAIN P, NEW q \in DOMAIN P, q.round <= x.round,
         NEW W \in SUBSET Certificate, NEW V \in SUBSET W, q \in Reach(P, x, W)[q.round]
  PROVE  \A k \in 0 .. q.round : Reach(P, q, V)[k] \subseteq Reach(P, x, W)[k]
<1> DEFINE R == Reach(P, x, W)
           Q == Reach(P, q, V)
           n == q.round
<1>1. /\ n \in Nat /\ Q[n] = {q}
      /\ \A r \in 0 .. n : \A y \in Q[r] : y.round = r
      /\ \A r \in 1 .. n : \A y \in Q[r - 1] : y \in V /\ \E c \in Q[r] : y \in P[c]
  BY ReachFacts, SMTT(30)
<1>2. /\ x.round \in Nat
      /\ \A r \in 1 .. x.round : \A y \in R[r] :
            \A p \in P[y] \cap W : p.round + 1 = r => p \in R[r - 1]
  BY ReachFacts
<1>3. q \in R[n]
  OBVIOUS
<1> HIDE DEF R, Q
<1> DEFINE T == {d \in Nat : d \in 0 .. n => Q[n - d] \subseteq R[n - d]}
<1>4. 0 \in T
  <2>1. n - 0 = n
    BY <1>1
  <2> QED
    BY <1>1, <1>3, <2>1
<1>5. ASSUME NEW d \in Nat, d \in T PROVE d + 1 \in T
  <2> SUFFICES ASSUME d + 1 \in 0 .. n, NEW y \in Q[n - (d + 1)] PROVE y \in R[n - (d + 1)]
    OBVIOUS
  <2> DEFINE r == n - d
  <2>1. /\ r \in 1 .. n /\ r \in 1 .. x.round /\ r - 1 = n - (d + 1)
        /\ r - 1 \in 0 .. n /\ (r - 1) + 1 = r
    BY <1>1, <1>2
  <2>2. Q[r] \subseteq R[r]
    BY <1>1, <1>5, <2>1
  <2> HIDE DEF r
  <2>3. PICK c \in Q[r] : y \in P[c] /\ y \in V
    BY <1>1, <2>1
  <2>4. y.round + 1 = r
    BY <1>1, <2>1
  <2> QED
    BY <1>2, <2>1, <2>2, <2>3, <2>4
<1> HIDE DEF T
<1>6. Nat \subseteq T
  BY <1>4, <1>5, NatSetInduction
<1>7. ASSUME NEW k \in 0 .. n PROVE Q[k] \subseteq R[k]
  <2>1. n - k \in Nat /\ n - k \in 0 .. n /\ n - (n - k) = k
    BY <1>1
  <2>2. n - k \in T
    BY <1>6, <2>1
  <2> QED
    BY <2>1, <2>2 DEF T
<1> QED
  BY <1>7 DEF R, Q

\* A larger DAG holds no less support.
LEMMA SupportGrows ==
  ASSUME parents \in Dags, NEW W \in SUBSET DOMAIN parents, NEW V \in SUBSET W,
         NEW l \in Certificate, NEW r \in Nat, l.round <= r
  PROVE  /\ SupportFor(l, r, V) \subseteq SupportFor(l, r, W)
         /\ SupportFor(l, r, W) \in SUBSET Authorities
         /\ EnoughSupport(SupportFor(l, r, V)) => EnoughSupport(SupportFor(l, r, W))
<1>1. DOMAIN parents \subseteq Certificate /\ l.round \in Nat
  BY DagFacts, CertificateFacts
<1>2. ASSUME NEW y \in AtRound(V, r), Linked(y, l, V) PROVE Linked(y, l, W)
  <2>1. y \in DOMAIN parents /\ y.round = r /\ l.round \in 0 .. y.round
    BY <1>1 DEF AtRound
  <2>2. y \in Reach(parents, y, W)[y.round]
    BY <1>1, <2>1, ReachFacts
  <2>3. Reach(parents, y, V)[l.round] \subseteq Reach(parents, y, W)[l.round]
    BY <1>1, <2>1, <2>2, ReachInto
  <2> QED
    BY <1>2, <2>3 DEF Linked
<1>3. SupportFor(l, r, V) \subseteq SupportFor(l, r, W)
  <2> SUFFICES ASSUME NEW a \in SupportFor(l, r, V) PROVE a \in SupportFor(l, r, W)
    OBVIOUS
  <2>1. PICK y \in AtRound(V, r) :
            y.origin = a /\ IF Dynamic THEN Linked(y, l, V) ELSE l \in parents[y]
    BY DEF SupportFor, Origins
  <2>2. y \in AtRound(W, r)
    BY DEF AtRound
  <2>3. IF Dynamic THEN Linked(y, l, W) ELSE l \in parents[y]
    BY <1>2, <2>1
  <2> QED
    BY <2>1, <2>2, <2>3 DEF SupportFor, Origins
<1>4. SupportFor(l, r, W) \in SUBSET Authorities
  BY <1>1, CertificateFacts DEF SupportFor, Origins, AtRound
<1>5. StakeOf(SupportFor(l, r, V)) <= StakeOf(SupportFor(l, r, W))
      /\ StakeOf(SupportFor(l, r, V)) \in Nat /\ StakeOf(SupportFor(l, r, W)) \in Nat
  BY <1>3, <1>4, StakeMonotone
<1>6. QuorumThreshold \in Nat /\ ValidityThreshold \in Nat
  BY StakeType DEF QuorumThreshold, ValidityThreshold
<1>7. EnoughSupport(SupportFor(l, r, V)) => EnoughSupport(SupportFor(l, r, W))
  BY <1>5, <1>6 DEF EnoughSupport, IsQuorum, IsValidity
<1> QED
  BY <1>3, <1>4, <1>7

LEMMA EnoughIsValidity ==
  ASSUME NEW S \in SUBSET Authorities, EnoughSupport(S)
  PROVE  IsValidity(S)
<1>1. StakeOf(S) \in Nat /\ TotalVotes \in Nat
  BY StakeType
<1>2. IsQuorum(S) => IsValidity(S)
  BY <1>1 DEF IsQuorum, IsValidity, QuorumThreshold, ValidityThreshold
<1> QED
  BY <1>2 DEF EnoughSupport

(***************************************************************************)
(* A leader with enough support in its support round is in the history of  *)
(* every certificate above that round: the quorum of parents of such a     *)
(* certificate meets the support.                                          *)
(***************************************************************************)
LEMMA SupportedIsFinal ==
  ASSUME parents \in Dags, NEW l \in DOMAIN parents, NEW x \in DOMAIN parents,
         EnoughSupport(SupportFor(l, l.round + Distance, DOMAIN parents)),
         x.round > l.round + Distance
  PROVE  InHistory(parents, l, x)
<1> DEFINE W == DOMAIN parents
           R == Reach(parents, x, W)
           n == x.round
           s == l.round + Distance
           V == SupportFor(l, s, W)
<1>1. /\ W \in SUBSET Certificate /\ \A y \in W : y.round \in Nat /\ y.origin \in Authorities
      /\ Distance \in {1, 3} /\ s \in Nat /\ l.round <= s /\ l \in Certificate /\ n \in Nat
      /\ s + 1 \in 1 .. n /\ s \in 1 .. n /\ l.round \in 0 .. n /\ l.round \in Nat
  BY DagFacts, CertificateFacts DEF Distance
<1>2. /\ R[n] = {x}
      /\ \A r \in 0 .. n : \A y \in R[r] : y.round = r /\ y \in W
      /\ \A r \in 1 .. n : \A y \in R[r] :
            \A p \in parents[y] \cap W : p.round + 1 = r => p \in R[r - 1]
  <2>1. /\ R[n] = {x}
        /\ \A r \in 0 .. n : \A y \in R[r] : y.round = r /\ (y = x \/ y \in W)
        /\ \A r \in 1 .. n : \A y \in R[r] :
              \A p \in parents[y] \cap W : p.round + 1 = r => p \in R[r - 1]
    BY <1>1, ReachFacts
  <2> HIDE DEF R
  <2> QED
    BY <2>1
<1> HIDE DEF R
<1>3. ASSUME NEW r \in 1 .. n, NEW y \in R[r]
      PROVE  /\ Origins(parents[y]) \in SUBSET Authorities /\ IsQuorum(Origins(parents[y]))
             /\ \A p \in parents[y] : p \in R[r - 1] /\ p.round + 1 = r
  <2>1. y \in W /\ y.round = r /\ y.round # 0 /\ r \in 0 .. n
    BY <1>1, <1>2
  <2>2. /\ parents[y] \subseteq W /\ IsQuorum(Origins(parents[y]))
        /\ \A p \in parents[y] : p.round + 1 = r
    BY <2>1, DagFacts
  <2> QED
    BY <1>1, <1>2, <2>2 DEF Origins
<1> DEFINE T == {d \in Nat : d \in 0 .. n => R[n - d] # {}}
<1>4. 0 \in T
  <2>1. n - 0 = n
    BY <1>1
  <2> QED
    BY <1>2, <2>1
<1>5. ASSUME NEW d \in Nat, d \in T PROVE d + 1 \in T
  <2> SUFFICES ASSUME d + 1 \in 0 .. n PROVE R[n - (d + 1)] # {}
    OBVIOUS
  <2>1. n - d \in 1 .. n /\ d \in 0 .. n /\ (n - d) - 1 = n - (d + 1)
    BY <1>1
  <2>2. PICK y \in R[n - d] : TRUE
    BY <1>5, <2>1
  <2>3. Origins(parents[y]) # {} /\ \A p \in parents[y] : p \in R[(n - d) - 1]
    BY <1>3, <2>1, QuorumNonEmpty
  <2> QED
    BY <2>1, <2>3 DEF Origins
<1> HIDE DEF T
<1>6. Nat \subseteq T
  BY <1>4, <1>5, NatSetInduction
<1>7. PICK y \in R[s + 1] : TRUE
  <2>1. n - (s + 1) \in Nat /\ n - (s + 1) \in 0 .. n /\ n - (n - (s + 1)) = s + 1
    BY <1>1
  <2> QED
    BY <1>6, <2>1 DEF T
<1>8. /\ Origins(parents[y]) \in SUBSET Authorities /\ IsQuorum(Origins(parents[y]))
      /\ \A p \in parents[y] : p \in R[s] /\ p.round = s /\ p \in W
  <2>1. (s + 1) - 1 = s /\ s \in 0 .. n
    BY <1>1
  <2>2. \A p \in parents[y] : p \in R[s]
    BY <1>1, <1>3, <2>1
  <2> QED
    BY <1>1, <1>2, <1>3, <2>1, <2>2
<1>9. V \in SUBSET Authorities /\ IsValidity(V)
  BY <1>1, SupportGrows, EnoughIsValidity
<1>10. PICK a \in Origins(parents[y]) : a \in V
  BY <1>8, <1>9, QuorumMeetsValidity
<1>11. PICK p \in parents[y] : p.origin = a
  BY DEF Origins
<1>12. PICK q \in W : /\ q.round = s /\ q.origin = a
                      /\ IF Dynamic THEN Linked(q, l, W) ELSE l \in parents[q]
  BY <1>10 DEF SupportFor, Origins, AtRound
<1>13. p = q
  BY <1>1, <1>8, <1>11, <1>12, CertificateFacts
<1>14. q \in R[s]
  BY <1>8, <1>13
<1>15. l \in R[l.round]
  <2>1. CASE Dynamic
    <3>1. q.round <= x.round /\ q \in Reach(parents, x, W)[q.round] /\ l.round \in 0 .. q.round
      BY <1>1, <1>12, <1>14 DEF R
    <3>2. Reach(parents, q, W)[l.round] \subseteq Reach(parents, x, W)[l.round]
      BY <1>1, <3>1, ReachInto
    <3> QED
      BY <1>12, <2>1, <3>2 DEF Linked, R
  <2>2. CASE ~Dynamic
    <3>1. l.round + 1 = s /\ s - 1 = l.round /\ l \in parents[q]
      BY <1>1, <1>12, <2>2 DEF Distance
    <3>2. s \in 1 .. n
      BY <1>1
    <3>3. l \in R[s - 1]
      BY <1>3, <1>14, <3>1, <3>2
    <3> QED
      BY <3>1, <3>3
  <2> QED
    BY <2>1, <2>2
<1>16. l.round < x.round
  BY <1>1
<1> QED
  BY <1>15, <1>16 DEF InHistory, R

-----------------------------------------------------------------------------
(***************************************************************************)
(* A certificate is inserted.                                              *)
(***************************************************************************)
LEMMA InsertedFacts ==
  ASSUME state \in States, NEW x \in Certificate
  PROVE  /\ Inserted(x) \in States
         /\ Inserted(x).dag = state.dag \cup {x}
         /\ Inserted(x).lastCommitted = state.lastCommitted
         /\ Inserted(x).lastCommittedRound = state.lastCommittedRound
         /\ Inserted(x).resolvedFallbackRounds = state.resolvedFallbackRounds
BY DEF Inserted, States

\* A new certificate whose parents were received keeps what was received complete.
LEMMA ReceiveComplete ==
  ASSUME parents \in Dags, Complete(delivered, parents), NEW x \in DOMAIN parents \ Genesis,
         parents[x] \subseteq delivered \cup Genesis
  PROVE  Complete(delivered \cup {x}, parents)
<1> DEFINE D == delivered
           E == delivered \cup {x}
<1>1. /\ D \subseteq DOMAIN parents \ Genesis /\ IsFiniteSet(D)
      /\ \A z \in D : parents[z] \subseteq D \cup Genesis
      /\ \A z \in D : \A r \in 1 .. z.round : AtRound(D, r) # {}
  BY DEF Complete
<1>2. IsFiniteSet(E)
  BY <1>1, FS_AddElement
<1>3. x \in Certificate /\ x.round \in Nat /\ x.round # 0
  BY DagFacts, CertificateFacts
<1>4. /\ IsQuorum(Origins(parents[x])) /\ parents[x] \subseteq Certificate
      /\ \A p \in parents[x] : p.round + 1 = x.round
  BY <1>3, DagFacts
<1>5. PICK p \in parents[x] : TRUE
  <2>1. Origins(parents[x]) \in SUBSET Authorities
    BY <1>4, CertificateFacts DEF Origins
  <2>2. Origins(parents[x]) # {}
    BY <1>4, <2>1, QuorumNonEmpty
  <2> QED
    BY <2>2 DEF Origins
<1>6. ASSUME NEW z \in E, NEW r \in 1 .. z.round PROVE AtRound(E, r) # {}
  <2>1. AtRound(D, r) # {} => AtRound(E, r) # {}
    BY DEF AtRound
  <2>2. CASE z \in D
    BY <1>1, <2>1, <2>2
  <2>3. CASE z = x /\ r = x.round
    BY <2>3 DEF AtRound
  <2>4. CASE z = x /\ r # x.round
    <3>1. p.round \in Nat /\ p.round + 1 = x.round /\ p \in Certificate
      BY <1>4, <1>5, CertificateFacts
    <3>2. r \in 1 .. p.round /\ p.round # 0
      BY <1>3, <2>4, <3>1
    <3>3. p \in D
      BY <1>5, <3>2, CertificateFacts
    <3> QED
      BY <1>1, <2>1, <3>2, <3>3
  <2> QED
    BY <2>2, <2>3, <2>4
<1> QED
  BY <1>1, <1>2, <1>6 DEF Complete

\* Nothing that was output depends on a certificate that is received for the first time.
LEMMA ReceiveGood ==
  ASSUME parents \in Dags, Complete(delivered, parents), NEW first \in BOOLEAN,
         Good(state, output, delivered, parents, first),
         NEW x \in DOMAIN parents \ Genesis, x \notin delivered
  PROVE  Good(Inserted(x), output, delivered \cup {x}, parents, first)
<1> DEFINE D == delivered
           E == delivered \cup {x}
           st == Inserted(x)
<1>1. /\ state \in States /\ Highest(state) /\ Holding(state, D) /\ Recorded(state, output, D)
      /\ Lossless(state, output, parents) /\ Overtaken(state, output, first)
      /\ first => Spent(state, output, parents) /\ Causal(output, parents)
  BY DEF Good
<1>2. x \in Certificate
  BY DagFacts
<1>3. /\ st \in States /\ st.dag = state.dag \cup {x}
      /\ st.lastCommitted = state.lastCommitted
      /\ st.lastCommittedRound = state.lastCommittedRound
  BY <1>1, <1>2, InsertedFacts
<1> HIDE DEF st
<1>4. output \in Seq(E) /\ Range(output) \subseteq D
  <2>1. output \in Seq(D)
    BY <1>1 DEF Recorded
  <2> QED
    BY <2>1, RangeMember
<1>5. Highest(st) /\ Lossless(st, output, parents) /\ Overtaken(st, output, first)
  BY <1>1, <1>3 DEF Highest, Lossless, Overtaken
<1>6. Holding(st, E)
  BY <1>1, <1>3 DEF Holding
<1>7. Recorded(st, output, E)
  BY <1>1, <1>3, <1>4 DEF Recorded
<1>8. ASSUME first PROVE Spent(st, output, parents)
  <2>1. x \notin Range(output)
    BY <1>4
  <2>2. \A z \in Range(output) : x \notin parents[z]
    BY <1>4 DEF Complete
  <2> QED
    BY <1>1, <1>3, <1>8, <2>1, <2>2 DEF Spent
<1> QED
  BY <1>1, <1>3, <1>5, <1>6, <1>7, <1>8 DEF Good, st

\* A certificate that is received again may come back to the DAG.
LEMMA ReceiveAgain ==
  ASSUME parents \in Dags, Complete(delivered, parents), NEW first \in BOOLEAN,
         Good(state, output, delivered, parents, first), NEW x \in delivered
  PROVE  Good(Inserted(x), output, delivered, parents, FALSE)
<1> DEFINE D == delivered
           st == Inserted(x)
<1>1. /\ state \in States /\ Highest(state) /\ Holding(state, D) /\ Recorded(state, output, D)
      /\ Lossless(state, output, parents) /\ Overtaken(state, output, first)
  BY DEF Good
<1>2. x \in Certificate /\ x \notin Genesis
  BY DagFacts DEF Complete
<1>3. /\ st \in States /\ st.dag = state.dag \cup {x}
      /\ st.lastCommitted = state.lastCommitted
      /\ st.lastCommittedRound = state.lastCommittedRound
  BY <1>1, <1>2, InsertedFacts
<1> HIDE DEF st
<1>4. /\ Highest(st) /\ Lossless(st, output, parents) /\ Overtaken(st, output, FALSE)
      /\ Recorded(st, output, D)
  BY <1>1, <1>3 DEF Highest, Lossless, Overtaken, Recorded
<1>5. Holding(st, D)
  BY <1>1, <1>2, <1>3 DEF Holding
<1> QED
  BY <1>3, <1>4, <1>5 DEF Good, st

\* Marking a fallback round as resolved.
LEMMA ResolveGood ==
  ASSUME NEW st, NEW out, NEW D, NEW P, NEW first, Good(st, out, D, P, first), NEW r \in Nat
  PROVE  LET u == [st EXCEPT !.resolvedFallbackRounds = @ \cup {r}] IN
         /\ Good(u, out, D, P, first)
         /\ u.lastCommittedRound = st.lastCommittedRound
         /\ u.resolvedFallbackRounds = st.resolvedFallbackRounds \cup {r}
<1> DEFINE u == [st EXCEPT !.resolvedFallbackRounds = @ \cup {r}]
<1>1. st \in States
  BY DEF Good
<1>2. /\ u \in States /\ u.dag = st.dag /\ u.lastCommitted = st.lastCommitted
      /\ u.lastCommittedRound = st.lastCommittedRound
      /\ u.resolvedFallbackRounds = st.resolvedFallbackRounds \cup {r}
  BY <1>1 DEF States
<1> HIDE DEF u
<1>3. Good(u, out, D, P, first)
  BY <1>2 DEF Good, Highest, Holding, Recorded, Lossless, Overtaken, Spent
<1> QED
  BY <1>2, <1>3 DEF u

\* Above the last committed round the DAG holds all that was received.
LEMMA HeldAbove ==
  ASSUME parents \in Dags, NEW D, Complete(D, parents), NEW st \in States, Highest(st),
         Holding(st, D), NEW k \in Nat, k > st.lastCommittedRound
  PROVE  AtRound(st.dag, k) = AtRound(D, k)
<1>1. /\ st.lastCommittedRound \in Nat /\ D \subseteq Certificate
      /\ \A a \in Authorities :
            st.lastCommitted[a] \in Nat /\ st.lastCommitted[a] <= st.lastCommittedRound
  BY DagFacts DEF States, Highest, Complete
<1>2. ASSUME NEW y \in D, y.round = k PROVE y \in st.dag
  <2>1. y.round \in Nat /\ y.origin \in Authorities /\ GcDepth \in Nat
    BY <1>1, CertificateFacts
  <2>2. ~(y.round < st.lastCommitted[y.origin])
    BY <1>1, <1>2, <2>1
  <2>3. ~(y.round + GcDepth < st.lastCommittedRound)
    BY <1>1, <1>2, <2>1
  <2> QED
    BY <2>2, <2>3 DEF Holding
<1>3. ASSUME NEW y \in st.dag, y.round = k PROVE y \in D
  <2>1. y \notin Genesis
    BY <1>1, <1>3, CertificateFacts
  <2> QED
    BY <2>1 DEF Holding
<1> QED
  BY <1>2, <1>3 DEF AtRound

\* What a certificate may decide.
LEMMA DecidedFacts ==
  ASSUME NEW k \in Nat
  PROVE  /\ DecidedRound(k) \in Nat
         /\ DecidedRound(k) > 0 => k = DecidedRound(k) + Distance
<1>1. Dynamic \in BOOLEAN
  BY ParametersAssumption
<1>2. CASE Dynamic
  BY <1>2 DEF DecidedRound, Distance
<1>3. CASE ~Dynamic
  BY <1>3 DEF DecidedRound, Distance
<1> QED
  BY <1>1, <1>2, <1>3

LEMMA CandidateFacts ==
  ASSUME NEW r, NEW dag
  PROVE  \A l \in Candidate(r, dag) : l \in dag /\ l.round = r
<1>1. \A l \in LeaderIn(r, dag) : l \in dag /\ l.round = r
  BY DEF LeaderIn, ElectedIn
<1>2. \A l \in FallbackLeaderIn(r, dag) : l \in dag /\ l.round = r
  BY Zenon DEF FallbackLeaderIn, ElectedIn
<1> QED
  BY <1>1, <1>2 DEF Candidate

-----------------------------------------------------------------------------
(***************************************************************************)
(* One iteration of run().                                                 *)
(***************************************************************************)
\* What NoMissedDecision says of one leader round.
Settled(r, st, D) ==
    r > st.lastCommittedRound =>
        IF Dynamic
        THEN IsQuorum(Origins(AtRound(D, r + 3))) => r \in st.resolvedFallbackRounds
        ELSE \A l \in LeaderIn(r, D) : ~IsValidity(SupportFor(l, r + 1, D))

\* What an iteration leaves, D being what was received.
Handled(x, D, first) ==
    /\ Good(state', output', D, parents, first)
    /\ leaders' \in Seq(DOMAIN parents)
    /\ direct' \subseteq Range(leaders')
    /\ \A l \in direct' : EnoughSupport(SupportFor(l, l.round + Distance, DOMAIN parents))
    /\ state.lastCommittedRound <= state'.lastCommittedRound
    /\ state.resolvedFallbackRounds \subseteq state'.resolvedFallbackRounds
    /\ Settled(DecidedRound(x.round), state', D)

LEMMA WaitHandled ==
  ASSUME parents \in Dags, NEW D, Complete(D, parents), NEW x \in D, NEW first \in BOOLEAN,
         state \in States, Good(Inserted(x), output, D, parents, first), Elected(parents), Wait(x)
  PROVE  Handled(x, D, first)
<1> DEFINE st == Inserted(x)
           r == DecidedRound(x.round)
<1>1. x \in Certificate /\ x.round \in Nat
  BY DagFacts, CertificateFacts DEF Complete
<1>2. /\ st \in States
      /\ st.lastCommittedRound = state.lastCommittedRound
      /\ st.resolvedFallbackRounds = state.resolvedFallbackRounds
  BY <1>1, InsertedFacts
<1>3. /\ state' = st /\ UNCHANGED <<output, leaders, direct>>
      /\ Evaluates(x, st) => ~Dynamic /\ Supported(x, st) = {}
  BY DEF Wait
<1>4. Good(st, output, D, parents, first)
  OBVIOUS
<1> HIDE DEF st
<1>5. st.lastCommittedRound \in Nat /\ Highest(st) /\ Holding(st, D)
  BY <1>2, <1>4 DEF States, Good
<1>6. Settled(r, st, D)
  <2> SUFFICES ASSUME r > st.lastCommittedRound
               PROVE  IF Dynamic
                      THEN IsQuorum(Origins(AtRound(D, r + 3)))
                            => r \in st.resolvedFallbackRounds
                      ELSE \A l \in LeaderIn(r, D) : ~IsValidity(SupportFor(l, r + 1, D))
    BY DEF Settled
  <2>1. r \in Nat /\ x.round = r + Distance /\ Dynamic \in BOOLEAN
    BY <1>1, <1>5, DecidedFacts, ParametersAssumption
  <2> HIDE DEF r
  <2>2. x.round > st.lastCommittedRound
    BY <1>5, <2>1 DEF Distance
  <2>3. AtRound(st.dag, x.round) = AtRound(D, x.round) /\ AtRound(st.dag, r) = AtRound(D, r)
    BY <1>1, <1>2, <1>5, <2>1, <2>2, HeldAbove
  <2>4. CASE Dynamic
    <3>1. x.round = r + 3
      BY <2>1, <2>4 DEF Distance
    <3>2. r \in st.resolvedFallbackRounds \/ ~IsQuorum(Origins(AtRound(st.dag, x.round)))
      BY <1>3, <2>4 DEF Evaluates, r
    <3> QED
      BY <2>3, <2>4, <3>1, <3>2
  <2>5. CASE ~Dynamic
    <3>1. x.round = r + 1
      BY <2>1, <2>5 DEF Distance
    <3>2. Supported(x, st) = {}
      BY <1>3, <2>5 DEF Evaluates, r
    <3>3. ASSUME NEW l \in LeaderIn(r, D) PROVE ~IsValidity(SupportFor(l, r + 1, D))
      <4>1. l \in AtRound(D, r) /\ l.round = r /\ l.origin = Leader(r)
        BY DEF LeaderIn, ElectedIn, AtRound
      <4>2. l \in st.dag
        BY <2>3, <4>1 DEF AtRound
      <4>3. l \in Candidate(r, st.dag)
        BY <2>5, <4>1, <4>2 DEF Candidate, LeaderIn, ElectedIn
      <4>4. ~EnoughSupport(SupportFor(l, x.round, st.dag))
        BY <3>2, <4>3 DEF Supported, r
      <4>5. SupportFor(l, x.round, st.dag) = SupportFor(l, r + 1, D)
        BY <2>3, <2>5, <3>1 DEF SupportFor
      <4> QED
        BY <2>5, <4>4, <4>5 DEF EnoughSupport
    <3> QED
      BY <2>5, <3>3
  <2> QED
    BY <2>1, <2>4, <2>5
<1> QED
  BY <1>2, <1>3, <1>4, <1>5, <1>6 DEF Handled, Elected

LEMMA SkipHandled ==
  ASSUME parents \in Dags, NEW D, Complete(D, parents), NEW x \in D, NEW first \in BOOLEAN,
         state \in States, Good(Inserted(x), output, D, parents, first), Elected(parents),
         SkipFallback(x)
  PROVE  Handled(x, D, first)
<1> DEFINE st == Inserted(x)
           r == DecidedRound(x.round)
           u == [st EXCEPT !.resolvedFallbackRounds = @ \cup {r}]
<1>1. x \in Certificate /\ x.round \in Nat
  BY DagFacts, CertificateFacts DEF Complete
<1>2. /\ st.lastCommittedRound = state.lastCommittedRound
      /\ st.resolvedFallbackRounds = state.resolvedFallbackRounds
      /\ st.lastCommittedRound \in Nat
  BY <1>1, InsertedFacts DEF States
<1>3. Dynamic /\ state' = u /\ UNCHANGED <<output, leaders, direct>>
  BY DEF SkipFallback
<1>4. r \in Nat
  BY <1>1, DecidedFacts
<1>5. /\ Good(u, output, D, parents, first)
      /\ u.lastCommittedRound = st.lastCommittedRound
      /\ u.resolvedFallbackRounds = st.resolvedFallbackRounds \cup {r}
  <2>1. Good(st, output, D, parents, first)
    OBVIOUS
  <2> HIDE DEF st, r
  <2> QED
    BY <1>4, <2>1, ResolveGood
<1> HIDE DEF u, st
<1>6. Settled(r, u, D)
  BY <1>3, <1>5 DEF Settled
<1> QED
  BY <1>2, <1>3, <1>5, <1>6 DEF Handled, Elected

LEMMA CommitHandled ==
  ASSUME parents \in Dags, NEW D, Complete(D, parents), NEW x \in D, NEW first \in BOOLEAN,
         state \in States, Good(Inserted(x), output, D, parents, first), Elected(parents),
         CommitLeader(x)
  PROVE  Handled(x, D, first)
<1> DEFINE st == Inserted(x)
           r == DecidedRound(x.round)
<1>1. /\ x \in Certificate /\ x.round \in Nat /\ D \in SUBSET Certificate
      /\ D \subseteq DOMAIN parents
  BY DagFacts, CertificateFacts DEF Complete
<1>2. /\ st \in States /\ st.lastCommittedRound \in Nat
      /\ st.lastCommittedRound = state.lastCommittedRound
      /\ st.resolvedFallbackRounds = state.resolvedFallbackRounds
  BY <1>1, InsertedFacts DEF States
<1>3. /\ Evaluates(x, st)
      /\ \E l \in Supported(x, st) :
            /\ state' = IF Dynamic
                        THEN [CommitAll(st, LeadersToCommit(l, st)).st EXCEPT
                                !.resolvedFallbackRounds = @ \cup {l.round}]
                        ELSE CommitAll(st, LeadersToCommit(l, st)).st
            /\ output' = output \o CommitAll(st, LeadersToCommit(l, st)).sequence
            /\ leaders' = leaders \o LeadersToCommit(l, st)
            /\ direct' = direct \cup {l}
  BY DEF CommitLeader
<1>4. Good(st, output, D, parents, first)
  OBVIOUS
<1> HIDE DEF st
<1>5. PICK l \in Supported(x, st) :
            /\ state' = IF Dynamic
                        THEN [CommitAll(st, LeadersToCommit(l, st)).st EXCEPT
                                !.resolvedFallbackRounds = @ \cup {l.round}]
                        ELSE CommitAll(st, LeadersToCommit(l, st)).st
            /\ output' = output \o CommitAll(st, LeadersToCommit(l, st)).sequence
            /\ leaders' = leaders \o LeadersToCommit(l, st)
            /\ direct' = direct \cup {l}
  BY <1>3
<1> DEFINE chain == LeadersToCommit(l, st)
           done == CommitAll(st, chain)
<1>6. r > st.lastCommittedRound /\ r \in Nat /\ x.round = r + Distance
  <2>1. r > st.lastCommittedRound
    BY <1>3 DEF Evaluates
  <2> QED
    BY <1>1, <1>2, <2>1, DecidedFacts
<1>7. /\ l \in st.dag /\ l.round = r
      /\ EnoughSupport(SupportFor(l, x.round, st.dag))
  BY CandidateFacts DEF Supported
<1> HIDE DEF r
<1>8. Holding(st, D) /\ st.dag \subseteq D \cup Genesis
  BY <1>4 DEF Good, Holding
<1>9. l \in D /\ l \in Certificate
  BY <1>1, <1>2, <1>6, <1>7, <1>8, CertificateFacts
<1>10. IsChain(chain, D, l, st.lastCommittedRound + 1)
  <2>1. CASE Dynamic
    <3>1. chain = <<l>>
      BY <2>1 DEF LeadersToCommit
    <3> HIDE DEF chain
    <3> QED
      BY <1>2, <1>6, <1>7, <1>9, <3>1 DEF IsChain
  <2>2. CASE ~Dynamic
    <3>1. chain = OrderLeaders(l, st)
      BY <2>2 DEF LeadersToCommit
    <3> HIDE DEF chain
    <3> QED
      BY <1>1, <1>2, <1>6, <1>7, <1>8, <1>9, <3>1, OrderLeadersChain
  <2> QED
    BY <2>1, <2>2
<1>11. /\ state' = IF Dynamic THEN [done.st EXCEPT !.resolvedFallbackRounds = @ \cup {l.round}]
                   ELSE done.st
       /\ output' = output \o done.sequence
       /\ leaders' = leaders \o chain
       /\ direct' = direct \cup {l}
  BY <1>5
<1> HIDE DEF done, chain
<1>12. /\ chain \in Seq(D) /\ Len(chain) \in Nat /\ Len(chain) > 0 /\ chain # <<>>
       /\ chain[Len(chain)] = l /\ l \in Range(chain)
       /\ Climbing(chain, st.lastCommittedRound)
  <2>1. /\ chain \in Seq(D) /\ Len(chain) > 0 /\ chain[Len(chain)] = l
        /\ \A i \in 1 .. Len(chain) : chain[i].round >= st.lastCommittedRound + 1
        /\ \A i, j \in 1 .. Len(chain) : i < j => chain[i].round < chain[j].round
    BY <1>10 DEF IsChain
  <2>2. Len(chain) \in Nat /\ chain # <<>> /\ \A i \in 1 .. Len(chain) : chain[i].round \in Nat
    BY <1>1, <2>1, LenProperties, EmptySeq, ElementOfSeq, CertificateFacts
  <2>3. \A i \in 1 .. Len(chain) : chain[i].round > st.lastCommittedRound
    BY <1>2, <2>1, <2>2
  <2>4. l \in Range(chain)
    <3>1. Len(chain) \in 1 .. Len(chain)
      BY <2>1, <2>2
    <3> QED
      BY <2>1, <3>1, RangeMember
  <2> QED
    BY <2>1, <2>2, <2>3, <2>4 DEF Climbing
<1>13. /\ Good(done.st, output \o done.sequence, D, parents, first)
       /\ done.st.lastCommittedRound = l.round
       /\ done.st.resolvedFallbackRounds = st.resolvedFallbackRounds
  <2>1. /\ Good(CommitAll(st, chain).st, output \o CommitAll(st, chain).sequence, D, parents, first)
        /\ CommitAll(st, chain).st.lastCommittedRound = chain[Len(chain)].round
        /\ CommitAll(st, chain).st.resolvedFallbackRounds = st.resolvedFallbackRounds
    BY <1>4, <1>12, CommitAllGood
  <2> QED
    BY <1>12, <2>1 DEF done
<1>14. /\ Good(state', output', D, parents, first)
       /\ state'.lastCommittedRound = l.round
       /\ st.resolvedFallbackRounds \subseteq state'.resolvedFallbackRounds
  <2>1. CASE Dynamic
    <3> DEFINE u == [done.st EXCEPT !.resolvedFallbackRounds = @ \cup {l.round}]
    <3>1. /\ Good(u, output \o done.sequence, D, parents, first)
          /\ u.lastCommittedRound = done.st.lastCommittedRound
          /\ u.resolvedFallbackRounds = done.st.resolvedFallbackRounds \cup {l.round}
      BY <1>6, <1>7, <1>13, ResolveGood
    <3>2. state' = u
      BY <1>11, <2>1
    <3> HIDE DEF u
    <3> QED
      BY <1>11, <1>13, <3>1, <3>2
  <2>2. CASE ~Dynamic
    BY <1>11, <1>13, <2>2
  <2> QED
    BY <2>1, <2>2
<1>15. /\ leaders' \in Seq(DOMAIN parents)
       /\ direct' \subseteq Range(leaders')
  <2>1. leaders \in Seq(DOMAIN parents) /\ direct \subseteq Range(leaders)
    BY DEF Elected
  <2>2. chain \in Seq(DOMAIN parents)
    BY <1>1, <1>12
  <2>3. leaders' \in Seq(DOMAIN parents) /\ Range(leaders') = Range(leaders) \cup Range(chain)
    BY <1>11, <2>1, <2>2, ConcatProperties, RangeConcatenation
  <2> QED
    BY <1>11, <1>12, <2>1, <2>3
<1>16. \A k \in direct' : EnoughSupport(SupportFor(k, k.round + Distance, DOMAIN parents))
  <2>1. st.dag \subseteq DOMAIN parents
    BY <1>1, <1>8, DagFacts
  <2>2. l.round <= x.round
    BY <1>6, <1>7 DEF Distance
  <2>3. EnoughSupport(SupportFor(l, x.round, DOMAIN parents))
    BY <1>1, <1>7, <1>9, <2>1, <2>2, SupportGrows
  <2>4. x.round = l.round + Distance
    BY <1>6, <1>7
  <2> QED
    BY <1>11, <2>3, <2>4 DEF Elected
<1>17. Settled(r, state', D)
  <2>1. ~(r > state'.lastCommittedRound)
    BY <1>6, <1>7, <1>14
  <2> QED
    BY <2>1 DEF Settled
<1>18. state.lastCommittedRound <= state'.lastCommittedRound
  BY <1>2, <1>6, <1>7, <1>14
<1> QED
  BY <1>2, <1>14, <1>15, <1>16, <1>17, <1>18 DEF Handled, r

LEMMA HandleHandled ==
  ASSUME parents \in Dags, NEW D, Complete(D, parents), NEW x \in D, NEW first \in BOOLEAN,
         state \in States, Good(Inserted(x), output, D, parents, first), Elected(parents),
         Handle(x)
  PROVE  Handled(x, D, first)
BY WaitHandled, SkipHandled, CommitHandled DEF Handle

\* A certificate settles the round it may decide and unsettles no other: the support of a
\* leader that is received after it was counted for nothing.
LEMMA SettledStep ==
  ASSUME parents \in Dags, NEW D, Complete(D, parents), NEW x \in DOMAIN parents \ Genesis,
         NEW st \in States, NEW u \in States,
         st.lastCommittedRound <= u.lastCommittedRound,
         st.resolvedFallbackRounds \subseteq u.resolvedFallbackRounds,
         \A z \in D : Settled(DecidedRound(z.round), st, D),
         Settled(DecidedRound(x.round), u, D \cup {x})
  PROVE  \A z \in D \cup {x} : Settled(DecidedRound(z.round), u, D \cup {x})
<1> DEFINE E == D \cup {x}
<1> SUFFICES ASSUME NEW z \in E, DecidedRound(z.round) > u.lastCommittedRound
             PROVE  Settled(DecidedRound(z.round), u, E)
  BY DEF Settled
<1> DEFINE r == DecidedRound(z.round)
<1>1. /\ E \subseteq Certificate /\ x.round \in Nat /\ z.round \in Nat
      /\ st.lastCommittedRound \in Nat /\ u.lastCommittedRound \in Nat
  BY DagFacts, CertificateFacts DEF Complete, States
<1>2. r \in Nat /\ z.round = r + Distance /\ r > st.lastCommittedRound
  BY <1>1, DecidedFacts
<1>3. CASE x.round = z.round
  BY <1>3
<1>4. ASSUME x.round # z.round PROVE Settled(r, u, E)
  <2>1. z \in D /\ Settled(r, st, D)
    BY <1>4
  <2> HIDE DEF r
  <2>2. AtRound(E, r + Distance) = AtRound(D, r + Distance)
    BY <1>2, <1>4 DEF AtRound
  <2>3. CASE Dynamic
    BY <1>2, <2>1, <2>2, <2>3 DEF Settled, Distance
  <2>4. CASE ~Dynamic
    <3>1. ASSUME NEW l \in LeaderIn(r, E) PROVE ~IsValidity(SupportFor(l, r + 1, E))
      <4>1. AtRound(E, r + 1) = AtRound(D, r + 1)
        BY <2>2, <2>4 DEF Distance
      <4>2. SupportFor(l, r + 1, E) = SupportFor(l, r + 1, D)
        BY <2>4, <4>1 DEF SupportFor
      <4>3. CASE l \in D
        <5>1. l \in LeaderIn(r, D)
          BY <4>3 DEF LeaderIn, ElectedIn
        <5> QED
          BY <1>2, <2>1, <2>4, <4>2, <5>1 DEF Settled
      <4>4. CASE l \notin D
        <5>1. l = x
          BY <4>4 DEF LeaderIn, ElectedIn
        <5>2. \A y \in D : x \notin parents[y]
          BY <4>4, <5>1 DEF Complete
        <5>3. SupportFor(x, r + 1, D) = {}
          BY <2>4, <5>2 DEF SupportFor, AtRound, Origins
        <5>4. IsQuorum(Origins(parents[x])) /\ Origins(parents[x]) \in SUBSET Authorities
          <6>1. x.round # 0
            BY <1>1, CertificateFacts
          <6>2. parents[x] \subseteq Certificate /\ IsQuorum(Origins(parents[x]))
            BY <6>1, DagFacts
          <6> QED
            BY <6>2, CertificateFacts DEF Origins
        <5>5. ~IsValidity({})
          BY <5>4, QuorumMeetsValidity
        <5> QED
          BY <4>2, <5>1, <5>3, <5>5
      <4> QED
        BY <4>3, <4>4
    <3> QED
      BY <2>4, <3>1 DEF Settled
  <2> QED
    BY <2>3, <2>4
<1> QED
  BY <1>3, <1>4

LEMMA SettledIs ==
  NoMissedDecision <=> \A z \in delivered : Settled(DecidedRound(z.round), state, delivered)
BY DEF NoMissedDecision, Settled

-----------------------------------------------------------------------------
(***************************************************************************)
(* The invariant.                                                          *)
(***************************************************************************)
LEMMA InitIInv == Init => IInv
<1> SUFFICES ASSUME Init PROVE IInv
  OBVIOUS
<1>1. /\ parents \in Dags /\ delivered = {} /\ redeliveries = 0 /\ state = NewState
      /\ output = <<>> /\ leaders = <<>> /\ direct = {}
  BY DEF Init
<1>2. /\ state.dag = Genesis /\ state.lastCommitted = [a \in Authorities |-> 0]
      /\ state.lastCommittedRound = 0 /\ state \in States
  BY <1>1, CertificateFacts DEF NewState, States
<1>3. Complete(delivered, parents)
  BY <1>1, FS_EmptySet DEF Complete
<1>4. 0 \in Authorities
  BY NAssumption DEF Authorities
<1>5. Highest(state)
  BY <1>2, <1>4 DEF Highest
<1>6. Holding(state, delivered)
  BY <1>1, <1>2, CertificateFacts DEF Holding
<1>7. output \in Seq(delivered) /\ Range(output) = {} /\ DOMAIN output = {}
  BY <1>1, EmptyRange
<1>8. Recorded(state, output, delivered)
  BY <1>2, <1>7 DEF Recorded
<1>9. /\ Lossless(state, output, parents) /\ Overtaken(state, output, redeliveries = 0)
      /\ Spent(state, output, parents) /\ Causal(output, parents)
  BY <1>7 DEF Lossless, Overtaken, Spent, Causal
<1>10. Good(state, output, delivered, parents, redeliveries = 0)
  BY <1>2, <1>5, <1>6, <1>8, <1>9 DEF Good
<1>11. Elected(parents)
  BY <1>1 DEF Elected
<1>12. NoMissedDecision
  BY <1>1 DEF NoMissedDecision
<1> QED
  BY <1>1, <1>3, <1>10, <1>11, <1>12, ParametersAssumption DEF IInv

\* What Handled says is the rest of the invariant, the DAG being the same.
LEMMA HandledIInv ==
  ASSUME IInv, NEW x \in DOMAIN parents \ Genesis, parents' = parents,
         delivered' = delivered \cup {x}, redeliveries' \in 0 .. MaxRedeliveries,
         Complete(delivered \cup {x}, parents),
         Handled(x, delivered \cup {x}, redeliveries' = 0)
  PROVE  IInv'
<1> DEFINE E == delivered \cup {x}
<1>1. /\ parents \in Dags /\ Complete(delivered, parents)
      /\ \A z \in delivered : Settled(DecidedRound(z.round), state, delivered)
      /\ state \in States
  BY SettledIs DEF IInv, Good
<1>2. /\ Good(state', output', E, parents, redeliveries' = 0)
      /\ leaders' \in Seq(DOMAIN parents) /\ direct' \subseteq Range(leaders')
      /\ \A l \in direct' : EnoughSupport(SupportFor(l, l.round + Distance, DOMAIN parents))
      /\ state.lastCommittedRound <= state'.lastCommittedRound
      /\ state.resolvedFallbackRounds \subseteq state'.resolvedFallbackRounds
      /\ Settled(DecidedRound(x.round), state', E)
  BY DEF Handled
<1>3. state' \in States
  BY <1>2 DEF Good
<1>4. \A z \in E : Settled(DecidedRound(z.round), state', E)
  BY <1>1, <1>2, <1>3, SettledStep
<1>5. NoMissedDecision'
  <2>1. (\A z \in delivered : Settled(DecidedRound(z.round), state, delivered))'
    BY <1>4 DEF Settled, SupportFor, Linked
  <2> QED
    BY <2>1, SettledIs, PTL
<1>6. Elected(parents)'
  BY <1>2 DEF Elected, SupportFor, Linked
<1>7. Good(state, output, delivered, parents, redeliveries = 0)'
  BY <1>2 
<1>8. Complete(delivered, parents)'
  BY DEF Complete
<1> QED
  BY <1>1, <1>5, <1>6, <1>7, <1>8 DEF IInv

LEMMA DeliverStep ==
  ASSUME IInv, NEW x \in DOMAIN parents \ Genesis, Deliver(x)
  PROVE  IInv'
<1>1. /\ x \notin delivered /\ parents[x] \subseteq delivered \cup Genesis /\ Handle(x)
      /\ delivered' = delivered \cup {x} /\ parents' = parents /\ redeliveries' = redeliveries
  BY DEF Deliver
<1>2. /\ parents \in Dags /\ Complete(delivered, parents) /\ state \in States
      /\ Good(state, output, delivered, parents, redeliveries = 0) /\ Elected(parents)
      /\ redeliveries \in 0 .. MaxRedeliveries
  BY DEF IInv, Good
<1>3. Complete(delivered \cup {x}, parents)
  BY <1>1, <1>2, ReceiveComplete
<1> DEFINE first == redeliveries = 0
<1>4. first \in BOOLEAN /\ Good(state, output, delivered, parents, first)
  BY <1>2
<1> HIDE DEF first
<1>5. Good(Inserted(x), output, delivered \cup {x}, parents, first)
  BY <1>1, <1>2, <1>4, ReceiveGood
<1>6. Handled(x, delivered \cup {x}, first)
  BY <1>1, <1>2, <1>3, <1>4, <1>5, HandleHandled
<1>7. Handled(x, delivered \cup {x}, redeliveries' = 0)
  BY <1>1, <1>6 DEF first
<1> QED
  BY <1>1, <1>2, <1>3, <1>7, HandledIInv

LEMMA RedeliverStep ==
  ASSUME IInv, NEW x \in DOMAIN parents \ Genesis, Redeliver(x)
  PROVE  IInv'
<1>1. /\ x \in delivered /\ redeliveries < MaxRedeliveries /\ Handle(x)
      /\ redeliveries' = redeliveries + 1 /\ parents' = parents /\ delivered' = delivered
  BY DEF Redeliver
<1>2. /\ parents \in Dags /\ Complete(delivered, parents) /\ state \in States
      /\ Good(state, output, delivered, parents, redeliveries = 0) /\ Elected(parents)
      /\ redeliveries \in 0 .. MaxRedeliveries
  BY DEF IInv, Good
<1>3. delivered \cup {x} = delivered
  BY <1>1
<1> DEFINE first == redeliveries = 0
<1>4. first \in BOOLEAN /\ Good(state, output, delivered, parents, first)
  BY <1>2
<1> HIDE DEF first
<1>5. Good(Inserted(x), output, delivered, parents, FALSE)
  BY <1>1, <1>2, <1>4, ReceiveAgain
<1>6. Handled(x, delivered, FALSE)
  BY <1>1, <1>2, <1>5, HandleHandled
<1>7. (redeliveries' = 0) = FALSE /\ redeliveries' \in 0 .. MaxRedeliveries
  BY <1>1, <1>2, ParametersAssumption
<1>8. Handled(x, delivered \cup {x}, redeliveries' = 0)
  BY <1>3, <1>6, <1>7
<1> QED
  BY <1>1, <1>2, <1>3, <1>7, <1>8, HandledIInv

LEMMA StutterStep ==
  ASSUME IInv, UNCHANGED vars
  PROVE  IInv'
<1>1. /\ parents' = parents /\ delivered' = delivered /\ redeliveries' = redeliveries
      /\ state' = state /\ output' = output /\ leaders' = leaders /\ direct' = direct
  BY DEF vars
<1>2. NoMissedDecision'
  BY <1>1 DEF IInv, NoMissedDecision, SupportFor, Linked
<1>3. Elected(parents)'
  BY <1>1 DEF IInv, Elected, SupportFor, Linked
<1> QED
  BY <1>1, <1>2, <1>3 DEF IInv

(***************************************************************************)
(* The invariant holds in every behaviour of the consensus task: for every *)
(* committee, every certified DAG, every order in which the primary hands  *)
(* certificates over, first or again, and in both modes of run().          *)
(***************************************************************************)
THEOREM ConsensusInvariant == Spec => []IInv
<1>1. IInv /\ [Next]_vars => IInv'
  <2> SUFFICES ASSUME IInv, [Next]_vars PROVE IInv'
    OBVIOUS
  <2>1. ASSUME NEW x \in DOMAIN parents \ Genesis, Deliver(x) PROVE IInv'
    BY <2>1, DeliverStep
  <2>2. ASSUME NEW x \in DOMAIN parents \ Genesis, Redeliver(x) PROVE IInv'
    BY <2>2, RedeliverStep
  <2>3. CASE UNCHANGED vars
    BY <2>3, StutterStep
  <2> QED
    BY <2>1, <2>2, <2>3 DEF Next
<1> QED
  BY <1>1, InitIInv, PTL DEF Spec

-----------------------------------------------------------------------------
(***************************************************************************)
(* The types of struct State, its last committed round being the highest   *)
(* of the last committed rounds, as update recomputes it.                  *)
(***************************************************************************)
THEOREM ConsensusTypeCorrect == Spec => []TypeOK
<1>1. IInv => TypeOK
  <2> SUFFICES ASSUME IInv PROVE TypeOK
    OBVIOUS
  <2>1. /\ parents \in Dags /\ Complete(delivered, parents) /\ state \in States
        /\ Highest(state) /\ Holding(state, delivered) /\ output \in Seq(delivered)
        /\ redeliveries \in 0 .. MaxRedeliveries /\ Elected(parents)
    BY DEF IInv, Good, Recorded
  <2>2. /\ DOMAIN parents \subseteq Certificate /\ Genesis \subseteq DOMAIN parents
        /\ delivered \subseteq DOMAIN parents \ Genesis
    BY <2>1, DagFacts DEF Complete
  <2>3. state.dag \subseteq DOMAIN parents /\ output \in Seq(DOMAIN parents)
    BY <2>1, <2>2 DEF Holding
  <2> DEFINE S == {state.lastCommitted[a] : a \in Authorities}
             lcr == state.lastCommittedRound
  <2>4. /\ state.lastCommitted \in [Authorities -> Nat] /\ lcr \in Nat
        /\ state.resolvedFallbackRounds \subseteq Nat
    BY <2>1 DEF States
  <2>5. S \in SUBSET Nat /\ lcr \in S /\ \A s \in S : s <= lcr
    BY <2>1, <2>4 DEF Highest
  <2> HIDE DEF S, lcr
  <2>6. Max(S) \in S /\ \A s \in S : s <= Max(S)
    BY <2>4, <2>5, MaxFacts
  <2>7. lcr = Max(S)
    <3> DEFINE m == Max(S)
    <3>1. m \in Nat /\ m <= lcr /\ lcr <= m
      BY <2>5, <2>6
    <3> HIDE DEF m
    <3>2. lcr = m
      BY <2>4, <3>1
    <3> QED
      BY <3>2 DEF m
  <2>8. leaders \in Seq(DOMAIN parents) /\ direct \subseteq Range(leaders)
    BY <2>1 DEF Elected
  <2> QED
    BY <2>1, <2>2, <2>3, <2>4, <2>7, <2>8 DEF TypeOK, S, lcr
<1> QED
  BY <1>1, ConsensusInvariant, PTL

(***************************************************************************)
(* The last committed certificate of an author is never output again, and  *)
(* nothing is repeated as long as the primary repeats nothing: what        *)
(* order_dag skips and update removes is enough.                           *)
(***************************************************************************)
THEOREM ConsensusRepeatsOvertaken == Spec => []RepeatsAreOvertaken
<1>1. IInv => RepeatsAreOvertaken
  <2> SUFFICES ASSUME IInv PROVE RepeatsAreOvertaken
    OBVIOUS
  <2>1. Overtaken(state, output, redeliveries = 0) /\ redeliveries \in 0 .. MaxRedeliveries
    BY DEF IInv, Good
  <2>2. ~(redeliveries = 0) => redeliveries > 0
    BY <2>1, ParametersAssumption
  <2> QED
    BY <2>1, <2>2 DEF Overtaken, RepeatsAreOvertaken
<1> QED
  BY <1>1, ConsensusInvariant, PTL

(***************************************************************************)
(* Without a second copy of any certificate, no certificate is output      *)
(* twice: the claim of the comment on State::last_committed, under the     *)
(* condition that makes it true.                                           *)
(***************************************************************************)
THEOREM ConsensusCommitsOnce == Spec => [](redeliveries = 0 => IsInjective(output))
<1>1. IInv => (redeliveries = 0 => IsInjective(output))
  <2> SUFFICES ASSUME IInv, redeliveries = 0 PROVE IsInjective(output)
    OBVIOUS
  <2>1. Overtaken(state, output, TRUE)
    BY DEF IInv, Good, Overtaken
  <2>2. \A i, j \in DOMAIN output : output[i] = output[j] => i = j
    BY <2>1 DEF Overtaken
  <2> QED
    BY <2>2 DEF IsInjective
<1> QED
  BY <1>1, ConsensusInvariant, PTL

(***************************************************************************)
(* The output is a causal order across the sorted histories of all the     *)
(* leaders, not only within one.                                           *)
(***************************************************************************)
THEOREM ConsensusOutputsParentsFirst == Spec => []ParentsFirst
<1>1. IInv => ParentsFirst
  BY DEF IInv, Good, Causal, ParentsFirst
<1> QED
  BY <1>1, ConsensusInvariant, PTL

(***************************************************************************)
(* The walk of linked() never misses a round ("We should have the whole    *)
(* history by now"): clean-up takes nothing above the last committed round *)
(* and what was received has no gap.                                       *)
(***************************************************************************)
THEOREM ConsensusHasWholeHistory == Spec => []WholeHistory
<1>1. IInv => WholeHistory
  <2> SUFFICES ASSUME IInv, NEW x \in state.dag,
                      NEW r \in (state.lastCommittedRound + 1) .. (x.round - 1)
               PROVE  AtRound(state.dag, r) # {}
    BY DEF WholeHistory
  <2>1. /\ parents \in Dags /\ Complete(delivered, parents) /\ state \in States
        /\ Highest(state) /\ Holding(state, delivered)
    BY DEF IInv, Good
  <2>2. /\ state.lastCommittedRound \in Nat /\ x \in Certificate /\ x.round \in Nat
        /\ x \in delivered \cup Genesis
    BY <2>1, CertificateFacts DEF States, Holding
  <2>3. r \in Nat /\ r > state.lastCommittedRound /\ r \in 1 .. x.round /\ x.round # 0
    BY <2>2
  <2>4. x \in delivered
    BY <2>2, <2>3, CertificateFacts
  <2>5. AtRound(delivered, r) # {}
    BY <2>1, <2>3, <2>4 DEF Complete
  <2>6. AtRound(state.dag, r) = AtRound(delivered, r)
    BY <2>1, <2>3, HeldAbove
  <2> QED
    BY <2>5, <2>6
<1> QED
  BY <1>1, ConsensusInvariant, PTL

(***************************************************************************)
(* What a validator committed on f+1 (normal mode) or 2f+1 (dynamic mode)  *)
(* of support no validator can pass over: every certificate that may       *)
(* commit a later leader has it in its history.                            *)
(***************************************************************************)
THEOREM ConsensusDirectCommitFinal == Spec => []DirectCommitIsFinal
<1>1. IInv => DirectCommitIsFinal
  <2> SUFFICES ASSUME IInv, NEW l \in direct, NEW x \in DOMAIN parents,
                      x.round >= l.round + (IF Dynamic THEN 4 ELSE 2)
               PROVE  InHistory(parents, l, x)
    BY DEF DirectCommitIsFinal
  <2>1. /\ parents \in Dags /\ leaders \in Seq(DOMAIN parents) /\ direct \subseteq Range(leaders)
        /\ EnoughSupport(SupportFor(l, l.round + Distance, DOMAIN parents))
    BY DEF IInv, Elected
  <2>2. l \in DOMAIN parents
    BY <2>1, RangeMember
  <2>3. l.round \in Nat /\ x.round \in Nat /\ Dynamic \in BOOLEAN
    BY <2>1, <2>2, DagFacts, CertificateFacts, ParametersAssumption
  <2>4. x.round > l.round + Distance
    BY <2>3 DEF Distance
  <2> QED
    BY <2>1, <2>2, <2>4, SupportedIsFinal
<1> QED
  BY <1>1, ConsensusInvariant, PTL

(***************************************************************************)
(* No leader is left undecided once its support has arrived, in whatever   *)
(* order run() received the leader and its support.                        *)
(***************************************************************************)
THEOREM ConsensusMissesNoDecision == Spec => []NoMissedDecision
<1>1. IInv => NoMissedDecision
  BY DEF IInv
<1> QED
  BY <1>1, ConsensusInvariant, PTL

(***************************************************************************)
(* A parent of what was output is missing from the output only where       *)
(* update cleaned up.                                                      *)
(***************************************************************************)
THEOREM ConsensusLosesOnlyBehindCleanup == Spec => []LossOnlyBehindCleanup
<1>1. IInv => LossOnlyBehindCleanup
  BY DEF IInv, Good, Lossless, LossOnlyBehindCleanup, Committed
<1> QED
  BY <1>1, ConsensusInvariant, PTL
=============================================================================
