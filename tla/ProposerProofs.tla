--------------------------- MODULE ProposerProofs ---------------------------
(***************************************************************************)
(* Proofs about Proposer for every committee, every schedule of the        *)
(* adversary and every number of rounds and digests.                       *)
(*                                                                         *)
(* The proposer tests its parents only for being there.  That they are a   *)
(* quorum follows from what it was given: nothing of a round above the one *)
(* it is in, and nothing of its own round while it holds no parents, so    *)
(* what makes the parents non-empty is the first message of a round.  That *)
(* its answer about the leader is about the round it is in follows from    *)
(* what last_leader can be when the proposer enters an odd round.          *)
(***************************************************************************)
EXTENDS Proposer, SharedLemmas

Certificates(R) == [round : R, author : Authorities, votes : BOOLEAN]

Headers ==
    [round   : Rounds,
     parents : SUBSET Certificates(0 .. MaxRound),
     payload : SUBSET (1 .. MaxDigests),
     timeout : BOOLEAN]

Types ==
    /\ round \in 0 .. MaxRound
    /\ parents \subseteq Certificates({round})
    /\ leader \in 0 .. MaxRound
    /\ digests \in Seq(1 .. MaxDigests)
    /\ advance \in BOOLEAN /\ expired \in BOOLEAN /\ atTop \in BOOLEAN
    /\ silence \in [round : Rounds, silent : BOOLEAN]
    /\ told \in [round : 0 .. MaxRound, pause : BOOLEAN]
    /\ received \in 0 .. MaxDigests
    /\ given \in [Rounds -> SUBSET Certificates(Rounds)]
    /\ \A r \in Rounds : given[r] \subseteq Certs(r)
    /\ left \in [0 .. MaxRound -> SUBSET Authorities]
    /\ headers \in Seq(Headers)

\* The parents are a quorum or none, and what the core has given of the round it is in is
\* among them.
Gathering ==
    /\ parents # {} => IsQuorum(Authors(parents))
    /\ \A r \in Rounds : given[r] # {} => r < round \/ (r = round /\ parents # {})

\* The cached decision is that of its round.
Deciding == silence.silent = ComputeSilence(silence.round)

\* last_leader is the leader of the round, or of the round below, or we had none.
Leading ==
    /\ (round % 2 = 0 /\ parents # {}) => leader = UpdateLeader(parents, round)
    /\ (round % 2 = 1 /\ round > 1) =>
            \/ leader = round - 1
            \/ Leader(round - 1) \notin left[round - 1]
            \/ Selected(Me, round)
    /\ \A r \in 0 .. MaxRound : r >= round => left[r] = {}

\* Whether to leave round r with the parents ps helps its leader, l being what we held
\* when we left earlier rounds (see HappyPathWaits).
HelpsLeader(ps, r, l) ==
    LET for == {x \in ps : x.votes}
    IN  IF r % 2 = 0 THEN Leader(r) \in Authors(ps)
        ELSE \/ IsQuorum(Authors(for))
             \/ IsValidity(Authors(ps \ for))
             \/ Leader(r - 1) \notin l[r - 1]
             \/ Selected(Me, r)

Advancing == (advance /\ parents # {} /\ round > 1) => HelpsLeader(parents, round, left)

\* The header h is one the properties allow.
Allowed(h) ==
    /\ h.round <= round
    /\ \A x \in h.parents : x.round + 1 = h.round
    /\ IsQuorum(Authors(h.parents))
    /\ ~Selected(Me, h.round)
    /\ (h.round > 2 /\ ~h.timeout) => HelpsLeader(h.parents, h.round - 1, left)

Proposing ==
    /\ \A i \in DOMAIN headers : Allowed(headers[i])
    /\ \A i, j \in DOMAIN headers : i < j => headers[i].round < headers[j].round

(***************************************************************************)
(* The inductive invariant of the Proposer.                                *)
(***************************************************************************)
IInv ==
    /\ Types
    /\ Gathering
    /\ Deciding
    /\ Leading
    /\ Advancing
    /\ Proposing

-----------------------------------------------------------------------------
LEMMA ConstantFacts ==
  /\ MaxRound \in Nat /\ MaxRound >= 1 /\ 1 \in Rounds
  /\ MaxDigests \in Nat /\ HeaderSize \in Nat /\ Me \in Authorities
  /\ \A r \in Nat : Leader(r) \in Authorities
  /\ Rounds = 1 .. MaxRound
<1>1. \A r \in Nat : r % N \in 0 .. (N - 1)
  BY NAssumption
<1> QED
  BY <1>1, ProposerAssumption DEF Rounds, Leader, Authorities

\* All authorities together are a quorum: somebody holds stake.
LEMMA EverybodyIsAQuorum == IsQuorum(Authorities)
<1>1. PICK a \in Authorities : Stake[a] > 0
  BY ProposerAssumption
<1>2. Stake[a] \in Nat /\ <<a, 1>> \in Shares(Authorities)
  BY <1>1, StakeAssumption DEF Shares
<1>3. TotalVotes \in Nat /\ TotalVotes # 0
  <2>1. TotalVotes \in Nat
    BY StakeType
  <2>2. Shares(Authorities) # {}
    BY <1>2
  <2> QED
    BY <2>1, <2>2, SharesFinite, FS_EmptySet DEF TotalVotes, StakeOf
<1> QED
  BY <1>3 DEF IsQuorum, QuorumThreshold, TotalVotes

\* The authors of certificates are authorities.
LEMMA AuthorsType ==
  ASSUME NEW R, NEW S \in SUBSET Certificates(R)
  PROVE  Authors(S) \in SUBSET Authorities
BY DEF Authors, Certificates

LEMMA CertsType ==
  ASSUME NEW r \in Rounds
  PROVE  Certs(r) \subseteq Certificates({r}) /\ Certs(r) \subseteq Certificates(Rounds)
BY DEF Certs, Certificates

\* A sequence after Append.
LEMMA AppendFacts ==
  ASSUME NEW S, NEW s \in Seq(S), NEW e \in S
  PROVE  /\ Append(s, e) \in Seq(S)
         /\ DOMAIN Append(s, e) = 1 .. (Len(s) + 1) /\ Len(s) \in Nat
         /\ DOMAIN s = 1 .. Len(s)
         /\ \A i \in DOMAIN s : Append(s, e)[i] = s[i]
         /\ Append(s, e)[Len(s) + 1] = e
BY AppendProperties, LenProperties

\* What a decision about silence answers, and for which round.
LEMMA SilentInFacts ==
  ASSUME Types, Deciding, NEW r \in Rounds
  PROVE  SilentIn(r) = ComputeSilence(r) /\ ComputeSilence(r) \in BOOLEAN
BY DEF SilentIn, Deciding, ComputeSilence, Selected

LEMMA PrepareFacts ==
  ASSUME Types, NEW r \in Rounds, PrepareRound(r)
  PROVE  /\ silence' \in [round : Rounds, silent : BOOLEAN]
         /\ told' \in [round : 0 .. MaxRound, pause : BOOLEAN]
         /\ Deciding'
<1>1. ComputeSilence(r) \in BOOLEAN
  BY DEF ComputeSilence, Selected
<1>2. r \in 0 .. MaxRound
  BY ConstantFacts
<1> QED
  BY <1>1, <1>2 DEF PrepareRound, Deciding, Types

\* HelpsLeader depends on l only at the round below.
LEMMA HelpsLeaderFrame ==
  ASSUME NEW ps, NEW r, NEW k, NEW l, k[r - 1] = l[r - 1], HelpsLeader(ps, r, l)
  PROVE  HelpsLeader(ps, r, k)
BY DEF HelpsLeader

-----------------------------------------------------------------------------
LEMMA InitIInv == Init => IInv
<1> SUFFICES ASSUME Init PROVE IInv
  OBVIOUS
<1> USE DEF Init
<1>1. ComputeSilence(1) \in BOOLEAN /\ 0 \in 0 .. MaxRound /\ 0 \in 0 .. MaxDigests
      /\ 1 \in 0 .. MaxRound
  BY ConstantFacts DEF ComputeSilence, Selected
<1>2. parents \subseteq Certificates({round})
  BY DEF Certificates
<1>3. Authors(parents) = Authorities
  <2>1. ASSUME NEW a \in Authorities
        PROVE  \E x \in parents : x.author = a
    <3>1. [round |-> 0, author |-> a, votes |-> FALSE] \in parents
      OBVIOUS
    <3> QED
      BY <3>1
  <2>2. \A x \in parents : x.author \in Authorities
    OBVIOUS
  <2> QED
    BY <2>1, <2>2 DEF Authors
<1>4. headers \in Seq(Headers) /\ digests \in Seq(1 .. MaxDigests) /\ DOMAIN headers = {}
  BY EmptySeq
<1>5. Types
  <2>1. /\ silence \in [round : Rounds, silent : BOOLEAN]
        /\ told \in [round : 0 .. MaxRound, pause : BOOLEAN]
    BY <1>1, ConstantFacts
  <2> QED
    BY <1>1, <1>2, <1>4, <2>1 DEF Types
<1>6. Gathering
  BY <1>3, EverybodyIsAQuorum, ConstantFacts DEF Gathering
<1>7. Deciding
  BY DEF Deciding
<1>8. Leading
  BY DEF Leading, UpdateLeader
<1>9. Advancing /\ Proposing
  BY <1>4 DEF Advancing, Proposing
<1> QED
  BY <1>5, <1>6, <1>7, <1>8, <1>9 DEF IInv

\* The steps that gather digests or wait leave everything else alone.
LEMMA WaitIInv ==
  ASSUME IInv,
         UNCHANGED <<round, parents, leader, advance, silence, given, told, left, headers>>,
         digests' \in Seq(1 .. MaxDigests), received' \in 0 .. MaxDigests,
         expired' \in BOOLEAN, atTop' \in BOOLEAN
  PROVE  IInv'
<1>1. Types'
  BY DEF IInv, Types
<1>2. Gathering' /\ Deciding' /\ Leading'
  BY DEF IInv, Gathering, Deciding, Leading, UpdateLeader
<1>3. Advancing' /\ Proposing'
  BY DEF IInv, Advancing, Proposing, Allowed, HelpsLeader
<1> QED
  BY <1>1, <1>2, <1>3 DEF IInv

LEMMA PassIInv ==
  ASSUME IInv, Pass
  PROVE  IInv'
BY WaitIInv DEF Pass, IInv, Types

LEMMA TimerIInv ==
  ASSUME IInv, Timer
  PROVE  IInv'
BY WaitIInv DEF Timer, IInv, Types

LEMMA ReceiveDigestIInv ==
  ASSUME IInv, ReceiveDigest
  PROVE  IInv'
<1>1. received + 1 \in 1 .. MaxDigests /\ received + 1 \in 0 .. MaxDigests
  BY ConstantFacts DEF ReceiveDigest, IInv, Types
<1>2. digests' \in Seq(1 .. MaxDigests)
  BY <1>1, AppendProperties DEF ReceiveDigest, IInv, Types
<1> QED
  BY <1>1, <1>2, WaitIInv DEF ReceiveDigest, IInv, Types

\* Leaving a round for a higher one: last_leader, as far as it is kept, is the leader we
\* knew when we left, and what was noted of earlier rounds stays.
LEMMA LeaveRound ==
  ASSUME IInv, NEW r \in Rounds, r > round, round' = r,
         left' = [left EXCEPT ![round] = Authors(parents)]
  PROVE  /\ left' \in [0 .. MaxRound -> SUBSET Authorities]
         /\ \A s \in 0 .. MaxRound : s < round => left'[s] = left[s]
         /\ \A s \in 0 .. MaxRound : s >= r => left'[s] = {}
         /\ (r % 2 = 1 /\ r > 1) => leader = r - 1 \/ Leader(r - 1) \notin left'[r - 1]
<1>1. /\ left \in [0 .. MaxRound -> SUBSET Authorities] /\ round \in 0 .. MaxRound
      /\ MaxRound \in Nat /\ r \in 1 .. MaxRound
  BY ConstantFacts DEF IInv, Types
<1>2. Authors(parents) \in SUBSET Authorities
  BY AuthorsType DEF IInv, Types
<1>3. \A s \in 0 .. MaxRound : left'[s] = IF s = round THEN Authors(parents) ELSE left[s]
  BY <1>1
<1>4. \A s \in 0 .. MaxRound : s >= round => left[s] = {}
  BY DEF IInv, Leading
<1>5. \A s \in 0 .. MaxRound : s >= r => left'[s] = {}
  BY <1>1, <1>3, <1>4
<1>6. ASSUME r % 2 = 1, r > 1
      PROVE  leader = r - 1 \/ Leader(r - 1) \notin left'[r - 1]
  <2>1. r - 1 \in 0 .. MaxRound
    BY <1>1
  <2>2. CASE r - 1 # round
    BY <1>1, <1>3, <1>4, <2>1, <2>2
  <2>3. CASE r - 1 = round
    <3>1. round % 2 = 0
      BY <1>1, <1>6, <2>3
    <3>2. CASE parents = {}
      BY <1>3, <2>1, <2>3, <3>2 DEF Authors
    <3>3. CASE parents # {}
      BY <1>3, <2>1, <2>3, <3>1, <3>3 DEF IInv, Leading, UpdateLeader
    <3> QED
      BY <3>2, <3>3
  <2> QED
    BY <2>2, <2>3
<1> QED
  BY <1>1, <1>2, <1>3, <1>5, <1>6

\* A header stays allowed when the round grows and the past of left stays.
LEMMA HeadersStay ==
  ASSUME IInv, round' \in 0 .. MaxRound, round' >= round,
         \A s \in 0 .. MaxRound : s < round => left'[s] = left[s]
  PROVE  \A h \in Headers : Allowed(h) => Allowed(h)'
<1> SUFFICES ASSUME NEW h \in Headers, Allowed(h)
             PROVE  Allowed(h)'
  OBVIOUS
<1>1. h.round \in 1 .. MaxRound /\ MaxRound \in Nat /\ round \in 0 .. MaxRound
  BY ConstantFacts DEF Headers, IInv, Types
<1>2. h.round <= round'
  BY <1>1 DEF Allowed
<1>3. (h.round > 2 /\ ~h.timeout) => HelpsLeader(h.parents, h.round - 1, left')
  <2> SUFFICES ASSUME h.round > 2, ~h.timeout
               PROVE  HelpsLeader(h.parents, h.round - 1, left')
    OBVIOUS
  <2>1. HelpsLeader(h.parents, h.round - 1, left) /\ h.round <= round
    BY DEF Allowed
  <2>2. left'[(h.round - 1) - 1] = left[(h.round - 1) - 1]
    BY <1>1, <2>1
  <2> QED
    BY <2>1, <2>2, HelpsLeaderFrame
<1> QED
  BY <1>2, <1>3 DEF Allowed

LEMMA ReceiveParentsIInv ==
  ASSUME IInv, NEW r \in Rounds, ReceiveParents(r)
  PROVE  IInv'
<1>1. PICK S \in SUBSET {x \in Certs(r) : CanGive(x)} :
          /\ Gives(S, r)
          /\ given' = [given EXCEPT ![r] = @ \cup S]
          /\ TakeParents(S, r)
  BY DEF ReceiveParents
<1>2. UNCHANGED <<digests, expired, received, headers>> /\ atTop' = TRUE
  BY DEF ReceiveParents
<1> DEFINE held == IF r > round THEN S ELSE IF r = round THEN parents \cup S ELSE parents
           now == IF r > round THEN r ELSE round
<1>3. /\ round' = now /\ parents' = held
      /\ IF r > round THEN PrepareRound(r) ELSE UNCHANGED <<silence, told>>
      /\ IF now % 2 = 0
         THEN leader' = UpdateLeader(held, now) /\ advance' = (UpdateLeader(held, now) # 0)
         ELSE leader' = leader /\ advance' = EnoughVotes(held, now)
      /\ left' = IF r > round THEN [left EXCEPT ![round] = Authors(parents)] ELSE left
  BY <1>1 DEF TakeParents
<1>4. /\ r \in 1 .. MaxRound /\ r \in 0 .. MaxRound /\ MaxRound \in Nat
      /\ round \in 0 .. MaxRound /\ parents \subseteq Certificates({round})
  <2>1. r \in 1 .. MaxRound /\ MaxRound \in Nat
    BY ConstantFacts
  <2>2. round \in 0 .. MaxRound /\ parents \subseteq Certificates({round})
    BY DEF IInv, Types
  <2> QED
    BY <2>1, <2>2
<1>5. S \subseteq Certs(r) /\ S \subseteq Certificates({r}) /\ S \subseteq Certificates(Rounds)
  BY CertsType
<1>6. now \in 0 .. MaxRound /\ now >= round /\ now >= r /\ (now = round \/ now = r)
  BY <1>4
<1>7. held \subseteq Certificates({now})
  BY <1>4, <1>5
<1>8. /\ given \in [Rounds -> SUBSET Certificates(Rounds)]
      /\ \A s \in Rounds : given[s] \subseteq Certs(s)
      /\ \A s \in Rounds : given'[s] = IF s = r THEN given[s] \cup S ELSE given[s]
  BY <1>1 DEF IInv, Types
\* What makes the parents non-empty is a quorum, and so is what the proposer jumps to.
<1>9. Gives(S, r) /\ (given[r] = {} => IsQuorum(Authors(S)))
  BY <1>1 DEF Gives
<1>10. S # {}
  <2>1. CASE given[r] = {}
    <3>1. Authors(S) \in SUBSET Authorities
      BY <1>5, AuthorsType
    <3>2. Authors(S) # {}
      BY <1>9, <2>1, <3>1, QuorumNonEmpty
    <3> QED
      BY <3>2 DEF Authors
  <2>2. CASE given[r] # {}
    <3>1. Cardinality(S) = 1
      BY <1>9, <2>2 DEF Gives
    <3>2. Cardinality({}) = 0
      BY FS_EmptySet
    <3> QED
      BY <3>1, <3>2
  <2> QED
    BY <2>1, <2>2
<1>11. Gathering'
  <2>1. held # {} => IsQuorum(Authors(held))
    <3>1. CASE r > round
      <4>1. given[r] = {}
        BY <1>4, <3>1 DEF IInv, Gathering
      <4> QED
        BY <1>9, <3>1, <4>1
    <3>2. CASE r = round /\ parents = {}
      <4>1. given[r] = {}
        BY <1>4, <3>2 DEF IInv, Gathering
      <4>2. held = S
        BY <1>4, <3>2
      <4> QED
        BY <1>9, <4>1, <4>2
    <3>3. CASE r = round /\ parents # {}
      <4>1. held = parents \cup S
        BY <1>4, <3>3
      <4>2. /\ Authors(held) \in SUBSET Authorities
            /\ Authors(parents) \in SUBSET Authors(held)
        BY <1>7, <4>1, AuthorsType DEF Authors
      <4>3. IsQuorum(Authors(parents))
        BY <3>3 DEF IInv, Gathering
      <4> QED
        BY <4>2, <4>3, QuorumMonotone
    <3>4. CASE r < round
      <4>1. held = parents
        BY <1>4, <3>4
      <4> QED
        BY <4>1 DEF IInv, Gathering
    <3> QED
      BY <1>4, <3>1, <3>2, <3>3, <3>4
  <2>2. ASSUME NEW s \in Rounds, given'[s] # {}
        PROVE  s < now \/ (s = now /\ held # {})
    <3>1. s \in 1 .. MaxRound
      BY ConstantFacts
    <3>2. CASE s = r
      BY <1>4, <1>10, <3>1, <3>2
    <3>3. CASE s # r
      <4>1. s < round \/ (s = round /\ parents # {})
        BY <1>8, <2>2, <3>3 DEF IInv, Gathering
      <4> QED
        BY <1>4, <3>1, <3>3, <4>1
    <3> QED
      BY <3>2, <3>3
  <2> QED
    BY <1>3, <2>1, <2>2 DEF Gathering
<1>12. /\ silence' \in [round : Rounds, silent : BOOLEAN]
       /\ told' \in [round : 0 .. MaxRound, pause : BOOLEAN]
       /\ Deciding'
  <2>1. CASE r > round
    BY <1>3, <2>1, PrepareFacts DEF IInv
  <2>2. CASE ~(r > round)
    BY <1>3, <2>2 DEF IInv, Types, Deciding
  <2> QED
    BY <2>1, <2>2
\* The rounds below stay as they were, and we enter an odd round as LeaveRound says.
<1>13. /\ left' \in [0 .. MaxRound -> SUBSET Authorities]
       /\ \A s \in 0 .. MaxRound : s < round => left'[s] = left[s]
       /\ \A s \in 0 .. MaxRound : s >= now => left'[s] = {}
       /\ (now % 2 = 1 /\ now > 1) =>
              \/ leader = now - 1
              \/ Leader(now - 1) \notin left'[now - 1]
              \/ Selected(Me, now)
  <2>1. CASE r > round
    <3>1. now = r /\ round' = r /\ left' = [left EXCEPT ![round] = Authors(parents)]
      BY <1>3, <2>1
    <3> QED
      BY <2>1, <3>1, LeaveRound
  <2>2. CASE ~(r > round)
    <3>1. now = round /\ left' = left
      BY <1>3, <2>2
    <3> QED
      BY <3>1 DEF IInv, Types, Leading
  <2> QED
    BY <2>1, <2>2
<1> HIDE DEF held, now
<1>14. leader' \in 0 .. MaxRound /\ advance' \in BOOLEAN
  <2>1. UpdateLeader(held, now) \in 0 .. MaxRound
    BY <1>4, <1>6 DEF UpdateLeader
  <2>2. EnoughVotes(held, now) \in BOOLEAN
    BY DEF EnoughVotes
  <2> QED
    BY <1>3, <2>1, <2>2 DEF IInv, Types
<1>15. Types'
  <2>1. given' \in [Rounds -> SUBSET Certificates(Rounds)]
    BY <1>1, <1>5, <1>8
  <2>2. \A s \in Rounds : given'[s] \subseteq Certs(s)
    BY <1>5, <1>8
  <2> QED
    BY <1>2, <1>3, <1>6, <1>7, <1>12, <1>13, <1>14, <2>1, <2>2 DEF IInv, Types
<1>16. Leading'
  <2>1. now % 2 = 0 => leader' = UpdateLeader(held, now)
    BY <1>3
  <2>2. (now % 2 = 1 /\ now > 1) =>
            \/ leader' = now - 1
            \/ Leader(now - 1) \notin left'[now - 1]
            \/ Selected(Me, now)
    BY <1>3, <1>6, <1>13
  <2>3. \A s \in 0 .. MaxRound : s >= now => left'[s] = {}
    BY <1>13
  <2> QED
    BY <1>3, <2>1, <2>2, <2>3 DEF Leading, UpdateLeader
<1>17. Advancing'
  <2> SUFFICES ASSUME advance', now > 1
               PROVE  HelpsLeader(held, now, left')
    BY <1>3 DEF Advancing
  <2>1. CASE now % 2 = 0
    <3>1. UpdateLeader(held, now) # 0
      BY <1>3, <2>1
    <3>2. Leader(now) \in Authors(held)
      BY <3>1 DEF UpdateLeader
    <3> QED
      BY <2>1, <3>2 DEF HelpsLeader
  <2>2. CASE now % 2 # 0
    <3>1. now % 2 = 1
      BY <1>6, <2>2
    <3>2. EnoughVotes(held, now)
      BY <1>3, <2>2
    <3>3. CASE leader = now - 1
      <4>1. leader # 0 /\ leader + 1 = now
        BY <1>6, <3>3
      <4>2. {x \in held : x.votes /\ leader + 1 = now} = {x \in held : x.votes}
        BY <4>1
      <4>3. \/ IsQuorum(Authors({x \in held : x.votes}))
            \/ IsValidity(Authors(held \ {x \in held : x.votes}))
        BY <3>2, <4>1, <4>2 DEF EnoughVotes
      <4> QED
        BY <2>2, <4>3 DEF HelpsLeader
    <3>4. CASE leader # now - 1
      BY <1>13, <2>2, <3>1, <3>4 DEF HelpsLeader
    <3> QED
      BY <3>3, <3>4
  <2> QED
    BY <2>1, <2>2
<1>18. Proposing'
  <2>1. \A h \in Headers : Allowed(h) => Allowed(h)'
    BY <1>3, <1>4, <1>6, <1>13, HeadersStay
  <2>2. \A i \in DOMAIN headers : headers[i] \in Headers
    BY ElementOfSeq, LenProperties DEF IInv, Types
  <2> QED
    BY <1>2, <2>1, <2>2 DEF IInv, Proposing
<1> QED
  BY <1>11, <1>12, <1>15, <1>16, <1>17, <1>18 DEF IInv

\* What make_header() builds.
LEMMA HeaderType ==
  ASSUME IInv, round < MaxRound
  PROVE  Header \in Headers
<1>1. /\ round \in 0 .. MaxRound /\ parents \subseteq Certificates({round})
      /\ expired \in BOOLEAN /\ digests \in Seq(1 .. MaxDigests)
  BY DEF IInv, Types
<1>2. round + 1 \in Rounds /\ parents \in SUBSET Certificates(0 .. MaxRound)
  BY <1>1, ConstantFacts DEF Certificates
<1>3. Range(digests) \in SUBSET (1 .. MaxDigests)
  BY <1>1, RangeMember
<1> QED
  BY <1>1, <1>2, <1>3 DEF Header, Headers

LEMMA ProposeIInv ==
  ASSUME IInv, Propose
  PROVE  IInv'
<1> DEFINE next == round + 1
<1>1. /\ Ready /\ round < MaxRound /\ round' = next
      /\ IF silence.round # next THEN PrepareRound(next) ELSE UNCHANGED <<silence, told>>
      /\ IF SilentIn(next) THEN StaySilent ELSE MakeHeader
      /\ parents' = {} /\ left' = [left EXCEPT ![round] = Authors(parents)]
      /\ expired' = FALSE /\ atTop' = FALSE
      /\ UNCHANGED <<advance, given, received>>
  BY DEF Propose
<1>2. /\ round \in 0 .. MaxRound /\ MaxRound \in Nat /\ next \in 0 .. MaxRound
      /\ parents \subseteq Certificates({round}) /\ headers \in Seq(Headers)
      /\ expired \in BOOLEAN /\ advance \in BOOLEAN
      /\ digests \in Seq(1 .. MaxDigests)
  <2>1. /\ round \in 0 .. MaxRound
        /\ parents \subseteq Certificates({round}) /\ headers \in Seq(Headers)
        /\ expired \in BOOLEAN /\ advance \in BOOLEAN
        /\ digests \in Seq(1 .. MaxDigests)
    BY DEF IInv, Types
  <2>2. MaxRound \in Nat /\ round < MaxRound
    BY <1>1, ConstantFacts
  <2>3. next \in 0 .. MaxRound
    BY <2>1, <2>2
  <2> QED
    BY <2>1, <2>2, <2>3
<1>3. next \in Rounds /\ next > round
  BY <1>1, <1>2, ConstantFacts
<1>4. /\ left' \in [0 .. MaxRound -> SUBSET Authorities]
      /\ \A s \in 0 .. MaxRound : s < round => left'[s] = left[s]
      /\ \A s \in 0 .. MaxRound : s >= next => left'[s] = {}
      /\ (next % 2 = 1 /\ next > 1) =>
             leader = next - 1 \/ Leader(next - 1) \notin left'[next - 1]
  BY <1>1, <1>3, LeaveRound
<1>5. /\ silence' \in [round : Rounds, silent : BOOLEAN]
      /\ told' \in [round : 0 .. MaxRound, pause : BOOLEAN]
      /\ Deciding'
  <2>1. CASE silence.round # next
    BY <1>1, <1>3, <2>1, PrepareFacts DEF IInv
  <2>2. CASE silence.round = next
    BY <1>1, <2>2 DEF IInv, Types, Deciding
  <2> QED
    BY <2>1, <2>2
<1>6. SilentIn(next) = Selected(Me, next)
  BY <1>3, SilentInFacts DEF IInv, ComputeSilence
<1>7. Gathering'
  <2>1. \A r \in Rounds : given[r] # {} => r < next
    BY <1>2, ConstantFacts DEF IInv, Gathering
  <2> QED
    BY <1>1, <2>1 DEF Gathering
<1>8. leader' \in 0 .. MaxRound /\ (leader' = leader \/ Selected(Me, next))
  BY <1>1, <1>2, <1>6 DEF StaySilent, MakeHeader, IInv, Types
<1>9. Leading' /\ Advancing'
  BY <1>1, <1>2, <1>4, <1>8 DEF Leading, Advancing
<1>10. Header \in Headers
  BY <1>1, HeaderType
<1>11. headers' \in Seq(Headers) /\ digests' \in Seq(1 .. MaxDigests)
  <2>1. Append(headers, Header) \in Seq(Headers) /\ <<>> \in Seq(1 .. MaxDigests)
    BY <1>2, <1>10, AppendProperties, EmptySeq
  <2> QED
    BY <1>1, <1>2, <2>1 DEF StaySilent, MakeHeader
<1>12. Types'
  BY <1>1, <1>2, <1>4, <1>5, <1>8, <1>11 DEF IInv, Types
<1>13. \A h \in Headers : Allowed(h) => Allowed(h)'
  BY <1>1, <1>2, <1>3, <1>4, HeadersStay
<1>14. Proposing'
  <2>1. /\ \A i \in DOMAIN headers : headers[i] \in Headers /\ Allowed(headers[i])
        /\ \A i, j \in DOMAIN headers : i < j => headers[i].round < headers[j].round
    BY <1>2, ElementOfSeq, LenProperties DEF IInv, Proposing
  <2>2. CASE SilentIn(next)
    BY <1>1, <1>13, <2>1, <2>2 DEF StaySilent, Proposing
  <2>3. CASE ~SilentIn(next)
    <3> DEFINE new == Header
    <3>1. headers' = Append(headers, new)
      BY <1>1, <2>3 DEF MakeHeader
    <3>2. /\ new.round = next /\ new.parents = parents /\ new.timeout = expired
      BY DEF Header
    <3> HIDE DEF new
    <3>3. IsQuorum(Authors(parents)) /\ \A x \in parents : x.round + 1 = next
      BY <1>1, <1>2 DEF Ready, IInv, Gathering, Certificates
    <3>4. (next > 2 /\ ~expired) => HelpsLeader(parents, round, left')
      <4> SUFFICES ASSUME next > 2, ~expired PROVE HelpsLeader(parents, round, left')
        OBVIOUS
      <4>1. HelpsLeader(parents, round, left)
        BY <1>1, <1>2 DEF Ready, IInv, Advancing
      <4>2. left'[round - 1] = left[round - 1]
        BY <1>2, <1>4
      <4> QED
        BY <4>1, <4>2, HelpsLeaderFrame
    <3>5. ASSUME NEW i \in DOMAIN headers'
          PROVE  Allowed(headers[i])'
      <4>1. CASE i \in DOMAIN headers
        <5>1. headers'[i] = headers[i]
          BY <1>2, <1>10, <3>1, <4>1, AppendFacts DEF new
        <5> QED
          BY <1>13, <2>1, <4>1, <5>1
      <4>2. CASE i \notin DOMAIN headers
        <5>1. headers'[i] = new
          BY <1>2, <1>10, <3>1, <4>2, AppendFacts DEF new
        <5>2. next - 1 = round /\ next <= round'
          BY <1>1, <1>2
        <5> QED
          BY <1>6, <2>3, <3>2, <3>3, <3>4, <5>1, <5>2 DEF Allowed
      <4> QED
        BY <4>1, <4>2
    <3>6. ASSUME NEW i \in DOMAIN headers', NEW j \in DOMAIN headers', i < j
          PROVE  headers'[i].round < headers'[j].round
      <4>1. /\ DOMAIN headers = 1 .. Len(headers) /\ Len(headers) \in Nat
            /\ DOMAIN headers' = 1 .. (Len(headers) + 1)
            /\ \A k \in DOMAIN headers : headers'[k] = headers[k]
            /\ headers'[Len(headers) + 1] = new
        BY <1>2, <1>10, <3>1, AppendFacts DEF new
      <4>2. i \in DOMAIN headers
        BY <3>6, <4>1
      <4>3. CASE j \in DOMAIN headers
        BY <2>1, <3>6, <4>1, <4>2, <4>3
      <4>4. CASE j \notin DOMAIN headers
        <5>1. headers'[j].round = next
          BY <3>2, <4>1, <4>4
        <5>2. headers[i].round <= round /\ headers[i].round \in 1 .. MaxRound
          BY <2>1, <4>2, ConstantFacts DEF Allowed, Headers
        <5> QED
          BY <1>2, <4>1, <4>2, <5>1, <5>2
      <4> QED
        BY <4>3, <4>4
    <3> QED
      BY <3>5, <3>6 DEF Proposing
  <2> QED
    BY <2>2, <2>3
<1> QED
  BY <1>5, <1>7, <1>9, <1>12, <1>14 DEF IInv

LEMMA ProposerStep ==
  ASSUME IInv, [Next]_vars
  PROVE  IInv'
<1>1. CASE UNCHANGED vars
  BY <1>1, WaitIInv DEF vars, IInv, Types
<1> QED
  BY <1>1, PassIInv, TimerIInv, ReceiveDigestIInv, ProposeIInv, ReceiveParentsIInv DEF Next

\* The inductive invariant holds in every state of the proposer.
THEOREM ProposerInvariant == Spec => []IInv
BY InitIInv, ProposerStep, PTL DEF Spec

\* The fields of the proposer have their types.
THEOREM ProposerTypeCorrect == Spec => []TypeOK
<1>1. IInv => TypeOK
  BY ConstantFacts DEF IInv, Types, TypeOK, Certificates
<1> QED
  BY <1>1, ProposerInvariant, PTL

\* Every header make_header() builds has a quorum of parents, all of the round below.
THEOREM ProposerBuildsOnQuorum == Spec => []HeadersBuildOnQuorum
<1>1. IInv => HeadersBuildOnQuorum
  BY DEF IInv, Proposing, Allowed, HeadersBuildOnQuorum
<1> QED
  BY <1>1, ProposerInvariant, PTL

\* The loop of run() makes at most one header per round and none in a silent one.
THEOREM ProposerKeepsSilence == Spec => []HeaderOnlyWhenActive
<1>1. IInv => HeaderOnlyWhenActive
  BY DEF IInv, Proposing, Allowed, HeaderOnlyWhenActive
<1> QED
  BY <1>1, ProposerInvariant, PTL

\* update_leader() and enough_votes() answer for the round the proposer leaves.
THEOREM ProposerWaitsForLeader == Spec => []HappyPathWaits
<1>1. IInv => HappyPathWaits
  <2> SUFFICES ASSUME IInv, NEW i \in DOMAIN headers, headers[i].round - 1 > 1,
                      ~headers[i].timeout
               PROVE  HelpsLeader(headers[i].parents, headers[i].round - 1, left)
    BY DEF HappyPathWaits, HelpsLeader
  <2>1. headers[i] \in Headers
    BY ElementOfSeq, LenProperties DEF IInv, Types
  <2>2. headers[i].round > 2
    BY <2>1, ConstantFacts DEF Headers
  <2> QED
    BY <2>2 DEF IInv, Proposing, Allowed
<1> QED
  BY <1>1, ProposerInvariant, PTL

-----------------------------------------------------------------------------
\* Silent or not, the digests sent by the workers (pushed by run()) leave in headers
\* (make_header drains them), each of them in one header, the earlier ones first.
THEOREM ProposerKeepsDigests == Spec => []DigestsProposedOnce
<1>1. Init => DigestsProposedOnce
  <2> SUFFICES ASSUME Init PROVE DigestsProposedOnce
    OBVIOUS
  <2>1. headers = <<>> /\ digests = <<>> /\ received = 0
    BY DEF Init
  <2>2. DOMAIN headers = {} /\ Range(digests) = {} /\ 1 .. received = {}
    BY <2>1, EmptyRange
  <2> QED
    BY <2>2 DEF DigestsProposedOnce
<1>2. IInv /\ DigestsProposedOnce /\ [Next]_vars => DigestsProposedOnce'
  <2> SUFFICES ASSUME IInv, DigestsProposedOnce, [Next]_vars PROVE DigestsProposedOnce'
    OBVIOUS
  <2>1. /\ headers \in Seq(Headers) /\ digests \in Seq(1 .. MaxDigests)
        /\ received \in 0 .. MaxDigests /\ MaxDigests \in Nat
    BY ConstantFacts DEF IInv, Types
  <2>2. CASE UNCHANGED <<headers, digests, received>>
    BY <2>2 DEF DigestsProposedOnce
  <2>3. CASE ReceiveDigest
    <3>1. /\ received < MaxDigests /\ received' = received + 1
          /\ digests' = Append(digests, received + 1) /\ headers' = headers
      BY <2>3 DEF ReceiveDigest
    <3>2. received + 1 \in 1 .. MaxDigests
      BY <2>1, <3>1
    <3>3. Range(digests') = Range(digests) \cup {received + 1}
      BY <2>1, <3>1, <3>2, AppendRange
    <3>4. 1 .. (received + 1) = (1 .. received) \cup {received + 1}
      BY <2>1
    <3>5. \A i \in DOMAIN headers : \A a \in headers[i].payload : a \in 1 .. received
      BY DEF DigestsProposedOnce
    <3>6. \A a \in 1 .. received : a < received + 1
      BY <2>1
    <3>7. (UNION {headers'[i].payload : i \in DOMAIN headers'}) \cup Range(digests')
            = 1 .. received'
      BY <3>1, <3>3, <3>4 DEF DigestsProposedOnce
    <3>8. \A i \in DOMAIN headers : \A a \in headers[i].payload, b \in Range(digests') : a < b
      BY <3>3, <3>5, <3>6 DEF DigestsProposedOnce
    <3> QED
      BY <3>1, <3>7, <3>8 DEF DigestsProposedOnce
  <2>4. CASE Propose /\ SilentIn(round + 1)
    <3>1. UNCHANGED <<headers, digests, received>>
      BY <2>4 DEF Propose, StaySilent
    <3> QED
      BY <2>2, <3>1
  <2>5. CASE Propose /\ ~SilentIn(round + 1)
    <3> DEFINE h == Header
               n == Len(headers)
    <3>1. headers' = Append(headers, h) /\ digests' = <<>> /\ received' = received
      BY <2>5 DEF Propose, MakeHeader
    <3>2. h \in Headers /\ h.payload = Range(digests)
      BY <2>5, HeaderType DEF Propose, Header
    <3> HIDE DEF h
    <3>3. /\ DOMAIN headers' = 1 .. (n + 1) /\ n \in Nat /\ DOMAIN headers = 1 .. n
          /\ \A i \in 1 .. n : headers'[i] = headers[i]
          /\ headers'[n + 1] = h
      BY <2>1, <3>1, <3>2, AppendFacts
    <3>4. Range(digests') = {}
      BY <3>1, EmptyRange
    <3> HIDE DEF n
    <3>5. \A i \in 1 .. (n + 1) : i \in 1 .. n \/ i = n + 1
      BY <3>3
    <3>6. UNION {headers'[i].payload : i \in 1 .. (n + 1)}
            = (UNION {headers[i].payload : i \in 1 .. n}) \cup Range(digests)
      <4>1. 1 .. n \subseteq 1 .. (n + 1) /\ n + 1 \in 1 .. (n + 1)
        BY <3>3
      <4>2. headers'[n + 1].payload = Range(digests)
        BY <3>2, <3>3
      <4>3. \A i \in 1 .. n : headers'[i].payload = headers[i].payload
        BY <3>3
      <4>4. ASSUME NEW a \in UNION {headers'[i].payload : i \in 1 .. (n + 1)}
            PROVE  a \in (UNION {headers[i].payload : i \in 1 .. n}) \cup Range(digests)
        <5>1. PICK i \in 1 .. (n + 1) : a \in headers'[i].payload
          OBVIOUS
        <5> QED
          BY <3>5, <4>2, <4>3, <5>1
      <4>5. ASSUME NEW a \in UNION {headers[i].payload : i \in 1 .. n}
            PROVE  a \in UNION {headers'[i].payload : i \in 1 .. (n + 1)}
        <5>1. PICK i \in 1 .. n : a \in headers[i].payload
          OBVIOUS
        <5> QED
          BY <4>1, <4>3, <5>1
      <4>6. Range(digests) \subseteq UNION {headers'[i].payload : i \in 1 .. (n + 1)}
        BY <4>1, <4>2
      <4> QED
        BY <4>4, <4>5, <4>6
    <3>7. ASSUME NEW i \in 1 .. (n + 1), NEW j \in 1 .. (n + 1), i < j,
                 NEW a \in headers'[i].payload, NEW b \in headers'[j].payload
          PROVE  a < b
      <4>1. i \in 1 .. n /\ headers'[i] = headers[i]
        BY <3>3, <3>7
      <4>2. CASE j \in 1 .. n
        BY <3>3, <3>7, <4>1, <4>2 DEF DigestsProposedOnce
      <4>3. CASE j = n + 1
        BY <3>2, <3>3, <3>7, <4>1, <4>3 DEF DigestsProposedOnce
      <4> QED
        BY <3>5, <4>2, <4>3
    <3> QED
      BY <3>1, <3>3, <3>4, <3>6, <3>7 DEF DigestsProposedOnce
  <2> QED
    BY <2>2, <2>3, <2>4, <2>5 DEF Next, vars, Pass, Timer, ReceiveParents
<1> QED
  BY <1>1, <1>2, ProposerInvariant, PTL DEF Spec
=============================================================================
