----------------------------- MODULE CoreProofs -----------------------------
(***************************************************************************)
(* Proofs about Core for every committee, every set of headers and every   *)
(* bound: its type invariant, one vote per slot, no stranded header, what  *)
(* can stop the core, what the proposer is given, and that the core        *)
(* implements CausalDelivery.                                              *)
(*                                                                         *)
(* The handlers of Core are functions on the record w of what they change. *)
(* So each part of the inductive invariant is a predicate on such a record *)
(* too: a lemma per handler shows that it keeps the predicate, and the     *)
(* invariant of the state is the predicate of World.                       *)
(***************************************************************************)
EXTENDS Core, SharedLemmas

Aggregates == [used : SUBSET Authorities, certificates : SUBSET Ids]

Messages == [round : 1 .. MaxRound, parents : SUBSET Ids]

Cores ==
    [gcRound     : Nat,
     lastVoted   : SUBSET ((1 .. MaxRound) \X Authorities),
     processing  : SUBSET Ids,
     current     : Ids \cup {None},
     used        : SUBSET Authorities,
     weight      : 0 .. (QuorumThreshold - 1),
     aggregators : [0 .. MaxRound -> Aggregates],
     toProposer  : Seq(Messages),
     toConsensus : Seq(Ids),
     panicked    : BOOLEAN]

Worlds ==
    [core : Cores, certs : SUBSET Ids, headerWaiter : SUBSET Pending,
     certWaiter : [Ids -> Nat], voted : SUBSET Ids, assembled : SUBSET Ids]

-----------------------------------------------------------------------------
\* Rounds lie between 1 and MaxRound, and headers have the fields of headers.
LEMMA HeaderFacts ==
  /\ MaxRound \in Nat \ {0}
  /\ \A h \in Ids : /\ h.round \in 1 .. MaxRound
                    /\ h.author \in Authorities
                    /\ Parents[h] \subseteq Ids \cup GenesisIds
                    /\ h \notin GenesisIds
                    /\ SlotOf(h) \in (1 .. MaxRound) \X Authorities
  /\ Me \in Authorities
  /\ None \notin Ids
<1> DEFINE R == {h.round : h \in Ids}
<1>1. R \subseteq Nat \ {0}
  BY HeadersAssumption
<1>2. \E x \in R : \A y \in R : x >= y
  BY <1>1, HeadersAssumption
<1>3. MaxRound \in R /\ \A y \in R : MaxRound >= y
  BY <1>2 DEF MaxRound, Max
<1>4. \A h \in Ids : h.round \in 1 .. MaxRound /\ h.author \in Authorities
  BY <1>1, <1>3, HeadersAssumption
<1>5. \A h \in Ids : h \notin GenesisIds
  BY <1>4 DEF GenesisIds
<1> QED
  BY <1>1, <1>3, <1>4, <1>5, HeadersAssumption, OwnStakeAssumption DEF SlotOf

\* Our stake alone stays below the threshold, which is positive.
LEMMA StakeFacts ==
  /\ QuorumThreshold \in Nat \ {0}
  /\ \A a \in Authorities : Stake[a] \in Nat
  /\ Stake[Me] < QuorumThreshold
<1>1. TotalVotes \in Nat
  BY StakeType DEF Authorities
<1>2. \A a \in Authorities : Stake[a] \in Nat
  BY StakeAssumption
<1>3. StakeOf({Me}) = Stake[Me]
  BY StakeOfOne, OwnStakeAssumption
<1>4. QuorumThreshold \in Nat \ {0}
  BY <1>1 DEF QuorumThreshold
<1> QED
  BY <1>2, <1>3, <1>4, OwnStakeAssumption DEF IsQuorum

\* What a sequence holds after a message was appended.
LEMMA RangeAppend ==
  ASSUME NEW S, NEW s \in Seq(S), NEW e \in S
  PROVE  Append(s, e) \in Seq(S) /\ Range(Append(s, e)) = Range(s) \cup {e}
<1>1. /\ Append(s, e) \in Seq(S)
      /\ Len(Append(s, e)) = Len(s) + 1
      /\ \A i \in 1 .. Len(s) : Append(s, e)[i] = s[i]
      /\ Append(s, e)[Len(s) + 1] = e
  BY AppendProperties
<1>2. Range(s) = {s[i] : i \in 1 .. Len(s)} /\ Len(s) \in Nat
  BY RangeEquality, LenProperties
<1>3. Range(Append(s, e)) = {Append(s, e)[i] : i \in 1 .. (Len(s) + 1)}
  BY <1>1, RangeEquality
<1> QED
  BY <1>1, <1>2, <1>3

-----------------------------------------------------------------------------
(***************************************************************************)
(* What each part of a handler does to the fields.                         *)
(***************************************************************************)
\* What a handler that only looks at headers leaves alone.
SameCertificates(v, w) ==
    /\ w.certs = v.certs
    /\ w.certWaiter = v.certWaiter
    /\ w.assembled = v.assembled
    /\ w.core.aggregators = v.core.aggregators
    /\ w.core.toProposer = v.core.toProposer
    /\ w.core.toConsensus = v.core.toConsensus

SameVotes(v, w) ==
    /\ w.core.lastVoted = v.core.lastVoted
    /\ w.core.processing = v.core.processing
    /\ w.voted = v.voted
    /\ w.headerWaiter = v.headerWaiter

SameOwn(v, w) ==
    /\ w.core.current = v.core.current
    /\ w.core.used = v.core.used
    /\ w.core.weight = v.core.weight

LEMMA PanicFields ==
  ASSUME NEW w \in Worlds
  PROVE  LET v == Panic(w) IN
         /\ v \in Worlds
         /\ SameCertificates(w, v) /\ SameVotes(w, v) /\ SameOwn(w, v)
         /\ v.core.gcRound = w.core.gcRound
         /\ v.core.panicked
BY DEF Panic, Worlds, Cores, SameCertificates, SameVotes, SameOwn

LEMMA SuspendFields ==
  ASSUME NEW w \in Worlds, NEW h \in Ids, NEW on \in {"parents", "payload"}
  PROVE  LET v == Suspend(w, h, on) IN
         /\ v \in Worlds
         /\ v.core = w.core /\ SameCertificates(w, v) /\ v.voted = w.voted
         /\ w.headerWaiter \subseteq v.headerWaiter
         /\ \E p \in v.headerWaiter : p.id = h
         /\ \A p \in v.headerWaiter : p \in w.headerWaiter \/ p.id = h
<1>1. [id |-> h, on |-> on] \in Pending
  BY DEF Pending
<1> QED
  BY <1>1 DEF Suspend, Worlds, SameCertificates

LEMMA AppendVoteFields ==
  ASSUME NEW w \in Worlds, NEW a \in Authorities
  PROVE  LET v == AppendVote(w, a) IN
         /\ v \in Worlds
         /\ SameCertificates(w, v) /\ SameVotes(w, v)
         /\ v.core.gcRound = w.core.gcRound
         /\ v.core.panicked = w.core.panicked
         /\ v.core.current = w.core.current
         /\ v.core.used = w.core.used \cup {a}
         /\ v.core.weight = IF ReachesQuorum(w, a) THEN 0 ELSE w.core.weight + Stake[a]
<1> DEFINE n == IF ReachesQuorum(w, a) THEN 0 ELSE w.core.weight + Stake[a]
           u == w.core.used \cup {a}
<1>1. w.core.weight \in 0 .. (QuorumThreshold - 1) /\ w.core.used \in SUBSET Authorities
  BY DEF Worlds, Cores
<1>2. n \in 0 .. (QuorumThreshold - 1) /\ u \in SUBSET Authorities
  BY <1>1, StakeFacts DEF ReachesQuorum
<1>3. n = IF ReachesQuorum(w, a) THEN 0 ELSE w.core.weight + Stake[a]
  OBVIOUS
<1> DEFINE c == [w.core EXCEPT !.used = u, !.weight = n]
<1>4. AppendVote(w, a) = [w EXCEPT !.core = c]
  BY DEF AppendVote, Worlds, Cores
<1> HIDE DEF n, u
<1>5. /\ c \in Cores
      /\ c.used = u /\ c.weight = n /\ c.current = w.core.current
      /\ c.lastVoted = w.core.lastVoted /\ c.processing = w.core.processing
      /\ c.aggregators = w.core.aggregators /\ c.toProposer = w.core.toProposer
      /\ c.toConsensus = w.core.toConsensus
      /\ c.gcRound = w.core.gcRound /\ c.panicked = w.core.panicked
  BY <1>2 DEF Worlds, Cores
<1> HIDE DEF c
<1> QED
  BY <1>3, <1>4, <1>5 DEF Worlds, SameCertificates, SameVotes, u

LEMMA ParkFields ==
  ASSUME NEW w \in Worlds, NEW x \in Ids
  PROVE  LET v == Park(w, x) IN
         /\ v \in Worlds
         /\ v.core = w.core /\ v.certs = w.certs /\ SameVotes(w, v)
         /\ v.assembled = w.assembled
         /\ v.certWaiter = [w.certWaiter EXCEPT ![x] = @ + 1]
BY DEF Park, Worlds, SameVotes

\* A header is marked as processed, and ends in a vote, in the HeaderWaiter, or nowhere.
LEMMA BodyFields ==
  ASSUME NEW w \in Worlds, NEW h \in Ids
  PROVE  LET v == ProcessHeaderBody(w, h) IN
         /\ v \in Worlds
         /\ SameCertificates(w, v) /\ SameOwn(w, v)
         /\ v.core.gcRound = w.core.gcRound
         /\ v.core.panicked = w.core.panicked
         /\ v.core.processing = w.core.processing \cup {h}
         /\ w.headerWaiter \subseteq v.headerWaiter
         /\ \A p \in v.headerWaiter : p \in w.headerWaiter \/ p.id = h
         /\ \/ v.core.lastVoted = w.core.lastVoted /\ v.voted = w.voted
            \/ /\ CanVote(w, h)
               /\ v.core.lastVoted = w.core.lastVoted \cup {SlotOf(h)}
               /\ v.voted = w.voted \cup {h}
         /\ (Parents[h] # {} /\ WellFormedParents(h)) =>
                \/ SlotOf(h) \in v.core.lastVoted
                \/ /\ \E p \in v.headerWaiter : p.id = h
                   /\ MissingParents(w, h) # {} \/ h.author # Me
<1> DEFINE v == ProcessHeaderBody(w, h)
           w1 == [w EXCEPT !.core.processing = @ \cup {h}]
           w2 == [w1 EXCEPT !.core.lastVoted = @ \cup {SlotOf(h)}, !.voted = @ \cup {h}]
<1>1. /\ w1 \in Worlds
      /\ SameCertificates(w, w1) /\ SameOwn(w, w1)
      /\ w1.core.gcRound = w.core.gcRound /\ w1.core.panicked = w.core.panicked
      /\ w1.core.processing = w.core.processing \cup {h}
      /\ w1.headerWaiter = w.headerWaiter
      /\ w1.core.lastVoted = w.core.lastVoted /\ w1.voted = w.voted
  BY DEF Worlds, Cores, SameCertificates, SameOwn
<1>2. v = IF MissingParents(w, h) # {} THEN Suspend(w1, h, "parents")
          ELSE IF Parents[h] = {} \/ ~WellFormedParents(h) THEN w1
          ELSE IF MissingPayload(h) THEN Suspend(w1, h, "payload")
          ELSE IF CanVote(w, h) THEN w2 ELSE w1
  BY DEF ProcessHeaderBody
<1> DEFINE c == [w1.core EXCEPT !.lastVoted = @ \cup {SlotOf(h)}]
<1>3. w2 = [w1 EXCEPT !.core = c, !.voted = @ \cup {h}]
  BY <1>1 DEF Worlds
<1> HIDE DEF w1, v
<1>4. /\ c \in Cores /\ c.lastVoted = w1.core.lastVoted \cup {SlotOf(h)}
      /\ c.used = w1.core.used /\ c.weight = w1.core.weight /\ c.current = w1.core.current
      /\ c.processing = w1.core.processing
      /\ c.aggregators = w1.core.aggregators /\ c.toProposer = w1.core.toProposer
      /\ c.toConsensus = w1.core.toConsensus
      /\ c.gcRound = w1.core.gcRound /\ c.panicked = w1.core.panicked
  <2>1. SlotOf(h) \in (1 .. MaxRound) \X Authorities
    BY HeaderFacts
  <2> QED
    BY <1>1, <2>1 DEF Worlds, Cores
<1> HIDE DEF c, w2
<1>5. /\ w2 \in Worlds
      /\ SameCertificates(w1, w2) /\ SameOwn(w1, w2)
      /\ w2.core.gcRound = w1.core.gcRound /\ w2.core.panicked = w1.core.panicked
      /\ w2.core.processing = w1.core.processing
      /\ w2.headerWaiter = w1.headerWaiter
      /\ w2.core.lastVoted = w1.core.lastVoted \cup {SlotOf(h)}
      /\ w2.voted = w1.voted \cup {h}
  BY <1>1, <1>3, <1>4 DEF Worlds, SameCertificates, SameOwn
<1>6. CASE MissingParents(w, h) # {}
  BY <1>1, <1>2, <1>6, SuspendFields DEF SameCertificates, SameOwn, v
<1>7. CASE MissingParents(w, h) = {} /\ (Parents[h] = {} \/ ~WellFormedParents(h))
  BY <1>1, <1>2, <1>7 DEF SameCertificates, SameOwn, v
<1>8. CASE /\ MissingParents(w, h) = {} /\ ~(Parents[h] = {} \/ ~WellFormedParents(h))
           /\ MissingPayload(h)
  <2>1. h.author # Me
    BY <1>8 DEF MissingPayload
  <2> QED
    BY <1>1, <1>2, <1>8, <2>1, SuspendFields DEF SameCertificates, SameOwn, v
<1>9. CASE /\ MissingParents(w, h) = {} /\ ~(Parents[h] = {} \/ ~WellFormedParents(h))
           /\ ~MissingPayload(h)
  <2>1. CASE CanVote(w, h)
    BY <1>1, <1>2, <1>5, <1>9, <2>1 DEF SameCertificates, SameOwn, v
  <2>2. CASE ~CanVote(w, h)
    BY <1>1, <1>2, <1>9, <2>2 DEF SameCertificates, SameOwn, CanVote, v
  <2> QED
    BY <2>1, <2>2
<1> QED
  BY <1>6, <1>7, <1>8, <1>9

\* A certificate is stored, aggregated and passed on.
LEMMA AcceptFields ==
  ASSUME NEW w \in Worlds, NEW x \in Ids
  PROVE  LET v == Accept(w, x)
             agg == w.core.aggregators[x.round]
             fresh == x.author \notin agg.used
             used == agg.used \cup {x.author}
             held == IF fresh THEN agg.certificates \cup {x} ELSE agg.certificates
             ready == fresh /\ IsQuorum(used)
         IN
         /\ v \in Worlds
         /\ SameVotes(w, v) /\ SameOwn(w, v)
         /\ v.core.gcRound = w.core.gcRound
         /\ v.core.panicked = w.core.panicked
         /\ v.certWaiter = w.certWaiter
         /\ v.assembled = w.assembled
         /\ v.certs = w.certs \cup {x}
         /\ v.core.aggregators =
                [w.core.aggregators EXCEPT ![x.round] =
                    [used |-> used, certificates |-> IF ready THEN {} ELSE held]]
         /\ v.core.toConsensus = Append(w.core.toConsensus, x)
         /\ v.core.toProposer =
                IF ready THEN Append(w.core.toProposer, [round |-> x.round, parents |-> held])
                ELSE w.core.toProposer
         /\ used \subseteq Authorities
         /\ held \subseteq Ids
<1> DEFINE v == Accept(w, x)
           agg == w.core.aggregators[x.round]
           fresh == x.author \notin agg.used
           used == agg.used \cup {x.author}
           held == IF fresh THEN agg.certificates \cup {x} ELSE agg.certificates
           ready == fresh /\ IsQuorum(used)
           new == [used |-> used, certificates |-> IF ready THEN {} ELSE held]
           msg == [round |-> x.round, parents |-> held]
           a == [w.core.aggregators EXCEPT ![x.round] = new]
           p == IF ready THEN Append(w.core.toProposer, msg) ELSE w.core.toProposer
           q == Append(w.core.toConsensus, x)
           c == [w.core EXCEPT !.aggregators = a, !.toProposer = p, !.toConsensus = q]
<1>1. x.round \in 0 .. MaxRound /\ x.round \in 1 .. MaxRound /\ x.author \in Authorities
  BY HeaderFacts
<1>2. /\ w.core \in Cores /\ w.core.aggregators \in [0 .. MaxRound -> Aggregates]
      /\ w.core.toProposer \in Seq(Messages) /\ w.core.toConsensus \in Seq(Ids)
  BY DEF Worlds, Cores
<1>3. agg \in Aggregates
  BY <1>1, <1>2
<1>4. used \subseteq Authorities /\ held \subseteq Ids
  BY <1>1, <1>3 DEF Aggregates
<1>5. new \in Aggregates /\ msg \in Messages
  BY <1>1, <1>4 DEF Aggregates, Messages
<1>6. a \in [0 .. MaxRound -> Aggregates]
  BY <1>1, <1>2, <1>5
<1>7. p \in Seq(Messages) /\ q \in Seq(Ids)
  BY <1>2, <1>5, AppendProperties
<1>8. v = [w EXCEPT !.certs = @ \cup {x}, !.core = c]
  BY <1>1, <1>2, ZenonT(30) DEF Accept, Worlds
<1> HIDE DEF a, p, q
<1>9. /\ c \in Cores
      /\ c.aggregators = a /\ c.toProposer = p /\ c.toConsensus = q
      /\ c.used = w.core.used /\ c.weight = w.core.weight /\ c.current = w.core.current
      /\ c.processing = w.core.processing /\ c.lastVoted = w.core.lastVoted
      /\ c.gcRound = w.core.gcRound /\ c.panicked = w.core.panicked
  BY <1>2, <1>6, <1>7 DEF Cores
<1> HIDE DEF c, v
<1>10. /\ v \in Worlds
       /\ v.core = c
       /\ v.certs = w.certs \cup {x} /\ v.certWaiter = w.certWaiter
       /\ v.assembled = w.assembled /\ v.voted = w.voted /\ v.headerWaiter = w.headerWaiter
  BY <1>8, <1>9 DEF Worlds
<1>11. SameVotes(w, v) /\ SameOwn(w, v) /\ v.core.gcRound = w.core.gcRound
       /\ v.core.panicked = w.core.panicked
  BY <1>9, <1>10 DEF SameVotes, SameOwn
<1> QED
  BY <1>4, <1>9, <1>10, <1>11 DEF a, p, q, v

-----------------------------------------------------------------------------
(***************************************************************************)
(* The parts of the inductive invariant, as predicates on what the         *)
(* handlers change.  P is the set of our own headers so far.               *)
(***************************************************************************)
\* GivenParents of w.
Given(w, r) ==
    UNION {m.parents : m \in {n \in Range(w.core.toProposer) : n.round = r}}

\* The certificates of round r that w has passed on.
PassedOn(w, r) == {x \in Range(w.core.toConsensus) : x.round = r}

\* Where certificates come from.  The parents of a header of our own are stored, so its
\* certificate is never parked.
Sound(w, P) ==
    /\ w \in Worlds
    /\ w.core.current \in P \cup {None}
    /\ (w.core.current = None /\ Me \notin w.core.used) => w.core.weight = 0
    /\ w.assembled \subseteq P
    /\ \A h \in P : Parents[h] \subseteq GenesisIds \cup w.certs
    /\ w.certs \subseteq Others \cup w.assembled
    /\ \A x \in Ids : w.certWaiter[x] > 0 => x \in Others \cup w.assembled
    /\ \A p \in w.headerWaiter : p.id.author = Me => p.id \in P

\* What is passed on is stored, and given to the proposer or held back for it.
Passed(w) ==
    /\ Range(w.core.toConsensus) \subseteq w.certs
    /\ \A r \in 1 .. MaxRound :
        LET agg == w.core.aggregators[r] IN
        /\ Given(w, r) \cup agg.certificates \subseteq PassedOn(w, r)
        /\ agg.used \subseteq {x.author : x \in Given(w, r) \cup agg.certificates}

\* NoStrandedHeader of w, cr being the round of the garbage collector.
Unstranded(w, cr) ==
    \A h \in w.core.processing :
        (WellFormedParents(h) /\ h.round + GcDepth > cr)
            => \/ SlotOf(h) \in w.core.lastVoted
               \/ \E p \in w.headerWaiter : p.id = h

\* VoteOncePerSlot of w, with its reason: last_voted has every vote the garbage collector
\* has not overtaken.
Voting(w) ==
    /\ \A g \in w.voted : g.round < w.core.gcRound \/ SlotOf(g) \in w.core.lastVoted
    /\ \A g, h \in w.voted : (SlotOf(g) = SlotOf(h) /\ g # h) => g.round < w.core.gcRound

\* ParentsGivenOnce of w, with its reason: an aggregator knows the authors of all that was
\* passed on, and has either given it all away or holds it all.
Aggregated(w) ==
    \A r \in 1 .. MaxRound :
        r >= w.core.gcRound =>
            LET agg == w.core.aggregators[r] IN
            /\ agg.used = {x.author : x \in PassedOn(w, r)}
            /\ IF IsQuorum(agg.used)
               THEN agg.certificates = {} /\ Given(w, r) = PassedOn(w, r)
               ELSE agg.certificates = PassedOn(w, r) /\ Given(w, r) = {}
            /\ \A i, j \in DOMAIN w.core.toProposer :
                (i # j /\ w.core.toProposer[i].round = r /\ w.core.toProposer[j].round = r)
                    => w.core.toProposer[i].parents \cap w.core.toProposer[j].parents = {}

\* We make one header per round, each of a higher round than the last.
OneHeaderPerRound(w, P) ==
    /\ P # {} => w.core.current # None
    /\ \A h \in P : h.round <= w.core.current.round
    /\ \A g, h \in P : g.round = h.round => g = h

\* All of it; what a restart destroys holds only before the first one.
Good(w, P, cr, first) ==
    /\ P \subseteq {h \in Ids : h.author = Me}
    /\ Sound(w, P)
    /\ Passed(w)
    /\ Unstranded(w, cr)
    /\ first => Voting(w) /\ Aggregated(w) /\ OneHeaderPerRound(w, P)

\* No vote for a header of our own is forgotten, so none is repeated.
NothingForgotten(w, P) ==
    /\ ~w.core.panicked
    /\ \A h \in P : (Parents[h] # {} /\ WellFormedParents(h)) => SlotOf(h) \in w.core.lastVoted

(***************************************************************************)
(* The inductive invariant of Core.                                        *)
(***************************************************************************)
IInv ==
    /\ Good(World, proposed, consensusRound, restarts = 0)
    /\ core.gcRound = 0 \/ core.gcRound + GcDepth <= consensusRound
    /\ consensusRound \in 0 .. MaxRound
    /\ payloads \subseteq Ids
    /\ deliveries \in 0 .. MaxDeliveries
    /\ restarts \in 0 .. MaxRestarts
    /\ \A x \in Ids : certWaiter[x] <= deliveries
    /\ (restarts = 0 /\ consensusRound <= GcDepth) => NothingForgotten(World, proposed)

-----------------------------------------------------------------------------
(***************************************************************************)
(* The handlers keep the invariant.                                        *)
(***************************************************************************)
LEMMA CertificatesFrame ==
  ASSUME NEW w, NEW v, SameCertificates(w, v), v.core.gcRound = w.core.gcRound
  PROVE  /\ \A r : Given(v, r) = Given(w, r) /\ PassedOn(v, r) = PassedOn(w, r)
         /\ Passed(w) => Passed(v)
         /\ Aggregated(w) => Aggregated(v)
<1>1. \A r : Given(v, r) = Given(w, r) /\ PassedOn(v, r) = PassedOn(w, r)
  BY DEF SameCertificates, Given, PassedOn
<1> QED
  BY <1>1 DEF SameCertificates, Passed, Aggregated

LEMMA GoodBody ==
  ASSUME NEW w, NEW P, NEW cr, NEW first, Good(w, P, cr, first),
         NEW h \in Ids, h.author = Me => h \in P
  PROVE  Good(ProcessHeaderBody(w, h), P, cr, first)
<1> DEFINE v == ProcessHeaderBody(w, h)
<1>1. w \in Worlds
  BY DEF Good, Sound
<1>2. /\ v \in Worlds
      /\ SameCertificates(w, v) /\ SameOwn(w, v)
      /\ v.core.gcRound = w.core.gcRound
      /\ v.core.panicked = w.core.panicked
      /\ v.core.processing = w.core.processing \cup {h}
      /\ w.headerWaiter \subseteq v.headerWaiter
      /\ \A p \in v.headerWaiter : p \in w.headerWaiter \/ p.id = h
      /\ \/ v.core.lastVoted = w.core.lastVoted /\ v.voted = w.voted
         \/ /\ CanVote(w, h)
            /\ v.core.lastVoted = w.core.lastVoted \cup {SlotOf(h)}
            /\ v.voted = w.voted \cup {h}
      /\ (Parents[h] # {} /\ WellFormedParents(h)) =>
             \/ SlotOf(h) \in v.core.lastVoted
             \/ \E p \in v.headerWaiter : p.id = h
  BY <1>1, BodyFields
<1> HIDE DEF v
<1>3. Sound(v, P)
  BY <1>2 DEF Good, Sound, SameCertificates, SameOwn
<1>4. Passed(v) /\ (first => Aggregated(v))
  BY <1>2, CertificatesFrame DEF Good
<1>5. Unstranded(v, cr)
  <2>1. WellFormedParents(h) => Parents[h] # {}
    BY QuorumNonEmpty DEF WellFormedParents
  <2> QED
    BY <1>2, <2>1 DEF Good, Unstranded
<1>6. first => Voting(v)
  BY <1>2 DEF Good, Voting, CanVote, SlotOf
<1>7. first => OneHeaderPerRound(v, P)
  BY <1>2 DEF Good, OneHeaderPerRound, SameOwn
<1> QED
  BY <1>3, <1>4, <1>5, <1>6, <1>7 DEF Good, v

\* Headers are untouched: what Unstranded and Voting say stays.
LEMMA VotesFrame ==
  ASSUME NEW w, NEW v, SameVotes(w, v), v.core.gcRound = w.core.gcRound
  PROVE  /\ \A cr : Unstranded(w, cr) => Unstranded(v, cr)
         /\ Voting(w) => Voting(v)
BY DEF SameVotes, Unstranded, Voting

LEMMA GoodAppendVote ==
  ASSUME NEW w, NEW P, NEW cr, NEW first, Good(w, P, cr, first),
         NEW a \in Authorities, a = Me \/ w.core.current # None
  PROVE  Good(AppendVote(w, a), P, cr, first)
<1> DEFINE v == AppendVote(w, a)
<1>1. w \in Worlds
  BY DEF Good, Sound
<1>2. /\ v \in Worlds
      /\ SameCertificates(w, v) /\ SameVotes(w, v)
      /\ v.core.gcRound = w.core.gcRound
      /\ v.core.current = w.core.current
      /\ v.core.used = w.core.used \cup {a}
  BY <1>1, AppendVoteFields
<1> HIDE DEF v
<1>3. Sound(v, P)
  BY <1>2 DEF Good, Sound, SameCertificates, SameVotes
<1>4. first => OneHeaderPerRound(v, P)
  BY <1>2 DEF Good, OneHeaderPerRound
<1> QED
  BY <1>2, <1>3, <1>4, CertificatesFrame, VotesFrame DEF Good, v

LEMMA GoodPanic ==
  ASSUME NEW w, NEW P, NEW cr, NEW first, Good(w, P, cr, first)
  PROVE  Good(Panic(w), P, cr, first)
<1> DEFINE v == Panic(w)
<1>1. w \in Worlds
  BY DEF Good, Sound
<1>2. /\ v \in Worlds
      /\ SameCertificates(w, v) /\ SameVotes(w, v) /\ SameOwn(w, v)
      /\ v.core.gcRound = w.core.gcRound
  BY <1>1, PanicFields
<1> HIDE DEF v
<1>3. Sound(v, P)
  BY <1>2 DEF Good, Sound, SameCertificates, SameVotes, SameOwn
<1>4. first => OneHeaderPerRound(v, P)
  BY <1>2 DEF Good, OneHeaderPerRound, SameOwn
<1> QED
  BY <1>2, <1>3, <1>4, CertificatesFrame, VotesFrame DEF Good, v

LEMMA GoodPark ==
  ASSUME NEW w, NEW P, NEW cr, NEW first, Good(w, P, cr, first),
         NEW x \in Others \cup w.assembled, x \in Ids
  PROVE  Good(Park(w, x), P, cr, first)
<1> DEFINE v == Park(w, x)
<1>1. w \in Worlds
  BY DEF Good, Sound
<1>2. /\ v \in Worlds
      /\ v.core = w.core /\ v.certs = w.certs /\ SameVotes(w, v)
      /\ v.assembled = w.assembled
      /\ v.certWaiter = [w.certWaiter EXCEPT ![x] = @ + 1]
  BY <1>1, ParkFields
<1>3. w.certWaiter \in [Ids -> Nat]
  BY <1>1 DEF Worlds
<1> HIDE DEF v
<1>4. Sound(v, P)
  BY <1>2, <1>3 DEF Good, Sound, SameVotes
<1>5. first => OneHeaderPerRound(v, P)
  BY <1>2 DEF Good, OneHeaderPerRound
<1>6. Passed(v) /\ (first => Aggregated(v))
  BY <1>2 DEF Good, Passed, Aggregated, Given, PassedOn
<1> QED
  BY <1>2, <1>4, <1>5, <1>6, VotesFrame DEF Good, v

\* Our certificate counts as assembled from here on.
LEMMA GoodAssembled ==
  ASSUME NEW w, NEW P, NEW cr, NEW first, Good(w, P, cr, first), w.core.current # None
  PROVE  LET v == [w EXCEPT !.assembled = @ \cup {w.core.current}] IN
         /\ Good(v, P, cr, first)
         /\ v.core = w.core /\ v.certs = w.certs /\ v.certWaiter = w.certWaiter
         /\ v.assembled = w.assembled \cup {w.core.current}
<1> DEFINE v == [w EXCEPT !.assembled = @ \cup {w.core.current}]
<1>1. w \in Worlds /\ w.core.current \in P /\ w.core.current \in Ids
  BY DEF Good, Sound
<1>2. /\ v \in Worlds /\ v.core = w.core /\ v.certs = w.certs
      /\ v.voted = w.voted /\ v.headerWaiter = w.headerWaiter
      /\ v.certWaiter = w.certWaiter /\ v.assembled = w.assembled \cup {w.core.current}
  BY <1>1 DEF Worlds
<1> HIDE DEF v
<1>3. Sound(v, P)
  BY <1>1, <1>2 DEF Good, Sound
<1>4. Passed(v) /\ Unstranded(v, cr)
  BY <1>2 DEF Good, Passed, Unstranded, Given, PassedOn
<1>5. first => Voting(v) /\ Aggregated(v) /\ OneHeaderPerRound(v, P)
  BY <1>2 DEF Good, Voting, Aggregated, OneHeaderPerRound, Given, PassedOn
<1> QED
  BY <1>2, <1>3, <1>4, <1>5 DEF Good, v

(***************************************************************************)
(* The step of the abstract specification that leads from v to w: the      *)
(* certificates S are delivered.                                           *)
(***************************************************************************)
Delivers(v, w, S) ==
    /\ \A x \in S : Parents[x] \subseteq v.certs \cup GenesisIds
    /\ w.certs = v.certs \cup S
    /\ Range(w.core.toConsensus) = Range(v.core.toConsensus) \cup S
    /\ \A r \in 1 .. MaxRound :
        \/ Given(w, r) = Given(v, r)
        \/ /\ Given(v, r) \subseteq Given(w, r)
           /\ Given(w, r) \subseteq PassedOn(w, r)
           /\ IsQuorum({x.author : x \in Given(w, r)})
           /\ \E x \in S : x.round = r

\* What Accept does, in terms of what was passed on and given.
LEMMA AcceptGives ==
  ASSUME NEW w \in Worlds, NEW x \in Ids
  PROVE  LET v == Accept(w, x)
             agg == w.core.aggregators[x.round]
             fresh == x.author \notin agg.used
             used == agg.used \cup {x.author}
             held == IF fresh THEN agg.certificates \cup {x} ELSE agg.certificates
             ready == fresh /\ IsQuorum(used)
         IN
         /\ Range(v.core.toConsensus) = Range(w.core.toConsensus) \cup {x}
         /\ PassedOn(v, x.round) = PassedOn(w, x.round) \cup {x}
         /\ Given(v, x.round) = IF ready THEN Given(w, x.round) \cup held ELSE Given(w, x.round)
         /\ v.core.aggregators[x.round] =
                [used |-> used, certificates |-> IF ready THEN {} ELSE held]
         /\ \A r \in (1 .. MaxRound) \ {x.round} :
                /\ PassedOn(v, r) = PassedOn(w, r)
                /\ Given(v, r) = Given(w, r)
                /\ v.core.aggregators[r] = w.core.aggregators[r]
<1> DEFINE v == Accept(w, x)
           agg == w.core.aggregators[x.round]
           fresh == x.author \notin agg.used
           used == agg.used \cup {x.author}
           held == IF fresh THEN agg.certificates \cup {x} ELSE agg.certificates
           ready == fresh /\ IsQuorum(used)
           new == [used |-> used, certificates |-> IF ready THEN {} ELSE held]
           msg == [round |-> x.round, parents |-> held]
<1>1. /\ v.core.aggregators = [w.core.aggregators EXCEPT ![x.round] = new]
      /\ v.core.toConsensus = Append(w.core.toConsensus, x)
      /\ v.core.toProposer =
             IF ready THEN Append(w.core.toProposer, msg) ELSE w.core.toProposer
      /\ held \subseteq Ids
  BY AcceptFields
<1>2. x.round \in 1 .. MaxRound /\ x.round \in 0 .. MaxRound
  BY HeaderFacts
<1>3. /\ w.core.aggregators \in [0 .. MaxRound -> Aggregates]
      /\ w.core.toProposer \in Seq(Messages) /\ w.core.toConsensus \in Seq(Ids)
  BY DEF Worlds, Cores
<1>4. msg \in Messages /\ msg.round = x.round /\ msg.parents = held
  BY <1>1, <1>2 DEF Messages
<1> HIDE DEF v, new, msg, held, ready
<1>5. Range(v.core.toConsensus) = Range(w.core.toConsensus) \cup {x}
  BY <1>1, <1>3, RangeAppend
<1>6. Range(v.core.toProposer) =
          IF ready THEN Range(w.core.toProposer) \cup {msg} ELSE Range(w.core.toProposer)
  <2>1. Range(Append(w.core.toProposer, msg)) = Range(w.core.toProposer) \cup {msg}
    BY <1>3, <1>4, RangeAppend
  <2> QED
    BY <1>1, <2>1
<1>7. v.core.aggregators[x.round] = new
  BY <1>1, <1>2, <1>3
<1>8. Given(v, x.round) = IF ready THEN Given(w, x.round) \cup held ELSE Given(w, x.round)
  <2>1. CASE ready
    BY <1>4, <1>6, <2>1 DEF Given
  <2>2. CASE ~ready
    BY <1>6, <2>2 DEF Given
  <2> QED
    BY <2>1, <2>2
<1>9. ASSUME NEW r \in (1 .. MaxRound) \ {x.round}
      PROVE  /\ PassedOn(v, r) = PassedOn(w, r)
             /\ Given(v, r) = Given(w, r)
             /\ v.core.aggregators[r] = w.core.aggregators[r]
  <2>1. PassedOn(v, r) = PassedOn(w, r)
    BY <1>5 DEF PassedOn
  <2>2. {n \in Range(v.core.toProposer) : n.round = r}
            = {n \in Range(w.core.toProposer) : n.round = r}
    BY <1>4, <1>6
  <2>3. v.core.aggregators[r] = w.core.aggregators[r]
    BY <1>1, <1>2, <1>3
  <2> QED
    BY <2>1, <2>2, <2>3 DEF Given
<1>10. PassedOn(v, x.round) = PassedOn(w, x.round) \cup {x}
  <2>1. \A y : y \in PassedOn(v, x.round) <=> y \in PassedOn(w, x.round) \cup {x}
    BY <1>5 DEF PassedOn
  <2> QED
    BY <2>1
<1> QED
  BY <1>5, <1>7, <1>8, <1>9, <1>10, Zenon DEF v, new, held, ready

\* Before a restart, certificates of one slot are the same.
LEMMA OneCertificatePerSlot ==
  ASSUME NEW w, NEW P, NEW cr, Good(w, P, cr, TRUE),
         NEW x \in Others \cup w.assembled, NEW y \in Others \cup w.assembled,
         SlotOf(x) = SlotOf(y)
  PROVE  x = y
<1>1. w.assembled \subseteq P /\ P \subseteq {h \in Ids : h.author = Me}
  BY DEF Good, Sound
<1>2. x.author = y.author /\ x.round = y.round
  BY DEF SlotOf
<1>3. CASE x \in Others /\ y \in Others
  BY <1>3, OthersAssumption
<1>4. CASE x \in P /\ y \in P
  BY <1>2, <1>4 DEF Good, OneHeaderPerRound
<1> QED
  BY <1>1, <1>2, <1>3, <1>4, OthersAssumption

LEMMA AggregatedAccept ==
  ASSUME NEW w, NEW P, NEW cr, Good(w, P, cr, TRUE),
         NEW x \in Others \cup w.assembled, x \in Ids
  PROVE  Aggregated(Accept(w, x))
<1> DEFINE v == Accept(w, x)
           k == x.round
           agg == w.core.aggregators[k]
           fresh == x.author \notin agg.used
           used == agg.used \cup {x.author}
           held == IF fresh THEN agg.certificates \cup {x} ELSE agg.certificates
           ready == fresh /\ IsQuorum(used)
           msg == [round |-> k, parents |-> held]
<1>1. w \in Worlds
  BY DEF Good, Sound
<1>2. /\ v.core.gcRound = w.core.gcRound
      /\ v.core.toProposer =
             IF ready THEN Append(w.core.toProposer, msg) ELSE w.core.toProposer
      /\ held \subseteq Ids
  BY <1>1, AcceptFields
<1>3. /\ PassedOn(v, k) = PassedOn(w, k) \cup {x}
      /\ Given(v, k) = IF ready THEN Given(w, k) \cup held ELSE Given(w, k)
      /\ v.core.aggregators[k] = [used |-> used, certificates |-> IF ready THEN {} ELSE held]
      /\ \A r \in (1 .. MaxRound) \ {k} :
             /\ PassedOn(v, r) = PassedOn(w, r)
             /\ Given(v, r) = Given(w, r)
             /\ v.core.aggregators[r] = w.core.aggregators[r]
  BY <1>1, AcceptGives
<1>4. k \in 1 .. MaxRound
  BY HeaderFacts
<1>5. /\ Range(w.core.toConsensus) \subseteq Others \cup w.assembled
      /\ \A y \in PassedOn(w, k) : y.author = x.author => y = x
  <2>1. Range(w.core.toConsensus) \subseteq Others \cup w.assembled
    BY DEF Good, Passed, Sound
  <2>2. \A y \in PassedOn(w, k) : y \in Others \cup w.assembled /\ y.round = k
    BY <2>1 DEF PassedOn
  <2>3. \A y \in PassedOn(w, k) : y.author = x.author => SlotOf(y) = SlotOf(x)
    BY <2>2 DEF SlotOf
  <2> QED
    BY <2>1, <2>2, <2>3, OneCertificatePerSlot
<1>6. Aggregated(w)
  BY DEF Good
<1>7. /\ w.core.toProposer \in Seq(Messages)
      /\ DOMAIN w.core.toProposer = 1 .. Len(w.core.toProposer) /\ Len(w.core.toProposer) \in Nat
  BY <1>1, LenProperties DEF Worlds, Cores
<1>8. msg \in Messages /\ msg.round = k /\ msg.parents = held
  BY <1>2, <1>4 DEF Messages
\* A message that is already there has parents that were given.
<1>9. \A i \in DOMAIN w.core.toProposer :
          w.core.toProposer[i].parents \subseteq Given(w, w.core.toProposer[i].round)
  BY DEF Given, Range
<1> HIDE DEF v
<1>10. ASSUME NEW r \in 1 .. MaxRound, r >= w.core.gcRound, r # k
       PROVE  LET a == v.core.aggregators[r] IN
              /\ a.used = {y.author : y \in PassedOn(v, r)}
              /\ IF IsQuorum(a.used)
                 THEN a.certificates = {} /\ Given(v, r) = PassedOn(v, r)
                 ELSE a.certificates = PassedOn(v, r) /\ Given(v, r) = {}
  BY <1>3, <1>6, <1>10 DEF Aggregated
<1>11. ASSUME k >= w.core.gcRound
       PROVE  LET a == v.core.aggregators[k] IN
              /\ a.used = {y.author : y \in PassedOn(v, k)}
              /\ IF IsQuorum(a.used)
                 THEN a.certificates = {} /\ Given(v, k) = PassedOn(v, k)
                 ELSE a.certificates = PassedOn(v, k) /\ Given(v, k) = {}
  <2>1. /\ agg.used = {y.author : y \in PassedOn(w, k)}
        /\ IF IsQuorum(agg.used)
           THEN agg.certificates = {} /\ Given(w, k) = PassedOn(w, k)
           ELSE agg.certificates = PassedOn(w, k) /\ Given(w, k) = {}
    BY <1>4, <1>6, <1>11 DEF Aggregated
  <2>2. used = {y.author : y \in PassedOn(v, k)}
    BY <1>3, <2>1
  <2>3. fresh <=> x \notin PassedOn(w, k)
    BY <1>5, <2>1
  <2>4. agg.used \subseteq Authorities /\ used \subseteq Authorities
    <3>1. \A y \in PassedOn(w, k) : y \in Ids
      BY <1>1, RangeOfSeq DEF PassedOn, Worlds, Cores
    <3> QED
      BY <2>1, <3>1, HeaderFacts
  <2>5. IsQuorum(agg.used) => IsQuorum(used)
    BY <2>4, QuorumMonotone
  <2>6. CASE ~fresh
    <3>1. used = agg.used /\ held = agg.certificates /\ ~ready
      BY <2>6
    <3>2. PassedOn(v, k) = PassedOn(w, k)
      BY <1>3, <2>3, <2>6
    <3>3. Given(v, k) = Given(w, k)
      BY <1>3, <3>1
    <3>4. /\ v.core.aggregators[k].used = agg.used
          /\ v.core.aggregators[k].certificates = agg.certificates
      <4>1. v.core.aggregators[k] = [used |-> used, certificates |-> IF ready THEN {} ELSE held]
        BY <1>3
      <4> HIDE DEF agg, used, held, ready, k
      <4> QED
        BY <3>1, <4>1
    <3> QED
      BY <2>1, <3>2, <3>3, <3>4
  <2>7. CASE fresh /\ ready
    <3>1. Given(v, k) = Given(w, k) \cup agg.certificates \cup {x}
      BY <1>3, <2>7
    <3>2. Given(w, k) \cup agg.certificates = PassedOn(w, k)
      BY <2>1
    <3>3. /\ v.core.aggregators[k].used = used
          /\ v.core.aggregators[k].certificates = {}
      BY <1>3, <2>7
    <3>4. IsQuorum(used)
      BY <2>7
    <3> QED
      BY <1>3, <2>2, <3>1, <3>2, <3>3, <3>4
  <2>8. CASE fresh /\ ~ready
    <3>1. ~IsQuorum(used) /\ ~IsQuorum(agg.used)
      BY <2>5, <2>8
    <3>2. held = PassedOn(w, k) \cup {x} /\ Given(v, k) = {}
      BY <1>3, <2>1, <2>8, <3>1
    <3>3. /\ v.core.aggregators[k].used = used
          /\ v.core.aggregators[k].certificates = held
      <4>1. v.core.aggregators[k] = [used |-> used, certificates |-> IF ready THEN {} ELSE held]
        BY <1>3
      <4> HIDE DEF agg, used, held, ready, fresh, k
      <4> QED
        BY <2>8, <4>1
    <3> QED
      BY <1>3, <2>2, <3>1, <3>2, <3>3
  <2> QED
    BY <2>6, <2>7, <2>8
<1>12. ASSUME NEW r \in 1 .. MaxRound, r >= w.core.gcRound,
              NEW i \in DOMAIN v.core.toProposer, NEW j \in DOMAIN v.core.toProposer,
              i # j, v.core.toProposer[i].round = r, v.core.toProposer[j].round = r
       PROVE  v.core.toProposer[i].parents \cap v.core.toProposer[j].parents = {}
  <2> DEFINE n == Len(w.core.toProposer)
  <2>1. CASE ~ready
    BY <1>2, <1>6, <1>12, <2>1 DEF Aggregated
  <2>2. CASE ready
    <3>1. /\ v.core.toProposer = Append(w.core.toProposer, msg)
          /\ DOMAIN v.core.toProposer = 1 .. (n + 1)
          /\ \A l \in 1 .. n : v.core.toProposer[l] = w.core.toProposer[l]
          /\ v.core.toProposer[n + 1] = msg
      BY <1>2, <1>7, <1>8, <2>2, AppendProperties, LenProperties
    <3>2. CASE i \in 1 .. n /\ j \in 1 .. n
      <4>1. /\ v.core.toProposer[i] = w.core.toProposer[i]
            /\ v.core.toProposer[j] = w.core.toProposer[j]
            /\ i \in DOMAIN w.core.toProposer /\ j \in DOMAIN w.core.toProposer
        BY <1>7, <3>1, <3>2
      <4>2. \A l, m \in DOMAIN w.core.toProposer :
               (l # m /\ w.core.toProposer[l].round = r /\ w.core.toProposer[m].round = r)
                 => w.core.toProposer[l].parents \cap w.core.toProposer[m].parents = {}
        BY <1>6, <1>12 DEF Aggregated
      <4> HIDE DEF n, msg
      <4> QED
        BY <1>12, <4>1, <4>2
    \* What the aggregator held or what is new was not given before.
    <3>3. r = k => held \cap Given(w, k) = {}
      <4>1. SUFFICES ASSUME r = k PROVE held \cap Given(w, k) = {}
        OBVIOUS
      <4>2. /\ agg.used = {y.author : y \in PassedOn(w, k)}
            /\ IF IsQuorum(agg.used)
               THEN agg.certificates = {} /\ Given(w, k) = PassedOn(w, k)
               ELSE agg.certificates = PassedOn(w, k) /\ Given(w, k) = {}
        BY <1>4, <1>6, <1>12, <4>1 DEF Aggregated
      <4>3. x \notin PassedOn(w, k) /\ held = agg.certificates \cup {x}
        BY <2>2, <4>2
      <4> QED
        BY <4>2, <4>3
    <3>4. CASE i = n + 1 /\ j \in 1 .. n
      BY <1>7, <1>8, <1>9, <1>12, <3>1, <3>3, <3>4, ZenonT(30)
    <3>5. CASE i \in 1 .. n /\ j = n + 1
      BY <1>7, <1>8, <1>9, <1>12, <3>1, <3>3, <3>5, ZenonT(30)
    <3>6. n \in Nat /\ i \in 1 .. (n + 1) /\ j \in 1 .. (n + 1) /\ i # j
      BY <1>7, <1>12, <3>1
    <3> HIDE DEF n
    <3>7. \/ i \in 1 .. n /\ j \in 1 .. n
          \/ i = n + 1 /\ j \in 1 .. n
          \/ i \in 1 .. n /\ j = n + 1
      BY <3>6
    <3> QED
      BY <3>2, <3>4, <3>5, <3>7
  <2> QED
    BY <2>1, <2>2
<1>13. Aggregated(v)
  BY <1>2, <1>10, <1>11, <1>12 DEF Aggregated
<1> QED
  BY <1>13 DEF v

LEMMA GoodAccept ==
  ASSUME NEW w, NEW P, NEW cr, NEW first \in BOOLEAN, Good(w, P, cr, first),
         NEW x \in Others \cup w.assembled, x \in Ids
  PROVE  Good(Accept(w, x), P, cr, first)
<1> DEFINE v == Accept(w, x)
           k == x.round
           agg == w.core.aggregators[k]
           fresh == x.author \notin agg.used
           used == agg.used \cup {x.author}
           held == IF fresh THEN agg.certificates \cup {x} ELSE agg.certificates
           ready == fresh /\ IsQuorum(used)
<1>1. w \in Worlds
  BY DEF Good, Sound
<1>2. /\ v \in Worlds
      /\ SameVotes(w, v) /\ SameOwn(w, v)
      /\ v.core.gcRound = w.core.gcRound
      /\ v.certWaiter = w.certWaiter
      /\ v.assembled = w.assembled
      /\ v.certs = w.certs \cup {x}
  BY <1>1, AcceptFields
<1>3. /\ Range(v.core.toConsensus) = Range(w.core.toConsensus) \cup {x}
      /\ PassedOn(v, k) = PassedOn(w, k) \cup {x}
      /\ Given(v, k) = IF ready THEN Given(w, k) \cup held ELSE Given(w, k)
      /\ v.core.aggregators[k] = [used |-> used, certificates |-> IF ready THEN {} ELSE held]
      /\ \A r \in (1 .. MaxRound) \ {k} :
             /\ PassedOn(v, r) = PassedOn(w, r)
             /\ Given(v, r) = Given(w, r)
             /\ v.core.aggregators[r] = w.core.aggregators[r]
  BY <1>1, AcceptGives
<1>4. k \in 1 .. MaxRound
  BY HeaderFacts
<1>5. first => Aggregated(v)
  BY AggregatedAccept
<1> HIDE DEF v
<1>6. Sound(v, P)
  BY <1>2 DEF Good, Sound, SameVotes, SameOwn
<1>7. Passed(v)
  <2>1. Passed(w)
    BY DEF Good
  <2>2. Range(v.core.toConsensus) \subseteq v.certs
    BY <1>2, <1>3, <2>1 DEF Passed
  <2>3. ASSUME NEW r \in 1 .. MaxRound, r # k
        PROVE  LET a == v.core.aggregators[r] IN
               /\ Given(v, r) \cup a.certificates \subseteq PassedOn(v, r)
               /\ a.used \subseteq {y.author : y \in Given(v, r) \cup a.certificates}
    BY <1>3, <2>1, <2>3 DEF Passed
  <2>4. /\ v.core.aggregators[k].used = used
        /\ v.core.aggregators[k].certificates = IF ready THEN {} ELSE held
    BY <1>3
  <2>5. /\ Given(w, k) \cup agg.certificates \subseteq PassedOn(w, k)
        /\ agg.used \subseteq {y.author : y \in Given(w, k) \cup agg.certificates}
    BY <1>4, <2>1 DEF Passed
  <2>6. /\ held \subseteq PassedOn(v, k)
        /\ used \subseteq {y.author : y \in Given(w, k) \cup held}
    <3>1. PassedOn(v, k) = PassedOn(w, k) \cup {x}
      BY <1>3
    <3>2. agg.certificates \subseteq held /\ held \subseteq agg.certificates \cup {x}
          /\ (fresh => x \in held)
      OBVIOUS
    <3>3. used \subseteq agg.used \cup {x.author} /\ (~fresh => used = agg.used)
      OBVIOUS
    <3> HIDE DEF agg, used, held, ready, k, fresh
    <3> QED
      BY <2>5, <3>1, <3>2, <3>3
  <2>7. Given(v, k) \cup v.core.aggregators[k].certificates = Given(w, k) \cup held
    BY <1>3, <2>4
  <2>8. LET a == v.core.aggregators[k] IN
        /\ Given(v, k) \cup a.certificates \subseteq PassedOn(v, k)
        /\ a.used \subseteq {y.author : y \in Given(v, k) \cup a.certificates}
    BY <1>3, <2>4, <2>5, <2>6, <2>7
  <2> QED
    BY <2>2, <2>3, <2>8 DEF Passed
<1>8. first => OneHeaderPerRound(v, P)
  BY <1>2 DEF Good, OneHeaderPerRound, SameOwn
<1> QED
  BY <1>2, <1>5, <1>6, <1>7, <1>8, VotesFrame DEF Good, v

\* A certificate whose parents are stored is delivered the way the abstract specification
\* says.
LEMMA DeliversAccept ==
  ASSUME NEW w, NEW P, NEW cr, NEW first \in BOOLEAN, Good(w, P, cr, first),
         NEW x \in Others \cup w.assembled, x \in Ids, MissingParents(w, x) = {}
  PROVE  Delivers(w, Accept(w, x), {x})
<1> DEFINE v == Accept(w, x)
           k == x.round
           agg == w.core.aggregators[k]
           fresh == x.author \notin agg.used
           used == agg.used \cup {x.author}
           held == IF fresh THEN agg.certificates \cup {x} ELSE agg.certificates
           ready == fresh /\ IsQuorum(used)
<1>1. w \in Worlds /\ Passed(w)
  BY DEF Good, Sound
<1>2. v.certs = w.certs \cup {x} /\ used \subseteq Authorities
  BY <1>1, AcceptFields
<1>3. /\ Range(v.core.toConsensus) = Range(w.core.toConsensus) \cup {x}
      /\ PassedOn(v, k) = PassedOn(w, k) \cup {x}
      /\ Given(v, k) = IF ready THEN Given(w, k) \cup held ELSE Given(w, k)
      /\ \A r \in (1 .. MaxRound) \ {k} : Given(v, r) = Given(w, r)
  BY <1>1, AcceptGives
<1>4. k \in 1 .. MaxRound
  BY HeaderFacts
<1> HIDE DEF v
<1>5. CASE ready
  <2>1. /\ Given(w, k) \cup agg.certificates \subseteq PassedOn(w, k)
        /\ agg.used \subseteq {y.author : y \in Given(w, k) \cup agg.certificates}
    BY <1>1, <1>4 DEF Passed
  <2>2. /\ Given(v, k) = Given(w, k) \cup agg.certificates \cup {x}
        /\ Given(v, k) \subseteq PassedOn(v, k)
    BY <1>3, <1>5, <2>1
  <2>3. used \subseteq {y.author : y \in Given(v, k)}
    BY <2>1, <2>2
  <2>4. {y.author : y \in Given(v, k)} \subseteq Authorities
    <3>1. \A y \in Given(v, k) : y \in Ids
      BY <1>1, <1>3, <2>2, RangeOfSeq DEF PassedOn, Worlds, Cores
    <3> QED
      BY <3>1, HeaderFacts
  <2>5. IsQuorum({y.author : y \in Given(v, k)})
    BY <1>5, <2>3, <2>4, QuorumMonotone
  <2> QED
    BY <1>2, <1>3, <2>2, <2>5 DEF Delivers, MissingParents, v
<1>6. CASE ~ready
  <2>1. \A r \in 1 .. MaxRound : Given(v, r) = Given(w, r)
    BY <1>3, <1>6
  <2> QED
    BY <1>2, <1>3, <2>1 DEF Delivers, MissingParents, v
<1> QED
  BY <1>5, <1>6

\* Steps that leave certificates alone deliver nothing.
LEMMA DeliversNothing ==
  ASSUME NEW v, NEW w, w.certs = v.certs, w.core.toProposer = v.core.toProposer,
         w.core.toConsensus = v.core.toConsensus
  PROVE  Delivers(v, w, {})
BY DEF Delivers, Given, PassedOn

\* Two deliveries in a row are one, if all parents were stored before.
LEMMA DeliversChain ==
  ASSUME NEW u, NEW v, NEW w, NEW S, NEW T, Delivers(u, v, S), Delivers(v, w, T),
         \A x \in T : Parents[x] \subseteq u.certs \cup GenesisIds
  PROVE  Delivers(u, w, S \cup T)
<1>1. /\ w.certs = u.certs \cup (S \cup T)
      /\ Range(w.core.toConsensus) = Range(u.core.toConsensus) \cup (S \cup T)
      /\ \A x \in S \cup T : Parents[x] \subseteq u.certs \cup GenesisIds
  BY DEF Delivers
<1>2. \A r : PassedOn(v, r) \subseteq PassedOn(w, r)
  BY DEF Delivers, PassedOn
<1>3. ASSUME NEW r \in 1 .. MaxRound
      PROVE  \/ Given(w, r) = Given(u, r)
             \/ /\ Given(u, r) \subseteq Given(w, r)
                /\ Given(w, r) \subseteq PassedOn(w, r)
                /\ IsQuorum({x.author : x \in Given(w, r)})
                /\ \E x \in S \cup T : x.round = r
  <2>1. \/ Given(v, r) = Given(u, r)
        \/ /\ Given(u, r) \subseteq Given(v, r)
           /\ Given(v, r) \subseteq PassedOn(v, r)
           /\ IsQuorum({x.author : x \in Given(v, r)})
           /\ \E x \in S : x.round = r
    BY DEF Delivers
  <2>2. \/ Given(w, r) = Given(v, r)
        \/ /\ Given(v, r) \subseteq Given(w, r)
           /\ Given(w, r) \subseteq PassedOn(w, r)
           /\ IsQuorum({x.author : x \in Given(w, r)})
           /\ \E x \in T : x.round = r
    BY DEF Delivers
  <2>3. Given(v, r) \subseteq PassedOn(v, r) => Given(v, r) \subseteq PassedOn(w, r)
    BY <1>2
  <2> QED
    BY <2>1, <2>2, <2>3
<1> QED
  BY <1>1, <1>3 DEF Delivers

LEMMA HandleDelivery ==
  ASSUME NEW w, NEW P, NEW cr, NEW first \in BOOLEAN, Good(w, P, cr, first),
         NEW x \in Others \cup w.assembled
  PROVE  LET v == DeliverCertificate(w, x) IN
         /\ x \in Ids
         /\ Good(v, P, cr, first)
         /\ SameVotes(w, v) /\ SameOwn(w, v)
         /\ v.core.gcRound = w.core.gcRound
         /\ v.core.panicked = w.core.panicked
         /\ v.assembled = w.assembled
         /\ MissingParents(w, x) = {} => v.certWaiter = w.certWaiter /\ Delivers(w, v, {x})
         /\ MissingParents(w, x) # {} => v = Park(w, x) /\ Delivers(w, v, {})
<1>1. w \in Worlds /\ x \in Ids
  BY OthersAssumption DEF Good, Sound
<1>2. CASE MissingParents(w, x) = {}
  <2>1. DeliverCertificate(w, x) = Accept(w, x)
    BY <1>2 DEF DeliverCertificate
  <2>2. LET v == Accept(w, x) IN
        /\ SameVotes(w, v) /\ SameOwn(w, v)
        /\ v.core.gcRound = w.core.gcRound
        /\ v.core.panicked = w.core.panicked
        /\ v.assembled = w.assembled
        /\ v.certWaiter = w.certWaiter
    BY <1>1, AcceptFields
  <2> QED
    BY <1>1, <1>2, <2>1, <2>2, GoodAccept, DeliversAccept
<1>3. CASE MissingParents(w, x) # {}
  <2> DEFINE v == Park(w, x)
  <2>1. DeliverCertificate(w, x) = v
    BY <1>3 DEF DeliverCertificate
  <2>2. /\ v.core = w.core /\ v.certs = w.certs /\ SameVotes(w, v)
        /\ v.assembled = w.assembled
    BY <1>1, ParkFields
  <2>3. Good(v, P, cr, first)
    BY <1>1, GoodPark
  <2> HIDE DEF v
  <2>4. Delivers(w, v, {}) /\ SameOwn(w, v)
    BY <2>2, DeliversNothing DEF SameOwn
  <2> QED
    BY <1>1, <1>3, <2>1, <2>2, <2>3, <2>4 DEF v
<1> QED
  BY <1>2, <1>3

(***************************************************************************)
(* What holds between the record before and after a handler that parks no  *)
(* certificate.                                                            *)
(***************************************************************************)
Handled(w, v, P, cr, first) ==
    /\ Good(v, P, cr, first)
    /\ v.certWaiter = w.certWaiter
    /\ w.assembled \subseteq v.assembled
    /\ v.core.gcRound = w.core.gcRound
    /\ w.core.lastVoted \subseteq v.core.lastVoted

LEMMA HandleAssemble ==
  ASSUME NEW w, NEW P, NEW cr, NEW first \in BOOLEAN, Good(w, P, cr, first),
         w.core.current # None
  PROVE  LET v == Assemble(w) IN
         /\ Handled(w, v, P, cr, first)
         /\ w.core.current \in Ids
         /\ Delivers(w, v, {}) \/ Delivers(w, v, {w.core.current})
         /\ NothingForgotten(w, P) => NothingForgotten(v, P)
<1> DEFINE x == w.core.current
           w1 == [w EXCEPT !.assembled = @ \cup {w.core.current}]
           w2 == ProcessHeaderBody(w1, x)
           w3 == AppendVote(w2, Me)
           v == Assemble(w)
<1>1. x \in P /\ x \in Ids /\ x.author = Me /\ Me \in Authorities
  BY HeaderFacts DEF Good, Sound
<1>2. /\ Good(w1, P, cr, first)
      /\ w1.core = w.core /\ w1.certs = w.certs /\ w1.certWaiter = w.certWaiter
      /\ w1.assembled = w.assembled \cup {x}
  BY GoodAssembled
<1>3. v = IF x \in w.core.processing THEN DeliverCertificate(w1, x)
          ELSE IF ~VotesForSelf(w1, x) THEN DeliverCertificate(w2, x)
          ELSE IF Me \in w2.core.used THEN Panic(w2)
          ELSE DeliverCertificate(w3, x)
  BY DEF Assemble
<1> HIDE DEF w1, v
<1>4. Good(w2, P, cr, first)
  BY <1>1, <1>2, GoodBody
<1>5. Good(w3, P, cr, first)
  BY <1>1, <1>4, GoodAppendVote
<1>6. w1 \in Worlds /\ w2 \in Worlds
  BY <1>2, <1>4 DEF Good, Sound
<1>7. /\ SameCertificates(w1, w2) /\ SameOwn(w1, w2)
      /\ w2.core.gcRound = w1.core.gcRound
      /\ w2.core.panicked = w1.core.panicked
      /\ w1.core.lastVoted \subseteq w2.core.lastVoted
  BY <1>1, <1>6, BodyFields
<1> HIDE DEF w2
<1>8. /\ SameCertificates(w2, w3) /\ SameVotes(w2, w3)
      /\ w3.core.gcRound = w2.core.gcRound
      /\ w3.core.panicked = w2.core.panicked
  BY <1>1, <1>6, AppendVoteFields
<1> HIDE DEF w3
\* The parents of our header are stored.
<1>9. /\ MissingParents(w1, x) = {} /\ MissingParents(w2, x) = {}
      /\ MissingParents(w3, x) = {}
  BY <1>1, <1>2, <1>4, <1>5 DEF Good, Sound, MissingParents
<1>10. ASSUME NEW u, Good(u, P, cr, first), SameCertificates(w1, u),
              MissingParents(u, x) = {},
              u.core.gcRound = w.core.gcRound, u.core.panicked = w.core.panicked,
              w.core.lastVoted \subseteq u.core.lastVoted,
              v = DeliverCertificate(u, x)
       PROVE  /\ Handled(w, v, P, cr, first)
              /\ Delivers(w, v, {x})
              /\ NothingForgotten(w, P) => NothingForgotten(v, P)
  <2>1. x \in Others \cup u.assembled
    BY <1>2, <1>10 DEF SameCertificates
  <2>2. /\ Good(v, P, cr, first)
        /\ SameVotes(u, v)
        /\ v.core.gcRound = u.core.gcRound
        /\ v.core.panicked = u.core.panicked
        /\ v.assembled = u.assembled
        /\ v.certWaiter = u.certWaiter
        /\ Delivers(u, v, {x})
    BY <1>10, <2>1, HandleDelivery
  <2>3. Delivers(w, u, {})
    BY <1>2, <1>10, DeliversNothing DEF SameCertificates
  <2>4. Parents[x] \subseteq w.certs \cup GenesisIds
    BY <1>2, <1>9 DEF MissingParents
  <2>5. Delivers(w, v, {} \cup {x})
    BY <2>2, <2>3, <2>4, DeliversChain
  <2>6. {} \cup {x} = {x}
    OBVIOUS
  <2>7. Handled(w, v, P, cr, first)
    BY <1>2, <1>10, <2>2 DEF Handled, SameCertificates, SameVotes
  <2>8. NothingForgotten(w, P) => NothingForgotten(v, P)
    BY <1>10, <2>2 DEF NothingForgotten, SameVotes
  <2> QED
    BY <2>5, <2>6, <2>7, <2>8
<1>11. CASE x \in w.core.processing
  <2>1. SameCertificates(w1, w1)
    BY DEF SameCertificates
  <2> QED
    BY <1>1, <1>2, <1>3, <1>9, <1>10, <1>11, <2>1 DEF v
<1>12. CASE x \notin w.core.processing /\ ~VotesForSelf(w1, x)
  BY <1>1, <1>2, <1>3, <1>4, <1>7, <1>9, <1>10, <1>12 DEF v
<1>13. CASE x \notin w.core.processing /\ VotesForSelf(w1, x) /\ Me \notin w2.core.used
  <2>1. SameCertificates(w1, w3) /\ w.core.lastVoted \subseteq w3.core.lastVoted
    BY <1>2, <1>7, <1>8 DEF SameCertificates, SameVotes
  <2> QED
    BY <1>1, <1>2, <1>3, <1>5, <1>7, <1>8, <1>9, <1>10, <1>13, <2>1 DEF v
<1>14. CASE x \notin w.core.processing /\ VotesForSelf(w1, x) /\ Me \in w2.core.used
  <2>1. v = Panic(w2) /\ Good(v, P, cr, first)
    BY <1>3, <1>4, <1>14, GoodPanic
  <2>2. /\ SameCertificates(w2, v) /\ SameVotes(w2, v)
        /\ v.core.gcRound = w2.core.gcRound
    BY <1>6, <2>1, PanicFields
  <2>3. Delivers(w, v, {})
    BY <1>2, <1>7, <2>2, DeliversNothing DEF SameCertificates
  <2>4. Handled(w, v, P, cr, first)
    BY <1>2, <1>7, <2>1, <2>2 DEF Handled, SameCertificates, SameVotes
  <2>5. ~NothingForgotten(w, P)
    BY <1>1, <1>2, <1>14 DEF NothingForgotten, VotesForSelf, CanVote
  <2> QED
    BY <1>1, <2>3, <2>4, <2>5 DEF v
<1> QED
  BY <1>11, <1>12, <1>13, <1>14

LEMMA HandleVote ==
  ASSUME NEW w, NEW P, NEW cr, NEW first \in BOOLEAN, Good(w, P, cr, first),
         NEW a \in Authorities, a = Me \/ w.core.current # None
  PROVE  LET v == ProcessVote(w, a) IN
         /\ Handled(w, v, P, cr, first)
         /\ \/ Delivers(w, v, {})
            \/ w.core.current \in Ids /\ Delivers(w, v, {w.core.current})
         /\ (NothingForgotten(w, P) /\ (a = Me => Me \notin w.core.used))
                => NothingForgotten(v, P)
<1> DEFINE v == ProcessVote(w, a)
           w1 == AppendVote(w, a)
<1>1. w \in Worlds
  BY DEF Good, Sound
<1>2. Good(w1, P, cr, first)
  BY GoodAppendVote
<1>3. /\ SameCertificates(w, w1) /\ SameVotes(w, w1)
      /\ w1.core.gcRound = w.core.gcRound
      /\ w1.core.panicked = w.core.panicked
      /\ w1.core.current = w.core.current
  BY <1>1, AppendVoteFields
<1>4. v = IF a \in w.core.used THEN (IF a = Me THEN Panic(w) ELSE w)
          ELSE IF ReachesQuorum(w, a) THEN Assemble(w1) ELSE w1
  BY DEF ProcessVote
<1> HIDE DEF v, w1
<1>5. Delivers(w, w1, {})
  BY <1>3, DeliversNothing DEF SameCertificates
<1>6. Handled(w, w1, P, cr, first) /\ (NothingForgotten(w, P) => NothingForgotten(w1, P))
  BY <1>2, <1>3 DEF Handled, SameCertificates, SameVotes, NothingForgotten
<1>7. CASE a \in w.core.used /\ a = Me
  <2>1. v = Panic(w) /\ Good(v, P, cr, first)
    BY <1>4, <1>7, GoodPanic
  <2>2. SameCertificates(w, v) /\ SameVotes(w, v) /\ v.core.gcRound = w.core.gcRound
    BY <1>1, <2>1, PanicFields
  <2>3. Delivers(w, v, {})
    BY <2>2, DeliversNothing DEF SameCertificates
  <2> QED
    BY <1>7, <2>1, <2>2, <2>3 DEF Handled, SameCertificates, SameVotes, v
<1>8. CASE a \in w.core.used /\ a # Me
  <2>1. v = w /\ Delivers(w, w, {})
    BY <1>4, <1>8, DeliversNothing
  <2> QED
    BY <2>1 DEF Handled, v
<1>9. CASE a \notin w.core.used /\ ReachesQuorum(w, a)
  <2>1. w.core.current # None
    <3>1. w.core.weight + Stake[a] >= QuorumThreshold
      BY <1>9 DEF ReachesQuorum
    <3>2. ASSUME w.core.current = None PROVE FALSE
      <4>1. a = Me /\ w.core.weight = 0
        BY <1>9, <3>2 DEF Good, Sound
      <4> QED
        BY <3>1, <4>1, StakeFacts, HeaderFacts
    <3> QED
      BY <3>2
  <2>2. v = Assemble(w1) /\ w1.core.current # None
    BY <1>3, <1>4, <1>9, <2>1
  <2>3. /\ Handled(w1, v, P, cr, first)
        /\ w1.core.current \in Ids
        /\ Delivers(w1, v, {}) \/ Delivers(w1, v, {w1.core.current})
        /\ NothingForgotten(w1, P) => NothingForgotten(v, P)
    BY <1>2, <2>2, HandleAssemble
  <2>4. Handled(w, v, P, cr, first)
    BY <1>6, <2>3 DEF Handled
  <2>5. \A x \in {w1.core.current} : Parents[x] \subseteq w.certs \cup GenesisIds
    BY <1>3, <2>1 DEF Good, Sound
  <2>6. {} \cup {} = {} /\ {} \cup {w1.core.current} = {w.core.current}
    BY <1>3
  <2>7. Delivers(w, v, {}) \/ Delivers(w, v, {w.core.current})
    <3>1. Delivers(w1, v, {}) => Delivers(w, v, {} \cup {})
      BY <1>5, DeliversChain
    <3>2. Delivers(w1, v, {w1.core.current}) => Delivers(w, v, {} \cup {w1.core.current})
      BY <1>5, <2>5, DeliversChain
    <3> QED
      BY <2>3, <2>6, <3>1, <3>2
  <2> QED
    BY <1>3, <1>6, <2>3, <2>4, <2>7 DEF v
<1>10. CASE a \notin w.core.used /\ ~ReachesQuorum(w, a)
  BY <1>4, <1>5, <1>6, <1>10 DEF v
<1> QED
  BY <1>7, <1>8, <1>9, <1>10

LEMMA HandleHeader ==
  ASSUME NEW w, NEW P, NEW cr, NEW first \in BOOLEAN, Good(w, P, cr, first),
         NEW h \in Ids, h.author = Me => h \in P
  PROVE  LET v == ProcessHeader(w, h) IN
         /\ Handled(w, v, P, cr, first)
         /\ \/ Delivers(w, v, {})
            \/ /\ MissingParents(w, h) = {}
               /\ w.core.current \in Ids /\ Delivers(w, v, {w.core.current})
         /\ NothingForgotten(w, P) => NothingForgotten(v, P)
<1> DEFINE v == ProcessHeader(w, h)
           w1 == ProcessHeaderBody(w, h)
<1>1. w \in Worlds
  BY DEF Good, Sound
<1>2. Good(w1, P, cr, first)
  BY GoodBody
<1>3. /\ SameCertificates(w, w1) /\ SameOwn(w, w1)
      /\ w1.core.gcRound = w.core.gcRound
      /\ w1.core.panicked = w.core.panicked
      /\ w.core.lastVoted \subseteq w1.core.lastVoted
  BY <1>1, BodyFields
<1>4. v = IF VotesForSelf(w, h) THEN ProcessVote(w1, Me) ELSE w1
  BY DEF ProcessHeader
<1> HIDE DEF v, w1
<1>5. Delivers(w, w1, {})
  BY <1>3, DeliversNothing DEF SameCertificates
<1>6. Handled(w, w1, P, cr, first) /\ (NothingForgotten(w, P) => NothingForgotten(w1, P))
  BY <1>2, <1>3 DEF Handled, SameCertificates, NothingForgotten
<1>7. CASE VotesForSelf(w, h)
  <2>1. MissingParents(w, h) = {} /\ ~NothingForgotten(w, P)
    BY <1>7 DEF VotesForSelf, NothingForgotten, CanVote
  <2>2. /\ Handled(w1, v, P, cr, first)
        /\ \/ Delivers(w1, v, {})
           \/ w1.core.current \in Ids /\ Delivers(w1, v, {w1.core.current})
    BY <1>2, <1>4, <1>7, HeaderFacts, HandleVote
  <2>3. Handled(w, v, P, cr, first)
    BY <1>6, <2>2 DEF Handled
  <2>4. {} \cup {} = {} /\ {} \cup {w1.core.current} = {w.core.current}
    BY <1>3 DEF SameOwn
  <2>5. w.core.current \in Ids =>
            \A x \in {w1.core.current} : Parents[x] \subseteq w.certs \cup GenesisIds
    BY <1>3, HeaderFacts DEF Good, Sound, SameOwn
  <2>6. Delivers(w1, v, {}) => Delivers(w, v, {} \cup {})
    BY <1>5, DeliversChain
  <2>7. (w.core.current \in Ids /\ Delivers(w1, v, {w1.core.current}))
            => Delivers(w, v, {} \cup {w1.core.current})
    BY <1>5, <2>5, DeliversChain
  <2>8. w1.core.current = w.core.current
    BY <1>3 DEF SameOwn
  <2> QED
    BY <2>1, <2>2, <2>3, <2>4, <2>6, <2>7, <2>8 DEF v
<1>8. CASE ~VotesForSelf(w, h)
  BY <1>4, <1>5, <1>6, <1>8 DEF v
<1> QED
  BY <1>7, <1>8

\* At most two certificates are delivered.
DeliverStep(v, w) ==
    \E S \in SUBSET Ids : Delivers(v, w, S) /\ (S = {} \/ \E y, z \in Ids : S = {y, z})

LEMMA HandleCertificate ==
  ASSUME NEW w, NEW P, NEW cr, NEW first \in BOOLEAN, Good(w, P, cr, first),
         NEW x \in Others \cup w.assembled
  PROVE  LET v == ProcessCertificate(w, x) IN
         /\ x \in Ids
         /\ Good(v, P, cr, first)
         /\ v.core.gcRound = w.core.gcRound
         /\ v.certWaiter = w.certWaiter \/ v.certWaiter = Park(w, x).certWaiter
         /\ MissingParents(w, x) = {} => v.certWaiter = w.certWaiter
         /\ DeliverStep(w, v)
         /\ NothingForgotten(w, P) => NothingForgotten(v, P)
<1> DEFINE v == ProcessCertificate(w, x)
           w1 == IF x \in w.core.processing THEN w ELSE ProcessHeader(w, x)
<1>1. x \in Ids /\ (x.author = Me => x \in P)
  BY OthersAssumption DEF Good, Sound
<1>2. /\ Handled(w, w1, P, cr, first)
      /\ \/ Delivers(w, w1, {})
         \/ /\ MissingParents(w, x) = {}
            /\ w.core.current \in Ids /\ Delivers(w, w1, {w.core.current})
      /\ NothingForgotten(w, P) => NothingForgotten(w1, P)
  <2>1. CASE x \in w.core.processing
    <3>1. Delivers(w, w, {})
      BY DeliversNothing
    <3> QED
      BY <2>1, <3>1 DEF Handled
  <2>2. CASE x \notin w.core.processing
    BY <1>1, <2>2, HandleHeader
  <2> QED
    BY <2>1, <2>2
<1>3. v = IF w1.core.panicked THEN w1 ELSE DeliverCertificate(w1, x)
  BY DEF ProcessCertificate
<1> HIDE DEF v, w1
<1>4. CASE w1.core.panicked
  <2>1. v = w1 /\ Good(v, P, cr, first) /\ v.certWaiter = w.certWaiter
        /\ v.core.gcRound = w.core.gcRound
    BY <1>2, <1>3, <1>4 DEF Handled
  <2>2. DeliverStep(w, v)
    <3> USE DEF DeliverStep
    <3>1. CASE Delivers(w, w1, {})
      BY <2>1, <3>1
    <3>2. CASE w.core.current \in Ids /\ Delivers(w, w1, {w.core.current})
      <4>1. {w.core.current} = {w.core.current, w.core.current}
        OBVIOUS
      <4>2. {w.core.current} \in SUBSET Ids
        BY <3>2
      <4> QED
        BY <2>1, <3>2, <4>1, <4>2
    <3> QED
      BY <1>2, <3>1, <3>2
  <2> QED
    BY <1>1, <1>2, <2>1, <2>2 DEF v
<1>5. CASE ~w1.core.panicked
  <2>1. v = DeliverCertificate(w1, x) /\ x \in Others \cup w1.assembled
    BY <1>2, <1>3, <1>5 DEF Handled
  <2>2. /\ Good(w1, P, cr, first) /\ w1.certWaiter = w.certWaiter
        /\ w1.core.gcRound = w.core.gcRound /\ w1 \in Worlds /\ w \in Worlds
    BY <1>2 DEF Handled, Good, Sound
  <2>3. /\ Good(v, P, cr, first)
        /\ SameVotes(w1, v)
        /\ v.core.gcRound = w1.core.gcRound
        /\ v.core.panicked = w1.core.panicked
        /\ MissingParents(w1, x) = {} => v.certWaiter = w1.certWaiter /\ Delivers(w1, v, {x})
        /\ MissingParents(w1, x) # {} => v = Park(w1, x) /\ Delivers(w1, v, {})
    BY <2>1, <2>2, HandleDelivery, ZenonT(30)
  <2>4. MissingParents(w1, x) \subseteq MissingParents(w, x)
    BY <1>2 DEF Delivers, MissingParents
  <2>5. MissingParents(w1, x) # {} => v.certWaiter = Park(w, x).certWaiter
    BY <1>1, <2>2, <2>3 DEF Park, Worlds
  <2>6. NothingForgotten(w, P) => NothingForgotten(v, P)
    BY <1>2, <2>3 DEF NothingForgotten, SameVotes
  <2>7. DeliverStep(w, v)
    <3> USE DEF DeliverStep
    <3>1. PICK T \in SUBSET Ids :
              /\ Delivers(w, w1, T)
              /\ T = {} \/ (MissingParents(w, x) = {} /\ \E y \in Ids : T = {y})
      BY <1>2
    <3>2. CASE MissingParents(w1, x) = {}
      <4>1. Parents[x] \subseteq w.certs \cup GenesisIds
        <5>1. CASE T = {}
          BY <3>1, <3>2, <5>1 DEF Delivers, MissingParents
        <5>2. CASE MissingParents(w, x) = {}
          BY <5>2 DEF MissingParents
        <5> QED
          BY <3>1, <5>1, <5>2
      <4>2. Delivers(w, v, T \cup {x})
        BY <2>3, <3>1, <3>2, <4>1, DeliversChain
      <4>3. T \cup {x} \in SUBSET Ids /\ \E y, z \in Ids : T \cup {x} = {y, z}
        BY <1>1, <3>1
      <4> QED
        BY <4>2, <4>3
    <3>3. CASE MissingParents(w1, x) # {}
      <4>1. T = {} /\ Delivers(w, w1, {})
        BY <2>4, <3>1, <3>3
      <4>2. Delivers(w, v, {} \cup {})
        BY <2>3, <3>3, <4>1, DeliversChain
      <4> QED
        BY <4>2
    <3> QED
      BY <3>2, <3>3
  <2> QED
    BY <1>1, <2>2, <2>3, <2>4, <2>5, <2>6, <2>7 DEF v
<1> QED
  BY <1>4, <1>5

-----------------------------------------------------------------------------
(***************************************************************************)
(* The clean-up at the end of an iteration, and the iteration as a step.   *)
(***************************************************************************)
LEMMA GoodCleanup ==
  ASSUME NEW w, NEW P, NEW first, Good(w, P, consensusRound, first),
         consensusRound \in Nat,
         w.core.gcRound = 0 \/ w.core.gcRound + GcDepth <= consensusRound
  PROVE  LET v == Cleanup(w) IN
         /\ Good(v, P, consensusRound, first)
         /\ v.core.gcRound = 0 \/ v.core.gcRound + GcDepth <= consensusRound
         /\ v.certWaiter = w.certWaiter
         /\ v.certs = w.certs
         /\ v.core.toProposer = w.core.toProposer
         /\ v.core.toConsensus = w.core.toConsensus
         /\ consensusRound <= GcDepth => v = w
<1>1. CASE consensusRound <= GcDepth \/ w.core.panicked
  <2>1. Cleanup(w) = w
    BY <1>1 DEF Cleanup
  <2> QED
    BY <2>1
<1>2. CASE ~(consensusRound <= GcDepth \/ w.core.panicked)
  <2> DEFINE gc == consensusRound - GcDepth
             voters == {s \in w.core.lastVoted : s[1] >= gc}
             headers == {h \in w.core.processing : h.round >= gc}
             aggs == [r \in DOMAIN w.core.aggregators |->
                        IF r >= gc THEN w.core.aggregators[r] ELSE NoCertificates]
             c == [w.core EXCEPT !.lastVoted = voters, !.processing = headers,
                                 !.aggregators = aggs, !.gcRound = gc]
             v == Cleanup(w)
  <2>1. GcDepth \in Nat /\ gc \in Nat /\ gc + GcDepth = consensusRound
    BY <1>2, BoundsAssumption
  <2>2. w \in Worlds /\ w.core \in Cores /\ w.core.gcRound \in Nat
    BY DEF Good, Sound, Worlds, Cores
  <2>3. w.core.gcRound <= gc
    BY <2>1, <2>2
  <2>4. voters \in SUBSET ((1 .. MaxRound) \X Authorities) /\ headers \in SUBSET Ids
    BY <2>2 DEF Cores
  <2>5. NoCertificates \in Aggregates
    BY DEF NoCertificates, Aggregates
  <2>6. /\ aggs \in [0 .. MaxRound -> Aggregates]
        /\ \A r \in 0 .. MaxRound :
               aggs[r] = IF r >= gc THEN w.core.aggregators[r] ELSE NoCertificates
    BY <2>2, <2>5 DEF Cores
  <2>7. v = [w EXCEPT !.core = c]
    BY <1>2, <2>2 DEF Cleanup, Worlds, Cores
  <2>8. \A s \in w.core.lastVoted : s \in voters <=> s[1] >= gc
    OBVIOUS
  <2>9. \A h \in headers : h \in w.core.processing
    OBVIOUS
  <2>10. \A h : SlotOf(h)[1] = h.round
    BY DEF SlotOf
  <2> HIDE DEF gc, voters, headers, aggs
  <2>11. /\ c \in Cores
         /\ c.gcRound = gc /\ c.lastVoted = voters /\ c.processing = headers
         /\ c.aggregators = aggs /\ c.toProposer = w.core.toProposer
         /\ c.toConsensus = w.core.toConsensus
         /\ c.used = w.core.used /\ c.weight = w.core.weight /\ c.current = w.core.current
    BY <2>1, <2>2, <2>4, <2>6 DEF Cores
  <2> HIDE DEF c, v
  <2>12. /\ v \in Worlds /\ v.core = c
         /\ v.certs = w.certs /\ v.certWaiter = w.certWaiter /\ v.voted = w.voted
         /\ v.headerWaiter = w.headerWaiter /\ v.assembled = w.assembled
    BY <2>2, <2>7, <2>11 DEF Worlds
  <2>13. Sound(v, P)
    BY <2>11, <2>12 DEF Good, Sound
  <2>14. \A r : Given(v, r) = Given(w, r) /\ PassedOn(v, r) = PassedOn(w, r)
    BY <2>11, <2>12 DEF Given, PassedOn
  <2>15. Passed(v)
    <3>1. Passed(w) /\ MaxRound \in Nat
      BY HeaderFacts DEF Good
    <3>2. Range(v.core.toConsensus) \subseteq v.certs
      BY <2>11, <2>12, <3>1 DEF Passed
    <3>3. ASSUME NEW r \in 1 .. MaxRound
          PROVE  LET agg == v.core.aggregators[r] IN
                 /\ Given(v, r) \cup agg.certificates \subseteq PassedOn(v, r)
                 /\ agg.used \subseteq {x.author : x \in Given(v, r) \cup agg.certificates}
      <4>1. r \in 0 .. MaxRound /\ v.core.aggregators = aggs
        BY <2>11, <2>12, <3>1
      <4>2. CASE r >= gc
        BY <2>6, <2>14, <3>1, <4>1, <4>2 DEF Passed
      <4>3. CASE ~(r >= gc)
        BY <2>6, <2>14, <3>1, <4>1, <4>3 DEF Passed, NoCertificates
      <4> QED
        BY <4>2, <4>3
    <3> QED
      BY <3>2, <3>3 DEF Passed
  <2>16. Unstranded(v, consensusRound)
    <3> SUFFICES ASSUME NEW h \in headers, WellFormedParents(h),
                        h.round + GcDepth > consensusRound
                 PROVE  SlotOf(h) \in voters \/ \E p \in w.headerWaiter : p.id = h
      BY <2>11, <2>12 DEF Unstranded
    <3>1. \/ SlotOf(h) \in w.core.lastVoted
          \/ \E p \in w.headerWaiter : p.id = h
      BY <2>9 DEF Good, Unstranded
    <3>2. h \in Ids
      BY <2>4
    <3>3. h.round >= gc
      BY <2>1, <3>2, HeaderFacts
    <3> QED
      BY <2>8, <2>10, <3>1, <3>3
  <2>17. first => Voting(v)
    <3> SUFFICES ASSUME Voting(w) PROVE Voting(v)
      BY DEF Good
    <3>1. \A g \in w.voted : g \in Ids
      BY <2>2 DEF Worlds
    <3>2. \A g \in w.voted : g.round < w.core.gcRound => g.round < gc
      BY <2>1, <2>2, <2>3, <3>1, HeaderFacts
    <3>3. ASSUME NEW g \in w.voted PROVE g.round < gc \/ SlotOf(g) \in voters
      <4>1. CASE g.round < w.core.gcRound
        BY <3>2, <4>1
      <4>2. CASE SlotOf(g) \in w.core.lastVoted
        <5>1. g.round < gc \/ g.round >= gc
          BY <2>1, <3>1, HeaderFacts
        <5> QED
          BY <2>8, <2>10, <4>2, <5>1
      <4> QED
        BY <4>1, <4>2 DEF Voting
    <3> QED
      BY <2>11, <2>12, <3>2, <3>3 DEF Voting
  <2>18. first => Aggregated(v)
    <3> SUFFICES ASSUME Aggregated(w) PROVE Aggregated(v)
      BY DEF Good
    <3>1. \A r \in 1 .. MaxRound :
              r >= gc => /\ r >= w.core.gcRound
                         /\ v.core.aggregators[r] = w.core.aggregators[r]
      BY <2>1, <2>2, <2>3, <2>6, <2>11, <2>12, HeaderFacts
    <3> QED
      BY <2>11, <2>12, <2>14, <3>1 DEF Aggregated
  <2>19. first => OneHeaderPerRound(v, P)
    BY <2>11, <2>12 DEF Good, OneHeaderPerRound
  <2>20. Good(v, P, consensusRound, first)
    BY <2>13, <2>15, <2>16, <2>17, <2>18, <2>19 DEF Good
  <2> QED
    BY <1>2, <2>1, <2>11, <2>12, <2>20 DEF v
<1> QED
  BY <1>1, <1>2

\* An iteration ends in what the clean-up leaves.
LEMMA IterateResult ==
  ASSUME NEW w, Iterate(w)
  PROVE  /\ core' = Cleanup(w).core /\ certs' = Cleanup(w).certs
         /\ headerWaiter' = Cleanup(w).headerWaiter /\ certWaiter' = Cleanup(w).certWaiter
         /\ voted' = Cleanup(w).voted /\ assembled' = Cleanup(w).assembled
BY DEF Iterate

\* What an iteration must have done for the invariant to hold after its clean-up.
LEMMA IterateKeeps ==
  ASSUME IInv, NEW w, NEW P, Good(w, P, consensusRound, restarts = 0),
         w.core.gcRound = core.gcRound, Iterate(w),
         P = proposed', UNCHANGED <<payloads, consensusRound, restarts>>,
         deliveries' \in 0 .. MaxDeliveries, \A x \in Ids : w.certWaiter[x] <= deliveries',
         (restarts = 0 /\ consensusRound <= GcDepth) => NothingForgotten(w, P)
  PROVE  IInv' /\ Delivers(w, World', {})
<1> DEFINE v == Cleanup(w)
<1>1. consensusRound \in Nat /\ consensusRound \in 0 .. MaxRound
  BY HeaderFacts DEF IInv
<1>2. /\ Good(v, P, consensusRound, restarts = 0)
      /\ v.core.gcRound = 0 \/ v.core.gcRound + GcDepth <= consensusRound
      /\ v.certWaiter = w.certWaiter
      /\ v.certs = w.certs
      /\ v.core.toProposer = w.core.toProposer
      /\ v.core.toConsensus = w.core.toConsensus
      /\ consensusRound <= GcDepth => v = w
  BY <1>1, GoodCleanup DEF IInv
<1>3. v \in Worlds
  BY <1>2 DEF Good, Sound
<1>4. /\ core' = v.core /\ certs' = v.certs /\ headerWaiter' = v.headerWaiter
      /\ certWaiter' = v.certWaiter /\ voted' = v.voted /\ assembled' = v.assembled
  BY IterateResult
<1> HIDE DEF v
<1>5. World' = v
  BY <1>3, <1>4 DEF World, Worlds
<1>6. Good(World', proposed', consensusRound', (restarts = 0)')
  BY <1>2, <1>5
<1>7. Delivers(w, World', {})
  BY <1>2, <1>5, DeliversNothing
<1>8. (restarts' = 0 /\ consensusRound' <= GcDepth) => NothingForgotten(World', proposed')
  BY <1>2, <1>5
<1>9. core'.gcRound = 0 \/ core'.gcRound + GcDepth <= consensusRound'
  BY <1>2, <1>4
<1>10. \A x \in Ids : certWaiter'[x] <= deliveries'
  BY <1>2, <1>4
<1> QED
  BY <1>1, <1>6, <1>7, <1>8, <1>9, <1>10 DEF IInv

\* The fields of World.
LEMMA WorldFields ==
  ASSUME IInv
  PROVE  /\ World \in Worlds
         /\ World.core = core /\ World.certs = certs /\ World.headerWaiter = headerWaiter
         /\ World.certWaiter = certWaiter /\ World.voted = voted
         /\ World.assembled = assembled
         /\ Good(World, proposed, consensusRound, restarts = 0)
         /\ (restarts = 0) \in BOOLEAN
         /\ certWaiter \in [Ids -> Nat] /\ deliveries \in Nat /\ MaxDeliveries \in Nat
         /\ (restarts = 0 /\ consensusRound <= GcDepth) => NothingForgotten(World, proposed)
<1>1. World \in Worlds
  BY DEF IInv, Good, Sound
<1>2. /\ World.core = core /\ World.certs = certs /\ World.headerWaiter = headerWaiter
      /\ World.certWaiter = certWaiter /\ World.voted = voted
      /\ World.assembled = assembled
  BY DEF World
<1>3. certWaiter \in [Ids -> Nat]
  BY <1>1, <1>2 DEF Worlds
<1> QED
  BY <1>1, <1>2, <1>3, BoundsAssumption DEF IInv

\* What GivenParents offers is stored.
LEMMA GivenStored ==
  ASSUME IInv, NEW r \in 0 .. MaxRound
  PROVE  GivenParents(r) \subseteq GenesisIds \cup certs
<1>1. CASE r = 0
  BY <1>1 DEF GivenParents
<1>2. CASE r # 0
  <2>1. r \in 1 .. MaxRound
    BY <1>2, HeaderFacts
  <2>2. GivenParents(r) = Given(World, r)
    BY <1>2, WorldFields DEF GivenParents, Given
  <2>3. Given(World, r) \subseteq certs
    BY <2>1, WorldFields DEF Good, Passed, PassedOn
  <2> QED
    BY <2>2, <2>3
<1> QED
  BY <1>1, <1>2

\* A step that delivers nothing, before and after one that delivers.
LEMMA DeliverStepFrame ==
  ASSUME NEW t, NEW u, NEW v, NEW w, Delivers(t, u, {}), DeliverStep(u, v), Delivers(v, w, {})
  PROVE  DeliverStep(t, w)
<1>1. PICK S \in SUBSET Ids : Delivers(u, v, S) /\ (S = {} \/ \E y, z \in Ids : S = {y, z})
  BY DEF DeliverStep
<1>2. t.certs = u.certs
  BY DEF Delivers
<1>3. Delivers(t, v, {} \cup S)
  <2>1. \A x \in S : Parents[x] \subseteq t.certs \cup GenesisIds
    BY <1>1, <1>2 DEF Delivers
  <2> QED
    BY <1>1, <2>1, DeliversChain
<1>4. Delivers(t, w, ({} \cup S) \cup {})
  BY <1>3, DeliversChain
<1>5. ({} \cup S) \cup {} = S
  OBVIOUS
<1> QED
  BY <1>1, <1>4, <1>5 DEF DeliverStep

\* One certificate or none.
LEMMA DeliverStepOne ==
  ASSUME NEW v, NEW w, NEW x,
         Delivers(v, w, {}) \/ (x \in Ids /\ Delivers(v, w, {x}))
  PROVE  DeliverStep(v, w)
<1>1. CASE Delivers(v, w, {})
  BY <1>1 DEF DeliverStep
<1>2. CASE x \in Ids /\ Delivers(v, w, {x})
  <2>1. {x} = {x, x} /\ {x} \in SUBSET Ids
    BY <1>2
  <2> QED
    BY <1>2, <2>1 DEF DeliverStep
<1> QED
  BY <1>1, <1>2

-----------------------------------------------------------------------------
(***************************************************************************)
(* One lemma per action: it keeps the invariant, and its certificates are  *)
(* delivered the way the abstract specification says.                      *)
(***************************************************************************)
LEMMA StepReceiveHeader ==
  ASSUME IInv, NEW h \in Ids, ReceiveHeader(h)
  PROVE  IInv' /\ DeliverStep(World, World')
<1> DEFINE v == ProcessHeader(World, h)
<1>1. h.author = Me => h \in proposed
  BY SentAssumption DEF ReceiveHeader
<1>2. /\ Handled(World, v, proposed, consensusRound, restarts = 0)
      /\ \/ Delivers(World, v, {})
         \/ core.current \in Ids /\ Delivers(World, v, {core.current})
      /\ NothingForgotten(World, proposed) => NothingForgotten(v, proposed)
  BY <1>1, WorldFields, HandleHeader
<1>3. DeliverStep(World, v)
  BY <1>2, DeliverStepOne
<1>4. /\ Good(v, proposed, consensusRound, restarts = 0)
      /\ v.core.gcRound = core.gcRound /\ v.certWaiter = certWaiter
  BY <1>2, WorldFields DEF Handled
<1>5. Iterate(v) /\ UNCHANGED <<payloads, consensusRound, proposed, deliveries, restarts>>
  BY DEF ReceiveHeader
<1> HIDE DEF v
<1>6. deliveries' \in 0 .. MaxDeliveries /\ \A x \in Ids : v.certWaiter[x] <= deliveries'
  BY <1>4, <1>5 DEF IInv
<1>7. IInv' /\ Delivers(v, World', {})
  BY <1>2, <1>4, <1>5, <1>6, WorldFields, IterateKeeps
<1>8. Delivers(World, World, {})
  BY DeliversNothing
<1> QED
  BY <1>3, <1>7, <1>8, DeliverStepFrame

LEMMA StepReceiveVote ==
  ASSUME IInv, NEW a \in Authorities, ReceiveVote(a)
  PROVE  IInv' /\ DeliverStep(World, World')
<1> DEFINE v == ProcessVote(World, a)
<1>1. a # Me /\ World.core.current # None
  BY WorldFields DEF ReceiveVote
<1>2. /\ Handled(World, v, proposed, consensusRound, restarts = 0)
      /\ \/ Delivers(World, v, {})
         \/ World.core.current \in Ids /\ Delivers(World, v, {World.core.current})
      /\ NothingForgotten(World, proposed) => NothingForgotten(v, proposed)
  BY <1>1, WorldFields, HandleVote
<1>3. DeliverStep(World, v)
  BY <1>2, DeliverStepOne
<1>4. /\ Good(v, proposed, consensusRound, restarts = 0)
      /\ v.core.gcRound = core.gcRound /\ v.certWaiter = certWaiter
  BY <1>2, WorldFields DEF Handled
<1>5. Iterate(v) /\ UNCHANGED <<payloads, consensusRound, proposed, deliveries, restarts>>
  BY DEF ReceiveVote
<1> HIDE DEF v
<1>6. deliveries' \in 0 .. MaxDeliveries /\ \A x \in Ids : v.certWaiter[x] <= deliveries'
  BY <1>4, <1>5 DEF IInv
<1>7. IInv' /\ Delivers(v, World', {})
  BY <1>2, <1>4, <1>5, <1>6, WorldFields, IterateKeeps
<1>8. Delivers(World, World, {})
  BY DeliversNothing
<1> QED
  BY <1>3, <1>7, <1>8, DeliverStepFrame

LEMMA StepOwnHeader ==
  ASSUME IInv, NEW h \in Ids, OwnHeader(h)
  PROVE  IInv' /\ DeliverStep(World, World')
<1> DEFINE w == [World EXCEPT !.core.current = h, !.core.used = {}, !.core.weight = 0]
           c == [core EXCEPT !.current = h, !.used = {}, !.weight = 0]
           P == proposed \cup {h}
           first == restarts = 0
           w1 == ProcessHeaderBody(w, h)
           v == ProcessHeader(w, h)
<1>1. /\ h.author = Me
      /\ core.current # None => core.current.round < h.round
      /\ Parents[h] \subseteq GivenParents(h.round - 1)
      /\ P = proposed'
      /\ Iterate(v) /\ UNCHANGED <<payloads, consensusRound, deliveries, restarts>>
  BY DEF OwnHeader
<1>2. w = [World EXCEPT !.core = c]
  BY DEF World
<1>3. core \in Cores
  BY WorldFields DEF Worlds
<1>4. /\ c \in Cores /\ c.current = h /\ c.used = {} /\ c.weight = 0
      /\ c.gcRound = core.gcRound /\ c.lastVoted = core.lastVoted
      /\ c.processing = core.processing /\ c.aggregators = core.aggregators
      /\ c.toProposer = core.toProposer /\ c.toConsensus = core.toConsensus
      /\ c.panicked = core.panicked
  <2>1. 0 \in 0 .. (QuorumThreshold - 1)
    BY StakeFacts
  <2> QED
    BY <1>3, <2>1 DEF Cores
<1> HIDE DEF c, w
<1>5. /\ w \in Worlds /\ w.core = c /\ w.certs = World.certs
      /\ w.headerWaiter = World.headerWaiter
      /\ w.certWaiter = World.certWaiter /\ w.voted = World.voted
      /\ w.assembled = World.assembled
  BY <1>2, <1>4, WorldFields DEF Worlds
<1>6. Parents[h] \subseteq GenesisIds \cup certs
  <2>1. h.round - 1 \in 0 .. MaxRound
    BY HeaderFacts
  <2> QED
    BY <1>1, <2>1, GivenStored
<1>7. Good(w, P, consensusRound, first)
  <2>1. Good(World, proposed, consensusRound, first)
    BY WorldFields
  <2>2. P \subseteq {g \in Ids : g.author = Me}
    BY <1>1, <2>1 DEF Good
  <2>3. Sound(w, P)
    BY <1>4, <1>5, <1>6, <2>1, WorldFields, HeaderFacts DEF Good, Sound
  <2>4. Passed(w) /\ (first => Aggregated(w))
    <3>1. SameCertificates(World, w) /\ w.core.gcRound = World.core.gcRound
      BY <1>4, <1>5, WorldFields DEF SameCertificates
    <3> QED
      BY <2>1, <3>1, CertificatesFrame DEF Good
  <2>5. Unstranded(w, consensusRound) /\ (first => Voting(w))
    <3>1. SameVotes(World, w) /\ w.core.gcRound = World.core.gcRound
      BY <1>4, <1>5, WorldFields DEF SameVotes
    <3> QED
      BY <2>1, <3>1, VotesFrame DEF Good
  <2>6. first => OneHeaderPerRound(w, P)
    <3> SUFFICES ASSUME OneHeaderPerRound(World, proposed) PROVE OneHeaderPerRound(w, P)
      BY <2>1 DEF Good
    <3>1. \A g \in proposed : g.round \in Nat /\ h.round \in Nat
      BY <2>2, HeaderFacts
    <3>2. \A g \in proposed : g.round < h.round
      <4> SUFFICES ASSUME NEW g \in proposed PROVE g.round < h.round
        OBVIOUS
      <4>1. core.current # None /\ g.round <= core.current.round
        BY WorldFields DEF OneHeaderPerRound
      <4>2. core.current \in Ids
        BY <1>3, <4>1 DEF Cores
      <4> QED
        BY <1>1, <3>1, <4>1, <4>2, HeaderFacts
    <3>3. h # None /\ h.round <= h.round
      BY HeaderFacts
    <3>4. \A g \in P : g.round <= h.round
      BY <3>1, <3>2, <3>3
    <3>5. \A f, g \in P : f.round = g.round => f = g
      <4>1. \A f, g \in proposed : f.round = g.round => f = g
        BY DEF OneHeaderPerRound
      <4>2. \A g \in proposed : g.round # h.round
        BY <3>1, <3>2
      <4> QED
        BY <4>1, <4>2
    <3> QED
      BY <1>4, <1>5, <3>3, <3>4, <3>5 DEF OneHeaderPerRound
  <2> QED
    BY <2>2, <2>3, <2>4, <2>5, <2>6 DEF Good
<1>8. first \in BOOLEAN /\ (h.author = Me => h \in P)
  OBVIOUS
<1>9. /\ Handled(w, v, P, consensusRound, first)
      /\ \/ Delivers(w, v, {})
         \/ w.core.current \in Ids /\ Delivers(w, v, {w.core.current})
  BY <1>7, <1>8, HandleHeader
<1>10. DeliverStep(w, v) /\ Delivers(World, w, {})
  BY <1>4, <1>5, <1>9, WorldFields, DeliverStepOne, DeliversNothing
\* Our vote for this header is the first one, and no quorum.
<1>11. NothingForgotten(World, proposed) => NothingForgotten(v, P)
  <2> SUFFICES ASSUME NothingForgotten(World, proposed) PROVE NothingForgotten(v, P)
    OBVIOUS
  <2>1. /\ w1 \in Worlds
        /\ SameOwn(w, w1)
        /\ w1.core.panicked = w.core.panicked
        /\ w.core.lastVoted \subseteq w1.core.lastVoted
        /\ (Parents[h] # {} /\ WellFormedParents(h)) =>
               SlotOf(h) \in w1.core.lastVoted \/ MissingParents(w, h) # {} \/ h.author # Me
    BY <1>5, BodyFields
  <2>2. MissingParents(w, h) = {}
    BY <1>5, <1>6, WorldFields DEF MissingParents
  <2>3. NothingForgotten(w1, P)
    BY <1>1, <1>4, <1>5, <2>1, <2>2, WorldFields DEF NothingForgotten
  <2>4. v = IF VotesForSelf(w, h) THEN ProcessVote(w1, Me) ELSE w1
    BY DEF ProcessHeader
  <2>5. Good(w1, P, consensusRound, first)
    BY <1>7, <1>8, GoodBody
  <2>6. Me \notin w1.core.used
    BY <1>4, <1>5, <2>1 DEF SameOwn
  <2>7. NothingForgotten(ProcessVote(w1, Me), P)
    <3> HIDE DEF w1
    <3> QED
      BY <1>8, <2>3, <2>5, <2>6, HeaderFacts, HandleVote
  <2> QED
    BY <2>3, <2>4, <2>7
<1>12. /\ Good(v, P, consensusRound, first)
       /\ v.core.gcRound = core.gcRound /\ v.certWaiter = certWaiter
  BY <1>4, <1>5, <1>9, WorldFields DEF Handled
<1> HIDE DEF v, P
<1>13. deliveries' \in 0 .. MaxDeliveries /\ \A x \in Ids : v.certWaiter[x] <= deliveries'
  BY <1>1, <1>12 DEF IInv
<1>14. IInv' /\ Delivers(v, World', {})
  BY <1>1, <1>11, <1>12, <1>13, WorldFields, IterateKeeps
<1> QED
  BY <1>10, <1>14, DeliverStepFrame

LEMMA StepReceiveCertificate ==
  ASSUME IInv, NEW x \in Ids, ReceiveCertificate(x)
  PROVE  IInv' /\ DeliverStep(World, World')
<1> DEFINE v == ProcessCertificate(World, x)
           first == restarts = 0
<1>1. /\ x \in Others \cup World.assembled
      /\ deliveries < MaxDeliveries /\ deliveries' = deliveries + 1
      /\ Iterate(v) /\ UNCHANGED <<payloads, consensusRound, proposed, restarts>>
  BY WorldFields DEF ReceiveCertificate
<1>2. /\ Good(v, proposed, consensusRound, first)
      /\ v.core.gcRound = World.core.gcRound
      /\ v.certWaiter = World.certWaiter \/ v.certWaiter = Park(World, x).certWaiter
      /\ DeliverStep(World, v)
      /\ NothingForgotten(World, proposed) => NothingForgotten(v, proposed)
  BY <1>1, WorldFields, HandleCertificate
<1> HIDE DEF v
<1>3. deliveries' \in 0 .. MaxDeliveries
  BY <1>1, WorldFields
<1>4. \A y \in Ids : v.certWaiter[y] <= deliveries'
  <2>1. \A y \in Ids : certWaiter[y] \in Nat /\ certWaiter[y] <= deliveries
    BY WorldFields DEF IInv
  <2>2. \A y \in Ids : Park(World, x).certWaiter[y] =
                          IF y = x THEN certWaiter[y] + 1 ELSE certWaiter[y]
    BY WorldFields DEF Park, Worlds
  <2>3. deliveries \in Nat /\ World.certWaiter = certWaiter
    BY WorldFields
  <2>4. \A y \in Ids : World.certWaiter[y] <= deliveries'
    BY <1>1, <2>1, <2>3
  <2>5. \A y \in Ids : Park(World, x).certWaiter[y] <= deliveries'
    BY <1>1, <2>1, <2>2, <2>3
  <2> QED
    BY <1>2, <2>4, <2>5
<1>5. IInv' /\ Delivers(v, World', {})
  BY <1>1, <1>2, <1>3, <1>4, WorldFields, IterateKeeps
<1>6. Delivers(World, World, {})
  BY DeliversNothing
<1> QED
  BY <1>2, <1>5, <1>6, DeliverStepFrame

\* A header that comes back is no longer in the HeaderWaiter, so the core starts on it as
\* if it had never seen it.
LEMMA StepLoopbackHeader ==
  ASSUME IInv, NEW p \in headerWaiter, LoopbackHeader(p)
  PROVE  IInv' /\ DeliverStep(World, World')
<1> DEFINE h == p.id
           w0 == [World EXCEPT !.headerWaiter = @ \ {p}]
           c == [core EXCEPT !.processing = @ \ {h}]
           w == [World EXCEPT !.headerWaiter = @ \ {p}, !.core = c]
           first == restarts = 0
           v == ProcessHeader(w, h)
<1>1. core \in Cores /\ h \in Ids
  BY WorldFields DEF Worlds, Pending
<1>2. /\ c \in Cores /\ c.processing = core.processing \ {h}
      /\ c.current = core.current /\ c.used = core.used /\ c.weight = core.weight
      /\ c.gcRound = core.gcRound /\ c.lastVoted = core.lastVoted
      /\ c.aggregators = core.aggregators
      /\ c.toProposer = core.toProposer /\ c.toConsensus = core.toConsensus
      /\ c.panicked = core.panicked
  BY <1>1 DEF Cores
<1>3. ProcessHeader(w0, h) = v
  <2>1. [w0 EXCEPT !.core.processing = @ \cup {h}] = [w EXCEPT !.core.processing = @ \cup {h}]
    <3>1. (core.processing \ {h}) \cup {h} = core.processing \cup {h}
      OBVIOUS
    <3>2. [core EXCEPT !.processing = @ \cup {h}] = [c EXCEPT !.processing = @ \cup {h}]
      BY <1>1, <3>1 DEF Cores
    <3>3. /\ [w0 EXCEPT !.core.processing = @ \cup {h}]
                = [w0 EXCEPT !.core = [core EXCEPT !.processing = @ \cup {h}]]
          /\ [w EXCEPT !.core.processing = @ \cup {h}]
                = [w EXCEPT !.core = [c EXCEPT !.processing = @ \cup {h}]]
      BY DEF World
    <3> HIDE DEF c
    <3>4. \A d : [w0 EXCEPT !.core = d] = [w EXCEPT !.core = d]
      BY DEF World
    <3> QED
      BY <3>2, <3>3, <3>4
  <2>2. w0.certs = w.certs /\ w0.core.lastVoted = w.core.lastVoted
    BY <1>2 DEF World
  <2>3. /\ MissingParents(w0, h) = MissingParents(w, h)
        /\ CanVote(w0, h) <=> CanVote(w, h)
    BY <2>2 DEF MissingParents, CanVote
  <2> HIDE DEF w0, w
  <2>4. ProcessHeaderBody(w0, h) = ProcessHeaderBody(w, h)
    <3> DEFINE Marked(u) == [u EXCEPT !.core.processing = @ \cup {h}]
               Rest(u, m) ==
                   IF MissingParents(u, h) # {} THEN Suspend(m, h, "parents")
                   ELSE IF Parents[h] = {} \/ ~WellFormedParents(h) THEN m
                   ELSE IF MissingPayload(h) THEN Suspend(m, h, "payload")
                   ELSE IF CanVote(u, h)
                        THEN [m EXCEPT !.core.lastVoted = @ \cup {SlotOf(h)},
                                       !.voted = @ \cup {h}]
                   ELSE m
    <3>1. /\ ProcessHeaderBody(w0, h) = Rest(w0, Marked(w0))
          /\ ProcessHeaderBody(w, h) = Rest(w, Marked(w))
      BY DEF ProcessHeaderBody
    <3>2. \A m : Rest(w0, m) = Rest(w, m)
      BY <2>3
    <3>3. Marked(w0) = Marked(w)
      BY <2>1
    <3> HIDE DEF Marked, Rest
    <3> QED
      BY <3>1, <3>2, <3>3
  <2>5. VotesForSelf(w0, h) <=> VotesForSelf(w, h)
    BY <2>3 DEF VotesForSelf
  <2> QED
    BY <2>4, <2>5 DEF ProcessHeader
<1>4. Iterate(v) /\ UNCHANGED <<payloads, consensusRound, proposed, deliveries, restarts>>
  BY <1>3 DEF LoopbackHeader
<1> HIDE DEF c, v
<1>5. /\ w \in Worlds /\ w.core = c /\ w.certs = World.certs
      /\ w.headerWaiter = World.headerWaiter \ {p}
      /\ w.certWaiter = World.certWaiter /\ w.voted = World.voted
      /\ w.assembled = World.assembled
  BY <1>2, WorldFields DEF Worlds
<1> HIDE DEF w
<1>6. Good(World, proposed, consensusRound, first) /\ first \in BOOLEAN
  BY WorldFields
<1>7. Good(w, proposed, consensusRound, first)
  <2>1. Sound(w, proposed)
    BY <1>2, <1>5, <1>6, WorldFields DEF Good, Sound
  <2>2. Passed(w) /\ (first => Aggregated(w))
    <3>1. SameCertificates(World, w) /\ w.core.gcRound = World.core.gcRound
      BY <1>2, <1>5, WorldFields DEF SameCertificates
    <3> QED
      BY <1>6, <3>1, CertificatesFrame DEF Good
  <2>3. Unstranded(w, consensusRound)
    <3> SUFFICES ASSUME NEW g \in core.processing \ {h}, WellFormedParents(g),
                        g.round + GcDepth > consensusRound
                 PROVE  SlotOf(g) \in core.lastVoted \/ \E q \in w.headerWaiter : q.id = g
      BY <1>2, <1>5 DEF Unstranded
    <3>1. SlotOf(g) \in core.lastVoted \/ \E q \in headerWaiter : q.id = g
      BY <1>6, WorldFields DEF Good, Unstranded
    <3>2. \A q \in headerWaiter : q.id = g => q \in w.headerWaiter
      BY <1>5, WorldFields
    <3> QED
      BY <3>1, <3>2
  <2>4. first => Voting(w) /\ OneHeaderPerRound(w, proposed)
    BY <1>2, <1>5, <1>6, WorldFields DEF Good, Voting, OneHeaderPerRound
  <2> QED
    BY <1>6, <2>1, <2>2, <2>3, <2>4 DEF Good
<1>8. h.author = Me => h \in proposed
  BY <1>6, WorldFields DEF Good, Sound
<1>9. NothingForgotten(World, proposed) => NothingForgotten(w, proposed)
  BY <1>2, <1>5, WorldFields DEF NothingForgotten
<1>10. /\ Handled(w, v, proposed, consensusRound, first)
       /\ \/ Delivers(w, v, {})
          \/ w.core.current \in Ids /\ Delivers(w, v, {w.core.current})
       /\ NothingForgotten(w, proposed) => NothingForgotten(v, proposed)
  BY <1>1, <1>6, <1>7, <1>8, HandleHeader DEF v
<1>11. DeliverStep(w, v) /\ Delivers(World, w, {})
  BY <1>2, <1>5, <1>10, WorldFields, DeliverStepOne, DeliversNothing
<1>12. /\ Good(v, proposed, consensusRound, first)
       /\ v.core.gcRound = core.gcRound /\ v.certWaiter = certWaiter
  BY <1>2, <1>5, <1>10, WorldFields DEF Handled
<1>13. deliveries' \in 0 .. MaxDeliveries /\ \A x \in Ids : v.certWaiter[x] <= deliveries'
  BY <1>4, <1>12 DEF IInv
<1>14. IInv' /\ Delivers(v, World', {})
  BY <1>4, <1>9, <1>10, <1>12, <1>13, WorldFields, IterateKeeps
<1> QED
  BY <1>11, <1>14, DeliverStepFrame

LEMMA StepLoopbackCertificate ==
  ASSUME IInv, NEW x \in Ids, LoopbackCertificate(x)
  PROVE  IInv' /\ DeliverStep(World, World')
<1> DEFINE cw == [certWaiter EXCEPT ![x] = @ - 1]
           w == [World EXCEPT !.certWaiter[x] = @ - 1]
           first == restarts = 0
           v == ProcessCertificate(w, x)
<1>1. /\ certWaiter[x] > 0 /\ Parents[x] \subseteq certs
      /\ Iterate(v) /\ UNCHANGED <<payloads, consensusRound, proposed, deliveries, restarts>>
  BY DEF LoopbackCertificate
<1>2. cw \in [Ids -> Nat] /\ \A y \in Ids : cw[y] <= certWaiter[y]
  BY <1>1, WorldFields
<1>3. w = [World EXCEPT !.certWaiter = cw]
  BY DEF World
<1> HIDE DEF cw, w, v
<1>4. /\ w \in Worlds /\ w.core = core /\ w.certs = certs
      /\ w.headerWaiter = headerWaiter /\ w.certWaiter = cw /\ w.voted = voted
      /\ w.assembled = assembled
  BY <1>2, <1>3, WorldFields DEF Worlds
<1>5. Good(World, proposed, consensusRound, first) /\ first \in BOOLEAN
  BY WorldFields
<1>6. Good(w, proposed, consensusRound, first)
  <2>1. \A y \in Ids : cw[y] > 0 => certWaiter[y] > 0
    BY <1>2, WorldFields
  <2>2. Sound(w, proposed)
    BY <1>4, <1>5, <2>1, WorldFields DEF Good, Sound
  <2>3. \A r : Given(w, r) = Given(World, r) /\ PassedOn(w, r) = PassedOn(World, r)
    BY <1>4, WorldFields DEF Given, PassedOn
  <2>4. Passed(w) /\ (first => Aggregated(w))
    BY <1>4, <1>5, <2>3, WorldFields DEF Good, Passed, Aggregated
  <2>5. SameVotes(World, w) /\ w.core.gcRound = World.core.gcRound
    BY <1>4, WorldFields DEF SameVotes
  <2>6. Unstranded(w, consensusRound) /\ (first => Voting(w))
    BY <1>5, <2>5, VotesFrame DEF Good
  <2>7. first => OneHeaderPerRound(w, proposed)
    BY <1>4, <1>5, WorldFields DEF Good, OneHeaderPerRound
  <2> QED
    BY <1>5, <2>2, <2>4, <2>6, <2>7 DEF Good
<1>7. x \in Others \cup w.assembled /\ MissingParents(w, x) = {}
  BY <1>1, <1>4, <1>5, WorldFields DEF Good, Sound, MissingParents
<1>8. /\ Good(v, proposed, consensusRound, first)
      /\ v.core.gcRound = w.core.gcRound
      /\ v.certWaiter = w.certWaiter
      /\ DeliverStep(w, v)
      /\ NothingForgotten(w, proposed) => NothingForgotten(v, proposed)
  BY <1>5, <1>6, <1>7, HandleCertificate DEF v
<1>9. NothingForgotten(World, proposed) => NothingForgotten(w, proposed)
  BY <1>4, WorldFields DEF NothingForgotten
<1>10. deliveries' \in 0 .. MaxDeliveries /\ \A y \in Ids : v.certWaiter[y] <= deliveries'
  <2>1. deliveries' = deliveries /\ v.certWaiter = cw
    BY <1>1, <1>4, <1>8
  <2>2. \A y \in Ids : certWaiter[y] <= deliveries /\ certWaiter[y] \in Nat /\ cw[y] \in Nat
    BY <1>2, WorldFields DEF IInv
  <2> QED
    BY <1>2, <2>1, <2>2, WorldFields DEF IInv
<1>11. Delivers(World, w, {})
  BY <1>4, WorldFields, DeliversNothing
<1>12. IInv' /\ Delivers(v, World', {})
  BY <1>1, <1>4, <1>8, <1>9, <1>10, IterateKeeps, WorldFields
<1> QED
  BY <1>8, <1>11, <1>12, DeliverStepFrame

LEMMA StepRefuseMessage ==
  ASSUME IInv, RefuseMessage
  PROVE  IInv' /\ DeliverStep(World, World')
<1>1. Iterate(World) /\ UNCHANGED <<payloads, consensusRound, proposed, deliveries, restarts>>
  BY DEF RefuseMessage
<1>2. deliveries' \in 0 .. MaxDeliveries /\ \A x \in Ids : World.certWaiter[x] <= deliveries'
  BY <1>1, WorldFields DEF IInv
<1>3. IInv' /\ Delivers(World, World', {})
  BY <1>1, <1>2, WorldFields, IterateKeeps
<1> QED
  BY <1>3 DEF DeliverStep

\* The steps that are not iterations of the core leave World alone, or shrink the
\* HeaderWaiter, or raise the round of the garbage collector.
LEMMA StepReceivePayload ==
  ASSUME IInv, NEW h \in Ids, ReceivePayload(h)
  PROVE  IInv' /\ World' = World
<1>1. /\ UNCHANGED <<core, certs, consensusRound, headerWaiter, certWaiter, proposed, voted,
                     assembled, deliveries, restarts>>
      /\ payloads' = payloads \cup {h}
  BY DEF ReceivePayload
<1>2. World' = World
  BY <1>1 DEF World
<1> QED
  BY <1>1, <1>2 DEF IInv

LEMMA StepCommit ==
  ASSUME IInv, NEW x \in Ids, Commit(x)
  PROVE  IInv' /\ World' = World
<1>1. /\ UNCHANGED <<core, certs, payloads, headerWaiter, certWaiter, proposed, voted,
                     assembled, deliveries, restarts>>
      /\ consensusRound' \in (consensusRound + 1) .. x.round
  BY DEF Commit
<1>2. World' = World
  BY <1>1 DEF World
<1>3. consensusRound' \in 0 .. MaxRound /\ consensusRound \in Nat /\ GcDepth \in Nat
      /\ consensusRound' \in Nat
  BY <1>1, HeaderFacts, BoundsAssumption DEF IInv
<1>4. core.gcRound \in Nat
  BY WorldFields DEF Worlds, Cores
<1>5. core.gcRound = 0 \/ core.gcRound + GcDepth <= consensusRound'
  BY <1>1, <1>3, <1>4 DEF IInv
<1>6. Unstranded(World, consensusRound')
  <2> SUFFICES ASSUME NEW h \in World.core.processing, WellFormedParents(h),
                      h.round + GcDepth > consensusRound'
               PROVE  \/ SlotOf(h) \in World.core.lastVoted
                      \/ \E p \in World.headerWaiter : p.id = h
    BY DEF Unstranded
  <2>1. h \in Ids
    BY WorldFields DEF Worlds, Cores
  <2>2. h.round + GcDepth > consensusRound
    BY <1>1, <1>3, <2>1, HeaderFacts
  <2> QED
    BY <2>2, WorldFields DEF Good, Unstranded
<1>7. Good(World, proposed, consensusRound', restarts = 0)
  BY <1>6, WorldFields DEF Good
<1>8. (restarts = 0 /\ consensusRound' <= GcDepth) => NothingForgotten(World, proposed)
  <2>1. consensusRound' <= GcDepth => consensusRound <= GcDepth
    BY <1>1, <1>3
  <2> QED
    BY <2>1, WorldFields
<1> QED
  BY <1>1, <1>2, <1>3, <1>5, <1>7, <1>8 DEF IInv

LEMMA StepCleanupWaiter ==
  ASSUME IInv, CleanupWaiter
  PROVE  IInv' /\ Delivers(World, World', {})
<1> DEFINE w == World'
           first == restarts = 0
<1>1. /\ UNCHANGED <<core, certs, payloads, consensusRound, certWaiter, proposed, voted,
                     assembled, deliveries, restarts>>
      /\ headerWaiter' = {p \in headerWaiter : p.id.round > consensusRound - GcDepth}
  BY DEF CleanupWaiter
<1>2. /\ w.core = core /\ w.certs = certs /\ w.certWaiter = certWaiter
      /\ w.headerWaiter = headerWaiter' /\ w.voted = voted /\ w.assembled = assembled
      /\ w = [core |-> core, certs |-> certs, headerWaiter |-> headerWaiter',
              certWaiter |-> certWaiter, voted |-> voted, assembled |-> assembled]
  <2>1. UNCHANGED <<core, certs, certWaiter, voted, assembled>>
    BY <1>1
  <2> QED
    BY <2>1 DEF World
<1>3. headerWaiter' \subseteq headerWaiter
  BY <1>1
<1> HIDE DEF w
<1>4. w \in Worlds
  BY <1>2, <1>3, WorldFields DEF Worlds
<1>5. Good(World, proposed, consensusRound, first)
  BY WorldFields
<1>6. Sound(w, proposed)
  BY <1>2, <1>3, <1>4, <1>5, WorldFields DEF Good, Sound
<1>7. Passed(w) /\ (first => Aggregated(w))
  <2>1. SameCertificates(World, w) /\ w.core.gcRound = World.core.gcRound
    BY <1>2, WorldFields DEF SameCertificates
  <2> QED
    BY <1>5, <2>1, CertificatesFrame DEF Good
<1>8. Unstranded(w, consensusRound)
  <2> SUFFICES ASSUME NEW h \in core.processing, WellFormedParents(h),
                      h.round + GcDepth > consensusRound
               PROVE  SlotOf(h) \in core.lastVoted \/ \E p \in headerWaiter' : p.id = h
    BY <1>2 DEF Unstranded
  <2>1. SlotOf(h) \in core.lastVoted \/ \E p \in headerWaiter : p.id = h
    BY <1>5, WorldFields DEF Good, Unstranded
  <2>2. h \in Ids
    BY WorldFields DEF Worlds, Cores
  <2>3. h.round > consensusRound - GcDepth
    BY <2>2, HeaderFacts, BoundsAssumption DEF IInv
  <2> QED
    BY <1>1, <2>1, <2>3
<1>9. first => Voting(w) /\ OneHeaderPerRound(w, proposed)
  BY <1>2, <1>5, WorldFields DEF Good, Voting, OneHeaderPerRound
<1>10. Good(w, proposed, consensusRound, first)
  BY <1>5, <1>6, <1>7, <1>8, <1>9 DEF Good
<1>11. (first /\ consensusRound <= GcDepth) => NothingForgotten(w, proposed)
  BY <1>2, WorldFields DEF NothingForgotten
<1>12. IInv'
  BY <1>1, <1>10, <1>11 DEF IInv, w
<1> QED
  BY <1>2, <1>12, WorldFields, DeliversNothing DEF w

\* The state of a core that starts.
LEMMA BootFields ==
  /\ Boot \in Cores
  /\ Boot.gcRound = 0 /\ Boot.lastVoted = {} /\ Boot.processing = {} /\ Boot.current = None
  /\ Boot.used = {} /\ Boot.weight = 0 /\ ~Boot.panicked
  /\ \A r \in 0 .. MaxRound : Boot.aggregators[r] = NoCertificates
  /\ Boot.toProposer = <<>> /\ Boot.toConsensus = <<>>
<1>1. 0 \in 0 .. (QuorumThreshold - 1)
  BY StakeFacts
<1>2. NoCertificates \in Aggregates
  BY DEF NoCertificates, Aggregates
<1> QED
  BY <1>1, <1>2 DEF Boot, Cores

\* A core that starts with the certificates it has stored.
LEMMA GoodBoot ==
  ASSUME NEW w, NEW P, NEW first \in BOOLEAN, w \in Worlds, w.core = Boot,
         P \subseteq {h \in Ids : h.author = Me},
         w.assembled \subseteq P,
         \A h \in P : Parents[h] \subseteq GenesisIds \cup w.certs,
         w.certs \subseteq Others \cup w.assembled,
         \A x \in Ids : w.certWaiter[x] = 0,
         w.headerWaiter = {},
         first => P = {} /\ w.voted = {}
  PROVE  /\ Good(w, P, 0, first)
         /\ \A r : Given(w, r) = {} /\ PassedOn(w, r) = {}
         /\ Range(w.core.toConsensus) = {}
         /\ P = {} => NothingForgotten(w, P)
<1>1. Range(w.core.toProposer) = {} /\ Range(w.core.toConsensus) = {}
  BY BootFields DEF Range
<1>2. \A r : Given(w, r) = {} /\ PassedOn(w, r) = {}
  BY <1>1 DEF Given, PassedOn
<1>3. Sound(w, P)
  BY BootFields DEF Sound
<1>4. \A r \in 1 .. MaxRound :
          /\ w.core.aggregators[r].used = {} /\ w.core.aggregators[r].certificates = {}
  <2>1. \A r \in 1 .. MaxRound : r \in 0 .. MaxRound
    BY HeaderFacts
  <2> QED
    BY <2>1, BootFields DEF NoCertificates
<1>5. Passed(w)
  BY <1>1, <1>2, <1>4 DEF Passed
<1>6. Unstranded(w, 0)
  BY BootFields DEF Unstranded
<1>7. first => Voting(w) /\ OneHeaderPerRound(w, P)
  BY BootFields DEF Voting, OneHeaderPerRound
<1>8. Aggregated(w)
  <2>1. DOMAIN w.core.toProposer = {}
    BY BootFields
  <2>2. \A r : {x.author : x \in PassedOn(w, r)} = {}
    BY <1>2
  <2>3. ASSUME NEW r \in 1 .. MaxRound
        PROVE  /\ w.core.aggregators[r].used = {x.author : x \in PassedOn(w, r)}
               /\ w.core.aggregators[r].certificates = {}
               /\ Given(w, r) = {} /\ PassedOn(w, r) = {}
    BY <1>2, <1>4, <2>2
  <2> QED
    BY <2>1, <2>3, Zenon DEF Aggregated
<1>9. P = {} => NothingForgotten(w, P)
  BY BootFields DEF NothingForgotten
<1> QED
  BY <1>1, <1>2, <1>3, <1>5, <1>6, <1>7, <1>8, <1>9 DEF Good

LEMMA StepRestart ==
  ASSUME IInv, Restart
  PROVE  /\ IInv'
         /\ certs' = certs /\ Range(core'.toConsensus) = {}
         /\ \A r : Given(World', r) = {}
<1> DEFINE w == World'
<1>1. /\ restarts < MaxRestarts /\ restarts' = restarts + 1
      /\ core' = Boot /\ consensusRound' = 0 /\ headerWaiter' = {}
      /\ certWaiter' = [h \in Ids |-> 0]
      /\ UNCHANGED <<certs, payloads, proposed, voted, assembled, deliveries>>
  BY DEF Restart
<1>2. /\ w.core = Boot /\ w.certs = certs /\ w.certWaiter = certWaiter'
      /\ w.headerWaiter = {} /\ w.voted = voted /\ w.assembled = assembled
      /\ w = [core |-> Boot, certs |-> certs, headerWaiter |-> {},
              certWaiter |-> certWaiter', voted |-> voted, assembled |-> assembled]
  BY <1>1 DEF World
<1>3. certWaiter' \in [Ids -> Nat] /\ \A x \in Ids : certWaiter'[x] = 0
  BY <1>1
<1> HIDE DEF w
<1>4. /\ certs \in SUBSET Ids /\ voted \in SUBSET Ids /\ assembled \in SUBSET Ids
  BY WorldFields DEF Worlds
<1>5. w \in Worlds
  BY <1>2, <1>3, <1>4, BootFields DEF Worlds
<1>6. Good(World, proposed, consensusRound, restarts = 0)
  BY WorldFields
<1>7. /\ proposed \subseteq {h \in Ids : h.author = Me}
      /\ assembled \subseteq proposed
      /\ \A h \in proposed : Parents[h] \subseteq GenesisIds \cup certs
      /\ certs \subseteq Others \cup assembled
  BY <1>6, WorldFields DEF Good, Sound
<1>8. /\ Good(w, proposed, 0, FALSE)
      /\ \A r : Given(w, r) = {}
      /\ Range(w.core.toConsensus) = {}
  BY <1>2, <1>3, <1>5, <1>7, GoodBoot
<1>9. restarts' \in 0 .. MaxRestarts /\ restarts' # 0
  BY <1>1, BoundsAssumption DEF IInv
<1>10. Good(w, proposed, 0, restarts' = 0)
  BY <1>8, <1>9 DEF Good
<1>11. /\ consensusRound' \in 0 .. MaxRound /\ payloads' \subseteq Ids
       /\ deliveries' \in 0 .. MaxDeliveries
       /\ \A x \in Ids : certWaiter'[x] <= deliveries'
       /\ core'.gcRound = 0
  BY <1>1, <1>3, HeaderFacts, BootFields DEF IInv
<1>12. IInv'
  BY <1>1, <1>9, <1>10, <1>11 DEF IInv, w
<1> QED
  BY <1>1, <1>2, <1>8, <1>12 DEF w

LEMMA InitGood == Init => IInv /\ \A r : Given(World, r) = {} /\ Range(core.toConsensus) = {}
<1> SUFFICES ASSUME Init
             PROVE  IInv /\ \A r : Given(World, r) = {} /\ Range(core.toConsensus) = {}
  OBVIOUS
<1>1. /\ core = Boot /\ certs = {} /\ payloads = {} /\ consensusRound = 0
      /\ headerWaiter = {} /\ certWaiter = [h \in Ids |-> 0] /\ proposed = {}
      /\ voted = {} /\ assembled = {} /\ deliveries = 0 /\ restarts = 0
  BY DEF Init
<1>2. certWaiter \in [Ids -> Nat] /\ \A x \in Ids : certWaiter[x] = 0
  BY <1>1
<1> DEFINE w == World
<1>3. /\ w = [core |-> Boot, certs |-> {}, headerWaiter |-> {},
              certWaiter |-> certWaiter, voted |-> {}, assembled |-> {}]
      /\ w.core = Boot /\ w.certs = {} /\ w.headerWaiter = {} /\ w.certWaiter = certWaiter
      /\ w.voted = {} /\ w.assembled = {}
  BY <1>1 DEF World
<1> HIDE DEF w
<1>4. w \in Worlds
  BY <1>2, <1>3, BootFields DEF Worlds
<1>5. /\ Good(w, {}, 0, TRUE)
      /\ \A r : Given(w, r) = {}
      /\ Range(w.core.toConsensus) = {}
      /\ NothingForgotten(w, {})
  BY <1>2, <1>3, <1>4, GoodBoot
<1>6. /\ 0 \in 0 .. MaxRound /\ 0 \in 0 .. MaxDeliveries /\ 0 \in 0 .. MaxRestarts
      /\ core.gcRound = 0
  BY <1>1, HeaderFacts, BoundsAssumption, BootFields
<1>7. Good(w, proposed, consensusRound, restarts = 0) /\ NothingForgotten(w, proposed)
  BY <1>1, <1>5 DEF Good
<1>8. IInv
  BY <1>1, <1>2, <1>6, <1>7 DEF IInv, w
<1> QED
  BY <1>1, <1>3, <1>5, <1>8 DEF w

-----------------------------------------------------------------------------
(***************************************************************************)
(* Every step keeps the invariant and is one of the abstract               *)
(* specification, or leaves its variables alone.                           *)
(***************************************************************************)
\* The parents the proposer was given are the same in both notations.
LEMMA GivenIsGiven ==
  ASSUME NEW r \in 1 .. MaxRound
  PROVE  GivenParents(r) = Given(World, r) /\ GivenParents(r)' = Given(World', r)
<1>1. r # 0
  BY HeaderFacts
<1>2. World.core = core /\ World'.core = core'
  BY DEF World
<1> QED
  BY <1>1, <1>2 DEF GivenParents, Given

LEMMA PromiseQuorum == \A S : Promise!IsQuorum(S) <=> IsQuorum(S)
BY DEF Promise!IsQuorum, IsQuorum, Promise!QuorumThreshold, QuorumThreshold,
       Promise!TotalVotes, TotalVotes, Promise!StakeOf, StakeOf, Promise!Shares, Shares,
       Promise!Authorities, Authorities, Promise!Cardinality, Cardinality

LEMMA PromiseStep ==
  ASSUME DeliverStep(World, World')
  PROVE  [Promise!Next]_Promise!vars
<1> DEFINE delivered == Range(core.toConsensus)
           given == [r \in 1 .. MaxRound |-> GivenParents(r)]
<1>1. PICK S \in SUBSET Ids :
          Delivers(World, World', S) /\ (S = {} \/ \E y, z \in Ids : S = {y, z})
  BY DEF DeliverStep
<1>2. /\ World.certs = certs /\ World'.certs = certs'
      /\ World.core = core /\ World'.core = core'
  BY DEF World
<1>3. /\ certs' = certs \cup S /\ delivered' = delivered \cup S
      /\ \A x \in S : Parents[x] \subseteq certs \cup GenesisIds
  BY <1>1, <1>2 DEF Delivers
<1>4. \A r \in 1 .. MaxRound : given[r] = Given(World, r) /\ given'[r] = Given(World', r)
  BY GivenIsGiven
<1>5. \A r : PassedOn(World', r) = {x \in delivered' : x.round = r}
  BY <1>2 DEF PassedOn
<1>6. ASSUME NEW r \in 1 .. MaxRound
      PROVE  \/ given'[r] = given[r]
             \/ /\ given[r] \subseteq given'[r]
                /\ given'[r] \subseteq {x \in delivered' : x.round = r}
                /\ Promise!IsQuorum({x.author : x \in given'[r]})
                /\ \E x \in S : x.round = r
  BY <1>1, <1>4, <1>5, PromiseQuorum DEF Delivers
<1>7. given = [r \in 1 .. MaxRound |-> given[r]] /\ given' = [r \in 1 .. MaxRound |-> given'[r]]
  OBVIOUS
<1>8. CASE S = {}
  <2>1. \A r \in 1 .. MaxRound : given'[r] = given[r]
    BY <1>6, <1>8
  <2>2. given' = given
    <3> HIDE DEF given
    <3> QED
      BY <1>7, <2>1
  <2>3. certs' = certs /\ delivered' = delivered
    BY <1>3, <1>8
  <2> QED
    BY <2>2, <2>3 DEF Promise!vars
<1>9. CASE \E y, z \in Ids : S = {y, z}
  <2>1. Promise!Deliver(S)
    BY <1>3, <1>6, <1>7 DEF Promise!Deliver, Promise!Give
  <2> QED
    BY <1>9, <2>1 DEF Promise!Next
<1> QED
  BY <1>1, <1>8, <1>9

LEMMA PromiseRestart ==
  ASSUME certs' = certs, Range(core'.toConsensus) = {}, \A r : Given(World', r) = {}
  PROVE  Promise!Next
<1> DEFINE given == [r \in 1 .. MaxRound |-> GivenParents(r)]
<1>1. \A r \in 1 .. MaxRound : GivenParents(r)' = {}
  BY GivenIsGiven
<1>2. given' = [r \in 1 .. MaxRound |-> {}]
  BY <1>1
<1> QED
  BY <1>2 DEF Promise!Next, Promise!Restart, Promise!Nothing

LEMMA CoreStep ==
  ASSUME IInv, [Next]_vars
  PROVE  IInv' /\ [Promise!Next]_Promise!vars
<1> USE DEF Next
<1>1. CASE \E h \in Ids : OwnHeader(h)
  BY <1>1, StepOwnHeader, PromiseStep
<1>2. CASE \E h \in Ids : ReceiveHeader(h)
  BY <1>2, StepReceiveHeader, PromiseStep
<1>3. CASE \E x \in Ids : ReceiveCertificate(x)
  BY <1>3, StepReceiveCertificate, PromiseStep
<1>4. CASE \E x \in Ids : LoopbackCertificate(x)
  BY <1>4, StepLoopbackCertificate, PromiseStep
<1>5. CASE \E a \in Authorities : ReceiveVote(a)
  BY <1>5, StepReceiveVote, PromiseStep
<1>6. CASE \E p \in headerWaiter : LoopbackHeader(p)
  BY <1>6, StepLoopbackHeader, PromiseStep
<1>7. Delivers(World, World, {}) /\ \A w : Delivers(World, w, {}) => DeliverStep(World, w)
  BY DeliversNothing DEF DeliverStep
<1>8. CASE \E h \in Ids : ReceivePayload(h)
  <2>1. IInv' /\ World' = World
    BY <1>8, StepReceivePayload
  <2> QED
    BY <1>7, <2>1, PromiseStep
<1>9. CASE \E x \in Ids : Commit(x)
  <2>1. IInv' /\ World' = World
    BY <1>9, StepCommit
  <2> QED
    BY <1>7, <2>1, PromiseStep
<1>10. CASE CleanupWaiter
  BY <1>7, <1>10, StepCleanupWaiter, PromiseStep
<1>11. CASE Restart
  BY <1>11, StepRestart, PromiseRestart
<1>12. CASE RefuseMessage
  BY <1>12, StepRefuseMessage, PromiseStep
<1>13. CASE UNCHANGED vars
  <2>1. World' = World
    BY <1>13 DEF vars, World
  <2>2. IInv'
    BY <1>13, <2>1 DEF vars, IInv
  <2> QED
    BY <1>7, <2>1, <2>2, PromiseStep
<1> QED
  BY <1>1, <1>2, <1>3, <1>4, <1>5, <1>6, <1>8, <1>9, <1>10, <1>11, <1>12, <1>13

\* The inductive invariant holds in every state of the core.
THEOREM CoreInvariant == Spec => []IInv
<1>1. Init => IInv
  BY InitGood
<1>2. IInv /\ [Next]_vars => IInv'
  BY CoreStep
<1> QED
  BY <1>1, <1>2, PTL DEF Spec

-----------------------------------------------------------------------------
(***************************************************************************)
(* The theorems.                                                           *)
(***************************************************************************)
\* The fields of the core have their types.  In particular what was passed on is stored,
\* only certified headers are stored, and the waiter holds no more copies than arrived.
THEOREM CoreTypeCorrect == Spec => []TypeOK
<1>1. IInv => TypeOK
  <2> SUFFICES ASSUME IInv PROVE TypeOK
    OBVIOUS
  <2>1. core \in Cores /\ World \in Worlds
    BY WorldFields DEF Worlds
  <2>2. Good(World, proposed, consensusRound, restarts = 0)
    BY WorldFields
  <2>3. consensusRound \in 0 .. MaxRound /\ MaxRound \in Nat /\ GcDepth \in Nat
    BY HeaderFacts, BoundsAssumption DEF IInv
  <2>4. core.gcRound \in 0 .. MaxRound
    <3>1. core.gcRound \in Nat
      BY <2>1 DEF Cores
    <3>2. core.gcRound = 0 \/ core.gcRound + GcDepth <= consensusRound
      BY DEF IInv
    <3> QED
      BY <2>3, <3>1, <3>2
  <2>5. /\ core.lastVoted \subseteq (1 .. MaxRound) \X Authorities
        /\ core.processing \subseteq Ids
        /\ core.current \in Ids \cup {None}
        /\ core.used \subseteq Authorities
        /\ core.weight \in 0 .. (QuorumThreshold - 1)
        /\ \A r \in 0 .. MaxRound : core.aggregators[r].certificates \subseteq Ids
    BY <2>1 DEF Cores, Aggregates
  <2>6. /\ Range(core.toConsensus) \subseteq certs
        /\ certs \subseteq Others \cup assembled
        /\ assembled \subseteq proposed
        /\ proposed \subseteq Ids
    BY <2>2, WorldFields DEF Good, Sound, Passed
  <2>7. headerWaiter \subseteq Pending /\ voted \subseteq Ids
    BY WorldFields DEF Worlds
  <2>8. certWaiter \in [Ids -> 0 .. MaxDeliveries]
    <3>1. \A x \in Ids : certWaiter[x] \in 0 .. MaxDeliveries
      BY WorldFields DEF IInv
    <3> QED
      BY <3>1, WorldFields
  <2>9. payloads \subseteq Ids
    BY DEF IInv
  <2> QED
    BY <2>3, <2>4, <2>5, <2>6, <2>7, <2>8, <2>9 DEF TypeOK
<1> QED
  BY <1>1, CoreInvariant, PTL

\* Until the node restarts, a primary votes at most once per round and author, except in
\* rounds the garbage collector has overtaken: process_header and the clean-up of run().
THEOREM CoreVotesOnce == Spec => [](restarts = 0 => VoteOncePerSlot)
<1>1. IInv => (restarts = 0 => VoteOncePerSlot)
  BY WorldFields DEF Good, Voting, VoteOncePerSlot
<1> QED
  BY <1>1, CoreInvariant, PTL

\* Until the node restarts, the aggregators of process_certificate give the proposer every
\* certificate of a round, from its quorum on, and each one once.
THEOREM CoreParentsGivenOnce == Spec => [](restarts = 0 => ParentsGivenOnce)
<1>1. IInv => (restarts = 0 => ParentsGivenOnce)
  <2> SUFFICES ASSUME IInv, restarts = 0, NEW r \in core.gcRound .. MaxRound
               PROVE  LET known == {x \in Range(core.toConsensus) : x.round = r}
                          messages == {i \in DOMAIN core.toProposer :
                                          core.toProposer[i].round = r}
                      IN  /\ r > 0 => GivenParents(r) =
                                IF IsQuorum({x.author : x \in known}) THEN known ELSE {}
                          /\ \A i, j \in messages : i # j =>
                                core.toProposer[i].parents \cap core.toProposer[j].parents = {}
    BY DEF ParentsGivenOnce
  <2>1. core \in Cores /\ core.gcRound \in Nat /\ core.toProposer \in Seq(Messages)
    BY WorldFields DEF Worlds, Cores
  <2>2. r \in Nat /\ r >= core.gcRound /\ r <= MaxRound
    BY <2>1, HeaderFacts
  <2>3. CASE r = 0
    <3>1. \A i \in DOMAIN core.toProposer : core.toProposer[i] \in Messages
      BY <2>1, ElementOfSeq
    <3>2. \A i \in DOMAIN core.toProposer : core.toProposer[i].round # 0
      BY <3>1, HeaderFacts DEF Messages
    <3> QED
      BY <2>3, <3>2
  <2>4. CASE r # 0
    <3>1. r \in 1 .. MaxRound
      BY <2>2, <2>4, HeaderFacts
    <3>2. PassedOn(World, r) = {x \in Range(core.toConsensus) : x.round = r}
      BY WorldFields DEF PassedOn
    <3>3. Aggregated(World)
      BY WorldFields DEF Good
    <3>4. GivenParents(r) = Given(World, r)
      BY <3>1, GivenIsGiven
    <3>5. /\ Given(World, r) = IF IsQuorum({x.author : x \in PassedOn(World, r)})
                               THEN PassedOn(World, r) ELSE {}
          /\ \A i, j \in DOMAIN core.toProposer :
                (i # j /\ core.toProposer[i].round = r /\ core.toProposer[j].round = r)
                    => core.toProposer[i].parents \cap core.toProposer[j].parents = {}
      <4> DEFINE agg == core.aggregators[r]
      <4>1. World.core = core
        BY WorldFields
      <4>2. /\ agg.used = {x.author : x \in PassedOn(World, r)}
            /\ IF IsQuorum(agg.used)
               THEN agg.certificates = {} /\ Given(World, r) = PassedOn(World, r)
               ELSE agg.certificates = PassedOn(World, r) /\ Given(World, r) = {}
            /\ \A i, j \in DOMAIN core.toProposer :
                (i # j /\ core.toProposer[i].round = r /\ core.toProposer[j].round = r)
                    => core.toProposer[i].parents \cap core.toProposer[j].parents = {}
        BY <2>2, <3>1, <3>3, <4>1 DEF Aggregated
      <4>3. IF IsQuorum(agg.used) THEN Given(World, r) = PassedOn(World, r)
                                  ELSE Given(World, r) = {}
        BY <4>2
      <4> HIDE DEF agg
      <4> QED
        BY <4>2, <4>3
    <3> QED
      BY <3>2, <3>4, <3>5
  <2> QED
    BY <2>3, <2>4
<1> QED
  BY <1>1, CoreInvariant, PTL

\* A header under way that passes the checks is voted for or in the HeaderWaiter, until the
\* garbage collector overtakes it, restarts or not.
THEOREM CoreStrandsNoHeader == Spec => []NoStrandedHeader
<1>1. IInv => NoStrandedHeader
  BY WorldFields DEF Good, Unstranded, NoStrandedHeader
<1> QED
  BY <1>1, CoreInvariant, PTL

\* The "Failed to process our own vote" of process_header needs a vote that was forgotten.
THEOREM CorePanicsOnlyAfterLoss == Spec => []OwnVoteRefusedOnlyAfterLoss
<1>1. IInv => OwnVoteRefusedOnlyAfterLoss
  <2> SUFFICES ASSUME IInv, core.panicked PROVE restarts > 0 \/ consensusRound > GcDepth
    BY DEF OwnVoteRefusedOnlyAfterLoss
  <2>1. restarts \in Nat /\ consensusRound \in Nat /\ GcDepth \in Nat
    BY BoundsAssumption, HeaderFacts DEF IInv
  <2>2. ~(restarts = 0 /\ consensusRound <= GcDepth)
    BY WorldFields DEF NothingForgotten
  <2> QED
    BY <2>1, <2>2
<1> QED
  BY <1>1, CoreInvariant, PTL

\* The core implements CausalDelivery: every certificate is stored and passed on after its
\* parents, and the proposer is first given a quorum of a round, restarts included.
THEOREM CoreDeliversCausally == Spec => DeliversCausally
<1>1. Init => Promise!Init
  <2> SUFFICES ASSUME Init PROVE Promise!Init
    OBVIOUS
  <2>1. certs = {} /\ Range(core.toConsensus) = {} /\ \A r : Given(World, r) = {}
    BY InitGood DEF Init
  <2>2. \A r \in 1 .. MaxRound : GivenParents(r) = {}
    BY <2>1, GivenIsGiven
  <2> QED
    BY <2>1, <2>2 DEF Promise!Init, Promise!Nothing
<1>2. IInv /\ [Next]_vars => [Promise!Next]_Promise!vars
  BY CoreStep
<1> QED
  BY <1>1, <1>2, CoreInvariant, PTL DEF Spec, DeliversCausally, Promise!Spec

-----------------------------------------------------------------------------
(***************************************************************************)
(* No certificate is lost or multiplied.  The invariant is about what the  *)
(* handlers change, as before: the tally of the votes for our header, and  *)
(* the balance of the certificates.  The tally is there because a header   *)
(* must not be certified twice: votes of a quorum are counted once, and    *)
(* what is left of the stake is no quorum.                                 *)
(***************************************************************************)
\* ParkedCopies of w.
Parked(w) == UNION {{x} \X (1 .. w.certWaiter[x]) : x \in Ids}

\* The weight is the stake of the votes so far, or of those after the quorum.
Tallied(w) ==
    w.core.current # None =>
        IF w.core.current \in w.assembled
        THEN StakeOf(w.core.used) >= QuorumThreshold + w.core.weight
        ELSE StakeOf(w.core.used) = w.core.weight

\* n certificates came from the network.
Balanced(w, n) ==
    /\ IsFiniteSet(Parked(w))
    /\ IsFiniteSet(w.assembled)
    /\ ~w.core.panicked =>
        Len(w.core.toConsensus) + Cardinality(Parked(w)) = n + Cardinality(w.assembled)

LEMMA OneMore ==
  ASSUME NEW S, NEW e, IsFiniteSet(S), e \notin S
  PROVE  IsFiniteSet(S \cup {e}) /\ Cardinality(S \cup {e}) = Cardinality(S) + 1
BY FS_AddElement

LEMMA OneMoreOnBothSides ==
  ASSUME NEW a \in Int, NEW b \in Int, NEW c \in Int, NEW n \in Int, a + b = n + c
  PROVE  (a + 1) + b = (n + 1) + c
OBVIOUS

LEMMA BalancedType ==
  ASSUME NEW w \in Worlds, NEW n, Balanced(w, n)
  PROVE  /\ Len(w.core.toConsensus) \in Nat
         /\ Cardinality(Parked(w)) \in Nat
         /\ Cardinality(w.assembled) \in Nat
<1>1. w.core.toConsensus \in Seq(Ids)
  BY DEF Worlds, Cores
<1> QED
  BY <1>1, LenProperties, FS_CardinalityType DEF Balanced

\* Votes, headers and the clean-up do not touch what the balance is about.
LEMMA BalancedFrame ==
  ASSUME NEW w, NEW v, SameCertificates(w, v), NEW n, Balanced(w, n),
         v.core.panicked = w.core.panicked
  PROVE  Balanced(v, n)
<1>1. Parked(v) = Parked(w)
  BY DEF Parked, SameCertificates
<1> QED
  BY <1>1 DEF Balanced, SameCertificates

LEMMA TalliedFrame ==
  ASSUME NEW w, NEW v, SameOwn(w, v), v.assembled = w.assembled, Tallied(w)
  PROVE  Tallied(v)
BY DEF SameOwn, Tallied

\* One more vote: it completes a quorum only once.
LEMMA TallyVote ==
  ASSUME NEW w \in Worlds, Tallied(w), w.core.current # None,
         NEW a \in Authorities, a \notin w.core.used
  PROVE  LET v == AppendVote(w, a) IN
         /\ ~ReachesQuorum(w, a) => Tallied(v)
         /\ ReachesQuorum(w, a) => /\ w.core.current \notin w.assembled
                                   /\ StakeOf(v.core.used) >= QuorumThreshold
                                   /\ v.core.weight = 0
<1> DEFINE v == AppendVote(w, a)
           used == w.core.used
           more == used \cup {a}
<1>1. /\ used \in SUBSET Authorities /\ more \in SUBSET Authorities
      /\ w.core.weight \in Nat
  BY StakeFacts DEF Worlds, Cores
<1>2. /\ v.core.current = w.core.current /\ v.assembled = w.assembled
      /\ v.core.used = more
      /\ v.core.weight = IF ReachesQuorum(w, a) THEN 0 ELSE w.core.weight + Stake[a]
  BY AppendVoteFields DEF SameCertificates
<1>3. StakeOf(more) = StakeOf(used) + Stake[a]
  <2>1. StakeOf(more) = StakeOf(more \ {a}) + StakeOf(more \cap {a})
    BY <1>1, StakeSplit
  <2>2. more \ {a} = used /\ more \cap {a} = {a}
    OBVIOUS
  <2> QED
    BY <2>1, <2>2, StakeOfOne
<1>4. /\ StakeOf(used) \in Nat /\ StakeOf(more) \in Nat /\ Stake[a] \in Nat
      /\ StakeOf(more) <= TotalVotes /\ TotalVotes \in Nat
  BY <1>1, StakeType, StakeFacts, StakeMonotone DEF TotalVotes
<1> HIDE DEF v, used, more
<1>5. 2 * QuorumThreshold > TotalVotes /\ QuorumThreshold \in Nat
  BY QuorumIsMajority
<1>6. Tallied(w)
  OBVIOUS
<1>7. ReachesQuorum(w, a) <=> w.core.weight + Stake[a] >= QuorumThreshold
  BY DEF ReachesQuorum
<1>8. CASE w.core.current \in w.assembled
  <2>1. StakeOf(used) >= QuorumThreshold + w.core.weight
    BY <1>6, <1>8 DEF Tallied, used
  <2>2. ~ReachesQuorum(w, a)
    BY <1>1, <1>3, <1>4, <1>5, <1>7, <2>1
  <2>3. StakeOf(more) >= QuorumThreshold + (w.core.weight + Stake[a])
    BY <1>1, <1>3, <1>4, <1>5, <2>1
  <2>4. Tallied(v)
    BY <1>2, <1>8, <2>2, <2>3 DEF Tallied
  <2> QED
    BY <2>2, <2>4 DEF v
<1>9. CASE w.core.current \notin w.assembled
  <2>1. StakeOf(used) = w.core.weight
    BY <1>6, <1>9 DEF Tallied, used
  <2>2. ReachesQuorum(w, a) => StakeOf(v.core.used) >= QuorumThreshold /\ v.core.weight = 0
    BY <1>2, <1>3, <1>7, <2>1
  <2>3. ~ReachesQuorum(w, a) => Tallied(v)
    BY <1>2, <1>3, <1>9, <2>1 DEF Tallied
  <2> QED
    BY <1>9, <2>2, <2>3 DEF v
<1> QED
  BY <1>8, <1>9

\* A certificate is passed on or parked: in both cases one more is accounted for.
LEMMA TallyDelivery ==
  ASSUME NEW w \in Worlds, NEW x \in Ids, NEW n \in Int, Balanced(w, n), Tallied(w)
  PROVE  LET v == DeliverCertificate(w, x) IN
         /\ v \in Worlds
         /\ Balanced(v, n + 1)
         /\ Tallied(v)
<1> DEFINE v == DeliverCertificate(w, x)
<1>1. /\ Len(w.core.toConsensus) \in Nat /\ Cardinality(Parked(w)) \in Nat
      /\ Cardinality(w.assembled) \in Nat
      /\ IsFiniteSet(Parked(w)) /\ IsFiniteSet(w.assembled)
      /\ ~w.core.panicked =>
          Len(w.core.toConsensus) + Cardinality(Parked(w)) = n + Cardinality(w.assembled)
  BY BalancedType DEF Balanced
<1>2. CASE MissingParents(w, x) = {}
  <2>1. v = Accept(w, x)
    BY <1>2 DEF DeliverCertificate
  <2> HIDE DEF v
  <2>2. /\ v \in Worlds
        /\ SameOwn(w, v)
        /\ v.core.panicked = w.core.panicked
        /\ v.certWaiter = w.certWaiter
        /\ v.assembled = w.assembled
        /\ v.core.toConsensus = Append(w.core.toConsensus, x)
    BY <2>1, AcceptFields, Zenon
  <2>3. Len(v.core.toConsensus) = Len(w.core.toConsensus) + 1
    BY <2>2, AppendProperties DEF Worlds, Cores
  <2>4. Parked(v) = Parked(w)
    BY <2>2 DEF Parked
  <2>5. Balanced(v, n + 1)
    <3>1. ~v.core.panicked => Len(v.core.toConsensus) + Cardinality(Parked(v))
                                = (n + 1) + Cardinality(v.assembled)
      <4> SUFFICES ASSUME ~v.core.panicked
                   PROVE  Len(v.core.toConsensus) + Cardinality(Parked(v))
                            = (n + 1) + Cardinality(v.assembled)
        OBVIOUS
      <4>1. Len(w.core.toConsensus) + Cardinality(Parked(w)) = n + Cardinality(w.assembled)
        BY <1>1, <2>2
      <4>2. /\ Cardinality(Parked(v)) = Cardinality(Parked(w))
            /\ Cardinality(v.assembled) = Cardinality(w.assembled)
        BY <2>2, <2>4
      <4>3. (Len(w.core.toConsensus) + 1) + Cardinality(Parked(w))
              = (n + 1) + Cardinality(w.assembled)
        <5>1. /\ Len(w.core.toConsensus) \in Int /\ Cardinality(Parked(w)) \in Int
              /\ Cardinality(w.assembled) \in Int
          BY <1>1
        <5> QED
          BY <4>1, <5>1, OneMoreOnBothSides
      <4> QED
        BY <2>3, <4>2, <4>3, Zenon
    <3> QED
      BY <1>1, <2>2, <2>4, <3>1 DEF Balanced
  <2> QED
    BY <2>2, <2>5, TalliedFrame DEF v
<1>3. CASE MissingParents(w, x) # {}
  <2> DEFINE copy == <<x, w.certWaiter[x] + 1>>
  <2>1. v = Park(w, x)
    BY <1>3 DEF DeliverCertificate
  <2>2. /\ v \in Worlds
        /\ v.core = w.core /\ v.assembled = w.assembled
        /\ v.certWaiter = [w.certWaiter EXCEPT ![x] = @ + 1]
    BY <2>1, ParkFields
  <2> HIDE DEF v
  <2>3. w.certWaiter \in [Ids -> Nat]
    BY DEF Worlds
  <2>4. /\ 1 .. (w.certWaiter[x] + 1) = (1 .. w.certWaiter[x]) \cup {w.certWaiter[x] + 1}
        /\ w.certWaiter[x] + 1 \notin 1 .. w.certWaiter[x]
    BY <2>3
  <2>5. Parked(v) = Parked(w) \cup {copy} /\ copy \notin Parked(w)
    <3>1. \A y \in Ids : v.certWaiter[y] = IF y = x THEN w.certWaiter[x] + 1
                                                    ELSE w.certWaiter[y]
      BY <2>2, <2>3
    <3> QED
      BY <2>4, <3>1 DEF Parked
  <2>6. IsFiniteSet(Parked(v)) /\ Cardinality(Parked(v)) = Cardinality(Parked(w)) + 1
    <3> HIDE DEF copy
    <3> QED
      BY <1>1, <2>5, OneMore
  <2>7. Balanced(v, n + 1)
    BY <1>1, <2>2, <2>6 DEF Balanced
  <2>8. SameOwn(w, v)
    BY <2>2 DEF SameOwn
  <2> QED
    BY <2>2, <2>7, <2>8, TalliedFrame DEF v
<1> QED
  BY <1>2, <1>3

LEMMA TallyBody ==
  ASSUME NEW w \in Worlds, NEW h \in Ids, NEW n, Balanced(w, n), Tallied(w)
  PROVE  LET v == ProcessHeaderBody(w, h) IN
         /\ v \in Worlds /\ Balanced(v, n) /\ Tallied(v)
         /\ SameCertificates(w, v) /\ SameOwn(w, v)
<1> DEFINE v == ProcessHeaderBody(w, h)
<1>1. /\ v \in Worlds /\ SameCertificates(w, v) /\ SameOwn(w, v)
      /\ v.core.panicked = w.core.panicked
  BY BodyFields
<1> HIDE DEF v
<1>2. v.assembled = w.assembled
  BY <1>1 DEF SameCertificates
<1> QED
  BY <1>1, <1>2, BalancedFrame, TalliedFrame DEF v

LEMMA TallyPanic ==
  ASSUME NEW w \in Worlds, NEW n, Balanced(w, n), Tallied(w)
  PROVE  LET v == Panic(w) IN v \in Worlds /\ Balanced(v, n) /\ Tallied(v)
<1> DEFINE v == Panic(w)
<1>1. v \in Worlds /\ SameCertificates(w, v) /\ SameOwn(w, v) /\ v.core.panicked
  BY PanicFields
<1> HIDE DEF v
<1>2. Parked(v) = Parked(w) /\ v.assembled = w.assembled
  BY <1>1 DEF Parked, SameCertificates
<1> QED
  BY <1>1, <1>2, TalliedFrame DEF Balanced, v

\* A certificate of ours is assembled from votes and accounted for in one.
LEMMA TallyAssemble ==
  ASSUME NEW w \in Worlds, NEW n \in Int, Balanced(w, n),
         w.core.current # None, w.core.current \notin w.assembled,
         StakeOf(w.core.used) >= QuorumThreshold, w.core.weight = 0
  PROVE  LET v == Assemble(w) IN
         /\ v \in Worlds /\ Balanced(v, n) /\ Tallied(v)
<1> DEFINE x == w.core.current
           w1 == [w EXCEPT !.assembled = @ \cup {w.core.current}]
           w2 == ProcessHeaderBody(w1, x)
           w3 == AppendVote(w2, Me)
           v == Assemble(w)
<1>1. x \in Ids /\ Me \in Authorities
  BY HeaderFacts DEF Worlds, Cores
<1>2. /\ w1 \in Worlds /\ w1.core = w.core /\ w1.certWaiter = w.certWaiter
      /\ w1.assembled = w.assembled \cup {x}
  BY <1>1 DEF Worlds
<1>3. v = IF x \in w.core.processing THEN DeliverCertificate(w1, x)
          ELSE IF ~VotesForSelf(w1, x) THEN DeliverCertificate(w2, x)
          ELSE IF Me \in w2.core.used THEN Panic(w2)
          ELSE DeliverCertificate(w3, x)
  BY DEF Assemble
<1> HIDE DEF w1, v
<1>4. Balanced(w1, n - 1)
  <2>1. Parked(w1) = Parked(w)
    BY <1>2 DEF Parked
  <2>2. /\ IsFiniteSet(w1.assembled)
        /\ Cardinality(w1.assembled) = Cardinality(w.assembled) + 1
    <3>1. IsFiniteSet(w.assembled)
      BY DEF Balanced
    <3>2. /\ IsFiniteSet(w.assembled \cup {x})
          /\ Cardinality(w.assembled \cup {x}) = Cardinality(w.assembled) + 1
      BY <3>1, OneMore
    <3> QED
      BY <1>2, <3>2
  <2>3. /\ Len(w.core.toConsensus) \in Nat /\ Cardinality(Parked(w)) \in Nat
        /\ Cardinality(w.assembled) \in Nat
    BY BalancedType
  <2>4. ~w.core.panicked =>
            Len(w.core.toConsensus) + Cardinality(Parked(w)) = n + Cardinality(w.assembled)
    BY DEF Balanced
  <2>5. ~w1.core.panicked => Len(w1.core.toConsensus) + Cardinality(Parked(w1))
                                = (n - 1) + Cardinality(w1.assembled)
    BY <1>2, <2>1, <2>2, <2>3, <2>4
  <2> QED
    BY <2>1, <2>2, <2>5 DEF Balanced
<1>5. Tallied(w1)
  <2>1. QuorumThreshold + 0 = QuorumThreshold
    BY QuorumIsMajority
  <2> QED
    BY <1>2, <2>1 DEF Tallied
<1>6. /\ w2 \in Worlds /\ Balanced(w2, n - 1) /\ Tallied(w2)
      /\ SameCertificates(w1, w2) /\ SameOwn(w1, w2)
  BY <1>1, <1>2, <1>4, <1>5, TallyBody
<1> HIDE DEF w2
<1>7. w2.core.current # None /\ w2.core.current \in w2.assembled
  BY <1>1, <1>2, <1>6 DEF SameOwn, SameCertificates
<1>8. ASSUME Me \notin w2.core.used
      PROVE  w3 \in Worlds /\ Balanced(w3, n - 1) /\ Tallied(w3)
  <2>1. /\ w3 \in Worlds /\ SameCertificates(w2, w3)
        /\ w3.core.panicked = w2.core.panicked
    BY <1>1, <1>6, AppendVoteFields
  <2>2. Tallied(w3)
    BY <1>1, <1>6, <1>7, <1>8, TallyVote
  <2> QED
    BY <1>6, <2>1, <2>2, BalancedFrame
<1> HIDE DEF w3
<1>9. n - 1 \in Int /\ (n - 1) + 1 = n
  OBVIOUS
<1>10. CASE x \in w.core.processing
  BY <1>1, <1>2, <1>3, <1>4, <1>5, <1>9, <1>10, TallyDelivery DEF v
<1>11. CASE x \notin w.core.processing /\ ~VotesForSelf(w1, x)
  BY <1>1, <1>3, <1>6, <1>9, <1>11, TallyDelivery DEF v
<1>12. CASE x \notin w.core.processing /\ VotesForSelf(w1, x) /\ Me \notin w2.core.used
  BY <1>1, <1>3, <1>8, <1>9, <1>12, TallyDelivery DEF v
<1>13. CASE x \notin w.core.processing /\ VotesForSelf(w1, x) /\ Me \in w2.core.used
  <2>1. v = Panic(w2)
    BY <1>3, <1>13
  <2>2. v \in Worlds /\ Balanced(v, n - 1) /\ Tallied(v) /\ v.core.panicked
    BY <1>6, <2>1, TallyPanic, PanicFields
  <2> QED
    BY <2>2 DEF Balanced, v
<1> QED
  BY <1>10, <1>11, <1>12, <1>13

LEMMA TallyProcessVote ==
  ASSUME NEW w \in Worlds, NEW n \in Int, Balanced(w, n), Tallied(w),
         NEW a \in Authorities, w.core.current # None
  PROVE  LET v == ProcessVote(w, a) IN
         /\ v \in Worlds /\ Balanced(v, n) /\ Tallied(v)
<1> DEFINE v == ProcessVote(w, a)
           w1 == AppendVote(w, a)
<1>1. v = IF a \in w.core.used THEN (IF a = Me THEN Panic(w) ELSE w)
          ELSE IF ReachesQuorum(w, a) THEN Assemble(w1) ELSE w1
  BY DEF ProcessVote
<1> HIDE DEF v
<1>2. CASE a \in w.core.used
  BY <1>1, <1>2, TallyPanic DEF v
<1>3. CASE a \notin w.core.used
  <2>1. /\ w1 \in Worlds /\ SameCertificates(w, w1)
        /\ w1.core.panicked = w.core.panicked
        /\ w1.core.current = w.core.current
    BY AppendVoteFields
  <2>2. /\ ~ReachesQuorum(w, a) => Tallied(w1)
        /\ ReachesQuorum(w, a) => /\ w.core.current \notin w.assembled
                                  /\ StakeOf(w1.core.used) >= QuorumThreshold
                                  /\ w1.core.weight = 0
    BY <1>3, TallyVote
  <2> HIDE DEF w1
  <2>3. Balanced(w1, n) /\ w1.assembled = w.assembled
    BY <2>1, BalancedFrame DEF SameCertificates
  <2>4. CASE ReachesQuorum(w, a)
    BY <1>1, <1>3, <2>1, <2>2, <2>3, <2>4, TallyAssemble DEF v
  <2>5. CASE ~ReachesQuorum(w, a)
    BY <1>1, <1>3, <2>1, <2>2, <2>3, <2>5 DEF v
  <2> QED
    BY <2>4, <2>5
<1> QED
  BY <1>2, <1>3

LEMMA TallyHeader ==
  ASSUME NEW w \in Worlds, NEW n \in Int, Balanced(w, n), Tallied(w),
         NEW h \in Ids, h.author = Me => w.core.current # None
  PROVE  LET v == ProcessHeader(w, h) IN
         /\ v \in Worlds /\ Balanced(v, n) /\ Tallied(v)
<1> DEFINE v == ProcessHeader(w, h)
           w1 == ProcessHeaderBody(w, h)
<1>1. v = IF VotesForSelf(w, h) THEN ProcessVote(w1, Me) ELSE w1
  BY DEF ProcessHeader
<1>2. w1 \in Worlds /\ Balanced(w1, n) /\ Tallied(w1) /\ SameOwn(w, w1)
  BY TallyBody
<1> HIDE DEF v, w1
<1>3. CASE VotesForSelf(w, h)
  <2>1. w1.core.current # None
    BY <1>2, <1>3 DEF VotesForSelf, SameOwn
  <2> QED
    BY <1>1, <1>2, <1>3, <2>1, HeaderFacts, TallyProcessVote DEF v
<1>4. CASE ~VotesForSelf(w, h)
  BY <1>1, <1>2, <1>4 DEF v
<1> QED
  BY <1>3, <1>4

LEMMA TallyCertificate ==
  ASSUME NEW w \in Worlds, NEW n \in Int, Balanced(w, n), Tallied(w),
         NEW x \in Ids, x.author = Me => w.core.current # None
  PROVE  LET v == ProcessCertificate(w, x) IN
         /\ v \in Worlds /\ Balanced(v, n + 1) /\ Tallied(v)
<1> DEFINE v == ProcessCertificate(w, x)
           w1 == IF x \in w.core.processing THEN w ELSE ProcessHeader(w, x)
<1>1. v = IF w1.core.panicked THEN w1 ELSE DeliverCertificate(w1, x)
  BY DEF ProcessCertificate
<1>2. w1 \in Worlds /\ Balanced(w1, n) /\ Tallied(w1)
  BY TallyHeader
<1> HIDE DEF v, w1
<1>3. CASE w1.core.panicked
  <2>1. Balanced(w1, n + 1)
    BY <1>2, <1>3 DEF Balanced
  <2> QED
    BY <1>1, <1>2, <1>3, <2>1 DEF v
<1>4. CASE ~w1.core.panicked
  BY <1>1, <1>2, <1>4, TallyDelivery DEF v
<1> QED
  BY <1>3, <1>4

LEMMA TallyCleanup ==
  ASSUME NEW w \in Worlds, NEW n, Balanced(w, n), Tallied(w)
  PROVE  LET v == Cleanup(w) IN Balanced(v, n) /\ Tallied(v)
<1>1. CASE consensusRound <= GcDepth \/ w.core.panicked
  BY <1>1 DEF Cleanup
<1>2. CASE ~(consensusRound <= GcDepth \/ w.core.panicked)
  <2> DEFINE gc == consensusRound - GcDepth
             voters == {s \in w.core.lastVoted : s[1] >= gc}
             headers == {h \in w.core.processing : h.round >= gc}
             aggs == [r \in DOMAIN w.core.aggregators |->
                        IF r >= gc THEN w.core.aggregators[r] ELSE NoCertificates]
             c == [w.core EXCEPT !.lastVoted = voters, !.processing = headers,
                                 !.aggregators = aggs, !.gcRound = gc]
             v == Cleanup(w)
  <2>1. v = [w EXCEPT !.core = c]
    BY <1>2 DEF Cleanup, Worlds, Cores
  <2> HIDE DEF gc, voters, headers, aggs, v
  <2>2. /\ c.current = w.core.current /\ c.used = w.core.used /\ c.weight = w.core.weight
        /\ c.toConsensus = w.core.toConsensus /\ c.panicked = w.core.panicked
    BY DEF Worlds, Cores
  <2> HIDE DEF c
  <2>3. v.core = c /\ v.certWaiter = w.certWaiter /\ v.assembled = w.assembled
    BY <2>1 DEF Worlds
  <2>4. Parked(v) = Parked(w) /\ SameOwn(w, v)
    BY <2>2, <2>3 DEF Parked, SameOwn
  <2>5. Balanced(v, n)
    BY <2>2, <2>3, <2>4 DEF Balanced
  <2>6. Tallied(v)
    BY <2>3, <2>4, TalliedFrame
  <2> QED
    BY <2>5, <2>6 DEF v
<1> QED
  BY <1>1, <1>2

(***************************************************************************)
(* What IInv does not say of the state.                                    *)
(***************************************************************************)
Accounted == restarts = 0 => (Tallied(World) /\ Balanced(World, deliveries))

LEMMA AccountedIterate ==
  ASSUME IInv', NEW w \in Worlds, Tallied(w), NEW n, Balanced(w, n), Iterate(w),
         n = deliveries'
  PROVE  Accounted'
<1> DEFINE v == Cleanup(w)
<1>1. /\ core' = v.core /\ certs' = v.certs /\ headerWaiter' = v.headerWaiter
      /\ certWaiter' = v.certWaiter /\ voted' = v.voted /\ assembled' = v.assembled
  BY IterateResult
<1>2. Tallied(v) /\ Balanced(v, n)
  BY TallyCleanup
<1> HIDE DEF v
<1>3. SameOwn(v, World') /\ Parked(World') = Parked(v) /\ World'.assembled = v.assembled
      /\ World'.core = v.core
  BY <1>1 DEF World, SameOwn, Parked
<1>4. Tallied(World')
  BY <1>2, <1>3, TalliedFrame
<1>5. Balanced(World', deliveries')
  BY <1>2, <1>3 DEF Balanced
<1> QED
  BY <1>4, <1>5 DEF Accounted

\* Until the node restarts, there is a header of ours as soon as one was made.
LEMMA OwnIsCurrent ==
  ASSUME IInv, restarts = 0, NEW h \in proposed
  PROVE  core.current # None
BY WorldFields DEF Good, OneHeaderPerRound

LEMMA AccountedStep ==
  ASSUME IInv, IInv', Accounted, [Next]_vars
  PROVE  Accounted'
<1> SUFFICES ASSUME restarts' = 0 PROVE Accounted'
  BY DEF Accounted
<1>1. World \in Worlds /\ deliveries \in Int /\ restarts \in Nat /\ core \in Cores
  BY WorldFields, BoundsAssumption DEF IInv, Worlds
<1>2. CASE UNCHANGED <<core, certWaiter, assembled, deliveries, restarts>>
  <2>1. SameOwn(World, World') /\ Parked(World') = Parked(World)
        /\ World'.assembled = World.assembled /\ World'.core = World.core
    BY <1>2 DEF World, SameOwn, Parked
  <2>2. Tallied(World) => Tallied(World')
    BY <2>1, TalliedFrame
  <2> QED
    BY <1>2, <2>1, <2>2 DEF Accounted, Balanced
<1>3. CASE Restart
  BY <1>1, <1>3 DEF Restart
<1>4. CASE restarts = 0 /\ \E h \in Ids : OwnHeader(h)
  <2>1. PICK h \in Ids : OwnHeader(h)
    BY <1>4
  <2> DEFINE w == [World EXCEPT !.core.current = h, !.core.used = {}, !.core.weight = 0]
             c == [core EXCEPT !.current = h, !.used = {}, !.weight = 0]
             v == ProcessHeader(w, h)
  <2>2. Iterate(v) /\ deliveries' = deliveries /\ h \notin assembled /\ h # None
    <3>1. /\ Iterate(v) /\ deliveries' = deliveries /\ h # None
          /\ core.current # None => core.current.round < h.round
      BY <2>1, HeaderFacts DEF OwnHeader
    <3>2. core.current # None => core.current \in Ids
      BY <1>1 DEF Cores
    <3>3. \A g \in proposed : core.current # None /\ g.round <= core.current.round
      BY <1>4, WorldFields DEF Good, OneHeaderPerRound
    <3>4. h \notin proposed
      BY <3>1, <3>2, <3>3, HeaderFacts
    <3>5. assembled \subseteq proposed
      BY WorldFields DEF Good, Sound
    <3> QED
      BY <3>1, <3>4, <3>5
  <2>3. w = [World EXCEPT !.core = c]
    BY DEF World
  <2>4. /\ c \in Cores /\ c.current = h /\ c.used = {} /\ c.weight = 0
        /\ c.toConsensus = core.toConsensus /\ c.panicked = core.panicked
    <3>1. 0 \in 0 .. (QuorumThreshold - 1)
      BY StakeFacts
    <3> HIDE DEF w, v
    <3> QED
      BY <1>1, <3>1 DEF Cores
  <2> HIDE DEF c, w, v
  <2>5. /\ w \in Worlds /\ w.core = c /\ w.certWaiter = certWaiter
        /\ w.assembled = assembled
    BY <1>1, <2>3, <2>4, WorldFields DEF Worlds
  <2>6. Balanced(w, deliveries)
    <3>1. Parked(w) = Parked(World)
      BY <2>5, WorldFields DEF Parked
    <3> QED
      BY <1>4, <2>4, <2>5, <3>1, WorldFields DEF Balanced, Accounted
  <2>7. Tallied(w)
    <3>1. Shares({}) = {}
      BY DEF Shares
    <3>2. StakeOf({}) = 0
      BY <3>1, FS_EmptySet DEF StakeOf
    <3> QED
      BY <2>2, <2>4, <2>5, <3>2 DEF Tallied
  <2>8. v \in Worlds /\ Balanced(v, deliveries) /\ Tallied(v)
    BY <1>1, <2>2, <2>4, <2>5, <2>6, <2>7, TallyHeader DEF v
  <2> QED
    BY <2>2, <2>8, AccountedIterate
<1>5. CASE restarts = 0 /\ \E h \in Ids : ReceiveHeader(h)
  <2>1. PICK h \in Ids : ReceiveHeader(h)
    BY <1>5
  <2> DEFINE v == ProcessHeader(World, h)
  <2>2. Iterate(v) /\ deliveries' = deliveries /\ (h.author = Me => h \in proposed)
    BY <2>1, SentAssumption DEF ReceiveHeader
  <2>3. v \in Worlds /\ Balanced(v, deliveries) /\ Tallied(v)
    BY <1>1, <1>5, <2>2, OwnIsCurrent, WorldFields, TallyHeader DEF Accounted
  <2> HIDE DEF v
  <2> QED
    BY <2>2, <2>3, AccountedIterate
<1>6. CASE restarts = 0 /\ \E a \in Authorities : ReceiveVote(a)
  <2>1. PICK a \in Authorities : ReceiveVote(a)
    BY <1>6
  <2> DEFINE v == ProcessVote(World, a)
  <2>2. Iterate(v) /\ deliveries' = deliveries /\ core.current # None
    BY <2>1 DEF ReceiveVote
  <2>3. v \in Worlds /\ Balanced(v, deliveries) /\ Tallied(v)
    BY <1>1, <1>6, <2>2, WorldFields, TallyProcessVote DEF Accounted
  <2> HIDE DEF v
  <2> QED
    BY <2>2, <2>3, AccountedIterate
<1>7. CASE restarts = 0 /\ \E x \in Ids : ReceiveCertificate(x)
  <2>1. PICK x \in Ids : ReceiveCertificate(x)
    BY <1>7
  <2> DEFINE v == ProcessCertificate(World, x)
  <2>2. Iterate(v) /\ deliveries' = deliveries + 1 /\ x \in Others \cup assembled
    BY <2>1 DEF ReceiveCertificate
  <2>3. x.author = Me => x \in proposed
    BY <2>2, OthersAssumption, WorldFields DEF Good, Sound
  <2>4. v \in Worlds /\ Balanced(v, deliveries + 1) /\ Tallied(v)
    BY <1>1, <1>7, <2>3, OwnIsCurrent, WorldFields, TallyCertificate DEF Accounted
  <2> HIDE DEF v
  <2> QED
    BY <2>2, <2>4, AccountedIterate
<1>8. CASE restarts = 0 /\ \E x \in Ids : LoopbackCertificate(x)
  <2>1. PICK x \in Ids : LoopbackCertificate(x)
    BY <1>8
  <2> DEFINE cw == [certWaiter EXCEPT ![x] = @ - 1]
             w == [World EXCEPT !.certWaiter[x] = @ - 1]
             v == ProcessCertificate(w, x)
             copy == <<x, certWaiter[x]>>
  <2>2. Iterate(v) /\ deliveries' = deliveries /\ certWaiter[x] > 0
    BY <2>1 DEF LoopbackCertificate
  <2>3. x.author = Me => x \in proposed
    <3> HIDE DEF cw, w, v, copy
    <3>1. World.certWaiter[x] > 0
      BY <2>2, WorldFields
    <3>2. x \in Others \cup World.assembled /\ World.assembled \subseteq proposed
      BY <3>1, WorldFields DEF Good, Sound
    <3> QED
      BY <3>2, OthersAssumption
  <2>4. cw \in [Ids -> Nat] /\ \A y \in Ids : cw[y] = IF y = x THEN certWaiter[x] - 1
                                                             ELSE certWaiter[y]
    BY <2>2, WorldFields
  <2>5. w = [World EXCEPT !.certWaiter = cw]
    BY DEF World
  <2> HIDE DEF cw, w, v
  <2>6. w \in Worlds /\ w.core = core /\ w.certWaiter = cw /\ w.assembled = assembled
    BY <2>4, <2>5, WorldFields DEF Worlds
  <2>7. Parked(World) = Parked(w) \cup {copy} /\ copy \notin Parked(w)
    <3>1. certWaiter[x] \in Nat
      BY WorldFields
    <3>2. /\ 1 .. certWaiter[x] = (1 .. (certWaiter[x] - 1)) \cup {certWaiter[x]}
          /\ certWaiter[x] \notin 1 .. (certWaiter[x] - 1)
      BY <2>2, <3>1
    <3> QED
      BY <2>4, <2>6, <3>2, WorldFields DEF Parked
  <2> HIDE DEF copy
  <2>8. Balanced(World, deliveries) /\ Tallied(World)
    BY <1>8 DEF Accounted
  <2>9. /\ IsFiniteSet(Parked(w)) /\ Cardinality(Parked(w)) \in Nat
        /\ Cardinality(Parked(World)) = Cardinality(Parked(w)) + 1
    <3>1. IsFiniteSet(Parked(w))
      BY <2>7, <2>8, FS_Subset DEF Balanced
    <3> QED
      BY <2>7, <3>1, OneMore, FS_CardinalityType
  <2>10. Balanced(w, deliveries - 1)
    <3>1. Len(core.toConsensus) \in Nat /\ Cardinality(assembled) \in Nat
      BY <1>1, <2>8, BalancedType, WorldFields
    <3>2. ~core.panicked => Len(core.toConsensus) + Cardinality(Parked(World))
                                = deliveries + Cardinality(assembled)
      BY <2>8, WorldFields DEF Balanced
    <3>3. ~core.panicked => Len(core.toConsensus) + Cardinality(Parked(w))
                                = (deliveries - 1) + Cardinality(assembled)
      BY <1>1, <2>9, <3>1, <3>2
    <3> QED
      BY <2>6, <2>8, <2>9, <3>3, WorldFields DEF Balanced
  <2>11. Tallied(w)
    BY <2>6, <2>8, WorldFields DEF Tallied
  <2>12. deliveries - 1 \in Int /\ (deliveries - 1) + 1 = deliveries
    BY <1>1
  <2>13. x.author = Me => w.core.current # None
    BY <1>8, <2>3, <2>6, OwnIsCurrent
  <2>14. v \in Worlds /\ Balanced(v, deliveries) /\ Tallied(v)
    BY <2>6, <2>10, <2>11, <2>12, <2>13, TallyCertificate DEF v
  <2> QED
    BY <2>2, <2>14, AccountedIterate

<1>9. CASE restarts = 0 /\ \E p \in headerWaiter : LoopbackHeader(p)
  <2>1. PICK p \in headerWaiter : LoopbackHeader(p)
    BY <1>9
  <2> DEFINE w == [World EXCEPT !.headerWaiter = @ \ {p}]
             v == ProcessHeader(w, p.id)
  <2>2. Iterate(v) /\ deliveries' = deliveries
    BY <2>1 DEF LoopbackHeader
  <2>3. p.id \in Ids /\ (p.id.author = Me => p.id \in proposed)
    BY <2>1, WorldFields DEF Good, Sound, Worlds, Pending
  <2>4. /\ w \in Worlds /\ w.core = core /\ w.certWaiter = certWaiter
        /\ w.assembled = assembled
    BY <1>1 DEF Worlds, World
  <2> HIDE DEF w, v
  <2>5. Balanced(w, deliveries) /\ Tallied(w)
    <3>1. Parked(w) = Parked(World)
      BY <2>4, WorldFields DEF Parked
    <3> QED
      BY <1>9, <2>4, <3>1, WorldFields DEF Balanced, Tallied, Accounted
  <2>6. v \in Worlds /\ Balanced(v, deliveries) /\ Tallied(v)
    BY <1>1, <1>9, <2>3, <2>4, <2>5, OwnIsCurrent, TallyHeader DEF v
  <2> QED
    BY <2>2, <2>6, AccountedIterate
<1>10. CASE restarts = 0 /\ RefuseMessage
  BY <1>1, <1>10, AccountedIterate DEF RefuseMessage, Accounted
<1>11. CASE ~Restart /\ \E x \in Ids : ReceivePayload(x) \/ Commit(x)
  BY <1>2, <1>11 DEF ReceivePayload, Commit
<1>12. CASE CleanupWaiter
  BY <1>2, <1>12 DEF CleanupWaiter
<1>13. CASE UNCHANGED vars
  BY <1>2, <1>13 DEF vars
<1>14. Restart \/ restarts' = restarts
  BY DEF Next, vars, OwnHeader, ReceiveHeader, ReceiveCertificate, LoopbackCertificate,
         ReceivePayload, Commit, ReceiveVote, LoopbackHeader, RefuseMessage, CleanupWaiter
<1> QED
  BY <1>3, <1>4, <1>5, <1>6, <1>7, <1>8, <1>9, <1>10, <1>11, <1>12, <1>13, <1>14 DEF Next

LEMMA AccountedInit == Init => Accounted
<1> SUFFICES ASSUME Init PROVE Tallied(World) /\ Balanced(World, deliveries)
  BY DEF Accounted
<1>1. /\ World.core.current = None /\ World.core.toConsensus = <<>>
      /\ World.certWaiter = [h \in Ids |-> 0] /\ World.assembled = {} /\ deliveries = 0
  BY DEF Init, Boot, World
<1>2. 1 .. 0 = {}
  OBVIOUS
<1>3. Parked(World) = {}
  BY <1>1, <1>2 DEF Parked
<1>4. Len(World.core.toConsensus) = 0
  BY <1>1, EmptySeq
<1> QED
  BY <1>1, <1>3, <1>4, FS_EmptySet DEF Tallied, Balanced

\* Until the node restarts or the core stops, certificates are neither lost nor multiplied
\* between the network, process_vote, the CertificateWaiter and the consensus.
THEOREM CoreAccountsForCertificates == Spec => []EveryCertificateAccounted
<1>1. Accounted => EveryCertificateAccounted
  BY DEF Accounted, Balanced, EveryCertificateAccounted, World, Parked, ParkedCopies
<1>2. IInv /\ IInv' /\ Accounted /\ [Next]_vars => Accounted'
  BY AccountedStep
<1> QED
  BY <1>1, <1>2, AccountedInit, CoreInvariant, PTL DEF Spec
=============================================================================
