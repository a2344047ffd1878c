-------------------------- MODULE ParentSyncProofs --------------------------
(***************************************************************************)
(* Proofs about ParentSync for every DAG, every set of certificates the    *)
(* peers hold and every bound: fetching parents over connections that lose *)
(* messages shows the core only what it may meet anyway, so that all that  *)
(* is proved of Core holds here too; and the requests of the HeaderWaiter  *)
(* are those of the headers that wait.                                     *)
(***************************************************************************)
EXTENDS ParentSync, CoreProofs

(***************************************************************************)
(* No header is of our own here, so the core does not count votes.  What   *)
(* its handlers do to the HeaderWaiter, and to the store: header h may     *)
(* start to wait.                                                          *)
(***************************************************************************)
Suspends(w, v, h) ==
    /\ w.certs \subseteq v.certs
    /\ \/ v.headerWaiter = w.headerWaiter
       \/ \E on \in {"parents", "payload"} :
            /\ v.headerWaiter = w.headerWaiter \cup {[id |-> h, on |-> on]}
            /\ \A p \in w.headerWaiter : p.id # h
            /\ (on = "payload") <=> (MissingParents(w, h) = {})

LEMMA SuspendSuspends ==
  ASSUME NEW w \in Worlds, NEW u \in Worlds, NEW h \in Ids, NEW on \in {"parents", "payload"},
         u.certs = w.certs, u.headerWaiter = w.headerWaiter,
         (on = "payload") <=> (MissingParents(w, h) = {})
  PROVE  Suspends(w, Suspend(u, h, on), h)
<1> DEFINE v == Suspend(u, h, on)
<1>1. v.certs = w.certs
  BY SuspendFields DEF SameCertificates
<1>2. CASE \E p \in u.headerWaiter : p.id = h
  <2>1. v = u
    BY <1>2 DEF Suspend
  <2> QED
    BY <2>1 DEF Suspends
<1>3. CASE ~ \E p \in u.headerWaiter : p.id = h
  <2>1. v = [u EXCEPT !.headerWaiter = @ \cup {[id |-> h, on |-> on]}]
    BY <1>3 DEF Suspend
  <2>2. v.headerWaiter = w.headerWaiter \cup {[id |-> h, on |-> on]}
    BY <2>1 DEF Worlds
  <2> HIDE DEF v
  <2> QED
    BY <1>1, <1>3, <2>2 DEF Suspends, v
<1> QED
  BY <1>2, <1>3

LEMMA BodySuspends ==
  ASSUME NEW w \in Worlds, NEW h \in Ids
  PROVE  Suspends(w, ProcessHeaderBody(w, h), h)
<1> DEFINE v == ProcessHeaderBody(w, h)
           w1 == [w EXCEPT !.core.processing = @ \cup {h}]
           w2 == [w1 EXCEPT !.core.lastVoted = @ \cup {SlotOf(h)}, !.voted = @ \cup {h}]
<1>1. w1 \in Worlds /\ w1.certs = w.certs /\ w1.headerWaiter = w.headerWaiter
  BY DEF Worlds, Cores
<1>2. w2.certs = w.certs /\ w2.headerWaiter = w.headerWaiter
  BY DEF Worlds, Cores
<1>3. v = IF MissingParents(w, h) # {} THEN Suspend(w1, h, "parents")
          ELSE IF Parents[h] = {} \/ ~WellFormedParents(h) THEN w1
          ELSE IF MissingPayload(h) THEN Suspend(w1, h, "payload")
          ELSE IF CanVote(w, h) THEN w2 ELSE w1
  BY DEF ProcessHeaderBody
<1> HIDE DEF w1, w2, v
<1>4. Suspends(w, w1, h) /\ Suspends(w, w2, h)
  BY <1>1, <1>2 DEF Suspends
<1>5. CASE MissingParents(w, h) # {}
  BY <1>1, <1>3, <1>5, SuspendSuspends DEF v
<1>6. CASE MissingParents(w, h) = {}
  <2>1. Suspends(w, Suspend(w1, h, "payload"), h)
    BY <1>1, <1>6, SuspendSuspends
  <2> QED
    BY <1>3, <1>4, <1>6, <2>1 DEF v
<1> QED
  BY <1>5, <1>6

LEMMA HeaderSuspends ==
  ASSUME NEW w \in Worlds, NEW h \in Ids, h.author # Me
  PROVE  /\ ProcessHeader(w, h) \in Worlds
         /\ Suspends(w, ProcessHeader(w, h), h)
<1>1. ProcessHeader(w, h) = ProcessHeaderBody(w, h)
  BY DEF ProcessHeader, VotesForSelf
<1> QED
  BY <1>1, BodySuspends, BodyFields

LEMMA CertificateSuspends ==
  ASSUME NEW w \in Worlds, NEW x \in Ids, x.author # Me
  PROVE  Suspends(w, ProcessCertificate(w, x), x)
<1> DEFINE v == ProcessCertificate(w, x)
           w1 == IF x \in w.core.processing THEN w ELSE ProcessHeader(w, x)
<1>1. v = IF w1.core.panicked THEN w1
          ELSE IF MissingParents(w1, x) # {} THEN Park(w1, x) ELSE Accept(w1, x)
  BY DEF ProcessCertificate, DeliverCertificate
<1>2. Suspends(w, w, x)
  BY DEF Suspends
<1>3. w1 \in Worlds /\ Suspends(w, w1, x)
  BY <1>2, HeaderSuspends
<1> HIDE DEF w1, v
<1>4. Park(w1, x).certs = w1.certs /\ Park(w1, x).headerWaiter = w1.headerWaiter
  BY <1>3, ParkFields DEF SameVotes
<1>5. /\ Accept(w1, x).certs = w1.certs \cup {x}
      /\ SameVotes(w1, Accept(w1, x))
  BY <1>3, AcceptFields, Zenon
<1>6. w1.certs \subseteq v.certs /\ v.headerWaiter = w1.headerWaiter
  BY <1>1, <1>4, <1>5 DEF SameVotes
<1> QED
  BY <1>3, <1>6 DEF Suspends, v

\* The clean-up of the core touches neither.
LEMMA IterateStores ==
  ASSUME NEW w, Iterate(w)
  PROVE  certs' = w.certs /\ headerWaiter' = w.headerWaiter
<1>1. Cleanup(w).certs = w.certs /\ Cleanup(w).headerWaiter = w.headerWaiter
  BY DEF Cleanup
<1> QED
  BY <1>1, IterateResult

LEMMA IterateSuspends ==
  ASSUME NEW w, NEW h, Suspends(World, w, h), Iterate(w)
  PROVE  Suspends(World, World', h)
BY IterateStores DEF World, Suspends

-----------------------------------------------------------------------------
(***************************************************************************)
(* Every step is one of the core, or leaves the core alone.                *)
(***************************************************************************)
LEMMA SyncStepIsCoreStep ==
  ASSUME IInv, [SyncNext]_allVars
  PROVE  [Next]_vars
<1>1. Sent \subseteq Ids /\ Others \cup assembled \subseteq Ids
  BY SentAssumption, OthersAssumption, WorldFields DEF Worlds
<1>2. CASE \E h \in Sent : HeaderArrives(h)
  BY <1>1, <1>2 DEF HeaderArrives, Next
<1>3. CASE \E x \in Ids : BroadcastArrives(x) \/ CertificateResumes(x) \/ CommitLeader(x)
  BY <1>3 DEF BroadcastArrives, CertificateResumes, CommitLeader, Next
<1>4. CASE \E p \in headerWaiter : HeaderResumes(p)
  BY <1>4 DEF HeaderResumes, Next
<1>5. CASE ForgetOvertaken
  BY <1>5 DEF ForgetOvertaken, Next
<1>6. CASE \E p \in Peers : ReplyArrives(p)
  <2>1. PICK p \in Peers : ReplyArrives(p)
    BY <1>6
  <2>2. RefuseMessage \/ ReceiveCertificate(Arrived(mail, p))
    BY <2>1 DEF ReplyArrives
  <2>3. ReceiveCertificate(Arrived(mail, p)) => Arrived(mail, p) \in Ids
    BY <1>1 DEF ReceiveCertificate
  <2> QED
    BY <2>2, <2>3 DEF Next
<1>7. CASE \E p \in Peers : LoseMail(p)
  BY <1>7 DEF LoseMail
<1>8. CASE \E S \in LuckyChoices(Peers, SyncRetryNodes) : RetryRequests(S)
  BY <1>8 DEF RetryRequests
<1>9. CASE UNCHANGED allVars
  BY <1>9 DEF allVars
<1> QED
  BY <1>2, <1>3, <1>4, <1>5, <1>6, <1>7, <1>8, <1>9 DEF SyncNext

\* The inductive invariant of the core holds with the requests, the Helpers and the lost
\* connections around it.
LEMMA SyncCoreInvariant == SyncSpec => []IInv
<1>1. SyncInit => IInv
  BY InitGood DEF SyncInit
<1>2. IInv /\ [SyncNext]_allVars => IInv'
  BY SyncStepIsCoreStep, CoreStep
<1> QED
  BY <1>1, <1>2, PTL DEF SyncSpec

\* ParentSync implements Core: the HeaderWaiter's requests, the answers of the Helpers and
\* the connections that are lost only decide what reaches the core, and when.  So whatever
\* is proved of the core holds while it catches up.
THEOREM SyncImplementsCore == SyncSpec => Spec
<1>1. SyncInit => Init
  BY DEF SyncInit
<1>2. IInv /\ [SyncNext]_allVars => [Next]_vars
  BY SyncStepIsCoreStep
<1> QED
  BY <1>1, <1>2, SyncCoreInvariant, PTL DEF SyncSpec, Spec

-----------------------------------------------------------------------------
(***************************************************************************)
(* The inductive invariant of the requests.  A header waits for one thing  *)
(* at a time; when that is its payload, its parents are stored, so that    *)
(* resuming it removes requests nobody needs; and every request bears the  *)
(* round of a header that waits, so that one the clean-up takes from a     *)
(* header it keeps was made by a header of a lower round, which it drops.  *)
(***************************************************************************)
SyncIInv ==
    /\ proposed = {}
    /\ \A p \in headerWaiter : p.id \in Sent \cup Others
    /\ \A p, q \in headerWaiter : p.id = q.id => p = q
    /\ \A p \in headerWaiter : p.on = "payload" => MissingParents(World, p.id) = {}
    /\ RequestsMatchPending

\* Headers that wait are of other authors.
LEMMA WaitingFacts ==
  ASSUME NEW h \in Sent \cup Others
  PROVE  h \in Ids /\ h.author # Me
BY SentAssumption, OthersAssumption

LEMMA WorldMissing ==
  ASSUME NEW h
  PROVE  /\ MissingParents(World, h) = Parents[h] \ (GenesisIds \cup certs)
         /\ MissingParents(World', h) = Parents[h] \ (GenesisIds \cup certs')
BY DEF MissingParents, World

\* A step in which header h may start to wait, and asks for what it misses.
LEMMA RequestsAsked ==
  ASSUME SyncIInv, NEW h \in Sent \cup Others, Suspends(World, World', h),
         UNCHANGED <<proposed, dropped>>, NEW m, AskAuthor(m)
  PROVE  SyncIInv'
<1> DEFINE fresh == {p.id : p \in {q \in headerWaiter' \ headerWaiter : q.on = "parents"}}
           entries == UNION {Entries(g) : g \in fresh}
<1>1. wanted' = wanted \cup entries
  BY DEF AskAuthor
<1>2. certs \subseteq certs' /\ headerWaiter \subseteq headerWaiter'
  BY DEF Suspends, World
<1>3. \A p \in headerWaiter' : \/ p \in headerWaiter
                               \/ /\ p.id = h
                                  /\ \A q \in headerWaiter : q.id # h
                                  /\ p.on = "payload" => MissingParents(World, h) = {}
  BY DEF Suspends, World
<1>4. \A p, q \in headerWaiter' : p.id = q.id => p = q
  <2>1. \A p, q \in headerWaiter' :
            (p \notin headerWaiter /\ q \notin headerWaiter) => p = q
    BY DEF Suspends, World
  <2> QED
    BY <1>3, <2>1 DEF SyncIInv
<1>5. \A p \in headerWaiter' : p.id \in Sent \cup Others
  BY <1>3 DEF SyncIInv
<1>6. \A g : MissingParents(World', g) \subseteq MissingParents(World, g)
  BY <1>2, WorldMissing
<1>7. \A p \in headerWaiter' : p.on = "payload" => MissingParents(World', p.id) = {}
  BY <1>3, <1>6 DEF SyncIInv
<1>8. Waiting' = Waiting \cup fresh
  BY <1>2 DEF Waiting
<1>9. \A g \in fresh : \A e \in Entries(g) :
          /\ e.cert \in MissingParents(World, g)
          /\ e.round = g.round
  BY DEF Entries
<1>10. \A g \in fresh : MissingParents(World, g) \subseteq Wanted'
  <2> SUFFICES ASSUME NEW g \in fresh, NEW x \in MissingParents(World, g)
               PROVE  x \in Wanted'
    OBVIOUS
  <2>1. CASE x \in Wanted
    BY <1>1, <2>1 DEF Wanted
  <2>2. CASE x \notin Wanted
    <3>1. [cert |-> x, round |-> g.round] \in Entries(g)
      BY <2>2 DEF Entries
    <3>2. [cert |-> x, round |-> g.round] \in wanted'
      BY <1>1, <3>1
    <3> QED
      BY <3>2 DEF Wanted
  <2> QED
    BY <2>1, <2>2
<1>11. \A g \in Waiting' : \A x \in MissingParents(World', g) :
            x \in Wanted' \/ Orphaned(x, g)'
  <2>1. Wanted \subseteq Wanted' /\ \A x, g : Orphaned(x, g)' <=> Orphaned(x, g)
    BY <1>1 DEF Wanted, Orphaned
  <2>2. \A g \in Waiting : \A x \in MissingParents(World, g) : x \in Wanted \/ Orphaned(x, g)
    BY DEF SyncIInv, RequestsMatchPending
  <2> HIDE DEF fresh
  <2> QED
    BY <1>6, <1>8, <1>10, <2>1, <2>2
<1>12. \A w \in wanted' : \E g \in Waiting' : g.round = w.round /\ w.cert \in Parents[g]
  <2> SUFFICES ASSUME NEW w \in wanted'
               PROVE  \E g \in Waiting' : g.round = w.round /\ w.cert \in Parents[g]
    OBVIOUS
  <2>1. CASE w \in wanted
    BY <1>8, <2>1 DEF SyncIInv, RequestsMatchPending
  <2>2. CASE w \in entries
    <3>1. PICK g \in fresh : w \in Entries(g)
      BY <2>2
    <3>2. w.cert \in Parents[g] /\ w.round = g.round
      BY <1>9, <3>1, WorldMissing
    <3> QED
      BY <1>8, <3>1, <3>2
  <2> QED
    BY <1>1, <2>1, <2>2
<1> QED
  BY <1>4, <1>5, <1>7, <1>11, <1>12 DEF SyncIInv, RequestsMatchPending

\* A step that leaves alone the requests, the headers that wait, and the store.
LEMMA RequestsFrame ==
  ASSUME SyncIInv, UNCHANGED <<headerWaiter, proposed, certs, wanted, dropped>>
  PROVE  SyncIInv'
<1>1. Waiting' = Waiting /\ Wanted' = Wanted /\ \A x, h : Orphaned(x, h)' <=> Orphaned(x, h)
  BY DEF Waiting, Wanted, Orphaned
<1>2. \A h : MissingParents(World', h) = MissingParents(World, h)
  BY WorldMissing
<1> QED
  BY <1>1, <1>2 DEF SyncIInv, RequestsMatchPending

\* A header resumes: its requests go, and nobody else needs them.
LEMMA RequestsAnswered ==
  ASSUME IInv, SyncIInv, NEW p \in headerWaiter, HeaderResumes(p)
  PROVE  SyncIInv'
<1> DEFINE h == p.id
           w == [World EXCEPT !.headerWaiter = @ \ {p}]
           v == ProcessHeader(w, h)
<1>1. h \in Sent \cup Others /\ h \in Ids /\ h.author # Me
  BY WaitingFacts DEF SyncIInv
<1>2. /\ IF p.on = "parents" THEN MissingParents(World, h) = {} ELSE h \in payloads
      /\ Iterate(v)
      /\ wanted' = wanted \ Answered(h)
      /\ UNCHANGED <<proposed, dropped>>
  BY DEF HeaderResumes, LoopbackHeader
<1>3. p.on \in {"parents", "payload"}
  BY WorldFields DEF Worlds, Pending
<1>4. MissingParents(World, h) = {}
  BY <1>2, <1>3 DEF SyncIInv
<1>5. /\ w \in Worlds /\ w.certs = certs /\ w.headerWaiter = headerWaiter \ {p}
  BY WorldFields DEF Worlds, World
<1>6. Suspends(w, v, h)
  BY <1>1, <1>5, HeaderSuspends
<1>7. MissingParents(w, h) = {}
  BY <1>4, <1>5, WorldMissing DEF MissingParents
<1> HIDE DEF w, v
<1>8. certs' = v.certs /\ headerWaiter' = v.headerWaiter
  BY <1>2, IterateStores
<1>9. certs \subseteq certs'
  BY <1>5, <1>6, <1>8 DEF Suspends
<1>10. \/ headerWaiter' = headerWaiter \ {p}
       \/ headerWaiter' = (headerWaiter \ {p}) \cup {[id |-> h, on |-> "payload"]}
  BY <1>5, <1>6, <1>7, <1>8 DEF Suspends
<1>11. \A q \in headerWaiter \ {p} : q.id # h
  BY DEF SyncIInv
<1>12. \A q \in headerWaiter' : \/ q \in headerWaiter /\ q # p
                                \/ q = [id |-> h, on |-> "payload"]
  BY <1>10
<1>13. \A q, r \in headerWaiter' : q.id = r.id => q = r
  BY <1>11, <1>12 DEF SyncIInv
<1>14. \A q \in headerWaiter' : q.id \in Sent \cup Others
  BY <1>1, <1>12 DEF SyncIInv
<1>15. \A g : MissingParents(World', g) \subseteq MissingParents(World, g)
  BY <1>9, WorldMissing
<1>16. \A q \in headerWaiter' : q.on = "payload" => MissingParents(World', q.id) = {}
  BY <1>4, <1>12, <1>15 DEF SyncIInv
<1>17. Waiting' \subseteq Waiting /\ \A g \in Waiting : g # h => g \in Waiting'
  BY <1>10, <1>12 DEF Waiting
<1>18. \A g \in Waiting' : \A x \in MissingParents(World', g) :
            x \in Wanted' \/ Orphaned(x, g)'
  <2> SUFFICES ASSUME NEW g \in Waiting', NEW x \in MissingParents(World', g),
                      ~Orphaned(x, g)'
               PROVE  x \in Wanted'
    OBVIOUS
  <2>1. x \in MissingParents(World, g) /\ ~Orphaned(x, g)
    BY <1>2, <1>15 DEF Orphaned
  <2>2. PICK e \in wanted : e.cert = x
    BY <1>17, <2>1 DEF SyncIInv, RequestsMatchPending, Wanted
  <2>3. x \notin Parents[h]
    BY <1>4, <2>1, WorldMissing
  <2>4. e \in wanted'
    BY <1>2, <2>2, <2>3 DEF Answered
  <2> QED
    BY <2>2, <2>4 DEF Wanted
<1>19. \A e \in wanted' : \E g \in Waiting' : g.round = e.round /\ e.cert \in Parents[g]
  <2> SUFFICES ASSUME NEW e \in wanted'
               PROVE  \E g \in Waiting' : g.round = e.round /\ e.cert \in Parents[g]
    OBVIOUS
  <2>1. e \in wanted /\ e.cert \notin Parents[h]
    BY <1>2 DEF Answered
  <2>2. PICK g \in Waiting : g.round = e.round /\ e.cert \in Parents[g]
    BY <2>1 DEF SyncIInv, RequestsMatchPending
  <2> QED
    BY <1>17, <2>1, <2>2
<1> QED
  BY <1>2, <1>13, <1>14, <1>16, <1>18, <1>19 DEF SyncIInv, RequestsMatchPending

\* The clean-up of the HeaderWaiter drops a header and its requests together.  One that a
\* header it keeps shares is orphaned: it bears the round of the header that asked first.
LEMMA RequestsForgotten ==
  ASSUME IInv, SyncIInv, ForgetOvertaken
  PROVE  SyncIInv'
<1> DEFINE kept(r) == r > consensusRound - GcDepth
<1>1. /\ headerWaiter' = {p \in headerWaiter : kept(p.id.round)}
      /\ wanted' = {w \in wanted : kept(w.round)}
      /\ UNCHANGED <<certs, proposed>>
  BY DEF ForgetOvertaken, CleanupWaiter
<1> HIDE DEF kept
<1>2. Waiting' = {h \in Waiting : kept(h.round)}
  BY <1>1 DEF Waiting
<1>3. \A g : MissingParents(World', g) = MissingParents(World, g)
  BY <1>1, WorldMissing
<1>4. dropped' = dropped \cup (Waiting \ Waiting')
  BY DEF ForgetOvertaken
<1>5. \A h \in Waiting' : \A x \in MissingParents(World', h) :
          x \in Wanted' \/ Orphaned(x, h)'
  <2> SUFFICES ASSUME NEW h \in Waiting', NEW x \in MissingParents(World', h),
                      ~Orphaned(x, h)'
               PROVE  x \in Wanted'
    OBVIOUS
  <2>1. h \in Waiting /\ kept(h.round) /\ x \in MissingParents(World, h)
    BY <1>2, <1>3
  <2>2. ~Orphaned(x, h)
    BY <1>4 DEF Orphaned
  <2>3. PICK w \in wanted : w.cert = x
    BY <2>1, <2>2 DEF SyncIInv, RequestsMatchPending, Wanted
  <2>4. PICK g \in Waiting : g.round = w.round /\ w.cert \in Parents[g]
    BY DEF SyncIInv, RequestsMatchPending
  <2>5. kept(w.round)
    <3> SUFFICES ASSUME ~kept(w.round) PROVE FALSE
      OBVIOUS
    <3>1. g \in dropped'
      BY <1>2, <1>4, <2>4
    <3>2. h.round \in Nat /\ g.round \in Nat
      <4>1. Waiting \subseteq Sent \cup Others
        BY DEF SyncIInv, Waiting
      <4> QED
        BY <2>1, <2>4, <4>1, WaitingFacts, HeadersAssumption
    <3>3. consensusRound \in Nat /\ GcDepth \in Nat
      BY HeaderFacts, BoundsAssumption DEF IInv
    <3>4. g.round < h.round
      BY <2>1, <2>4, <3>2, <3>3 DEF kept
    <3> QED
      BY <2>3, <2>4, <3>1, <3>4 DEF Orphaned
  <2>6. w \in wanted'
    BY <1>1, <2>5
  <2> QED
    BY <2>3, <2>6 DEF Wanted
<1>6. \A w \in wanted' : \E h \in Waiting' : h.round = w.round /\ w.cert \in Parents[h]
  <2> SUFFICES ASSUME NEW w \in wanted'
               PROVE  \E h \in Waiting' : h.round = w.round /\ w.cert \in Parents[h]
    OBVIOUS
  <2>1. w \in wanted /\ kept(w.round)
    BY <1>1
  <2>2. PICK h \in Waiting : h.round = w.round /\ w.cert \in Parents[h]
    BY <2>1 DEF SyncIInv, RequestsMatchPending
  <2> QED
    BY <1>2, <2>1, <2>2
<1> QED
  BY <1>1, <1>3, <1>5, <1>6 DEF SyncIInv, RequestsMatchPending

\* The certificates that reach the core are of other authors.
LEMMA CertificateKnown ==
  ASSUME IInv, SyncIInv, NEW x, ReceiveCertificate(x) \/ (x \in Ids /\ certWaiter[x] > 0)
  PROVE  x \in Others
<1>1. assembled = {}
  BY WorldFields DEF Good, Sound, SyncIInv
<1> QED
  BY <1>1, WorldFields DEF ReceiveCertificate, Good, Sound

LEMMA RequestsCertificate ==
  ASSUME IInv, SyncIInv, NEW x, ReceiveCertificate(x), NEW m, AskAuthor(m),
         UNCHANGED dropped
  PROVE  SyncIInv'
<1>1. x \in Others
  BY CertificateKnown
<1>2. Iterate(ProcessCertificate(World, x)) /\ UNCHANGED proposed
  BY DEF ReceiveCertificate
<1>3. Suspends(World, ProcessCertificate(World, x), x)
  BY <1>1, WaitingFacts, WorldFields, CertificateSuspends
<1>4. Suspends(World, World', x)
  BY <1>2, <1>3, IterateSuspends
<1> QED
  BY <1>1, <1>2, <1>4, RequestsAsked

LEMMA SyncStep ==
  ASSUME IInv, SyncIInv, [SyncNext]_allVars
  PROVE  SyncIInv'
<1>1. CASE \E h \in Sent : HeaderArrives(h)
  <2>1. PICK h \in Sent : HeaderArrives(h)
    BY <1>1
  <2>2. Iterate(ProcessHeader(World, h)) /\ UNCHANGED <<proposed, dropped>> /\ AskAuthor(mail)
    BY <2>1 DEF HeaderArrives, ReceiveHeader
  <2>3. Suspends(World, ProcessHeader(World, h), h)
    BY WaitingFacts, WorldFields, HeaderSuspends
  <2>4. Suspends(World, World', h)
    BY <2>2, <2>3, IterateSuspends
  <2> QED
    BY <2>2, <2>4, RequestsAsked
<1>2. CASE \E x \in Ids : BroadcastArrives(x)
  BY <1>2, RequestsCertificate DEF BroadcastArrives
<1>3. CASE \E x \in Ids : CertificateResumes(x)
  <2>1. PICK x \in Ids : CertificateResumes(x)
    BY <1>3
  <2> DEFINE w == [World EXCEPT !.certWaiter[x] = @ - 1]
             cw == [certWaiter EXCEPT ![x] = @ - 1]
             v == ProcessCertificate(w, x)
  <2>2. certWaiter[x] > 0 /\ Iterate(v) /\ UNCHANGED <<proposed, dropped>> /\ AskAuthor(mail)
    BY <2>1 DEF CertificateResumes, LoopbackCertificate
  <2>3. x \in Others
    BY <2>2, CertificateKnown
  <2>4. cw \in [Ids -> Nat]
    BY <2>2, WorldFields
  <2>5. w = [World EXCEPT !.certWaiter = cw]
    BY DEF World
  <2> HIDE DEF cw, w, v
  <2>6. w \in Worlds /\ w.certs = World.certs /\ w.headerWaiter = World.headerWaiter
    BY <2>4, <2>5, WorldFields DEF Worlds
  <2>7. Suspends(w, v, x)
    BY <2>3, <2>6, WaitingFacts, CertificateSuspends DEF v
  <2>8. Suspends(World, v, x)
    BY <2>6, <2>7 DEF Suspends, MissingParents
  <2>9. Suspends(World, World', x)
    BY <2>2, <2>8, IterateSuspends
  <2> QED
    BY <2>2, <2>3, <2>9, RequestsAsked
<1>4. CASE \E x \in Ids : CommitLeader(x)
  BY <1>4, RequestsFrame DEF CommitLeader, Commit, syncVars
<1>5. CASE \E p \in headerWaiter : HeaderResumes(p)
  BY <1>5, RequestsAnswered
<1>6. CASE ForgetOvertaken
  BY <1>6, RequestsForgotten
<1>7. CASE \E p \in Peers : ReplyArrives(p)
  <2>1. PICK p \in Peers : ReplyArrives(p)
    BY <1>7
  <2>2. CASE RefuseMessage /\ UNCHANGED <<wanted, dropped>>
    <3>1. certs' = certs /\ headerWaiter' = headerWaiter
      BY <2>2, IterateStores DEF RefuseMessage, World
    <3> QED
      BY <2>2, <3>1, RequestsFrame DEF RefuseMessage
  <2>3. CASE ReceiveCertificate(Arrived(mail, p)) /\ AskAuthor(Take(mail, p)) /\ UNCHANGED dropped
    BY <2>3, RequestsCertificate
  <2> QED
    BY <2>1, <2>2, <2>3 DEF ReplyArrives
<1>8. CASE \E p \in Peers : LoseMail(p)
  BY <1>8, RequestsFrame DEF LoseMail, vars
<1>9. CASE \E S \in LuckyChoices(Peers, SyncRetryNodes) : RetryRequests(S)
  BY <1>9, RequestsFrame DEF RetryRequests, vars
<1>10. CASE UNCHANGED allVars
  BY <1>10, RequestsFrame DEF allVars, vars, syncVars
<1> QED
  BY <1>1, <1>2, <1>3, <1>4, <1>5, <1>6, <1>7, <1>8, <1>9, <1>10 DEF SyncNext

\* What the HeaderWaiter has in parent_requests is what the headers that wait still miss,
\* although headers share requests and the clean-up removes them by round: a parent that
\* is missing is asked for again and again until it is stored, unless a header of a lower
\* round had asked for it first and was dropped.  Nothing is assumed of the headers that
\* the network sends.
THEOREM SyncRequestsMatchPending == SyncSpec => []RequestsMatchPending
<1>1. SyncInit => SyncIInv
  BY DEF SyncInit, Init, SyncIInv, RequestsMatchPending, Waiting
<1>2. IInv /\ SyncIInv /\ [SyncNext]_allVars => SyncIInv'
  BY SyncStep
<1>3. SyncIInv => RequestsMatchPending
  BY DEF SyncIInv
<1> QED
  BY <1>1, <1>2, <1>3, SyncCoreInvariant, PTL DEF SyncSpec
=============================================================================
