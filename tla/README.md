# Bullshark in TLA+

TLA+ models of the Narwhal/Bullshark implementation in `src/`: the consensus task, the
primary (core, aggregators, waiters, sync requests, proposer), the worker (batches, pauses,
synchronizer), the two network senders and the store under them, and the committee
arithmetic they share. TLC checks the models on small instances. TLAPS proves, for every
committee and without bounds on rounds, messages or failures, the facts about quorums,
certificates and the certified DAG on which the commit rules rest, and the safety of the
consensus task, of the primary's core with its requests for certificates, of its proposer and
of a whole worker. Paths below are relative to `src/`.

## 1. The system

A validator is one *primary* and some *workers*. Workers make batches of transactions and
tell their primary the digests. The primary's *proposer* puts digests and the certificates
of the last round (parents) into a *header*; the other primaries vote for it; the votes of a
quorum of stake make a *certificate*. Certificates of all rounds form a DAG. The *consensus*
task of each validator reads that DAG, elects a leader every second round and, when a leader
has enough support, outputs the leader's causal history in a fixed order, without any
further message. The round it commits goes back to the primary, whose tasks then forget old
rounds (garbage collection).

This repository adds an adversary mode (`BULLSHARK_FAULTS > 0`). In every round `f`
authorities, the steady leader among them, are silent: they make no header. The consensus
then commits *fallback* leaders, one per wave of four rounds.

### Inventory

| Component | State | Operations | What must be right |
|---|---|---|---|
| Committee (`config/src/lib.rs`) | stakes | thresholds, `leader` | two quorums meet in an honest authority; a quorum meets every f+1 |
| Consensus (`consensus/src/lib.rs`) | in-memory DAG, last committed round per author, resolved fallbacks | insert a certificate; commit or skip a leader; order past leaders; flatten; clean up | no certificate output twice; parents first; nothing lost; no decision missed; validators agree |
| Core (`primary/src/core.rs`, `aggregators.rs`, `synchronizer.rs`) | votes cast, headers in process, vote and certificate aggregators, gc round | own header, header, vote, certificate, two loopbacks, clean-up | one vote per slot; history before certificate; no header or certificate lost; parents handed out once |
| HeaderWaiter, CertificateWaiter, PayloadReceiver, GarbageCollector (`primary/src/`) | pending headers and certificates, consensus round | suspend, resume, drop, announce | everything suspended resumes, unless overtaken |
| Proposer, adversary (`primary/src/proposer.rs`, `adversary.rs`) | round, parents, leader, digests, silence, timer | parents, digest, timer, propose or stay silent | headers on a quorum; no header when silent; digests once; no premature advance; no stuck round |
| Messages (`primary/src/messages.rs`) | none | verification, digests | a certificate carries a quorum of distinct votes |
| Helper and sync requests (`primary/src/helper.rs`, `header_waiter.rs`) | requested certificates and batches | request, share, retry, answer, forget | a missing certificate or batch is eventually fetched, or overtaken |
| Worker (`worker/src/`) | current batch, pause state, pending syncs | seal, wait for a quorum, store, announce, sync, cancel, pause | batches are available at a quorum before they are announced; the pause state follows the proposer; no sync forgotten |
| Network (`network/src/`) | buffers, unacknowledged messages per connection | send, reconnect, resend, acknowledge | nothing lost unless cancelled; acknowledgements match messages |
| Store (`store/src/lib.rs`) | key-value map, obligations | write, read, notify_read | no lost wake-up |
| Crypto, node, client, benchmark scripts | - | - | - |

### Interactions

All tasks are tokio tasks connected by bounded channels. Core owns its fields, so its
handlers do not interleave with each other; what interleaves is the order in which
messages, loopbacks, commits and the waiters' own steps reach it. Shared between tasks: the
store (a single task that serialises commands) and the consensus round (an `AtomicU64`
written by the garbage collector and read by Core and HeaderWaiter, each at its own pace).
In the worker, each incoming stream has a task of its own (a *runner*); the runners share
the watched pause state with the batch maker.
Core sends parents to the proposer and certificates to the consensus; the proposer sends
headers back; the consensus sends committed certificates to the garbage collector.

### What is hard here

* **Order and repetition.** Votes, headers and certificates come from several peers, over
  connections that resend after a failure, in any order and any number of times.
* **Forgetting.** Core, HeaderWaiter and the consensus each forget old rounds, at different
  times and with different comparisons (`>=` in Core, `>` in HeaderWaiter), while
  suspended headers come back without the check against the gc round.
* **Decisions on partial views.** A validator counts support on the certificates it has
  received; other validators decide on other subsets.
* **Restart.** The store survives, everything in memory is lost, the consensus state too.
* **Best effort.** Sync requests and their answers travel over connections that drop what
  they carry; timers, shared requests and cancelled waiters make up for it, or do not.
* **Old streams.** A peer reconnects while the runner of its last stream is still at work.
* **Cached decisions.** The proposer computes `advance`, `last_leader` and the silence of a
  round when parents arrive and uses them after timeouts, jumps and silent rounds.

`PROJECT.json` lists these hazards with the lines where they bite and the properties about
them.

## 2. The modules

| Module | Stands for | Builds on |
|---|---|---|
| `Committee` | stake, thresholds, leader | |
| `Certificates` | certificates, parent checks, reachability | `Committee` |
| `Dag` | abstract promise of the primaries: the certified DAG | `Certificates` |
| `Certification` | voting of the whole committee, Byzantine members included | `Committee` |
| `Consensus` | the consensus task of one validator | `Certificates` |
| `CausalDelivery` | abstract promise of a primary to its consensus and its proposer | `Committee` |
| `Core` | core task of one primary, aggregators, waiters, gc | `Committee`, `CausalDelivery` |
| `ParentSync` | requests for missing certificates, helpers, retries | `Core`, `SimpleSender` |
| `PayloadSync` | commands to fetch missing batches, the workers that get them | `Core`, `BatchSync`, `SimpleSender` |
| `Proposer` | proposer of one primary, adversary schedule | `Committee` |
| `Subsequences` | `retain()` of a queue | |
| `ReliableSender` | one connection and its stream, as operators on a record | `Subsequences` |
| `SimpleSender` | best-effort mail, as operators on a function | |
| `Store` | the task of the store, as operators on a record | `Subsequences` |
| `Worker` | batch maker, pause, quorum waiter, processor of one worker, one connection per peer | `Committee`, `ReliableSender`, `Store` |
| `BatchSync` | the fields and steps of a worker's synchronizer, as operators on a record | |
| `WorkerSync` | a whole worker: `Worker` with its synchronizer on the same store | `Worker`, `BatchSync`, `SimpleSender` |
| `SharedLemmas` | facts about stake and quorums; facts about sequences that the provers and the library lack | `Committee`, `Subsequences` |
| `DagProofs`, `CertificationProofs`, `ConsensusProofs`, `CoreProofs`, `ProposerProofs` | theorems | the module of the same name |
| `ParentSyncProofs` | theorems about the requests for certificates | `ParentSync`, `CoreProofs` |
| `WorkerProofs` | theorems about a whole worker | `WorkerSync` |
| `MC...` | instances for TLC (`MCSync` of `ParentSync`, `MCPayload` of `PayloadSync`, `MCWorker` of `WorkerSync`) | |

Definitions named `...Fewer`, `...Once`, `...Stale` and so on, marked "Fault seeded to test
the properties", take no part in any specification. Each is a plausible bug in the
definition next to it; `PROJECT.json` ("mutants") says which property detects it.

### Committee and Certificates

An authority is its rank in the sorted keys, so `Authorities` is `0 .. N-1` and `Leader(r)`
is `r % N`. The stake of a set is a cardinality (the number of shares it holds): that is the
same number as the sum, and the library has theorems about cardinalities. Stakes are
arbitrary naturals; the 32-bit width is not modelled (see section 6). A certificate is its
round and origin. That is sound as long as no two headers of one slot are certified, which
is what `Certification` is about.

### Dag and Certification: what the consensus relies on

`Dag` has one action, `Certify`: a header may name any certificates of lower rounds, and becomes
a certificate if these pass the checks of `process_header`, a quorum of the round below. `ancestors` is an auxiliary variable, the causal history. `Certification` has the
votes: honest primaries vote once per slot as long as they remember the slot (`CastVote`),
forget slots below their gc round (`Collect`), Byzantine ones sign anything (`ForgeVote`).

### Consensus

`state` is `struct State`. One iteration of `run()` is `Handle(x)`, with one disjunct per
way it can end: `Wait` (the early `continue`s), `SkipFallback`, `CommitLeader`. The flow
`order_leaders` -> `order_dag` -> `update` is `OrderLeaders`, `OrderDag`, `Update`, composed
by `Commit` and `CommitAll` in the order of the code, each leader being flattened on the
state the previous one leaves. The DAG is fixed in `Init` and delivered in every order that respects
parents (`Deliver`); `Redeliver` is the primary passing on another copy, which
`process_certificate` does. `Dynamic` selects the adversary mode. `leaders` and `direct` are
auxiliary and record which leaders were flattened and which had support of their own.

### Core

`core` is `struct Core` with what it sent; handlers are functions on a record of everything
they change, so that the nesting of the code (`process_certificate` calls `process_header`,
which calls `process_vote`, which calls `process_certificate`) is kept. Every action ends in
`Iterate`, which appends the clean-up, as `run()` does after each message, also after one
that was refused (`RefuseMessage`). A panic in the code (`expect`) is the flag `panicked`,
after which nothing happens until a restart.
`Restart` leaves the store and nothing else. Other authorities' headers and certificates are
given by constants; ours are made by `OwnHeader`, from parents Core gave out; after a restart
the proposer may come up with the same header again. `Commit` publishes the round of any
certificate up to the one of the leader that commits, as the garbage collector does for
everything the consensus outputs.

`CausalDelivery` is what the rest of the node relies on: a certificate is delivered after
its parents are stored, and the proposer gets parents of a round only once they are a
quorum, and only delivered ones. `DeliversCausally` is the refinement: `known` is the store,
`delivered` what was sent to the consensus since the start, `given` the union of what was
sent to the proposer. A handler delivers one certificate, or two when a vote for our own
header completes ours in the middle of the handling of another (`Deliver(S)`); everything
else Core does (votes, suspensions, clean-ups) is a stutter. The promise is about the store
and not about the consensus, because the store survives a restart and the consensus does not
(section 4).

### ParentSync and PayloadSync

Both add to `Core` what the HeaderWaiter sends. In `ParentSync`, `wanted` is
`parent_requests`: an entry is added by the first header that misses a certificate
(`AskAuthor`, run with every step of Core that suspends a header), removed by the first
header that is complete (`HeaderResumes`), by the clean-up (`ForgetOvertaken`), and asked
for again by the timer, at random peers (`RetryRequests`). A reply is sanitized, parked and
resumed by the actions of `Core`. Peers' stores are constants (`Has`), so that a request can
be answered when it is sent; a lost request and a lost answer look the same.
Headers may name anything: `process_header` makes a header wait before it looks at the rounds
and the stake of its parents. So a header can hold a request under a round that is cleaned up
before those of other headers that share it; `dropped` records which headers the clean-up
dropped, and `Orphaned` and `Starved` in the properties say what becomes of the others.

`PayloadSync` has the other half: `SyncBatches` makes the HeaderWaiter send `Synchronize` to
`CommandedWorker(h)`, whose synchronizer (`BatchSync`) waits, asks and retries. All workers
of the committee are modelled, since the code sends the command to one that is not ours. All
others have the batch when the run starts, since a worker announces a digest only at a quorum.

### Proposer

One iteration of the loop is `Pass` or `Propose` (the check at its top) followed by one of
the branches of `select!`: `ReceiveParents`, `ReceiveDigest`, `Timer`. Nothing is proposed
until the first message or the timer unless the check already holds, as in the code. The
rest of the system is what `CanGive` and `Gives` allow the core to hand out; `StoredUpTo`
covers a restart: certificates of stored rounds are given again before the lower ones, among
them our own, of headers the proposer made before. The payload of a header is a set, as in the
code (a `BTreeMap`).
`adversary::selected` is `Selected`; the hash that ranks the authorities is a constant.

### ReliableSender, SimpleSender and Store

None of the three has variables: a connection, the mail between nodes and a store are
values, and each step of the code is an operator that gives the next value. The module that
uses them holds the value in a variable and says when a step happens.

In `ReliableSender` a stream may break at any moment: frames not read yet are lost from some
point on, answers on their way are lost, and `Fail` puts what was not acknowledged back in
front. Answers carry no name; `acks` records which frame each is for, only so that a wrong
match can be seen. In `SimpleSender` a connection that ends takes all it had accepted with
it (`Lose`). `Store` has the channel of commands in front of the database, the obligations
of keys that are missing, and who was answered; a caller that goes away is `Forget`.

### Worker

`BatchMaker::run` is split where the code awaits: `CheckPause` reads the watched pause
state, `SeeChange`, `TakeTransaction` and `SealOnTimer` are the branches of `select!` in
their order (`biased`). The QuorumWaiter is `StartWaiting` and `CountAck`; when it has a
quorum it drops the remaining cancel handlers (`closed`), and the connections skip those
messages from then on. `Process` writes to the store and announces.

The pause: `Notify` is the broadcast of `prepare_round` in the proposer, which replaces the
cancel handlers of its last message, so only the latest message is sent again after a
failure (`Cancelled`). `BreakLink` leaves frames that have arrived to the runner of the
broken stream (`stale`). A runner reads the watched round and replaces it in two steps
(`Compare`, `Replace`), as `PrimaryReceiverHandler` does; `overlapped` records that two
runners were between the two steps at the same time.

### BatchSync and WorkerSync

A waiter of the synchronizer is named by its digest and the command that made it, since an
old waiter of a digest can outlive its entry: `CleanUp` cancels it, a new command makes a new
one, and both are then in `FuturesUnordered`. `PollWaiter` and `ResumeWaiter` are its two
ends; a waiter that is both answered and cancelled may return either way, as `select!` may.
`RetryBatches` is the timer, `HelpWithBatches` the helper of a peer, `ReceiveBatch` the
processor for batches of others. The commands are arbitrary, as in the unit tests of the
synchronizer; that in the code as it is they come from other primaries (section 4) makes no
difference to it.

## 3. The runs

| Run | Checks | Shows |
|---|---|---|
| `dag` | `TypeOK`, `SupportIsInherited`, `QuorumBelow` | All DAGs of three authorities with stakes 3, 2, 2 up to round 3. Support of f+1 for a certificate is inherited by everything above, also by certificates made before the support was complete |
| `certification` | `TypeOK`, `NoEquivocation` | Four authorities, one Byzantine with two headers for one slot: both are certified only if an honest gc round has passed them |
| `steady` | `TypeOK`, `RepeatsAreOvertaken`, `ParentsFirst`, `WholeHistory`, `DirectCommitIsFinal`, `NoMissedDecision`, `LossOnlyBehindCleanup` | Normal mode, all delivery orders of DAGs with rotating omissions, contested leaders, crashed leaders, a stopped authority; several commits and clean-ups; one certificate delivered a second time at any moment |
| `dynamic` | `RepeatsAreOvertaken`, `DirectCommitIsFinal`, `NoMissedDecision` | Adversary mode, seven authorities, two waves: fallbacks committed and skipped; one certificate delivered a second time at any moment |
| `core_gc` | `TypeOK`, `VoteOncePerSlot`, `ParentsGivenOnce`, `NoStrandedHeader`, `DeliversCausally` (refinement) | A primary that receives two headers of one slot, a header with bad parents and a backbone of certificates up to a commit, in any order, with gc |
| `core_own` | `OwnVoteRefusedOnlyAfterLoss`, `EveryCertificateAccounted`, `ParkedCertificatesResume` (liveness), `DeliversCausally` (refinement) | Our own headers of two rounds, votes and copies, our certificate coming back, a header that waits first for parents and then for its payload, a certificate that is parked, a restart at any moment |
| `sync` | `RequestsMatchPending`, `ParentsFetched` (liveness) | A primary three rounds behind: a certificate and a header whose histories overlap, an ill-formed header of a lower round that shares their requests, a peer that has lost everything, a connection lost at any moment, a commit that drops the ill-formed header and makes missing certificates too old |
| `proposer` | `TypeOK`, `HeadersBuildOnQuorum`, `HeaderOnlyWhenActive`, `DigestsProposedOnce`, `HappyPathWaits`, `RoundsAreLeft` (liveness) | Four rounds of which the second is silent, after a restart with one stored round: late and extra parents, our own certificate of before the restart, jumps, skipped rounds, timer at any moment |
| `worker` | `TypeOK`, `AnnouncedAtQuorum`, `NothingLost`, `WaiterForEveryPending`; liveness: `BatchesAnnounced`, `TransactionsSealed`, `PauseFollows`, `BatchFetched` | Two transactions and two peers of which either completes a quorum, a stream that breaks; pauses that come and go, also over a stream that breaks; a batch to fetch that the named peer does not have, with a clean-up and a lost connection |
| `past_leaders`, `fallback_skip`, `payload_sync` | one property each | Divergences, section 4 |

`WholeHistory` is about the `expect("We should have the whole history by now")` of
`linked()`; `NoMissedDecision` about a last supporter that arrives before its leader;
`NoStrandedHeader` about the two different gc comparisons and the rule that HeaderWaiter
refuses a second wait of one header. Each property has its statement in a comment above it.

### Bounds and why they suffice

* *Rounds.* Normal mode needs five: leaders of rounds 2 and 4 with their support rounds, so
  that a leader is skipped and a later one commits, and one commit runs on the state another
  left. Adversary mode needs nine: two waves (decided at rounds 5 and 9). `Dag` needs three:
  supported, supporting, inheriting.
* *Authorities.* Four with one fault is the smallest committee in which f+1 and 2f+1 differ
  from one and all. Adversary mode has seven, so that silence of one authority leaves more
  than a quorum and a first quorum can differ from the whole round. Unequal stakes (3-2-2,
  2-3-2-0-0, 1-3-3-1) keep `Dag`, `Proposer` and `Core` small while quorums, validity sets
  and their complements still differ.
* *DAGs* (`MCConsensus`). All 4^20 parent choices are out of reach. The families vary who
  leaves out whom linearly with round and origin, give each of the two leaders four camps of
  opponents, and remove leaders or an authority. Every property was seen to fail on them
  for some seeded fault.
* *GcDepth* is 0 to 3 in the runs where clean-ups must happen within the rounds, 5 where they
  must not (`past_leaders`: the only forgetting left is that of `update`), 50 in
  `payload_sync`, so that nothing is overtaken.
* *Deliveries* (`MaxDeliveries`, `MaxRedeliveries`) bound the copies of certificates:
  enough for each certificate of the instance once (`core_gc`), or for one repeated copy.
* *Sync*: authority 2 holds a quorum alone, so that a DAG of three rounds is five
  certificates; they include a history two levels deep and a certificate two headers miss.
  One lost connection and one peer per retry are enough for a request to go wrong twice. One
  ill-formed header is enough to take a request along; each exemption of the two properties
  is needed in this run.
* *Worker*: a behaviour has one of four budgets (`Budgets`). The parts they exercise
  share only the store, and all four run with every task present. `Path`: two transactions
  and one broken stream; a batch holds up to two, so they make one batch by size or two by
  the timer, and with two batches an answer can be matched with the wrong one. `Pauses`: a
  transaction and two messages of the proposer, so that a pause starts and ends. `Reconnects`:
  two messages and a broken stream, so that two runners hold different messages. `Fetches`: two
  commands, a clean-up between them and a lost connection, so that an old waiter meets the
  entry of a new one.
* *MailCapacity* and *StoreCapacity*, capacities of channels, are one or two: a full channel
  makes its sender wait, and the next message meets one on its way.
* *Restarts*: one. *Digests*: two, with `HeaderSize` one, so that empty and full headers occur
  and a silent round leaves up to two digests to the next header.

All runs set `CHECK_DEADLOCK FALSE`: the bounds end every behaviour, and a task that waits
for messages may rightly wait for ever. Progress is stated as liveness instead.

### Fairness

* `Core!LiveSpec`: weak fairness of `LoopbackCertificate(x)`. CertificateWaiter polls all
  its futures (`FuturesUnordered`), each of which resolves once the parents are stored, and
  Core takes from that channel. No fairness for the network.
* `Proposer!LiveSpec`: weak fairness of `Timer`, `Pass` and `Propose`. The tokio timer fires
  and the loop runs. No fairness for parents or digests.

* `WorkerSync!LiveNodeSpec`: weak fairness of the worker's own tasks (`Progress`: while one of
  them can step, one does; none has an endless supply of steps), of the store, of polling
  waiters and of the passing of time for an entry; per peer, of its helper and of the
  arrival of its answers; and strong fairness of each random choice of a retry, since the timer
  fires for ever and a shuffle picks every set again and again. A connection retries
  for ever, and only finitely many streams break: without that assumption about the network
  nothing need ever arrive. No fairness for clients, commands or the proposer's messages.
* `ParentSync!LiveSyncSpec`: weak fairness of the two waiters and of the arrival of
  answers, strong fairness of each random choice of a retry. None for headers, broadcasts,
  commits and clean-ups.
* `PayloadSync!LiveSyncSpec`: every task runs, so that what the run shows is not a task that
  stands still. None for headers and for the broadcast of batches.

## 4. Divergences the models show

Each run of this list checks a statement of the repository that the code does not keep.

* **Past leaders** (`past_leaders`, `consensus/src/lib.rs:372`). `order_leaders` iterates
  `(last_committed_round + 2 .. leader.round()).rev().step_by(2)`. The range excludes its
  upper end, so from an even leader round the walk visits odd rounds. Leaders live in even
  rounds; the ones skipped so far are therefore not committed in order before the new one,
  as lines 206-207 say, but only swept up in its flattened history. Two validators of which
  only one committed the earlier leader directly thus output different orders.
* **Fallback skip** (`fallback_skip`, `consensus/src/lib.rs:170`). A fallback is skipped for
  good on the first quorum of its support round, although the rest of the round would give
  it 2f+1. Another validator may commit it.
* **Payload** (`payload_sync`, `primary/src/header_waiter.rs:165`). The command to fetch the
  missing batches of a header goes to `committee.worker(&author, ..).primary_to_worker`, a
  worker of the header's author. That worker has the batches and asks nobody; ours is not
  told. The header waits until the author's broadcast of the batch happens to arrive, and the
  author stops that broadcast at a quorum (in the run, of the three others of four). With `CommandedWorker(h) == Me` the same model
  satisfies `PayloadArrives`.

More observations, stated as the weaker property that does hold:

* A second copy of a certificate that was committed and cleaned up is inserted again and
  output again: `last_committed` (`consensus/src/lib.rs:22-23`: "ensure we don't commit twice
  the same certificate") only protects the latest certificate of each author, and Core
  forwards every copy it receives. `RepeatsAreOvertaken` says which ones repeat, in both modes;
  that none does without a copy is a theorem (`ConsensusCommitsOnce`).
* Core votes a second time for a header of its own that it has forgotten, and stops in the
  `expect("Failed to process our own vote")` (`primary/src/core.rs:197`). After a restart it
  takes only the old header or its certificate to come back while the aggregator already
  holds our vote for the current header. `OwnVoteRefusedOnlyAfterLoss` says that nothing
  else than a restart or the garbage collector leads there.
* A parent of an output certificate may never be output: `update` removes older
  certificates of an author as soon as a later one commits (`LossOnlyBehindCleanup`).
* A restarted primary does not send the consensus what was stored before, so "whole history
  first" (`consensus/src/lib.rs:72-73`) holds only until the first restart;
  `DeliversCausally` promises it of the store.
* A restarted primary has forgotten its votes and may vote for another header of a slot.
  `Certification` has no restarts: its theorem is about primaries that keep running.
* Two runners of the proposer's streams that both compare before either writes can leave the
  older pause state in place until the next message (`worker/src/worker.rs:320`).
  `PauseFollows` says that it takes exactly that.
* Core suspends a header for missing parents (`primary/src/core.rs:153-157`) before it checks
  their rounds (160-171), and HeaderWaiter files each request under the round of the header that
  was first to miss the certificate (`header_waiter.rs:208`). A header that names a certificate
  of its own or a higher round can thus own a request that a later, correct header relies on; the
  clean-up (289) drops the request with it and nobody asks again. `RequestsMatchPending` and
  `ParentsFetched` say that it takes exactly that (`Orphaned`, `Starved`).
* Core votes again in a slot behind its gc round: the clean-up forgets the vote, and a header
  that comes back from HeaderWaiter is not compared with the gc round. `VoteOncePerSlot` and
  `NoEquivocation` exempt those rounds.
* Our garbage collector may overtake certificates that a header above it still needs: they
  are refused when they come, and the header waits until it is overtaken itself
  (`TooFarBehind` in `ParentsFetched`).

## 5. What is proved

Assumptions, each stated where its constant is declared and evaluated by TLC on the
instances:

* `N` is a positive natural and `Stake` maps authorities to naturals; some may be 0.
* `Dag`: `MaxRound` is a natural. `Certification`: headers have a natural round and an author
  of the committee, and the Byzantine stake is below f+1.
* `Consensus`: every DAG considered is one the checks of `process_header` allow (`WellFormed`:
  parents exist, are of the round below and hold a quorum); it may be infinite. The garbage
  collection depth and the number of repeated certificates are naturals.
* `Core`: headers have a positive round, an author of the committee and other headers or genesis
  as parents, and one of them has the highest round; our stake alone is no quorum; of a slot of
  another author at most one header is certified, which is what `Certification` proves.
* `ParentSync`: peers have, and broadcast, certificates of others. Nothing is assumed of the
  parents that headers name.
* `Proposer`: somebody holds stake (otherwise no set is a quorum and genesis could not be
  built on) and there is at least one round.
* `Worker`: one of the budgets has the most transactions, `batch_size` is positive;
  batches of others are finitely many and not numbers.

No bound on any of them. In outline:

* **`SharedLemmas`**. `StakeSplit`, `StakeMonotone` and `StakeDisjoint` are
  counting facts from the finite-set library. `QuorumMeetsValidity`: if a quorum and a
  validity set were disjoint their stakes would exceed the total, by the two integer
  divisions. `QuorumsMeetHonestly`: two quorums overlap in more than f. `QuorumIsMajority`:
  a quorum leaves less than a quorum.
* **`DagProofs`**. `TypeCorrect` (parents are certified and of the round below),
  `QuorumBelowHolds`, `SupportInherited`.
  `SupportIsInherited` is not inductive: a certificate of round r that arrives late can complete the
  support of `l` when the certificate `x` above already exists. The invariant `Unreached` says instead
  that if `x` does not have `l` in its history, then in each round between them a *quorum*
  lacks it; that quorum exists when `x` is made, since its parents lack `l`, and it stays.
  The support of `l` is disjoint from it, so it is no validity set. The
  induction also needs `HistoryCertified` (histories stay within the DAG) and `QuorumBelow`.
* **`CertificationProofs`**. `TypeCorrect`, `Unequivocal`. The invariant: a vote of an honest
  primary is remembered or its round is below the gc round (`VotesRemembered`), so
  two votes of one slot differ only behind the gc round (`VotesOnce`), and certificates have
  a quorum of votes (`CertifiedByQuorum`). Two certificates of a slot share an honest voter
  by `QuorumsMeetHonestly`.
* **`ConsensusProofs`**. The code keeps no record of its output, so none of the properties is
  inductive. `Good` relates the three things it does keep to the output, and is stated of a
  state and an output, so that it can be carried through the loop over the leaders
  (`CommitGood` for one leader, `CommitAllGood` for the loop). Its parts: `Holding` (the
  DAG has all that was received except what `update` takes), `Recorded` (`last_committed`
  bounds the output and names certificates in it), `Spent` (of the output, and of the parents
  of the output, the DAG still has only last committed certificates: these are what
  `order_dag` skips), with `Lossless`, `Overtaken` and `Causal`, which are the properties.
  `Spent` is what a repeated certificate breaks, and `Overtaken` what remains without it:
  hence the condition in `ParentsFirst` and in `ConsensusCommitsOnce` (no certificate is output
  twice as long as `redeliveries` is 0). `Complete`
  (what was received is closed under parents) gives `WholeHistory`, and that the support of
  a leader that arrives late was not counted before, which `NoMissedDecision` needs.
  `DirectCommitIsFinal` follows from the support that every leader in `direct` has in
  the whole DAG: the parents of any certificate above the support round meet it
  (`QuorumMeetsValidity`), and the walk from there leads to the leader (`ReachInto`).
  The lemmas under these say what the recursive functions of the model compute: `Reach`
  (`ReachFacts`), the order of leaders (`OrderLeadersChain`: ascending rounds, all above
  the last committed one), the sorted history (`Sorting`) and the maximum of a set.
* **`CoreProofs`**. The handlers of `Core` call each other, so the invariant `Good` is
  stated of the record they pass along and every lemma is about one function of the code
  (`process_vote`, `process_certificate`, `process_header`, the clean-up); an action is then
  a composition of lemmas. The parts: `Sound` (where stored, parked and suspended things
  come from), `Passed` (what was sent to the consensus is stored; what was given to the
  proposer or is held by an aggregator was sent to the consensus), `Unstranded` (a header in
  process waits or has our vote), `Voting` (votes the garbage collector has not overtaken
  are in `last_voted`), `Aggregated` (an aggregator knows the authors of all that was passed
  on and has given away all of it or none), `OneHeaderPerRound` (our own headers have
  ascending rounds). A restart empties `last_voted` and the aggregators, so `CoreVotesOnce`
  and `CoreParentsGivenOnce` are about a primary that has not restarted, as the code only
  promises that (section 4), and about rounds its gc round has not passed; type correctness, `CoreStrandsNoHeader`,
  `CorePanicsOnlyAfterLoss` and the refinement hold with restarts. `CoreDeliversCausally` is
  the refinement of `CausalDelivery`: initial states map to initial states, and every step
  to a `Deliver` of one or two certificates, a `Restart` or a stutter.
  `CoreAccountsForCertificates` counts: `Balanced` says that what was sent to the consensus
  and what is parked are together as many as were received and assembled, and each function
  of the code keeps it. The one that could break it is the aggregator of votes: `append`
  resets its weight at a quorum but keeps the voters, and a header of ours certified a
  second time would be sent on twice and counted once. `Tallied` says why that cannot
  happen: the weight is the stake of the voters, or after the quorum of those who came
  later, and by `QuorumIsMajority` these are never a quorum.
* **`ParentSyncProofs`**. `SyncImplementsCore` is a refinement of `Core` by the same
  variables: every step of the HeaderWaiter, of the peers and of the connections is a step
  of `Core` or leaves it alone, so that every theorem about `Core` holds with requests,
  retries and losses. (A reply that is refused is a step of `Core` too, since it ends in the
  clean-up: this is what `RefuseMessage` is for.) `SyncRequestsMatchPending` is not
  inductive as it stands: the first header that is complete removes the requests it shares
  with others. `SyncIInv` adds that a header waits for one thing at a time and that one that
  waits for its payload has its parents stored, so that what a resumed header removes is
  stored and missed by nobody else. The clean-up compares rounds: it forgets a header together
  with the requests filed under its round, and those that others still need are `Orphaned`,
  which stays true since `dropped` only grows.
* **`ProposerProofs`**. `HeadersBuildOnQuorum` does not follow from the code's own test, which is
  only that there are parents. `Gathering` supplies it: what makes the parents of a round
  non-empty is the first message of that round, which the core sends at a quorum. For
  `HappyPathWaits`, `Leading` says what the cached `last_leader` can be in a round and
  `Advancing` what the cached `advance` means there, over jumps and silent rounds.
  `DigestsProposedOnce` is inductive with the types: what is not proposed yet is above
  everything proposed, and a header takes all of it.
* **`WorkerProofs`**. A connection matches answers by position; `Matched` says why that is right:
  the pending replies are the answers on their way followed by the unread frames, in that order, so
  the head of one is the head of the other. `InOrder` and `Delivering` add that everything held is
  ascending and nothing is missing; each step of a connection keeps them, with any set of cancelled
  messages. `Counting` and `Announcing` carry the quorum of receivers from the handlers
  through the QuorumWaiter and the Processor to the digest. `Synchronizing` numbers the
  waiters: those of a new command have a number no cancelled waiter has, so an old
  waiter that returns late never takes a new one with it; together with lemmas about each
  command of the store (`Promised`) it gives `WaiterForEveryPending`. The same lemmas about
  connections serve the link of the proposer.

The library's induction theorems cannot be used with these provers, since they take an
operator. `SharedLemmas` proves induction for *sets* of naturals instead (from the
well-foundedness of `<`), which is enough to prove what `Keep` and `FlattenSeq` return, and
what the recursive functions of `Consensus` return.

Every safety invariant and refinement that a run checks is proved. Only model-checked, on the
instances of section 3, are the liveness properties (`ParkedCertificatesResume`,
`ParentsFetched`, `RoundsAreLeft`, `BatchesAnnounced`, `TransactionsSealed`, `PauseFollows`,
`BatchFetched`): they need fairness and `ENABLED`, which this proof system does not handle. The
divergences of section 4 are counterexamples, found by TLC.

## 6. Not modelled

* Signatures, digests, serialisation: only messages that verify are delivered.
* Addresses, logging, benchmark code, metrics, node start-up, client, scripts.
* Failures of the database: the code ignores them on writes and stops on reads.
* The way of a digest from the PrimaryConnector to the proposer: best effort, nothing retries,
  so nothing can be promised of it. `Proposer` takes any digests.
* Genesis certificates that come from the network. `verify` accepts them
  (`primary/src/messages.rs:190-193`), but no primary stores or sends any; Core would pass one
  that is made up on to a proposer and a consensus that start with it.
* A committee of one: the QuorumWaiter has no acknowledgement to wait for and drops the batch
  (`worker/src/quorum_waiter.rs:75`); in `Worker` it waits for ever.
* Copies of headers and certificates in `ParentSync` (`Core` has them), batches shared by headers and lost
  messages in `PayloadSync`.
* The clock: timers fire at any moment. So `Worker` does not show that the batch timer, which
  every message of the primary restarts, gets to fire when rounds are short.
* The width of `Stake` (u32): `2 * total_votes` would wrap above 2^31.
* Capacities of the channels between tasks of a primary: a full channel delays its sender,
  which the interleaving of the actions covers, except for waiting in a circle (Core and
  HeaderWaiter fill each other's channel, a thousand messages each).
* `CertificateWaiter` never forgets; a certificate whose parents never come stays. The leak
  has no effect on the state other components see.

## 7. Plan

All components with state of their own are modelled, and the safety properties the runs check
are proved. What could be added:

1. `PayloadSync` as a refinement of `Core`, like `ParentSync`. Its one run shows a divergence,
   so nothing of its own is left to prove of it until the code sends the command to the right worker.
2. Liveness for every instance, with a proof system that has rules for fairness.

A composition of several `Consensus` tasks over one DAG is not planned: agreement of their
outputs fails by the order of past leaders (section 4), and `DirectCommitIsFinal` already
compares a local commit with every certificate of the whole DAG, delivered or not.
