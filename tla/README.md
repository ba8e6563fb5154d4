# hotstuff-2chain: verification project

TLA+ models of the replica in `src/` (a Go port of the 2-chain variant of
HotStuff), the TLC runs that check them on small instances, and theorems about
them checked by TLAPS. `PROJECT.json` lists the components, the runs, the lines
of code each definition stands for, the hazards and the findings.

## 1. The system

A node (`node/node.go`) is a set of goroutines joined by channels. Two
subsystems share one key-value store: the *mempool* gathers client transactions
into batches and spreads them, the *consensus* orders the digests of the batches
in a chain of blocks. Nodes talk over libp2p streams.

| part | code | state | operations |
|---|---|---|---|
| committee, leader | `consensus/config.go`, `leader.go` | stake of each key | `Stake`, `QuorumThreshold`, `getLeader` |
| core | `consensus/core.go` | `round`, `lastVotedRound`, `lastCommittedRound`, `highQC`, timer | `handleProposal`, `handleVote`, `handleTimeout`, `handleTC`, `processBlock` (also from the loopback channel), `localTimeoutRound` |
| messages | `consensus/messages.go` | none | block, vote, QC, timeout, TC: digests, signing, `Verify` |
| aggregator | `consensus/aggregator.go` | votes per round and digest, timeouts per round | `AddVote`, `AddTimeout`, `cleanup` |
| proposer | `consensus/proposer.go` | digests not yet proposed | make a block, broadcast it, wait for the acks of a quorum; forget digests |
| block synchronizer, helper | `consensus/synchronizer.go`, `helper.go` | suspended blocks, requests for their parents | suspend, request, retry, resume; answer a request |
| payload waiter | `consensus/mempool.go` | blocks that wait for batches | `verify`, wait, deliver, `cleanup` |
| batch maker, quorum waiter, processor | `mempool/batchmaker.go`, `quorumwaiter.go`, `processor.go` | the batch being filled, batches that wait for acks | append, seal, wait for a quorum of acks, store and hand to consensus |
| mempool synchronizer, helper | `mempool/synchronizer.go`, `helper.go` | requested batches | request, retry, receive, garbage collect |
| reliable sender | `network/reliablesender.go` | per peer: messages to send, messages sent and not acknowledged | send, cancel, reconnect and send again |
| simple sender, receiver | `network/simplesender.go`, `receiver.go` | per peer: a channel | send at most once; dispatch each message |
| store | `store/store.go` | the database, the readers that wait for a key | write, read, wait for a key, close |

How they interact:

- **transaction to digest.** A client's transaction goes to the batch maker, which
  seals a batch by size or delay, sends it by reliable senders to the other
  replicas and to the quorum waiter on a channel; with a quorum of acks the
  processor stores it and puts its digest on the channel of the proposer. Batches
  that come over the network, those of other replicas and those that answer a request,
  are acknowledged at once, and their digests take the same channel, without any quorum.
- **digest to block.** The core asks the proposer for a block when it leads the
  round; the proposer takes its whole buffer, broadcasts the block, loops it back
  to the core and waits for the acks of a quorum. The core tells it which digests
  were seen in blocks.
- **block to commit.** Core to core: proposals, votes to the next leader, timeouts
  and TCs to all. A block whose batches are missing waits in the payload waiter
  while the mempool's synchronizer asks for them; a block whose parent is missing
  waits in the block synchronizer. Both come back on the loopback channel. Both
  waits rest on the store's `NotifyRead`.

What makes each part correct, and what is hard in it:

| part | correct when | hard because |
|---|---|---|
| core | what is committed anywhere is on every later chain; rounds end; honest messages verify | QCs, TCs, votes and timeouts of several rounds arrive in any order by two paths; late and suspended blocks |
| commit stream | the whole chain, in order, each block once | several blocks committed at once, genesis as a parent, a round skipped after the last commit |
| reliable sender | an answer means that the peer took that message; nothing lost | acks without identity, streams that break, cancels |
| store | no lost wake-up, reads see earlier writes, the goroutine never waits | look, then wait, while others write; readers that gave up |
| payload path | a block comes back, complete, once its batches are there | four kinds of goroutine, unbuffered cancels, garbage collection against arrival |
| block synchronizer | a replica that fell behind catches up; no block forgotten | lost requests, shared requests, two bounded channels in a cycle |
| dissemination, proposer | no transaction lost, none in two batches, a digest in no more blocks than it was handed over, nobody waits for ever | silent replicas, slots, duplicates, two channels into the proposer |

## 2. The modules

| module | models | state and actions against the code |
|---|---|---|
| `Committee` | stake, threshold in uint32 arithmetic, leader | `Weight[S]` is the sum of the stakes of S, `Leader(r)` is `getLeader` |
| `HotStuff` | the cores of all replicas and the network | `core[n]` is the struct `Core` with its aggregator, its store of blocks and what its helpers hold; one operator on that record per method (`AdvanceRound`, `ProcessQC`, `HandleVote`, `ProcessBlock`, `Commit`, ...), one action per case of `Core.run` (`ReceiveProposal`, `ReceiveVote`, `ReceiveTimeout`, `ReceiveTC`, `ReceiveLoopback`, `LocalTimeout`) and per goroutine that feeds it (`Propose`, `ResumeBlock`, `DeliverPayload`, `StoreBatch`) |
| `Ledger` | abstract: what the consensus promises to the readers of `txCommit` | one ledger that only grows, a beginning of it at each replica |
| `HotStuffLedger` | the map from `HotStuff` to `Ledger` | the ledger is the chain of the highest block committed anywhere |
| `Certificates` | aggregators, digests and `Verify`, protobuf conversions, signatures | `HotStuff` keeps votes and certificates as sets; here each of its messages has the fields of the code, for every order in which the votes behind it can have been counted. `Feed` is `append` of the two makers, `Serialize` and `Deserialize` are those of `consensusmessage.go`; a signature is the bag of what was signed into it |
| `HotStuffFaults` | `HotStuff` with a replica that is killed and started again on its store, and with messages that a simple sender loses | `images[n]` are the databases that a kill of n may leave: a step that writes adds one (`Leaves`), a step that waits for a read drops those from before its command (`Unserved`, `UnservedAfterBlock`). `Restart` is `NewNode` on one of them, with what the senders had queued gone for some receivers (`LostWithKill`); `Transmit` is the `Send` or `Broadcast` at the end of a step |
| `ReliableDelivery` | abstract: what `Send` promises its caller | an answer only for a message that was taken, at most one |
| `ReliableSender` | one connection, its streams, the receiver's goroutines | `phase` is the place in `run`; `buffer` and `pendingReplies` as in `keepAlive`; each exit of `keepAlive` is an action that ends in `LeaveStream` |
| `SimpleSender` | the calls of `Send` to one peer and the connections they spawn | one action per case of each select of `Send`, one per step of `connection.run`; `Stall` is a write that does not return |
| `Store` | the store's goroutine and its callers | one action per command, one per public method; `obligations` as in the code |
| `PayloadPath` | `MempoolDriver`, `PayloadWaiter`, the mempool's `synchronizer`, their goroutines | the loop of the synchronizer is split where it can wait: `SyncCleanup` finds the old requests, one `SyncCancel` for each send on an unbuffered channel; `WatcherFails` and `WaiterFails` are the returns on an error of the store |
| `Dissemination` | batch maker, quorum waiter, processor | one action per case of each select; `TakeBatch` to `CountBatchAck` is the case of `rxMessage`; `ReceiveBatch` is `Dispatch` with the second processor, for the batches of others and for own ones that come back; `DigestOf` is the hash of the content |
| `TransactionPath` | `Dissemination` composed with the proposer and the part of the core that drives it | `makeBlock` is `MakeBlock` and then `CountBlockAck` until `proposing` is false |
| `BlockSync` | the block synchronizer, its waiters, the helper, and the core as far as it suspends blocks | `suspending` and `delivering` are the two sends that can wait |

`MCHotStuff`, `MCHotStuffFaults`, `MCPayloadPath`, `MCTransactionPath` and
`MCBlockSync` give the constants that are functions; `MCNetwork` puts the two senders,
which share nothing, into one specification. The proofs are in modules of their own:

| module | proofs about |
|---|---|
| `BasicLemmas` | sets, sequences, sums and least elements: the lemmas that the others cite |
| `HotStuffProofs` | stake and quorums; types; ancestors and payloads, without restarts and with them; one certificate for a quorum; what a certificate holds, and that its conversions and `Verify` take it |
| `HotStuffSafety` | messages, votes, locks, the 2-chain rule; the commit stream, finality and the refinement of `Ledger`; every message decoded and accepted; what a restart leaves intact |
| `BlockSyncProofs`, `PayloadProofs`, `StoreProofs` | the component of that name |
| `NetworkProofs` | the two senders, and that the reliable one implements `ReliableDelivery` |
| `TransactionProofs` | `Dissemination` and the proposer, composed in `TransactionPath` |

Operators with a comment "Mutant:" are plausible
errors in the definition that follows them; they are used by no specification and
show that each property notices the error (`PROJECT.json`, `mutants`).

Abstractions that all modules share: a digest is an identity, and outside
`Certificates` a signature is the fact of having signed; logging and configuration are
left out; clocks are left out, so a timer may fire at any time it is set. An identity
has the fields that the code writes into the hash, no more: `BlockDigest` is author,
round and payload, and two blocks that differ in their QC only are one digest.

## 3. The runs

| run | module, cfg | bounds | shows |
|---|---|---|---|
| `hotstuff_safety` | MCHotStuff, HotStuffSafety | 3 replicas of stake 2, 1, 1; rounds 1 to 3; n1 and n3 time out in rounds 1 and 2; blocks reach n3 in round 3 only | types, one proposal per round, honest messages verify, locks, the 2-chain rule, finality, ancestors, votes against promises; one certificate for a quorum in every order of votes; every message decoded and accepted by its receivers |
| `hotstuff_chain` | MCHotStuff, HotStuffChain | 2 replicas of stake 1 and 3, rounds 1 to 5, round 2 may time out, block 2 does not reach n1, one batch in round 4 | the commit streams are the whole chain, each block with its payload, and implement `Ledger`; a block leaves twice only before a skipped round |
| `hotstuff_order` | MCHotStuff, HotStuffOrder | 1 replica, rounds 1 to 7, timeouts in each | **violated**: the order of the stream |
| `hotstuff_faults` | MCHotStuffFaults, HotStuffFaults | 3 replicas of stake 2, 1, 1; rounds 1 and 2, a batch that n1 stores in round 1; one fault: a kill of n2, which may take its last writes and its queued messages with it, or a lost message to anybody; n2 may stop | what a kill leaves has each block's parent and payload, and the replicas that run leave round 1 |
| `hotstuff_fork` | MCHotStuffFaults, HotStuffFork | the same replicas, rounds 1 to 4, one restart of n2, the leader of round 2; nothing is lost | **violated**: replicas that were never killed commit on one chain |
| `senders` | MCNetwork, Network | reliable: 3 messages, 2 streams; simple: 6 calls, channel of 2 | acks match, order kept, refinement of ReliableDelivery, an answer in the end; a dead connection is noticed, `Send` returns or is held up in one of two ways |
| `store` | Store | 2 keys (one may fail), 2 values, 2 calls, 3 writes, channel of 2 | no second response, fresh reads, no lost wake-up |
| `payload_sync` | MCPayloadPath, PayloadSync | one block, 2 batches, a cleanup that collects nothing older than 1 round | requests and goroutines match, blocks come back complete, lost requests are made up; the lookups of one of the batches may fail |
| `payload_stuck` | PayloadStuck | the same, cleanups of rounds 1 and 2 | **violated**: the synchronizer waits for ever |
| `payload_deliver` | PayloadDeliver | the same, default GcDepth | **violated**: a block with two missing batches never comes back |
| `transaction_path` | MCTransactionPath, TransactionPath | 3 replicas, one silent; 2 transactions with the same content, 1 delivery of another's batch or of an own one, 2 blocks, 1 report of a processed block; one slot for deadlines | transactions kept, slots, no digest proposed more often than it was handed over, none dropped, progress |
| `block_sync` | MCBlockSync, BlockSync | 4 blocks (two siblings, a grandchild), 2 peers, capacity 1, each block received at most twice | no block forgotten, requests match waiters, catching up as long as the two channels are not full at once |

Why the bounds are enough, where it is not plain:

- *Stakes.* With stakes 2, 1, 1 the threshold is 3: two quorums may share n1 alone,
  the least that intersection gives. `StakeModulus` is 4294967, which stands for
  2^32: TLC's integers have 32 bits, and the threshold is not near either.
- *Rounds and reach in `hotstuff_safety`.* A violation of the 2-chain rule needs a
  certified 2-chain, a replica that has not seen it and that a timeout certificate
  brings back: two rounds, a third that forks, and a replica that did not get the
  first blocks. `TimeoutRounds` and `ReachRounds` allow that, and the mutants of
  the voting rule and of the commit rule are found with these bounds.
- *Five rounds in `hotstuff_chain`.* A gap at round 2, so that round 1 is not the head
  of a 2-chain and is committed with round 3 as its ancestor. n2 is a quorum alone, so n1 falls
  behind: it makes QCs for blocks it has not seen and proposes on them, suspends its own block
  and resumes it. (Agreement between replicas that need each other is the subject of
  `hotstuff_safety` and of the theorems.) `BatchRounds` bounds the rounds in which a replica may
  store the batch: one proposes it and the other may hear of the block first and wait.
- *One fault in `hotstuff_faults`, one restart in `hotstuff_fork`.* `MaxFaults` counts both
  kinds, and a lost message is one message on its way to one receiver; a connection that breaks with
  several in its channel is several faults. With two lost messages progress is not the code's (below);
  one restart is enough for the fork, of a replica with less than a third of the stake.
- *Two rounds suffice for two unwritten blocks.* A block with the genesis QC is written without a
  read (`synchronizer.go:107`), so at n2 the block of round 1 and, after a TC, that of round 2 can both
  be in the store's channel at a kill; at n1 the batch and the block that needs it can.
- *Two rounds in `hotstuff_faults`.* A round is left by a QC or by a TC, made or received;
  every later round is entered with the same kinds of state.
- *A channel of 2 and six calls in `senders`.* The channel is full, drained and full again
  while connections end; the code's 1000 only makes this longer.
- *Two streams.* The second stream does not break, so that liveness can be asked
  for; a message may be on both at the same time.
- *Two transactions.* A batch of two, or two batches by the delay, which have one digest, since
  the client sent the same twice; the second of two batches finds the only slot taken.
- *One delivery.* It is of any batch: another's, or an own one that is still on its way to its
  quorum or past it. With one, a digest can already be handed over three times.
- *Capacity 1 in `block_sync`.* Each channel is full in turn and both sides wait. The four blocks
  are too few to fill both channels at once, which is a limit of the code (below).

`CHECK_DEADLOCK FALSE` is set in all runs because each one ends: rounds, messages,
writes or deliveries are bounded.

### Fairness

- `hotstuff_faults`: weak fairness of `FaultyStep(n)` for the replicas that do not stop, as far as
  it changes the replica or sends again what was lost.
  Blocks go by a reliable sender; votes, timeouts and TCs go by `SimpleSender`, and one that is
  not among the lost is never removed, so it is delivered in the end. The timer of the core
  is reset when it fires, so a timeout is broadcast again as long as the round lasts; votes and
  TCs are sent once. No fairness for `Restart`.
- `senders`: the goroutine of the reliable sender runs, dialling succeeds when tried again and
  again, and what is written to a working stream arrives. The goroutines of the simple sender
  and its caller run, and an attempt to connect ends. A write need not return: nothing sets a
  deadline (`simplesender.go:118`), and `Stall` may be taken instead. No fairness for `Send`, `Cancel`, `Break`.
- `store`: the goroutine runs.
- `payload_sync`, `payload_deliver`, `block_sync`: a goroutine runs, a `select` takes each of
  its cases in the end (Go chooses at random among those ready), the retry timer
  fires, and of what is asked again and again something arrives. `block_sync` asks
  this of one correct peer only.
- `transaction_path`: the goroutines and the batch delay, and answers of the
  replicas in `Responsive`, which with this replica have a quorum.

### Findings

1. **Commit order** (`hotstuff_order`, `consensus/core.go:123`). When one commit takes
   several blocks, they are sent parent first, then grandparent, and so on, the head of the
   2-chain last, the genesis block among them if the first proposal was skipped.
   Replicas that commit the same chain in different portions hand it to the
   application in different orders. The walk stops only at a block of round
   `lastCommittedRound + 1` or below (`core.go:117`), so the block committed last leaves a
   second time when the next one to be committed extends it after a skipped round.
   `CommitStreamComplete` allows that case and no other.
2. **Synchronizer stuck** (`payload_stuck`, `mempool/synchronizer.go:129`). The cleanup
   sends a cancel on an unbuffered channel to a goroutine that has already got its batch.
3. **Several missing batches** (`payload_deliver`, `consensus/mempool.go:102`). The
   select that counts the batches is executed once, so only a block that lacks exactly one
   batch comes back. In `HotStuff`, `DeliverPayload` is the action of such a waiter.
4. **Fork after a restart** (`hotstuff_fork`, `consensus/messages.go:79`). The digest of a
   block leaves out its QC, and a replica that starts again has forgotten its round, its
   vote and its highQC. A leader that is killed after it proposed proposes the round
   again, with another QC. The two blocks share a digest, so the votes for one and the
   QC of the other fit both, and each replica follows the parent of the block it was sent: n1
   commits the block of round 1, n3 a chain without it, and neither was killed. With the QC in
   the digest the same instance (171,077 states) has no such state; so the restart opens the way
   and the digest is what forks the chain.

Three limits of the code were met that no run has as a violation, because nothing in the
repository claims the opposite:

- *Core and block synchronizer can stop each other.* The core waits to put a block on the full
  channel of the synchronizer (`synchronizer.go:116`), the synchronizer to put one on the full
  loopback channel of the core (`synchronizer.go:72`). In `BlockSync` with channels of capacity 1
  and four suspended blocks, two pairs of siblings with different parents, this takes sixteen steps,
  and neither moves again; with the code's capacity of 1000 it takes some two thousand suspended
  blocks. `CatchesUp` is checked for a tree with fewer, and says nothing beyond it.
- *Two lost messages.* One connection that breaks can lose them together. In the instance of `hotstuff_faults` with `MaxFaults = 2` and timeouts in
  both rounds, n3's timeout
  and the TC that n3 makes from it and n1's are lost on their way to n1 while n2 stands
  still: n1 stays in round 1 and n3 in round 2 for ever, since a TC is sent once, a timeout of
  an earlier round is dropped without an answer, and neither round has a quorum.
- *A dead connection that stays.* When `Send` has read the error of the connection it holds and
  the new one fails at once, it returns an error and leaves the old connection in the map
  (`simplesender.go:37-44`). From then on that connection takes every message and sends
  none; when its channel is full, `Send` waits for ever, and with it the core. The same comes of
  a peer that stops reading: the write to its stream has no deadline. `SendReturns` names the two
  ways (`HeldUp`) and excludes every other; the model reaches both. `DeadConnectionNoticed` is stated
  for the time before such an error (`refused = {}`) and is violated without that premise.

## 4. What is proved

Every invariant and every action property of the passing runs, and both refinements, are
theorems. They hold for every committee and stake, every set of batches, blocks,
transactions and messages, every capacity and every bound, under the named assumptions on
the constants, which TLC evaluates on the instances:

- `Committee`: `KeysAssumption` (the keys are a sequence of replicas, not empty),
  `StakeAssumption` (a finite committee, no stake of zero), `NoOverflow` (twice the total stake
  fits in 32 bits). What the sum of stakes over a set satisfies (`WeightLaws`) is a lemma.
- `HotStuff`: `HotStuffAssumption` (the replicas that run are a quorum; the bounds are
  numbers), `ZeroDigestAssumption` (no block hashes to zero). `HotStuffFaults`: `FaultsAssumption` (the bounds).
- `BlockSync`: `BlockSyncAssumption` (a parent comes before its child, one peer holds
  everything). `PayloadPath`: `PayloadAssumption` (a payload is finite). `Store`:
  `StoreAssumption` (no value is the nil of a missing key or the error). `ReliableSender`:
  `MaxStreamsAssumption`. `MCNetwork`: `SimpleSenderAssumption` (a channel has room, the bounds).
- `Dissemination`: `DisseminationAssumption` (transactions have a size, equal ones the same). `TransactionPath`: `TransactionPathAssumption` (the replicas that answer are,
  with this one, a quorum).

| theorem | module | statement |
|---|---|---|
| `QuorumsIntersect`, `CommitteeIsQuorum` | HotStuffProofs | two quorums share a replica; the threshold can be reached |
| `TypeCorrect` | HotStuffProofs | `[]TypeOK` |
| `AncestorsAreStored`, `PayloadsStored` | HotStuffProofs | `[]AncestorsStored`, `[]StoredBlocksHavePayload` |
| `RestartsKeepAncestors` | HotStuffProofs | under `FaultSpec`, `[](TypeOK /\ AncestorsStored)`, with any number of kills, lost writes and lost messages |
| `RestartsKeepPayloads` | HotStuffProofs | under `FaultSpec`, `[](SurvivorsClosed /\ StoredBlocksHavePayload)` |
| `OneCertificate` | HotStuffProofs | `[]OneCertificateAtQuorum` |
| `OneBlockPerRound`, `HonestMessagesVerify` | HotStuffSafety | `[]OneProposalPerRound`, `[]SentMessagesVerify` |
| `TimeoutsCarryLocks`, `TimeoutsAreKnown` | HotStuffSafety | `[]TimeoutCarriesLock`, `[]TimeoutsKnownToHolder` |
| `TwoChainSafety` | HotStuffSafety | `[]NoSkippedCommit` |
| `VotesKeepPromises` | HotStuffSafety | `VoteAfterPromise` |
| `CommitStreamIsChain`, `CommitsAreFinal` | HotStuffSafety | `[]CommitStreamComplete`, `[]CommittedIsFinal` |
| `CommitsImplementLedger` | HotStuffSafety | `Spec => ImplementsLedger`, the refinement of `Ledger` |
| `AgreementUntilRestart` | HotStuffSafety | under `FaultSpec`, `CommitsAgree` for as long as no replica was started again, whatever is lost |
| `RestartsKeepVerifying` | HotStuffSafety | under `FaultSpec`, `[](SentMessagesVerify /\ TimeoutsKnownToHolder)`, with any number of kills and lost messages |
| `MessagesAccepted` | HotStuffSafety | `[]SentMessagesAccepted` |
| `TypeCorrect`, `RequestsMatchWaiters`, `NoneForgotten` | BlockSyncProofs | `[]TypeOK`, `[]WaitersRequested`, `[]NoBlockForgotten` |
| `TypeCorrect`, `RequestsHaveWatchers`, `LoopbackHasPayload` | PayloadProofs | `[]TypeOK`, `[]RequestsWatched`, `[]LoopbackComplete` |
| `TypeCorrect`, `OneResponseEach`, `ReadsSeeWrites`, `NoWakeupLost` | StoreProofs | `[]TypeOK`, `[]ResponsesFit`, `[]ReadsLatestWrite`, `[]NoLostWakeup` |
| `TypeCorrect`, `AcksAnswerPending`, `NoMessageLost` | NetworkProofs | `[]TypeOK`, `[]AcksMatchPending`, `[]KeptInOrder` |
| `ImplementsDelivery` | NetworkProofs | `Spec => KeepsPromise`, the refinement of `ReliableDelivery` |
| `ErrorsNoticed` | NetworkProofs | `NetworkSpec => []DeadConnectionNoticed` |
| `TypeCorrect`, `NoTransactionLost`, `SlotsAccounted`, `ProposedAsHanded`, `NoBatchForgotten` | TransactionProofs | `[]TypeOK`, `[]TransactionsKept`, `[]SlotsMatch`, `[]ProposedOncePerDelivery`, `[]BatchesKept` |

### The consensus

*Types, ancestors, payloads.* `TypeInv` is the type invariant together with the closure of the
store under parents, which the types need: the commit walks the ancestors of a block, and its
result is a block only if they are all there. `PayloadInv` follows a block through the places
it waits in: what is in the store, in the loopback or suspended is complete, and what waits for
its payload lacks nothing but the batches its wait is for. With restarts, the same is
said of every database that a kill may leave (`images`). A step that resumes a waiting block, or that reads a parent or a
batch, leaves only databases in which the key is; so a block that is written after it finds its
parent and its payload in each of those it is added to, whatever part of the writes is lost. A block with
the genesis QC needs no parent in the store, and its batches were read.

*Votes and locks.* `SafetyInv` adds for every replica what its local
state owes to the messages sent (`NodeOk`: its highQC and the certificates in its
requests verify, it has asked for one proposal per round, its aggregator holds
what was sent) and for the network what the messages owe to each other and to their
author's state (one proposal per round by the leader; votes and timeouts not
above the author's `lastVotedRound`; locks). It is stronger than the properties
because a step reads the local state, not the messages. The lemmas say what each method of
`Core` does to `NodeOk`, before or after a message is added; `ReplicaStep` puts them
together for an action. A replica that is started again forgets its round, its vote and its highQC,
so `NodeOk` does not survive a restart; `CertOk`, the part of it on certificates and aggregators,
does, and gives `RestartsKeepVerifying`. `TwoChainArgument` derives the 2-chain rule from `SafetyInv`
without another induction: a certified block c after b1 was voted for by somebody, so
it satisfies the voting rule. Either its QC is of the round before it, which is at least
b0's, or it carries a TC; the quorum of that TC and the quorum of b1 share a
replica, whose timeout came with its vote for b1 behind it and so carried a QC of b0's
round or later, and the rule makes c's QC at least as high.

*Chains.* `Chain` is a recursive function on blocks, and induction over data cannot be cited. The
proof works with `Ancestry`, the least set that holds a block and is closed under parents, for
which the step from a block to its parent is a matter of sets; `ChainIsAncestry` shows once that
the two agree. `LinkInv` is what this rests on: the proposals are a tree
whose rounds go down to the genesis block, and what a replica stores was proposed. `WalkFacts` does the
same for the walk of `commit` down the ancestors.

*Commits.* `CommitInv` says of each replica that its stream holds the ancestry of the block it
committed last, and that this block is the head of a 2-chain whose second block is certified. `HeadIsFinal`: every
certified block of its round or later descends from such a head; of those that do not, the one of the lowest
round would go around it, against `NoSkippedCommit`. `CommitExtends` gets
from this that the next commit only adds to the stream.

*Ledger.* `LedgerView`: the ledger is what the replica that is furthest has delivered, and what each of the
others has delivered is a beginning of it. A chain is a line (`ChainsAreLines`), `Rank` orders it by its
rounds, which are distinct, and so a longer chain begins with the shorter one (`OrderPrefix`): a commit
either stays below the furthest head and the ledger stays, or extends it.

*Certificates.* In `Certificates` the makers take votes one by one, in any order, and keep what
they sign as a bag. `Counted` is what one of them has after any number of items: before it made a
certificate, its weight is that of the authors it has seen; after it, the weight it
has gathered since plus the threshold is at most theirs. Twice the threshold is more than the
whole stake, so there is no second one: `OneCertificate`. `History` says which items are in the certificate it made, so
that every QC and TC can be shown to satisfy `Verify` after it was encoded and decoded
(`QCBack`, `TCBack`, `BlockBack`: the fields that the messages leave out and pad are restored).
The converse is what `MessagesAccepted` needs of the core: each certificate of `HotStuff` is one that some order of
items makes. For a TC this rests on `GatherInv`: the timeouts an
aggregator keeps for a round it has not left are no quorum, so a TC is *minimal*, no quorum without the timeout that
completed it, and an order that counts this one last makes exactly that TC.

### The other components

*Block synchronizer.* Nothing has to be added to the two properties but that only a block whose parent is
another block is suspended (`ParentsAreBlocks`). What is under way is a union over the channels and the
hands that hold a block (`UnderWay`), and each action moves one block to the next.

*Payloads.* `WaitsCovered`: what a block lacks is among the batches of its wait, or has been
stored since, from the moment the wait is sent. `FinitelyAsked` bounds the loop of a
cleanup.

*Store.* The channel carries for each call one command, in front of its response
(`CommandsAsked`, `CommandsOnce`, `ObligationsAsked`). `Holds(n, k, v)` is what key k will hold
when the command at place n is served; a read on the channel will find the value that was the
latest when it was sent (`ReadsInOrder`), which becomes `ReadsLatestWrite` when it is served.

*Senders.* `StreamMatches` ties what is unread on a stream, and the acks on it that are not yet read, to
`pendingReplies`, place by place, so that the oldest pending message is the one that the next ack is for. The refinement maps
`ReliableSender` to `ReliableDelivery` step by step: `Send`, `Cancel`, `Dispatch` and `ReadAck` are its four actions, and every other one stutters.
For the simple sender, `NewNoticed` covers the time between the end of a connection and the moment it is put in the map.

*Transactions.* `TransactionsKept` says that the sealed batches and the current one are consecutive
pieces of the transactions taken (`Cut`, with the places of the cuts as witness). For
`ProposedOncePerDelivery` the times a digest is on the proposer's channel, in its
buffer and in blocks are together at most the times it was handed over. That number counts the own
batches of that content that got their quorum, and the batches received; it may be more than one, and a digest
can then be in as many blocks.

*Recursion and folds* (the sums of stake, the aggregators, the walk of `commit`) are
reasoned about by least elements: if something fails for some length or round, take the
least one (`LeastElement`, `SmallestSet` in `BasicLemmas`).

### What the proofs changed

Two properties that the runs had passed turned out to be false beyond their bounds when their
proofs failed, and TLC confirmed it on a larger instance:

- *Finality* was stated for every certified block above a committed one. A block that is
  certified between a committed ancestor and the head that committed it need not extend the ancestor
  (rounds up to 6; a trace of 30 steps). `CommittedIsFinal` is now stated from the round of
  the last commit on, which is where the 2-chain rule begins to bind.
- *Each block once* was part of `CommitStreamComplete`. It fails in six rounds (finding 1).

### Only model-checked

- All liveness: `RoundsProgress`, `EventuallyAnswered`, `SendReturns`, `WaitersAnswered`, `RequestsAnswered`,
  `SingleBatchDelivered`, `TransactionsProcessed`, `ProposerFreed`, `CatchesUp`. Fairness and
  `ENABLED` are out of the provers' reach.
- The four violated properties, by their nature. In particular `CommitsAgree` is a theorem
  until the first restart and is refuted after it (`hotstuff_fork`).

## 5. What is not modelled, and why

- *Replicas are honest.* They stop, are slow or miss messages; what a replica signs
  is what its code signs. `Verify` is modelled where it decides whether a message is used.
- *The restart of the mempool's goroutines.* `Restart` is that of the consensus core. The last batches
  written may be lost with it, like the blocks, but what the batch maker, the quorum waiter and the
  proposer's buffer held is not in `HotStuffFaults`: there a replica may propose any batch it stores, before a
  restart and after it. The ack of a batch comes before its write (`mempool/mempool.go:169`);
  that a kill between the two leaves a certified payload with too few holders is not stated.
- *Several messages of one connection.* `Transmit` chooses for each message and each receiver
  whether it is lost, so losing two at once counts as two faults. A vote or a TC
  that equals an earlier one is the same message, so one loss may stand for several.
- *A quorum for the batches of others.* A batch received goes to consensus at once
  (`mempool/mempool.go:177`); only the own batches wait for acks, and no property says more.
- *Curve arithmetic, base64 and JSON of keys, generated protobuf code, sync requests and
  mempool messages as bytes, libp2p, discovery, pubsub, configuration, command line, client.* No
  protocol state; the generated code is most of it.
- *The order of messages from one replica to another* is not used by the core, and
  `HotStuff` delivers in any order.

## 6. Plan

1. An abstract wait (a block goes in, comes back once its parent is stored) that
   `BlockSync` and `HotStuff`'s `SuspendBlock` and `ResumeBlock` both implement; the same
   for `PayloadPath` and `DeliverPayload`.
2. In what sense `CommitsAgree` survives restarts when digests cover the QC.
3. A crash of the mempool in `Dissemination`.
