------------------------------- MODULE HotStuff -------------------------------
(***************************************************************************)
(* The consensus core of every replica of a committee and the network       *)
(* between them: consensus/core.go with the messages it exchanges           *)
(* (messages.go), the vote and timeout aggregator, the proposer, the block  *)
(* synchronizer and the payload waiter as far as the core can see them.     *)
(*                                                                          *)
(* One operator on the local state of a replica per method of Core, one     *)
(* action per case of the select in Core.run and per goroutine that feeds   *)
(* it.  Messages are never removed from the network: they may be delivered  *)
(* in any order, more than once, late or (in a behaviour that does not      *)
(* deliver them) never.                                                     *)
(***************************************************************************)
EXTENDS Committee

CONSTANTS
  Correct,      \* a quorum of replicas that never stop (liveness only)
  Batch,        \* digests of the mempool's batches
  NoNode,       \* the zero public key, author of the genesis block
  ZeroDigest,   \* the zero digest, hash of the genesis QC
  MaxRound,     \* bound: no block is proposed after this round
  TimeoutRounds, \* bound: for every replica, the rounds its timer may fire in
  ReachRounds,  \* bound: for every replica, the rounds whose blocks reach it
  BatchRounds   \* bound: for every replica, the rounds in which it stores batches

ASSUME HotStuffAssumption ==
  /\ Correct \subseteq Node
  /\ IsQuorum(Correct)
  /\ NoNode \notin Node
  /\ MaxRound \in Nat
  /\ TimeoutRounds \in [Node -> SUBSET Nat]
  /\ ReachRounds \in [Node -> SUBSET Nat]
  /\ BatchRounds \in [Node -> SUBSET Nat]

VARIABLES
  core,         \* core[n]: the local state of replica n
  committed,    \* committed[n]: the blocks sent on txCommit, in order
  proposals,    \* blocks broadcast by their proposers
  voteMsgs,     \* every vote cast, with the replica it is sent to
  timeoutMsgs,  \* every timeout broadcast
  tcMsgs        \* every timeout certificate broadcast

vars == <<core, committed, proposals, voteMsgs, timeoutMsgs, tcMsgs>>

-----------------------------------------------------------------------------
(* Messages.  A signature is the fact that its author did sign: Verify looks *)
(* for the vote or timeout in the network, where everything signed stays.    *)

\* Block.Digest covers the author, the round and the payload only.
Digest == [author : Node, round : Nat, payload : SUBSET Batch]
BlockDigest(b) == [author |-> b.author, round |-> b.round, payload |-> b.payload]

\* No block hashes to zero.
ASSUME ZeroDigestAssumption == ZeroDigest \notin Digest

\* The voters of a QC are abstracted to the votes that were cast for it.
QC == [hash : Digest \cup {ZeroDigest}, round : Nat]
GenesisQC == [hash |-> ZeroDigest, round |-> 0]

\* A TC with no votes stands for the nil pointer.
TC == [round : Nat, votes : SUBSET [name : Node, round : Nat]]
NoTC == [round |-> 0, votes |-> {}]
HighQCRounds(tc) == {v.round : v \in tc.votes}

Block == [author : Node, round : Nat, payload : SUBSET Batch, qc : QC, tc : TC]
GenesisBlock == [author |-> NoNode, round |-> 0, payload |-> {},
                 qc |-> GenesisQC, tc |-> NoTC]

Vote == [hash : Digest, round : Nat, author : Node]
Timeout == [highQC : QC, round : Nat, author : Node]

\* The proposerMakeMessage.
Make == [round : Nat, qc : QC, tc : TC]

Signers(hash, r) ==
  {m.vote.author : m \in {x \in voteMsgs : x.vote.hash = hash /\ x.vote.round = r}}

QCVerify(qc) == qc = GenesisQC \/ IsQuorum(Signers(qc.hash, qc.round))

TCVerify(tc) ==
  /\ \A v, w \in tc.votes : v.name = w.name => v = w
  /\ \A v \in tc.votes : \E t \in timeoutMsgs :
        t.author = v.name /\ t.round = tc.round /\ t.highQC.round = v.round
  /\ IsQuorum({v.name : v \in tc.votes})

BlockVerify(b) ==
  /\ QCVerify(b.qc)
  /\ b.tc # NoTC => TCVerify(b.tc)

TimeoutVerify(t) == QCVerify(t.highQC)
-----------------------------------------------------------------------------
(* The local state of a replica: the fields of Core and of its aggregator,   *)
(* and what the other goroutines of consensus keep for it.                   *)

Waiter == [block : Block, missing : SUBSET Batch]

LocalState ==
  [round : Nat, lastVotedRound : Nat, lastCommittedRound : Nat, highQC : QC,
   votes : SUBSET Vote,          \* votes in the qcMakers
   timeouts : SUBSET Timeout,    \* timeouts in the tcMakers
   store : SUBSET Block,         \* the blocks in the key-value store
   batches : SUBSET Batch,       \* the batches in the key-value store
   suspended : SUBSET Block,     \* the synchronizer waits for their parents
   pending : SUBSET Waiter,      \* the payload waiter waits for their batches
   cancelled : SUBSET Waiter,    \* its waiters told to stop, perhaps too late
   loopback : SUBSET Block,      \* on rxLoopback
   makes : SUBSET Make]          \* on txProposer

\* advanceRound, with aggregator.cleanup of the rounds left behind.
AdvanceRound(s, r) ==
  IF r < s.round THEN s
  ELSE [s EXCEPT !.round = r + 1,
                 !.votes = {v \in @ : v.round > r},
                 !.timeouts = {t \in @ : t.round > r}]

UpdateHighQC(s, qc) ==
  IF qc.round > s.highQC.round THEN [s EXCEPT !.highQC = qc] ELSE s

ProcessQC(s, qc) == UpdateHighQC(AdvanceRound(s, qc.round), qc)

\* generateProposal, called where the replica leads its new round.
GenerateProposalIfLeader(n, s, tc) ==
  IF n = Leader(s.round)
  THEN [s EXCEPT !.makes = @ \cup {[round |-> s.round, qc |-> s.highQC, tc |-> tc]}]
  ELSE s

\* Mutant: the round is not recorded.
IncreaseLastVotedRoundLost(s, r) == s

IncreaseLastVotedRound(s, r) ==
  [s EXCEPT !.lastVotedRound = IF r > @ THEN r ELSE @]

\* Mutant: one tcMaker for all rounds.
TimedOutAnyRound(s, r) == {t.author : t \in s.timeouts}

\* The authors already used by the qcMaker of a vote, the tcMaker of a round.
Voters(s, hash, r) ==
  {v.author : v \in {x \in s.votes : x.hash = hash /\ x.round = r}}
TimedOut(s, r) == {t.author : t \in {x \in s.timeouts : x.round = r}}

\* handleVote; a QC is made when the stake of the voters reaches the threshold.
HandleVote(n, s, v) ==
  LET voters == Voters(s, v.hash, v.round)
      added  == [s EXCEPT !.votes = @ \cup {v}]
  IN  IF v.round < s.round \/ v.author \in voters THEN s
      ELSE IF IsQuorum(voters \cup {v.author})
           THEN GenerateProposalIfLeader(n,
                  ProcessQC(added, [hash |-> v.hash, round |-> v.round]), NoTC)
           ELSE added
-----------------------------------------------------------------------------
(* getParentBlock and commit.                                                *)

HasParent(s, b) ==
  b.qc = GenesisQC \/ \E x \in s.store : BlockDigest(x) = b.qc.hash

Parent(s, b) ==
  IF b.qc = GenesisQC THEN GenesisBlock
  ELSE CHOOSE x \in s.store : BlockDigest(x) = b.qc.hash

\* Mutant: the certified parent is committed, not the grandparent.
TwoChainHeadIsParent(s, b) == Parent(s, b)

\* The two ancestors of a block, and whether they make a 2-chain.
TwoChainHead(s, b) == Parent(s, Parent(s, b))
IsTwoChain(s, b) == Parent(s, Parent(s, b)).round + 1 = Parent(s, b).round

\* Mutant: the walk does not stop above the last committed round.
AncestorsPushedTooFar(s, b) ==
  LET walk[x \in s.store \cup {GenesisBlock}] ==
        IF s.lastCommittedRound < x.round
        THEN <<Parent(s, x)>> \o walk[Parent(s, x)]
        ELSE <<>>
  IN  walk[b]

\* The loop of commit: the ancestors it pushes, in the order it pushes them.
AncestorsPushed(s, b) ==
  LET walk[x \in s.store \cup {GenesisBlock}] ==
        IF s.lastCommittedRound + 1 < x.round
        THEN <<Parent(s, x)>> \o walk[Parent(s, x)]
        ELSE <<>>
  IN  walk[b]

\* Mutant: the head of the 2-chain leaves alone.
CommitBatchHeadOnly(s, b) ==
  IF s.lastCommittedRound >= b.round THEN <<>> ELSE <<b>>

\* What commit sends on txCommit for the head b of a 2-chain.
CommitBatch(s, b) ==
  IF s.lastCommittedRound >= b.round THEN <<>> ELSE Append(AncestorsPushed(s, b), b)

\* mempoolDriver.cleanup followed by commit.
Commit(s, b) ==
  [s EXCEPT !.pending = {w \in @ : w.block.round > b.round},
            !.cancelled = @ \cup {w \in s.pending : w.block.round <= b.round},
            !.lastCommittedRound = IF b.round > @ THEN b.round ELSE @]
-----------------------------------------------------------------------------
(* Voting and processBlock.                                                  *)

\* Mutant: the QC of the block is not compared with those of the TC.
SafetyRule2AnyQC(b) ==
  b.qc.round + 1 = b.round \/ (b.tc # NoTC /\ b.tc.round + 1 = b.round)

\* safetyRule1 and safetyRule2 of make_vote.
SafetyRule1(s, b) == b.round > s.lastVotedRound
SafetyRule2(b) ==
  \/ b.qc.round + 1 = b.round
  \/ /\ b.tc # NoTC
     /\ b.tc.round + 1 = b.round
     /\ \A r \in HighQCRounds(b.tc) : b.qc.round >= r
CanVote(s, b) == SafetyRule1(s, b) /\ SafetyRule2(b)

\* Mutant: the vote is for the block's QC.
NewVoteForQC(n, b) == [hash |-> b.qc.hash, round |-> b.round, author |-> n]

NewVote(n, b) == [hash |-> BlockDigest(b), round |-> b.round, author |-> n]

\* Mutant: the block is stored before its ancestors are looked for.
SuspendBlockStored(n, s, b) ==
  /\ ~HasParent(s, b)
  /\ core' = [core EXCEPT ![n] = [s EXCEPT !.suspended = @ \cup {b},
                                           !.store = @ \cup {b}]]
  /\ UNCHANGED <<committed, voteMsgs>>

\* A block whose parent is not stored goes to the synchronizer, which leaves out
\* one with the digest of a block that waits already.
SuspendBlock(n, s, b) ==
  /\ ~HasParent(s, b)
  /\ core' = [core EXCEPT ![n] =
                IF \E x \in s.suspended : BlockDigest(x) = BlockDigest(b) THEN s
                ELSE [s EXCEPT !.suspended = @ \cup {b}]]
  /\ UNCHANGED <<committed, voteMsgs>>

\* storeBlock: one block under each digest, the last one written.
StoreBlock(s, b) ==
  [s EXCEPT !.store = {x \in @ : BlockDigest(x) # BlockDigest(b)} \cup {b}]

\* Otherwise it is stored, the head of a 2-chain is committed, and the block is
\* voted for: the vote goes to the leader of the round after the replica's own.
AcceptBlock(n, s, b) ==
  LET stored  == StoreBlock(s, b)
      head    == TwoChainHead(s, b)
      settled == IF IsTwoChain(s, b) THEN Commit(stored, head) ELSE stored
      voted   == IncreaseLastVotedRound(settled, b.round)
      vote    == NewVote(n, b)
      next    == Leader(settled.round + 1)
  IN  /\ HasParent(s, b)
      /\ committed' = IF IsTwoChain(s, b)
                      THEN [committed EXCEPT ![n] = @ \o CommitBatch(stored, head)]
                      ELSE committed
      /\ \/ /\ ~CanVote(settled, b)
            /\ core' = [core EXCEPT ![n] = settled]
            /\ UNCHANGED voteMsgs
         \/ /\ CanVote(settled, b)
            /\ core' = [core EXCEPT ![n] =
                          IF next = n THEN HandleVote(n, voted, vote) ELSE voted]
            /\ voteMsgs' = voteMsgs \cup {[vote |-> vote, to |-> next]}

ProcessBlock(n, s, b) == SuspendBlock(n, s, b) \/ AcceptBlock(n, s, b)
-----------------------------------------------------------------------------
(* Timeouts.                                                                 *)

MakeTC(s, r) ==
  [round |-> r,
   votes |-> {[name |-> t.author, round |-> t.highQC.round] :
                t \in {x \in s.timeouts : x.round = r}}]

\* Mutant: the QC that comes with a timeout is not processed.
HandleTimeoutQCIgnored(n, s, t) ==
  LET added == [s EXCEPT !.timeouts = @ \cup {t}]
      tc    == MakeTC(added, t.round)
  IN  /\ t.round >= s.round
      /\ t.author \notin TimedOut(s, t.round)
      /\ \/ /\ ~IsQuorum(TimedOut(added, t.round))
            /\ core' = [core EXCEPT ![n] = added]
            /\ UNCHANGED tcMsgs
         \/ /\ IsQuorum(TimedOut(added, t.round))
            /\ core' = [core EXCEPT ![n] =
                 GenerateProposalIfLeader(n, AdvanceRound(added, t.round), tc)]
            /\ tcMsgs' = tcMsgs \cup {tc}

\* Mutant: the TC is given to the replica's proposer only.
HandleTimeoutTCKept(n, s, t) ==
  LET caughtUp == ProcessQC(s, t.highQC)
      added    == [caughtUp EXCEPT !.timeouts = @ \cup {t}]
  IN  /\ t.round >= s.round
      /\ TimeoutVerify(t)
      /\ t.author \notin TimedOut(caughtUp, t.round)
      /\ core' = [core EXCEPT ![n] =
           IF IsQuorum(TimedOut(added, t.round))
           THEN GenerateProposalIfLeader(n, AdvanceRound(added, t.round), MakeTC(added, t.round))
           ELSE added]
      /\ UNCHANGED tcMsgs

\* handleTimeout; the TC is broadcast when the threshold is reached.
HandleTimeout(n, s, t) ==
  LET caughtUp == ProcessQC(s, t.highQC)
      added    == [caughtUp EXCEPT !.timeouts = @ \cup {t}]
      tc       == MakeTC(added, t.round)
  IN  /\ t.round >= s.round
      /\ TimeoutVerify(t)
      /\ \/ /\ t.author \in TimedOut(caughtUp, t.round)
            /\ core' = [core EXCEPT ![n] = caughtUp]
            /\ UNCHANGED tcMsgs
         \/ /\ t.author \notin TimedOut(caughtUp, t.round)
            /\ ~IsQuorum(TimedOut(added, t.round))
            /\ core' = [core EXCEPT ![n] = added]
            /\ UNCHANGED tcMsgs
         \/ /\ t.author \notin TimedOut(caughtUp, t.round)
            /\ IsQuorum(TimedOut(added, t.round))
            /\ core' = [core EXCEPT ![n] =
                 GenerateProposalIfLeader(n, AdvanceRound(added, t.round), tc)]
            /\ tcMsgs' = tcMsgs \cup {tc}
-----------------------------------------------------------------------------
(* The cases of the select in Core.run.                                      *)

\* Mutant: the QC of a block moves the round but is not kept.
CatchUpRoundOnly(s, b) ==
  LET certified == AdvanceRound(s, b.qc.round)
  IN  IF b.tc # NoTC THEN AdvanceRound(certified, b.tc.round) ELSE certified

\* What handleProposal takes from the certificates of a block.
CatchUp(s, b) ==
  LET certified == ProcessQC(s, b.qc)
  IN  IF b.tc # NoTC THEN AdvanceRound(certified, b.tc.round) ELSE certified

\* Mutant: the missing batches are asked for, and the block processed at once.
ReceiveProposalUnverified(n, b) ==
  /\ b.round \in ReachRounds[n]
  /\ b.author # n \/ \E m \in Node \ {n} : b \in core[m].store
  /\ b.author = Leader(b.round)
  /\ BlockVerify(b)
  /\ ProcessBlock(n, CatchUp(core[n], b), b)
  /\ UNCHANGED <<proposals, timeoutMsgs, tcMsgs>>

\* handleProposal.  A replica receives the proposals of the others, and its own
\* one back when it asked for it and another replica had stored it (helper.go).
ReceiveProposal(n, b) ==
  LET s == CatchUp(core[n], b)
      missing == b.payload \ s.batches
  IN  /\ b.round \in ReachRounds[n]
      /\ b.author # n \/ \E m \in Node \ {n} : b \in core[m].store
      /\ b.author = Leader(b.round)
      /\ BlockVerify(b)
      /\ \/ /\ missing # {}
            /\ core' = [core EXCEPT ![n] =
                 IF \E w \in s.pending : BlockDigest(w.block) = BlockDigest(b)
                 THEN s
                 ELSE [s EXCEPT !.pending = @ \cup {[block |-> b, missing |-> missing]}]]
            /\ UNCHANGED <<committed, voteMsgs>>
         \/ /\ missing = {}
            /\ ProcessBlock(n, s, b)
      /\ UNCHANGED <<proposals, timeoutMsgs, tcMsgs>>

ReceiveVote(n, m) ==
  /\ m.to = n
  /\ m.vote.author # n
  /\ core' = [core EXCEPT ![n] = HandleVote(n, @, m.vote)]
  /\ UNCHANGED <<committed, proposals, voteMsgs, timeoutMsgs, tcMsgs>>

ReceiveTimeout(n, t) ==
  /\ t.author # n
  /\ HandleTimeout(n, core[n], t)
  /\ UNCHANGED <<committed, proposals, voteMsgs, timeoutMsgs>>

\* Mutant: a TC of a round already left makes the leader propose again.
ReceiveTCLate(n, tc) ==
  /\ TCVerify(tc)
  /\ core' = [core EXCEPT ![n] =
                GenerateProposalIfLeader(n, AdvanceRound(@, tc.round), tc)]
  /\ UNCHANGED <<committed, proposals, voteMsgs, timeoutMsgs, tcMsgs>>

\* handleTC.
ReceiveTC(n, tc) ==
  /\ TCVerify(tc)
  /\ tc.round >= core[n].round
  /\ core' = [core EXCEPT ![n] =
                GenerateProposalIfLeader(n, AdvanceRound(@, tc.round), tc)]
  /\ UNCHANGED <<committed, proposals, voteMsgs, timeoutMsgs, tcMsgs>>

ReceiveLoopback(n, b) ==
  /\ b \in core[n].loopback
  /\ ProcessBlock(n, [core[n] EXCEPT !.loopback = @ \ {b}], b)
  /\ UNCHANGED <<proposals, timeoutMsgs, tcMsgs>>

\* localTimeoutRound: the timer may fire at any time.
LocalTimeout(n) ==
  LET s == IncreaseLastVotedRound(core[n], core[n].round)
      t == [highQC |-> s.highQC, round |-> s.round, author |-> n]
  IN  /\ core[n].round \in TimeoutRounds[n]
      /\ timeoutMsgs' = timeoutMsgs \cup {t}
      /\ HandleTimeout(n, s, t)
      /\ UNCHANGED <<committed, proposals, voteMsgs>>
-----------------------------------------------------------------------------
(* The goroutines around the core.                                           *)

\* The proposer takes the oldest request from its channel and makes the block.
\* Its payload: whatever batches the mempool has handed over.
Propose(n) ==
  \E m \in core[n].makes, payload \in SUBSET core[n].batches :
    LET b == [author |-> n, round |-> m.round, payload |-> payload,
              qc |-> m.qc, tc |-> m.tc]
    IN  /\ m.round <= MaxRound
        /\ \A x \in core[n].makes : m.round <= x.round
        /\ proposals' = proposals \cup {b}
        /\ core' = [core EXCEPT ![n].makes = @ \ {m}, ![n].loopback = @ \cup {b}]
        /\ UNCHANGED <<committed, voteMsgs, timeoutMsgs, tcMsgs>>

\* The synchronizer: the parent of a suspended block has been stored.
ResumeBlock(n, b) ==
  /\ b \in core[n].suspended
  /\ HasParent(core[n], b)
  /\ core' = [core EXCEPT ![n].suspended = @ \ {b}, ![n].loopback = @ \cup {b}]
  /\ UNCHANGED <<committed, proposals, voteMsgs, timeoutMsgs, tcMsgs>>

\* The payload waiter delivers a block that missed one batch when that batch is
\* stored, even if cleanup comes after the answer.  A waiter receives only one
\* answer: a block that missed several batches stays.
DeliverPayload(n, w) ==
  /\ w \in core[n].pending \cup core[n].cancelled
  /\ \E d \in core[n].batches : w.missing = {d}
  /\ core' = [core EXCEPT ![n].pending = {x \in @ : BlockDigest(x.block) # BlockDigest(w.block)},
                          ![n].cancelled = @ \ {w},
                          ![n].loopback = @ \cup {w.block}]
  /\ UNCHANGED <<committed, proposals, voteMsgs, timeoutMsgs, tcMsgs>>

\* The mempool stores a batch (mempool/processor.go).
StoreBatch(n, d) ==
  /\ core[n].round \in BatchRounds[n]
  /\ core' = [core EXCEPT ![n].batches = @ \cup {d}]
  /\ UNCHANGED <<committed, proposals, voteMsgs, timeoutMsgs, tcMsgs>>
-----------------------------------------------------------------------------
\* SpawnCore; run asks the leader of the first round for a proposal.
InitialState(n) ==
  [round |-> 1, lastVotedRound |-> 0, lastCommittedRound |-> 0,
   highQC |-> GenesisQC, votes |-> {}, timeouts |-> {}, store |-> {},
   batches |-> {}, suspended |-> {}, pending |-> {}, cancelled |-> {}, loopback |-> {},
   makes |-> IF n = Leader(1)
             THEN {[round |-> 1, qc |-> GenesisQC, tc |-> NoTC]} ELSE {}]

Init ==
  /\ core = [n \in Node |-> InitialState(n)]
  /\ committed = [n \in Node |-> <<>>]
  /\ proposals = {}
  /\ voteMsgs = {}
  /\ timeoutMsgs = {}
  /\ tcMsgs = {}

Step(n) ==
  \/ \E b \in proposals : ReceiveProposal(n, b)
  \/ \E m \in voteMsgs : ReceiveVote(n, m)
  \/ \E t \in timeoutMsgs : ReceiveTimeout(n, t)
  \/ \E tc \in tcMsgs : ReceiveTC(n, tc)
  \/ \E b \in core[n].loopback : ReceiveLoopback(n, b)
  \/ LocalTimeout(n)
  \/ Propose(n)
  \/ \E b \in core[n].suspended : ResumeBlock(n, b)
  \/ \E w \in core[n].pending \cup core[n].cancelled : DeliverPayload(n, w)
  \/ \E d \in Batch : StoreBatch(n, d)

Next == \E n \in Node : Step(n)

Spec == Init /\ [][Next]_vars

\* The correct replicas keep running, their timers fire and what is sent reaches
\* them; the others may stop at any point.  No step repeats for ever within the
\* bounds, so this fairness of a replica as a whole is fairness of each delivery.
FairSpec == Spec /\ \A n \in Correct : WF_vars(Step(n))
-----------------------------------------------------------------------------
(* Properties.                                                               *)

TypeOK ==
  /\ core \in [Node -> LocalState]
  /\ proposals \subseteq Block
  /\ voteMsgs \subseteq [vote : Vote, to : Node]
  /\ timeoutMsgs \subseteq Timeout
  /\ tcMsgs \subseteq TC

\* A leader proposes at most once in a round, whichever of a QC, a TC it made
\* and a TC it was sent makes it enter the round (generateProposal).
OneProposalPerRound ==
  \A b, c \in proposals : b.round = c.round => b = c

\* Whatever an honest replica signs or aggregates passes Verify at the others.
SentMessagesVerify ==
  /\ \A b \in proposals : BlockVerify(b)
  /\ \A t \in timeoutMsgs : TimeoutVerify(t)
  /\ \A tc \in tcMsgs : TCVerify(tc)

\* A timeout carries a QC at least as high as the one in any block that its
\* author voted for up to the round it gives up (make_vote, localTimeoutRound).
TimeoutCarriesLock ==
  \A t \in timeoutMsgs, m \in voteMsgs, b \in proposals :
    (/\ m.vote.author = t.author
     /\ m.vote.hash = BlockDigest(b)
     /\ b.round <= t.round) => b.qc.round <= t.highQC.round

\* A TC completed locally never asks for a QC its holder has not seen, so the
\* block proposed with it can be voted for (handleTimeout runs processQC first).
TimeoutsKnownToHolder ==
  \A n \in Node : \A t \in core[n].timeouts : t.highQC.round <= core[n].highQC.round

Certified(b) == IsQuorum(Signers(BlockDigest(b), b.round))

\* Safety of the 2-chain rule: once a block b1 that directly extends b0 in the
\* next round is certified, every certified block of a later round carries a QC
\* of b0's round or a later one: the chain cannot go around b0.
NoSkippedCommit ==
  \A b0, b1, c \in proposals :
    (/\ b1.qc.hash = BlockDigest(b0)
     /\ b1.round = b0.round + 1
     /\ c.round > b0.round
     /\ Certified(b1)
     /\ Certified(c)) => c.qc.round >= b0.round

\* The chain of a block back to the genesis block.
Chain(b) ==
  LET chain[x \in proposals \cup {GenesisBlock}] ==
        {x} \cup IF x.qc = GenesisQC THEN {GenesisBlock}
                 ELSE UNION {chain[y] : y \in {z \in proposals : BlockDigest(z) = x.qc.hash}}
  IN  chain[b]

\* What a replica has committed is on the chain of every block that is certified
\* at the round of its last committed block or later, whoever certified it.
CommittedIsFinal ==
  \A n \in Node : \A b \in Range(committed[n]), c \in proposals :
    c.round >= core[n].lastCommittedRound /\ Certified(c) => b \in Chain(c)

\* The commit stream holds the chain of the last committed block.  (The genesis
\* block may be in it; see CommitInOrder for the order.)  A block is handed over a
\* second time only where the chain skips the round after it: the walk of commit
\* then goes one block too far.
CommitStreamComplete ==
  \A n \in Node :
    LET stream == committed[n]
        blocks == Range(stream)
        heads  == {b \in blocks : b.round = core[n].lastCommittedRound}
    IN  /\ \A i, j \in DOMAIN stream : i < j /\ stream[i] = stream[j]
             => \A b \in blocks : b.round # stream[i].round + 1
        /\ \A b \in blocks : b.round <= core[n].lastCommittedRound
        /\ core[n].lastCommittedRound > 0 => \E b \in heads :
              blocks \ {GenesisBlock} = Chain(b) \ {GenesisBlock}

\* Blocks leave on txCommit in the order of the chain.
CommitInOrder ==
  \A n \in Node : \A i, j \in DOMAIN committed[n] :
    i < j => committed[n][i].round < committed[n][j].round

\* The parent of every stored block is stored, so that getAncestors never ends
\* the process and commit never panics.
AncestorsStored ==
  \A n \in Node : \A b \in core[n].store : HasParent(core[n], b)

\* A replica stores a block, and so votes for it, only with its whole payload:
\* what is committed can be read.
StoredBlocksHavePayload ==
  \A n \in Node : \A b \in core[n].store : b.payload \subseteq core[n].batches

\* A vote is for a later round than everything its author has voted for or
\* given up before, so it takes nothing back.
VoteAfterPromise ==
  [][\A m \in voteMsgs' \ voteMsgs :
       /\ \A x \in voteMsgs : x.vote.author = m.vote.author
                                => x.vote.round < m.vote.round
       /\ \A t \in timeoutMsgs : t.author = m.vote.author
                                => t.round < m.vote.round]_vars

\* No round lasts for ever: every correct replica reaches the last round in which
\* the bounds let it act, by a QC or, when a leader or the votes are too late or
\* have stopped, by a TC.
RoundsProgress == <>(\A n \in Correct : core[n].round >= MaxRound)
=============================================================================
