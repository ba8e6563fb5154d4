---------------------------- MODULE HotStuffProofs ----------------------------
(***************************************************************************)
(* Theorems about the consensus core, for every committee, every set of     *)
(* batches and every bound.                                                  *)
(***************************************************************************)
EXTENDS HotStuffFaults, Certificates, BasicLemmas

-----------------------------------------------------------------------------
(* What the stake arithmetic of the committee guarantees, for every           *)
(* distribution of stake.                                                    *)

\* getLeader names a member of the committee (leader.go).
LEMMA LeaderType == \A r \in Nat : Leader(r) \in Node
<1> SUFFICES ASSUME NEW r \in Nat PROVE Leader(r) \in Node
  OBVIOUS
<1>1. Len(Keys) \in Nat \ {0}
  BY KeysAssumption
<1>2. (r % Len(Keys)) + 1 \in 1 .. Len(Keys)
  BY <1>1
<1> QED
  BY <1>2, KeysAssumption DEF Leader

\* The sums of stake: nothing is counted twice, nobody counts against a set.
LEMMA WeightLaws ==
  /\ Weight[{}] = 0
  /\ \A S \in SUBSET Node : Weight[S] \in Nat
  /\ \A n \in Node : Weight[{n}] = Stake[n]
  /\ \A S, T \in SUBSET Node :
        Weight[S \cup T] + Weight[S \cap T] = Weight[S] + Weight[T]
  /\ \A S, T \in SUBSET Node : S \subseteq T => Weight[S] <= Weight[T]
<1>1. Stake \in [Node -> Nat] /\ IsFiniteSet(Node)
  BY StakeAssumption
<1>2. Weight = SumsOver(Stake, Node)
  BY DEF Weight, SumsOver
<1> QED
  BY <1>1, <1>2, SumLaws

\* Within the range of the type, the threshold is two thirds of the stake,
\* rounded down, plus one (QuorumThreshold in config.go).
LEMMA ThresholdBounds ==
  /\ TotalStake \in Nat
  /\ QuorumThreshold \in Nat
  /\ 3 * QuorumThreshold > 2 * TotalStake
  /\ 3 * QuorumThreshold <= 2 * TotalStake + 3
<1>1. TotalStake \in Nat
  BY WeightLaws DEF TotalStake
<1>2. (2 * TotalStake) % StakeModulus = 2 * TotalStake
  BY <1>1, NoOverflow, StakeAssumption
<1>3. QuorumThreshold = (2 * TotalStake) \div 3 + 1
  BY <1>2 DEF QuorumThreshold
<1> QED
  BY <1>1, <1>3

\* Two quorums share a replica: the fact on which vote-once and the locks of
\* timeouts rest (QuorumThreshold in config.go).
THEOREM QuorumsIntersect ==
  \A S, T \in SUBSET Node : IsQuorum(S) /\ IsQuorum(T) => S \cap T # {}
<1> SUFFICES ASSUME NEW S \in SUBSET Node, NEW T \in SUBSET Node,
                    IsQuorum(S), IsQuorum(T), S \cap T = {}
             PROVE  FALSE
  OBVIOUS
<1>1. Weight[S] \in Nat /\ Weight[T] \in Nat /\ Weight[S \cup T] \in Nat
  BY WeightLaws
<1>2. Weight[S \cup T] = Weight[S] + Weight[T]
  <2>1. Weight[S \cup T] + Weight[S \cap T] = Weight[S] + Weight[T]
    BY WeightLaws
  <2>2. Weight[S \cap T] = 0
    BY WeightLaws
  <2> QED
    BY <1>1, <2>1, <2>2
<1>3. Weight[S \cup T] <= TotalStake
  <2>1. S \cup T \in SUBSET Node /\ Node \in SUBSET Node /\ S \cup T \subseteq Node
    OBVIOUS
  <2> QED
    BY <2>1, WeightLaws DEF TotalStake
<1>4. Weight[S] >= QuorumThreshold /\ Weight[T] >= QuorumThreshold
  BY DEF IsQuorum
<1> QED
  BY <1>1, <1>2, <1>3, <1>4, ThresholdBounds

\* The whole committee is a quorum: a threshold above the total stake would
\* stop the protocol (QuorumThreshold in config.go).
THEOREM CommitteeIsQuorum == TotalStake > 0 => IsQuorum(Node)
<1> SUFFICES ASSUME TotalStake > 0 PROVE Weight[Node] >= QuorumThreshold
  BY DEF IsQuorum
<1>1. 2 * TotalStake < 3 * TotalStake
  BY ThresholdBounds
<1>2. QuorumThreshold <= TotalStake
  <2>1. (2 * TotalStake) % StakeModulus = 2 * TotalStake
    BY ThresholdBounds, NoOverflow, StakeAssumption
  <2>2. QuorumThreshold = (2 * TotalStake) \div 3 + 1
    BY <2>1 DEF QuorumThreshold
  <2> QED
    BY <2>2, ThresholdBounds
<1> QED
  BY <1>2 DEF TotalStake

\* More replicas are a quorum too.
LEMMA QuorumGrows ==
  ASSUME NEW S \in SUBSET Node, NEW R \in SUBSET Node, S \subseteq R, IsQuorum(S)
  PROVE  IsQuorum(R)
<1>1. Weight[S] <= Weight[R] /\ Weight[S] \in Nat /\ Weight[R] \in Nat
  BY WeightLaws
<1> QED
  BY <1>1, ThresholdBounds DEF IsQuorum
-----------------------------------------------------------------------------
(* Types: what each method of Core returns is a local state again.           *)

LEMMA CertificateTypes ==
  /\ GenesisQC \in QC
  /\ NoTC \in TC
  /\ \A b \in Block : BlockDigest(b) \in Digest
  /\ \A n \in Node, b \in Block : NewVote(n, b) \in Vote
BY DEF GenesisQC, QC, NoTC, TC, Block, BlockDigest, Digest, NewVote, Vote

LEMMA AdvanceRoundType ==
  ASSUME NEW s \in LocalState, NEW r \in Nat
  PROVE  AdvanceRound(s, r) \in LocalState
<1>1. s.votes \in SUBSET Vote /\ s.timeouts \in SUBSET Timeout
  BY DEF LocalState
<1>2. {v \in s.votes : v.round > r} \in SUBSET Vote
  BY <1>1
<1>3. {t \in s.timeouts : t.round > r} \in SUBSET Timeout
  BY <1>1
<1>4. r + 1 \in Nat
  OBVIOUS
<1> QED
  BY <1>2, <1>3, <1>4 DEF AdvanceRound, LocalState

LEMMA ProcessQCType ==
  ASSUME NEW s \in LocalState, NEW qc \in QC
  PROVE  ProcessQC(s, qc) \in LocalState
<1>1. qc.round \in Nat
  BY DEF QC
<1>2. AdvanceRound(s, qc.round) \in LocalState
  BY <1>1, AdvanceRoundType
<1> QED
  BY <1>2 DEF ProcessQC, UpdateHighQC, LocalState

LEMMA GenerateProposalType ==
  ASSUME NEW n \in Node, NEW s \in LocalState, NEW tc \in TC
  PROVE  GenerateProposalIfLeader(n, s, tc) \in LocalState
<1>1. [round |-> s.round, qc |-> s.highQC, tc |-> tc] \in Make
  BY DEF LocalState, Make
<1> QED
  BY <1>1 DEF GenerateProposalIfLeader, LocalState

LEMMA HandleVoteType ==
  ASSUME NEW n \in Node, NEW s \in LocalState, NEW v \in Vote
  PROVE  HandleVote(n, s, v) \in LocalState
<1> DEFINE added == [s EXCEPT !.votes = @ \cup {v}]
           qc == [hash |-> v.hash, round |-> v.round]
<1>1. added \in LocalState
  BY DEF LocalState
<1>2. qc \in QC
  BY DEF QC, Vote
<1>3. GenerateProposalIfLeader(n, ProcessQC(added, qc), NoTC) \in LocalState
  BY <1>1, <1>2, ProcessQCType, GenerateProposalType, CertificateTypes
<1> QED
  BY <1>1, <1>3 DEF HandleVote

LEMMA IncreaseLastVotedType ==
  ASSUME NEW s \in LocalState, NEW r \in Nat
  PROVE  IncreaseLastVotedRound(s, r) \in LocalState
BY DEF IncreaseLastVotedRound, LocalState

LEMMA CatchUpType ==
  ASSUME NEW s \in LocalState, NEW b \in Block
  PROVE  CatchUp(s, b) \in LocalState
<1>1. b.qc \in QC /\ b.tc \in TC /\ b.tc.round \in Nat
  BY DEF Block, TC
<1>2. ProcessQC(s, b.qc) \in LocalState
  BY <1>1, ProcessQCType
<1>3. AdvanceRound(ProcessQC(s, b.qc), b.tc.round) \in LocalState
  BY <1>1, <1>2, AdvanceRoundType
<1> QED
  BY <1>2, <1>3 DEF CatchUp

LEMMA MakeTCType ==
  ASSUME NEW s \in LocalState, NEW r \in Nat
  PROVE  MakeTC(s, r) \in TC
<1> DEFINE ts == {x \in s.timeouts : x.round = r}
           vs == {[name |-> t.author, round |-> t.highQC.round] : t \in ts}
<1>1. ts \subseteq Timeout
  BY DEF LocalState
<1>2. \A t \in ts : [name |-> t.author, round |-> t.highQC.round] \in [name : Node, round : Nat]
  BY <1>1 DEF Timeout, QC
<1>3. vs \in SUBSET [name : Node, round : Nat]
  BY <1>2
<1> QED
  BY <1>3 DEF MakeTC, TC

LEMMA StoreUnchanged ==
  ASSUME NEW s \in LocalState
  PROVE  /\ \A r : AdvanceRound(s, r).store = s.store
         /\ \A qc : ProcessQC(s, qc).store = s.store
         /\ \A n, tc : GenerateProposalIfLeader(n, s, tc).store = s.store
         /\ \A n, v : HandleVote(n, s, v).store = s.store
         /\ \A r : IncreaseLastVotedRound(s, r).store = s.store
         /\ \A b : CatchUp(s, b).store = s.store
BY DEF LocalState, AdvanceRound, ProcessQC, UpdateHighQC, GenerateProposalIfLeader,
       HandleVote, IncreaseLastVotedRound, CatchUp

\* The parent of a block that has one is the genesis block or a stored one.
LEMMA ParentStored ==
  ASSUME NEW s, NEW b, HasParent(s, b)
  PROVE  \/ Parent(s, b) = GenesisBlock
         \/ Parent(s, b) \in s.store /\ BlockDigest(Parent(s, b)) = b.qc.hash
BY DEF HasParent, Parent

Closed(s) == \A b \in s.store : HasParent(s, b)

\* In a closed store a block with a parent has a grandparent too, which is why
\* getAncestors may call log.Fatal when there is none.
LEMMA GrandparentStored ==
  ASSUME NEW s \in LocalState, NEW b, HasParent(s, b), Closed(s)
  PROVE  /\ HasParent(s, Parent(s, b))
         /\ TwoChainHead(s, b) \in s.store \cup {GenesisBlock}
         /\ TwoChainHead(s, b).round \in Nat
<1>1. GenesisBlock.qc = GenesisQC /\ GenesisBlock.round = 0
  BY DEF GenesisBlock
<1>2. HasParent(s, Parent(s, b))
  BY <1>1, ParentStored DEF Closed, HasParent
<1>3. TwoChainHead(s, b) \in s.store \cup {GenesisBlock}
  BY <1>2, ParentStored DEF TwoChainHead
<1>4. \A x \in s.store : x.round \in Nat
  BY DEF LocalState, Block
<1> QED
  BY <1>1, <1>2, <1>3, <1>4

\* Committing changes what is pending and the last committed round; the block
\* committed is whatever the walk finds, so its round is a premise.
LEMMA CommitType ==
  ASSUME NEW s \in LocalState, NEW b, b.round \in Nat
  PROVE  Commit(s, b) \in LocalState
<1>1. /\ {w \in s.pending : w.block.round > b.round} \in SUBSET Waiter
      /\ s.cancelled \cup {w \in s.pending : w.block.round <= b.round} \in SUBSET Waiter
  BY DEF LocalState
<1> QED
  BY <1>1 DEF Commit, LocalState
-----------------------------------------------------------------------------
(* Each action keeps the types, and the stores closed under parents.         *)

TypeInv == TypeOK /\ AncestorsStored

LEMMA CoreUpdate ==
  ASSUME TypeInv, NEW n \in Node, NEW s \in LocalState, Closed(s),
         core' = [core EXCEPT ![n] = s]
  PROVE  core' \in [Node -> LocalState] /\ AncestorsStored'
<1>1. core' \in [Node -> LocalState]
  BY DEF TypeInv, TypeOK
<1>2. \A m \in Node : core'[m] = IF m = n THEN s ELSE core[m]
  BY DEF TypeInv, TypeOK
<1>3. \A m \in Node : Closed(core'[m])
  BY <1>2 DEF TypeInv, AncestorsStored, Closed
<1> QED
  BY <1>1, <1>3 DEF AncestorsStored, Closed

LEMMA LocalFacts ==
  ASSUME TypeInv, NEW n \in Node
  PROVE  core[n] \in LocalState /\ Closed(core[n])
BY DEF TypeInv, TypeOK, AncestorsStored, Closed

LEMMA ClosedByStore ==
  ASSUME NEW s, NEW x, x.store = s.store, Closed(s)
  PROVE  Closed(x)
BY DEF Closed, HasParent

LEMMA SuspendType ==
  ASSUME TypeInv, NEW n \in Node, NEW s \in LocalState, Closed(s), NEW b \in Block,
         SuspendBlock(n, s, b)
  PROVE  /\ core' \in [Node -> LocalState] /\ AncestorsStored'
         /\ voteMsgs' = voteMsgs
<1> DEFINE x == [s EXCEPT !.suspended = @ \cup {b}]
<1>1. x \in LocalState /\ x.store = s.store
  BY DEF LocalState
<1>2. Closed(x)
  BY <1>1, ClosedByStore
<1>3. core' = [core EXCEPT ![n] = s] \/ core' = [core EXCEPT ![n] = x]
  BY DEF SuspendBlock
<1> QED
  BY <1>1, <1>2, <1>3, CoreUpdate DEF SuspendBlock

\* Writing a block under a digest that is already there changes what stands under
\* it, and takes no parent away.
LEMMA StoreBlockClosed ==
  ASSUME NEW s \in LocalState, NEW b \in Block, HasParent(s, b), Closed(s)
  PROVE  /\ StoreBlock(s, b) \in LocalState
         /\ \A x : x.store = StoreBlock(s, b).store => Closed(x)
<1> DEFINE kept == {x \in s.store : BlockDigest(x) # BlockDigest(b)}
<1>1. StoreBlock(s, b) \in LocalState /\ StoreBlock(s, b).store = kept \cup {b}
  BY DEF StoreBlock, LocalState
<1>2. ASSUME NEW y, HasParent(s, y)
      PROVE  y.qc = GenesisQC \/ \E z \in kept \cup {b} : BlockDigest(z) = y.qc.hash
  <2>1. CASE y.qc = GenesisQC
    BY <2>1
  <2>2. CASE \E z \in s.store : BlockDigest(z) = y.qc.hash
    <3>1. PICK z \in s.store : BlockDigest(z) = y.qc.hash
      BY <2>2
    <3>2. z \in kept \/ BlockDigest(b) = y.qc.hash
      BY <3>1
    <3> QED
      BY <3>1, <3>2
  <2> QED
    BY <1>2, <2>1, <2>2 DEF HasParent
<1>3. \A y \in kept \cup {b} : HasParent(s, y)
  BY DEF Closed
<1> QED
  BY <1>1, <1>2, <1>3 DEF Closed, HasParent

LEMMA AcceptType ==
  ASSUME TypeInv, NEW n \in Node, NEW s \in LocalState, Closed(s), NEW b \in Block,
         AcceptBlock(n, s, b)
  PROVE  /\ core' \in [Node -> LocalState] /\ AncestorsStored'
         /\ voteMsgs' \subseteq [vote : Vote, to : Node]
<1> DEFINE stored  == StoreBlock(s, b)
           head    == TwoChainHead(s, b)
           settled == IF IsTwoChain(s, b) THEN Commit(stored, head) ELSE stored
           voted   == IncreaseLastVotedRound(settled, b.round)
           vote    == NewVote(n, b)
           next    == Leader(settled.round + 1)
           after   == IF next = n THEN HandleVote(n, voted, vote) ELSE voted
<1>1. HasParent(s, b) /\ b.round \in Nat
  BY DEF AcceptBlock, Block
<1>2. stored \in LocalState
  BY <1>1, StoreBlockClosed
<1>3. Commit(stored, head) \in LocalState
  BY <1>1, <1>2, GrandparentStored, CommitType
<1>4. settled \in LocalState
  BY <1>2, <1>3
<1>5. settled.store = stored.store
  BY <1>2 DEF Commit, LocalState
<1>6. voted \in LocalState /\ voted.store = stored.store
  BY <1>1, <1>4, <1>5, IncreaseLastVotedType, StoreUnchanged
<1>7. vote \in Vote /\ next \in Node
  <2>1. settled.round + 1 \in Nat
    BY <1>4 DEF LocalState
  <2> QED
    BY <2>1, LeaderType, CertificateTypes
<1>8. after \in LocalState /\ after.store = stored.store
  <2>1. HandleVote(n, voted, vote) \in LocalState
    BY <1>6, <1>7, HandleVoteType
  <2>2. HandleVote(n, voted, vote).store = voted.store
    BY <1>6, StoreUnchanged
  <2> QED
    BY <1>6, <2>1, <2>2
<1>9. \A x : x.store = stored.store => Closed(x)
  BY <1>1, StoreBlockClosed
<1>10. CASE core' = [core EXCEPT ![n] = settled] /\ voteMsgs' = voteMsgs
  BY <1>4, <1>5, <1>9, <1>10, CoreUpdate DEF TypeInv, TypeOK
<1>11. CASE /\ core' = [core EXCEPT ![n] = after]
            /\ voteMsgs' = voteMsgs \cup {[vote |-> vote, to |-> next]}
  <2>1. core' \in [Node -> LocalState] /\ AncestorsStored'
    BY <1>8, <1>9, <1>11, CoreUpdate
  <2>2. voteMsgs \subseteq [vote : Vote, to : Node]
    BY DEF TypeInv, TypeOK
  <2> HIDE DEF vote, next
  <2>3. [vote |-> vote, to |-> next] \in [vote : Vote, to : Node]
    BY <1>7
  <2> QED
    BY <1>11, <2>1, <2>2, <2>3
<1> QED
  BY <1>10, <1>11 DEF AcceptBlock

LEMMA ProcessType ==
  ASSUME TypeInv, NEW n \in Node, NEW s \in LocalState, Closed(s), NEW b \in Block,
         ProcessBlock(n, s, b)
  PROVE  /\ core' \in [Node -> LocalState] /\ AncestorsStored'
         /\ voteMsgs' \subseteq [vote : Vote, to : Node]
BY SuspendType, AcceptType DEF ProcessBlock, TypeInv, TypeOK

LEMMA TimeoutType ==
  ASSUME TypeInv, NEW n \in Node, NEW s \in LocalState, Closed(s), NEW t \in Timeout,
         HandleTimeout(n, s, t)
  PROVE  /\ core' \in [Node -> LocalState] /\ AncestorsStored'
         /\ tcMsgs' \subseteq TC
<1> DEFINE caughtUp == ProcessQC(s, t.highQC)
           added    == [caughtUp EXCEPT !.timeouts = @ \cup {t}]
           tc       == MakeTC(added, t.round)
           moved    == GenerateProposalIfLeader(n, AdvanceRound(added, t.round), tc)
<1>1. t.highQC \in QC /\ t.round \in Nat
  BY DEF Timeout
<1>2. caughtUp \in LocalState /\ caughtUp.store = s.store
  BY <1>1, ProcessQCType, StoreUnchanged
<1>3. added \in LocalState /\ added.store = s.store
  BY <1>2 DEF LocalState
<1>4. tc \in TC
  BY <1>1, <1>3, MakeTCType
<1>5. AdvanceRound(added, t.round) \in LocalState
  BY <1>1, <1>3, AdvanceRoundType
<1>6. moved \in LocalState
  BY <1>4, <1>5, GenerateProposalType
<1>7. moved.store = s.store
  <2>1. AdvanceRound(added, t.round).store = added.store
    BY <1>3, StoreUnchanged
  <2>2. moved.store = AdvanceRound(added, t.round).store
    BY <1>5, StoreUnchanged
  <2> QED
    BY <1>3, <2>1, <2>2
<1>8. Closed(caughtUp) /\ Closed(added) /\ Closed(moved)
  BY <1>2, <1>3, <1>7, ClosedByStore
<1>9. tcMsgs \subseteq TC
  BY DEF TypeInv, TypeOK
<1>10. CASE core' = [core EXCEPT ![n] = caughtUp] /\ tcMsgs' = tcMsgs
  BY <1>2, <1>8, <1>9, <1>10, CoreUpdate
<1>11. CASE core' = [core EXCEPT ![n] = added] /\ tcMsgs' = tcMsgs
  BY <1>3, <1>8, <1>9, <1>11, CoreUpdate
<1>12. CASE core' = [core EXCEPT ![n] = moved] /\ tcMsgs' = tcMsgs \cup {tc}
  BY <1>4, <1>6, <1>8, <1>9, <1>12, CoreUpdate
<1> QED
  BY <1>10, <1>11, <1>12 DEF HandleTimeout

LEMMA ReceiveProposalType ==
  ASSUME TypeInv, NEW n \in Node, NEW b \in proposals, ReceiveProposal(n, b)
  PROVE  TypeInv'
<1> DEFINE s == CatchUp(core[n], b)
           missing == b.payload \ s.batches
           waiting == [s EXCEPT !.pending = @ \cup {[block |-> b, missing |-> missing]}]
<1>1. b \in Block
  BY DEF TypeInv, TypeOK
<1>2. s \in LocalState /\ Closed(s)
  BY <1>1, LocalFacts, CatchUpType, StoreUnchanged, ClosedByStore
<1>3. waiting \in LocalState /\ waiting.store = s.store
  <2>1. [block |-> b, missing |-> missing] \in Waiter
    BY <1>1 DEF Block, Waiter
  <2> HIDE DEF missing, s
  <2> QED
    BY <1>2, <2>1 DEF LocalState
<1>4. Closed(waiting)
  BY <1>2, <1>3, ClosedByStore
<1>5. /\ proposals' = proposals
      /\ timeoutMsgs' = timeoutMsgs
      /\ tcMsgs' = tcMsgs
  BY DEF ReceiveProposal
<1>6. /\ core' \in [Node -> LocalState] /\ AncestorsStored'
      /\ voteMsgs' \subseteq [vote : Vote, to : Node]
  <2>1. CASE core' = [core EXCEPT ![n] = s] /\ voteMsgs' = voteMsgs
    BY <1>2, <2>1, CoreUpdate DEF TypeInv, TypeOK
  <2>2. CASE core' = [core EXCEPT ![n] = waiting] /\ voteMsgs' = voteMsgs
    BY <1>3, <1>4, <2>2, CoreUpdate DEF TypeInv, TypeOK
  <2>3. CASE ProcessBlock(n, s, b)
    BY <1>1, <1>2, <2>3, ProcessType
  <2> QED
    BY <2>1, <2>2, <2>3 DEF ReceiveProposal
<1> QED
  BY <1>5, <1>6 DEF TypeInv, TypeOK

LEMMA ReceiveVoteType ==
  ASSUME TypeInv, NEW n \in Node, NEW m \in voteMsgs, ReceiveVote(n, m)
  PROVE  TypeInv'
<1> DEFINE s == HandleVote(n, core[n], m.vote)
<1>1. m.vote \in Vote
  BY DEF TypeInv, TypeOK
<1>2. s \in LocalState /\ Closed(s)
  BY <1>1, LocalFacts, HandleVoteType, StoreUnchanged, ClosedByStore
<1>3. core' = [core EXCEPT ![n] = s]
  BY DEF ReceiveVote
<1> QED
  BY <1>2, <1>3, CoreUpdate DEF ReceiveVote, TypeInv, TypeOK

LEMMA ReceiveTimeoutType ==
  ASSUME TypeInv, NEW n \in Node, NEW t \in timeoutMsgs, ReceiveTimeout(n, t)
  PROVE  TypeInv'
<1>1. t \in Timeout
  BY DEF TypeInv, TypeOK
<1> QED
  BY <1>1, LocalFacts, TimeoutType DEF ReceiveTimeout, TypeInv, TypeOK

LEMMA ReceiveTCType ==
  ASSUME TypeInv, NEW n \in Node, NEW tc \in tcMsgs, ReceiveTC(n, tc)
  PROVE  TypeInv'
<1> DEFINE s == GenerateProposalIfLeader(n, AdvanceRound(core[n], tc.round), tc)
<1>1. tc \in TC /\ tc.round \in Nat
  BY DEF TypeInv, TypeOK, TC
<1>2. AdvanceRound(core[n], tc.round) \in LocalState
  BY <1>1, LocalFacts, AdvanceRoundType
<1>3. s \in LocalState /\ Closed(s)
  BY <1>1, <1>2, LocalFacts, GenerateProposalType, StoreUnchanged, ClosedByStore
<1>4. core' = [core EXCEPT ![n] = s]
  BY DEF ReceiveTC
<1> QED
  BY <1>3, <1>4, CoreUpdate DEF ReceiveTC, TypeInv, TypeOK

LEMMA ReceiveLoopbackType ==
  ASSUME TypeInv, NEW n \in Node, NEW b \in core[n].loopback, ReceiveLoopback(n, b)
  PROVE  TypeInv'
<1> DEFINE s == [core[n] EXCEPT !.loopback = @ \ {b}]
<1>1. b \in Block /\ s \in LocalState /\ s.store = core[n].store
  BY LocalFacts DEF LocalState
<1>2. Closed(s)
  BY <1>1, LocalFacts, ClosedByStore
<1> QED
  BY <1>1, <1>2, ProcessType DEF ReceiveLoopback, TypeInv, TypeOK

LEMMA LocalTimeoutType ==
  ASSUME TypeInv, NEW n \in Node, LocalTimeout(n)
  PROVE  TypeInv'
<1> DEFINE s == IncreaseLastVotedRound(core[n], core[n].round)
           t == [highQC |-> s.highQC, round |-> s.round, author |-> n]
<1>1. core[n].round \in Nat
  BY LocalFacts DEF LocalState
<1>2. s \in LocalState /\ Closed(s)
  BY <1>1, LocalFacts, IncreaseLastVotedType, StoreUnchanged, ClosedByStore
<1>3. t \in Timeout
  BY <1>2 DEF LocalState, Timeout
<1>4. HandleTimeout(n, s, t) /\ timeoutMsgs' = timeoutMsgs \cup {t}
  BY DEF LocalTimeout
<1>5. timeoutMsgs' \subseteq Timeout
  BY <1>3, <1>4 DEF TypeInv, TypeOK
<1> HIDE DEF s, t
<1> QED
  BY <1>2, <1>3, <1>4, <1>5, TimeoutType DEF LocalTimeout, TypeInv, TypeOK

LEMMA ProposeType ==
  ASSUME TypeInv, NEW n \in Node, Propose(n)
  PROVE  TypeInv'
<1>1. PICK m \in core[n].makes, payload \in SUBSET core[n].batches :
        LET b == [author |-> n, round |-> m.round, payload |-> payload,
                  qc |-> m.qc, tc |-> m.tc]
        IN  /\ proposals' = proposals \cup {b}
            /\ core' = [core EXCEPT ![n].makes = @ \ {m}, ![n].loopback = @ \cup {b}]
            /\ UNCHANGED <<committed, voteMsgs, timeoutMsgs, tcMsgs>>
  BY DEF Propose
<1> DEFINE b == [author |-> n, round |-> m.round, payload |-> payload,
                 qc |-> m.qc, tc |-> m.tc]
           s == [core[n] EXCEPT !.makes = @ \ {m}, !.loopback = @ \cup {b}]
<1>2. core[n] \in LocalState /\ Closed(core[n])
  BY LocalFacts
<1>3. m \in Make /\ payload \in SUBSET Batch
  BY <1>2 DEF LocalState
<1>4. b \in Block
  BY <1>3 DEF Make, Block
<1>5. core' = [core EXCEPT ![n] = s]
  BY <1>1 DEF TypeInv, TypeOK
<1> HIDE DEF b
<1>6. s \in LocalState /\ s.store = core[n].store
  BY <1>2, <1>4 DEF LocalState
<1>7. Closed(s)
  BY <1>2, <1>6, ClosedByStore
<1>8. proposals' = proposals \cup {b} /\ UNCHANGED <<voteMsgs, timeoutMsgs, tcMsgs>>
  BY <1>1 DEF b
<1> QED
  BY <1>4, <1>5, <1>6, <1>7, <1>8, CoreUpdate DEF TypeInv, TypeOK

LEMMA ResumeBlockType ==
  ASSUME TypeInv, NEW n \in Node, NEW b \in core[n].suspended, ResumeBlock(n, b)
  PROVE  TypeInv'
<1> DEFINE s == [core[n] EXCEPT !.suspended = @ \ {b}, !.loopback = @ \cup {b}]
<1>1. s \in LocalState /\ s.store = core[n].store
  BY LocalFacts DEF LocalState
<1>2. Closed(s)
  BY <1>1, LocalFacts, ClosedByStore
<1>3. core' = [core EXCEPT ![n] = s]
  BY DEF ResumeBlock, TypeInv, TypeOK
<1> QED
  BY <1>1, <1>2, <1>3, CoreUpdate DEF ResumeBlock, TypeInv, TypeOK

LEMMA DeliverPayloadType ==
  ASSUME TypeInv, NEW n \in Node, NEW w \in core[n].pending \cup core[n].cancelled,
         DeliverPayload(n, w)
  PROVE  TypeInv'
<1> DEFINE rest == {x \in core[n].pending : BlockDigest(x.block) # BlockDigest(w.block)}
           s == [core[n] EXCEPT !.pending = rest, !.cancelled = @ \ {w},
                                !.loopback = @ \cup {w.block}]
<1>1. w.block \in Block /\ rest \subseteq core[n].pending
  BY LocalFacts DEF LocalState, Waiter
<1> HIDE DEF rest
<1>2. s \in LocalState /\ s.store = core[n].store
  BY <1>1, LocalFacts DEF LocalState
<1>3. Closed(s)
  BY <1>2, LocalFacts, ClosedByStore
<1>4. core' = [core EXCEPT ![n] = s]
  BY DEF DeliverPayload, TypeInv, TypeOK, rest
<1> QED
  BY <1>2, <1>3, <1>4, CoreUpdate DEF DeliverPayload, TypeInv, TypeOK

LEMMA StoreBatchType ==
  ASSUME TypeInv, NEW n \in Node, NEW d \in Batch, StoreBatch(n, d)
  PROVE  TypeInv'
<1> DEFINE s == [core[n] EXCEPT !.batches = @ \cup {d}]
<1>1. s \in LocalState /\ s.store = core[n].store
  BY LocalFacts DEF LocalState
<1>2. Closed(s)
  BY <1>1, LocalFacts, ClosedByStore
<1>3. core' = [core EXCEPT ![n] = s]
  BY DEF StoreBatch, TypeInv, TypeOK
<1> QED
  BY <1>1, <1>2, <1>3, CoreUpdate DEF StoreBatch, TypeInv, TypeOK

LEMMA InitTypeInv == Init => TypeInv
<1> SUFFICES ASSUME Init PROVE TypeInv
  OBVIOUS
<1>1. \A n \in Node : InitialState(n) \in LocalState /\ InitialState(n).store = {}
  BY CertificateTypes DEF InitialState, LocalState, Make
<1> QED
  BY <1>1 DEF Init, TypeInv, TypeOK, AncestorsStored

LEMMA NextTypeInv == TypeInv /\ [Next]_vars => TypeInv'
<1> SUFFICES ASSUME TypeInv, [Next]_vars PROVE TypeInv'
  OBVIOUS
<1>1. CASE UNCHANGED vars
  BY <1>1 DEF vars, TypeInv, TypeOK, AncestorsStored, HasParent
<1>2. CASE Next
  <2>1. PICK n \in Node : Step(n)
    BY <1>2 DEF Next
  <2> QED
    BY <2>1, ReceiveProposalType, ReceiveVoteType, ReceiveTimeoutType, ReceiveTCType,
       ReceiveLoopbackType, LocalTimeoutType, ProposeType, ResumeBlockType,
       DeliverPayloadType, StoreBatchType DEF Step
<1> QED
  BY <1>1, <1>2

\* Every variable keeps its type, whatever the replicas do.
THEOREM TypeCorrect == Spec => []TypeOK
<1>1. TypeInv => TypeOK
  BY DEF TypeInv
<1> QED
  BY <1>1, InitTypeInv, NextTypeInv, PTL DEF Spec

\* A stored block has its parent stored: getAncestors never ends the process
\* and commit never panics, in any run of the protocol.
THEOREM AncestorsAreStored == Spec => []AncestorsStored
<1>1. TypeInv => AncestorsStored
  BY DEF TypeInv
<1> QED
  BY <1>1, InitTypeInv, NextTypeInv, PTL DEF Spec
-----------------------------------------------------------------------------
(* Restarts: what a kill leaves in the database is closed under parents too,  *)
(* however many of the last writes are missing.                               *)

Databases == [store : SUBSET Block, batches : SUBSET Batch]

FaultInv ==
  /\ TypeInv
  /\ images \in [Node -> SUBSET Databases]
  /\ \A n \in Node : \A d \in images[n] : Closed(d)

\* What reaches a replica was sent: a fault takes messages away and adds none.
LEMMA FaultyStepIsStep ==
  ASSUME NEW n \in Node, FaultyStep(n)
  PROVE  Step(n)
BY DEF FaultyStep, TimerFires, Handles, HandlesProposal, HandlesLoopback, Resumes, Delivers,
       HandlesOther, Arriving, Step

\* A step serves some of the writes before it and adds its own.
ImagesGrow(n, older) ==
  /\ images' = [images EXCEPT ![n] = older \cup {Database(core'[n])}]
  /\ older \subseteq images[n] \cup {Database(core[n])}

LEMMA FaultyStepImages ==
  ASSUME NEW n \in Node, FaultyStep(n)
  PROVE  \E older : ImagesGrow(n, older)
<1>1. CASE TimerFires(n)
  BY <1>1 DEF TimerFires, Leaves, ImagesGrow
<1>2. CASE Handles(n)
  <2>1. ASSUME NEW b \in proposals, HandlesProposal(n, b)
        PROVE  \E older : ImagesGrow(n, older)
    BY <2>1 DEF HandlesProposal, Leaves, UnservedAfterBlock, Unserved, ImagesGrow
  <2>2. ASSUME NEW b \in core[n].loopback, HandlesLoopback(n, b)
        PROVE  \E older : ImagesGrow(n, older)
    BY <2>2 DEF HandlesLoopback, Leaves, UnservedAfterBlock, Unserved, ImagesGrow
  <2>3. ASSUME NEW b \in core[n].suspended, Resumes(n, b)
        PROVE  \E older : ImagesGrow(n, older)
    BY <2>3 DEF Resumes, Leaves, ImagesGrow
  <2>4. ASSUME NEW w \in core[n].pending \cup core[n].cancelled, Delivers(n, w)
        PROVE  \E older : ImagesGrow(n, older)
    BY <2>4 DEF Delivers, Leaves, ImagesGrow
  <2>5. CASE HandlesOther(n)
    BY <2>5 DEF HandlesOther, Leaves, ImagesGrow
  <2> QED
    BY <1>2, <2>1, <2>2, <2>3, <2>4, <2>5 DEF Handles
<1> QED
  BY <1>1, <1>2 DEF FaultyStep

\* Only the images of the replica that takes the step change, and what is new among
\* them is its database before or after the step.
LEMMA ImagesOfStep ==
  ASSUME FaultInv, NEW n \in Node, FaultyStep(n), NEW m \in Node, NEW d \in images'[m]
  PROVE  d \in images[m] \/ d = Database(core[m]) \/ d = Database(core'[m])
BY FaultyStepImages DEF FaultInv, ImagesGrow

LEMMA DatabaseFacts ==
  ASSUME NEW s \in LocalState
  PROVE  /\ Database(s) \in Databases
         /\ Database(s).store = s.store /\ Database(s).batches = s.batches
         /\ Closed(s) => Closed(Database(s))
BY DEF Database, Databases, LocalState, Closed, HasParent

LEMMA FaultyStepKeepsImages ==
  ASSUME FaultInv, NEW n \in Node, FaultyStep(n)
  PROVE  FaultInv'
<1>1. TypeInv'
  BY FaultyStepIsStep, NextTypeInv DEF FaultInv, Next
<1>2. \A m \in Node : core[m] \in LocalState /\ Closed(core[m])
  BY DEF FaultInv, TypeInv, TypeOK, AncestorsStored, Closed
<1>3. \A m \in Node : core'[m] \in LocalState /\ Closed(core'[m])
  BY <1>1 DEF TypeInv, TypeOK, AncestorsStored, Closed
<1>4. ASSUME NEW m \in Node, NEW d \in images'[m]
      PROVE  d \in Databases /\ Closed(d)
  BY <1>2, <1>3, ImagesOfStep, DatabaseFacts DEF FaultInv
<1>5. images' \in [Node -> SUBSET Databases]
  <2>1. PICK older : ImagesGrow(n, older)
    BY FaultyStepImages
  <2>2. images' = [m \in Node |-> images'[m]]
    BY <2>1 DEF ImagesGrow, FaultInv
  <2> QED
    BY <1>4, <2>2
<1> QED
  BY <1>1, <1>4, <1>5 DEF FaultInv

\* NewNode on an existing store starts from a state that has all its ancestors.
LEMMA RestartKeepsImages ==
  ASSUME FaultInv, NEW n \in Node, Restart(n)
  PROVE  FaultInv'
<1>1. PICK d \in images[n] :
        /\ core' = [core EXCEPT ![n] = [InitialState(n) EXCEPT
                      !.store = d.store, !.batches = d.batches]]
        /\ images' = [images EXCEPT ![n] = {d}]
  BY DEF Restart
<1> DEFINE s == [InitialState(n) EXCEPT !.store = d.store, !.batches = d.batches]
<1>2. /\ d \in Databases /\ Closed(d)
      /\ d.store \in SUBSET Block /\ d.batches \in SUBSET Batch
  BY DEF FaultInv, Databases
<1>3. s \in LocalState /\ s.store = d.store
  <2>1. InitialState(n) \in LocalState
    BY CertificateTypes DEF InitialState, LocalState, Make
  <2> QED
    BY <1>2, <2>1 DEF LocalState
<1>4. Closed(s)
  BY <1>2, <1>3 DEF Closed, HasParent
<1>5. TypeInv'
  <2> HIDE DEF s
  <2>1. core' = [core EXCEPT ![n] = s]
    BY <1>1 DEF s
  <2> QED
    BY <1>3, <1>4, <2>1, CoreUpdate DEF FaultInv, Restart, TypeInv, TypeOK
<1>6. images' \in [Node -> SUBSET Databases]
  BY <1>1, <1>2 DEF FaultInv
<1>7. ASSUME NEW m \in Node, NEW x \in images'[m]
      PROVE  Closed(x)
  BY <1>1, <1>2, <1>7 DEF FaultInv
<1> QED
  BY <1>5, <1>6, <1>7 DEF FaultInv

LEMMA NothingStored ==
  LET d == [store |-> {}, batches |-> {}] IN d \in Databases /\ Closed(d)
BY DEF Databases, Closed

\* However often replicas are killed, however many writes of the store's channel and
\* messages are lost with them, a replica that starts again finds the parent of every
\* block in its database (NewNode, processBlock, storeBlock).
THEOREM RestartsKeepAncestors == FaultSpec => [](TypeOK /\ AncestorsStored)
<1>1. FaultInit => FaultInv
  <2> SUFFICES ASSUME FaultInit PROVE FaultInv
    OBVIOUS
  <2>1. TypeInv
    BY InitTypeInv DEF FaultInit
  <2> QED
    BY <2>1, NothingStored DEF FaultInit, FaultInv
<1>2. FaultInv /\ [FaultNext]_faultVars => FaultInv'
  <2> SUFFICES ASSUME FaultInv, [FaultNext]_faultVars PROVE FaultInv'
    OBVIOUS
  <2>1. CASE UNCHANGED faultVars
    <3>1. TypeInv'
      BY <2>1, NextTypeInv DEF faultVars, FaultInv
    <3> QED
      BY <2>1, <3>1 DEF faultVars, FaultInv
  <2>2. CASE FaultNext
    BY <2>2, FaultyStepKeepsImages, RestartKeepsImages DEF FaultNext
  <2> QED
    BY <2>1, <2>2
<1>3. FaultInv => TypeOK /\ AncestorsStored
  BY DEF FaultInv, TypeInv
<1> QED
  BY <1>1, <1>2, <1>3, PTL DEF FaultSpec
-----------------------------------------------------------------------------
(* Payloads: a block moves on only with its batches, and batches stay.       *)

\* A block that has left the payload waiter is complete; one that waits misses
\* no batch but those its waiter asked for.
PayloadOk(s) ==
  /\ \A b \in s.store \cup s.loopback \cup s.suspended : b.payload \subseteq s.batches
  /\ \A w \in s.pending \cup s.cancelled : w.block.payload \subseteq w.missing \cup s.batches

SameBlocks(s, x) ==
  /\ x.store = s.store /\ x.batches = s.batches
  /\ x.loopback = s.loopback /\ x.suspended = s.suspended
  /\ x.pending = s.pending /\ x.cancelled = s.cancelled

\* Rounds, votes, timeouts and certificates have nothing to do with payloads.
LEMMA BlocksUnchanged ==
  ASSUME NEW s \in LocalState
  PROVE  /\ \A r : SameBlocks(s, AdvanceRound(s, r))
         /\ \A qc : SameBlocks(s, ProcessQC(s, qc))
         /\ \A n, tc : SameBlocks(s, GenerateProposalIfLeader(n, s, tc))
         /\ \A n, v : SameBlocks(s, HandleVote(n, s, v))
         /\ \A r : SameBlocks(s, IncreaseLastVotedRound(s, r))
         /\ \A b : SameBlocks(s, CatchUp(s, b))
BY DEF LocalState, AdvanceRound, ProcessQC, UpdateHighQC, GenerateProposalIfLeader,
       HandleVote, IncreaseLastVotedRound, CatchUp, SameBlocks

LEMMA SamePayload ==
  ASSUME NEW s, NEW x, SameBlocks(s, x), PayloadOk(s)
  PROVE  PayloadOk(x)
BY DEF SameBlocks, PayloadOk

PayloadInv == TypeInv /\ \A n \in Node : PayloadOk(core[n])

LEMMA PayloadUpdate ==
  ASSUME PayloadInv, NEW n \in Node, NEW s, PayloadOk(s), core' = [core EXCEPT ![n] = s]
  PROVE  \A m \in Node : PayloadOk(core'[m])
<1>1. \A m \in Node : core'[m] = IF m = n THEN s ELSE core[m]
  BY DEF PayloadInv, TypeInv, TypeOK
<1> QED
  BY <1>1 DEF PayloadInv

LEMMA AcceptPayload ==
  ASSUME PayloadInv, NEW n \in Node, NEW s \in LocalState, Closed(s), PayloadOk(s),
         NEW b \in Block, b.payload \subseteq s.batches, AcceptBlock(n, s, b)
  PROVE  \A m \in Node : PayloadOk(core'[m])
<1> DEFINE stored  == StoreBlock(s, b)
           head    == TwoChainHead(s, b)
           settled == IF IsTwoChain(s, b) THEN Commit(stored, head) ELSE stored
           voted   == IncreaseLastVotedRound(settled, b.round)
           vote    == NewVote(n, b)
           next    == Leader(settled.round + 1)
           after   == IF next = n THEN HandleVote(n, voted, vote) ELSE voted
<1>1. HasParent(s, b) /\ b.round \in Nat
  BY DEF AcceptBlock, Block
<1>2. stored \in LocalState
  BY <1>1, StoreBlockClosed
<1>3. PayloadOk(stored)
  <2>1. /\ stored.store \subseteq s.store \cup {b} /\ stored.batches = s.batches
        /\ stored.loopback = s.loopback /\ stored.suspended = s.suspended
        /\ stored.pending = s.pending /\ stored.cancelled = s.cancelled
    BY DEF StoreBlock, LocalState
  <2> HIDE DEF stored
  <2> QED
    BY <2>1 DEF PayloadOk
<1>4. Commit(stored, head) \in LocalState
  BY <1>1, <1>2, GrandparentStored, CommitType
<1>5. PayloadOk(Commit(stored, head))
  <2> DEFINE x == Commit(stored, head)
  <2>1. /\ x.store = stored.store /\ x.batches = stored.batches
        /\ x.loopback = stored.loopback /\ x.suspended = stored.suspended
        /\ x.pending \cup x.cancelled \subseteq stored.pending \cup stored.cancelled
    BY <1>2 DEF Commit, LocalState
  <2> HIDE DEF x, stored
  <2> QED
    BY <1>3, <2>1 DEF PayloadOk, x
<1>6. settled \in LocalState /\ PayloadOk(settled)
  BY <1>2, <1>3, <1>4, <1>5
<1> HIDE DEF settled
<1>7. voted \in LocalState /\ PayloadOk(voted)
  BY <1>1, <1>6, IncreaseLastVotedType, BlocksUnchanged, SamePayload
<1> HIDE DEF voted
<1>8. PayloadOk(after)
  BY <1>7, BlocksUnchanged, SamePayload
<1> HIDE DEF after
<1>9. core' = [core EXCEPT ![n] = settled] \/ core' = [core EXCEPT ![n] = after]
  BY DEF AcceptBlock, settled, voted, after
<1> QED
  BY <1>6, <1>8, <1>9, PayloadUpdate

LEMMA ProcessPayload ==
  ASSUME PayloadInv, NEW n \in Node, NEW s \in LocalState, Closed(s), PayloadOk(s),
         NEW b \in Block, b.payload \subseteq s.batches, ProcessBlock(n, s, b)
  PROVE  \A m \in Node : PayloadOk(core'[m])
<1> DEFINE x == [s EXCEPT !.suspended = @ \cup {b}]
<1>1. PayloadOk(x)
  <2>1. /\ x.store = s.store /\ x.batches = s.batches /\ x.loopback = s.loopback
        /\ x.suspended = s.suspended \cup {b}
        /\ x.pending = s.pending /\ x.cancelled = s.cancelled
    BY DEF LocalState
  <2> HIDE DEF x
  <2> QED
    BY <2>1 DEF PayloadOk
<1>2. CASE SuspendBlock(n, s, b)
  <2>1. core' = [core EXCEPT ![n] = s] \/ core' = [core EXCEPT ![n] = x]
    BY <1>2 DEF SuspendBlock
  <2> HIDE DEF x
  <2> QED
    BY <1>1, <2>1, PayloadUpdate
<1>3. CASE AcceptBlock(n, s, b)
  BY <1>3, AcceptPayload
<1> QED
  BY <1>2, <1>3 DEF ProcessBlock

LEMMA TimeoutPayload ==
  ASSUME PayloadInv, NEW n \in Node, NEW s \in LocalState, PayloadOk(s),
         NEW t \in Timeout, HandleTimeout(n, s, t)
  PROVE  \A m \in Node : PayloadOk(core'[m])
<1> DEFINE caughtUp == ProcessQC(s, t.highQC)
           added    == [caughtUp EXCEPT !.timeouts = @ \cup {t}]
           tc       == MakeTC(added, t.round)
           moved    == AdvanceRound(added, t.round)
           after    == GenerateProposalIfLeader(n, moved, tc)
<1>1. t.highQC \in QC /\ t.round \in Nat
  BY DEF Timeout
<1>2. caughtUp \in LocalState /\ PayloadOk(caughtUp)
  BY <1>1, ProcessQCType, BlocksUnchanged, SamePayload
<1> HIDE DEF caughtUp
<1>3. added \in LocalState /\ SameBlocks(caughtUp, added)
  BY <1>2 DEF LocalState, SameBlocks
<1> HIDE DEF added
<1>4. PayloadOk(added)
  BY <1>2, <1>3, SamePayload
<1>5. moved \in LocalState /\ PayloadOk(moved)
  BY <1>1, <1>3, <1>4, AdvanceRoundType, BlocksUnchanged, SamePayload
<1> HIDE DEF moved, tc
<1>6. PayloadOk(after)
  BY <1>5, BlocksUnchanged, SamePayload
<1> HIDE DEF after
<1>7. \/ core' = [core EXCEPT ![n] = caughtUp]
      \/ core' = [core EXCEPT ![n] = added]
      \/ core' = [core EXCEPT ![n] = after]
  BY DEF HandleTimeout, caughtUp, added, moved, tc, after
<1> QED
  BY <1>2, <1>4, <1>6, <1>7, PayloadUpdate

LEMMA StepPayload ==
  ASSUME PayloadInv, NEW n \in Node, Step(n)
  PROVE  \A m \in Node : PayloadOk(core'[m])
<1> DEFINE s == core[n]
<1>1. s \in LocalState /\ Closed(s) /\ PayloadOk(s) /\ TypeInv
  BY LocalFacts DEF PayloadInv
<1>2. ASSUME NEW b \in proposals, ReceiveProposal(n, b)
      PROVE  \A m \in Node : PayloadOk(core'[m])
  <2> DEFINE c == CatchUp(s, b)
             missing == b.payload \ c.batches
             w == [block |-> b, missing |-> missing]
             x == [c EXCEPT !.pending = @ \cup {w}]
  <2>1. b \in Block
    BY <1>1 DEF TypeInv, TypeOK
  <2>2. c \in LocalState /\ Closed(c) /\ PayloadOk(c)
    BY <1>1, <2>1, CatchUpType, StoreUnchanged, ClosedByStore, BlocksUnchanged, SamePayload
  <2>3. \/ core' = [core EXCEPT ![n] = c]
        \/ core' = [core EXCEPT ![n] = x]
        \/ missing = {} /\ ProcessBlock(n, c, b)
    BY <1>2 DEF ReceiveProposal
  <2> HIDE DEF c
  <2>4. PayloadOk(x)
    <3>1. /\ x.store = c.store /\ x.batches = c.batches /\ x.loopback = c.loopback
          /\ x.suspended = c.suspended
          /\ x.pending = c.pending \cup {w} /\ x.cancelled = c.cancelled
      BY <2>2 DEF LocalState
    <3>2. w.block.payload \subseteq w.missing \cup c.batches
      OBVIOUS
    <3> HIDE DEF x, w
    <3> QED
      BY <2>2, <3>1, <3>2 DEF PayloadOk
  <2>5. missing = {} => b.payload \subseteq c.batches
    OBVIOUS
  <2> HIDE DEF x, missing
  <2> QED
    BY <2>1, <2>2, <2>3, <2>4, <2>5, PayloadUpdate, ProcessPayload
<1>3. ASSUME NEW m \in voteMsgs, ReceiveVote(n, m)
      PROVE  \A k \in Node : PayloadOk(core'[k])
  <2>1. core' = [core EXCEPT ![n] = HandleVote(n, s, m.vote)]
    BY <1>3 DEF ReceiveVote
  <2>2. SameBlocks(s, HandleVote(n, s, m.vote))
    BY <1>1, BlocksUnchanged
  <2>3. PayloadOk(HandleVote(n, s, m.vote))
    BY <1>1, <2>2, SamePayload
  <2> QED
    BY <2>1, <2>3, PayloadUpdate
<1>4. ASSUME NEW t \in timeoutMsgs, ReceiveTimeout(n, t)
      PROVE  \A m \in Node : PayloadOk(core'[m])
  <2>1. t \in Timeout /\ HandleTimeout(n, s, t)
    BY <1>1, <1>4 DEF TypeInv, TypeOK, ReceiveTimeout
  <2> QED
    BY <1>1, <2>1, TimeoutPayload
<1>5. ASSUME NEW tc \in tcMsgs, ReceiveTC(n, tc)
      PROVE  \A m \in Node : PayloadOk(core'[m])
  <2> DEFINE a == AdvanceRound(s, tc.round)
  <2>1. tc.round \in Nat
    BY <1>1 DEF TypeInv, TypeOK, TC
  <2>2. a \in LocalState /\ PayloadOk(a)
    BY <1>1, <2>1, AdvanceRoundType, BlocksUnchanged, SamePayload
  <2>3. core' = [core EXCEPT ![n] = GenerateProposalIfLeader(n, a, tc)]
    BY <1>5 DEF ReceiveTC
  <2> HIDE DEF a
  <2> QED
    BY <2>2, <2>3, BlocksUnchanged, SamePayload, PayloadUpdate
<1>6. ASSUME NEW b \in s.loopback, ReceiveLoopback(n, b)
      PROVE  \A m \in Node : PayloadOk(core'[m])
  <2> DEFINE x == [s EXCEPT !.loopback = @ \ {b}]
  <2>1. ProcessBlock(n, x, b)
    BY <1>6 DEF ReceiveLoopback
  <2>2. x \in LocalState /\ b \in Block
    BY <1>1 DEF LocalState
  <2>3. /\ x.store = s.store /\ x.batches = s.batches /\ x.suspended = s.suspended
        /\ x.loopback = s.loopback \ {b}
        /\ x.pending = s.pending /\ x.cancelled = s.cancelled
    BY <1>1 DEF LocalState
  <2> HIDE DEF x, s
  <2>4. Closed(x)
    BY <1>1, <2>3, ClosedByStore
  <2>5. PayloadOk(x) /\ b.payload \subseteq x.batches
    BY <1>1, <2>3 DEF PayloadOk
  <2> QED
    BY <2>1, <2>2, <2>4, <2>5, ProcessPayload
<1>7. ASSUME LocalTimeout(n)
      PROVE  \A m \in Node : PayloadOk(core'[m])
  <2> DEFINE x == IncreaseLastVotedRound(s, s.round)
             t == [highQC |-> x.highQC, round |-> x.round, author |-> n]
  <2>1. s.round \in Nat
    BY <1>1 DEF LocalState
  <2>2. x \in LocalState /\ PayloadOk(x)
    BY <1>1, <2>1, IncreaseLastVotedType, BlocksUnchanged, SamePayload
  <2>3. t \in Timeout
    BY <2>2 DEF LocalState, Timeout
  <2>4. HandleTimeout(n, x, t)
    BY <1>7 DEF LocalTimeout
  <2> HIDE DEF x, t
  <2> QED
    BY <2>2, <2>3, <2>4, TimeoutPayload
<1>8. ASSUME Propose(n)
      PROVE  \A m \in Node : PayloadOk(core'[m])
  <2>1. PICK m \in s.makes, payload \in SUBSET s.batches :
          core' = [core EXCEPT ![n].makes = @ \ {m}, ![n].loopback = @ \cup
                     {[author |-> n, round |-> m.round, payload |-> payload,
                       qc |-> m.qc, tc |-> m.tc]}]
    BY <1>8 DEF Propose
  <2> DEFINE b == [author |-> n, round |-> m.round, payload |-> payload,
                   qc |-> m.qc, tc |-> m.tc]
             x == [s EXCEPT !.makes = @ \ {m}, !.loopback = @ \cup {b}]
  <2>2. core' = [core EXCEPT ![n] = x]
    BY <1>1, <2>1 DEF TypeInv, TypeOK
  <2>3. b.payload \subseteq s.batches
    OBVIOUS
  <2> HIDE DEF b
  <2>4. /\ x.store = s.store /\ x.batches = s.batches /\ x.suspended = s.suspended
        /\ x.loopback = s.loopback \cup {b}
        /\ x.pending = s.pending /\ x.cancelled = s.cancelled
    BY <1>1 DEF LocalState
  <2> HIDE DEF x, s
  <2>5. PayloadOk(x)
    BY <1>1, <2>3, <2>4 DEF PayloadOk
  <2> QED
    BY <2>2, <2>5, PayloadUpdate
<1>9. ASSUME NEW b \in s.suspended, ResumeBlock(n, b)
      PROVE  \A m \in Node : PayloadOk(core'[m])
  <2> DEFINE x == [s EXCEPT !.suspended = @ \ {b}, !.loopback = @ \cup {b}]
  <2>1. core' = [core EXCEPT ![n] = x]
    BY <1>1, <1>9 DEF ResumeBlock, TypeInv, TypeOK
  <2>2. /\ x.store = s.store /\ x.batches = s.batches
        /\ x.suspended = s.suspended \ {b} /\ x.loopback = s.loopback \cup {b}
        /\ x.pending = s.pending /\ x.cancelled = s.cancelled
    BY <1>1 DEF LocalState
  <2> HIDE DEF x, s
  <2>3. PayloadOk(x)
    BY <1>1, <2>2 DEF PayloadOk
  <2> QED
    BY <2>1, <2>3, PayloadUpdate
<1>10. ASSUME NEW w \in s.pending \cup s.cancelled, DeliverPayload(n, w)
       PROVE  \A m \in Node : PayloadOk(core'[m])
  <2> DEFINE rest == {x \in s.pending : BlockDigest(x.block) # BlockDigest(w.block)}
             x == [s EXCEPT !.pending = rest, !.cancelled = @ \ {w},
                            !.loopback = @ \cup {w.block}]
  <2>1. core' = [core EXCEPT ![n] = x] /\ \E d \in s.batches : w.missing = {d}
    BY <1>1, <1>10 DEF DeliverPayload, TypeInv, TypeOK
  <2>2. rest \subseteq s.pending
    OBVIOUS
  <2> HIDE DEF rest
  <2>3. /\ x.store = s.store /\ x.batches = s.batches /\ x.suspended = s.suspended
        /\ x.loopback = s.loopback \cup {w.block}
        /\ x.pending = rest /\ x.cancelled = s.cancelled \ {w}
    BY <1>1 DEF LocalState
  <2> HIDE DEF x, s
  <2>4. w.block.payload \subseteq s.batches
    BY <1>1, <2>1 DEF PayloadOk
  <2>5. PayloadOk(x)
    BY <1>1, <2>2, <2>3, <2>4 DEF PayloadOk
  <2> QED
    BY <2>1, <2>5, PayloadUpdate
<1>11. ASSUME NEW d \in Batch, StoreBatch(n, d)
       PROVE  \A m \in Node : PayloadOk(core'[m])
  <2> DEFINE x == [s EXCEPT !.batches = @ \cup {d}]
  <2>1. core' = [core EXCEPT ![n] = x]
    BY <1>1, <1>11 DEF StoreBatch, TypeInv, TypeOK
  <2>2. /\ x.store = s.store /\ x.batches = s.batches \cup {d}
        /\ x.suspended = s.suspended /\ x.loopback = s.loopback
        /\ x.pending = s.pending /\ x.cancelled = s.cancelled
    BY <1>1 DEF LocalState
  <2> HIDE DEF x, s
  <2>3. PayloadOk(x)
    BY <1>1, <2>2 DEF PayloadOk
  <2> QED
    BY <2>1, <2>3, PayloadUpdate
<1> QED
  BY <1>2, <1>3, <1>4, <1>5, <1>6, <1>7, <1>8, <1>9, <1>10, <1>11 DEF Step

\* processBlock: handleProposal, the payload waiter and the replica's own proposer
\* let a block through to the store, and so to a vote, only with all its batches.
THEOREM PayloadsStored == Spec => []StoredBlocksHavePayload
<1>1. Init => PayloadInv
  <2> SUFFICES ASSUME Init PROVE PayloadInv
    OBVIOUS
  <2>1. \A n \in Node : PayloadOk(core[n])
    BY DEF Init, InitialState, PayloadOk
  <2> QED
    BY <2>1, InitTypeInv DEF PayloadInv
<1>2. PayloadInv /\ [Next]_vars => PayloadInv'
  <2> SUFFICES ASSUME PayloadInv, [Next]_vars PROVE PayloadInv'
    OBVIOUS
  <2>1. TypeInv'
    BY NextTypeInv DEF PayloadInv
  <2>2. CASE UNCHANGED vars
    BY <2>1, <2>2 DEF vars, PayloadInv
  <2>3. CASE Next
    BY <2>1, <2>3, StepPayload DEF Next, PayloadInv
  <2> QED
    BY <2>2, <2>3
<1>3. PayloadInv => StoredBlocksHavePayload
  BY DEF PayloadInv, PayloadOk, StoredBlocksHavePayload
<1> QED
  BY <1>1, <1>2, <1>3, PTL DEF Spec
-----------------------------------------------------------------------------
(* Payloads and restarts: a batch is written before the blocks that name it.   *)

\* The blocks of a database have their payloads in it.
Complete(d) == \A b \in d.store : b.payload \subseteq d.batches

FaultPayloadInv ==
  /\ FaultInv
  /\ PayloadInv
  /\ \A n \in Node : \A d \in images[n] : Complete(d)

LEMMA FaultyStepKeepsPayloads ==
  ASSUME FaultPayloadInv, NEW n \in Node, FaultyStep(n)
  PROVE  FaultPayloadInv'
<1>1. FaultInv'
  BY FaultyStepKeepsImages DEF FaultPayloadInv
<1>2. PayloadInv'
  BY <1>1, FaultyStepIsStep, StepPayload DEF FaultPayloadInv, FaultInv, PayloadInv
<1>3. ASSUME NEW m \in Node
      PROVE  Complete(Database(core[m])) /\ Complete(Database(core'[m]))
  BY <1>2 DEF FaultPayloadInv, PayloadInv, PayloadOk, Complete, Database
<1>4. ASSUME NEW m \in Node, NEW d \in images'[m]
      PROVE  Complete(d)
  BY <1>3, ImagesOfStep DEF FaultPayloadInv
<1> QED
  BY <1>1, <1>2, <1>4 DEF FaultPayloadInv

LEMMA RestartKeepsPayloads ==
  ASSUME FaultPayloadInv, NEW n \in Node, Restart(n)
  PROVE  FaultPayloadInv'
<1>1. FaultInv'
  BY RestartKeepsImages DEF FaultPayloadInv
<1>2. PICK d \in images[n] :
        /\ core' = [core EXCEPT ![n] = [InitialState(n) EXCEPT
                      !.store = d.store, !.batches = d.batches]]
        /\ images' = [images EXCEPT ![n] = {d}]
  BY DEF Restart
<1> DEFINE s == [InitialState(n) EXCEPT !.store = d.store, !.batches = d.batches]
<1>3. /\ s.store = d.store /\ s.batches = d.batches
      /\ s.loopback = {} /\ s.suspended = {} /\ s.pending = {} /\ s.cancelled = {}
  BY DEF InitialState
<1>4. core' = [core EXCEPT ![n] = s]
  BY <1>2
<1> HIDE DEF s
<1>5. Complete(d)
  BY DEF FaultPayloadInv
<1>6. PayloadOk(s)
  BY <1>3, <1>5 DEF PayloadOk, Complete
<1>7. PayloadInv'
  BY <1>1, <1>4, <1>6, PayloadUpdate DEF FaultPayloadInv, FaultInv, PayloadInv
<1>8. ASSUME NEW m \in Node, NEW x \in images'[m]
      PROVE  Complete(x)
  BY <1>2, <1>5 DEF FaultPayloadInv, FaultInv
<1> QED
  BY <1>1, <1>7, <1>8 DEF FaultPayloadInv

\* Whatever a kill leaves of what was written to the store, at any time and after any
\* restarts, is closed: a block is in it only with its parent and its payload, because
\* the mempool stores a batch before it names it, processBlock reads the parent and the
\* writes are served in order (store.go, processor.go, NewNode).  So a replica that
\* starts again can serve what it stored.
THEOREM RestartsKeepPayloads == FaultSpec => [](SurvivorsClosed /\ StoredBlocksHavePayload)
<1>1. FaultInit => FaultPayloadInv
  <2> SUFFICES ASSUME FaultInit PROVE FaultPayloadInv
    OBVIOUS
  <2>1. TypeInv
    BY InitTypeInv DEF FaultInit
  <2>2. FaultInv
    BY <2>1, NothingStored DEF FaultInit, FaultInv
  <2>3. \A n \in Node : PayloadOk(core[n])
    BY DEF FaultInit, Init, InitialState, PayloadOk
  <2> QED
    BY <2>1, <2>2, <2>3 DEF FaultInit, FaultPayloadInv, PayloadInv, Complete
<1>2. FaultPayloadInv /\ [FaultNext]_faultVars => FaultPayloadInv'
  <2> SUFFICES ASSUME FaultPayloadInv, [FaultNext]_faultVars PROVE FaultPayloadInv'
    OBVIOUS
  <2>1. CASE UNCHANGED faultVars
    <3>1. TypeInv'
      BY <2>1, NextTypeInv DEF faultVars, FaultPayloadInv, FaultInv
    <3> QED
      BY <2>1, <3>1 DEF faultVars, vars, FaultPayloadInv, FaultInv, PayloadInv
  <2>2. CASE FaultNext
    BY <2>2, FaultyStepKeepsPayloads, RestartKeepsPayloads DEF FaultNext
  <2> QED
    BY <2>1, <2>2
<1>3. FaultPayloadInv => SurvivorsClosed /\ StoredBlocksHavePayload
  BY DEF FaultPayloadInv, FaultInv, Closed, Complete, SurvivorsClosed,
         PayloadInv, PayloadOk, StoredBlocksHavePayload
<1> QED
  BY <1>1, <1>2, <1>3, PTL DEF FaultSpec
-----------------------------------------------------------------------------
(* One certificate for a quorum.                                             *)

Fresh == [maker |-> NewMaker, made |-> <<>>]

\* The function that the fold behind Made recurs on.
IsFed(items, w) ==
  w = [s \in SUBSET DOMAIN items |-> IF s = {} THEN Fresh
                                     ELSE Feed(w[s \ {Max(s)}], items[Max(s)])]

LEMMA GreatestPlace ==
  ASSUME NEW n \in Nat, NEW s \in SUBSET (1 .. n), s # {}
  PROVE  Max(s) \in s /\ \A i \in s : i <= Max(s)
<1>1. IsFiniteSet(s)
  <2>1. IsFiniteSet(1 .. n)
    BY FS_Interval
  <2> QED
    BY <2>1, FS_Subset
<1>2. \E x \in s : \A y \in s : y <= x
  <2>1. s \subseteq Int
    OBVIOUS
  <2> QED
    BY <1>1, <2>1, GreatestElement
<1>3. \E x \in s : \A y \in s : x >= y
  BY <1>2
<1>4. Max(s) \in s /\ \A y \in s : Max(s) >= y
  BY <1>3 DEF Max
<1> QED
  BY <1>4

LEMMA FedDefined ==
  ASSUME NEW items, NEW n \in Nat, DOMAIN items = 1 .. n
  PROVE  \E w : IsFed(items, w)
<1> DEFINE D == 1 .. n
           Low(k) == {s \in SUBSET D : Cardinality(s) <= k}
           Upto(k, w) == w = [s \in Low(k) |-> IF s = {} THEN Fresh
                                               ELSE Feed(w[s \ {Max(s)}], items[Max(s)])]
           bad == {k \in Nat : ~\E w : Upto(k, w)}
<1>0. IsFiniteSet(D)
  BY FS_Interval
<1>1. \A s \in SUBSET D : IsFiniteSet(s) /\ Cardinality(s) \in Nat
  BY <1>0, FS_Subset, FS_CardinalityType
<1>2. bad = {}
  <2> SUFFICES ASSUME bad # {} PROVE FALSE
    OBVIOUS
  <2>1. PICK k \in bad : \A j \in bad : k <= j
    <3>1. bad \subseteq Nat
      OBVIOUS
    <3> HIDE DEF bad
    <3> QED
      BY <3>1, LeastElement
  <2>2. CASE k = 0
    <3> DEFINE w == [s \in Low(0) |-> Fresh]
    <3>1. \A s \in Low(0) : s = {}
      BY <1>1, FS_EmptySet
    <3>2. Upto(0, w)
      BY <3>1
    <3> QED
      BY <2>1, <2>2, <3>2
  <2>3. CASE k # 0
    <3>1. k \in Nat /\ k - 1 \in Nat /\ ~(k <= k - 1)
      BY <2>1, <2>3
    <3>2. PICK v : Upto(k - 1, v)
      BY <2>1, <3>1
    <3> DEFINE u == [s \in Low(k) |-> IF s = {} THEN Fresh
                                      ELSE Feed(v[s \ {Max(s)}], items[Max(s)])]
    <3>3. ASSUME NEW s \in Low(k), s # {}
          PROVE  v[s \ {Max(s)}] = u[s \ {Max(s)}]
      <4> DEFINE t == s \ {Max(s)}
      <4>1. Max(s) \in s
        BY <3>3, GreatestPlace
      <4>2. Cardinality(t) = Cardinality(s) - 1 /\ Cardinality(s) \in Nat /\ Cardinality(s) <= k
        BY <1>1, <4>1, FS_RemoveElement
      <4>3. t \in SUBSET D
        OBVIOUS
      <4>4. t \in Low(k - 1) /\ t \in Low(k)
        BY <3>1, <4>2, <4>3
      <4> HIDE DEF t
      <4>5. v[t] = IF t = {} THEN Fresh ELSE Feed(v[t \ {Max(t)}], items[Max(t)])
        BY <3>2, <4>4
      <4>6. u[t] = IF t = {} THEN Fresh ELSE Feed(v[t \ {Max(t)}], items[Max(t)])
        BY <4>4
      <4> QED
        BY <4>5, <4>6 DEF t
    <3>4. Upto(k, u)
      BY <3>3
    <3> QED
      BY <2>1, <3>4
  <2> QED
    BY <2>2, <2>3
<1>3. Cardinality(D) \in Nat
  BY <1>0, FS_CardinalityType
<1>4. PICK w : Upto(Cardinality(D), w)
  BY <1>2, <1>3
<1>5. Low(Cardinality(D)) = SUBSET D
  BY <1>0, FS_Subset
<1> QED
  BY <1>4, <1>5 DEF IsFed

\* The states of the maker while it is fed: at the start, and after each item.
LEMMA FedOneByOne ==
  ASSUME NEW items, NEW n \in Nat, DOMAIN items = 1 .. n
  PROVE  \E w : /\ w[1 .. 0] = Fresh
                /\ \A i \in 1 .. n : w[1 .. i] = Feed(w[1 .. (i - 1)], items[i])
                /\ Made(items) = w[1 .. n].made
<1> DEFINE w == CHOOSE w : IsFed(items, w)
<1>1. IsFed(items, w)
  BY FedDefined
<1>2. Made(items) = w[1 .. n].made
  BY DEF Made, FoldLeft, MapThenFoldSet, IsFed, Fresh
<1> HIDE DEF w
<1>3. w[1 .. 0] = Fresh
  <2>1. 1 .. 0 = {}
    OBVIOUS
  <2> QED
    BY <1>1, <2>1 DEF IsFed
<1>4. ASSUME NEW i \in 1 .. n
      PROVE  w[1 .. i] = Feed(w[1 .. (i - 1)], items[i])
  <2>1. PICK s : s = 1 .. i
    OBVIOUS
  <2>2. s \in SUBSET (1 .. n) /\ i \in s /\ s # {}
    BY <2>1
  <2>3. Max(s) \in s /\ \A j \in s : j <= Max(s)
    BY <2>2, GreatestPlace
  <2>4. Max(s) = i
    BY <2>1, <2>2, <2>3
  <2>5. s \ {i} = 1 .. (i - 1)
    BY <2>1
  <2>6. w[s] = IF s = {} THEN Fresh ELSE Feed(w[s \ {Max(s)}], items[Max(s)])
    BY <1>1, <2>2 DEF IsFed
  <2> QED
    BY <2>1, <2>2, <2>4, <2>5, <2>6
<1> QED
  BY <1>2, <1>3, <1>4

\* The authors of the first k items, and what a maker has made of their items: one
\* certificate at the latest item that they needed to be a quorum, none before.  What
\* the maker has counted since then is not enough for another.
AuthorsUpto(items, k) == {items[j].author : j \in 1 .. k}
Counted(state, authors) ==
  /\ state = [maker |-> state.maker, made |-> state.made]
  /\ state.maker.used = authors
  /\ state.maker.weight \in Nat
  /\ ~IsQuorum(authors) => state.made = <<>> /\ state.maker.weight = Weight[authors]
  /\ IsQuorum(authors) => /\ \E c : state.made = <<c>>
                         /\ state.maker.weight + QuorumThreshold <= Weight[authors]

LEMMA NothingCounted == Counted(Fresh, {})
<1>1. ~IsQuorum({}) /\ Weight[{}] = 0
  BY WeightLaws, ThresholdBounds DEF IsQuorum
<1> QED
  BY <1>1 DEF Counted, Fresh, NewMaker

\* The arithmetic: the stake that is left when a quorum is taken away is no quorum.
LEMMA FeedCounts ==
  ASSUME NEW A \in SUBSET Node, NEW item, item.author \in Node, NEW state, Counted(state, A)
  PROVE  Counted(Feed(state, item), A \cup {item.author})
<1> DEFINE a == item.author
           B == A \cup {a}
           maker == state.maker
           counted == Count(maker, item)
<1>1. /\ Weight[A] \in Nat /\ Weight[B] \in Nat /\ Weight[A] <= Weight[B]
      /\ Weight[B] <= TotalStake
  <2>1. B \in SUBSET Node /\ A \subseteq B /\ Node \in SUBSET Node /\ B \subseteq Node
    OBVIOUS
  <2> HIDE DEF B
  <2> QED
    BY <2>1, WeightLaws DEF TotalStake
<1>2. /\ QuorumThreshold \in Nat /\ TotalStake \in Nat /\ StakeModulus \in Nat \ {0}
      /\ 3 * QuorumThreshold > 2 * TotalStake
      /\ 2 * TotalStake < StakeModulus
  BY ThresholdBounds, NoOverflow, StakeAssumption
<1>3. PICK q \in Nat, t \in Nat, m \in Nat \ {0}, x \in Nat, y \in Nat, w \in Nat :
         /\ q = QuorumThreshold /\ t = TotalStake /\ m = StakeModulus
         /\ x = Weight[A] /\ y = Weight[B] /\ w = maker.weight
  BY <1>1, <1>2 DEF Counted
<1>4. 3 * q > 2 * t /\ 2 * t < m /\ x <= y /\ y <= t /\ q > 0
  BY <1>1, <1>2, <1>3
<1>5. /\ ~(x >= q) => state.made = <<>> /\ w = x
      /\ x >= q => (\E c : state.made = <<c>>) /\ w + q <= x
  BY <1>3 DEF Counted, IsQuorum
<1>6. w <= t /\ ~(w >= q)
  BY <1>4, <1>5
<1>7. maker.used = A /\ state = [maker |-> state.maker, made |-> state.made]
  BY DEF Counted
<1>8. CASE a \in A
  <2>1. counted = maker /\ B = A
    BY <1>7, <1>8 DEF Count
  <2>2. ~IsComplete(counted)
    BY <1>3, <1>6, <2>1 DEF IsComplete
  <2>3. Feed(state, item) = [state EXCEPT !.maker = maker]
    BY <2>1, <2>2 DEF Feed
  <2>4. Feed(state, item) = state
    BY <1>7, <2>3
  <2> QED
    BY <2>1, <2>4
<1>9. CASE a \notin A
  <2>1. PICK s \in Nat : s = Stake[a] /\ y = x + s
    <3>1. {a} \in SUBSET Node /\ A \cap {a} = {}
      BY <1>9
    <3>2. Weight[A \cup {a}] + Weight[A \cap {a}] = Weight[A] + Weight[{a}]
      BY <3>1, WeightLaws
    <3>3. Weight[A \cap {a}] = 0 /\ Weight[{a}] = Stake[a] /\ Stake[a] \in Nat
      BY <3>1, WeightLaws, StakeAssumption
    <3> QED
      BY <1>1, <1>3, <3>2, <3>3
  <2>2. w + s <= y /\ w + s < m
    BY <1>4, <1>5, <2>1
  <2>3. (w + s) % m = w + s
    BY <2>2
  <2>4. /\ counted.weight = w + s /\ counted.used = B
        /\ counted = [weight |-> counted.weight, entries |-> counted.entries,
                      used |-> counted.used, aggregateSig |-> counted.aggregateSig]
    BY <1>3, <1>7, <1>9, <2>1, <2>3 DEF Count
  <2>5. CASE y >= q /\ ~(x >= q)
    <3>1. w + s = y
      BY <1>5, <2>1, <2>5
    <3>2. IsComplete(counted)
      BY <1>3, <2>4, <2>5, <3>1 DEF IsComplete
    <3>3. PICK c : c = [entries |-> counted.entries, signature |-> counted.aggregateSig]
      OBVIOUS
    <3>6. Feed(state, item) = [maker |-> ResetWeight(counted), made |-> Append(state.made, c)]
      BY <3>2, <3>3 DEF Feed
    <3>7. Append(state.made, c) = <<c>>
      <4>1. state.made = <<>>
        BY <1>5, <2>5
      <4>2. Append(<<>>, c) = <<c>>
        OBVIOUS
      <4> QED
        BY <4>1, <4>2
    <3>4. ResetWeight(counted).used = B /\ ResetWeight(counted).weight = 0
      <4> HIDE DEF counted, B
      <4> QED
        BY <2>4 DEF ResetWeight
    <3> QED
      BY <1>3, <2>5, <3>4, <3>6, <3>7 DEF Counted, IsQuorum
  <2>6. CASE ~(y >= q) \/ x >= q
    <3>1. ~(w + s >= q)
      BY <1>4, <1>5, <2>1, <2>2, <2>6
    <3>2. ~IsComplete(counted)
      BY <1>3, <2>4, <3>1 DEF IsComplete
    <3>3. Feed(state, item) = [maker |-> counted, made |-> state.made]
      BY <1>7, <3>2 DEF Feed
    <3>4. x >= q => y >= q /\ w + s + q <= y
      BY <1>4, <1>5, <2>1
    <3>5. ~(y >= q) => ~(x >= q) /\ w + s = y
      BY <1>4, <1>5, <2>1
    <3> QED
      BY <1>3, <1>5, <2>4, <2>6, <3>3, <3>4, <3>5 DEF Counted, IsQuorum
  <2> QED
    BY <2>5, <2>6
<1> QED
  BY <1>8, <1>9

\* Whatever is fed, and in whatever order.
LEMMA OneMade ==
  ASSUME NEW items, NEW n \in Nat, DOMAIN items = 1 .. n,
         \A i \in 1 .. n : items[i].author \in Node
  PROVE  Len(Made(items)) = IF IsQuorum(AuthorsUpto(items, n)) THEN 1 ELSE 0
<1>1. PICK w : /\ w[1 .. 0] = Fresh
               /\ \A i \in 1 .. n : w[1 .. i] = Feed(w[1 .. (i - 1)], items[i])
               /\ Made(items) = w[1 .. n].made
  BY FedOneByOne
<1> DEFINE bad == {k \in 0 .. n : ~Counted(w[1 .. k], AuthorsUpto(items, k))}
<1>2. bad = {}
  <2> SUFFICES ASSUME bad # {} PROVE FALSE
    OBVIOUS
  <2>1. PICK k \in bad : \A j \in bad : k <= j
    <3>1. bad \subseteq Nat
      OBVIOUS
    <3> HIDE DEF bad
    <3> QED
      BY <3>1, LeastElement
  <2>2. CASE k = 0
    <3>1. AuthorsUpto(items, 0) = {}
      BY DEF AuthorsUpto
    <3> QED
      BY <1>1, <2>1, <2>2, <3>1, NothingCounted
  <2>3. CASE k # 0
    <3>1. k \in 1 .. n /\ k - 1 \in 0 .. n /\ ~(k <= k - 1)
      BY <2>3
    <3>2. PICK A, state : A = AuthorsUpto(items, k - 1) /\ state = w[1 .. (k - 1)]
      OBVIOUS
    <3>3. Counted(state, A)
      BY <2>1, <3>1, <3>2
    <3>4. A \in SUBSET Node /\ items[k].author \in Node
      BY <3>1, <3>2 DEF AuthorsUpto
    <3>5. AuthorsUpto(items, k) = A \cup {items[k].author}
      BY <3>1, <3>2 DEF AuthorsUpto
    <3>6. w[1 .. k] = Feed(state, items[k])
      BY <1>1, <3>1, <3>2
    <3>7. Counted(w[1 .. k], AuthorsUpto(items, k))
      BY <3>3, <3>4, <3>5, <3>6, FeedCounts
    <3> QED
      BY <2>1, <3>7
  <2> QED
    BY <2>2, <2>3
<1>3. Counted(w[1 .. n], AuthorsUpto(items, n))
  BY <1>2
<1>4. /\ ~IsQuorum(AuthorsUpto(items, n)) => Made(items) = <<>>
      /\ IsQuorum(AuthorsUpto(items, n)) => \E c : Made(items) = <<c>>
  BY <1>1, <1>3 DEF Counted
<1> QED
  BY <1>4

\* An order of a set names all of it, and each item is fed twice.
LEMMA OrderFeedsAll ==
  ASSUME NEW items, IsFiniteSet(items), NEW order \in Orders(items)
  PROVE  \E n \in Nat : DOMAIN order = 1 .. n /\ {order[i] : i \in 1 .. n} = items
<1>1. PICK k \in Nat : k = Cardinality(items)
  BY FS_CardinalityType
<1>2. PICK o : o \in SetToSeqs(items) /\ order = o \o o
  BY DEF Orders
<1>3. o \in [1 .. k -> items] /\ \A i, j \in 1 .. k : i # j => o[i] # o[j]
  BY <1>1, <1>2 DEF SetToSeqs
<1>4. {o[i] : i \in 1 .. k} = items
  <2>1. o \in Injection(1 .. k, items)
    BY <1>3 DEF Injection, IsInjective
  <2>2. Cardinality(1 .. k) = k
    BY FS_Interval
  <2>3. o \in Surjection(1 .. k, items)
    BY <1>1, <2>1, <2>2, FS_Injection
  <2> QED
    BY <1>3, <2>3 DEF Surjection
<1>5. o \in Seq(items) /\ Len(o) = k
  BY <1>3
<1>6. order \in Seq(items) /\ Len(order) = k + k
  BY <1>2, <1>5, ConcatProperties
<1>7. \A i \in 1 .. k : order[i] = o[i]
  BY <1>2, <1>5, ConcatProperties
<1>8. {order[i] : i \in 1 .. (k + k)} = items
  <2>1. \A i \in 1 .. (k + k) : order[i] \in items
    BY <1>6
  <2>2. \A i \in 1 .. k : i \in 1 .. (k + k)
    OBVIOUS
  <2> QED
    BY <1>4, <1>7, <2>1, <2>2
<1> QED
  BY <1>6, <1>8

LEMMA OrdersMakeOne ==
  ASSUME NEW items, IsFiniteSet(items), \A x \in items : x.author \in Node,
         NEW order \in Orders(items)
  PROVE  Len(Made(order)) = IF IsQuorum({x.author : x \in items}) THEN 1 ELSE 0
<1>1. PICK n \in Nat : DOMAIN order = 1 .. n /\ {order[i] : i \in 1 .. n} = items
  BY OrderFeedsAll
<1>2. AuthorsUpto(order, n) = {x.author : x \in items}
  BY <1>1 DEF AuthorsUpto
<1>3. \A i \in 1 .. n : order[i].author \in Node
  BY <1>1
<1> QED
  BY <1>1, <1>2, <1>3, OneMade

\* Each replica has a vote for a block, and sends finitely many timeouts.
LEMMA ItemsFinite ==
  ASSUME TypeOK, IsFiniteSet(timeoutMsgs)
  PROVE  /\ \A hash, r : /\ IsFiniteSet(VoteItems(hash, r))
                         /\ \A x \in VoteItems(hash, r) : x.author \in Node
         /\ \A r : /\ IsFiniteSet(TimeoutItems(r))
                   /\ \A x \in TimeoutItems(r) : x.author \in Node
<1>1. ASSUME NEW hash, NEW r
      PROVE  /\ IsFiniteSet(VoteItems(hash, r))
             /\ \A x \in VoteItems(hash, r) : x.author \in Node
  <2> DEFINE item(n) == [author |-> n, entry |-> n,
                         signature |-> Sign(VoteDigest(hash, r), n)]
             every == {item(n) : n \in Node}
             f == [n \in Node |-> item(n)]
  <2>1. VoteItems(hash, r) \subseteq every
    BY DEF TypeOK, VoteItems, VoteItem, Vote
  <2>2. f \in Surjection(Node, every)
    BY DEF Surjection
  <2>3. IsFiniteSet(every)
    BY <2>2, FS_Surjection, StakeAssumption
  <2> QED
    BY <2>1, <2>3, FS_Subset
<1>2. ASSUME NEW r
      PROVE  /\ IsFiniteSet(TimeoutItems(r))
             /\ \A x \in TimeoutItems(r) : x.author \in Node
  <2> DEFINE of == {t \in timeoutMsgs : t.round = r}
             f == [t \in of |-> TimeoutItem(t)]
  <2>1. IsFiniteSet(of)
    BY FS_Subset
  <2>2. f \in Surjection(of, TimeoutItems(r))
    BY DEF Surjection, TimeoutItems
  <2>3. IsFiniteSet(TimeoutItems(r))
    BY <2>1, <2>2, FS_Surjection
  <2>4. \A x \in TimeoutItems(r) : x.author \in Node
    BY DEF TypeOK, TimeoutItems, TimeoutItem, Timeout
  <2> QED
    BY <2>3, <2>4
<1> QED
  BY <1>1, <1>2

\* A step broadcasts one timeout at most.
LEMMA TimeoutsStayFinite ==
  ASSUME IsFiniteSet(timeoutMsgs), [Next]_vars
  PROVE  IsFiniteSet(timeoutMsgs')
<1>1. timeoutMsgs' = timeoutMsgs \/ \E t : timeoutMsgs' = timeoutMsgs \cup {t}
  <2>1. CASE UNCHANGED vars
    BY <2>1 DEF vars
  <2>2. ASSUME NEW n \in Node, LocalTimeout(n)
        PROVE  \E t : timeoutMsgs' = timeoutMsgs \cup {t}
    BY <2>2 DEF LocalTimeout
  <2>3. ASSUME NEW n \in Node, Step(n), ~LocalTimeout(n)
        PROVE  timeoutMsgs' = timeoutMsgs
    BY <2>3 DEF Step, ReceiveProposal, ReceiveVote, ReceiveTimeout, ReceiveTC,
                ReceiveLoopback, Propose, ResumeBlock, DeliverPayload, StoreBatch
  <2> QED
    BY <2>1, <2>2, <2>3 DEF Next
<1> QED
  BY <1>1, FS_AddElement

\* In whatever order votes and timeouts reach an aggregator, and however often, it returns
\* one certificate if their authors are a quorum and none otherwise (qcMaker.append,
\* tcMaker.append, QuorumThreshold).
THEOREM OneCertificate == Spec => []OneCertificateAtQuorum
<1>1. Init => IsFiniteSet(timeoutMsgs)
  BY FS_EmptySet DEF Init
<1>2. IsFiniteSet(timeoutMsgs) /\ [Next]_vars => IsFiniteSet(timeoutMsgs)'
  BY TimeoutsStayFinite
<1>3. TypeOK /\ IsFiniteSet(timeoutMsgs) => OneCertificateAtQuorum
  BY ItemsFinite, OrdersMakeOne DEF OneCertificateAtQuorum
<1> QED
  BY <1>1, <1>2, <1>3, TypeCorrect, PTL DEF Spec
-----------------------------------------------------------------------------
(* What a certificate holds.  An entry of a maker stands for one signature,  *)
(* which sig names: its signer and the digest.                               *)

\* Keys that differ and a signature of each: what a certificate has and Verify asks for.
SignedBy(entries, signature, sig) ==
  /\ entries \in Seq(Range(entries))
  /\ \A i, j \in DOMAIN entries :
       i # j => sig[entries[i]].signer # sig[entries[j]].signer
  /\ signature = SetToBag({sig[e] : e \in Range(entries)})

\* The item of an entry.
IsItem(item, sig) ==
  /\ item.author = sig[item.entry].signer
  /\ item.signature = SetToBag({sig[item.entry]})

Gathered(maker, sig, E) ==
  /\ maker = [weight |-> maker.weight, entries |-> maker.entries, used |-> maker.used,
              aggregateSig |-> maker.aggregateSig]
  /\ SignedBy(maker.entries, maker.aggregateSig, sig)
  /\ Range(maker.entries) = E
  /\ maker.used = {sig[e].signer : e \in E}

LEMMA BagGrows ==
  ASSUME NEW X, NEW y, y \notin X
  PROVE  SetToBag(X) (+) SetToBag({y}) = SetToBag(X \cup {y})
BY DEF SetToBag, (+)

LEMMA NothingGathered == \A sig : Gathered(NewMaker, sig, {})
<1> DEFINE none == <<>>
<1>1. none \in Seq({}) /\ DOMAIN none = {} /\ Range(none) = {}
  BY DEF Range
<1>2. EmptyBag = SetToBag({})
  BY DEF EmptyBag
<1> HIDE DEF none
<1>3. NewMaker = [weight |-> 0, entries |-> none, used |-> {}, aggregateSig |-> EmptyBag]
  BY DEF NewMaker, none
<1>4. ASSUME NEW sig
      PROVE  Gathered(NewMaker, sig, {})
  <2>1. SignedBy(none, EmptyBag, sig)
    BY <1>1, <1>2 DEF SignedBy
  <2> QED
    BY <1>1, <1>3, <2>1 DEF Gathered
<1> QED
  BY <1>4

\* An item of a new author is added, another one is left.
LEMMA CountGathers ==
  ASSUME NEW maker, NEW sig, NEW E, NEW item, Gathered(maker, sig, E), IsItem(item, sig)
  PROVE  Gathered(Count(maker, item), sig,
                  IF item.author \in maker.used THEN E ELSE E \cup {item.entry})
<1>1. CASE item.author \in maker.used
  BY <1>1 DEF Count
<1>2. CASE item.author \notin maker.used
  <2> DEFINE counted == Count(maker, item)
             e == item.entry
             G == E \cup {e}
  <2>1. PICK s : s = maker.entries
    OBVIOUS
  <2>2. s \in Seq(G) /\ e \in G /\ Range(s) = E
    BY <2>1 DEF Gathered, SignedBy
  <2>3. PICK t : t = Append(s, e)
    OBVIOUS
  <2>4. /\ t \in Seq(G) /\ Len(t) = Len(s) + 1 /\ Range(t) = G
        /\ \A i \in 1 .. Len(s) : t[i] = s[i]
        /\ t[Len(s) + 1] = e
    BY <2>2, <2>3, Appended, AppendPlaces
  <2>5. PICK k \in Nat : k = Len(s) /\ DOMAIN s = 1 .. k /\ DOMAIN t = 1 .. (k + 1)
    <3>1. Len(s) \in Nat /\ DOMAIN s = 1 .. Len(s)
      BY <2>2
    <3>2. DOMAIN t = 1 .. Len(t)
      BY <2>4
    <3> QED
      BY <2>4, <3>1, <3>2
  <2>6. \A d \in E : sig[d].signer # sig[e].signer
    BY <1>2 DEF Gathered, IsItem
  <2>7. ASSUME NEW i \in 1 .. (k + 1), NEW j \in 1 .. (k + 1), i # j
        PROVE  sig[t[i]].signer # sig[t[j]].signer
    <3>1. \A l \in 1 .. k : t[l] = s[l] /\ s[l] \in E
      BY <2>2, <2>4, <2>5 DEF Range
    <3>2. t[k + 1] = e
      BY <2>4, <2>5
    <3>3. CASE i \in 1 .. k /\ j \in 1 .. k
      BY <2>1, <2>5, <2>7, <3>1, <3>3 DEF Gathered, SignedBy
    <3>4. CASE i \in 1 .. k /\ j = k + 1
      BY <2>6, <3>1, <3>2, <3>4
    <3>5. CASE i = k + 1 /\ j \in 1 .. k
      BY <2>6, <3>1, <3>2, <3>5
    <3> QED
      BY <2>7, <3>3, <3>4, <3>5
  <2>8. maker.aggregateSig (+) item.signature = SetToBag({sig[d] : d \in G})
    <3>1. maker.aggregateSig = SetToBag({sig[d] : d \in E})
      BY DEF Gathered, SignedBy
    <3>2. sig[e] \notin {sig[d] : d \in E}
      BY <2>6
    <3>3. {sig[d] : d \in G} = {sig[d] : d \in E} \cup {sig[e]}
      OBVIOUS
    <3> QED
      BY <3>1, <3>2, <3>3, BagGrows DEF IsItem
  <2>9. /\ counted.entries = t /\ counted.used = maker.used \cup {item.author}
        /\ counted.aggregateSig = SetToBag({sig[d] : d \in G})
        /\ counted = [weight |-> counted.weight, entries |-> counted.entries,
                      used |-> counted.used, aggregateSig |-> counted.aggregateSig]
    BY <1>2, <2>1, <2>3, <2>8 DEF Count
  <2> HIDE DEF counted
  <2>10. SignedBy(counted.entries, counted.aggregateSig, sig)
    BY <2>4, <2>5, <2>7, <2>9 DEF SignedBy
  <2>11. counted.used = {sig[d].signer : d \in G}
    BY <2>9 DEF Gathered, IsItem
  <2> QED
    BY <1>2, <2>4, <2>9, <2>10, <2>11 DEF Gathered, counted
<1> QED
  BY <1>1, <1>2

\* The entries of the first k items that were added, and the item that made a quorum.
EntriesUpto(items, k) ==
  {items[j].entry : j \in {i \in 1 .. k : items[i].author \notin AuthorsUpto(items, i - 1)}}
QuorumAt(items, k) ==
  IsQuorum(AuthorsUpto(items, k)) /\ ~IsQuorum(AuthorsUpto(items, k - 1))

MadeAt(c, items, sig, k) ==
  /\ QuorumAt(items, k)
  /\ SignedBy(c.entries, c.signature, sig)
  /\ Range(c.entries) = EntriesUpto(items, k)
  /\ IsQuorum({sig[e].signer : e \in Range(c.entries)})

History(state, items, sig, k) ==
  /\ Counted(state, AuthorsUpto(items, k))
  /\ Gathered(state.maker, sig, EntriesUpto(items, k))
  /\ \A c : state.made = <<c>> => \E j \in 1 .. k : MadeAt(c, items, sig, j)

LEMMA HistoryStarts == \A items, sig : History(Fresh, items, sig, 0)
<1> SUFFICES ASSUME NEW items, NEW sig PROVE History(Fresh, items, sig, 0)
  OBVIOUS
<1>1. AuthorsUpto(items, 0) = {} /\ EntriesUpto(items, 0) = {}
  BY DEF AuthorsUpto, EntriesUpto
<1>2. Fresh.maker = NewMaker /\ Fresh.made = <<>>
  BY DEF Fresh
<1>3. \A c : <<>> # <<c>>
  OBVIOUS
<1> QED
  BY <1>1, <1>2, <1>3, NothingCounted, NothingGathered DEF History

LEMMA HistoryGoesOn ==
  ASSUME NEW items, NEW sig, NEW k \in Nat \ {0}, NEW state, History(state, items, sig, k - 1),
         \A i \in 1 .. k : items[i].author \in Node, IsItem(items[k], sig)
  PROVE  History(Feed(state, items[k]), items, sig, k)
<1> DEFINE item == items[k]
           next == Feed(state, item)
           counted == Count(state.maker, item)
           A == AuthorsUpto(items, k - 1)
           B == AuthorsUpto(items, k)
           E == EntriesUpto(items, k - 1)
           F == EntriesUpto(items, k)
<1>1. /\ k - 1 \in Nat /\ k \in 1 .. k
      /\ \A i \in 1 .. k : i = k \/ i \in 1 .. (k - 1)
      /\ \A i \in 1 .. (k - 1) : i \in 1 .. k
  OBVIOUS
<1>2. A \in SUBSET Node /\ item.author \in Node /\ B = A \cup {item.author}
  BY <1>1 DEF AuthorsUpto
<1>3. Counted(state, A) /\ Gathered(state.maker, sig, E)
  BY DEF History
<1>4. Counted(next, B)
  BY <1>2, <1>3, FeedCounts
<1>5. F = IF item.author \in A THEN E ELSE E \cup {item.entry}
  <2>1. {i \in 1 .. k : items[i].author \notin AuthorsUpto(items, i - 1)} =
          {i \in 1 .. (k - 1) : items[i].author \notin AuthorsUpto(items, i - 1)}
            \cup (IF item.author \in A THEN {} ELSE {k})
    BY <1>1
  <2> QED
    BY <2>1 DEF EntriesUpto
<1>6. Gathered(counted, sig, F) /\ counted.used = B
  <2>1. state.maker.used = A
    BY <1>3 DEF Counted
  <2>2. Gathered(counted, sig, F)
    BY <1>3, <1>5, <2>1, CountGathers
  <2>3. counted.used = B
    BY <1>2, <2>1 DEF Count
  <2> QED
    BY <2>2, <2>3
<1>7. next.maker = counted \/ next.maker = ResetWeight(counted)
  BY <1>3 DEF Feed, Counted
<1> HIDE DEF counted, F
<1>8. Gathered(ResetWeight(counted), sig, F)
  BY <1>6 DEF Gathered, ResetWeight
<1>9. Gathered(next.maker, sig, F)
  BY <1>6, <1>7, <1>8
<1>10. ASSUME NEW c, next.made = <<c>>
       PROVE  \E j \in 1 .. k : MadeAt(c, items, sig, j)
  <2>1. CASE IsComplete(counted)
    <3>1. PICK d : d = [entries |-> counted.entries, signature |-> counted.aggregateSig]
      OBVIOUS
    <3>2. next.made = Append(state.made, d)
      BY <2>1, <3>1 DEF Feed, counted
    <3>3. state.made = <<>>
      <4>1. SUFFICES ASSUME NEW b, state.made = <<b>> PROVE FALSE
        BY <1>3 DEF Counted
      <4>2. Len(Append(<<b>>, d)) = 2 /\ Len(<<c>>) = 1
        OBVIOUS
      <4> QED
        BY <1>10, <3>2, <4>1, <4>2
    <3>4. c = d
      <4>1. Append(<<>>, d) = <<d>> /\ <<c>>[1] = c /\ <<d>>[1] = d
        OBVIOUS
      <4> QED
        BY <1>10, <3>2, <3>3, <4>1
    <3>5. /\ \A b : <<>> # <<b>>
          /\ ~IsQuorum(A) /\ IsQuorum(B)
      BY <1>3, <1>4, <1>10, <3>3 DEF Counted
    <3>6. /\ SignedBy(c.entries, c.signature, sig)
          /\ Range(c.entries) = F /\ B = {sig[e].signer : e \in F}
      BY <1>6, <3>1, <3>4 DEF Gathered
    <3>7. MadeAt(c, items, sig, k)
      BY <3>5, <3>6 DEF MadeAt, QuorumAt, F
    <3> QED
      BY <1>1, <3>7
  <2>2. CASE ~IsComplete(counted)
    <3>1. next.made = state.made
      BY <1>3, <2>2 DEF Feed, Counted, counted
    <3>2. PICK j \in 1 .. (k - 1) : MadeAt(c, items, sig, j)
      BY <1>10, <3>1 DEF History
    <3> QED
      BY <1>1, <3>2
  <2> QED
    BY <2>1, <2>2
<1> HIDE DEF next, B
<1>11. History(next, items, sig, k)
  BY <1>4, <1>9, <1>10 DEF History, B, F
<1> QED
  BY <1>11 DEF next

\* What is made of some items is made at the item that completes a quorum.
LEMMA MadeAtQuorum ==
  ASSUME NEW items, NEW n \in Nat, DOMAIN items = 1 .. n, NEW sig,
         \A i \in 1 .. n : items[i].author \in Node /\ IsItem(items[i], sig)
  PROVE  /\ \A c \in Range(Made(items)) : \E k \in 1 .. n : MadeAt(c, items, sig, k)
         /\ IsQuorum(AuthorsUpto(items, n)) => Range(Made(items)) # {}
<1>1. PICK w : /\ w[1 .. 0] = Fresh
               /\ \A i \in 1 .. n : w[1 .. i] = Feed(w[1 .. (i - 1)], items[i])
               /\ Made(items) = w[1 .. n].made
  BY FedOneByOne
<1> DEFINE bad == {k \in 0 .. n : ~History(w[1 .. k], items, sig, k)}
<1>2. bad = {}
  <2> SUFFICES ASSUME bad # {} PROVE FALSE
    OBVIOUS
  <2>1. PICK k \in bad : \A j \in bad : k <= j
    <3>1. bad \subseteq Nat
      OBVIOUS
    <3> HIDE DEF bad
    <3> QED
      BY <3>1, LeastElement
  <2>2. CASE k = 0
    BY <1>1, <2>1, <2>2, HistoryStarts
  <2>3. CASE k # 0
    <3>1. k \in 1 .. n /\ k - 1 \in 0 .. n /\ ~(k <= k - 1) /\ k \in Nat \ {0}
      BY <2>3
    <3>2. PICK state : state = w[1 .. (k - 1)]
      OBVIOUS
    <3>3. History(state, items, sig, k - 1)
      BY <2>1, <3>1, <3>2
    <3>4. \A i \in 1 .. k : items[i].author \in Node /\ IsItem(items[i], sig)
      BY <3>1
    <3>5. w[1 .. k] = Feed(state, items[k])
      BY <1>1, <3>1, <3>2
    <3>6. IsItem(items[k], sig)
      BY <3>1
    <3>7. History(Feed(state, items[k]), items, sig, k)
      BY <3>1, <3>3, <3>4, <3>6, HistoryGoesOn
    <3> QED
      BY <2>1, <3>5, <3>7
  <2> QED
    BY <2>2, <2>3
<1>3. History(w[1 .. n], items, sig, n)
  BY <1>2
<1>4. /\ Made(items) = <<>> \/ \E c : Made(items) = <<c>>
      /\ IsQuorum(AuthorsUpto(items, n)) => \E c : Made(items) = <<c>>
      /\ \A c : Made(items) = <<c>> => \E k \in 1 .. n : MadeAt(c, items, sig, k)
  BY <1>1, <1>3 DEF History, Counted
<1>5. Range(<<>>) = {} /\ \A c : Range(<<c>>) = {c}
  BY DEF Range
<1> QED
  BY <1>4, <1>5

\* An order of items has the items, the ones before it, and one at each place.
LEMMA OrderTypes ==
  ASSUME NEW items, IsFiniteSet(items), NEW sig,
         \A x \in items : x.author \in Node /\ IsItem(x, sig), NEW order \in Orders(items)
  PROVE  \E n \in Nat :
           /\ DOMAIN order = 1 .. n
           /\ \A i \in 1 .. n : order[i] \in items
           /\ AuthorsUpto(order, n) = {x.author : x \in items}
           /\ \A i \in 1 .. n : order[i].author \in Node /\ IsItem(order[i], sig)
<1>1. PICK n \in Nat : DOMAIN order = 1 .. n /\ {order[i] : i \in 1 .. n} = items
  BY OrderFeedsAll
<1> QED
  BY <1>1 DEF AuthorsUpto

\* A certificate: signed, by a quorum, each entry from an item.
CertificateOf(c, items, sig) ==
  /\ SignedBy(c.entries, c.signature, sig)
  /\ IsQuorum({sig[e].signer : e \in Range(c.entries)})
  /\ Range(c.entries) \subseteq {x.entry : x \in items}

LEMMA MadeAreCertificates ==
  ASSUME NEW items, IsFiniteSet(items), NEW sig,
         \A x \in items : x.author \in Node /\ IsItem(x, sig)
  PROVE  \A c \in MadeOf(items) : CertificateOf(c, items, sig)
<1> SUFFICES ASSUME NEW order \in Orders(items), NEW c \in Range(Made(order))
             PROVE  CertificateOf(c, items, sig)
  BY DEF MadeOf
<1>1. PICK n \in Nat : /\ DOMAIN order = 1 .. n
                       /\ \A i \in 1 .. n : order[i] \in items
                       /\ \A i \in 1 .. n : order[i].author \in Node /\ IsItem(order[i], sig)
  BY OrderTypes
<1>2. PICK k \in 1 .. n : MadeAt(c, order, sig, k)
  BY <1>1, MadeAtQuorum
<1>3. EntriesUpto(order, k) \subseteq {x.entry : x \in items}
  BY <1>1 DEF EntriesUpto
<1> QED
  BY <1>2, <1>3 DEF CertificateOf, MadeAt

\* Any finite set can be put in order, a part of it first and one element at its end.
StartsWith(order, k, part, x) ==
  /\ {order[i] : i \in 1 .. k} = part
  /\ order[k] = x
  /\ \A i, j \in 1 .. k : i # j => order[i] # order[j]
  /\ \A i \in 1 .. k : i \in DOMAIN order

LEMMA SomeOrder ==
  ASSUME NEW items, IsFiniteSet(items), NEW part \in SUBSET items, NEW x \in part
  PROVE  \E order \in Orders(items), k \in Nat \ {0} : StartsWith(order, k, part, x)
<1> DEFINE before == part \ {x}
           after == items \ part
<1>1. IsFiniteSet(before) /\ IsFiniteSet(after)
  BY FS_Subset
<1>2. PICK a \in Nat, b \in Nat : a = Cardinality(before) /\ b = Cardinality(after)
  BY <1>1, FS_CardinalityType
<1>3. PICK f \in Bijection(1 .. a, before) : TRUE
  BY <1>1, <1>2, FS_CardinalityType DEF ExistsBijection
<1>4. PICK g \in Bijection(1 .. b, after) : TRUE
  BY <1>1, <1>2, FS_CardinalityType DEF ExistsBijection
<1>5. /\ \A i \in 1 .. a : f[i] \in before
      /\ \A i, j \in 1 .. a : i # j => f[i] # f[j]
      /\ \A y \in before : \E i \in 1 .. a : f[i] = y
  BY <1>3 DEF Bijection, Injection, Surjection, IsInjective
<1>6. /\ \A i \in 1 .. b : g[i] \in after
      /\ \A i, j \in 1 .. b : i # j => g[i] # g[j]
      /\ \A y \in after : \E i \in 1 .. b : g[i] = y
  BY <1>4 DEF Bijection, Injection, Surjection, IsInjective
<1> HIDE DEF before, after
<1>7. PICK k \in Nat \ {0}, n \in Nat : k = a + 1 /\ n = a + 1 + b
  OBVIOUS
<1> DEFINE o == [i \in 1 .. n |-> IF i < k THEN f[i] ELSE IF i = k THEN x ELSE g[i - k]]
<1>8. /\ \A i \in 1 .. n : i < k => i \in 1 .. a
      /\ \A i \in 1 .. n : ~(i < k) /\ i # k => i - k \in 1 .. b
      /\ \A i \in 1 .. a : i \in 1 .. n /\ i < k
      /\ \A i \in 1 .. b : i + k \in 1 .. n /\ ~(i + k < k) /\ i + k # k /\ (i + k) - k = i
      /\ k \in 1 .. n
  BY <1>7
<1>9. /\ \A i \in 1 .. n : i < k => o[i] \in before /\ o[i] = f[i]
      /\ \A i \in 1 .. n : ~(i < k) /\ i # k => o[i] \in after /\ o[i] = g[i - k]
      /\ o[k] = x
  <2>0. \A i \in 1 .. n : o[i] = IF i < k THEN f[i] ELSE IF i = k THEN x ELSE g[i - k]
    OBVIOUS
  <2> HIDE DEF o
  <2>1. ASSUME NEW i \in 1 .. n, i < k PROVE o[i] \in before /\ o[i] = f[i]
    BY <1>5, <1>8, <2>0, <2>1
  <2>2. ASSUME NEW i \in 1 .. n, ~(i < k), i # k PROVE o[i] \in after /\ o[i] = g[i - k]
    BY <1>6, <1>8, <2>0, <2>2
  <2>3. o[k] = x
    BY <1>8, <2>0
  <2> QED
    BY <2>1, <2>2, <2>3
<1>10. /\ x \notin before /\ x \notin after /\ before \cap after = {}
       /\ before \cup {x} \cup after = items /\ before \cup {x} = part
  BY DEF before, after
<1>11. \A i \in 1 .. n : o[i] \in items
  BY <1>9, <1>10
<1>12. ASSUME NEW i \in 1 .. n, NEW j \in 1 .. n, i # j
       PROVE  o[i] # o[j]
  <2>1. CASE i < k /\ j < k
    BY <1>5, <1>8, <1>9, <1>12, <2>1
  <2>2. CASE i < k /\ ~(j < k)
    BY <1>9, <1>10, <2>2
  <2>3. CASE ~(i < k) /\ j < k
    BY <1>9, <1>10, <2>3
  <2>4. CASE ~(i < k) /\ ~(j < k) /\ (i = k \/ j = k)
    BY <1>9, <1>10, <1>12, <2>4
  <2>5. CASE ~(i < k) /\ ~(j < k) /\ i # k /\ j # k
    <3>1. i - k # j - k
      BY <1>12
    <3> QED
      BY <1>6, <1>8, <1>9, <2>5, <3>1
  <2> QED
    BY <2>1, <2>2, <2>3, <2>4, <2>5
<1>13. ASSUME NEW y \in items
       PROVE  \E i \in 1 .. n : o[i] = y
  <2>1. CASE y \in before
    BY <1>5, <1>8, <1>9, <2>1
  <2>2. CASE y = x
    BY <1>8, <1>9, <2>2
  <2>3. CASE y \in after
    <3>1. PICK i \in 1 .. b : g[i] = y
      BY <1>6, <2>3
    <3>2. PICK j \in 1 .. n : ~(j < k) /\ j # k /\ j - k = i
      BY <1>8, <3>1
    <3> HIDE DEF o
    <3> QED
      BY <1>9, <3>1, <3>2
  <2> QED
    BY <1>10, <2>1, <2>2, <2>3
<1>14. o \in [1 .. n -> items]
  BY <1>11
<1>15. {o[i] : i \in 1 .. k} = part
  <2>1. \A i \in 1 .. k : i \in 1 .. n /\ (i < k \/ i = k)
    BY <1>7
  <2>2. \A i \in 1 .. k : o[i] \in part
    BY <1>9, <1>10, <2>1
  <2>3. \A y \in before : \E i \in 1 .. a : o[i] = y
    BY <1>5, <1>8, <1>9
  <2>4. \A i \in 1 .. a : i \in 1 .. k
    BY <1>7
  <2>5. k \in 1 .. k
    OBVIOUS
  <2> HIDE DEF o
  <2>6. ASSUME NEW y \in part
        PROVE  \E i \in 1 .. k : o[i] = y
    <3>1. y \in before \/ y = x
      BY <1>10
    <3> QED
      BY <1>9, <2>3, <2>4, <2>5, <3>1
  <2> QED
    BY <2>2, <2>6
<1> HIDE DEF o
<1>16. Cardinality(items) = n
  <2>1. o \in Bijection(1 .. n, items)
    BY <1>12, <1>13, <1>14 DEF Bijection, Injection, Surjection, IsInjective
  <2>2. IsFiniteSet(1 .. n) /\ Cardinality(1 .. n) = n
    BY FS_Interval
  <2> QED
    BY <2>1, <2>2, FS_Bijection DEF ExistsBijection
<1>17. o \in SetToSeqs(items)
  BY <1>12, <1>14, <1>16 DEF SetToSeqs
<1>18. PICK order : order = o \o o
  OBVIOUS
<1>19. order \in Orders(items)
  BY <1>17, <1>18 DEF Orders
<1>20. o \in Seq(items) /\ Len(o) = n
  BY <1>14
<1>21. order \in Seq(items) /\ Len(order) = n + n
  BY <1>18, <1>20, ConcatProperties
<1>22. \A i \in 1 .. n : order[i] = o[i] /\ i \in DOMAIN order
  BY <1>18, <1>20, <1>21, ConcatProperties
<1>23. \A i \in 1 .. k : i \in 1 .. n
  BY <1>7
<1>24. StartsWith(order, k, part, x)
  <2>1. \A i \in 1 .. k : order[i] = o[i]
    BY <1>22, <1>23
  <2>2. {order[i] : i \in 1 .. k} = {o[i] : i \in 1 .. k}
    BY <2>1
  <2>3. order[k] = x
    BY <1>8, <1>9, <1>22
  <2>4. \A i, j \in 1 .. k : i # j => order[i] # order[j]
    BY <1>12, <1>23, <2>1
  <2>5. \A i \in 1 .. k : i \in DOMAIN order
    BY <1>22, <1>23
  <2> QED
    BY <1>15, <2>2, <2>3, <2>4, <2>5 DEF StartsWith
<1> QED
  BY <1>19, <1>24

\* A quorum's items make a certificate.
LEMMA QuorumMakes ==
  ASSUME NEW items, IsFiniteSet(items), NEW sig,
         \A x \in items : x.author \in Node /\ IsItem(x, sig),
         IsQuorum({x.author : x \in items})
  PROVE  MadeOf(items) # {}
<1>1. items # {}
  <2>1. SUFFICES ASSUME items = {} PROVE FALSE
    OBVIOUS
  <2>2. {x.author : x \in items} = {}
    BY <2>1
  <2>3. ~IsQuorum({})
    BY WeightLaws, ThresholdBounds DEF IsQuorum
  <2> QED
    BY <2>2, <2>3
<1>2. PICK x \in items : TRUE
  BY <1>1
<1>3. PICK order \in Orders(items) : TRUE
  BY <1>2, SomeOrder
<1>4. PICK n \in Nat : /\ DOMAIN order = 1 .. n
                       /\ AuthorsUpto(order, n) = {y.author : y \in items}
                       /\ \A i \in 1 .. n : order[i].author \in Node /\ IsItem(order[i], sig)
  BY OrderTypes
<1>5. Range(Made(order)) # {}
  BY <1>4, MadeAtQuorum
<1> QED
  BY <1>3, <1>5 DEF MadeOf

\* Items of different authors, a quorum that needs the last of them, make a certificate
\* of their entries: if they are the first to be counted.
LEMMA PartMakes ==
  ASSUME NEW items, IsFiniteSet(items), NEW sig,
         \A x \in items : x.author \in Node /\ IsItem(x, sig),
         NEW part \in SUBSET items, NEW x \in part,
         \A y, z \in part : y.author = z.author => y = z,
         IsQuorum({y.author : y \in part}), ~IsQuorum({y.author : y \in part \ {x}})
  PROVE  \E c \in MadeOf(items) : Range(c.entries) = {y.entry : y \in part}
<1>0. PICK order \in Orders(items), k \in Nat \ {0} : StartsWith(order, k, part, x)
  BY SomeOrder
<1>1. /\ {order[i] : i \in 1 .. k} = part
      /\ order[k] = x
      /\ \A i, j \in 1 .. k : i # j => order[i] # order[j]
      /\ \A i \in 1 .. k : i \in DOMAIN order
  BY <1>0 DEF StartsWith
<1>2. PICK n \in Nat : /\ DOMAIN order = 1 .. n
                       /\ \A i \in 1 .. n : order[i] \in items
                       /\ AuthorsUpto(order, n) = {y.author : y \in items}
                       /\ \A i \in 1 .. n : order[i].author \in Node /\ IsItem(order[i], sig)
  BY OrderTypes
<1>3. k \in 1 .. k /\ k \in 1 .. n /\ k <= n /\ \A i \in 1 .. k : i \in 1 .. n
  BY <1>1, <1>2
<1>4. AuthorsUpto(order, k) = {y.author : y \in part}
  BY <1>1 DEF AuthorsUpto
<1>5. \A i, j \in 0 .. n : i <= j => /\ AuthorsUpto(order, i) \subseteq AuthorsUpto(order, j)
                                    /\ AuthorsUpto(order, j) \in SUBSET Node
  <2> SUFFICES ASSUME NEW i \in 0 .. n, NEW j \in 0 .. n, i <= j
               PROVE  /\ AuthorsUpto(order, i) \subseteq AuthorsUpto(order, j)
                      /\ AuthorsUpto(order, j) \in SUBSET Node
    OBVIOUS
  <2>1. \A l \in 1 .. i : l \in 1 .. j
    OBVIOUS
  <2>2. \A l \in 1 .. j : l \in 1 .. n
    OBVIOUS
  <2> QED
    BY <1>2, <2>1, <2>2 DEF AuthorsUpto
<1>6. AuthorsUpto(order, k - 1) \subseteq {y.author : y \in part \ {x}}
  <2>1. \A i \in 1 .. (k - 1) : i \in 1 .. k /\ i # k
    OBVIOUS
  <2>2. \A i \in 1 .. (k - 1) : order[i] \in part /\ order[i] # x
    BY <1>1, <1>3, <2>1
  <2> QED
    BY <2>2 DEF AuthorsUpto
<1>7. {y.author : y \in part \ {x}} \in SUBSET Node
  OBVIOUS
<1>8. \A j \in 0 .. (k - 1) : ~IsQuorum(AuthorsUpto(order, j))
  <2> SUFFICES ASSUME NEW j \in 0 .. (k - 1), IsQuorum(AuthorsUpto(order, j)) PROVE FALSE
    OBVIOUS
  <2>1. j \in 0 .. n /\ k - 1 \in 0 .. n /\ j <= k - 1
    BY <1>3
  <2>2. AuthorsUpto(order, j) \subseteq AuthorsUpto(order, k - 1)
    BY <1>5, <2>1
  <2>3. AuthorsUpto(order, j) \in SUBSET Node
    BY <1>5, <2>1
  <2> QED
    BY <1>6, <1>7, <2>2, <2>3, QuorumGrows
<1>9. IsQuorum(AuthorsUpto(order, n))
  <2>1. k \in 0 .. n /\ n \in 0 .. n /\ k <= n
    BY <1>3
  <2>2. AuthorsUpto(order, k) \subseteq AuthorsUpto(order, n) /\ AuthorsUpto(order, n) \in SUBSET Node
    BY <1>5, <2>1
  <2>3. AuthorsUpto(order, k) \in SUBSET Node
    BY <1>5, <2>1
  <2> QED
    BY <1>4, <2>2, <2>3, QuorumGrows
<1>10. PICK c \in Range(Made(order)) : TRUE
  BY <1>2, <1>9, MadeAtQuorum
<1>11. PICK j \in 1 .. n : MadeAt(c, order, sig, j)
  BY <1>2, MadeAtQuorum
<1>12. j = k
  <2>1. ~(j <= k - 1)
    <3>1. j <= k - 1 => j \in 0 .. (k - 1)
      OBVIOUS
    <3> QED
      BY <1>8, <1>11, <3>1 DEF MadeAt, QuorumAt
  <2>2. ~(k <= j - 1)
    <3> SUFFICES ASSUME k <= j - 1 PROVE FALSE
      OBVIOUS
    <3>1. k \in 0 .. n /\ j - 1 \in 0 .. n
      BY <1>3
    <3>2. AuthorsUpto(order, k) \subseteq AuthorsUpto(order, j - 1) /\ AuthorsUpto(order, j - 1) \in SUBSET Node
      BY <1>5, <3>1
    <3>3. AuthorsUpto(order, k) \in SUBSET Node
      BY <1>5, <3>1
    <3> QED
      BY <1>4, <1>11, <3>2, <3>3, QuorumGrows DEF MadeAt, QuorumAt
  <2> QED
    BY <2>1, <2>2
<1>13. EntriesUpto(order, k) = {y.entry : y \in part}
  <2>1. ASSUME NEW i \in 1 .. k
        PROVE  order[i].author \notin AuthorsUpto(order, i - 1)
    <3> SUFFICES ASSUME NEW l \in 1 .. (i - 1), order[l].author = order[i].author PROVE FALSE
      BY DEF AuthorsUpto
    <3>1. l \in 1 .. k /\ l # i
      OBVIOUS
    <3>2. order[l] \in part /\ order[i] \in part /\ order[l] # order[i]
      BY <1>1, <3>1
    <3> QED
      BY <3>2
  <2>2. EntriesUpto(order, k) = {order[i].entry : i \in 1 .. k}
    BY <2>1 DEF EntriesUpto
  <2>3. \A i \in 1 .. k : order[i] \in part
    BY <1>1
  <2>4. \A y \in part : \E i \in 1 .. k : order[i] = y
    BY <1>1
  <2> QED
    BY <2>2, <2>3, <2>4
<1>14. c \in MadeOf(items)
  BY <1>10 DEF MadeOf
<1> QED
  BY <1>11, <1>12, <1>13, <1>14 DEF MadeAt
-----------------------------------------------------------------------------
(* What is decoded and verified.                                             *)

\* One signature of each key under its digest is what AggregateVerify accepts.
LEMMA SignedVerifies ==
  ASSUME NEW entries, NEW signature, NEW sig, SignedBy(entries, signature, sig),
         NEW keys, NEW digests, DOMAIN keys = DOMAIN entries,
         \A i \in DOMAIN entries : sig[entries[i]] = [signer |-> keys[i], digest |-> digests[i]]
  PROVE  AggregateVerify(signature, digests, keys)
<1> DEFINE signed == [i \in DOMAIN keys |-> [signer |-> keys[i], digest |-> digests[i]]]
           X == {sig[e] : e \in Range(entries)}
<1>1. \A i \in DOMAIN keys : signed[i] = sig[entries[i]]
  OBVIOUS
<1>2. DOMAIN signed = DOMAIN entries
  OBVIOUS
<1> HIDE DEF signed
<1>3. Range(signed) = X
  BY <1>1, <1>2 DEF Range
<1>4. \A i, j \in DOMAIN entries : i # j => signed[i] # signed[j]
  BY <1>1 DEF SignedBy
<1>5. ASSUME NEW e \in X
      PROVE  Cardinality({i \in DOMAIN keys : signed[i] = e}) = 1
  <2>1. PICK i \in DOMAIN entries : e = signed[i]
    BY <1>1 DEF Range
  <2>2. {j \in DOMAIN keys : signed[j] = e} = {i}
    BY <1>4, <2>1
  <2>3. Cardinality({i}) = 1
    BY FS_Singleton
  <2> QED
    BY <2>2, <2>3
<1>6. signature = [e \in X |-> 1]
  BY DEF SignedBy, SetToBag
<1>7. signature = [e \in Range(signed) |-> Cardinality({i \in DOMAIN keys : signed[i] = e})]
  <2> HIDE DEF X
  <2> QED
    BY <1>3, <1>5, <1>6
<1> QED
  BY <1>7 DEF AggregateVerify, signed

\* The signature of one replica.
LEMMA SignVerifies == \A d, n : SigVerify(Sign(d, n), d, n)
<1> SUFFICES ASSUME NEW d, NEW n PROVE SigVerify(Sign(d, n), d, n)
  OBVIOUS
<1> DEFINE entries == <<n>>
           sig == [e \in {n} |-> [signer |-> n, digest |-> d]]
           digests == [i \in DOMAIN entries |-> d]
<1>1. entries \in Seq({n}) /\ DOMAIN entries = {1} /\ entries[1] = n /\ Range(entries) = {n}
  BY DEF Range
<1>2. SignedBy(entries, Sign(d, n), sig)
  <2>1. {sig[e] : e \in Range(entries)} = {[signer |-> n, digest |-> d]}
    BY <1>1
  <2>2. \A i, j \in DOMAIN entries : i = j
    BY <1>1
  <2> HIDE DEF entries
  <2> QED
    BY <1>1, <2>1, <2>2 DEF SignedBy, Sign
<1>3. \A i \in DOMAIN entries : sig[entries[i]] = [signer |-> entries[i], digest |-> digests[i]]
  BY <1>1
<1>4. AggregateVerify(Sign(d, n), digests, entries)
  <2> HIDE DEF entries, sig, digests
  <2> QED
    BY <1>2, <1>3, SignedVerifies
<1> QED
  BY <1>4 DEF SigVerify, FastAggregateVerify

LEMMA BytesBack == \A data, len : data \in FromBytes(Bytes(data, len), len)
BY DEF FromBytes, Bytes

LEMMA AllBytesBack ==
  ASSUME NEW v, v = [i \in DOMAIN v |-> v[i]], NEW len
  PROVE  v \in AllFromBytes(AllBytes(v, len), len)
<1>1. PICK p : p = AllBytes(v, len)
  OBVIOUS
<1>2. DOMAIN p = DOMAIN v /\ \A i \in DOMAIN v : p[i].data = v[i] /\ p[i].len = len
  BY <1>1 DEF AllBytes, Bytes
<1>3. [i \in DOMAIN p |-> p[i].data] = v
  BY <1>2
<1> QED
  BY <1>1, <1>2, <1>3 DEF AllFromBytes

LEMMA QCBack ==
  ASSUME NEW h, NEW r, NEW v, NEW s, v = [i \in DOMAIN v |-> v[i]],
         NEW x, x = [Hash |-> h, Round |-> r, Voters |-> v, Signature |-> s]
  PROVE  x \in QCFromProto(QCToProto(x))
<1>1. PICK p : p = QCToProto(x)
  OBVIOUS
<1>2. /\ p.Hash = Bytes(h, DIGEST_LEN) /\ p.Round = r
      /\ p.Voters = AllBytes(v, PUBLICKEY_LEN) /\ p.Signature = Bytes(s, SIGNATURE_LEN)
  BY <1>1 DEF QCToProto
<1>3. /\ h \in FromBytes(p.Hash, DIGEST_LEN)
      /\ v \in AllFromBytes(p.Voters, PUBLICKEY_LEN)
      /\ s \in FromBytes(p.Signature, SIGNATURE_LEN)
  BY <1>2, BytesBack, AllBytesBack
<1>4. x = [Hash |-> h, Round |-> p.Round, Voters |-> v, Signature |-> s]
  BY <1>2
<1> QED
  BY <1>1, <1>3, <1>4 DEF QCFromProto

LEMMA TCBack ==
  ASSUME NEW r, NEW v, NEW s,
         v = [i \in DOMAIN v |-> [name |-> v[i].name, round |-> v[i].round]],
         NEW x, x = [Round |-> r, Votes |-> v, Signature |-> s]
  PROVE  x \in TCFromProto(TCToProto(x))
<1>1. PICK p : p = TCToProto(x)
  OBVIOUS
<1>2. /\ p.Round = r /\ p.Signature = Bytes(s, SIGNATURE_LEN)
      /\ p.Atrs = [i \in DOMAIN v |->
                     [Name |-> Bytes(v[i].name, PUBLICKEY_LEN), Round |-> v[i].round]]
  BY <1>1 DEF TCToProto
<1>3. PICK q : q = p.Atrs
  OBVIOUS
<1>4. /\ DOMAIN q = DOMAIN v
      /\ \A i \in DOMAIN v : q[i].Name = Bytes(v[i].name, PUBLICKEY_LEN) /\ q[i].Round = v[i].round
  BY <1>2, <1>3
<1>5. PICK names : names = [i \in DOMAIN v |-> v[i].name]
  OBVIOUS
<1>6. [i \in DOMAIN q |-> q[i].Name] = AllBytes(names, PUBLICKEY_LEN)
  BY <1>4, <1>5 DEF AllBytes
<1>7. names \in AllFromBytes([i \in DOMAIN q |-> q[i].Name], PUBLICKEY_LEN)
  BY <1>5, <1>6, AllBytesBack
<1>8. [i \in DOMAIN q |-> [name |-> names[i], round |-> q[i].Round]] = v
  BY <1>4, <1>5
<1>9. s \in FromBytes(p.Signature, SIGNATURE_LEN)
  BY <1>2, BytesBack
<1>10. x = [Round |-> p.Round,
            Votes |-> [i \in DOMAIN p.Atrs |-> [name |-> names[i], round |-> p.Atrs[i].Round]],
            Signature |-> s]
  BY <1>2, <1>3, <1>8
<1>11. names \in AllFromBytes([i \in DOMAIN p.Atrs |-> p.Atrs[i].Name], PUBLICKEY_LEN)
  BY <1>3, <1>7
<1>12. x \in TCFromProto(p)
  <2> DEFINE Decoded(n, t) ==
        [Round |-> p.Round,
         Votes |-> [i \in DOMAIN p.Atrs |-> [name |-> n[i], round |-> p.Atrs[i].Round]],
         Signature |-> t]
             Names == AllFromBytes([i \in DOMAIN p.Atrs |-> p.Atrs[i].Name], PUBLICKEY_LEN)
  <2>1. TCFromProto(p) =
          {Decoded(n, t) : n \in Names, t \in FromBytes(p.Signature, SIGNATURE_LEN)}
    BY DEF TCFromProto
  <2>2. x = Decoded(names, s)
    BY <1>10, Zenon
  <2>3. names \in Names
    BY <1>11, Zenon
  <2> HIDE DEF Decoded, Names
  <2> QED
    BY <1>9, <2>1, <2>2, <2>3
<1> QED
  BY <1>1, <1>12

\* The TC of a block: none, or one that can be decoded.
LEMMA BlockBack ==
  ASSUME NEW qc, qc \in QCFromProto(QCToProto(qc)),
         NEW tc, tc = <<>> \/ \E y : tc = <<y>> /\ y \in TCFromProto(TCToProto(y)),
         NEW a, NEW r, NEW v, v = [i \in DOMAIN v |-> v[i]], NEW s,
         NEW x, x = [Qc |-> qc, Tc |-> tc, Author |-> a, Round |-> r, Payload |-> v,
                     Signature |-> s]
  PROVE  x \in BlockFromProto(BlockToProto(x))
<1>1. PICK p : p = BlockToProto(x)
  OBVIOUS
<1>2. /\ p.QuorumCert = QCToProto(qc)
      /\ p.TimeoutCert = [i \in DOMAIN tc |-> TCToProto(tc[i])]
      /\ p.Author = Bytes(a, PUBLICKEY_LEN) /\ p.Round = r
      /\ p.Payload = AllBytes(v, DIGEST_LEN) /\ p.Signature = Bytes(s, SIGNATURE_LEN)
  BY <1>1 DEF BlockToProto
<1>3. /\ v \in AllFromBytes(p.Payload, DIGEST_LEN)
      /\ qc \in QCFromProto(p.QuorumCert)
      /\ a \in FromBytes(p.Author, PUBLICKEY_LEN)
      /\ s \in FromBytes(p.Signature, SIGNATURE_LEN)
  BY <1>2, BytesBack, AllBytesBack
<1>4. tc \in IF p.TimeoutCert = <<>> THEN {<<>>}
             ELSE {<<y>> : y \in TCFromProto(p.TimeoutCert[1])}
  <2>1. CASE tc = <<>>
    <3>1. p.TimeoutCert = <<>>
      BY <1>2, <2>1
    <3> QED
      BY <2>1, <3>1
  <2>2. ASSUME NEW y, tc = <<y>>, y \in TCFromProto(TCToProto(y))
        PROVE  tc \in IF p.TimeoutCert = <<>> THEN {<<>>}
                      ELSE {<<z>> : z \in TCFromProto(p.TimeoutCert[1])}
    <3>1. DOMAIN tc = {1} /\ tc[1] = y
      BY <2>2
    <3>2. DOMAIN p.TimeoutCert = {1} /\ p.TimeoutCert[1] = TCToProto(y)
      BY <1>2, <3>1
    <3>3. p.TimeoutCert # <<>>
      BY <3>2
    <3> QED
      BY <2>2, <3>2, <3>3
  <2> QED
    BY <2>1, <2>2
<1>5. x = [Qc |-> qc, Tc |-> tc, Author |-> a, Round |-> p.Round, Payload |-> v,
           Signature |-> s]
  BY <1>2
<1>6. x \in BlockFromProto(p)
  <2> DEFINE Decoded(w, c, d, n, t) ==
        [Qc |-> c, Tc |-> d, Author |-> n, Round |-> p.Round, Payload |-> w, Signature |-> t]
             TCs == IF p.TimeoutCert = <<>> THEN {<<>>}
                    ELSE {<<y>> : y \in TCFromProto(p.TimeoutCert[1])}
  <2>1. BlockFromProto(p) =
          {Decoded(w, c, d, n, t) :
             w \in AllFromBytes(p.Payload, DIGEST_LEN), c \in QCFromProto(p.QuorumCert),
             d \in TCs, n \in FromBytes(p.Author, PUBLICKEY_LEN),
             t \in FromBytes(p.Signature, SIGNATURE_LEN)}
    BY DEF BlockFromProto
  <2>2. x = Decoded(v, qc, tc, a, s)
    BY <1>5, Zenon
  <2>3. tc \in TCs
    BY <1>4, Zenon
  <2> HIDE DEF Decoded, TCs
  <2> QED
    BY <1>3, <2>1, <2>2, <2>3
<1> QED
  BY <1>1, <1>6

LEMMA VoteBack ==
  ASSUME NEW h, NEW r, NEW a, NEW s,
         NEW x, x = [Hash |-> h, Round |-> r, Author |-> a, Signature |-> s]
  PROVE  x \in VoteFromProto(VoteToProto(x))
<1>1. PICK p : p = VoteToProto(x)
  OBVIOUS
<1>2. /\ p.Hash = Bytes(h, DIGEST_LEN) /\ p.Round = r
      /\ p.Author = Bytes(a, PUBLICKEY_LEN) /\ p.Signature = Bytes(s, SIGNATURE_LEN)
  BY <1>1 DEF VoteToProto
<1>3. /\ h \in FromBytes(p.Hash, DIGEST_LEN)
      /\ a \in FromBytes(p.Author, PUBLICKEY_LEN)
      /\ s \in FromBytes(p.Signature, SIGNATURE_LEN)
      /\ x = [Hash |-> h, Round |-> p.Round, Author |-> a, Signature |-> s]
  BY <1>2, BytesBack
<1> QED
  BY <1>1, <1>3 DEF VoteFromProto

LEMMA TimeoutBack ==
  ASSUME NEW qc, qc \in QCFromProto(QCToProto(qc)), NEW r, NEW a, NEW s,
         NEW x, x = [HighQC |-> qc, Round |-> r, Author |-> a, Signature |-> s]
  PROVE  x \in TimeoutFromProto(TimeoutToProto(x))
<1>1. PICK p : p = TimeoutToProto(x)
  OBVIOUS
<1>2. /\ p.HighQC = QCToProto(qc) /\ p.Round = r
      /\ p.Author = Bytes(a, PUBLICKEY_LEN) /\ p.Signature = Bytes(s, SIGNATURE_LEN)
  BY <1>1 DEF TimeoutToProto
<1>3. /\ qc \in QCFromProto(p.HighQC)
      /\ a \in FromBytes(p.Author, PUBLICKEY_LEN)
      /\ s \in FromBytes(p.Signature, SIGNATURE_LEN)
      /\ x = [HighQC |-> qc, Round |-> p.Round, Author |-> a, Signature |-> s]
  BY <1>2, BytesBack
<1> QED
  BY <1>1, <1>3 DEF TimeoutFromProto

\* A message that its conversions keep is accepted if it verifies.
LEMMA AcceptedMessages ==
  ASSUME NEW m
  PROVE  /\ m \in BlockFromProto(BlockToProto(m)) /\ VerifyBlock(m) => Accepted("Proposal", m)
         /\ m \in VoteFromProto(VoteToProto(m)) /\ VerifyVote(m) => Accepted("VMessage", m)
         /\ m \in TimeoutFromProto(TimeoutToProto(m)) /\ VerifyTimeout(m)
              => Accepted("TMessage", m)
         /\ m \in TCFromProto(TCToProto(m)) /\ VerifyTC(m) => Accepted("TcMessage", m)
<1>1. ASSUME m \in BlockFromProto(BlockToProto(m)), VerifyBlock(m)
      PROVE  Accepted("Proposal", m)
  <2>1. Serialize("Proposal", m) = [Proposal |-> BlockToProto(m)]
    BY DEF Serialize
  <2>2. [kind |-> "Proposal", message |-> m] \in Deserialize(Serialize("Proposal", m))
    BY <1>1, <2>1 DEF Deserialize
  <2>3. VerifyMessage("Proposal", m)
    BY <1>1 DEF VerifyMessage
  <2> QED
    BY <2>2, <2>3 DEF Accepted
<1>2. ASSUME m \in VoteFromProto(VoteToProto(m)), VerifyVote(m)
      PROVE  Accepted("VMessage", m)
  <2>1. Serialize("VMessage", m) = [VMessage |-> VoteToProto(m)]
    BY DEF Serialize
  <2>2. [kind |-> "VMessage", message |-> m] \in Deserialize(Serialize("VMessage", m))
    BY <1>2, <2>1 DEF Deserialize
  <2>3. VerifyMessage("VMessage", m)
    BY <1>2 DEF VerifyMessage
  <2> QED
    BY <2>2, <2>3 DEF Accepted
<1>3. ASSUME m \in TimeoutFromProto(TimeoutToProto(m)), VerifyTimeout(m)
      PROVE  Accepted("TMessage", m)
  <2>1. Serialize("TMessage", m) = [TMessage |-> TimeoutToProto(m)]
    BY DEF Serialize
  <2>2. [kind |-> "TMessage", message |-> m] \in Deserialize(Serialize("TMessage", m))
    BY <1>3, <2>1 DEF Deserialize
  <2>3. VerifyMessage("TMessage", m)
    BY <1>3 DEF VerifyMessage
  <2> QED
    BY <2>2, <2>3 DEF Accepted
<1>4. ASSUME m \in TCFromProto(TCToProto(m)), VerifyTC(m)
      PROVE  Accepted("TcMessage", m)
  <2>1. Serialize("TcMessage", m) = [TcMessage |-> TCToProto(m)]
    BY DEF Serialize
  <2>2. [kind |-> "TcMessage", message |-> m] \in Deserialize(Serialize("TcMessage", m))
    BY <1>4, <2>1 DEF Deserialize
  <2>3. VerifyMessage("TcMessage", m)
    BY <1>4 DEF VerifyMessage
  <2> QED
    BY <2>2, <2>3 DEF Accepted
<1> QED
  BY <1>1, <1>2, <1>3, <1>4
=============================================================================
