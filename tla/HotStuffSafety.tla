---------------------------- MODULE HotStuffSafety ----------------------------
(***************************************************************************)
(* Safety of the consensus core: one proposal per round, votes that never    *)
(* go back on an earlier promise, timeouts that carry the lock of their      *)
(* author, messages that verify, from these the 2-chain rule, and from that  *)
(* what the replicas commit and that they implement the abstract Ledger.     *)
(*                                                                          *)
(* The inductive invariant says of every replica what its local state owes   *)
(* to the messages sent so far.  Its parts take the sets of proposals P,     *)
(* votes V and timeouts T as parameters, so that what a method of Core does  *)
(* to a local state is proved once, before or after a message is added.      *)
(***************************************************************************)
EXTENDS HotStuffProofs

SignersIn(V, hash, r) ==
  {m.vote.author : m \in {x \in V : x.vote.hash = hash /\ x.vote.round = r}}

\* A QC that verifies, and that names the round of the block it certifies.
QCOk(V, qc) ==
  \/ qc = GenesisQC
  \/ IsQuorum(SignersIn(V, qc.hash, qc.round)) /\ qc.round = qc.hash.round

\* A TC that verifies.
TCSigned(T, tc) ==
  /\ \A v, w \in tc.votes : v.name = w.name => v = w
  /\ \A v \in tc.votes : \E t \in T :
        t.author = v.name /\ t.round = tc.round /\ t.highQC.round = v.round
  /\ IsQuorum({v.name : v \in tc.votes})
TCOk(T, tc) == tc = NoTC \/ TCSigned(T, tc)

\* The requests a replica has made to its proposer: its own rounds, not yet
\* proposed in, one request each.
MakesOk(n, s, P, V, T) ==
  /\ \A m \in s.makes :
        /\ n = Leader(m.round)
        /\ m.round <= s.round
        /\ m.qc.round <= s.highQC.round
        /\ QCOk(V, m.qc)
        /\ TCOk(T, m.tc)
        /\ \A b \in P : b.round # m.round
  /\ \A m, x \in s.makes : m.round = x.round => m = x
  /\ \A b \in P : b.author = n => b.round <= s.round

\* The blocks it holds back were proposed, and it knows their QCs.
HeldBlocks(s) == s.loopback \cup s.suspended \cup {w.block : w \in s.pending \cup s.cancelled}
HeldOk(s, P) == \A b \in HeldBlocks(s) : b \in P /\ b.qc.round <= s.highQC.round

\* What is in its aggregator was sent, and counted once for each author.
VotesOk(s, V) == \A v \in s.votes : \E m \in V : m.vote = v
TimeoutsOk(s, T) ==
  /\ \A t \in s.timeouts : t \in T /\ t.highQC.round <= s.highQC.round
  /\ \A t, u \in s.timeouts : t.author = u.author /\ t.round = u.round => t = u

NodeOk(n, s, P, V, T) ==
  /\ QCOk(V, s.highQC)
  /\ MakesOk(n, s, P, V, T)
  /\ HeldOk(s, P)
  /\ VotesOk(s, V)
  /\ TimeoutsOk(s, T)

\* What no method of Core ever decreases.
Evolves(s, x) ==
  /\ s.round <= x.round
  /\ s.lastVotedRound <= x.lastVotedRound
  /\ s.highQC.round <= x.highQC.round
-----------------------------------------------------------------------------
(* More messages do no harm.                                                 *)

LEMMA SignersType ==
  ASSUME NEW V \in SUBSET [vote : Vote, to : Node], NEW hash, NEW r
  PROVE  SignersIn(V, hash, r) \in SUBSET Node
BY DEF SignersIn, Vote

LEMMA CertificatesGrow ==
  ASSUME NEW V \in SUBSET [vote : Vote, to : Node],
         NEW W \in SUBSET [vote : Vote, to : Node], V \subseteq W,
         NEW T, NEW U, T \subseteq U
  PROVE  /\ \A qc : QCOk(V, qc) => QCOk(W, qc)
         /\ \A tc : TCSigned(T, tc) => TCSigned(U, tc)
         /\ \A tc : TCOk(T, tc) => TCOk(U, tc)
<1>1. \A hash, r : SignersIn(V, hash, r) \subseteq SignersIn(W, hash, r)
  BY DEF SignersIn
<1>2. ASSUME NEW qc, QCOk(V, qc) PROVE QCOk(W, qc)
  BY <1>1, <1>2, SignersType, QuorumGrows DEF QCOk
<1>3. \A tc : TCSigned(T, tc) => TCSigned(U, tc)
  BY DEF TCSigned
<1> QED
  BY <1>2, <1>3 DEF TCOk

LEMMA NodeOkGrows ==
  ASSUME NEW n, NEW s, NEW P, NEW Q, P \subseteq Q,
         NEW V \in SUBSET [vote : Vote, to : Node],
         NEW W \in SUBSET [vote : Vote, to : Node], V \subseteq W,
         NEW T, NEW U, T \subseteq U,
         \A b \in Q \ P : b.author # n /\ b.author = Leader(b.round),
         NodeOk(n, s, P, V, T)
  PROVE  NodeOk(n, s, Q, W, U)
<1>1. QCOk(W, s.highQC)
  BY CertificatesGrow DEF NodeOk
<1>2. MakesOk(n, s, Q, W, U)
  <2>1. ASSUME NEW m \in s.makes
        PROVE  /\ n = Leader(m.round)
               /\ m.round <= s.round
               /\ m.qc.round <= s.highQC.round
               /\ QCOk(W, m.qc)
               /\ TCOk(U, m.tc)
               /\ \A b \in Q : b.round # m.round
    BY CertificatesGrow DEF NodeOk, MakesOk
  <2>2. \A m, x \in s.makes : m.round = x.round => m = x
    BY DEF NodeOk, MakesOk
  <2>3. \A b \in Q : b.author = n => b.round <= s.round
    BY DEF NodeOk, MakesOk
  <2> QED
    BY <2>1, <2>2, <2>3 DEF MakesOk
<1>3. HeldOk(s, Q)
  BY DEF NodeOk, HeldOk
<1>4. VotesOk(s, W)
  BY DEF NodeOk, VotesOk
<1>5. TimeoutsOk(s, U)
  BY DEF NodeOk, TimeoutsOk
<1> QED
  BY <1>1, <1>2, <1>3, <1>4, <1>5 DEF NodeOk
-----------------------------------------------------------------------------
(* What the methods of Core do to the local state.                           *)

LEMMA EvolvesTransitive ==
  ASSUME NEW s \in LocalState, NEW x \in LocalState, NEW y \in LocalState,
         Evolves(s, x), Evolves(x, y)
  PROVE  Evolves(s, y)
BY DEF Evolves, LocalState, QC

LEMMA AdvanceRoundOk ==
  ASSUME NEW n, NEW s \in LocalState, NEW r \in Nat, NEW P \in SUBSET Block, NEW V, NEW T,
         NodeOk(n, s, P, V, T)
  PROVE  /\ NodeOk(n, AdvanceRound(s, r), P, V, T)
         /\ Evolves(s, AdvanceRound(s, r))
<1> DEFINE x == AdvanceRound(s, r)
<1>1. /\ x.highQC = s.highQC /\ x.makes = s.makes
      /\ x.loopback = s.loopback /\ x.suspended = s.suspended
      /\ x.pending = s.pending /\ x.cancelled = s.cancelled
      /\ x.lastVotedRound = s.lastVotedRound
      /\ x.votes \subseteq s.votes /\ x.timeouts \subseteq s.timeouts
      /\ x.round = IF r < s.round THEN s.round ELSE r + 1
  BY DEF AdvanceRound, LocalState
<1>2. s.round \in Nat /\ s.highQC.round \in Nat /\ s.lastVotedRound \in Nat
  BY DEF LocalState, QC
<1>3. s.round <= x.round
  BY <1>1, <1>2
<1> HIDE DEF x
<1>4. MakesOk(n, x, P, V, T)
  <2>1. \A m \in s.makes : m.round \in Nat
    BY DEF LocalState, Make
  <2>2. \A b \in P : b.round \in Nat
    BY DEF Block
  <2>3. x.round \in Nat
    BY <1>1, <1>2
  <2> QED
    BY <1>1, <1>2, <1>3, <2>1, <2>2, <2>3 DEF NodeOk, MakesOk
<1>5. HeldOk(x, P)
  BY <1>1 DEF NodeOk, HeldOk, HeldBlocks
<1>6. VotesOk(x, V) /\ TimeoutsOk(x, T)
  BY <1>1 DEF NodeOk, VotesOk, TimeoutsOk
<1>7. NodeOk(n, x, P, V, T)
  BY <1>1, <1>4, <1>5, <1>6 DEF NodeOk
<1>8. Evolves(s, x)
  BY <1>1, <1>2, <1>3 DEF Evolves
<1> QED
  BY <1>7, <1>8 DEF x

LEMMA UpdateHighQCOk ==
  ASSUME NEW n, NEW s \in LocalState, NEW qc \in QC, NEW P \in SUBSET Block, NEW V, NEW T,
         NodeOk(n, s, P, V, T), QCOk(V, qc)
  PROVE  /\ NodeOk(n, UpdateHighQC(s, qc), P, V, T)
         /\ Evolves(s, UpdateHighQC(s, qc))
         /\ qc.round <= UpdateHighQC(s, qc).highQC.round
         /\ UpdateHighQC(s, qc).makes = s.makes
         /\ UpdateHighQC(s, qc).round = s.round
         /\ UpdateHighQC(s, qc).timeouts = s.timeouts
<1> DEFINE x == UpdateHighQC(s, qc)
<1>1. /\ x.round = s.round /\ x.makes = s.makes
      /\ x.loopback = s.loopback /\ x.suspended = s.suspended
      /\ x.pending = s.pending /\ x.cancelled = s.cancelled
      /\ x.lastVotedRound = s.lastVotedRound
      /\ x.votes = s.votes /\ x.timeouts = s.timeouts
      /\ x.highQC = IF qc.round > s.highQC.round THEN qc ELSE s.highQC
  BY DEF UpdateHighQC, LocalState
<1>2. /\ s.round \in Nat /\ s.highQC.round \in Nat /\ s.lastVotedRound \in Nat
      /\ qc.round \in Nat
  BY DEF LocalState, QC
<1>3. s.highQC.round <= x.highQC.round /\ qc.round <= x.highQC.round
  BY <1>1, <1>2
<1>4. QCOk(V, x.highQC) /\ x.highQC.round \in Nat
  BY <1>1, <1>2 DEF NodeOk
<1> HIDE DEF x
<1>5. MakesOk(n, x, P, V, T)
  <2>1. \A m \in s.makes : m.qc.round \in Nat
    BY DEF LocalState, Make, QC
  <2>2. \A m \in s.makes : m.qc.round <= x.highQC.round
    BY <1>2, <1>3, <1>4, <2>1 DEF NodeOk, MakesOk
  <2> QED
    BY <1>1, <2>2 DEF NodeOk, MakesOk
<1>6. HeldOk(x, P)
  <2>1. \A b \in P : b.qc.round \in Nat
    BY DEF Block, QC
  <2> QED
    BY <1>1, <1>2, <1>3, <1>4, <2>1 DEF NodeOk, HeldOk, HeldBlocks
<1>7. VotesOk(x, V)
  BY <1>1 DEF NodeOk, VotesOk
<1>8. TimeoutsOk(x, T)
  <2>1. \A t \in s.timeouts : t.highQC.round \in Nat
    BY DEF LocalState, Timeout, QC
  <2>2. \A t \in s.timeouts : t.highQC.round <= x.highQC.round
    BY <1>2, <1>3, <1>4, <2>1 DEF NodeOk, TimeoutsOk
  <2> QED
    BY <1>1, <2>2 DEF NodeOk, TimeoutsOk
<1>9. NodeOk(n, x, P, V, T)
  BY <1>4, <1>5, <1>6, <1>7, <1>8 DEF NodeOk
<1>10. Evolves(s, x)
  BY <1>1, <1>2, <1>3 DEF Evolves
<1> QED
  BY <1>1, <1>3, <1>9, <1>10 DEF x

LEMMA ProcessQCOk ==
  ASSUME NEW n, NEW s \in LocalState, NEW qc \in QC, NEW P \in SUBSET Block, NEW V, NEW T,
         NodeOk(n, s, P, V, T), QCOk(V, qc)
  PROVE  /\ NodeOk(n, ProcessQC(s, qc), P, V, T)
         /\ Evolves(s, ProcessQC(s, qc))
         /\ qc.round <= ProcessQC(s, qc).highQC.round
         /\ ProcessQC(s, qc).makes = s.makes
         /\ ProcessQC(s, qc).round = IF qc.round < s.round THEN s.round ELSE qc.round + 1
         /\ ProcessQC(s, qc).timeouts \subseteq s.timeouts
<1> DEFINE a == AdvanceRound(s, qc.round)
           x == UpdateHighQC(a, qc)
<1>1. qc.round \in Nat
  BY DEF QC
<1>2. /\ a \in LocalState /\ NodeOk(n, a, P, V, T) /\ Evolves(s, a)
      /\ a.makes = s.makes /\ a.timeouts \subseteq s.timeouts
      /\ a.round = IF qc.round < s.round THEN s.round ELSE qc.round + 1
  <2>1. a \in LocalState
    BY <1>1, AdvanceRoundType
  <2>2. NodeOk(n, a, P, V, T) /\ Evolves(s, a)
    BY <1>1, AdvanceRoundOk
  <2>3. /\ a.makes = s.makes /\ a.timeouts \subseteq s.timeouts
        /\ a.round = IF qc.round < s.round THEN s.round ELSE qc.round + 1
    BY <1>1 DEF AdvanceRound, LocalState
  <2> QED
    BY <2>1, <2>2, <2>3
<1> HIDE DEF a
<1>3. /\ NodeOk(n, x, P, V, T) /\ Evolves(a, x) /\ qc.round <= x.highQC.round
      /\ x.makes = a.makes /\ x.round = a.round /\ x.timeouts = a.timeouts
  BY <1>2, UpdateHighQCOk
<1>4. x = ProcessQC(s, qc)
  BY DEF ProcessQC, a
<1>5. x \in LocalState
  BY <1>4, ProcessQCType
<1>6. Evolves(s, x)
  BY <1>2, <1>3, <1>5, EvolvesTransitive
<1> QED
  BY <1>2, <1>3, <1>4, <1>6

\* A request is made in a round that is new to the replica.
LEMMA GenerateProposalOk ==
  ASSUME NEW n \in Node, NEW s \in LocalState, NEW tc \in TC,
         NEW P \in SUBSET Block, NEW V, NEW T, NodeOk(n, s, P, V, T), TCOk(T, tc),
         \A b \in P : b.author = Leader(b.round),
         \A m \in s.makes : m.round < s.round,
         \A b \in P : b.author = n => b.round < s.round
  PROVE  /\ NodeOk(n, GenerateProposalIfLeader(n, s, tc), P, V, T)
         /\ Evolves(s, GenerateProposalIfLeader(n, s, tc))
<1> DEFINE m0 == [round |-> s.round, qc |-> s.highQC, tc |-> tc]
           x == [s EXCEPT !.makes = @ \cup {m0}]
<1>1. s.round \in Nat /\ s.highQC.round \in Nat /\ s.lastVotedRound \in Nat
  BY DEF LocalState, QC
<1>2. Evolves(s, s)
  BY <1>1 DEF Evolves
<1>3. ASSUME n = Leader(s.round)
      PROVE  NodeOk(n, x, P, V, T) /\ Evolves(s, x)
  <2>1. /\ x.makes = s.makes \cup {m0}
        /\ x.round = s.round /\ x.highQC = s.highQC
        /\ x.loopback = s.loopback /\ x.suspended = s.suspended
      /\ x.pending = s.pending /\ x.cancelled = s.cancelled
        /\ x.lastVotedRound = s.lastVotedRound
        /\ x.votes = s.votes /\ x.timeouts = s.timeouts
    BY DEF LocalState
  <2> HIDE DEF x
  <2>2. m0.round = s.round /\ m0.qc = s.highQC /\ m0.tc = tc
    OBVIOUS
  <2> HIDE DEF m0
  <2>3. \A b \in P : b.round # m0.round
    <3>1. \A b \in P : b.round \in Nat
      BY DEF Block
    <3> QED
      BY <1>1, <1>3, <2>2, <3>1
  <2>4. \A m \in s.makes : m.round \in Nat /\ m.round # m0.round
    BY <1>1, <2>2 DEF LocalState, Make
  <2>5. /\ m0.round <= x.round /\ m0.qc.round <= x.highQC.round
        /\ n = Leader(m0.round) /\ QCOk(V, m0.qc) /\ TCOk(T, m0.tc)
    BY <1>1, <1>3, <2>1, <2>2 DEF NodeOk
  <2>6. MakesOk(n, x, P, V, T)
    <3>1. ASSUME NEW m \in x.makes
          PROVE  /\ n = Leader(m.round)
                 /\ m.round <= x.round
                 /\ m.qc.round <= x.highQC.round
                 /\ QCOk(V, m.qc)
                 /\ TCOk(T, m.tc)
                 /\ \A b \in P : b.round # m.round
      BY <2>1, <2>3, <2>5 DEF NodeOk, MakesOk
    <3>2. \A m, y \in x.makes : m.round = y.round => m = y
      BY <2>1, <2>4 DEF NodeOk, MakesOk
    <3>3. \A b \in P : b.author = n => b.round <= x.round
      BY <2>1 DEF NodeOk, MakesOk
    <3> QED
      BY <3>1, <3>2, <3>3 DEF MakesOk
  <2>7. HeldOk(x, P) /\ VotesOk(x, V) /\ TimeoutsOk(x, T)
    BY <2>1 DEF NodeOk, HeldOk, HeldBlocks, VotesOk, TimeoutsOk
  <2>8. NodeOk(n, x, P, V, T)
    BY <2>1, <2>6, <2>7 DEF NodeOk
  <2> QED
    BY <1>1, <2>1, <2>8 DEF Evolves
<1> QED
  BY <1>2, <1>3 DEF GenerateProposalIfLeader

LEMMA HandleVoteOk ==
  ASSUME NEW n \in Node, NEW s \in LocalState, NEW v \in Vote,
         NEW P \in SUBSET Block, NEW V \in SUBSET [vote : Vote, to : Node], NEW T,
         NodeOk(n, s, P, V, T), \A b \in P : b.author = Leader(b.round),
         \E m \in V : m.vote = v, v.round = v.hash.round
  PROVE  /\ NodeOk(n, HandleVote(n, s, v), P, V, T)
         /\ Evolves(s, HandleVote(n, s, v))
<1> DEFINE added == [s EXCEPT !.votes = @ \cup {v}]
           qc == [hash |-> v.hash, round |-> v.round]
           certified == ProcessQC(added, qc)
           voters == Voters(s, v.hash, v.round)
<1>1. s.round \in Nat /\ s.highQC.round \in Nat /\ s.lastVotedRound \in Nat
  BY DEF LocalState, QC
<1>2. Evolves(s, s)
  BY <1>1 DEF Evolves
<1>3. added \in LocalState
  BY DEF LocalState
<1>4. NodeOk(n, added, P, V, T) /\ Evolves(s, added) /\ added.round = s.round
      /\ added.makes = s.makes
  <2>1. /\ added.makes = s.makes /\ added.round = s.round /\ added.highQC = s.highQC
        /\ added.loopback = s.loopback /\ added.suspended = s.suspended
        /\ added.pending = s.pending /\ added.cancelled = s.cancelled
        /\ added.lastVotedRound = s.lastVotedRound
        /\ added.votes = s.votes \cup {v} /\ added.timeouts = s.timeouts
    BY DEF LocalState
  <2> HIDE DEF added
  <2>2. MakesOk(n, added, P, V, T)
    BY <2>1 DEF NodeOk, MakesOk
  <2>3. HeldOk(added, P) /\ VotesOk(added, V) /\ TimeoutsOk(added, T)
    BY <2>1 DEF NodeOk, HeldOk, HeldBlocks, VotesOk, TimeoutsOk
  <2> QED
    BY <1>1, <2>1, <2>2, <2>3 DEF NodeOk, Evolves
<1>5. ASSUME IsQuorum(voters \cup {v.author}), ~(v.round < s.round)
      PROVE  /\ NodeOk(n, GenerateProposalIfLeader(n, certified, NoTC), P, V, T)
             /\ Evolves(s, GenerateProposalIfLeader(n, certified, NoTC))
  <2>1. qc \in QC /\ qc.hash = v.hash /\ qc.round = v.round /\ v.round \in Nat
    BY DEF QC, Vote
  <2>2. QCOk(V, qc)
    <3>1. voters \cup {v.author} \subseteq SignersIn(V, v.hash, v.round)
      BY DEF Voters, SignersIn, NodeOk, VotesOk
    <3>2. voters \cup {v.author} \in SUBSET Node
      BY <3>1, SignersType
    <3>3. IsQuorum(SignersIn(V, v.hash, v.round))
      BY <1>5, <3>1, <3>2, SignersType, QuorumGrows
    <3> QED
      BY <2>1, <3>3 DEF QCOk
  <2> HIDE DEF added, qc
  <2>3. certified \in LocalState
    BY <1>3, <2>1, ProcessQCType
  <2>4. NodeOk(n, certified, P, V, T) /\ Evolves(added, certified)
    BY <1>3, <1>4, <2>1, <2>2, ProcessQCOk
  <2>5. /\ certified.makes = added.makes
        /\ certified.round = IF qc.round < added.round THEN added.round ELSE qc.round + 1
    BY <1>3, <1>4, <2>1, <2>2, ProcessQCOk
  <2>6. certified.round > s.round
    BY <1>1, <1>4, <1>5, <2>1, <2>5
  <2> HIDE DEF certified
  <2>7. \A m \in certified.makes : m.round < certified.round
    <3>1. \A m \in s.makes : m.round \in Nat /\ m.round <= s.round
      BY DEF NodeOk, MakesOk, LocalState, Make
    <3> QED
      BY <1>1, <1>4, <2>3, <2>5, <2>6, <3>1 DEF LocalState
  <2>8. \A b \in P : b.author = n => b.round < certified.round
    <3>1. \A b \in P : b.round \in Nat /\ (b.author = n => b.round <= s.round)
      BY DEF NodeOk, MakesOk, Block
    <3> QED
      BY <1>1, <2>3, <2>6, <3>1 DEF LocalState
  <2>9. TCOk(T, NoTC) /\ NoTC \in TC
    BY CertificateTypes DEF TCOk
  <2>10. /\ NodeOk(n, GenerateProposalIfLeader(n, certified, NoTC), P, V, T)
         /\ Evolves(certified, GenerateProposalIfLeader(n, certified, NoTC))
    BY <2>3, <2>4, <2>7, <2>8, <2>9, GenerateProposalOk
  <2>11. GenerateProposalIfLeader(n, certified, NoTC) \in LocalState
    BY <2>3, <2>9, GenerateProposalType
  <2> QED
    BY <1>3, <1>4, <2>3, <2>4, <2>10, <2>11, EvolvesTransitive
<1> QED
  BY <1>2, <1>4, <1>5 DEF HandleVote

LEMMA CatchUpOk ==
  ASSUME NEW n, NEW s \in LocalState, NEW b \in Block,
         NEW P \in SUBSET Block, NEW V, NEW T, NodeOk(n, s, P, V, T), QCOk(V, b.qc)
  PROVE  /\ NodeOk(n, CatchUp(s, b), P, V, T)
         /\ Evolves(s, CatchUp(s, b))
         /\ b.qc.round <= CatchUp(s, b).highQC.round
<1> DEFINE a == ProcessQC(s, b.qc)
           x == AdvanceRound(a, b.tc.round)
<1>1. b.qc \in QC /\ b.tc.round \in Nat
  BY DEF Block, TC
<1>2. a \in LocalState
  BY <1>1, ProcessQCType
<1>3. NodeOk(n, a, P, V, T) /\ Evolves(s, a) /\ b.qc.round <= a.highQC.round
  BY <1>1, ProcessQCOk
<1>4. x \in LocalState /\ x.highQC = a.highQC
  BY <1>1, <1>2, AdvanceRoundType DEF AdvanceRound, LocalState
<1>5. NodeOk(n, x, P, V, T) /\ Evolves(a, x)
  BY <1>1, <1>2, <1>3, AdvanceRoundOk
<1>6. Evolves(s, x)
  BY <1>2, <1>3, <1>4, <1>5, EvolvesTransitive
<1> HIDE DEF a
<1>7. CatchUp(s, b) = IF b.tc # NoTC THEN x ELSE a
  BY DEF CatchUp, a
<1> HIDE DEF x
<1> QED
  BY <1>3, <1>4, <1>5, <1>6, <1>7

LEMMA AddTimeoutOk ==
  ASSUME NEW n, NEW s \in LocalState, NEW t \in Timeout,
         NEW P \in SUBSET Block, NEW V, NEW T \in SUBSET Timeout,
         NodeOk(n, s, P, V, T), t \in T, t.highQC.round <= s.highQC.round,
         t.author \notin TimedOut(s, t.round)
  PROVE  /\ NodeOk(n, [s EXCEPT !.timeouts = @ \cup {t}], P, V, T)
         /\ Evolves(s, [s EXCEPT !.timeouts = @ \cup {t}])
<1> DEFINE x == [s EXCEPT !.timeouts = @ \cup {t}]
<1>1. s.round \in Nat /\ s.highQC.round \in Nat /\ s.lastVotedRound \in Nat
  BY DEF LocalState, QC
<1>2. /\ x.makes = s.makes /\ x.round = s.round /\ x.highQC = s.highQC
      /\ x.loopback = s.loopback /\ x.suspended = s.suspended
      /\ x.pending = s.pending /\ x.cancelled = s.cancelled
      /\ x.lastVotedRound = s.lastVotedRound
      /\ x.votes = s.votes /\ x.timeouts = s.timeouts \cup {t}
  BY DEF LocalState
<1> HIDE DEF x
<1>3. MakesOk(n, x, P, V, T)
  BY <1>2 DEF NodeOk, MakesOk
<1>4. HeldOk(x, P) /\ VotesOk(x, V)
  BY <1>2 DEF NodeOk, HeldOk, HeldBlocks, VotesOk
<1>5. TimeoutsOk(x, T)
  <2>1. \A u \in s.timeouts : ~(u.author = t.author /\ u.round = t.round)
    BY DEF TimedOut
  <2> QED
    BY <1>2, <2>1 DEF NodeOk, TimeoutsOk
<1>6. NodeOk(n, x, P, V, T)
  BY <1>2, <1>3, <1>4, <1>5 DEF NodeOk
<1> QED
  BY <1>1, <1>2, <1>6 DEF Evolves, x

\* A TC made at the threshold verifies.
LEMMA MakeTCOk ==
  ASSUME NEW s, NEW r, NEW T, TimeoutsOk(s, T), IsQuorum(TimedOut(s, r))
  PROVE  TCSigned(T, MakeTC(s, r))
<1> DEFINE tc == MakeTC(s, r)
           ts == {x \in s.timeouts : x.round = r}
<1>1. tc.round = r /\ tc.votes = {[name |-> t.author, round |-> t.highQC.round] : t \in ts}
  BY DEF MakeTC
<1>2. \A v \in tc.votes : \E t \in ts : v.name = t.author /\ v.round = t.highQC.round
                                        /\ v = [name |-> t.author, round |-> t.highQC.round]
  BY <1>1
<1>3. \A t \in ts : [name |-> t.author, round |-> t.highQC.round] \in tc.votes
  BY <1>1
<1> HIDE DEF tc
<1>4. \A v, w \in tc.votes : v.name = w.name => v = w
  BY <1>2 DEF TimeoutsOk
<1>5. \A v \in tc.votes : \E t \in T :
        t.author = v.name /\ t.round = tc.round /\ t.highQC.round = v.round
  BY <1>1, <1>2 DEF TimeoutsOk
<1>6. {v.name : v \in tc.votes} = TimedOut(s, r)
  <2>1. \A v \in tc.votes : v.name \in TimedOut(s, r)
    BY <1>2 DEF TimedOut
  <2>2. \A a \in TimedOut(s, r) : \E v \in tc.votes : v.name = a
    <3> SUFFICES ASSUME NEW a \in TimedOut(s, r) PROVE \E v \in tc.votes : v.name = a
      OBVIOUS
    <3>1. PICK t \in ts : t.author = a
      BY DEF TimedOut
    <3>2. [name |-> t.author, round |-> t.highQC.round].name = a
      BY <3>1
    <3> QED
      BY <1>3, <3>1, <3>2
  <2> QED
    BY <2>1, <2>2
<1>7. TCSigned(T, tc)
  BY <1>4, <1>5, <1>6 DEF TCSigned
<1> QED
  BY <1>7 DEF tc

LEMMA NoTCUnsigned == \A T : ~TCSigned(T, NoTC)
<1>1. {v.name : v \in NoTC.votes} = {}
  BY DEF NoTC
<1>2. ~IsQuorum({})
  BY WeightLaws, ThresholdBounds DEF IsQuorum
<1> QED
  BY <1>1, <1>2 DEF TCSigned
-----------------------------------------------------------------------------
(* The inductive invariant.                                                  *)

\* A replica's votes and timeouts are bounded by what it remembers of them, and
\* it holds a QC as high as that of any block it voted for.
PromisesOk(n, s, P, V, T) ==
  /\ \A m \in V : m.vote.author = n =>
        /\ m.vote.round <= s.lastVotedRound
        /\ \E b \in P : BlockDigest(b) = m.vote.hash /\ b.qc.round <= s.highQC.round
  /\ \A t \in T : t.author = n => t.round <= s.lastVotedRound

ProposedOnce(P) == \A b, c \in P : b.round = c.round => b = c
ProposalsOk(P, V, T) ==
  \A b \in P : b.author = Leader(b.round) /\ QCOk(V, b.qc) /\ TCOk(T, b.tc)
CastOk(P, V) ==
  \A m \in V : /\ m.vote.round = m.vote.hash.round
               /\ \E b \in P : BlockDigest(b) = m.vote.hash /\ SafetyRule2(b)
LocksOk(P, V, T) ==
  \A t \in T, m \in V, b \in P :
    (/\ m.vote.author = t.author
     /\ m.vote.hash = BlockDigest(b)
     /\ b.round <= t.round) => b.qc.round <= t.highQC.round

ReplicasOk ==
  \A n \in Node : /\ NodeOk(n, core[n], proposals, voteMsgs, timeoutMsgs)
                  /\ PromisesOk(n, core[n], proposals, voteMsgs, timeoutMsgs)
NetworkOk ==
  /\ ProposedOnce(proposals)
  /\ ProposalsOk(proposals, voteMsgs, timeoutMsgs)
  /\ CastOk(proposals, voteMsgs)
  /\ \A t \in timeoutMsgs : QCOk(voteMsgs, t.highQC)
  /\ LocksOk(proposals, voteMsgs, timeoutMsgs)
  /\ \A tc \in tcMsgs : TCSigned(timeoutMsgs, tc)

SafetyInv == TypeInv /\ ReplicasOk /\ NetworkOk
-----------------------------------------------------------------------------
(* A step of one replica, and what it leaves the others.                     *)

LEMMA NetworkTypes ==
  ASSUME TypeInv
  PROVE  /\ proposals \in SUBSET Block
         /\ voteMsgs \in SUBSET [vote : Vote, to : Node]
         /\ timeoutMsgs \in SUBSET Timeout
         /\ tcMsgs \in SUBSET TC
BY DEF TypeInv, TypeOK

LEMMA PromisesEvolve ==
  ASSUME NEW n, NEW s \in LocalState, NEW x \in LocalState, NEW P \in SUBSET Block,
         NEW V \in SUBSET [vote : Vote, to : Node], NEW T \in SUBSET Timeout,
         PromisesOk(n, s, P, V, T), Evolves(s, x)
  PROVE  PromisesOk(n, x, P, V, T)
<1>1. /\ s.lastVotedRound \in Nat /\ x.lastVotedRound \in Nat
      /\ s.highQC.round \in Nat /\ x.highQC.round \in Nat
  BY DEF LocalState, QC
<1>2. ASSUME NEW m \in V, m.vote.author = n
      PROVE  /\ m.vote.round <= x.lastVotedRound
             /\ \E b \in P : BlockDigest(b) = m.vote.hash /\ b.qc.round <= x.highQC.round
  <2>1. m.vote.round \in Nat /\ m.vote.round <= s.lastVotedRound
    BY <1>2 DEF PromisesOk, Vote
  <2>2. PICK b \in P : BlockDigest(b) = m.vote.hash /\ b.qc.round <= s.highQC.round
    BY <1>2 DEF PromisesOk
  <2>3. b.qc.round \in Nat
    BY DEF Block, QC
  <2> QED
    BY <1>1, <2>1, <2>2, <2>3 DEF Evolves
<1>3. ASSUME NEW t \in T, t.author = n
      PROVE  t.round <= x.lastVotedRound
  <2>1. t.round \in Nat /\ t.round <= s.lastVotedRound
    BY <1>3 DEF PromisesOk, Timeout
  <2> QED
    BY <1>1, <2>1 DEF Evolves
<1> QED
  BY <1>2, <1>3 DEF PromisesOk

\* The promises of a replica that sends nothing.
LEMMA PromisesGrow ==
  ASSUME NEW n, NEW s, NEW P, NEW Q, P \subseteq Q, NEW V, NEW W, NEW T, NEW U,
         \A m \in W \ V : m.vote.author # n,
         \A t \in U \ T : t.author # n,
         PromisesOk(n, s, P, V, T)
  PROVE  PromisesOk(n, s, Q, W, U)
BY DEF PromisesOk

LEMMA ReplicaStep ==
  ASSUME TypeInv, ReplicasOk, NEW n \in Node, NEW s \in LocalState,
         core' = [core EXCEPT ![n] = s],
         proposals \subseteq proposals',
         voteMsgs \subseteq voteMsgs', voteMsgs' \in SUBSET [vote : Vote, to : Node],
         timeoutMsgs \subseteq timeoutMsgs',
         \A b \in proposals' \ proposals : b.author = n /\ n = Leader(b.round),
         \A m \in voteMsgs' \ voteMsgs : m.vote.author = n,
         \A t \in timeoutMsgs' \ timeoutMsgs : t.author = n,
         NodeOk(n, s, proposals', voteMsgs', timeoutMsgs'),
         PromisesOk(n, s, proposals', voteMsgs', timeoutMsgs')
  PROVE  ReplicasOk'
<1>1. \A k \in Node : core'[k] = IF k = n THEN s ELSE core[k]
  BY DEF TypeInv, TypeOK
<1>2. ASSUME NEW k \in Node, k # n
      PROVE  /\ NodeOk(k, core[k], proposals', voteMsgs', timeoutMsgs')
             /\ PromisesOk(k, core[k], proposals', voteMsgs', timeoutMsgs')
  <2>1. /\ NodeOk(k, core[k], proposals, voteMsgs, timeoutMsgs)
        /\ PromisesOk(k, core[k], proposals, voteMsgs, timeoutMsgs)
    BY DEF ReplicasOk
  <2>2. \A b \in proposals' \ proposals : b.author # k /\ b.author = Leader(b.round)
    BY <1>2
  <2>3. NodeOk(k, core[k], proposals', voteMsgs', timeoutMsgs')
    BY <2>1, <2>2, NetworkTypes, NodeOkGrows
  <2>4. PromisesOk(k, core[k], proposals', voteMsgs', timeoutMsgs')
    BY <1>2, <2>1, PromisesGrow
  <2> QED
    BY <2>3, <2>4
<1>3. \A k \in Node : /\ NodeOk(k, core'[k], proposals', voteMsgs', timeoutMsgs')
                      /\ PromisesOk(k, core'[k], proposals', voteMsgs', timeoutMsgs')
  BY <1>1, <1>2
<1> QED
  BY <1>3 DEF ReplicasOk

\* A step that sends no proposal, vote or timeout.
LEMMA QuietStep ==
  ASSUME SafetyInv, NEW n \in Node, NEW s \in LocalState,
         core' = [core EXCEPT ![n] = s],
         UNCHANGED <<proposals, voteMsgs, timeoutMsgs>>,
         \A tc \in tcMsgs' : tc \in tcMsgs \/ TCSigned(timeoutMsgs, tc),
         NodeOk(n, s, proposals, voteMsgs, timeoutMsgs),
         Evolves(core[n], s)
  PROVE  ReplicasOk' /\ NetworkOk'
<1>1. /\ proposals' = proposals /\ voteMsgs' = voteMsgs /\ timeoutMsgs' = timeoutMsgs
      /\ TypeInv /\ ReplicasOk /\ NetworkOk
  BY DEF SafetyInv
<1>2. PromisesOk(n, s, proposals, voteMsgs, timeoutMsgs)
  BY <1>1, NetworkTypes, LocalFacts, PromisesEvolve DEF ReplicasOk
<1>3. ReplicasOk'
  BY <1>1, <1>2, NetworkTypes, ReplicaStep
<1>4. NetworkOk'
  <2>1. \A tc \in tcMsgs' : TCSigned(timeoutMsgs', tc)
    BY <1>1 DEF NetworkOk
  <2> QED
    BY <1>1, <2>1 DEF NetworkOk
<1> QED
  BY <1>3, <1>4

\* A local state that differs in what NodeOk does not look at, or holds less.
LEMMA NodeOkHoldsLess ==
  ASSUME NEW n, NEW s \in LocalState, NEW x \in LocalState, NEW P, NEW V, NEW T,
         NodeOk(n, s, P, V, T),
         x.round = s.round, x.highQC = s.highQC, x.makes = s.makes,
         x.votes = s.votes, x.timeouts = s.timeouts,
         s.lastVotedRound <= x.lastVotedRound,
         HeldBlocks(x) \subseteq HeldBlocks(s)
  PROVE  NodeOk(n, x, P, V, T) /\ Evolves(s, x)
<1>1. s.round \in Nat /\ s.highQC.round \in Nat
  BY DEF LocalState, QC
<1>2. MakesOk(n, x, P, V, T)
  BY DEF NodeOk, MakesOk
<1>3. HeldOk(x, P) /\ VotesOk(x, V) /\ TimeoutsOk(x, T)
  BY DEF NodeOk, HeldOk, VotesOk, TimeoutsOk
<1> QED
  BY <1>1, <1>2, <1>3 DEF NodeOk, Evolves

\* A replica holds back one more block.
LEMMA NodeOkHoldsMore ==
  ASSUME NEW n, NEW s \in LocalState, NEW x \in LocalState, NEW P, NEW V, NEW T,
         NodeOk(n, s, P, V, T),
         x.round = s.round, x.highQC = s.highQC, x.makes = s.makes,
         x.votes = s.votes, x.timeouts = s.timeouts,
         s.lastVotedRound <= x.lastVotedRound,
         NEW b \in P, b.qc.round <= s.highQC.round,
         HeldBlocks(x) \subseteq HeldBlocks(s) \cup {b}
  PROVE  NodeOk(n, x, P, V, T) /\ Evolves(s, x)
<1>1. s.round \in Nat /\ s.highQC.round \in Nat
  BY DEF LocalState, QC
<1>2. MakesOk(n, x, P, V, T)
  BY DEF NodeOk, MakesOk
<1>3. HeldOk(x, P) /\ VotesOk(x, V) /\ TimeoutsOk(x, T)
  BY DEF NodeOk, HeldOk, VotesOk, TimeoutsOk
<1> QED
  BY <1>1, <1>2, <1>3 DEF NodeOk, Evolves

\* The vote of a replica that promised nothing for the round of the block.
LEMMA VoteStep ==
  ASSUME SafetyInv, NEW n \in Node, NEW s \in LocalState, NEW b \in proposals,
         NodeOk(n, s, proposals, voteMsgs', timeoutMsgs),
         Evolves(core[n], s), b.round <= s.lastVotedRound,
         b.qc.round <= s.highQC.round,
         core[n].lastVotedRound < b.round, SafetyRule2(b), NEW next \in Node,
         core' = [core EXCEPT ![n] = s],
         voteMsgs' = voteMsgs \cup {[vote |-> NewVote(n, b), to |-> next]},
         UNCHANGED <<proposals, timeoutMsgs, tcMsgs>>
  PROVE  ReplicasOk' /\ NetworkOk'
<1> DEFINE v == NewVote(n, b)
           m == [vote |-> v, to |-> next]
<1>1. /\ proposals' = proposals /\ timeoutMsgs' = timeoutMsgs /\ tcMsgs' = tcMsgs
      /\ TypeInv /\ ReplicasOk /\ NetworkOk
  BY DEF SafetyInv
<1>2. /\ v.hash = BlockDigest(b) /\ v.round = b.round /\ v.author = n
      /\ v.hash.round = b.round
  BY DEF NewVote, BlockDigest
<1>3. b \in Block /\ b.round \in Nat /\ v \in Vote
  BY <1>1, NetworkTypes, CertificateTypes DEF Block
<1> HIDE DEF v
<1>4. m.vote = v /\ m \in [vote : Vote, to : Node]
  BY <1>3
<1>5. voteMsgs' = voteMsgs \cup {m}
  BY DEF v
<1> HIDE DEF m
<1>6. voteMsgs' \in SUBSET [vote : Vote, to : Node]
  BY <1>1, <1>4, <1>5, NetworkTypes
<1>7. core[n] \in LocalState /\ PromisesOk(n, core[n], proposals, voteMsgs, timeoutMsgs)
  BY <1>1, LocalFacts DEF ReplicasOk
<1>8. PromisesOk(n, s, proposals, voteMsgs', timeoutMsgs)
  <2>1. PromisesOk(n, s, proposals, voteMsgs, timeoutMsgs)
    BY <1>1, <1>7, NetworkTypes, PromisesEvolve
  <2> QED
    BY <1>2, <1>4, <1>5, <2>1 DEF PromisesOk
<1>9. ReplicasOk'
  BY <1>1, <1>2, <1>4, <1>5, <1>6, <1>8, ReplicaStep
<1>10. CastOk(proposals, voteMsgs')
  BY <1>1, <1>2, <1>4, <1>5 DEF NetworkOk, CastOk
<1>11. LocksOk(proposals, voteMsgs', timeoutMsgs)
  <2> SUFFICES ASSUME NEW t \in timeoutMsgs, NEW c \in proposals,
                      v.author = t.author, v.hash = BlockDigest(c), c.round <= t.round
               PROVE  FALSE
    BY <1>1, <1>4, <1>5 DEF NetworkOk, LocksOk
  <2>1. c.round = b.round
    BY <1>2 DEF BlockDigest
  <2>2. t.round <= core[n].lastVotedRound
    BY <1>2, <1>7 DEF PromisesOk
  <2>3. t.round \in Nat /\ core[n].lastVotedRound \in Nat
    BY <1>1, <1>7, NetworkTypes DEF Timeout, LocalState
  <2> QED
    BY <1>3, <2>1, <2>2, <2>3
<1>12. /\ \A qc : QCOk(voteMsgs, qc) => QCOk(voteMsgs', qc)
  BY <1>1, <1>5, <1>6, NetworkTypes, CertificatesGrow
<1>13. NetworkOk'
  BY <1>1, <1>10, <1>11, <1>12 DEF NetworkOk, ProposalsOk
<1> QED
  BY <1>9, <1>13

LEMMA AcceptOk ==
  ASSUME SafetyInv, NEW n \in Node, NEW s \in LocalState, Closed(s), NEW b \in proposals,
         NodeOk(n, s, proposals, voteMsgs, timeoutMsgs), Evolves(core[n], s),
         b.qc.round <= s.highQC.round, AcceptBlock(n, s, b),
         UNCHANGED <<proposals, timeoutMsgs, tcMsgs>>
  PROVE  ReplicasOk' /\ NetworkOk'
<1> DEFINE stored  == StoreBlock(s, b)
           head    == TwoChainHead(s, b)
           settled == IF IsTwoChain(s, b) THEN Commit(stored, head) ELSE stored
           voted   == IncreaseLastVotedRound(settled, b.round)
           vote    == NewVote(n, b)
           next    == Leader(settled.round + 1)
           after   == IF next = n THEN HandleVote(n, voted, vote) ELSE voted
<1>1. /\ TypeInv /\ core[n] \in LocalState /\ b \in Block /\ b.round \in Nat
      /\ b.qc.round \in Nat
  BY LocalFacts, NetworkTypes DEF SafetyInv, Block, QC
<1>2. settled \in LocalState
  <2>1. HasParent(s, b)
    BY DEF AcceptBlock
  <2>2. head.round \in Nat
    BY <2>1, GrandparentStored
  <2>3. stored \in LocalState
    BY <1>1, <2>1, StoreBlockClosed
  <2> QED
    BY <2>2, <2>3, CommitType
<1>3. /\ settled.round = s.round /\ settled.highQC = s.highQC /\ settled.makes = s.makes
      /\ settled.votes = s.votes /\ settled.timeouts = s.timeouts
      /\ settled.lastVotedRound = s.lastVotedRound
      /\ settled.loopback = s.loopback /\ settled.suspended = s.suspended
      /\ settled.pending \cup settled.cancelled \subseteq s.pending \cup s.cancelled
  BY DEF Commit, StoreBlock, LocalState
<1> HIDE DEF settled
<1>4. /\ NodeOk(n, settled, proposals, voteMsgs, timeoutMsgs)
      /\ Evolves(s, settled)
  <2>1. HeldBlocks(settled) \subseteq HeldBlocks(s)
    BY <1>3 DEF HeldBlocks
  <2>2. s.lastVotedRound <= settled.lastVotedRound
    BY <1>3 DEF LocalState
  <2> QED
    BY <1>2, <1>3, <2>1, <2>2, NodeOkHoldsLess
<1>5. Evolves(core[n], settled)
  BY <1>1, <1>2, <1>4, EvolvesTransitive
<1>6. CASE core' = [core EXCEPT ![n] = settled] /\ voteMsgs' = voteMsgs
  BY <1>2, <1>4, <1>5, <1>6, QuietStep
<1>7. CASE /\ CanVote(settled, b)
           /\ core' = [core EXCEPT ![n] = after]
           /\ voteMsgs' = voteMsgs \cup {[vote |-> vote, to |-> next]}
  <2>1. /\ settled.lastVotedRound < b.round /\ SafetyRule2(b)
        /\ settled.lastVotedRound \in Nat /\ settled.round \in Nat
        /\ settled.highQC.round \in Nat
    BY <1>1, <1>2, <1>7 DEF CanVote, SafetyRule1, LocalState, QC
  <2>2. vote \in Vote /\ next \in Node /\ vote.round = vote.hash.round
    <3>1. settled.round + 1 \in Nat
      BY <2>1
    <3>2. vote.round = vote.hash.round
      BY DEF NewVote, BlockDigest
    <3> QED
      BY <1>1, <3>1, <3>2, LeaderType, CertificateTypes
  <2>3. /\ voted \in LocalState
        /\ voted.round = settled.round /\ voted.highQC = settled.highQC
        /\ voted.makes = settled.makes /\ voted.votes = settled.votes
        /\ voted.timeouts = settled.timeouts
        /\ voted.lastVotedRound = b.round
        /\ HeldBlocks(voted) = HeldBlocks(settled)
    <3>1. voted \in LocalState
      BY <1>1, <1>2, IncreaseLastVotedType
    <3>2. voted = [settled EXCEPT !.lastVotedRound = b.round]
      BY <1>1, <1>2, <2>1 DEF IncreaseLastVotedRound, LocalState
    <3> QED
      BY <1>2, <3>1, <3>2 DEF LocalState, HeldBlocks
  <2> HIDE DEF voted, vote, next
  <2>4. /\ NodeOk(n, voted, proposals, voteMsgs, timeoutMsgs)
        /\ Evolves(settled, voted)
    <3>1. settled.lastVotedRound <= voted.lastVotedRound
      BY <1>1, <2>1, <2>3
    <3> QED
      BY <1>2, <1>4, <2>3, <3>1, NodeOkHoldsLess
  <2>5. Evolves(core[n], voted)
    BY <1>1, <1>2, <1>5, <2>3, <2>4, EvolvesTransitive
  <2>6. /\ voteMsgs \subseteq voteMsgs'
        /\ voteMsgs' \in SUBSET [vote : Vote, to : Node]
    BY <1>1, <1>7, <2>2, NetworkTypes
  <2>7. NodeOk(n, voted, proposals, voteMsgs', timeoutMsgs)
    BY <1>1, <2>4, <2>6, NetworkTypes, NodeOkGrows
  <2>8. \A c \in proposals : c.author = Leader(c.round)
    BY DEF SafetyInv, NetworkOk, ProposalsOk
  <2>9. \E m \in voteMsgs' : m.vote = vote
    <3> DEFINE m0 == [vote |-> vote, to |-> next]
    <3>1. m0.vote = vote /\ m0 \in voteMsgs'
      BY <1>7
    <3> HIDE DEF m0
    <3> QED
      BY <3>1
  <2>10. /\ NodeOk(n, HandleVote(n, voted, vote), proposals, voteMsgs', timeoutMsgs)
         /\ Evolves(voted, HandleVote(n, voted, vote))
    BY <1>1, <2>2, <2>3, <2>6, <2>7, <2>8, <2>9, NetworkTypes, HandleVoteOk
  <2>11. HandleVote(n, voted, vote) \in LocalState
    BY <2>2, <2>3, HandleVoteType
  <2>12. Evolves(voted, voted)
    BY <1>1, <2>1, <2>3 DEF Evolves
  <2>13. /\ after \in LocalState
         /\ NodeOk(n, after, proposals, voteMsgs', timeoutMsgs)
         /\ Evolves(voted, after)
    BY <2>3, <2>7, <2>10, <2>11, <2>12
  <2> HIDE DEF after
  <2>14. Evolves(core[n], after)
    BY <1>1, <2>3, <2>5, <2>13, EvolvesTransitive
  <2>15. b.round <= after.lastVotedRound /\ b.qc.round <= after.highQC.round
    <3>1. after.highQC.round \in Nat /\ s.highQC.round \in Nat
      BY <2>13 DEF LocalState, QC
    <3> QED
      BY <1>1, <1>3, <2>3, <2>13, <3>1 DEF Evolves
  <2>16. core[n].lastVotedRound < b.round
    <3>1. core[n].lastVotedRound \in Nat
      BY <1>1 DEF LocalState
    <3> QED
      BY <1>1, <1>5, <2>1, <3>1 DEF Evolves
  <2> QED
    BY <1>7, <2>1, <2>2, <2>13, <2>14, <2>15, <2>16, VoteStep DEF vote
<1> QED
  BY <1>6, <1>7 DEF AcceptBlock, settled

LEMMA ProcessOk ==
  ASSUME SafetyInv, NEW n \in Node, NEW s \in LocalState, Closed(s), NEW b \in proposals,
         NodeOk(n, s, proposals, voteMsgs, timeoutMsgs), Evolves(core[n], s),
         b.qc.round <= s.highQC.round, ProcessBlock(n, s, b),
         UNCHANGED <<proposals, timeoutMsgs, tcMsgs>>
  PROVE  ReplicasOk' /\ NetworkOk'
<1> DEFINE x == [s EXCEPT !.suspended = @ \cup {b}]
<1>1. CASE core' = [core EXCEPT ![n] = x] /\ voteMsgs' = voteMsgs
  <2>1. b \in Block /\ core[n] \in LocalState
    BY NetworkTypes, LocalFacts DEF SafetyInv
  <2>2. /\ x \in LocalState
        /\ x.round = s.round /\ x.highQC = s.highQC /\ x.makes = s.makes
        /\ x.votes = s.votes /\ x.timeouts = s.timeouts
        /\ s.lastVotedRound <= x.lastVotedRound
    BY <2>1 DEF LocalState
  <2>3. HeldBlocks(x) \subseteq HeldBlocks(s) \cup {b}
    BY DEF HeldBlocks, LocalState
  <2> HIDE DEF x
  <2>4. NodeOk(n, x, proposals, voteMsgs, timeoutMsgs) /\ Evolves(s, x)
    BY <2>2, <2>3, NodeOkHoldsMore
  <2>5. Evolves(core[n], x)
    BY <2>1, <2>2, <2>4, EvolvesTransitive
  <2> QED
    BY <1>1, <2>2, <2>4, <2>5, QuietStep
<1>2. CASE core' = [core EXCEPT ![n] = s] /\ voteMsgs' = voteMsgs
  BY <1>2, QuietStep
<1>3. CASE AcceptBlock(n, s, b)
  BY <1>3, AcceptOk
<1> QED
  BY <1>1, <1>2, <1>3 DEF ProcessBlock, SuspendBlock

\* The TC of a round that handleTimeout accepts moves the replica to a new round.
LEMMA HandleTimeoutOk ==
  ASSUME TypeInv, NEW n \in Node, NEW s \in LocalState, NEW t \in Timeout,
         NEW P \in SUBSET Block, NEW V, NEW T \in SUBSET Timeout,
         NodeOk(n, s, P, V, T), t \in T, QCOk(V, t.highQC),
         \A b \in P : b.author = Leader(b.round),
         HandleTimeout(n, s, t)
  PROVE  \E x \in LocalState :
            /\ core' = [core EXCEPT ![n] = x]
            /\ NodeOk(n, x, P, V, T)
            /\ Evolves(s, x)
            /\ \A tc \in tcMsgs' : tc \in tcMsgs \/ TCSigned(T, tc)
<1> DEFINE caughtUp == ProcessQC(s, t.highQC)
           added    == [caughtUp EXCEPT !.timeouts = @ \cup {t}]
           tc0      == MakeTC(added, t.round)
           moved    == AdvanceRound(added, t.round)
           after    == GenerateProposalIfLeader(n, moved, tc0)
<1>1. t.highQC \in QC /\ t.round \in Nat /\ t.highQC.round \in Nat /\ s.round \in Nat
  BY DEF Timeout, QC, LocalState
<1>2. /\ caughtUp \in LocalState
      /\ NodeOk(n, caughtUp, P, V, T) /\ Evolves(s, caughtUp)
      /\ t.highQC.round <= caughtUp.highQC.round
      /\ caughtUp.makes = s.makes
  BY <1>1, ProcessQCType, ProcessQCOk
<1>3. ~(t.round < s.round)
  BY <1>1 DEF HandleTimeout
<1> HIDE DEF caughtUp
<1>4. CASE core' = [core EXCEPT ![n] = caughtUp] /\ tcMsgs' = tcMsgs
  BY <1>2, <1>4
<1>5. ASSUME t.author \notin TimedOut(caughtUp, t.round)
      PROVE  /\ added \in LocalState
             /\ NodeOk(n, added, P, V, T) /\ Evolves(s, added)
             /\ added.round = caughtUp.round /\ added.makes = s.makes
  <2>1. /\ added \in LocalState
        /\ added.round = caughtUp.round /\ added.makes = s.makes
    BY <1>2 DEF LocalState
  <2>2. NodeOk(n, added, P, V, T) /\ Evolves(caughtUp, added)
    BY <1>2, <1>5, AddTimeoutOk
  <2> QED
    BY <1>2, <2>1, <2>2, EvolvesTransitive
<1> HIDE DEF added
<1>6. CASE /\ t.author \notin TimedOut(caughtUp, t.round)
           /\ core' = [core EXCEPT ![n] = added] /\ tcMsgs' = tcMsgs
  BY <1>5, <1>6
<1>7. CASE /\ t.author \notin TimedOut(caughtUp, t.round)
           /\ IsQuorum(TimedOut(added, t.round))
           /\ core' = [core EXCEPT ![n] = after]
           /\ tcMsgs' = tcMsgs \cup {tc0}
  <2>1. /\ added \in LocalState
        /\ NodeOk(n, added, P, V, T) /\ Evolves(s, added)
        /\ added.round = caughtUp.round /\ added.makes = s.makes
    BY <1>5, <1>7
  <2>2. tc0 \in TC /\ TCSigned(T, tc0)
    BY <1>1, <1>7, <2>1, MakeTCType, MakeTCOk DEF NodeOk
  <2>3. /\ moved \in LocalState
        /\ NodeOk(n, moved, P, V, T) /\ Evolves(added, moved)
    BY <1>1, <2>1, AdvanceRoundType, AdvanceRoundOk
  <2>4. /\ moved.makes = s.makes
        /\ moved.round = IF t.round < added.round THEN added.round ELSE t.round + 1
    BY <2>1 DEF AdvanceRound, LocalState
  <2>5. moved.round > s.round
    <3>1. caughtUp.round \in Nat /\ s.round <= caughtUp.round
      BY <1>2 DEF LocalState, Evolves
    <3> QED
      BY <1>1, <1>3, <2>1, <2>4, <3>1
  <2> HIDE DEF moved, tc0
  <2>6. moved.round \in Nat
    BY <2>3 DEF LocalState
  <2>7. \A m \in moved.makes : m.round < moved.round
    <3>1. \A m \in s.makes : m.round \in Nat /\ m.round <= s.round
      BY DEF NodeOk, MakesOk, LocalState, Make
    <3> QED
      BY <1>1, <2>4, <2>5, <2>6, <3>1
  <2>8. \A b \in P : b.author = n => b.round < moved.round
    <3>1. \A b \in P : b.round \in Nat /\ (b.author = n => b.round <= s.round)
      BY DEF NodeOk, MakesOk, Block
    <3> QED
      BY <1>1, <2>5, <2>6, <3>1
  <2>9. /\ NodeOk(n, after, P, V, T) /\ Evolves(moved, after)
        /\ after \in LocalState
    <3>1. TCOk(T, tc0)
      BY <2>2 DEF TCOk
    <3> QED
      BY <2>2, <2>3, <2>7, <2>8, <3>1, GenerateProposalOk, GenerateProposalType
  <2> HIDE DEF after
  <2>10. Evolves(s, moved)
    BY <2>1, <2>3, EvolvesTransitive
  <2>11. Evolves(s, after)
    BY <2>3, <2>9, <2>10, EvolvesTransitive
  <2> QED
    BY <1>7, <2>2, <2>9, <2>11
<1> QED
  BY <1>4, <1>6, <1>7 DEF HandleTimeout, caughtUp, added
-----------------------------------------------------------------------------
(* The actions.                                                              *)

LEMMA ReplicaFacts ==
  ASSUME SafetyInv, NEW n \in Node
  PROVE  /\ TypeInv /\ ReplicasOk /\ NetworkOk
         /\ core[n] \in LocalState /\ Closed(core[n])
         /\ NodeOk(n, core[n], proposals, voteMsgs, timeoutMsgs)
         /\ PromisesOk(n, core[n], proposals, voteMsgs, timeoutMsgs)
         /\ \A b \in proposals : b.author = Leader(b.round)
         /\ Evolves(core[n], core[n])
<1>1. core[n] \in LocalState /\ Closed(core[n])
  BY LocalFacts DEF SafetyInv
<1>2. Evolves(core[n], core[n])
  BY <1>1 DEF Evolves, LocalState, QC
<1> QED
  BY <1>1, <1>2 DEF SafetyInv, ReplicasOk, NetworkOk, ProposalsOk

LEMMA ReceiveProposalOk ==
  ASSUME SafetyInv, NEW n \in Node, NEW b \in proposals, ReceiveProposal(n, b)
  PROVE  ReplicasOk' /\ NetworkOk'
<1> DEFINE s == CatchUp(core[n], b)
           missing == b.payload \ s.batches
           waiting == [s EXCEPT !.pending = @ \cup {[block |-> b, missing |-> missing]}]
<1>1. b \in Block /\ QCOk(voteMsgs, b.qc)
  BY NetworkTypes DEF SafetyInv, NetworkOk, ProposalsOk
<1>2. /\ s \in LocalState /\ Closed(s)
      /\ NodeOk(n, s, proposals, voteMsgs, timeoutMsgs)
      /\ Evolves(core[n], s)
      /\ b.qc.round <= s.highQC.round
  <2>1. s \in LocalState /\ Closed(s)
    BY <1>1, ReplicaFacts, CatchUpType, StoreUnchanged, ClosedByStore
  <2> QED
    BY <1>1, <2>1, ReplicaFacts, NetworkTypes, CatchUpOk
<1> HIDE DEF s
<1>3. /\ waiting \in LocalState
      /\ NodeOk(n, waiting, proposals, voteMsgs, timeoutMsgs)
      /\ Evolves(core[n], waiting)
  <2>1. [block |-> b, missing |-> missing] \in Waiter
    BY <1>1 DEF Block, Waiter
  <2>2. [block |-> b, missing |-> missing].block = b
    OBVIOUS
  <2> HIDE DEF missing
  <2>3. /\ waiting \in LocalState
        /\ waiting.round = s.round /\ waiting.highQC = s.highQC
        /\ waiting.makes = s.makes /\ waiting.votes = s.votes
        /\ waiting.timeouts = s.timeouts
        /\ s.lastVotedRound <= waiting.lastVotedRound
        /\ waiting.loopback = s.loopback /\ waiting.suspended = s.suspended
        /\ waiting.cancelled = s.cancelled
        /\ waiting.pending = s.pending \cup {[block |-> b, missing |-> missing]}
    BY <1>2, <2>1 DEF LocalState
  <2> HIDE DEF waiting
  <2>4. HeldBlocks(waiting) \subseteq HeldBlocks(s) \cup {b}
    BY <2>2, <2>3 DEF HeldBlocks
  <2>5. NodeOk(n, waiting, proposals, voteMsgs, timeoutMsgs) /\ Evolves(s, waiting)
    BY <1>2, <2>3, <2>4, NodeOkHoldsMore
  <2> QED
    BY <1>2, <2>3, <2>5, ReplicaFacts, EvolvesTransitive
<1> HIDE DEF waiting
<1>4. proposals' = proposals /\ timeoutMsgs' = timeoutMsgs /\ tcMsgs' = tcMsgs
  BY DEF ReceiveProposal
<1>5. CASE core' = [core EXCEPT ![n] = s] /\ voteMsgs' = voteMsgs
  BY <1>2, <1>4, <1>5, QuietStep
<1>6. CASE core' = [core EXCEPT ![n] = waiting] /\ voteMsgs' = voteMsgs
  BY <1>3, <1>4, <1>6, QuietStep
<1>7. CASE ProcessBlock(n, s, b)
  BY <1>2, <1>4, <1>7, ProcessOk
<1> QED
  BY <1>5, <1>6, <1>7 DEF ReceiveProposal, waiting, s

LEMMA ReceiveVoteOk ==
  ASSUME SafetyInv, NEW n \in Node, NEW m \in voteMsgs, ReceiveVote(n, m)
  PROVE  ReplicasOk' /\ NetworkOk'
<1> DEFINE s == HandleVote(n, core[n], m.vote)
<1>1. m.vote \in Vote
  BY NetworkTypes DEF SafetyInv
<1>2. m.vote.round = m.vote.hash.round
  BY DEF SafetyInv, NetworkOk, CastOk
<1>3. s \in LocalState
  BY <1>1, ReplicaFacts, HandleVoteType
<1>4. NodeOk(n, s, proposals, voteMsgs, timeoutMsgs) /\ Evolves(core[n], s)
  BY <1>1, <1>2, ReplicaFacts, NetworkTypes, HandleVoteOk
<1> HIDE DEF s
<1> QED
  BY <1>3, <1>4, QuietStep DEF ReceiveVote, s

LEMMA ReceiveTimeoutOk ==
  ASSUME SafetyInv, NEW n \in Node, NEW t \in timeoutMsgs, ReceiveTimeout(n, t)
  PROVE  ReplicasOk' /\ NetworkOk'
<1>1. t \in Timeout /\ QCOk(voteMsgs, t.highQC)
  BY NetworkTypes DEF SafetyInv, NetworkOk
<1>2. HandleTimeout(n, core[n], t) /\ UNCHANGED <<proposals, voteMsgs, timeoutMsgs>>
  BY DEF ReceiveTimeout
<1>3. PICK x \in LocalState :
            /\ core' = [core EXCEPT ![n] = x]
            /\ NodeOk(n, x, proposals, voteMsgs, timeoutMsgs)
            /\ Evolves(core[n], x)
            /\ \A tc \in tcMsgs' : tc \in tcMsgs \/ TCSigned(timeoutMsgs, tc)
  BY <1>1, <1>2, ReplicaFacts, NetworkTypes, HandleTimeoutOk
<1> QED
  BY <1>2, <1>3, QuietStep

LEMMA ReceiveTCOk ==
  ASSUME SafetyInv, NEW n \in Node, NEW tc \in tcMsgs, ReceiveTC(n, tc)
  PROVE  ReplicasOk' /\ NetworkOk'
<1> DEFINE moved == AdvanceRound(core[n], tc.round)
           s == GenerateProposalIfLeader(n, moved, tc)
<1>1. /\ tc \in TC /\ tc.round \in Nat /\ TCOk(timeoutMsgs, tc)
      /\ core[n].round \in Nat /\ ~(tc.round < core[n].round)
  BY ReplicaFacts, NetworkTypes DEF SafetyInv, NetworkOk, TC, TCOk, LocalState, ReceiveTC
<1>2. /\ moved \in LocalState
      /\ NodeOk(n, moved, proposals, voteMsgs, timeoutMsgs) /\ Evolves(core[n], moved)
  BY <1>1, ReplicaFacts, NetworkTypes, AdvanceRoundType, AdvanceRoundOk
<1>3. moved.makes = core[n].makes /\ moved.round = tc.round + 1
  BY <1>1, ReplicaFacts DEF AdvanceRound, LocalState
<1> HIDE DEF moved
<1>4. \A m \in moved.makes : m.round < moved.round
  <2>1. \A m \in core[n].makes : m.round \in Nat /\ m.round <= core[n].round
    BY ReplicaFacts DEF NodeOk, MakesOk, LocalState, Make
  <2> QED
    BY <1>1, <1>3, <2>1
<1>5. \A b \in proposals : b.author = n => b.round < moved.round
  <2>1. \A b \in proposals : b.round \in Nat /\ (b.author = n => b.round <= core[n].round)
    BY ReplicaFacts, NetworkTypes DEF NodeOk, MakesOk, Block
  <2> QED
    BY <1>1, <1>3, <2>1
<1>6. /\ s \in LocalState
      /\ NodeOk(n, s, proposals, voteMsgs, timeoutMsgs) /\ Evolves(moved, s)
  BY <1>1, <1>2, <1>4, <1>5, ReplicaFacts, NetworkTypes, GenerateProposalType,
     GenerateProposalOk
<1> HIDE DEF s
<1>7. Evolves(core[n], s)
  BY <1>2, <1>6, ReplicaFacts, EvolvesTransitive
<1>8. core' = [core EXCEPT ![n] = s] /\ UNCHANGED <<proposals, voteMsgs, timeoutMsgs, tcMsgs>>
  BY DEF ReceiveTC, s, moved
<1> QED
  BY <1>6, <1>7, <1>8, QuietStep

LEMMA ReceiveLoopbackOk ==
  ASSUME SafetyInv, NEW n \in Node, NEW b \in core[n].loopback, ReceiveLoopback(n, b)
  PROVE  ReplicasOk' /\ NetworkOk'
<1> DEFINE s == [core[n] EXCEPT !.loopback = @ \ {b}]
<1>1. b \in proposals /\ b.qc.round <= core[n].highQC.round
  BY ReplicaFacts DEF NodeOk, HeldOk, HeldBlocks
<1>2. /\ s \in LocalState /\ s.store = core[n].store
      /\ s.round = core[n].round /\ s.highQC = core[n].highQC
      /\ s.makes = core[n].makes /\ s.votes = core[n].votes
      /\ s.timeouts = core[n].timeouts
      /\ core[n].lastVotedRound <= s.lastVotedRound
      /\ s.loopback \subseteq core[n].loopback /\ s.suspended = core[n].suspended
      /\ s.pending = core[n].pending /\ s.cancelled = core[n].cancelled
  BY ReplicaFacts DEF LocalState
<1> HIDE DEF s
<1>3. HeldBlocks(s) \subseteq HeldBlocks(core[n])
  BY <1>2 DEF HeldBlocks
<1>4. /\ NodeOk(n, s, proposals, voteMsgs, timeoutMsgs) /\ Evolves(core[n], s)
      /\ Closed(s)
  BY <1>2, <1>3, ReplicaFacts, NodeOkHoldsLess, ClosedByStore
<1>5. ProcessBlock(n, s, b) /\ UNCHANGED <<proposals, timeoutMsgs, tcMsgs>>
  BY DEF ReceiveLoopback, s
<1> QED
  BY <1>1, <1>2, <1>4, <1>5, ProcessOk

\* The lock of a new timeout is the highest QC its author holds, and it holds
\* the QC of every block it voted for.
LEMMA LocalTimeoutOk ==
  ASSUME SafetyInv, NEW n \in Node, LocalTimeout(n)
  PROVE  ReplicasOk' /\ NetworkOk'
<1> DEFINE c == core[n]
           s == IncreaseLastVotedRound(c, c.round)
           t == [highQC |-> s.highQC, round |-> s.round, author |-> n]
<1>1. /\ c \in LocalState /\ c.round \in Nat /\ c.lastVotedRound \in Nat
      /\ c.highQC \in QC /\ c.highQC.round \in Nat
  BY ReplicaFacts DEF LocalState, QC
<1>2. /\ s \in LocalState /\ s.round = c.round /\ s.highQC = c.highQC
      /\ s.makes = c.makes /\ s.votes = c.votes /\ s.timeouts = c.timeouts
      /\ c.lastVotedRound <= s.lastVotedRound /\ c.round <= s.lastVotedRound
      /\ HeldBlocks(s) \subseteq HeldBlocks(c)
  <2>1. s \in LocalState
    BY <1>1, IncreaseLastVotedType
  <2>2. s = [c EXCEPT !.lastVotedRound = s.lastVotedRound]
    BY <1>1 DEF IncreaseLastVotedRound, LocalState
  <2>3. s.lastVotedRound = IF c.round > c.lastVotedRound THEN c.round ELSE c.lastVotedRound
    BY <1>1 DEF IncreaseLastVotedRound, LocalState
  <2>4. c.lastVotedRound <= s.lastVotedRound /\ c.round <= s.lastVotedRound
    BY <1>1, <2>3
  <2> HIDE DEF s
  <2>5. /\ s.round = c.round /\ s.highQC = c.highQC
        /\ s.makes = c.makes /\ s.votes = c.votes /\ s.timeouts = c.timeouts
        /\ s.loopback = c.loopback /\ s.suspended = c.suspended
        /\ s.pending = c.pending /\ s.cancelled = c.cancelled
    BY <1>1, <2>2 DEF LocalState
  <2> QED
    BY <2>1, <2>4, <2>5 DEF HeldBlocks
<1>3. /\ t \in Timeout /\ t.highQC = c.highQC /\ t.round = c.round /\ t.author = n
  BY <1>1, <1>2 DEF Timeout
<1>4. /\ HandleTimeout(n, s, t) /\ timeoutMsgs' = timeoutMsgs \cup {t}
      /\ proposals' = proposals /\ voteMsgs' = voteMsgs
  BY DEF LocalTimeout
<1> HIDE DEF s, t
<1>5. NodeOk(n, s, proposals, voteMsgs, timeoutMsgs) /\ Evolves(c, s)
  BY <1>2, ReplicaFacts, NodeOkHoldsLess
<1>6. NodeOk(n, s, proposals, voteMsgs, timeoutMsgs')
  BY <1>4, <1>5, ReplicaFacts, NetworkTypes, NodeOkGrows
<1>7. timeoutMsgs' \in SUBSET Timeout
  BY <1>3, <1>4, ReplicaFacts, NetworkTypes
<1>8. QCOk(voteMsgs, t.highQC)
  BY <1>3, ReplicaFacts DEF NodeOk
<1>9. PICK x \in LocalState :
            /\ core' = [core EXCEPT ![n] = x]
            /\ NodeOk(n, x, proposals, voteMsgs, timeoutMsgs')
            /\ Evolves(s, x)
            /\ \A tc \in tcMsgs' : tc \in tcMsgs \/ TCSigned(timeoutMsgs', tc)
  BY <1>2, <1>3, <1>4, <1>6, <1>7, <1>8, ReplicaFacts, NetworkTypes, HandleTimeoutOk
<1>10. Evolves(c, x)
  BY <1>1, <1>2, <1>5, <1>9, EvolvesTransitive
<1>11. PromisesOk(n, x, proposals, voteMsgs, timeoutMsgs')
  <2>1. PromisesOk(n, x, proposals, voteMsgs, timeoutMsgs)
    BY <1>10, ReplicaFacts, NetworkTypes, PromisesEvolve
  <2>2. t.round <= x.lastVotedRound
    <3>1. s.lastVotedRound \in Nat /\ x.lastVotedRound \in Nat
      BY <1>2, <1>9 DEF LocalState
    <3> QED
      BY <1>1, <1>2, <1>3, <1>9, <3>1 DEF Evolves
  <2> QED
    BY <1>4, <2>1, <2>2 DEF PromisesOk
<1>12. ReplicasOk'
  <2>1. \A u \in timeoutMsgs' \ timeoutMsgs : u.author = n
    BY <1>3, <1>4
  <2> QED
    BY <1>4, <1>9, <1>11, <2>1, ReplicaFacts, NetworkTypes, ReplicaStep
<1>13. LocksOk(proposals, voteMsgs, timeoutMsgs')
  <2> SUFFICES ASSUME NEW m \in voteMsgs, NEW b \in proposals,
                      m.vote.author = n, m.vote.hash = BlockDigest(b)
               PROVE  b.qc.round <= t.highQC.round
    BY <1>3, <1>4 DEF SafetyInv, NetworkOk, LocksOk
  <2>1. PICK d \in proposals :
          BlockDigest(d) = m.vote.hash /\ d.qc.round <= c.highQC.round
    BY ReplicaFacts DEF PromisesOk
  <2>2. d.round = b.round
    BY <2>1 DEF BlockDigest
  <2>3. d = b
    BY <2>2 DEF SafetyInv, NetworkOk, ProposedOnce
  <2> QED
    BY <1>3, <2>1, <2>3
<1>14. NetworkOk'
  <2>1. /\ \A tc : TCSigned(timeoutMsgs, tc) => TCSigned(timeoutMsgs', tc)
        /\ \A tc : TCOk(timeoutMsgs, tc) => TCOk(timeoutMsgs', tc)
    BY <1>4, ReplicaFacts, NetworkTypes, CertificatesGrow
  <2>2. /\ ProposedOnce(proposals) /\ CastOk(proposals, voteMsgs)
        /\ ProposalsOk(proposals, voteMsgs, timeoutMsgs)
        /\ \A u \in timeoutMsgs : QCOk(voteMsgs, u.highQC)
        /\ \A tc \in tcMsgs : TCSigned(timeoutMsgs, tc)
    BY DEF SafetyInv, NetworkOk
  <2>3. ProposalsOk(proposals, voteMsgs, timeoutMsgs')
    BY <2>1, <2>2 DEF ProposalsOk
  <2>4. \A u \in timeoutMsgs' : QCOk(voteMsgs, u.highQC)
    BY <1>4, <1>8, <2>2
  <2>5. \A tc \in tcMsgs' : TCSigned(timeoutMsgs', tc)
    BY <1>9, <2>1, <2>2
  <2> QED
    BY <1>4, <1>13, <2>2, <2>3, <2>4, <2>5 DEF NetworkOk
<1> QED
  BY <1>12, <1>14

LEMMA ProposeOk ==
  ASSUME SafetyInv, NEW n \in Node, Propose(n)
  PROVE  ReplicasOk' /\ NetworkOk'
<1>1. PICK m \in core[n].makes, payload \in SUBSET core[n].batches :
        LET b == [author |-> n, round |-> m.round, payload |-> payload,
                  qc |-> m.qc, tc |-> m.tc]
        IN  /\ proposals' = proposals \cup {b}
            /\ core' = [core EXCEPT ![n].makes = @ \ {m}, ![n].loopback = @ \cup {b}]
            /\ UNCHANGED <<committed, voteMsgs, timeoutMsgs, tcMsgs>>
  BY DEF Propose
<1> DEFINE c == core[n]
           b == [author |-> n, round |-> m.round, payload |-> payload,
                 qc |-> m.qc, tc |-> m.tc]
           s == [c EXCEPT !.makes = @ \ {m}, !.loopback = @ \cup {b}]
<1>2. c \in LocalState /\ m \in Make /\ m.round \in Nat /\ payload \in SUBSET Batch
  BY ReplicaFacts DEF LocalState, Make
<1>3. /\ n = Leader(m.round) /\ m.round <= c.round /\ m.qc.round <= c.highQC.round
      /\ QCOk(voteMsgs, m.qc) /\ TCOk(timeoutMsgs, m.tc)
      /\ \A d \in proposals : d.round # m.round
      /\ \A x \in c.makes : x.round = m.round => x = m
  BY ReplicaFacts DEF NodeOk, MakesOk
<1>4. /\ b \in Block /\ b.author = n /\ b.round = m.round /\ b.qc = m.qc /\ b.tc = m.tc
      /\ BlockDigest(b).round = m.round
  BY <1>2 DEF Make, Block, BlockDigest
<1>5. core' = [core EXCEPT ![n] = s]
  BY <1>1, ReplicaFacts DEF TypeInv, TypeOK
<1>6. /\ proposals' = proposals \cup {b} /\ voteMsgs' = voteMsgs
      /\ timeoutMsgs' = timeoutMsgs /\ tcMsgs' = tcMsgs
  BY <1>1
<1> HIDE DEF b
<1>7. /\ s \in LocalState /\ s.round = c.round /\ s.highQC = c.highQC
      /\ s.makes = c.makes \ {m} /\ s.votes = c.votes /\ s.timeouts = c.timeouts
      /\ s.lastVotedRound = c.lastVotedRound
      /\ s.loopback = c.loopback \cup {b} /\ s.suspended = c.suspended
      /\ s.pending = c.pending /\ s.cancelled = c.cancelled
  BY <1>2, <1>4 DEF LocalState
<1> HIDE DEF s
<1>8. proposals \subseteq proposals' /\ proposals' \in SUBSET Block
  BY <1>4, <1>6, ReplicaFacts, NetworkTypes
<1>9. NodeOk(n, s, proposals', voteMsgs, timeoutMsgs)
  <2>1. MakesOk(n, s, proposals', voteMsgs, timeoutMsgs)
    BY <1>3, <1>4, <1>6, <1>7, ReplicaFacts DEF NodeOk, MakesOk
  <2>2. HeldOk(s, proposals')
    BY <1>3, <1>4, <1>6, <1>7, ReplicaFacts DEF NodeOk, HeldOk, HeldBlocks
  <2>3. VotesOk(s, voteMsgs) /\ TimeoutsOk(s, timeoutMsgs)
    BY <1>7, ReplicaFacts DEF NodeOk, VotesOk, TimeoutsOk
  <2> QED
    BY <1>7, <2>1, <2>2, <2>3, ReplicaFacts DEF NodeOk
<1>10. PromisesOk(n, s, proposals', voteMsgs, timeoutMsgs)
  BY <1>7, <1>8, ReplicaFacts DEF PromisesOk
<1>11. ReplicasOk'
  <2>1. \A d \in proposals' \ proposals : d.author = n /\ n = Leader(d.round)
    BY <1>3, <1>4, <1>6
  <2> QED
    BY <1>5, <1>6, <1>7, <1>8, <1>9, <1>10, <2>1, ReplicaFacts, NetworkTypes, ReplicaStep
<1>12. ProposedOnce(proposals')
  BY <1>3, <1>4, <1>6 DEF SafetyInv, NetworkOk, ProposedOnce
<1>13. ProposalsOk(proposals', voteMsgs, timeoutMsgs)
  BY <1>3, <1>4, <1>6 DEF SafetyInv, NetworkOk, ProposalsOk
<1>14. CastOk(proposals', voteMsgs)
  BY <1>8 DEF SafetyInv, NetworkOk, CastOk
<1>15. LocksOk(proposals', voteMsgs, timeoutMsgs)
  \* nobody has voted for a block of this round
  <2>1. ASSUME NEW x \in voteMsgs PROVE x.vote.hash # BlockDigest(b)
    <3>1. PICK d \in proposals : BlockDigest(d) = x.vote.hash
      BY DEF SafetyInv, NetworkOk, CastOk
    <3>2. BlockDigest(d).round = d.round
      BY DEF BlockDigest
    <3> QED
      BY <1>3, <1>4, <3>1, <3>2
  <2> QED
    BY <1>6, <2>1 DEF SafetyInv, NetworkOk, LocksOk
<1>16. NetworkOk'
  BY <1>6, <1>12, <1>13, <1>14, <1>15 DEF SafetyInv, NetworkOk
<1> QED
  BY <1>11, <1>16

LEMMA ResumeBlockOk ==
  ASSUME SafetyInv, NEW n \in Node, NEW b \in core[n].suspended, ResumeBlock(n, b)
  PROVE  ReplicasOk' /\ NetworkOk'
<1> DEFINE s == [core[n] EXCEPT !.suspended = @ \ {b}, !.loopback = @ \cup {b}]
<1>1. /\ s \in LocalState
      /\ s.round = core[n].round /\ s.highQC = core[n].highQC
      /\ s.makes = core[n].makes /\ s.votes = core[n].votes
      /\ s.timeouts = core[n].timeouts
      /\ core[n].lastVotedRound <= s.lastVotedRound
      /\ s.loopback = core[n].loopback \cup {b}
      /\ s.suspended \subseteq core[n].suspended
      /\ s.pending = core[n].pending /\ s.cancelled = core[n].cancelled
  <2>1. /\ core[n] \in LocalState /\ b \in Block
        /\ core[n].lastVotedRound <= core[n].lastVotedRound
    BY ReplicaFacts DEF LocalState
  <2>2. s \in LocalState
    BY <2>1 DEF LocalState
  <2> QED
    BY <2>1, <2>2 DEF LocalState
<1>2. core' = [core EXCEPT ![n] = s] /\ UNCHANGED <<proposals, voteMsgs, timeoutMsgs, tcMsgs>>
  BY ReplicaFacts DEF ResumeBlock, TypeInv, TypeOK
<1> HIDE DEF s
<1>3. HeldBlocks(s) \subseteq HeldBlocks(core[n])
  BY <1>1 DEF HeldBlocks
<1> QED
  BY <1>1, <1>2, <1>3, ReplicaFacts, NodeOkHoldsLess, QuietStep

LEMMA DeliverPayloadOk ==
  ASSUME SafetyInv, NEW n \in Node, NEW w \in core[n].pending \cup core[n].cancelled,
         DeliverPayload(n, w)
  PROVE  ReplicasOk' /\ NetworkOk'
<1> DEFINE rest == {x \in core[n].pending : BlockDigest(x.block) # BlockDigest(w.block)}
           s == [core[n] EXCEPT !.pending = rest, !.cancelled = @ \ {w},
                                !.loopback = @ \cup {w.block}]
<1>1. w.block \in Block /\ rest \subseteq core[n].pending /\ core[n] \in LocalState
  BY ReplicaFacts DEF LocalState, Waiter
<1> HIDE DEF rest
<1>2. /\ s \in LocalState
      /\ s.round = core[n].round /\ s.highQC = core[n].highQC
      /\ s.makes = core[n].makes /\ s.votes = core[n].votes
      /\ s.timeouts = core[n].timeouts
      /\ core[n].lastVotedRound <= s.lastVotedRound
      /\ s.loopback = core[n].loopback \cup {w.block}
      /\ s.suspended = core[n].suspended
      /\ s.pending \subseteq core[n].pending /\ s.cancelled \subseteq core[n].cancelled
  <2>1. s \in LocalState
    BY <1>1 DEF LocalState
  <2>2. core[n].lastVotedRound <= core[n].lastVotedRound
    BY <1>1 DEF LocalState
  <2> QED
    BY <1>1, <2>1, <2>2 DEF LocalState
<1>3. core' = [core EXCEPT ![n] = s] /\ UNCHANGED <<proposals, voteMsgs, timeoutMsgs, tcMsgs>>
  BY ReplicaFacts DEF DeliverPayload, TypeInv, TypeOK, rest
<1> HIDE DEF s
<1>4. HeldBlocks(s) \subseteq HeldBlocks(core[n])
  BY <1>2 DEF HeldBlocks
<1> QED
  BY <1>2, <1>3, <1>4, ReplicaFacts, NodeOkHoldsLess, QuietStep

LEMMA StoreBatchOk ==
  ASSUME SafetyInv, NEW n \in Node, NEW d \in Batch, StoreBatch(n, d)
  PROVE  ReplicasOk' /\ NetworkOk'
<1> DEFINE s == [core[n] EXCEPT !.batches = @ \cup {d}]
<1>1. /\ s \in LocalState
      /\ s.round = core[n].round /\ s.highQC = core[n].highQC
      /\ s.makes = core[n].makes /\ s.votes = core[n].votes
      /\ s.timeouts = core[n].timeouts
      /\ core[n].lastVotedRound <= s.lastVotedRound
      /\ s.loopback = core[n].loopback /\ s.suspended = core[n].suspended
      /\ s.pending = core[n].pending /\ s.cancelled = core[n].cancelled
  BY ReplicaFacts DEF LocalState
<1>2. core' = [core EXCEPT ![n] = s] /\ UNCHANGED <<proposals, voteMsgs, timeoutMsgs, tcMsgs>>
  BY ReplicaFacts DEF StoreBatch, TypeInv, TypeOK
<1> HIDE DEF s
<1>3. HeldBlocks(s) \subseteq HeldBlocks(core[n])
  BY <1>1 DEF HeldBlocks
<1> QED
  BY <1>1, <1>2, <1>3, ReplicaFacts, NodeOkHoldsLess, QuietStep
-----------------------------------------------------------------------------
(* The invariant holds.                                                      *)

LEMMA InitSafety == Init => SafetyInv
<1> SUFFICES ASSUME Init PROVE SafetyInv
  OBVIOUS
<1>1. TypeInv
  BY InitTypeInv
<1>2. /\ core = [n \in Node |-> InitialState(n)]
      /\ proposals = {} /\ voteMsgs = {} /\ timeoutMsgs = {} /\ tcMsgs = {}
  BY DEF Init
<1>3. ASSUME NEW n \in Node
      PROVE  /\ NodeOk(n, core[n], proposals, voteMsgs, timeoutMsgs)
             /\ PromisesOk(n, core[n], proposals, voteMsgs, timeoutMsgs)
  <2> DEFINE s == core[n]
             m0 == [round |-> 1, qc |-> GenesisQC, tc |-> NoTC]
  <2>1. /\ s.round = 1 /\ s.highQC = GenesisQC /\ s.votes = {} /\ s.timeouts = {}
        /\ s.suspended = {} /\ s.pending = {} /\ s.cancelled = {} /\ s.loopback = {}
        /\ s.makes = IF n = Leader(1) THEN {m0} ELSE {}
    BY <1>2 DEF InitialState
  <2>2. m0.round = 1 /\ m0.qc = GenesisQC /\ m0.tc = NoTC /\ GenesisQC.round = 0
    BY DEF GenesisQC
  <2> HIDE DEF s, m0
  <2>3. MakesOk(n, s, proposals, voteMsgs, timeoutMsgs)
    BY <1>2, <2>1, <2>2 DEF MakesOk, QCOk, TCOk
  <2>4. HeldOk(s, proposals) /\ VotesOk(s, voteMsgs) /\ TimeoutsOk(s, timeoutMsgs)
    BY <2>1 DEF HeldOk, HeldBlocks, VotesOk, TimeoutsOk
  <2>5. NodeOk(n, s, proposals, voteMsgs, timeoutMsgs)
    BY <2>1, <2>3, <2>4 DEF NodeOk, QCOk
  <2>6. PromisesOk(n, s, proposals, voteMsgs, timeoutMsgs)
    BY <1>2 DEF PromisesOk
  <2> QED
    BY <2>5, <2>6 DEF s
<1>4. NetworkOk
  BY <1>2 DEF NetworkOk, ProposedOnce, ProposalsOk, CastOk, LocksOk
<1> QED
  BY <1>1, <1>3, <1>4 DEF SafetyInv, ReplicasOk

LEMMA NextSafety == SafetyInv /\ [Next]_vars => SafetyInv'
<1> SUFFICES ASSUME SafetyInv, [Next]_vars PROVE SafetyInv'
  OBVIOUS
<1>1. TypeInv'
  BY NextTypeInv DEF SafetyInv
<1>2. CASE UNCHANGED vars
  BY <1>1, <1>2 DEF vars, SafetyInv, ReplicasOk, NetworkOk, SafetyRule2
<1>3. CASE Next
  <2>1. PICK n \in Node : Step(n)
    BY <1>3 DEF Next
  <2>2. ReplicasOk' /\ NetworkOk'
    BY <2>1, ReceiveProposalOk, ReceiveVoteOk, ReceiveTimeoutOk, ReceiveTCOk,
       ReceiveLoopbackOk, LocalTimeoutOk, ProposeOk, ResumeBlockOk,
       DeliverPayloadOk, StoreBatchOk DEF Step
  <2> QED
    BY <1>1, <2>2 DEF SafetyInv
<1> QED
  BY <1>2, <1>3

LEMMA SafetyInvHolds == Spec => []SafetyInv
BY InitSafety, NextSafety, PTL DEF Spec
-----------------------------------------------------------------------------
(* What follows from it.                                                     *)

\* generateProposal: however often a leader learns that its round has begun, it
\* makes one block for it.
THEOREM OneBlockPerRound == Spec => []OneProposalPerRound
<1>1. SafetyInv => OneProposalPerRound
  BY DEF SafetyInv, NetworkOk, ProposedOnce, OneProposalPerRound
<1> QED
  BY <1>1, SafetyInvHolds, PTL

LEMMA CertificatesVerify ==
  /\ \A qc : QCOk(voteMsgs, qc) => QCVerify(qc)
  /\ \A tc : TCSigned(timeoutMsgs, tc) <=> TCVerify(tc)
BY DEF QCOk, QCVerify, SignersIn, Signers, TCSigned, TCVerify

\* messages.go, Verify: no honest message is refused by an honest replica.
THEOREM HonestMessagesVerify == Spec => []SentMessagesVerify
<1>1. SafetyInv => SentMessagesVerify
  BY CertificatesVerify DEF SafetyInv, NetworkOk, ProposalsOk, TCOk,
     SentMessagesVerify, BlockVerify, TimeoutVerify
<1> QED
  BY <1>1, SafetyInvHolds, PTL

\* make_vote and localTimeoutRound: a replica that gives a round up tells the
\* others of every QC it may have locked on.
THEOREM TimeoutsCarryLocks == Spec => []TimeoutCarriesLock
<1>1. SafetyInv => TimeoutCarriesLock
  BY DEF SafetyInv, NetworkOk, LocksOk, TimeoutCarriesLock
<1> QED
  BY <1>1, SafetyInvHolds, PTL

\* handleTimeout: processQC comes before the timeout is counted.
THEOREM TimeoutsAreKnown == Spec => []TimeoutsKnownToHolder
<1>1. SafetyInv => TimeoutsKnownToHolder
  BY DEF SafetyInv, ReplicasOk, NodeOk, TimeoutsOk, TimeoutsKnownToHolder
<1> QED
  BY <1>1, SafetyInvHolds, PTL

\* A certified block satisfies the voting rule: somebody voted for it.
LEMMA CertifiedObeysRule ==
  ASSUME SafetyInv, NEW b \in proposals, Certified(b)
  PROVE  SafetyRule2(b)
<1>1. Signers(BlockDigest(b), b.round) # {}
  BY WeightLaws, ThresholdBounds DEF Certified, IsQuorum
<1>2. PICK m \in voteMsgs : m.vote.hash = BlockDigest(b)
  BY <1>1 DEF Signers
<1>3. PICK d \in proposals : BlockDigest(d) = m.vote.hash /\ SafetyRule2(d)
  BY DEF SafetyInv, NetworkOk, CastOk
<1>4. d.round = b.round
  BY <1>2, <1>3 DEF BlockDigest
<1>5. d = b
  BY <1>4 DEF SafetyInv, NetworkOk, ProposedOnce
<1> QED
  BY <1>3, <1>5

\* The 2-chain rule.  A certified block c after b1 was proposed with the QC of the
\* round before it, or with a TC that a voter of b1 took part in.
LEMMA TwoChainArgument == SafetyInv => NoSkippedCommit
<1> SUFFICES ASSUME SafetyInv,
                    NEW b0 \in proposals, NEW b1 \in proposals, NEW c \in proposals,
                    b1.qc.hash = BlockDigest(b0), b1.round = b0.round + 1,
                    c.round > b0.round, Certified(b1), Certified(c)
             PROVE  c.qc.round >= b0.round
  BY DEF NoSkippedCommit
<1>1. /\ b0 \in Block /\ b1 \in Block /\ c \in Block
      /\ b0.round \in Nat /\ c.round \in Nat /\ c.qc.round \in Nat
      /\ c.tc.round \in Nat /\ BlockDigest(b0) \in Digest
  BY NetworkTypes, CertificateTypes DEF SafetyInv, Block, QC, TC
<1>2. b1.qc.round = b0.round
  <2>1. b1.qc # GenesisQC
    BY <1>1, ZeroDigestAssumption DEF GenesisQC
  <2>2. b1.qc.round = b1.qc.hash.round
    BY <2>1 DEF SafetyInv, NetworkOk, ProposalsOk, QCOk
  <2> QED
    BY <2>2 DEF BlockDigest
<1>3. SafetyRule2(c)
  BY CertifiedObeysRule
<1>4. CASE c.qc.round + 1 = c.round
  BY <1>1, <1>4
<1>5. CASE c.round = b1.round
  <2>1. c = b1
    BY <1>5 DEF SafetyInv, NetworkOk, ProposedOnce
  <2> QED
    BY <1>1, <1>2, <2>1
<1>6. CASE /\ c.round # b1.round
           /\ c.tc # NoTC /\ c.tc.round + 1 = c.round
           /\ \A r \in HighQCRounds(c.tc) : c.qc.round >= r
  <2>1. TCSigned(timeoutMsgs, c.tc) /\ c.tc \in TC
    BY <1>1, <1>6 DEF SafetyInv, NetworkOk, ProposalsOk, TCOk, Block
  <2>2. PICK a \in {v.name : v \in c.tc.votes} : a \in Signers(BlockDigest(b1), b1.round)
    <3>1. {v.name : v \in c.tc.votes} \in SUBSET Node
      BY <2>1 DEF TC
    <3>2. Signers(BlockDigest(b1), b1.round) \in SUBSET Node
      BY NetworkTypes DEF SafetyInv, Signers, Vote
    <3> QED
      BY <2>1, <3>1, <3>2, QuorumsIntersect DEF TCSigned, Certified
  <2>3. PICK v \in c.tc.votes : v.name = a
    BY <2>2
  <2>4. PICK m \in voteMsgs : m.vote.author = a /\ m.vote.hash = BlockDigest(b1)
    BY <2>2 DEF Signers
  <2>5. PICK t \in timeoutMsgs : t.author = a /\ t.round = c.tc.round /\ t.highQC.round = v.round
    BY <2>1, <2>3 DEF TCSigned
  <2>6. b1.round <= t.round
    BY <1>1, <1>6, <2>5
  <2>7. b1.qc.round <= t.highQC.round
    BY <2>4, <2>5, <2>6 DEF SafetyInv, NetworkOk, LocksOk
  <2>8. c.qc.round >= v.round /\ v.round \in Nat
    BY <1>6, <2>1, <2>3 DEF HighQCRounds, TC
  <2> QED
    BY <1>1, <1>2, <2>5, <2>7, <2>8
<1> QED
  BY <1>3, <1>4, <1>5, <1>6 DEF SafetyRule2

\* make_vote, processBlock: no certified block goes around a block that has a
\* certified child of the next round.
THEOREM TwoChainSafety == Spec => []NoSkippedCommit
BY TwoChainArgument, SafetyInvHolds, PTL

LEMMA NewVotes ==
  ASSUME SafetyInv, NEW n \in Node, NEW s \in LocalState, NEW b \in Block,
         core[n].lastVotedRound <= s.lastVotedRound,
         ProcessBlock(n, s, b), NEW m \in voteMsgs' \ voteMsgs
  PROVE  m.vote.author = n /\ m.vote.round > core[n].lastVotedRound
<1> DEFINE stored  == StoreBlock(s, b)
           settled == IF IsTwoChain(s, b) THEN Commit(stored, TwoChainHead(s, b)) ELSE stored
           next    == Leader(settled.round + 1)
<1>1. settled.lastVotedRound = s.lastVotedRound
  BY DEF Commit, StoreBlock, LocalState
<1>2. s.lastVotedRound \in Nat /\ core[n].lastVotedRound \in Nat /\ b.round \in Nat
  BY ReplicaFacts DEF LocalState, Block
<1>3. AcceptBlock(n, s, b)
  BY DEF ProcessBlock, SuspendBlock
<1>4. CanVote(settled, b) /\ m = [vote |-> NewVote(n, b), to |-> next]
  BY <1>3 DEF AcceptBlock
<1>5. m.vote = NewVote(n, b)
  BY <1>4
<1> QED
  BY <1>1, <1>2, <1>4, <1>5 DEF CanVote, SafetyRule1, NewVote

\* make_vote and increaseLastVotedRound: a vote takes nothing back.
THEOREM VotesKeepPromises == Spec => VoteAfterPromise
<1> DEFINE A == \A m \in voteMsgs' \ voteMsgs :
                  /\ \A x \in voteMsgs : x.vote.author = m.vote.author
                                           => x.vote.round < m.vote.round
                  /\ \A t \in timeoutMsgs : t.author = m.vote.author
                                              => t.round < m.vote.round
<1>1. SafetyInv /\ [Next]_vars => [A]_vars
  <2> SUFFICES ASSUME SafetyInv, Next, NEW m \in voteMsgs' \ voteMsgs
               PROVE  /\ \A x \in voteMsgs : x.vote.author = m.vote.author
                                               => x.vote.round < m.vote.round
                      /\ \A t \in timeoutMsgs : t.author = m.vote.author
                                                  => t.round < m.vote.round
    OBVIOUS
  <2>1. PICK n \in Node : Step(n)
    BY DEF Next
  <2>2. m.vote.author = n /\ m.vote.round > core[n].lastVotedRound /\ m.vote.round \in Nat
    <3>1. m.vote.round \in Nat
      BY NextTypeInv DEF SafetyInv, TypeInv, TypeOK, Vote
    <3>2. CASE \E b \in proposals : ReceiveProposal(n, b)
      <4>1. PICK b \in proposals : ReceiveProposal(n, b)
        BY <3>2
      <4> DEFINE s == CatchUp(core[n], b)
      <4>2. b \in Block /\ QCOk(voteMsgs, b.qc)
        BY NetworkTypes DEF SafetyInv, NetworkOk, ProposalsOk
      <4>3. s \in LocalState /\ Evolves(core[n], s)
        BY <4>2, ReplicaFacts, NetworkTypes, CatchUpType, CatchUpOk
      <4>4. ProcessBlock(n, s, b)
        BY <4>1 DEF ReceiveProposal
      <4> QED
        BY <3>1, <4>2, <4>3, <4>4, NewVotes DEF Evolves
    <3>3. CASE \E b \in core[n].loopback : ReceiveLoopback(n, b)
      <4>1. PICK b \in core[n].loopback : ReceiveLoopback(n, b)
        BY <3>3
      <4> DEFINE s == [core[n] EXCEPT !.loopback = @ \ {b}]
      <4>2. core[n] \in LocalState /\ b \in Block
        BY ReplicaFacts DEF LocalState
      <4>3. s \in LocalState /\ core[n].lastVotedRound <= s.lastVotedRound
        BY <4>2 DEF LocalState
      <4>4. ProcessBlock(n, s, b)
        BY <4>1 DEF ReceiveLoopback
      <4> HIDE DEF s
      <4> QED
        BY <3>1, <4>2, <4>3, <4>4, NewVotes
    <3> QED
      BY <2>1, <3>2, <3>3 DEF Step, ReceiveVote, ReceiveTimeout, ReceiveTC, LocalTimeout,
         Propose, ResumeBlock, DeliverPayload, StoreBatch
  <2>3. core[n].lastVotedRound \in Nat
    BY ReplicaFacts DEF LocalState
  <2>4. ASSUME NEW x \in voteMsgs, x.vote.author = n
        PROVE  x.vote.round \in Nat /\ x.vote.round <= core[n].lastVotedRound
    BY <2>4, ReplicaFacts, NetworkTypes DEF PromisesOk, Vote
  <2>5. ASSUME NEW t \in timeoutMsgs, t.author = n
        PROVE  t.round \in Nat /\ t.round <= core[n].lastVotedRound
    BY <2>5, ReplicaFacts, NetworkTypes DEF PromisesOk, Timeout
  <2> QED
    BY <2>2, <2>3, <2>4, <2>5
<1> QED
  BY <1>1, SafetyInvHolds, PTL DEF Spec, VoteAfterPromise
-----------------------------------------------------------------------------
(* Chains.  The links of the blocks go down in rounds, so the recursive chain *)
(* of a block is the smallest set with that block in it and the parents of    *)
(* all its blocks: with sets, what is on a chain needs no recursion.          *)

\* The blocks of P that the QC of a block names: one, as Tree says.
ParentsIn(P, b) ==
  IF b.qc = GenesisQC THEN {GenesisBlock} ELSE {z \in P : BlockDigest(z) = b.qc.hash}

HoldsParents(P, S) == \A x \in S : ParentsIn(P, x) \subseteq S

Ancestry(P, b) ==
  {x \in P \cup {GenesisBlock} : \A S \in SUBSET (P \cup {GenesisBlock}) :
     b \in S /\ HoldsParents(P, S) => x \in S}

\* What the proposals of a run are.
Tree(P) ==
  /\ P \subseteq Block
  /\ ProposedOnce(P)
  /\ \A b \in P : b.qc.round < b.round
  /\ \A b \in P : ParentsIn(P, b) # {}
  /\ \A b \in P : \A z \in ParentsIn(P, b) : z.round = b.qc.round

LEMMA GenesisFacts ==
  ASSUME NEW P
  PROVE  /\ GenesisBlock.qc = GenesisQC /\ GenesisBlock.round = 0
         /\ ParentsIn(P, GenesisBlock) = {GenesisBlock}
BY DEF GenesisBlock, ParentsIn

LEMMA ParentsAreBlocks ==
  ASSUME NEW P, NEW b
  PROVE  ParentsIn(P, b) \subseteq P \cup {GenesisBlock}
BY DEF ParentsIn

LEMMA TreeRounds ==
  ASSUME NEW P, Tree(P)
  PROVE  /\ \A b \in P : b.round \in Nat \ {0} /\ b.qc.round \in Nat
         /\ \A b \in P \cup {GenesisBlock} : b.round \in Nat
         /\ \A x, y \in P \cup {GenesisBlock} : x.round = y.round => x = y
<1>1. \A b \in P : b.round \in Nat /\ b.qc.round \in Nat /\ b.qc.round < b.round
  BY DEF Tree, Block, QC
<1>2. \A b \in P : b.round \in Nat \ {0} /\ b.qc.round \in Nat
  BY <1>1
<1>3. GenesisBlock.round = 0
  BY GenesisFacts
<1> QED
  BY <1>2, <1>3 DEF Tree, ProposedOnce

\* A parent is the only one, and below.
LEMMA ParentBelow ==
  ASSUME NEW P, Tree(P), NEW b \in P, NEW z \in ParentsIn(P, b)
  PROVE  /\ z \in P \cup {GenesisBlock}
         /\ z.round = b.qc.round /\ z.round < b.round
         /\ ParentsIn(P, b) = {z}
<1>1. ParentsIn(P, b) \subseteq P \cup {GenesisBlock}
  BY ParentsAreBlocks
<1>2. \A y \in ParentsIn(P, b) : y.round = b.qc.round
  BY DEF Tree
<1>3. \A y \in ParentsIn(P, b) : y = z
  BY <1>1, <1>2, TreeRounds
<1> QED
  BY <1>1, <1>2, <1>3 DEF Tree

LEMMA AncestryFacts ==
  ASSUME NEW P, NEW b \in P \cup {GenesisBlock}
  PROVE  /\ b \in Ancestry(P, b)
         /\ Ancestry(P, b) \subseteq P \cup {GenesisBlock}
         /\ HoldsParents(P, Ancestry(P, b))
         /\ \A S \in SUBSET (P \cup {GenesisBlock}) :
              b \in S /\ HoldsParents(P, S) => Ancestry(P, b) \subseteq S
<1>1. ASSUME NEW x \in Ancestry(P, b), NEW z \in ParentsIn(P, x)
      PROVE  z \in Ancestry(P, b)
  <2>1. z \in P \cup {GenesisBlock}
    BY ParentsAreBlocks
  <2>2. ASSUME NEW S \in SUBSET (P \cup {GenesisBlock}), b \in S, HoldsParents(P, S)
        PROVE  z \in S
    <3>1. x \in S
      BY <2>2 DEF Ancestry
    <3> QED
      BY <2>2, <3>1 DEF HoldsParents
  <2> QED
    BY <2>1, <2>2 DEF Ancestry
<1>2. HoldsParents(P, Ancestry(P, b))
  BY <1>1 DEF HoldsParents
<1> QED
  BY <1>2 DEF Ancestry

LEMMA AncestryOfGenesis ==
  ASSUME NEW P
  PROVE  Ancestry(P, GenesisBlock) = {GenesisBlock}
<1>1. HoldsParents(P, {GenesisBlock})
  BY GenesisFacts DEF HoldsParents
<1> QED
  BY <1>1, AncestryFacts

\* The ancestry of a block on a chain is on that chain.
LEMMA AncestryNested ==
  ASSUME NEW P, NEW b \in P \cup {GenesisBlock}, NEW a \in Ancestry(P, b)
  PROVE  Ancestry(P, a) \subseteq Ancestry(P, b)
<1>1. a \in P \cup {GenesisBlock}
  BY AncestryFacts
<1> QED
  BY <1>1, AncestryFacts

\* One step down a chain.
LEMMA AncestryUnfolds ==
  ASSUME NEW P, Tree(P), NEW b \in P, NEW z \in ParentsIn(P, b)
  PROVE  /\ z \in Ancestry(P, b)
         /\ Ancestry(P, b) = {b} \cup Ancestry(P, z)
<1> DEFINE S == {b} \cup Ancestry(P, z)
<1>1. z \in P \cup {GenesisBlock} /\ ParentsIn(P, b) = {z}
  BY ParentBelow
<1>2. z \in Ancestry(P, b)
  BY AncestryFacts DEF HoldsParents
<1>3. HoldsParents(P, S)
  BY <1>1, AncestryFacts DEF HoldsParents
<1>4. S \in SUBSET (P \cup {GenesisBlock})
  BY <1>1, AncestryFacts
<1>5. Ancestry(P, b) \subseteq S
  BY <1>3, <1>4, AncestryFacts
<1>6. S \subseteq Ancestry(P, b)
  BY <1>2, AncestryFacts, AncestryNested
<1> QED
  BY <1>2, <1>5, <1>6

\* A chain goes down from its block, all the way to the genesis block.
LEMMA ChainsGoDown ==
  ASSUME NEW P, Tree(P), NEW b \in P \cup {GenesisBlock}
  PROVE  /\ GenesisBlock \in Ancestry(P, b)
         /\ \A a \in Ancestry(P, b) : a # b => a.round < b.round
<1> DEFINE Good(x) == /\ GenesisBlock \in Ancestry(P, x)
                      /\ \A a \in Ancestry(P, x) : a # x => a.round < x.round
           bad == {x \in P \cup {GenesisBlock} : ~Good(x)}
           rounds == {x.round : x \in bad}
<1> SUFFICES ASSUME bad # {} PROVE FALSE
  OBVIOUS
<1>1. rounds \subseteq Nat /\ rounds # {}
  BY TreeRounds
<1>2. PICK r \in rounds : \A k \in rounds : r <= k
  <2> HIDE DEF rounds
  <2> QED
    BY <1>1, LeastElement
<1>3. PICK x \in bad : x.round = r
  OBVIOUS
<1>4. x # GenesisBlock /\ x \in P
  BY AncestryOfGenesis
<1>5. PICK z \in ParentsIn(P, x) : TRUE
  BY <1>4 DEF Tree
<1>6. z \in P \cup {GenesisBlock} /\ z.round < x.round
  BY <1>4, ParentBelow
<1>7. z.round \in Nat /\ x.round \in Nat
  BY <1>4, <1>6, TreeRounds
<1>8. ~(r <= z.round)
  BY <1>3, <1>6, <1>7
<1>9. Good(z)
  BY <1>2, <1>6, <1>8
<1>10. Ancestry(P, x) = {x} \cup Ancestry(P, z)
  BY <1>4, AncestryUnfolds
<1>11. \A a \in Ancestry(P, z) : a.round \in Nat
  BY <1>6, AncestryFacts, TreeRounds
<1>12. Good(x)
  BY <1>6, <1>7, <1>9, <1>10, <1>11
<1> QED
  BY <1>3, <1>12

\* The chain of a block as the model computes it.
LEMMA ChainIsAncestry ==
  ASSUME Tree(proposals), NEW b \in proposals \cup {GenesisBlock}
  PROVE  Chain(b) = Ancestry(proposals, b)
<1> DEFINE D == proposals \cup {GenesisBlock}
           Up(x) == {z \in proposals : BlockDigest(z) = x.qc.hash}
           Fits(f) == f = [x \in D |->
                             {x} \cup IF x.qc = GenesisQC THEN {GenesisBlock}
                                      ELSE UNION {f[y] : y \in Up(x)}]
           g == [x \in D |-> Ancestry(proposals, x)]
<1>1. ASSUME NEW f, NEW x \in D,
             f[x] = {x} \cup IF x.qc = GenesisQC THEN {GenesisBlock}
                             ELSE UNION {f[y] : y \in Up(x)},
             \A y \in Up(x) : f[y] = Ancestry(proposals, y)
      PROVE  f[x] = Ancestry(proposals, x)
  <2>1. CASE x.qc = GenesisQC
    <3>1. CASE x = GenesisBlock
      BY <1>1, <2>1, <3>1, AncestryOfGenesis
    <3>2. CASE x \in proposals
      <4>1. GenesisBlock \in ParentsIn(proposals, x)
        BY <2>1 DEF ParentsIn
      <4> QED
        BY <1>1, <2>1, <3>2, <4>1, AncestryUnfolds, AncestryOfGenesis
    <3> QED
      BY <3>1, <3>2
  <2>2. CASE x.qc # GenesisQC
    <3>1. x \in proposals /\ ParentsIn(proposals, x) = Up(x)
      BY <2>2, GenesisFacts DEF ParentsIn
    <3>2. PICK z \in ParentsIn(proposals, x) : TRUE
      BY <3>1 DEF Tree
    <3>3. ParentsIn(proposals, x) = {z} /\ Ancestry(proposals, x) = {x} \cup Ancestry(proposals, z)
      BY <3>1, <3>2, ParentBelow, AncestryUnfolds
    <3>4. Up(x) = {z}
      BY <3>1, <3>3
    <3> HIDE DEF Up
    <3>5. UNION {f[y] : y \in Up(x)} = Ancestry(proposals, z)
      BY <1>1, <3>4
    <3> QED
      BY <1>1, <2>2, <3>3, <3>5
  <2> QED
    BY <2>1, <2>2
<1>2. Fits(g)
  <2> SUFFICES ASSUME NEW x \in D
               PROVE  Ancestry(proposals, x) =
                        {x} \cup IF x.qc = GenesisQC THEN {GenesisBlock}
                                 ELSE UNION {g[y] : y \in Up(x)}
    OBVIOUS
  <2>1. \A y \in Up(x) : g[y] = Ancestry(proposals, y)
    OBVIOUS
  <2>2. CASE x = GenesisBlock
    BY <2>2, GenesisFacts, AncestryOfGenesis
  <2>3. CASE x \in proposals /\ x.qc = GenesisQC
    <3>1. GenesisBlock \in ParentsIn(proposals, x)
      BY <2>3 DEF ParentsIn
    <3> QED
      BY <2>3, <3>1, AncestryUnfolds, AncestryOfGenesis
  <2>4. CASE x \in proposals /\ x.qc # GenesisQC
    <3>1. ParentsIn(proposals, x) = Up(x)
      BY <2>4 DEF ParentsIn
    <3>2. PICK z \in ParentsIn(proposals, x) : TRUE
      BY <2>4 DEF Tree
    <3>3. ParentsIn(proposals, x) = {z} /\ Ancestry(proposals, x) = {x} \cup Ancestry(proposals, z)
      BY <2>4, <3>2, ParentBelow, AncestryUnfolds
    <3>4. Up(x) = {z}
      BY <3>1, <3>3
    <3> HIDE DEF Up, g
    <3>5. UNION {g[y] : y \in Up(x)} = Ancestry(proposals, z)
      BY <2>1, <3>4
    <3> QED
      BY <2>4, <3>3, <3>5
  <2> QED
    BY <2>2, <2>3, <2>4
<1> DEFINE f == CHOOSE f : Fits(f)
<1>3. Fits(f)
  <2> HIDE DEF g, Fits
  <2> QED
    BY <1>2
<1>4. Chain(b) = f[b]
  BY DEF Chain
<1> DEFINE bad == {x \in D : f[x] # Ancestry(proposals, x)}
           rounds == {x.round : x \in bad}
<1> HIDE DEF f
<1>5. \A x \in D : f[x] = {x} \cup IF x.qc = GenesisQC THEN {GenesisBlock}
                                   ELSE UNION {f[y] : y \in Up(x)}
  BY <1>3
<1>6. bad = {}
  <2> SUFFICES ASSUME bad # {} PROVE FALSE
    OBVIOUS
  <2>1. rounds \subseteq Nat /\ rounds # {}
    BY TreeRounds
  <2>2. PICK r \in rounds : \A k \in rounds : r <= k
    <3> HIDE DEF rounds
    <3> QED
      BY <2>1, LeastElement
  <2>3. PICK x \in bad : x.round = r
    OBVIOUS
  <2>4. ASSUME NEW y \in Up(x), x.qc # GenesisQC
        PROVE  f[y] = Ancestry(proposals, y)
    <3>1. x \in proposals /\ y \in ParentsIn(proposals, x)
      BY <2>4, GenesisFacts DEF ParentsIn
    <3>2. y \in D /\ y.round < x.round /\ y.round \in Nat /\ x.round \in Nat
      BY <3>1, ParentBelow, TreeRounds
    <3>3. ~(r <= y.round)
      BY <2>3, <3>2
    <3> QED
      BY <2>2, <3>2, <3>3
  <2>5. CASE x.qc # GenesisQC
    BY <1>1, <1>5, <2>3, <2>4, <2>5
  <2>6. CASE x.qc = GenesisQC
    <3>1. f[x] = {x} \cup {GenesisBlock}
      BY <1>5, <2>6
    <3>2. g[x] = {x} \cup {GenesisBlock}
      BY <1>2, <2>6
    <3> QED
      BY <2>3, <3>1, <3>2
  <2> QED
    BY <2>5, <2>6
<1> QED
  BY <1>4, <1>6

-----------------------------------------------------------------------------
(* Links: every block a replica stores, commits or asks for hangs on the tree. *)

\* A replica has left the round of its highest QC, and asks for blocks above
\* their QCs only.
OwnRounds(s) ==
  /\ s.highQC.round < s.round
  /\ \A m \in s.makes : m.qc.round < m.round

SameChain(s, x) == x.store = s.store /\ x.lastCommittedRound = s.lastCommittedRound

LEMMA ChainUnchanged ==
  ASSUME NEW s \in LocalState
  PROVE  /\ \A r : SameChain(s, AdvanceRound(s, r))
         /\ \A qc : SameChain(s, ProcessQC(s, qc))
         /\ \A n, tc : SameChain(s, GenerateProposalIfLeader(n, s, tc))
         /\ \A n, v : SameChain(s, HandleVote(n, s, v))
         /\ \A r : SameChain(s, IncreaseLastVotedRound(s, r))
         /\ \A b : SameChain(s, CatchUp(s, b))
BY DEF LocalState, AdvanceRound, ProcessQC, UpdateHighQC, GenerateProposalIfLeader,
       HandleVote, IncreaseLastVotedRound, CatchUp, SameChain

LEMMA AdvanceOwnRounds ==
  ASSUME NEW s \in LocalState, OwnRounds(s), NEW r \in Nat
  PROVE  OwnRounds(AdvanceRound(s, r))
<1> DEFINE x == AdvanceRound(s, r)
<1>1. /\ x.highQC = s.highQC /\ x.makes = s.makes
      /\ x.round = IF r < s.round THEN s.round ELSE r + 1
  BY DEF AdvanceRound, LocalState
<1>2. s.round \in Nat /\ s.highQC.round \in Nat
  BY DEF LocalState, QC
<1> HIDE DEF x
<1>3. x.highQC.round < x.round
  BY <1>1, <1>2 DEF OwnRounds
<1> QED
  BY <1>1, <1>3 DEF OwnRounds, x

LEMMA ProcessQCOwnRounds ==
  ASSUME NEW s \in LocalState, OwnRounds(s), NEW qc \in QC
  PROVE  OwnRounds(ProcessQC(s, qc))
<1> DEFINE a == AdvanceRound(s, qc.round)
           x == ProcessQC(s, qc)
<1>1. qc.round \in Nat
  BY DEF QC
<1>2. a \in LocalState /\ OwnRounds(a)
  BY <1>1, AdvanceRoundType, AdvanceOwnRounds
<1>3. s.round \in Nat /\ a.round = IF qc.round < s.round THEN s.round ELSE qc.round + 1
  BY DEF AdvanceRound, LocalState
<1> HIDE DEF a
<1>4. /\ x.makes = a.makes /\ x.round = a.round
      /\ x.highQC = a.highQC \/ x.highQC = qc
  BY <1>2 DEF ProcessQC, UpdateHighQC, LocalState, a
<1> HIDE DEF x
<1>5. qc.round < a.round
  BY <1>1, <1>3
<1>6. x.highQC.round < x.round
  BY <1>2, <1>4, <1>5 DEF OwnRounds
<1> QED
  BY <1>2, <1>4, <1>6 DEF OwnRounds, x

LEMMA GenerateOwnRounds ==
  ASSUME NEW s \in LocalState, OwnRounds(s), NEW n, NEW tc
  PROVE  OwnRounds(GenerateProposalIfLeader(n, s, tc))
<1> DEFINE m == [round |-> s.round, qc |-> s.highQC, tc |-> tc]
           x == [s EXCEPT !.makes = @ \cup {m}]
<1>1. m.qc.round < m.round
  BY DEF OwnRounds
<1> HIDE DEF m
<1>2. x.highQC = s.highQC /\ x.round = s.round /\ x.makes = s.makes \cup {m}
  BY DEF LocalState
<1> HIDE DEF x
<1>3. OwnRounds(x)
  BY <1>1, <1>2 DEF OwnRounds
<1> QED
  BY <1>3 DEF GenerateProposalIfLeader, x, m

LEMMA HandleVoteOwnRounds ==
  ASSUME NEW s \in LocalState, OwnRounds(s), NEW n, NEW v \in Vote
  PROVE  OwnRounds(HandleVote(n, s, v))
<1> DEFINE added == [s EXCEPT !.votes = @ \cup {v}]
           qc == [hash |-> v.hash, round |-> v.round]
<1>1. added \in LocalState /\ OwnRounds(added)
  <2>1. /\ added \in LocalState
        /\ added.highQC = s.highQC /\ added.round = s.round /\ added.makes = s.makes
    BY DEF LocalState
  <2> HIDE DEF added
  <2> QED
    BY <2>1 DEF OwnRounds
<1>2. qc \in QC
  BY DEF QC, Vote
<1> HIDE DEF added, qc
<1>3. ProcessQC(added, qc) \in LocalState /\ OwnRounds(ProcessQC(added, qc))
  BY <1>1, <1>2, ProcessQCType, ProcessQCOwnRounds
<1>4. OwnRounds(GenerateProposalIfLeader(n, ProcessQC(added, qc), NoTC))
  BY <1>3, GenerateOwnRounds
<1> QED
  BY <1>1, <1>4 DEF HandleVote, added, qc

LEMMA VotedOwnRounds ==
  ASSUME NEW s \in LocalState, OwnRounds(s), NEW r
  PROVE  OwnRounds(IncreaseLastVotedRound(s, r))
<1> DEFINE x == IncreaseLastVotedRound(s, r)
<1>1. x.highQC = s.highQC /\ x.round = s.round /\ x.makes = s.makes
  BY DEF IncreaseLastVotedRound, LocalState
<1> HIDE DEF x
<1> QED
  BY <1>1 DEF OwnRounds, x

LEMMA CatchUpOwnRounds ==
  ASSUME NEW s \in LocalState, OwnRounds(s), NEW b \in Block
  PROVE  OwnRounds(CatchUp(s, b))
<1>1. b.qc \in QC /\ b.tc.round \in Nat
  BY DEF Block, TC
<1>2. ProcessQC(s, b.qc) \in LocalState /\ OwnRounds(ProcessQC(s, b.qc))
  BY <1>1, ProcessQCType, ProcessQCOwnRounds
<1> QED
  BY <1>1, <1>2, AdvanceOwnRounds DEF CatchUp

LinkInv ==
  /\ SafetyInv
  /\ \A n \in Node : OwnRounds(core[n]) /\ core[n].store \subseteq proposals
  /\ \A b \in proposals : b.qc.round < b.round

\* A step that leaves what a replica stores and has committed.
KeepsChain(n) ==
  /\ committed' = committed
  /\ \E x \in LocalState : /\ core' = [core EXCEPT ![n] = x]
                           /\ OwnRounds(x) /\ SameChain(core[n], x)

\* A step that stores a block, and may commit.
ExtendsChain(n) ==
  \E b \in proposals, s, x \in LocalState :
    /\ SameChain(core[n], s) /\ HasParent(s, b)
    /\ core' = [core EXCEPT ![n] = x] /\ OwnRounds(x)
    /\ x.store = StoreBlock(s, b).store
    /\ \/ /\ committed' = committed
          /\ x.lastCommittedRound = s.lastCommittedRound
       \/ /\ IsTwoChain(s, b)
          /\ committed' = [committed EXCEPT ![n] = @ \o
                             CommitBatch(StoreBlock(s, b), TwoChainHead(s, b))]
          /\ x.lastCommittedRound = IF TwoChainHead(s, b).round > s.lastCommittedRound
                                    THEN TwoChainHead(s, b).round ELSE s.lastCommittedRound

LEMMA AcceptChain ==
  ASSUME TypeInv, NEW n \in Node, NEW s \in LocalState, Closed(s), OwnRounds(s),
         SameChain(core[n], s), NEW b \in proposals, AcceptBlock(n, s, b)
  PROVE  ExtendsChain(n)
<1> DEFINE stored  == StoreBlock(s, b)
           head    == TwoChainHead(s, b)
           settled == IF IsTwoChain(s, b) THEN Commit(stored, head) ELSE stored
           voted   == IncreaseLastVotedRound(settled, b.round)
           vote    == NewVote(n, b)
           next    == Leader(settled.round + 1)
           after   == IF next = n THEN HandleVote(n, voted, vote) ELSE voted
<1>1. b \in Block /\ b.round \in Nat /\ HasParent(s, b)
  BY NetworkTypes DEF AcceptBlock, Block
<1>2. stored \in LocalState
  BY <1>1, StoreBlockClosed
<1>3. Commit(stored, head) \in LocalState
  BY <1>1, <1>2, GrandparentStored, CommitType
<1>4. settled \in LocalState
  BY <1>2, <1>3
<1>5. /\ settled.highQC = s.highQC /\ settled.round = s.round /\ settled.makes = s.makes
      /\ settled.store = stored.store
  BY DEF Commit, StoreBlock, LocalState
<1>6. settled.lastCommittedRound =
        IF IsTwoChain(s, b) /\ head.round > s.lastCommittedRound
        THEN head.round ELSE s.lastCommittedRound
  BY DEF Commit, StoreBlock, LocalState
<1>7. committed' = IF IsTwoChain(s, b)
                   THEN [committed EXCEPT ![n] = @ \o CommitBatch(stored, head)]
                   ELSE committed
  BY DEF AcceptBlock
<1> HIDE DEF settled
<1>8. OwnRounds(settled)
  BY <1>5 DEF OwnRounds
<1>9. voted \in LocalState /\ OwnRounds(voted) /\ SameChain(settled, voted)
  BY <1>1, <1>4, <1>8, IncreaseLastVotedType, VotedOwnRounds, ChainUnchanged
<1>10. vote \in Vote
  BY <1>1, CertificateTypes
<1> HIDE DEF voted, vote
<1>11. /\ HandleVote(n, voted, vote) \in LocalState
       /\ OwnRounds(HandleVote(n, voted, vote))
       /\ SameChain(voted, HandleVote(n, voted, vote))
  BY <1>9, <1>10, HandleVoteType, HandleVoteOwnRounds, ChainUnchanged
<1>12. after \in LocalState /\ OwnRounds(after) /\ SameChain(settled, after)
  BY <1>9, <1>11 DEF SameChain
<1> HIDE DEF after
<1>13. core' = [core EXCEPT ![n] = settled] \/ core' = [core EXCEPT ![n] = after]
  BY DEF AcceptBlock, after, voted, vote, settled
<1>14. PICK x \in LocalState : core' = [core EXCEPT ![n] = x] /\ OwnRounds(x) /\ SameChain(settled, x)
  BY <1>4, <1>8, <1>12, <1>13 DEF SameChain
<1>15. x.store = stored.store /\ x.lastCommittedRound = settled.lastCommittedRound
  BY <1>5, <1>14 DEF SameChain
<1> HIDE DEF stored, head
<1>16. CASE IsTwoChain(s, b)
  BY <1>1, <1>6, <1>7, <1>14, <1>15, <1>16 DEF ExtendsChain, stored, head
<1>17. CASE ~IsTwoChain(s, b)
  BY <1>1, <1>6, <1>7, <1>14, <1>15, <1>17 DEF ExtendsChain, stored, head
<1> QED
  BY <1>16, <1>17

LEMMA ProcessChain ==
  ASSUME TypeInv, NEW n \in Node, NEW s \in LocalState, Closed(s), OwnRounds(s),
         SameChain(core[n], s), NEW b \in proposals, ProcessBlock(n, s, b)
  PROVE  KeepsChain(n) \/ ExtendsChain(n)
<1> DEFINE x == [s EXCEPT !.suspended = @ \cup {b}]
<1>1. CASE SuspendBlock(n, s, b)
  <2>1. core' = [core EXCEPT ![n] = s] \/ core' = [core EXCEPT ![n] = x]
    BY <1>1 DEF SuspendBlock
  <2>2. committed' = committed
    BY <1>1 DEF SuspendBlock
  <2>3. b \in Block
    BY NetworkTypes
  <2>4. /\ x \in LocalState /\ x.highQC = s.highQC /\ x.round = s.round
        /\ x.makes = s.makes /\ x.store = s.store
        /\ x.lastCommittedRound = s.lastCommittedRound
    BY <2>3 DEF LocalState
  <2> HIDE DEF x
  <2>5. OwnRounds(x) /\ SameChain(core[n], x)
    BY <2>4 DEF OwnRounds, SameChain
  <2> QED
    BY <2>1, <2>2, <2>4, <2>5 DEF KeepsChain
<1>2. CASE AcceptBlock(n, s, b)
  BY <1>2, AcceptChain
<1> QED
  BY <1>1, <1>2 DEF ProcessBlock

LEMMA TimeoutChain ==
  ASSUME TypeInv, NEW n \in Node, NEW s \in LocalState, OwnRounds(s),
         SameChain(core[n], s), NEW t \in Timeout, HandleTimeout(n, s, t),
         committed' = committed
  PROVE  KeepsChain(n)
<1> DEFINE caughtUp == ProcessQC(s, t.highQC)
           added    == [caughtUp EXCEPT !.timeouts = @ \cup {t}]
           tc       == MakeTC(added, t.round)
           moved    == AdvanceRound(added, t.round)
           after    == GenerateProposalIfLeader(n, moved, tc)
<1>1. t.highQC \in QC /\ t.round \in Nat
  BY DEF Timeout
<1>2. caughtUp \in LocalState /\ OwnRounds(caughtUp) /\ SameChain(core[n], caughtUp)
  BY <1>1, ProcessQCType, ProcessQCOwnRounds, ChainUnchanged DEF SameChain
<1> HIDE DEF caughtUp
<1>3. added \in LocalState /\ OwnRounds(added) /\ SameChain(core[n], added)
  <2>1. /\ added \in LocalState /\ added.highQC = caughtUp.highQC
        /\ added.round = caughtUp.round /\ added.makes = caughtUp.makes
        /\ added.store = caughtUp.store
        /\ added.lastCommittedRound = caughtUp.lastCommittedRound
    BY <1>2 DEF LocalState
  <2> HIDE DEF added
  <2> QED
    BY <1>2, <2>1 DEF OwnRounds, SameChain
<1> HIDE DEF added
<1>4. tc \in TC
  BY <1>1, <1>3, MakeTCType
<1>5. moved \in LocalState /\ OwnRounds(moved) /\ SameChain(core[n], moved)
  BY <1>1, <1>3, AdvanceRoundType, AdvanceOwnRounds, ChainUnchanged DEF SameChain
<1> HIDE DEF moved, tc
<1>6. after \in LocalState /\ OwnRounds(after) /\ SameChain(core[n], after)
  BY <1>4, <1>5, GenerateProposalType, GenerateOwnRounds, ChainUnchanged DEF SameChain
<1> HIDE DEF after
<1>7. \/ core' = [core EXCEPT ![n] = caughtUp]
      \/ core' = [core EXCEPT ![n] = added]
      \/ core' = [core EXCEPT ![n] = after]
  BY DEF HandleTimeout, caughtUp, added, moved, tc, after
<1> QED
  BY <1>2, <1>3, <1>6, <1>7 DEF KeepsChain

LEMMA LinkFacts ==
  ASSUME LinkInv, NEW n \in Node
  PROVE  /\ SafetyInv /\ TypeInv
         /\ core[n] \in LocalState /\ Closed(core[n]) /\ OwnRounds(core[n])
         /\ SameChain(core[n], core[n])
BY ReplicaFacts DEF LinkInv, SameChain

\* What a step does to the chains of a replica.
LEMMA StepChain ==
  ASSUME LinkInv, NEW n \in Node, Step(n)
  PROVE  KeepsChain(n) \/ ExtendsChain(n)
<1> DEFINE s == core[n]
<1>1. s \in LocalState /\ Closed(s) /\ OwnRounds(s) /\ SameChain(s, s) /\ TypeInv
  BY LinkFacts
<1>2. ASSUME NEW b \in proposals, ReceiveProposal(n, b)
      PROVE  KeepsChain(n) \/ ExtendsChain(n)
  <2> DEFINE c == CatchUp(s, b)
             missing == b.payload \ c.batches
             w == [block |-> b, missing |-> missing]
             x == [c EXCEPT !.pending = @ \cup {w}]
  <2>1. b \in Block
    BY <1>1, NetworkTypes
  <2>2. c \in LocalState /\ Closed(c) /\ OwnRounds(c) /\ SameChain(s, c)
    BY <1>1, <2>1, CatchUpType, StoreUnchanged, ClosedByStore, CatchUpOwnRounds, ChainUnchanged
  <2>3. \/ core' = [core EXCEPT ![n] = c] /\ committed' = committed
        \/ core' = [core EXCEPT ![n] = x] /\ committed' = committed
        \/ ProcessBlock(n, c, b)
    BY <1>2 DEF ReceiveProposal
  <2>4. w \in Waiter
    BY <2>1 DEF Waiter, Block
  <2> HIDE DEF c, w
  <2>5. /\ x \in LocalState /\ x.highQC = c.highQC /\ x.round = c.round
        /\ x.makes = c.makes /\ x.store = c.store
        /\ x.lastCommittedRound = c.lastCommittedRound
    BY <2>2, <2>4 DEF LocalState
  <2> HIDE DEF x
  <2>6. OwnRounds(x) /\ SameChain(s, x)
    BY <2>2, <2>5 DEF OwnRounds, SameChain
  <2> QED
    BY <1>1, <2>2, <2>3, <2>5, <2>6, ProcessChain DEF KeepsChain
<1>3. ASSUME NEW m \in voteMsgs, ReceiveVote(n, m)
      PROVE  KeepsChain(n)
  <2>1. core' = [core EXCEPT ![n] = HandleVote(n, s, m.vote)] /\ committed' = committed
    BY <1>3 DEF ReceiveVote
  <2>2. m.vote \in Vote
    BY <1>1, NetworkTypes
  <2>3. /\ HandleVote(n, s, m.vote) \in LocalState
        /\ OwnRounds(HandleVote(n, s, m.vote))
        /\ SameChain(s, HandleVote(n, s, m.vote))
    BY <1>1, <2>2, HandleVoteType, HandleVoteOwnRounds, ChainUnchanged
  <2> QED
    BY <2>1, <2>3 DEF KeepsChain
<1>4. ASSUME NEW t \in timeoutMsgs, ReceiveTimeout(n, t)
      PROVE  KeepsChain(n)
  <2>1. t \in Timeout /\ HandleTimeout(n, s, t) /\ committed' = committed
    BY <1>1, <1>4, NetworkTypes DEF ReceiveTimeout
  <2> QED
    BY <1>1, <2>1, TimeoutChain
<1>5. ASSUME NEW tc \in tcMsgs, ReceiveTC(n, tc)
      PROVE  KeepsChain(n)
  <2> DEFINE a == AdvanceRound(s, tc.round)
  <2>1. tc \in TC /\ tc.round \in Nat
    BY <1>1, NetworkTypes DEF TC
  <2>2. a \in LocalState /\ OwnRounds(a) /\ SameChain(s, a)
    BY <1>1, <2>1, AdvanceRoundType, AdvanceOwnRounds, ChainUnchanged
  <2>3. core' = [core EXCEPT ![n] = GenerateProposalIfLeader(n, a, tc)] /\ committed' = committed
    BY <1>5 DEF ReceiveTC
  <2> HIDE DEF a
  <2>4. /\ GenerateProposalIfLeader(n, a, tc) \in LocalState
        /\ OwnRounds(GenerateProposalIfLeader(n, a, tc))
        /\ SameChain(a, GenerateProposalIfLeader(n, a, tc))
    BY <2>1, <2>2, GenerateProposalType, GenerateOwnRounds, ChainUnchanged
  <2> QED
    BY <2>2, <2>3, <2>4 DEF KeepsChain, SameChain
<1>6. ASSUME NEW b \in s.loopback, ReceiveLoopback(n, b)
      PROVE  KeepsChain(n) \/ ExtendsChain(n)
  <2> DEFINE x == [s EXCEPT !.loopback = @ \ {b}]
  <2>1. ProcessBlock(n, x, b)
    BY <1>6 DEF ReceiveLoopback
  <2>2. b \in proposals
    BY LinkFacts, ReplicaFacts DEF NodeOk, HeldOk, HeldBlocks
  <2>3. /\ x \in LocalState /\ x.store = s.store /\ x.highQC = s.highQC
        /\ x.round = s.round /\ x.makes = s.makes
        /\ x.lastCommittedRound = s.lastCommittedRound
    BY <1>1 DEF LocalState
  <2> HIDE DEF x
  <2>4. Closed(x) /\ OwnRounds(x) /\ SameChain(s, x)
    BY <1>1, <2>3, ClosedByStore DEF OwnRounds, SameChain
  <2> QED
    BY <1>1, <2>1, <2>2, <2>3, <2>4, ProcessChain
<1>7. ASSUME LocalTimeout(n)
      PROVE  KeepsChain(n)
  <2> DEFINE x == IncreaseLastVotedRound(s, s.round)
             t == [highQC |-> x.highQC, round |-> x.round, author |-> n]
  <2>1. s.round \in Nat
    BY <1>1 DEF LocalState
  <2>2. x \in LocalState /\ OwnRounds(x) /\ SameChain(s, x)
    BY <1>1, <2>1, IncreaseLastVotedType, VotedOwnRounds, ChainUnchanged
  <2>3. t \in Timeout
    BY <2>2 DEF LocalState, Timeout
  <2>4. HandleTimeout(n, x, t) /\ committed' = committed
    BY <1>7 DEF LocalTimeout
  <2> HIDE DEF x, t
  <2> QED
    BY <1>1, <2>2, <2>3, <2>4, TimeoutChain
<1>8. ASSUME Propose(n)
      PROVE  KeepsChain(n)
  <2>1. PICK m \in s.makes, payload \in SUBSET s.batches :
          /\ core' = [core EXCEPT ![n].makes = @ \ {m}, ![n].loopback = @ \cup
                       {[author |-> n, round |-> m.round, payload |-> payload,
                         qc |-> m.qc, tc |-> m.tc]}]
          /\ committed' = committed
    BY <1>8 DEF Propose
  <2> DEFINE b == [author |-> n, round |-> m.round, payload |-> payload,
                   qc |-> m.qc, tc |-> m.tc]
             x == [s EXCEPT !.makes = @ \ {m}, !.loopback = @ \cup {b}]
  <2>2. core' = [core EXCEPT ![n] = x]
    BY <1>1, <2>1 DEF TypeInv, TypeOK
  <2>3. m \in Make /\ payload \in SUBSET Batch
    BY <1>1 DEF LocalState
  <2>4. b \in Block
    BY <2>3 DEF Make, Block
  <2> HIDE DEF b
  <2>5. /\ x \in LocalState /\ x.store = s.store /\ x.highQC = s.highQC
        /\ x.round = s.round /\ x.makes = s.makes \ {m}
        /\ x.lastCommittedRound = s.lastCommittedRound
    BY <1>1, <2>4 DEF LocalState
  <2> HIDE DEF x
  <2>6. OwnRounds(x) /\ SameChain(s, x)
    BY <1>1, <2>5 DEF OwnRounds, SameChain
  <2> QED
    BY <2>1, <2>2, <2>5, <2>6 DEF KeepsChain
<1>9. ASSUME NEW b \in s.suspended, ResumeBlock(n, b)
      PROVE  KeepsChain(n)
  <2> DEFINE x == [s EXCEPT !.suspended = @ \ {b}, !.loopback = @ \cup {b}]
  <2>1. core' = [core EXCEPT ![n] = x] /\ committed' = committed
    BY <1>1, <1>9 DEF ResumeBlock, TypeInv, TypeOK
  <2>2. /\ x \in LocalState /\ x.store = s.store /\ x.highQC = s.highQC
        /\ x.round = s.round /\ x.makes = s.makes
        /\ x.lastCommittedRound = s.lastCommittedRound
    BY <1>1 DEF LocalState
  <2> HIDE DEF x
  <2>3. OwnRounds(x) /\ SameChain(s, x)
    BY <1>1, <2>2 DEF OwnRounds, SameChain
  <2> QED
    BY <2>1, <2>2, <2>3 DEF KeepsChain
<1>10. ASSUME NEW w \in s.pending \cup s.cancelled, DeliverPayload(n, w)
       PROVE  KeepsChain(n)
  <2> DEFINE rest == {x \in s.pending : BlockDigest(x.block) # BlockDigest(w.block)}
             x == [s EXCEPT !.pending = rest, !.cancelled = @ \ {w},
                            !.loopback = @ \cup {w.block}]
  <2>1. core' = [core EXCEPT ![n] = x] /\ committed' = committed
    BY <1>1, <1>10 DEF DeliverPayload, TypeInv, TypeOK
  <2>2. rest \subseteq s.pending /\ w.block \in Block
    BY <1>1 DEF LocalState, Waiter
  <2> HIDE DEF rest
  <2>3. /\ x \in LocalState /\ x.store = s.store /\ x.highQC = s.highQC
        /\ x.round = s.round /\ x.makes = s.makes
        /\ x.lastCommittedRound = s.lastCommittedRound
    BY <1>1, <2>2 DEF LocalState
  <2> HIDE DEF x
  <2>4. OwnRounds(x) /\ SameChain(s, x)
    BY <1>1, <2>3 DEF OwnRounds, SameChain
  <2> QED
    BY <2>1, <2>3, <2>4 DEF KeepsChain
<1>11. ASSUME NEW d \in Batch, StoreBatch(n, d)
       PROVE  KeepsChain(n)
  <2> DEFINE x == [s EXCEPT !.batches = @ \cup {d}]
  <2>1. core' = [core EXCEPT ![n] = x] /\ committed' = committed
    BY <1>1, <1>11 DEF StoreBatch, TypeInv, TypeOK
  <2>2. /\ x \in LocalState /\ x.store = s.store /\ x.highQC = s.highQC
        /\ x.round = s.round /\ x.makes = s.makes
        /\ x.lastCommittedRound = s.lastCommittedRound
    BY <1>1 DEF LocalState
  <2> HIDE DEF x
  <2>3. OwnRounds(x) /\ SameChain(s, x)
    BY <1>1, <2>2 DEF OwnRounds, SameChain
  <2> QED
    BY <2>1, <2>2, <2>3 DEF KeepsChain
<1> QED
  BY <1>2, <1>3, <1>4, <1>5, <1>6, <1>7, <1>8, <1>9, <1>10, <1>11 DEF Step

\* What a step sends: votes stay, and a new proposal is the first of its round.
LEMMA StepSends ==
  ASSUME LinkInv, NEW n \in Node, Step(n)
  PROVE  /\ voteMsgs \subseteq voteMsgs'
         /\ \/ proposals' = proposals
            \/ \E b \in Block : /\ proposals' = proposals \cup {b}
                                /\ b.qc.round < b.round
                                /\ \A d \in proposals : d.round # b.round
<1>1. core[n] \in LocalState /\ SafetyInv /\ OwnRounds(core[n])
  BY LinkFacts
<1>2. CASE Propose(n)
  <2>1. PICK m \in core[n].makes, payload \in SUBSET core[n].batches :
          /\ proposals' = proposals \cup
                       {[author |-> n, round |-> m.round, payload |-> payload,
                         qc |-> m.qc, tc |-> m.tc]}
          /\ voteMsgs' = voteMsgs
    BY <1>2 DEF Propose
  <2> DEFINE b == [author |-> n, round |-> m.round, payload |-> payload,
                   qc |-> m.qc, tc |-> m.tc]
  <2>2. b \in Block /\ b.round = m.round /\ b.qc = m.qc
    BY <1>1 DEF LocalState, Make, Block
  <2>3. proposals' = proposals \cup {b}
    BY <2>1
  <2> HIDE DEF b
  <2>4. b.qc.round < b.round
    BY <1>1, <2>2 DEF OwnRounds
  <2>5. \A d \in proposals : d.round # b.round
    BY <1>1, <2>2, ReplicaFacts DEF NodeOk, MakesOk
  <2> QED
    BY <2>1, <2>2, <2>3, <2>4, <2>5
<1>3. CASE ~Propose(n)
  BY <1>3 DEF Step, ReceiveProposal, ReceiveVote, ReceiveTimeout, ReceiveTC,
     ReceiveLoopback, LocalTimeout, ResumeBlock, DeliverPayload, StoreBatch,
     ProcessBlock, SuspendBlock, AcceptBlock
<1> QED
  BY <1>2, <1>3

LEMMA InitLinks == Init => LinkInv
<1> SUFFICES ASSUME Init PROVE LinkInv
  OBVIOUS
<1>1. ASSUME NEW n \in Node
      PROVE  OwnRounds(core[n]) /\ core[n].store \subseteq proposals
  <2>1. /\ core[n].highQC.round = 0 /\ core[n].round = 1 /\ core[n].store = {}
        /\ \A m \in core[n].makes : m.qc.round = 0 /\ m.round = 1
    BY DEF Init, InitialState, GenesisQC
  <2> QED
    BY <2>1 DEF OwnRounds
<1>2. proposals = {}
  BY DEF Init
<1> QED
  BY <1>1, <1>2, InitSafety DEF LinkInv

LEMMA NextLinks == LinkInv /\ [Next]_vars => LinkInv'
<1> SUFFICES ASSUME LinkInv, [Next]_vars PROVE LinkInv'
  OBVIOUS
<1>1. SafetyInv'
  BY NextSafety DEF LinkInv
<1>2. CASE UNCHANGED vars
  BY <1>1, <1>2 DEF vars, LinkInv
<1>3. CASE Next
  <2>1. PICK n \in Node : Step(n)
    BY <1>3 DEF Next
  <2>2. proposals \subseteq proposals' /\ \A b \in proposals' : b.qc.round < b.round
    BY <2>1, StepSends DEF LinkInv
  <2>3. PICK x : core' = [core EXCEPT ![n] = x] /\ OwnRounds(x) /\ x.store \subseteq proposals
    <3>1. CASE KeepsChain(n)
      BY <3>1 DEF KeepsChain, SameChain, LinkInv
    <3>2. CASE ExtendsChain(n)
      <4>1. PICK b \in proposals, s \in LocalState, x \in LocalState :
              /\ SameChain(core[n], s) /\ core' = [core EXCEPT ![n] = x]
              /\ OwnRounds(x) /\ x.store = StoreBlock(s, b).store
        BY <3>2 DEF ExtendsChain
      <4>2. x.store \subseteq s.store \cup {b}
        BY <4>1 DEF StoreBlock, LocalState
      <4> QED
        BY <4>1, <4>2 DEF SameChain, LinkInv
    <3> QED
      BY <2>1, <3>1, <3>2, StepChain
  <2>4. \A k \in Node : core'[k] = IF k = n THEN x ELSE core[k]
    BY <2>3 DEF LinkInv, SafetyInv, TypeInv, TypeOK
  <2>5. \A k \in Node : OwnRounds(core'[k]) /\ core'[k].store \subseteq proposals'
    BY <2>2, <2>3, <2>4 DEF LinkInv
  <2> QED
    BY <1>1, <2>2, <2>5 DEF LinkInv
<1> QED
  BY <1>2, <1>3

CertifiedIn(V, b) == IsQuorum(SignersIn(V, BlockDigest(b), b.round))

\* A certified digest is that of a proposal, which the QC certifies.
LEMMA QCNamesProposal ==
  ASSUME LinkInv, NEW qc, QCOk(voteMsgs, qc), qc # GenesisQC
  PROVE  /\ \E z \in proposals : BlockDigest(z) = qc.hash
         /\ \A z \in proposals : BlockDigest(z) = qc.hash
              => z.round = qc.round /\ CertifiedIn(voteMsgs, z)
<1>1. IsQuorum(SignersIn(voteMsgs, qc.hash, qc.round)) /\ qc.round = qc.hash.round
  BY DEF QCOk
<1>2. SignersIn(voteMsgs, qc.hash, qc.round) # {}
  BY <1>1, WeightLaws, ThresholdBounds DEF IsQuorum
<1>3. PICK m \in voteMsgs : m.vote.hash = qc.hash
  BY <1>2 DEF SignersIn
<1>4. \E z \in proposals : BlockDigest(z) = qc.hash
  BY <1>3 DEF LinkInv, SafetyInv, NetworkOk, CastOk
<1>5. \A z \in proposals : BlockDigest(z) = qc.hash => z.round = qc.round
  BY <1>1 DEF BlockDigest
<1> QED
  BY <1>1, <1>4, <1>5 DEF CertifiedIn

LEMMA TreeHolds ==
  ASSUME LinkInv
  PROVE  Tree(proposals)
<1>1. proposals \subseteq Block /\ ProposedOnce(proposals)
  BY NetworkTypes DEF LinkInv, SafetyInv, NetworkOk
<1>2. ASSUME NEW b \in proposals
      PROVE  /\ ParentsIn(proposals, b) # {}
             /\ \A z \in ParentsIn(proposals, b) : z.round = b.qc.round
  <2>1. QCOk(voteMsgs, b.qc)
    BY DEF LinkInv, SafetyInv, NetworkOk, ProposalsOk
  <2>2. CASE b.qc = GenesisQC
    BY <2>2 DEF ParentsIn, GenesisBlock, GenesisQC
  <2>3. CASE b.qc # GenesisQC
    BY <2>1, <2>3, QCNamesProposal DEF ParentsIn
  <2> QED
    BY <2>2, <2>3
<1> QED
  BY <1>1, <1>2 DEF Tree, LinkInv

\* h has a certified child of the next round: it heads a 2-chain.
HeadsChain(P, V, h) ==
  \E c \in P : c.qc.hash = BlockDigest(h) /\ c.round = h.round + 1 /\ CertifiedIn(V, c)

\* The 2-chain rule for whole chains: the head of a 2-chain is on the chain of
\* every certified block that is not older.
LEMMA HeadIsFinal ==
  ASSUME LinkInv, NEW h \in proposals, HeadsChain(proposals, voteMsgs, h),
         NEW c \in proposals, CertifiedIn(voteMsgs, c), c.round >= h.round
  PROVE  h \in Ancestry(proposals, c)
<1> DEFINE bad == {x \in proposals : /\ CertifiedIn(voteMsgs, x) /\ x.round >= h.round
                                     /\ h \notin Ancestry(proposals, x)}
           rounds == {x.round : x \in bad}
<1> SUFFICES ASSUME bad # {} PROVE FALSE
  OBVIOUS
<1>1. Tree(proposals) /\ SafetyInv
  BY TreeHolds DEF LinkInv
<1>2. rounds \subseteq Nat /\ rounds # {}
  BY <1>1, TreeRounds
<1>3. PICK r \in rounds : \A k \in rounds : r <= k
  <2> HIDE DEF rounds
  <2> QED
    BY <1>2, LeastElement
<1>4. PICK x \in bad : x.round = r
  OBVIOUS
<1>5. h.round \in Nat \ {0} /\ x.round \in Nat /\ x.qc.round \in Nat
  BY <1>1, TreeRounds
<1>6. x # h
  BY AncestryFacts
<1>7. x.round > h.round
  BY <1>1, <1>5, <1>6, TreeRounds
<1>8. PICK b1 \in proposals : /\ b1.qc.hash = BlockDigest(h) /\ b1.round = h.round + 1
                              /\ CertifiedIn(voteMsgs, b1)
  BY DEF HeadsChain
<1>9. x.qc.round >= h.round
  <2>1. Certified(b1) /\ Certified(x)
    BY <1>8 DEF Certified, CertifiedIn, Signers, SignersIn
  <2> QED
    BY <1>1, <1>7, <1>8, <2>1, TwoChainArgument DEF NoSkippedCommit
<1>10. x.qc # GenesisQC
  BY <1>5, <1>9 DEF GenesisQC
<1>11. QCOk(voteMsgs, x.qc)
  BY <1>1 DEF SafetyInv, NetworkOk, ProposalsOk
<1>12. PICK z \in proposals : BlockDigest(z) = x.qc.hash /\ z.round = x.qc.round
                              /\ CertifiedIn(voteMsgs, z)
  BY <1>10, <1>11, QCNamesProposal
<1>13. z \in ParentsIn(proposals, x)
  BY <1>10, <1>12 DEF ParentsIn
<1>14. z.round < x.round /\ z.round \in Nat
  BY <1>1, <1>5, <1>12, <1>13, ParentBelow
<1>15. z \notin bad
  <2> SUFFICES ASSUME z \in bad PROVE FALSE
    OBVIOUS
  <2>1. z.round \in rounds
    OBVIOUS
  <2> HIDE DEF rounds, bad
  <2>2. r <= z.round
    BY <1>3, <2>1
  <2> QED
    BY <1>4, <1>5, <1>14, <2>2
<1>16. h \in Ancestry(proposals, z)
  BY <1>9, <1>12, <1>15
<1> QED
  BY <1>1, <1>13, <1>16, AncestryUnfolds

\* A new proposal changes no chain: no QC names it yet.
LEMMA AncestryStays ==
  ASSUME NEW P, Tree(P), NEW b, \A d \in P : d.round # b.round,
         NEW h \in P \cup {GenesisBlock}
  PROVE  Ancestry(P \cup {b}, h) = Ancestry(P, h)
<1> DEFINE Q == P \cup {b}
           A == Ancestry(P, h)
           B == Ancestry(Q, h)
<1>1. ASSUME NEW x \in P \cup {GenesisBlock}
      PROVE  ParentsIn(Q, x) = ParentsIn(P, x)
  <2>1. CASE x.qc = GenesisQC
    BY <2>1 DEF ParentsIn
  <2>2. CASE x.qc # GenesisQC
    <3>1. x \in P
      BY <2>2, GenesisFacts
    <3>2. PICK z \in ParentsIn(P, x) : TRUE
      BY <3>1 DEF Tree
    <3>3. z \in P /\ BlockDigest(z) = x.qc.hash
      BY <2>2, <3>2 DEF ParentsIn
    <3>4. BlockDigest(b) # x.qc.hash
      BY <3>3 DEF BlockDigest
    <3> QED
      BY <2>2, <3>4 DEF ParentsIn
  <2> QED
    BY <2>1, <2>2
<1>2. h \in Q \cup {GenesisBlock}
  OBVIOUS
<1>3. /\ h \in A /\ A \subseteq P \cup {GenesisBlock} /\ HoldsParents(P, A)
      /\ \A S \in SUBSET (P \cup {GenesisBlock}) : h \in S /\ HoldsParents(P, S) => A \subseteq S
  BY AncestryFacts
<1>4. /\ h \in B /\ B \subseteq Q \cup {GenesisBlock} /\ HoldsParents(Q, B)
      /\ \A S \in SUBSET (Q \cup {GenesisBlock}) : h \in S /\ HoldsParents(Q, S) => B \subseteq S
  BY <1>2, AncestryFacts
<1> HIDE DEF A, B
<1>5. HoldsParents(Q, A)
  BY <1>1, <1>3 DEF HoldsParents
<1>6. B \subseteq A
  BY <1>3, <1>4, <1>5
<1>7. HoldsParents(P, B)
  BY <1>1, <1>3, <1>4, <1>6 DEF HoldsParents
<1>8. A \subseteq B
  BY <1>3, <1>4, <1>6, <1>7
<1> QED
  BY <1>6, <1>8 DEF A, B

-----------------------------------------------------------------------------
(* The walk of commit, from the head of a 2-chain down to the last committed  *)
(* block h, which is on the chain of that head.                               *)

LEMMA ParentOnTree ==
  ASSUME NEW P, NEW s, s.store \subseteq P, Closed(s), NEW x, HasParent(s, x)
  PROVE  /\ Parent(s, x) \in ParentsIn(P, x)
         /\ Parent(s, x) \in s.store \cup {GenesisBlock}
         /\ HasParent(s, Parent(s, x))
<1>1. CASE x.qc = GenesisQC
  BY <1>1, GenesisFacts DEF Parent, HasParent, ParentsIn
<1>2. CASE x.qc # GenesisQC
  <2>1. Parent(s, x) \in s.store /\ BlockDigest(Parent(s, x)) = x.qc.hash
    BY <1>2 DEF Parent, HasParent
  <2> HIDE DEF HasParent
  <2> QED
    BY <1>2, <2>1 DEF ParentsIn, Closed
<1> QED
  BY <1>1, <1>2

\* The walk w from x pushes what is on the chain of x and not on that of h, and h
\* itself only when the chain skips the round after it.
WalkOk(P, h, x, w) ==
  /\ w \in Seq(P \cup {GenesisBlock})
  /\ \A i \in DOMAIN w : h.round <= w[i].round /\ w[i].round < x.round
  /\ \A i, j \in DOMAIN w : i < j => w[j].round < w[i].round
  /\ Ancestry(P, x) = {x} \cup Range(w) \cup Ancestry(P, h)
  /\ h \in Range(w) => \A y \in Ancestry(P, x) : y.round # h.round + 1

\* One step of the walk, from x to its parent y.
LEMMA WalkStep ==
  ASSUME NEW P, Tree(P), NEW h \in P \cup {GenesisBlock}, NEW x \in P,
         NEW y \in ParentsIn(P, x), h \in Ancestry(P, y), h.round + 1 < x.round,
         NEW v, WalkOk(P, h, y, v), NEW w, w = <<y>> \o v
  PROVE  WalkOk(P, h, x, w)
<1>1. /\ y \in P \cup {GenesisBlock} /\ y.round < x.round
      /\ Ancestry(P, x) = {x} \cup Ancestry(P, y)
  BY ParentBelow, AncestryUnfolds
<1>2. /\ x.round \in Nat /\ y.round \in Nat /\ h.round \in Nat
      /\ \A a \in P \cup {GenesisBlock} : a.round \in Nat
  BY <1>1, TreeRounds
<1>3. /\ w \in Seq(P \cup {GenesisBlock}) /\ Range(w) = {y} \cup Range(v)
      /\ \A i \in DOMAIN w : i \in Nat \ {0}
      /\ \A i \in DOMAIN w : i = 1 => w[i] = y
      /\ \A i \in DOMAIN w : i # 1 => i - 1 \in DOMAIN v /\ w[i] = v[i - 1]
  <2>1. v \in Seq(P \cup {GenesisBlock})
    BY DEF WalkOk
  <2>2. PICK S : S = P \cup {GenesisBlock}
    OBVIOUS
  <2>3. y \in S /\ v \in Seq(S)
    BY <1>1, <2>1, <2>2
  <2>4. Pushed(S, y, v, w)
    BY <2>3, PushedFirst
  <2> QED
    BY <2>2, <2>4 DEF Pushed
<1>4. h.round <= y.round
  <2>1. h # y => h.round < y.round
    BY <1>1, ChainsGoDown
  <2> QED
    BY <1>2, <2>1
<1>5. \A i \in DOMAIN v : v[i].round \in Nat
  BY <1>2 DEF WalkOk
<1>6. \A i \in DOMAIN w : h.round <= w[i].round /\ w[i].round < x.round
  <2> SUFFICES ASSUME NEW i \in DOMAIN w
               PROVE  h.round <= w[i].round /\ w[i].round < x.round
    OBVIOUS
  <2>1. CASE i = 1
    BY <1>1, <1>3, <1>4, <2>1
  <2>2. CASE i # 1
    <3>1. i - 1 \in DOMAIN v /\ w[i] = v[i - 1]
      BY <1>3, <2>2
    <3>2. h.round <= v[i - 1].round /\ v[i - 1].round < y.round /\ v[i - 1].round \in Nat
      BY <1>5, <3>1 DEF WalkOk
    <3> QED
      BY <1>1, <1>2, <3>1, <3>2
  <2> QED
    BY <2>1, <2>2
<1>7. \A i, j \in DOMAIN w : i < j => w[j].round < w[i].round
  <2> SUFFICES ASSUME NEW i \in DOMAIN w, NEW j \in DOMAIN w, i < j
               PROVE  w[j].round < w[i].round
    OBVIOUS
  <2>1. i \in Nat \ {0} /\ j \in Nat \ {0} /\ j # 1
    BY <1>3
  <2>2. j - 1 \in DOMAIN v /\ w[j] = v[j - 1]
    BY <1>3, <2>1
  <2>3. CASE i = 1
    BY <1>3, <2>2, <2>3 DEF WalkOk
  <2>4. CASE i # 1
    <3>1. i - 1 \in DOMAIN v /\ w[i] = v[i - 1]
      BY <1>3, <2>4
    <3>2. i - 1 < j - 1
      BY <2>1
    <3> QED
      BY <2>2, <3>1, <3>2 DEF WalkOk
  <2> QED
    BY <2>3, <2>4
<1>8. Ancestry(P, x) = {x} \cup Range(w) \cup Ancestry(P, h)
  BY <1>1, <1>3 DEF WalkOk
<1>9. ASSUME h \in Range(w), NEW a \in Ancestry(P, x)
      PROVE  a.round # h.round + 1
  <2>1. CASE a = x
    BY <1>2, <2>1
  <2>2. CASE a # x /\ y = h
    <3>1. a \in Ancestry(P, h)
      BY <1>1, <2>2
    <3>2. a = h \/ a.round < h.round
      BY <3>1, ChainsGoDown
    <3>3. a.round \in Nat
      BY <1>2, <3>1, AncestryFacts
    <3> QED
      BY <1>2, <3>2, <3>3
  <2>3. CASE a # x /\ y # h
    <3>1. a \in Ancestry(P, y) /\ h \in Range(v)
      BY <1>1, <1>3, <1>9, <2>3
    <3> QED
      BY <3>1 DEF WalkOk
  <2> QED
    BY <2>1, <2>2, <2>3
<1> QED
  BY <1>3, <1>6, <1>7, <1>8, <1>9 DEF WalkOk

\* Where the walk stops: at h, or at its child of the next round.
LEMMA WalkStops ==
  ASSUME NEW P, Tree(P), NEW h \in P \cup {GenesisBlock}, NEW x \in P \cup {GenesisBlock},
         h \in Ancestry(P, x), ~(h.round + 1 < x.round)
  PROVE  WalkOk(P, h, x, <<>>)
<1>1. <<>> \in Seq(P \cup {GenesisBlock}) /\ Range(<<>>) = {} /\ DOMAIN <<>> = {}
  BY EmptySeq, RangeOfNone
<1>2. x.round \in Nat /\ h.round \in Nat
  BY TreeRounds
<1>3. Ancestry(P, x) = {x} \cup Ancestry(P, h)
  <2>1. CASE x = h
    BY <2>1, AncestryFacts
  <2>2. CASE x # h
    <3>1. h.round < x.round
      BY <2>2, ChainsGoDown
    <3>2. x \in P
      BY <1>2, <3>1, GenesisFacts
    <3>3. PICK z \in ParentsIn(P, x) : TRUE
      BY <3>2 DEF Tree
    <3>4. /\ z \in P \cup {GenesisBlock} /\ z.round < x.round
          /\ Ancestry(P, x) = {x} \cup Ancestry(P, z)
      BY <3>2, <3>3, ParentBelow, AncestryUnfolds
    <3>5. z.round \in Nat /\ h \in Ancestry(P, z)
      BY <2>2, <3>4, TreeRounds
    <3>6. h = z
      <4>1. h # z => h.round < z.round
        BY <3>4, <3>5, ChainsGoDown
      <4> QED
        BY <1>2, <3>4, <3>5, <4>1
    <3> QED
      BY <3>4, <3>6
  <2> QED
    BY <2>1, <2>2
<1> QED
  BY <1>1, <1>3 DEF WalkOk

LEMMA WalkFacts ==
  ASSUME NEW P, Tree(P), NEW s, s.store \subseteq P, Closed(s),
         NEW h \in P \cup {GenesisBlock}, h.round = s.lastCommittedRound,
         NEW b \in s.store \cup {GenesisBlock}, h \in Ancestry(P, b)
  PROVE  WalkOk(P, h, b, AncestorsPushed(s, b))
<1> DEFINE D == s.store \cup {GenesisBlock}
           Go == {x \in D : s.lastCommittedRound + 1 < x.round}
           rank == [x \in D |-> x.round]
           up == [x \in Go |-> Parent(s, x)]
           Fits(f) == f = [x \in D |-> IF s.lastCommittedRound + 1 < x.round
                                       THEN <<Parent(s, x)>> \o f[Parent(s, x)]
                                       ELSE <<>>]
<1>1. D \subseteq P \cup {GenesisBlock} /\ h.round \in Nat /\ \A x \in D : x.round \in Nat
  BY TreeRounds
<1>2. \A x \in Go : x \in P /\ x \in s.store
  BY <1>1, GenesisFacts
<1>3. ASSUME NEW x \in Go
      PROVE  /\ Parent(s, x) \in ParentsIn(P, x)
             /\ Parent(s, x) \in D /\ Parent(s, x).round < x.round
  <2>1. HasParent(s, x)
    BY <1>2 DEF Closed
  <2>2. Parent(s, x) \in ParentsIn(P, x) /\ Parent(s, x) \in D
    BY <2>1, ParentOnTree
  <2> QED
    BY <1>2, <2>2, ParentBelow
<1>4. \E f : Fits(f)
  <2>1. rank \in [D -> Nat]
    BY <1>1
  <2>2. up \in [Go -> D] /\ \A x \in Go : rank[up[x]] < rank[x]
    BY <1>3
  <2>3. Go \in SUBSET D
    OBVIOUS
  <2> HIDE DEF rank, Go, D, up
  <2>4. PICK w : IsWalk(D, Go, up, w)
    BY <2>1, <2>2, <2>3, WalkDefined
  <2>5. w = [x \in D |-> IF s.lastCommittedRound + 1 < x.round
                         THEN <<Parent(s, x)>> \o w[Parent(s, x)]
                         ELSE <<>>]
    BY <2>4 DEF IsWalk, Go, up
  <2> QED
    BY <2>5
<1> DEFINE f == CHOOSE f : Fits(f)
<1>5. Fits(f)
  <2> HIDE DEF Fits
  <2> QED
    BY <1>4
<1>6. AncestorsPushed(s, b) = f[b]
  BY DEF AncestorsPushed
<1> HIDE DEF f
<1>7. /\ \A x \in D : x \in Go => f[x] = <<Parent(s, x)>> \o f[Parent(s, x)]
      /\ \A x \in D : x \notin Go => f[x] = <<>>
  BY <1>5
<1> DEFINE bad == {x \in D : h \in Ancestry(P, x) /\ ~WalkOk(P, h, x, f[x])}
           rounds == {x.round : x \in bad}
<1>8. bad = {}
  <2> SUFFICES ASSUME bad # {} PROVE FALSE
    OBVIOUS
  <2>1. rounds \subseteq Nat /\ rounds # {}
    BY <1>1
  <2>2. PICK r \in rounds : \A k \in rounds : r <= k
    <3> HIDE DEF rounds
    <3> QED
      BY <2>1, LeastElement
  <2>3. PICK x \in bad : x.round = r
    OBVIOUS
  <2>4. CASE x \in Go
    <3>1. PICK y : y = Parent(s, x)
      OBVIOUS
    <3>2. y \in ParentsIn(P, x) /\ y \in D /\ y.round < x.round /\ x \in P
      BY <1>2, <1>3, <2>4, <3>1
    <3>3. Ancestry(P, x) = {x} \cup Ancestry(P, y)
      BY <3>2, AncestryUnfolds
    <3>4. h \in Ancestry(P, y)
      BY <1>1, <2>4, <3>3
    <3>5. y \notin bad
      <4> SUFFICES ASSUME y \in bad PROVE FALSE
        OBVIOUS
      <4>1. y.round \in rounds
        OBVIOUS
      <4>2. y.round \in Nat /\ x.round \in Nat
        BY <1>1, <2>3, <3>2
      <4> HIDE DEF rounds, bad
      <4>3. r <= y.round
        BY <2>2, <4>1
      <4> QED
        BY <2>3, <3>2, <4>2, <4>3
    <3>6. WalkOk(P, h, y, f[y])
      BY <3>2, <3>4, <3>5
    <3>7. f[x] = <<y>> \o f[y]
      BY <1>7, <2>4, <3>1
    <3>8. WalkOk(P, h, x, f[x])
      BY <2>4, <3>2, <3>4, <3>6, <3>7, WalkStep
    <3> QED
      BY <2>3, <3>8
  <2>5. CASE x \notin Go
    <3>1. f[x] = <<>> /\ ~(h.round + 1 < x.round)
      BY <1>7, <2>3, <2>5
    <3>2. x \in P \cup {GenesisBlock}
      BY <1>1, <2>3
    <3>3. WalkOk(P, h, x, f[x])
      BY <2>3, <3>1, <3>2, WalkStops
    <3> QED
      BY <2>3, <3>3
  <2> QED
    BY <2>4, <2>5
<1> QED
  BY <1>6, <1>8

-----------------------------------------------------------------------------
(* The commit stream.                                                        *)

Repeats(q) ==
  \A i, j \in DOMAIN q : i < j /\ q[i] = q[j]
    => \A b \in Range(q) : b.round # q[i].round + 1

\* Nothing in it is above round r, and what is at r comes last.
RoundsUpTo(q, r) == \A i \in DOMAIN q : q[i].round <= r /\ (q[i].round = r => i = Len(q))

\* It holds the chain of h, the genesis block aside.
Holds(q, P, h) == Range(q) \ {GenesisBlock} = Ancestry(P, h) \ {GenesisBlock}

\* A stream that holds the chain of h goes on with the walk from b down to h.
LEMMA StreamJoins ==
  ASSUME NEW P, Tree(P), NEW h \in P \cup {GenesisBlock}, NEW b \in P, h.round < b.round,
         NEW q \in Seq(P \cup {GenesisBlock}), RoundsUpTo(q, h.round), Repeats(q),
         h.round = 0 => q = <<>>, Holds(q, P, h),
         NEW w, WalkOk(P, h, b, w), NEW t, t = q \o Append(w, b)
  PROVE  /\ t \in Seq(P \cup {GenesisBlock})
         /\ Holds(t, P, b) /\ RoundsUpTo(t, b.round) /\ Repeats(t)
<1>0. PICK S : S = P \cup {GenesisBlock}
  OBVIOUS
<1>1. /\ w \in Seq(S) /\ q \in Seq(S) /\ b \in S /\ h \in S
  BY <1>0 DEF WalkOk
<1>2. PICK m \in Nat, k \in Nat, l \in Nat : Joined(S, q, w, b, t, m, k, l)
  BY <1>1, JoinedPlaces
<1>3. /\ m = Len(q) /\ k = Len(w) /\ l = Len(t) /\ l = m + k + 1
      /\ t \in Seq(S) /\ Range(t) = Range(q) \cup Range(w) \cup {b}
  BY <1>2 DEF Joined
<1>4. /\ \A i \in 1 .. m : t[i] = q[i] /\ i \in DOMAIN q
      /\ \A i \in 1 .. l : i > m /\ i # l => i - m \in 1 .. k /\ t[i] = w[i - m]
      /\ t[l] = b
      /\ DOMAIN t = 1 .. l /\ DOMAIN w = 1 .. k /\ DOMAIN q = 1 .. m
  BY <1>2 DEF Joined
<1>5. /\ h.round \in Nat /\ b.round \in Nat
      /\ \A x \in S : x.round \in Nat
      /\ \A x, y \in S : x.round = y.round => x = y
      /\ GenesisBlock \in S /\ GenesisBlock.round = 0
  BY <1>0, TreeRounds, GenesisFacts
<1>6. /\ \A i \in 1 .. m : q[i] \in S
      /\ \A i \in 1 .. k : w[i] \in S
      /\ \A i \in 1 .. l : t[i] \in S
  BY <1>1, <1>3, <1>4
<1>7. /\ \A i \in 1 .. m : q[i].round <= h.round /\ (q[i].round = h.round => i = m)
      /\ \A i \in 1 .. k : h.round <= w[i].round /\ w[i].round < b.round
  BY <1>3, <1>4 DEF RoundsUpTo, WalkOk
<1>8. Holds(t, P, b)
  <2>1. Ancestry(P, b) = {b} \cup Range(w) \cup Ancestry(P, h)
    BY DEF WalkOk
  <2> QED
    BY <1>3, <2>1 DEF Holds
<1>9. RoundsUpTo(t, b.round)
  <2> SUFFICES ASSUME NEW i \in 1 .. l
               PROVE  t[i].round <= b.round /\ (t[i].round = b.round => i = l)
    BY <1>3, <1>4 DEF RoundsUpTo
  <2>1. CASE i = l
    BY <1>4, <1>5, <2>1
  <2>2. CASE i # l /\ i > m
    <3>1. i - m \in 1 .. k /\ t[i] = w[i - m]
      BY <1>4, <2>2
    <3>2. w[i - m].round < b.round /\ w[i - m].round \in Nat
      BY <1>5, <1>6, <1>7, <3>1
    <3> QED
      BY <1>5, <3>1, <3>2
  <2>3. CASE i <= m
    <3>1. i \in 1 .. m /\ t[i] = q[i]
      BY <1>4, <2>3
    <3>2. q[i].round <= h.round /\ q[i].round \in Nat
      BY <1>5, <1>6, <1>7, <3>1
    <3> QED
      BY <1>5, <3>1, <3>2
  <2> QED
    BY <1>3, <2>1, <2>2, <2>3
<1>10. Repeats(t)
  <2> SUFFICES ASSUME NEW i \in 1 .. l, NEW j \in 1 .. l, i < j, t[i] = t[j],
                      NEW y \in Range(t), y.round = t[i].round + 1
               PROVE  FALSE
    BY <1>4 DEF Repeats
  <2>1. i \in Nat /\ j \in Nat /\ i <= l /\ j <= l
    BY <1>3
  <2>2. CASE j <= m
    <3>1. i \in 1 .. m /\ j \in 1 .. m /\ i # m
      BY <1>3, <2>1, <2>2
    <3>2. t[i] = q[i] /\ t[j] = q[j] /\ q[i].round \in Nat
      BY <1>4, <1>5, <1>6, <3>1
    <3>3. q[i].round < h.round
      BY <1>5, <1>7, <3>1, <3>2
    <3>4. CASE y \in Range(q)
      BY <1>4, <3>1, <3>2, <3>4 DEF Repeats
    <3>5. CASE y \in Range(w)
      <4>1. PICK p \in 1 .. k : y = w[p]
        BY <1>4, <3>5 DEF Range
      <4>2. h.round <= y.round /\ y \in S /\ y.round \in Nat
        BY <1>5, <1>6, <1>7, <4>1
      <4>3. y.round = h.round
        BY <1>5, <3>2, <3>3, <4>2
      <4>4. y = h /\ h # GenesisBlock
        BY <1>1, <1>5, <3>2, <3>3, <4>2, <4>3
      <4>5. h \in Ancestry(P, h)
        BY AncestryFacts
      <4>6. y \in Range(q)
        BY <4>4, <4>5 DEF Holds
      <4> QED
        BY <3>4, <4>6
    <3>6. CASE y = b
      BY <1>5, <3>2, <3>3, <3>6
    <3> QED
      BY <1>3, <3>4, <3>5, <3>6
  <2>3. CASE i <= m /\ j > m /\ j # l
    <3>1. /\ i \in 1 .. m /\ t[i] = q[i]
          /\ j - m \in 1 .. k /\ t[j] = w[j - m]
      BY <1>3, <1>4, <2>1, <2>3
    <3>2. q[i].round <= h.round /\ h.round <= w[j - m].round /\ q[i].round \in Nat
      BY <1>5, <1>6, <1>7, <3>1
    <3>3. q[i] = w[j - m] /\ w[j - m] \in S
      BY <1>6, <3>1
    <3>4. w[j - m] = h
      <4>1. q[i].round = h.round
        BY <1>5, <3>2, <3>3
      <4> QED
        BY <1>1, <1>5, <3>3, <4>1
    <3>5. h \in Range(w)
      BY <1>4, <3>1, <3>4 DEF Range
    <3>6. y.round = h.round + 1
      BY <3>1, <3>4
    <3>7. y # GenesisBlock
      BY <1>5, <3>6, GenesisFacts
    <3>8. y \in Ancestry(P, b)
      BY <1>8, <3>7 DEF Holds
    <3> QED
      BY <3>5, <3>6, <3>8 DEF WalkOk
  <2>4. CASE i <= m /\ j = l
    <3>1. i \in 1 .. m /\ t[i] = q[i] /\ t[j] = b
      BY <1>3, <1>4, <2>1, <2>4
    <3>2. q[i].round <= h.round /\ q[i].round \in Nat
      BY <1>5, <1>6, <1>7, <3>1
    <3>3. q[i].round = b.round
      BY <3>1
    <3> QED
      BY <1>5, <3>2, <3>3
  <2>5. CASE i > m /\ j # l
    <3>1. /\ i - m \in 1 .. k /\ t[i] = w[i - m]
          /\ j - m \in 1 .. k /\ t[j] = w[j - m] /\ i - m < j - m
      BY <1>3, <1>4, <2>1, <2>5
    <3>2. w[j - m].round < w[i - m].round
      BY <1>4, <3>1 DEF WalkOk
    <3>3. w[j - m].round \in Nat
      BY <1>5, <1>6, <3>1
    <3>4. w[i - m].round = w[j - m].round
      BY <3>1
    <3> QED
      BY <3>2, <3>3, <3>4
  <2>6. CASE i > m /\ j = l
    <3>1. i - m \in 1 .. k /\ t[i] = w[i - m] /\ t[j] = b
      BY <1>3, <1>4, <2>1, <2>6
    <3>2. w[i - m].round < b.round /\ w[i - m].round \in Nat
      BY <1>5, <1>6, <1>7, <3>1
    <3>3. w[i - m].round = b.round
      BY <3>1
    <3> QED
      BY <1>5, <3>2, <3>3
  <2> QED
    BY <1>3, <2>1, <2>2, <2>3, <2>4, <2>5, <2>6
<1> QED
  BY <1>0, <1>3, <1>8, <1>9, <1>10

\* The stream of a replica whose last committed round is r.
StreamOk(q, r, P, V) ==
  /\ q \in Seq(P \cup {GenesisBlock})
  /\ r = 0 => q = <<>>
  /\ r > 0 => \E h \in P : h.round = r /\ HeadsChain(P, V, h) /\ Holds(q, P, h)
  /\ RoundsUpTo(q, r)
  /\ Repeats(q)

\* More proposals and votes change nothing about it.
LEMMA StreamStays ==
  ASSUME NEW P, Tree(P), NEW Q,
         Q = P \/ \E b : Q = P \cup {b} /\ \A d \in P : d.round # b.round,
         NEW V \in SUBSET [vote : Vote, to : Node], NEW W \in SUBSET [vote : Vote, to : Node],
         V \subseteq W, NEW q, NEW r, StreamOk(q, r, P, V)
  PROVE  StreamOk(q, r, Q, W)
<1>1. P \subseteq Q
  OBVIOUS
<1>2. q \in Seq(Q \cup {GenesisBlock})
  <2>1. PICK S, R : S = P \cup {GenesisBlock} /\ R = Q \cup {GenesisBlock}
    OBVIOUS
  <2>2. q \in Seq(S) /\ S \subseteq R
    BY <1>1, <2>1 DEF StreamOk
  <2>3. q \in Seq(R)
    BY <2>2
  <2> QED
    BY <2>1, <2>3
<1>3. ASSUME r > 0
      PROVE  \E h \in Q : h.round = r /\ HeadsChain(Q, W, h) /\ Holds(q, Q, h)
  <2>1. PICK h \in P : h.round = r /\ HeadsChain(P, V, h) /\ Holds(q, P, h)
    BY <1>3 DEF StreamOk
  <2>2. PICK c \in P : c.qc.hash = BlockDigest(h) /\ c.round = h.round + 1 /\ CertifiedIn(V, c)
    BY <2>1 DEF HeadsChain
  <2>3. SignersIn(V, BlockDigest(c), c.round) \subseteq SignersIn(W, BlockDigest(c), c.round)
    BY DEF SignersIn
  <2>4. CertifiedIn(W, c)
    BY <2>2, <2>3, SignersType, QuorumGrows DEF CertifiedIn
  <2>5. HeadsChain(Q, W, h)
    BY <1>1, <2>2, <2>4 DEF HeadsChain
  <2>6. Ancestry(Q, h) = Ancestry(P, h)
    BY AncestryStays
  <2> QED
    BY <1>1, <2>1, <2>5, <2>6 DEF Holds
<1> QED
  BY <1>2, <1>3 DEF StreamOk

CommitInv ==
  /\ LinkInv
  /\ DOMAIN committed = Node
  /\ \A n \in Node :
       StreamOk(committed[n], core[n].lastCommittedRound, proposals, voteMsgs)

\* The commit of one replica: the stream goes on with the walk from the new head.
LEMMA CommitExtends ==
  ASSUME LinkInv, NEW s \in LocalState, s.store \subseteq proposals, Closed(s),
         NEW b \in proposals, HasParent(s, b), IsTwoChain(s, b),
         NEW stored, stored = StoreBlock(s, b), NEW head, head = TwoChainHead(s, b),
         head.round > s.lastCommittedRound,
         NEW q, StreamOk(q, s.lastCommittedRound, proposals, voteMsgs)
  PROVE  StreamOk(q \o CommitBatch(stored, head), head.round, proposals, voteMsgs)
<1> DEFINE lc == s.lastCommittedRound
<1>1. Tree(proposals) /\ lc \in Nat /\ b \in Block
  BY TreeHolds, LinkFacts, NetworkTypes DEF LocalState, LinkInv, SafetyInv
<1>2. stored \in LocalState /\ Closed(stored) /\ stored.lastCommittedRound = lc
  <2>1. stored \in LocalState /\ Closed(stored)
    BY <1>1, StoreBlockClosed
  <2> QED
    BY <2>1 DEF StoreBlock, LocalState
<1>3. stored.store \subseteq proposals /\ s.store \subseteq stored.store
  <2>1. stored.store = {x \in s.store : BlockDigest(x) # BlockDigest(b)} \cup {b}
    BY DEF StoreBlock, LocalState
  <2>2. \A x \in s.store : BlockDigest(x) = BlockDigest(b) => x = b
    <3>1. \A x \in s.store : BlockDigest(x) = BlockDigest(b) => x.round = b.round
      BY DEF BlockDigest
    <3> QED
      BY <1>1, <3>1 DEF Tree, ProposedOnce
  <2> QED
    BY <2>1, <2>2
<1>4. PICK p : p = Parent(s, b)
  OBVIOUS
<1>5. head = Parent(s, p) /\ head.round + 1 = p.round
  BY <1>4 DEF TwoChainHead, IsTwoChain
<1>6. /\ p \in ParentsIn(proposals, b) /\ p \in s.store \cup {GenesisBlock}
      /\ HasParent(s, p)
  BY <1>4, ParentOnTree
<1>7. head \in ParentsIn(proposals, p) /\ head \in s.store \cup {GenesisBlock}
  BY <1>5, <1>6, ParentOnTree
<1>8. head \in s.store /\ head \in proposals /\ head.round \in Nat
  <2>1. head \in proposals \cup {GenesisBlock} /\ head.round \in Nat
    BY <1>1, <1>7, TreeRounds
  <2>2. head # GenesisBlock
    BY <1>1, <2>1, GenesisFacts
  <2> QED
    BY <1>7, <2>1, <2>2
<1>9. p \in proposals /\ p.qc.hash = BlockDigest(head) /\ p.qc # GenesisQC
  <2>1. p # GenesisBlock
    BY <1>5, <1>8, GenesisFacts
  <2>2. p.qc # GenesisQC
    BY <1>1, <1>7, <1>8, GenesisFacts DEF ParentsIn
  <2> QED
    BY <1>6, <1>7, <2>1, <2>2 DEF ParentsIn
<1>10. QCOk(voteMsgs, p.qc) /\ QCOk(voteMsgs, b.qc)
  BY <1>9 DEF LinkInv, SafetyInv, NetworkOk, ProposalsOk
<1>11. CertifiedIn(voteMsgs, head)
  BY <1>8, <1>9, <1>10, QCNamesProposal
<1>12. CertifiedIn(voteMsgs, p)
  <2>1. b.qc # GenesisQC
    BY <1>6, <1>9, GenesisFacts DEF ParentsIn
  <2>2. BlockDigest(p) = b.qc.hash
    BY <1>6, <2>1 DEF ParentsIn
  <2> QED
    BY <1>9, <1>10, <2>1, <2>2, QCNamesProposal
<1>13. HeadsChain(proposals, voteMsgs, head)
  BY <1>5, <1>9, <1>12 DEF HeadsChain
<1>14. PICK h \in proposals \cup {GenesisBlock} :
         /\ h.round = lc /\ h \in Ancestry(proposals, head) /\ Holds(q, proposals, h)
  <2>1. CASE lc = 0
    <3>1. GenesisBlock \in Ancestry(proposals, head)
      BY <1>1, <1>8, ChainsGoDown
    <3>2. q = <<>>
      BY <2>1 DEF StreamOk
    <3>3. Holds(q, proposals, GenesisBlock)
      BY <3>2, RangeOfNone, AncestryOfGenesis DEF Holds
    <3> QED
      BY <2>1, <3>1, <3>3, GenesisFacts
  <2>2. CASE lc # 0
    <3>1. PICK h \in proposals : /\ h.round = lc /\ HeadsChain(proposals, voteMsgs, h)
                                 /\ Holds(q, proposals, h)
      BY <1>1, <2>2 DEF StreamOk
    <3>2. head.round >= h.round
      BY <1>1, <1>8, <3>1
    <3>3. h \in Ancestry(proposals, head)
      BY <1>8, <1>11, <3>1, <3>2, HeadIsFinal
    <3> QED
      BY <3>1, <3>3
  <2> QED
    BY <2>1, <2>2
<1>15. PICK w : w = AncestorsPushed(stored, head)
  OBVIOUS
<1>16. WalkOk(proposals, h, head, w)
  BY <1>1, <1>2, <1>3, <1>8, <1>14, <1>15, WalkFacts
<1>17. PICK t : t = q \o Append(w, head)
  OBVIOUS
<1>18. CommitBatch(stored, head) = Append(w, head)
  BY <1>1, <1>2, <1>8, <1>15 DEF CommitBatch
<1>19. /\ t \in Seq(proposals \cup {GenesisBlock})
       /\ Holds(t, proposals, head) /\ RoundsUpTo(t, head.round) /\ Repeats(t)
  <2>1. /\ q \in Seq(proposals \cup {GenesisBlock})
        /\ RoundsUpTo(q, h.round) /\ Repeats(q) /\ (h.round = 0 => q = <<>>)
    BY <1>14 DEF StreamOk
  <2>2. h.round < head.round
    BY <1>14
  <2> QED
    BY <1>1, <1>8, <1>14, <1>16, <1>17, <2>1, <2>2, StreamJoins
<1>20. head.round # 0
  BY <1>1, <1>8
<1>21. StreamOk(t, head.round, proposals, voteMsgs)
  BY <1>8, <1>13, <1>19, <1>20 DEF StreamOk
<1> QED
  BY <1>17, <1>18, <1>21

LEMMA InitCommit == Init => CommitInv
<1> SUFFICES ASSUME Init PROVE CommitInv
  OBVIOUS
<1>1. DOMAIN committed = Node
  BY DEF Init
<1>2. \A n \in Node : committed[n] = <<>> /\ core[n].lastCommittedRound = 0
  BY DEF Init, InitialState
<1>3. StreamOk(<<>>, 0, proposals, voteMsgs)
  BY EmptySeq DEF StreamOk, RoundsUpTo, Repeats
<1> QED
  BY <1>1, <1>2, <1>3, InitLinks DEF CommitInv

LEMMA NextCommit == CommitInv /\ [Next]_vars => CommitInv'
<1> SUFFICES ASSUME CommitInv, [Next]_vars PROVE CommitInv'
  OBVIOUS
<1>1. LinkInv /\ LinkInv'
  BY NextLinks DEF CommitInv
<1>2. CASE UNCHANGED vars
  BY <1>1, <1>2 DEF vars, CommitInv
<1>3. CASE Next
  <2>1. PICK n \in Node : Step(n)
    BY <1>3 DEF Next
  <2>2. /\ core[n] \in LocalState /\ Closed(core[n]) /\ DOMAIN core = Node
        /\ core[n].store \subseteq proposals
        /\ core[n].lastCommittedRound \in Nat
    BY <1>1, LinkFacts DEF LinkInv, SafetyInv, TypeInv, TypeOK, LocalState
  <2>3. ASSUME NEW q, NEW r, StreamOk(q, r, proposals, voteMsgs)
        PROVE  StreamOk(q, r, proposals', voteMsgs')
    <3>1. Tree(proposals)
      BY <1>1, TreeHolds
    <3>2. voteMsgs \subseteq voteMsgs'
      BY <1>1, <2>1, StepSends
    <3>3. /\ voteMsgs \in SUBSET [vote : Vote, to : Node]
          /\ voteMsgs' \in SUBSET [vote : Vote, to : Node]
      BY <1>1 DEF LinkInv, SafetyInv, TypeInv, TypeOK
    <3>4. \/ proposals' = proposals
          \/ \E b : proposals' = proposals \cup {b} /\ \A d \in proposals : d.round # b.round
      BY <1>1, <2>1, StepSends
    <3> QED
      BY <2>3, <3>1, <3>2, <3>3, <3>4, StreamStays
  <2>4. PICK x, q : /\ core' = [core EXCEPT ![n] = x]
                    /\ \/ committed' = committed /\ q = committed[n]
                       \/ committed' = [committed EXCEPT ![n] = q]
                    /\ StreamOk(q, x.lastCommittedRound, proposals, voteMsgs)
    <3>1. CASE KeepsChain(n)
      BY <3>1 DEF KeepsChain, SameChain, CommitInv
    <3>2. CASE ExtendsChain(n)
      <4>1. PICK b \in proposals, s \in LocalState, x \in LocalState :
              /\ SameChain(core[n], s) /\ HasParent(s, b)
              /\ core' = [core EXCEPT ![n] = x]
              /\ \/ /\ committed' = committed
                    /\ x.lastCommittedRound = s.lastCommittedRound
                 \/ /\ IsTwoChain(s, b)
                    /\ committed' = [committed EXCEPT ![n] = @ \o
                                       CommitBatch(StoreBlock(s, b), TwoChainHead(s, b))]
                    /\ x.lastCommittedRound =
                         IF TwoChainHead(s, b).round > s.lastCommittedRound
                         THEN TwoChainHead(s, b).round ELSE s.lastCommittedRound
        BY <3>2 DEF ExtendsChain
      <4>2. StreamOk(committed[n], s.lastCommittedRound, proposals, voteMsgs)
        BY <4>1 DEF SameChain, CommitInv
      <4>3. CASE committed' = committed /\ x.lastCommittedRound = s.lastCommittedRound
        BY <4>1, <4>2, <4>3
      <4>4. CASE /\ IsTwoChain(s, b)
                 /\ committed' = [committed EXCEPT ![n] = @ \o
                                    CommitBatch(StoreBlock(s, b), TwoChainHead(s, b))]
                 /\ x.lastCommittedRound =
                      IF TwoChainHead(s, b).round > s.lastCommittedRound
                      THEN TwoChainHead(s, b).round ELSE s.lastCommittedRound
        <5>1. PICK stored, head, q :
                /\ stored = StoreBlock(s, b) /\ head = TwoChainHead(s, b)
                /\ q = committed[n] \o CommitBatch(stored, head)
          OBVIOUS
        <5>2. /\ committed' = [committed EXCEPT ![n] = q]
              /\ x.lastCommittedRound = IF head.round > s.lastCommittedRound
                                        THEN head.round ELSE s.lastCommittedRound
          BY <4>4, <5>1
        <5>3. s.store \subseteq proposals /\ Closed(s)
          BY <2>2, <4>1, ClosedByStore DEF SameChain
        <5>4. head.round \in Nat /\ s.lastCommittedRound \in Nat
          BY <4>1, <5>1, <5>3, GrandparentStored DEF LocalState
        <5>5. CASE head.round > s.lastCommittedRound
          <6>1. StreamOk(q, head.round, proposals, voteMsgs)
            BY <1>1, <4>1, <4>2, <4>4, <5>1, <5>3, <5>5, CommitExtends
          <6> QED
            BY <4>1, <5>2, <5>5, <6>1
        <5>6. CASE ~(head.round > s.lastCommittedRound)
          <6>1. stored.lastCommittedRound = s.lastCommittedRound
            BY <5>1 DEF StoreBlock, LocalState
          <6>2. CommitBatch(stored, head) = <<>>
            BY <5>4, <5>6, <6>1 DEF CommitBatch
          <6>3. q = committed[n]
            <7>1. PICK S : committed[n] \in Seq(S)
              BY <4>2 DEF StreamOk
            <7> QED
              BY <5>1, <6>2, <7>1, ConcatEmptySeq
          <6> QED
            BY <4>1, <4>2, <5>2, <5>6, <6>3
        <5> QED
          BY <5>5, <5>6
      <4> QED
        BY <4>1, <4>3, <4>4
    <3> QED
      BY <1>1, <2>1, <3>1, <3>2, StepChain
  <2>5. /\ DOMAIN committed = Node /\ DOMAIN committed' = Node
        /\ \A k \in Node : committed'[k] = IF k = n THEN q ELSE committed[k]
    BY <2>4 DEF CommitInv
  <2>6. \A k \in Node : core'[k] = IF k = n THEN x ELSE core[k]
    BY <2>2, <2>4
  <2>7. \A k \in Node :
          StreamOk(committed'[k], core'[k].lastCommittedRound, proposals', voteMsgs')
    BY <2>3, <2>4, <2>5, <2>6 DEF CommitInv
  <2> QED
    BY <1>1, <2>5, <2>7 DEF CommitInv
<1> QED
  BY <1>2, <1>3

LEMMA CommitInvHolds == Spec => []CommitInv
BY InitCommit, NextCommit, PTL DEF Spec

\* commit: what a replica has handed over is the chain of the last block it
\* committed, nothing left out and nothing besides; a block comes twice only where
\* the chain skips the round after it.
THEOREM CommitStreamIsChain == Spec => []CommitStreamComplete
<1>1. ASSUME CommitInv PROVE CommitStreamComplete
  <2> SUFFICES ASSUME NEW n \in Node
               PROVE  LET stream == committed[n]
                          blocks == Range(stream)
                          heads  == {b \in blocks : b.round = core[n].lastCommittedRound}
                      IN  /\ \A i, j \in DOMAIN stream : i < j /\ stream[i] = stream[j]
                               => \A b \in blocks : b.round # stream[i].round + 1
                          /\ \A b \in blocks : b.round <= core[n].lastCommittedRound
                          /\ core[n].lastCommittedRound > 0 => \E b \in heads :
                                blocks \ {GenesisBlock} = Chain(b) \ {GenesisBlock}
    BY DEF CommitStreamComplete
  <2>1. PICK q, r : q = committed[n] /\ r = core[n].lastCommittedRound
    OBVIOUS
  <2>2. StreamOk(q, r, proposals, voteMsgs) /\ Tree(proposals)
    BY <1>1, <2>1, TreeHolds DEF CommitInv
  <2>3. Repeats(q)
    BY <2>2 DEF StreamOk
  <2>4. \A b \in Range(q) : b.round <= r
    BY <2>2 DEF StreamOk, RoundsUpTo, Range
  <2>5. ASSUME r > 0
        PROVE  \E b \in Range(q) : /\ b.round = r
                                   /\ Range(q) \ {GenesisBlock} = Chain(b) \ {GenesisBlock}
    <3>1. PICK h \in proposals : h.round = r /\ Holds(q, proposals, h)
      BY <2>2, <2>5 DEF StreamOk
    <3>2. h \in Ancestry(proposals, h) /\ h # GenesisBlock
      BY <2>2, <3>1, AncestryFacts, TreeRounds, GenesisFacts
    <3>3. h \in Range(q)
      BY <3>1, <3>2 DEF Holds
    <3>4. Chain(h) = Ancestry(proposals, h)
      BY <2>2, ChainIsAncestry
    <3> QED
      BY <3>1, <3>3, <3>4 DEF Holds
  <2> QED
    BY <2>1, <2>3, <2>4, <2>5 DEF Repeats
<1> QED
  BY <1>1, CommitInvHolds, PTL

\* make_vote, processBlock and commit together: no certificate made anywhere, at
\* the round of the last committed block or later, goes around what a replica has
\* handed over.
THEOREM CommitsAreFinal == Spec => []CommittedIsFinal
<1>1. ASSUME CommitInv PROVE CommittedIsFinal
  <2> SUFFICES ASSUME NEW n \in Node, NEW b \in Range(committed[n]), NEW c \in proposals,
                      c.round >= core[n].lastCommittedRound, Certified(c)
               PROVE  b \in Chain(c)
    BY DEF CommittedIsFinal
  <2>1. PICK q, r : q = committed[n] /\ r = core[n].lastCommittedRound
    OBVIOUS
  <2>2. StreamOk(q, r, proposals, voteMsgs) /\ Tree(proposals) /\ LinkInv
    BY <1>1, <2>1, TreeHolds DEF CommitInv
  <2>3. CertifiedIn(voteMsgs, c)
    BY DEF Certified, CertifiedIn, Signers, SignersIn
  <2>4. Chain(c) = Ancestry(proposals, c)
    BY <2>2, ChainIsAncestry
  <2>5. r # 0 /\ r \in Nat
    BY <2>1, <2>2, RangeOfNone, LinkFacts DEF StreamOk, LocalState
  <2>6. PICK h \in proposals : /\ h.round = r /\ HeadsChain(proposals, voteMsgs, h)
                               /\ Holds(q, proposals, h)
    BY <2>2, <2>5 DEF StreamOk
  <2>7. h \in Ancestry(proposals, c)
    BY <2>1, <2>2, <2>3, <2>6, HeadIsFinal
  <2>8. CASE b = GenesisBlock
    BY <2>2, <2>4, <2>8, ChainsGoDown
  <2>9. CASE b # GenesisBlock
    <3>1. b \in Ancestry(proposals, h)
      BY <2>1, <2>6, <2>9 DEF Holds
    <3> QED
      BY <2>4, <2>7, <3>1, AncestryNested
  <2> QED
    BY <2>8, <2>9
<1> QED
  BY <1>1, CommitInvHolds, PTL
-----------------------------------------------------------------------------
(* The order of a ledger: by rounds, which for the blocks of one chain is an  *)
(* order without ties.                                                        *)

\* Blocks that have one round each; the first of them.
Ranked(S) ==
  /\ IsFiniteSet(S)
  /\ \A x \in S : x.round \in Nat
  /\ \A x, y \in S : x.round = y.round => x = y

Begins(S, T) == S \subseteq T /\ \A x \in S, y \in T \ S : x.round < y.round

\* Ranks number the blocks from 1 up.
LEMMA RankFacts ==
  ASSUME NEW S, Ranked(S)
  PROVE  /\ Cardinality(S) \in Nat
         /\ \A x \in S : Rank(S, x) \in 1 .. Cardinality(S)
         /\ \A x, y \in S : Rank(S, x) = Rank(S, y) => x = y
         /\ \A i \in 1 .. Cardinality(S) : \E x \in S : Rank(S, x) = i
<1> DEFINE Low(x) == {c \in S : c.round <= x.round}
<1>1. Cardinality(S) \in Nat
  BY FS_CardinalityType DEF Ranked
<1>2. ASSUME NEW x \in S
      PROVE  /\ IsFiniteSet(Low(x)) /\ Cardinality(Low(x)) \in Nat
             /\ Cardinality(Low(x)) <= Cardinality(S)
             /\ Cardinality(Low(x)) # 0
  <2>1. Low(x) \in SUBSET S
    OBVIOUS
  <2>2. IsFiniteSet(Low(x)) /\ Cardinality(Low(x)) <= Cardinality(S)
    BY <2>1, FS_Subset DEF Ranked
  <2>3. Low(x) # {}
    BY DEF Ranked
  <2> HIDE DEF Low
  <2> QED
    BY <2>2, <2>3, FS_CardinalityType, FS_EmptySet
<1>3. \A x \in S : Rank(S, x) \in 1 .. Cardinality(S)
  BY <1>1, <1>2 DEF Rank
<1>4. ASSUME NEW x \in S, NEW y \in S, x.round < y.round
      PROVE  Cardinality(Low(x)) # Cardinality(Low(y))
  <2>1. Low(x) \in SUBSET Low(y) /\ y \in Low(y) /\ y \notin Low(x)
    BY <1>4 DEF Ranked
  <2>2. IsFiniteSet(Low(y))
    BY <1>2
  <2> HIDE DEF Low
  <2> QED
    BY <2>1, <2>2, FS_Subset
<1>5. \A x, y \in S : Rank(S, x) = Rank(S, y) => x = y
  <2> SUFFICES ASSUME NEW x \in S, NEW y \in S, x # y
               PROVE  Rank(S, x) # Rank(S, y)
    OBVIOUS
  <2>1. x.round < y.round \/ y.round < x.round
    BY DEF Ranked
  <2> QED
    BY <1>4, <2>1 DEF Rank
<1> DEFINE N == 1 .. Cardinality(S)
           f == [x \in S |-> Rank(S, x)]
<1>6. f \in Injection(S, N)
  BY <1>3, <1>5 DEF Injection, IsInjective
<1>7. IsFiniteSet(N) /\ Cardinality(N) = Cardinality(S)
  BY <1>1, FS_Interval
<1>8. f \in Surjection(S, N)
  <2> HIDE DEF f, N
  <2> QED
    BY <1>6, <1>7, FS_Injection
<1>9. \A i \in N : \E x \in S : Rank(S, x) = i
  BY <1>8 DEF Surjection
<1> QED
  BY <1>1, <1>3, <1>5, <1>9

\* The i-th block is the one of rank i.
LEMMA OrderFacts ==
  ASSUME NEW S, Ranked(S)
  PROVE  /\ InOrder(S) \in Seq(S) /\ Len(InOrder(S)) = Cardinality(S)
         /\ \A i \in 1 .. Cardinality(S) : InOrder(S)[i] \in S /\ Rank(S, InOrder(S)[i]) = i
         /\ \A x \in S : \E i \in 1 .. Cardinality(S) : InOrder(S)[i] = x
<1>1. Cardinality(S) \in Nat
  BY RankFacts
<1>2. \A i \in 1 .. Cardinality(S) : InOrder(S)[i] \in S /\ Rank(S, InOrder(S)[i]) = i
  BY RankFacts DEF InOrder
<1>3. InOrder(S) \in [1 .. Cardinality(S) -> S]
  BY <1>2 DEF InOrder
<1>4. InOrder(S) \in Seq(S) /\ Len(InOrder(S)) = Cardinality(S)
  <2> DEFINE g == InOrder(S)
  <2>1. g \in [1 .. Cardinality(S) -> S]
    BY <1>3
  <2> HIDE DEF g
  <2> QED
    BY <1>1, <2>1 DEF g
<1>5. \A x \in S : \E i \in 1 .. Cardinality(S) : InOrder(S)[i] = x
  BY <1>2, RankFacts
<1> QED
  BY <1>2, <1>4, <1>5

\* What comes later leaves the places of the first blocks.
LEMMA OrderBegins ==
  ASSUME NEW S, NEW T, Ranked(T), Begins(S, T)
  PROVE  /\ Ranked(S) /\ Cardinality(S) <= Cardinality(T)
         /\ \A i \in 1 .. Cardinality(S) : InOrder(T)[i] = InOrder(S)[i]
         /\ S = {InOrder(T)[i] : i \in 1 .. Cardinality(S)}
<1>1. Ranked(S) /\ Cardinality(S) <= Cardinality(T)
  BY FS_Subset DEF Begins, Ranked
<1>2. ASSUME NEW x \in S
      PROVE  Rank(T, x) = Rank(S, x)
  <2>1. \A c \in T \ S : ~(c.round <= x.round)
    BY DEF Begins, Ranked
  <2>2. {c \in T : c.round <= x.round} = {c \in S : c.round <= x.round}
    BY <2>1 DEF Begins
  <2> QED
    BY <2>2 DEF Rank
<1>3. Cardinality(S) \in Nat /\ Cardinality(T) \in Nat
  BY <1>1, RankFacts
<1>4. ASSUME NEW i \in 1 .. Cardinality(S)
      PROVE  InOrder(T)[i] = InOrder(S)[i]
  <2>1. i \in 1 .. Cardinality(T)
    BY <1>1, <1>3
  <2>2. InOrder(S)[i] \in S /\ Rank(S, InOrder(S)[i]) = i
    BY <1>1, OrderFacts
  <2>3. InOrder(T)[i] \in T /\ Rank(T, InOrder(T)[i]) = i
    BY <2>1, OrderFacts
  <2>4. Rank(T, InOrder(S)[i]) = i /\ InOrder(S)[i] \in T
    BY <1>2, <2>2 DEF Begins
  <2> QED
    BY <2>3, <2>4, RankFacts
<1>5. S = {InOrder(T)[i] : i \in 1 .. Cardinality(S)}
  <2>1. \A i \in 1 .. Cardinality(S) : InOrder(T)[i] \in S
    BY <1>1, <1>4, OrderFacts
  <2>2. \A x \in S : \E i \in 1 .. Cardinality(S) : InOrder(T)[i] = x
    BY <1>1, <1>4, OrderFacts
  <2> QED
    BY <2>1, <2>2
<1> QED
  BY <1>1, <1>4, <1>5

LEMMA BeginsTransitive ==
  ASSUME NEW S, NEW T, NEW U, Begins(S, T), Begins(T, U), Ranked(U)
  PROVE  Begins(S, U)
BY DEF Begins, Ranked

\* Ledgers of which one begins with the other.
LEMMA OrderPrefix ==
  ASSUME NEW S, NEW T, Ranked(T), Begins(S, T)
  PROVE  Ledger!IsPrefix(InOrder(S), InOrder(T))
<1>1. PICK s, t : s = InOrder(S) /\ t = InOrder(T)
  OBVIOUS
<1>2. S \subseteq T /\ Ranked(S) /\ Cardinality(S) <= Cardinality(T)
  BY OrderBegins DEF Begins
<1>3. /\ s \in Seq(T) /\ t \in Seq(T)
      /\ Len(s) = Cardinality(S) /\ Len(t) = Cardinality(T)
      /\ Cardinality(S) \in Nat /\ Cardinality(T) \in Nat
  <2>1. s \in Seq(S) /\ t \in Seq(T) /\ Len(s) = Cardinality(S) /\ Len(t) = Cardinality(T)
    BY <1>1, <1>2, OrderFacts
  <2> QED
    BY <1>2, <2>1, RankFacts
<1>4. \A i \in 1 .. Len(s) : t[i] = s[i]
  BY <1>1, <1>3, OrderBegins
<1>5. Len(s) <= Len(t)
  BY <1>2, <1>3
<1>6. SubSeq(s, 1, Len(s)) = SubSeq(t, 1, Len(s))
  BY <1>3, <1>4, <1>5
<1> QED
  BY <1>1, <1>5, <1>6 DEF Ledger!IsPrefix

-----------------------------------------------------------------------------
(* Ledgers: the chains of the heads that replicas have committed are          *)
(* beginnings of one another.                                                 *)

\* Of two blocks on one chain, the lower is on the chain of the higher.
LEMMA ChainsAreLines ==
  ASSUME NEW P, Tree(P), NEW h \in P \cup {GenesisBlock},
         NEW a \in Ancestry(P, h), NEW x \in Ancestry(P, h), x.round <= a.round
  PROVE  x \in Ancestry(P, a)
<1> DEFINE bad == {b \in P \cup {GenesisBlock} : \E y, z \in Ancestry(P, b) :
                     y.round <= z.round /\ y \notin Ancestry(P, z)}
           rounds == {b.round : b \in bad}
<1> SUFFICES ASSUME bad # {} PROVE FALSE
  OBVIOUS
<1>1. rounds \subseteq Nat /\ rounds # {}
  BY TreeRounds
<1>2. PICK r \in rounds : \A k \in rounds : r <= k
  <2> HIDE DEF rounds
  <2> QED
    BY <1>1, LeastElement
<1>3. PICK b \in bad : b.round = r
  OBVIOUS
<1>4. PICK y \in Ancestry(P, b), z \in Ancestry(P, b) :
        y.round <= z.round /\ y \notin Ancestry(P, z)
  OBVIOUS
<1>5. /\ y \in P \cup {GenesisBlock} /\ z \in P \cup {GenesisBlock}
      /\ y.round \in Nat /\ z.round \in Nat /\ b.round \in Nat
  BY AncestryFacts, TreeRounds
<1>6. z # b
  BY <1>4
<1>7. z.round < b.round /\ y # b
  BY <1>4, <1>5, <1>6, ChainsGoDown
<1>8. b # GenesisBlock /\ b \in P
  BY <1>6, AncestryOfGenesis
<1>9. PICK p \in ParentsIn(P, b) : TRUE
  BY <1>8 DEF Tree
<1>10. /\ p \in P \cup {GenesisBlock} /\ p.round < b.round /\ p.round \in Nat
       /\ Ancestry(P, b) = {b} \cup Ancestry(P, p)
  BY <1>8, ParentBelow, AncestryUnfolds, TreeRounds
<1>11. y \in Ancestry(P, p) /\ z \in Ancestry(P, p)
  BY <1>6, <1>7, <1>10
<1>12. p \in bad
  BY <1>4, <1>10, <1>11
<1>13. p.round \in rounds
  BY <1>12
<1> HIDE DEF rounds, bad
<1> QED
  BY <1>2, <1>3, <1>5, <1>10, <1>13

\* There is at most one block of a chain in a round, so a chain is finite.
LEMMA ChainRanked ==
  ASSUME NEW P, Tree(P), NEW h \in P \cup {GenesisBlock}
  PROVE  Ranked(Ancestry(P, h) \ {GenesisBlock})
<1> DEFINE A == Ancestry(P, h) \ {GenesisBlock}
           N == 0 .. h.round
           f == [x \in A |-> x.round]
<1>1. A \subseteq P \cup {GenesisBlock} /\ h.round \in Nat
  BY AncestryFacts, TreeRounds
<1>2. \A x \in A : x.round \in Nat /\ x.round <= h.round
  BY <1>1, ChainsGoDown, TreeRounds
<1>3. \A x, y \in A : x.round = y.round => x = y
  BY <1>1, TreeRounds
<1>4. f \in Injection(A, N)
  BY <1>1, <1>2, <1>3 DEF Injection, IsInjective
<1>5. IsFiniteSet(N)
  BY <1>1, FS_Interval
<1>6. IsFiniteSet(A)
  <2> HIDE DEF A, N, f
  <2> QED
    BY <1>4, <1>5, FS_Injection
<1> QED
  BY <1>2, <1>3, <1>6 DEF Ranked

\* The chain of an ancestor is the lower end of the chain.
LEMMA ChainBegins ==
  ASSUME NEW P, Tree(P), NEW h \in P \cup {GenesisBlock}, NEW a \in Ancestry(P, h)
  PROVE  Begins(Ancestry(P, a) \ {GenesisBlock}, Ancestry(P, h) \ {GenesisBlock})
<1>1. a \in P \cup {GenesisBlock}
  BY AncestryFacts
<1>2. Ancestry(P, a) \subseteq Ancestry(P, h)
  BY AncestryNested
<1>3. ASSUME NEW x \in Ancestry(P, a), NEW y \in Ancestry(P, h), y \notin Ancestry(P, a)
      PROVE  x.round < y.round
  <2>1. ~(y.round <= a.round)
    BY <1>3, ChainsAreLines
  <2>2. x \in P \cup {GenesisBlock} /\ y \in P \cup {GenesisBlock}
    BY <1>1, AncestryFacts
  <2>3. x.round \in Nat /\ y.round \in Nat /\ a.round \in Nat
    BY <1>1, <2>2, TreeRounds
  <2>4. x.round <= a.round
    BY <1>1, <2>3, ChainsGoDown
  <2> QED
    BY <2>1, <2>3, <2>4
<1> QED
  BY <1>2, <1>3 DEF Begins

\* The head of a 2-chain is certified itself, by the QC of its child.
LEMMA HeadCertified ==
  ASSUME LinkInv, NEW h \in proposals, HeadsChain(proposals, voteMsgs, h)
  PROVE  CertifiedIn(voteMsgs, h)
<1>1. PICK c \in proposals : c.qc.hash = BlockDigest(h)
  BY DEF HeadsChain
<1>2. c.qc # GenesisQC
  <2>1. BlockDigest(h) \in Digest
    BY NetworkTypes DEF LinkInv, SafetyInv, Block, BlockDigest, Digest
  <2> QED
    BY <1>1, <2>1, ZeroDigestAssumption DEF GenesisQC
<1>3. QCOk(voteMsgs, c.qc)
  BY DEF LinkInv, SafetyInv, NetworkOk, ProposalsOk
<1> QED
  BY <1>1, <1>2, <1>3, QCNamesProposal

\* What a replica has delivered is nothing, or the chain of a head.
DeliversChain(n, h) ==
  /\ h \in proposals /\ HeadsChain(proposals, voteMsgs, h)
  /\ h \in Delivered(n) /\ h.round = core[n].lastCommittedRound
  /\ Delivered(n) = Ancestry(proposals, h) \ {GenesisBlock}

LEMMA DeliveredIsChain ==
  ASSUME CommitInv, NEW n \in Node
  PROVE  \/ Delivered(n) = {} /\ core[n].lastCommittedRound = 0
         \/ \E h : DeliversChain(n, h)
<1>1. PICK q, r : q = committed[n] /\ r = core[n].lastCommittedRound
  OBVIOUS
<1>2. StreamOk(q, r, proposals, voteMsgs) /\ Tree(proposals) /\ LinkInv
  BY <1>1, TreeHolds DEF CommitInv
<1>3. r \in Nat
  BY <1>1, <1>2, LinkFacts DEF LocalState
<1>4. CASE r = 0
  BY <1>1, <1>2, <1>4, RangeOfNone DEF StreamOk, Delivered
<1>5. CASE r # 0
  <2>1. PICK h \in proposals : h.round = r /\ HeadsChain(proposals, voteMsgs, h)
                              /\ Holds(q, proposals, h)
    BY <1>2, <1>3, <1>5 DEF StreamOk
  <2>2. h \in Ancestry(proposals, h) /\ h # GenesisBlock
    BY <1>2, AncestryFacts, TreeRounds, GenesisFacts
  <2> QED
    BY <1>1, <2>1, <2>2 DEF Holds, Delivered, DeliversChain
<1> QED
  BY <1>4, <1>5

\* The ledger is what the replica that is furthest has delivered, and what each of
\* the others has delivered is a beginning of it.
LedgerView ==
  \E m \in Node :
    /\ Ranked(Delivered(m)) /\ Agreed = InOrder(Delivered(m))
    /\ \A n \in Node : Begins(Delivered(n), Delivered(m))

\* The chain of a head is a beginning of what every replica has delivered that has
\* committed its round.
HeadsDelivered ==
  \A n \in Node, a \in proposals :
    HeadsChain(proposals, voteMsgs, a) /\ a.round <= core[n].lastCommittedRound
      => Begins(Ancestry(proposals, a) \ {GenesisBlock}, Delivered(n))

LEMMA HeadsDeliveredHolds == CommitInv => HeadsDelivered
<1> SUFFICES ASSUME CommitInv, NEW n \in Node, NEW a \in proposals,
                    HeadsChain(proposals, voteMsgs, a),
                    a.round <= core[n].lastCommittedRound
             PROVE  Begins(Ancestry(proposals, a) \ {GenesisBlock}, Delivered(n))
  BY DEF HeadsDelivered
<1>1. LinkInv /\ Tree(proposals)
  BY TreeHolds DEF CommitInv
<1>2. a.round \in Nat \ {0}
  BY <1>1, TreeRounds
<1>3. PICK h : DeliversChain(n, h)
  BY <1>2, DeliveredIsChain
<1>4. /\ h \in proposals /\ HeadsChain(proposals, voteMsgs, h)
      /\ h.round \in Nat /\ a.round <= h.round
  BY <1>1, <1>3, TreeRounds DEF DeliversChain
<1>5. h.round >= a.round
  BY <1>2, <1>4
<1>6. a \in Ancestry(proposals, h)
  BY <1>1, <1>4, <1>5, HeadCertified, HeadIsFinal
<1> QED
  BY <1>1, <1>3, <1>4, <1>6, ChainBegins DEF DeliversChain

\* Somebody has committed a block of the highest round.
LEMMA Furthest ==
  ASSUME TypeInv
  PROVE  \E m \in Node : \A n \in Node :
           core[n].lastCommittedRound <= core[m].lastCommittedRound
<1> DEFINE last == [n \in Node |-> core[n].lastCommittedRound]
           tops == {last[n] : n \in Node}
<1>1. \A n \in Node : last[n] \in Nat
  BY DEF TypeInv, TypeOK, LocalState
<1>2. last \in Surjection(Node, tops)
  BY DEF Surjection
<1>3. IsFiniteSet(tops)
  <2> HIDE DEF last, tops
  <2> QED
    BY <1>2, StakeAssumption, FS_Surjection
<1>4. Leader(0) \in Node
  BY LeaderType
<1>5. tops \subseteq Int /\ tops # {}
  BY <1>1, <1>4
<1>6. PICK r \in tops : \A k \in tops : k <= r
  <2> HIDE DEF tops
  <2> QED
    BY <1>3, <1>5, GreatestElement
<1> QED
  BY <1>6

LEMMA LedgerViewHolds == CommitInv => LedgerView
<1> SUFFICES ASSUME CommitInv PROVE LedgerView
  OBVIOUS
<1>1. LinkInv /\ Tree(proposals) /\ TypeInv
  BY TreeHolds DEF CommitInv, LinkInv, SafetyInv
<1> DEFINE all  == UNION {Delivered(n) : n \in Node}
           head == CHOOSE b \in all : \A c \in all : c.round <= b.round
<1>2. CASE all = {}
  <2>1. Leader(0) \in Node
    BY LeaderType
  <2>2. \A n \in Node : Delivered(n) = {}
    BY <1>2
  <2>3. Cardinality({}) = 0 /\ IsFiniteSet({})
    BY FS_EmptySet
  <2>4. Agreed = <<>>
    BY <1>2 DEF Agreed
  <2>5. InOrder({}) = <<>>
    BY <2>3 DEF InOrder
  <2> QED
    BY <2>1, <2>2, <2>3, <2>4, <2>5 DEF LedgerView, Ranked, Begins
<1>3. CASE all # {}
  <2>1. PICK m \in Node : \A n \in Node :
          core[n].lastCommittedRound <= core[m].lastCommittedRound
    BY <1>1, Furthest
  <2>2. ASSUME NEW n \in Node, NEW x \in Delivered(n)
        PROVE  x \in proposals /\ x.round \in Nat /\ x.round <= core[m].lastCommittedRound
    <3>1. PICK h : DeliversChain(n, h)
      BY DeliveredIsChain
    <3>2. h \in proposals /\ x \in Ancestry(proposals, h) /\ x # GenesisBlock
      BY <3>1 DEF DeliversChain, Delivered
    <3>3. x \in proposals
      BY <3>2, AncestryFacts
    <3>4. x.round \in Nat /\ h.round \in Nat
      BY <1>1, <3>2, <3>3, TreeRounds
    <3>5. x.round <= h.round
      BY <1>1, <3>2, <3>4, ChainsGoDown
    <3>6. h.round <= core[m].lastCommittedRound /\ core[m].lastCommittedRound \in Nat
      BY <1>1, <2>1, <3>1 DEF DeliversChain, TypeInv, TypeOK, LocalState
    <3> QED
      BY <3>3, <3>4, <3>5, <3>6
  <2>3. Delivered(m) # {}
    <3>1. PICK n \in Node : Delivered(n) # {}
      BY <1>3
    <3>2. PICK h : DeliversChain(n, h)
      BY <3>1, DeliveredIsChain
    <3>3. core[n].lastCommittedRound \in Nat \ {0}
      BY <1>1, <3>2, TreeRounds DEF DeliversChain
    <3>4. core[m].lastCommittedRound # 0
      BY <1>1, <2>1, <3>3
    <3> QED
      BY <3>4, DeliveredIsChain DEF DeliversChain
  <2>4. PICK h : DeliversChain(m, h)
    BY <2>3, DeliveredIsChain
  <2>5. /\ h \in all /\ h \in proposals /\ h.round = core[m].lastCommittedRound
        /\ \A c \in all : c \in proposals /\ c.round \in Nat /\ c.round <= h.round
    BY <2>2, <2>4 DEF DeliversChain
  <2>6. head = h
    <3>1. head \in all /\ \A c \in all : c.round <= head.round
      BY <2>5
    <3>2. head \in proposals /\ head.round <= h.round /\ h.round <= head.round
          /\ head.round \in Nat /\ h.round \in Nat
      BY <2>5, <3>1
    <3> HIDE DEF head, all
    <3> QED
      BY <1>1, <2>5, <3>2, TreeRounds
  <2>7. Agreed = InOrder(Delivered(m))
    <3>1. Agreed = InOrder(Chain(h) \ {GenesisBlock})
      BY <1>3, <2>6 DEF Agreed
    <3>2. Chain(h) = Ancestry(proposals, h)
      BY <1>1, <2>5, ChainIsAncestry
    <3> QED
      BY <2>4, <3>1, <3>2 DEF DeliversChain
  <2>8. Ranked(Delivered(m))
    BY <1>1, <2>4, ChainRanked DEF DeliversChain
  <2>9. ASSUME NEW n \in Node
        PROVE  Begins(Delivered(n), Delivered(m))
    <3>1. CASE Delivered(n) = {}
      BY <3>1 DEF Begins
    <3>2. CASE Delivered(n) # {}
      <4>1. PICK a : DeliversChain(n, a)
        BY <3>2, DeliveredIsChain
      <4>2. a.round <= core[m].lastCommittedRound
        BY <2>1, <4>1 DEF DeliversChain
      <4> QED
        BY <4>1, <4>2, HeadsDeliveredHolds DEF DeliversChain, HeadsDelivered
    <3> QED
      BY <3>1, <3>2
  <2> QED
    BY <2>7, <2>8, <2>9 DEF LedgerView
<1> QED
  BY <1>2, <1>3

\* What one step of a replica does to proposals, votes and the last committed rounds.
LEMMA StepGrows ==
  ASSUME CommitInv, NEW n \in Node, Step(n)
  PROVE  /\ proposals \subseteq proposals'
         /\ \A a \in proposals : HeadsChain(proposals, voteMsgs, a)
              => /\ HeadsChain(proposals', voteMsgs', a)
                 /\ Ancestry(proposals', a) = Ancestry(proposals, a)
         /\ \A k \in Node : core[k].lastCommittedRound <= core'[k].lastCommittedRound
         /\ \A k \in Node : k # n => committed'[k] = committed[k]
<1>0. LinkInv /\ DOMAIN committed = Node
  BY DEF CommitInv
<1>1. /\ voteMsgs \subseteq voteMsgs' /\ proposals \subseteq proposals'
      /\ \/ proposals' = proposals
         \/ \E b : proposals' = proposals \cup {b} /\ \A d \in proposals : d.round # b.round
  BY <1>0, StepSends
<1>2. voteMsgs' \in SUBSET [vote : Vote, to : Node] /\ Tree(proposals)
  BY <1>0, NextLinks, TreeHolds DEF Next, LinkInv, SafetyInv, TypeInv, TypeOK
<1>3. ASSUME NEW a \in proposals, HeadsChain(proposals, voteMsgs, a)
      PROVE  HeadsChain(proposals', voteMsgs', a)
  <2>1. PICK c \in proposals : /\ c.qc.hash = BlockDigest(a) /\ c.round = a.round + 1
                               /\ CertifiedIn(voteMsgs, c)
    BY <1>3 DEF HeadsChain
  <2>2. SignersIn(voteMsgs, BlockDigest(c), c.round)
          \subseteq SignersIn(voteMsgs', BlockDigest(c), c.round)
    BY <1>1 DEF SignersIn
  <2>3. CertifiedIn(voteMsgs', c)
    BY <1>2, <2>1, <2>2, SignersType, QuorumGrows DEF CertifiedIn
  <2> QED
    BY <1>1, <2>1, <2>3 DEF HeadsChain
<1>4. \A a \in proposals : Ancestry(proposals', a) = Ancestry(proposals, a)
  BY <1>1, <1>2, AncestryStays
<1>5. core[n] \in LocalState /\ \A k \in Node : core[k].lastCommittedRound \in Nat
  BY <1>0, LinkFacts DEF LocalState
<1>6. KeepsChain(n) \/ ExtendsChain(n)
  BY <1>0, StepChain
<1>7. PICK x \in LocalState :
        /\ core' = [core EXCEPT ![n] = x]
        /\ core[n].lastCommittedRound <= x.lastCommittedRound
  <2>1. CASE KeepsChain(n)
    <3>1. PICK x \in LocalState : /\ core' = [core EXCEPT ![n] = x]
                                  /\ x.lastCommittedRound = core[n].lastCommittedRound
      BY <2>1 DEF KeepsChain, SameChain
    <3>2. core[n].lastCommittedRound \in Nat
      BY <1>5
    <3>3. core[n].lastCommittedRound <= x.lastCommittedRound
      BY <3>1, <3>2
    <3> QED
      BY <3>1, <3>3
  <2>2. CASE ExtendsChain(n)
    <3>1. PICK b \in proposals, s \in LocalState, x \in LocalState :
            /\ SameChain(core[n], s) /\ HasParent(s, b)
            /\ core' = [core EXCEPT ![n] = x]
            /\ \/ x.lastCommittedRound = s.lastCommittedRound
               \/ x.lastCommittedRound =
                    IF TwoChainHead(s, b).round > s.lastCommittedRound
                    THEN TwoChainHead(s, b).round ELSE s.lastCommittedRound
      BY <2>2 DEF ExtendsChain
    <3>2. PICK head : head = TwoChainHead(s, b)
      OBVIOUS
    <3>3. Closed(s)
      BY <1>0, <3>1, LinkFacts, ClosedByStore DEF SameChain
    <3>4. head.round \in Nat
      BY <3>1, <3>2, <3>3, GrandparentStored DEF LocalState
    <3>5. s.lastCommittedRound = core[n].lastCommittedRound
      BY <3>1 DEF SameChain
    <3>6. core[n].lastCommittedRound <= x.lastCommittedRound
      BY <1>5, <3>1, <3>2, <3>4, <3>5
    <3> QED
      BY <3>1, <3>6
  <2> QED
    BY <1>6, <2>1, <2>2
<1>8. \A k \in Node : core[k].lastCommittedRound <= core'[k].lastCommittedRound
  BY <1>0, <1>5, <1>7 DEF LinkInv, SafetyInv, TypeInv, TypeOK
<1>9. \A k \in Node : k # n => committed'[k] = committed[k]
  BY <1>0, <1>6 DEF KeepsChain, ExtendsChain
<1> QED
  BY <1>1, <1>3, <1>4, <1>8, <1>9

\* A step of replica n is a delivery at n.
LEMMA StepDelivers ==
  ASSUME CommitInv, LedgerView, LedgerView', HeadsDelivered', NEW n \in Node, Step(n)
  PROVE  Ledger!Deliver(n)
<1> DEFINE D(k) == Delivered(k)
           E(k) == Delivered(k)'
<1>1. ASSUME NEW k \in Node
      PROVE  Begins(D(k), E(k))
  <2>1. CASE Delivered(k) = {}
    BY <2>1 DEF Begins
  <2>2. CASE Delivered(k) # {}
    <3>1. PICK h : DeliversChain(k, h)
      BY <2>2, DeliveredIsChain
    <3>2. /\ h \in proposals' /\ HeadsChain(proposals', voteMsgs', h)
          /\ Ancestry(proposals', h) = Ancestry(proposals, h)
          /\ h.round <= core'[k].lastCommittedRound
      BY <3>1, StepGrows DEF DeliversChain, CommitInv
    <3>3. Begins(Ancestry(proposals', h) \ {GenesisBlock}, Delivered(k)')
      BY <3>2 DEF HeadsDelivered
    <3> QED
      BY <3>1, <3>2, <3>3 DEF DeliversChain
  <2> QED
    BY <2>1, <2>2
<1>2. \A k \in Node : k # n => E(k) = D(k)
  BY StepGrows DEF CommitInv, Delivered
<1>3. PICK m \in Node : Agreed = InOrder(D(m))
  BY DEF LedgerView
<1>4. PICK f \in Node : /\ Ranked(E(f)) /\ Agreed' = InOrder(E(f))
                        /\ \A k \in Node : Begins(E(k), E(f))
  BY DEF LedgerView
<1> HIDE DEF D, E
<1>5. Ledger!IsPrefix(Agreed, Agreed')
  BY <1>1, <1>3, <1>4, BeginsTransitive, OrderPrefix
<1>6. PICK j : j = Cardinality(E(n))
  OBVIOUS
<1>7. /\ j \in 0 .. Len(Agreed')
      /\ E(n) = {Agreed'[i] : i \in 1 .. j}
  <2>1. /\ Ranked(E(n)) /\ j <= Cardinality(E(f))
        /\ E(n) = {InOrder(E(f))[i] : i \in 1 .. j}
    BY <1>4, <1>6, OrderBegins
  <2>2. j \in Nat /\ Len(InOrder(E(f))) = Cardinality(E(f)) /\ Cardinality(E(f)) \in Nat
    BY <1>4, <1>6, <2>1, RankFacts, OrderFacts
  <2> QED
    BY <1>4, <2>1, <2>2
<1>8. E(n) = Ledger!First(Agreed', j)
  BY <1>7 DEF Ledger!First
<1>9. [k \in Node |-> Delivered(k)]' = [[k \in Node |-> Delivered(k)] EXCEPT ![n] = E(n)]
  BY <1>2 DEF D, E
<1>10. [k \in Node |-> Delivered(k)][n] \subseteq [k \in Node |-> Delivered(k)]'[n]
  BY <1>1 DEF D, E, Begins
<1> QED
  BY <1>5, <1>7, <1>8, <1>9, <1>10 DEF Ledger!Deliver

\* processBlock and commit, at all replicas together: there is one ledger that only
\* grows, and each replica has handed over a beginning of it, whole.
THEOREM CommitsImplementLedger == Spec => ImplementsLedger
<1>1. Init => Ledger!Init
  <2> SUFFICES ASSUME Init PROVE Ledger!Init
    OBVIOUS
  <2>1. \A n \in Node : Delivered(n) = {}
    BY RangeOfNone DEF Init, Delivered
  <2>2. Agreed = <<>>
    BY <2>1 DEF Agreed
  <2> QED
    BY <2>1, <2>2 DEF Ledger!Init
<1>2. CommitInv /\ LedgerView /\ LedgerView' /\ HeadsDelivered' /\ [Next]_vars
        => [Ledger!Next]_(Ledger!vars)
  <2> SUFFICES ASSUME CommitInv, LedgerView, LedgerView', HeadsDelivered', [Next]_vars
               PROVE  [Ledger!Next]_(Ledger!vars)
    OBVIOUS
  <2>1. CASE Next
    BY <2>1, StepDelivers DEF Next, Ledger!Next
  <2>2. CASE UNCHANGED vars
    <3>1. \A n \in Node : Delivered(n)' = Delivered(n)
      BY <2>2 DEF vars, Delivered
    <3>2. Agreed' = Agreed
      <4>1. PICK m \in Node : /\ Agreed = InOrder(Delivered(m))
                              /\ \A n \in Node : Begins(Delivered(n), Delivered(m))
        BY DEF LedgerView
      <4>2. PICK f \in Node : /\ Agreed' = InOrder(Delivered(f))
                              /\ \A n \in Node : Begins(Delivered(n), Delivered(f))
        BY <3>1 DEF LedgerView
      <4>3. Delivered(m) = Delivered(f)
        BY <4>1, <4>2 DEF Begins
      <4> QED
        BY <4>1, <4>2, <4>3
    <3> QED
      BY <3>1, <3>2 DEF Ledger!vars
  <2> QED
    BY <2>1, <2>2
<1> QED
  BY <1>1, <1>2, CommitInvHolds, LedgerViewHolds, HeadsDeliveredHolds, PTL
  DEF Spec, ImplementsLedger, Ledger!Spec
-----------------------------------------------------------------------------
(* Lost messages, and restarts (HotStuffFaults).                              *)

\* What one replica has committed up to the last round of another is what the other
\* has committed.
LEMMA CommitsShared ==
  ASSUME CommitInv, NEW n \in Node, NEW m \in Node,
         NEW b \in Delivered(n), b.round <= core[m].lastCommittedRound
  PROVE  b \in Delivered(m)
<1>1. PICK f \in Node : Ranked(Delivered(f)) /\ \A k \in Node : Begins(Delivered(k), Delivered(f))
  BY LedgerViewHolds DEF LedgerView
<1>2. b \in Delivered(f) /\ b.round \in Nat
  BY <1>1 DEF Begins, Ranked
<1>3. PICK a : DeliversChain(n, a)
  BY DeliveredIsChain
<1>4. b \in proposals /\ Tree(proposals) /\ LinkInv
  BY <1>3, TreeHolds, AncestryFacts DEF DeliversChain, Delivered, CommitInv
<1>5. b.round \in Nat \ {0}
  BY <1>4, TreeRounds
<1>6. PICK h : DeliversChain(m, h)
  BY <1>5, DeliveredIsChain
<1>7. h \in Delivered(m) /\ h.round = core[m].lastCommittedRound
  BY <1>6 DEF DeliversChain
<1> QED
  BY <1>1, <1>2, <1>7 DEF Begins, Ranked

\* Lost messages alone are no fault to safety: until a replica is killed and started
\* again, replicas that commit a round agree on it (SimpleSender, processBlock, commit).
THEOREM AgreementUntilRestart == FaultSpec => [](restarted = {} => CommitsAgree)
<1> DEFINE Safe == restarted = {} => CommitInv
<1>1. FaultInit => Safe
  BY InitCommit DEF FaultInit
<1>2. Safe /\ [FaultNext]_faultVars => Safe'
  <2> SUFFICES ASSUME Safe, [FaultNext]_faultVars, restarted' = {} PROVE CommitInv'
    OBVIOUS
  <2>1. CASE UNCHANGED faultVars
    BY <2>1, NextCommit DEF faultVars
  <2>2. CASE FaultNext
    <3>1. PICK n \in Node : FaultyStep(n) \/ Restart(n)
      BY <2>2 DEF FaultNext
    <3>2. ~Restart(n)
      BY DEF Restart
    <3>3. restarted = {} /\ Step(n)
      BY <3>1, <3>2, FaultyStepIsStep DEF FaultyStep
    <3> QED
      BY <3>3, NextCommit DEF Next
  <2> QED
    BY <2>1, <2>2
<1>3. Safe => (restarted = {} => CommitsAgree)
  <2> SUFFICES ASSUME CommitInv, NEW n \in Node, NEW m \in Node, NEW b \in Range(committed[n]),
                      b.round \in 1 .. core[m].lastCommittedRound
               PROVE  \E c \in Range(committed[m]) : BlockDigest(c) = BlockDigest(b)
    BY DEF CommitsAgree
  <2>1. b \in Delivered(n) /\ b.round <= core[m].lastCommittedRound
    BY GenesisFacts DEF Delivered
  <2> QED
    BY <2>1, CommitsShared DEF Delivered
<1> QED
  BY <1>1, <1>2, <1>3, PTL DEF FaultSpec
-----------------------------------------------------------------------------
(* What a replica that was started again still keeps: it forgets its round,   *)
(* its vote and its highQC, and may propose twice, but whatever it signs and  *)
(* aggregates verifies.                                                       *)

\* The certificates of a replica verify, and its aggregator holds what was sent.
CertOk(s, V, T) ==
  /\ QCOk(V, s.highQC)
  /\ \A m \in s.makes : QCOk(V, m.qc) /\ TCOk(T, m.tc)
  /\ VotesOk(s, V)
  /\ TimeoutsOk(s, T)

LEMMA CertOkGrows ==
  ASSUME NEW s, NEW V \in SUBSET [vote : Vote, to : Node],
         NEW W \in SUBSET [vote : Vote, to : Node], V \subseteq W,
         NEW T, NEW U, T \subseteq U, CertOk(s, V, T)
  PROVE  CertOk(s, W, U)
<1>1. QCOk(W, s.highQC) /\ \A m \in s.makes : QCOk(W, m.qc) /\ TCOk(U, m.tc)
  BY CertificatesGrow DEF CertOk
<1>2. VotesOk(s, W) /\ TimeoutsOk(s, U)
  BY DEF CertOk, VotesOk, TimeoutsOk
<1> QED
  BY <1>1, <1>2 DEF CertOk

LEMMA CertOkLess ==
  ASSUME NEW s, NEW x, NEW V, NEW T, CertOk(s, V, T),
         x.highQC = s.highQC, x.makes \subseteq s.makes,
         x.votes \subseteq s.votes, x.timeouts \subseteq s.timeouts
  PROVE  CertOk(x, V, T)
BY DEF CertOk, VotesOk, TimeoutsOk

LEMMA AdvanceCertOk ==
  ASSUME NEW s \in LocalState, NEW r, NEW V, NEW T, CertOk(s, V, T)
  PROVE  CertOk(AdvanceRound(s, r), V, T)
<1> DEFINE x == AdvanceRound(s, r)
<1>1. /\ x.highQC = s.highQC /\ x.makes \subseteq s.makes
      /\ x.votes \subseteq s.votes /\ x.timeouts \subseteq s.timeouts
  BY DEF AdvanceRound, LocalState
<1> HIDE DEF x
<1>2. CertOk(x, V, T)
  BY <1>1, CertOkLess
<1> QED
  BY <1>2 DEF x

LEMMA ProcessQCCertOk ==
  ASSUME NEW s \in LocalState, NEW qc \in QC, NEW V, NEW T, CertOk(s, V, T), QCOk(V, qc)
  PROVE  /\ CertOk(ProcessQC(s, qc), V, T)
         /\ qc.round <= ProcessQC(s, qc).highQC.round
<1> DEFINE a == AdvanceRound(s, qc.round)
           x == UpdateHighQC(a, qc)
<1>1. qc.round \in Nat
  BY DEF QC
<1>2. a \in LocalState /\ CertOk(a, V, T)
  BY <1>1, AdvanceRoundType, AdvanceCertOk
<1> HIDE DEF a
<1>3. /\ x.highQC = IF qc.round > a.highQC.round THEN qc ELSE a.highQC
      /\ x.makes = a.makes /\ x.votes = a.votes /\ x.timeouts = a.timeouts
  BY <1>2 DEF UpdateHighQC, LocalState
<1>4. a.highQC.round \in Nat /\ \A t \in a.timeouts : t.highQC.round \in Nat
  BY <1>2 DEF LocalState, Timeout, QC
<1> HIDE DEF x
<1>5. /\ qc.round <= x.highQC.round /\ QCOk(V, x.highQC)
      /\ \A t \in a.timeouts : t.highQC.round <= x.highQC.round
  BY <1>1, <1>2, <1>3, <1>4 DEF CertOk, TimeoutsOk
<1>6. VotesOk(x, V) /\ TimeoutsOk(x, T)
  BY <1>2, <1>3, <1>5 DEF CertOk, VotesOk, TimeoutsOk
<1>7. CertOk(x, V, T)
  BY <1>2, <1>3, <1>5, <1>6 DEF CertOk
<1> QED
  BY <1>5, <1>7 DEF ProcessQC, x, a

LEMMA GenerateCertOk ==
  ASSUME NEW s \in LocalState, NEW n, NEW tc, NEW V, NEW T, CertOk(s, V, T), TCOk(T, tc)
  PROVE  CertOk(GenerateProposalIfLeader(n, s, tc), V, T)
<1> DEFINE m == [round |-> s.round, qc |-> s.highQC, tc |-> tc]
           x == [s EXCEPT !.makes = @ \cup {m}]
<1>1. m.qc = s.highQC /\ m.tc = tc
  OBVIOUS
<1> HIDE DEF m
<1>2. /\ x.highQC = s.highQC /\ x.makes = s.makes \cup {m}
      /\ x.votes = s.votes /\ x.timeouts = s.timeouts
  BY DEF LocalState
<1> HIDE DEF x
<1>3. VotesOk(x, V) /\ TimeoutsOk(x, T)
  BY <1>2 DEF CertOk, VotesOk, TimeoutsOk
<1>4. CertOk(x, V, T)
  BY <1>1, <1>2, <1>3 DEF CertOk
<1> QED
  BY <1>4 DEF GenerateProposalIfLeader, x, m

LEMMA HandleVoteCertOk ==
  ASSUME NEW s \in LocalState, NEW n, NEW v \in Vote,
         NEW V \in SUBSET [vote : Vote, to : Node], NEW T, CertOk(s, V, T),
         \E m \in V : m.vote = v, v.round = v.hash.round
  PROVE  CertOk(HandleVote(n, s, v), V, T)
<1> DEFINE added == [s EXCEPT !.votes = @ \cup {v}]
           qc == [hash |-> v.hash, round |-> v.round]
           certified == ProcessQC(added, qc)
           voters == Voters(s, v.hash, v.round)
<1>1. /\ added \in LocalState /\ added.highQC = s.highQC /\ added.makes = s.makes
      /\ added.votes = s.votes \cup {v} /\ added.timeouts = s.timeouts
  BY DEF LocalState
<1> HIDE DEF added
<1>2. VotesOk(added, V) /\ TimeoutsOk(added, T)
  BY <1>1 DEF CertOk, VotesOk, TimeoutsOk
<1>3. CertOk(added, V, T)
  BY <1>1, <1>2 DEF CertOk
<1>4. ASSUME IsQuorum(voters \cup {v.author})
      PROVE  CertOk(GenerateProposalIfLeader(n, certified, NoTC), V, T)
  <2>1. qc \in QC /\ qc.hash = v.hash /\ qc.round = v.round
    BY DEF QC, Vote
  <2>2. QCOk(V, qc)
    <3>1. voters \cup {v.author} \subseteq SignersIn(V, v.hash, v.round)
      BY DEF Voters, SignersIn, CertOk, VotesOk
    <3>2. voters \cup {v.author} \in SUBSET Node
      BY <3>1, SignersType
    <3>3. IsQuorum(SignersIn(V, v.hash, v.round))
      BY <1>4, <3>1, <3>2, SignersType, QuorumGrows
    <3> QED
      BY <2>1, <3>3 DEF QCOk
  <2> HIDE DEF qc
  <2>3. certified \in LocalState /\ CertOk(certified, V, T)
    BY <1>1, <1>3, <2>1, <2>2, ProcessQCType, ProcessQCCertOk
  <2>4. TCOk(T, NoTC)
    BY DEF TCOk
  <2> QED
    BY <2>3, <2>4, GenerateCertOk
<1> HIDE DEF certified
<1> QED
  BY <1>3, <1>4 DEF HandleVote, added, certified

LEMMA CatchUpCertOk ==
  ASSUME NEW s \in LocalState, NEW b \in Block, NEW V, NEW T, CertOk(s, V, T), QCOk(V, b.qc)
  PROVE  CertOk(CatchUp(s, b), V, T)
<1>1. b.qc \in QC
  BY DEF Block
<1>2. ProcessQC(s, b.qc) \in LocalState /\ CertOk(ProcessQC(s, b.qc), V, T)
  BY <1>1, ProcessQCType, ProcessQCCertOk
<1> QED
  BY <1>2, AdvanceCertOk DEF CatchUp

\* A step after which the replica is as it should be.
StaysVerified(n) ==
  \E x : core' = [core EXCEPT ![n] = x] /\ CertOk(x, voteMsgs', timeoutMsgs')

\* The votes that a step casts.
CastsWell ==
  /\ voteMsgs \subseteq voteMsgs'
  /\ \A m \in voteMsgs' : m \in voteMsgs \/ m.vote.round = m.vote.hash.round

LEMMA AcceptCertOk ==
  ASSUME NEW n \in Node, NEW s \in LocalState, Closed(s),
         NEW V, V = voteMsgs, voteMsgs \in SUBSET [vote : Vote, to : Node],
         NEW T, CertOk(s, V, T), timeoutMsgs' = T,
         NEW b \in Block, AcceptBlock(n, s, b)
  PROVE  StaysVerified(n) /\ CastsWell
<1> DEFINE stored  == StoreBlock(s, b)
           head    == TwoChainHead(s, b)
           settled == IF IsTwoChain(s, b) THEN Commit(stored, head) ELSE stored
           voted   == IncreaseLastVotedRound(settled, b.round)
           vote    == NewVote(n, b)
           next    == Leader(settled.round + 1)
           after   == IF next = n THEN HandleVote(n, voted, vote) ELSE voted
           sent    == [vote |-> vote, to |-> next]
<1>1. b.round \in Nat /\ HasParent(s, b)
  BY DEF AcceptBlock, Block
<1>2. stored \in LocalState
  BY <1>1, StoreBlockClosed
<1>3. Commit(stored, head) \in LocalState
  BY <1>1, <1>2, GrandparentStored, CommitType
<1>4. settled \in LocalState /\ next \in Node
  <2>1. settled \in LocalState
    BY <1>2, <1>3
  <2>2. settled.round + 1 \in Nat
    BY <2>1 DEF LocalState
  <2> QED
    BY <2>1, <2>2, LeaderType
<1>5. /\ settled.highQC = s.highQC /\ settled.makes = s.makes
      /\ settled.votes = s.votes /\ settled.timeouts = s.timeouts
  BY DEF Commit, StoreBlock, LocalState
<1> HIDE DEF settled
<1>6. CertOk(settled, V, T)
  BY <1>5, CertOkLess
<1>7. voted \in LocalState /\ CertOk(voted, V, T)
  <2>1. /\ voted.highQC = settled.highQC /\ voted.makes = settled.makes
        /\ voted.votes = settled.votes /\ voted.timeouts = settled.timeouts
    BY <1>4 DEF IncreaseLastVotedRound, LocalState
  <2>2. voted \in LocalState
    BY <1>1, <1>4, IncreaseLastVotedType
  <2> HIDE DEF voted
  <2> QED
    BY <1>6, <2>1, <2>2, CertOkLess
<1>8. vote \in Vote /\ vote.round = vote.hash.round
  BY CertificateTypes DEF NewVote, BlockDigest
<1> HIDE DEF voted, vote
<1>9. CASE core' = [core EXCEPT ![n] = settled] /\ voteMsgs' = voteMsgs
  BY <1>6, <1>9 DEF StaysVerified, CastsWell
<1>10. CASE core' = [core EXCEPT ![n] = after] /\ voteMsgs' = voteMsgs \cup {sent}
  <2>1. sent \in [vote : Vote, to : Node] /\ sent.vote = vote
    BY <1>4, <1>8
  <2> HIDE DEF sent
  <2>2. voteMsgs' \in SUBSET [vote : Vote, to : Node] /\ sent \in voteMsgs' /\ V \subseteq voteMsgs'
    BY <1>10, <2>1
  <2>3. CertOk(voted, voteMsgs', T)
    BY <1>7, <2>2, CertOkGrows
  <2>4. CertOk(after, voteMsgs', T)
    BY <1>7, <1>8, <2>1, <2>2, <2>3, HandleVoteCertOk
  <2>5. CastsWell
    BY <1>8, <1>10, <2>1 DEF CastsWell
  <2> HIDE DEF after
  <2> QED
    BY <1>10, <2>4, <2>5 DEF StaysVerified
<1> QED
  BY <1>9, <1>10 DEF AcceptBlock, after, sent, vote, voted, settled

LEMMA ProcessCertOk ==
  ASSUME NEW n \in Node, NEW s \in LocalState, Closed(s),
         voteMsgs \in SUBSET [vote : Vote, to : Node],
         CertOk(s, voteMsgs, timeoutMsgs), timeoutMsgs' = timeoutMsgs,
         NEW b \in Block, ProcessBlock(n, s, b)
  PROVE  StaysVerified(n) /\ CastsWell
<1>1. CASE SuspendBlock(n, s, b)
  <2> DEFINE x == [s EXCEPT !.suspended = @ \cup {b}]
  <2>1. core' = [core EXCEPT ![n] = s] \/ core' = [core EXCEPT ![n] = x]
    BY <1>1 DEF SuspendBlock
  <2>2. /\ x.highQC = s.highQC /\ x.makes = s.makes
        /\ x.votes = s.votes /\ x.timeouts = s.timeouts
    BY DEF LocalState
  <2> HIDE DEF x
  <2>3. CertOk(x, voteMsgs, timeoutMsgs)
    BY <2>2, CertOkLess
  <2>4. voteMsgs' = voteMsgs
    BY <1>1 DEF SuspendBlock
  <2> QED
    BY <2>1, <2>3, <2>4 DEF StaysVerified, CastsWell
<1>2. CASE AcceptBlock(n, s, b)
  BY <1>2, AcceptCertOk
<1> QED
  BY <1>1, <1>2 DEF ProcessBlock

LEMMA TimeoutCertOk ==
  ASSUME NEW n \in Node, NEW s \in LocalState, NEW t \in Timeout,
         NEW V, NEW T \in SUBSET Timeout, CertOk(s, V, T), t \in T, QCOk(V, t.highQC),
         voteMsgs' = V, timeoutMsgs' = T, HandleTimeout(n, s, t)
  PROVE  /\ StaysVerified(n)
         /\ \A tc \in tcMsgs' : tc \in tcMsgs \/ TCSigned(T, tc)
<1> DEFINE caughtUp == ProcessQC(s, t.highQC)
           added    == [caughtUp EXCEPT !.timeouts = @ \cup {t}]
           tc0      == MakeTC(added, t.round)
           moved    == AdvanceRound(added, t.round)
           after    == GenerateProposalIfLeader(n, moved, tc0)
<1>1. t.highQC \in QC /\ t.round \in Nat
  BY DEF Timeout
<1>2. /\ caughtUp \in LocalState /\ CertOk(caughtUp, V, T)
      /\ t.highQC.round <= caughtUp.highQC.round
  BY <1>1, ProcessQCType, ProcessQCCertOk
<1> HIDE DEF caughtUp
<1>3. /\ added \in LocalState
      /\ added.highQC = caughtUp.highQC /\ added.makes = caughtUp.makes
      /\ added.votes = caughtUp.votes /\ added.timeouts = caughtUp.timeouts \cup {t}
  BY <1>2 DEF LocalState
<1> HIDE DEF added
<1>4. ASSUME t.author \notin TimedOut(caughtUp, t.round)
      PROVE  CertOk(added, V, T)
  <2>1. \A u \in caughtUp.timeouts : ~(u.author = t.author /\ u.round = t.round)
    BY <1>4 DEF TimedOut
  <2>2. TimeoutsOk(added, T) /\ VotesOk(added, V)
    BY <1>2, <1>3, <2>1 DEF CertOk, TimeoutsOk, VotesOk
  <2> QED
    BY <1>2, <1>3, <2>2 DEF CertOk
<1>5. CASE core' = [core EXCEPT ![n] = caughtUp] /\ tcMsgs' = tcMsgs
  BY <1>2, <1>5 DEF StaysVerified
<1>6. CASE /\ t.author \notin TimedOut(caughtUp, t.round)
           /\ core' = [core EXCEPT ![n] = added] /\ tcMsgs' = tcMsgs
  BY <1>4, <1>6 DEF StaysVerified
<1>7. CASE /\ t.author \notin TimedOut(caughtUp, t.round)
           /\ IsQuorum(TimedOut(added, t.round))
           /\ core' = [core EXCEPT ![n] = after]
           /\ tcMsgs' = tcMsgs \cup {tc0}
  <2>1. CertOk(added, V, T)
    BY <1>4, <1>7
  <2>2. TCSigned(T, tc0)
    BY <1>7, <2>1, MakeTCOk DEF CertOk
  <2>3. moved \in LocalState /\ CertOk(moved, V, T)
    BY <1>1, <1>3, <2>1, AdvanceRoundType, AdvanceCertOk
  <2> HIDE DEF moved, tc0
  <2>4. CertOk(after, V, T)
    BY <2>2, <2>3, GenerateCertOk DEF TCOk
  <2> HIDE DEF after
  <2> QED
    BY <1>7, <2>2, <2>4 DEF StaysVerified
<1> QED
  BY <1>5, <1>6, <1>7 DEF HandleTimeout, caughtUp, added, moved, tc0, after

\* What all replicas have, and what was sent.
CertInv ==
  /\ TypeInv
  /\ \A n \in Node : CertOk(core[n], voteMsgs, timeoutMsgs)
  /\ \A m \in voteMsgs : m.vote.round = m.vote.hash.round
  /\ \A b \in proposals : QCOk(voteMsgs, b.qc) /\ TCOk(timeoutMsgs, b.tc)
  /\ \A t \in timeoutMsgs : QCOk(voteMsgs, t.highQC)
  /\ \A tc \in tcMsgs : TCSigned(timeoutMsgs, tc)

\* What a step sends.
SendsVerified ==
  /\ CastsWell
  /\ timeoutMsgs \subseteq timeoutMsgs'
  /\ \A b \in proposals' : b \in proposals \/ (QCOk(voteMsgs', b.qc) /\ TCOk(timeoutMsgs', b.tc))
  /\ \A t \in timeoutMsgs' : t \in timeoutMsgs \/ QCOk(voteMsgs', t.highQC)
  /\ \A tc \in tcMsgs' : tc \in tcMsgs \/ TCSigned(timeoutMsgs', tc)

LEMMA StepVerified ==
  ASSUME CertInv, NEW n \in Node, Step(n)
  PROVE  StaysVerified(n) /\ SendsVerified
<1> DEFINE s == core[n]
           V == voteMsgs
           T == timeoutMsgs
<1>1. /\ s \in LocalState /\ Closed(s) /\ CertOk(s, V, T) /\ TypeInv
      /\ proposals \in SUBSET Block /\ T \in SUBSET Timeout /\ tcMsgs \in SUBSET TC
      /\ V \in SUBSET [vote : Vote, to : Node]
  BY LocalFacts, NetworkTypes DEF CertInv
<1>2. ASSUME NEW b \in proposals, ReceiveProposal(n, b)
      PROVE  StaysVerified(n) /\ SendsVerified
  <2> DEFINE c == CatchUp(s, b)
             x == [c EXCEPT !.pending = @ \cup {[block |-> b, missing |-> b.payload \ c.batches]}]
  <2>1. c \in LocalState /\ Closed(c) /\ CertOk(c, V, T)
    BY <1>1, CatchUpType, StoreUnchanged, ClosedByStore, CatchUpCertOk DEF CertInv
  <2>2. \/ voteMsgs' = V /\ core' = [core EXCEPT ![n] = c]
        \/ voteMsgs' = V /\ core' = [core EXCEPT ![n] = x]
        \/ ProcessBlock(n, c, b)
    BY <1>2 DEF ReceiveProposal
  <2> HIDE DEF c
  <2>3. /\ x.highQC = c.highQC /\ x.makes = c.makes
        /\ x.votes = c.votes /\ x.timeouts = c.timeouts
    BY <2>1 DEF LocalState
  <2> HIDE DEF x
  <2>4. CertOk(x, V, T)
    BY <2>1, <2>3, CertOkLess
  <2>5. proposals' = proposals /\ timeoutMsgs' = T /\ tcMsgs' = tcMsgs
    BY <1>2 DEF ReceiveProposal
  <2>6. StaysVerified(n) /\ CastsWell
    BY <1>1, <2>1, <2>2, <2>4, <2>5, ProcessCertOk DEF StaysVerified, CastsWell
  <2> QED
    BY <2>5, <2>6 DEF SendsVerified
<1>3. ASSUME NEW m \in V, ReceiveVote(n, m)
      PROVE  StaysVerified(n) /\ SendsVerified
  <2>1. /\ core' = [core EXCEPT ![n] = HandleVote(n, s, m.vote)]
        /\ UNCHANGED <<proposals, voteMsgs, timeoutMsgs, tcMsgs>>
    BY <1>3 DEF ReceiveVote
  <2>2. m.vote \in Vote /\ m.vote.round = m.vote.hash.round
    BY <1>1 DEF CertInv
  <2>3. CertOk(HandleVote(n, s, m.vote), V, T)
    BY <1>1, <2>2, HandleVoteCertOk
  <2> QED
    BY <2>1, <2>3 DEF StaysVerified, SendsVerified, CastsWell
<1>4. ASSUME NEW t \in T, ReceiveTimeout(n, t)
      PROVE  StaysVerified(n) /\ SendsVerified
  <2>1. /\ t \in Timeout /\ HandleTimeout(n, s, t) /\ QCOk(V, t.highQC)
        /\ UNCHANGED <<proposals, voteMsgs, timeoutMsgs>>
    BY <1>1, <1>4 DEF ReceiveTimeout, CertInv
  <2>2. StaysVerified(n) /\ \A tc \in tcMsgs' : tc \in tcMsgs \/ TCSigned(T, tc)
    BY <1>1, <2>1, TimeoutCertOk
  <2> QED
    BY <2>1, <2>2 DEF SendsVerified, CastsWell
<1>5. ASSUME NEW tc \in tcMsgs, ReceiveTC(n, tc)
      PROVE  StaysVerified(n) /\ SendsVerified
  <2> DEFINE a == AdvanceRound(s, tc.round)
  <2>1. tc.round \in Nat /\ TCOk(T, tc)
    BY <1>1 DEF TC, CertInv, TCOk
  <2>2. a \in LocalState /\ CertOk(a, V, T)
    BY <1>1, <2>1, AdvanceRoundType, AdvanceCertOk
  <2>3. /\ core' = [core EXCEPT ![n] = GenerateProposalIfLeader(n, a, tc)]
        /\ UNCHANGED <<proposals, voteMsgs, timeoutMsgs, tcMsgs>>
    BY <1>5 DEF ReceiveTC
  <2> HIDE DEF a
  <2>4. CertOk(GenerateProposalIfLeader(n, a, tc), V, T)
    BY <2>1, <2>2, GenerateCertOk
  <2> QED
    BY <2>3, <2>4 DEF StaysVerified, SendsVerified, CastsWell
<1>6. ASSUME NEW b \in s.loopback, ReceiveLoopback(n, b)
      PROVE  StaysVerified(n) /\ SendsVerified
  <2> DEFINE x == [s EXCEPT !.loopback = @ \ {b}]
  <2>1. ProcessBlock(n, x, b) /\ UNCHANGED <<proposals, timeoutMsgs, tcMsgs>>
    BY <1>6 DEF ReceiveLoopback
  <2>2. b \in Block
    BY <1>1 DEF LocalState
  <2>3. /\ x \in LocalState /\ x.store = s.store
        /\ x.highQC = s.highQC /\ x.makes = s.makes
        /\ x.votes = s.votes /\ x.timeouts = s.timeouts
    BY <1>1 DEF LocalState
  <2> HIDE DEF x
  <2>4. Closed(x) /\ CertOk(x, V, T)
    BY <1>1, <2>3, ClosedByStore, CertOkLess
  <2>5. StaysVerified(n) /\ CastsWell
    BY <1>1, <2>1, <2>2, <2>3, <2>4, ProcessCertOk
  <2> QED
    BY <2>1, <2>5 DEF SendsVerified
<1>7. ASSUME LocalTimeout(n)
      PROVE  StaysVerified(n) /\ SendsVerified
  <2> DEFINE x == IncreaseLastVotedRound(s, s.round)
             t == [highQC |-> x.highQC, round |-> x.round, author |-> n]
             U == T \cup {t}
  <2>1. s.round \in Nat
    BY <1>1 DEF LocalState
  <2>2. /\ x \in LocalState /\ x.highQC = s.highQC /\ x.makes = s.makes
        /\ x.votes = s.votes /\ x.timeouts = s.timeouts
    BY <1>1, <2>1, IncreaseLastVotedType DEF IncreaseLastVotedRound, LocalState
  <2>3. HandleTimeout(n, x, t) /\ timeoutMsgs' = U /\ UNCHANGED <<proposals, voteMsgs>>
    BY <1>7 DEF LocalTimeout
  <2> HIDE DEF x
  <2>4. t \in Timeout /\ t.highQC = s.highQC
    BY <2>2 DEF LocalState, Timeout
  <2> HIDE DEF t
  <2>5. U \in SUBSET Timeout /\ t \in U /\ T \subseteq U
    BY <1>1, <2>4
  <2>6. QCOk(V, t.highQC)
    BY <1>1, <2>4 DEF CertOk
  <2>7. CertOk(x, V, U)
    <3>1. CertOk(x, V, T)
      BY <1>1, <2>2, CertOkLess
    <3> HIDE DEF U
    <3> QED
      BY <1>1, <2>5, <3>1, CertOkGrows
  <2>8. StaysVerified(n) /\ \A tc \in tcMsgs' : tc \in tcMsgs \/ TCSigned(U, tc)
    <3> HIDE DEF U
    <3> QED
      BY <2>2, <2>3, <2>4, <2>5, <2>6, <2>7, TimeoutCertOk
  <2>9. \A u \in timeoutMsgs' : u \in timeoutMsgs \/ QCOk(voteMsgs', u.highQC)
    BY <2>3, <2>6
  <2> HIDE DEF U
  <2> QED
    BY <2>3, <2>5, <2>8, <2>9 DEF SendsVerified, CastsWell
<1>8. ASSUME Propose(n)
      PROVE  StaysVerified(n) /\ SendsVerified
  <2>1. PICK m \in s.makes, payload \in SUBSET s.batches :
          LET b == [author |-> n, round |-> m.round, payload |-> payload,
                    qc |-> m.qc, tc |-> m.tc]
          IN  /\ proposals' = proposals \cup {b}
              /\ core' = [core EXCEPT ![n].makes = @ \ {m}, ![n].loopback = @ \cup {b}]
              /\ UNCHANGED <<voteMsgs, timeoutMsgs, tcMsgs>>
    BY <1>8 DEF Propose
  <2> DEFINE b == [author |-> n, round |-> m.round, payload |-> payload,
                   qc |-> m.qc, tc |-> m.tc]
             x == [s EXCEPT !.makes = @ \ {m}, !.loopback = @ \cup {b}]
  <2>2. core' = [core EXCEPT ![n] = x]
    BY <1>1, <2>1 DEF TypeInv, TypeOK
  <2>3. QCOk(V, b.qc) /\ TCOk(T, b.tc)
    BY <1>1 DEF CertOk
  <2>4. proposals' = proposals \cup {b} /\ UNCHANGED <<voteMsgs, timeoutMsgs, tcMsgs>>
    BY <2>1
  <2> HIDE DEF b
  <2>5. SendsVerified
    BY <2>3, <2>4 DEF SendsVerified, CastsWell
  <2>6. /\ x.highQC = s.highQC /\ x.makes \subseteq s.makes
        /\ x.votes = s.votes /\ x.timeouts = s.timeouts
    BY <1>1 DEF LocalState
  <2> HIDE DEF x
  <2>7. CertOk(x, V, T)
    BY <1>1, <2>6, CertOkLess
  <2> QED
    BY <2>2, <2>4, <2>5, <2>7 DEF StaysVerified
<1>9. ASSUME NEW b \in s.suspended, ResumeBlock(n, b)
      PROVE  StaysVerified(n) /\ SendsVerified
  <2> DEFINE x == [s EXCEPT !.suspended = @ \ {b}, !.loopback = @ \cup {b}]
  <2>1. core' = [core EXCEPT ![n] = x] /\ UNCHANGED <<proposals, voteMsgs, timeoutMsgs, tcMsgs>>
    BY <1>1, <1>9 DEF ResumeBlock, TypeInv, TypeOK
  <2>2. /\ x.highQC = s.highQC /\ x.makes = s.makes
        /\ x.votes = s.votes /\ x.timeouts = s.timeouts
    BY <1>1 DEF LocalState
  <2> HIDE DEF x
  <2>3. CertOk(x, V, T)
    BY <1>1, <2>2, CertOkLess
  <2> QED
    BY <2>1, <2>3 DEF StaysVerified, SendsVerified, CastsWell
<1>10. ASSUME NEW w \in s.pending \cup s.cancelled, DeliverPayload(n, w)
       PROVE  StaysVerified(n) /\ SendsVerified
  <2> DEFINE x == [s EXCEPT
                     !.pending = {y \in @ : BlockDigest(y.block) # BlockDigest(w.block)},
                     !.cancelled = @ \ {w}, !.loopback = @ \cup {w.block}]
  <2>1. core' = [core EXCEPT ![n] = x] /\ UNCHANGED <<proposals, voteMsgs, timeoutMsgs, tcMsgs>>
    BY <1>1, <1>10 DEF DeliverPayload, TypeInv, TypeOK
  <2>2. /\ x.highQC = s.highQC /\ x.makes = s.makes
        /\ x.votes = s.votes /\ x.timeouts = s.timeouts
    BY <1>1 DEF LocalState
  <2> HIDE DEF x
  <2>3. CertOk(x, V, T)
    BY <1>1, <2>2, CertOkLess
  <2> QED
    BY <2>1, <2>3 DEF StaysVerified, SendsVerified, CastsWell
<1>11. ASSUME NEW d \in Batch, StoreBatch(n, d)
       PROVE  StaysVerified(n) /\ SendsVerified
  <2> DEFINE x == [s EXCEPT !.batches = @ \cup {d}]
  <2>1. core' = [core EXCEPT ![n] = x] /\ UNCHANGED <<proposals, voteMsgs, timeoutMsgs, tcMsgs>>
    BY <1>1, <1>11 DEF StoreBatch, TypeInv, TypeOK
  <2>2. /\ x.highQC = s.highQC /\ x.makes = s.makes
        /\ x.votes = s.votes /\ x.timeouts = s.timeouts
    BY <1>1 DEF LocalState
  <2> HIDE DEF x
  <2>3. CertOk(x, V, T)
    BY <1>1, <2>2, CertOkLess
  <2> QED
    BY <2>1, <2>3 DEF StaysVerified, SendsVerified, CastsWell
<1> QED
  BY <1>2, <1>3, <1>4, <1>5, <1>6, <1>7, <1>8, <1>9, <1>10, <1>11 DEF Step

LEMMA StepCertInv ==
  ASSUME CertInv, TypeInv', NEW n \in Node, Step(n)
  PROVE  CertInv'
<1>1. StaysVerified(n) /\ SendsVerified
  BY StepVerified
<1>2. PICK x : core' = [core EXCEPT ![n] = x] /\ CertOk(x, voteMsgs', timeoutMsgs')
  BY <1>1 DEF StaysVerified
<1>3. /\ voteMsgs \in SUBSET [vote : Vote, to : Node]
      /\ voteMsgs' \in SUBSET [vote : Vote, to : Node]
      /\ voteMsgs \subseteq voteMsgs' /\ timeoutMsgs \subseteq timeoutMsgs'
      /\ core \in [Node -> LocalState]
  BY <1>1 DEF CertInv, TypeInv, TypeOK, SendsVerified, CastsWell
<1>4. ASSUME NEW k \in Node PROVE CertOk(core'[k], voteMsgs', timeoutMsgs')
  <2>1. CertOk(core[k], voteMsgs', timeoutMsgs')
    BY <1>3, CertOkGrows DEF CertInv
  <2> QED
    BY <1>2, <1>3, <2>1
<1>5. /\ \A qc : QCOk(voteMsgs, qc) => QCOk(voteMsgs', qc)
      /\ \A tc : TCSigned(timeoutMsgs, tc) => TCSigned(timeoutMsgs', tc)
      /\ \A tc : TCOk(timeoutMsgs, tc) => TCOk(timeoutMsgs', tc)
  BY <1>3, CertificatesGrow
<1>6. \A m \in voteMsgs' : m.vote.round = m.vote.hash.round
  BY <1>1 DEF SendsVerified, CastsWell, CertInv
<1>7. /\ \A b \in proposals' : QCOk(voteMsgs', b.qc) /\ TCOk(timeoutMsgs', b.tc)
      /\ \A t \in timeoutMsgs' : QCOk(voteMsgs', t.highQC)
      /\ \A tc \in tcMsgs' : TCSigned(timeoutMsgs', tc)
  BY <1>1, <1>5 DEF SendsVerified, CertInv
<1> QED
  BY <1>4, <1>6, <1>7 DEF CertInv

\* NewNode starts with the genesis QC and empty makers.
LEMMA FreshCertOk ==
  ASSUME NEW n, NEW s, NEW V, NEW T,
         s.highQC = GenesisQC, s.votes = {}, s.timeouts = {},
         \A m \in s.makes : m.qc = GenesisQC /\ m.tc = NoTC
  PROVE  CertOk(s, V, T)
BY DEF CertOk, QCOk, TCOk, VotesOk, TimeoutsOk

LEMMA RestartCertInv ==
  ASSUME CertInv, TypeInv', NEW n \in Node, Restart(n)
  PROVE  CertInv'
<1>1. PICK d :
        core' = [core EXCEPT ![n] = [InitialState(n) EXCEPT
                   !.store = d.store, !.batches = d.batches]]
  BY DEF Restart
<1> DEFINE s == [InitialState(n) EXCEPT !.store = d.store, !.batches = d.batches]
<1>2. /\ s.highQC = GenesisQC /\ s.votes = {} /\ s.timeouts = {}
      /\ \A m \in s.makes : m.qc = GenesisQC /\ m.tc = NoTC
  BY DEF InitialState
<1>3. core' = [core EXCEPT ![n] = s]
  BY <1>1
<1> HIDE DEF s
<1>4. CertOk(s, voteMsgs, timeoutMsgs)
  BY <1>2, FreshCertOk
<1>5. UNCHANGED <<proposals, voteMsgs, timeoutMsgs, tcMsgs>>
  BY DEF Restart
<1>6. \A k \in Node : CertOk(core'[k], voteMsgs, timeoutMsgs)
  BY <1>3, <1>4 DEF CertInv, TypeInv, TypeOK
<1> QED
  BY <1>5, <1>6 DEF CertInv

\* Verify and handleTimeout: however often replicas are killed, whatever of their last
\* writes and messages is lost with them or on the way, no message of a replica is refused by another, and no TC asks for a QC that its holder has not seen.
\* What a restart endangers is what a replica promised, not what it signs.
THEOREM RestartsKeepVerifying ==
  FaultSpec => [](SentMessagesVerify /\ TimeoutsKnownToHolder)
<1>1. FaultInit => FaultInv /\ CertInv
  <2> SUFFICES ASSUME FaultInit PROVE FaultInv /\ CertInv
    OBVIOUS
  <2>1. FaultInv
    <3>1. TypeInv
      BY InitTypeInv DEF FaultInit
    <3> QED
      BY <3>1, NothingStored DEF FaultInit, FaultInv
  <2>2. /\ proposals = {} /\ voteMsgs = {} /\ timeoutMsgs = {} /\ tcMsgs = {}
        /\ core = [n \in Node |-> InitialState(n)]
    BY DEF FaultInit, Init
  <2>3. ASSUME NEW n \in Node PROVE CertOk(core[n], voteMsgs, timeoutMsgs)
    <3>1. /\ core[n].highQC = GenesisQC /\ core[n].votes = {} /\ core[n].timeouts = {}
          /\ \A m \in core[n].makes : m.qc = GenesisQC /\ m.tc = NoTC
      BY <2>2 DEF InitialState
    <3> QED
      BY <3>1, FreshCertOk
  <2> QED
    BY <2>1, <2>2, <2>3 DEF CertInv, FaultInv
<1>2. FaultInv /\ CertInv /\ [FaultNext]_faultVars => (FaultInv /\ CertInv)'
  <2> SUFFICES ASSUME FaultInv, CertInv, [FaultNext]_faultVars PROVE FaultInv' /\ CertInv'
    OBVIOUS
  <2>1. CASE UNCHANGED faultVars
    <3>1. TypeInv'
      BY <2>1, NextTypeInv DEF faultVars, FaultInv
    <3> QED
      BY <2>1, <3>1 DEF faultVars, vars, FaultInv, CertInv
  <2>2. ASSUME NEW n \in Node, FaultyStep(n) PROVE FaultInv' /\ CertInv'
    <3>1. FaultInv' /\ Step(n)
      BY <2>2, FaultyStepKeepsImages, FaultyStepIsStep
    <3>2. TypeInv'
      BY <3>1 DEF FaultInv
    <3> QED
      BY <3>1, <3>2, StepCertInv
  <2>3. ASSUME NEW n \in Node, Restart(n) PROVE FaultInv' /\ CertInv'
    <3>1. FaultInv'
      BY <2>3, RestartKeepsImages
    <3>2. TypeInv'
      BY <3>1 DEF FaultInv
    <3> QED
      BY <2>3, <3>1, <3>2, RestartCertInv
  <2> QED
    BY <2>1, <2>2, <2>3 DEF FaultNext
<1>3. CertInv => SentMessagesVerify /\ TimeoutsKnownToHolder
  <2> SUFFICES ASSUME CertInv PROVE SentMessagesVerify /\ TimeoutsKnownToHolder
    OBVIOUS
  <2>1. SentMessagesVerify
    BY CertificatesVerify DEF CertInv, TCOk, SentMessagesVerify, BlockVerify, TimeoutVerify
  <2>2. TimeoutsKnownToHolder
    BY DEF CertInv, CertOk, TimeoutsOk, TimeoutsKnownToHolder
  <2> QED
    BY <2>1, <2>2
<1> QED
  BY <1>1, <1>2, <1>3, PTL DEF FaultSpec

-----------------------------------------------------------------------------
(* A TC has no vote too many: it is made when the quorum is reached, and its  *)
(* maker starts again.                                                       *)

\* Without one of its votes it is no quorum.
Minimal(tc) == \E v \in tc.votes : ~IsQuorum({w.name : w \in tc.votes \ {v}})
NoneOrMinimal(tc) == tc = NoTC \/ Minimal(tc)

\* The timeouts kept are not enough for a TC, those it has asked to propose with are.
Gathers(s) ==
  /\ \A r : ~IsQuorum(TimedOut(s, r))
  /\ \A m \in s.makes : NoneOrMinimal(m.tc)
  /\ IsFiniteSet(s.batches)

\* What the methods of Core do to this, handleTimeout and handleTC apart.
Gains(s, x) ==
  /\ x.timeouts \subseteq s.timeouts
  /\ \A m \in x.makes : m \in s.makes \/ m.tc = NoTC
  /\ x.batches = s.batches

LEMMA GainsGathers ==
  ASSUME NEW s \in LocalState, Gathers(s), NEW x, Gains(s, x)
  PROVE  Gathers(x)
<1>1. ASSUME NEW r PROVE ~IsQuorum(TimedOut(x, r))
  <2>1. TimedOut(s, r) \in SUBSET Node
    BY DEF TimedOut, LocalState, Timeout
  <2>2. TimedOut(x, r) \subseteq TimedOut(s, r)
    BY DEF TimedOut, Gains
  <2>3. TimedOut(x, r) \in SUBSET Node
    BY <2>1, <2>2
  <2> QED
    BY <2>1, <2>2, <2>3, QuorumGrows DEF Gathers
<1> QED
  BY <1>1 DEF Gathers, Gains, NoneOrMinimal

LEMMA GainsTransitive ==
  ASSUME NEW s, NEW x, NEW y, Gains(s, x), Gains(x, y)
  PROVE  Gains(s, y)
BY DEF Gains

LEMMA AdvanceGains ==
  ASSUME NEW s \in LocalState, NEW r
  PROVE  Gains(s, AdvanceRound(s, r))
<1> DEFINE x == AdvanceRound(s, r)
<1>1. /\ x.makes = s.makes /\ x.batches = s.batches
      /\ x.timeouts = s.timeouts \/ x.timeouts = {t \in s.timeouts : t.round > r}
  BY DEF AdvanceRound, LocalState
<1> HIDE DEF x
<1> QED
  BY <1>1 DEF Gains, x

LEMMA ProcessQCGains ==
  ASSUME NEW s \in LocalState, NEW qc \in QC
  PROVE  Gains(s, ProcessQC(s, qc))
<1> DEFINE a == AdvanceRound(s, qc.round)
           x == ProcessQC(s, qc)
<1>1. a \in LocalState /\ Gains(s, a)
  BY AdvanceRoundType, AdvanceGains DEF QC
<1> HIDE DEF a
<1>2. x.makes = a.makes /\ x.batches = a.batches /\ x.timeouts = a.timeouts
  BY <1>1 DEF ProcessQC, UpdateHighQC, LocalState, a
<1> HIDE DEF x
<1> QED
  BY <1>1, <1>2 DEF Gains, x

LEMMA GenerateGathers ==
  ASSUME NEW s \in LocalState, Gathers(s), NEW n, NEW tc, NoneOrMinimal(tc)
  PROVE  Gathers(GenerateProposalIfLeader(n, s, tc))
<1> DEFINE m == [round |-> s.round, qc |-> s.highQC, tc |-> tc]
           x == [s EXCEPT !.makes = @ \cup {m}]
<1>1. m.tc = tc
  OBVIOUS
<1> HIDE DEF m
<1>2. x.timeouts = s.timeouts /\ x.batches = s.batches /\ x.makes = s.makes \cup {m}
  BY DEF LocalState
<1> HIDE DEF x
<1>3. Gathers(x)
  BY <1>1, <1>2 DEF Gathers, TimedOut
<1> QED
  BY <1>3 DEF GenerateProposalIfLeader, x, m

LEMMA HandleVoteGathers ==
  ASSUME NEW s \in LocalState, Gathers(s), NEW n, NEW v \in Vote
  PROVE  Gathers(HandleVote(n, s, v))
<1> DEFINE added == [s EXCEPT !.votes = @ \cup {v}]
           qc == [hash |-> v.hash, round |-> v.round]
<1>1. added \in LocalState /\ Gathers(added)
  <2>1. /\ added \in LocalState
        /\ added.makes = s.makes /\ added.timeouts = s.timeouts /\ added.batches = s.batches
    BY DEF LocalState
  <2> HIDE DEF added
  <2>2. Gains(s, added)
    BY <2>1 DEF Gains
  <2> QED
    BY <2>1, <2>2, GainsGathers
<1>2. qc \in QC
  BY DEF QC, Vote
<1> HIDE DEF added, qc
<1>3. ProcessQC(added, qc) \in LocalState /\ Gathers(ProcessQC(added, qc))
  BY <1>1, <1>2, ProcessQCType, ProcessQCGains, GainsGathers
<1>4. Gathers(GenerateProposalIfLeader(n, ProcessQC(added, qc), NoTC))
  BY <1>3, GenerateGathers DEF NoneOrMinimal
<1> QED
  BY <1>1, <1>4 DEF HandleVote, added, qc

LEMMA VotedGains ==
  ASSUME NEW s \in LocalState, NEW r
  PROVE  Gains(s, IncreaseLastVotedRound(s, r))
<1> DEFINE x == IncreaseLastVotedRound(s, r)
<1>1. x.makes = s.makes /\ x.timeouts = s.timeouts /\ x.batches = s.batches
  BY DEF IncreaseLastVotedRound, LocalState
<1> HIDE DEF x
<1> QED
  BY <1>1 DEF Gains, x

LEMMA CatchUpGains ==
  ASSUME NEW s \in LocalState, NEW b \in Block
  PROVE  Gains(s, CatchUp(s, b))
<1>1. b.qc \in QC
  BY DEF Block
<1>2. ProcessQC(s, b.qc) \in LocalState /\ Gains(s, ProcessQC(s, b.qc))
  BY <1>1, ProcessQCType, ProcessQCGains
<1> QED
  BY <1>2, AdvanceGains, GainsTransitive DEF CatchUp

\* A step after which the replica is as it should be.
StaysGathering(n) == \E x : core' = [core EXCEPT ![n] = x] /\ Gathers(x)

LEMMA ProcessGathers ==
  ASSUME TypeInv, NEW n \in Node, NEW s \in LocalState, Closed(s), Gathers(s),
         NEW b \in Block, ProcessBlock(n, s, b)
  PROVE  StaysGathering(n)
<1>1. CASE SuspendBlock(n, s, b)
  <2> DEFINE x == [s EXCEPT !.suspended = @ \cup {b}]
  <2>1. core' = [core EXCEPT ![n] = s] \/ core' = [core EXCEPT ![n] = x]
    BY <1>1 DEF SuspendBlock
  <2>2. x.makes = s.makes /\ x.timeouts = s.timeouts /\ x.batches = s.batches
    BY DEF LocalState
  <2> HIDE DEF x
  <2>3. Gathers(x)
    BY <2>2, GainsGathers DEF Gains
  <2> QED
    BY <2>1, <2>3 DEF StaysGathering
<1>2. CASE AcceptBlock(n, s, b)
  <2> DEFINE stored  == StoreBlock(s, b)
             head    == TwoChainHead(s, b)
             settled == IF IsTwoChain(s, b) THEN Commit(stored, head) ELSE stored
             voted   == IncreaseLastVotedRound(settled, b.round)
             vote    == NewVote(n, b)
             next    == Leader(settled.round + 1)
             after   == IF next = n THEN HandleVote(n, voted, vote) ELSE voted
  <2>1. b.round \in Nat /\ HasParent(s, b)
    BY <1>2 DEF AcceptBlock, Block
  <2>2. stored \in LocalState
    BY <2>1, StoreBlockClosed
  <2>3. Commit(stored, head) \in LocalState
    BY <2>1, <2>2, GrandparentStored, CommitType
  <2>4. settled \in LocalState
    BY <2>2, <2>3
  <2>5. settled.makes = s.makes /\ settled.timeouts = s.timeouts /\ settled.batches = s.batches
    BY DEF Commit, StoreBlock, LocalState
  <2> HIDE DEF settled
  <2>6. Gathers(settled)
    BY <2>5, GainsGathers DEF Gains
  <2>7. voted \in LocalState /\ Gathers(voted)
    BY <2>1, <2>4, <2>6, IncreaseLastVotedType, VotedGains, GainsGathers
  <2>8. vote \in Vote
    BY CertificateTypes
  <2> HIDE DEF voted, vote
  <2>9. Gathers(after)
    BY <2>7, <2>8, HandleVoteGathers
  <2> HIDE DEF after
  <2>10. core' = [core EXCEPT ![n] = settled] \/ core' = [core EXCEPT ![n] = after]
    BY <1>2 DEF AcceptBlock, after, voted, vote, settled
  <2> QED
    BY <2>6, <2>9, <2>10 DEF StaysGathering
<1> QED
  BY <1>1, <1>2 DEF ProcessBlock

\* The timeout that completes the quorum is the vote that the TC needs.
LEMMA CompletedTC ==
  ASSUME NEW s, NEW x, NEW t, x.timeouts = s.timeouts \cup {t},
         ~IsQuorum(TimedOut(s, t.round)), TimedOut(s, t.round) \in SUBSET Node
  PROVE  Minimal(MakeTC(x, t.round))
<1> DEFINE ts == {u \in x.timeouts : u.round = t.round}
           votes == {[name |-> u.author, round |-> u.highQC.round] : u \in ts}
           v == [name |-> t.author, round |-> t.highQC.round]
           names == {w.name : w \in votes \ {v}}
<1>1. MakeTC(x, t.round).votes = votes
  BY DEF MakeTC
<1>2. v \in votes
  BY DEF ts
<1>3. names \subseteq TimedOut(s, t.round)
  <2> SUFFICES ASSUME NEW w \in votes, w # v PROVE w.name \in TimedOut(s, t.round)
    OBVIOUS
  <2>1. PICK u \in ts : w = [name |-> u.author, round |-> u.highQC.round]
    OBVIOUS
  <2>2. u # t
    BY <2>1
  <2>3. u \in s.timeouts /\ u.round = t.round /\ w.name = u.author
    BY <2>1, <2>2
  <2> QED
    BY <2>3 DEF TimedOut
<1> HIDE DEF names
<1>4. ~IsQuorum(names)
  <2>1. names \in SUBSET Node
    BY <1>3
  <2> QED
    BY <1>3, <2>1, QuorumGrows
<1> HIDE DEF votes, v
<1>5. \E d \in votes : ~IsQuorum({w.name : w \in votes \ {d}})
  BY <1>2, <1>4 DEF names
<1> QED
  BY <1>1, <1>5 DEF Minimal
LEMMA TimeoutGathers ==
  ASSUME NEW n \in Node, NEW s \in LocalState, Gathers(s), NEW t \in Timeout,
         t.highQC.round < t.round, HandleTimeout(n, s, t)
  PROVE  /\ StaysGathering(n)
         /\ \A tc \in tcMsgs' : tc \in tcMsgs \/ Minimal(tc)
<1> DEFINE r        == t.round
           caughtUp == ProcessQC(s, t.highQC)
           added    == [caughtUp EXCEPT !.timeouts = @ \cup {t}]
           tc0      == MakeTC(added, r)
           moved    == AdvanceRound(added, r)
           after    == GenerateProposalIfLeader(n, moved, tc0)
<1>1. t.highQC \in QC /\ r \in Nat /\ t.highQC.round \in Nat /\ s.round \in Nat
  BY DEF Timeout, QC, LocalState
<1>2. caughtUp \in LocalState /\ Gathers(caughtUp)
  BY <1>1, ProcessQCType, ProcessQCGains, GainsGathers
<1>3. ~(r < caughtUp.round)
  <2>1. ~(r < s.round)
    BY <1>1 DEF HandleTimeout
  <2>2. caughtUp.round = AdvanceRound(s, t.highQC.round).round
    BY <1>1, AdvanceRoundType DEF ProcessQC, UpdateHighQC, LocalState
  <2>3. AdvanceRound(s, t.highQC.round).round =
          IF t.highQC.round < s.round THEN s.round ELSE t.highQC.round + 1
    BY DEF AdvanceRound, LocalState
  <2> QED
    BY <1>1, <2>1, <2>2, <2>3
<1> HIDE DEF caughtUp
<1>4. /\ added \in LocalState
      /\ added.round = caughtUp.round /\ added.makes = caughtUp.makes
      /\ added.batches = caughtUp.batches /\ added.timeouts = caughtUp.timeouts \cup {t}
  BY <1>2 DEF LocalState
<1> HIDE DEF added
<1>5. CASE core' = [core EXCEPT ![n] = caughtUp] /\ tcMsgs' = tcMsgs
  BY <1>2, <1>5 DEF StaysGathering
<1>6. CASE /\ ~IsQuorum(TimedOut(added, r))
           /\ core' = [core EXCEPT ![n] = added] /\ tcMsgs' = tcMsgs
  <2>1. ASSUME NEW k, k # r PROVE TimedOut(added, k) = TimedOut(caughtUp, k)
    BY <1>4, <2>1 DEF TimedOut
  <2>2. \A k : ~IsQuorum(TimedOut(added, k))
    BY <1>2, <1>6, <2>1 DEF Gathers
  <2>3. Gathers(added)
    BY <1>2, <1>4, <2>2 DEF Gathers
  <2> QED
    BY <1>6, <2>3 DEF StaysGathering
<1>7. CASE /\ core' = [core EXCEPT ![n] = after]
           /\ tcMsgs' = tcMsgs \cup {tc0}
  <2>1. Minimal(tc0)
    <3>1. TimedOut(caughtUp, r) \in SUBSET Node
      BY <1>2 DEF TimedOut, LocalState, Timeout
    <3>2. ~IsQuorum(TimedOut(caughtUp, r))
      BY <1>2 DEF Gathers
    <3> QED
      BY <1>4, <3>1, <3>2, CompletedTC
  <2>2. moved \in LocalState
    BY <1>1, <1>4, AdvanceRoundType
  <2>3. /\ moved.makes = caughtUp.makes /\ moved.batches = caughtUp.batches
        /\ moved.timeouts = {u \in added.timeouts : u.round > r}
    BY <1>3, <1>4 DEF AdvanceRound, LocalState
  <2>4. moved.timeouts \subseteq caughtUp.timeouts
    BY <1>1, <1>4, <2>3
  <2> HIDE DEF moved, tc0
  <2>5. Gathers(moved)
    BY <1>2, <2>3, <2>4, GainsGathers DEF Gains
  <2>6. Gathers(after)
    BY <2>1, <2>2, <2>5, GenerateGathers DEF NoneOrMinimal
  <2> HIDE DEF after
  <2> QED
    BY <1>7, <2>1, <2>6 DEF StaysGathering
<1> QED
  BY <1>5, <1>6, <1>7 DEF HandleTimeout, caughtUp, added, moved, tc0, after

GatherInv ==
  /\ LinkInv
  /\ \A n \in Node : Gathers(core[n])
  /\ \A b \in proposals : NoneOrMinimal(b.tc) /\ IsFiniteSet(b.payload)
  /\ \A tc \in tcMsgs : Minimal(tc)
  /\ \A t \in timeoutMsgs : t.highQC.round < t.round
  /\ IsFiniteSet(timeoutMsgs)

\* What a step sends.
SendsMinimal ==
  /\ \A b \in proposals' : b \in proposals \/ (NoneOrMinimal(b.tc) /\ IsFiniteSet(b.payload))
  /\ \A tc \in tcMsgs' : tc \in tcMsgs \/ Minimal(tc)
  /\ \A t \in timeoutMsgs' : t \in timeoutMsgs \/ t.highQC.round < t.round

LEMMA StepGathers ==
  ASSUME GatherInv, NEW n \in Node, Step(n)
  PROVE  StaysGathering(n) /\ SendsMinimal
<1> DEFINE s == core[n]
<1>1. /\ s \in LocalState /\ Closed(s) /\ OwnRounds(s) /\ Gathers(s) /\ TypeInv
      /\ proposals \in SUBSET Block /\ timeoutMsgs \in SUBSET Timeout /\ tcMsgs \in SUBSET TC
      /\ voteMsgs \in SUBSET [vote : Vote, to : Node]
  BY LinkFacts, NetworkTypes DEF GatherInv
<1>2. ASSUME NEW b \in proposals, ReceiveProposal(n, b)
      PROVE  StaysGathering(n) /\ SendsMinimal
  <2> DEFINE c == CatchUp(s, b)
             w == [block |-> b, missing |-> b.payload \ c.batches]
             x == [c EXCEPT !.pending = @ \cup {w}]
  <2>1. c \in LocalState /\ Closed(c) /\ Gathers(c)
    BY <1>1, CatchUpType, StoreUnchanged, ClosedByStore, CatchUpGains, GainsGathers
  <2>2. \/ core' = [core EXCEPT ![n] = c]
        \/ core' = [core EXCEPT ![n] = x]
        \/ ProcessBlock(n, c, b)
    BY <1>2 DEF ReceiveProposal
  <2> HIDE DEF c
  <2>3. x.makes = c.makes /\ x.timeouts = c.timeouts /\ x.batches = c.batches
    BY <2>1 DEF LocalState
  <2> HIDE DEF x
  <2>4. Gathers(x)
    BY <2>1, <2>3, GainsGathers DEF Gains
  <2>5. SendsMinimal
    BY <1>2 DEF ReceiveProposal, SendsMinimal
  <2>6. ProcessBlock(n, c, b) => StaysGathering(n)
    BY <1>1, <2>1, ProcessGathers
  <2> QED
    BY <2>1, <2>2, <2>4, <2>5, <2>6 DEF StaysGathering
<1>3. ASSUME NEW m \in voteMsgs, ReceiveVote(n, m)
      PROVE  StaysGathering(n) /\ SendsMinimal
  <2>1. core' = [core EXCEPT ![n] = HandleVote(n, s, m.vote)]
    BY <1>3 DEF ReceiveVote
  <2>2. m.vote \in Vote
    BY <1>1
  <2>3. Gathers(HandleVote(n, s, m.vote))
    BY <1>1, <2>2, HandleVoteGathers
  <2> QED
    BY <1>3, <2>1, <2>3 DEF StaysGathering, ReceiveVote, SendsMinimal
<1>4. ASSUME NEW t \in timeoutMsgs, ReceiveTimeout(n, t)
      PROVE  StaysGathering(n) /\ SendsMinimal
  <2>1. t \in Timeout /\ HandleTimeout(n, s, t) /\ t.highQC.round < t.round
    BY <1>1, <1>4 DEF ReceiveTimeout, GatherInv
  <2>2. StaysGathering(n) /\ \A tc \in tcMsgs' : tc \in tcMsgs \/ Minimal(tc)
    BY <1>1, <2>1, TimeoutGathers
  <2> QED
    BY <1>4, <2>2 DEF ReceiveTimeout, SendsMinimal
<1>5. ASSUME NEW tc \in tcMsgs, ReceiveTC(n, tc)
      PROVE  StaysGathering(n) /\ SendsMinimal
  <2> DEFINE a == AdvanceRound(s, tc.round)
  <2>1. tc.round \in Nat /\ NoneOrMinimal(tc)
    BY <1>1 DEF TC, GatherInv, NoneOrMinimal
  <2>2. a \in LocalState /\ Gathers(a)
    BY <1>1, <2>1, AdvanceRoundType, AdvanceGains, GainsGathers
  <2>3. core' = [core EXCEPT ![n] = GenerateProposalIfLeader(n, a, tc)]
    BY <1>5 DEF ReceiveTC
  <2> HIDE DEF a
  <2>4. Gathers(GenerateProposalIfLeader(n, a, tc))
    BY <2>1, <2>2, GenerateGathers
  <2> QED
    BY <1>5, <2>3, <2>4 DEF StaysGathering, ReceiveTC, SendsMinimal
<1>6. ASSUME NEW b \in s.loopback, ReceiveLoopback(n, b)
      PROVE  StaysGathering(n) /\ SendsMinimal
  <2> DEFINE x == [s EXCEPT !.loopback = @ \ {b}]
  <2>1. ProcessBlock(n, x, b)
    BY <1>6 DEF ReceiveLoopback
  <2>2. b \in Block
    BY <1>1 DEF LocalState
  <2>3. /\ x \in LocalState /\ x.store = s.store
        /\ x.makes = s.makes /\ x.timeouts = s.timeouts /\ x.batches = s.batches
    BY <1>1 DEF LocalState
  <2> HIDE DEF x
  <2>4. Closed(x) /\ Gathers(x)
    BY <1>1, <2>3, ClosedByStore, GainsGathers DEF Gains
  <2>5. StaysGathering(n)
    BY <1>1, <2>1, <2>2, <2>3, <2>4, ProcessGathers
  <2> QED
    BY <1>6, <2>5 DEF ReceiveLoopback, SendsMinimal
<1>7. ASSUME LocalTimeout(n)
      PROVE  StaysGathering(n) /\ SendsMinimal
  <2> DEFINE x == IncreaseLastVotedRound(s, s.round)
             t == [highQC |-> x.highQC, round |-> x.round, author |-> n]
  <2>1. s.round \in Nat
    BY <1>1 DEF LocalState
  <2>2. x \in LocalState /\ Gathers(x) /\ OwnRounds(x)
    BY <1>1, <2>1, IncreaseLastVotedType, VotedGains, GainsGathers, VotedOwnRounds
  <2>3. t \in Timeout /\ t.highQC.round < t.round
    BY <2>2 DEF LocalState, Timeout, OwnRounds
  <2>4. HandleTimeout(n, x, t) /\ timeoutMsgs' = timeoutMsgs \cup {t} /\ proposals' = proposals
    BY <1>7 DEF LocalTimeout
  <2> HIDE DEF x, t
  <2>5. StaysGathering(n) /\ \A tc \in tcMsgs' : tc \in tcMsgs \/ Minimal(tc)
    BY <2>2, <2>3, <2>4, TimeoutGathers
  <2> QED
    BY <2>3, <2>4, <2>5 DEF SendsMinimal
<1>8. ASSUME Propose(n)
      PROVE  StaysGathering(n) /\ SendsMinimal
  <2>1. PICK m \in s.makes, payload \in SUBSET s.batches :
          LET b == [author |-> n, round |-> m.round, payload |-> payload,
                    qc |-> m.qc, tc |-> m.tc]
          IN  /\ proposals' = proposals \cup {b}
              /\ core' = [core EXCEPT ![n].makes = @ \ {m}, ![n].loopback = @ \cup {b}]
              /\ UNCHANGED <<timeoutMsgs, tcMsgs>>
    BY <1>8 DEF Propose
  <2> DEFINE b == [author |-> n, round |-> m.round, payload |-> payload,
                   qc |-> m.qc, tc |-> m.tc]
             x == [s EXCEPT !.makes = @ \ {m}, !.loopback = @ \cup {b}]
  <2>2. core' = [core EXCEPT ![n] = x]
    BY <1>1, <2>1 DEF TypeInv, TypeOK
  <2>3. NoneOrMinimal(b.tc) /\ IsFiniteSet(b.payload)
    BY <1>1, FS_Subset DEF Gathers
  <2>4. SendsMinimal
    <3> HIDE DEF b
    <3>1. proposals' = proposals \cup {b} /\ UNCHANGED <<timeoutMsgs, tcMsgs>>
      BY <2>1 DEF b
    <3> QED
      BY <2>3, <3>1 DEF SendsMinimal
  <2> HIDE DEF b
  <2>5. x.makes = s.makes \ {m} /\ x.timeouts = s.timeouts /\ x.batches = s.batches
    BY <1>1 DEF LocalState
  <2> HIDE DEF x
  <2>6. Gathers(x)
    BY <1>1, <2>5, GainsGathers DEF Gains
  <2> QED
    BY <2>2, <2>4, <2>6 DEF StaysGathering
<1>9. ASSUME NEW b \in s.suspended, ResumeBlock(n, b)
      PROVE  StaysGathering(n) /\ SendsMinimal
  <2> DEFINE x == [s EXCEPT !.suspended = @ \ {b}, !.loopback = @ \cup {b}]
  <2>1. core' = [core EXCEPT ![n] = x]
    BY <1>1, <1>9 DEF ResumeBlock, TypeInv, TypeOK
  <2>2. x.makes = s.makes /\ x.timeouts = s.timeouts /\ x.batches = s.batches
    BY <1>1 DEF LocalState
  <2> HIDE DEF x
  <2>3. Gathers(x)
    BY <1>1, <2>2, GainsGathers DEF Gains
  <2> QED
    BY <1>9, <2>1, <2>3 DEF StaysGathering, ResumeBlock, SendsMinimal
<1>10. ASSUME NEW w \in s.pending \cup s.cancelled, DeliverPayload(n, w)
       PROVE  StaysGathering(n) /\ SendsMinimal
  <2> DEFINE x == [s EXCEPT
                     !.pending = {y \in @ : BlockDigest(y.block) # BlockDigest(w.block)},
                     !.cancelled = @ \ {w}, !.loopback = @ \cup {w.block}]
  <2>1. core' = [core EXCEPT ![n] = x]
    BY <1>1, <1>10 DEF DeliverPayload, TypeInv, TypeOK
  <2>2. x.makes = s.makes /\ x.timeouts = s.timeouts /\ x.batches = s.batches
    BY <1>1 DEF LocalState
  <2> HIDE DEF x
  <2>3. Gathers(x)
    BY <1>1, <2>2, GainsGathers DEF Gains
  <2> QED
    BY <1>10, <2>1, <2>3 DEF StaysGathering, DeliverPayload, SendsMinimal
<1>11. ASSUME NEW d \in Batch, StoreBatch(n, d)
       PROVE  StaysGathering(n) /\ SendsMinimal
  <2> DEFINE x == [s EXCEPT !.batches = @ \cup {d}]
  <2>1. core' = [core EXCEPT ![n] = x]
    BY <1>1, <1>11 DEF StoreBatch, TypeInv, TypeOK
  <2>2. x.makes = s.makes /\ x.timeouts = s.timeouts /\ x.batches = s.batches \cup {d}
    BY <1>1 DEF LocalState
  <2> HIDE DEF x
  <2>3. IsFiniteSet(x.batches)
    BY <1>1, <2>2, FS_AddElement DEF Gathers
  <2>4. \A r : TimedOut(x, r) = TimedOut(s, r)
    BY <2>2 DEF TimedOut
  <2>5. Gathers(x)
    BY <1>1, <2>2, <2>3, <2>4 DEF Gathers
  <2> QED
    BY <1>11, <2>1, <2>5 DEF StaysGathering, StoreBatch, SendsMinimal
<1> QED
  BY <1>2, <1>3, <1>4, <1>5, <1>6, <1>7, <1>8, <1>9, <1>10, <1>11 DEF Step

LEMMA InitGathers == Init => GatherInv
<1> SUFFICES ASSUME Init PROVE GatherInv
  OBVIOUS
<1>1. LinkInv
  BY InitLinks
<1>2. /\ proposals = {} /\ tcMsgs = {} /\ timeoutMsgs = {} /\ IsFiniteSet({})
      /\ core = [n \in Node |-> InitialState(n)]
  BY FS_EmptySet DEF Init
<1>3. ~IsQuorum({})
  BY WeightLaws, ThresholdBounds DEF IsQuorum
<1>4. ASSUME NEW n \in Node PROVE Gathers(core[n])
  <2>1. /\ core[n].timeouts = {} /\ core[n].batches = {}
        /\ \A m \in core[n].makes : m.tc = NoTC
    BY <1>2 DEF InitialState
  <2>2. \A r : TimedOut(core[n], r) = {}
    BY <2>1 DEF TimedOut
  <2> QED
    BY <1>2, <1>3, <2>1, <2>2 DEF Gathers, NoneOrMinimal
<1> QED
  BY <1>1, <1>2, <1>4 DEF GatherInv

LEMMA NextGathers == GatherInv /\ [Next]_vars => GatherInv'
<1> SUFFICES ASSUME GatherInv, [Next]_vars PROVE GatherInv'
  OBVIOUS
<1>1. LinkInv'
  BY NextLinks DEF GatherInv
<1>2. IsFiniteSet(timeoutMsgs')
  BY TimeoutsStayFinite DEF GatherInv
<1>3. CASE UNCHANGED vars
  BY <1>1, <1>3 DEF vars, GatherInv
<1>4. CASE Next
  <2>1. PICK n \in Node : Step(n)
    BY <1>4 DEF Next
  <2>2. PICK x : core' = [core EXCEPT ![n] = x] /\ Gathers(x)
    BY <2>1, StepGathers DEF StaysGathering
  <2>3. core \in [Node -> LocalState]
    BY DEF GatherInv, LinkInv, SafetyInv, TypeInv, TypeOK
  <2>4. ASSUME NEW k \in Node PROVE Gathers(core'[k])
    BY <2>2, <2>3 DEF GatherInv
  <2>5. SendsMinimal
    BY <2>1, StepGathers
  <2> QED
    BY <1>1, <1>2, <2>4, <2>5 DEF GatherInv, SendsMinimal
<1> QED
  BY <1>3, <1>4

-----------------------------------------------------------------------------
(* The messages with their fields.                                           *)

LEMMA ReplicasKnown == \A n \in Node : Known(n)
BY StakeAssumption DEF Known

\* The signatures that a QC and a TC stand for.
VoteSignatures(hash, r) == [n \in Node |-> [signer |-> n, digest |-> VoteDigest(hash, r)]]
TimeoutSignatures(r) ==
  [v \in [name : Node, round : Nat] |->
     [signer |-> v.name, digest |-> TimeoutDigest(r, v.round)]]

LEMMA VoteItemsSigned ==
  ASSUME TypeOK, NEW hash, NEW r
  PROVE  /\ \A x \in VoteItems(hash, r) : /\ x.author \in Node /\ x.entry \in Node
                                         /\ IsItem(x, VoteSignatures(hash, r))
         /\ {x.author : x \in VoteItems(hash, r)} = SignersIn(voteMsgs, hash, r)
<1> DEFINE of == {m \in voteMsgs : m.vote.hash = hash /\ m.vote.round = r}
<1>1. VoteItems(hash, r) = {VoteItem(m.vote) : m \in of}
  BY DEF VoteItems
<1>2. \A m \in of : m.vote.author \in Node /\ m.vote.hash = hash /\ m.vote.round = r
  BY DEF TypeOK, Vote
<1>3. SignersIn(voteMsgs, hash, r) = {m.vote.author : m \in of}
  BY DEF SignersIn
<1> HIDE DEF of
<1>4. \A m \in of : /\ VoteItem(m.vote).author = m.vote.author
                    /\ VoteItem(m.vote).entry = m.vote.author
                    /\ VoteItem(m.vote).signature =
                         SetToBag({[signer |-> m.vote.author, digest |-> VoteDigest(hash, r)]})
  BY <1>2 DEF VoteItem, Sign
<1>5. \A m \in of : IsItem(VoteItem(m.vote), VoteSignatures(hash, r))
  BY <1>2, <1>4 DEF IsItem, VoteSignatures
<1>6. {x.author : x \in VoteItems(hash, r)} = SignersIn(voteMsgs, hash, r)
  <2>1. \A x \in VoteItems(hash, r) : \E m \in of : x = VoteItem(m.vote)
    BY <1>1
  <2>2. \A m \in of : VoteItem(m.vote) \in VoteItems(hash, r)
    BY <1>1
  <2>3. \A x \in VoteItems(hash, r) : x.author \in SignersIn(voteMsgs, hash, r)
    BY <1>3, <1>4, <2>1
  <2>4. ASSUME NEW n \in SignersIn(voteMsgs, hash, r)
        PROVE  \E x \in VoteItems(hash, r) : x.author = n
    <3>1. PICK m \in of : n = m.vote.author
      BY <1>3
    <3> QED
      BY <1>4, <2>2, <3>1
  <2> QED
    BY <2>3, <2>4
<1>7. ASSUME NEW x \in VoteItems(hash, r)
      PROVE  x.author \in Node /\ x.entry \in Node /\ IsItem(x, VoteSignatures(hash, r))
  <2>1. PICK m \in of : x = VoteItem(m.vote)
    BY <1>1
  <2> QED
    BY <1>2, <1>4, <1>5, <2>1
<1> QED
  BY <1>6, <1>7

LEMMA TimeoutItemsSigned ==
  ASSUME TypeOK, NEW r
  PROVE  \A x \in TimeoutItems(r) :
           /\ x.author \in Node /\ x.entry \in [name : Node, round : Nat]
           /\ IsItem(x, TimeoutSignatures(r))
<1> SUFFICES ASSUME NEW t \in timeoutMsgs, t.round = r, NEW x, x = TimeoutItem(t)
             PROVE  /\ x.author \in Node /\ x.entry \in [name : Node, round : Nat]
                    /\ IsItem(x, TimeoutSignatures(r))
  BY DEF TimeoutItems
<1>1. t.author \in Node /\ t.highQC.round \in Nat
  BY DEF TypeOK, Timeout, QC
<1>2. PICK v : v = [name |-> t.author, round |-> t.highQC.round]
  OBVIOUS
<1>3. v \in [name : Node, round : Nat] /\ v.name = t.author /\ v.round = t.highQC.round
  BY <1>1, <1>2
<1>4. /\ x.author = t.author /\ x.entry = v
      /\ x.signature = SetToBag({[signer |-> t.author, digest |-> TimeoutDigest(r, t.highQC.round)]})
  BY <1>2 DEF TimeoutItem, Sign
<1>5. TimeoutSignatures(r)[v] = [signer |-> v.name, digest |-> TimeoutDigest(r, v.round)]
  BY <1>3 DEF TimeoutSignatures
<1>6. IsItem(x, TimeoutSignatures(r))
  BY <1>3, <1>4, <1>5 DEF IsItem
<1> QED
  BY <1>1, <1>3, <1>4, <1>6

\* The keys of a certificate.
LEMMA SignersHaveQuorum ==
  ASSUME NEW entries, NEW signature, NEW sig, SignedBy(entries, signature, sig),
         IsQuorum({sig[e].signer : e \in Range(entries)}),
         NEW names, DOMAIN names = DOMAIN entries,
         \A i \in DOMAIN entries : names[i] = sig[entries[i]].signer /\ names[i] \in Node
  PROVE  HaveQuorum(names)
<1>1. Range(names) = {sig[e].signer : e \in Range(entries)}
  BY DEF Range
<1>2. \A n \in Range(names) : Known(n)
  BY ReplicasKnown DEF Range
<1>3. IsInjective(names)
  BY DEF IsInjective, SignedBy
<1> QED
  BY <1>1, <1>2, <1>3 DEF HaveQuorum

QCMade(x) == x \in QCFromProto(QCToProto(x)) /\ VerifyQC(x)
TCMade(x) == x \in TCFromProto(TCToProto(x)) /\ VerifyTC(x)

LEMMA FullQCMade ==
  ASSUME TypeOK, NEW qc, NEW c, CertificateOf(c, VoteItems(qc.hash, qc.round),
                                              VoteSignatures(qc.hash, qc.round))
  PROVE  QCMade([Hash |-> qc.hash, Round |-> qc.round, Voters |-> c.entries,
                 Signature |-> c.signature])
<1> DEFINE d == VoteDigest(qc.hash, qc.round)
           sig == VoteSignatures(qc.hash, qc.round)
           digests == [i \in DOMAIN c.entries |-> d]
<1>1. PICK v, s : v = c.entries /\ s = c.signature
  OBVIOUS
<1>2. PICK x : x = [Hash |-> qc.hash, Round |-> qc.round, Voters |-> v, Signature |-> s]
  OBVIOUS
<1>3. /\ SignedBy(v, s, sig)
      /\ IsQuorum({sig[e].signer : e \in Range(v)})
      /\ \A i \in DOMAIN v : v[i] \in Node
  <2>1. Range(v) \subseteq Node
    BY <1>1, VoteItemsSigned DEF CertificateOf
  <2> QED
    BY <1>1, <2>1 DEF CertificateOf, Range
<1>4. v = [i \in DOMAIN v |-> v[i]]
  BY <1>3 DEF SignedBy
<1>5. \A i \in DOMAIN v : sig[v[i]] = [signer |-> v[i], digest |-> digests[i]]
  BY <1>1, <1>3 DEF VoteSignatures
<1>6. \A i \in DOMAIN v : v[i] = sig[v[i]].signer
  <2> SUFFICES ASSUME NEW i \in DOMAIN v PROVE v[i] = sig[v[i]].signer
    OBVIOUS
  <2>1. sig[v[i]] = [signer |-> v[i], digest |-> digests[i]]
    BY <1>5
  <2> HIDE DEF sig, digests
  <2> QED
    BY <2>1
<1> HIDE DEF sig
<1>7. HaveQuorum(v)
  BY <1>3, <1>6, SignersHaveQuorum
<1>8. AggregateVerify(s, digests, v)
  <2> HIDE DEF digests
  <2> QED
    BY <1>3, <1>5, SignedVerifies
<1>9. VerifyQC(x)
  BY <1>1, <1>2, <1>7, <1>8 DEF VerifyQC, FastAggregateVerify
<1>10. x \in QCFromProto(QCToProto(x))
  BY <1>2, <1>4, QCBack
<1> QED
  BY <1>1, <1>2, <1>9, <1>10 DEF QCMade

LEMMA FullTCMade ==
  ASSUME TypeOK, NEW r, NEW c, CertificateOf(c, TimeoutItems(r), TimeoutSignatures(r))
  PROVE  TCMade([Round |-> r, Votes |-> c.entries, Signature |-> c.signature])
<1> DEFINE sig == TimeoutSignatures(r)
<1>1. PICK v, s : v = c.entries /\ s = c.signature
  OBVIOUS
<1>2. PICK x : x = [Round |-> r, Votes |-> v, Signature |-> s]
  OBVIOUS
<1>3. /\ SignedBy(v, s, sig)
      /\ IsQuorum({sig[e].signer : e \in Range(v)})
      /\ \A i \in DOMAIN v : v[i] \in [name : Node, round : Nat]
  <2>1. Range(v) \subseteq [name : Node, round : Nat]
    BY <1>1, TimeoutItemsSigned DEF CertificateOf
  <2> QED
    BY <1>1, <2>1 DEF CertificateOf, Range
<1> DEFINE names == [i \in DOMAIN v |-> v[i].name]
           digests == [i \in DOMAIN v |-> DigestInTC(x, v[i])]
<1>4. v = [i \in DOMAIN v |-> [name |-> v[i].name, round |-> v[i].round]]
  <2>1. v = [i \in DOMAIN v |-> v[i]]
    BY <1>3 DEF SignedBy
  <2>2. \A i \in DOMAIN v : v[i] = [name |-> v[i].name, round |-> v[i].round]
    BY <1>3
  <2> QED
    BY <2>1, <2>2
<1>5. \A i \in DOMAIN v : sig[v[i]] = [signer |-> names[i], digest |-> digests[i]]
  BY <1>2, <1>3 DEF TimeoutSignatures, DigestInTC
<1>6. /\ \A i \in DOMAIN v : names[i] = sig[v[i]].signer /\ names[i] \in Node
      /\ DOMAIN names = DOMAIN v
  <2>1. DOMAIN names = DOMAIN v /\ \A i \in DOMAIN v : names[i] \in Node
    BY <1>3
  <2>2. ASSUME NEW i \in DOMAIN v PROVE names[i] = sig[v[i]].signer
    <3>1. sig[v[i]] = [signer |-> names[i], digest |-> digests[i]]
      BY <1>5
    <3> HIDE DEF sig, digests, names
    <3> QED
      BY <3>1
  <2> QED
    BY <2>1, <2>2
<1>7. x.Votes = v /\ x.Signature = s
  BY <1>2
<1> HIDE DEF sig
<1>8. HaveQuorum(names)
  <2> HIDE DEF names
  <2> QED
    BY <1>3, <1>6, SignersHaveQuorum
<1>9. AggregateVerify(s, digests, names)
  <2> HIDE DEF digests, names
  <2> QED
    BY <1>3, <1>5, <1>6, SignedVerifies
<1>10. VerifyTC(x)
  BY <1>7, <1>8, <1>9 DEF VerifyTC
<1>11. x \in TCFromProto(TCToProto(x))
  BY <1>2, <1>4, TCBack
<1> QED
  BY <1>1, <1>2, <1>10, <1>11 DEF TCMade

\* A QC that verifies in HotStuff can be made, and however it is made it verifies here.
LEMMA FullQCsMade ==
  ASSUME TypeOK, IsFiniteSet(timeoutMsgs), NEW qc, QCOk(voteMsgs, qc)
  PROVE  FullQCs(qc) # {} /\ \A x \in FullQCs(qc) : QCMade(x)
<1> DEFINE items == VoteItems(qc.hash, qc.round)
           sig == VoteSignatures(qc.hash, qc.round)
           genesis == [Hash |-> ZeroDigest, Round |-> 0, Voters |-> <<>>, Signature |-> EmptyBag]
<1>1. CASE qc = GenesisQC
  <2>1. FullQCs(qc) = {genesis}
    BY <1>1 DEF FullQCs
  <2>2. IsGenesisQC(genesis)
    BY DEF IsGenesisQC
  <2>3. PICK v : v = <<>>
    OBVIOUS
  <2>4. v = [i \in DOMAIN v |-> v[i]]
    BY <2>3
  <2>5. genesis = [Hash |-> ZeroDigest, Round |-> 0, Voters |-> v, Signature |-> EmptyBag]
    BY <2>3
  <2> HIDE DEF genesis
  <2>6. genesis \in QCFromProto(QCToProto(genesis))
    BY <2>4, <2>5, QCBack
  <2>7. QCMade(genesis)
    BY <2>2, <2>6 DEF QCMade, VerifyQC
  <2> QED
    BY <2>1, <2>7
<1>2. CASE qc # GenesisQC
  <2>1. /\ IsFiniteSet(items)
        /\ \A x \in items : x.author \in Node /\ IsItem(x, sig)
        /\ {x.author : x \in items} = SignersIn(voteMsgs, qc.hash, qc.round)
    BY ItemsFinite, VoteItemsSigned
  <2>2. IsQuorum({x.author : x \in items})
    BY <1>2, <2>1 DEF QCOk
  <2>3. FullQCs(qc) = {[Hash |-> qc.hash, Round |-> qc.round, Voters |-> c.entries,
                        Signature |-> c.signature] : c \in MadeOf(items)}
    BY <1>2 DEF FullQCs
  <2> HIDE DEF items, sig
  <2>4. MadeOf(items) # {}
    BY <2>1, <2>2, QuorumMakes
  <2>5. \A c \in MadeOf(items) : CertificateOf(c, items, sig)
    BY <2>1, MadeAreCertificates
  <2>6. \A c \in MadeOf(items) :
          QCMade([Hash |-> qc.hash, Round |-> qc.round, Voters |-> c.entries,
                  Signature |-> c.signature])
    BY <2>5, FullQCMade DEF items, sig
  <2> QED
    BY <2>3, <2>4, <2>6
<1> QED
  BY <1>1, <1>2

\* So can a TC without a vote too many.
LEMMA FullTCsMade ==
  ASSUME TypeOK, IsFiniteSet(timeoutMsgs), NEW tc \in TC, TCSigned(timeoutMsgs, tc), Minimal(tc)
  PROVE  FullTCs(tc) # {} /\ \A x \in FullTCs(tc) : TCMade(x)
<1> DEFINE r == tc.round
           items == TimeoutItems(r)
           sig == TimeoutSignatures(r)
           item(v) == [author |-> v.name, entry |-> v,
                       signature |-> Sign(TimeoutDigest(r, v.round), v.name)]
           part == {item(v) : v \in tc.votes}
<1>1. /\ IsFiniteSet(items)
      /\ \A x \in items : x.author \in Node /\ IsItem(x, sig)
  BY ItemsFinite, TimeoutItemsSigned
<1>2. \A c \in MadeOf(items) : CertificateOf(c, items, sig)
  <2> HIDE DEF items, sig
  <2> QED
    BY <1>1, MadeAreCertificates
<1>3. \A v \in tc.votes : item(v) \in items
  <2> SUFFICES ASSUME NEW v \in tc.votes PROVE item(v) \in items
    OBVIOUS
  <2>1. PICK t \in timeoutMsgs : t.author = v.name /\ t.round = r /\ t.highQC.round = v.round
    BY DEF TCSigned
  <2>2. v = [name |-> v.name, round |-> v.round]
    BY DEF TC
  <2>3. TimeoutItem(t) = item(v)
    BY <2>1, <2>2 DEF TimeoutItem
  <2> QED
    BY <2>1, <2>3 DEF TimeoutItems
<1>4. \A v : item(v).author = v.name /\ item(v).entry = v
  OBVIOUS
<1> HIDE DEF items, sig, item
<1>5. PICK v \in tc.votes : ~IsQuorum({w.name : w \in tc.votes \ {v}})
  BY DEF Minimal
<1>6. part \in SUBSET items /\ item(v) \in part
  BY <1>3, <1>5
<1>7. \A y, z \in part : y.author = z.author => y = z
  BY <1>4 DEF TCSigned
<1>8. /\ {y.author : y \in part} = {w.name : w \in tc.votes}
      /\ {y.entry : y \in part} = tc.votes
  BY <1>4
<1>9. {y.author : y \in part \ {item(v)}} = {w.name : w \in tc.votes \ {v}}
  <2>1. part \ {item(v)} = {item(w) : w \in tc.votes \ {v}}
    BY <1>4
  <2> QED
    BY <1>4, <2>1
<1>10. IsQuorum({y.author : y \in part}) /\ ~IsQuorum({y.author : y \in part \ {item(v)}})
  BY <1>5, <1>8, <1>9 DEF TCSigned
<1> HIDE DEF part
<1>11. PICK x : x = item(v)
  OBVIOUS
<1>12. PICK c \in MadeOf(items) : Range(c.entries) = tc.votes
  <2>1. x \in part /\ ~IsQuorum({y.author : y \in part \ {x}})
    BY <1>6, <1>10, <1>11
  <2>2. \E c \in MadeOf(items) : Range(c.entries) = {y.entry : y \in part}
    BY <1>1, <1>6, <1>7, <1>10, <2>1, PartMakes
  <2> QED
    BY <1>8, <2>2
<1>13. \A d \in MadeOf(items) :
         TCMade([Round |-> r, Votes |-> d.entries, Signature |-> d.signature])
  BY <1>2, FullTCMade DEF items, sig
<1>14. FullTCs(tc) = {[Round |-> r, Votes |-> d.entries, Signature |-> d.signature] :
                        d \in {y \in MadeOf(items) : Range(y.entries) = tc.votes}}
  BY DEF FullTCs, items
<1> QED
  BY <1>12, <1>13, <1>14

\* An order of a payload names all of it.
LEMMA PayloadOrders ==
  ASSUME NEW payload, IsFiniteSet(payload)
  PROVE  /\ SetToSeqs(payload) # {}
         /\ \A o \in SetToSeqs(payload) :
              Range(o) = payload /\ o = [i \in DOMAIN o |-> o[i]]
<1>1. PICK k \in Nat : k = Cardinality(payload)
  BY FS_CardinalityType
<1>2. PICK f \in Bijection(1 .. k, payload) : TRUE
  BY <1>1, FS_CardinalityType DEF ExistsBijection
<1>3. f \in [1 .. k -> payload] /\ \A i, j \in 1 .. k : i # j => f[i] # f[j]
  BY <1>2 DEF Bijection, Injection, IsInjective
<1>4. f \in SetToSeqs(payload)
  BY <1>1, <1>3 DEF SetToSeqs
<1>5. ASSUME NEW o \in SetToSeqs(payload)
      PROVE  Range(o) = payload /\ o = [i \in DOMAIN o |-> o[i]]
  <2>1. o \in [1 .. k -> payload] /\ \A i, j \in 1 .. k : i # j => o[i] # o[j]
    BY <1>1 DEF SetToSeqs
  <2>2. o \in Injection(1 .. k, payload)
    BY <2>1 DEF Injection, IsInjective
  <2>3. IsFiniteSet(1 .. k) /\ Cardinality(1 .. k) = k
    BY FS_Interval
  <2>4. o \in Surjection(1 .. k, payload)
    BY <1>1, <2>2, <2>3, FS_Injection
  <2> QED
    BY <2>1, <2>4 DEF Surjection, Range
<1> QED
  BY <1>4, <1>5

LEMMA FullBlocksAccepted ==
  ASSUME TypeOK, IsFiniteSet(timeoutMsgs), NEW b \in Block, b.author \in Node,
         QCOk(voteMsgs, b.qc), TCOk(timeoutMsgs, b.tc), NoneOrMinimal(b.tc),
         IsFiniteSet(b.payload)
  PROVE  FullBlocks(b) # {} /\ \A x \in FullBlocks(b) : Accepted("Proposal", x)
<1> DEFINE TCs == IF b.tc = NoTC THEN {<<>>} ELSE {<<x>> : x \in FullTCs(b.tc)}
           full(qc, tc, payload) ==
             [Qc |-> qc, Tc |-> tc, Author |-> b.author, Round |-> b.round,
              Payload |-> payload, Signature |-> Sign(BlockDigest(b), b.author)]
<1>1. FullQCs(b.qc) # {} /\ \A x \in FullQCs(b.qc) : QCMade(x)
  BY FullQCsMade
<1>2. TCs # {} /\ \A tc \in TCs : tc = <<>> \/ \E y : tc = <<y>> /\ TCMade(y)
  <2>1. CASE b.tc = NoTC
    BY <2>1
  <2>2. CASE b.tc # NoTC
    <3>1. FullTCs(b.tc) # {} /\ \A x \in FullTCs(b.tc) : TCMade(x)
      BY <2>2, FullTCsMade DEF TCOk, NoneOrMinimal, Block
    <3>2. TCs = {<<x>> : x \in FullTCs(b.tc)}
      BY <2>2
    <3> QED
      BY <3>1, <3>2
  <2> QED
    BY <2>1, <2>2
<1>3. /\ SetToSeqs(b.payload) # {}
      /\ \A o \in SetToSeqs(b.payload) : Range(o) = b.payload /\ o = [i \in DOMAIN o |-> o[i]]
  BY PayloadOrders
<1>4. FullBlocks(b) = {full(qc, tc, payload) :
                         qc \in FullQCs(b.qc), payload \in SetToSeqs(b.payload), tc \in TCs}
  BY DEF FullBlocks
<1>5. ASSUME NEW qc \in FullQCs(b.qc), NEW tc \in TCs, NEW v \in SetToSeqs(b.payload)
      PROVE  Accepted("Proposal", full(qc, tc, v))
  <2>1. PICK s : s = Sign(BlockDigest(b), b.author)
    OBVIOUS
  <2>2. PICK x : x = [Qc |-> qc, Tc |-> tc, Author |-> b.author, Round |-> b.round,
                      Payload |-> v, Signature |-> s]
    OBVIOUS
  <2>3. QCMade(qc) /\ (tc = <<>> \/ \E y : tc = <<y>> /\ TCMade(y))
    BY <1>1, <1>2
  <2>4. x \in BlockFromProto(BlockToProto(x))
    BY <1>3, <2>2, <2>3, BlockBack DEF QCMade, TCMade
  <2>5. /\ x.Author = b.author /\ x.Round = b.round /\ x.Qc = qc /\ x.Tc = tc
        /\ x.Payload = v /\ x.Signature = s
    BY <2>2
  <2>6. DigestOfBlock(x) = BlockDigest(b)
    BY <1>3, <2>5 DEF DigestOfBlock, BlockDigest
  <2>7. SigVerify(x.Signature, DigestOfBlock(x), x.Author)
    BY <2>1, <2>5, <2>6, SignVerifies
  <2>8. \A y \in Range(tc) : VerifyTC(y)
    <3>1. Range(<<>>) = {} /\ \A y : Range(<<y>>) = {y}
      BY DEF Range
    <3> QED
      BY <2>3, <3>1 DEF TCMade
  <2>9. VerifyBlock(x)
    BY <2>3, <2>5, <2>7, <2>8, ReplicasKnown DEF VerifyBlock, QCMade
  <2>10. Accepted("Proposal", x)
    BY <2>4, <2>9, AcceptedMessages
  <2> QED
    BY <2>1, <2>2, <2>10
<1> HIDE DEF TCs, full
<1> QED
  BY <1>1, <1>2, <1>3, <1>4, <1>5

LEMMA FullVotesAccepted == \A v \in Vote : Accepted("VMessage", FullVote(v))
<1> SUFFICES ASSUME NEW v \in Vote PROVE Accepted("VMessage", FullVote(v))
  OBVIOUS
<1>1. PICK s : s = Sign(VoteDigest(v.hash, v.round), v.author)
  OBVIOUS
<1>2. PICK x : x = [Hash |-> v.hash, Round |-> v.round, Author |-> v.author, Signature |-> s]
  OBVIOUS
<1>3. x = FullVote(v)
  BY <1>1, <1>2 DEF FullVote
<1>4. x \in VoteFromProto(VoteToProto(x))
  BY <1>2, VoteBack
<1>5. x.Hash = v.hash /\ x.Round = v.round /\ x.Author = v.author /\ x.Signature = s
  BY <1>2
<1>6. SigVerify(s, VoteDigest(v.hash, v.round), v.author)
  BY <1>1, SignVerifies
<1>7. VerifyVote(x)
  BY <1>5, <1>6, ReplicasKnown DEF VerifyVote, Vote
<1> QED
  BY <1>3, <1>4, <1>7, AcceptedMessages

LEMMA FullTimeoutsAccepted ==
  ASSUME TypeOK, IsFiniteSet(timeoutMsgs), NEW t \in Timeout, QCOk(voteMsgs, t.highQC)
  PROVE  FullTimeouts(t) # {} /\ \A x \in FullTimeouts(t) : Accepted("TMessage", x)
<1>1. PICK s : s = Sign(TimeoutDigest(t.round, t.highQC.round), t.author)
  OBVIOUS
<1>2. FullQCs(t.highQC) # {} /\ \A x \in FullQCs(t.highQC) : QCMade(x)
  BY FullQCsMade
<1>3. FullTimeouts(t) = {[HighQC |-> qc, Round |-> t.round, Author |-> t.author,
                          Signature |-> s] : qc \in FullQCs(t.highQC)}
  BY <1>1 DEF FullTimeouts
<1>4. ASSUME NEW qc \in FullQCs(t.highQC),
             NEW x, x = [HighQC |-> qc, Round |-> t.round, Author |-> t.author,
                         Signature |-> s]
      PROVE  Accepted("TMessage", x)
  <2>1. QCMade(qc) /\ qc.Round = t.highQC.round
    BY <1>2 DEF FullQCs, GenesisQC
  <2>2. x \in TimeoutFromProto(TimeoutToProto(x))
    BY <1>4, <2>1, TimeoutBack DEF QCMade
  <2>3. x.HighQC = qc /\ x.Round = t.round /\ x.Author = t.author /\ x.Signature = s
    BY <1>4
  <2>4. SigVerify(s, TimeoutDigest(t.round, t.highQC.round), t.author)
    BY <1>1, SignVerifies
  <2>5. VerifyTimeout(x)
    BY <2>1, <2>3, <2>4, ReplicasKnown DEF VerifyTimeout, QCMade, Timeout
  <2> QED
    BY <2>2, <2>5, AcceptedMessages
<1> QED
  BY <1>2, <1>3, <1>4

\* Every message that is sent can have been built, and however its certificates were built,
\* what its receivers decode passes their Verify (proto.go, messages.go, aggregator.go).
THEOREM MessagesAccepted == Spec => []SentMessagesAccepted
<1>1. GatherInv => SentMessagesAccepted
  <2> SUFFICES ASSUME GatherInv PROVE SentMessagesAccepted
    OBVIOUS
  <2>1. /\ TypeOK /\ IsFiniteSet(timeoutMsgs)
        /\ proposals \in SUBSET Block /\ timeoutMsgs \in SUBSET Timeout /\ tcMsgs \in SUBSET TC
        /\ voteMsgs \in SUBSET [vote : Vote, to : Node]
    BY NetworkTypes DEF GatherInv, LinkInv, SafetyInv, TypeInv
  <2>2. NetworkOk
    BY DEF GatherInv, LinkInv, SafetyInv
  <2>3. ASSUME NEW b \in proposals
        PROVE  FullBlocks(b) # {} /\ \A x \in FullBlocks(b) : Accepted("Proposal", x)
    <3>1. /\ b \in Block /\ QCOk(voteMsgs, b.qc) /\ TCOk(timeoutMsgs, b.tc)
          /\ NoneOrMinimal(b.tc) /\ IsFiniteSet(b.payload)
      BY <2>1, <2>2 DEF GatherInv, NetworkOk, ProposalsOk
    <3>2. b.author \in Node
      BY <3>1 DEF Block
    <3> QED
      BY <2>1, <3>1, <3>2, FullBlocksAccepted
  <2>4. \A m \in voteMsgs : Accepted("VMessage", FullVote(m.vote))
    BY <2>1, FullVotesAccepted
  <2>5. ASSUME NEW t \in timeoutMsgs
        PROVE  FullTimeouts(t) # {} /\ \A x \in FullTimeouts(t) : Accepted("TMessage", x)
    BY <2>1, <2>2, FullTimeoutsAccepted DEF NetworkOk
  <2>6. ASSUME NEW tc \in tcMsgs
        PROVE  FullTCs(tc) # {} /\ \A x \in FullTCs(tc) : Accepted("TcMessage", x)
    <3>1. tc \in TC /\ TCSigned(timeoutMsgs, tc) /\ Minimal(tc)
      BY <2>1, <2>2 DEF GatherInv, NetworkOk
    <3>2. FullTCs(tc) # {} /\ \A x \in FullTCs(tc) : TCMade(x)
      BY <2>1, <3>1, FullTCsMade
    <3> QED
      BY <3>2, AcceptedMessages DEF TCMade
  <2> QED
    BY <2>3, <2>4, <2>5, <2>6 DEF SentMessagesAccepted
<1> QED
  BY <1>1, InitGathers, NextGathers, PTL DEF Spec
=============================================================================
