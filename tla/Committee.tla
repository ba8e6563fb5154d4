------------------------------ MODULE Committee ------------------------------
(***************************************************************************)
(* The committee of one epoch (consensus/config.go) and the round-robin     *)
(* leader of a round (consensus/leader.go): who the replicas are, what      *)
(* stake each one holds, which sets of replicas are a quorum.               *)
(***************************************************************************)
EXTENDS Integers, Sequences, FiniteSets, Functions

CONSTANTS
  Node,          \* the replicas (public keys) of the committee
  Keys,          \* the same keys as a sequence, in their byte order
  Stake,         \* the stake of every replica
  StakeModulus   \* type Stake is an unsigned integer modulo this number

ASSUME KeysAssumption ==
  /\ Keys \in Seq(Node)
  /\ Keys # <<>>

\* An authority without stake is unknown to every Verify: there is none.
ASSUME StakeAssumption ==
  /\ IsFiniteSet(Node)
  /\ Stake \in [Node -> Nat \ {0}]
  /\ StakeModulus \in Nat \ {0}

\* The sums of stake that the loops of the code accumulate, one for each set
\* of replicas (a constant: TLC evaluates it once).
Weight == [S \in SUBSET Node |-> SumFunctionOnSet(Stake, S)]

TotalStake == Weight[Node]

\* 2*totalStake/3 + 1 in the arithmetic of the type Stake.
QuorumThreshold == ((2 * TotalStake) % StakeModulus) \div 3 + 1

\* The configuration is small enough for that arithmetic to be exact.
ASSUME NoOverflow == 2 * TotalStake < StakeModulus

IsQuorum(S) == Weight[S] >= QuorumThreshold

\* getLeader: the keys in order, one round each.
Leader(r) == Keys[(r % Len(Keys)) + 1]
=============================================================================
