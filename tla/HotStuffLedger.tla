---------------------------- MODULE HotStuffLedger ----------------------------
(***************************************************************************)
(* The replicas of HotStuff as readers of one ledger.                        *)
(***************************************************************************)
EXTENDS HotStuff

\* The blocks of a chain in the order of their rounds.
Rank(S, b) == Cardinality({c \in S : c.round <= b.round})
InOrder(S) == [i \in 1 .. Cardinality(S) |-> CHOOSE b \in S : Rank(S, b) = i]

\* The blocks that leave on txCommit, without the genesis block that everybody
\* starts from and that is handed over by some commits.
Delivered(n) == Range(committed[n]) \ {GenesisBlock}

\* The chain of the highest block committed anywhere, in its order.
Agreed ==
  LET all  == UNION {Delivered(n) : n \in Node}
      head == CHOOSE b \in all : \A c \in all : c.round <= b.round
  IN  IF all = {} THEN <<>>
      ELSE InOrder(Chain(head) \ {GenesisBlock})

Ledger == INSTANCE Ledger WITH
            ledger <- Agreed, delivered <- [n \in Node |-> Delivered(n)]

\* Every commit adds to one ledger that all replicas share: none is taken back,
\* none lands before another replica's, none leaves a hole (Core.commit).
ImplementsLedger == Ledger!Spec
=============================================================================
