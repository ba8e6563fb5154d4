---------------------------- MODULE TransactionPath ----------------------------
(***************************************************************************)
(* The mempool of a replica composed with its proposer (consensus/proposer.go), *)
(* which puts the digests it is handed in blocks: the way of a transaction   *)
(* from the client to a block.  The core is what drives the proposer: it      *)
(* asks for a block of each round it leads and reports what blocks contain.  *)
(***************************************************************************)
EXTENDS Dissemination

CONSTANTS
  Responsive,  \* replicas that keep answering (liveness only)
  MaxBlocks,   \* bound: blocks that the core asks for
  MaxReports   \* bound: blocks with batches that the core processes

ASSUME TransactionPathAssumption ==
  /\ Responsive \subseteq Node
  /\ IsQuorum(Responsive \cup {Self})
  /\ MaxBlocks \in Nat /\ MaxReports \in Nat

VARIABLES
  asked,       \* blocks the core has asked for
  messages,    \* on rxMessage: makes (TRUE) and cleanups (sets of batches)
  buffer,      \* batches to put in a block
  blocks,      \* the payloads of the blocks made, in order
  proposing,   \* makeBlock waits for the acks of the last block
  blockCounted,  \* whose stake it has counted
  reports,     \* how many of these blocks there were
  ordered      \* batches that the core saw in blocks it processed

proposerVars ==
  <<asked, messages, buffer, blocks, proposing, blockCounted, reports, ordered>>
vars == <<mempoolVars, proposerVars>>

\* The batches this replica holds.
Stored == {DigestOf(b) : b \in Range(processed)} \cup {d \in Digests : delivered[d] > 0}

Make == [t |-> "make", digests |-> {}]
CleanupOf(S) == [t |-> "cleanup", digests |-> S]
-----------------------------------------------------------------------------
(* The core.                                                                 *)

\* generateProposal.
AskForBlock ==
  /\ asked < MaxBlocks
  /\ asked' = asked + 1
  /\ messages' = Append(messages, Make)
  /\ UNCHANGED <<mempoolVars, buffer, blocks, proposing, blockCounted, reports, ordered>>

\* cleanupProposer: the core processed a block, of this replica or of another that
\* also has the batches, and all its batches are stored here.
ReportOrdered(S) ==
  /\ reports < MaxReports
  /\ reports' = reports + 1
  /\ S # {}
  /\ ordered' = ordered \cup S
  /\ messages' = Append(messages, CleanupOf(S))
  /\ UNCHANGED <<mempoolVars, asked, buffer, blocks, proposing, blockCounted>>
-----------------------------------------------------------------------------
(* The proposer: a select, and makeBlock in which it waits.                  *)

TakeDigest ==
  /\ ~proposing
  /\ digests # <<>>
  /\ digests' = Tail(digests)
  /\ buffer' = buffer \cup {Head(digests)}
  /\ UNCHANGED <<batchVars, sealed, waiterVars, processed, delivered, asked, messages, blocks,
                 proposing, blockCounted, reports, ordered>>

TakeMessage(t) ==
  /\ ~proposing
  /\ messages # <<>>
  /\ Head(messages).t = t
  /\ messages' = Tail(messages)
  /\ UNCHANGED <<mempoolVars, asked, reports, ordered>>

\* Mutant: the buffer is not emptied.
MakeBlockKeepsBuffer ==
  /\ TakeMessage("make")
  /\ blocks' = Append(blocks, buffer)
  /\ proposing' = TRUE
  /\ UNCHANGED <<buffer, blockCounted>>

\* makeBlock, up to the acks: the whole buffer goes in the block, which is
\* broadcast and looped back to the core.
MakeBlock ==
  /\ TakeMessage("make")
  /\ blocks' = Append(blocks, buffer)
  /\ buffer' = {}
  /\ proposing' = TRUE
  /\ UNCHANGED blockCounted

\* Mutant: a cleanup empties the buffer.
CleanBufferAll ==
  /\ TakeMessage("cleanup")
  /\ buffer' = {}
  /\ UNCHANGED <<blocks, proposing, blockCounted>>

CleanBuffer ==
  /\ TakeMessage("cleanup")
  /\ buffer' = buffer \ Head(messages).digests
  /\ UNCHANGED <<blocks, proposing, blockCounted>>

\* Mutant: more than the threshold is waited for.
CountBlockAckAll(n) ==
  LET totalStake == blockCounted \cup {n}
  IN  /\ proposing
      /\ n \notin blockCounted
      /\ proposing' = (Weight[totalStake] <= QuorumThreshold)
      /\ blockCounted' = IF proposing' THEN totalStake ELSE {}
      /\ UNCHANGED <<mempoolVars, asked, messages, buffer, blocks, reports, ordered>>

\* n acknowledges the block, or n is the replica itself, whose stake "allows
\* progress when only one node in committee".
CountBlockAck(n) ==
  LET totalStake == blockCounted \cup {n}
  IN  /\ proposing
      /\ n \notin blockCounted
      /\ proposing' = ~IsQuorum(totalStake)
      /\ blockCounted' = IF proposing' THEN totalStake ELSE {}
      /\ UNCHANGED <<mempoolVars, asked, messages, buffer, blocks, reports, ordered>>
-----------------------------------------------------------------------------
Init ==
  /\ MempoolInit
  /\ asked = 0 /\ messages = <<>> /\ buffer = {} /\ blocks = <<>>
  /\ proposing = FALSE /\ blockCounted = {} /\ reports = 0 /\ ordered = {}

ProposerNext ==
  \/ AskForBlock
  \/ \E S \in SUBSET Stored : ReportOrdered(S)
  \/ TakeDigest \/ MakeBlock \/ CleanBuffer
  \/ \E n \in Node : CountBlockAck(n)

Next ==
  \/ MempoolNext /\ UNCHANGED proposerVars
  \/ ProposerNext

Spec == Init /\ [][Next]_vars

\* The goroutines run, the delay of the batch fires and a quorum of replicas answers
\* what the reliable senders bring it.
FairSpec ==
  /\ Spec
  /\ WF_vars(MaxBatchDelay /\ UNCHANGED proposerVars)
  /\ WF_vars(TakeBatch /\ UNCHANGED proposerVars)
  /\ WF_vars((\E n \in Node : CountBatchAck(n)) /\ UNCHANGED proposerVars)
  /\ \A n \in Responsive : WF_vars(AckBatch(n) /\ UNCHANGED proposerVars)
  /\ WF_vars(\E n \in Responsive \cup {Self} : CountBlockAck(n))
-----------------------------------------------------------------------------
TypeOK ==
  /\ taken \in 0 .. Len(TxSize) /\ currentBatch \in Seq(Transaction) /\ currentBatchSize \in Nat
  /\ sealed \in Seq(OwnBatch) /\ processed \in Seq(OwnBatch)
  /\ waitingFor \in Seq(OwnBatch) /\ Len(waitingFor) <= 1
  /\ acks \subseteq Node /\ counted \subseteq Node /\ blockCounted \subseteq Node
  /\ deadlines \subseteq OwnBatch /\ cancelled \subseteq OwnBatch
  /\ pendingCounter \in Nat /\ expired \in Nat
  /\ delivered \in [Digests -> Nat] /\ digests \in Seq(Digests)
  /\ asked \in Nat /\ reports \in Nat /\ ordered \subseteq Digests
  /\ messages \in Seq([t : {"make", "cleanup"}, digests : SUBSET Digests])
  /\ buffer \subseteq Digests /\ blocks \in Seq(SUBSET Digests)
  /\ proposing \in BOOLEAN

\* How often the processors handed a digest to consensus: for each own batch of that
\* content that got its quorum, and for each one received.
Handed(d) ==
  LET same == {b \in OwnBatch : DigestOf(b) = d}
  IN  Cardinality({i \in DOMAIN processed : processed[i] \in same}) + delivered[d]

\* No digest is in more blocks of this replica than it was handed to consensus.  (Two
\* transactions that are the same may make two batches of one digest, and an own batch
\* may come back; nothing keeps such a digest from being in two blocks.)
ProposedOncePerDelivery ==
  \A d \in Digests : Cardinality({i \in DOMAIN blocks : d \in blocks[i]}) <= Handed(d)

\* The proposer forgets no batch that was not seen in a block: it is on the way to the
\* buffer, in it, or in a block.
BatchesKept ==
  \A d \in Stored :
    d \in Range(digests) \cup buffer \cup ordered \cup UNION Range(blocks)

\* Every transaction taken comes out of the mempool in a batch.
TransactionsProcessed ==
  \A i \in DOMAIN TxSize : taken >= i ~> i \in Range(FlattenSeq(processed))

\* The proposer never waits for ever for the acks of a block.
ProposerFreed == proposing ~> ~proposing
=============================================================================
