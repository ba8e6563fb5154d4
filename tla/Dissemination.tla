----------------------------- MODULE Dissemination -----------------------------
(***************************************************************************)
(* The mempool of one replica from a client's transaction to a digest for    *)
(* consensus: batch maker, quorum waiter and processor (mempool/batchmaker.go, *)
(* quorumwaiter.go, processor.go).  A batch is sent to the others by reliable *)
(* senders: an ack is one answer of each (see ReliableDelivery).  The batches of *)
(* the others come over the same network, some of them more than once: again *)
(* when a connection broke before the ack, or as answer to a request.  So does *)
(* a batch of this replica that a block names before it is stored here.       *)
(***************************************************************************)
EXTENDS Committee, SequencesExt

CONSTANTS
  Self,       \* this replica
  TxSize,     \* the size of each transaction, in the order they come
  Content,    \* what each of them consists of
  BatchSize,  \* Parameters.BatchSize
  QueueMax,   \* disseminationQueueMax
  OthersBatch,   \* digests of batches sealed by other replicas
  MaxDeliveries  \* bound: how many batches come over the network

\* A batch: the transactions after the first ones, up to the last.
Consecutive(first, last) == [i \in 1 .. (last - first) |-> first + i]

\* The batches that this replica may seal.
OwnBatch ==
  {Consecutive(cut[1], cut[2]) :
     cut \in {c \in (0 .. Len(TxSize)) \X (0 .. Len(TxSize)) : c[1] < c[2]}}

\* A batch is stored and named by the hash of its content, so that a transaction sent
\* again may make a batch of the same digest.
DigestOf(batch) == [i \in DOMAIN batch |-> Content[batch[i]]]

OwnDigests == {DigestOf(b) : b \in OwnBatch}
Digests == OwnDigests \cup OthersBatch

ASSUME DisseminationAssumption ==
  /\ Self \in Node
  /\ TxSize \in Seq(Nat \ {0})
  /\ DOMAIN Content = DOMAIN TxSize
  /\ \A i, j \in DOMAIN TxSize : Content[i] = Content[j] => TxSize[i] = TxSize[j]
  /\ BatchSize \in Nat /\ QueueMax \in Nat /\ MaxDeliveries \in Nat

VARIABLES
  currentBatch,      \* the transactions of the batch being filled
  currentBatchSize,  \* the counter that is compared with BatchSize
  taken,             \* how many transactions the batch maker has taken
  sealed,            \* batches on the channel of the quorum waiter
  waitingFor,        \* the batch the quorum waiter waits for, or none
  acks,              \* who answered it
  counted,           \* whose stake it has counted
  deadlines,         \* batches whose deadline goroutine runs
  expired,           \* deadlines on the channel `pending'
  pendingCounter,
  cancelled,         \* batches whose sending was cancelled
  processed,         \* own batches stored and handed to consensus, in order
  delivered,         \* how often each digest was stored and handed on for a batch received
  digests            \* those consensus has not taken yet (rxMempool)

batchVars == <<currentBatch, currentBatchSize, taken>>
waiterVars == <<waitingFor, acks, counted, deadlines, expired, pendingCounter, cancelled>>
mempoolVars ==
  <<batchVars, sealed, waiterVars, processed, delivered, digests>>

Transaction == DOMAIN TxSize
-----------------------------------------------------------------------------
(* The batch maker.                                                          *)

\* Mutant: the batch is sent and kept.
SealKeepsBatch(batch) ==
  /\ currentBatch' = batch
  /\ sealed' = Append(sealed, batch)

\* seal: the size of the batch is not reset with it.
Seal(batch) ==
  /\ currentBatch' = <<>>
  /\ sealed' = Append(sealed, batch)

ReceiveTransaction ==
  LET batch == Append(currentBatch, taken + 1)
      size  == currentBatchSize + TxSize[taken + 1]
  IN  /\ taken < Len(TxSize)
      /\ taken' = taken + 1
      /\ currentBatchSize' = size
      /\ \/ size >= BatchSize /\ Seal(batch)
         \/ size < BatchSize /\ currentBatch' = batch /\ UNCHANGED sealed
      /\ UNCHANGED <<waiterVars, processed, delivered, digests>>

MaxBatchDelay ==
  /\ currentBatch # <<>>
  /\ Seal(currentBatch)
  /\ UNCHANGED <<currentBatchSize, taken, waiterVars, processed, delivered, digests>>
-----------------------------------------------------------------------------
\* A replica answers a batch it was sent (mempoolReceiverHandler.Dispatch).  An answer
\* that comes before the waiter takes the batch waits in the handler's channel, and one
\* after the quorum is drained: it is the same as if it came late, or never.
AckBatch(n) ==
  /\ n # Self
  /\ waitingFor # <<>>
  /\ waitingFor[1] \notin cancelled
  /\ acks' = acks \cup {n}
  /\ UNCHANGED <<batchVars, sealed, waitingFor, counted, deadlines, expired, pendingCounter,
                 cancelled, processed, delivered, digests>>
-----------------------------------------------------------------------------
(* The quorum waiter.                                                        *)

TakeBatch ==
  /\ waitingFor = <<>>
  /\ sealed # <<>>
  /\ waitingFor' = <<Head(sealed)>>
  /\ sealed' = Tail(sealed)
  /\ UNCHANGED <<batchVars, acks, counted, deadlines, expired, pendingCounter, cancelled,
                 processed, delivered, digests>>

\* Mutant: the acks of the others only.
VotersOthers == IF waitingFor = <<>> THEN {} ELSE acks

\* Whose stake may be counted: who answered, and this replica.
Voters ==
  IF waitingFor = <<>> THEN {} ELSE acks \cup {Self}

\* With a quorum the batch goes to the processor, which stores it and hands its
\* digest to consensus, and a goroutine waits for the deadline of the others.
CountBatchAck(n) ==
  /\ n \in Voters \ counted
  /\ \/ /\ ~IsQuorum(counted \cup {n})
        /\ counted' = counted \cup {n}
        /\ UNCHANGED <<waitingFor, acks, processed, digests, deadlines, pendingCounter>>
     \/ /\ IsQuorum(counted \cup {n})
        /\ waitingFor' = <<>> /\ acks' = {} /\ counted' = {}
        /\ processed' = processed \o waitingFor
        /\ digests' = Append(digests, DigestOf(waitingFor[1]))
        /\ IF pendingCounter <= QueueMax
           THEN /\ pendingCounter' = pendingCounter + 1
                /\ deadlines' = deadlines \cup Range(waitingFor)
           ELSE UNCHANGED <<pendingCounter, deadlines>>
  /\ UNCHANGED <<batchVars, sealed, expired, cancelled, delivered>>

\* disseminationDeadline.
Deadline(b) ==
  /\ b \in deadlines
  /\ deadlines' = deadlines \ {b}
  /\ expired' = expired + 1
  /\ cancelled' = cancelled \cup {b}
  /\ UNCHANGED <<batchVars, sealed, acks, waitingFor, counted, pendingCounter,
                 processed, delivered, digests>>

\* Mutant: the slot of an expired deadline is not given back.
TakeExpiredKeepsSlot ==
  /\ waitingFor = <<>>
  /\ expired > 0
  /\ expired' = expired - 1
  /\ UNCHANGED <<batchVars, sealed, acks, waitingFor, counted, deadlines, pendingCounter,
                 cancelled, processed, delivered, digests>>

TakeExpired ==
  /\ waitingFor = <<>>
  /\ expired > 0
  /\ expired' = expired - 1
  /\ pendingCounter' = IF pendingCounter > 0 THEN pendingCounter - 1 ELSE 0
  /\ UNCHANGED <<batchVars, sealed, acks, waitingFor, counted, deadlines, cancelled,
                 processed, delivered, digests>>
-----------------------------------------------------------------------------
\* The batches of this replica, from the batch maker to the processor, oldest first.
Path == processed \o waitingFor \o sealed

\* What others may send: a batch of theirs, or one of this replica, which was sent to
\* them when it was sealed and which this replica asks for when a block names it (helper).
Incoming == OthersBatch \cup {DigestOf(b) : b \in Range(Path)}

\* A batch arrives (Dispatch), and the processor stores it and hands its digest to
\* consensus, each time.
ReceiveBatch(d) ==
  /\ FoldFunction(+, 0, delivered) < MaxDeliveries
  /\ delivered' = [delivered EXCEPT ![d] = @ + 1]
  /\ digests' = Append(digests, d)
  /\ UNCHANGED <<batchVars, sealed, waiterVars, processed>>
-----------------------------------------------------------------------------
MempoolInit ==
  /\ currentBatch = <<>> /\ currentBatchSize = 0 /\ taken = 0
  /\ sealed = <<>>
  /\ waitingFor = <<>> /\ acks = {} /\ counted = {}
  /\ deadlines = {} /\ expired = 0 /\ pendingCounter = 0 /\ cancelled = {}
  /\ processed = <<>> /\ digests = <<>>
  /\ delivered = [d \in Digests |-> 0]

MempoolNext ==
  \/ ReceiveTransaction
  \/ MaxBatchDelay
  \/ \E n \in Node : AckBatch(n)
  \/ TakeBatch
  \/ \E n \in Node : CountBatchAck(n)
  \/ \E b \in deadlines : Deadline(b)
  \/ TakeExpired
  \/ \E d \in Incoming : ReceiveBatch(d)
-----------------------------------------------------------------------------
\* Every transaction taken is in one batch, in the order they came, from the batch
\* maker to the processor, and no batch is empty: the batches cut the transactions
\* into pieces, and what is left is the batch being filled.
TransactionsKept ==
  \E cut \in [0 .. Len(Path) -> 0 .. taken] :
    /\ cut[0] = 0
    /\ \A i, j \in DOMAIN cut : i < j => cut[i] < cut[j]
    /\ \A i \in DOMAIN Path : Path[i] = Consecutive(cut[i - 1], cut[i])
    /\ currentBatch = Consecutive(cut[Len(Path)], taken)

\* Each slot of the dissemination queue in use belongs to a deadline that runs or
\* one the waiter has not taken, so the slots never run out for good.
SlotsMatch ==
  /\ pendingCounter = Cardinality(deadlines) + expired
  /\ pendingCounter <= QueueMax + 1
=============================================================================
