----------------------------- MODULE PayloadPath -----------------------------
(***************************************************************************)
(* How a replica gets the batches of a block it has received: MempoolDriver  *)
(* and PayloadWaiter of consensus/mempool.go, the mempool's synchronizer     *)
(* (mempool/synchronizer.go), and the helpers and processors that serve it.  *)
(* The core starts a wait and cleans up; four kinds of goroutine answer.     *)
(***************************************************************************)
EXTENDS Naturals, FiniteSets, SequencesExt

CONSTANTS
  Batch,      \* digests of batches
  Block,      \* blocks that the core may receive
  Round,      \* the round of each block
  Payload,    \* the batches of each block
  Faulty,     \* batches whose lookup may fail in the database
  GcDepth,    \* Parameters.GcDepth of the mempool
  CleanupRounds,  \* bound: the rounds that the core cleans up
  Capacity    \* bound: messages on each channel of the core

ASSUME PayloadAssumption ==
  /\ Round \in [Block -> Nat]
  /\ Payload \in [Block -> SUBSET Batch] /\ \A b \in Block : IsFiniteSet(Payload[b])
  /\ Faulty \subseteq Batch
  /\ GcDepth \in Nat /\ CleanupRounds \subseteq Nat /\ Capacity \in Nat \ {0}

VARIABLES
  stored,      \* batches in the key-value store
  toMempool,   \* messages of the core to the mempool's synchronizer
  toWaiter,    \* messages of the core to the payload waiter
  round,       \* synchronizer.round
  pending,     \* synchronizer.pending: the round at which a batch was asked for
  watchers,    \* batches whose goroutine waits for the store or a cancel
  arrived,     \* batches on the channel `waiting'
  cancelling,  \* batches that the cleanup under way has still to cancel
  requests,    \* batches whose request, or the answer to it, is under way
  waiting,     \* blocks pending in the payload waiter
  waiters,     \* its goroutines, each one with the messages it may receive
  results,     \* blocks on resultCh
  loopback     \* blocks sent on txLoopback

core == <<toMempool, toWaiter>>
sync == <<round, pending, watchers, arrived, cancelling>>
pw   == <<waiting, waiters, results, loopback>>
vars == <<stored, core, sync, requests, pw>>

Message ==
  [t : {"synchronize"}, missing : SUBSET Batch] \cup [t : {"cleanup"}, round : Nat]
WaiterMessage ==
  [t : {"wait"}, block : Block, missing : SUBSET Batch] \cup [t : {"cleanup"}, round : Nat]

-----------------------------------------------------------------------------
(* The core.  It waits when a channel is full.                               *)

CoreSends(m, w) ==
  /\ Len(toMempool) < Capacity /\ Len(toWaiter) < Capacity
  /\ toMempool' = Append(toMempool, m)
  /\ toWaiter' = Append(toWaiter, w)
  /\ UNCHANGED <<stored, sync, requests, pw>>

\* MempoolDriver.verify of a block that lacks batches.
Verify(b) ==
  LET missing == Payload[b] \ stored
  IN  /\ missing # {}
      /\ CoreSends([t |-> "synchronize", missing |-> missing],
                   [t |-> "wait", block |-> b, missing |-> missing])

\* MempoolDriver.cleanup, of every 2-chain the core finds, old ones included.
Cleanup(r) ==
  CoreSends([t |-> "cleanup", round |-> r], [t |-> "cleanup", round |-> r])
-----------------------------------------------------------------------------
(* The mempool's synchronizer.  Its loop is in a cleanup while there is a     *)
(* goroutine to cancel: the send has no buffer and waits for that goroutine. *)

SyncTakes(t) ==
  /\ cancelling = <<>>
  /\ toMempool # <<>>
  /\ Head(toMempool).t = t
  /\ toMempool' = Tail(toMempool)
  /\ UNCHANGED <<stored, toWaiter, pw>>

SyncSynchronize ==
  LET new == Head(toMempool).missing \ DOMAIN pending
  IN  /\ SyncTakes("synchronize")
      /\ pending' = [d \in DOMAIN pending \cup new |->
                       IF d \in new THEN round ELSE pending[d]]
      /\ watchers' = watchers \cup new
      /\ requests' = requests \cup new
      /\ UNCHANGED <<round, arrived, cancelling>>

SyncCleanup ==
  LET r == Head(toMempool).round
      old == {d \in DOMAIN pending : r >= GcDepth /\ pending[d] < r - GcDepth}
  IN  /\ SyncTakes("cleanup")
      /\ round' = r
      /\ cancelling' \in SetToSeqs(old)
      /\ UNCHANGED <<pending, watchers, arrived, requests>>

\* Mutant: the request stays pending.
SyncCancelKeepsRequest ==
  /\ cancelling # <<>>
  /\ Head(cancelling) \in watchers
  /\ cancelling' = Tail(cancelling)
  /\ watchers' = watchers \ {Head(cancelling)}
  /\ UNCHANGED <<stored, core, round, pending, arrived, requests, pw>>

SyncCancel ==
  /\ cancelling # <<>>
  /\ Head(cancelling) \in watchers
  /\ cancelling' = Tail(cancelling)
  /\ watchers' = watchers \ {Head(cancelling)}
  /\ pending' = Restrict(pending, DOMAIN pending \ {Head(cancelling)})
  /\ UNCHANGED <<stored, core, round, arrived, requests, pw>>

\* The goroutine of a batch: the store has answered (NotifyReadChannel).
WatcherAnswered(d) ==
  /\ d \in watchers \cap stored
  /\ watchers' = watchers \ {d}
  /\ arrived' = arrived \cup {d}
  /\ UNCHANGED <<stored, core, round, pending, cancelling, requests, pw>>

\* The store has answered with an error: the goroutine ends and tells nobody.
WatcherFails(d) ==
  /\ d \in watchers \cap Faulty
  /\ watchers' = watchers \ {d}
  /\ UNCHANGED <<stored, core, round, pending, arrived, cancelling, requests, pw>>

SyncArrived(d) ==
  /\ cancelling = <<>>
  /\ d \in arrived
  /\ arrived' = arrived \ {d}
  /\ pending' = Restrict(pending, DOMAIN pending \ {d})
  /\ UNCHANGED <<stored, core, round, watchers, cancelling, requests, pw>>

\* Mutant: a request is sent once.
SyncRetryNever ==
  /\ cancelling = <<>>
  /\ DOMAIN pending # {}
  /\ UNCHANGED vars

\* The timer: everything still pending is asked for again.
SyncRetry ==
  /\ cancelling = <<>>
  /\ DOMAIN pending # {}
  /\ requests' = requests \cup DOMAIN pending
  /\ UNCHANGED <<stored, core, sync, pw>>
-----------------------------------------------------------------------------
(* The other replicas, the network and the processor.                        *)

\* A request or its answer is lost, or the replica asked has not got the batch.
LoseRequest(d) ==
  /\ d \in requests
  /\ requests' = requests \ {d}
  /\ UNCHANGED <<stored, core, sync, pw>>

\* The helper of a replica that has it sends it and the processor stores it.
AnswerRequest(d) ==
  /\ d \in requests
  /\ requests' = requests \ {d}
  /\ stored' = stored \cup {d}
  /\ UNCHANGED <<core, sync, pw>>

\* The batch comes from its maker.
ReceiveBatch(d) ==
  /\ stored' = stored \cup {d}
  /\ UNCHANGED <<core, sync, requests, pw>>
-----------------------------------------------------------------------------
(* The payload waiter of consensus and its goroutines.                       *)

WaiterTakes(t) ==
  /\ toWaiter # <<>>
  /\ Head(toWaiter).t = t
  /\ toWaiter' = Tail(toWaiter)
  /\ UNCHANGED <<stored, toMempool, sync, requests>>

WaiterWait ==
  LET m == Head(toWaiter)
  IN  /\ WaiterTakes("wait")
      /\ waiting' = waiting \cup {m.block}
      /\ waiters' = IF m.block \in waiting THEN waiters
                    ELSE waiters \cup {[block |-> m.block, missing |-> m.missing,
                                        cancelled |-> FALSE]}
      /\ UNCHANGED <<results, loopback>>

\* The channel of a waiter has room for one cancel.
WaiterCleanup ==
  LET old == {b \in waiting : Round[b] <= Head(toWaiter).round}
  IN  /\ WaiterTakes("cleanup")
      /\ waiting' = waiting \ old
      /\ waiters' = {IF w.block \in old THEN [w EXCEPT !.cancelled = TRUE] ELSE w :
                       w \in waiters}
      /\ UNCHANGED <<results, loopback>>

\* spawnWaiter: one select, which takes a cancel or the first batch stored; only
\* a block that missed one batch is then complete.
WaiterStops(w) ==
  /\ w.cancelled
  /\ waiters' = waiters \ {w}
  /\ UNCHANGED <<stored, core, sync, requests, waiting, results, loopback>>

\* Mutant: the count is tested before it is decremented.
WaiterAnsweredOffByOne(w) ==
  /\ w.missing \cap stored # {}
  /\ waiters' = waiters \ {w}
  /\ results' = IF w.missing = {} THEN results \cup {w.block} ELSE results
  /\ UNCHANGED <<stored, core, sync, requests, waiting, loopback>>

\* Mutant: the first batch completes any block.
WaiterAnsweredEarly(w) ==
  /\ w.missing \cap stored # {}
  /\ waiters' = waiters \ {w}
  /\ results' = results \cup {w.block}
  /\ UNCHANGED <<stored, core, sync, requests, waiting, loopback>>

WaiterAnswered(w) ==
  /\ w.missing \cap stored # {}
  /\ waiters' = waiters \ {w}
  /\ results' = IF Cardinality(w.missing) = 1 THEN results \cup {w.block} ELSE results
  /\ UNCHANGED <<stored, core, sync, requests, waiting, loopback>>

\* A lookup has failed: the loop is told no block, which stays pending.
WaiterFails(w) ==
  /\ w.missing \cap Faulty # {}
  /\ waiters' = waiters \ {w}
  /\ UNCHANGED <<stored, core, sync, requests, waiting, results, loopback>>

WaiterResult(b) ==
  /\ b \in results
  /\ results' = results \ {b}
  /\ waiting' = waiting \ {b}
  /\ loopback' = loopback \cup {b}
  /\ UNCHANGED <<stored, core, sync, requests, waiters>>
-----------------------------------------------------------------------------
Init ==
  /\ stored = {} /\ toMempool = <<>> /\ toWaiter = <<>>
  /\ round = 0 /\ pending = [d \in {} |-> 0]
  /\ watchers = {} /\ arrived = {} /\ cancelling = <<>>
  /\ requests = {}
  /\ waiting = {} /\ waiters = {} /\ results = {} /\ loopback = {}

Core ==
  \/ \E b \in Block : Verify(b)
  \/ \E r \in CleanupRounds : Cleanup(r)
SyncLoop == SyncSynchronize \/ SyncCleanup \/ SyncCancel \/ \E d \in Batch : SyncArrived(d)
WaiterLoop == WaiterWait \/ WaiterCleanup \/ \E b \in Block : WaiterResult(b)

Next ==
  \/ Core
  \/ SyncLoop \/ SyncRetry
  \/ WaiterLoop
  \/ \E d \in Batch : \/ WatcherAnswered(d) \/ WatcherFails(d)
                      \/ LoseRequest(d) \/ AnswerRequest(d) \/ ReceiveBatch(d)
  \/ \E w \in waiters : WaiterStops(w) \/ WaiterAnswered(w) \/ WaiterFails(w)

Spec == Init /\ [][Next]_vars

\* Every goroutine runs, a select takes each of its cases in the end, and a batch
\* asked for again and again arrives at last.
FairSpec ==
  /\ Spec
  /\ SF_vars(SyncSynchronize \/ SyncCleanup) /\ WF_vars(SyncCancel) /\ SF_vars(SyncRetry)
  /\ \A d \in Batch : /\ WF_vars(WatcherAnswered(d))
                      /\ SF_vars(SyncArrived(d))
                      /\ SF_vars(AnswerRequest(d))
  /\ WF_vars(WaiterWait \/ WaiterCleanup)
  /\ \A b \in Block : WF_vars(WaiterResult(b))
  /\ \A m \in SUBSET Batch :
       WF_vars(\E w \in waiters : w.missing = m /\ (WaiterStops(w) \/ WaiterAnswered(w)))
-----------------------------------------------------------------------------
TypeOK ==
  /\ stored \subseteq Batch
  /\ toMempool \in Seq(Message) /\ toWaiter \in Seq(WaiterMessage)
  /\ round \in Nat
  /\ DOMAIN pending \subseteq Batch /\ \A d \in DOMAIN pending : pending[d] \in Nat
  /\ watchers \subseteq Batch /\ arrived \subseteq Batch
  /\ cancelling \in Seq(Batch)
  /\ requests \subseteq Batch
  /\ waiting \subseteq Block /\ results \subseteq Block /\ loopback \subseteq Block
  /\ waiters \subseteq [block : Block, missing : SUBSET Batch, cancelled : BOOLEAN]

\* Every batch asked for has one goroutine that waits for it, or has arrived and
\* waits for the loop to take it off the list, unless its lookup failed; and none
\* waits for nothing.
RequestsWatched ==
  /\ watchers \cap arrived = {}
  /\ watchers \cup arrived \subseteq DOMAIN pending
  /\ DOMAIN pending \ Faulty \subseteq watchers \cup arrived

\* The loop of the synchronizer waits for a goroutine that has gone.
Stuck == cancelling # <<>> /\ Head(cancelling) \notin watchers
SynchronizerNeverStuck == ~Stuck

\* A block comes back to the core only with all its batches.
LoopbackComplete == \A b \in results \cup loopback : Payload[b] \subseteq stored

\* A batch stays asked for until it is stored: losses are made up by the retries.
\* (Unless the request is collected or the synchronizer is stuck.)
RequestsAnswered ==
  \A d \in Batch : d \in DOMAIN pending ~> d \in stored \/ d \notin DOMAIN pending \/ Stuck

\* A block that lacked one batch comes back, or is cleaned up, once it is stored and
\* can be read.
SingleBatchDelivered ==
  \A b \in Block, d \in Batch \ Faulty :
    (d \in stored /\ [block |-> b, missing |-> {d}, cancelled |-> FALSE] \in waiters)
      ~> (b \in loopback \/ b \notin waiting)

\* A block that waits comes back, or is cleaned up, once its batches are stored.
BlocksDelivered ==
  \A b \in Block : b \in waiting /\ Payload[b] \subseteq stored ~> b \notin waiting
=============================================================================
