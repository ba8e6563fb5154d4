----------------------------- MODULE PayloadProofs -----------------------------
(***************************************************************************)
(* Theorems about the way of a block's batches, for every set of blocks and   *)
(* payloads, every GcDepth and every capacity.                               *)
(***************************************************************************)
EXTENDS PayloadPath, BasicLemmas, FiniteSetTheorems

-----------------------------------------------------------------------------
(* The inductive invariant.                                                  *)

\* What a block lacks is among the batches its wait is for, or has been stored since.
Covers(missing, b) == IsFiniteSet(missing) /\ Payload[b] \subseteq missing \cup stored

\* The waits on their way to the payload waiter and those that it has taken.
WaitsCovered ==
  /\ \A m \in Range(toWaiter) : m.t = "wait" => Covers(m.missing, m.block)
  /\ \A w \in waiters : Covers(w.missing, w.block)

\* The loop of a cleanup is over finitely many requests.
FinitelyAsked ==
  /\ \A m \in Range(toMempool) : m.t = "synchronize" => IsFiniteSet(m.missing)
  /\ IsFiniteSet(DOMAIN pending)

Inv == TypeOK /\ FinitelyAsked /\ WaitsCovered /\ RequestsWatched /\ LoopbackComplete

\* Nothing but the store changes of what the blocks' part of the invariant is about.
LEMMA BlocksUntouched ==
  ASSUME Inv, stored \subseteq stored', stored' \subseteq Batch,
         UNCHANGED <<toWaiter, waiting, waiters, results, loopback>>
  PROVE  /\ WaitsCovered' /\ LoopbackComplete'
         /\ (toWaiter \in Seq(WaiterMessage))' /\ (waiting \subseteq Block)'
         /\ (results \subseteq Block)' /\ (loopback \subseteq Block)'
         /\ (waiters \subseteq [block : Block, missing : SUBSET Batch, cancelled : BOOLEAN])'
<1>1. WaitsCovered' /\ LoopbackComplete'
  BY DEF Inv, WaitsCovered, Covers, LoopbackComplete
<1> QED
  BY <1>1 DEF Inv, TypeOK

\* Nothing changes of what the synchronizer's part is about.
LEMMA RequestsUntouched ==
  ASSUME Inv, UNCHANGED <<toMempool, sync>>
  PROVE  /\ FinitelyAsked' /\ RequestsWatched'
         /\ (toMempool \in Seq(Message))' /\ (round \in Nat)'
         /\ (DOMAIN pending \subseteq Batch)' /\ (\A d \in DOMAIN pending : pending[d] \in Nat)'
         /\ (watchers \subseteq Batch)' /\ (arrived \subseteq Batch)'
         /\ (cancelling \in Seq(Batch))'
<1>1. FinitelyAsked' /\ RequestsWatched'
  BY DEF Inv, FinitelyAsked, RequestsWatched, sync
<1> QED
  BY <1>1 DEF Inv, TypeOK, sync
-----------------------------------------------------------------------------
(* The core.                                                                 *)

LEMMA VerifyInv ==
  ASSUME Inv, NEW b \in Block, Verify(b)
  PROVE  Inv'
<1> DEFINE missing == Payload[b] \ stored
           m == [t |-> "synchronize", missing |-> missing]
           w == [t |-> "wait", block |-> b, missing |-> missing]
<1>1. /\ toMempool' = Append(toMempool, m) /\ toWaiter' = Append(toWaiter, w)
      /\ UNCHANGED <<stored, sync, requests, pw>>
  BY DEF Verify, CoreSends
<1>2. missing \subseteq Batch /\ IsFiniteSet(missing) /\ Covers(missing, b)
  <2>1. Payload[b] \subseteq Batch /\ IsFiniteSet(Payload[b])
    BY PayloadAssumption
  <2>2. IsFiniteSet(missing)
    BY <2>1, FS_Subset
  <2> QED
    BY <2>1, <2>2 DEF Covers
<1> HIDE DEF missing
<1>3. m \in Message /\ w \in WaiterMessage
  BY <1>2 DEF Message, WaiterMessage
<1>4. m.t = "synchronize" /\ m.missing = missing /\ w.block = b /\ w.missing = missing
  OBVIOUS
<1> HIDE DEF m, w
<1>5. /\ toMempool' \in Seq(Message) /\ Range(toMempool') = Range(toMempool) \cup {m}
      /\ toWaiter' \in Seq(WaiterMessage) /\ Range(toWaiter') = Range(toWaiter) \cup {w}
  BY <1>1, <1>3, Appended DEF Inv, TypeOK
<1>6. TypeOK'
  BY <1>1, <1>5 DEF Inv, TypeOK, sync, pw
<1>7. FinitelyAsked' /\ RequestsWatched'
  BY <1>1, <1>2, <1>4, <1>5 DEF Inv, FinitelyAsked, RequestsWatched, sync
<1>8. WaitsCovered' /\ LoopbackComplete'
  BY <1>1, <1>2, <1>4, <1>5 DEF Inv, WaitsCovered, Covers, LoopbackComplete, pw
<1> QED
  BY <1>6, <1>7, <1>8 DEF Inv

LEMMA CleanupInv ==
  ASSUME Inv, NEW r \in CleanupRounds, Cleanup(r)
  PROVE  Inv'
<1> DEFINE m == [t |-> "cleanup", round |-> r]
<1>1. /\ toMempool' = Append(toMempool, m) /\ toWaiter' = Append(toWaiter, m)
      /\ UNCHANGED <<stored, sync, requests, pw>>
  BY DEF Cleanup, CoreSends
<1>2. m \in Message /\ m \in WaiterMessage
  BY PayloadAssumption DEF Message, WaiterMessage
<1>3. m.t = "cleanup"
  OBVIOUS
<1> HIDE DEF m
<1>4. /\ toMempool' \in Seq(Message) /\ Range(toMempool') = Range(toMempool) \cup {m}
      /\ toWaiter' \in Seq(WaiterMessage) /\ Range(toWaiter') = Range(toWaiter) \cup {m}
  BY <1>1, <1>2, Appended DEF Inv, TypeOK
<1>5. TypeOK'
  BY <1>1, <1>4 DEF Inv, TypeOK, sync, pw
<1>6. FinitelyAsked' /\ RequestsWatched'
  BY <1>1, <1>3, <1>4 DEF Inv, FinitelyAsked, RequestsWatched, sync
<1>7. WaitsCovered' /\ LoopbackComplete'
  BY <1>1, <1>3, <1>4 DEF Inv, WaitsCovered, Covers, LoopbackComplete, pw
<1> QED
  BY <1>5, <1>6, <1>7 DEF Inv
-----------------------------------------------------------------------------
(* The mempool's synchronizer and its goroutines.                            *)

\* What the loop reads from the core's channel.
LEMMA SyncTakesKeeps ==
  ASSUME Inv, NEW t, SyncTakes(t)
  PROVE  /\ toMempool # <<>> /\ Head(toMempool).t = t /\ Head(toMempool) \in Message
         /\ toMempool' \in Seq(Message)
         /\ Range(toMempool) = {Head(toMempool)} \cup Range(toMempool')
         /\ UNCHANGED <<stored, toWaiter, waiting, waiters, results, loopback>>
         /\ stored \subseteq stored' /\ stored' \subseteq Batch
<1>1. toMempool # <<>> /\ toMempool' = Tail(toMempool) /\ UNCHANGED <<stored, toWaiter, pw>>
  BY DEF SyncTakes
<1>2. toMempool \in Seq(Message)
  BY DEF Inv, TypeOK
<1>3. /\ Head(toMempool) \in Message /\ toMempool' \in Seq(Message)
      /\ Range(toMempool) = {Head(toMempool)} \cup Range(toMempool')
  BY <1>1, <1>2, RangeHeadTail
<1> QED
  BY <1>1, <1>3 DEF SyncTakes, pw, Inv, TypeOK

LEMMA SyncSynchronizeInv ==
  ASSUME Inv, SyncSynchronize
  PROVE  Inv'
<1> DEFINE m == Head(toMempool)
           new == m.missing \ DOMAIN pending
<1>1. /\ SyncTakes("synchronize")
      /\ pending' = [d \in DOMAIN pending \cup new |-> IF d \in new THEN round ELSE pending[d]]
      /\ watchers' = watchers \cup new /\ requests' = requests \cup new
      /\ UNCHANGED <<round, arrived, cancelling>>
  BY DEF SyncSynchronize
<1>2. /\ m \in Message /\ m.t = "synchronize" /\ toMempool' \in Seq(Message)
      /\ Range(toMempool) = {m} \cup Range(toMempool')
      /\ UNCHANGED <<stored, toWaiter, waiting, waiters, results, loopback>>
      /\ stored \subseteq stored' /\ stored' \subseteq Batch
  BY <1>1, SyncTakesKeeps
<1>3. new \subseteq Batch /\ IsFiniteSet(new)
  <2>1. m.missing \subseteq Batch
    BY <1>2 DEF Message
  <2>2. IsFiniteSet(m.missing)
    BY <1>2 DEF Inv, FinitelyAsked
  <2> QED
    BY <2>1, <2>2, FS_Subset
<1> HIDE DEF m, new
<1>4. DOMAIN pending' = DOMAIN pending \cup new
  BY <1>1
<1>5. \A d \in DOMAIN pending' : pending'[d] \in Nat
  BY <1>1, <1>4 DEF Inv, TypeOK
<1>6. IsFiniteSet(DOMAIN pending')
  BY <1>3, <1>4, FS_Union DEF Inv, FinitelyAsked
<1>7. WaitsCovered' /\ LoopbackComplete'
  BY <1>2, BlocksUntouched
<1>8. TypeOK'
  BY <1>1, <1>2, <1>3, <1>4, <1>5 DEF Inv, TypeOK
<1>9. FinitelyAsked'
  BY <1>2, <1>6 DEF Inv, FinitelyAsked
<1>10. RequestsWatched'
  BY <1>1, <1>4 DEF Inv, RequestsWatched, new
<1> QED
  BY <1>7, <1>8, <1>9, <1>10 DEF Inv

LEMMA SyncCleanupInv ==
  ASSUME Inv, SyncCleanup
  PROVE  Inv'
<1> DEFINE m == Head(toMempool)
           old == {d \in DOMAIN pending : m.round >= GcDepth /\ pending[d] < m.round - GcDepth}
<1>1. /\ SyncTakes("cleanup")
      /\ round' = m.round /\ cancelling' \in SetToSeqs(old)
      /\ UNCHANGED <<pending, watchers, arrived, requests>>
  BY DEF SyncCleanup
<1>2. /\ m \in Message /\ m.t = "cleanup" /\ toMempool' \in Seq(Message)
      /\ Range(toMempool) = {m} \cup Range(toMempool')
      /\ UNCHANGED <<stored, toWaiter, waiting, waiters, results, loopback>>
      /\ stored \subseteq stored' /\ stored' \subseteq Batch
  BY <1>1, SyncTakesKeeps
<1>3. m.round \in Nat
  BY <1>2 DEF Message
<1>4. old \subseteq Batch /\ Cardinality(old) \in Nat
  <2>1. old \subseteq DOMAIN pending /\ IsFiniteSet(old)
    BY FS_Subset DEF Inv, FinitelyAsked
  <2> QED
    BY <2>1, FS_CardinalityType DEF Inv, TypeOK
<1> HIDE DEF m, old
<1>5. cancelling' \in Seq(Batch)
  <2>1. cancelling' \in [1 .. Cardinality(old) -> old]
    BY <1>1 DEF SetToSeqs
  <2> QED
    BY <1>4, <2>1, SeqDef
<1>6. WaitsCovered' /\ LoopbackComplete'
  BY <1>2, BlocksUntouched
<1>7. TypeOK'
  BY <1>1, <1>2, <1>3, <1>5 DEF Inv, TypeOK
<1>8. FinitelyAsked' /\ RequestsWatched'
  BY <1>1, <1>2 DEF Inv, FinitelyAsked, RequestsWatched
<1> QED
  BY <1>6, <1>7, <1>8 DEF Inv

\* A goroutine that ends, and the request that ends with it.
LEMMA SyncCancelInv ==
  ASSUME Inv, SyncCancel
  PROVE  Inv'
<1> DEFINE d == Head(cancelling)
<1>1. /\ cancelling # <<>> /\ d \in watchers
      /\ cancelling' = Tail(cancelling) /\ watchers' = watchers \ {d}
      /\ pending' = Restrict(pending, DOMAIN pending \ {d})
      /\ UNCHANGED <<stored, toMempool, toWaiter, round, arrived, requests,
                     waiting, waiters, results, loopback>>
  BY DEF SyncCancel, core, pw
<1>2. cancelling' \in Seq(Batch)
  BY <1>1, RangeHeadTail DEF Inv, TypeOK
<1> HIDE DEF d
<1>3. /\ DOMAIN pending' = DOMAIN pending \ {d}
      /\ \A x \in DOMAIN pending' : pending'[x] = pending[x]
  BY <1>1 DEF Restrict
<1>4. WaitsCovered' /\ LoopbackComplete'
  BY <1>1, BlocksUntouched DEF Inv, TypeOK
<1>5. TypeOK'
  BY <1>1, <1>2, <1>3 DEF Inv, TypeOK
<1>6. FinitelyAsked'
  BY <1>1, <1>3, FS_Subset DEF Inv, FinitelyAsked
<1>7. RequestsWatched'
  BY <1>1, <1>3 DEF Inv, RequestsWatched
<1> QED
  BY <1>4, <1>5, <1>6, <1>7 DEF Inv

LEMMA SyncArrivedInv ==
  ASSUME Inv, NEW d \in Batch, SyncArrived(d)
  PROVE  Inv'
<1>1. /\ d \in arrived /\ arrived' = arrived \ {d}
      /\ pending' = Restrict(pending, DOMAIN pending \ {d})
      /\ UNCHANGED <<stored, toMempool, toWaiter, round, watchers, cancelling, requests,
                     waiting, waiters, results, loopback>>
  BY DEF SyncArrived, core, pw
<1>2. /\ DOMAIN pending' = DOMAIN pending \ {d}
      /\ \A x \in DOMAIN pending' : pending'[x] = pending[x]
  BY <1>1 DEF Restrict
<1>3. WaitsCovered' /\ LoopbackComplete'
  BY <1>1, BlocksUntouched DEF Inv, TypeOK
<1>4. TypeOK'
  BY <1>1, <1>2 DEF Inv, TypeOK
<1>5. FinitelyAsked'
  BY <1>1, <1>2, FS_Subset DEF Inv, FinitelyAsked
<1>6. RequestsWatched'
  BY <1>1, <1>2 DEF Inv, RequestsWatched
<1> QED
  BY <1>3, <1>4, <1>5, <1>6 DEF Inv

LEMMA WatcherAnsweredInv ==
  ASSUME Inv, NEW d \in Batch, WatcherAnswered(d)
  PROVE  Inv'
<1>1. /\ d \in watchers /\ watchers' = watchers \ {d} /\ arrived' = arrived \cup {d}
      /\ UNCHANGED <<stored, toMempool, toWaiter, round, pending, cancelling, requests,
                     waiting, waiters, results, loopback>>
  BY DEF WatcherAnswered, core, pw
<1>2. WaitsCovered' /\ LoopbackComplete'
  BY <1>1, BlocksUntouched DEF Inv, TypeOK
<1>3. TypeOK' /\ FinitelyAsked' /\ RequestsWatched'
  BY <1>1 DEF Inv, TypeOK, FinitelyAsked, RequestsWatched
<1> QED
  BY <1>2, <1>3 DEF Inv

\* The request of a goroutine that ends for a failed lookup stays pending.
LEMMA WatcherFailsInv ==
  ASSUME Inv, NEW d \in Batch, WatcherFails(d)
  PROVE  Inv'
<1>1. /\ d \in Faulty /\ watchers' = watchers \ {d}
      /\ UNCHANGED <<stored, toMempool, toWaiter, round, pending, arrived, cancelling, requests,
                     waiting, waiters, results, loopback>>
  BY DEF WatcherFails, core, pw
<1>2. WaitsCovered' /\ LoopbackComplete'
  BY <1>1, BlocksUntouched DEF Inv, TypeOK
<1>3. TypeOK' /\ FinitelyAsked' /\ RequestsWatched'
  BY <1>1 DEF Inv, TypeOK, FinitelyAsked, RequestsWatched
<1> QED
  BY <1>2, <1>3 DEF Inv

\* The network and the processor: requests change and batches are stored.
LEMMA NetworkInv ==
  ASSUME Inv, UNCHANGED <<core, sync, pw>>, requests' \subseteq Batch,
         stored \subseteq stored', stored' \subseteq Batch
  PROVE  Inv'
<1>1. /\ WaitsCovered' /\ LoopbackComplete'
      /\ FinitelyAsked' /\ RequestsWatched'
  BY BlocksUntouched, RequestsUntouched DEF core, pw
<1>2. TypeOK'
  BY DEF Inv, TypeOK, core, sync, pw
<1> QED
  BY <1>1, <1>2 DEF Inv
-----------------------------------------------------------------------------
(* The payload waiter.                                                       *)

\* What its loop reads from the core's channel.
LEMMA WaiterTakesKeeps ==
  ASSUME Inv, NEW t, WaiterTakes(t)
  PROVE  /\ toWaiter # <<>> /\ Head(toWaiter).t = t /\ Head(toWaiter) \in WaiterMessage
         /\ toWaiter' \in Seq(WaiterMessage)
         /\ Range(toWaiter) = {Head(toWaiter)} \cup Range(toWaiter')
         /\ UNCHANGED <<stored, toMempool, sync, requests>>
<1>1. toWaiter # <<>> /\ toWaiter' = Tail(toWaiter)
  BY DEF WaiterTakes
<1>2. toWaiter \in Seq(WaiterMessage)
  BY DEF Inv, TypeOK
<1>3. /\ Head(toWaiter) \in WaiterMessage /\ toWaiter' \in Seq(WaiterMessage)
      /\ Range(toWaiter) = {Head(toWaiter)} \cup Range(toWaiter')
  BY <1>1, <1>2, RangeHeadTail
<1> QED
  BY <1>1, <1>3 DEF WaiterTakes

LEMMA WaiterWaitInv ==
  ASSUME Inv, WaiterWait
  PROVE  Inv'
<1> DEFINE m == Head(toWaiter)
           w == [block |-> m.block, missing |-> m.missing, cancelled |-> FALSE]
<1>1. /\ WaiterTakes("wait")
      /\ waiting' = waiting \cup {m.block}
      /\ waiters' = waiters \/ waiters' = waiters \cup {w}
      /\ UNCHANGED <<results, loopback>>
  BY DEF WaiterWait
<1>2. /\ m \in WaiterMessage /\ m.t = "wait" /\ toWaiter' \in Seq(WaiterMessage)
      /\ Range(toWaiter) = {m} \cup Range(toWaiter')
      /\ UNCHANGED <<stored, toMempool, sync, requests>>
  BY <1>1, WaiterTakesKeeps
<1>3. m.block \in Block /\ m.missing \subseteq Batch /\ Covers(m.missing, m.block)
  BY <1>2 DEF WaiterMessage, Inv, WaitsCovered
<1> HIDE DEF m
<1>4. /\ w \in [block : Block, missing : SUBSET Batch, cancelled : BOOLEAN]
      /\ w.block = m.block /\ w.missing = m.missing
  BY <1>3
<1> HIDE DEF w
<1>5. TypeOK'
  BY <1>1, <1>2, <1>3, <1>4 DEF Inv, TypeOK, sync
<1>6. FinitelyAsked' /\ RequestsWatched'
  BY <1>2, RequestsUntouched
<1>7. WaitsCovered' /\ LoopbackComplete'
  BY <1>1, <1>2, <1>3, <1>4 DEF Inv, WaitsCovered, Covers, LoopbackComplete
<1> QED
  BY <1>5, <1>6, <1>7 DEF Inv

LEMMA WaiterCleanupInv ==
  ASSUME Inv, WaiterCleanup
  PROVE  Inv'
<1> DEFINE m == Head(toWaiter)
           old == {b \in waiting : Round[b] <= m.round}
           stop(w) == IF w.block \in old THEN [w EXCEPT !.cancelled = TRUE] ELSE w
<1>1. /\ WaiterTakes("cleanup")
      /\ waiting' = waiting \ old
      /\ waiters' = {stop(w) : w \in waiters}
      /\ UNCHANGED <<results, loopback>>
  BY DEF WaiterCleanup
<1>2. /\ toWaiter' \in Seq(WaiterMessage)
      /\ Range(toWaiter) = {m} \cup Range(toWaiter')
      /\ UNCHANGED <<stored, toMempool, sync, requests>>
  BY <1>1, WaiterTakesKeeps
<1> HIDE DEF m, old
<1>3. \A w \in waiters :
        /\ stop(w) \in [block : Block, missing : SUBSET Batch, cancelled : BOOLEAN]
        /\ stop(w).block = w.block /\ stop(w).missing = w.missing
  BY DEF Inv, TypeOK
<1> HIDE DEF stop
<1>4. waiters' \subseteq [block : Block, missing : SUBSET Batch, cancelled : BOOLEAN]
  BY <1>1, <1>3
<1>5. TypeOK'
  BY <1>1, <1>2, <1>4 DEF Inv, TypeOK, sync
<1>6. FinitelyAsked' /\ RequestsWatched'
  BY <1>2, RequestsUntouched
<1>7. WaitsCovered'
  BY <1>1, <1>2, <1>3 DEF Inv, WaitsCovered, Covers
<1>8. LoopbackComplete'
  BY <1>1, <1>2 DEF Inv, LoopbackComplete
<1> QED
  BY <1>5, <1>6, <1>7, <1>8 DEF Inv

\* The one answer a waiter receives completes a block that lacked one batch: the
\* batch it lacked is the one that came.
LEMMA WaiterAnsweredInv ==
  ASSUME Inv, NEW w \in waiters, WaiterAnswered(w)
  PROVE  Inv'
<1>1. /\ w.missing \cap stored # {} /\ waiters' = waiters \ {w}
      /\ results' = IF Cardinality(w.missing) = 1 THEN results \cup {w.block} ELSE results
      /\ UNCHANGED <<stored, toMempool, toWaiter, sync, requests, waiting, loopback>>
  BY DEF WaiterAnswered, core
<1>2. Cardinality(w.missing) = 1 => Payload[w.block] \subseteq stored
  <2>1. IsFiniteSet(w.missing) /\ Payload[w.block] \subseteq w.missing \cup stored
    BY DEF Inv, WaitsCovered, Covers
  <2> SUFFICES ASSUME Cardinality(w.missing) = 1
               PROVE  Payload[w.block] \subseteq stored
    OBVIOUS
  <2>2. PICK d : w.missing = {d}
    BY <2>1, FS_Singleton
  <2> QED
    BY <1>1, <2>1, <2>2
<1>3. TypeOK'
  BY <1>1 DEF Inv, TypeOK, sync
<1>4. FinitelyAsked' /\ RequestsWatched'
  BY <1>1, RequestsUntouched
<1>5. WaitsCovered' /\ LoopbackComplete'
  BY <1>1, <1>2 DEF Inv, WaitsCovered, Covers, LoopbackComplete
<1> QED
  BY <1>3, <1>4, <1>5 DEF Inv

LEMMA WaiterStopsInv ==
  ASSUME Inv, NEW w \in waiters, WaiterStops(w) \/ WaiterFails(w)
  PROVE  Inv'
<1>1. /\ waiters' = waiters \ {w}
      /\ UNCHANGED <<stored, toMempool, toWaiter, sync, requests, waiting, results, loopback>>
  BY DEF WaiterStops, WaiterFails, core
<1>2. FinitelyAsked' /\ RequestsWatched'
  BY <1>1, RequestsUntouched
<1>3. TypeOK' /\ WaitsCovered' /\ LoopbackComplete'
  BY <1>1 DEF Inv, TypeOK, sync, WaitsCovered, Covers, LoopbackComplete
<1> QED
  BY <1>2, <1>3 DEF Inv

LEMMA WaiterResultInv ==
  ASSUME Inv, NEW b \in Block, WaiterResult(b)
  PROVE  Inv'
<1>1. /\ b \in results /\ results' = results \ {b} /\ waiting' = waiting \ {b}
      /\ loopback' = loopback \cup {b}
      /\ UNCHANGED <<stored, toMempool, toWaiter, sync, requests, waiters>>
  BY DEF WaiterResult, core
<1>2. FinitelyAsked' /\ RequestsWatched'
  BY <1>1, RequestsUntouched
<1>3. TypeOK' /\ WaitsCovered' /\ LoopbackComplete'
  BY <1>1 DEF Inv, TypeOK, sync, WaitsCovered, Covers, LoopbackComplete
<1> QED
  BY <1>2, <1>3 DEF Inv
-----------------------------------------------------------------------------
LEMMA InitInv == Init => Inv
<1> SUFFICES ASSUME Init PROVE Inv
  OBVIOUS
<1>1. /\ DOMAIN pending = {} /\ Range(toMempool) = {} /\ Range(toWaiter) = {}
      /\ toMempool \in Seq(Message) /\ toWaiter \in Seq(WaiterMessage)
      /\ cancelling \in Seq(Batch)
  BY RangeOfNone DEF Init
<1>2. FinitelyAsked
  BY <1>1, FS_EmptySet DEF FinitelyAsked
<1> QED
  BY <1>1, <1>2 DEF Init, Inv, TypeOK, WaitsCovered, RequestsWatched, LoopbackComplete

LEMMA NextInv == Inv /\ [Next]_vars => Inv'
<1> SUFFICES ASSUME Inv, [Next]_vars PROVE Inv'
  OBVIOUS
<1>1. CASE SyncRetry
  BY <1>1, NetworkInv DEF SyncRetry, Inv, TypeOK
<1>2. ASSUME NEW d \in Batch, LoseRequest(d) \/ AnswerRequest(d) \/ ReceiveBatch(d)
      PROVE  Inv'
  BY <1>2, NetworkInv DEF LoseRequest, AnswerRequest, ReceiveBatch, Inv, TypeOK
<1>3. CASE UNCHANGED vars
  BY <1>3, NetworkInv DEF vars, Inv, TypeOK
<1>4. CASE Core
  BY <1>4, VerifyInv, CleanupInv DEF Core
<1>5. CASE SyncLoop
  BY <1>5, SyncSynchronizeInv, SyncCleanupInv, SyncCancelInv, SyncArrivedInv DEF SyncLoop
<1>6. CASE WaiterLoop
  BY <1>6, WaiterWaitInv, WaiterCleanupInv, WaiterResultInv DEF WaiterLoop
<1> QED
  BY <1>1, <1>2, <1>3, <1>4, <1>5, <1>6, WatcherAnsweredInv, WatcherFailsInv,
     WaiterStopsInv, WaiterAnsweredInv DEF Next

LEMMA InvAlways == Spec => []Inv
BY InitInv, NextInv, PTL DEF Spec
-----------------------------------------------------------------------------
\* Every variable keeps its type; a cleanup has finitely many goroutines to cancel.
THEOREM TypeCorrect == Spec => []TypeOK
<1>1. Inv => TypeOK
  BY DEF Inv
<1> QED
  BY <1>1, InvAlways, PTL

\* The synchronizer's map and its goroutines agree through arrivals, cleanups and their
\* races: each request pending has one goroutine that waits for the store, or has been
\* answered and is about to be taken off, unless the database fails for its key
\* (synchronizer.run in mempool/synchronizer.go).
THEOREM RequestsHaveWatchers == Spec => []RequestsWatched
<1>1. Inv => RequestsWatched
  BY DEF Inv
<1> QED
  BY <1>1, InvAlways, PTL

\* What the payload waiter hands back to the core has its whole payload stored, though
\* batches come in any order while it waits (spawnWaiter in consensus/mempool.go).
THEOREM LoopbackHasPayload == Spec => []LoopbackComplete
<1>1. Inv => LoopbackComplete
  BY DEF Inv
<1> QED
  BY <1>1, InvAlways, PTL
=============================================================================
