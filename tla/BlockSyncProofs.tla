---------------------------- MODULE BlockSyncProofs ----------------------------
(***************************************************************************)
(* Theorems about the block synchronizer, for every tree of blocks, every    *)
(* set of peers and every capacity of the two channels.                      *)
(***************************************************************************)
EXTENDS BlockSync, BasicLemmas

-----------------------------------------------------------------------------
(* The inductive invariant.                                                  *)

\* Everything that is under way between core and synchronizer.
UnderWay == Range(suspending) \cup Range(innerChannel) \cup Range(delivering) \cup Range(loopback)

\* Only a block whose parent is another block is ever suspended, so the genesis
\* block is never asked for.
ParentsAreBlocks ==
  \A b \in Range(suspending) \cup Range(innerChannel) \cup waiters : Parent[b] \in BlockId

\* NoBlockForgotten with the channels as sets.
AllAccounted ==
  \A b \in BlockId : copies[b] > 0 => b \in stored \cup waiters \cup UnderWay

Inv == TypeOK /\ ParentsAreBlocks /\ WaitersRequested /\ AllAccounted

LEMMA InvNoneForgotten == Inv => NoBlockForgotten
<1> SUFFICES ASSUME Inv PROVE NoBlockForgotten
  OBVIOUS
<1>1. Range(suspending \o innerChannel \o delivering \o loopback) = UnderWay
  BY RangeOfFour DEF Inv, TypeOK, UnderWay
<1> QED
  BY <1>1 DEF Inv, AllAccounted, NoBlockForgotten

LEMMA ParentIsBlock ==
  ASSUME NEW b \in BlockId, ~HasParent(b)
  PROVE  Parent[b] \in BlockId
<1>1. BlockId = 1 .. Len(Parent) /\ Len(Parent) \in Nat
  BY BlockSyncAssumption, LenProperties DEF BlockId
<1>2. Parent[b] \in Nat /\ Parent[b] < b
  BY <1>1, BlockSyncAssumption, ElementOfSeq
<1> QED
  BY <1>1, <1>2 DEF HasParent
-----------------------------------------------------------------------------
(* The core.                                                                 *)

\* What processBlock does with a block, new or back from the loopback channel.
LEMMA ProcessBlockKeeps ==
  ASSUME Inv, NEW b \in BlockId, ProcessBlock(b)
  PROVE  /\ stored \subseteq stored' /\ stored' \subseteq BlockId
         /\ suspending' \in Seq(BlockId) /\ Len(suspending') <= 1
         /\ Range(suspending) = {}
         /\ b \in stored' \cup Range(suspending')
         /\ \A x \in Range(suspending') : Parent[x] \in BlockId
<1>1. suspending = <<>> /\ Range(suspending) = {}
  BY RangeOfNone DEF ProcessBlock
<1>2. CASE HasParent(b) /\ stored' = stored \cup {b} /\ UNCHANGED suspending
  BY <1>1, <1>2 DEF Inv, TypeOK
<1>3. CASE ~HasParent(b) /\ suspending' = <<b>> /\ UNCHANGED stored
  <2>1. Range(<<b>>) = {b}
    BY DEF Range
  <2>2. <<b>> \in Seq(BlockId) /\ Len(<<b>>) <= 1
    OBVIOUS
  <2>3. Parent[b] \in BlockId
    BY <1>3, ParentIsBlock
  <2> QED
    BY <1>1, <1>3, <2>1, <2>2, <2>3 DEF Inv, TypeOK
<1> QED
  BY <1>2, <1>3 DEF ProcessBlock

LEMMA ReceiveBlockInv ==
  ASSUME Inv, NEW b \in BlockId, ReceiveBlock(b)
  PROVE  Inv'
<1> USE DEF Inv
<1>1. /\ ProcessBlock(b) /\ copies[b] < MaxCopies
      /\ inFlight' = inFlight \ {b} /\ copies' = [copies EXCEPT ![b] = @ + 1]
      /\ UNCHANGED <<innerChannel, pending, requests, waiters, delivering, loopback, asked>>
  BY DEF ReceiveBlock, syncVars
<1>2. TypeOK'
  <2>1. copies' \in [BlockId -> 0 .. MaxCopies]
    BY <1>1, BlockSyncAssumption DEF TypeOK
  <2> QED
    BY <1>1, <2>1, ProcessBlockKeeps DEF TypeOK
<1>3. ParentsAreBlocks'
  BY <1>1, ProcessBlockKeeps DEF ParentsAreBlocks
<1>4. WaitersRequested'
  BY <1>1, ProcessBlockKeeps DEF WaitersRequested
<1>5. AllAccounted'
  <2>1. \A x \in BlockId : x # b => copies'[x] = copies[x]
    BY <1>1 DEF TypeOK
  <2>2. b \in stored' \cup UnderWay' /\ stored \cup waiters \cup UnderWay \subseteq
          stored' \cup waiters' \cup UnderWay'
    BY <1>1, ProcessBlockKeeps DEF UnderWay
  <2> QED
    BY <2>1, <2>2 DEF AllAccounted
<1> QED
  BY <1>2, <1>3, <1>4, <1>5

LEMMA ReceiveLoopbackInv ==
  ASSUME Inv, ReceiveLoopback
  PROVE  Inv'
<1> USE DEF Inv
<1> DEFINE b == Head(loopback)
<1>1. /\ ProcessBlock(b) /\ loopback # <<>> /\ loopback' = Tail(loopback)
      /\ UNCHANGED <<innerChannel, pending, requests, waiters, delivering, asked, inFlight, copies>>
  BY DEF ReceiveLoopback, syncVars, netVars
<1>2. /\ b \in BlockId /\ loopback' \in Seq(BlockId) /\ Len(loopback') = Len(loopback) - 1
      /\ Range(loopback) = {b} \cup Range(loopback')
  BY <1>1, RangeHeadTail DEF TypeOK
<1> HIDE DEF b
<1>3. TypeOK'
  <2>1. Len(loopback') <= Capacity
    BY <1>2, BlockSyncAssumption DEF TypeOK
  <2> QED
    BY <1>1, <1>2, <2>1, ProcessBlockKeeps DEF TypeOK
<1>4. ParentsAreBlocks'
  BY <1>1, <1>2, ProcessBlockKeeps DEF ParentsAreBlocks
<1>5. WaitersRequested'
  BY <1>1, <1>2, ProcessBlockKeeps DEF WaitersRequested
<1>6. AllAccounted'
  <2>1. stored \cup waiters \cup UnderWay \subseteq stored' \cup waiters' \cup UnderWay'
    BY <1>1, <1>2, ProcessBlockKeeps DEF UnderWay
  <2> QED
    BY <1>1, <2>1 DEF AllAccounted
<1> QED
  BY <1>3, <1>4, <1>5, <1>6

\* A block handed over by one variable is in the next one.
LEMMA HandedOver ==
  ASSUME NEW from \in Seq(BlockId), NEW to \in Seq(BlockId), Len(from) <= 1, from # <<>>
  PROVE  /\ to \o from \in Seq(BlockId) /\ Len(to \o from) = Len(to) + 1
         /\ Range(to \o from) = Range(to) \cup Range(from)
<1>1. PICK b \in BlockId : from = <<b>>
  BY OneElement
<1>2. Range(<<b>>) = {b}
  BY DEF Range
<1> QED
  BY <1>1, <1>2, RangeAppended

LEMMA SuspendInv ==
  ASSUME Inv, Suspend
  PROVE  Inv'
<1> USE DEF Inv
<1>1. /\ suspending # <<>> /\ Len(innerChannel) < Capacity
      /\ innerChannel' = innerChannel \o suspending /\ suspending' = <<>>
      /\ UNCHANGED <<stored, pending, requests, waiters, delivering, loopback,
                     asked, inFlight, copies>>
  BY DEF Suspend, syncVars, netVars
<1>2. /\ innerChannel' \in Seq(BlockId) /\ Len(innerChannel') = Len(innerChannel) + 1
      /\ Range(innerChannel') = Range(innerChannel) \cup Range(suspending)
      /\ Range(suspending') = {}
  BY <1>1, HandedOver, RangeOfNone DEF TypeOK
<1>3. TypeOK'
  <2>1. Len(innerChannel') <= Capacity
    BY <1>1, <1>2, BlockSyncAssumption DEF TypeOK
  <2>2. suspending' \in Seq(BlockId) /\ Len(suspending') <= 1
    BY <1>1
  <2> QED
    BY <1>1, <1>2, <2>1, <2>2 DEF TypeOK
<1>4. ParentsAreBlocks' /\ WaitersRequested' /\ AllAccounted'
  BY <1>1, <1>2 DEF ParentsAreBlocks, WaitersRequested, AllAccounted, UnderWay
<1> QED
  BY <1>3, <1>4
-----------------------------------------------------------------------------
(* The synchronizer.                                                         *)

LEMMA TakeSuspendedInv ==
  ASSUME Inv, TakeSuspended
  PROVE  Inv'
<1> USE DEF Inv
<1> DEFINE b == Head(innerChannel)
<1>1. /\ innerChannel # <<>> /\ innerChannel' = Tail(innerChannel)
      /\ UNCHANGED <<stored, suspending, delivering, loopback, inFlight, copies>>
  BY DEF TakeSuspended, coreVars
<1>2. /\ b \in BlockId /\ innerChannel' \in Seq(BlockId)
      /\ Len(innerChannel') = Len(innerChannel) - 1
      /\ Range(innerChannel) = {b} \cup Range(innerChannel')
  BY <1>1, RangeHeadTail DEF TypeOK
<1>3. Parent[b] \in BlockId /\ Author[b] \in Peer
  BY <1>2, BlockSyncAssumption DEF ParentsAreBlocks
<1>4. Len(innerChannel') <= Capacity
  BY <1>2, BlockSyncAssumption DEF TypeOK
<1>5. CASE b \in pending /\ UNCHANGED <<pending, requests, waiters, asked>>
  <2>1. b \in waiters
    BY <1>5 DEF WaitersRequested
  <2> HIDE DEF b
  <2> QED
    BY <1>1, <1>2, <1>4, <1>5, <2>1
       DEF TypeOK, ParentsAreBlocks, WaitersRequested, AllAccounted, UnderWay
<1>6. CASE /\ pending' = pending \cup {b} /\ waiters' = waiters \cup {b}
           /\ requests' = requests \cup {Parent[b]}
           /\ asked' \subseteq asked \cup {<<Author[b], Parent[b]>>}
  <2> HIDE DEF b
  <2>1. TypeOK'
    BY <1>1, <1>2, <1>3, <1>4, <1>6 DEF TypeOK
  <2>2. ParentsAreBlocks'
    BY <1>1, <1>2, <1>3, <1>6 DEF ParentsAreBlocks
  <2>3. WaitersRequested'
    BY <1>1, <1>6 DEF WaitersRequested
  <2>4. AllAccounted'
    BY <1>1, <1>2, <1>6 DEF AllAccounted, UnderWay
  <2> QED
    BY <2>1, <2>2, <2>3, <2>4
<1> QED
  BY <1>5, <1>6 DEF TakeSuspended

\* Of siblings, the first one that comes back ends the request: the parent is then
\* stored, so the others need it no more.
LEMMA TakeWaitingInv ==
  ASSUME Inv, NEW b \in BlockId, TakeWaiting(b)
  PROVE  Inv'
<1> USE DEF Inv
<1>1. /\ delivering = <<>> /\ b \in waiters /\ Parent[b] \in stored
      /\ waiters' = waiters \ {b} /\ pending' = pending \ {b}
      /\ requests' = requests \ {Parent[b]} /\ delivering' = <<b>>
      /\ UNCHANGED <<stored, suspending, innerChannel, loopback, asked, inFlight, copies>>
  BY DEF TakeWaiting, coreVars, netVars
<1>2. Range(delivering') = {b} /\ Range(delivering) = {}
  BY <1>1, RangeOfNone DEF Range
<1>3. delivering' \in Seq(BlockId) /\ Len(delivering') <= 1
  BY <1>1
<1>4. TypeOK'
  BY <1>1, <1>3 DEF TypeOK
<1>5. ParentsAreBlocks' /\ AllAccounted'
  BY <1>1, <1>2 DEF ParentsAreBlocks, AllAccounted, UnderWay
<1>6. WaitersRequested'
  <2>1. \A x \in waiters' : Parent[x] \in requests' \cup stored'
    BY <1>1 DEF WaitersRequested
  <2>2. ASSUME NEW d \in requests'
        PROVE  \E x \in waiters' : Parent[x] = d
    <3>1. PICK x \in waiters : Parent[x] = d
      BY <1>1, <2>2 DEF WaitersRequested
    <3> QED
      BY <1>1, <2>2, <3>1
  <2> QED
    BY <1>1, <2>1, <2>2 DEF WaitersRequested
<1> QED
  BY <1>4, <1>5, <1>6

LEMMA DeliverInv ==
  ASSUME Inv, Deliver
  PROVE  Inv'
<1> USE DEF Inv
<1>1. /\ delivering # <<>> /\ Len(loopback) < Capacity
      /\ loopback' = loopback \o delivering /\ delivering' = <<>>
      /\ UNCHANGED <<stored, suspending, innerChannel, pending, requests, waiters,
                     asked, inFlight, copies>>
  BY DEF Deliver, coreVars, netVars
<1>2. /\ loopback' \in Seq(BlockId) /\ Len(loopback') = Len(loopback) + 1
      /\ Range(loopback') = Range(loopback) \cup Range(delivering)
      /\ Range(delivering') = {}
  BY <1>1, HandedOver, RangeOfNone DEF TypeOK
<1>3. TypeOK'
  <2>1. Len(loopback') <= Capacity
    BY <1>1, <1>2, BlockSyncAssumption DEF TypeOK
  <2>2. delivering' \in Seq(BlockId) /\ Len(delivering') <= 1
    BY <1>1
  <2> QED
    BY <1>1, <1>2, <2>1, <2>2 DEF TypeOK
<1>4. ParentsAreBlocks' /\ WaitersRequested' /\ AllAccounted'
  BY <1>1, <1>2 DEF ParentsAreBlocks, WaitersRequested, AllAccounted, UnderWay
<1> QED
  BY <1>3, <1>4
-----------------------------------------------------------------------------
(* The network: only the messages under way change.                          *)

LEMMA NetworkInv ==
  ASSUME Inv,
         UNCHANGED <<stored, suspending, innerChannel, pending, requests, waiters,
                     delivering, loopback, copies>>,
         asked' \subseteq Peer \X BlockId, inFlight' \subseteq BlockId
  PROVE  Inv'
BY DEF Inv, TypeOK, ParentsAreBlocks, WaitersRequested, AllAccounted, UnderWay

LEMMA InitInv == Init => Inv
<1> SUFFICES ASSUME Init PROVE Inv
  OBVIOUS
<1>1. TypeOK
  <2>1. copies \in [BlockId -> 0 .. MaxCopies]
    BY BlockSyncAssumption DEF Init
  <2>2. <<>> \in Seq(BlockId) /\ Len(<<>>) <= 1 /\ Len(<<>>) <= Capacity
    BY BlockSyncAssumption
  <2> QED
    BY <2>1, <2>2, BlockSyncAssumption DEF Init, TypeOK
<1>2. ParentsAreBlocks /\ WaitersRequested
  BY RangeOfNone DEF Init, ParentsAreBlocks, WaitersRequested
<1>3. AllAccounted
  BY DEF Init, AllAccounted
<1> QED
  BY <1>1, <1>2, <1>3 DEF Inv

LEMMA NextInv == Inv /\ [Next]_vars => Inv'
<1> SUFFICES ASSUME Inv, [Next]_vars PROVE Inv'
  OBVIOUS
<1>1. CASE Retry
  BY <1>1, NetworkInv DEF Retry, Inv, TypeOK, coreVars, syncVars
<1>2. ASSUME NEW p \in Peer, NEW b \in BlockId, HelperAnswer(p, b)
      PROVE  Inv'
  BY <1>2, NetworkInv DEF HelperAnswer, Inv, TypeOK, coreVars, syncVars
<1>3. ASSUME NEW m \in asked, LoseRequest(m)
      PROVE  Inv'
  BY <1>3, NetworkInv DEF LoseRequest, Inv, TypeOK, coreVars, syncVars
<1>4. CASE UNCHANGED vars
  BY <1>4, NetworkInv DEF vars, Inv, TypeOK, coreVars, syncVars, netVars
<1> QED
  BY <1>1, <1>2, <1>3, <1>4, ReceiveBlockInv, ReceiveLoopbackInv, SuspendInv,
     TakeSuspendedInv, TakeWaitingInv, DeliverInv DEF Next

LEMMA InvAlways == Spec => []Inv
BY InitInv, NextInv, PTL DEF Spec
-----------------------------------------------------------------------------
\* Every variable keeps its type and neither channel between core and synchronizer
\* holds more than its capacity (consensus.go, make(chan ..., CHANNEL_CAPACITY)).
THEOREM TypeCorrect == Spec => []TypeOK
<1>1. Inv => TypeOK
  BY DEF Inv
<1> QED
  BY <1>1, InvAlways, PTL

\* The synchronizer's two maps agree: every suspended block has its waiter and its
\* parent asked for until it is stored, and no request outlives the blocks that need it
\* (the loop of NewSynchronizer).
THEOREM RequestsMatchWaiters == Spec => []WaitersRequested
<1>1. Inv => WaitersRequested
  BY DEF Inv
<1> QED
  BY <1>1, InvAlways, PTL

\* A block that reached the core is stored, waits, or is under way between core and
\* synchronizer, whichever of the two waits for the other's channel (getParentBlock,
\* blockWaiter).
THEOREM NoneForgotten == Spec => []NoBlockForgotten
BY InvNoneForgotten, InvAlways, PTL
=============================================================================
