------------------------------- MODULE BlockSync -------------------------------
(***************************************************************************)
(* How a replica that missed blocks gets them: the core suspends a block whose *)
(* parent is not stored (consensus/synchronizer.go), the synchronizer asks for *)
(* the parent, the helpers of the others answer (consensus/helper.go), and the  *)
(* block comes back on the loopback channel once the parent is stored.  Both    *)
(* channels between core and synchronizer have a capacity, and each of the two  *)
(* blocks on the full channel of the other.  Senders are SimpleSenders: any     *)
(* request or answer may be lost.  Rounds, votes and commits are in HotStuff.   *)
(***************************************************************************)
EXTENDS Integers, FiniteSets, SequencesExt

CONSTANTS
  Parent,      \* the parent of each block; 0 is the genesis block
  Announced,   \* blocks whose proposal is on its way to this replica
  Peer,        \* the other replicas
  Author,      \* who made each block
  Holds,       \* the blocks each peer has stored
  Correct,     \* a peer that keeps running (liveness only)
  Capacity,    \* CHANNEL_CAPACITY
  MaxCopies    \* bound: how often the core receives each block

BlockId == DOMAIN Parent

ASSUME BlockSyncAssumption ==
  /\ Parent \in Seq(Nat) /\ \A b \in BlockId : Parent[b] < b
  /\ Announced \subseteq BlockId
  /\ Author \in [BlockId -> Peer] /\ Holds \in [Peer -> SUBSET BlockId]
  /\ Correct \in Peer /\ Holds[Correct] = BlockId
  /\ Capacity \in Nat \ {0} /\ MaxCopies \in Nat

VARIABLES
  stored,      \* the blocks in the store
  suspending,  \* the block the core is putting on innerChannel, or none
  innerChannel,
  pending, requests,   \* as in the synchronizer
  waiters,     \* blocks whose blockWaiter runs
  delivering,  \* the block the synchronizer is putting on txLoopback, or none
  loopback,    \* the loopback channel
  asked,       \* requests on the network: peer and block
  inFlight,    \* proposals on the network
  copies       \* how often the core received each block

coreVars == <<stored, suspending>>
syncVars == <<pending, requests, waiters, delivering>>
netVars == <<asked, inFlight, copies>>
vars == <<coreVars, innerChannel, syncVars, loopback, netVars>>
-----------------------------------------------------------------------------
(* The core.                                                                 *)

HasParent(b) == Parent[b] = 0 \/ Parent[b] \in stored

\* processBlock: store the block, or suspend it in getParentBlock.
ProcessBlock(b) ==
  /\ suspending = <<>>
  /\ \/ HasParent(b) /\ stored' = stored \cup {b} /\ UNCHANGED suspending
     \/ ~HasParent(b) /\ suspending' = <<b>> /\ UNCHANGED stored

ReceiveBlock(b) ==
  /\ b \in inFlight /\ copies[b] < MaxCopies
  /\ ProcessBlock(b)
  /\ inFlight' = inFlight \ {b}
  /\ copies' = [copies EXCEPT ![b] = @ + 1]
  /\ UNCHANGED <<innerChannel, syncVars, loopback, asked>>

ReceiveLoopback ==
  /\ loopback # <<>>
  /\ ProcessBlock(Head(loopback))
  /\ loopback' = Tail(loopback)
  /\ UNCHANGED <<innerChannel, syncVars, netVars>>

\* s.innerChannel <- *block
Suspend ==
  /\ suspending # <<>>
  /\ Len(innerChannel) < Capacity
  /\ innerChannel' = innerChannel \o suspending
  /\ suspending' = <<>>
  /\ UNCHANGED <<stored, syncVars, loopback, netVars>>
-----------------------------------------------------------------------------
(* The synchronizer: a select with three cases.                               *)

\* Mutant: a block whose parent is already asked for is left out.
TakeSuspendedOnePerRequest ==
  /\ delivering = <<>> /\ innerChannel # <<>>
  /\ innerChannel' = Tail(innerChannel)
  /\ LET b == Head(innerChannel)
     IN  \/ /\ b \in pending \/ Parent[b] \in requests
            /\ UNCHANGED <<pending, requests, waiters, asked>>
         \/ /\ b \notin pending /\ Parent[b] \notin requests
            /\ pending' = pending \cup {b}
            /\ waiters' = waiters \cup {b}
            /\ requests' = requests \cup {Parent[b]}
            /\ asked' = asked \cup {<<Author[b], Parent[b]>>}
  /\ UNCHANGED <<coreVars, delivering, loopback, inFlight, copies>>

\* Mutant: the request is sent and not remembered.
TakeSuspendedForgets ==
  /\ delivering = <<>> /\ innerChannel # <<>>
  /\ innerChannel' = Tail(innerChannel)
  /\ LET b == Head(innerChannel)
     IN  \/ b \in pending /\ UNCHANGED <<pending, waiters, asked>>
         \/ /\ b \notin pending
            /\ pending' = pending \cup {b}
            /\ waiters' = waiters \cup {b}
            /\ asked' = asked \cup {<<Author[b], Parent[b]>>}
  /\ UNCHANGED <<coreVars, requests, delivering, loopback, inFlight, copies>>

TakeSuspended ==
  /\ delivering = <<>> /\ innerChannel # <<>>
  /\ innerChannel' = Tail(innerChannel)
  /\ LET b == Head(innerChannel)
     IN  \/ b \in pending /\ UNCHANGED <<pending, requests, waiters, asked>>
         \/ /\ b \notin pending
            /\ pending' = pending \cup {b}
            /\ waiters' = waiters \cup {b}
            /\ requests' = requests \cup {Parent[b]}
            /\ asked' = IF Parent[b] \in requests THEN asked
                        ELSE asked \cup {<<Author[b], Parent[b]>>}
  /\ UNCHANGED <<coreVars, delivering, loopback, inFlight, copies>>

\* A blockWaiter has read the parent and delivers its block.
TakeWaiting(b) ==
  /\ delivering = <<>>
  /\ b \in waiters /\ Parent[b] \in stored
  /\ waiters' = waiters \ {b}
  /\ pending' = pending \ {b}
  /\ requests' = requests \ {Parent[b]}
  /\ delivering' = <<b>>
  /\ UNCHANGED <<coreVars, innerChannel, loopback, netVars>>

\* txLoopback <- block
Deliver ==
  /\ delivering # <<>>
  /\ Len(loopback) < Capacity
  /\ loopback' = loopback \o delivering
  /\ delivering' = <<>>
  /\ UNCHANGED <<coreVars, innerChannel, pending, requests, waiters, netVars>>

\* Mutant: nothing is asked for a second time.
RetryNever == UNCHANGED vars

\* The timer: the requests go to everyone.  Those that are too young for it are among
\* those that are lost.
Retry ==
  /\ delivering = <<>>
  /\ requests # {}
  /\ asked' = asked \cup (Peer \X requests)
  /\ UNCHANGED <<coreVars, innerChannel, syncVars, loopback, inFlight, copies>>
-----------------------------------------------------------------------------
(* The others and the network.                                               *)

\* The helper sends the block if it is stored there.
HelperAnswer(p, b) ==
  /\ <<p, b>> \in asked
  /\ asked' = asked \ {<<p, b>>}
  /\ inFlight' = IF b \in Holds[p] THEN inFlight \cup {b} ELSE inFlight
  /\ UNCHANGED <<coreVars, innerChannel, syncVars, loopback, copies>>

\* A request is lost, or the answer to it.
LoseRequest(m) ==
  /\ m \in asked
  /\ asked' = asked \ {m}
  /\ UNCHANGED <<coreVars, innerChannel, syncVars, loopback, inFlight, copies>>
-----------------------------------------------------------------------------
Init ==
  /\ stored = {} /\ suspending = <<>>
  /\ innerChannel = <<>> /\ loopback = <<>>
  /\ pending = {} /\ requests = {} /\ waiters = {} /\ delivering = <<>>
  /\ asked = {} /\ inFlight = Announced
  /\ copies = [b \in BlockId |-> 0]

Next ==
  \/ \E b \in BlockId : ReceiveBlock(b) \/ TakeWaiting(b)
  \/ ReceiveLoopback \/ Suspend
  \/ TakeSuspended \/ Deliver \/ Retry
  \/ \E p \in Peer, b \in BlockId : HelperAnswer(p, b)
  \/ \E m \in asked : LoseRequest(m)

Spec == Init /\ [][Next]_vars

\* A select takes each of its cases in the end, the timer fires, and of what is sent
\* again and again to or by the correct peer something arrives.
FairSpec ==
  /\ Spec
  /\ WF_vars(Suspend) /\ WF_vars(Deliver)
  /\ SF_vars(ReceiveLoopback) /\ SF_vars(\E b \in BlockId : ReceiveBlock(b))
  /\ SF_vars(TakeSuspended) /\ SF_vars(\E b \in BlockId : TakeWaiting(b)) /\ SF_vars(Retry)
  /\ \A b \in Range(Parent) \ {0} : SF_vars(HelperAnswer(Correct, b))
-----------------------------------------------------------------------------
TypeOK ==
  /\ stored \subseteq BlockId /\ pending \subseteq BlockId /\ waiters \subseteq BlockId
  /\ requests \subseteq BlockId
  /\ suspending \in Seq(BlockId) /\ Len(suspending) <= 1
  /\ delivering \in Seq(BlockId) /\ Len(delivering) <= 1
  /\ innerChannel \in Seq(BlockId) /\ Len(innerChannel) <= Capacity
  /\ loopback \in Seq(BlockId) /\ Len(loopback) <= Capacity
  /\ asked \subseteq Peer \X BlockId /\ inFlight \subseteq BlockId
  /\ copies \in [BlockId -> 0 .. MaxCopies]

\* A block that waits has its own waiter, and its parent is asked for again and again
\* until it is stored, but nothing is that no block waits for: siblings share one
\* request and the first of them ends it (NewSynchronizer).
WaitersRequested ==
  /\ pending = waiters
  /\ \A b \in waiters : Parent[b] \in requests \cup stored
  /\ \A d \in requests : \E b \in waiters : Parent[b] = d

\* No block that reached the core is forgotten on the way through the two channels.
NoBlockForgotten ==
  \A b \in BlockId : copies[b] > 0 =>
    b \in stored \cup waiters
          \cup Range(suspending \o innerChannel \o delivering \o loopback)

\* A block that reached the core is stored in the end, with all its ancestors, whatever
\* its author does and whichever requests and answers are lost, as long as the suspended
\* blocks do not fill innerChannel and loopback at once: then Suspend waits for
\* TakeSuspended, which waits for Deliver, which waits for ReceiveLoopback, which waits
\* for Suspend, for ever.
CatchesUp == \A b \in BlockId : copies[b] > 0 ~> b \in stored
=============================================================================
