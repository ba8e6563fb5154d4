---------------------------- MODULE HotStuffFaults ----------------------------
(***************************************************************************)
(* The consensus core of HotStuff under the faults its code meets: a process *)
(* that is killed and started again on the database it left behind           *)
(* (node/node.go, consensus/core.go, store/store.go), with what was still    *)
(* in the channel of its store and in the queues of its senders gone, and    *)
(* votes, timeouts and TCs that a SimpleSender loses with the connection     *)
(* they are queued for (network/simplesender.go).                            *)
(***************************************************************************)
EXTENDS HotStuff

CONSTANTS
  MayRestart,    \* the replicas that may be killed
  MayMiss,       \* the replicas a message may fail to reach
  MaxFaults      \* bound: how many restarts and lost messages there are

ASSUME FaultsAssumption ==
  /\ MayRestart \subseteq Node
  /\ MayMiss \subseteq Node
  /\ MaxFaults \in Nat

VARIABLES
  images,     \* images[n]: the databases that a kill of n may leave behind
  queued,     \* queued[n]: what n has sent since it started, and to whom
  restarted,  \* the replicas that were started again
  lost,       \* messages that did not reach a receiver, and that receiver
  faults      \* how many restarts and lost messages there were

faultVars == <<vars, images, queued, restarted, lost, faults>>
-----------------------------------------------------------------------------
(* The database.  Writes and reads are commands on the channel of the store   *)
(* (capacity 100, not reached within the bounds), served in order, a write     *)
(* synced; so a kill leaves the state of some earlier moment.  Where a read    *)
(* waits for its answer, everything before it has been served.                 *)

Database(s) == [store |-> s.store, batches |-> s.batches]

\* Mutant: every write has a goroutine of its own, and may pass earlier ones.
LeavesInAnyOrder(n, unserved) ==
  LET added == core'[n].store \ core[n].store
  IN  images' = [images EXCEPT ![n] = unserved \cup {Database(core'[n])}
                   \cup {[d EXCEPT !.store = @ \cup added] : d \in unserved}]

\* The write of a step, if it has one, goes behind those that were not served.
Leaves(n, unserved) ==
  images' = [images EXCEPT ![n] = unserved \cup {Database(core'[n])}]

\* What is not served after the reads of a step, if it has any.
Unserved(n, reads) == IF reads THEN {Database(core[n])} ELSE images[n]

\* processBlock reads the parent before it writes the block, and commit reads after
\* it; a block with the genesis QC is processed without any read.
CommitReads(s, b) ==
  /\ HasParent(s, b)
  /\ IsTwoChain(s, b)
  /\ s.lastCommittedRound + 1 < TwoChainHead(s, b).round
  /\ TwoChainHead(s, b).qc # GenesisQC

UnservedAfterBlock(n, b, reads) ==
  IF CommitReads(core[n], b) THEN {} ELSE Unserved(n, reads)
-----------------------------------------------------------------------------
(* Messages.                                                                 *)

\* What a connection has taken and not lost is read by the receiver.
Arriving(msgs, n) == {m \in msgs : <<m, n>> \notin lost}

\* A proposal goes by a ReliableSender and arrives, unless its sender is killed with
\* it; then another replica that stored it may still answer the request for it by
\* a replica that waits for it (synchronizer.go, helper.go).
ProposalReaches(n, b) ==
  \/ <<b, n>> \notin lost
  \/ /\ \E m \in Node \ {n} : b \in core[m].store
     /\ \E c \in core[n].suspended : c.qc.hash = BlockDigest(b)

\* The blocks that a step of n broadcasts, as far as the bounds let them be received.
ProposalsSent(n) ==
  {x \in (proposals' \ proposals) \X (Node \ {n}) : x[1].round \in ReachRounds[x[2]]}

\* What a kill of n may take with it of the messages sent.
LostWithKill(n, sent) ==
  IF n \in MayRestart THEN {x \in sent : x[2] \in MayMiss} ELSE {}

\* SimpleSender.Send and Broadcast of what is in sent: when a connection breaks,
\* nobody sends again what it had taken.
Transmit(n, sent) ==
  \E dropped \in SUBSET {x \in sent : x[2] \in MayMiss} :
    /\ faults + Cardinality(dropped) <= MaxFaults
    /\ lost' = (lost \ sent) \cup dropped
    /\ faults' = faults + Cardinality(dropped)
    /\ queued' = [queued EXCEPT ![n] =
                    @ \cup LostWithKill(n, sent \cup ProposalsSent(n))]

\* The vote and the TC that a step of n sends.  (One that equals an earlier message
\* counts as that message, so more may be lost here than in the code.)
VotesAndTCsSent(n) ==
  {<<m, m.to>> : m \in {v \in voteMsgs' \ voteMsgs : v.to # n}}
    \cup ((tcMsgs' \ tcMsgs) \X (Node \ {n}))
-----------------------------------------------------------------------------
(* The steps of a replica, with what they leave in its store's channel.       *)

\* The timer fires for as long as the round lasts, and the timeout of the round
\* is broadcast each time.
TimerFires(n) ==
  LET t == [highQC |-> core[n].highQC, round |-> core[n].round, author |-> n]
  IN  /\ LocalTimeout(n)
      /\ Leaves(n, images[n])
      /\ Transmit(n, ({t} \X (Node \ {n})) \cup VotesAndTCsSent(n))

\* handleProposal: verify reads every batch of the payload.
HandlesProposal(n, b) ==
  /\ ProposalReaches(n, b)
  /\ ReceiveProposal(n, b)
  /\ Leaves(n, UnservedAfterBlock(n, b, b.payload # {} \/ b.qc # GenesisQC))

HandlesLoopback(n, b) ==
  /\ ReceiveLoopback(n, b)
  /\ Leaves(n, UnservedAfterBlock(n, b, b.qc # GenesisQC))

\* The goroutines that wait for a key are answered when it has been written.
Resumes(n, b) ==
  /\ ResumeBlock(n, b)
  /\ Leaves(n, {d \in images[n] : HasParent(d, b)})

Delivers(n, w) ==
  /\ DeliverPayload(n, w)
  /\ Leaves(n, {d \in images[n] : w.missing \subseteq d.batches})

\* The cases that read nothing; StoreBatch writes.
HandlesOther(n) ==
  /\ \/ \E m \in Arriving(voteMsgs, n) : ReceiveVote(n, m)
     \/ \E t \in Arriving(timeoutMsgs, n) : ReceiveTimeout(n, t)
     \/ \E tc \in Arriving(tcMsgs, n) : ReceiveTC(n, tc)
     \/ Propose(n)
     \/ \E d \in Batch : StoreBatch(n, d)
  /\ Leaves(n, images[n])

Handles(n) ==
  /\ \/ \E b \in proposals : HandlesProposal(n, b)
     \/ \E b \in core[n].loopback : HandlesLoopback(n, b)
     \/ \E b \in core[n].suspended : Resumes(n, b)
     \/ \E w \in core[n].pending \cup core[n].cancelled : Delivers(n, w)
     \/ HandlesOther(n)
  /\ Transmit(n, VotesAndTCsSent(n))

FaultyStep(n) ==
  /\ TimerFires(n) \/ Handles(n)
  /\ UNCHANGED restarted
-----------------------------------------------------------------------------
(* Restarts.                                                                 *)

\* The process is killed, and NewNode starts on the database that is left: Core, the
\* aggregator and every goroutine start again, and so does the channel of committed
\* blocks.
Restart(n) ==
  /\ n \in MayRestart
  /\ faults < MaxFaults
  /\ faults' = faults + 1
  /\ restarted' = restarted \cup {n}
  /\ \E d \in images[n] :
       /\ core' = [core EXCEPT ![n] = [InitialState(n) EXCEPT
                     !.store = d.store, !.batches = d.batches]]
       /\ images' = [images EXCEPT ![n] = {d}]
  /\ \E receivers \in SUBSET MayMiss : lost' = lost \cup {x \in queued[n] : x[2] \in receivers}
  /\ queued' = [queued EXCEPT ![n] = {}]
  /\ committed' = [committed EXCEPT ![n] = <<>>]
  /\ UNCHANGED <<proposals, voteMsgs, timeoutMsgs, tcMsgs>>
-----------------------------------------------------------------------------
FaultInit ==
  /\ Init
  /\ images = [n \in Node |-> {[store |-> {}, batches |-> {}]}]
  /\ queued = [n \in Node |-> {}]
  /\ restarted = {}
  /\ lost = {}
  /\ faults = 0

FaultNext == \E n \in Node : FaultyStep(n) \/ Restart(n)

FaultSpec == FaultInit /\ [][FaultNext]_faultVars

\* The correct replicas run, their timers fire, and what is not lost reaches them.  (A
\* step that changes neither the replica nor what is lost need not be taken.)
FairFaultSpec == FaultSpec /\ \A n \in Correct : WF_<<core[n], lost>>(FaultyStep(n))
-----------------------------------------------------------------------------
(* Properties.                                                               *)

\* Whatever a kill leaves of what was written, a block is in the database only
\* with its parent and with its payload: a replica that starts again never meets
\* a gap that getAncestors takes for impossible, and can serve what it voted for.
SurvivorsClosed ==
  \A n \in Node : \A d \in images[n] : \A b \in d.store :
    HasParent(d, b) /\ b.payload \subseteq d.batches

\* What a replica that was never killed has committed, every other such replica
\* that has committed a block of that round or a later one has committed too.
\* (Blocks are compared by their digest, which is what a chain names.)
CommitsAgree ==
  \A n, m \in Node \ restarted : \A b \in Range(committed[n]) :
    b.round \in 1 .. core[m].lastCommittedRound
      => \E c \in Range(committed[m]) : BlockDigest(c) = BlockDigest(b)
=============================================================================
