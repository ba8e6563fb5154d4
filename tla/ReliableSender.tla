---------------------------- MODULE ReliableSender ----------------------------
(***************************************************************************)
(* One connection of network/reliablesender.go, the streams it opens to its  *)
(* peer and the handler that acknowledges each message at the other end      *)
(* (network/receiver.go).  An ack carries no identity: it answers the oldest *)
(* message written to the stream and not yet answered.                       *)
(***************************************************************************)
EXTENDS Naturals, SequencesExt

CONSTANTS
  Msg,         \* the messages, each one passed to Send at most once
  MaxStreams   \* bound: streams opened; the last one does not break

ASSUME MaxStreamsAssumption == MaxStreams \in Nat \ {0}

VARIABLES
  sent,            \* the messages passed to Send, in order
  offered,         \* the one that Send has not handed over yet, or none
  cancelled,       \* messages whose context was cancelled
  phase,           \* where run is: not spawned, in dhtConnect, in the retry delay,
                   \* in keepAlive
  buffer,          \* messages to write
  pendingReplies,  \* messages written and not answered
  streams,         \* the streams opened; the last one is the current one
  received,        \* messages dispatched by the peer
  answered         \* messages whose response channel has the ack

vars == <<sent, offered, cancelled, phase, buffer, pendingReplies, streams,
          received, answered>>

\* What a stream carries to the peer, the acks it carries back and whether it
\* still works.
Stream == [data : Seq(Msg), acks : Nat, broken : BOOLEAN]

Current == Len(streams)
-----------------------------------------------------------------------------
(* The callers.                                                              *)

\* Send: the first call spawns the connection.  Its channel has no buffer, so the
\* call ends when the connection takes the message.
Send(m) ==
  /\ offered = <<>>
  /\ m \notin Range(sent)
  /\ sent' = Append(sent, m)
  /\ offered' = <<m>>
  /\ phase' = IF phase = "none" THEN "dialing" ELSE phase
  /\ UNCHANGED <<cancelled, buffer, pendingReplies, streams, received, answered>>

\* A caller that has its quorum no longer wants the message delivered.
Cancel(m) ==
  /\ m \in Range(sent) \ Range(offered)
  /\ cancelled' = cancelled \cup {m}
  /\ UNCHANGED <<sent, offered, phase, buffer, pendingReplies, streams, received, answered>>
-----------------------------------------------------------------------------
(* reliableConnection.run: connect, wait and try again.                      *)

Connect ==
  /\ phase = "dialing"
  /\ Current < MaxStreams
  /\ phase' = "connected"
  /\ streams' = Append(streams, [data |-> <<>>, acks |-> 0, broken |-> FALSE])
  /\ UNCHANGED <<sent, offered, cancelled, buffer, pendingReplies, received, answered>>

ConnectFails ==
  /\ phase = "dialing"
  /\ phase' = "waiting"
  /\ UNCHANGED <<sent, offered, cancelled, buffer, pendingReplies, streams, received, answered>>

RetryDelay ==
  /\ phase = "waiting"
  /\ phase' = "dialing"
  /\ UNCHANGED <<sent, offered, cancelled, buffer, pendingReplies, streams, received, answered>>

\* Both selects receive from the callers; the one of keepAlive is reached when
\* all of the buffer is written.
TakeMessage ==
  /\ offered # <<>>
  /\ phase = "waiting" \/ (phase = "connected" /\ buffer = <<>>)
  /\ buffer' = buffer \o offered
  /\ offered' = <<>>
  /\ UNCHANGED <<sent, cancelled, phase, pendingReplies, streams, received, answered>>
-----------------------------------------------------------------------------
(* reliableConnection.keepAlive.                                             *)

\* Mutant: the messages without an answer go back newest first.
LeaveStreamReversed ==
  /\ phase' = "dialing"
  /\ buffer' = Reverse(pendingReplies) \o buffer
  /\ pendingReplies' = <<>>
  /\ UNCHANGED <<sent, offered, cancelled, streams, received, answered>>

\* Mutant: they are dropped.
LeaveStreamForgets ==
  /\ phase' = "dialing"
  /\ pendingReplies' = <<>>
  /\ UNCHANGED <<sent, offered, cancelled, buffer, streams, received, answered>>

\* The end of keepAlive: what has no answer is written again, first.
LeaveStream ==
  /\ phase' = "dialing"
  /\ buffer' = pendingReplies \o buffer
  /\ pendingReplies' = <<>>
  /\ UNCHANGED <<sent, offered, cancelled, streams, received, answered>>

\* Mutant: a message skipped is expected to be answered.
SkipCancelledPending ==
  /\ phase = "connected"
  /\ buffer # <<>>
  /\ Head(buffer) \in cancelled
  /\ buffer' = Tail(buffer)
  /\ pendingReplies' = Append(pendingReplies, Head(buffer))
  /\ UNCHANGED <<sent, offered, cancelled, phase, streams, received, answered>>

SkipCancelled ==
  /\ phase = "connected"
  /\ buffer # <<>>
  /\ Head(buffer) \in cancelled
  /\ buffer' = Tail(buffer)
  /\ UNCHANGED <<sent, offered, cancelled, phase, pendingReplies, streams, received, answered>>

\* A write to a stream that broke may still seem to succeed.
Write ==
  /\ phase = "connected"
  /\ buffer # <<>>
  /\ Head(buffer) \notin cancelled
  /\ buffer' = Tail(buffer)
  /\ pendingReplies' = Append(pendingReplies, Head(buffer))
  /\ streams' = IF streams[Current].broken THEN streams
                ELSE [streams EXCEPT ![Current].data = Append(@, Head(buffer))]
  /\ UNCHANGED <<sent, offered, cancelled, phase, received, answered>>

WriteFails ==
  /\ phase = "connected"
  /\ buffer # <<>>
  /\ Head(buffer) \notin cancelled
  /\ streams[Current].broken
  /\ LeaveStream

\* Mutant: the message answered stays pending.
ReadAckStays ==
  /\ phase = "connected"
  /\ buffer = <<>>
  /\ streams[Current].acks > 0
  /\ pendingReplies # <<>>
  /\ answered' = answered \cup {Head(pendingReplies)}
  /\ streams' = [streams EXCEPT ![Current].acks = @ - 1]
  /\ UNCHANGED <<sent, offered, cancelled, phase, buffer, pendingReplies, received>>

\* An ack when nothing is pending ends the stream (and never comes, see
\* AcksMatchPending).
ReadAck ==
  /\ phase = "connected"
  /\ buffer = <<>>
  /\ streams[Current].acks > 0
  /\ IF pendingReplies = <<>> THEN LeaveStream
     ELSE /\ answered' = answered \cup {Head(pendingReplies)}
          /\ pendingReplies' = Tail(pendingReplies)
          /\ streams' = [streams EXCEPT ![Current].acks = @ - 1]
          /\ UNCHANGED <<sent, offered, cancelled, phase, buffer, received>>

\* The reader found the stream broken: acks under way may be lost with it.
ReadFails ==
  /\ phase = "connected"
  /\ buffer = <<>>
  /\ streams[Current].broken
  /\ LeaveStream
-----------------------------------------------------------------------------
(* The network and the peer.                                                 *)

\* What was written before may still reach the peer, acks no longer come back.
Break ==
  /\ phase = "connected"
  /\ Current < MaxStreams
  /\ streams' = [streams EXCEPT ![Current].broken = TRUE]
  /\ UNCHANGED <<sent, offered, cancelled, phase, buffer, pendingReplies, received, answered>>

\* spawnRunner: one goroutine for each stream, a stream left behind included,
\* so the peer may see a message twice and messages out of order.
Dispatch(i) ==
  /\ streams[i].data # <<>>
  /\ received' = received \cup {Head(streams[i].data)}
  /\ streams' = [streams EXCEPT ![i].data = Tail(@),
                                ![i].acks = IF streams[i].broken THEN @ ELSE @ + 1]
  /\ UNCHANGED <<sent, offered, cancelled, phase, buffer, pendingReplies, answered>>
-----------------------------------------------------------------------------
Init ==
  /\ sent = <<>> /\ offered = <<>> /\ cancelled = {}
  /\ phase = "none" /\ buffer = <<>> /\ pendingReplies = <<>>
  /\ streams = <<>> /\ received = {} /\ answered = {}

Next ==
  \/ \E m \in Msg : Send(m) \/ Cancel(m)
  \/ Connect \/ ConnectFails \/ RetryDelay
  \/ TakeMessage
  \/ SkipCancelled \/ Write \/ WriteFails \/ ReadAck \/ ReadFails
  \/ Break
  \/ \E i \in 1 .. Current : Dispatch(i)

Spec == Init /\ [][Next]_vars

\* Every goroutine keeps running, a peer that is asked often enough can be
\* reached, and what is written to a stream that works arrives.
Fairness ==
  /\ WF_vars(RetryDelay) /\ SF_vars(Connect)
  /\ SF_vars(TakeMessage)
  /\ WF_vars(SkipCancelled) /\ WF_vars(Write)
  /\ WF_vars(ReadAck) /\ WF_vars(ReadFails)
  /\ \A i \in 1 .. MaxStreams :
        WF_vars(i \in 1 .. Current /\ ~streams[i].broken /\ Dispatch(i))
-----------------------------------------------------------------------------
TypeOK ==
  /\ sent \in Seq(Msg) /\ offered \in Seq(Msg) /\ Len(offered) <= 1
  /\ cancelled \subseteq Msg /\ received \subseteq Msg /\ answered \subseteq Msg
  /\ phase \in {"none", "dialing", "waiting", "connected"}
  /\ buffer \in Seq(Msg) /\ pendingReplies \in Seq(Msg)
  /\ streams \in Seq(Stream)

\* The promise of the module: refinement of ReliableDelivery.
Delivery == INSTANCE ReliableDelivery WITH requested <- Range(sent)
KeepsPromise == Delivery!Spec

\* On a stream that works, the acks under way and the messages under way are
\* those of the pending messages, oldest first; so no ack is unexpected and none
\* answers a message that the peer has not taken (keepAlive).
AcksMatchPending ==
  phase = "connected" =>
    LET s == streams[Current]
        n == Len(pendingReplies)
    IN  /\ s.acks <= n
        /\ \A i \in 1 .. s.acks : pendingReplies[i] \in received
        /\ ~s.broken => s.data = SubSeq(pendingReplies, s.acks + 1, n)

\* The messages that the sender holds.
Kept == pendingReplies \o buffer \o offered

\* No message is lost or repeated by the sender through any number of broken
\* streams: what was handed over and is neither answered nor cancelled is kept,
\* once, in the order of the calls to Send.
KeptInOrder ==
  /\ \A i, j \in DOMAIN Kept, p, q \in DOMAIN sent :
        i < j /\ Kept[i] = sent[p] /\ Kept[j] = sent[q] => p < q
  /\ Range(sent) = Range(Kept) \cup answered \cup cancelled
  /\ Range(Kept) \cap answered = {}

\* Every message is answered in the end, unless its caller gives it up.
EventuallyAnswered ==
  \A m \in Msg : m \in Range(sent) ~> m \in answered \cup cancelled
=============================================================================
