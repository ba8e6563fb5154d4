----------------------------- MODULE SimpleSender -----------------------------
(***************************************************************************)
(* network/simplesender.go towards one peer: the calls of Send, the           *)
(* connections it spawns one after the other and their goroutines.  Messages *)
(* are numbered in the order of the calls.                                   *)
(***************************************************************************)
EXTENDS Naturals, Sequences

CONSTANTS
  Capacity,  \* of the channel of a connection (1000)
  MaxCalls   \* bound: calls of Send

VARIABLES
  calls,        \* how many messages were passed to Send
  sending,      \* the call that waits in a select, or none
  connections,  \* all the connections spawned
  held,         \* the one in the map of the sender, 0 if there is none
  refused,      \* messages for which Send returned an error
  written       \* messages written to a stream that worked

vars == <<calls, sending, connections, held, refused, written>>

\* A connection: where its goroutine is (on a stream that works, in a write that does not
\* return, on a stream that broke) and its two channels.
Connection ==
  [phase : {"dialing", "open", "stalled", "broken", "ended"}, receiver : Seq(1 .. MaxCalls),
   errCh : BOOLEAN]

NewConnection == [phase |-> "dialing", receiver |-> <<>>, errCh |-> FALSE]

NoCall == [message |-> 0, to |-> 0, spawned |-> FALSE]
-----------------------------------------------------------------------------
(* Send.  Each of its two selects takes a case that is ready, either one if   *)
(* both are, and waits if none is.                                           *)

\* The call for message m goes on with a connection of its own.
Spawn(m) ==
  sending' = [message |-> m, to |-> Len(connections) + 1, spawned |-> TRUE]

Send ==
  /\ sending = NoCall
  /\ calls < MaxCalls
  /\ calls' = calls + 1
  /\ \/ /\ held # 0
        /\ sending' = [message |-> calls + 1, to |-> held, spawned |-> FALSE]
        /\ UNCHANGED connections
     \/ /\ held = 0
        /\ Spawn(calls + 1)
        /\ connections' = Append(connections, NewConnection)
  /\ UNCHANGED <<held, refused, written>>

\* case conn.receiver <- data
PutInChannel ==
  /\ sending # NoCall
  /\ Len(connections[sending.to].receiver) < Capacity
  /\ connections' = [connections EXCEPT ![sending.to].receiver = Append(@, sending.message)]
  /\ held' = sending.to
  /\ sending' = NoCall
  /\ UNCHANGED <<calls, refused, written>>

\* case <-conn.errCh: the connection held is given up for a new one; a new one
\* that fails at once is not stored, and the one given up stays in the map.
ReadError ==
  /\ sending # NoCall
  /\ connections[sending.to].errCh
  /\ LET drained == [connections EXCEPT ![sending.to].errCh = FALSE]
     IN  \/ /\ ~sending.spawned
            /\ Spawn(sending.message)
            /\ connections' = Append(drained, NewConnection)
            /\ UNCHANGED refused
         \/ /\ sending.spawned
            /\ sending' = NoCall
            /\ refused' = refused \cup {sending.message}
            /\ connections' = drained
  /\ UNCHANGED <<calls, held, written>>
-----------------------------------------------------------------------------
(* connection.run.                                                           *)

\* Mutant: run ends and tells nobody.
EndedSilently(c) == [c EXCEPT !.phase = "ended"]

\* run reports its error and ends; what its channel holds is never read.
Ended(c) == [c EXCEPT !.phase = "ended", !.errCh = TRUE]

\* FindPeer, Connect and NewStream, one of which fails or none.
Dial(i) ==
  /\ connections[i].phase = "dialing"
  /\ \E c \in {[connections[i] EXCEPT !.phase = "open"], Ended(connections[i])} :
       connections' = [connections EXCEPT ![i] = c]
  /\ UNCHANGED <<calls, sending, held, refused, written>>

\* WriteMsg: on a stream that broke it fails, or seems to succeed.
Write(i) ==
  /\ connections[i].receiver # <<>>
  /\ LET taken == [connections[i] EXCEPT !.receiver = Tail(@)]
     IN  \/ /\ taken.phase = "open"
            /\ connections' = [connections EXCEPT ![i] = taken]
            /\ written' = written \cup {Head(connections[i].receiver)}
         \/ /\ taken.phase = "broken"
            /\ \E c \in {taken, Ended(taken)} : connections' = [connections EXCEPT ![i] = c]
            /\ UNCHANGED written
  /\ UNCHANGED <<calls, sending, held, refused>>

\* WriteMsg has no deadline: with a peer that reads no more it does not return.
Stall(i) ==
  /\ connections[i].phase = "open"
  /\ connections[i].receiver # <<>>
  /\ connections' = [connections EXCEPT ![i].phase = "stalled", ![i].receiver = Tail(@)]
  /\ UNCHANGED <<calls, sending, held, refused, written>>

\* The peer or the network breaks the stream; what is on it may be lost, and a write
\* that waits fails.
Break(i) ==
  /\ \/ /\ connections[i].phase = "open"
        /\ connections' = [connections EXCEPT ![i].phase = "broken"]
     \/ /\ connections[i].phase = "stalled"
        /\ connections' = [connections EXCEPT ![i] = Ended(@)]
  /\ UNCHANGED <<calls, sending, held, refused, written>>
-----------------------------------------------------------------------------
Init ==
  /\ calls = 0 /\ sending = NoCall /\ connections = <<>> /\ held = 0
  /\ refused = {} /\ written = {}

Run(i) == Dial(i) \/ Write(i)

Next ==
  \/ Send \/ PutInChannel \/ ReadError
  \/ \E i \in 1 .. Len(connections) : Run(i) \/ Stall(i) \/ Break(i)

Spec == Init /\ [][Next]_vars

\* The caller and the goroutines keep running, and an attempt to connect ends.  A write
\* need not: it may stall first.
Fairness ==
  /\ WF_vars(PutInChannel) /\ WF_vars(ReadError)
  /\ \A i \in 1 .. MaxCalls : WF_vars(i \in 1 .. Len(connections) /\ Run(i))
-----------------------------------------------------------------------------
(* Properties.                                                               *)

TypeOK ==
  /\ calls \in 0 .. MaxCalls
  /\ sending \in [message : 0 .. MaxCalls, to : 0 .. Len(connections), spawned : BOOLEAN]
  /\ connections \in Seq(Connection)
  /\ held \in 0 .. Len(connections)
  /\ refused \subseteq 1 .. MaxCalls
  /\ written \subseteq 1 .. MaxCalls

\* Without an error returned by Send, a connection that has ended does not stay
\* in the map unnoticed: its error waits for the next call, or the call that read
\* it is about to replace it.  (After such an error the sender may hold a dead
\* connection whose error is gone: it takes every later message and sends none.)
DeadConnectionNoticed ==
  refused = {} /\ held # 0 /\ connections[held].phase = "ended"
    => connections[held].errCh \/ sending.spawned

\* The call waits at a channel that is full and that nobody reads: of a peer that stopped
\* reading, or of a dead connection whose error was spent on a call that failed.
HeldUp ==
  LET c == connections[sending.to]
  IN  /\ Len(c.receiver) = Capacity
      /\ \/ c.phase = "stalled"
         \/ c.phase = "ended" /\ refused # {}

\* A call of Send returns, so that the core, which makes it, goes on, or else it is held
\* up in one of these two ways, for which the code has no way out.
SendReturns == sending # NoCall ~> sending = NoCall \/ HeldUp
=============================================================================
