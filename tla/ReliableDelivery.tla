--------------------------- MODULE ReliableDelivery ---------------------------
(***************************************************************************)
(* What network/reliablesender.go promises to the proposer and the batch     *)
(* maker about one peer: the channel that Send returns carries an answer     *)
(* only for a message the peer has taken, and at most one.                   *)
(***************************************************************************)
CONSTANT Msg

VARIABLES
  requested,   \* messages passed to Send
  cancelled,   \* messages whose context was cancelled
  received,    \* messages that the peer's handler took, once or more
  answered     \* messages whose response channel carries the ack

vars == <<requested, cancelled, received, answered>>

Init == requested = {} /\ cancelled = {} /\ received = {} /\ answered = {}

Request(m) ==
  /\ m \notin requested
  /\ requested' = requested \cup {m}
  /\ UNCHANGED <<cancelled, received, answered>>

Cancel(m) ==
  /\ m \in requested
  /\ cancelled' = cancelled \cup {m}
  /\ UNCHANGED <<requested, received, answered>>

Receive(m) ==
  /\ m \in requested
  /\ received' = received \cup {m}
  /\ UNCHANGED <<requested, cancelled, answered>>

Answer(m) ==
  /\ m \in received \ answered
  /\ answered' = answered \cup {m}
  /\ UNCHANGED <<requested, cancelled, received>>

Next == \E m \in Msg : Request(m) \/ Cancel(m) \/ Receive(m) \/ Answer(m)

Spec == Init /\ [][Next]_vars
=============================================================================
