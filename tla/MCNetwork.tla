------------------------------- MODULE MCNetwork -------------------------------
(***************************************************************************)
(* The two senders of a replica towards one peer.  They share no state, so a  *)
(* behaviour that is checked uses only one of them.                          *)
(***************************************************************************)
EXTENDS ReliableSender

CONSTANTS Capacity, MaxCalls

ASSUME SimpleSenderAssumption == Capacity \in Nat \ {0} /\ MaxCalls \in Nat

VARIABLES calls, sending, connections, held, refused, written

Simple == INSTANCE SimpleSender

simpleVars == <<calls, sending, connections, held, refused, written>>
bothVars == <<vars, simpleVars>>

NetworkInit == Init /\ Simple!Init

NetworkNext ==
  /\ \/ Next /\ UNCHANGED simpleVars
     \/ Simple!Next /\ UNCHANGED vars
  /\ sent' = <<>> \/ calls' = 0

NetworkSpec ==
  NetworkInit /\ [][NetworkNext]_bothVars /\ Fairness /\ Simple!Fairness

\* A simple sender that never returned an error notices that its connection ended
\* (SimpleSender.Send, connection.run).
DeadConnectionNoticed == Simple!DeadConnectionNoticed

\* Its callers wait for ever at most on a full channel that nobody reads
\* (SimpleSender.Send).
SendReturns == Simple!SendReturns
=============================================================================
