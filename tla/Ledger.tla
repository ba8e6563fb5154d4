-------------------------------- MODULE Ledger --------------------------------
(***************************************************************************)
(* What the consensus promises to those who read its channels txCommit: one  *)
(* ledger for the whole committee, to which entries are only ever added, and *)
(* at each replica a beginning of it that only grows.  How many entries one  *)
(* step brings is left open: a commit of the code hands over the head of a   *)
(* 2-chain with all its ancestors.                                           *)
(***************************************************************************)
EXTENDS Naturals, SequencesExt

CONSTANT Node

VARIABLES
  ledger,     \* the entries, in the order agreed on
  delivered   \* delivered[n]: the entries handed over by replica n

vars == <<ledger, delivered>>

\* The first k entries of a ledger.
First(entries, k) == {entries[i] : i \in 1 .. k}

Init == ledger = <<>> /\ delivered = [n \in Node |-> {}]

\* A replica hands over more entries, the first to do so extends the ledger.
Deliver(n) ==
  /\ IsPrefix(ledger, ledger')
  /\ \E k \in 0 .. Len(ledger') :
       delivered' = [delivered EXCEPT ![n] = First(ledger', k)]
  /\ delivered[n] \subseteq delivered'[n]

Next == \E n \in Node : Deliver(n)

Spec == Init /\ [][Next]_vars
=============================================================================
