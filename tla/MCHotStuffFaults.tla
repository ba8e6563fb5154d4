--------------------------- MODULE MCHotStuffFaults ---------------------------
(***************************************************************************)
(* Committees and bounds for TLC with restarts and lost messages.            *)
(***************************************************************************)
EXTENDS HotStuffFaults, TLC

CONSTANTS n1, n2, n3, d1

\* Threshold 3 of 4, as in MCHotStuff; n1, n2, n3 lead rounds 1, 2 and 3.
KeysThree == <<n3, n1, n2>>
NoBatches == [n \in {n1, n2, n3} |-> {}]
StakeThree == [n \in {n1, n2, n3} |-> IF n = n1 THEN 2 ELSE 1]

\* Every replica hears the first block; n1 and n3 give the first round up.
TimeoutsFaults == [n \in {n1, n2, n3} |-> IF n = n2 THEN {} ELSE {1}]
BatchesFaults == [n \in {n1, n2, n3} |-> IF n = n1 THEN {1} ELSE {}]
ReachFaults == [n \in {n1, n2, n3} |-> IF n = n3 THEN {} ELSE {1}]

\* n3 misses the first block, which reaches n1 and n2.
ReachFork == (n1 :> {1, 2, 3}) @@ (n2 :> {1}) @@ (n3 :> {2, 4})
=============================================================================
