------------------------------ MODULE MCHotStuff ------------------------------
(***************************************************************************)
(* Committees and bounds for TLC.  No symmetry: the order of the keys        *)
(* decides who leads which round.                                            *)
(***************************************************************************)
EXTENDS Certificates

CONSTANTS n1, n2, n3

\* One replica, its own quorum: long chains, with and without gaps.
KeysOne == <<n1>>
StakeOne == [n \in {n1} |-> 1]
TimeoutsOne == [n \in {n1} |-> 1 .. 7]
ReachOne == [n \in {n1} |-> 1 .. 7]
NoBatchesOne == [n \in {n1} |-> {}]

\* Threshold 3 of 4: n2 is a quorum alone and leads the even rounds, n1 leads the
\* odd ones, at times before it has seen the block it extends.  Block 2 never
\* reaches n1, n2 may give its round up, and a batch comes in the fourth.
KeysTwo == <<n2, n1>>
StakeTwo == [n \in {n1, n2} |-> IF n = n1 THEN 1 ELSE 3]
TimeoutsTwo == [n \in {n1, n2} |-> IF n = n1 THEN {} ELSE {2}]
ReachTwo == [n \in {n1, n2} |-> IF n = n1 THEN {4} ELSE {1, 3, 5}]
BatchTwo == [n \in {n1, n2} |-> {4}]

\* Threshold 3 of 4: n1 and either other replica are a quorum, so two quorums
\* may share n1 alone.  n1, n2, n3 lead rounds 1, 2 and 3.
KeysThree == <<n3, n1, n2>>
NoBatches == [n \in {n1, n2, n3} |-> {}]
StakeThree == [n \in {n1, n2, n3} |-> IF n = n1 THEN 2 ELSE 1]

\* n3 is cut off from the blocks of the first two rounds, and follows by the
\* timeouts and TCs it shares with n1; n2 never times out.
TimeoutsSafety == [n \in {n1, n2, n3} |-> IF n = n2 THEN {} ELSE {1, 2}]
ReachSafety == [n \in {n1, n2, n3} |-> IF n = n3 THEN {3} ELSE 1 .. 3]
=============================================================================
