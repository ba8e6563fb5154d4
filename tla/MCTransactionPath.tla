--------------------------- MODULE MCTransactionPath ---------------------------
(* Three replicas of stake 2, 1, 1; the one modelled has stake 1 and needs the  *)
(* first; the third may never answer.                                           *)
EXTENDS TransactionPath

CONSTANTS n1, n2, n3, other, tx

KeysThree == <<n3, n1, n2>>
StakeThree == [n \in {n1, n2, n3} |-> IF n = n1 THEN 2 ELSE 1]

\* The second transaction fills the batch, unless the delay sealed the first alone.
Sizes == <<1, 1>>

\* The client may send a transaction twice.
Twice == <<tx, tx>>
=============================================================================
