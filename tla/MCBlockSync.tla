------------------------------ MODULE MCBlockSync ------------------------------
(* Two siblings on block 1 and a grandchild.  The newest blocks arrive; one of  *)
(* the authors answers nothing, and the other holds everything.  Each channel,  *)
(* of capacity 1, is full at times, but these blocks are too few to fill both   *)
(* while the core and the synchronizer hold one more each.                     *)
EXTENDS BlockSync

CONSTANTS p, q

ParentTree == <<0, 1, 1, 2>>
Authors == <<p, q, p, q>>
Stores == [x \in {p, q} |-> IF x = p THEN 1 .. 4 ELSE {}]
=============================================================================
