---------------------------- MODULE MCPayloadPath ----------------------------
(* A block of round 2 that may lack one batch or two.                         *)
EXTENDS PayloadPath

CONSTANTS b1, d1, d2

Rounds == b1 :> 2
Payloads == b1 :> {d1, d2}
=============================================================================
