----------------------------- MODULE MCFraming ------------------------------
(* Framing on small blocks, with TLC.                                       *)
EXTENDS Framing, TLC

(* Every byte of the payload differs from its neighbours.                   *)
MCPayload == [i \in 1 .. 4 |-> i % Base]
=============================================================================
