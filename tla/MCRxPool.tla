------------------------------ MODULE MCRxPool ------------------------------
(* RxPool with two pools of three packets: a refill is due at one.           *)
EXTENDS RxPool, TLC

PktSymmetry == Permutations(Pkt)
=============================================================================
