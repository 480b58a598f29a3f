------------------------------ MODULE MCRxRing ------------------------------
(* RxRing with four slots in two batches, frames of up to three buffers and *)
(* buffers for the ring and two more.                                        *)
EXTENDS RxRing, TLC

BufSymmetry == Permutations(Buf)
=============================================================================
