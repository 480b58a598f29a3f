------------------------------ MODULE MCTxRing ------------------------------
(* TxRing with a ring of five slots, packets of one segment with or without *)
(* a context descriptor, and two packets the network stack recycles: each   *)
(* reservation is made with the fewest free slots that allow it.            *)
EXTENDS TxRingFifo, TLC

MbufSymmetry == Permutations(Mbuf)
=============================================================================
