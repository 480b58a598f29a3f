------------------------------- MODULE MCTxMap -------------------------------
(* TxMap with a ring of 8 descriptors, four memory descriptors and packets  *)
(* of up to two fragments.  As in the driver there are half as many memory  *)
(* descriptors as descriptors: packets of one descriptor use them up before *)
(* the ring is full.                                                         *)
EXTENDS TxMap
=============================================================================
