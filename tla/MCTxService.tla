----------------------------- MODULE MCTxService ----------------------------
(* TxService with two packets in a ring of three: outputStart stalls after  *)
(* the second, and only an empty ring wakes it.                              *)
EXTENDS TxService, TLC

MbufSymmetry == Permutations(Mbuf)
=============================================================================
