------------------------------ MODULE MCRxPoll ------------------------------
(* RxPoll with up to two frames waiting.                                     *)
EXTENDS RxPoll
=============================================================================
