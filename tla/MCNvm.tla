-------------------------------- MODULE MCNvm ---------------------------------
(* The order of the words on pch_lpt and later chips.                       *)
EXTENDS Nvm
MCLayout == <<"mac", "compat", "sig", "sum">>
=============================================================================
