------------------------------ MODULE MCController ------------------------------
(* Two of three multicast addresses share a bit of the table; a MAC has     *)
(* three receive address registers.                                         *)
EXTENDS Controller

CONSTANTS a1, a2, a3, b1, b2

MCHash == [a \in {a1, a2, a3} |-> IF a = a3 THEN b2 ELSE b1]
===============================================================================
