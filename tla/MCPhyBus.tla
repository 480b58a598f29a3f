------------------------------- MODULE MCPhyBus -------------------------------
(* Two threads, the timer's and that of systemWillShutdown().               *)
EXTENDS PhyBus

(* Every session of the igp and bm accessors but the chip reset overlaps    *)
(* with those of the other thread, those of the hv accessors with none.     *)
MCAlone == [f \in Families |-> IF f = "hv" THEN DOMAIN Prog[f] ELSE {"reset"}]

(* Any two sessions overlap.                                                *)
MCNone == [f \in Families |-> {}]
===============================================================================
