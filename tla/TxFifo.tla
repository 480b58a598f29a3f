------------------------------- MODULE TxFifo -------------------------------
(***************************************************************************)
(* What the transmit path promises, without a ring: packets leave the       *)
(* driver in the order outputStart took them from the network stack, and a  *)
(* packet is freed only after the NIC has sent it, or when everything is    *)
(* discarded after the NIC was stopped.                                     *)
(*                                                                         *)
(* TxRing implements it with descriptors, indexes and three parties that    *)
(* share them; TxService with a watchdog and a link that comes and goes.    *)
(***************************************************************************)
EXTENDS Naturals, Sequences

CONSTANTS Mbuf     (* The packets of the network stack.                     *)

VARIABLES
  fifo,        (* The packets in the driver, oldest first.                 *)
  tailed,      (* How many of them TDT has made known to the NIC.          *)
  published,   (* How many txInterrupt may look at, the clean barrier.     *)
  sent         (* How many the NIC has sent.                               *)

fifoVars == <<fifo, tailed, published, sent>>

Packets == {fifo[i] : i \in 1 .. Len(fifo)}

Init == fifo = <<>> /\ tailed = 0 /\ published = 0 /\ sent = 0

(* outputStart takes a packet.                                              *)
Post(m) ==
  /\ m \notin Packets
  /\ fifo' = Append(fifo, m)
  /\ UNCHANGED <<tailed, published, sent>>

(* TDT moves behind the last packet ...                                     *)
MoveTail ==
  /\ tailed' = Len(fifo)
  /\ UNCHANGED <<fifo, published, sent>>

(* ... and the clean barrier follows, also when TDT did not move.           *)
Publish ==
  /\ published' = Len(fifo)
  /\ UNCHANGED <<fifo, tailed, sent>>

Transmit ==
  /\ sent < tailed
  /\ sent' = sent + 1
  /\ UNCHANGED <<fifo, tailed, published>>

(* txInterrupt frees the oldest packet.                                     *)
Free ==
  /\ sent > 0 /\ published > 0
  /\ fifo' = Tail(fifo)
  /\ tailed' = tailed - 1 /\ published' = published - 1 /\ sent' = sent - 1

(* The NIC is stopped and forgets the ring; only then the driver discards   *)
(* what is left.                                                             *)
Stop ==
  /\ tailed' = 0 /\ sent' = 0
  /\ UNCHANGED <<fifo, published>>

Discard ==
  /\ tailed = 0
  /\ fifo' = <<>> /\ published' = 0
  /\ UNCHANGED <<tailed, sent>>

Next ==
  \/ \E m \in Mbuf : Post(m)
  \/ MoveTail \/ Publish \/ Transmit \/ Free \/ Stop \/ Discard

Spec == Init /\ [][Next]_fifoVars
=============================================================================
