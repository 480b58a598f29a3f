----------------------------- MODULE TxRingFifo -----------------------------
(* TxRing seen as the FIFO of TxFifo: its packets are those the slots       *)
(* record, from RingHead on, and at the end the one outputStart is filling  *)
(* in.  A TSO packet in one segment, which no slot will record, is never in *)
(* the FIFO: nothing of what the FIFO promises holds for it.                 *)
EXTENDS TxRingInv, FiniteSets, Sequences

(* The slots less than d behind h that hold a packet, and their number.     *)
Before(buf, h, d) == {i \in Slots : buf[i] # NoMbuf /\ Dist(h, i) < d}
Count(buf, h, d)  == Cardinality(Before(buf, h, d))

(* The packets of the slots from h on: the k-th has k - 1 before it.        *)
Queue(buf, h) ==
  [k \in 1 .. Count(buf, h, NumTxDesc) |->
     buf[CHOOSE i \in Slots : /\ buf[i] # NoMbuf
                              /\ Count(buf, h, Dist(h, i)) = k - 1]]

(* How many packets end before the slot b.                                  *)
PacketsBefore(b) == Count(txBufMbuf, RingHead, Off(b))

NicHasRing == wl \in Live

RingQueue     == Queue(txBufMbuf, RingHead)
RingPackets   == IF op = "fill" /\ ~WillBeLost
                   THEN Append(RingQueue, opMbuf) ELSE RingQueue
RingTailed    == IF NicHasRing THEN PacketsBefore(tdt) ELSE 0
RingPublished == PacketsBefore(txCleanBarrierIndex)
RingSent      == IF NicHasRing THEN PacketsBefore(tdh) ELSE 0

Fifo == INSTANCE TxFifo WITH
  fifo <- RingPackets, tailed <- RingTailed, published <- RingPublished,
  sent <- RingSent

(* The ring, its three index variables and its lock-free counters behave    *)
(* like a FIFO: order is kept and nothing is freed before it was sent.       *)
RingIsFifo == Fifo!Spec
=============================================================================
