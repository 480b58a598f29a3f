----------------------------- MODULE TxRingInv ------------------------------
(***************************************************************************)
(* The inductive invariant of TxRing.                                      *)
(*                                                                         *)
(* txNumFreeDesc and txNextDescIndex determine where the oldest packet      *)
(* still in the ring begins, RingHead.  All pointers are compared by their   *)
(* distance from RingHead, Off: because a packet is only accepted when three *)
(* more descriptors are free than it can need, the used part never fills    *)
(* the ring and these distances order the pointers without ambiguity.       *)
(***************************************************************************)
EXTENDS TxRing

(* Slots from a forward to b.                                               *)
Dist(a, b) == IF a <= b THEN b - a ELSE b - a + NumTxDesc

RingHead   == Advance(txNextDescIndex, txNumFreeDesc)
Off(i) == Dist(RingHead, i)
Used   == NumTxDesc - txNumFreeDesc

(* Everything before FillIndex has been written by outputStart.             *)
FillIndex == IF op = "fill" THEN opIndex ELSE txNextDescIndex

(* A packet ends in slot i: a recorded one, or one that was lost.           *)
EndsAt(i) == txBufMbuf[i] # NoMbuf \/ i \in lostAt
DescsOf(i) == IF i \in lostAt THEN 2 ELSE txBufNum[i]

(* A packet begins at distance d from RingHead: behind the descriptors that *)
(* are gone for good, behind the last slot of a packet, or behind the one   *)
(* txInterrupt is giving back.                                               *)
Boundary(d) ==
  d = lostDescs \/ \E j \in Slots : /\ Off(j) = d - 1
                                    /\ \/ EndsAt(j)
                                       \/ wl = "count" /\ j = txDirtyIndex

Live    == {"idle", "scan", "count", "quiesce", "flushed"}
Stopped == {"quiesce", "flushed", "clear", "off", "down"}
Flushed == {"flushed", "clear"}

(* The count of free descriptors, and the only way to leave the reserve.    *)
IFree ==
  /\ txNumFreeDesc <= NumTxDesc
  /\ txNumFreeDesc >= 1
  /\ (wl \notin Flushed => txNumFreeDesc >= 2)

(* The order of the pointers along the used part of the ring.               *)
IOrder ==
  /\ Off(txDirtyIndex) <= Off(txCleanBarrierIndex)
  /\ Off(txCleanBarrierIndex) <= Off(FillIndex)
  /\ Off(FillIndex) <= Used

(* Packets end only in slots from txDirtyIndex on that outputStart has      *)
(* written; a lost packet leaves no record.                                  *)
IBufs ==
  \A i \in Slots :
    /\ EndsAt(i) => Off(txDirtyIndex) <= Off(i) /\ Off(i) < Off(FillIndex)
    /\ i \in lostAt => txBufMbuf[i] = NoMbuf

(* Packets tile the used part: each reaches back to where another ended,    *)
(* and not into a packet txInterrupt is giving back.                         *)
Tile(i) ==
  EndsAt(i) =>
     /\ 1 <= DescsOf(i) /\ DescsOf(i) <= Off(i) + 1 - cleaned - lostDescs
     /\ Boundary(Off(i) - DescsOf(i) + 1)
     /\ \A j \in Slots : Off(i) - DescsOf(i) < Off(j) /\ Off(j) < Off(i)
                           => ~EndsAt(j)

ITile == \A i \in Slots : Tile(i)

(* The packet outputStart is filling in, and the end of the last complete   *)
(* one.                                                                      *)
IFill ==
  /\ op = "fill" =>
       /\ opLeft >= 1 /\ opLeft <= opTotal /\ opTotal <= MaxSegs + 1
       /\ Off(opIndex) + opLeft = Used
       /\ opTotal - opLeft <= Off(opIndex) - cleaned - lostDescs
       /\ Boundary(Off(opIndex) - (opTotal - opLeft))
       /\ \A j \in Slots :
            Off(opIndex) - (opTotal - opLeft) <= Off(j) => ~EndsAt(j)
  /\ (op # "fill" /\ wl \notin Flushed) => Boundary(Used)

(* Between freeing a packet and counting its descriptors; what is gone for  *)
(* good was passed over by txInterrupt.                                      *)
ICount ==
  IF wl = "count"
    THEN /\ cleaned >= 1 /\ cleaned + lostDescs = Off(txDirtyIndex) + 1
         /\ ~EndsAt(txDirtyIndex)
         /\ txDirtyIndex # txCleanBarrierIndex
         /\ Off(txDirtyIndex) < Off(tdh)
    ELSE cleaned = 0 /\ lostDescs <= Off(txDirtyIndex)

(* The NIC stays between RingHead and the last tail it was given, and has    *)
(* passed every packet marked done.                                          *)
INic ==
  /\ wl \in Live =>
       /\ Off(tdh) <= Off(tdt)
       /\ Off(tdt) <= IF op = "barrier" \/ wl = "flushed"
                        THEN Off(txNextDescIndex)
                        ELSE Off(txCleanBarrierIndex)
       /\ \A i \in Slots : txBufMbuf[i] # NoMbuf /\ descDone[i]
                             => Off(i) < Off(tdh)
  /\ wl \in {"clear", "off"} => (tctlEn => tdh = tdt)
  /\ wl = "down" => ~tctlEn /\ tdh = 0 /\ tdt = 0

(* The descriptors the NIC has not passed point to held packets, and those  *)
(* in use to a recorded packet only up to its last slot.                     *)
IDma ==
  \A i \in Slots : Off(i) < Off(FillIndex) =>
     /\ wl \in Live /\ Off(tdh) <= Off(i) => descBuf[i] \in held \cup {NoMbuf}
     /\ \A j \in Slots : (txBufMbuf[j] # NoMbuf /\ descBuf[i] = txBufMbuf[j])
                           => Off(i) <= Off(j)

(* NoLeak, element by element.                                              *)
IHeld ==
  /\ op = "fill" <=> opMbuf # NoMbuf
  /\ opMbuf # NoMbuf => opMbuf \in held \ lost
  /\ lost \subseteq held
  /\ \A i \in Slots : txBufMbuf[i] # NoMbuf =>
       /\ txBufMbuf[i] \in held \ lost /\ txBufMbuf[i] # opMbuf
       /\ \A j \in Slots : txBufMbuf[j] = txBufMbuf[i] => j = i
  /\ \A m \in held \ lost : m = opMbuf \/ \E i \in Slots : txBufMbuf[i] = m

(* Who may run when; without a link the ring is empty and at its start.     *)
IControl ==
  /\ running => wl \notin Stopped
  /\ wl \in Stopped => op = "idle"
  /\ wl \in {"off", "down"} =>
       /\ txNextDescIndex = 0 /\ txDirtyIndex = 0 /\ txCleanBarrierIndex = 0
       /\ txNumFreeDesc = NumTxDesc /\ lostDescs = 0
       /\ \A i \in Slots : ~EndsAt(i)

(* The conjunction is inductive; it implies every invariant of TxRing.      *)
IInv ==
  /\ TypeOK /\ IFree /\ IOrder /\ IBufs /\ ITile /\ IFill /\ ICount /\ INic
  /\ IDma /\ IHeld /\ IControl
=============================================================================
