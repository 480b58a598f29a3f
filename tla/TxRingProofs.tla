---------------------------- MODULE TxRingProofs ----------------------------
(***************************************************************************)
(* TLAPS proofs about TxRing, for every ring size, every segment limit and  *)
(* every set of packets.                                                    *)
(***************************************************************************)
EXTENDS TxRingFifo, FiniteSetTheorems, SequenceTheorems, TLAPS

-----------------------------------------------------------------------------
(* Distances along the ring.                                                *)

(* A distance from any slot is a number below the ring size, and tells the  *)
(* slots apart.                                                              *)
LEMMA DistRange ==
  ASSUME NEW h \in Slots, NEW i \in Slots
  PROVE  Dist(h, i) \in 0 .. NumTxDesc - 1
BY TxConstants DEF Dist, Slots

LEMMA DistInjective ==
  ASSUME NEW h \in Slots, NEW i \in Slots, NEW j \in Slots,
         Dist(h, i) = Dist(h, j)
  PROVE  i = j
BY TxConstants DEF Dist, Slots

(* Moving one slot on adds one to the distance, short of the wrap.          *)
LEMMA DistNext ==
  ASSUME NEW h \in Slots, NEW i \in Slots, Dist(h, i) < NumTxDesc - 1
  PROVE  /\ Next1(i) \in Slots
         /\ Dist(h, Next1(i)) = Dist(h, i) + 1
BY TxConstants DEF Dist, Slots, Next1

LEMMA Next1Slot ==
  ASSUME NEW i \in Slots
  PROVE  Next1(i) \in Slots
BY TxConstants DEF Slots, Next1

(* Advancing stays on the ring, composes, and is undone by the distance.    *)
LEMMA AdvanceSlot ==
  ASSUME NEW i \in Slots, NEW n \in 0 .. NumTxDesc
  PROVE  Advance(i, n) \in Slots
BY TxConstants DEF Slots, Advance

LEMMA AdvanceAdvance ==
  ASSUME NEW i \in Slots, NEW n \in Nat, NEW k \in Nat, n + k <= NumTxDesc
  PROVE  Advance(Advance(i, n), k) = Advance(i, n + k)
BY TxConstants DEF Slots, Advance

LEMMA DistAdvance ==
  ASSUME NEW h \in Slots, NEW k \in 0 .. NumTxDesc - 1
  PROVE  Dist(h, Advance(h, k)) = k
BY TxConstants DEF Slots, Advance, Dist

(* Seen from a slot c further on, slots at least c away come nearer by c;   *)
(* the others are now behind.                                                *)
LEMMA DistShift ==
  ASSUME NEW h \in Slots, NEW c \in 0 .. NumTxDesc, NEW i \in Slots
  PROVE  /\ Dist(h, i) >= c => Dist(Advance(h, c), i) = Dist(h, i) - c
         /\ Dist(h, i) < c =>
              Dist(Advance(h, c), i) = Dist(h, i) - c + NumTxDesc
BY TxConstants DEF Slots, Advance, Dist

(* What is used lies between RingHead and txNextDescIndex.                   *)
LEMMA DistBack ==
  ASSUME NEW i \in Slots, NEW n \in 1 .. NumTxDesc
  PROVE  Dist(Advance(i, n), i) = NumTxDesc - n
BY TxConstants DEF Slots, Advance, Dist

(* The NIC's window, in distances.                                          *)
LEMMA BetweenDist ==
  ASSUME NEW h \in Slots, NEW a \in Slots, NEW b \in Slots, NEW i \in Slots,
         Dist(h, a) <= Dist(h, b)
  PROVE  Between(a, i, b) <=> Dist(h, a) <= Dist(h, i) /\ Dist(h, i) < Dist(h, b)
BY TxConstants DEF Slots, Between, Dist

-----------------------------------------------------------------------------
(* Type correctness: every variable keeps its range whatever the threads,   *)
(* the NIC and the ME firmware do.                                           *)

LEMMA ZeroSlot ==
  0 \in Slots /\ 0 \in 0 .. MaxSegs + 1 /\ NumTxDesc \in Int
BY TxConstants DEF Slots, Reserve

LEMMA InitType == Init => TypeOK
<1> SUFFICES ASSUME Init PROVE TypeOK
  OBVIOUS
<1> USE ZeroSlot DEF Init
<1>1. RingType
  BY DEF RingType
<1>2. SlotType
  BY DEF SlotType
<1>3. OutputType
  BY DEF OutputType
<1>4. WorkLoopType /\ LossType
  BY DEF WorkLoopType, LossType
<1> QED
  BY <1>1, <1>2, <1>3, <1>4 DEF TypeOK

LEMMA NextType ==
  ASSUME TypeOK, [Next]_vars
  PROVE  TypeOK'
<1> USE DEF TypeOK, RingType, SlotType, OutputType, WorkLoopType, LossType,
            lossVars
<1>1. ASSUME OutputThread PROVE TypeOK'
  <2>1. CASE OutputBegin
    BY <2>1 DEF OutputBegin, ringVars, slotVars, wlVars, nicVars
  <2>2. ASSUME NEW m \in Mbuf, NEW n \in 1 .. MaxSegs + 1,
               NEW tso \in BOOLEAN, OutputReserve(m, n, tso)
        PROVE  TypeOK'
    <3>1. n \in 0 .. NumTxDesc
      BY TxConstants DEF Reserve
    <3>2. Advance(txNextDescIndex, n) \in Slots
      BY <3>1, AdvanceSlot
    <3> QED
      BY <2>2, <3>2, TxConstants DEF OutputReserve, slotVars, wlVars, nicVars
  <2>3. CASE OutputFill
    <3>1. /\ txBufMbuf' \in [Slots -> Mbuf \cup {NoMbuf}]
          /\ descBuf' \in [Slots -> Mbuf \cup {NoMbuf}]
          /\ descDone' \in [Slots -> BOOLEAN]
      BY <2>3 DEF OutputFill
    <3>2. txBufNum' \in [Slots -> 0 .. MaxSegs + 1]
      BY <2>3, TxConstants DEF OutputFill
    <3>3. RingType' /\ SlotType' /\ WorkLoopType'
      BY <2>3, <3>1, <3>2 DEF OutputFill, ringVars, wlVars, nicVars
    <3>4. OutputType'
      <4>1. CASE opLeft = 1
        BY <2>3, <4>1, ZeroSlot, TxConstants DEF OutputFill
      <4>2. CASE opLeft # 1
        <5>1. opLeft' \in 0 .. MaxSegs + 1 /\ opLeft' > 0
          BY <2>3, <4>2, TxConstants DEF OutputFill
        <5> QED
          BY <2>3, <4>2, <5>1, Next1Slot DEF OutputFill
      <4> QED
        BY <4>1, <4>2
    <3>5. LossType'
      <4>1. CASE LastOfLost
        BY <2>3, <4>1 DEF OutputFill
      <4>2. CASE ~LastOfLost
        BY <2>3, <4>2 DEF OutputFill
      <4> QED
        BY <4>1, <4>2
    <3> QED
      BY <3>3, <3>4, <3>5
  <2>4. CASE OutputLoopEnd
    BY <2>4 DEF OutputLoopEnd, ringVars, slotVars, wlVars, nicVars
  <2>5. CASE WriteTail
    BY <2>5 DEF WriteTail, ringVars, slotVars, wlVars
  <2>6. CASE SetBarrier
    BY <2>6 DEF SetBarrier, slotVars, wlVars, nicVars
  <2> QED
    BY <1>1, <2>1, <2>2, <2>3, <2>4, <2>5, <2>6 DEF OutputThread
<1>2. CASE NicProcess
  BY <1>2, Next1Slot DEF NicProcess, ringVars, opVars, wlVars
<1>3. ASSUME WorkLoop PROVE TypeOK'
  <2>1. CASE TxInterrupt
    BY <2>1 DEF TxInterrupt, ringVars, slotVars, opVars, nicVars
  <2>2. CASE CleanSkip
    BY <2>2, Next1Slot DEF CleanSkip, slotVars, opVars, wlVars, nicVars
  <2>3. CASE CleanFree
    BY <2>3, TxConstants DEF CleanFree, ringVars, opVars, nicVars
  <2>4. CASE CleanCount
    BY <2>4, TxConstants, Next1Slot DEF CleanCount, slotVars, opVars, nicVars
  <2>5. CASE CleanEnd
    BY <2>5 DEF CleanEnd, ringVars, slotVars, opVars, nicVars
  <2>6. CASE StopOutput
    BY <2>6 DEF StopOutput, ringVars, slotVars, opVars, nicVars
  <2>7. CASE FlushTxRing
    <3>1. RingType'
      <4>1. Next1(txNextDescIndex) \in Slots /\ txNumFreeDesc - 1 \in Int
        BY Next1Slot
      <4> QED
        BY <2>7, <4>1 DEF FlushTxRing
    <3>2. SlotType'
      BY <2>7 DEF FlushTxRing
    <3>3. OutputType'
      BY <2>7 DEF FlushTxRing, opVars
    <3>4. WorkLoopType' /\ LossType'
      BY <2>7 DEF FlushTxRing
    <3> QED
      BY <3>1, <3>2, <3>3, <3>4
  <2>8. CASE ResetNic
    BY <2>8, ZeroSlot DEF ResetNic, ringVars, slotVars, opVars
  <2>9. CASE QuiesceForWake
    BY <2>9 DEF QuiesceForWake, ringVars, slotVars, opVars
  <2>10. CASE ClearDescriptors
    BY <2>10, ZeroSlot DEF ClearDescriptors, opVars, nicVars
  <2>11. CASE InitTxRing
    <3>1. RingType'
      BY <2>11, ZeroSlot DEF InitTxRing
    <3> QED
      BY <2>11, <3>1 DEF InitTxRing, slotVars, opVars
  <2>12. CASE SetLinkUp
    BY <2>12 DEF SetLinkUp, ringVars, slotVars, opVars
  <2>13. CASE RxTailAstray
    BY <2>13 DEF RxTailAstray, ringVars, slotVars, opVars, wlVars, nicVars
  <2> QED
    BY <1>3, <2>1, <2>2, <2>3, <2>4, <2>5, <2>6, <2>7, <2>8, <2>9, <2>10,
       <2>11, <2>12, <2>13 DEF WorkLoop
<1>4. CASE UNCHANGED vars
  BY <1>4 DEF vars, ringVars, slotVars, opVars, wlVars, nicVars
<1> QED
  BY <1>1, <1>2, <1>3, <1>4 DEF Next

THEOREM TypeCorrect == Spec => []TypeOK
<1>1. Init => TypeOK
  BY InitType
<1>2. TypeOK /\ [Next]_vars => TypeOK'
  BY NextType
<1> QED
  BY <1>1, <1>2, PTL DEF Spec

-----------------------------------------------------------------------------
(* The inductive invariant.                                                 *)

(* What the free count says about RingHead, and distances as a coordinate    *)
(* system of the ring.                                                       *)
LEMMA RingFacts ==
  ASSUME TypeOK, IFree
  PROVE  /\ RingHead \in Slots
         /\ Used \in 0 .. NumTxDesc - 1
         /\ Off(txNextDescIndex) = Used
         /\ \A i \in Slots : Off(i) \in 0 .. NumTxDesc - 1
         /\ \A i, j \in Slots : Off(i) = Off(j) => i = j
         /\ \A i \in Slots : Off(i) < NumTxDesc - 1 =>
              Next1(i) \in Slots /\ Off(Next1(i)) = Off(i) + 1
<1>1. RingHead \in Slots
  BY AdvanceSlot, TxConstants DEF RingHead, TypeOK, RingType, IFree
<1>2. Used \in 0 .. NumTxDesc - 1 /\ Off(txNextDescIndex) = Used
  BY DistBack, TxConstants DEF Off, RingHead, Used, TypeOK, RingType, IFree
<1> QED
  BY <1>1, <1>2, DistRange, DistInjective, DistNext DEF Off

(* The steps that leave the ring, its slots and the current packet alone    *)
(* keep everything that is said about them.                                  *)
SameRing ==
  /\ UNCHANGED <<held, txNextDescIndex, txNumFreeDesc, txBufMbuf, txBufNum,
                 descBuf, opMbuf, opIndex, opLeft, opTotal, cleaned, lossVars>>
  /\ op' = "fill" <=> op = "fill"
  /\ wl' = "count" <=> wl = "count"
  /\ wl \in Flushed => wl' \in Flushed
  /\ wl = "count" => txDirtyIndex' = txDirtyIndex

LEMMA SameRingInv ==
  ASSUME IInv, TypeOK', SameRing
  PROVE  /\ RingHead' = RingHead /\ Used' = Used /\ FillIndex' = FillIndex
         /\ IFree' /\ ITile' /\ IFill' /\ IHeld'
         /\ (wl' \in Live => wl \in Live /\ Off(tdh) <= Off(tdh)') => IDma'
         /\ txDirtyIndex' = txDirtyIndex =>
              /\ IBufs'
              /\ txCleanBarrierIndex' = txCleanBarrierIndex =>
                   IOrder' /\ (tdh' = tdh => ICount')
<1> USE DEF IInv, lossVars
<1>1. RingHead' = RingHead /\ Used' = Used /\ FillIndex' = FillIndex
  BY DEF SameRing, RingHead, Used, FillIndex
<1>2. IFree'
  BY DEF SameRing, IFree
<1>3. ASSUME txDirtyIndex' = txDirtyIndex
      PROVE  IBufs'
  BY <1>1, <1>3 DEF SameRing, IBufs, EndsAt, Off
<1>4. ASSUME NEW d, Boundary(d)
      PROVE  Boundary(d)'
  BY <1>1, <1>4 DEF Boundary, EndsAt, SameRing, Off
<1>5. ITile'
  BY <1>1, <1>4 DEF ITile, Tile, EndsAt, DescsOf, SameRing, Off
<1>6. IFill'
  BY <1>1, <1>4 DEF IFill, EndsAt, SameRing, Off
<1>7. ASSUME UNCHANGED <<txDirtyIndex, txCleanBarrierIndex>>
      PROVE  IOrder'
  BY <1>1, <1>7 DEF IOrder, Off
<1>8. ASSUME UNCHANGED <<txDirtyIndex, txCleanBarrierIndex, tdh>>
      PROVE  ICount'
  BY <1>1, <1>8 DEF ICount, EndsAt, SameRing, Off
<1>9. ASSUME wl' \in Live => wl \in Live /\ Off(tdh) <= Off(tdh)'
      PROVE  IDma'
  <2>1. \A i \in Slots : Off(i) \in Nat /\ Off(i)' = Off(i)
    BY <1>1, RingFacts DEF Off
  <2>2. /\ tdh \in Slots /\ tdh' \in Slots /\ Off(tdh)' = Dist(RingHead, tdh')
        /\ Off(tdh) \in Nat /\ Off(tdh)' \in Nat
        /\ Off(FillIndex)' = Off(FillIndex)
    BY <1>1, <2>1 DEF TypeOK, RingType, Off
  <2>3. ASSUME wl' \in Live, NEW i \in Slots, Off(tdh)' <= Off(i),
               Off(i) < Off(FillIndex)
        PROVE  descBuf[i] \in held \cup {NoMbuf}
    <3>1. Off(tdh) <= Off(i) /\ wl \in Live
      BY <1>9, <2>1, <2>2, <2>3
    <3> QED
      BY <2>3, <3>1 DEF IDma
  <2> QED
    BY <2>1, <2>2, <2>3 DEF IDma, SameRing
<1>10. IHeld'
  BY DEF IHeld, SameRing
<1> QED
  BY <1>1, <1>2, <1>3, <1>5, <1>6, <1>7, <1>8, <1>9, <1>10

(* The steps that move no packet.                                           *)
LEMMA InvControlSteps ==
  ASSUME IInv,
         \/ OutputBegin \/ OutputLoopEnd \/ WriteTail
         \/ TxInterrupt \/ CleanEnd \/ StopOutput \/ QuiesceForWake
         \/ ResetNic \/ SetLinkUp \/ RxTailAstray
  PROVE  IInv'
<1>1. TypeOK /\ TypeOK'
  BY NextType DEF IInv, Next, OutputThread, WorkLoop
<1>2. /\ SameRing /\ UNCHANGED <<txDirtyIndex, txCleanBarrierIndex>>
      /\ tdh' # tdh => wl' = "clear"
  BY DEF SameRing, OutputBegin, OutputLoopEnd, WriteTail, TxInterrupt,
         CleanEnd, StopOutput, QuiesceForWake, ResetNic, SetLinkUp,
         RxTailAstray, lossVars, ringVars, slotVars, opVars, wlVars, nicVars,
         Flushed
<1>7. /\ IFree' /\ IOrder' /\ IBufs' /\ ITile' /\ IFill' /\ IHeld'
      /\ RingHead' = RingHead /\ FillIndex' = FillIndex
      /\ (wl' \in Live => wl \in Live /\ Off(tdh) <= Off(tdh)') => IDma'
      /\ tdh' = tdh => ICount'
  BY <1>1, <1>2, SameRingInv
<1>8. ICount'
  <2>1. CASE tdh' = tdh
    BY <1>7, <2>1
  <2>2. CASE tdh' # tdh
    <3>1. wl' # "count" /\ wl # "count"
      BY <1>2, <2>2 DEF SameRing
    <3>2. UNCHANGED <<cleaned, lostDescs, txDirtyIndex>> /\ RingHead' = RingHead
      BY <1>2, <1>7 DEF SameRing, lossVars
    <3> QED
      BY <3>1, <3>2 DEF IInv, ICount, Off
  <2> QED
    BY <2>1, <2>2
<1>9. IDma'
  <2>1. CASE SetLinkUp
    <3>1. Off(FillIndex) = 0 /\ \A i \in Slots : Off(i) \in Nat
      BY <1>1, <2>1, RingFacts, TxConstants
         DEF SetLinkUp, IInv, IControl, FillIndex, Stopped, Used
    <3>2. Off(FillIndex)' = 0 /\ \A i \in Slots : Off(i)' \in Nat
      BY <1>7, <3>1 DEF Off
    <3> QED
      BY <3>2 DEF IDma
  <2>2. CASE ~SetLinkUp
    <3>1. wl' \in Live => wl \in Live /\ tdh' = tdh
      BY <2>2 DEF OutputBegin, OutputLoopEnd, WriteTail, TxInterrupt, CleanEnd,
                  StopOutput, QuiesceForWake, ResetNic, RxTailAstray, wlVars,
                  nicVars, Live
    <3>2. Off(tdh) \in Nat
      BY <1>1, RingFacts DEF IInv, TypeOK, RingType
    <3> QED
      BY <1>7, <3>1, <3>2 DEF Off
  <2> QED
    BY <2>1, <2>2
<1>3. /\ IFree' /\ IOrder' /\ IBufs' /\ ITile' /\ IFill' /\ ICount'
      /\ IDma' /\ IHeld' /\ RingHead' = RingHead
  BY <1>7, <1>8, <1>9
<1>5. /\ Off(txNextDescIndex) = Used
      /\ \A i \in Slots : Off(i) \in 0 .. NumTxDesc - 1
      /\ Off(txCleanBarrierIndex) <= Used
  BY <1>1, RingFacts DEF IInv, IOrder, FillIndex, TypeOK, RingType, OutputType
<1>6. INic' /\ IControl'
  <2> USE <1>3 DEF IInv, INic, IControl, EndsAt, Off, Stopped, Live, ringVars,
                   slotVars, opVars, wlVars, nicVars, lossVars
  <2>1. CASE OutputBegin \/ OutputLoopEnd \/ RxTailAstray
    BY <2>1 DEF OutputBegin, OutputLoopEnd, RxTailAstray
  <2>2. CASE TxInterrupt \/ CleanEnd
    BY <2>2 DEF TxInterrupt, CleanEnd
  <2>3. CASE StopOutput
    BY <2>3 DEF StopOutput
  <2>4. CASE WriteTail
    BY <1>1, <1>5, <2>4 DEF WriteTail, TypeOK, RingType
  <2>5. CASE QuiesceForWake
    BY <2>5 DEF QuiesceForWake
  <2>6. CASE ResetNic
    BY <2>6 DEF ResetNic
  <2>7. CASE SetLinkUp
    BY <1>1, <1>5, <2>7 DEF SetLinkUp, TypeOK, RingType
  <2> QED
    BY <2>1, <2>2, <2>3, <2>4, <2>5, <2>6, <2>7
<1> QED
  BY <1>1, <1>3, <1>6 DEF IInv

(* outputStart publishes its descriptors to txInterrupt.                    *)
LEMMA InvSetBarrier ==
  ASSUME IInv, SetBarrier
  PROVE  IInv'
<1> USE DEF Off
<1>1. TypeOK /\ TypeOK'
  BY NextType DEF IInv, Next, OutputThread
<1>2. SameRing /\ txDirtyIndex' = txDirtyIndex
  BY DEF SameRing, SetBarrier, slotVars, wlVars, nicVars, lossVars, Flushed
<1>10. /\ IFree' /\ IBufs' /\ ITile' /\ IFill' /\ IHeld'
       /\ RingHead' = RingHead /\ Used' = Used /\ FillIndex' = FillIndex
       /\ (wl' \in Live => wl \in Live /\ Off(tdh) <= Off(tdh)') => IDma'
  BY <1>1, <1>2, SameRingInv
<1>3. /\ IFree' /\ IBufs' /\ ITile' /\ IFill' /\ IDma' /\ IHeld'
      /\ RingHead' = RingHead /\ Used' = Used /\ FillIndex' = FillIndex
  <2>1. Off(tdh) \in Nat
    BY <1>1, RingFacts DEF IInv, TypeOK, RingType
  <2>2. wl' = wl /\ Off(tdh) <= Off(tdh)'
    BY <1>10, <2>1 DEF SetBarrier, wlVars, nicVars
  <2> QED
    BY <1>10, <2>2
<1>4. /\ Off(txNextDescIndex) = Used
      /\ \A i \in Slots : Off(i) \in 0 .. NumTxDesc - 1
      /\ FillIndex = txNextDescIndex /\ wl \notin Stopped
      /\ txNextDescIndex \in Slots /\ tdh \in Slots /\ tdt \in Slots
      /\ txDirtyIndex \in Slots /\ txCleanBarrierIndex \in Slots
  BY <1>1, RingFacts DEF IInv, FillIndex, SetBarrier, TypeOK, RingType, IControl
<1>5. IOrder'
  BY <1>3, <1>4 DEF IInv, IOrder, SetBarrier
<1>6. Off(tdt) <= Used /\ (wl \in Live => Off(tdh) <= Off(tdt))
  BY <1>4, <1>1 DEF IInv, INic, SetBarrier, Live, Stopped, TypeOK, WorkLoopType
<1>7. ICount'
  BY <1>3, <1>4, <1>6
     DEF IInv, ICount, EndsAt, SetBarrier, slotVars, wlVars, nicVars, lossVars,
         Live
<1>8. INic'
  BY <1>3, <1>4, <1>6 
     DEF IInv, INic, SetBarrier, slotVars, wlVars, nicVars, Live, Stopped
<1>9. IControl'
  BY <1>4 DEF IInv, IControl, EndsAt, SetBarrier, slotVars, wlVars, Stopped
<1> QED
  BY <1>1, <1>3, <1>5, <1>7, <1>8, <1>9 DEF IInv

(* outputStart writes one descriptor.                                       *)
LEMMA InvFill ==
  ASSUME IInv, OutputFill
  PROVE  IInv'
<1> USE DEF Off
<1>1. TypeOK' /\ TypeOK
  BY NextType DEF IInv, Next, OutputThread
<1>2. RingHead' = RingHead /\ Used' = Used
  BY DEF RingHead, Used, OutputFill, ringVars
<1>3. /\ Used \in 0 .. NumTxDesc - 1 /\ Off(txNextDescIndex) = Used
      /\ \A i \in Slots : Off(i) \in 0 .. NumTxDesc - 1
      /\ \A i, j \in Slots : Off(i) = Off(j) => i = j
      /\ \A i \in Slots : Off(i) < NumTxDesc - 1 =>
              Next1(i) \in Slots /\ Off(Next1(i)) = Off(i) + 1
  BY <1>1, RingFacts DEF IInv
<1>4. /\ opIndex \in Slots /\ Off(opIndex) + opLeft = Used
      /\ wl \notin Stopped /\ cleaned \in Nat /\ cleaned' = cleaned
  BY <1>1, TxConstants
     DEF IInv, IFill, IControl, OutputFill, wlVars, TypeOK, OutputType,
         WorkLoopType
<1>5. /\ FillIndex = opIndex /\ FillIndex' \in Slots
      /\ Off(FillIndex)' = Off(opIndex) + 1
  <2>1. CASE opLeft = 1
    <3>1. FillIndex' = txNextDescIndex
      BY <2>1 DEF FillIndex, OutputFill, ringVars
    <3> QED
      BY <1>1, <1>2, <1>3, <1>4, <2>1, <3>1
         DEF FillIndex, OutputFill, TypeOK, RingType
  <2>2. CASE opLeft # 1
    <3>1. FillIndex' = Next1(opIndex)
      BY <2>2 DEF FillIndex, OutputFill
    <3>2. Off(opIndex) < NumTxDesc - 1
      BY <1>1, <1>3, <1>4, <2>2, TxConstants DEF TypeOK, OutputType, OutputFill
    <3> QED
      BY <1>1, <1>2, <1>3, <1>4, <3>1, <3>2 DEF FillIndex, OutputFill
  <2> QED
    BY <2>1, <2>2
<1>6. \A i \in Slots : i # opIndex => /\ txBufMbuf'[i] = txBufMbuf[i]
                                      /\ txBufNum'[i] = txBufNum[i]
                                      /\ descBuf'[i] = descBuf[i]
                                      /\ i \in lostAt' <=> i \in lostAt
                                      /\ EndsAt(i)' <=> EndsAt(i)
                                      /\ DescsOf(i)' = DescsOf(i)
  BY <1>1 DEF OutputFill, TypeOK, SlotType, EndsAt, DescsOf
<1>9. lostDescs \in Nat /\ lostDescs' = lostDescs /\ opMbuf \in Mbuf \ {NoMbuf}
  BY <1>1, TxConstants DEF OutputFill, TypeOK, LossType, OutputType
<1>10. ~EndsAt(opIndex)
  BY <1>3, <1>4, <1>5 DEF IInv, IBufs
<1>12. ASSUME NEW i \in Slots, i = opIndex
       PROVE  /\ EndsAt(i)' <=> opLeft = 1
              /\ opLeft = 1 => DescsOf(i)' = opTotal
              /\ i \in lostAt' => txBufMbuf'[i] = NoMbuf
  <2>1. i \notin lostAt
    BY <1>10, <1>12 DEF EndsAt
  <2>2. CASE LastOfLost
    <3>1. opLeft = 1 /\ opTotal = 2
      BY <2>2 DEF LastOfLost, WillBeLost
    <3>2. i \in lostAt' /\ txBufMbuf'[i] = NoMbuf
      BY <1>1, <1>12, <2>2 DEF OutputFill, TypeOK, SlotType
    <3> QED
      BY <3>1, <3>2 DEF EndsAt, DescsOf
  <2>3. CASE ~LastOfLost
    <3>1. i \notin lostAt'
      BY <2>1, <2>3 DEF OutputFill
    <3>2. CASE opLeft = 1
      <4>1. txBufMbuf'[i] = opMbuf /\ txBufNum'[i] = opTotal
        BY <1>1, <1>12, <2>3, <3>2 DEF OutputFill, TypeOK, SlotType
      <4> QED
        BY <1>9, <3>1, <3>2, <4>1 DEF EndsAt, DescsOf
    <3>3. CASE opLeft # 1
      <4>1. txBufMbuf'[i] = NoMbuf
        BY <1>1, <1>12, <3>3 DEF OutputFill, TypeOK, SlotType
      <4> QED
        BY <3>1, <3>3, <4>1 DEF EndsAt
    <3> QED
      BY <3>2, <3>3
  <2> QED
    BY <2>2, <2>3
<1>7. ASSUME NEW d \in Int, d <= Off(opIndex), Boundary(d)
      PROVE  Boundary(d)'
  BY <1>2, <1>3, <1>4, <1>6, <1>7, <1>9 DEF Boundary, OutputFill, ringVars, wlVars
<1> USE DEF IInv, OutputFill, ringVars, wlVars, nicVars
<1>21. IFree'
  BY DEF IFree
<1>22. IOrder'
  <2>1. Off(opIndex) + 1 <= Used
    BY <1>1, <1>3, <1>4 DEF TypeOK, OutputType
  <2> QED
    BY <1>1, <1>2, <1>3, <1>4, <1>5, <2>1 DEF IOrder, TypeOK, RingType
<1>23. IBufs'
  <2>1. Off(txDirtyIndex) <= Off(opIndex)
    BY <1>1, <1>3, <1>4, <1>5 DEF IOrder, TypeOK, RingType
  <2>2. ASSUME NEW i \in Slots, EndsAt(i)'
        PROVE  Off(txDirtyIndex) <= Off(i) /\ Off(i) < Off(opIndex) + 1
    <3>1. CASE i = opIndex
      BY <1>3, <2>1, <3>1
    <3>2. CASE i # opIndex
      BY <1>3, <1>4, <1>5, <1>6, <2>2, <3>2 DEF IBufs
    <3> QED
      BY <3>1, <3>2
  <2>3. RingHead' = RingHead /\ txDirtyIndex' = txDirtyIndex
    BY <1>2
  <2>4. \A i \in Slots : i \in lostAt' => txBufMbuf'[i] = NoMbuf
    BY <1>6, <1>12 DEF IBufs
  <2> QED
    BY <1>5, <2>2, <2>3, <2>4 DEF IBufs
<1>24. IFill'
  <2>1. CASE opLeft = 1
    <3>1. op' # "fill"
      BY <2>1
    <3>2. Off(opIndex) = Used - 1
      BY <1>1, <1>3, <1>4, <2>1
    <3>3. Boundary(Used)'
      <4>1. PICK j \in Slots : j = opIndex
        BY <1>4
      <4>2. Off(j)' = Used' - 1 /\ EndsAt(j)'
        BY <1>2, <1>12, <2>1, <3>2, <4>1
      <4> QED
        BY <4>2 DEF Boundary
    <3> QED
      BY <1>2, <3>1, <3>3 DEF IFill
  <2>2. CASE opLeft # 1
    <3>1. /\ op' = "fill" /\ opLeft' = opLeft - 1 /\ opTotal' = opTotal
          /\ Off(opIndex)' = Off(opIndex) + 1
      BY <1>1, <1>5, <2>2 DEF FillIndex
    <3>2. /\ opLeft >= 1 /\ opLeft <= opTotal /\ opTotal <= MaxSegs + 1
          /\ Off(opIndex) + opLeft = Used
          /\ opTotal - opLeft <= Off(opIndex) - cleaned - lostDescs
          /\ Boundary(Off(opIndex) - (opTotal - opLeft))
          /\ \A j \in Slots :
              Off(opIndex) - (opTotal - opLeft) <= Off(j) => ~EndsAt(j)
      BY DEF IFill
    <3>3. opLeft \in Nat /\ opTotal \in Nat /\ Off(opIndex) \in Nat
      BY <1>1, <1>3, <1>4, TxConstants DEF TypeOK, OutputType
    <3>4. Boundary(Off(opIndex) - (opTotal - opLeft))'
      <4>1. /\ Off(opIndex)' - (opTotal' - opLeft') = Off(opIndex) - (opTotal - opLeft)
            /\ Off(opIndex) - (opTotal - opLeft) \in Int
            /\ Off(opIndex) - (opTotal - opLeft) <= Off(opIndex)
        BY <3>1, <3>2, <3>3
      <4>2. Boundary(Off(opIndex) - (opTotal - opLeft))
        BY <3>2
      <4> DEFINE e == Off(opIndex) - (opTotal - opLeft)
      <4>3. ASSUME NEW d \in Int, d = e
            PROVE  Boundary(d)'
        BY <1>7, <4>1, <4>2, <4>3
      <4> QED
        BY <4>1, <4>3
    <3>5. /\ opLeft' >= 1 /\ opLeft' <= opTotal' /\ opTotal' <= MaxSegs + 1
          /\ Off(opIndex)' + opLeft' = Used'
          /\ opTotal' - opLeft' <= Off(opIndex)' - cleaned' - lostDescs'
          /\ Off(opIndex)' - (opTotal' - opLeft') = Off(opIndex) - (opTotal - opLeft)
      BY <1>1, <1>2, <1>4, <1>9, <2>2, <3>1, <3>2, <3>3, TxConstants
    <3>6. Boundary(Off(opIndex) - (opTotal - opLeft))'
      BY <3>4, <3>5
    <3>7. ASSUME NEW j \in Slots,
                 Off(opIndex)' - (opTotal' - opLeft') <= Off(j)'
          PROVE  ~EndsAt(j)'
      <4>1. Off(j)' = Off(j)
        BY <1>2
      <4>2. CASE j = opIndex
        BY <1>12, <2>2, <4>2
      <4>3. CASE j # opIndex
        BY <1>6, <3>2, <3>5, <3>7, <4>1, <4>3
      <4> QED
        BY <4>2, <4>3
    <3> QED
      BY <3>1, <3>5, <3>6, <3>7 DEF IFill
  <2> QED
    BY <2>1, <2>2
<1>25. ICount'
  <2>1. wl = "count" => txDirtyIndex # opIndex
    BY <1>1, <1>3, <1>5 DEF ICount, IOrder, TypeOK, RingType
  <2> QED
    BY <1>1, <1>2, <1>6, <1>9, <2>1 DEF ICount, TypeOK, RingType
<1>26. INic'
  <2>1. /\ wl \in Live => op # "barrier" /\ Off(tdt) <= Off(txCleanBarrierIndex)
        /\ op' # "barrier" /\ wl # "flushed"
    BY <1>4 DEF INic, Stopped
  <2> QED
    BY <1>1, <1>2, <1>6, <2>1 DEF INic, TypeOK, RingType, SlotType
<1>27. IHeld'
  <2>1. CASE LastOfLost
    <3>1. op' = "loop" /\ opMbuf' = NoMbuf /\ lost' = lost \cup {opMbuf}
      BY <2>1 DEF LastOfLost
    <3>2. txBufMbuf' = txBufMbuf
      BY <1>1, <1>4, <1>10, <2>1 DEF EndsAt, TypeOK, SlotType
    <3> QED
      BY <1>9, <3>1, <3>2 DEF IHeld
  <2>2. CASE ~LastOfLost
    <3>1. lost' = lost
      BY <2>2
    <3>2. CASE opLeft = 1
      <4>1. txBufMbuf'[opIndex] = opMbuf /\ opMbuf' = NoMbuf /\ op' = "loop"
        BY <1>1, <1>4, <2>2, <3>2 DEF TypeOK, SlotType
      <4> QED
        BY <1>4, <1>6, <1>9, <1>10, <3>1, <4>1 DEF IHeld, EndsAt
    <3>3. CASE opLeft # 1
      <4>1. txBufMbuf' = txBufMbuf /\ opMbuf' = opMbuf /\ op' = op
        BY <1>1, <1>4, <1>10, <3>3 DEF EndsAt, TypeOK, SlotType
      <4> QED
        BY <3>1, <4>1 DEF IHeld
    <3> QED
      BY <3>2, <3>3
  <2> QED
    BY <2>1, <2>2
<1>8. ITile'
  <2> SUFFICES ASSUME NEW i \in Slots
               PROVE  Tile(i)'
    BY DEF ITile
  <2>2. CASE i = opIndex
    <3>1. CASE opLeft = 1
      <4>7. opTotal \in Nat /\ Off(opIndex) \in Nat
        BY <1>1, <1>3, <1>4, TxConstants DEF TypeOK, OutputType
      <4>8. PICK b \in Int : b = Off(opIndex) - (opTotal - opLeft)
        BY <3>1, <4>7
      <4>1. /\ b = Off(opIndex) - opTotal + 1
            /\ opTotal \in Nat /\ 1 <= opTotal
            /\ opTotal <= Off(opIndex) + 1 - cleaned - lostDescs
            /\ b <= Off(opIndex) /\ Boundary(b)
            /\ \A j \in Slots : b <= Off(j) => ~EndsAt(j)
        <5>1. /\ opLeft <= opTotal
              /\ opTotal - opLeft <= Off(opIndex) - cleaned - lostDescs
              /\ Boundary(Off(opIndex) - (opTotal - opLeft))
              /\ \A j \in Slots :
                   Off(opIndex) - (opTotal - opLeft) <= Off(j) => ~EndsAt(j)
          BY DEF IFill
        <5>2. /\ Boundary(b) /\ \A j \in Slots : b <= Off(j) => ~EndsAt(j)
          BY <4>8, <5>1
        <5> QED
          BY <1>4, <1>9, <3>1, <4>7, <4>8, <5>1, <5>2
      <4>2. DescsOf(i)' = opTotal /\ Off(i)' = Off(opIndex)
        BY <1>2, <1>12, <2>2, <3>1
      <4>3. Boundary(b)'
        BY <1>7, <4>1
      <4>4. ASSUME NEW j \in Slots, Off(opIndex) - opTotal < Off(j),
                   Off(j) < Off(opIndex)
            PROVE  ~EndsAt(j)'
        <5>1. j # opIndex /\ ~EndsAt(j)
          BY <1>3, <1>4, <4>1, <4>4, <4>7
        <5> QED
          BY <1>6, <5>1
      <4>5. Off(i)' - DescsOf(i)' + 1 = b
        BY <4>1, <4>2
      <4>6. Boundary(Off(i) - DescsOf(i) + 1)'
        BY <4>3, <4>5
      <4> QED
        BY <1>2, <1>4, <1>9, <4>1, <4>2, <4>4, <4>6 DEF Tile
    <3>2. CASE opLeft # 1
      BY <1>12, <2>2, <3>2 DEF Tile
    <3> QED
      BY <3>1, <3>2
  <2>3. CASE i # opIndex
    <3>8. CASE ~EndsAt(i)
      BY <1>6, <2>3, <3>8 DEF Tile
    <3> SUFFICES ASSUME EndsAt(i)
                 PROVE  Tile(i)'
      BY <3>8
    <3>1. /\ Tile(i) /\ Off(i) < Off(opIndex)
          /\ DescsOf(i) \in Nat /\ 1 <= DescsOf(i)
      BY <1>1, <1>5, TxConstants DEF ITile, Tile, IBufs, DescsOf, TypeOK, SlotType
    <3>2. Off(i) - DescsOf(i) + 1 \in Int /\ Off(i) - DescsOf(i) + 1 <= Off(opIndex)
      BY <3>1, <1>3, <1>4
    <3>3. Off(i)' = Off(i) /\ DescsOf(i)' = DescsOf(i)
      BY <1>2, <1>6, <2>3
    <3>4. ASSUME NEW e, e = Off(i) - DescsOf(i) + 1
          PROVE  Boundary(e)'
      BY <1>7, <3>1, <3>2, <3>4 DEF Tile
    <3>5. Boundary(Off(i) - DescsOf(i) + 1)'
      BY <3>3, <3>4
    <3>6. ASSUME NEW j \in Slots, Off(i) - DescsOf(i) < Off(j), Off(j) < Off(i)
          PROVE  ~EndsAt(j)'
      BY <1>3, <1>4, <1>6, <3>1, <3>6 DEF Tile
    <3> QED
      BY <1>2, <1>4, <1>9, <3>1, <3>3, <3>5, <3>6 DEF Tile
  <2> QED
    BY <2>2, <2>3
<1>11. IDma'
  <2> SUFFICES ASSUME NEW i \in Slots, Off(i) <= Off(opIndex)
               PROVE  /\ wl \in Live /\ Off(tdh) <= Off(i) =>
                           descBuf'[i] \in held \cup {NoMbuf}
                      /\ \A j \in Slots : (txBufMbuf'[j] # NoMbuf /\ descBuf'[i] = txBufMbuf'[j])
                           => Off(i) <= Off(j)
    BY <1>1, <1>2, <1>3, <1>4, <1>5 DEF IDma, TypeOK, SlotType, OutputType
  <2>1. \A j \in Slots : txBufMbuf'[j] # NoMbuf => j = opIndex \/ txBufMbuf[j] = txBufMbuf'[j]
    BY <1>6
  <2>4. txBufMbuf'[opIndex] \in {NoMbuf, opMbuf}
    BY <1>1, <1>4 DEF TypeOK, SlotType
  <2>2. CASE i = opIndex
    <3>1. descBuf'[i] = opMbuf /\ opMbuf \in held
      BY <1>1, <1>9, <2>2 DEF IHeld, TypeOK, SlotType
    <3>2. \A j \in Slots : j # opIndex => txBufMbuf'[j] # opMbuf
      BY <1>6, <1>9 DEF IHeld
    <3> QED
      BY <1>3, <2>2, <3>1, <3>2
  <2>3. CASE i # opIndex
    <3>1. Off(i) < Off(FillIndex) /\ descBuf'[i] = descBuf[i]
      BY <1>3, <1>4, <1>5, <1>6, <2>3
    <3> QED
      BY <1>3, <1>4, <2>1, <2>4, <3>1 DEF IDma
  <2> QED
    BY <2>2, <2>3
<1>13. IControl'
  BY <1>4 DEF IControl, Stopped
<1> QED
  BY <1>1, <1>8, <1>11, <1>13, <1>21, <1>22, <1>23, <1>24, <1>25, <1>26, <1>27

(* The NIC consumes one descriptor.                                         *)
LEMMA InvNicProcess ==
  ASSUME IInv, NicProcess
  PROVE  IInv'
<1> USE DEF Off
<1>1. TypeOK /\ TypeOK'
  BY NextType DEF IInv, Next
<1>2. SameRing /\ UNCHANGED <<txDirtyIndex, txCleanBarrierIndex, tdt, op, wl>>
  BY DEF SameRing, NicProcess, ringVars, opVars, wlVars, lossVars
<1>10. /\ IFree' /\ IOrder' /\ IBufs' /\ ITile' /\ IFill' /\ IHeld'
       /\ RingHead' = RingHead
       /\ (wl' \in Live => wl \in Live /\ Off(tdh) <= Off(tdh)') => IDma'
  BY <1>1, <1>2, SameRingInv DEF NicProcess, ringVars
<1>4. wl \in Live /\ wl \notin {"clear", "off", "down"}
  BY <1>1 DEF IInv, INic, NicProcess, Live, TypeOK, WorkLoopType
<1>5. /\ tdh \in Slots /\ tdt \in Slots
      /\ \A i \in Slots : Off(i) \in 0 .. NumTxDesc - 1
      /\ Off(tdh) < Off(tdt)
  BY <1>1, <1>4, RingFacts DEF IInv, INic, NicProcess, TypeOK, RingType
<1>6. Off(tdh)' = Off(tdh) + 1
  <2>1. Off(tdh) < NumTxDesc - 1
    BY <1>5, TxConstants
  <2>2. Off(Next1(tdh)) = Off(tdh) + 1
    BY <1>1, <1>5, <2>1, RingFacts DEF IInv
  <2> QED
    BY <1>10, <2>2 DEF NicProcess
<1>3. /\ IFree' /\ IOrder' /\ IBufs' /\ ITile' /\ IFill' /\ IDma' /\ IHeld'
      /\ RingHead' = RingHead
  BY <1>4, <1>5, <1>6, <1>10
<1>7. ICount'
  <2>1. txDirtyIndex \in Slots
    BY <1>1 DEF TypeOK, RingType
  <2> QED
    BY <1>2, <1>3, <1>5, <1>6, <2>1
       DEF IInv, ICount, EndsAt, SameRing, lossVars
<1>8. INic'
  <2>1. Off(tdh)' <= Off(tdt)'
    BY <1>2, <1>3, <1>5, <1>6
  <2>2. ASSUME NEW i \in Slots, txBufMbuf[i] # NoMbuf, descDone'[i]
        PROVE  Off(i) < Off(tdh) + 1
    <3>1. CASE i = tdh
      BY <1>5, <3>1
    <3>2. CASE i # tdh
      <4>1. descDone[i]
        BY <1>1, <2>2, <3>2 DEF NicProcess, TypeOK, SlotType
      <4> QED
        BY <1>4, <1>5, <2>2, <4>1 DEF IInv, INic
    <3> QED
      BY <3>1, <3>2
  <2>3. UNCHANGED <<txBufMbuf, txNextDescIndex>>
    BY DEF NicProcess, ringVars
  <2> QED
    BY <1>2, <1>3, <1>4, <1>6, <2>1, <2>2, <2>3 DEF IInv, INic
<1>9. IControl'
  BY DEF IInv, IControl, EndsAt, NicProcess, ringVars, opVars, wlVars, lossVars
<1> QED
  BY <1>1, <1>3, <1>7, <1>8, <1>9 DEF IInv

(* txInterrupt passes a slot without a record.  When a lost packet ends     *)
(* there, it is the oldest in the ring, and its descriptors join those that  *)
(* are gone for good.                                                        *)
LEMMA InvCleanSkip ==
  ASSUME IInv, CleanSkip
  PROVE  IInv'
<1> USE DEF Off
<1> DEFINE d == txDirtyIndex
<1>1. TypeOK /\ TypeOK'
  BY NextType DEF IInv, Next, WorkLoop
<1>2. /\ RingHead' = RingHead /\ Used' = Used /\ FillIndex' = FillIndex
      /\ UNCHANGED <<txNumFreeDesc, txNextDescIndex, txCleanBarrierIndex,
                     nicVars, opVars, slotVars, wl, cleaned, running, held,
                     lost>>
  BY DEF CleanSkip, slotVars, opVars, wlVars, RingHead, Used, FillIndex
<1>3. /\ d \in Slots /\ txCleanBarrierIndex \in Slots
      /\ FillIndex \in Slots
      /\ \A i \in Slots : Off(i) \in 0 .. NumTxDesc - 1
      /\ \A i, j \in Slots : Off(i) = Off(j) => i = j
      /\ Off(d) < Off(txCleanBarrierIndex)
      /\ Off(txCleanBarrierIndex) <= Off(FillIndex) /\ Off(FillIndex) <= Used
      /\ Used \in Nat
  BY <1>1, RingFacts
     DEF IInv, IOrder, CleanSkip, FillIndex, TypeOK, RingType, OutputType
<1>4. wl = "scan" /\ cleaned = 0 /\ lostDescs <= Off(d) /\ lostDescs \in Nat
  BY <1>1 DEF IInv, ICount, CleanSkip, TypeOK, LossType
<1>5. Off(txDirtyIndex)' = Off(d) + 1
  <2>1. Off(d) < NumTxDesc - 1
    BY <1>3, TxConstants DEF CleanSkip
  <2>2. Off(Next1(d)) = Off(d) + 1
    BY <1>1, <1>3, <2>1, RingFacts DEF IInv
  <2> QED
    BY <1>2, <2>2 DEF CleanSkip
<1>6. \A i \in Slots : /\ Off(i)' = Off(i)
                       /\ EndsAt(i)' <=> (EndsAt(i) /\ i # d)
                       /\ i # d => DescsOf(i)' = DescsOf(i)
  <2>1. UNCHANGED <<txBufMbuf, txBufNum>> /\ txBufMbuf[d] = NoMbuf
    BY <1>2 DEF CleanSkip, slotVars
  <2>2. lostAt' = lostAt \ {d}
    BY DEF CleanSkip
  <2> QED
    BY <1>2, <2>1, <2>2 DEF EndsAt, DescsOf
<1>7. IFree' /\ IOrder'
  BY <1>2, <1>3, <1>5 DEF IInv, IFree, IOrder, CleanSkip
<1>8. IBufs'
  <2>1. ASSUME NEW i \in Slots, EndsAt(i)'
        PROVE  Off(d) + 1 <= Off(i) /\ Off(i) < Off(FillIndex)
    BY <1>3, <1>6, <2>1 DEF IInv, IBufs
  <2>2. \A i \in Slots : i \in lostAt' => txBufMbuf'[i] = NoMbuf
    BY <1>2 DEF CleanSkip, slotVars, IInv, IBufs
  <2> QED
    BY <1>2, <1>5, <1>6, <2>1, <2>2 DEF IBufs
<1>9. lostDescs' \in Nat /\ lostDescs <= lostDescs' /\ lostDescs' <= Off(d) + 1
  <2>1. CASE d \in lostAt
    BY <1>3, <1>4, <2>1 DEF IInv, ITile, Tile, EndsAt, DescsOf, CleanSkip
  <2>2. CASE d \notin lostAt
    BY <1>3, <1>4, <2>2 DEF CleanSkip
  <2> QED
    BY <2>1, <2>2
<1>10. ASSUME d \notin lostAt
       PROVE  ITile' /\ IFill'
  <2>1. SameRing
    BY <1>10 DEF SameRing, CleanSkip, slotVars, opVars, wlVars, lossVars
  <2> QED
    BY <1>1, <2>1, SameRingInv
<1>11. ASSUME d \in lostAt
       PROVE  ITile' /\ IFill'
  <2>1. lostDescs = Off(d) - 1 /\ lostDescs' = Off(d) + 1
    <3>1. EndsAt(d) /\ DescsOf(d) = 2
      BY <1>11 DEF EndsAt, DescsOf
    <3>2. PICK e \in Int : e = Off(d) - DescsOf(d) + 1
      BY <1>3, <3>1
    <3>3. Boundary(e)
      BY <1>3, <3>1, <3>2 DEF IInv, ITile, Tile
    <3>4. ~ \E j \in Slots : Off(j) = e - 1 /\ EndsAt(j)
      BY <1>3, <3>1, <3>2 DEF IInv, IBufs
    <3>5. lostDescs = e
      BY <1>4, <3>3, <3>4 DEF Boundary
    <3> QED
      BY <1>3, <1>4, <1>11, <3>1, <3>2, <3>5 DEF CleanSkip
  <2>2. ASSUME NEW e \in Int, Off(d) + 1 <= e, Boundary(e)
        PROVE  Boundary(e)'
    <3>1. PICK j \in Slots : Off(j) = e - 1 /\ EndsAt(j)
      BY <1>3, <1>4, <2>1, <2>2 DEF Boundary
    <3>2. CASE j = d
      BY <1>3, <2>1, <2>2, <3>1, <3>2 DEF Boundary
    <3>3. CASE j # d
      BY <1>6, <3>1, <3>3 DEF Boundary
    <3> QED
      BY <3>2, <3>3
  <2>3. EndsAt(d) /\ \A i \in Slots : EndsAt(i) /\ i # d => Off(d) < Off(i)
    BY <1>3, <1>11 DEF IInv, IBufs, EndsAt
  <2>4. ITile'
    <3> SUFFICES ASSUME NEW i \in Slots, i # d, EndsAt(i)
                 PROVE  Tile(i)'
      BY <1>6 DEF ITile, Tile
    <3>1. Tile(i) /\ DescsOf(i) \in Nat /\ Off(i) \in Nat
      BY <1>1, <1>3, TxConstants DEF IInv, ITile, DescsOf, TypeOK, SlotType
    <3>2. Off(d) <= Off(i) - DescsOf(i)
      BY <1>3, <2>3, <3>1 DEF Tile
    <3>3. PICK e \in Int : e = Off(i) - DescsOf(i) + 1
      BY <3>1
    <3>4. Off(d) + 1 <= e /\ Boundary(e)
      BY <1>3, <3>1, <3>2, <3>3 DEF Tile
    <3>5. Boundary(e)'
      BY <2>2, <3>4
    <3>6. Off(i)' - DescsOf(i)' + 1 = e
      BY <1>6, <3>3
    <3>7. Boundary(Off(i) - DescsOf(i) + 1)'
      BY <3>5, <3>6
    <3>8. DescsOf(i)' <= Off(i)' + 1 - cleaned' - lostDescs'
      BY <1>2, <1>3, <1>4, <1>6, <2>1, <3>1, <3>2
    <3> QED
      BY <1>6, <3>1, <3>7, <3>8 DEF Tile
  <2>5. ASSUME op = "fill"
        PROVE  IFill'
    <3>1. /\ opTotal \in Nat /\ opLeft \in Nat /\ Off(opIndex) \in Nat
      BY <1>1, <1>3, TxConstants DEF TypeOK, OutputType
    <3>2. PICK e \in Int : e = Off(opIndex) - (opTotal - opLeft)
      BY <3>1
    <3>3. Boundary(e) /\ Off(d) < e
      BY <1>3, <2>3, <2>5, <3>1, <3>2 DEF IInv, IFill
    <3>4. Boundary(e)'
      BY <1>3, <2>2, <3>3
    <3>5. UNCHANGED <<op, opIndex, opTotal, opLeft>>
      BY <1>2 DEF opVars
    <3>6. (Off(opIndex) - (opTotal - opLeft))' = e
      BY <1>2, <3>2, <3>5
    <3>7. Boundary(Off(opIndex) - (opTotal - opLeft))'
      BY <3>4, <3>6
    <3>8. opTotal' - opLeft' <= Off(opIndex)' - cleaned' - lostDescs'
      BY <1>2, <1>3, <1>4, <2>1, <3>1, <3>2, <3>3, <3>5
    <3> QED
      BY <1>2, <1>6, <2>5, <3>5, <3>7, <3>8 DEF IInv, IFill
  <2>6. ASSUME op # "fill"
        PROVE  IFill'
    <3>1. Boundary(Used)
      BY <1>4, <2>6 DEF IInv, IFill, Flushed
    <3>2. PICK e \in Int : e = Used
      BY <1>3
    <3>3. Boundary(e)'
      BY <1>3, <2>2, <3>1, <3>2
    <3>4. Boundary(Used)'
      BY <1>2, <3>2, <3>3
    <3> QED
      BY <1>2, <2>6, <3>4 DEF IFill, opVars
  <2> QED
    BY <2>4, <2>5, <2>6
<1>12. ICount' /\ INic'
  <2>1. ICount'
    BY <1>2, <1>4, <1>5, <1>9 DEF ICount
  <2>2. INic'
    BY <1>2 DEF IInv, INic, CleanSkip, nicVars, slotVars, opVars
  <2> QED
    BY <2>1, <2>2
<1>13. IDma' /\ IHeld'
  BY <1>2 DEF IInv, IDma, IHeld, nicVars, slotVars, opVars
<1>14. IControl'
  BY <1>2, <1>4 DEF IInv, IControl, opVars, Stopped
<1> QED
  BY <1>1, <1>7, <1>8, <1>10, <1>11, <1>12, <1>13, <1>14 DEF IInv

(* txInterrupt frees a packet that is done: it is the oldest in the ring,   *)
(* and the NIC has left it.                                                  *)
LEMMA InvCleanFree ==
  ASSUME IInv, CleanFree
  PROVE  IInv'
<1> USE DEF Off
<1> DEFINE d == txDirtyIndex
<1>1. TypeOK /\ TypeOK'
  BY NextType DEF IInv, Next, WorkLoop
<1>2. /\ RingHead' = RingHead /\ Used' = Used /\ FillIndex' = FillIndex
      /\ UNCHANGED <<ringVars, opVars, nicVars, descBuf, descDone, running,
                     lossVars>>
  BY DEF CleanFree, ringVars, opVars, RingHead, Used, FillIndex
<1>3. /\ d \in Slots
      /\ \A i \in Slots : Off(i) \in 0 .. NumTxDesc - 1
      /\ \A i, j \in Slots : Off(i) = Off(j) => i = j
  BY <1>1, RingFacts DEF IInv, TypeOK, RingType
<1>4. /\ wl = "scan" /\ wl' = "count" /\ cleaned = 0 /\ txBufMbuf[d] # NoMbuf
      /\ d \notin lostAt /\ EndsAt(d) /\ DescsOf(d) = txBufNum[d]
      /\ lostDescs \in Nat
  BY <1>1, <1>3
     DEF IInv, ICount, IBufs, EndsAt, DescsOf, CleanFree, TypeOK, LossType
<1>5. /\ txBufMbuf'[d] = NoMbuf
      /\ \A i \in Slots : i # d => /\ txBufMbuf'[i] = txBufMbuf[i]
                                   /\ DescsOf(i)' = DescsOf(i)
      /\ \A i \in Slots : EndsAt(i)' <=> (EndsAt(i) /\ i # d)
  BY <1>1, <1>2, <1>3, <1>4
     DEF CleanFree, EndsAt, DescsOf, lossVars, TypeOK, SlotType
<1>6. \A i \in Slots : EndsAt(i) /\ i # d => Off(d) < Off(i)
  BY <1>3 DEF IInv, IBufs
<1>7. cleaned' \in Nat /\ cleaned' >= 1 /\ cleaned' + lostDescs = Off(d) + 1
  <2>1. txBufNum[d] \in Nat /\ 1 <= txBufNum[d]
    BY <1>1, <1>3, <1>4, TxConstants
       DEF IInv, ITile, Tile, TypeOK, SlotType
  <2>2. PICK e \in Int : e = Off(d) - txBufNum[d] + 1
    BY <1>3, <2>1
  <2>3. Boundary(e)
    BY <1>3, <1>4, <2>2 DEF IInv, ITile, Tile
  <2>4. ~ \E j \in Slots : Off(j) = e - 1 /\ EndsAt(j)
    BY <1>3, <1>6, <2>1, <2>2
  <2>5. e = lostDescs
    BY <1>4, <2>3, <2>4 DEF Boundary
  <2> QED
    BY <1>3, <1>4, <2>1, <2>2, <2>5 DEF CleanFree
<1>8. ASSUME NEW e, Boundary(e)
      PROVE  Boundary(e)'
  BY <1>2, <1>4, <1>5, <1>8 DEF Boundary, ringVars, lossVars
<1>9. IFree'
  BY <1>2, <1>4 DEF IInv, IFree, ringVars, Flushed
<1>10. IOrder' /\ IBufs'
  BY <1>2, <1>4, <1>5 DEF IInv, IOrder, IBufs, ringVars, lossVars
<1>11. ITile'
  <2> SUFFICES ASSUME NEW i \in Slots, i # d, EndsAt(i)
               PROVE  Tile(i)'
    BY <1>5 DEF ITile, Tile
  <2>1. Tile(i) /\ DescsOf(i) \in Nat /\ Off(i) \in Nat
    BY <1>1, <1>3, TxConstants DEF IInv, ITile, DescsOf, TypeOK, SlotType
  <2>2. Off(d) <= Off(i) - DescsOf(i)
    BY <1>3, <1>4, <1>6, <2>1 DEF Tile
  <2>3. PICK e \in Int : e = Off(i) - DescsOf(i) + 1
    BY <2>1
  <2>4. Off(i)' = Off(i) /\ DescsOf(i)' = DescsOf(i)
    BY <1>2, <1>5
  <2>5. DescsOf(i)' <= Off(i)' + 1 - cleaned' - lostDescs'
    BY <1>2, <1>3, <1>4, <1>7, <2>1, <2>2, <2>4 DEF lossVars
  <2>6. Boundary(e)'
    BY <1>8, <2>1, <2>3 DEF Tile
  <2>7. Boundary(Off(i) - DescsOf(i) + 1)'
    BY <2>3, <2>4, <2>6
  <2> QED
    BY <1>2, <1>5, <2>1, <2>4, <2>5, <2>7 DEF Tile
<1>12. IFill'
  <2>1. ASSUME op = "fill"
        PROVE  /\ opTotal - opLeft <= Off(opIndex) - cleaned' - lostDescs
               /\ Boundary(Off(opIndex) - (opTotal - opLeft))'
    <3>1. opTotal \in Nat /\ opLeft \in Nat /\ Off(opIndex) \in Nat
      BY <1>1, <1>3, TxConstants DEF TypeOK, OutputType
    <3>2. PICK e \in Int : e = Off(opIndex) - (opTotal - opLeft)
      BY <3>1
    <3>3. Off(d) < e /\ Boundary(e)
      BY <1>3, <1>4, <2>1, <3>1, <3>2 DEF IInv, IFill
    <3>4. (Off(opIndex) - (opTotal - opLeft))' = e
      BY <1>2, <3>2 DEF opVars
    <3>5. Boundary(e)'
      BY <1>8, <3>3
    <3>6. Boundary(Off(opIndex) - (opTotal - opLeft))'
      BY <3>4, <3>5
    <3> QED
      BY <1>3, <1>4, <1>7, <3>1, <3>2, <3>3, <3>6
  <2>2. ASSUME op # "fill"
        PROVE  Boundary(Used)'
    <3>1. Boundary(Used)
      BY <1>4, <2>2 DEF IInv, IFill, Flushed
    <3>2. PICK e : e = Used
      OBVIOUS
    <3>3. Boundary(e)'
      BY <1>8, <3>1, <3>2
    <3> QED
      BY <1>2, <3>2, <3>3
  <2> QED
    BY <1>2, <1>5, <2>1, <2>2 DEF IInv, IFill, opVars, lossVars
<1>13. Off(d) < Off(tdh) /\ ICount' /\ INic'
  <2>1. Off(d) < Off(tdh)
    BY <1>3, <1>4 DEF IInv, INic, CleanFree, Live
  <2>2. ICount'
    BY <1>2, <1>3, <1>4, <1>5, <1>7, <2>1
       DEF ICount, CleanFree, ringVars, nicVars, lossVars
  <2>3. INic'
    BY <1>2, <1>4, <1>5 DEF IInv, INic, CleanFree, ringVars, nicVars, opVars, Live
  <2> QED
    BY <2>1, <2>2, <2>3
<1>14. IDma'
  <2> SUFFICES ASSUME NEW i \in Slots, Off(i) < Off(FillIndex)
               PROVE  /\ Off(tdh) <= Off(i) => descBuf[i] \in held' \cup {NoMbuf}
                      /\ \A j \in Slots :
                           (txBufMbuf'[j] # NoMbuf /\ descBuf[i] = txBufMbuf'[j])
                             => Off(i) <= Off(j)
    BY <1>2 DEF IDma, nicVars
  <2>1. ASSUME Off(tdh) <= Off(i)
        PROVE  descBuf[i] \in held \cup {NoMbuf} /\ descBuf[i] # txBufMbuf[d]
    <3>1. Off(d) < Off(i)
      <4>1. tdh \in Slots
        BY <1>1 DEF TypeOK, RingType
      <4> QED
        BY <1>3, <1>13, <2>1, <4>1
    <3> QED
      BY <1>3, <1>4, <2>1, <3>1 DEF IInv, IDma, Live
  <2> QED
    BY <1>5, <2>1 DEF IInv, IDma, CleanFree
<1>15. IHeld'
  BY <1>2, <1>3, <1>4, <1>5 DEF IInv, IHeld, CleanFree, opVars, lossVars
<1>16. IControl'
  BY <1>2, <1>4 DEF IInv, IControl, opVars, ringVars, Stopped
<1> QED
  BY <1>1, <1>9, <1>10, <1>11, <1>12, <1>13, <1>14, <1>15, <1>16 DEF IInv

(* txInterrupt gives the descriptors of the freed packet back: RingHead moves   *)
(* on by as many slots, and every other pointer is beyond them.             *)
LEMMA InvCleanCount ==
  ASSUME IInv, CleanCount
  PROVE  IInv'
<1> USE DEF Off
<1> DEFINE d == txDirtyIndex
<1>1. TypeOK /\ TypeOK'
  BY NextType DEF IInv, Next, WorkLoop
<1>2. /\ d \in Slots /\ RingHead \in Slots /\ Used \in 0 .. NumTxDesc - 1
      /\ \A i \in Slots : Off(i) \in 0 .. NumTxDesc - 1
      /\ \A i, j \in Slots : Off(i) = Off(j) => i = j
      /\ Off(txNextDescIndex) = Used
      /\ FillIndex \in Slots
  BY <1>1, RingFacts DEF IInv, TypeOK, RingType, OutputType, FillIndex
<1>3. /\ cleaned + lostDescs = Off(d) + 1 /\ cleaned >= 1 /\ ~EndsAt(d)
      /\ cleaned \in Nat /\ lostDescs \in Nat
      /\ Off(d) < Off(txCleanBarrierIndex) /\ Off(d) < Off(tdh)
      /\ Off(txCleanBarrierIndex) <= Off(FillIndex) /\ Off(FillIndex) <= Used
      /\ wl = "count" /\ wl' = "scan" /\ cleaned' = 0 /\ txDirtyIndex' = Next1(d)
  BY <1>1, <1>2, TxConstants
     DEF IInv, ICount, IOrder, CleanCount, TypeOK, RingType, WorkLoopType,
         LossType
<1>4. /\ cleaned \in 1 .. NumTxDesc - 1 /\ cleaned <= Used
      /\ NumTxDesc \in Nat
  BY <1>1, <1>2, <1>3, TxConstants DEF TypeOK, RingType
<1>5. /\ RingHead' = Advance(RingHead, cleaned) /\ Used' = Used - cleaned
      /\ FillIndex' = FillIndex
      /\ UNCHANGED <<txNextDescIndex, txCleanBarrierIndex, slotVars, opVars,
                     nicVars, held, running, lossVars>>
  <2>1. txNumFreeDesc \in Nat /\ txNumFreeDesc + cleaned <= NumTxDesc
    BY <1>1, <1>4 DEF Used, TypeOK, RingType, IInv, IFree
  <2>2. Advance(txNextDescIndex, txNumFreeDesc + cleaned)
          = Advance(RingHead, cleaned)
    BY <1>1, <1>4, <2>1, AdvanceAdvance DEF RingHead, TypeOK, RingType
  <2> QED
    BY <1>4, <2>1, <2>2 DEF RingHead, Used, FillIndex, CleanCount, opVars
<1>6. \A i \in Slots :
        /\ Off(i) >= cleaned => Off(i)' = Off(i) - cleaned
        /\ Off(i) < cleaned => Off(i)' = Off(i) - cleaned + NumTxDesc
  BY <1>2, <1>4, <1>5, DistShift
<1>7. txDirtyIndex' \in Slots /\ Off(txDirtyIndex)' = lostDescs
  <2>1. Next1(d) \in Slots /\ Off(Next1(d)) = cleaned + lostDescs
    <3>1. Off(d) < NumTxDesc - 1
      BY <1>1, <1>2, <1>3, <1>4 DEF TypeOK, RingType
    <3> QED
      BY <1>1, <1>2, <1>3, <3>1, RingFacts DEF IInv
  <2>2. Dist(RingHead', Next1(d)) = lostDescs
    BY <1>3, <1>4, <1>6, <2>1
  <2> QED
    BY <1>3, <2>1, <2>2
<1>8. \A i \in Slots : /\ EndsAt(i) => cleaned + lostDescs <= Off(i)
                       /\ EndsAt(i)' <=> EndsAt(i)
                       /\ DescsOf(i)' = DescsOf(i)
  <2>1. \A i \in Slots : EndsAt(i) => cleaned + lostDescs <= Off(i)
    BY <1>2, <1>3 DEF IInv, IBufs
  <2> QED
    BY <1>5, <2>1 DEF EndsAt, DescsOf, slotVars, lossVars
<1>9. ASSUME NEW e \in Int, lostDescs < e, Boundary(e)
      PROVE  \A f : f = e - cleaned => Boundary(f)'
  <2>1. PICK j \in Slots : Off(j) = e - 1 /\ (EndsAt(j) \/ j = d)
    BY <1>3, <1>9 DEF Boundary
  <2>2. CASE j = d
    BY <1>3, <1>5, <2>1, <2>2 DEF Boundary, lossVars
  <2>3. CASE j # d
    <3>1. Off(j)' = e - cleaned - 1
      BY <1>2, <1>3, <1>6, <1>8, <2>1, <2>3
    <3> QED
      BY <1>8, <2>1, <2>3, <3>1 DEF Boundary
  <2> QED
    BY <2>2, <2>3
<1>10. IFree'
  BY <1>1, <1>3, <1>4 DEF IInv, IFree, CleanCount, Used, Flushed, TypeOK, RingType
<1>11. IOrder'
  BY <1>1, <1>2, <1>3, <1>4, <1>5, <1>6, <1>7
     DEF IInv, IOrder, TypeOK, RingType
<1>12. IBufs'
  <2>1. FillIndex' = FillIndex /\ Off(FillIndex)' = Off(FillIndex) - cleaned
    BY <1>1, <1>2, <1>3, <1>4, <1>5, <1>6 DEF TypeOK, RingType
  <2>2. ASSUME NEW i \in Slots, EndsAt(i)
        PROVE  lostDescs <= Off(i)' /\ Off(i)' < Off(FillIndex)'
    BY <1>2, <1>3, <1>6, <1>8, <2>1, <2>2 DEF IInv, IBufs
  <2>3. \A i \in Slots : i \in lostAt' => txBufMbuf'[i] = NoMbuf
    BY <1>5 DEF IInv, IBufs, slotVars, lossVars
  <2> QED
    BY <1>7, <1>8, <2>2, <2>3 DEF IBufs
<1>13. ITile'
  <2> SUFFICES ASSUME NEW i \in Slots, EndsAt(i)
               PROVE  Tile(i)'
    BY <1>8 DEF ITile, Tile
  <2>1. /\ Off(i)' = Off(i) - cleaned /\ DescsOf(i) \in Nat
        /\ Off(i) \in Nat /\ cleaned <= Off(i)
    BY <1>1, <1>2, <1>3, <1>6, <1>8, TxConstants DEF DescsOf, TypeOK, SlotType
  <2>2. Tile(i)
    BY DEF IInv, ITile
  <2>3. PICK e \in Int : e = Off(i) - DescsOf(i) + 1
    BY <2>1
  <2>4. lostDescs < e /\ Boundary(e)
    BY <1>3, <2>1, <2>2, <2>3 DEF Tile
  <2>5. PICK f \in Int : f = e - cleaned
    BY <1>3
  <2>6. Boundary(f)'
    BY <1>9, <2>4, <2>5
  <2>7. Off(i)' - DescsOf(i)' + 1 = f
    BY <1>3, <1>8, <2>1, <2>3, <2>5
  <2>8. Boundary(Off(i) - DescsOf(i) + 1)'
    BY <2>6, <2>7
  <2>9. ASSUME NEW j \in Slots, Off(i)' - DescsOf(i)' < Off(j)',
               Off(j)' < Off(i)'
        PROVE  ~EndsAt(j)'
    BY <1>2, <1>3, <1>4, <1>6, <1>8, <2>1, <2>2, <2>9 DEF Tile
  <2>10. 1 <= DescsOf(i)' /\ DescsOf(i)' <= Off(i)' + 1 - cleaned' - lostDescs'
    BY <1>3, <1>5, <1>8, <2>1, <2>2 DEF Tile, lossVars
  <2> QED
    BY <2>8, <2>9, <2>10 DEF Tile
<1>14. IFill'
  <2>1. ASSUME op = "fill"
        PROVE  /\ Off(opIndex)' = Off(opIndex) - cleaned
               /\ opTotal - opLeft <= Off(opIndex)' - lostDescs
               /\ Boundary(Off(opIndex) - (opTotal - opLeft))'
               /\ \A j \in Slots : Off(opIndex)' - (opTotal - opLeft) <= Off(j)'
                     => ~EndsAt(j)'
               /\ Off(opIndex)' + opLeft = Used'
    <3>1. /\ opTotal \in Nat /\ opLeft \in Nat /\ Off(opIndex) \in Nat
          /\ opIndex \in Slots
      BY <1>1, <1>2, TxConstants DEF TypeOK, OutputType
    <3>2. PICK start \in Int : start = Off(opIndex) - (opTotal - opLeft)
      BY <3>1
    <3>3. /\ opLeft <= opTotal /\ Off(opIndex) + opLeft = Used
          /\ cleaned + lostDescs <= start /\ start <= Off(opIndex)
          /\ Boundary(start)
          /\ \A j \in Slots : start <= Off(j) => ~EndsAt(j)
      BY <1>3, <2>1, <3>1, <3>2 DEF IInv, IFill
    <3>4. Off(opIndex)' = Off(opIndex) - cleaned
      <4>1. opIndex' = opIndex /\ cleaned <= Off(opIndex)
        BY <1>3, <1>5, <3>1, <3>3 DEF opVars
      <4> QED
        BY <1>6, <3>1, <4>1
    <3>5. PICK f \in Int : f = start - cleaned
      BY <1>3
    <3>6. Boundary(f)'
      BY <1>3, <1>9, <3>3, <3>5
    <3>7. (Off(opIndex) - (opTotal - opLeft))' = f
      BY <1>3, <1>5, <3>1, <3>2, <3>4, <3>5 DEF opVars
    <3>8. Boundary(Off(opIndex) - (opTotal - opLeft))'
      BY <3>6, <3>7
    <3>9. ASSUME NEW j \in Slots, Off(opIndex)' - (opTotal - opLeft) <= Off(j)'
          PROVE  ~EndsAt(j)'
      BY <1>2, <1>3, <1>4, <1>6, <1>8, <3>1, <3>2, <3>3, <3>4, <3>9
    <3> QED
      BY <1>2, <1>3, <1>5, <3>1, <3>2, <3>3, <3>4, <3>8, <3>9
  <2>2. ASSUME op # "fill"
        PROVE  Boundary(Used)'
    <3>1. Boundary(Used) /\ lostDescs < Used /\ Used \in Int
      BY <1>1, <1>2, <1>3, <2>2 DEF IInv, IFill, Flushed, TypeOK, RingType
    <3>2. PICK f \in Int : f = Used - cleaned
      BY <1>3, <3>1
    <3>3. Boundary(f)'
      BY <1>9, <3>1, <3>2
    <3> QED
      BY <1>5, <3>2, <3>3
  <2>3. cleaned' = 0 /\ lostDescs' = lostDescs
    BY <1>3, <1>5 DEF lossVars
  <2>4. ASSUME op = "fill"
        PROVE  opTotal - opLeft <= Off(opIndex)' - 0 - lostDescs
    <3>1. opIndex \in Slots /\ opIndex' = opIndex
      BY <1>1, <1>5 DEF TypeOK, OutputType, opVars
    <3>2. opTotal \in Nat /\ opLeft \in Nat
      BY <1>1, TxConstants DEF TypeOK, OutputType
    <3> QED
      BY <1>2, <1>3, <2>1, <2>4, <3>1, <3>2
  <2> QED
    BY <1>5, <2>1, <2>2, <2>3, <2>4 DEF IInv, IFill, opVars
<1>15. ICount'
  BY <1>3, <1>5, <1>7 DEF ICount, lossVars
<1>16. INic'
  <2>1. /\ Off(tdh)' = Off(tdh) - cleaned /\ Off(tdt)' = Off(tdt) - cleaned
        /\ Off(txCleanBarrierIndex)' = Off(txCleanBarrierIndex) - cleaned
        /\ Off(txNextDescIndex)' = Off(txNextDescIndex) - cleaned
    BY <1>1, <1>2, <1>3, <1>4, <1>5, <1>6
       DEF IInv, INic, Live, TypeOK, RingType, nicVars
  <2>2. /\ Off(tdh)' <= Off(tdt)'
        /\ Off(tdt)' <= IF op = "barrier" THEN Off(txNextDescIndex)'
                                          ELSE Off(txCleanBarrierIndex)'
    BY <1>1, <1>2, <1>3, <1>4, <2>1
       DEF IInv, INic, Live, TypeOK, RingType
  <2>3. ASSUME NEW i \in Slots, txBufMbuf[i] # NoMbuf, descDone[i]
        PROVE  Off(i)' < Off(tdh)'
    BY <1>1, <1>2, <1>3, <1>4, <1>6, <1>8, <2>1, <2>3
       DEF IInv, INic, EndsAt, Live, TypeOK, RingType
  <2> QED
    BY <1>3, <1>5, <2>2, <2>3 DEF INic, Live, slotVars, opVars
<1>17. IDma'
  <2>1. Off(FillIndex)' = Off(FillIndex) - cleaned
    BY <1>1, <1>2, <1>3, <1>4, <1>5, <1>6 DEF TypeOK, RingType
  <2>2. ASSUME NEW i \in Slots, Off(i)' < Off(FillIndex)'
        PROVE  Off(i) >= cleaned /\ Off(i) < Off(FillIndex)
    BY <1>2, <1>3, <1>4, <1>6, <2>1, <2>2
  <2>3. ASSUME NEW i \in Slots, NEW j \in Slots, Off(i)' < Off(FillIndex)',
               txBufMbuf[j] # NoMbuf, Off(i) <= Off(j)
        PROVE  Off(i)' <= Off(j)'
    BY <1>2, <1>3, <1>4, <1>6, <1>8, <2>2, <2>3 DEF EndsAt
  <2>4. ASSUME NEW i \in Slots, Off(i)' < Off(FillIndex)',
               Off(tdh)' <= Off(i)'
        PROVE  Off(tdh) <= Off(i)
    <3>1. Off(tdh)' = Off(tdh) - cleaned
      BY <1>1, <1>2, <1>3, <1>4, <1>5, <1>6 DEF TypeOK, RingType, nicVars
    <3>2. Off(tdh) \in Nat
      BY <1>1, <1>2 DEF TypeOK, RingType
    <3> QED
      BY <1>2, <1>3, <1>6, <2>2, <2>4, <3>1, <3>2
  <2>5. wl \in Live
    BY <1>3 DEF Live
  <2> QED
    BY <1>5, <2>2, <2>3, <2>4, <2>5 DEF IInv, IDma, slotVars
<1>18. IHeld' /\ IControl'
  BY <1>3, <1>5 DEF IInv, IHeld, IControl, opVars, slotVars, lossVars, Stopped
<1> QED
  BY <1>1, <1>10, <1>11, <1>12, <1>13, <1>14, <1>15, <1>16, <1>17, <1>18
     DEF IInv

(* outputStart takes the descriptors of a packet: the reserve leaves two    *)
(* of them free whatever the packet needs.                                   *)
LEMMA InvReserve ==
  ASSUME IInv, NEW m \in Mbuf, NEW n \in 1 .. MaxSegs + 1, NEW tso \in BOOLEAN,
         OutputReserve(m, n, tso)
  PROVE  IInv'
<1> USE DEF Off
<1>1. TypeOK /\ TypeOK'
  BY NextType DEF IInv, Next, OutputThread
<1>2. /\ n \in Nat /\ txNumFreeDesc \in Nat /\ NumTxDesc \in Nat
      /\ n + 2 <= txNumFreeDesc /\ txNumFreeDesc <= NumTxDesc
  BY <1>1, TxConstants
     DEF IInv, IFree, OutputReserve, Reserve, TypeOK, RingType
<1>3. /\ RingHead' = RingHead /\ Used' = Used + n
      /\ FillIndex = txNextDescIndex /\ FillIndex' = FillIndex
      /\ opIndex' = txNextDescIndex
      /\ UNCHANGED <<running, txDirtyIndex, txCleanBarrierIndex, slotVars,
                     opCount, wlVars, nicVars, lossVars>>
  <2>1. Advance(Advance(txNextDescIndex, n), txNumFreeDesc - n)
          = Advance(txNextDescIndex, n + (txNumFreeDesc - n))
    BY <1>1, <1>2, AdvanceAdvance DEF TypeOK, RingType
  <2>2. n + (txNumFreeDesc - n) = txNumFreeDesc
    BY <1>2
  <2> QED
    BY <1>2, <2>1, <2>2 DEF RingHead, Used, FillIndex, OutputReserve
<1>4. /\ Used \in Nat /\ Off(txNextDescIndex) = Used
      /\ \A i \in Slots : Off(i) \in Nat
      /\ \A i, j \in Slots : Off(i) = Off(j) => i = j
  BY <1>1, RingFacts DEF IInv
<1>5. op = "loop" /\ op' = "fill" /\ wl \notin Stopped /\ wl \notin Flushed
  BY DEF OutputReserve, IInv, IControl, Stopped, Flushed
<1>6. ASSUME NEW d, Boundary(d)
      PROVE  Boundary(d)'
  BY <1>3, <1>6 DEF Boundary, EndsAt, slotVars, wlVars, lossVars
<1>7. IFree' /\ IOrder' /\ IBufs'
  BY <1>1, <1>2, <1>3, <1>4
     DEF IInv, IFree, IOrder, IBufs, EndsAt, OutputReserve, slotVars, lossVars,
         TypeOK, RingType
<1>8. ITile'
  BY <1>3, <1>6
     DEF IInv, ITile, Tile, EndsAt, DescsOf, slotVars, wlVars, lossVars
<1>9. IFill'
  <2>1. cleaned + lostDescs <= Used /\ cleaned \in Nat /\ lostDescs \in Nat
    <3>1. /\ cleaned \in Nat /\ lostDescs \in Nat
          /\ txDirtyIndex \in Slots /\ txCleanBarrierIndex \in Slots
          /\ txNextDescIndex \in Slots
      BY <1>1, TxConstants DEF TypeOK, RingType, WorkLoopType, LossType
    <3>2. /\ Off(txDirtyIndex) <= Off(txCleanBarrierIndex)
          /\ Off(txCleanBarrierIndex) <= Used
      BY <1>3, <1>4 DEF IInv, IOrder
    <3>3. CASE wl = "count"
      <4>1. Off(txDirtyIndex) # Off(txCleanBarrierIndex)
        BY <1>4, <3>1, <3>3 DEF IInv, ICount
      <4> QED
        BY <1>4, <3>1, <3>2, <3>3, <4>1 DEF IInv, ICount
    <3>4. CASE wl # "count"
      BY <1>4, <3>1, <3>2, <3>4 DEF IInv, ICount
    <3> QED
      BY <3>3, <3>4
  <2>2. \A j \in Slots : Used <= Off(j) => ~EndsAt(j)
    BY <1>1, <1>3, <1>4 DEF IInv, IBufs
  <2>3. Boundary(Used)
    BY <1>5 DEF IInv, IFill
  <2>4. ASSUME NEW d, d = Used
        PROVE  Boundary(d)'
    BY <1>6, <2>3, <2>4
  <2>5. (Off(opIndex) - (opTotal - opLeft))' = Used
    BY <1>2, <1>3, <1>4 DEF OutputReserve
  <2>6. Boundary(Off(opIndex) - (opTotal - opLeft))'
    BY <2>4, <2>5
  <2>7. Off(opIndex)' = Used /\ opLeft' = n /\ opTotal' = n
    BY <1>3, <1>4 DEF OutputReserve
  <2> QED
    BY <1>2, <1>3, <1>4, <1>5, <2>1, <2>2, <2>6, <2>7
       DEF IFill, EndsAt, slotVars, wlVars, lossVars
<1>10. ICount' /\ INic'
  <2>1. ICount'
    BY <1>3 DEF IInv, ICount, EndsAt, wlVars, slotVars, nicVars, lossVars
  <2>2. INic'
    BY <1>3, <1>5 DEF IInv, INic, Stopped, wlVars, slotVars, nicVars
  <2> QED
    BY <2>1, <2>2
<1>11. IDma'
  BY <1>3 DEF IInv, IDma, OutputReserve, slotVars, wlVars, nicVars
<1>12. IHeld' /\ IControl'
  <2>1. IHeld'
    <3>1. /\ m # NoMbuf /\ m \notin held /\ held' = held \cup {m}
          /\ opMbuf = NoMbuf /\ opMbuf' = m /\ NoMbuf \notin held
      BY <1>1, <1>5, TxConstants
         DEF IInv, IHeld, OutputReserve, TypeOK, WorkLoopType
    <3> QED
      BY <1>3, <1>5, <3>1 DEF IInv, IHeld, slotVars, lossVars
  <2>2. IControl'
    BY <1>3, <1>5 DEF IInv, IControl, wlVars, Stopped
  <2> QED
    BY <2>1, <2>2
<1> QED
  BY <1>1, <1>7, <1>8, <1>9, <1>10, <1>11, <1>12 DEF IInv

(* intelFlushTxRing uses the slot the reserve kept free.                    *)
LEMMA InvFlush ==
  ASSUME IInv, FlushTxRing
  PROVE  IInv'
<1> USE DEF Off
<1>1. TypeOK /\ TypeOK'
  BY NextType DEF IInv, Next, WorkLoop
<1>2. /\ wl = "quiesce" /\ wl' = "flushed" /\ op = "idle" /\ cleaned = 0
      /\ FillIndex = txNextDescIndex /\ FillIndex' = txNextDescIndex'
      /\ UNCHANGED <<held, running, txDirtyIndex, txCleanBarrierIndex,
                     txBufMbuf, txBufNum, opVars, cleaned, tdh, lossVars>>
  BY DEF FlushTxRing, IInv, IControl, ICount, Stopped, FillIndex, opVars
<1>3. /\ Off(txNextDescIndex) = Used /\ Used \in 0 .. NumTxDesc - 1
      /\ \A i \in Slots : Off(i) \in 0 .. NumTxDesc - 1
      /\ \A i, j \in Slots : Off(i) = Off(j) => i = j
      /\ txNumFreeDesc \in 2 .. NumTxDesc /\ NumTxDesc \in Nat
  BY <1>1, <1>2, RingFacts, TxConstants
     DEF IInv, IFree, Flushed, TypeOK, RingType
<1>4. CASE tdt = txNextDescIndex
  <2>1. /\ RingHead' = RingHead /\ Used' = Used + 1
        /\ Off(txNextDescIndex)' = Used + 1
    <3>1. Next1(txNextDescIndex) = Advance(txNextDescIndex, 1)
      BY <1>1, <1>3 DEF Next1, Advance, TypeOK, RingType, Slots
    <3>2. Advance(Next1(txNextDescIndex), txNumFreeDesc - 1)
            = Advance(txNextDescIndex, 1 + (txNumFreeDesc - 1))
      BY <1>1, <1>3, <3>1, AdvanceAdvance DEF TypeOK, RingType
    <3>3. RingHead' = RingHead /\ Used' = Used + 1
      BY <1>3, <1>4, <3>2 DEF FlushTxRing, RingHead, Used
    <3>4. Off(txNextDescIndex) < NumTxDesc - 1
      BY <1>3 DEF Used
    <3>5. Off(Next1(txNextDescIndex)) = Used + 1
      BY <1>1, <1>3, <3>4, RingFacts DEF IInv, TypeOK, RingType
    <3> QED
      BY <1>4, <3>3, <3>5 DEF FlushTxRing
  <2>2. IFree'
    BY <1>2, <1>3, <1>4 DEF IFree, FlushTxRing, Flushed
  <2>3. IOrder' /\ IBufs'
    BY <1>1, <1>2, <1>3, <2>1
       DEF IInv, IOrder, IBufs, EndsAt, lossVars, TypeOK, RingType
  <2>4. ASSUME NEW d, Boundary(d)
        PROVE  Boundary(d)'
    BY <1>2, <2>1, <2>4 DEF Boundary, EndsAt, lossVars
  <2>5. ITile' /\ IFill' /\ ICount'
    <3>1. ITile'
      BY <1>2, <2>1, <2>4 DEF IInv, ITile, Tile, EndsAt, DescsOf, lossVars
    <3>2. IFill'
      BY <1>2 DEF IFill, opVars, Flushed
    <3>3. ICount'
      BY <1>2, <2>1 DEF IInv, ICount, lossVars
    <3> QED
      BY <3>1, <3>2, <3>3
  <2>6. \A i \in Slots : i # txNextDescIndex =>
          descBuf'[i] = descBuf[i] /\ descDone'[i] = descDone[i]
    BY <1>1, <1>4 DEF FlushTxRing, TypeOK, SlotType
  <2>7. descBuf'[txNextDescIndex] = NoMbuf /\ ~descDone'[txNextDescIndex]
    BY <1>1, <1>4 DEF FlushTxRing, TypeOK, RingType, SlotType
  <2>8. INic'
    <3>1. tdt' = txNextDescIndex'
      BY <1>4 DEF FlushTxRing
    <3>2. Off(tdh) <= Used
      BY <1>1, <1>2, <1>3, <1>4 DEF IInv, INic, Live
    <3>3. ASSUME NEW i \in Slots, txBufMbuf[i] # NoMbuf, descDone'[i]
          PROVE  Off(i) < Off(tdh)
      BY <1>2, <2>6, <2>7, <3>3 DEF IInv, INic, Live
    <3>4. Off(tdh)' <= Off(tdt)' /\ Off(tdt)' <= Off(txNextDescIndex)'
      BY <1>1, <1>2, <1>3, <2>1, <3>1, <3>2 DEF TypeOK, RingType
    <3> QED
      BY <1>2, <2>1, <3>3, <3>4 DEF INic, Live
  <2>9. IDma'
    <3> SUFFICES ASSUME NEW i \in Slots, Off(i) < Used + 1
                 PROVE  /\ Off(tdh) <= Off(i) => descBuf'[i] \in held \cup {NoMbuf}
                        /\ \A j \in Slots :
                             (txBufMbuf[j] # NoMbuf /\ descBuf'[i] = txBufMbuf[j])
                               => Off(i) <= Off(j)
      BY <1>2, <2>1 DEF IDma
    <3>1. CASE i = txNextDescIndex
      BY <2>7, <3>1
    <3>2. CASE i # txNextDescIndex
      <4>1. Off(i) < Off(FillIndex) /\ wl \in Live
        BY <1>1, <1>2, <1>3, <3>2 DEF Live, TypeOK, RingType
      <4> QED
        BY <1>2, <2>6, <3>2, <4>1 DEF IInv, IDma
    <3> QED
      BY <3>1, <3>2
  <2>10. IHeld' /\ IControl'
    BY <1>2 DEF IInv, IHeld, IControl, opVars, lossVars, Stopped
  <2> QED
    BY <1>1, <2>2, <2>3, <2>5, <2>8, <2>9, <2>10 DEF IInv
<1>5. CASE tdt # txNextDescIndex
  <2>1. SameRing /\ UNCHANGED <<txDirtyIndex, txCleanBarrierIndex, tdh, tdt,
                                txNextDescIndex, descDone>>
    BY <1>2, <1>5 DEF SameRing, FlushTxRing, opVars, Flushed
  <2>2. /\ IFree' /\ IOrder' /\ IBufs' /\ ITile' /\ IFill' /\ ICount'
        /\ IDma' /\ IHeld' /\ RingHead' = RingHead
    <3>1. wl' \in Live => wl \in Live /\ Off(tdh) <= Off(tdh)'
      <4>1. /\ RingHead' = RingHead /\ tdh' = tdh /\ wl \in Live
            /\ Off(tdh) \in Nat
        BY <1>1, <1>2, <1>3, <2>1, SameRingInv DEF Live, TypeOK, RingType
      <4> QED
        BY <4>1
    <3> QED
      BY <1>1, <2>1, <3>1, SameRingInv
  <2>3. INic'
    <3>1. Off(tdt) <= Off(txNextDescIndex)
      BY <1>1, <1>2, <1>3 DEF IInv, INic, IOrder, Live, TypeOK, RingType
    <3> QED
      BY <1>2, <2>1, <2>2, <3>1 DEF IInv, INic, Live, SameRing
  <2>4. IControl'
    BY <1>2 DEF IInv, IControl, opVars, Stopped
  <2> QED
    BY <1>1, <2>2, <2>3, <2>4 DEF IInv
<1> QED
  BY <1>4, <1>5

(* A ring without packets and with its indexes at the start.                *)
EmptyRing ==
  /\ txNextDescIndex = 0 /\ txDirtyIndex = 0 /\ txCleanBarrierIndex = 0
  /\ txNumFreeDesc = NumTxDesc
  /\ txBufMbuf = [i \in Slots |-> NoMbuf]
  /\ held = lost /\ lostAt = {} /\ lostDescs = 0
  /\ op = "idle" /\ opMbuf = NoMbuf /\ cleaned = 0 /\ ~running
  /\ wl \in {"off", "down"} /\ INic

LEMMA EmptyRingInv == TypeOK /\ EmptyRing => IInv
<1> SUFFICES ASSUME TypeOK, EmptyRing PROVE IInv
  OBVIOUS
<1> USE DEF Off, EmptyRing
<1>1. IFree
  BY TxConstants DEF IFree, Reserve
<1>2. /\ Off(0) = 0 /\ FillIndex = 0 /\ Used = 0
      /\ \A i \in Slots : Off(i) \in 0 .. NumTxDesc - 1
  BY <1>1, RingFacts, TxConstants DEF FillIndex, Used
<1>3. IOrder
  BY <1>2 DEF IOrder
<1>4. IBufs /\ ITile
  BY DEF IBufs, ITile, Tile, EndsAt
<1>5. IFill /\ ICount
  BY <1>2 DEF IFill, ICount, Boundary
<1>6. IDma
  BY <1>2 DEF IDma
<1>7. IHeld /\ IControl
  BY DEF IHeld, IControl, EndsAt
<1> QED
  BY <1>1, <1>3, <1>4, <1>5, <1>6, <1>7 DEF IInv

(* The steps that leave the ring empty.                                     *)
LEMMA InvClear ==
  ASSUME IInv, ClearDescriptors \/ InitTxRing
  PROVE  IInv'
<1>1. TypeOK /\ TypeOK'
  BY NextType DEF IInv, Next, WorkLoop
<1>2. EmptyRing'
  <2>1. CASE ClearDescriptors
    <3>1. op = "idle" /\ opMbuf = NoMbuf /\ cleaned = 0 /\ ~running
      BY <2>1 DEF IInv, IControl, IHeld, ICount, ClearDescriptors, Stopped
    <3>2. held' = lost'
      BY <1>1, <2>1, <3>1, TxConstants
         DEF IInv, IHeld, ClearDescriptors, TypeOK, WorkLoopType
    <3>3. INic'
      BY <2>1 DEF IInv, INic, ClearDescriptors, nicVars, Live
    <3> QED
      BY <2>1, <3>1, <3>2, <3>3 DEF EmptyRing, ClearDescriptors, opVars
  <2>2. CASE InitTxRing
    <3>1. op = "idle" /\ opMbuf = NoMbuf /\ cleaned = 0 /\ ~running
      BY <2>2 DEF IInv, IControl, IHeld, ICount, InitTxRing, Stopped
    <3>2. txBufMbuf = [i \in Slots |-> NoMbuf] /\ lostAt = {} /\ lostDescs = 0
      BY <1>1, <2>2
         DEF IInv, IControl, EndsAt, InitTxRing, TypeOK, SlotType, LossType
    <3>3. held = lost
      BY <1>1, <3>1, <3>2, TxConstants DEF IInv, IHeld, TypeOK, WorkLoopType
    <3>4. INic'
      BY <2>2 DEF INic, InitTxRing, Live
    <3> QED
      BY <2>2, <3>1, <3>2, <3>3, <3>4
         DEF EmptyRing, InitTxRing, slotVars, opVars, lossVars
  <2> QED
    BY <2>1, <2>2
<1> QED
  BY <1>1, <1>2, EmptyRingInv, PTL

(* Together: IInv is inductive, so it holds of every reachable state.       *)
LEMMA InvInit == Init => IInv
<1>1. Init => TypeOK
  BY InitType
<1>2. Init => EmptyRing
  BY DEF Init, EmptyRing, INic, Live
<1> QED
  BY <1>1, <1>2, EmptyRingInv

LEMMA InvNext ==
  ASSUME IInv, [Next]_vars
  PROVE  IInv'
<1>1. CASE OutputThread
  BY <1>1, InvControlSteps, InvReserve, InvFill, InvSetBarrier DEF OutputThread
<1>2. CASE NicProcess
  BY <1>2, InvNicProcess
<1>3. CASE WorkLoop
  BY <1>3, InvControlSteps, InvCleanSkip, InvCleanFree, InvCleanCount,
     InvFlush, InvClear DEF WorkLoop
<1>4. CASE UNCHANGED vars
  <2>3. TypeOK' /\ TypeOK
    BY <1>4, NextType DEF IInv
  <2>8. Off(tdh) \in Nat
    <3>1. tdh \in Slots /\ IFree
      BY DEF IInv, TypeOK, RingType
    <3> QED
      BY <2>3, <3>1, RingFacts
  <2>1. SameRing /\ UNCHANGED <<txDirtyIndex, txCleanBarrierIndex, tdh, wl>>
    BY <1>4 DEF SameRing, vars, ringVars, slotVars, opVars, wlVars, nicVars
  <2>6. RingHead' = RingHead
    BY <2>1, <2>3, SameRingInv
  <2>7. wl' \in Live => wl \in Live /\ Off(tdh) <= Off(tdh)'
    BY <2>1, <2>6, <2>8 DEF Off
  <2>2. /\ IFree' /\ IOrder' /\ IBufs' /\ ITile' /\ IFill' /\ ICount'
        /\ IDma' /\ IHeld'
    BY <2>1, <2>3, <2>7, SameRingInv
  <2>4. INic'
    BY <1>4, <2>6 DEF IInv, INic, Off, vars, ringVars, slotVars, opVars,
                      wlVars, nicVars
  <2>5. IControl'
    BY <1>4 DEF IInv, IControl, EndsAt, vars, ringVars, slotVars, opVars,
                wlVars, lossVars
  <2> QED
    BY <2>2, <2>3, <2>4, <2>5 DEF IInv
<1> QED
  BY <1>1, <1>2, <1>3, <1>4 DEF Next

THEOREM Inductive == Spec => []IInv
<1> QED
  BY InvInit, InvNext, PTL DEF Spec

-----------------------------------------------------------------------------
(* What follows from it.                                                    *)

(* outputStart never overwrites a slot that is still in use, neither by     *)
(* txInterrupt nor by the NIC, whatever the order of their steps.           *)
THEOREM SlotsNotOverrun == Spec => []NoOverrun
<1>1. ASSUME IInv PROVE NoOverrun
  <2> SUFFICES ASSUME op = "fill"
               PROVE  /\ txBufMbuf[opIndex] = NoMbuf
                      /\ ~Between(tdh, opIndex, tdt)
    BY DEF NoOverrun
  <2>1. TypeOK /\ IFree /\ opIndex \in Slots
    BY <1>1 DEF IInv, TypeOK, OutputType
  <2>2. /\ RingHead \in Slots /\ tdh \in Slots /\ tdt \in Slots
        /\ txCleanBarrierIndex \in Slots
        /\ \A i \in Slots : Off(i) \in Nat
    BY <2>1, RingFacts DEF TypeOK, RingType
  <2>3. txBufMbuf[opIndex] = NoMbuf
    BY <1>1, <2>1, <2>2 DEF IInv, IBufs, EndsAt, FillIndex
  <2>4. Off(tdh) <= Off(tdt) /\ Off(tdt) <= Off(opIndex)
    BY <1>1, <2>1, <2>2
       DEF IInv, INic, IOrder, IControl, FillIndex, Live, Stopped, TypeOK,
           WorkLoopType
  <2>5. Between(tdh, opIndex, tdt)
          <=> Off(tdh) <= Off(opIndex) /\ Off(opIndex) < Off(tdt)
    BY <2>1, <2>2, <2>4, BetweenDist DEF Off
  <2> QED
    BY <2>1, <2>2, <2>3, <2>4, <2>5
<1> QED
  BY <1>1, Inductive, PTL

(* The ring never fills up, not even for the dummy descriptor of            *)
(* intelFlushTxRing, so equal indexes always mean an empty ring.            *)
THEOREM NeverFull == Spec => []RingNeverFull
<1>1. IInv => RingNeverFull
  BY DEF IInv, IFree, RingNeverFull
<1> QED
  BY <1>1, Inductive, PTL

(* The NIC never reads the memory of a packet the driver has freed.         *)
THEOREM NicNeverReadsFreed == Spec => []NicReadsHeld
<1>1. ASSUME IInv PROVE NicReadsHeld
  <2> SUFFICES ASSUME tctlEn, NEW i \in Slots, Between(tdh, i, tdt)
               PROVE  descBuf[i] \in held \cup {NoMbuf}
    BY DEF NicReadsHeld
  <2>1. /\ TypeOK /\ IFree /\ tdh \in Slots /\ tdt \in Slots
        /\ txCleanBarrierIndex \in Slots /\ txDirtyIndex \in Slots
        /\ txNextDescIndex \in Slots /\ FillIndex \in Slots
    BY <1>1 DEF IInv, TypeOK, RingType, OutputType, FillIndex
  <2>2. /\ RingHead \in Slots /\ \A j \in Slots : Off(j) \in Nat
        /\ Off(txNextDescIndex) = Used
    BY <2>1, RingFacts
  <2>3. tdh # tdt /\ wl \in Live
    BY <1>1, <2>1 DEF Between, IInv, INic, Live, Slots, TypeOK, WorkLoopType
  <2>4. /\ Off(tdh) <= Off(tdt)
        /\ Off(tdt) <= IF op = "barrier" \/ wl = "flushed"
                         THEN Off(txNextDescIndex)
                         ELSE Off(txCleanBarrierIndex)
    BY <1>1, <2>3 DEF IInv, INic
  <2>5. Off(tdh) <= Off(i) /\ Off(i) < Off(tdt)
    BY <2>1, <2>2, <2>4, BetweenDist DEF Off
  <2>6. Off(tdt) <= Off(FillIndex)
    <3>1. CASE op = "barrier" \/ wl = "flushed"
      <4>1. FillIndex = txNextDescIndex
        BY <1>1, <3>1 DEF IInv, IControl, Stopped, FillIndex
      <4> QED
        BY <2>4, <3>1, <4>1
    <3>2. CASE ~(op = "barrier" \/ wl = "flushed")
      BY <1>1, <2>1, <2>2, <2>4, <3>2 DEF IInv, IOrder
    <3> QED
      BY <3>1, <3>2
  <2>7. Off(i) < Off(FillIndex)
    BY <2>1, <2>2, <2>5, <2>6
  <2> QED
    BY <1>1, <2>3, <2>5, <2>7 DEF IInv, IDma
<1> QED
  BY <1>1, Inductive, PTL

(* No packet is leaked except the TSO packets in one segment, for which     *)
(* outputStart keeps no record, and none will be freed twice.                *)
THEOREM PacketsAccountedFor == Spec => []NoLeak
<1>1. IInv => NoLeak
  BY TxConstants DEF IInv, IHeld, NoLeak, TypeOK, SlotType, OutputType,
                     WorkLoopType
<1> QED
  BY <1>1, Inductive, PTL

(* The count of free descriptors drifts by two for each of these packets    *)
(* that txInterrupt has passed, and never otherwise.                         *)
THEOREM DescriptorsAccountedFor == Spec => []NoDescriptorLeak
<1>1. ASSUME IInv, held = lost, lostAt = {},
             wl \notin {"count", "flushed", "clear"}
      PROVE  txNumFreeDesc = NumTxDesc - lostDescs
  <2>1. /\ \A i \in Slots : ~EndsAt(i)
        /\ op # "fill" /\ wl # "count" /\ wl \notin Flushed
    BY <1>1 DEF IInv, IHeld, EndsAt, Flushed
  <2>2. Boundary(Used)
    BY <1>1, <2>1 DEF IInv, IFill
  <2>3. Used = lostDescs
    BY <2>1, <2>2 DEF Boundary
  <2> QED
    BY <1>1, <2>3, TxConstants DEF Used, IInv, TypeOK, RingType, LossType
<1>2. IInv => NoDescriptorLeak
  BY <1>1 DEF NoDescriptorLeak
<1> QED
  BY <1>2, Inductive, PTL

(* Without a link no packet is left in the ring.                            *)
THEOREM NoPacketWithoutLink == Spec => []LinkDownRingEmpty
<1>1. IInv => LinkDownRingEmpty
  BY TxConstants DEF IInv, IHeld, IControl, EndsAt, Stopped,
                     LinkDownRingEmpty, TypeOK, WorkLoopType
<1> QED
  BY <1>1, Inductive, PTL

-----------------------------------------------------------------------------
(* The packets of the ring as a queue.  pos lists the slots that hold a     *)
(* packet, n of them, in the order of their distance from h.                *)
Listing(buf, h, n, pos) ==
  /\ n \in Nat /\ pos \in [1 .. n -> Slots]
  /\ \A k \in 1 .. n : buf[pos[k]] # NoMbuf
  /\ \A k, l \in 1 .. n : k < l => Dist(h, pos[k]) < Dist(h, pos[l])
  /\ \A i \in Slots : buf[i] # NoMbuf => \E k \in 1 .. n : pos[k] = i

(* Counting slots: the count is a number, monotone, and every packet counts *)
(* once.                                                                     *)
LEMMA CountFacts ==
  ASSUME NEW buf, NEW h \in Slots, NEW d
  PROVE  /\ IsFiniteSet(Before(buf, h, d)) /\ Count(buf, h, d) \in Nat
         /\ \A e : Before(buf, h, e) \subseteq Before(buf, h, d) =>
              Count(buf, h, e) <= Count(buf, h, d)
         /\ \A e : \A i \in Before(buf, h, d) :
              (Before(buf, h, e) \subseteq Before(buf, h, d)
                 /\ i \notin Before(buf, h, e)) =>
                Count(buf, h, e) < Count(buf, h, d)
<1>1. IsFiniteSet(Slots)
  BY FS_Interval, TxConstants DEF Slots
<1>2. \A e : IsFiniteSet(Before(buf, h, e)) /\ Count(buf, h, e) \in Nat
  <2> TAKE e
  <2>1. Before(buf, h, e) \in SUBSET Slots
    BY DEF Before
  <2>2. IsFiniteSet(Before(buf, h, e))
    BY <1>1, <2>1, FS_Subset
  <2> QED
    BY <2>2, FS_CardinalityType DEF Count
<1>3. ASSUME NEW e, Before(buf, h, e) \subseteq Before(buf, h, d)
      PROVE  /\ Count(buf, h, e) <= Count(buf, h, d)
             /\ Count(buf, h, d) = Count(buf, h, e) =>
                  Before(buf, h, d) = Before(buf, h, e)
  BY <1>2, <1>3, FS_Subset DEF Count
<1>4. ASSUME NEW e, NEW i \in Before(buf, h, d), i \notin Before(buf, h, e),
             Before(buf, h, e) \subseteq Before(buf, h, d)
      PROVE  Count(buf, h, e) < Count(buf, h, d)
  BY <1>2, <1>3, <1>4
<1> QED
  BY <1>2, <1>3, <1>4

(* Every ring has a listing.                                                *)
LEMMA ListingExists ==
  ASSUME NEW buf, NEW h \in Slots
  PROVE  \E n, pos : Listing(buf, h, n, pos)
<1> DEFINE P == Before(buf, h, NumTxDesc)
           N == Count(buf, h, NumTxDesc)
           rank == [i \in P |-> Count(buf, h, Dist(h, i)) + 1]
<1>1. \A i \in Slots : Dist(h, i) \in 0 .. NumTxDesc - 1
  BY DistRange
<1>2. N \in Nat /\ IsFiniteSet(P) /\ NumTxDesc \in Nat /\ Cardinality(P) = N
  BY CountFacts, TxConstants DEF Count
<1>3. \A i \in P : i \in Slots /\ buf[i] # NoMbuf
  BY DEF Before
<1>4. ASSUME NEW i \in P, NEW j \in P, Dist(h, i) < Dist(h, j)
      PROVE  rank[i] < rank[j]
  <2>1. /\ Before(buf, h, Dist(h, i)) \subseteq Before(buf, h, Dist(h, j))
        /\ i \in Before(buf, h, Dist(h, j))
        /\ i \notin Before(buf, h, Dist(h, i))
    BY <1>1, <1>3, <1>4 DEF Before
  <2>2. /\ Count(buf, h, Dist(h, i)) < Count(buf, h, Dist(h, j))
        /\ Count(buf, h, Dist(h, i)) \in Nat
        /\ Count(buf, h, Dist(h, j)) \in Nat
    BY <2>1, CountFacts
  <2> QED
    BY <2>2
<1>5. ASSUME NEW i \in P
      PROVE  rank[i] \in 1 .. N
  <2>1. /\ Before(buf, h, Dist(h, i)) \subseteq P /\ i \in P
        /\ i \notin Before(buf, h, Dist(h, i))
    BY <1>1, <1>3, TxConstants DEF Before
  <2>2. /\ Count(buf, h, Dist(h, i)) < N
        /\ Count(buf, h, Dist(h, i)) \in Nat
    BY <2>1, CountFacts
  <2> QED
    BY <1>2, <2>2
<1>6. ASSUME NEW i \in P, NEW j \in P, rank[i] = rank[j]
      PROVE  i = j
  <2>1. ~(Dist(h, i) < Dist(h, j)) /\ ~(Dist(h, j) < Dist(h, i))
    BY <1>2, <1>4, <1>5, <1>6
  <2>2. Dist(h, i) = Dist(h, j)
    BY <1>1, <1>3, <2>1
  <2> QED
    BY <1>3, <2>2, DistInjective
<1> HIDE DEF rank
<1>7. rank \in Surjection(P, 1 .. N)
  <2>1. rank \in [P -> 1 .. N]
    BY <1>5 DEF rank
  <2>2. rank \in Injection(P, 1 .. N)
    BY <1>6, <2>1 DEF Injection, IsInjective
  <2>3. IsFiniteSet(1 .. N) /\ Cardinality(1 .. N) = N
    BY <1>2, FS_Interval
  <2> QED
    BY <1>2, <2>2, <2>3, FS_Injection
<1> DEFINE pos == [k \in 1 .. N |-> CHOOSE i \in P : rank[i] = k]
<1>8. \A k \in 1 .. N : pos[k] \in P /\ rank[pos[k]] = k
  BY <1>7 DEF Surjection
<1>9. \A i \in P : rank[i] \in 1 .. N /\ pos[rank[i]] = i
  BY <1>5, <1>6, <1>8
<1> HIDE DEF pos
<1>10. \A k \in 1 .. N : pos[k] \in Slots /\ buf[pos[k]] # NoMbuf
  BY <1>3, <1>8
<1>11. pos \in [1 .. N -> Slots]
  BY <1>10 DEF pos
<1>12. ASSUME NEW k \in 1 .. N, NEW l \in 1 .. N, k < l
       PROVE  Dist(h, pos[k]) < Dist(h, pos[l])
  <2>1. pos[k] \in P /\ pos[l] \in P /\ rank[pos[k]] = k /\ rank[pos[l]] = l
    BY <1>8
  <2>2. ~(Dist(h, pos[l]) < Dist(h, pos[k]))
    BY <1>2, <1>4, <1>12, <2>1
  <2>3. Dist(h, pos[k]) # Dist(h, pos[l])
    BY <1>2, <1>3, <1>12, <2>1, DistInjective
  <2> QED
    BY <1>1, <1>3, <2>1, <2>2, <2>3
<1>13. \A i \in Slots : buf[i] # NoMbuf => \E k \in 1 .. N : pos[k] = i
  <2> TAKE i \in Slots
  <2> HAVE buf[i] # NoMbuf
  <2>1. i \in P
    BY <1>1, <1>2 DEF Before
  <2> QED
    BY <1>9, <2>1
<1> QED
  BY <1>2, <1>10, <1>11, <1>12, <1>13 DEF Listing

(* In a listing the k-th packet has k - 1 before it, and counting up to a   *)
(* distance says how many packets are nearer.                                *)
LEMMA ListingCount ==
  ASSUME NEW buf, NEW h \in Slots, NEW n, NEW pos, Listing(buf, h, n, pos),
         NEW c \in 0 .. n, NEW d,
         \A k \in 1 .. n : k <= c <=> Dist(h, pos[k]) < d
  PROVE  Count(buf, h, d) = c
<1> DEFINE first == [k \in 1 .. c |-> pos[k]]
<1>1. n \in Nat /\ 1 .. c \subseteq 1 .. n
  BY DEF Listing
<1>2. \A i \in Slots : Dist(h, i) \in Nat
  BY DistRange
<1>3. first \in [1 .. c -> Before(buf, h, d)]
  BY <1>1 DEF Listing, Before
<1>4. ASSUME NEW k \in 1 .. c, NEW l \in 1 .. c, first[k] = first[l]
      PROVE  k = l
  <2>1. k \in 1 .. n /\ l \in 1 .. n /\ pos[k] = pos[l] /\ pos[k] \in Slots
    BY <1>1, <1>4 DEF Listing
  <2>2. ~(k < l) /\ ~(l < k)
    BY <1>2, <2>1 DEF Listing
  <2> QED
    BY <1>1, <2>2
<1>5. \A i \in Before(buf, h, d) : \E k \in 1 .. c : first[k] = i
  <2> SUFFICES ASSUME NEW i \in Slots, buf[i] # NoMbuf, Dist(h, i) < d
               PROVE  \E k \in 1 .. c : first[k] = i
    BY DEF Before
  <2>1. PICK k \in 1 .. n : pos[k] = i
    BY DEF Listing
  <2>2. k \in 1 .. c
    BY <1>1, <2>1
  <2> QED
    BY <2>1, <2>2
<1> HIDE DEF first
<1>6. first \in Bijection(1 .. c, Before(buf, h, d))
  BY <1>3, <1>4, <1>5 DEF Bijection, Injection, Surjection, IsInjective
<1>7. IsFiniteSet(1 .. c) /\ Cardinality(1 .. c) = c
  BY <1>1, FS_Interval
<1> QED
  BY <1>6, <1>7, FS_Bijection DEF ExistsBijection, Count

LEMMA ListingRank ==
  ASSUME NEW buf, NEW h \in Slots, NEW n, NEW pos, Listing(buf, h, n, pos),
         NEW k \in 1 .. n
  PROVE  Count(buf, h, Dist(h, pos[k])) = k - 1
<1>1. n \in Nat /\ k - 1 \in 0 .. n
  BY DEF Listing
<1>2. \A l \in 1 .. n : Dist(h, pos[l]) \in Nat
  BY DistRange DEF Listing
<1>3. \A l \in 1 .. n : l <= k - 1 <=> Dist(h, pos[l]) < Dist(h, pos[k])
  <2> TAKE l \in 1 .. n
  <2>1. l < k => Dist(h, pos[l]) < Dist(h, pos[k])
    BY DEF Listing
  <2>2. k < l => Dist(h, pos[k]) < Dist(h, pos[l])
    BY DEF Listing
  <2> QED
    BY <1>1, <1>2, <2>1, <2>2
<1> QED
  BY <1>1, <1>3, ListingCount

(* The queue lists the packets in that order.                               *)
LEMMA ListingQueue ==
  ASSUME NEW buf, NEW h \in Slots, NEW n, NEW pos, Listing(buf, h, n, pos)
  PROVE  Queue(buf, h) = [k \in 1 .. n |-> buf[pos[k]]]
<1>1. n \in Nat /\ NumTxDesc \in Nat
  BY TxConstants DEF Listing
<1>2. \A k \in 1 .. n : Dist(h, pos[k]) < NumTxDesc
  BY <1>1, DistRange DEF Listing
<1>3. Count(buf, h, NumTxDesc) = n
  BY <1>1, <1>2, ListingCount
<1>4. ASSUME NEW k \in 1 .. n
      PROVE  (CHOOSE i \in Slots : /\ buf[i] # NoMbuf
                                   /\ Count(buf, h, Dist(h, i)) = k - 1)
               = pos[k]
  <2> DEFINE Kth(i) == buf[i] # NoMbuf /\ Count(buf, h, Dist(h, i)) = k - 1
  <2>1. pos[k] \in Slots /\ Kth(pos[k])
    <3>1. pos[k] \in Slots /\ buf[pos[k]] # NoMbuf
      BY DEF Listing
    <3>2. Count(buf, h, Dist(h, pos[k])) = k - 1
      BY ListingRank
    <3> QED
      BY <3>1, <3>2
  <2>2. ASSUME NEW i \in Slots, Kth(i)
        PROVE  i = pos[k]
    <3>1. PICK l \in 1 .. n : pos[l] = i
      BY <2>2 DEF Listing
    <3>2. Count(buf, h, Dist(h, i)) = l - 1
      BY <3>1, ListingRank
    <3> QED
      BY <2>2, <3>1, <3>2
  <2> HIDE DEF Kth
  <2>3. (CHOOSE i \in Slots : Kth(i)) = pos[k]
    BY <2>1, <2>2
  <2> QED
    BY <2>3 DEF Kth
<1> DEFINE Kth(k) == CHOOSE i \in Slots : /\ buf[i] # NoMbuf
                                         /\ Count(buf, h, Dist(h, i)) = k - 1
<1>5. Queue(buf, h) = [k \in 1 .. n |-> buf[Kth(k)]]
  BY <1>3 DEF Queue
<1>6. \A k \in 1 .. n : Kth(k) = pos[k]
  BY <1>4
<1> HIDE DEF Kth
<1> QED
  BY <1>5, <1>6

(* The queue is a sequence of the packets in the slots, as long as the      *)
(* count of all of them.                                                     *)
LEMMA QueueFacts ==
  ASSUME NEW buf \in [Slots -> Mbuf \cup {NoMbuf}], NEW h \in Slots
  PROVE  /\ Queue(buf, h) \in Seq(Mbuf)
         /\ Len(Queue(buf, h)) = Count(buf, h, NumTxDesc)
         /\ \A k \in 1 .. Len(Queue(buf, h)) : \E i \in Slots :
              buf[i] # NoMbuf /\ Queue(buf, h)[k] = buf[i]
         /\ \A d : (\A i \in Slots : buf[i] # NoMbuf => Dist(h, i) < d) =>
              Count(buf, h, d) = Len(Queue(buf, h))
<1>1. PICK n, pos : Listing(buf, h, n, pos)
  BY ListingExists
<1>2. /\ n \in Nat
      /\ \A k \in 1 .. n : pos[k] \in Slots /\ buf[pos[k]] # NoMbuf
  BY <1>1 DEF Listing
<1>3. Queue(buf, h) = [k \in 1 .. n |-> buf[pos[k]]]
  BY <1>1, ListingQueue
<1>4. \A k \in 1 .. n : buf[pos[k]] \in Mbuf
  BY <1>2
<1>5. Queue(buf, h) \in Seq(Mbuf) /\ Len(Queue(buf, h)) = n
  BY <1>2, <1>3, <1>4
<1>6. ASSUME NEW d, \A i \in Slots : buf[i] # NoMbuf => Dist(h, i) < d
      PROVE  Count(buf, h, d) = n
  BY <1>1, <1>2, <1>6, ListingCount
<1>7. Count(buf, h, NumTxDesc) = n
  BY <1>6, DistRange, TxConstants
<1> QED
  BY <1>2, <1>3, <1>5, <1>6, <1>7

(* A packet behind all others joins the end of the queue.                   *)
Appended(buf, h, s, m, new) ==
  /\ Queue(new, h) = Append(Queue(buf, h), m)
  /\ \A d \in Int : d <= Dist(h, s) => Count(new, h, d) = Count(buf, h, d)

LEMMA QueueAppend ==
  ASSUME NEW buf \in [Slots -> Mbuf \cup {NoMbuf}], NEW h \in Slots,
         NEW s \in Slots, NEW m \in Mbuf, buf[s] = NoMbuf,
         \A i \in Slots : buf[i] # NoMbuf => Dist(h, i) < Dist(h, s),
         NEW new, new[s] = m, \A i \in Slots : i # s => new[i] = buf[i]
  PROVE  Appended(buf, h, s, m, new)
<1>1. /\ \A i \in Slots : Dist(h, i) \in Nat
      /\ m # NoMbuf /\ new[s] = m
      /\ \A i \in Slots : i # s => new[i] = buf[i]
  BY DistRange, TxConstants
<1>2. ASSUME NEW d \in Int, d <= Dist(h, s)
      PROVE  Count(new, h, d) = Count(buf, h, d)
  <2>1. Before(new, h, d) = Before(buf, h, d)
    BY <1>1, <1>2 DEF Before
  <2> QED
    BY <2>1 DEF Count
<1>3. PICK n, pos : Listing(buf, h, n, pos)
  BY ListingExists
<1>4. n \in Nat
  BY <1>3 DEF Listing
<1> DEFINE pos2 == [k \in 1 .. n + 1 |-> IF k = n + 1 THEN s ELSE pos[k]]
<1>5. /\ \A k \in 1 .. n : k \in 1 .. n + 1 /\ pos2[k] = pos[k]
      /\ n + 1 \in 1 .. n + 1 /\ pos2[n + 1] = s
      /\ \A k \in 1 .. n + 1 : k = n + 1 \/ k \in 1 .. n
  BY <1>4
<1>6. pos2 \in [1 .. n + 1 -> Slots]
  BY <1>3, <1>4 DEF Listing
<1> HIDE DEF pos2
<1>7. \A k \in 1 .. n : pos[k] \in Slots /\ pos[k] # s /\ buf[pos[k]] # NoMbuf
  BY <1>3 DEF Listing
<1>8. Listing(new, h, n + 1, pos2)
  <2>1. \A k \in 1 .. n + 1 : new[pos2[k]] # NoMbuf
    BY <1>1, <1>5, <1>7
  <2>2. ASSUME NEW k \in 1 .. n + 1, NEW l \in 1 .. n + 1, k < l
        PROVE  Dist(h, pos2[k]) < Dist(h, pos2[l])
    <3>1. k \in 1 .. n
      BY <1>4, <1>5, <2>2
    <3>2. CASE l = n + 1
      BY <1>5, <1>7, <3>1, <3>2
    <3>3. CASE l \in 1 .. n
      BY <1>3, <1>5, <2>2, <3>1, <3>3 DEF Listing
    <3> QED
      BY <1>5, <3>2, <3>3
  <2>3. ASSUME NEW i \in Slots, new[i] # NoMbuf
        PROVE  \E k \in 1 .. n + 1 : pos2[k] = i
    <3>1. CASE i = s
      BY <1>5, <3>1
    <3>2. CASE i # s
      <4>1. PICK k \in 1 .. n : pos[k] = i
        BY <1>1, <1>3, <2>3, <3>2 DEF Listing
      <4> QED
        BY <1>5, <4>1
    <3> QED
      BY <3>1, <3>2
  <2> QED
    BY <1>4, <1>6, <2>1, <2>2, <2>3 DEF Listing
<1> DEFINE old == Queue(buf, h)
<1>9. old = [k \in 1 .. n |-> buf[pos[k]]]
  BY <1>3, ListingQueue
<1>13. Queue(new, h) = [k \in 1 .. n + 1 |-> new[pos2[k]]]
  BY <1>8, ListingQueue
<1> HIDE DEF old
<1>10. /\ \A k \in 1 .. n : new[pos2[k]] = buf[pos[k]]
       /\ new[pos2[n + 1]] = m
  BY <1>1, <1>5, <1>7
<1>11. old \in Seq(Mbuf) /\ Len(old) = n
  BY <1>4, <1>7, <1>9
<1>14. \A k \in 1 .. n + 1 :
         new[pos2[k]] = IF k = n + 1 THEN m ELSE old[k]
  BY <1>4, <1>5, <1>9, <1>10
<1>12. /\ Queue(new, h) \in Seq(Mbuf) /\ Len(Queue(new, h)) = n + 1
       /\ \A k \in 1 .. n : Queue(new, h)[k] = old[k]
       /\ Queue(new, h)[n + 1] = m
  BY <1>4, <1>5, <1>9, <1>10, <1>11, <1>13, <1>14
<1>15. Queue(new, h) = Append(old, m)
  <2>1. /\ Append(old, m) \in Seq(Mbuf) /\ Len(Append(old, m)) = n + 1
        /\ \A k \in 1 .. n : Append(old, m)[k] = old[k]
        /\ Append(old, m)[n + 1] = m
    BY <1>11, AppendProperties
  <2>2. \A k \in 1 .. n + 1 : Queue(new, h)[k] = Append(old, m)[k]
    BY <1>5, <1>12, <2>1
  <2> QED
    BY <1>12, <2>1, <2>2, SeqEqual
<1> QED
  BY <1>2, <1>15 DEF old, Appended

(* The first packet leaves the front of the queue, and one packet less is   *)
(* counted up to any place behind it.                                        *)
LEMMA QueueTail ==
  ASSUME NEW buf \in [Slots -> Mbuf \cup {NoMbuf}], NEW h \in Slots,
         NEW s \in Slots, buf[s] # NoMbuf,
         \A i \in Slots : buf[i] # NoMbuf => Dist(h, s) <= Dist(h, i),
         NEW new, new[s] = NoMbuf, \A i \in Slots : i # s => new[i] = buf[i]
  PROVE  /\ Queue(buf, h) # <<>>
         /\ Queue(new, h) = Tail(Queue(buf, h))
         /\ \A d \in Int : Dist(h, s) < d =>
              Count(buf, h, d) > 0 /\ Count(new, h, d) = Count(buf, h, d) - 1
<1>1. /\ \A i \in Slots : Dist(h, i) \in Nat
      /\ new[s] = NoMbuf /\ \A i \in Slots : i # s => new[i] = buf[i]
  BY DistRange
<1>2. ASSUME NEW d \in Int, Dist(h, s) < d
      PROVE  Count(buf, h, d) > 0 /\ Count(new, h, d) = Count(buf, h, d) - 1
  <2>1. s \in Before(buf, h, d) /\ Before(new, h, d) = Before(buf, h, d) \ {s}
    BY <1>1, <1>2 DEF Before
  <2>2. IsFiniteSet(Before(buf, h, d)) /\ Count(buf, h, d) \in Nat
    BY CountFacts
  <2>3. Count(buf, h, d) # 0
    BY <2>1, <2>2, FS_EmptySet DEF Count
  <2>4. Count(new, h, d) = Count(buf, h, d) - 1
    BY <2>1, <2>2, FS_RemoveElement DEF Count
  <2> QED
    BY <2>2, <2>3, <2>4
<1>3. PICK n, pos : Listing(buf, h, n, pos)
  BY ListingExists
<1>4. n \in Nat /\ \A k \in 1 .. n : pos[k] \in Slots /\ buf[pos[k]] # NoMbuf
  BY <1>3 DEF Listing
<1>5. PICK f \in 1 .. n : pos[f] = s
  BY <1>3 DEF Listing
<1>6. 1 \in 1 .. n /\ pos[1] = s
  <2>1. 1 \in 1 .. n
    BY <1>4, <1>5
  <2>2. ~(1 < f)
    <3>1. Dist(h, s) <= Dist(h, pos[1]) /\ Dist(h, pos[1]) \in Nat
          /\ Dist(h, s) \in Nat
      BY <1>1, <1>4, <2>1
    <3>2. 1 < f => Dist(h, pos[1]) < Dist(h, s)
      BY <1>3, <1>5, <2>1 DEF Listing
    <3> QED
      BY <3>1, <3>2
  <2> QED
    BY <1>4, <1>5, <2>1, <2>2
<1> DEFINE pos2 == [k \in 1 .. n - 1 |-> pos[k + 1]]
<1>7. /\ \A k \in 1 .. n - 1 : k + 1 \in 1 .. n /\ pos2[k] = pos[k + 1]
      /\ \A k \in 1 .. n : k = 1 \/ (k - 1 \in 1 .. n - 1 /\ k - 1 + 1 = k)
      /\ n - 1 \in Nat
  BY <1>4, <1>6
<1>8. pos2 \in [1 .. n - 1 -> Slots]
  BY <1>4, <1>7
<1> HIDE DEF pos2
<1>9. \A k \in 1 .. n - 1 : pos[k + 1] # s
  <2> TAKE k \in 1 .. n - 1
  <2>1. k + 1 \in 1 .. n /\ 1 < k + 1
    BY <1>4, <1>7
  <2>2. Dist(h, pos[1]) < Dist(h, pos[k + 1])
    BY <1>3, <1>6, <2>1 DEF Listing
  <2> QED
    BY <1>1, <1>6, <2>2
<1>10. Listing(new, h, n - 1, pos2)
  <2>1. \A k \in 1 .. n - 1 : new[pos2[k]] # NoMbuf
    BY <1>1, <1>4, <1>7, <1>9
  <2>2. ASSUME NEW k \in 1 .. n - 1, NEW l \in 1 .. n - 1, k < l
        PROVE  Dist(h, pos2[k]) < Dist(h, pos2[l])
    <3>1. k + 1 \in 1 .. n /\ l + 1 \in 1 .. n /\ k + 1 < l + 1
      BY <1>7, <2>2
    <3> QED
      BY <1>3, <1>7, <3>1 DEF Listing
  <2>3. ASSUME NEW i \in Slots, new[i] # NoMbuf
        PROVE  \E k \in 1 .. n - 1 : pos2[k] = i
    <3>1. i # s /\ buf[i] # NoMbuf
      BY <1>1, <2>3
    <3>2. PICK k \in 1 .. n : pos[k] = i
      BY <1>3, <3>1 DEF Listing
    <3>3. k - 1 \in 1 .. n - 1 /\ k - 1 + 1 = k
      BY <1>6, <1>7, <3>1, <3>2
    <3>4. pos2[k - 1] = i
      BY <1>7, <3>2, <3>3
    <3> QED
      BY <3>3, <3>4
  <2> QED
    BY <1>7, <1>8, <2>1, <2>2, <2>3 DEF Listing
<1> DEFINE old == Queue(buf, h)
<1>11. old = [k \in 1 .. n |-> buf[pos[k]]]
  BY <1>3, ListingQueue
<1>17. Queue(new, h) = [k \in 1 .. n - 1 |-> new[pos2[k]]]
  BY <1>7, <1>10, ListingQueue
<1> HIDE DEF old
<1>12. \A k \in 1 .. n - 1 : new[pos2[k]] = buf[pos[k + 1]]
  BY <1>1, <1>4, <1>7, <1>9
<1>13. \A k \in 1 .. n : buf[pos[k]] \in Mbuf
  BY <1>4
<1>14. old \in Seq(Mbuf) /\ Len(old) = n /\ old # <<>>
  BY <1>4, <1>6, <1>11, <1>13
<1>15. /\ Tail(old) \in Seq(Mbuf) /\ Len(Tail(old)) = n - 1
       /\ \A k \in 1 .. n - 1 : Tail(old)[k] = old[k + 1]
  BY <1>14, HeadTailProperties
<1>16. \A k \in 1 .. n - 1 : old[k + 1] = new[pos2[k]]
  BY <1>7, <1>11, <1>12
<1>18. /\ Queue(new, h) \in Seq(Mbuf) /\ Len(Queue(new, h)) = n - 1
       /\ \A k \in 1 .. n - 1 : Queue(new, h)[k] = Tail(old)[k]
  <2>1. \A k \in 1 .. n - 1 : new[pos2[k]] \in Mbuf
    BY <1>4, <1>7, <1>12
  <2> QED
    BY <1>7, <1>15, <1>16, <1>17, <2>1
<1>19. Queue(new, h) = Tail(old)
  BY <1>15, <1>18, SeqEqual
<1> QED
  BY <1>2, <1>14, <1>19 DEF old

(* Moving the head up to the first packet keeps the queue and the counts.   *)
LEMMA QueueShift ==
  ASSUME NEW buf \in [Slots -> Mbuf \cup {NoMbuf}], NEW h \in Slots,
         NEW c \in 0 .. NumTxDesc,
         \A i \in Slots : buf[i] # NoMbuf => c <= Dist(h, i)
  PROVE  /\ Queue(buf, Advance(h, c)) = Queue(buf, h)
         /\ \A d \in Int : Count(buf, Advance(h, c), d - c) = Count(buf, h, d)
<1> DEFINE h2 == Advance(h, c)
<1>1. h2 \in Slots
  BY AdvanceSlot
<1>2. /\ \A i \in Slots : buf[i] # NoMbuf => Dist(h2, i) = Dist(h, i) - c
      /\ \A i \in Slots : Dist(h, i) \in Nat
      /\ NumTxDesc \in Nat
  BY DistShift, DistRange, TxConstants
<1> HIDE DEF h2
<1>3. ASSUME NEW d \in Int
      PROVE  Count(buf, h2, d - c) = Count(buf, h, d)
  <2>1. Before(buf, h2, d - c) = Before(buf, h, d)
    BY <1>2 DEF Before
  <2> QED
    BY <2>1 DEF Count
<1>4. PICK n, pos : Listing(buf, h, n, pos)
  BY ListingExists
<1>5. Listing(buf, h2, n, pos)
  <2>1. \A k \in 1 .. n : Dist(h2, pos[k]) = Dist(h, pos[k]) - c
                          /\ Dist(h, pos[k]) \in Nat
    BY <1>2, <1>4 DEF Listing
  <2>2. \A k, l \in 1 .. n : k < l => Dist(h2, pos[k]) < Dist(h2, pos[l])
    BY <1>2, <1>4, <2>1 DEF Listing
  <2> QED
    BY <1>4, <2>2 DEF Listing
<1>6. Queue(buf, h2) = Queue(buf, h)
  <2>1. /\ Queue(buf, h)  = [k \in 1 .. n |-> buf[pos[k]]]
        /\ Queue(buf, h2) = [k \in 1 .. n |-> buf[pos[k]]]
    BY <1>1, <1>4, <1>5, ListingQueue
  <2> QED
    BY <2>1
<1> QED
  BY <1>3, <1>6 DEF h2

LEMMA TailAppend ==
  ASSUME NEW q \in Seq(Mbuf), q # <<>>, NEW m \in Mbuf
  PROVE  Tail(Append(q, m)) = Append(Tail(q), m)
BY HeadTailAppend

-----------------------------------------------------------------------------
(* Every step of the ring is a step of the FIFO, or changes nothing there.  *)

LEMMA RingQueueFacts ==
  ASSUME IInv
  PROVE  /\ RingQueue \in Seq(Mbuf)
         /\ \A k \in 1 .. Len(RingQueue) : RingQueue[k] \in held
         /\ \A d \in Int : Off(FillIndex) <= d =>
              Count(txBufMbuf, RingHead, d) = Len(RingQueue)
<1>1. /\ RingHead \in Slots /\ \A i \in Slots : Off(i) \in Nat
      /\ txBufMbuf \in [Slots -> Mbuf \cup {NoMbuf}] /\ FillIndex \in Slots
  BY RingFacts
     DEF IInv, TypeOK, SlotType, RingType, OutputType, FillIndex
<1>2. /\ RingQueue \in Seq(Mbuf)
      /\ \A k \in 1 .. Len(RingQueue) : \E i \in Slots :
           txBufMbuf[i] # NoMbuf /\ RingQueue[k] = txBufMbuf[i]
      /\ \A d : (\A i \in Slots : txBufMbuf[i] # NoMbuf => Off(i) < d) =>
           Count(txBufMbuf, RingHead, d) = Len(RingQueue)
  BY <1>1, QueueFacts DEF RingQueue, Off
<1>3. \A i \in Slots : txBufMbuf[i] # NoMbuf => txBufMbuf[i] \in held
  BY DEF IInv, IHeld
<1>4. \A k \in 1 .. Len(RingQueue) : RingQueue[k] \in held
  BY <1>2, <1>3
<1>5. ASSUME NEW d \in Int, Off(FillIndex) <= d
      PROVE  Count(txBufMbuf, RingHead, d) = Len(RingQueue)
  <2>1. \A i \in Slots : txBufMbuf[i] # NoMbuf => Off(i) < d
    BY <1>1, <1>5 DEF IInv, IBufs, EndsAt
  <2> QED
    BY <1>2, <2>1
<1> QED
  BY <1>2, <1>4, <1>5

(* The last of these in a form that also holds of the next state.           *)
LEMMA AllPublished ==
  ASSUME NEW d \in Int
  PROVE  IInv => (Off(FillIndex) <= d =>
                    Count(txBufMbuf, RingHead, d) = Len(RingQueue))
BY RingQueueFacts

(* An empty ring is an empty FIFO.                                          *)
EmptySlots == op # "fill" /\ \A i \in Slots : txBufMbuf[i] = NoMbuf

LEMMA EmptyFifo ==
  EmptySlots =>
    RingPackets = <<>> /\ RingTailed = 0 /\ RingPublished = 0 /\ RingSent = 0
<1> SUFFICES ASSUME EmptySlots
             PROVE  /\ RingPackets = <<>> /\ RingTailed = 0
                    /\ RingPublished = 0 /\ RingSent = 0
  OBVIOUS
<1>1. \A d : Count(txBufMbuf, RingHead, d) = 0
  <2> TAKE d
  <2>1. Before(txBufMbuf, RingHead, d) = {}
    BY DEF EmptySlots, Before
  <2> QED
    BY <2>1, FS_EmptySet DEF Count
<1>2. RingQueue = <<>>
  BY <1>1 DEF RingQueue, Queue
<1> QED
  BY <1>1, <1>2 DEF EmptySlots, RingPackets, RingTailed, RingPublished,
                    RingSent, PacketsBefore

(* What the FIFO looks at stays where it is.                                *)
SameFifo ==
  /\ UNCHANGED <<txBufMbuf, RingHead, txCleanBarrierIndex, opMbuf, opTotal,
                 opTso>>
  /\ op' = "fill" <=> op = "fill"

LEMMA SameFifoFacts ==
  ASSUME SameFifo
  PROVE  /\ RingPackets' = RingPackets /\ RingPublished' = RingPublished
         /\ (tdt' = tdt /\ (NicHasRing' <=> NicHasRing)) =>
              RingTailed' = RingTailed
         /\ (tdh' = tdh /\ (NicHasRing' <=> NicHasRing)) =>
              RingSent' = RingSent
<1>1. RingQueue' = RingQueue
  BY DEF SameFifo, RingQueue
<1>2. RingPackets' = RingPackets
  BY <1>1 DEF SameFifo, RingPackets, WillBeLost
<1>3. RingPublished' = RingPublished
  BY DEF SameFifo, RingPublished, PacketsBefore, Off
<1>4. ASSUME tdt' = tdt, NicHasRing' <=> NicHasRing
      PROVE  RingTailed' = RingTailed
  BY <1>4 DEF SameFifo, RingTailed, PacketsBefore, Off
<1>5. ASSUME tdh' = tdh, NicHasRing' <=> NicHasRing
      PROVE  RingSent' = RingSent
  BY <1>5 DEF SameFifo, RingSent, PacketsBefore, Off
<1> QED
  BY <1>2, <1>3, <1>4, <1>5

LEMMA StutterStep ==
  ASSUME RingPackets' = RingPackets, RingTailed' = RingTailed,
         RingPublished' = RingPublished, RingSent' = RingSent
  PROVE  UNCHANGED Fifo!fifoVars
BY DEF Fifo!fifoVars

(* The steps that move no packet and no pointer of the FIFO.                *)
LEMMA FifoQuiet ==
  ASSUME IInv,
         \/ OutputBegin \/ OutputLoopEnd \/ TxInterrupt \/ CleanSkip
         \/ CleanEnd \/ StopOutput \/ RxTailAstray \/ UNCHANGED vars
  PROVE  UNCHANGED Fifo!fifoVars
<1>1. /\ SameFifo /\ tdt' = tdt /\ tdh' = tdh
      /\ NicHasRing' <=> NicHasRing
  BY DEF SameFifo, RingHead, NicHasRing, Live, OutputBegin, OutputLoopEnd,
         TxInterrupt, CleanSkip, CleanEnd, StopOutput, RxTailAstray, vars,
         ringVars, slotVars, opVars, wlVars, nicVars
<1> QED
  BY <1>1, SameFifoFacts, StutterStep

(* While outputStart is in its loop the NIC has the ring.                   *)
LEMMA OutputRunning ==
  ASSUME IInv, op # "idle"
  PROVE  NicHasRing
BY DEF IInv, IControl, TypeOK, WorkLoopType, NicHasRing, Live, Stopped

LEMMA FifoWriteTail ==
  ASSUME IInv, WriteTail
  PROVE  Fifo!MoveTail \/ UNCHANGED Fifo!fifoVars
<1>1. /\ SameFifo /\ tdh' = tdh /\ NicHasRing /\ NicHasRing'
      /\ RingPackets = RingQueue /\ FillIndex = txNextDescIndex
      /\ Off(txNextDescIndex) \in Int
  <2>1. NicHasRing
    BY OutputRunning DEF WriteTail
  <2>2. Off(txNextDescIndex) \in Int
    BY RingFacts DEF IInv, TypeOK, RingType
  <2> QED
    BY <2>1, <2>2 DEF SameFifo, RingHead, NicHasRing, WriteTail, ringVars,
             slotVars, wlVars, RingPackets, FillIndex
<1>2. /\ RingPackets' = RingPackets /\ RingPublished' = RingPublished
      /\ RingSent' = RingSent /\ (tdt' = tdt => RingTailed' = RingTailed)
  BY <1>1, SameFifoFacts
<1>3. CASE tdt' = tdt
  BY <1>2, <1>3, StutterStep
<1>4. CASE tdt' # tdt
  <2>1. RingTailed' = Count(txBufMbuf, RingHead, Off(txNextDescIndex))
    BY <1>1, <1>4
       DEF WriteTail, RingTailed, PacketsBefore, SameFifo, Off
  <2>2. RingTailed' = Len(RingPackets)
    BY <1>1, <2>1, AllPublished
  <2> QED
    BY <1>2, <2>2 DEF Fifo!MoveTail
<1> QED
  BY <1>3, <1>4

LEMMA FifoSetBarrier ==
  ASSUME IInv, SetBarrier
  PROVE  Fifo!Publish
<1>1. /\ UNCHANGED <<txBufMbuf, RingHead, tdh, tdt, wl>>
      /\ RingPackets = RingQueue /\ FillIndex = txNextDescIndex
      /\ Off(txNextDescIndex) \in Int
  <2>1. Off(txNextDescIndex) \in Int
    BY RingFacts DEF IInv, TypeOK, RingType
  <2> QED
    BY <2>1 DEF SetBarrier, RingHead, slotVars, wlVars, nicVars,
                RingPackets, FillIndex
<1>2. RingPackets' = RingPackets /\ RingTailed' = RingTailed
      /\ RingSent' = RingSent
  BY <1>1 DEF SetBarrier, RingPackets, RingQueue, RingTailed, RingSent,
              NicHasRing, PacketsBefore, Off
<1>3. RingPublished' = Count(txBufMbuf, RingHead, Off(txNextDescIndex))
  BY <1>1 DEF SetBarrier, RingPublished, PacketsBefore, Off
<1>4. RingPublished' = Len(RingPackets)
  BY <1>1, <1>3, AllPublished
<1> QED
  BY <1>2, <1>4 DEF Fifo!Publish

(* outputStart takes a packet: it is the youngest, and none like it is in   *)
(* the driver.  One that will be lost never joins the FIFO.                  *)
LEMMA FifoReserve ==
  ASSUME IInv, NEW m \in Mbuf, NEW n \in 1 .. MaxSegs + 1, NEW tso \in BOOLEAN,
         OutputReserve(m, n, tso)
  PROVE  Fifo!Post(m) \/ UNCHANGED Fifo!fifoVars
<1>1. n \in Nat /\ txNumFreeDesc \in Nat /\ txNumFreeDesc - n \in Nat
      /\ txNumFreeDesc <= NumTxDesc /\ txNextDescIndex \in Slots
  BY TxConstants
     DEF IInv, IFree, TypeOK, RingType, OutputReserve, Reserve
<1>2. RingHead' = RingHead
  <2>1. Advance(Advance(txNextDescIndex, n), txNumFreeDesc - n)
          = Advance(txNextDescIndex, n + (txNumFreeDesc - n))
    BY <1>1, AdvanceAdvance, TxConstants
  <2>2. n + (txNumFreeDesc - n) = txNumFreeDesc
    BY <1>1
  <2> QED
    BY <2>1, <2>2 DEF RingHead, OutputReserve
<1>3. /\ RingQueue' = RingQueue /\ RingPublished' = RingPublished
      /\ RingTailed' = RingTailed /\ RingSent' = RingSent
  BY <1>2 DEF OutputReserve, slotVars, wlVars, nicVars, RingQueue,
              RingPublished, RingTailed, RingSent, NicHasRing, PacketsBefore,
              Off
<1>4. /\ RingPackets = RingQueue
      /\ RingPackets' = IF ~WillBeLost' THEN Append(RingQueue, m)
                                        ELSE RingQueue
  BY <1>3 DEF OutputReserve, RingPackets
<1>5. m \notin Fifo!Packets
  BY <1>4, RingQueueFacts DEF OutputReserve, Fifo!Packets
<1>6. CASE WillBeLost'
  BY <1>3, <1>4, <1>6, StutterStep
<1>7. CASE ~WillBeLost'
  BY <1>3, <1>4, <1>5, <1>7 DEF Fifo!Post
<1> QED
  BY <1>6, <1>7

(* Filling in its last descriptor moves it from outputStart's hands into    *)
(* the ring, at the same place of the queue.                                 *)
LEMMA FifoFill ==
  ASSUME IInv, OutputFill
  PROVE  UNCHANGED Fifo!fifoVars
<1>1. /\ RingHead' = RingHead /\ RingHead \in Slots
      /\ UNCHANGED <<tdh, tdt, txCleanBarrierIndex>>
      /\ NicHasRing /\ NicHasRing' /\ op = "fill"
      /\ opIndex \in Slots /\ opMbuf \in Mbuf
      /\ txBufMbuf \in [Slots -> Mbuf \cup {NoMbuf}]
      /\ tdh \in Slots /\ tdt \in Slots /\ txCleanBarrierIndex \in Slots
      /\ \A i \in Slots : Off(i) \in Nat
  <2>1. NicHasRing
    BY OutputRunning DEF OutputFill
  <2>2. RingHead \in Slots /\ \A i \in Slots : Off(i) \in Nat
    BY RingFacts DEF IInv
  <2>3. opMbuf \in Mbuf
    BY DEF OutputFill, IInv, IHeld, TypeOK, OutputType
  <2> QED
    BY <2>1, <2>2, <2>3
       DEF OutputFill, ringVars, wlVars, nicVars, RingHead, NicHasRing,
           IInv, TypeOK, OutputType, SlotType, RingType
<1>2. /\ txBufMbuf[opIndex] = NoMbuf
      /\ \A i \in Slots : txBufMbuf[i] # NoMbuf => Off(i) < Off(opIndex)
  BY <1>1 DEF IInv, IBufs, EndsAt, FillIndex
<1>3. CASE opLeft # 1
  <2>1. txBufMbuf' = txBufMbuf
    BY <1>1, <1>2, <1>3 DEF OutputFill
  <2>2. SameFifo
    BY <1>1, <1>3, <2>1 DEF SameFifo, OutputFill
  <2> QED
    BY <1>1, <2>2, SameFifoFacts, StutterStep
<1>5. CASE LastOfLost
  <2>1. txBufMbuf' = txBufMbuf /\ opLeft = 1 /\ WillBeLost
    BY <1>1, <1>2, <1>5 DEF OutputFill, LastOfLost
  <2>2. RingQueue' = RingQueue
    BY <1>1, <2>1 DEF RingQueue
  <2>3. RingPackets' = RingPackets
    BY <2>1, <2>2 DEF OutputFill, RingPackets
  <2>4. /\ RingPublished' = RingPublished /\ RingTailed' = RingTailed
        /\ RingSent' = RingSent
    BY <1>1, <2>1 DEF RingPublished, RingTailed, RingSent, PacketsBefore, Off
  <2> QED
    BY <2>3, <2>4, StutterStep
<1>4. CASE opLeft = 1 /\ ~LastOfLost
  <2>1. /\ txBufMbuf'[opIndex] = opMbuf
        /\ \A i \in Slots : i # opIndex => txBufMbuf'[i] = txBufMbuf[i]
    BY <1>1, <1>4 DEF OutputFill
  <2>2. /\ Queue(txBufMbuf', RingHead)
             = Append(Queue(txBufMbuf, RingHead), opMbuf)
        /\ \A d \in Int : d <= Off(opIndex) =>
             Count(txBufMbuf', RingHead, d) = Count(txBufMbuf, RingHead, d)
    <3>1. \A i \in Slots : Off(i) = Dist(RingHead, i)
      BY DEF Off
    <3>2. \A i \in Slots : txBufMbuf[i] # NoMbuf => Dist(RingHead, i) < Dist(RingHead, opIndex)
      BY <1>1, <1>2, <3>1
    <3>3. Appended(txBufMbuf, RingHead, opIndex, opMbuf, txBufMbuf')
      <4>1. /\ txBufMbuf \in [Slots -> Mbuf \cup {NoMbuf}] /\ RingHead \in Slots
            /\ opIndex \in Slots /\ opMbuf \in Mbuf /\ txBufMbuf[opIndex] = NoMbuf
        BY <1>1, <1>2
      <4> QED
        BY <2>1, <3>2, <4>1, QueueAppend
    <3> QED
      BY <1>1, <3>1, <3>3 DEF Appended
  <2>3. RingPackets' = RingPackets
    BY <1>1, <1>4, <2>2 DEF OutputFill, RingPackets, RingQueue, LastOfLost
  <2>4. /\ Off(tdh) <= Off(opIndex) /\ Off(tdt) <= Off(opIndex)
        /\ Off(txCleanBarrierIndex) <= Off(opIndex)
    BY <1>1 DEF IInv, IOrder, INic, FillIndex, NicHasRing, Live, OutputFill,
                IControl, Stopped
  <2>5. /\ RingPublished' = RingPublished /\ RingTailed' = RingTailed
        /\ RingSent' = RingSent
    BY <1>1, <2>2, <2>4
       DEF RingPublished, RingTailed, RingSent, PacketsBefore, Off
  <2> QED
    BY <2>3, <2>5, StutterStep
<1> QED
  BY <1>3, <1>4, <1>5 DEF LastOfLost

(* The NIC moves its head: past the last descriptor of a packet the packet  *)
(* is sent.                                                                  *)
LEMMA FifoNicProcess ==
  ASSUME IInv, NicProcess
  PROVE  Fifo!Transmit \/ UNCHANGED Fifo!fifoVars
<1>1. /\ wl \in Live /\ tdh \in Slots /\ tdt \in Slots /\ tdh # tdt
      /\ wl' = wl
  BY DEF NicProcess, IInv, INic, TypeOK, WorkLoopType, RingType, Live, wlVars
<1>2. /\ RingHead \in Slots /\ \A i \in Slots : Off(i) \in 0 .. NumTxDesc - 1
      /\ \A i, j \in Slots : Off(i) = Off(j) => i = j
      /\ \A i \in Slots : Off(i) < NumTxDesc - 1 => Off(Next1(i)) = Off(i) + 1
      /\ NumTxDesc \in Nat
  BY RingFacts, TxConstants DEF IInv
<1>3. Off(tdh) < Off(tdt)
  BY <1>1, <1>2 DEF IInv, INic
<1>4. Off(Next1(tdh)) = Off(tdh) + 1
  BY <1>1, <1>2, <1>3
<1>5. SameFifo /\ tdt' = tdt /\ (NicHasRing' <=> NicHasRing)
  BY <1>1 DEF SameFifo, NicProcess, RingHead, ringVars, opVars, NicHasRing
<1>6. /\ RingPackets' = RingPackets /\ RingPublished' = RingPublished
      /\ RingTailed' = RingTailed
  BY <1>5, SameFifoFacts
<1> DEFINE cnt(d) == Count(txBufMbuf, RingHead, d)
           set(d) == Before(txBufMbuf, RingHead, d)
<1>7. /\ RingSent = cnt(Off(tdh)) /\ RingSent' = cnt(Off(tdh) + 1)
      /\ RingTailed = cnt(Off(tdt))
  <2>1. RingSent' = cnt(Off(Next1(tdh)))
    BY <1>1, <1>5 DEF RingSent, PacketsBefore, NicHasRing, NicProcess,
                      SameFifo, Off
  <2> QED
    BY <1>1, <1>4, <2>1 DEF RingSent, RingTailed, PacketsBefore, NicHasRing
<1>8. /\ IsFiniteSet(set(Off(tdh))) /\ cnt(Off(tdh)) \in Nat
      /\ cnt(Off(tdt)) \in Nat
      /\ set(Off(tdh) + 1) \subseteq set(Off(tdt)) =>
           cnt(Off(tdh) + 1) <= cnt(Off(tdt))
  BY <1>2, CountFacts
<1>9. CASE txBufMbuf[tdh] = NoMbuf
  <2>1. set(Off(tdh) + 1) = set(Off(tdh))
    BY <1>1, <1>2, <1>9 DEF Before, Off
  <2>2. RingSent' = RingSent
    BY <1>7, <2>1 DEF Count
  <2> QED
    BY <1>6, <2>2, StutterStep
<1>10. CASE txBufMbuf[tdh] # NoMbuf
  <2>1. /\ set(Off(tdh) + 1) = set(Off(tdh)) \cup {tdh}
        /\ tdh \notin set(Off(tdh))
        /\ set(Off(tdh) + 1) \subseteq set(Off(tdt))
    BY <1>1, <1>2, <1>3, <1>10 DEF Before, Off
  <2>2. cnt(Off(tdh) + 1) = cnt(Off(tdh)) + 1
    BY <1>8, <2>1, FS_AddElement DEF Count
  <2>3. RingSent < RingTailed /\ RingSent' = RingSent + 1
    BY <1>7, <1>8, <2>1, <2>2
  <2> QED
    BY <1>6, <2>3 DEF Fifo!Transmit
<1> QED
  BY <1>9, <1>10

(* txInterrupt frees the oldest packet, which the NIC has sent.             *)
LEMMA FifoCleanFree ==
  ASSUME IInv, CleanFree
  PROVE  Fifo!Free
<1> DEFINE s == txDirtyIndex
<1>1. /\ RingHead' = RingHead /\ RingHead \in Slots /\ s \in Slots
      /\ UNCHANGED <<tdh, tdt, txCleanBarrierIndex, op, opMbuf, opTotal, opTso>>
      /\ NicHasRing /\ NicHasRing' /\ wl = "scan"
      /\ txBufMbuf \in [Slots -> Mbuf \cup {NoMbuf}]
      /\ tdh \in Slots /\ tdt \in Slots /\ txCleanBarrierIndex \in Slots
      /\ \A i \in Slots : Off(i) \in Nat
      /\ \A i, j \in Slots : Off(i) = Off(j) => i = j
  <2>1. /\ RingHead \in Slots /\ \A i \in Slots : Off(i) \in Nat
        /\ \A i, j \in Slots : Off(i) = Off(j) => i = j
    BY RingFacts DEF IInv
  <2> QED
    BY <2>1 DEF CleanFree, ringVars, opVars, nicVars, RingHead, NicHasRing,
                Live, IInv, TypeOK, SlotType, RingType
<1>2. /\ txBufMbuf[s] # NoMbuf
      /\ \A i \in Slots : txBufMbuf[i] # NoMbuf => Off(s) <= Off(i)
      /\ txBufMbuf'[s] = NoMbuf
      /\ \A i \in Slots : i # s => txBufMbuf'[i] = txBufMbuf[i]
  BY <1>1 DEF CleanFree, IInv, IBufs, EndsAt
<1>3. /\ Off(s) < Off(tdh) /\ Off(s) < Off(tdt)
      /\ Off(s) < Off(txCleanBarrierIndex)
  BY <1>1, <1>2 DEF CleanFree, IInv, INic, IOrder, Live
<1> HIDE DEF s
<1> DEFINE old(d) == Count(txBufMbuf, RingHead, d)
           new(d) == Count(txBufMbuf', RingHead, d)
<1>4. /\ RingQueue # <<>> /\ Queue(txBufMbuf', RingHead) = Tail(RingQueue)
      /\ \A d \in Int : Off(s) < d => old(d) > 0 /\ new(d) = old(d) - 1
  <2>1. \A i \in Slots : Off(i) = Dist(RingHead, i)
    BY DEF Off
  <2>2. \A i \in Slots : txBufMbuf[i] # NoMbuf =>
          Dist(RingHead, s) <= Dist(RingHead, i)
    BY <1>1, <1>2, <2>1
  <2>3. /\ Queue(txBufMbuf, RingHead) # <<>>
        /\ Queue(txBufMbuf', RingHead) = Tail(Queue(txBufMbuf, RingHead))
        /\ \A d \in Int : Dist(RingHead, s) < d =>
              old(d) > 0 /\ new(d) = old(d) - 1
    BY <1>1, <1>2, <2>2, QueueTail
  <2> QED
    BY <1>1, <2>1, <2>3 DEF RingQueue
<1> HIDE DEF old, new
<1>5. RingPackets' = Tail(RingPackets)
  <2>1. RingQueue' = Tail(RingQueue) /\ RingQueue \in Seq(Mbuf)
    BY <1>1, <1>4, RingQueueFacts DEF RingQueue
  <2>2. CASE op = "fill"
    <3>1. opMbuf \in Mbuf
      BY <2>2 DEF IInv, IHeld, TypeOK, OutputType
    <3> QED
      BY <1>1, <1>4, <2>1, <2>2, <3>1, TailAppend DEF RingPackets, WillBeLost
  <2>3. CASE op # "fill"
    BY <1>1, <2>1, <2>3 DEF RingPackets
  <2> QED
    BY <2>2, <2>3
<1>6. /\ RingTailed = old(Off(tdt)) /\ RingTailed' = new(Off(tdt))
      /\ RingSent = old(Off(tdh)) /\ RingSent' = new(Off(tdh))
      /\ RingPublished = old(Off(txCleanBarrierIndex))
      /\ RingPublished' = new(Off(txCleanBarrierIndex))
  BY <1>1 DEF RingTailed, RingSent, RingPublished, PacketsBefore, Off, old, new
<1>7. /\ RingTailed' = RingTailed - 1
      /\ RingSent > 0 /\ RingSent' = RingSent - 1
      /\ RingPublished > 0 /\ RingPublished' = RingPublished - 1
  BY <1>1, <1>3, <1>4, <1>6
<1> QED
  BY <1>5, <1>7 DEF Fifo!Free

(* Counting its descriptors moves the head of the ring, not the queue.      *)
LEMMA FifoCleanCount ==
  ASSUME IInv, CleanCount
  PROVE  UNCHANGED Fifo!fifoVars
<1>1. /\ RingHead \in Slots /\ \A i \in Slots : Off(i) \in Nat
      /\ \A i, j \in Slots : Off(i) = Off(j) => i = j
      /\ Used \in 0 .. NumTxDesc - 1
  BY RingFacts DEF IInv
<1>2. /\ txBufMbuf \in [Slots -> Mbuf \cup {NoMbuf}]
      /\ tdh \in Slots /\ tdt \in Slots /\ txCleanBarrierIndex \in Slots
      /\ txDirtyIndex \in Slots /\ txNextDescIndex \in Slots
      /\ txNumFreeDesc \in Nat /\ txNumFreeDesc <= NumTxDesc
      /\ NumTxDesc \in Nat /\ FillIndex \in Slots
      /\ cleaned \in Nat /\ lostDescs \in Nat
  BY TxConstants
     DEF IInv, IFree, TypeOK, SlotType, RingType, OutputType, WorkLoopType,
         LossType, FillIndex
<1>3. /\ cleaned <= Off(txDirtyIndex) + 1 /\ wl = "count"
      /\ txBufMbuf[txDirtyIndex] = NoMbuf
      /\ Off(txDirtyIndex) < Off(tdh) /\ Off(tdh) <= Off(tdt)
      /\ Off(txDirtyIndex) < Off(txCleanBarrierIndex)
      /\ Off(txCleanBarrierIndex) <= Used
  BY <1>1, <1>2 DEF CleanCount, IInv, ICount, EndsAt, IOrder, INic, Live
<1>4. \A i \in Slots : txBufMbuf[i] # NoMbuf => cleaned <= Off(i)
  <2> SUFFICES ASSUME NEW i \in Slots, txBufMbuf[i] # NoMbuf
               PROVE  cleaned <= Off(i)
    OBVIOUS
  <2>1. Off(txDirtyIndex) <= Off(i) /\ i # txDirtyIndex
    BY <1>3 DEF IInv, IBufs, EndsAt
  <2> QED
    BY <1>1, <1>2, <1>3, <2>1
<1>5. /\ cleaned \in 0 .. NumTxDesc
      /\ txNumFreeDesc + cleaned <= NumTxDesc
  BY <1>1, <1>2, <1>3 DEF Used
<1>6. RingHead' = Advance(RingHead, cleaned)
  <2>1. RingHead' = Advance(txNextDescIndex, txNumFreeDesc + cleaned)
    BY DEF CleanCount, RingHead
  <2> QED
    BY <1>2, <1>5, <2>1, AdvanceAdvance DEF RingHead
<1>7. /\ UNCHANGED <<txBufMbuf, tdh, tdt, txCleanBarrierIndex, op, opMbuf,
                     opTotal, opTso>>
      /\ NicHasRing /\ NicHasRing'
  BY DEF CleanCount, slotVars, nicVars, opVars, NicHasRing, Live
<1> DEFINE old(d) == Count(txBufMbuf, RingHead, d)
           new(d) == Count(txBufMbuf, RingHead', d)
<1>8. /\ Queue(txBufMbuf, RingHead') = RingQueue
      /\ \A d \in Int : new(d - cleaned) = old(d)
  BY <1>1, <1>2, <1>4, <1>5, <1>6, QueueShift DEF Off, RingQueue
<1> HIDE DEF old, new
<1>9. ASSUME NEW b \in Slots, cleaned <= Off(b)
      PROVE  new(Dist(RingHead', b)) = old(Off(b))
  <2>1. Dist(RingHead', b) = Off(b) - cleaned
    BY <1>1, <1>5, <1>6, <1>9, DistShift DEF Off
  <2> QED
    BY <1>1, <1>8, <2>1
<1>10. /\ RingTailed = old(Off(tdt)) /\ RingTailed' = new(Dist(RingHead', tdt))
       /\ RingSent = old(Off(tdh)) /\ RingSent' = new(Dist(RingHead', tdh))
       /\ RingPublished = old(Off(txCleanBarrierIndex))
       /\ RingPublished' = new(Dist(RingHead', txCleanBarrierIndex))
  BY <1>7 DEF RingTailed, RingSent, RingPublished, PacketsBefore, Off, old, new
<1>11. /\ RingTailed' = RingTailed /\ RingSent' = RingSent
       /\ RingPublished' = RingPublished
  BY <1>1, <1>2, <1>3, <1>9, <1>10
<1>12. RingPackets' = RingPackets
  BY <1>7, <1>8 DEF RingPackets, RingQueue, WillBeLost
<1> QED
  BY <1>11, <1>12, StutterStep

(* With the tail behind the last packet the NIC knows all of them.          *)
LEMMA AllTailed ==
  IInv => ((tdt = txNextDescIndex /\ op # "fill" /\ NicHasRing)
             => RingTailed = Len(RingQueue))
<1>1. IInv => Off(txNextDescIndex) \in Int
  BY RingFacts DEF IInv, TypeOK, RingType
<1> QED
  BY <1>1, AllPublished DEF RingTailed, PacketsBefore, FillIndex

(* The dummy descriptor of intelFlushTxRing is no packet.                   *)
LEMMA FifoFlush ==
  ASSUME IInv, IInv', FlushTxRing
  PROVE  UNCHANGED Fifo!fifoVars
<1>1. /\ wl = "quiesce" /\ op = "idle" /\ txNextDescIndex \in Slots
      /\ txNumFreeDesc \in Nat \ {0} /\ txNumFreeDesc <= NumTxDesc
      /\ NumTxDesc \in Nat
      /\ UNCHANGED <<txCleanBarrierIndex, txBufMbuf, opMbuf, op, opTotal,
                     opTso, tdh>>
  BY TxConstants DEF FlushTxRing, IInv, IFree, IControl, Stopped, opVars,
                     TypeOK, RingType
<1>2. RingHead' = RingHead
  <2>1. CASE tdt = txNextDescIndex
    <3>1. Next1(txNextDescIndex) = Advance(txNextDescIndex, 1)
      BY <1>1 DEF Next1, Advance, Slots
    <3>2. Advance(Next1(txNextDescIndex), txNumFreeDesc - 1)
            = Advance(txNextDescIndex, 1 + (txNumFreeDesc - 1))
      BY <1>1, <3>1, AdvanceAdvance
    <3> QED
      BY <1>1, <2>1, <3>2 DEF FlushTxRing, RingHead
  <2>2. CASE tdt # txNextDescIndex
    BY <2>2 DEF FlushTxRing, RingHead
  <2> QED
    BY <2>1, <2>2
<1>3. SameFifo /\ NicHasRing /\ NicHasRing'
  BY <1>1, <1>2 DEF SameFifo, NicHasRing, Live, FlushTxRing
<1>4. /\ RingPackets' = RingPackets /\ RingPublished' = RingPublished
      /\ RingSent' = RingSent /\ (tdt' = tdt => RingTailed' = RingTailed)
  BY <1>1, <1>3, SameFifoFacts
<1>5. RingTailed' = RingTailed
  <2>1. CASE tdt = txNextDescIndex
    <3>1. tdt' = txNextDescIndex'
      BY <2>1 DEF FlushTxRing
    <3>2. RingTailed = Len(RingQueue)
      BY <1>1, <1>3, <2>1, <3>1, AllTailed
    <3>3. (IInv => ((tdt = txNextDescIndex /\ op # "fill" /\ NicHasRing)
                      => RingTailed = Len(RingQueue)))'
      BY AllTailed, PTL
    <3>4. RingTailed' = Len(RingQueue)'
      BY <1>1, <1>3, <3>1, <3>3
    <3>5. RingQueue' = RingQueue
      BY <1>1, <1>2 DEF RingQueue
    <3> QED
      BY <3>2, <3>4, <3>5
  <2>2. CASE tdt # txNextDescIndex
    BY <1>4, <2>2 DEF FlushTxRing
  <2> QED
    BY <2>1, <2>2
<1> QED
  BY <1>4, <1>5, StutterStep

(* The NIC is stopped and forgets the ring.                                 *)
LEMMA FifoStop ==
  ASSUME IInv, ResetNic \/ QuiesceForWake
  PROVE  Fifo!Stop
<1>1. SameFifo /\ NicHasRing /\ ~NicHasRing'
  BY DEF SameFifo, RingHead, NicHasRing, Live, ResetNic, QuiesceForWake,
         ringVars, slotVars, opVars
<1>2. RingPackets' = RingPackets /\ RingPublished' = RingPublished
  BY <1>1, SameFifoFacts
<1>3. RingTailed' = 0 /\ RingSent' = 0
  BY <1>1 DEF RingTailed, RingSent
<1> QED
  BY <1>2, <1>3 DEF Fifo!Stop

(* What is left is discarded; and a ring without a link stays empty.        *)
LEMMA EmptyWithoutLink == IInv => (wl \in {"off", "down"} => EmptySlots)
BY DEF IInv, IControl, EndsAt, Stopped, EmptySlots

LEMMA FifoDiscard ==
  ASSUME IInv, IInv', ClearDescriptors
  PROVE  Fifo!Discard
<1>1. RingTailed = 0 /\ RingSent = 0
  BY DEF ClearDescriptors, RingTailed, RingSent, NicHasRing, Live
<1>2. EmptySlots'
  <2>1. (IInv => (wl \in {"off", "down"} => EmptySlots))'
    BY EmptyWithoutLink, PTL
  <2>2. wl' \in {"off", "down"}
    BY DEF ClearDescriptors
  <2> QED
    BY <2>1, <2>2
<1>3. (EmptySlots => /\ RingPackets = <<>> /\ RingTailed = 0
                     /\ RingPublished = 0 /\ RingSent = 0)'
  BY EmptyFifo, PTL
<1> QED
  BY <1>1, <1>2, <1>3 DEF Fifo!Discard

LEMMA FifoEmpty ==
  ASSUME IInv, InitTxRing \/ SetLinkUp
  PROVE  UNCHANGED Fifo!fifoVars
<1>1. EmptySlots
  BY EmptyWithoutLink DEF InitTxRing, SetLinkUp
<1>2. EmptySlots'
  BY <1>1 DEF EmptySlots, InitTxRing, SetLinkUp, slotVars, opVars
<1>3. /\ RingPackets = <<>> /\ RingTailed = 0 /\ RingPublished = 0
      /\ RingSent = 0
  BY <1>1, EmptyFifo
<1>4. (EmptySlots => /\ RingPackets = <<>> /\ RingTailed = 0
                     /\ RingPublished = 0 /\ RingSent = 0)'
  BY EmptyFifo, PTL
<1> QED
  BY <1>2, <1>3, <1>4, StutterStep

(* The transmit ring implements the FIFO: whatever the interleaving of      *)
(* outputStart, txInterrupt, the handlers that reset the ring and the NIC,  *)
(* and whatever happens to the writes of the tail register, packets are     *)
(* sent and freed in the order they were taken, and none is freed before    *)
(* the NIC has sent it or has been stopped.  Packets outputStart keeps no    *)
(* record of are not in the FIFO.                                            *)
THEOREM RingImplementsFifo == Spec => RingIsFifo
<1>1. Init => Fifo!Init
  <2> SUFFICES ASSUME Init PROVE Fifo!Init
    OBVIOUS
  <2>1. EmptySlots
    BY DEF Init, EmptySlots
  <2> QED
    BY <2>1, EmptyFifo DEF Fifo!Init
<1>2. IInv /\ IInv' /\ [Next]_vars => [Fifo!Next]_(Fifo!fifoVars)
  <2> SUFFICES ASSUME IInv, IInv', [Next]_vars
               PROVE  Fifo!Next \/ UNCHANGED Fifo!fifoVars
    OBVIOUS
  <2>1. CASE OutputThread
    <3>1. ASSUME NEW m \in Mbuf, NEW n \in 1 .. MaxSegs + 1,
                 NEW tso \in BOOLEAN, OutputReserve(m, n, tso)
          PROVE  Fifo!Next \/ UNCHANGED Fifo!fifoVars
      <4>1. Fifo!Post(m) \/ UNCHANGED Fifo!fifoVars
        BY <3>1, FifoReserve
      <4> QED
        BY <4>1 DEF Fifo!Next
    <3>2. CASE OutputBegin \/ OutputLoopEnd
      BY <3>2, FifoQuiet
    <3>3. CASE OutputFill
      BY <3>3, FifoFill
    <3>4. CASE WriteTail
      BY <3>4, FifoWriteTail DEF Fifo!Next
    <3>5. CASE SetBarrier
      BY <3>5, FifoSetBarrier DEF Fifo!Next
    <3> QED
      BY <2>1, <3>1, <3>2, <3>3, <3>4, <3>5 DEF OutputThread
  <2>2. CASE NicProcess
    BY <2>2, FifoNicProcess DEF Fifo!Next
  <2>3. CASE WorkLoop
    <3>1. CASE TxInterrupt \/ CleanSkip \/ CleanEnd \/ StopOutput
                 \/ RxTailAstray
      BY <3>1, FifoQuiet
    <3>2. CASE CleanFree
      BY <3>2, FifoCleanFree DEF Fifo!Next
    <3>3. CASE CleanCount
      BY <3>3, FifoCleanCount
    <3>4. CASE FlushTxRing
      BY <3>4, FifoFlush
    <3>5. CASE ResetNic \/ QuiesceForWake
      BY <3>5, FifoStop DEF Fifo!Next
    <3>6. CASE ClearDescriptors
      BY <3>6, FifoDiscard DEF Fifo!Next
    <3>7. CASE InitTxRing \/ SetLinkUp
      BY <3>7, FifoEmpty
    <3> QED
      BY <2>3, <3>1, <3>2, <3>3, <3>4, <3>5, <3>6, <3>7 DEF WorkLoop
  <2>4. CASE UNCHANGED vars
    BY <2>4, FifoQuiet
  <2> QED
    BY <2>1, <2>2, <2>3, <2>4 DEF Next
<1> QED
  BY <1>1, <1>2, Inductive, PTL DEF RingIsFifo, Fifo!Spec, Spec
=============================================================================
