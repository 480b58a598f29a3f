----------------------------- MODULE RxRingProofs -----------------------------
(***************************************************************************)
(* The receive ring, for rings, batches, frames and sets of buffers of every *)
(* size: a receive buffer is in one place; what the NIC owns, if no mapping  *)
(* of a batch fails; a packet handed up is made of one frame.                 *)
(***************************************************************************)
EXTENDS RxRing, TLAPS

ITypes ==
  /\ rxBuf \in [Slots -> Buf] /\ chain \in Seq(ChainFrag)
  /\ descStat \in [Slots -> Frag \cup {NoFrag}]
  /\ nicFrag \in [frame : {0, 1}, pos : 1 .. MaxFrags]
  /\ rxNextDescIndex \in Slots /\ rdh \in Slots
  /\ NoBuf \notin upstream

IInv == ITypes /\ BufferOnce

(* All that BufferOnce depends on.                                          *)
bufVars == <<rxBuf, chain, upstream>>

-------------------------------------------------------------------------------
LEMMA RingSize == NumRxDesc \in Nat /\ NumRxDesc > 0
<1>1. PICK n \in 2 .. NumRxDesc : NumRxDesc = n * BatchSize
  BY RxConstants
<1>2. n \in Int /\ n >= 2 /\ BatchSize \in Nat /\ BatchSize > 0
  BY RxConstants
<1>3. QED BY <1>1, <1>2

(* Indexes stay in the ring.                                                *)
LEMMA SlotFacts == 0 \in Slots /\ \A i \in Slots : Next1(i) \in Slots
  BY RingSize DEF Slots, Next1

LEMMA Unchanged == ASSUME BufferOnce, UNCHANGED bufVars PROVE BufferOnce'
  BY DEF BufferOnce, bufVars, ChainBufs

(* A descriptor that was written back describes a fragment.                 *)
LEMMA DoneFrag ==
  ASSUME ITypes, NEW i \in Slots, Done(i) PROVE descStat[i] \in Frag
  BY DEF ITypes, Done

(* The packet being joined is discarded: nothing new is anywhere.            *)
LEMMA Discarded ==
  ASSUME IInv, chain' = <<>>, UNCHANGED <<rxBuf, upstream>>
  PROVE  BufferOnce' /\ chain' \in Seq(ChainFrag) /\ NoBuf \notin upstream'
<1>1. ChainBufs' = {}
  BY DEF ChainBufs
<1>2. BufferOnce'
  BY <1>1 DEF IInv, BufferOnce
<1>3. QED BY <1>2 DEF IInv, ITypes

(* A fragment and its buffer b, if it is not a copy, join the packet or      *)
(* complete it.  Before, b was in no other place than perhaps its slot.      *)
LEMMA Joined ==
  ASSUME IInv, NEW frag \in Frag, NEW b \in Buf \cup {NoBuf}, Join(frag, b),
         rxBuf' \in [Slots -> Buf],
         \A i, j \in Slots : i # j => rxBuf'[i] # rxBuf'[j],
         {rxBuf'[i] : i \in Slots} \cap (ChainBufs \cup upstream \cup {b}) = {},
         b \notin ChainBufs \cup upstream
  PROVE  BufferOnce' /\ chain' \in Seq(ChainFrag) /\ NoBuf \notin upstream'
<1> DEFINE e == [frame |-> frag.frame, pos |-> frag.pos, eop |-> frag.eop, buf |-> b]
<1>1. e \in ChainFrag /\ e.buf = b
  BY DEF Frag, ChainFrag
<1>2. chain \in Seq(ChainFrag) /\ Len(chain) \in Nat
  BY DEF IInv, ITypes
<1>3. CASE frag.eop
  <2>1. chain' = <<>> /\ upstream' = (upstream \cup ChainBufs \cup {b}) \ {NoBuf}
    BY <1>3 DEF Join
  <2>2. ChainBufs' = {}
    BY <2>1 DEF ChainBufs
  <2>3. BufferOnce'
    BY <2>1, <2>2 DEF BufferOnce
  <2>4. QED BY <2>1, <2>3
<1>4. CASE ~frag.eop
  <2>1. chain' = Append(chain, e) /\ upstream' = upstream
    BY <1>4 DEF Join
  <2> HIDE DEF e
  <2>2. /\ chain' \in Seq(ChainFrag) /\ Len(chain') = Len(chain) + 1
        /\ \A k \in 1 .. Len(chain) : chain'[k] = chain[k]
        /\ chain'[Len(chain) + 1] = e
    BY <2>1, <1>1, <1>2
  <2>3. ChainBufs' \subseteq ChainBufs \cup {b}
    BY <2>2, <1>1, <1>2 DEF ChainBufs
  <2>4. \A k \in 1 .. Len(chain) : chain[k].buf # NoBuf => chain[k].buf \in ChainBufs
    BY DEF ChainBufs
  <2>5. \A k, l \in 1 .. Len(chain') :
          k # l /\ chain'[k].buf # NoBuf => chain'[k].buf # chain'[l].buf
    BY <2>2, <2>4, <1>1, <1>2 DEF IInv, BufferOnce
  <2>6. ChainBufs' \cap upstream' = {}
    BY <2>1, <2>3 DEF IInv, BufferOnce
  <2>7. {rxBuf'[i] : i \in Slots} \cap (ChainBufs' \cup upstream') = {}
    BY <2>1, <2>3
  <2>8. BufferOnce'
    BY <2>5, <2>6, <2>7 DEF BufferOnce
  <2>9. QED BY <2>1, <2>2, <2>8 DEF IInv, ITypes
<1>5. QED BY <1>3, <1>4

(* nextDesc keeps the types.                                                *)
LEMMA NextDescTypes ==
  ASSUME ITypes, NEW addr, NextDesc(addr)
  PROVE  /\ descStat' \in [Slots -> Frag \cup {NoFrag}]
         /\ nicFrag' = nicFrag /\ rdh' = rdh /\ rxNextDescIndex' \in Slots
<1>1. descStat' \in [Slots -> Frag \cup {NoFrag}]
  BY DEF ITypes, NextDesc
<1>2. rxNextDescIndex' \in Slots
  BY SlotFacts DEF ITypes, NextDesc
<1>3. QED BY <1>1, <1>2 DEF NextDesc, nicVars

-------------------------------------------------------------------------------
LEMMA Starts == Init \/ InitCleared => IInv
<1>1. ASSUME EmptyRing PROVE IInv
  <2>1. ITypes
    BY <1>1, SlotFacts, RxConstants DEF EmptyRing, ITypes
  <2>2. ChainBufs = {}
    BY <1>1 DEF EmptyRing, ChainBufs
  <2>3. BufferOnce
    BY <1>1, <2>2 DEF EmptyRing, BufferOnce
  <2>4. QED BY <2>1, <2>3 DEF IInv
<1>2. QED BY <1>1 DEF Init, InitCleared

(* The NIC writes descriptors, no buffer changes its place.                 *)
LEMMA NicKeeps ==
  ASSUME IInv, NEW eop \in BOOLEAN, NEW err \in BOOLEAN, NicReceive(eop, err)
  PROVE  IInv'
<1> DEFINE f == [frame |-> nicFrag.frame, pos |-> nicFrag.pos, eop |-> eop, err |-> err]
<1>1. nicFrag.frame \in {0, 1} /\ nicFrag.pos \in 1 .. MaxFrags /\ MaxFrags \in Nat
  BY RxConstants DEF IInv, ITypes
<1>2. f \in Frag
  BY <1>1 DEF Frag
<1>3. descStat' \in [Slots -> Frag \cup {NoFrag}]
  <2> HIDE DEF f
  <2>1. descStat' = [descStat EXCEPT ![rdh] = f]
    BY DEF NicReceive, f
  <2>2. QED BY <2>1, <1>2 DEF IInv, ITypes
<1>4. nicFrag' \in [frame : {0, 1}, pos : 1 .. MaxFrags]
  <2>1. CASE eop
    BY <2>1, <1>1, RxConstants DEF NicReceive
  <2>2. CASE ~eop
    <3>1. nicFrag.pos + 1 \in 1 .. MaxFrags
      BY <2>2, <1>1 DEF NicReceive
    <3>2. nicFrag' = [nicFrag EXCEPT !.pos = @ + 1]
      BY <2>2 DEF NicReceive
    <3>3. QED BY <3>1, <3>2 DEF IInv, ITypes
  <2>3. QED BY <2>1, <2>2
<1>5. rdh' \in Slots
  BY SlotFacts DEF NicReceive, IInv, ITypes
<1>6. UNCHANGED bufVars /\ rxNextDescIndex' = rxNextDescIndex
  BY DEF NicReceive, bufVars, idxVars
<1>7. BufferOnce'
  BY <1>6, Unchanged DEF IInv
<1>8. QED BY <1>3, <1>4, <1>5, <1>6, <1>7 DEF IInv, ITypes, bufVars

(* A fragment is discarded, handed up or joined.                             *)
LEMMA RxBadKeeps == ASSUME IInv, RxBad PROVE IInv'
<1>1. BufferOnce' /\ chain' \in Seq(ChainFrag) /\ NoBuf \notin upstream'
  BY Discarded DEF RxBad
<1>2. PICK addr : NextDesc(addr)
  BY DEF RxBad
<1>3. QED BY <1>1, <1>2, NextDescTypes DEF RxBad, IInv, ITypes

LEMMA RxCopyKeeps == ASSUME IInv, RxCopy PROVE IInv'
<1>1. rxNextDescIndex \in Slots /\ Done(rxNextDescIndex) /\ rxBuf' = rxBuf
  BY DEF RxCopy, IInv, ITypes
<1>2. descStat[rxNextDescIndex] \in Frag /\ Join(descStat[rxNextDescIndex], NoBuf)
  BY <1>1, DoneFrag DEF RxCopy, IInv
<1>3. BufferOnce' /\ chain' \in Seq(ChainFrag) /\ NoBuf \notin upstream'
  <2>1. NoBuf \notin ChainBufs /\ \A i \in Slots : rxBuf[i] # NoBuf
    BY RxConstants DEF ChainBufs, IInv, ITypes
  <2>2. {rxBuf[i] : i \in Slots} \cap (ChainBufs \cup upstream \cup {NoBuf}) = {}
    BY <2>1 DEF IInv, BufferOnce
  <2>3. NoBuf \notin ChainBufs \cup upstream
    BY <2>1 DEF IInv, ITypes
  <2>4. \A i, j \in Slots : i # j => rxBuf[i] # rxBuf[j]
    BY DEF IInv, BufferOnce
  <2>5. QED BY <1>1, <1>2, <2>2, <2>3, <2>4, Joined DEF IInv, ITypes
<1>4. PICK addr : NextDesc(addr)
  BY DEF RxCopy
<1>5. QED BY <1>1, <1>3, <1>4, NextDescTypes DEF IInv, ITypes

LEMMA RxReplaceKeeps == ASSUME IInv, NEW b \in Buf, RxReplace(b) PROVE IInv'
<1> DEFINE i == rxNextDescIndex
<1>1. i \in Slots /\ Done(i) /\ b \notin InUse /\ rxBuf' = [rxBuf EXCEPT ![i] = b]
  BY DEF RxReplace, IInv, ITypes
<1>2. descStat[i] \in Frag /\ Join(descStat[i], rxBuf[i]) /\ rxBuf[i] \in Buf
  BY <1>1, DoneFrag DEF RxReplace, IInv, ITypes
<1>3. rxBuf' \in [Slots -> Buf] /\ rxBuf'[i] = b
      /\ \A j \in Slots \ {i} : rxBuf'[j] = rxBuf[j]
  BY <1>1 DEF IInv, ITypes
<1>4. /\ \A j \in Slots : rxBuf[j] # b
      /\ b \notin ChainBufs \cup upstream
  BY <1>1 DEF InUse
<1>5. /\ \A j \in Slots : rxBuf[j] \notin ChainBufs \cup upstream
      /\ \A j, k \in Slots : j # k => rxBuf[j] # rxBuf[k]
  BY DEF IInv, BufferOnce
<1> HIDE DEF i
<1>6. \A j, k \in Slots : j # k => rxBuf'[j] # rxBuf'[k]
  BY <1>1, <1>3, <1>4, <1>5
<1>7. {rxBuf'[j] : j \in Slots} \cap (ChainBufs \cup upstream \cup {rxBuf[i]}) = {}
  BY <1>1, <1>3, <1>4, <1>5
<1>8. rxBuf[i] \notin ChainBufs \cup upstream
  BY <1>1, <1>5
<1>9. BufferOnce' /\ chain' \in Seq(ChainFrag) /\ NoBuf \notin upstream'
  BY <1>2, <1>3, <1>6, <1>7, <1>8, Joined
<1>10. NextDesc(b)
  BY DEF RxReplace
<1>11. QED BY <1>3, <1>9, <1>10, NextDescTypes DEF IInv, ITypes

(* The other steps of rxInterrupt write descriptors and move indexes.        *)
LEMMA TailKeeps ==
  ASSUME IInv, RxBegin \/ RxEnd \/ UpdateTail \/ MapBatch \/ MapEnd
  PROVE  IInv'
<1>1. UNCHANGED bufVars /\ rxNextDescIndex' = rxNextDescIndex /\ rdh' = rdh /\ nicFrag' = nicFrag
  BY DEF RxBegin, RxEnd, UpdateTail, MapBatch, MapEnd, WriteRdt, bufVars, ringVars, idxVars, nicVars
<1>2. descStat' \in [Slots -> Frag \cup {NoFrag}]
  BY DEF RxBegin, RxEnd, UpdateTail, MapBatch, MapSlots, MapEnd, ringVars, IInv, ITypes
<1>3. BufferOnce'
  BY <1>1, Unchanged DEF IInv
<1>4. QED BY <1>1, <1>2, <1>3 DEF IInv, ITypes, bufVars

(* The handlers that reset the NIC.                                         *)
LEMMA HandlersKeep == ASSUME IInv, Handlers PROVE IInv'
<1>1. CASE ClearDescriptors
  <2>1. BufferOnce' /\ chain' \in Seq(ChainFrag) /\ NoBuf \notin upstream'
    BY <1>1, Discarded DEF ClearDescriptors
  <2>2. descStat' \in [Slots -> Frag \cup {NoFrag}] /\ rxNextDescIndex' \in Slots
    BY <1>1, SlotFacts DEF ClearDescriptors
  <2>3. QED BY <1>1, <2>1, <2>2 DEF ClearDescriptors, nicVars, IInv, ITypes
<1>2. ASSUME StopNic \/ FlushRxRing \/ ResetNic \/ InitRxRing \/ SetLinkUp PROVE IInv'
  <2>1. UNCHANGED bufVars /\ descStat' = descStat
    BY <1>2 DEF StopNic, FlushRxRing, ResetNic, InitRxRing, SetLinkUp, bufVars, ringVars
  <2>2. rxNextDescIndex' \in Slots /\ rdh' \in Slots
    BY <1>2, SlotFacts DEF StopNic, FlushRxRing, ResetNic, InitRxRing, SetLinkUp, idxVars, IInv, ITypes
  <2>3. nicFrag' \in [frame : {0, 1}, pos : 1 .. MaxFrags]
    BY <1>2, RxConstants DEF StopNic, FlushRxRing, ResetNic, InitRxRing, SetLinkUp, IInv, ITypes
  <2>4. BufferOnce'
    BY <2>1, Unchanged DEF IInv
  <2>5. QED BY <2>1, <2>2, <2>3, <2>4 DEF IInv, ITypes, bufVars
<1>3. QED BY <1>1, <1>2 DEF Handlers

(* The network stack frees a buffer.                                        *)
LEMMA StackFreeKeeps == ASSUME IInv, NEW b \in Buf, StackFree(b) PROVE IInv'
<1>1. upstream' \subseteq upstream /\ UNCHANGED <<rxBuf, chain, descStat, nicFrag, rxNextDescIndex, rdh>>
  BY DEF StackFree, ringVars, idxVars, nicVars
<1>2. ChainBufs' = ChainBufs
  BY <1>1 DEF ChainBufs
<1>3. QED BY <1>1, <1>2 DEF IInv, ITypes, BufferOnce

LEMMA StepKeeps == IInv /\ [Next]_vars => IInv'
<1>1. ASSUME IInv, UNCHANGED vars PROVE IInv'
  <2>1. UNCHANGED bufVars
    BY <1>1 DEF vars, ringVars, bufVars
  <2>2. QED
    BY <1>1, <2>1, Unchanged DEF vars, ringVars, idxVars, nicVars, bufVars, IInv, ITypes
<1>2. ASSUME IInv, Next PROVE IInv'
  BY <1>2, NicKeeps, RxBadKeeps, RxCopyKeeps, RxReplaceKeeps, TailKeeps, HandlersKeep, StackFreeKeeps
     DEF Next, Nic, RxInterrupt
<1>3. QED BY <1>1, <1>2

(* A buffer is in its slot, in the packet being joined or with the network   *)
(* stack, and in one of them only: it is never handed up twice nor freed     *)
(* twice; from setupRxResources on (Spec) as well as from the first restart  *)
(* on (SpecCleared).                                                        *)
THEOREM BuffersInOnePlace == (Spec => []BufferOnce) /\ (SpecCleared => []BufferOnce)
<1>1. IInv => BufferOnce
  BY DEF IInv
<1>2. Spec => []BufferOnce
  BY <1>1, Starts, StepKeeps, PTL DEF Spec
<1>3. SpecCleared => []BufferOnce
  BY <1>1, Starts, StepKeeps, PTL DEF SpecCleared
<1>4. QED BY <1>2, <1>3

(***************************************************************************)
(* What the NIC owns.  Indexes are ordered by how far they are ahead of the  *)
(* first slot that was not given back: the next descriptor of rxInterrupt,   *)
(* or with AppleVTD the first batch that was not mapped again.               *)
(* The claim "order" is about the order alone.  It holds always.  The claim  *)
(* "address" says more, and holds if no mapping of a batch fails.            *)
(***************************************************************************)
Ahead(b, i) == IF b <= i THEN i - b ELSE i - b + NumRxDesc
Base   == IF useAppleVTD THEN rxMapNextIndex ELSE rxNextDescIndex
Filled == Ahead(Base, rdh)
Owned  == Ahead(Base, rdt)
Taken  == Ahead(Base, rxNextDescIndex)

Aligned(i) == \E a \in Nat : i = a * BatchSize

IIndex ==
  /\ phyAddr \in [Slots -> Buf \cup {NoBuf}] /\ descAddr \in [Slots -> Buf \cup {NoBuf}]
  /\ rxCleanedCount \in Nat /\ rdt \in Slots
  /\ rxMapNextIndex \in Slots /\ Aligned(rxMapNextIndex)

Fresh(claim, i) ==
  ~Done(i) /\ (claim = "address" => descAddr[i] = rxBuf[i] /\ phyAddr[i] = rxBuf[i])

(* The tail is not behind the head; up to the head every descriptor is done, *)
(* from it on none.                                                         *)
IRing(claim) ==
  wl # "clear" =>
    /\ Filled <= Owned
    /\ \A i \in Slots : IF Ahead(Base, i) < Filled THEN Done(i) ELSE Fresh(claim, i)

(* Without AppleVTD a slot's address is that of its buffer at any time.     *)
IAddr == ~useAppleVTD => phyAddr = rxBuf

(* With it rxCleanedCount is the number of whole batches that were taken,    *)
(* those apart that a failing mapping made rxInterruptVTD forget.            *)
IBatch(claim) ==
  wl # "clear" /\ useAppleVTD =>
    /\ Taken <= Filled
    /\ \E e \in Nat :
         /\ rxCleanedCount <= e /\ (claim = "address" => e = rxCleanedCount)
         /\ Taken = (e * BatchSize) + (rxNextDescIndex % BatchSize)

(* After the reset the NIC is off and has nothing.                          *)
IClear ==
  /\ wl = "clear" => ~rctlEn
  /\ wl \in {"clear", "configure"} => rdh = 0 /\ rdt = 0
  /\ wl = "configure" => rxNextDescIndex = 0 /\ rxCleanedCount = 0 /\ rxMapNextIndex = 0

(* If no write of RDT is lost, the NIC owns all but what waits to be given   *)
(* back, and outside rxInterrupt less than a batch waits.                    *)
IOwned ==
  ~arbiterWA /\ wl \notin {"clear", "configure"} =>
    Owned = NumRxDesc - 1 - (IF useAppleVTD THEN 0 ELSE rxCleanedCount)
IQuiet ==
  wl \in {"down", "idle"} =>
    IF useAppleVTD THEN rxCleanedCount = 0 ELSE rxCleanedCount < BatchSize

IOrder(claim) == IIndex /\ IRing(claim) /\ IAddr /\ IBatch(claim) /\ IClear /\ IOwned /\ IQuiet

-------------------------------------------------------------------------------
(* Arithmetic of the ring.                                                  *)
LEMMA AheadFacts ==
  ASSUME NEW b \in Slots, NEW i \in Slots
  PROVE  /\ Ahead(b, i) \in 0 .. NumRxDesc - 1
         /\ Ahead(b, b) = 0
         /\ Ahead(b, i) = 0 => i = b
         /\ Ahead(0, i) = i
  BY RingSize DEF Slots, Ahead

LEMMA Next1Linear ==
  ASSUME NEW i \in Slots
  PROVE  Next1(i) = IF i = NumRxDesc - 1 THEN 0 ELSE i + 1
  BY RingSize DEF Slots, Next1

LEMMA NextAhead ==
  ASSUME NEW b \in Slots, NEW i \in Slots, Ahead(b, i) < NumRxDesc - 1
  PROVE  Ahead(b, Next1(i)) = Ahead(b, i) + 1
  BY RingSize, Next1Linear DEF Slots, Ahead

LEMMA BaseMoves ==
  ASSUME NEW b \in Slots, NEW i \in Slots
  PROVE  Ahead(Next1(b), i) = IF i = b THEN NumRxDesc - 1 ELSE Ahead(b, i) - 1
  BY RingSize, Next1Linear DEF Slots, Ahead

LEMMA SlotBefore ==
  ASSUME NEW b \in Slots
  PROVE  (b - 1) % NumRxDesc \in Slots /\ Ahead(b, (b - 1) % NumRxDesc) = NumRxDesc - 1
<1>1. (b - 1) % NumRxDesc = IF b = 0 THEN NumRxDesc - 1 ELSE b - 1
  BY RingSize DEF Slots
<1>2. QED BY <1>1, RingSize DEF Slots, Ahead

LEMMA BetweenAhead ==
  ASSUME NEW b \in Slots, NEW h \in Slots, NEW i \in Slots, NEW t \in Slots,
         Ahead(b, h) <= Ahead(b, t), Between(h, i, t)
  PROVE  Ahead(b, h) <= Ahead(b, i) /\ Ahead(b, i) < Ahead(b, t)
  BY RingSize DEF Slots, Ahead, Between

(* Batches tile the ring.                                                   *)
LEMMA BatchFacts ==
  ASSUME NEW m \in Slots, Aligned(m)
  PROVE  /\ m + BatchSize <= NumRxDesc
         /\ (m + BatchSize) % NumRxDesc = IF m + BatchSize = NumRxDesc THEN 0 ELSE m + BatchSize
         /\ (m + BatchSize) % NumRxDesc \in Slots
         /\ Aligned((m + BatchSize) % NumRxDesc)
<1>1. PICK q \in 2 .. NumRxDesc : NumRxDesc = q * BatchSize
  BY RxConstants
<1>2. PICK a \in Nat : m = a * BatchSize
  BY DEF Aligned
<1>3. q \in Nat /\ BatchSize \in Nat /\ BatchSize > 0
  BY RxConstants
<1>4. a < q
  <2>1. SUFFICES ASSUME a >= q PROVE FALSE
    BY <1>2, <1>3
  <2>2. PICK d \in Nat : a = q + d
    BY <2>1, <1>2, <1>3
  <2>3. a * BatchSize = (q * BatchSize) + (d * BatchSize) /\ d * BatchSize >= 0
    BY <2>2, <1>3
  <2>4. d * BatchSize \in Nat /\ q * BatchSize = NumRxDesc /\ a * BatchSize = m
    BY <2>2, <1>1, <1>2, <1>3
  <2>5. m \in Int /\ m < NumRxDesc
    BY RingSize DEF Slots
  <2> DEFINE x == d * BatchSize
  <2>6. m = NumRxDesc + x /\ x \in Nat
    BY <2>3, <2>4
  <2> HIDE DEF x
  <2>7. QED BY <2>5, <2>6, RingSize
<1>5. (a + 1) * BatchSize = m + BatchSize /\ m + BatchSize <= NumRxDesc
  <2>1. PICK d \in Nat : q = a + 1 + d
    BY <1>2, <1>3, <1>4
  <2>2. q * BatchSize = ((a + 1) * BatchSize) + (d * BatchSize) /\ d * BatchSize >= 0
    BY <2>1, <1>2, <1>3
  <2>3. (a + 1) * BatchSize = m + BatchSize
    BY <1>2, <1>3
  <2>4. QED BY <2>2, <2>3, <1>1, <1>3
<1>6. (m + BatchSize) % NumRxDesc = IF m + BatchSize = NumRxDesc THEN 0 ELSE m + BatchSize
  BY <1>3, <1>5, RingSize DEF Slots
<1>7. Aligned(0) /\ Aligned(m + BatchSize)
  <2>1. 0 = 0 * BatchSize
    BY <1>3
  <2>2. a + 1 \in Nat
    BY <1>2
  <2>3. QED BY <2>1, <2>2, <1>5 DEF Aligned
<1>8. QED BY <1>3, <1>5, <1>6, <1>7, RingSize DEF Slots

LEMMA BatchMoves ==
  ASSUME NEW m \in Slots, Aligned(m), NEW i \in Slots
  PROVE  /\ i \in Batch(m) <=> Ahead(m, i) < BatchSize
         /\ Ahead((m + BatchSize) % NumRxDesc, i) =
              IF Ahead(m, i) < BatchSize THEN Ahead(m, i) + NumRxDesc - BatchSize
                                         ELSE Ahead(m, i) - BatchSize
         /\ m + BatchSize - 1 \in Slots /\ Ahead(m, m + BatchSize - 1) = BatchSize - 1
  BY BatchFacts, RingSize, RxConstants DEF Slots, Ahead, Batch

(* The remainder by BatchSize is the place in a batch.                       *)
LEMMA Remainder ==
  ASSUME NEW x \in Nat, NEW e \in Int, NEW r \in 0 .. BatchSize - 1, x = (e * BatchSize) + r
  PROVE  x % BatchSize = r
<1> DEFINE d == e - (x \div BatchSize)
<1>1. BatchSize \in Nat /\ BatchSize > 0
  BY RxConstants
<1>2. /\ x % BatchSize \in 0 .. BatchSize - 1 /\ x \div BatchSize \in Int
      /\ x = (BatchSize * (x \div BatchSize)) + (x % BatchSize)
  BY <1>1, Z3
<1>3. (x % BatchSize) - r = BatchSize * (e - (x \div BatchSize))
  BY <1>1, <1>2
<1>4. d \in Int
  BY <1>2
<1>5. (d >= 1 => BatchSize * d >= BatchSize) /\ (d <= -1 => BatchSize * d <= -BatchSize)
  BY <1>1, <1>4
<1> HIDE DEF d
<1>6. d = 0
  BY <1>1, <1>2, <1>3, <1>4, <1>5 DEF d
<1>7. QED BY <1>1, <1>2, <1>3, <1>6 DEF d

LEMMA RemainderStep ==
  ASSUME NEW x \in Nat
  PROVE  /\ x % BatchSize \in 0 .. BatchSize - 1
         /\ (x + 1) % BatchSize =
              IF x % BatchSize = BatchSize - 1 THEN 0 ELSE (x % BatchSize) + 1
<1> DEFINE e == x \div BatchSize
           r == x % BatchSize
<1>1. BatchSize \in Nat /\ BatchSize > 0
  BY RxConstants
<1>2. r \in 0 .. BatchSize - 1 /\ e \in Int /\ x = (e * BatchSize) + r
  BY <1>1, Z3
<1> HIDE DEF e, r
<1>3. CASE r = BatchSize - 1
  <2>1. x + 1 = ((e + 1) * BatchSize) + 0
    BY <1>1, <1>2, <1>3
  <2>2. (x + 1) % BatchSize = 0
    BY <2>1, <1>1, <1>2, Remainder
  <2>3. QED BY <2>2, <1>2, <1>3 DEF r
<1>4. CASE r # BatchSize - 1
  <2>1. x + 1 = (e * BatchSize) + (r + 1) /\ r + 1 \in 0 .. BatchSize - 1
    BY <1>1, <1>2, <1>4
  <2>2. (x + 1) % BatchSize = r + 1
    BY <2>1, <1>2, Remainder
  <2>3. QED BY <2>2, <1>2, <1>4 DEF r
<1>5. QED BY <1>3, <1>4

LEMMA NextInBatch ==
  ASSUME NEW i \in Slots
  PROVE  /\ i % BatchSize \in 0 .. BatchSize - 1
         /\ Next1(i) % BatchSize =
              IF i % BatchSize = BatchSize - 1 THEN 0 ELSE (i % BatchSize) + 1
<1>1. BatchSize \in Nat /\ BatchSize > 0 /\ i \in Nat
  BY RxConstants, RingSize DEF Slots
<1>2. PICK q \in 2 .. NumRxDesc : NumRxDesc = q * BatchSize
  BY RxConstants
<1>3. NumRxDesc % BatchSize = 0 /\ 0 % BatchSize = 0
  <2>1. 0 \in 0 .. BatchSize - 1 /\ NumRxDesc = (q * BatchSize) + 0 /\ 0 = (0 * BatchSize) + 0
    BY <1>1, <1>2
  <2>2. q \in Int /\ NumRxDesc \in Nat
    BY RingSize
  <2>3. QED BY <2>1, <2>2, Remainder
<1>4. CASE i = NumRxDesc - 1
  <2>1. Next1(i) = 0 /\ i + 1 = NumRxDesc
    BY <1>4, RingSize, Next1Linear
  <2>2. QED BY <2>1, <1>1, <1>3, RemainderStep
<1>5. CASE i # NumRxDesc - 1
  BY <1>1, <1>5, Next1Linear, RemainderStep
<1>6. QED BY <1>4, <1>5

LEMMA BaseIsSlot == ASSUME ITypes, IIndex PROVE Base \in Slots
  BY DEF ITypes, IIndex, Base

-------------------------------------------------------------------------------
(* After clearDescriptors, and at first, the ring is empty.                 *)
Empty(claim) ==
  /\ rxBuf \in [Slots -> Buf]
  /\ phyAddr \in [Slots -> Buf \cup {NoBuf}] /\ descAddr \in [Slots -> Buf \cup {NoBuf}]
  /\ descStat = [i \in Slots |-> NoFrag]
  /\ rxNextDescIndex = 0 /\ rxCleanedCount = 0 /\ rxMapNextIndex = 0
  /\ rdh = 0
  /\ ~useAppleVTD => phyAddr = rxBuf
  /\ claim = "address" => phyAddr = rxBuf /\ descAddr = rxBuf

Starting ==
  \/ wl = "configure" /\ rdt = 0
  \/ wl = "down" /\ rdt = NumRxDesc - 1
  \/ wl = "down" /\ rdt = 0 /\ arbiterWA

LEMMA EmptyOrdered == ASSUME NEW claim PROVE Empty(claim) /\ Starting => IOrder(claim)
<1> SUFFICES ASSUME Empty(claim), Starting PROVE IOrder(claim)
  OBVIOUS
<1> USE DEF Starting
<1>1. /\ rxNextDescIndex = 0 /\ rxCleanedCount = 0 /\ rxMapNextIndex = 0 /\ rdh = 0 /\ Base = 0
      /\ BatchSize \in Nat /\ BatchSize > 0
  BY RxConstants DEF Empty, Base
<1>2. 0 \in Slots /\ NumRxDesc - 1 \in Slots /\ Ahead(0, 0) = 0 /\ 0 % BatchSize = 0 /\ Aligned(0)
      /\ Ahead(0, rdt) = rdt /\ rdt \in Slots
  <2>1. 0 = (0 * BatchSize) + 0 /\ 0 \in 0 .. BatchSize - 1 /\ 0 = 0 * BatchSize
    BY RxConstants
  <2>2. 0 \in Slots /\ NumRxDesc - 1 \in Slots
    BY RingSize DEF Slots
  <2>3. QED BY <2>1, <2>2, AheadFacts, Remainder DEF Aligned
<1>3. IIndex
  BY <1>1, <1>2 DEF Empty, IIndex
<1>4. IRing(claim)
  <2>1. \A i \in Slots : Fresh(claim, i)
    BY DEF Empty, Fresh, Done
  <2>2. \A i \in Slots : ~(Ahead(0, i) < 0)
    BY <1>2, AheadFacts, RingSize
  <2>3. 0 <= rdt
    BY <1>2, RingSize DEF Slots
  <2>4. QED BY <2>1, <2>2, <2>3, <1>1, <1>2 DEF IRing, Filled, Owned
<1>5. IBatch(claim)
  <2>1. 0 = (0 * BatchSize) + (0 % BatchSize) /\ 0 \in Nat /\ 0 <= 0
    BY <1>1, <1>2
  <2>2. QED BY <2>1, <1>1, <1>2 DEF IBatch, Taken, Filled
<1>6. IOwned /\ IQuiet
  <2>1. ~arbiterWA /\ wl # "configure" => Owned = NumRxDesc - 1 - 0
    BY <1>1, <1>2, RingSize DEF Owned
  <2>2. QED BY <2>1, <1>1 DEF IOwned, IQuiet
<1>7. QED BY <1>1, <1>3, <1>4, <1>5, <1>6 DEF Empty, IOrder, IAddr, IClear

(* The NIC fills the slot at the head.                                      *)
LEMMA OrderNic ==
  ASSUME NEW claim, ITypes, IOrder(claim), NEW eop \in BOOLEAN, NEW err \in BOOLEAN, NicReceive(eop, err)
  PROVE  IOrder(claim)'
<1> DEFINE f == [frame |-> nicFrag.frame, pos |-> nicFrag.pos, eop |-> eop, err |-> err]
<1>1. f # NoFrag
  <2>1. f.pos # 0 /\ NoFrag.pos = 0
    BY DEF ITypes, NoFrag
  <2> HIDE DEF f
  <2>2. QED BY <2>1
<1> HIDE DEF f
<1>2. rctlEn /\ rdh # rdt /\ descStat' = [descStat EXCEPT ![rdh] = f] /\ rdh' = Next1(rdh)
  BY DEF NicReceive, f
<1>3. UNCHANGED <<confVars, rxBuf, phyAddr, descAddr, idxVars, wl, rdt>> /\ Base' = Base
  BY DEF NicReceive, Base, confVars, idxVars
<1>4. Base \in Slots /\ rdh \in Slots /\ rdt \in Slots
  BY BaseIsSlot DEF IOrder, ITypes, IIndex
<1>5. wl # "clear" /\ wl # "configure"
  BY <1>2 DEF IOrder, IClear
<1>6. Filled < Owned /\ Owned \in 0 .. NumRxDesc - 1 /\ Filled \in 0 .. NumRxDesc - 1
  <2>1. Filled <= Owned
    BY <1>5 DEF IOrder, IRing
  <2>2. Filled # Owned
    BY <1>2, <1>4, RingSize DEF Filled, Owned, Ahead, Slots
  <2>3. QED BY <2>1, <2>2, <1>4, AheadFacts DEF Filled, Owned
<1>7. Filled' = Filled + 1 /\ Owned' = Owned /\ Taken' = Taken
  <2>1. Ahead(Base, rdh) < NumRxDesc - 1
    BY <1>6, RingSize DEF Filled
  <2>2. Ahead(Base, Next1(rdh)) = Ahead(Base, rdh) + 1
    BY <2>1, <1>4, NextAhead
  <2>3. QED BY <2>2, <1>2, <1>3 DEF Filled, Owned, Taken, Ahead, idxVars
<1>8. IRing(claim)'
  <2>1. ASSUME NEW i \in Slots
        PROVE  IF Ahead(Base, i) < Filled + 1 THEN descStat'[i] # NoFrag ELSE Fresh(claim, i) /\ i # rdh
    <3>1. Ahead(Base, i) \in 0 .. NumRxDesc - 1 /\ (Ahead(Base, i) = Filled <=> i = rdh)
      BY <1>4, AheadFacts, RingSize DEF Filled, Ahead, Slots
    <3>2. IF Ahead(Base, i) < Filled THEN Done(i) ELSE Fresh(claim, i)
      BY <1>5 DEF IOrder, IRing
    <3>3. CASE i = rdh
      BY <3>1, <3>3, <1>1, <1>2, <1>6 DEF ITypes
    <3>4. CASE i # rdh
      <4>1. descStat'[i] = descStat[i]
        BY <3>4, <1>2 DEF ITypes
      <4>2. QED BY <3>1, <3>2, <3>4, <4>1, <1>6 DEF Done
    <3>5. QED BY <3>3, <3>4
  <2>2. ASSUME NEW i \in Slots
        PROVE  (IF Ahead(Base, i) < Filled THEN Done(i) ELSE Fresh(claim, i))'
    <3>1. (Ahead(Base, i))' = Ahead(Base, i)
      BY <1>3 DEF Ahead
    <3>2. CASE Ahead(Base, i) < Filled + 1
      BY <2>1, <3>1, <3>2, <1>7 DEF Done
    <3>3. CASE ~(Ahead(Base, i) < Filled + 1)
      <4>1. descStat'[i] = descStat[i] /\ Fresh(claim, i)
        BY <2>1, <3>3, <1>2 DEF ITypes
      <4>2. QED BY <3>1, <3>3, <4>1, <1>3, <1>7 DEF Fresh, Done
    <3>4. QED BY <3>2, <3>3
  <2>3. QED BY <2>2, <1>6, <1>7 DEF IRing
<1>9. IBatch(claim)'
  <2>1. UNCHANGED <<wl, useAppleVTD, rxCleanedCount, rxNextDescIndex>>
    BY <1>3 DEF confVars, idxVars
  <2>2. SUFFICES ASSUME useAppleVTD PROVE IBatch(claim)'
    BY <2>1 DEF IBatch
  <2>3. IBatch(claim)
    BY DEF IOrder
  <2>4. Taken <= Filled
    BY <1>5, <2>2, <2>3 DEF IBatch
  <2>5. PICK e \in Nat :
          /\ rxCleanedCount <= e /\ (claim = "address" => e = rxCleanedCount)
          /\ Taken = (e * BatchSize) + (rxNextDescIndex % BatchSize)
    BY <1>5, <2>2, <2>3 DEF IBatch
  <2>6. Taken \in Int
    BY <1>4, AheadFacts DEF Taken, ITypes
  <2>7. Taken' <= Filled'
    BY <1>6, <1>7, <2>4, <2>6
  <2>8. /\ rxCleanedCount' <= e /\ (claim = "address" => e = rxCleanedCount')
        /\ Taken' = (e * BatchSize) + (rxNextDescIndex' % BatchSize)
    BY <1>7, <2>1, <2>5
  <2>9. QED BY <2>7, <2>8 DEF IBatch
<1>10. QED
  BY <1>3, <1>5, <1>7, <1>8, <1>9
  DEF IOrder, IIndex, IAddr, IClear, IOwned, IQuiet, confVars, idxVars

(* Steps that leave ring and indexes alone, and do not begin or end a reset. *)
LEMMA OrderSame ==
  ASSUME NEW claim, IOrder(claim),
         UNCHANGED <<confVars, ringVars, idxVars, rdh, rdt>>,
         wl # "clear", wl' \notin {"clear", "configure"},
         wl # "configure", IQuiet'
  PROVE  IOrder(claim)'
<1>1. Base' = Base /\ Filled' = Filled /\ Owned' = Owned /\ Taken' = Taken
  BY DEF Base, Filled, Owned, Taken, Ahead, confVars, idxVars
<1>2. \A i : (Ahead(Base, i))' = Ahead(Base, i)
  BY <1>1 DEF Ahead
<1>3. IRing(claim)'
  BY <1>1, <1>2 DEF IOrder, IRing, Fresh, Done, ringVars
<1>4. QED
  BY <1>1, <1>3 DEF IOrder, IIndex, IAddr, IBatch, IClear, IOwned, IQuiet, confVars, ringVars, idxVars

-------------------------------------------------------------------------------
(* rxInterrupt goes on to the next descriptor.  What happens to the buffers  *)
(* concerns only the slot it leaves.                                        *)
LEMMA OrderNextDesc ==
  ASSUME NEW claim, ITypes, IOrder(claim), NEW addr, wl = "rx", Done(rxNextDescIndex), NextDesc(addr),
         rxBuf' \in [Slots -> Buf], phyAddr' \in [Slots -> Buf \cup {NoBuf}],
         \A j \in Slots \ {rxNextDescIndex} : rxBuf'[j] = rxBuf[j] /\ phyAddr'[j] = phyAddr[j],
         ~useAppleVTD => addr = rxBuf'[rxNextDescIndex] /\ phyAddr'[rxNextDescIndex] = addr
  PROVE  IOrder(claim)'
<1> DEFINE n == rxNextDescIndex
<1>1. n \in Slots /\ rdh \in Slots /\ rdt \in Slots /\ rxMapNextIndex \in Slots /\ n' = Next1(n)
      /\ rxCleanedCount \in Nat
  BY DEF ITypes, IOrder, IIndex, NextDesc
<1>2. UNCHANGED <<useAppleVTD, arbiterWA, rxMapNextIndex, wl, rdh, rdt, rctlEn>>
  BY DEF NextDesc, confVars, nicVars
<1>3. /\ Filled <= Owned
      /\ \A i \in Slots : IF Ahead(Base, i) < Filled THEN Done(i) ELSE Fresh(claim, i)
  BY DEF IOrder, IRing
<1>4. Base \in Slots /\ Base' \in Slots
  BY <1>1, <1>2, SlotFacts DEF Base
<1>5. CASE ~useAppleVTD
  <2>1. Base = n /\ Base' = Next1(n) /\ rxCleanedCount' = rxCleanedCount + 1
    BY <1>1, <1>2, <1>5 DEF Base, NextDesc
  <2>2. /\ descAddr' = [descAddr EXCEPT ![n] = addr]
        /\ descStat' = [descStat EXCEPT ![n] = NoFrag]
    BY <1>5 DEF NextDesc
  <2>3. Filled # 0
    <3>1. Ahead(Base, n) = 0
      BY <2>1, <1>1, AheadFacts
    <3>2. Ahead(Base, n) < Filled
      BY <1>1, <1>3 DEF Fresh
    <3>3. QED BY <3>1, <3>2
  <2>4. Filled \in 0 .. NumRxDesc - 1 /\ Owned \in 0 .. NumRxDesc - 1
    BY <1>1, <1>4, AheadFacts DEF Filled, Owned
  <2>5. \A i \in Slots : (Ahead(Base, i))' = IF i = n THEN NumRxDesc - 1 ELSE Ahead(Base, i) - 1
    <3>1. \A i : (Ahead(Base, i))' = Ahead(Next1(n), i)
      BY <2>1 DEF Ahead
    <3>2. QED BY <3>1, <2>1, <1>1, BaseMoves
  <2>6. Filled' = Filled - 1 /\ Owned' = Owned - 1
    <3>1. rdh # n /\ rdt # n
      BY <2>1, <2>3, <2>4, <1>1, <1>3, AheadFacts DEF Filled, Owned
    <3>2. Filled' = Ahead(Base', rdh) /\ Owned' = Ahead(Base', rdt)
      BY <1>2 DEF Filled, Owned
    <3>3. Ahead(Next1(n), rdh) = Filled - 1 /\ Ahead(Next1(n), rdt) = Owned - 1
      BY <3>1, <1>1, <2>1, BaseMoves DEF Filled, Owned
    <3>4. QED BY <3>2, <3>3, <2>1
  <2>7. IRing(claim)'
    <3>1. ASSUME NEW i \in Slots PROVE (IF Ahead(Base, i) < Filled THEN Done(i) ELSE Fresh(claim, i))'
      <4>1. CASE i = n
        <5>1. Fresh(claim, i)'
          BY <4>1, <2>2, <1>1, <1>5 DEF Fresh, Done, ITypes, IOrder, IIndex
        <5>2. ~((Ahead(Base, i))' < Filled')
          <6>1. (Ahead(Base, i))' = NumRxDesc - 1
            BY <4>1, <2>5, <1>1
          <6>2. Filled' <= NumRxDesc - 2
            BY <2>4, <2>6, RingSize
          <6>3. QED BY <6>1, <6>2, <2>4, <2>6, RingSize
        <5>3. QED BY <5>1, <5>2
      <4>2. CASE i # n
        <5>1. descStat'[i] = descStat[i] /\ descAddr'[i] = descAddr[i]
              /\ rxBuf'[i] = rxBuf[i] /\ phyAddr'[i] = phyAddr[i]
          BY <4>2, <2>2 DEF ITypes, IOrder, IIndex
        <5>2. (Ahead(Base, i))' < Filled' <=> Ahead(Base, i) < Filled
          BY <4>2, <2>4, <2>5, <2>6, <1>4, AheadFacts
        <5>3. QED BY <5>1, <5>2, <1>3 DEF Fresh, Done
      <4>3. QED BY <4>1, <4>2
    <3>2. QED BY <3>1, <2>4, <2>6, <1>3 DEF IRing
  <2>8. IIndex'
    BY <1>1, <1>2, <2>1, <2>2, <1>5 DEF IOrder, IIndex, ITypes, Aligned
  <2>9. IAddr'
    <3>1. phyAddr = rxBuf
      BY <1>5 DEF IOrder, IAddr
    <3>2. \A i \in Slots : phyAddr'[i] = rxBuf'[i]
      BY <3>1, <1>5
    <3>3. QED BY <3>2 DEF IAddr
  <2>10. IOwned'
    <3>1. ASSUME ~arbiterWA PROVE Owned' = NumRxDesc - 1 - rxCleanedCount'
      <4>1. Owned = NumRxDesc - 1 - rxCleanedCount
        BY <3>1, <1>5 DEF IOrder, IOwned
      <4>2. QED BY <4>1, <1>1, <2>1, <2>4, <2>6, RingSize
    <3>2. QED BY <3>1, <1>2, <1>5 DEF IOwned
  <2>11. QED BY <1>2, <1>5, <2>7, <2>8, <2>9, <2>10 DEF IOrder, IBatch, IClear, IQuiet
<1>6. CASE useAppleVTD
  <2>1. Base = rxMapNextIndex /\ Base' = Base /\ UNCHANGED <<descAddr, descStat>>
    BY <1>2, <1>6 DEF Base, NextDesc
  <2>2. \A i : (Ahead(Base, i))' = Ahead(Base, i)
    BY <2>1 DEF Ahead
  <2>3. Filled' = Filled /\ Owned' = Owned /\ Taken' = Ahead(Base, Next1(n))
    BY <1>1, <1>2, <2>1 DEF Filled, Owned, Taken, Ahead
  <2>4. Taken < Filled /\ Filled \in 0 .. NumRxDesc - 1 /\ Taken \in 0 .. NumRxDesc - 1
    BY <1>1, <1>3, <1>4, AheadFacts DEF Taken, Filled, Fresh
  <2>5. Taken' = Taken + 1
    <3>1. Ahead(Base, n) < NumRxDesc - 1
      BY <2>4, RingSize DEF Taken
    <3>2. QED BY <3>1, <1>1, <1>4, <2>3, NextAhead DEF Taken
  <2>6. IRing(claim)'
    <3>1. ASSUME NEW i \in Slots PROVE (IF Ahead(Base, i) < Filled THEN Done(i) ELSE Fresh(claim, i))'
      <4>1. CASE Ahead(Base, i) < Filled
        BY <4>1, <1>3, <2>1, <2>2, <2>3 DEF Done
      <4>2. CASE ~(Ahead(Base, i) < Filled)
        <5>1. i # n
          BY <4>2, <2>4 DEF Taken
        <5>2. rxBuf'[i] = rxBuf[i] /\ phyAddr'[i] = phyAddr[i] /\ Fresh(claim, i)
          BY <4>2, <5>1, <1>3
        <5>3. QED BY <4>2, <5>2, <2>1, <2>2, <2>3 DEF Fresh, Done
      <4>3. QED BY <4>1, <4>2
    <3>2. QED BY <3>1, <2>3, <1>3 DEF IRing
  <2>7. IBatch(claim)'
    <3>1. PICK e \in Nat : /\ rxCleanedCount <= e /\ (claim = "address" => e = rxCleanedCount)
                           /\ Taken = (e * BatchSize) + (n % BatchSize)
      BY <1>6 DEF IOrder, IBatch
    <3>2. rxCleanedCount' = IF Next1(n) % BatchSize = 0 THEN rxCleanedCount + 1 ELSE rxCleanedCount
      BY <1>6 DEF NextDesc
    <3>3. n % BatchSize \in 0 .. BatchSize - 1 /\ BatchSize \in Nat /\ BatchSize > 0
          /\ Next1(n) % BatchSize = IF n % BatchSize = BatchSize - 1 THEN 0 ELSE (n % BatchSize) + 1
      BY <1>1, NextInBatch, RxConstants
    <3>4. CASE n % BatchSize = BatchSize - 1
      <4>1. rxCleanedCount' = rxCleanedCount + 1 /\ n' % BatchSize = 0
        BY <3>2, <3>3, <3>4, <1>1
      <4>2. (e + 1) * BatchSize = (e * BatchSize) + BatchSize
        BY <3>1, <3>3
      <4>3. Taken + 1 = ((e + 1) * BatchSize) + 0
        BY <3>1, <3>3, <3>4, <4>2, <1>1
      <4>4. e + 1 \in Nat /\ rxCleanedCount' <= e + 1 /\ (claim = "address" => e + 1 = rxCleanedCount')
        BY <3>1, <4>1, <1>1
      <4>5. QED BY <4>1, <4>3, <4>4, <2>3, <2>4, <2>5 DEF IBatch
    <3>5. CASE n % BatchSize # BatchSize - 1
      <4>1. rxCleanedCount' = rxCleanedCount /\ n' % BatchSize = (n % BatchSize) + 1
        BY <3>2, <3>3, <3>5, <1>1
      <4>2. e * BatchSize \in Nat
        BY <3>1, <3>3
      <4>3. Taken + 1 = (e * BatchSize) + ((n % BatchSize) + 1)
        BY <3>1, <3>3, <4>2
      <4>4. QED BY <3>1, <4>1, <4>3, <2>3, <2>4, <2>5 DEF IBatch
    <3>6. QED BY <3>4, <3>5
  <2>8. IIndex'
    <3>1. rxCleanedCount' \in Nat
      BY <1>1, <1>6 DEF NextDesc
    <3>2. QED BY <3>1, <1>2, <2>1 DEF IOrder, IIndex, Aligned
  <2>9. IOwned'
    <3>1. ASSUME ~arbiterWA PROVE Owned' = NumRxDesc - 1
      <4>1. Owned = NumRxDesc - 1 - 0
        BY <3>1, <1>6 DEF IOrder, IOwned
      <4>2. QED BY <4>1, <2>3, RingSize
    <3>2. QED BY <3>1, <1>2, <1>6, RingSize DEF IOwned
  <2>10. QED
    BY <1>2, <1>6, <2>6, <2>7, <2>8, <2>9 DEF IOrder, IAddr, IClear, IQuiet
<1>7. QED BY <1>5, <1>6

LEMMA OrderRx ==
  ASSUME NEW claim, ITypes, IOrder(claim), RxBad \/ RxCopy \/ \E b \in Buf : RxReplace(b)
  PROVE  IOrder(claim)'
<1> DEFINE n == rxNextDescIndex
<1>1. n \in Slots /\ rxBuf \in [Slots -> Buf] /\ phyAddr \in [Slots -> Buf \cup {NoBuf}]
  BY DEF ITypes, IOrder, IIndex
<1>2. ~useAppleVTD => phyAddr[n] = rxBuf[n]
  BY DEF IOrder, IAddr
<1>3. CASE RxBad \/ RxCopy
  <2>1. wl = "rx" /\ Done(n) /\ NextDesc(phyAddr[n]) /\ rxBuf' = rxBuf /\ phyAddr' = phyAddr
    BY <1>3 DEF RxBad, RxCopy
  <2>2. QED BY <2>1, <1>1, <1>2, OrderNextDesc
<1>4. ASSUME NEW b \in Buf, RxReplace(b) PROVE IOrder(claim)'
  <2>1. /\ wl = "rx" /\ Done(n) /\ NextDesc(b)
        /\ rxBuf' = [rxBuf EXCEPT ![n] = b]
        /\ phyAddr' = [phyAddr EXCEPT ![n] = IF useAppleVTD THEN NoBuf ELSE b]
    BY <1>4 DEF RxReplace
  <2>2. rxBuf' \in [Slots -> Buf] /\ phyAddr' \in [Slots -> Buf \cup {NoBuf}]
    BY <2>1, <1>1
  <2>3. \A j \in Slots \ {n} : rxBuf'[j] = rxBuf[j] /\ phyAddr'[j] = phyAddr[j]
    BY <2>1, <1>1
  <2>4. ~useAppleVTD => b = rxBuf'[n] /\ phyAddr'[n] = b
    BY <2>1, <1>1
  <2>5. QED BY <2>1, <2>2, <2>3, <2>4, OrderNextDesc
<1>5. QED BY <1>3, <1>4

(* Without AppleVTD the tail follows the next descriptor, a slot behind it.  *)
LEMMA OrderUpdateTail == ASSUME NEW claim, ITypes, IOrder(claim), UpdateTail PROVE IOrder(claim)'
<1>1. ~useAppleVTD /\ wl = "tail" /\ wl' = "idle"
      /\ UNCHANGED <<confVars, ringVars, rxNextDescIndex, rxMapNextIndex, rdh>>
  BY DEF UpdateTail
<1>2. BatchSize \in Nat /\ BatchSize > 0 /\ rxCleanedCount \in Nat
  BY RxConstants DEF IOrder, IIndex
<1>3. CASE ~(rxCleanedCount >= BatchSize)
  <2>1. rxCleanedCount' = rxCleanedCount /\ rdt' = rdt
    BY <1>3 DEF UpdateTail
  <2>2. IQuiet'
    BY <2>1, <1>1, <1>2, <1>3 DEF IQuiet, confVars
  <2>3. QED BY <1>1, <2>1, <2>2, OrderSame DEF idxVars
<1>4. CASE rxCleanedCount >= BatchSize
  <2> DEFINE last == (rxNextDescIndex - 1) % NumRxDesc
  <2>1. WriteRdt(last) /\ rxCleanedCount' = 0
    BY <1>4 DEF UpdateTail
  <2>2. Base = rxNextDescIndex /\ Base \in Slots /\ rdh \in Slots /\ rdt \in Slots /\ Base' = Base
    BY <1>1 DEF Base, ITypes, IOrder, IIndex, confVars
  <2>3. last \in Slots /\ Ahead(Base, last) = NumRxDesc - 1
    BY <2>2, SlotBefore
  <2>4. Filled' = Filled /\ Filled \in 0 .. NumRxDesc - 1 /\ Filled <= Owned
        /\ \A i \in Slots : (Ahead(Base, i))' = Ahead(Base, i)
    BY <1>1, <2>2, AheadFacts DEF Filled, Ahead, IOrder, IRing
  <2> HIDE DEF last
  <2>5. rdt' \in Slots /\ Filled' <= Owned' /\ (~arbiterWA => Owned' = NumRxDesc - 1)
    <3>1. CASE rdt' = last
      <4>1. Owned' = NumRxDesc - 1
        BY <3>1, <2>2, <2>3 DEF Owned, Ahead
      <4>2. QED BY <4>1, <3>1, <2>3, <2>4, RingSize
    <3>2. CASE arbiterWA /\ rdt' = rdt
      <4>1. Owned' = Owned
        BY <3>2, <2>2 DEF Owned, Ahead
      <4>2. QED BY <4>1, <3>2, <2>2, <2>4
    <3>3. QED BY <3>1, <3>2, <2>1 DEF WriteRdt
  <2>6. IRing(claim)'
    BY <1>1, <2>4, <2>5 DEF IOrder, IRing, Fresh, Done, ringVars
  <2>7. IOwned' /\ IQuiet'
    <3>1. ~arbiterWA' => Owned' = NumRxDesc - 1 - 0
      BY <2>5, <1>1, RingSize DEF confVars
    <3>2. QED BY <3>1, <2>1, <1>1, <1>2 DEF IOwned, IQuiet, confVars
  <2>8. QED
    BY <1>1, <2>1, <2>5, <2>6, <2>7
    DEF IOrder, IIndex, IAddr, IBatch, IClear, confVars, ringVars
<1>5. QED BY <1>3, <1>4

-------------------------------------------------------------------------------
(* rxMapBuffers gives the NIC a batch whose buffers were all taken.          *)
LEMMA OrderMapBatch == ASSUME NEW claim, ITypes, IOrder(claim), MapBatch PROVE IOrder(claim)'
<1> DEFINE m == rxMapNextIndex
           c == rxCleanedCount
           r == rxNextDescIndex % BatchSize
<1>1. /\ wl = "tail" /\ useAppleVTD /\ c > 0 /\ MapSlots(Batch(m))
      /\ WriteRdt(m + BatchSize - 1) /\ m' = (m + BatchSize) % NumRxDesc /\ c' = c - 1
      /\ UNCHANGED <<confVars, rxBuf, rxNextDescIndex, wl, rdh>>
  BY DEF MapBatch
<1>2. UNCHANGED <<useAppleVTD, arbiterWA>>
  BY <1>1 DEF confVars
<1>3. /\ m \in Slots /\ Aligned(m) /\ c \in Nat /\ rdh \in Slots /\ rdt \in Slots
      /\ rxNextDescIndex \in Slots /\ BatchSize \in Nat /\ BatchSize > 0
      /\ phyAddr \in [Slots -> Buf \cup {NoBuf}] /\ descAddr \in [Slots -> Buf \cup {NoBuf}]
      /\ rxBuf \in [Slots -> Buf]
  BY RxConstants DEF ITypes, IOrder, IIndex
<1>4. Base = m /\ Base' = (m + BatchSize) % NumRxDesc
  BY <1>1, <1>2 DEF Base
<1>5. \A i \in Slots :
        /\ i \in Batch(m) <=> Ahead(m, i) < BatchSize
        /\ (Ahead(Base, i))' = IF Ahead(m, i) < BatchSize THEN Ahead(m, i) + NumRxDesc - BatchSize
                                                        ELSE Ahead(m, i) - BatchSize
  <2>1. \A i : (Ahead(Base, i))' = Ahead((m + BatchSize) % NumRxDesc, i)
    BY <1>4 DEF Ahead
  <2>2. QED BY <2>1, <1>3, BatchMoves
<1>6. /\ Filled \in 0 .. NumRxDesc - 1 /\ Owned \in 0 .. NumRxDesc - 1 /\ Taken \in 0 .. NumRxDesc - 1
      /\ Filled = Ahead(m, rdh) /\ Owned = Ahead(m, rdt) /\ Taken = Ahead(m, rxNextDescIndex)
  BY <1>3, <1>4, AheadFacts DEF Filled, Owned, Taken
<1>7. /\ Taken <= Filled /\ Filled <= Owned
      /\ \A i \in Slots : IF Ahead(m, i) < Filled THEN Done(i) ELSE Fresh(claim, i)
  BY <1>1, <1>4 DEF IOrder, IRing, IBatch
<1>8. PICK e \in Nat : c <= e /\ (claim = "address" => e = c) /\ Taken = (e * BatchSize) + r
  BY <1>1 DEF IOrder, IBatch
<1>9. /\ e * BatchSize = ((e - 1) * BatchSize) + BatchSize /\ (e - 1) * BatchSize \in Nat
      /\ e - 1 \in Nat /\ r \in 0 .. BatchSize - 1
  <2>1. e - 1 \in Nat
    BY <1>1, <1>3, <1>8
  <2>2. QED BY <2>1, <1>3, NextInBatch
<1>10. Taken >= BatchSize
  BY <1>3, <1>8, <1>9
<1>11. Taken' = Taken - BatchSize /\ Filled' = Filled - BatchSize
  <2>1. Filled' = (Ahead(Base, rdh))' /\ Taken' = (Ahead(Base, rxNextDescIndex))'
    BY DEF Filled, Taken
  <2>2. Filled' = Ahead(Base', rdh) /\ Taken' = Ahead(Base', rxNextDescIndex)
    BY <1>1 DEF Filled, Taken
  <2>3. \A i \in Slots : Ahead(Base', i) = (Ahead(Base, i))'
    BY DEF Ahead
  <2>4. ~(Ahead(m, rdh) < BatchSize) /\ ~(Ahead(m, rxNextDescIndex) < BatchSize)
    BY <1>3, <1>6, <1>7, <1>10
  <2>5. QED BY <2>2, <2>3, <2>4, <1>3, <1>5, <1>6
<1>12. rdt' \in Slots /\ Filled' <= Owned' /\ (~arbiterWA => Owned' = NumRxDesc - 1)
  <2>1. CASE rdt' = m + BatchSize - 1
    <3>1. m + BatchSize - 1 \in Slots /\ Ahead(m, m + BatchSize - 1) = BatchSize - 1
      BY <1>3, BatchMoves
    <3>2. Owned' = Ahead((m + BatchSize) % NumRxDesc, m + BatchSize - 1)
      BY <2>1, <1>4 DEF Owned
    <3>3. Owned' = BatchSize - 1 + NumRxDesc - BatchSize
      BY <3>1, <3>2, <1>3, BatchMoves
    <3>4. Owned' = NumRxDesc - 1
      BY <3>3, <1>3, RingSize
    <3>5. QED BY <3>1, <3>4, <2>1, <1>3, <1>6, <1>11, RingSize
  <2>2. CASE arbiterWA /\ rdt' = rdt
    <3>1. Owned' = Ahead((m + BatchSize) % NumRxDesc, rdt)
      BY <2>2, <1>4 DEF Owned
    <3>2. ~(Ahead(m, rdt) < BatchSize)
      BY <1>3, <1>6, <1>7, <1>10
    <3>3. Owned' = Owned - BatchSize
      BY <3>1, <3>2, <1>3, <1>6, BatchMoves
    <3>4. QED BY <3>3, <2>2, <1>3, <1>6, <1>7, <1>11
  <2>3. QED BY <2>1, <2>2, <1>1 DEF WriteRdt
<1> HIDE DEF r
<1>13. IRing(claim)'
  <2>1. ASSUME NEW i \in Slots PROVE (IF Ahead(Base, i) < Filled THEN Done(i) ELSE Fresh(claim, i))'
    <3>1. Ahead(m, i) \in 0 .. NumRxDesc - 1
      BY <1>3, AheadFacts
    <3>2. CASE Ahead(m, i) < BatchSize
      <4>1. Fresh(claim, i)'
        BY <3>2, <1>1, <1>5 DEF Fresh, Done, MapSlots
      <4>2. (Ahead(Base, i))' = Ahead(m, i) + NumRxDesc - BatchSize
        BY <3>2, <1>5
      <4>3. ~((Ahead(Base, i))' < Filled')
        BY <4>2, <3>1, <1>3, <1>6, <1>11, RingSize
      <4>4. QED BY <4>1, <4>3
    <3>3. CASE ~(Ahead(m, i) < BatchSize)
      <4>1. descStat'[i] = descStat[i] /\ descAddr'[i] = descAddr[i]
            /\ rxBuf'[i] = rxBuf[i] /\ phyAddr'[i] = phyAddr[i]
        BY <3>3, <1>1, <1>5 DEF MapSlots
      <4>2. (Ahead(Base, i))' = Ahead(m, i) - BatchSize
        BY <3>3, <1>5
      <4>3. (Ahead(Base, i))' < Filled' <=> Ahead(m, i) < Filled
        BY <4>2, <3>1, <1>3, <1>6, <1>11
      <4>4. QED BY <4>1, <4>3, <1>7 DEF Fresh, Done
    <3>4. QED BY <3>2, <3>3
  <2>2. QED BY <2>1, <1>12 DEF IRing
<1>14. IIndex'
  <2>1. (m + BatchSize) % NumRxDesc \in Slots /\ Aligned((m + BatchSize) % NumRxDesc)
    BY <1>3, BatchFacts
  <2>2. m' \in Slots /\ Aligned(m') /\ c' \in Nat
    BY <2>1, <1>1, <1>3
  <2>3. phyAddr' \in [Slots -> Buf \cup {NoBuf}] /\ descAddr' \in [Slots -> Buf \cup {NoBuf}]
    BY <1>1, <1>3 DEF MapSlots
  <2>4. QED BY <2>2, <2>3, <1>12 DEF IIndex, Aligned
<1>15. IBatch(claim)'
  <2>1. Taken' = ((e - 1) * BatchSize) + r /\ r' = r
    BY <1>1, <1>3, <1>6, <1>8, <1>9, <1>11 DEF r
  <2>2. Taken' <= Filled'
    BY <1>3, <1>6, <1>7, <1>11
  <2>3. c' <= e - 1 /\ (claim = "address" => e - 1 = c')
    BY <1>1, <1>3, <1>8
  <2>4. QED BY <2>1, <2>2, <2>3, <1>9 DEF IBatch, r
<1>16. IOwned'
  <2>1. ~arbiterWA' => Owned' = NumRxDesc - 1 - 0
    BY <1>2, <1>12, RingSize
  <2>2. QED BY <2>1, <1>1, <1>2 DEF IOwned
<1>17. QED
  BY <1>1, <1>2, <1>13, <1>14, <1>15, <1>16 DEF IOrder, IAddr, IClear, IQuiet

-------------------------------------------------------------------------------
(* The reset, and what else the work loop does.                             *)
LEMMA OrderHandlers ==
  ASSUME NEW claim, ITypes, IOrder(claim), RxBegin \/ RxEnd \/ StopNic \/ FlushRxRing \/ SetLinkUp
  PROVE  IOrder(claim)'
<1>1. /\ UNCHANGED <<confVars, ringVars, idxVars, rdh, rdt>>
      /\ wl \notin {"clear", "configure"} /\ wl' \notin {"clear", "configure"}
  BY DEF RxBegin, RxEnd, StopNic, FlushRxRing, SetLinkUp, nicVars
<1>2. IQuiet'
  BY <1>1 DEF RxBegin, RxEnd, StopNic, FlushRxRing, SetLinkUp, IOrder, IQuiet, confVars, idxVars
<1>3. QED BY <1>1, <1>2, OrderSame

(* The batches that were not mapped are forgotten, if one could not be.     *)
LEMMA OrderMapEnd ==
  ASSUME NEW claim, claim = "address" => MapMayFail = FALSE, ITypes, IOrder(claim), MapEnd
  PROVE  IOrder(claim)'
<1>1. /\ UNCHANGED <<confVars, ringVars, rxNextDescIndex, rxMapNextIndex, rdh, rdt>>
      /\ wl = "tail" /\ wl' = "idle" /\ useAppleVTD
      /\ rxCleanedCount' = 0 /\ rxCleanedCount \in Nat
      /\ claim = "address" => rxCleanedCount = 0
  BY DEF MapEnd, nicVars, IOrder, IIndex
<1>2. Base' = Base /\ Filled' = Filled /\ Owned' = Owned /\ Taken' = Taken
  BY <1>1 DEF Base, Filled, Owned, Taken, Ahead, confVars
<1>3. \A i : (Ahead(Base, i))' = Ahead(Base, i)
  BY <1>2 DEF Ahead
<1>4. IRing(claim)'
  BY <1>1, <1>2, <1>3 DEF IOrder, IRing, Fresh, Done, ringVars
<1>5. IBatch(claim)'
  <2>1. PICK e \in Nat : /\ rxCleanedCount <= e /\ (claim = "address" => e = rxCleanedCount)
                         /\ Taken = (e * BatchSize) + (rxNextDescIndex % BatchSize)
    BY <1>1 DEF IOrder, IBatch
  <2>2. 0 <= e /\ (claim = "address" => e = 0)
    BY <1>1, <2>1
  <2>3. QED BY <1>1, <1>2, <2>1, <2>2 DEF IOrder, IBatch
<1>6. QED
  BY <1>1, <1>2, <1>4, <1>5
  DEF IOrder, IIndex, IAddr, IClear, IOwned, IQuiet, confVars, ringVars

LEMMA OrderResetNic == ASSUME NEW claim, IOrder(claim), ResetNic PROVE IOrder(claim)'
<1>1. Base' = Base /\ rdt' = 0 /\ rdh' = 0 /\ wl' = "clear" /\ ~rctlEn'
  BY DEF ResetNic, Base, confVars, idxVars
<1>2. QED
  BY <1>1, SlotFacts
  DEF ResetNic, IOrder, IIndex, IRing, IAddr, IBatch, IClear, IOwned, IQuiet, Aligned,
      confVars, ringVars, idxVars

LEMMA OrderClearDescriptors ==
  ASSUME NEW claim, claim = "address" => MapMayFail = FALSE, ITypes, IOrder(claim), ClearDescriptors
  PROVE  IOrder(claim)'
<1>1. PICK s : phyAddr' = [i \in Slots |-> IF useAppleVTD /\ i \in s THEN rxBuf[i] ELSE phyAddr[i]]
  BY DEF ClearDescriptors
<1>2. phyAddr' \in [Slots -> Buf \cup {NoBuf}]
  BY <1>1 DEF ITypes, IOrder, IIndex
<1>3. ~useAppleVTD => phyAddr' = rxBuf
  BY <1>1 DEF ITypes, IOrder, IAddr
<1>4. MapMayFail = FALSE => phyAddr' = rxBuf
  <2>1. ASSUME MapMayFail = FALSE PROVE phyAddr' = rxBuf
    <3>1. phyAddr' = [i \in Slots |-> IF useAppleVTD THEN rxBuf[i] ELSE phyAddr[i]]
      BY <2>1 DEF ClearDescriptors
    <3>2. \A i \in Slots : phyAddr'[i] = rxBuf[i]
      BY <3>1 DEF IOrder, IAddr
    <3>3. QED BY <3>1, <3>2 DEF ITypes
  <2>2. QED BY <2>1
<1>5. Empty(claim)' /\ wl' = "configure" /\ rdt' = 0
  BY <1>2, <1>3, <1>4 DEF Empty, ClearDescriptors, ITypes, IOrder, IClear, nicVars, confVars
<1>6. (Empty(claim) /\ Starting => IOrder(claim))'
  BY EmptyOrdered, PTL
<1>7. QED BY <1>5, <1>6 DEF Starting

(* The NIC gets all descriptors but the last.                               *)
LEMMA OrderInitRxRing == ASSUME NEW claim, ITypes, IOrder(claim), InitRxRing PROVE IOrder(claim)'
<1>1. /\ wl = "configure" /\ wl' = "down" /\ rdh' = 0 /\ WriteRdt(NumRxDesc - 1)
      /\ rxNextDescIndex' = 0 /\ rxCleanedCount' = 0 /\ rxMapNextIndex' = 0
      /\ UNCHANGED <<confVars, ringVars>>
  BY DEF InitRxRing
<1>2. rxNextDescIndex = 0 /\ rxMapNextIndex = 0 /\ rdh = 0 /\ rdt = 0 /\ Base = 0
  BY <1>1 DEF IOrder, IClear, Base
<1>3. \A i \in Slots : Fresh(claim, i)
  <2>1. Filled = 0 /\ \A i \in Slots : Ahead(0, i) \in 0 .. NumRxDesc - 1
    BY <1>2, SlotFacts, AheadFacts DEF Filled
  <2>2. \A i \in Slots : ~(Ahead(Base, i) < Filled)
    BY <1>2, <2>1, RingSize
  <2>3. QED BY <1>1, <2>2 DEF IOrder, IRing
<1>4. descStat = [i \in Slots |-> NoFrag]
  BY <1>3 DEF Fresh, Done, ITypes
<1>5. claim = "address" => phyAddr = rxBuf /\ descAddr = rxBuf
  BY <1>3 DEF Fresh, ITypes, IOrder, IIndex
<1>6. Empty(claim)'
  BY <1>1, <1>4, <1>5 DEF Empty, ITypes, IOrder, IIndex, IAddr, confVars, ringVars
<1>7. Starting'
  <2>1. rdt' = NumRxDesc - 1 \/ (arbiterWA /\ rdt' = rdt)
    BY <1>1, Zenon DEF WriteRdt
  <2>2. arbiterWA' = arbiterWA
    BY <1>1 DEF confVars
  <2>3. QED BY <1>1, <1>2, <2>1, <2>2 DEF Starting
<1>8. (Empty(claim) /\ Starting => IOrder(claim))'
  BY EmptyOrdered, PTL
<1>9. QED BY <1>6, <1>7, <1>8

LEMMA OrderUnchanged ==
  ASSUME NEW claim, IOrder(claim), UNCHANGED <<confVars, ringVars, idxVars, wl, nicVars>> PROVE IOrder(claim)'
<1>1. Base' = Base /\ Filled' = Filled /\ Owned' = Owned /\ Taken' = Taken
  BY DEF Base, Filled, Owned, Taken, Ahead, confVars, idxVars, nicVars
<1>2. \A i : (Ahead(Base, i))' = Ahead(Base, i)
  BY <1>1 DEF Ahead
<1>3. IRing(claim)'
  BY <1>1, <1>2 DEF IOrder, IRing, Fresh, Done, ringVars
<1>4. QED
  BY <1>1, <1>3
  DEF IOrder, IIndex, IAddr, IBatch, IClear, IOwned, IQuiet, confVars, ringVars, idxVars, nicVars

LEMMA OrderStep ==
  ASSUME NEW claim, claim = "address" => MapMayFail = FALSE, ITypes, IOrder(claim), [Next]_vars
  PROVE  IOrder(claim)'
<1>1. CASE UNCHANGED vars
  BY <1>1, OrderUnchanged DEF vars
<1>2. CASE Nic
  BY <1>2, OrderNic DEF Nic
<1>3. ASSUME NEW b \in Buf, StackFree(b) PROVE IOrder(claim)'
  BY <1>3, OrderUnchanged DEF StackFree
<1>4. CASE RxInterrupt
  BY <1>4, OrderRx, OrderUpdateTail, OrderMapBatch, OrderMapEnd, OrderHandlers DEF RxInterrupt
<1>5. CASE Handlers
  BY <1>5, OrderHandlers, OrderResetNic, OrderClearDescriptors, OrderInitRxRing DEF Handlers
<1>6. QED BY <1>1, <1>2, <1>3, <1>4, <1>5 DEF Next

(* setupRxMap leaves addresses of buffers, if not each in its descriptor.    *)
LEMMA SetupAddresses ==
  ASSUME NEW buf \in [Slots -> Buf] PROVE SetupRxAddr(buf) \in [Slots -> Buf \cup {NoBuf}]
<1>1. SUFFICES ASSUME NEW i \in Slots, i < NumRxDesc \div BatchSize
               PROVE  i * BatchSize + BatchSize - 1 \in Slots
  BY DEF SetupRxAddr
<1> DEFINE d == NumRxDesc \div BatchSize
<1>2. /\ i \in Nat /\ BatchSize \in Nat /\ BatchSize > 0 /\ d \in Int
      /\ BatchSize * d <= NumRxDesc
  BY RingSize, RxConstants, Z3 DEF Slots
<1>3. i < d
  BY <1>1
<1> HIDE DEF d
<1>4. PICK x \in Nat : d = i + 1 + x
  BY <1>2, <1>3
<1>5. BatchSize * d = (i * BatchSize) + BatchSize + (BatchSize * x)
  BY <1>2, <1>4
<1>6. i * BatchSize \in Nat /\ BatchSize * x \in Nat
  BY <1>2, <1>4
<1>7. QED BY <1>2, <1>5, <1>6, RingSize DEF Slots

LEMMA OrderInductive ==
  /\ (Spec => [](IInv /\ IOrder("order"))) /\ (SpecCleared => [](IInv /\ IOrder("order")))
  /\ MapMayFail = FALSE => (SpecCleared => [](IInv /\ IOrder("address")))
<1>1. ASSUME Init \/ InitCleared PROVE IInv /\ IOrder("order")
  <2>1. Empty("order")
    BY <1>1, SetupAddresses, RxConstants DEF Init, InitCleared, EmptyRing, Empty
  <2>2. Starting
    <3>1. CASE Init
      BY <3>1, Zenon DEF Starting, Init
    <3>2. CASE InitCleared
      BY <3>2, Zenon DEF Starting, InitCleared
    <3>3. QED BY <1>1, <3>1, <3>2
  <2>3. QED BY <1>1, <2>1, <2>2, Starts, EmptyOrdered
<1>2. ASSUME InitCleared PROVE IInv /\ IOrder("address")
  <2>1. Empty("address")
    BY <1>2 DEF InitCleared, EmptyRing, Empty
  <2>2. Starting
    BY <1>2 DEF Starting, InitCleared
  <2>3. QED BY <1>2, <2>1, <2>2, Starts, EmptyOrdered
<1>3. IInv /\ IOrder("order") /\ [Next]_vars => (IInv /\ IOrder("order"))'
  BY StepKeeps, OrderStep DEF IInv
<1>4. MapMayFail = FALSE =>
        (IInv /\ IOrder("address") /\ [Next]_vars => (IInv /\ IOrder("address"))')
  BY StepKeeps, OrderStep DEF IInv
<1>5. (Spec => [](IInv /\ IOrder("order"))) /\ (SpecCleared => [](IInv /\ IOrder("order")))
  BY <1>1, <1>3, PTL DEF Spec, SpecCleared
<1>6. ASSUME MapMayFail = FALSE PROVE SpecCleared => [](IInv /\ IOrder("address"))
  <2>1. IInv /\ IOrder("address") /\ [Next]_vars => (IInv /\ IOrder("address"))'
    BY <1>4, <1>6
  <2>2. QED BY <1>2, <2>1, PTL DEF SpecCleared
<1>7. QED BY <1>5, <1>6

-------------------------------------------------------------------------------
(* From the first restart on, and if no mapping of a batch fails: a          *)
(* descriptor between the registers RDH and RDT of a live receiver was       *)
(* processed, is fresh and points to the buffer of its slot, so the NIC      *)
(* writes neither into a packet that rxInterrupt has handed up nor over one  *)
(* that it has not looked at; also after writes of RDT that were swallowed.  *)
THEOREM NicAlwaysOwnsFresh == ASSUME MapMayFail = FALSE PROVE SpecCleared => []NicOwnsFresh
<1>1. ASSUME IInv, IOrder("address") PROVE NicOwnsFresh
  <2>1. SUFFICES ASSUME rctlEn, NEW i \in Slots, Between(rdh, i, rdt) PROVE Fresh("address", i)
    BY DEF NicOwnsFresh, Fresh
  <2>2. wl # "clear"
    BY <1>1, <2>1 DEF IOrder, IClear
  <2>3. Base \in Slots /\ rdh \in Slots /\ rdt \in Slots
    BY <1>1, BaseIsSlot DEF IInv, IOrder, ITypes, IIndex
  <2>4. Ahead(Base, rdh) <= Ahead(Base, rdt)
    BY <1>1, <2>2 DEF IOrder, IRing, Filled, Owned
  <2>5. Ahead(Base, rdh) <= Ahead(Base, i) /\ Ahead(Base, i) \in Int /\ Ahead(Base, rdh) \in Int
    BY <2>1, <2>3, <2>4, BetweenAhead, AheadFacts
  <2>6. ~(Ahead(Base, i) < Filled)
    BY <2>5 DEF Filled
  <2>7. QED BY <2>6, <2>2, <1>1 DEF IOrder, IRing
<1>2. IInv /\ IOrder("address") => NicOwnsFresh
  BY <1>1
<1>3. QED BY <1>2, OrderInductive, PTL

(* From the first restart on, if no mapping of a batch fails and no write of *)
(* RDT is swallowed: whenever rxInterrupt has nothing to do, a live receiver *)
(* has a descriptor to fill; head and tail never meet on an empty ring.      *)
THEOREM NicNeverStarves == ASSUME MapMayFail = FALSE PROVE SpecCleared => []NicNotStarved
<1>1. ASSUME IInv, IOrder("address") PROVE NicNotStarved
  <2>1. SUFFICES ASSUME ~arbiterWA, wl = "idle", ~Done(rxNextDescIndex) PROVE rdh # rdt
    BY DEF NicNotStarved
  <2>2. /\ rxNextDescIndex \in Slots /\ Base \in Slots /\ rdh \in Slots /\ rdt \in Slots
        /\ rxCleanedCount \in Nat /\ BatchSize \in Nat /\ BatchSize > 0
    BY <1>1, BaseIsSlot, RxConstants DEF IInv, IOrder, ITypes, IIndex
  <2>3. 2 * BatchSize <= NumRxDesc
    <3>1. PICK q \in 2 .. NumRxDesc : NumRxDesc = q * BatchSize
      BY RxConstants
    <3>2. q \in Nat /\ q >= 2
      BY <3>1, RingSize
    <3>3. QED BY <3>1, <3>2, <2>2
  <2>4. Filled <= Taken /\ Filled \in Nat /\ Taken \in Nat
    <3>1. ~(Taken < Filled)
      BY <1>1, <2>1, <2>2 DEF IOrder, IRing, Taken
    <3>2. QED BY <3>1, <2>2, AheadFacts DEF Taken, Filled
  <2>5. Taken < BatchSize /\ Taken < Owned
    <3>1. CASE useAppleVTD
      <4>1. rxCleanedCount = 0 /\ Owned = NumRxDesc - 1 - 0
            /\ Taken = (rxCleanedCount * BatchSize) + (rxNextDescIndex % BatchSize)
        BY <1>1, <2>1, <3>1 DEF IOrder, IQuiet, IOwned, IBatch
      <4>2. rxNextDescIndex % BatchSize \in 0 .. BatchSize - 1
        BY <2>2, NextInBatch
      <4>3. Taken = rxNextDescIndex % BatchSize
        BY <4>1, <4>2, <2>2
      <4>4. QED BY <4>1, <4>2, <4>3, <2>2, <2>3, RingSize
    <3>2. CASE ~useAppleVTD
      <4>1. rxCleanedCount < BatchSize /\ Owned = NumRxDesc - 1 - rxCleanedCount
        BY <1>1, <2>1, <3>2 DEF IOrder, IQuiet, IOwned
      <4>2. Taken = 0
        BY <3>2, <2>2, AheadFacts DEF Taken, Base
      <4>3. QED BY <4>1, <4>2, <2>2, <2>3, RingSize
    <3>3. QED BY <3>1, <3>2
  <2>6. Filled # Owned
    BY <2>4, <2>5
  <2>7. QED BY <2>6 DEF Filled, Owned
<1>2. IInv /\ IOrder("address") => NicNotStarved
  BY <1>1
<1>3. QED BY <1>2, OrderInductive, PTL

(***************************************************************************)
(* Which fragments are where.  What was received is a row of fragments, each *)
(* followed by the next of its frame or the first of another one: the packet *)
(* being joined, the written descriptors, and the fragment the NIC receives. *)
(***************************************************************************)
Follows(f, g) ==
  /\ g.frame = IF f.eop THEN 1 - f.frame ELSE f.frame
  /\ g.pos = IF f.eop THEN 1 ELSE f.pos + 1

Coming(i) == IF i = rdh THEN nicFrag ELSE descStat[i]

IRow ==
  wl # "clear" =>
    /\ \A i \in Slots : Done(i) => Follows(descStat[i], Coming(Next1(i)))
    /\ chain # <<>> => Follows(chain[Len(chain)], Coming(rxNextDescIndex))

(* A packet that is not complete has fragments of one frame, none the last.  *)
IChain ==
  \A k \in 1 .. Len(chain) :
    /\ ~chain[k].eop
    /\ k > 1 => /\ chain[k].frame = chain[k - 1].frame
                /\ chain[k].pos = chain[k - 1].pos + 1

IFrames == IRow /\ IChain /\ NoMixedFrames

LEMMA NextApart ==
  ASSUME NEW i \in Slots, NEW j \in Slots, i # j PROVE Next1(i) # Next1(j) /\ Next1(i) # i
<1>1. NumRxDesc >= 2
  <2>1. PICK q \in 2 .. NumRxDesc : NumRxDesc = q * BatchSize
    BY RxConstants
  <2>2. QED BY <2>1, RingSize
<1>2. QED BY <1>1, RingSize, Next1Linear DEF Slots

(* Neither the NIC nor rxInterrupt runs into the other.                      *)
LEMMA HeadAndNext ==
  ASSUME ITypes, IOrder("order"), wl # "clear"
  PROVE  /\ ~Done(rdh)
         /\ rdh # rdt => rxNextDescIndex # Next1(rdh)
         /\ ~useAppleVTD => \A i \in Slots : Done(i) => Next1(i) # rxNextDescIndex
<1>1. Base \in Slots /\ rdh \in Slots /\ rdt \in Slots /\ rxNextDescIndex \in Slots
  BY BaseIsSlot DEF IOrder, ITypes, IIndex
<1>2. /\ Filled <= Owned
      /\ \A i \in Slots : IF Ahead(Base, i) < Filled THEN Done(i) ELSE Fresh("order", i)
  BY DEF IOrder, IRing
<1>3. Filled \in 0 .. NumRxDesc - 1 /\ Owned \in 0 .. NumRxDesc - 1 /\ Taken \in 0 .. NumRxDesc - 1
  BY <1>1, AheadFacts DEF Filled, Owned, Taken
<1>4. ~Done(rdh)
  <2>1. ~(Ahead(Base, rdh) < Filled)
    BY <1>3 DEF Filled
  <2>2. QED BY <1>1, <1>2, <2>1 DEF Fresh
<1>5. Taken <= Filled
  <2>1. CASE useAppleVTD
    BY <2>1 DEF IOrder, IBatch
  <2>2. CASE ~useAppleVTD
    BY <2>2, <1>1, <1>3, AheadFacts DEF Taken, Base
  <2>3. QED BY <2>1, <2>2
<1>6. ASSUME rdh # rdt PROVE rxNextDescIndex # Next1(rdh)
  <2>1. Filled # Owned
    BY <1>1, <1>6, RingSize DEF Filled, Owned, Ahead, Slots
  <2>2. Ahead(Base, rdh) < NumRxDesc - 1
    BY <1>2, <1>3, <2>1, RingSize DEF Filled
  <2>3. Ahead(Base, Next1(rdh)) = Filled + 1
    BY <1>1, <2>2, NextAhead DEF Filled
  <2>4. QED BY <1>3, <1>5, <2>3 DEF Taken
<1>7. ASSUME ~useAppleVTD, NEW i \in Slots, Done(i) PROVE Next1(i) # rxNextDescIndex
  <2>1. Ahead(Base, i) < Filled
    BY <1>2, <1>7 DEF Fresh
  <2>2. Ahead(Base, i) \in 0 .. NumRxDesc - 1
    BY <1>1, AheadFacts
  <2>3. Ahead(Base, Next1(i)) = Ahead(Base, i) + 1
    BY <1>1, <1>3, <2>1, <2>2, NextAhead, RingSize
  <2>4. Ahead(Base, rxNextDescIndex) = 0
    BY <1>1, <1>7, AheadFacts DEF Base
  <2>5. QED BY <2>2, <2>3, <2>4
<1>8. QED BY <1>4, <1>6, <1>7

(* The row grows at its end.                                                *)
LEMMA FramesNic ==
  ASSUME ITypes, IOrder("order"), IFrames,
         NEW eop \in BOOLEAN, NEW err \in BOOLEAN, NicReceive(eop, err)
  PROVE  IFrames'
<1> DEFINE f == [frame |-> nicFrag.frame, pos |-> nicFrag.pos, eop |-> eop, err |-> err]
<1>1. /\ rctlEn /\ rdh # rdt /\ rdh' = Next1(rdh) /\ descStat' = [descStat EXCEPT ![rdh] = f]
      /\ UNCHANGED <<idxVars, chain, wl, delivered>>
  BY DEF NicReceive
<1>2. Follows(f, nicFrag')
  <2>1. CASE eop
    <3>1. nicFrag' = [frame |-> 1 - nicFrag.frame, pos |-> 1]
      BY <2>1 DEF NicReceive
    <3>2. QED BY <2>1, <3>1 DEF Follows
  <2>2. CASE ~eop
    <3>1. nicFrag' = [nicFrag EXCEPT !.pos = @ + 1]
      BY <2>2 DEF NicReceive
    <3>2. QED BY <2>2, <3>1 DEF Follows, ITypes
  <2>3. QED BY <2>1, <2>2
<1>3. \A x : Follows(x, nicFrag) => Follows(x, f)
  BY DEF Follows
<1> HIDE DEF f
<1>4. wl # "clear"
  BY <1>1 DEF IOrder, IClear
<1>5. /\ rdh \in Slots /\ rxNextDescIndex \in Slots /\ descStat \in [Slots -> Frag \cup {NoFrag}]
      /\ rxNextDescIndex' = rxNextDescIndex
  BY <1>1 DEF ITypes, idxVars
<1>6. ~Done(rdh) /\ rxNextDescIndex # Next1(rdh)
  BY <1>1, <1>4, HeadAndNext
<1>7. \A j \in Slots \ {Next1(rdh)} :
        Coming(j)' = IF j = rdh THEN f ELSE Coming(j)
  BY <1>1, <1>5 DEF Coming
<1>8. ASSUME NEW i \in Slots, Done(i)' PROVE Follows(descStat'[i], Coming(Next1(i))')
  <2>1. Next1(i) \in Slots
    BY SlotFacts
  <2>2. CASE i = rdh
    <3>1. descStat'[i] = f /\ Coming(Next1(i))' = nicFrag'
      BY <2>2, <1>1, <1>5 DEF Coming, Next1
    <3>2. QED BY <3>1, <1>2
  <2>3. CASE i # rdh
    <3>1. descStat'[i] = descStat[i] /\ Done(i)
      BY <2>3, <1>1, <1>5, <1>8 DEF Done
    <3>2. Follows(descStat[i], Coming(Next1(i)))
      BY <3>1, <1>4 DEF IFrames, IRow
    <3>3. Next1(i) # Next1(rdh)
      BY <2>3, <1>5, NextApart
    <3>4. Coming(Next1(i))' = IF Next1(i) = rdh THEN f ELSE Coming(Next1(i))
      <4> DEFINE j == Next1(i)
      <4>1. j' = j
        BY DEF Next1
      <4> HIDE DEF j
      <4>2. j \in Slots \ {Next1(rdh)}
        BY <2>1, <3>3 DEF j
      <4>3. Coming(j)' = IF j = rdh THEN f ELSE Coming(j)
        BY <4>1, <4>2, <1>1, <1>5 DEF Coming
      <4>4. QED BY <4>3 DEF j
    <3>5. Next1(i) = rdh => Coming(Next1(i)) = nicFrag
      BY DEF Coming
    <3>6. QED BY <3>1, <3>2, <3>4, <3>5, <1>3
  <2>4. QED BY <2>2, <2>3
<1>9. chain # <<>> => Follows(chain[Len(chain)], Coming(rxNextDescIndex)')
  <2>1. chain # <<>> => Follows(chain[Len(chain)], Coming(rxNextDescIndex))
    BY <1>4 DEF IFrames, IRow
  <2>2. Coming(rxNextDescIndex)' = IF rxNextDescIndex = rdh THEN f ELSE Coming(rxNextDescIndex)
    BY <1>1, <1>5, <1>6 DEF Coming
  <2>3. rxNextDescIndex = rdh => Coming(rxNextDescIndex) = nicFrag
    BY DEF Coming
  <2>4. QED BY <2>1, <2>2, <2>3, <1>3
<1>10. IRow'
  BY <1>1, <1>8, <1>9 DEF IRow, Follows
<1>11. IChain' /\ NoMixedFrames'
  BY <1>1 DEF IFrames, IChain, NoMixedFrames
<1>12. QED BY <1>10, <1>11 DEF IFrames

(* rxInterrupt goes on: the row loses its first descriptor, and without      *)
(* AppleVTD its slot.  What becomes of the packet is left open.             *)
LEMMA RowNextDesc ==
  ASSUME ITypes, IOrder("order"), IFrames, NEW addr, wl = "rx", Done(rxNextDescIndex),
         NextDesc(addr),
         chain' # <<>> => Follows(chain'[Len(chain')], Coming(Next1(rxNextDescIndex)))
  PROVE  IRow'
<1> DEFINE n == rxNextDescIndex
<1>1. /\ n \in Slots /\ n' = Next1(n) /\ rdh' = rdh /\ nicFrag' = nicFrag /\ rdh \in Slots
      /\ Next1(n) \in Slots /\ Next1(n) # n
      /\ descStat \in [Slots -> Frag \cup {NoFrag}]
  <2>1. n \in Slots /\ n' = Next1(n) /\ rdh' = rdh /\ nicFrag' = nicFrag /\ rdh \in Slots
        /\ descStat \in [Slots -> Frag \cup {NoFrag}]
    BY DEF ITypes, NextDesc, nicVars
  <2>2. NumRxDesc >= 2
    <3>1. PICK q \in 2 .. NumRxDesc : NumRxDesc = q * BatchSize
      BY RxConstants
    <3>2. QED BY <3>1, RingSize
  <2>3. QED BY <2>1, <2>2, SlotFacts, Next1Linear, RingSize DEF Slots
<1>2. ~Done(rdh) /\ rdh # n
  BY <1>1, HeadAndNext
<1>3. \/ useAppleVTD /\ descStat' = descStat
      \/ ~useAppleVTD /\ descStat' = [descStat EXCEPT ![n] = NoFrag]
  BY DEF NextDesc
<1>4. \A j \in Slots \ {n} : descStat'[j] = descStat[j] /\ Coming(j)' = Coming(j)
  BY <1>1, <1>3 DEF Coming
<1>5. ASSUME NEW i \in Slots, Done(i)' PROVE Follows(descStat'[i], Coming(Next1(i))')
  <2>1. Done(i) /\ descStat'[i] = descStat[i] /\ (~useAppleVTD => i # n)
    BY <1>1, <1>3, <1>5 DEF Done
  <2>2. Follows(descStat[i], Coming(Next1(i)))
    BY <2>1 DEF IFrames, IRow
  <2>3. Coming(Next1(i))' = Coming(Next1(i))
    <3>1. CASE useAppleVTD
      BY <3>1, <1>1, <1>3 DEF Coming, Next1
    <3>2. CASE ~useAppleVTD
      <4> DEFINE j == Next1(i)
      <4>1. j' = j /\ j \in Slots
        BY SlotFacts DEF Next1
      <4>2. j # n
        BY <2>1, <3>2, HeadAndNext
      <4> HIDE DEF j
      <4>3. Coming(j)' = Coming(j)
        BY <4>1, <4>2, <1>1, <1>3, <1>4 DEF Coming
      <4>4. QED BY <4>3 DEF j
    <3>3. QED BY <3>1, <3>2
  <2>4. QED BY <2>1, <2>2, <2>3
<1>6. Coming(rxNextDescIndex)' = Coming(Next1(n))
  <2> DEFINE j == Next1(n)
  <2>1. n' = j /\ j \in Slots \ {n}
    BY <1>1
  <2> HIDE DEF j
  <2>2. Coming(rxNextDescIndex)' = IF j = rdh THEN nicFrag ELSE descStat[j]
    BY <2>1, <1>1, <1>4 DEF Coming
  <2>3. QED BY <2>2 DEF Coming, j
<1>7. chain' # <<>> => Follows(chain'[Len(chain')], Coming(rxNextDescIndex)')
  BY <1>6
<1>8. QED BY <1>5, <1>7 DEF IRow, Follows

(* The fragment at the next descriptor joins the packet or completes it.    *)
LEMMA FramesJoin ==
  ASSUME ITypes, IOrder("order"), IFrames, NEW addr, NEW b \in Buf \cup {NoBuf}, wl = "rx",
         Done(rxNextDescIndex), Join(descStat[rxNextDescIndex], b), NextDesc(addr)
  PROVE  IFrames'
<1> DEFINE frag == descStat[rxNextDescIndex]
           e == [frame |-> frag.frame, pos |-> frag.pos, eop |-> frag.eop, buf |-> b]
           joined == Append(chain, e)
<1>1. rxNextDescIndex \in Slots /\ rdh # rxNextDescIndex /\ frag \in Frag
      /\ chain \in Seq(ChainFrag) /\ Len(chain) \in Nat
  BY HeadAndNext, DoneFrag DEF ITypes
<1>2. Follows(frag, Coming(Next1(rxNextDescIndex)))
  BY <1>1 DEF IFrames, IRow
<1>3. chain # <<>> => Follows(chain[Len(chain)], frag)
  BY <1>1 DEF IFrames, IRow, Coming
<1>4. /\ Join(frag, b)
      /\ e.frame = frag.frame /\ e.pos = frag.pos /\ e.eop = frag.eop
  OBVIOUS
<1> HIDE DEF frag
<1>5. e \in ChainFrag
  BY <1>1 DEF Frag, ChainFrag
<1>6. /\ joined \in Seq(ChainFrag) /\ Len(joined) = Len(chain) + 1
      /\ \A k \in 1 .. Len(chain) : joined[k] = chain[k]
      /\ joined[Len(chain) + 1] = e
  <2> HIDE DEF e
  <2>1. QED BY <1>1, <1>5
<1>7. CASE frag.eop
  <2>1. chain' = <<>> /\ delivered' = [k \in 1 .. Len(joined) |-> [joined[k] EXCEPT !.buf = NoBuf]]
    BY <1>4, <1>7 DEF Join
  <2> HIDE DEF joined, e
  <2>2. IRow'
    BY <2>1, RowNextDesc
  <2>3. IChain'
    BY <2>1 DEF IChain
  <2>4. NoMixedFrames'
    <3>1. /\ Len(delivered') = Len(chain) + 1
          /\ \A k \in 1 .. Len(chain) + 1 : /\ delivered'[k].frame = joined[k].frame
                                            /\ delivered'[k].pos = joined[k].pos
                                            /\ delivered'[k].eop = joined[k].eop
      <4>1. Len(delivered') = Len(joined) /\ Len(joined) = Len(chain) + 1
        BY <2>1, <1>1, <1>6
      <4>2. ASSUME NEW k \in 1 .. Len(joined)
            PROVE  /\ delivered'[k].frame = joined[k].frame
                   /\ delivered'[k].pos = joined[k].pos
                   /\ delivered'[k].eop = joined[k].eop
        <5>1. joined[k] \in ChainFrag /\ delivered'[k] = [joined[k] EXCEPT !.buf = NoBuf]
          BY <2>1, <1>6
        <5> DEFINE g == joined[k]
        <5> HIDE DEF g
        <5>2. g \in ChainFrag /\ delivered'[k] = [g EXCEPT !.buf = NoBuf]
          BY <5>1 DEF g
        <5>3. QED BY <5>2 DEF g, ChainFrag
      <4>3. QED BY <4>1, <4>2
    <3>2. ASSUME NEW k \in 1 .. Len(chain)
          PROVE  /\ ~delivered'[k].eop
                 /\ k > 1 => /\ delivered'[k].frame = delivered'[k - 1].frame
                             /\ delivered'[k].pos = delivered'[k - 1].pos + 1
      <4>1. joined[k] = chain[k] /\ (k > 1 => joined[k - 1] = chain[k - 1])
        BY <1>1, <1>6
      <4>2. QED BY <4>1, <3>1, <1>1 DEF IFrames, IChain
    <3>3. /\ delivered'[Len(chain) + 1].eop
          /\ Len(chain) + 1 > 1 =>
               /\ delivered'[Len(chain) + 1].frame = delivered'[Len(chain)].frame
               /\ delivered'[Len(chain) + 1].pos = delivered'[Len(chain)].pos + 1
      <4>1. delivered'[Len(chain) + 1].eop
        <5>1. delivered'[Len(chain) + 1].eop = joined[Len(chain) + 1].eop
          BY <3>1, <1>1
        <5>2. QED BY <5>1, <1>4, <1>6, <1>7
      <4>2. ASSUME Len(chain) > 0
            PROVE  /\ frag.frame = chain[Len(chain)].frame
                   /\ frag.pos = chain[Len(chain)].pos + 1
        BY <4>2, <1>1, <1>3 DEF IFrames, IChain, Follows
      <4>3. QED BY <4>1, <4>2, <3>1, <1>1, <1>4, <1>6
    <3>4. QED BY <3>1, <3>2, <3>3, <1>1 DEF NoMixedFrames
  <2>5. QED BY <2>2, <2>3, <2>4 DEF IFrames
<1>8. CASE ~frag.eop
  <2>1. chain' = joined /\ delivered' = delivered
    BY <1>4, <1>8 DEF Join
  <2>2. Follows(chain'[Len(chain')], Coming(Next1(rxNextDescIndex)))
    <3>1. chain'[Len(chain')] = e
      BY <2>1, <1>1, <1>6
    <3>2. QED BY <3>1, <1>2, <1>4 DEF Follows
  <2> HIDE DEF joined, e
  <2>3. IRow'
    BY <2>2, RowNextDesc
  <2>4. IChain'
    <3>1. ASSUME NEW k \in 1 .. Len(chain)
          PROVE  /\ ~chain'[k].eop
                 /\ k > 1 => /\ chain'[k].frame = chain'[k - 1].frame
                             /\ chain'[k].pos = chain'[k - 1].pos + 1
      <4>1. chain'[k] = chain[k] /\ (k > 1 => chain'[k - 1] = chain[k - 1])
        BY <1>1, <1>6, <2>1
      <4>2. QED BY <4>1, <1>1 DEF IFrames, IChain
    <3>2. /\ ~chain'[Len(chain) + 1].eop
          /\ Len(chain) + 1 > 1 =>
               /\ chain'[Len(chain) + 1].frame = chain'[Len(chain)].frame
               /\ chain'[Len(chain) + 1].pos = chain'[Len(chain)].pos + 1
      <4>1. ASSUME Len(chain) > 0
            PROVE  /\ frag.frame = chain[Len(chain)].frame
                   /\ frag.pos = chain[Len(chain)].pos + 1
        BY <4>1, <1>1, <1>3 DEF IFrames, IChain, Follows
      <4>2. QED BY <4>1, <1>1, <1>4, <1>6, <1>8, <2>1
    <3>3. Len(chain') = Len(chain) + 1
      BY <2>1, <1>6
    <3>4. QED BY <3>1, <3>2, <3>3, <1>1 DEF IChain
  <2>5. NoMixedFrames'
    BY <2>1 DEF IFrames, NoMixedFrames
  <2>6. QED BY <2>3, <2>4, <2>5 DEF IFrames
<1>9. QED BY <1>7, <1>8

LEMMA FramesRx ==
  ASSUME ITypes, IOrder("order"), IFrames, RxBad \/ RxCopy \/ \E b \in Buf : RxReplace(b)
  PROVE  IFrames'
<1>1. rxNextDescIndex \in Slots /\ rxBuf[rxNextDescIndex] \in Buf
  BY DEF ITypes
<1>2. CASE RxBad
  <2>1. wl = "rx" /\ Done(rxNextDescIndex) /\ chain' = <<>> /\ delivered' = delivered
        /\ NextDesc(phyAddr[rxNextDescIndex])
    BY <1>2 DEF RxBad
  <2>2. IRow'
    BY <2>1, RowNextDesc
  <2>3. QED BY <2>1, <2>2 DEF IFrames, IChain, NoMixedFrames
<1>3. CASE RxCopy
  BY <1>3, FramesJoin DEF RxCopy
<1>4. ASSUME NEW b \in Buf, RxReplace(b) PROVE IFrames'
  BY <1>1, <1>4, FramesJoin DEF RxReplace
<1>5. QED BY <1>2, <1>3, <1>4

(* A batch given back had its buffers taken, and none of them is in the row.*)
LEMMA FramesMapBatch == ASSUME ITypes, IOrder("order"), IFrames, MapBatch PROVE IFrames'
<1> DEFINE m == rxMapNextIndex
           n == rxNextDescIndex
<1>1. /\ wl = "tail" /\ useAppleVTD /\ rxCleanedCount > 0 /\ MapSlots(Batch(m))
      /\ UNCHANGED <<rxNextDescIndex, chain, wl, rdh, nicFrag, delivered>>
  BY DEF MapBatch
<1>2. /\ m \in Slots /\ Aligned(m) /\ rdh \in Slots /\ rdt \in Slots /\ n \in Slots
      /\ BatchSize \in Nat /\ BatchSize > 0 /\ Base = m /\ rxCleanedCount \in Nat
      /\ descStat \in [Slots -> Frag \cup {NoFrag}]
  BY <1>1, RxConstants DEF ITypes, IOrder, IIndex, Base
<1>3. \A i \in Slots : i \in Batch(m) <=> Ahead(m, i) < BatchSize
  BY <1>2, BatchMoves
<1>4. /\ Filled \in 0 .. NumRxDesc - 1 /\ Taken \in 0 .. NumRxDesc - 1 /\ Taken <= Filled
      /\ \A i \in Slots : Done(i) => Ahead(m, i) < Filled
  <2>1. Taken <= Filled
        /\ \A i \in Slots : IF Ahead(m, i) < Filled THEN Done(i) ELSE Fresh("order", i)
    BY <1>1, <1>2 DEF IOrder, IRing, IBatch
  <2>2. QED BY <2>1, <1>2, AheadFacts DEF Filled, Taken, Fresh
<1>5. Taken >= BatchSize
  <2>1. PICK e \in Nat : rxCleanedCount <= e /\ Taken = (e * BatchSize) + (n % BatchSize)
    BY <1>1 DEF IOrder, IBatch
  <2>2. e - 1 \in Nat /\ n % BatchSize \in 0 .. BatchSize - 1
    BY <2>1, <1>1, <1>2, NextInBatch
  <2>3. e * BatchSize = ((e - 1) * BatchSize) + BatchSize /\ (e - 1) * BatchSize \in Nat
    BY <2>2, <1>2
  <2>4. QED BY <2>1, <2>2, <2>3, <1>2
<1>6. \A j \in Slots \ Batch(m) : descStat'[j] = descStat[j] /\ Coming(j)' = Coming(j)
  BY <1>1, <1>2 DEF MapSlots, Coming
<1>7. \A j \in Slots : Ahead(m, j) >= BatchSize => Coming(j)' = Coming(j)
  BY <1>2, <1>3, <1>6, AheadFacts
<1>8. ASSUME NEW i \in Slots, Done(i)' PROVE Follows(descStat'[i], Coming(Next1(i))')
  <2>1. i \notin Batch(m) /\ descStat'[i] = descStat[i] /\ Done(i)
    BY <1>1, <1>8 DEF MapSlots, Done
  <2>2. Ahead(m, i) \in 0 .. NumRxDesc - 1 /\ Ahead(m, i) >= BatchSize /\ Ahead(m, i) < Filled
    BY <2>1, <1>2, <1>3, <1>4, AheadFacts
  <2>3. Ahead(m, Next1(i)) = Ahead(m, i) + 1
    BY <2>2, <1>2, <1>4, NextAhead, RingSize
  <2> DEFINE j == Next1(i)
  <2>4. j \in Slots /\ Ahead(m, j) >= BatchSize
    BY <2>2, <2>3, <1>2, SlotFacts
  <2> HIDE DEF j
  <2>5. Coming(j)' = Coming(j)
    BY <2>4, <1>7
  <2>6. Coming(Next1(i))' = Coming(Next1(i))
    BY <2>5 DEF j, Next1
  <2>7. Follows(descStat[i], Coming(Next1(i)))
    BY <2>1, <1>1 DEF IFrames, IRow
  <2>8. QED BY <2>1, <2>6, <2>7
<1>9. chain' # <<>> => Follows(chain'[Len(chain')], Coming(rxNextDescIndex)')
  <2>1. Ahead(m, n) >= BatchSize
    BY <1>2, <1>5 DEF Taken
  <2>2. rdh' = rdh /\ nicFrag' = nicFrag /\ n' = n /\ n \notin Batch(m) /\ chain' = chain
    BY <2>1, <1>1, <1>2, <1>3, AheadFacts
  <2>3. Coming(rxNextDescIndex)' = Coming(rxNextDescIndex)
    BY <2>2, <1>1, <1>2 DEF Coming, MapSlots
  <2>4. chain # <<>> => Follows(chain[Len(chain)], Coming(rxNextDescIndex))
    BY <1>1 DEF IFrames, IRow
  <2>5. QED BY <2>2, <2>3, <2>4
<1>10. IRow'
  BY <1>8, <1>9 DEF IRow, Follows
<1>11. QED BY <1>1, <1>10 DEF IFrames, IChain, NoMixedFrames

(* All else leaves the row alone, or empties it.                            *)
LEMMA FramesSame ==
  ASSUME IFrames, UNCHANGED <<descStat, rxNextDescIndex, chain, rdh, nicFrag>>,
         wl # "clear", delivered' \in {delivered, <<>>}
  PROVE  IFrames'
<1>1. \A i : Coming(i)' = Coming(i) /\ Done(i)' = Done(i)
  BY DEF Coming, Done
<1>2. IRow'
  BY <1>1 DEF IFrames, IRow, Follows, Coming, Done, Next1
<1>3. NoMixedFrames'
  <2>1. CASE delivered' = delivered
    BY <2>1 DEF IFrames, NoMixedFrames
  <2>2. CASE delivered' = <<>>
    BY <2>2 DEF NoMixedFrames
  <2>3. QED BY <2>1, <2>2
<1>4. QED BY <1>2, <1>3 DEF IFrames, IChain

LEMMA FramesStep == ASSUME ITypes, IOrder("order"), IFrames, [Next]_vars PROVE IFrames'
<1>1. ASSUME UNCHANGED <<descStat, rxNextDescIndex, chain, rdh, nicFrag, wl, delivered>> PROVE IFrames'
  <2>1. CASE wl = "clear"
    BY <1>1, <2>1 DEF IFrames, IRow, IChain, NoMixedFrames
  <2>2. CASE wl # "clear"
    BY <1>1, <2>2, FramesSame
  <2>3. QED BY <2>1, <2>2
<1>2. CASE UNCHANGED vars
  BY <1>1, <1>2 DEF vars, ringVars, idxVars, nicVars
<1>3. CASE Nic
  BY <1>3, FramesNic DEF Nic
<1>4. ASSUME NEW b \in Buf, StackFree(b) PROVE IFrames'
  BY <1>1, <1>4 DEF StackFree, ringVars, idxVars, nicVars
<1>5. CASE RxBegin \/ RxEnd \/ UpdateTail \/ MapEnd \/ StopNic \/ FlushRxRing \/ SetLinkUp
  <2>1. UNCHANGED <<descStat, rxNextDescIndex, chain, rdh, nicFrag>> /\ wl # "clear"
        /\ delivered' \in {delivered, <<>>}
    BY <1>5 DEF RxBegin, RxEnd, UpdateTail, MapEnd, StopNic, FlushRxRing, SetLinkUp,
                ringVars, idxVars, nicVars
  <2>2. QED BY <2>1, FramesSame
<1>6. CASE RxBad \/ RxCopy \/ \E b \in Buf : RxReplace(b)
  BY <1>6, FramesRx
<1>7. CASE MapBatch
  BY <1>7, FramesMapBatch
<1>8. CASE ResetNic
  BY <1>8 DEF ResetNic, IFrames, IRow, IChain, NoMixedFrames
<1>9. CASE ClearDescriptors
  BY <1>9 DEF ClearDescriptors, IFrames, IRow, IChain, NoMixedFrames, Done
<1>10. CASE InitRxRing
  <2>1. UNCHANGED <<descStat, rxNextDescIndex, chain, rdh, nicFrag, delivered>> /\ wl # "clear"
    BY <1>10 DEF InitRxRing, IOrder, IClear, ringVars
  <2>2. QED BY <2>1, FramesSame
<1>11. QED
  BY <1>2, <1>3, <1>4, <1>5, <1>6, <1>7, <1>8, <1>9, <1>10 DEF Next, RxInterrupt, Handlers

(* From the start on, also when mappings fail: a packet that rxInterrupt or  *)
(* rxInterruptVTD hands up consists of fragments of one frame, in order and  *)
(* without a gap, up to its last one, whatever frames were discarded, cut by *)
(* a reset or received while the receiver was flushed.                       *)
THEOREM FramesNeverMixed == (Spec => []NoMixedFrames) /\ (SpecCleared => []NoMixedFrames)
<1>1. Init \/ InitCleared => IFrames
  BY DEF Init, InitCleared, EmptyRing, IFrames, IRow, IChain, NoMixedFrames, Done
<1>2. IInv /\ IOrder("order") /\ IFrames /\ [Next]_vars => IFrames'
  BY FramesStep DEF IInv
<1>3. IFrames => NoMixedFrames
  BY DEF IFrames
<1>4. QED BY <1>1, <1>2, <1>3, OrderInductive, PTL DEF Spec, SpecCleared
===============================================================================
