------------------------------- MODULE RxRing -------------------------------
(***************************************************************************)
(* The receive descriptor ring of IntelMausiEthernet.                       *)
(*                                                                         *)
(* The NIC fills the descriptors from RDH up to, and not including, RDT; a  *)
(* frame that does not fit one buffer continues in the next ones.  On the   *)
(* work loop rxInterrupt, or rxInterruptVTD when buffers are mapped through *)
(* an IOMMU in batches, takes the filled buffers out of the ring, joins the *)
(* fragments of a frame and hands the packet up.  Only the NIC runs beside  *)
(* the work loop, and it never touches a descriptor rxInterrupt looks at,   *)
(* so one round of its loop is one step.                                     *)
(***************************************************************************)
EXTENDS Integers, Sequences

CONSTANTS
  NumRxDesc,    (* kNumRxDesc.                                              *)
  BatchSize,    (* E1000_RX_BUFFER_WRITE, and kRxMemBatchSize.              *)
  MaxFrags,     (* Bound: most buffers of one frame.                        *)
  Buf, NoBuf,   (* mbuf clusters, and the address 0.                        *)
  MapMayFail    (* Whether mapping a batch of buffers may fail.             *)

ASSUME RxConstants ==
  /\ BatchSize \in Nat \ {0} /\ MaxFrags \in Nat \ {0}
  /\ \E n \in 2 .. NumRxDesc : NumRxDesc = n * BatchSize
  /\ NoBuf \notin Buf
  /\ MapMayFail \in BOOLEAN

VARIABLES
  useAppleVTD,          (* Buffers are mapped through the IOMMU.             *)
  arbiterWA,            (* The chip has FLAG2_PCIM2PCI_ARBITER_WA: its ME    *)
                        (* firmware may swallow a write of RDT.              *)
  rxBuf, phyAddr,       (* rxBufArray[i].mbuf and .phyAddr                  *)
  descAddr, descStat,   (* rxDescArray[i]: address; write back, or NoFrag    *)
  rxNextDescIndex, rxCleanedCount, rxMapNextIndex,
  chain,                (* rxPacketHead ... rxPacketTail                    *)
  wl,                   (* what the work loop does                          *)
  rdh, rdt, rctlEn,     (* the NIC: head, tail and RCTL.EN                  *)
  nicFrag,              (* the frame the NIC receives, its next fragment    *)
  upstream,             (* buffers the network stack has not freed yet      *)
  delivered             (* History: the packet this round handed up last.    *)

confVars == <<useAppleVTD, arbiterWA>>
ringVars == <<rxBuf, phyAddr, descAddr, descStat>>
idxVars  == <<rxNextDescIndex, rxCleanedCount, rxMapNextIndex>>
nicVars  == <<rdh, rdt, rctlEn, nicFrag>>
vars == <<confVars, ringVars, idxVars, chain, wl, nicVars, upstream, delivered>>

Slots == 0 .. NumRxDesc - 1
(* Mutant of Next1: the mask is forgotten.                                   *)
Next1NoMask(i) == i + 1

Next1(i) == (i + 1) % NumRxDesc
Batch(i) == i .. i + BatchSize - 1

Frag   == [frame : {0, 1}, pos : 1 .. MaxFrags, eop : BOOLEAN, err : BOOLEAN]
NoFrag == [frame |-> 0, pos |-> 0, eop |-> FALSE, err |-> FALSE]
Done(i) == descStat[i] # NoFrag

ChainBufs == {chain[k].buf : k \in 1 .. Len(chain)} \ {NoBuf}
InUse     == {rxBuf[i] : i \in Slots} \cup ChainBufs \cup upstream

(* The descriptors' addresses after setupRxResources.  setupRxMap stores the *)
(* addresses of the i-th batch, one after the other, in descriptor i.        *)
SetupRxAddr(buf) ==
  [i \in Slots |->
     IF ~useAppleVTD THEN buf[i]
     ELSE IF i < NumRxDesc \div BatchSize
            THEN buf[i * BatchSize + BatchSize - 1] ELSE NoBuf]

(* Every slot has a buffer; nothing was received yet.                        *)
EmptyRing ==
  /\ useAppleVTD \in BOOLEAN /\ arbiterWA \in BOOLEAN
  /\ rxBuf \in [Slots -> Buf]
  /\ \A i, j \in Slots : i # j => rxBuf[i] # rxBuf[j]
  /\ phyAddr = rxBuf
  /\ descStat = [i \in Slots |-> NoFrag]
  /\ rxNextDescIndex = 0 /\ rxCleanedCount = 0 /\ rxMapNextIndex = 0
  /\ chain = <<>>
  /\ rdh = 0 /\ rctlEn = FALSE /\ nicFrag = [frame |-> 0, pos |-> 1]
  /\ upstream = {} /\ delivered = <<>>

(* setupRxResources and enable: the link is down.                            *)
Init ==
  /\ EmptyRing
  /\ descAddr = SetupRxAddr(rxBuf)
  /\ wl = "down" /\ rdt = NumRxDesc - 1

(* The first restart: clearDescriptors has written every descriptor.         *)
InitCleared ==
  EmptyRing /\ descAddr = rxBuf /\ wl = "configure" /\ rdt = 0

-----------------------------------------------------------------------------
(* The NIC (external) writes one buffer of a frame; it reports errors in    *)
(* the last one.                                                             *)
NicReceive(eop, err) ==
  /\ rctlEn /\ rdh # rdt
  /\ nicFrag.pos = MaxFrags => eop
  /\ err => eop
  /\ descStat' = [descStat EXCEPT ![rdh] =
       [frame |-> nicFrag.frame, pos |-> nicFrag.pos, eop |-> eop,
        err |-> err]]
  /\ nicFrag' = IF eop THEN [frame |-> 1 - nicFrag.frame, pos |-> 1]
                       ELSE [nicFrag EXCEPT !.pos = @ + 1]
  /\ rdh' = Next1(rdh)
  /\ UNCHANGED <<confVars, rxBuf, phyAddr, descAddr, idxVars, chain, wl, rdt,
                 rctlEn, upstream, delivered>>

(* The network stack (external) frees a buffer it was handed.               *)
StackFree(b) ==
  /\ b \in upstream
  /\ upstream' = upstream \ {b}
  /\ UNCHANGED <<confVars, ringVars, idxVars, chain, wl, nicVars, delivered>>

-----------------------------------------------------------------------------
(* rxInterrupt and rxInterruptVTD.                                           *)

RxBegin ==
  /\ wl = "idle"
  /\ wl' = "rx"
  /\ UNCHANGED <<confVars, ringVars, idxVars, chain, nicVars, upstream,
                 delivered>>

(* nextDesc: rxInterrupt gives the descriptor its address back and counts   *)
(* it; rxInterruptVTD leaves it written back and counts full batches.        *)
NextDesc(addr) ==
  /\ IF useAppleVTD
       THEN /\ rxCleanedCount' =
                 IF Next1(rxNextDescIndex) % BatchSize = 0
                   THEN rxCleanedCount + 1 ELSE rxCleanedCount
            /\ UNCHANGED <<descAddr, descStat>>
       ELSE /\ rxCleanedCount' = rxCleanedCount + 1
            /\ descAddr' = [descAddr EXCEPT ![rxNextDescIndex] = addr]
            /\ descStat' = [descStat EXCEPT ![rxNextDescIndex] = NoFrag]
  /\ rxNextDescIndex' = Next1(rxNextDescIndex)
  /\ UNCHANGED <<confVars, rxMapNextIndex, wl, nicVars>>

(* Mutant of RxBad: the fragments before the bad one are kept.              *)
RxBadKeep ==
  /\ wl = "rx" /\ Done(rxNextDescIndex)
  /\ UNCHANGED <<rxBuf, phyAddr, chain, upstream, delivered>>
  /\ NextDesc(phyAddr[rxNextDescIndex])

(* A bad packet, or no memory for its replacement: the buffer stays, and    *)
(* the fragments joined so far are discarded.                                *)
RxBad ==
  /\ wl = "rx" /\ Done(rxNextDescIndex)
  /\ chain' = <<>>
  /\ UNCHANGED <<rxBuf, phyAddr, upstream, delivered>>
  /\ NextDesc(phyAddr[rxNextDescIndex])

(* The fragment in the buffer b, or in a copy of it, joins the packet; the  *)
(* last one hands it up.                                                     *)
Join(frag, b) ==
  LET joined == Append(chain, [frame |-> frag.frame, pos |-> frag.pos,
                               eop |-> frag.eop, buf |-> b])
  IN  IF frag.eop
        THEN /\ delivered' = [k \in 1 .. Len(joined) |->
                                [joined[k] EXCEPT !.buf = NoBuf]]
             /\ upstream' = (upstream \cup ChainBufs \cup {b}) \ {NoBuf}
             /\ chain' = <<>>
        ELSE chain' = joined /\ UNCHANGED <<delivered, upstream>>

(* Mutant of RxReplace: the new buffer is not remembered.                   *)
RxReplaceForgotten(b) ==
  LET i == rxNextDescIndex IN
  /\ wl = "rx" /\ Done(i) /\ ~descStat[i].err
  /\ b \in Buf \ InUse
  /\ phyAddr' = [phyAddr EXCEPT ![i] = IF useAppleVTD THEN NoBuf ELSE b]
  /\ Join(descStat[i], rxBuf[i])
  /\ NextDesc(b)
  /\ UNCHANGED rxBuf

(* A large fragment: its buffer is replaced by b and handed up.  With       *)
(* AppleVTD the address of b is known only after its batch was mapped.       *)
RxReplace(b) ==
  LET i == rxNextDescIndex IN
  /\ wl = "rx" /\ Done(i) /\ ~descStat[i].err
  /\ b \in Buf \ InUse
  /\ rxBuf' = [rxBuf EXCEPT ![i] = b]
  /\ phyAddr' = [phyAddr EXCEPT ![i] = IF useAppleVTD THEN NoBuf ELSE b]
  /\ Join(descStat[i], rxBuf[i])
  /\ NextDesc(b)

(* A fragment of at most maxCopySize bytes, hence the last one: copied.     *)
RxCopy ==
  LET i == rxNextDescIndex IN
  /\ wl = "rx" /\ Done(i) /\ ~descStat[i].err /\ descStat[i].eop
  /\ Join(descStat[i], NoBuf)
  /\ UNCHANGED <<rxBuf, phyAddr>>
  /\ NextDesc(phyAddr[i])

(* The loop ends at a descriptor that is not done, or at the poller's quota.*)
RxEnd ==
  /\ wl = "rx"
  /\ wl' = "tail"
  /\ delivered' = <<>>
  /\ UNCHANGED <<confVars, ringVars, idxVars, chain, nicVars, upstream>>

(* The write of RDT goes through, or the ME firmware makes it go astray and *)
(* it is noticed (RCTL.EN off; the watchdog will restart the NIC) or not.    *)
WriteRdt(index) ==
  \/ rdt' = index /\ UNCHANGED rctlEn
  \/ arbiterWA /\ UNCHANGED rdt /\ rctlEn' \in {rctlEn, FALSE}

(* Mutant of UpdateTail: the tail may reach the head.                       *)
UpdateTailToHead ==
  /\ wl = "tail" /\ ~useAppleVTD
  /\ WriteRdt(rxNextDescIndex)
  /\ rxCleanedCount' = 0
  /\ wl' = "idle"
  /\ UNCHANGED <<confVars, ringVars, rxNextDescIndex, rxMapNextIndex, chain,
                 rdh, nicFrag, upstream, delivered>>

UpdateTail ==
  /\ wl = "tail" /\ ~useAppleVTD
  /\ IF rxCleanedCount >= BatchSize
       THEN /\ WriteRdt((rxNextDescIndex - 1) % NumRxDesc)
            /\ rxCleanedCount' = 0
       ELSE UNCHANGED <<rdt, rctlEn, rxCleanedCount>>
  /\ wl' = "idle"
  /\ UNCHANGED <<confVars, ringVars, rxNextDescIndex, rxMapNextIndex, chain,
                 rdh, nicFrag, upstream, delivered>>

(* rxMapBuffers for the slots of s: new addresses, fresh descriptors.        *)
MapSlots(s) ==
  /\ phyAddr'  = [i \in Slots |-> IF i \in s THEN rxBuf[i] ELSE phyAddr[i]]
  /\ descAddr' = [i \in Slots |-> IF i \in s THEN rxBuf[i] ELSE descAddr[i]]
  /\ descStat' = [i \in Slots |-> IF i \in s THEN NoFrag ELSE descStat[i]]

(* Mutant of MapBatch: only the replaced buffers' descriptors are refreshed.*)
MapBatchReplacedOnly ==
  /\ wl = "tail" /\ useAppleVTD /\ rxCleanedCount > 0
  /\ MapSlots({i \in Batch(rxMapNextIndex) : phyAddr[i] = NoBuf})
  /\ WriteRdt(rxMapNextIndex + BatchSize - 1)
  /\ rxMapNextIndex' = (rxMapNextIndex + BatchSize) % NumRxDesc
  /\ rxCleanedCount' = rxCleanedCount - 1
  /\ UNCHANGED <<confVars, rxBuf, rxNextDescIndex, chain, wl, rdh, nicFrag,
                 upstream, delivered>>

(* One round of rxMapBuffers: the next batch is unmapped, mapped with its   *)
(* replaced buffers and given to the NIC.  rxCleanedCount stands for the    *)
(* local count of rounds.                                                    *)
MapBatch ==
  /\ wl = "tail" /\ useAppleVTD /\ rxCleanedCount > 0
  /\ MapSlots(Batch(rxMapNextIndex))
  /\ WriteRdt(rxMapNextIndex + BatchSize - 1)
  /\ rxMapNextIndex' = (rxMapNextIndex + BatchSize) % NumRxDesc
  /\ rxCleanedCount' = rxCleanedCount - 1
  /\ UNCHANGED <<confVars, rxBuf, rxNextDescIndex, chain, wl, rdh, nicFrag,
                 upstream, delivered>>

(* No batch is left, or mapping one fails: the rest is forgotten.           *)
MapEnd ==
  /\ wl = "tail" /\ useAppleVTD
  /\ rxCleanedCount = 0 \/ MapMayFail
  /\ rxCleanedCount' = 0
  /\ wl' = "idle"
  /\ UNCHANGED <<confVars, ringVars, rxNextDescIndex, rxMapNextIndex, chain,
                 nicVars, upstream, delivered>>

-----------------------------------------------------------------------------
(* setLinkDown, disable: intelDown switches the receiver off ...            *)
StopNic ==
  /\ wl = "idle"
  /\ rctlEn' = FALSE
  /\ wl' = "stopped"
  /\ UNCHANGED <<confVars, ringVars, idxVars, chain, rdh, rdt, nicFrag,
                 upstream, delivered>>

(* ... a pch_spt whose rings hang gets its receiver enabled for a moment,    *)
(* with the ring as it was left ...                                         *)
FlushRxRing ==
  /\ wl \in {"idle", "stopped"}
  /\ rctlEn' = TRUE
  /\ wl' = "flush"
  /\ UNCHANGED <<confVars, ringVars, idxVars, chain, rdh, rdt, nicFrag,
                 upstream, delivered>>

(* ... the ring registers are clear after the reset, with which intelRestart *)
(* begins ...                                                               *)
ResetNic ==
  /\ wl \in {"idle", "stopped", "flush"}
  /\ rctlEn' = FALSE /\ rdh' = 0 /\ rdt' = 0
  /\ nicFrag' = [nicFrag EXCEPT !.pos = 1]
  /\ wl' = "clear"
  /\ UNCHANGED <<confVars, ringVars, idxVars, chain, upstream, delivered>>

(* ... clearDescriptors remaps all batches, or those before the first that  *)
(* fails, restores every descriptor and discards a fragment ...              *)
ClearDescriptors ==
  /\ wl = "clear"
  /\ \E s \in IF useAppleVTD /\ MapMayFail
                THEN {0 .. k * BatchSize - 1 :
                        k \in 0 .. NumRxDesc \div BatchSize}
                ELSE {Slots} :
       phyAddr' = [i \in Slots |-> IF useAppleVTD /\ i \in s THEN rxBuf[i]
                                                        ELSE phyAddr[i]]
  /\ descAddr' = phyAddr'
  /\ descStat' = [i \in Slots |-> NoFrag]
  /\ rxNextDescIndex' = 0 /\ rxCleanedCount' = 0 /\ rxMapNextIndex' = 0
  /\ chain' = <<>>
  /\ wl' = "configure"
  /\ UNCHANGED <<confVars, rxBuf, nicVars, upstream, delivered>>

(* ... intelInitRxRing gives all descriptors but the last to the NIC ...     *)
InitRxRing ==
  /\ wl = "configure"
  /\ rdh' = 0
  /\ WriteRdt(NumRxDesc - 1)
  /\ rxNextDescIndex' = 0 /\ rxCleanedCount' = 0 /\ rxMapNextIndex' = 0
  /\ wl' = "down"
  /\ UNCHANGED <<confVars, ringVars, chain, nicFrag, upstream, delivered>>

(* ... and setLinkUp enables the receiver.                                   *)
SetLinkUp ==
  /\ wl = "down"
  /\ rctlEn' = TRUE
  /\ wl' = "idle"
  /\ UNCHANGED <<confVars, ringVars, idxVars, chain, rdh, rdt, nicFrag,
                 upstream, delivered>>

Nic == \E eop, err \in BOOLEAN : NicReceive(eop, err)

RxInterrupt ==
  \/ RxBegin \/ RxBad \/ \E b \in Buf : RxReplace(b)
  \/ RxCopy \/ RxEnd \/ UpdateTail \/ MapBatch \/ MapEnd

Handlers ==
  \/ StopNic \/ FlushRxRing \/ ResetNic \/ ClearDescriptors \/ InitRxRing \/ SetLinkUp

Next == Nic \/ \E b \in Buf : StackFree(b) \/ RxInterrupt \/ Handlers

Spec == Init /\ [][Next]_vars

(* The driver from its first restart on.                                     *)
SpecCleared == InitCleared /\ [][Next]_vars

-----------------------------------------------------------------------------
(* Properties.                                                              *)

ChainFrag == [frame : {0, 1}, pos : 1 .. MaxFrags, eop : BOOLEAN,
              buf : Buf \cup {NoBuf}]

TypeOK ==
  /\ useAppleVTD \in BOOLEAN /\ arbiterWA \in BOOLEAN
  /\ rxBuf \in [Slots -> Buf] /\ phyAddr \in [Slots -> Buf \cup {NoBuf}]
  /\ descAddr \in [Slots -> Buf \cup {NoBuf}]
  /\ descStat \in [Slots -> Frag \cup {NoFrag}]
  /\ rxNextDescIndex \in Slots /\ rxMapNextIndex \in Slots
  /\ rxCleanedCount \in 0 .. NumRxDesc
  /\ chain \in Seq(ChainFrag) /\ delivered \in Seq(ChainFrag)
  /\ wl \in {"down", "idle", "rx", "tail", "stopped", "flush", "clear", "configure"}
  /\ rdh \in Slots /\ rdt \in Slots /\ rctlEn \in BOOLEAN
  /\ upstream \subseteq Buf

Between(a, i, b) == IF a <= b THEN a <= i /\ i < b ELSE a <= i \/ i < b

(* A descriptor the NIC may fill has been processed, is fresh, and points   *)
(* to the buffer of its slot: the NIC never writes into a packet that was   *)
(* handed up, nor over one that was not looked at yet.                       *)
NicOwnsFresh ==
  rctlEn => \A i \in Slots : Between(rdh, i, rdt) =>
              ~Done(i) /\ descAddr[i] = rxBuf[i] /\ phyAddr[i] = rxBuf[i]

(* A buffer is in one place: a slot, the packet being joined or the network *)
(* stack.  It is never handed up twice nor freed twice.                      *)
BufferOnce ==
  /\ \A i, j \in Slots : i # j => rxBuf[i] # rxBuf[j]
  /\ \A k, l \in 1 .. Len(chain) :
       k # l /\ chain[k].buf # NoBuf => chain[k].buf # chain[l].buf
  /\ {rxBuf[i] : i \in Slots} \cap (ChainBufs \cup upstream) = {}
  /\ ChainBufs \cap upstream = {}

(* A packet handed up consists of fragments of one frame, in order and      *)
(* without a gap, up to its last one.                                        *)
NoMixedFrames ==
  \A k \in 1 .. Len(delivered) :
    /\ delivered[k].eop <=> k = Len(delivered)
    /\ k > 1 => /\ delivered[k].frame = delivered[k - 1].frame
                /\ delivered[k].pos = delivered[k - 1].pos + 1

(* "Prevent the tail from reaching the head in order to avoid a false       *)
(* buffer queue full condition.": when rxInterrupt has nothing to do the    *)
(* NIC has a descriptor to fill.  A swallowed write of RDT is excepted: the  *)
(* NIC is short of descriptors until the next one, or the restart.           *)
NicNotStarved ==
  (~arbiterWA /\ wl = "idle" /\ rctlEn /\ ~Done(rxNextDescIndex)) => rdh # rdt
=============================================================================
