------------------------------- MODULE TxMap -------------------------------
(***************************************************************************)
(* DMA mappings of transmit packets (AppleVTD).                             *)
(*                                                                         *)
(* With an IOMMU outputStart maps each packet through one of the            *)
(* IOMemoryDescriptors txMemIO[], taken in ring order; txInterrupt completes*)
(* the mappings in the same order, one per packet it frees.  Which mapping  *)
(* belongs to which packet is written down nowhere: it follows from the two *)
(* indexes txNextMem2Use and txNextMem2Free keeping step with the packets.  *)
(* The memory descriptor refers to its address ranges, which lie in         *)
(* txMemRange[] from the packet's first ring index on.                       *)
(*                                                                         *)
(* Two kinds of packets break that step: one posted without a mapping,       *)
(* because a single memory descriptor is left, and one txInterrupt never     *)
(* sees, a TSO packet of one segment (see TxRing).  From then on a wrong     *)
(* mapping is completed for each packet, until everything is cleared.        *)
(***************************************************************************)
EXTENDS Integers, Sequences

CONSTANTS
  NumTxDesc,    (* kNumTxDesc.                                              *)
  NumMemDesc,   (* kNumTxMemDesc.                                           *)
  MaxSegs       (* kMaxSegs.                                                *)

ASSUME MapConstants ==
  /\ MaxSegs \in Nat \ {0} /\ NumTxDesc \in Nat /\ NumTxDesc > MaxSegs + 3
  /\ NumMemDesc \in Nat /\ NumMemDesc > 1

VARIABLES
  txNextDescIndex, txNumFreeDesc,
  txNextMem2Use, txNextMem2Free, txNumFreeMem,
  txMemIO,      (* The active memory descriptors: index -> ranges, or {}.   *)
  posted,       (* The packets of the ring, oldest first.                   *)
  sent,         (* How many of them the NIC has sent.                       *)
  pkt, outPc,   (* outputStart: the packet it maps, where it is             *)
  wlPc,         (* txInterrupt: where it is                                 *)
  unpaired      (* History: since everything was cleared last, a packet was *)
                (* posted that has no mapping or that is not recorded.      *)

memVars == <<txNextMem2Use, txNextMem2Free, txNumFreeMem, txMemIO>>
vars == <<txNextDescIndex, txNumFreeDesc, memVars, posted, sent, pkt, outPc,
          wlPc, unpaired>>

Mem  == 0 .. NumMemDesc - 1
Next1(i) == (i + 1) % NumMemDesc
Unmapped == NumMemDesc                     (* A packet without a mapping.   *)
NoPkt == [first |-> 0, segs |-> 0, descs |-> 0, mem |-> Unmapped, rec |-> TRUE]

(* The entries of txMemRange a packet's mapping refers to.                   *)
Ranges(p) == p.first .. p.first + p.segs - 1

Init ==
  /\ txNextDescIndex = 0 /\ txNumFreeDesc = NumTxDesc
  /\ txNextMem2Use = 0 /\ txNextMem2Free = 0 /\ txNumFreeMem = NumMemDesc
  /\ txMemIO = [k \in Mem |-> {}]
  /\ posted = <<>> /\ sent = 0
  /\ pkt = NoPkt /\ outPc = "idle" /\ wlPc = "idle" /\ unpaired = FALSE

-----------------------------------------------------------------------------
(* outputStart and txMapPacket.                                              *)

(* Enough descriptors are free; a packet of segs fragments is dequeued, with *)
(* a context descriptor or without one.  With one memory descriptor left it  *)
(* is not mapped, but posted all the same.                                   *)
MapBegin(segs, ctx, tso) ==
  /\ outPc = "idle" /\ wlPc # "clear"
  /\ txNumFreeDesc >= MaxSegs + 3
  /\ tso => ctx = 1
  /\ pkt' = [first |-> txNextDescIndex, segs |-> segs, descs |-> segs + ctx,
             mem |-> Unmapped, rec |-> ~(tso /\ segs = 1)]
  /\ outPc' = IF txNumFreeMem > 1 THEN "take" ELSE "post"
  /\ UNCHANGED <<txNextDescIndex, txNumFreeDesc, memVars, posted, sent, wlPc,
                 unpaired>>

(* A memory descriptor is taken.                                             *)
MapTake ==
  /\ outPc = "take"
  /\ txNumFreeMem' = txNumFreeMem - 1
  /\ pkt' = [pkt EXCEPT !.mem = txNextMem2Use]
  /\ txNextMem2Use' = Next1(txNextMem2Use)
  /\ outPc' = "prepare"
  /\ UNCHANGED <<txNextDescIndex, txNumFreeDesc, txNextMem2Free, txMemIO,
                 posted, sent, wlPc, unpaired>>

MapPrepare ==
  /\ outPc = "prepare"
  /\ txMemIO' = [txMemIO EXCEPT ![pkt.mem] = Ranges(pkt)]
  /\ outPc' = "post"
  /\ UNCHANGED <<txNextDescIndex, txNumFreeDesc, txNextMem2Use,
                 txNextMem2Free, txNumFreeMem, posted, sent, pkt, wlPc,
                 unpaired>>

(* Mutant of MapFail: the index is not put back.                            *)
MapFailKeepsIndex ==
  /\ outPc = "prepare"
  /\ txNumFreeMem' = txNumFreeMem + 1
  /\ pkt' = NoPkt /\ outPc' = "idle"
  /\ UNCHANGED <<txNextDescIndex, txNumFreeDesc, txNextMem2Use,
                 txNextMem2Free, txMemIO, posted, sent, wlPc, unpaired>>

(* error_map: it is put back, and the packet is dropped.                     *)
MapFail ==
  /\ outPc = "prepare"
  /\ txNextMem2Use' = pkt.mem
  /\ txNumFreeMem' = txNumFreeMem + 1
  /\ pkt' = NoPkt /\ outPc' = "idle"
  /\ UNCHANGED <<txNextDescIndex, txNumFreeDesc, txNextMem2Free, txMemIO,
                 posted, sent, wlPc, unpaired>>

(* The descriptors are filled and given to the NIC.                          *)
Post ==
  /\ outPc = "post"
  /\ txNumFreeDesc' = txNumFreeDesc - pkt.descs
  /\ txNextDescIndex' = (txNextDescIndex + pkt.descs) % NumTxDesc
  /\ posted' = Append(posted, pkt)
  /\ unpaired' = (unpaired \/ pkt.mem = Unmapped \/ ~pkt.rec)
  /\ pkt' = NoPkt /\ outPc' = "idle"
  /\ UNCHANGED <<memVars, sent, wlPc>>

(* The NIC (external) sends the next packet.                                 *)
NicSend ==
  /\ sent < Len(posted) /\ wlPc # "clear"
  /\ sent' = sent + 1
  /\ UNCHANGED <<txNextDescIndex, txNumFreeDesc, memVars, posted, pkt, outPc,
                 wlPc, unpaired>>

-----------------------------------------------------------------------------
(* txInterrupt and txUnmapPacket, for one packet the NIC has sent.           *)

(* Whose mapping is completed is not looked at.  (Completing a memory        *)
(* descriptor that was never allocated, a NULL call, is not modelled.)       *)
UnmapComplete ==
  /\ wlPc = "idle" /\ sent > 0 /\ posted[1].rec
  /\ txMemIO' = [txMemIO EXCEPT ![txNextMem2Free] = {}]
  /\ txNextMem2Free' = Next1(txNextMem2Free)
  /\ wlPc' = "count"
  /\ UNCHANGED <<txNextDescIndex, txNumFreeDesc, txNextMem2Use, txNumFreeMem,
                 posted, sent, pkt, outPc, unpaired>>

UnmapCount ==
  /\ wlPc = "count"
  /\ txNumFreeMem' = txNumFreeMem + 1
  /\ wlPc' = "free"
  /\ UNCHANGED <<txNextDescIndex, txNumFreeDesc, txNextMem2Use,
                 txNextMem2Free, txMemIO, posted, sent, pkt, outPc, unpaired>>

CleanFree ==
  /\ wlPc = "free"
  /\ txNumFreeDesc' = txNumFreeDesc + posted[1].descs
  /\ posted' = Tail(posted) /\ sent' = sent - 1
  /\ wlPc' = "idle"
  /\ UNCHANGED <<txNextDescIndex, memVars, pkt, outPc, unpaired>>

(* A packet that was not recorded: slots without an mbuf are passed over.    *)
CleanSkip ==
  /\ wlPc = "idle" /\ sent > 0 /\ ~posted[1].rec
  /\ posted' = Tail(posted) /\ sent' = sent - 1
  /\ UNCHANGED <<txNextDescIndex, txNumFreeDesc, memVars, pkt, outPc, wlPc,
                 unpaired>>

(* intelRestart, setLinkDown, disable: stopOutputThread waits for           *)
(* outputStart, the NIC is reset ...                                         *)
StopNic ==
  /\ wlPc = "idle" /\ outPc = "idle"
  /\ sent' = 0
  /\ wlPc' = "clear"
  /\ UNCHANGED <<txNextDescIndex, txNumFreeDesc, memVars, posted, pkt, outPc,
                 unpaired>>

(* Mutant of ClearDescriptors: the indexes are left where they are.         *)
ClearKeepsIndexes ==
  /\ wlPc = "clear"
  /\ txMemIO' = [k \in Mem |-> {}]
  /\ txNextMem2Use' = 0
  /\ txNumFreeMem' = NumMemDesc
  /\ posted' = <<>>
  /\ txNextDescIndex' = 0 /\ txNumFreeDesc' = NumTxDesc
  /\ wlPc' = "idle" /\ unpaired' = FALSE
  /\ UNCHANGED <<txNextMem2Free, sent, pkt, outPc>>

(* ... and clearDescriptors completes all active mappings.                   *)
ClearDescriptors ==
  /\ wlPc = "clear"
  /\ txMemIO' = [k \in Mem |-> {}]
  /\ txNextMem2Use' = 0 /\ txNextMem2Free' = 0
  /\ txNumFreeMem' = NumMemDesc
  /\ posted' = <<>>
  /\ txNextDescIndex' = 0 /\ txNumFreeDesc' = NumTxDesc
  /\ wlPc' = "idle" /\ unpaired' = FALSE
  /\ UNCHANGED <<sent, pkt, outPc>>

OutputStart ==
  \/ \E segs \in 1 .. MaxSegs, ctx \in {0, 1}, tso \in BOOLEAN :
       MapBegin(segs, ctx, tso)
  \/ MapTake \/ MapPrepare \/ MapFail \/ Post

TxInterrupt == UnmapComplete \/ UnmapCount \/ CleanFree \/ CleanSkip

Next ==
  OutputStart \/ NicSend \/ TxInterrupt \/ StopNic \/ ClearDescriptors

Spec == Init /\ [][Next]_vars

-----------------------------------------------------------------------------
(* Properties.                                                              *)

Packet == [first : 0 .. NumTxDesc - 1, segs : 0 .. MaxSegs,
           descs : 0 .. MaxSegs + 1, mem : 0 .. NumMemDesc, rec : BOOLEAN]

(* The counters drift once packets and mappings are out of step.             *)
TypeOK ==
  /\ txNextDescIndex \in 0 .. NumTxDesc - 1 /\ txNumFreeDesc \in Int
  /\ txNextMem2Use \in Mem /\ txNextMem2Free \in Mem /\ txNumFreeMem \in Int
  /\ txMemIO \in [Mem -> SUBSET Int]
  /\ posted \in Seq(Packet) /\ sent \in 0 .. Len(posted)
  /\ pkt \in Packet
  /\ outPc \in {"idle", "take", "prepare", "post"}
  /\ wlPc \in {"idle", "count", "free", "clear"}
  /\ unpaired \in BOOLEAN

(* "An IOMemoryDescriptor is used to map all segments for DMA access": until *)
(* a packet is posted that has no mapping or is not recorded, a packet's own *)
(* mapping is active as long as the NIC may read it.  And the first packet   *)
(* without a mapping comes when packets of the ring hold all memory          *)
(* descriptors but one: dropped packets, resets and the wraps of three rings *)
(* never make it come earlier.                                               *)
MappedWhileRead ==
  ~unpaired /\ wlPc # "clear" =>
    /\ \A k \in sent + 1 .. Len(posted) :
         /\ posted[k].mem # Unmapped
         /\ txMemIO[posted[k].mem] = Ranges(posted[k])
    /\ outPc = "idle" /\ txNumFreeMem <= 1 => Len(posted) >= NumMemDesc - 1

(* Until then the mapping txInterrupt completes is that of the packet it is  *)
(* about to free, and outputStart never writes address ranges that an active *)
(* mapping refers to, where either ring wraps.                               *)
UnmapsOwn ==
  ~unpaired =>
    /\ (wlPc = "idle" /\ posted # <<>>) => posted[1].mem = txNextMem2Free
    /\ outPc # "idle" =>
         \A k \in Mem : k # pkt.mem => txMemIO[k] \cap Ranges(pkt) = {}
=============================================================================
