------------------------------- MODULE TxRing -------------------------------
(***************************************************************************)
(* The transmit descriptor ring of IntelMausiEthernet, slot by slot.        *)
(*                                                                         *)
(* Three parties touch it without a common lock:                           *)
(*   - the output thread of the network interface runs outputStart, which  *)
(*     reserves descriptors, fills them and moves the tail register;       *)
(*   - the driver's work loop runs txInterrupt, and the handlers that stop *)
(*     the output thread and clear the ring (intelRestart, setLinkDown,    *)
(*     disable, enable);                                                   *)
(*   - the NIC consumes descriptors from its head register to its tail     *)
(*     register and writes the done bit back.                              *)
(* A fourth, the ME firmware, may make a write of the tail register go      *)
(* astray.  When the handlers run, and what the watchdog and the network    *)
(* family do, is the subject of TxService, which sees this ring as a FIFO   *)
(* of packets (TxFifo).                                                     *)
(***************************************************************************)
EXTENDS Integers

CONSTANTS
  NumTxDesc,     (* kNumTxDesc: slots of the ring.                         *)
  MaxSegs,       (* kMaxSegs: most data descriptors of one packet.         *)
  Mbuf,          (* The packets the network stack owns and recycles.       *)
  NoMbuf,        (* The NULL of an mbuf pointer.                           *)
  FlushRings     (* mac.type >= e1000_pch_spt: rings are flushed first.    *)

(* A packet needs at most MaxSegs data descriptors and one context          *)
(* descriptor, and outputStart leaves two more free.                        *)
Reserve == MaxSegs + 3

(* IntelMausiEthernet.h: 512 slots, 32 segments.                            *)
ASSUME TxConstants ==
  /\ NumTxDesc \in Nat /\ MaxSegs \in Nat \ {0}
  /\ Reserve <= NumTxDesc
  /\ NoMbuf \notin Mbuf
  /\ FlushRings \in BOOLEAN

VARIABLES
  held,                 (* Packets dequeued by the driver and not freed.   *)
  running,              (* isEnabled && linkUp && !forceReset.             *)
  txNextDescIndex, txDirtyIndex, txCleanBarrierIndex, txNumFreeDesc,
  txBufMbuf, txBufNum,  (* txBufArray[i].mbuf and .numDescs.                *)
  descBuf, descDone,    (* txDescArray[i]: the packet its address belongs  *)
                        (* to, and the DD bit.                              *)
  op, opMbuf, opIndex, opLeft, opTotal, opTso, opCount,  (* outputStart    *)
  wl, cleaned,          (* the handler the work loop is in, a local        *)
  tdh, tdt, tctlEn,     (* the NIC: head, tail and TCTL.EN registers       *)
  lost, lostAt, lostDescs  (* History, of the TSO packets in one segment,  *)
                        (* see LastOfLost: these packets, the slots where  *)
                        (* they end that txInterrupt has not yet passed,   *)
                        (* and the descriptors it has passed over for good *)

ringVars  == <<txNextDescIndex, txDirtyIndex, txCleanBarrierIndex,
               txNumFreeDesc>>
slotVars  == <<txBufMbuf, txBufNum, descBuf, descDone>>
opVars    == <<op, opMbuf, opIndex, opLeft, opTotal, opTso, opCount>>
wlVars    == <<wl, cleaned>>
nicVars   == <<tdh, tdt, tctlEn>>
lossVars  == <<lost, lostAt, lostDescs>>
vars == <<held, running, ringVars, slotVars, opVars, wlVars, nicVars,
          lossVars>>

Slots == 0 .. NumTxDesc - 1

(* Mutant of Next1: the mask is forgotten.                                   *)
Next1NoMask(i) == i + 1

(* ++index &= kTxDescMask, and (index + n) & kTxDescMask for n <= the size. *)
Next1(i)      == IF i = NumTxDesc - 1 THEN 0 ELSE i + 1
Advance(i, n) == IF i + n < NumTxDesc THEN i + n ELSE i + n - NumTxDesc

-----------------------------------------------------------------------------
(* The state after start(): the rings are allocated and zeroed, the         *)
(* interface is attached but not enabled.                                   *)

Init ==
  /\ held = {} /\ running = FALSE
  /\ txNextDescIndex = 0 /\ txDirtyIndex = 0 /\ txCleanBarrierIndex = 0
  /\ txNumFreeDesc = NumTxDesc
  /\ txBufMbuf = [i \in Slots |-> NoMbuf] /\ txBufNum = [i \in Slots |-> 0]
  /\ descBuf = [i \in Slots |-> NoMbuf] /\ descDone = [i \in Slots |-> FALSE]
  /\ op = "idle" /\ opMbuf = NoMbuf /\ opIndex = 0 /\ opLeft = 0
  /\ opTotal = 0 /\ opTso = FALSE /\ opCount = FALSE
  /\ wl = "off" /\ cleaned = 0
  /\ tdh = 0 /\ tdt = 0 /\ tctlEn = FALSE
  /\ lost = {} /\ lostAt = {} /\ lostDescs = 0

-----------------------------------------------------------------------------
(* outputStart, on the output thread.                                       *)

OutputBegin ==
  /\ op = "idle" /\ running
  /\ op' = "loop"
  /\ UNCHANGED <<held, running, ringVars, slotVars, opMbuf, opIndex, opLeft,
                 opTotal, opTso, opCount, wlVars, nicVars, lossVars>>

(* One dequeued packet of numDescs descriptors: OSAddAtomic takes them from *)
(* txNumFreeDesc and txNextDescIndex moves past them.  A packet that asks   *)
(* for TSO always has a context descriptor.                                  *)
OutputReserve(m, numDescs, tso) ==
  /\ op = "loop" /\ txNumFreeDesc >= Reserve
  /\ m \notin held
  /\ tso => numDescs >= 2
  /\ held' = held \cup {m}
  /\ txNumFreeDesc' = txNumFreeDesc - numDescs
  /\ txNextDescIndex' = Advance(txNextDescIndex, numDescs)
  /\ op' = "fill" /\ opMbuf' = m
  /\ opIndex' = txNextDescIndex /\ opLeft' = numDescs /\ opTotal' = numDescs
  /\ opTso' = tso
  /\ UNCHANGED <<running, txDirtyIndex, txCleanBarrierIndex, slotVars,
                 opCount, wlVars, nicVars, lossVars>>

(* The loop over the segments of a TSO packet asks for the first segment    *)
(* before it asks for the last one.  When there is only one, its descriptor *)
(* gets neither EOP nor RS and no record: the packet is lost to the driver.  *)
WillBeLost == opTso /\ opTotal = 2
LastOfLost == opLeft = 1 /\ WillBeLost

(* One descriptor of the packet, context descriptor included: only the last *)
(* one remembers the mbuf and the number of descriptors; writing the        *)
(* descriptor clears its done bit.  The locals are dead after the last one.  *)
OutputFill ==
  /\ op = "fill"
  /\ LET recorded == opLeft = 1 /\ ~LastOfLost
     IN  /\ txBufMbuf' = [txBufMbuf EXCEPT ![opIndex] =
                            IF recorded THEN opMbuf ELSE NoMbuf]
         /\ txBufNum'  = [txBufNum EXCEPT ![opIndex] =
                            IF recorded THEN opTotal ELSE 0]
  /\ descBuf'   = [descBuf EXCEPT ![opIndex] = opMbuf]
  /\ descDone'  = [descDone EXCEPT ![opIndex] = FALSE]
  /\ lost'   = IF LastOfLost THEN lost \cup {opMbuf} ELSE lost
  /\ lostAt' = IF LastOfLost THEN lostAt \cup {opIndex} ELSE lostAt
  /\ IF opLeft = 1
       THEN /\ op' = "loop" /\ opCount' = TRUE
            /\ opMbuf' = NoMbuf /\ opIndex' = 0 /\ opLeft' = 0
            /\ opTotal' = 0 /\ opTso' = FALSE
       ELSE /\ opIndex' = Next1(opIndex) /\ opLeft' = opLeft - 1
            /\ UNCHANGED <<op, opCount, opMbuf, opTotal, opTso>>
  /\ UNCHANGED <<held, running, ringVars, wlVars, nicVars, lostDescs>>

(* The loop ends when too few descriptors are free or the queue is empty.   *)
OutputLoopEnd ==
  /\ op = "loop"
  /\ op' = IF opCount THEN "tail" ELSE "idle"
  /\ UNCHANGED <<held, running, ringVars, slotVars, opMbuf, opIndex, opLeft,
                 opTotal, opTso, opCount, wlVars, nicVars, lossVars>>

(* intelUpdateTxDescTail writes TDT.  The write goes through; or the ME     *)
(* firmware makes it go astray and the driver, which reads the register     *)
(* back only after __ew32_prepare timed out, notices (TCTL.EN off and       *)
(* forceReset), or does not notice.                                          *)
WriteTail ==
  /\ op = "tail"
  /\ op' = "barrier"
  /\ \/ tdt' = txNextDescIndex /\ UNCHANGED <<tctlEn, running>>
     \/ tctlEn' = FALSE /\ running' = FALSE /\ UNCHANGED tdt
     \/ UNCHANGED <<tdt, tctlEn, running>>
  /\ UNCHANGED <<held, ringVars, slotVars, opMbuf, opIndex, opLeft, opTotal,
                 opTso, opCount, wlVars, tdh, lossVars>>

SetBarrier ==
  /\ op = "barrier"
  /\ txCleanBarrierIndex' = txNextDescIndex
  /\ op' = "idle" /\ opCount' = FALSE
  /\ UNCHANGED <<held, running, txNextDescIndex, txDirtyIndex, txNumFreeDesc,
                 slotVars, opMbuf, opIndex, opLeft, opTotal, opTso, wlVars,
                 nicVars, lossVars>>

OutputThread ==
  \/ OutputBegin
  \/ \E m \in Mbuf, n \in 1 .. MaxSegs + 1, tso \in BOOLEAN :
       OutputReserve(m, n, tso)
  \/ OutputFill \/ OutputLoopEnd \/ WriteTail \/ SetBarrier

-----------------------------------------------------------------------------
(* The NIC (external): it sends the descriptors from head to tail and       *)
(* writes DD back.  DD is read only in the last descriptor of a packet, the *)
(* one that asks for it with RS, so setting it in each of them is harmless. *)
NicProcess ==
  /\ tctlEn /\ tdh # tdt
  /\ descDone' = [descDone EXCEPT ![tdh] = TRUE]
  /\ tdh' = Next1(tdh)
  /\ UNCHANGED <<held, running, ringVars, txBufMbuf, txBufNum, descBuf,
                 opVars, wlVars, tdt, tctlEn, lossVars>>

-----------------------------------------------------------------------------
(* txInterrupt, on the work loop: called by the interrupt handler, the      *)
(* poller and the watchdog.                                                  *)

TxInterrupt ==
  /\ wl = "idle"
  /\ wl' = "scan"
  /\ UNCHANGED <<held, running, ringVars, slotVars, opVars, cleaned, nicVars,
                 lossVars>>

(* Slots without a record are passed over, also those of a lost packet,     *)
(* whose two descriptors are never given back.                               *)
CleanSkip ==
  /\ wl = "scan" /\ txDirtyIndex # txCleanBarrierIndex
  /\ txBufMbuf[txDirtyIndex] = NoMbuf
  /\ txDirtyIndex' = Next1(txDirtyIndex)
  /\ lostAt' = lostAt \ {txDirtyIndex}
  /\ lostDescs' = IF txDirtyIndex \in lostAt THEN lostDescs + 2 ELSE lostDescs
  /\ UNCHANGED <<held, running, txNextDescIndex, txCleanBarrierIndex,
                 txNumFreeDesc, slotVars, opVars, wlVars, nicVars, lost>>

(* Mutant of CleanFree: the done bit is not looked at.                      *)
CleanFreeUndone ==
  /\ wl = "scan" /\ txDirtyIndex # txCleanBarrierIndex
  /\ txBufMbuf[txDirtyIndex] # NoMbuf
  /\ held' = held \ {txBufMbuf[txDirtyIndex]}
  /\ txBufMbuf' = [txBufMbuf EXCEPT ![txDirtyIndex] = NoMbuf]
  /\ txBufNum'  = [txBufNum EXCEPT ![txDirtyIndex] = 0]
  /\ cleaned' = txBufNum[txDirtyIndex]
  /\ wl' = "count"
  /\ UNCHANGED <<running, ringVars, descBuf, descDone, opVars, nicVars,
                 lossVars>>

(* The packet is done: free its mbuf and clear the buffer info ...          *)
CleanFree ==
  /\ wl = "scan" /\ txDirtyIndex # txCleanBarrierIndex
  /\ txBufMbuf[txDirtyIndex] # NoMbuf /\ descDone[txDirtyIndex]
  /\ held' = held \ {txBufMbuf[txDirtyIndex]}
  /\ txBufMbuf' = [txBufMbuf EXCEPT ![txDirtyIndex] = NoMbuf]
  /\ txBufNum'  = [txBufNum EXCEPT ![txDirtyIndex] = 0]
  /\ cleaned' = txBufNum[txDirtyIndex]
  /\ wl' = "count"
  /\ UNCHANGED <<running, ringVars, descBuf, descDone, opVars, nicVars,
                 lossVars>>

(* Mutant of CleanCount: one descriptor per packet is given back.           *)
CleanCountOne ==
  /\ wl = "count"
  /\ txNumFreeDesc' = txNumFreeDesc + 1
  /\ txDirtyIndex' = Next1(txDirtyIndex)
  /\ cleaned' = 0
  /\ wl' = "scan"
  /\ UNCHANGED <<held, running, txNextDescIndex, txCleanBarrierIndex,
                 slotVars, opVars, nicVars, lossVars>>

(* ... then give its descriptors back with OSAddAtomic.                     *)
CleanCount ==
  /\ wl = "count"
  /\ txNumFreeDesc' = txNumFreeDesc + cleaned
  /\ txDirtyIndex' = Next1(txDirtyIndex)
  /\ cleaned' = 0
  /\ wl' = "scan"
  /\ UNCHANGED <<held, running, txNextDescIndex, txCleanBarrierIndex,
                 slotVars, opVars, nicVars, lossVars>>

CleanEnd ==
  /\ wl = "scan"
  /\ \/ txDirtyIndex = txCleanBarrierIndex
     \/ txBufMbuf[txDirtyIndex] # NoMbuf /\ ~descDone[txDirtyIndex]
  /\ wl' = "idle"
  /\ UNCHANGED <<held, running, ringVars, slotVars, opVars, cleaned, nicVars,
                 lossVars>>

-----------------------------------------------------------------------------
(* The handlers that reset the ring.  Each runs on the work loop to its end *)
(* without another handler in between.                                       *)

(* stopOutputThread waits until outputStart has returned; linkUp, or        *)
(* isEnabled in disable, is cleared.                                         *)
StopOutput ==
  /\ wl = "idle" /\ op = "idle"
  /\ running' = FALSE
  /\ wl' = "quiesce"
  /\ UNCHANGED <<held, ringVars, slotVars, opVars, cleaned, nicVars,
                 lossVars>>

FlushNeeded == FlushRings /\ tdh # tdt

(* intelFlushTxRing (I219, whose configuration space asks for it while      *)
(* descriptors are pending): one dummy descriptor, whose data is the ring   *)
(* itself, goes into the next slot and transmission is switched on to drain *)
(* the ring.  When TDT is not where the driver left it, transmission is     *)
(* only switched on.                                                         *)
FlushTxRing ==
  /\ wl = "quiesce" /\ FlushNeeded
  /\ tctlEn' = TRUE
  /\ IF tdt = txNextDescIndex
       THEN /\ txNumFreeDesc' = txNumFreeDesc - 1
            /\ txNextDescIndex' = Next1(txNextDescIndex)
            /\ descBuf' = [descBuf EXCEPT ![txNextDescIndex] = NoMbuf]
            /\ descDone' = [descDone EXCEPT ![txNextDescIndex] = FALSE]
            /\ tdt' = Next1(txNextDescIndex)
       ELSE UNCHANGED <<txNumFreeDesc, txNextDescIndex, descBuf, descDone,
                        tdt>>
  /\ wl' = "flushed"
  /\ UNCHANGED <<held, running, txDirtyIndex, txCleanBarrierIndex, txBufMbuf,
                 txBufNum, opVars, cleaned, tdh, lossVars>>

(* intelReset stops the NIC and clears its ring registers.                  *)
ResetNic ==
  /\ \/ wl = "quiesce" /\ ~FlushNeeded
     \/ wl = "flushed"
  /\ tdh' = 0 /\ tdt' = 0 /\ tctlEn' = FALSE
  /\ wl' = "clear"
  /\ UNCHANGED <<held, running, ringVars, slotVars, opVars, cleaned,
                 lossVars>>

(* disable with Wake-on-LAN calls intelDown(reset = false): TCTL.EN goes    *)
(* off and the NIC comes to rest; the 200 us wait after a flush is taken to *)
(* be enough to drain the ring.                                              *)
QuiesceForWake ==
  /\ \/ wl = "quiesce" /\ ~FlushNeeded /\ tctlEn' = FALSE
     \/ wl = "flushed" /\ tdh = tdt /\ UNCHANGED tctlEn
  /\ wl' = "clear"
  /\ UNCHANGED <<held, running, ringVars, slotVars, opVars, cleaned, tdh,
                 tdt, lossVars>>

(* Mutant of ClearDescriptors: the freed packets stay in the slots.         *)
ClearKeepsSlots ==
  /\ wl = "clear"
  /\ held' = held \ {txBufMbuf[i] : i \in Slots}
  /\ txNextDescIndex' = 0 /\ txDirtyIndex' = 0 /\ txCleanBarrierIndex' = 0
  /\ txNumFreeDesc' = NumTxDesc
  /\ lostAt' = {} /\ lostDescs' = 0
  /\ wl' = "off"
  /\ UNCHANGED <<running, slotVars, opVars, cleaned, nicVars, lost>>

(* clearDescriptors frees every packet the slots record and starts the ring *)
(* over; a lost packet stays allocated for ever.  disable ends here.         *)
ClearDescriptors ==
  /\ wl = "clear"
  /\ held' = held \ {txBufMbuf[i] : i \in Slots}
  /\ txBufMbuf' = [i \in Slots |-> NoMbuf]
  /\ txBufNum'  = [i \in Slots |-> 0]
  /\ txNextDescIndex' = 0 /\ txDirtyIndex' = 0 /\ txCleanBarrierIndex' = 0
  /\ txNumFreeDesc' = NumTxDesc
  /\ lostAt' = {} /\ lostDescs' = 0
  /\ wl' = "off"
  /\ UNCHANGED <<running, descBuf, descDone, opVars, cleaned, nicVars, lost>>

(* intelConfigure (setLinkDown, intelRestart) or enable, which resets the   *)
(* NIC first: intelInitTxRing.                                               *)
InitTxRing ==
  /\ wl = "off"
  /\ tdh' = 0 /\ tdt' = 0 /\ tctlEn' = FALSE
  /\ txNextDescIndex' = 0 /\ txDirtyIndex' = 0 /\ txCleanBarrierIndex' = 0
  /\ txNumFreeDesc' = NumTxDesc
  /\ wl' = "down"
  /\ UNCHANGED <<held, running, slotVars, opVars, cleaned, lossVars>>

(* setLinkUp enables the transmitter and starts the output thread.          *)
SetLinkUp ==
  /\ wl = "down"
  /\ tctlEn' = TRUE /\ running' = TRUE
  /\ wl' = "idle"
  /\ UNCHANGED <<held, ringVars, slotVars, opVars, cleaned, tdh, tdt,
                 lossVars>>

(* rxInterrupt: the write of RDT went astray and was noticed: forceReset.   *)
RxTailAstray ==
  /\ wl = "idle" /\ running
  /\ running' = FALSE
  /\ UNCHANGED <<held, ringVars, slotVars, opVars, wlVars, nicVars, lossVars>>

WorkLoop ==
  \/ TxInterrupt \/ CleanSkip \/ CleanFree \/ CleanCount \/ CleanEnd
  \/ StopOutput \/ FlushTxRing \/ ResetNic \/ QuiesceForWake
  \/ ClearDescriptors \/ InitTxRing \/ SetLinkUp \/ RxTailAstray

Next == OutputThread \/ NicProcess \/ WorkLoop

Spec == Init /\ [][Next]_vars

-----------------------------------------------------------------------------
(* Properties.                                                              *)

RingType ==
  /\ txNextDescIndex \in Slots /\ txDirtyIndex \in Slots
  /\ txCleanBarrierIndex \in Slots
  /\ txNumFreeDesc \in Int
  /\ tdh \in Slots /\ tdt \in Slots

SlotType ==
  /\ txBufMbuf \in [Slots -> Mbuf \cup {NoMbuf}]
  /\ txBufNum \in [Slots -> 0 .. MaxSegs + 1]
  /\ descBuf \in [Slots -> Mbuf \cup {NoMbuf}]
  /\ descDone \in [Slots -> BOOLEAN]

OutputType ==
  /\ op \in {"idle", "loop", "fill", "tail", "barrier"}
  /\ opMbuf \in Mbuf \cup {NoMbuf} /\ opIndex \in Slots
  /\ opLeft \in 0 .. MaxSegs + 1 /\ opTotal \in 0 .. MaxSegs + 1
  /\ opTso \in BOOLEAN
  /\ (op = "fill" => opLeft > 0 /\ opMbuf \in Mbuf)
  /\ opCount \in BOOLEAN

WorkLoopType ==
  /\ held \subseteq Mbuf /\ running \in BOOLEAN /\ tctlEn \in BOOLEAN
  /\ wl \in {"off", "down", "idle", "scan", "count", "quiesce", "flushed",
             "clear"}
  /\ cleaned \in 0 .. MaxSegs + 1

LossType == lost \subseteq Mbuf /\ lostAt \subseteq Slots /\ lostDescs \in Nat

TypeOK == RingType /\ SlotType /\ OutputType /\ WorkLoopType /\ LossType

(* i lies in the part of the ring that starts at a and ends before b.       *)
Between(a, i, b) == IF a <= b THEN a <= i /\ i < b ELSE a <= i \/ i < b

(* outputStart overwrites only a slot whose packet has been freed and that  *)
(* the NIC has left.                                                         *)
NoOverrun ==
  op = "fill" => /\ txBufMbuf[opIndex] = NoMbuf
                 /\ ~Between(tdh, opIndex, tdt)

(* The free count never runs out, not even for the dummy descriptor of      *)
(* intelFlushTxRing: equal indexes always mean an empty ring.                *)
RingNeverFull == txNumFreeDesc >= 1

(* Every descriptor the NIC may still fetch belongs to a packet that has    *)
(* not been freed: txInterrupt and clearDescriptors never free a packet     *)
(* under the NIC's feet.                                                     *)
NicReadsHeld ==
  tctlEn => \A i \in Slots :
              Between(tdh, i, tdt) => descBuf[i] \in held \cup {NoMbuf}

(* Every packet the driver holds sits in exactly one slot of the ring or in *)
(* outputStart's hands, or is one of the TSO packets in one segment that    *)
(* outputStart forgot: no other one is leaked, none will be freed twice.     *)
NoLeak ==
  /\ held = (({txBufMbuf[i] : i \in Slots} \cup {opMbuf}) \ {NoMbuf})
              \cup lost
  /\ \A i \in Slots : txBufMbuf[i] # NoMbuf =>
       /\ txBufMbuf[i] # opMbuf /\ txBufMbuf[i] \notin lost
       /\ \A j \in Slots : txBufMbuf[j] = txBufMbuf[i] => j = i

(* With nothing in the ring every descriptor is free again except those of  *)
(* forgotten packets, two for each: the counts that two threads add and     *)
(* subtract without a lock drift for no other reason.                        *)
NoDescriptorLeak ==
  (held = lost /\ lostAt = {} /\ wl \notin {"count", "flushed", "clear"}) =>
     txNumFreeDesc = NumTxDesc - lostDescs

(* Without a link the ring is empty, so a new link or enable() may reset    *)
(* the indexes without freeing anything.                                     *)
LinkDownRingEmpty == wl \in {"off", "down"} => held = lost
=============================================================================
