------------------------------- MODULE Resources -------------------------------
(***************************************************************************)
(* What start() acquires, what its error paths give back, and what stop()    *)
(* and free() release.                                                      *)
(*                                                                         *)
(* A driver object is a record: the references it owns (held), the members   *)
(* that are not NULL (ptr), what it released without owning it (over), the   *)
(* label it left for (at, "" if there was no error) and result.              *)
(***************************************************************************)
EXTENDS Integers, Sequences, FiniteSets

New == [held |-> {}, ptr |-> {}, over |-> {}, at |-> "", result |-> TRUE]

Get(s, rs) == [s EXCEPT !.held = @ \cup rs, !.ptr = @ \cup rs]

(* x->release() without a test, x stays.                                    *)
ReleaseOnly(s, rs) == [s EXCEPT !.held = @ \ rs, !.over = @ \cup (rs \ s.held)]
(* ... x = NULL.                                                            *)
Give(s, rs) == [ReleaseOnly(s, rs) EXCEPT !.ptr = @ \ rs]
(* RELEASE(x), and what is released under if (x).                           *)
RELEASE(s, rs) == Give(s, rs \cap s.ptr)

(***************************************************************************)
(* A set-up function is the sequence of what it acquires, with the label it  *)
(* goes to when that fails, and the sequence of its labels, with what is     *)
(* given back from there on.  part is held already when the step fails.      *)
(***************************************************************************)
Need(get, label) == [get |-> {get}, label |-> label, part |-> {}]
NeedAll(get, label) == [get |-> {get}, label |-> label, part |-> {get}]
Check(label) == [get |-> {}, label |-> label, part |-> {}]
Label(name, gives) == [name |-> name, gives |-> gives]

From(labels, name) ==
  UNION {labels[j].gives : j \in {k \in DOMAIN labels :
    \E i \in 1 .. k : labels[i].name = name}}

Done(s, steps) == Get(s, UNION {steps[k].get : k \in DOMAIN steps})
FailsAt(s, steps, labels, i) ==
  Give(Get(s, steps[i].part \cup UNION {steps[k].get : k \in 1 .. i - 1}),
       From(labels, steps[i].label))

SetUp(s, steps, labels, error) ==
  {Done(s, steps)} \cup
  {[FailsAt(s, steps, labels, i) EXCEPT !.at = error] : i \in DOMAIN steps}

(* if (!f()) goto error;                                                    *)
Then(S, Op(_)) == UNION {IF s.at = "" THEN Op(s) ELSE {s} : s \in S}

(***************************************************************************)
(* setupRxResources(), setupRxMap(), MausiRxPool and their release.          *)
(***************************************************************************)
RxResources == {"rxArray", "rxDesc", "rxPrepared", "rxDma", "rxDmaSet", "rxPool", "rxBufs", "rxMap"}

(* setupRxMap() undoes its own mappings before error_rx_buf; the pool gives  *)
(* its packets back if it cannot be filled.                                 *)
RxSteps(vtd) ==
  <<Need("rxArray", "done"), Need("rxDesc", "error_rx_desc"), Need("rxPrepared", "error_rx_prep"),
    Need("rxDma", "error_rx_dma"), Need("rxDmaSet", "error_rx_set"), Check("error_rx_seg"),
    Need("rxPool", "error_rx_pool"), NeedAll("rxBufs", "error_rx_buf")>>
  \o (IF vtd THEN <<Need("rxMap", "error_rx_buf")>> ELSE <<>>)

(* Mutant of RxLabels: the buffers stay when one is missing.                *)
RxLabelsNoBufs ==
  <<Label("error_rx_buf", {"rxPool"}), Label("error_rx_pool", {}),
    Label("error_rx_seg", {"rxDmaSet"}), Label("error_rx_set", {"rxDma"}),
    Label("error_rx_dma", {"rxPrepared"}), Label("error_rx_prep", {"rxDesc"}),
    Label("error_rx_desc", {"rxArray"}), Label("done", {})>>

RxLabels ==
  <<Label("error_rx_buf", {"rxBufs", "rxPool"}), Label("error_rx_pool", {}),
    Label("error_rx_seg", {"rxDmaSet"}), Label("error_rx_set", {"rxDma"}),
    Label("error_rx_dma", {"rxPrepared"}), Label("error_rx_prep", {"rxDesc"}),
    Label("error_rx_desc", {"rxArray"}), Label("done", {})>>

SetupRxResources(s, vtd) == SetUp(s, RxSteps(vtd), RxLabels, "error_rx_dma")
(* Buffers are found in rxBufArray only.                                     *)
FreeRxResources(s, vtd) ==
  RELEASE(s, RxResources \ ((IF vtd THEN {} ELSE {"rxMap"})
                            \cup (IF "rxArray" \in s.ptr THEN {} ELSE {"rxBufs"})))

(***************************************************************************)
(* setupTxResources() and freeTxResources().                               *)
(***************************************************************************)
TxResources == {"txArray", "txDesc", "txPrepared", "txDma", "txDmaSet", "txMap", "txCursor"}

TxSteps(vtd) ==
  <<Need("txArray", "done"), Need("txDesc", "error_tx_buf"), Need("txPrepared", "error_tx_prep"),
    Need("txDma", "error_tx_dma"), Need("txDmaSet", "error_tx_set"), Check("error_tx_seg"),
    Need(IF vtd THEN "txMap" ELSE "txCursor", "error_tx_seg")>>

TxLabels ==
  <<Label("error_tx_seg", {"txDmaSet"}), Label("error_tx_set", {"txDma"}),
    Label("error_tx_dma", {"txPrepared"}), Label("error_tx_prep", {"txDesc"}),
    Label("error_tx_buf", {"txArray"}), Label("done", {})>>

SetupTxResources(s, vtd) == SetUp(s, TxSteps(vtd), TxLabels, "error_tx_dma")
FreeTxResources(s, vtd) == RELEASE(s, IF vtd THEN TxResources ELSE TxResources \ {"txMap"})

(***************************************************************************)
(* initEventSources(), initPCIConfigSpace(), setupMediumDict().             *)
(***************************************************************************)
InitEventSources(s) ==
  SetUp(s, <<Need("txQueue", "done"), Need("interruptSource", "error1"), Need("timerSource", "error2")>>,
        <<Label("error2", {"interruptSource"}), Label("error1", {"txQueue"}), Label("done", {})>>,
        "error_event")

(* Parts before pch_spt have their flash in a region of its own.            *)
InitPCIConfigSpace(s, flash) ==
  SetUp(s, <<Check("done"), Need("baseMap", "done")>>
             \o (IF flash THEN <<Need("flashMap", "error")>> ELSE <<>>),
        <<Label("error", {"baseMap"}), Label("done", {})>>, "error_gate")

(* A medium that cannot be added or published: the dictionary is released,   *)
(* the member still points to it.                                           *)
SetupMediumDict(s) ==
  LET dict == Get(s, {"mediumDict"})
  IN {dict, [ReleaseOnly(dict, {"mediumDict"}) EXCEPT !.at = "error_gate"]}

(***************************************************************************)
(* start(), stop(), free().                                                *)
(***************************************************************************)
(* The error labels of start(), in their order.                             *)
Unwind(s, vtd) ==
  LET event == IF s.at = "error_event" THEN FreeTxResources(s, vtd) ELSE s
      tx == IF s.at \in {"error_event", "error_tx_dma"} THEN FreeRxResources(event, vtd) ELSE event
      rx == IF s.at \in {"error_event", "error_tx_dma", "error_rx_dma"}
              THEN RELEASE(tx, {"commandGate"}) ELSE tx
      gate == IF s.at \in {"", "error_open", "done"} THEN rx ELSE Give(rx, {"open"})
  IN CASE s.at = "" -> Give(s, {"open"})
       [] s.at = "done" -> s
       [] OTHER -> Give(gate, {"pciDevice"})

(* configureInterface(), called by attachInterface(): without statistics, a  *)
(* pull model for output and polling of input there is no interface.         *)
ConfigureInterface(s) == {s, [s EXCEPT !.at = "error_event", !.result = FALSE]}
AttachInterface(s) == Then(ConfigureInterface(s), LAMBDA t : {Get(t, {"netif"})})

(* result is FALSE only when super::start() or attachInterface() failed.     *)
(* intelStart() ends with DRV_LOAD, which tells the firmware that the driver *)
(* has the adapter; no error label takes it back.                           *)
Start(s0, vtd, flash) ==
  LET try(s, get, error) == {Get(s, {get}), [s EXCEPT !.at = error]}
      super == {Get(s0, {"workLoop"}), [s0 EXCEPT !.at = "done", !.result = FALSE]}
      device(s) == try(s, "pciDevice", "done")
      open(s) == try(s, "open", "error_open")
      pci(s) == InitPCIConfigSpace(Get(s, {"mapper"}), flash)
      chip(s) == try(s, "DRV_LOAD", "error_gate")
      gate(s) == try(s, "commandGate", "error_gate")
      rx(s) == SetupRxResources(s, vtd)
      tx(s) == SetupTxResources(s, vtd)
  IN {Unwind(s, vtd) : s \in
        Then(Then(Then(Then(Then(Then(Then(Then(Then(Then(super, device), open), pci), chip),
                                      SetupMediumDict), gate), rx), tx), InitEventSources), AttachInterface)}

(* Event sources are released while there is a work loop.                   *)
ReleaseCommon(s) ==
  RELEASE(RELEASE(s, IF "workLoop" \in s.ptr
                       THEN {"interruptSource", "timerSource", "workLoop"} ELSE {}),
          {"commandGate", "txQueue", "mediumDict", "baseMap", "flashMap", "pciDevice", "mcAddrList"})

Free(s, vtd) == FreeRxResources(FreeTxResources(ReleaseCommon(s), vtd), vtd)

(* stop() releases what free() does, and the interface before.              *)
Stop(s, vtd) ==
  Free(IF "netif" \in s.ptr THEN RELEASE(s, {"DRV_LOAD", "netif"}) ELSE s, vtd)
===============================================================================
