----------------------------- MODULE TxService ------------------------------
(***************************************************************************)
(* The transmit path as the network stack sees it: the output thread, the   *)
(* link, the watchdog and the handlers that restart the NIC, around a ring  *)
(* that TxRing has shown to be a FIFO of packets.                           *)
(*                                                                         *)
(* The output thread runs outputStart; everything else runs on the driver's *)
(* work loop, one handler after the other.  stopOutputThread is what the    *)
(* handlers have to keep outputStart out.                                    *)
(*                                                                         *)
(* The packets are those outputStart keeps a record of.  What TxRing shows   *)
(* of the others, TSO packets in one segment, is left out: each takes two    *)
(* descriptors out of the ring, until the watchdog misses them and restarts. *)
(***************************************************************************)
EXTENDS Naturals, Sequences

CONSTANTS
  Mbuf,               (* The packets of the network stack.                 *)
  RingSize,           (* kNumTxDesc, counted in packets.                   *)
  Reserve,            (* outputStart wants this much free (kMaxSegs + 3).   *)
  WakeThreshold,      (* kTxQueueWakeTreshhold.                            *)
  DeadlockThreshold,  (* kTxDeadlockTreshhold, in ticks of the timer.       *)
  FlushRings          (* mac.type >= e1000_pch_spt.                        *)

ASSUME ServiceConstants ==
  /\ RingSize \in Nat /\ Reserve \in 1 .. RingSize
  /\ WakeThreshold \in Reserve .. RingSize - 1
  /\ DeadlockThreshold \in Nat \ {0}
  /\ FlushRings \in BOOLEAN

VARIABLES
  fifo, tailed, published, sent,        (* the ring, see TxFifo             *)
  outThread, signalled,                 (* external: IONetworkInterface     *)
  isEnabled, linkUp, forceReset,
  op, opCount,                          (* where outputStart is, count > 0  *)
  wl, wlFor,                            (* the work loop's handler, and why *)
  timerArmed, deadlockWarn,
  descDoneSinceTick,                    (* txDescDoneCount # txDescDoneLast *)
  tctlEn                                (* TCTL.EN                          *)

ringVars   == <<fifo, tailed, published, sent>>
threadVars == <<outThread, signalled>>
opVars     == <<op, opCount>>
wlVars     == <<wl, wlFor>>
timerVars  == <<timerArmed, deadlockWarn, descDoneSinceTick>>
vars == <<ringVars, threadVars, isEnabled, linkUp, forceReset, opVars, wlVars,
          timerVars, tctlEn>>

Ring == INSTANCE TxFifo

txNumFreeDesc == RingSize - Len(fifo)

Init ==
  /\ Ring!Init
  /\ outThread = "stopped" /\ signalled = FALSE
  /\ isEnabled = FALSE /\ linkUp = FALSE /\ forceReset = FALSE
  /\ op = "idle" /\ opCount = FALSE
  /\ wl = "idle" /\ wlFor = "none"
  /\ timerArmed = FALSE /\ deadlockWarn = 0 /\ descDoneSinceTick = FALSE
  /\ tctlEn = FALSE

-----------------------------------------------------------------------------
(* The network family (external).                                           *)

(* outputStart's return: kIOReturnNoResources stalls the thread until the   *)
(* next signal; a signal that arrived during the call is not lost.          *)
ReturnFromOutputStart(success) ==
  /\ outThread' = IF success \/ signalled THEN "ready" ELSE "stalled"
  /\ signalled' = FALSE

(* netif->signalOutputThread().                                             *)
SignalOutputThread ==
  /\ outThread' = IF outThread = "stalled" THEN "ready" ELSE outThread
  /\ signalled' = (signalled \/ op # "idle")

-----------------------------------------------------------------------------
(* outputStart, on the output thread.                                       *)

(* stopOutputThread ("stop") lets no new call begin.                        *)
MayCallOutputStart == op = "idle" /\ outThread = "ready" /\ wl # "stop"

OutputRefused ==
  /\ MayCallOutputStart
  /\ ~(isEnabled /\ linkUp) \/ forceReset
  /\ ReturnFromOutputStart(FALSE)
  /\ UNCHANGED <<ringVars, isEnabled, linkUp, forceReset, opVars, wlVars,
                 timerVars, tctlEn>>

OutputBegin ==
  /\ MayCallOutputStart
  /\ isEnabled /\ linkUp /\ ~forceReset
  /\ op' = "loop"
  /\ UNCHANGED <<ringVars, threadVars, isEnabled, linkUp, forceReset, opCount,
                 wlVars, timerVars, tctlEn>>

OutputPacket(m) ==
  /\ op = "loop" /\ txNumFreeDesc >= Reserve
  /\ Ring!Post(m)
  /\ opCount' = TRUE
  /\ UNCHANGED <<threadVars, isEnabled, linkUp, forceReset, op, wlVars,
                 timerVars, tctlEn>>

(* Too few descriptors are free, or the queue is empty.                     *)
OutputLoopEnd ==
  /\ op = "loop"
  /\ op' = IF opCount THEN "tail" ELSE "return"
  /\ UNCHANGED <<ringVars, threadVars, isEnabled, linkUp, forceReset, opCount,
                 wlVars, timerVars, tctlEn>>

(* intelUpdateTxDescTail: the write of TDT goes through, or goes astray and *)
(* is noticed, or goes astray unnoticed.                                     *)
WriteTail ==
  /\ op = "tail"
  /\ op' = "barrier"
  /\ \/ Ring!MoveTail /\ UNCHANGED <<tctlEn, forceReset>>
     \/ /\ tctlEn' = FALSE /\ forceReset' = TRUE
        /\ UNCHANGED ringVars
     \/ UNCHANGED <<ringVars, tctlEn, forceReset>>
  /\ UNCHANGED <<threadVars, isEnabled, linkUp, opCount, wlVars, timerVars>>

SetBarrier ==
  /\ op = "barrier"
  /\ Ring!Publish
  /\ op' = "return"
  /\ UNCHANGED <<threadVars, isEnabled, linkUp, forceReset, opCount, wlVars,
                 timerVars, tctlEn>>

OutputReturn ==
  /\ op = "return"
  /\ op' = "idle" /\ opCount' = FALSE
  /\ ReturnFromOutputStart(txNumFreeDesc >= Reserve)
  /\ UNCHANGED <<ringVars, isEnabled, linkUp, forceReset, wlVars, timerVars,
                 tctlEn>>

OutputThread ==
  \/ OutputRefused \/ OutputBegin \/ \E m \in Mbuf : OutputPacket(m)
  \/ OutputLoopEnd \/ WriteTail \/ SetBarrier \/ OutputReturn

(* The NIC (external).                                                      *)
NicTransmit ==
  /\ tctlEn
  /\ Ring!Transmit
  /\ UNCHANGED <<threadVars, isEnabled, linkUp, forceReset, opVars, wlVars,
                 timerVars, tctlEn>>

-----------------------------------------------------------------------------
(* txInterrupt, on the work loop: for an interrupt or a poll, or for the    *)
(* watchdog.                                                                 *)

TxInterrupt ==
  /\ wl = "idle" /\ isEnabled
  /\ wl' = "scan" /\ wlFor' = "clean"
  /\ UNCHANGED <<ringVars, threadVars, isEnabled, linkUp, forceReset, opVars,
                 timerVars, tctlEn>>

CleanPacket ==
  /\ wl = "scan"
  /\ Ring!Free
  /\ descDoneSinceTick' = TRUE
  /\ UNCHANGED <<threadVars, isEnabled, linkUp, forceReset, opVars, wlVars,
                 timerArmed, deadlockWarn, tctlEn>>

(* Mutant of QueueMayWake: off by one.                                      *)
QueueMayWakeLate == txNumFreeDesc > WakeThreshold + 1

QueueMayWake == txNumFreeDesc > WakeThreshold

(* Nothing more to clean.  When the watchdog called, the rest of            *)
(* timerAction runs: it re-arms the timer and takes txDescDoneLast.          *)
CleanEnd ==
  /\ wl = "scan"
  /\ sent = 0 \/ published = 0
  /\ IF QueueMayWake
       THEN SignalOutputThread
       ELSE UNCHANGED threadVars
  /\ wl' = "idle" /\ wlFor' = "none"
  /\ IF wlFor = "tick"
       THEN timerArmed' = TRUE /\ descDoneSinceTick' = FALSE
       ELSE UNCHANGED <<timerArmed, descDoneSinceTick>>
  /\ UNCHANGED <<ringVars, isEnabled, linkUp, forceReset, opVars,
                 deadlockWarn, tctlEn>>

-----------------------------------------------------------------------------
(* timerAction and checkForDeadlock.                                        *)

TickLinkDown ==
  /\ wl = "idle" /\ timerArmed /\ ~linkUp
  /\ timerArmed' = FALSE /\ descDoneSinceTick' = FALSE
  /\ UNCHANGED <<ringVars, threadVars, isEnabled, linkUp, forceReset, opVars,
                 wlVars, deadlockWarn, tctlEn>>

(* Mutant of Stalled: only a ring that refuses packets counts.              *)
StalledWhenFull == ~descDoneSinceTick /\ txNumFreeDesc < Reserve

Stalled == ~descDoneSinceTick /\ txNumFreeDesc < RingSize

(* Mutant of TickRestart: a pending forceReset is overlooked.               *)
TickRestartStallOnly ==
  /\ wl = "idle" /\ timerArmed /\ linkUp
  /\ Stalled /\ deadlockWarn + 1 >= DeadlockThreshold
  /\ timerArmed' = FALSE
  /\ wl' = "stop" /\ wlFor' = "tickReset"
  /\ UNCHANGED <<ringVars, threadVars, isEnabled, linkUp, forceReset, opVars,
                 deadlockWarn, descDoneSinceTick, tctlEn>>

(* A pending forceReset, or the ring has not moved for DeadlockThreshold    *)
(* ticks: intelRestart, and the timer is not re-armed.                       *)
TickRestart ==
  /\ wl = "idle" /\ timerArmed /\ linkUp
  /\ forceReset \/ (Stalled /\ deadlockWarn + 1 >= DeadlockThreshold)
  /\ timerArmed' = FALSE
  /\ wl' = "stop" /\ wlFor' = "tickReset"
  /\ UNCHANGED <<ringVars, threadVars, isEnabled, linkUp, forceReset, opVars,
                 deadlockWarn, descDoneSinceTick, tctlEn>>

(* The first tick without progress flushes the NIC's pending write backs    *)
(* and looks at the ring itself.                                             *)
TickCheckRing ==
  /\ wl = "idle" /\ timerArmed /\ linkUp /\ ~forceReset
  /\ Stalled /\ deadlockWarn + 1 < DeadlockThreshold
  /\ deadlockWarn' = deadlockWarn + 1
  /\ timerArmed' = FALSE
  /\ wl' = "scan" /\ wlFor' = "tick"
  /\ UNCHANGED <<ringVars, threadVars, isEnabled, linkUp, forceReset, opVars,
                 descDoneSinceTick, tctlEn>>

TickHealthy ==
  /\ wl = "idle" /\ timerArmed /\ linkUp /\ ~forceReset
  /\ ~Stalled
  /\ deadlockWarn' = 0 /\ descDoneSinceTick' = FALSE
  /\ UNCHANGED <<ringVars, threadVars, isEnabled, linkUp, forceReset, opVars,
                 wlVars, timerArmed, tctlEn>>

TimerAction == TickLinkDown \/ TickRestart \/ TickCheckRing \/ TickHealthy

-----------------------------------------------------------------------------
(* The handlers that reset the NIC.  Each runs on the work loop from "stop" *)
(* to its end without another handler in between.                            *)

(* An ECC error, which leaves the timer alone, or selectMedium and          *)
(* checkLinkStatus, which cancel it: intelRestart.                           *)
BeginRestart ==
  /\ wl = "idle"
  /\ wl' = "stop" /\ wlFor' = "restart"
  /\ timerArmed' \in {timerArmed, FALSE}
  /\ UNCHANGED <<ringVars, threadVars, isEnabled, linkUp, forceReset, opVars,
                 deadlockWarn, descDoneSinceTick, tctlEn>>

(* checkLinkStatus finds the link gone: cancelTimeout, setLinkDown.         *)
BeginLinkDown ==
  /\ wl = "idle" /\ isEnabled /\ linkUp
  /\ wl' = "stop" /\ wlFor' = "linkDown"
  /\ timerArmed' = FALSE /\ deadlockWarn' = 0
  /\ UNCHANGED <<ringVars, threadVars, isEnabled, linkUp, forceReset, opVars,
                 descDoneSinceTick, tctlEn>>

(* setMaxPacketSize: setLinkDown, cancelTimeout, intelRestart.              *)
BeginMaxPacketSize ==
  /\ wl = "idle"
  /\ wl' = "stop" /\ wlFor' = "maxPacketSize"
  /\ deadlockWarn' = 0
  /\ UNCHANGED <<ringVars, threadVars, isEnabled, linkUp, forceReset, opVars,
                 timerArmed, descDoneSinceTick, tctlEn>>

BeginDisable ==
  /\ wl = "idle" /\ isEnabled
  /\ wl' = "stop" /\ wlFor' = "disable"
  /\ UNCHANGED <<ringVars, threadVars, isEnabled, linkUp, forceReset, opVars,
                 timerVars, tctlEn>>

(* stopOutputThread waits until outputStart has returned.  disable clears   *)
(* its flags and cancels the timer here, and linkUp only at its end.  The   *)
(* transmitter is switched off next: by intelDown, or in intelReset.         *)
StopOutput ==
  /\ wl = "stop" /\ op = "idle"
  /\ outThread' = "stopped" /\ signalled' = FALSE
  /\ IF wlFor = "disable"
       THEN /\ isEnabled' = FALSE /\ forceReset' = FALSE
            /\ timerArmed' = FALSE /\ descDoneSinceTick' = FALSE
            /\ UNCHANGED linkUp
       ELSE /\ linkUp' = FALSE
            /\ UNCHANGED <<isEnabled, forceReset, timerArmed,
                           descDoneSinceTick>>
  /\ wl' = "quiesce"
  /\ UNCHANGED <<ringVars, opVars, wlFor, deadlockWarn, tctlEn>>

(* intelFlushTxRing lets the NIC drain the ring first.                      *)
FlushTxRing ==
  /\ wl = "quiesce" /\ FlushRings /\ sent # tailed
  /\ tctlEn' = TRUE
  /\ wl' = "flushed"
  /\ UNCHANGED <<ringVars, threadVars, isEnabled, linkUp, forceReset, opVars,
                 wlFor, timerVars>>

(* Mutant of ResetNic: the NIC keeps its ring.                              *)
ResetNicKeepsRing ==
  /\ wl \in {"quiesce", "flushed"}
  /\ tctlEn' = FALSE
  /\ wl' = "clear"
  /\ UNCHANGED <<ringVars, threadVars, isEnabled, linkUp, forceReset, opVars,
                 wlFor, timerVars>>

(* intelReset, which disable with Wake-on-LAN leaves out.                   *)
ResetNic ==
  /\ wl \in {"quiesce", "flushed"}
  /\ Ring!Stop
  /\ tctlEn' = FALSE
  /\ wl' = "clear"
  /\ UNCHANGED <<threadVars, isEnabled, linkUp, forceReset, opVars, wlFor,
                 timerVars>>

(* clearDescriptors frees every packet of the ring.  It is the end of       *)
(* disable, which clears linkUp.                                             *)
ClearDescriptors ==
  /\ wl = "clear"
  /\ fifo' = <<>> /\ published' = 0 /\ UNCHANGED <<tailed, sent>>
  /\ IF wlFor = "disable"
       THEN wl' = "idle" /\ wlFor' = "none" /\ linkUp' = FALSE
       ELSE wl' = "configure" /\ UNCHANGED <<wlFor, linkUp>>
  /\ UNCHANGED <<threadVars, isEnabled, forceReset, opVars, timerVars, tctlEn>>

(* intelConfigure writes RDT, which may go astray and be noticed.  It ends  *)
(* setLinkDown, which leaves an earlier forceReset alone, and intelRestart, *)
(* which has just cleared forceReset and deadlockWarn.  Back in timerAction, *)
(* txDescDoneLast is taken.                                                  *)
Configure ==
  /\ wl = "configure"
  /\ IF wlFor \in {"linkDown", "maxPacketSize"}
       THEN /\ forceReset' \in {forceReset, TRUE}
            /\ UNCHANGED <<deadlockWarn, descDoneSinceTick>>
       ELSE /\ forceReset' \in BOOLEAN
            /\ deadlockWarn' = 0
            /\ descDoneSinceTick' = (descDoneSinceTick /\ wlFor = "restart")
  /\ IF wlFor = "maxPacketSize"
       THEN wl' = "stop" /\ wlFor' = "restart" /\ timerArmed' = FALSE
       ELSE wl' = "idle" /\ wlFor' = "none" /\ UNCHANGED timerArmed
  /\ UNCHANGED <<ringVars, threadVars, isEnabled, linkUp, opVars, tctlEn>>

(* enable: intelEnable resets and configures the NIC ...                    *)
EnableNic ==
  /\ wl = "idle" /\ ~isEnabled
  /\ Ring!Stop
  /\ tctlEn' = FALSE
  /\ forceReset' \in {forceReset, TRUE}
  /\ wl' = "enable" /\ wlFor' = "enable"
  /\ UNCHANGED <<threadVars, isEnabled, linkUp, opVars, timerVars>>

(* ... then the flags are set.                                              *)
EnableFlags ==
  /\ wl = "enable"
  /\ isEnabled' = TRUE /\ forceReset' = FALSE
  /\ deadlockWarn' = 0 /\ descDoneSinceTick' = FALSE
  /\ wl' = "idle" /\ wlFor' = "none"
  /\ UNCHANGED <<ringVars, threadVars, linkUp, opVars, timerArmed, tctlEn>>

(* Mutant of SetLinkUp: the watchdog is not started.                        *)
SetLinkUpUnwatched ==
  /\ wl = "idle" /\ isEnabled /\ ~linkUp
  /\ tctlEn' = TRUE /\ linkUp' = TRUE
  /\ outThread' = "ready"
  /\ UNCHANGED <<ringVars, signalled, isEnabled, forceReset, opVars, wlVars,
                 timerVars>>

(* checkLinkStatus finds the link: setLinkUp and the first timeout.         *)
SetLinkUp ==
  /\ wl = "idle" /\ isEnabled /\ ~linkUp
  /\ tctlEn' = TRUE /\ linkUp' = TRUE
  /\ outThread' = "ready"
  /\ timerArmed' = TRUE
  /\ UNCHANGED <<ringVars, signalled, isEnabled, forceReset, opVars, wlVars,
                 deadlockWarn, descDoneSinceTick>>

(* rxInterrupt: the write of RDT went astray and was noticed.               *)
RxTailAstray ==
  /\ wl = "idle" /\ isEnabled
  /\ forceReset' = TRUE
  /\ UNCHANGED <<ringVars, threadVars, isEnabled, linkUp, opVars, wlVars,
                 timerVars, tctlEn>>

WorkLoop ==
  \/ TxInterrupt \/ CleanPacket \/ CleanEnd
  \/ TimerAction
  \/ BeginRestart \/ BeginLinkDown \/ BeginMaxPacketSize \/ BeginDisable
  \/ StopOutput \/ FlushTxRing \/ ResetNic \/ ClearDescriptors \/ Configure
  \/ EnableNic \/ EnableFlags \/ SetLinkUp \/ RxTailAstray

Next == OutputThread \/ NicTransmit \/ WorkLoop

Spec == Init /\ [][Next]_vars

(* Both threads go on with what they have begun, and the work loop, which   *)
(* serves its event sources in turn, eventually serves an expired timer     *)
(* however often the other sources fire.  Nothing is assumed of the NIC, of *)
(* the transmit interrupt, of the link or of the ME firmware.               *)
OutputSteps == OutputLoopEnd \/ WriteTail \/ SetBarrier \/ OutputReturn
HandlerSteps == CleanPacket \/ CleanEnd \/ StopOutput \/ ResetNic
                \/ ClearDescriptors \/ Configure \/ EnableFlags

FairSpec ==
  /\ Spec
  /\ WF_vars(OutputSteps)
  /\ WF_vars(HandlerSteps)
  /\ SF_vars(TimerAction)

-----------------------------------------------------------------------------
(* Properties.                                                              *)

TypeOK ==
  /\ fifo \in Seq(Mbuf)
  /\ tailed \in 0 .. Len(fifo) /\ published \in 0 .. Len(fifo)
  /\ sent \in 0 .. tailed
  /\ outThread \in {"stopped", "ready", "stalled"} /\ signalled \in BOOLEAN
  /\ isEnabled \in BOOLEAN /\ linkUp \in BOOLEAN /\ forceReset \in BOOLEAN
  /\ op \in {"idle", "loop", "tail", "barrier", "return"}
  /\ opCount \in BOOLEAN
  /\ wl \in {"idle", "scan", "stop", "quiesce", "flushed", "clear",
             "configure", "enable"}
  /\ wlFor \in {"none", "clean", "tick", "tickReset",
                "restart", "linkDown", "maxPacketSize", "disable", "enable"}
  /\ timerArmed \in BOOLEAN /\ deadlockWarn \in 0 .. DeadlockThreshold
  /\ descDoneSinceTick \in BOOLEAN
  /\ tctlEn \in BOOLEAN

(* Between two handlers a live link has an armed watchdog, as nothing else  *)
(* recovers a hung NIC, and a transmitter that the driver has switched off  *)
(* (intelUpdateTxDescTail) is going to be reset.                             *)
LinkUpWatched ==
  wl = "idle" /\ linkUp => timerArmed /\ isEnabled /\ (~tctlEn => forceReset)

(* The service is a FIFO of packets, also across resets and restarts.       *)
ServiceIsFifo == Ring!Spec

(* Every packet handed to the driver is freed in the end, transmitted or    *)
(* not, even when the NIC hangs, its interrupts are lost or the ME firmware  *)
(* swallows a tail write nobody notices.                                     *)
PacketsFreed == \A m \in Mbuf : m \in Ring!Packets ~> m \notin Ring!Packets

(* A stalled output thread is woken or stopped: the wake-up threshold loses *)
(* no wake-up.                                                               *)
StalledWakes == outThread = "stalled" ~> outThread # "stalled"

(* A link does not stay up with a reset pending.                            *)
ResetFollows == (linkUp /\ forceReset) ~> ~(linkUp /\ forceReset)
=============================================================================
