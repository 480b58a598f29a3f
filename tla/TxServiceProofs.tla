---------------------------- MODULE TxServiceProofs ----------------------------
(***************************************************************************)
(* The transmit service is a FIFO, resets included, and a live link is       *)
(* watched, for rings, thresholds and sets of packets of every size.         *)
(*                                                                         *)
(* Both speak of what is so between handlers; the invariant says what is so  *)
(* at each stage of one.                                                    *)
(***************************************************************************)
EXTENDS TxService, TLAPS

Resetting == {"quiesce", "flushed", "clear", "configure"}

(* outputStart is kept out from stopOutputThread to the end of the handler,  *)
(* so nobody tells the stopped NIC of a packet before all are discarded.     *)
IStopped ==
  /\ wl \in Resetting => op = "idle" /\ outThread = "stopped"
  /\ wl = "clear" => tailed = 0

(* A link is up between handlers, while the ring is scanned, and until       *)
(* stopOutputThread; disable alone takes it down at its end.                 *)
ILink ==
  linkUp =>
    \/ wl \in {"idle", "scan", "stop"} /\ isEnabled /\ (~tctlEn => forceReset)
    \/ wl \in Resetting \ {"configure"} /\ wlFor = "disable"

(* The timer of a live link is armed unless its own handler runs.            *)
ITimer ==
  linkUp =>
    /\ wl = "idle" => timerArmed
    /\ wl = "scan" => timerArmed \/ wlFor = "tick"

IInv == IStopped /\ ILink /\ ITimer

-------------------------------------------------------------------------------
LEMMA Starts == Init => IInv
  BY DEF Init, IInv, IStopped, ILink, ITimer, Resetting, Ring!Init

(* The output thread.                                                       *)
LEMMA OutputKeeps == ASSUME IInv, OutputThread PROVE IInv'
  <1> USE DEF IInv, IStopped, ILink, ITimer, Resetting, ReturnFromOutputStart,
              threadVars, opVars, wlVars, timerVars, ringVars
  <1>1. CASE OutputRefused BY <1>1 DEF OutputRefused, MayCallOutputStart
  <1>2. CASE OutputBegin BY <1>2 DEF OutputBegin, MayCallOutputStart
  <1>3. ASSUME NEW m \in Mbuf, OutputPacket(m) PROVE IInv'
    BY <1>3 DEF OutputPacket, Ring!Post
  <1>4. CASE OutputLoopEnd BY <1>4 DEF OutputLoopEnd
  <1>5. CASE WriteTail BY <1>5 DEF WriteTail, Ring!MoveTail
  <1>6. CASE SetBarrier BY <1>6 DEF SetBarrier, Ring!Publish
  <1>7. CASE OutputReturn BY <1>7 DEF OutputReturn
  <1>8. QED BY <1>1, <1>2, <1>3, <1>4, <1>5, <1>6, <1>7 DEF OutputThread

(* The ring is cleaned, for an interrupt or the watchdog.                    *)
LEMMA CleaningKeeps ==
  ASSUME IInv, TxInterrupt \/ CleanPacket \/ CleanEnd \/ TimerAction
  PROVE  IInv'
  <1> USE DEF IInv, IStopped, ILink, ITimer, Resetting, SignalOutputThread,
              threadVars, opVars, wlVars, timerVars, ringVars
  <1>1. CASE TxInterrupt BY <1>1 DEF TxInterrupt
  <1>2. CASE CleanPacket BY <1>2 DEF CleanPacket, Ring!Free
  <1>3. CASE CleanEnd BY <1>3 DEF CleanEnd
  <1>4. CASE TickLinkDown BY <1>4 DEF TickLinkDown
  <1>5. CASE TickRestart BY <1>5 DEF TickRestart
  <1>6. CASE TickCheckRing BY <1>6 DEF TickCheckRing
  <1>7. CASE TickHealthy BY <1>7 DEF TickHealthy
  <1>8. QED BY <1>1, <1>2, <1>3, <1>4, <1>5, <1>6, <1>7 DEF TimerAction

(* A handler that resets the NIC begins.                                    *)
LEMMA BeginsKeep ==
  ASSUME IInv, BeginRestart \/ BeginLinkDown \/ BeginMaxPacketSize \/ BeginDisable
  PROVE  IInv'
  <1> USE DEF IInv, IStopped, ILink, ITimer, Resetting,
              threadVars, opVars, wlVars, timerVars, ringVars
  <1>1. CASE BeginRestart BY <1>1 DEF BeginRestart
  <1>2. CASE BeginLinkDown BY <1>2 DEF BeginLinkDown
  <1>3. CASE BeginMaxPacketSize BY <1>3 DEF BeginMaxPacketSize
  <1>4. CASE BeginDisable BY <1>4 DEF BeginDisable
  <1>5. QED BY <1>1, <1>2, <1>3, <1>4

(* It goes on.                                                              *)
LEMMA ResetKeeps ==
  ASSUME IInv, StopOutput \/ FlushTxRing \/ ResetNic \/ ClearDescriptors \/ Configure
  PROVE  IInv'
  <1> USE DEF IInv, IStopped, ILink, ITimer, Resetting,
              threadVars, opVars, wlVars, timerVars, ringVars
  <1>1. CASE StopOutput BY <1>1 DEF StopOutput
  <1>2. CASE FlushTxRing BY <1>2 DEF FlushTxRing
  <1>3. CASE ResetNic BY <1>3 DEF ResetNic, Ring!Stop
  <1>4. CASE ClearDescriptors BY <1>4 DEF ClearDescriptors
  <1>5. CASE Configure BY <1>5 DEF Configure
  <1>6. QED BY <1>1, <1>2, <1>3, <1>4, <1>5

(* The link comes, and what else may happen.                                *)
LEMMA OthersKeep ==
  ASSUME IInv, EnableNic \/ EnableFlags \/ SetLinkUp \/ RxTailAstray \/ NicTransmit
  PROVE  IInv'
  <1> USE DEF IInv, IStopped, ILink, ITimer, Resetting,
              threadVars, opVars, wlVars, timerVars, ringVars
  <1>1. CASE EnableNic BY <1>1 DEF EnableNic, Ring!Stop
  <1>2. CASE EnableFlags BY <1>2 DEF EnableFlags
  <1>3. CASE SetLinkUp BY <1>3 DEF SetLinkUp
  <1>4. CASE RxTailAstray BY <1>4 DEF RxTailAstray
  <1>5. CASE NicTransmit BY <1>5 DEF NicTransmit, Ring!Transmit
  <1>6. QED BY <1>1, <1>2, <1>3, <1>4, <1>5

LEMMA StepKeeps == IInv /\ [Next]_vars => IInv'
  <1>1. ASSUME IInv, UNCHANGED vars PROVE IInv'
    BY <1>1 DEF vars, ringVars, threadVars, opVars, wlVars, timerVars,
                IInv, IStopped, ILink, ITimer
  <1>2. ASSUME IInv, Next PROVE IInv'
    BY <1>2, OutputKeeps, CleaningKeeps, BeginsKeep, ResetKeeps, OthersKeep
       DEF Next, WorkLoop
  <1>3. QED BY <1>1, <1>2

LEMMA Inductive == Spec => []IInv
  BY Starts, StepKeeps, PTL DEF Spec

-------------------------------------------------------------------------------
(* Between two handlers a live link has an armed watchdog, and a transmitter *)
(* that intelUpdateTxDescTail() has switched off is going to be reset.       *)
THEOREM AlwaysWatched == Spec => []LinkUpWatched
  <1>1. IInv => LinkUpWatched
    BY DEF IInv, ILink, ITimer, LinkUpWatched, Resetting
  <1>2. QED
    BY <1>1, Inductive, PTL

(* Each step of the service is one of the FIFO or leaves it alone: only the  *)
(* discarding of packets has to wait for something, the NIC's having         *)
(* forgotten them, which is what stopOutputThread and the reset are for.     *)
LEMMA StepsOfFifo == ASSUME IInv, [Next]_vars PROVE [Ring!Next]_(Ring!fifoVars)
  <1> USE DEF Ring!fifoVars, ringVars
  <1>1. CASE UNCHANGED vars BY <1>1 DEF vars
  <1>2. CASE OutputThread
    BY <1>2 DEF OutputThread, OutputRefused, OutputBegin, OutputPacket, OutputLoopEnd,
                WriteTail, SetBarrier, OutputReturn, Ring!Next
  <1>3. CASE NicTransmit BY <1>3 DEF NicTransmit, Ring!Next
  <1>4. CASE TxInterrupt \/ CleanPacket \/ CleanEnd \/ TimerAction
    BY <1>4 DEF TxInterrupt, CleanPacket, CleanEnd, TimerAction, TickLinkDown,
                TickRestart, TickCheckRing, TickHealthy, Ring!Next
  <1>5. CASE BeginRestart \/ BeginLinkDown \/ BeginMaxPacketSize \/ BeginDisable
    BY <1>5 DEF BeginRestart, BeginLinkDown, BeginMaxPacketSize, BeginDisable
  <1>6. CASE StopOutput \/ FlushTxRing \/ Configure
    BY <1>6 DEF StopOutput, FlushTxRing, Configure
  <1>7. CASE ResetNic \/ EnableNic
    BY <1>7 DEF ResetNic, EnableNic, Ring!Next
  <1>8. CASE ClearDescriptors
    BY <1>8 DEF ClearDescriptors, IInv, IStopped, Ring!Discard, Ring!Next
  <1>9. CASE EnableFlags \/ SetLinkUp \/ RxTailAstray
    BY <1>9 DEF EnableFlags, SetLinkUp, RxTailAstray
  <1>10. QED
    BY <1>1, <1>2, <1>3, <1>4, <1>5, <1>6, <1>7, <1>8, <1>9 DEF Next, WorkLoop

(* The service implements the FIFO: packets leave in the order outputStart   *)
(* took them, each freed when it was sent or when the NIC has forgotten all, *)
(* through every restart, link change and reconfiguration.                  *)
THEOREM ServiceImplementsFifo == Spec => ServiceIsFifo
  <1>1. Init => Ring!Init
    BY DEF Init
  <1>2. QED
    BY <1>1, Inductive, StepsOfFifo, PTL DEF Spec, ServiceIsFifo, Ring!Spec
===============================================================================
