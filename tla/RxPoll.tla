------------------------------- MODULE RxPoll -------------------------------
(***************************************************************************)
(* Interrupts and input polling.                                            *)
(*                                                                         *)
(* interruptOccurred, the network family's poller (setInputPacketPolling-   *)
(* Enable, pollInputPackets) and the link handling all run on the work loop;*)
(* the NIC receives frames, completes packets and sees the link change      *)
(* between any two of their steps.  Reading ICR clears all causes and, as    *)
(* IAM is all ones, masks all of them; the handler unmasks with IMS those it *)
(* has read when it is done.  A cause that was not among them stays masked   *)
(* until another one interrupts or a reset or the poller unmasks everything. *)
(* While polling only the link causes are to interrupt.                      *)
(***************************************************************************)
EXTENDS Integers

CONSTANT MaxWaiting   (* Most frames the ring holds, kNumRxDesc - 1.        *)

ASSUME PollConstants == MaxWaiting \in Nat \ {0}

VARIABLES
  icr, ims,     (* the NIC: pending and unmasked causes                     *)
  waiting,      (* frames in the receive ring                               *)
  txDone,       (* sent packets txInterrupt has not freed                   *)
  phyLink,      (* the link as the PHY sees it                              *)
  linkUp, polling,
  wl,           (* where the work loop is                                   *)
  cause,        (* interruptOccurred's icr                                  *)
  budget        (* maxCount - goodPkts of rxInterrupt                       *)

nicVars == <<icr, ims>>
vars == <<nicVars, waiting, txDone, phyLink, linkUp, polling, wl, cause,
          budget>>
handlerVars == <<wl, cause, budget>>

(* TXDW and TXQ0; RXQ0, RXT0 and RXDMT0; LSC and RXSEQ; ECCER.               *)
intrMask == {"tx", "rx", "link", "ecc"}

(* enable(): the link comes up later.                                        *)
Init ==
  /\ icr = {} /\ ims = intrMask
  /\ waiting = 0 /\ txDone = FALSE
  /\ phyLink = FALSE /\ linkUp = FALSE /\ polling = FALSE
  /\ wl = "idle" /\ cause = {} /\ budget = 0

-----------------------------------------------------------------------------
(* The NIC (external).                                                      *)

NicReceive ==
  /\ linkUp /\ waiting < MaxWaiting
  /\ waiting' = waiting + 1
  /\ icr' = icr \cup {"rx"}
  /\ UNCHANGED <<ims, txDone, phyLink, linkUp, polling, handlerVars>>

NicSend ==
  /\ linkUp
  /\ txDone' = TRUE
  /\ icr' = icr \cup {"tx"}
  /\ UNCHANGED <<ims, waiting, phyLink, linkUp, polling, handlerVars>>

(* Autonegotiation takes more than a second; by then the poller, which      *)
(* looks for packets every 170 us, has found none and switched itself off.  *)
PhyLinkUp ==
  /\ ~phyLink /\ ~polling
  /\ phyLink' = TRUE
  /\ icr' = icr \cup {"link"}
  /\ UNCHANGED <<ims, waiting, txDone, linkUp, polling, handlerVars>>

PhyLinkDown ==
  /\ phyLink
  /\ phyLink' = FALSE
  /\ icr' = icr \cup {"link"}
  /\ UNCHANGED <<ims, waiting, txDone, linkUp, polling, handlerVars>>

EccError ==
  /\ icr' = icr \cup {"ecc"}
  /\ UNCHANGED <<ims, waiting, txDone, phyLink, linkUp, polling, handlerVars>>

-----------------------------------------------------------------------------
(* interruptOccurred.                                                        *)

(* CTRL_EXT.IAME is set: the read masks what IAM names, which is every cause. *)
ReadIcr ==
  /\ wl = "idle" /\ icr \cap ims # {}
  /\ cause' = icr /\ icr' = {} /\ ims' = {}
  /\ wl' = IF polling THEN "link" ELSE "tx"
  /\ UNCHANGED <<waiting, txDone, phyLink, linkUp, polling, budget>>

(* Mutant of RxQuota: a packet short of what the ring may hold.              *)
RxQuotaShort == MaxWaiting - 1

(* rxInterrupt is called with kNumRxDesc.                                    *)
RxQuota == MaxWaiting + 1

TxInterrupt ==
  /\ wl = "tx"
  /\ txDone' = IF "tx" \in cause THEN FALSE ELSE txDone
  /\ wl' = IF "rx" \in cause THEN "rx" ELSE "link"
  /\ budget' = RxQuota
  /\ UNCHANGED <<nicVars, waiting, phyLink, linkUp, polling, cause>>

(* One packet is handed up by rxInterrupt, for the interrupt or the poller.  *)
TakeFrame ==
  /\ wl \in {"rx", "poll"} /\ waiting > 0 /\ budget > 0
  /\ waiting' = waiting - 1 /\ budget' = budget - 1
  /\ UNCHANGED <<nicVars, txDone, phyLink, linkUp, polling, wl, cause>>

(* rxInterrupt finds no descriptor done or has handed up maxCount packets.   *)
RxEnd ==
  /\ wl = "rx" /\ (waiting = 0 \/ budget = 0)
  /\ wl' = "link" /\ budget' = 0
  /\ UNCHANGED <<nicVars, waiting, txDone, phyLink, linkUp, polling, cause>>

NoLinkCause ==
  /\ wl = "link" /\ cause \cap {"link", "ecc"} = {}
  /\ wl' = "enable"
  /\ UNCHANGED <<nicVars, waiting, txDone, phyLink, linkUp, polling, cause,
                 budget>>

(* intelRestart, setLinkDown: the NIC is reset, the rings are emptied, the   *)
(* link is lost; all causes are unmasked.  polling is left as it is.         *)
ResetNic ==
  /\ icr' = {} /\ ims' = intrMask
  /\ waiting' = 0 /\ txDone' = FALSE
  /\ phyLink' = FALSE /\ linkUp' = FALSE

(* An uncorrectable ECC error: the handler returns early.                    *)
HandleEcc ==
  /\ wl = "link" /\ "ecc" \in cause
  /\ ResetNic
  /\ wl' = "idle" /\ cause' = {}
  /\ UNCHANGED <<polling, budget>>

(* checkLinkStatus, the link was up: restart or link down.                   *)
CheckLinkReset ==
  /\ wl = "link" /\ "link" \in cause /\ "ecc" \notin cause /\ linkUp
  /\ ResetNic
  /\ wl' = "enable"
  /\ UNCHANGED <<polling, cause, budget>>

(* checkLinkStatus, the link was down: setLinkUp if there is one now.        *)
CheckLinkUp ==
  /\ wl = "link" /\ "link" \in cause /\ "ecc" \notin cause /\ ~linkUp
  /\ linkUp' = phyLink
  /\ ims' = IF phyLink THEN intrMask ELSE ims
  /\ wl' = "enable"
  /\ UNCHANGED <<icr, waiting, txDone, phyLink, polling, cause, budget>>

(* IMS is written with the causes read, and nothing else.                    *)
Reenable ==
  /\ wl = "enable"
  /\ ims' = ims \cup cause
  /\ wl' = "idle" /\ cause' = {}
  /\ UNCHANGED <<icr, waiting, txDone, phyLink, linkUp, polling, budget>>

-----------------------------------------------------------------------------
(* The poller.                                                              *)

(* setInputPacketPollingEnable(true), when many packets arrive.              *)
PollingOn ==
  /\ wl = "idle" /\ ~polling /\ linkUp
  /\ ims' = ims \cap {"link"}
  /\ polling' = TRUE
  /\ UNCHANGED <<icr, waiting, txDone, phyLink, linkUp, handlerVars>>

(* Mutant of PollingOff: pending causes are thrown away first.              *)
PollingOffClear ==
  /\ wl = "idle" /\ polling
  /\ ims' = intrMask /\ icr' = icr \cap {"link", "ecc"}
  /\ polling' = FALSE
  /\ UNCHANGED <<waiting, txDone, phyLink, linkUp, handlerVars>>

(* setInputPacketPollingEnable(false).                                       *)
PollingOff ==
  /\ wl = "idle" /\ polling
  /\ ims' = intrMask
  /\ polling' = FALSE
  /\ UNCHANGED <<icr, waiting, txDone, phyLink, linkUp, handlerVars>>

(* pollInputPackets: packets are taken until none is left or the quota of   *)
(* the poller is reached; then txInterrupt runs.                             *)
PollBegin ==
  /\ wl = "idle" /\ polling
  /\ wl' = "poll"
  /\ budget' \in 1 .. MaxWaiting
  /\ UNCHANGED <<nicVars, waiting, txDone, phyLink, linkUp, polling, cause>>

PollEnd ==
  /\ wl = "poll" /\ (waiting = 0 \/ budget = 0)
  /\ txDone' = FALSE
  /\ wl' = "idle" /\ budget' = 0
  /\ UNCHANGED <<nicVars, waiting, phyLink, linkUp, polling, cause>>

Nic == NicReceive \/ NicSend \/ PhyLinkUp \/ PhyLinkDown \/ EccError

InterruptOccurred ==
  \/ ReadIcr \/ TxInterrupt \/ RxEnd \/ NoLinkCause
  \/ HandleEcc \/ CheckLinkReset \/ CheckLinkUp \/ Reenable

Poller == PollingOn \/ PollingOff \/ PollBegin \/ PollEnd

Next == Nic \/ InterruptOccurred \/ Poller \/ TakeFrame

(* The work loop runs its handlers to the end, and does not put off an       *)
(* interrupt or, while polling is on, the poller for ever.                   *)
Fairness ==
  /\ WF_vars(InterruptOccurred) /\ SF_vars(ReadIcr)
  /\ SF_vars(PollBegin)
  /\ WF_vars(TakeFrame) /\ WF_vars(PollEnd)

Spec == Init /\ [][Next]_vars /\ Fairness

-----------------------------------------------------------------------------
(* Properties.                                                              *)

TypeOK ==
  /\ icr \subseteq intrMask /\ ims \subseteq intrMask
  /\ waiting \in 0 .. MaxWaiting /\ txDone \in BOOLEAN
  /\ phyLink \in BOOLEAN /\ linkUp \in BOOLEAN /\ polling \in BOOLEAN
  /\ wl \in {"idle", "tx", "rx", "link", "enable", "poll"}
  /\ cause \subseteq intrMask /\ budget \in 0 .. RxQuota

(* Between handlers nothing is stranded for good, although causes that were  *)
(* not read stay masked: without a link its coming interrupts; without       *)
(* polling some cause interrupts, and a frame that waits is among the causes *)
(* the next interrupt, whatever it is for, will read; with polling neither   *)
(* frames nor sent packets interrupt, so the handler, which ignores them     *)
(* then, does not throw their causes away.                                   *)
NothingStranded ==
  wl = "idle" =>
    /\ ~linkUp => "link" \in ims
    /\ IF polling THEN linkUp => ims \subseteq {"link"}
                  ELSE ims # {} /\ (waiting > 0 => "rx" \in icr)

(* A frame that waits while the poller is on, or while a pending cause of    *)
(* any kind is unmasked, is taken sooner or later, or the ring is emptied:   *)
(* switching between interrupts and polling leaves none behind.  A frame that *)
(* comes when only other causes are unmasked waits for one of them.          *)
FramesTaken ==
  waiting > 0 /\ (polling \/ icr \cap ims # {})
    ~> (waiting = 0 \/ wl \in {"rx", "poll"})
=============================================================================
