-------------------------------- MODULE Adapter --------------------------------
(***************************************************************************)
(* The driver at work on its chip: what IntelMausiHardware.cpp does to MAC   *)
(* and PHY when the interface is enabled, reset, reconfigured and disabled,  *)
(* with the firmware, the link partner and failing PHY accesses around it.   *)
(*                                                                         *)
(* An action is a whole handler.  They do not interleave: but for            *)
(* systemWillShutdown() they run behind the gate of the work loop, and what  *)
(* an ungated handler does to accesses in progress is shown in PhyBus.       *)
(***************************************************************************)
EXTENDS Ich8lan

VARIABLES
  chip,       \* MAC, PHY and struct e1000_hw
  phase,      \* "out": not started; "down", "up": started, disabled or enabled
  linkUp,     \* linkUp
  wolActive   \* wolActive

vars == <<chip, phase, linkUp, wolActive>>

TypeOK ==
  /\ chip \in ChipType
  /\ phase \in {"out", "down", "up"}
  /\ linkUp \in BOOLEAN /\ wolActive \in BOOLEAN

(***************************************************************************)
(* What the handlers have in common.  Errors are logged at most.            *)
(***************************************************************************)
(* The ME may have blocked PHY resets for part of a session.                *)
Session(c) == [c EXCEPT !.hit = c.hit \/ c.blocked]
Fresh(c) == [c EXCEPT !.hit = c.blocked]

(* intelReset(): the adapter is reset whatever fails.  Without the semaphore *)
(* for the EEE advertisement it returns before it looks at the PHY.         *)
IntelReset(c) ==
  LET reset == Put(ResetHw(c), [wuc |-> FALSE])
      eee(d) == IF HasEee(d) THEN Locked(d, LAMBDA e : Tries(e, <<None>>)) ELSE Ok(d)
  IN Ignore(Then(Always(Always(reset, InitHw), eee), GetPhyInfo))

(* intelSetupRxControl(): the jumbo frame work-around follows the MTU; an    *)
(* 82577 needs other gaps for jumbo frames.                                 *)
IntelSetupRxControl(c) ==
  LET gaps(d) == IF d.phy = "82577" /\ d.jumbo THEN Tries(d, <<None, None>>) ELSE Ok(d)
  IN Always(LvJumboWorkaround(c, c.jumbo), gaps)

IntelConfigure(c) == IntelSetupRxControl(c)

(* intelDown(): the work-around is switched off first if the MTU, perhaps a  *)
(* new one, is for jumbo frames.                                            *)
IntelDown(c, reset) ==
  LET jumbo == IF c.mac >= pch2lan /\ c.jumbo THEN LvJumboWorkaround(c, FALSE) ELSE Ok(c)
  IN Always(jumbo, LAMBDA d : IF reset THEN IntelReset(d) ELSE Ok(d))

(* intelCheckLink(): there is link unless get_link_status is set.           *)
IntelCheckLink(c) == Ignore(CheckForCopperLink(c))

(* e1000e_power_up_phy(): the link is set up again as well.                  *)
PowerUp(c) == Always(PowerUpPhy(c), SetupLink)

(* intelEnable().                                                           *)
IntelEnable(c) ==
  LET resume(d) == ResumeWorkarounds(d)
      up == Always(Always(Always(IntelCheckLink(c), PhyHwReset), resume), PowerUp)
  IN Put(Ignore(Always(Always(up, IntelReset), IntelConfigure)), [gls |-> TRUE])

(* Mutant of IntelDisable: wake-up is armed on a chip that is then reset.   *)
IntelDisableLate(c, wol) ==
  IF wol /\ c.apm
    THEN Always(IF c.phyWake THEN InitPhyWakeup(c) ELSE InitMacWakeup(c), LAMBDA d : IntelDown(d, TRUE))
    ELSE Always(IntelDown(c, TRUE), PowerDownPhy)

(* intelDisable(): for wake-up the link is kept at low speed, else the PHY   *)
(* is powered down and, on pch_spt, put into ULP.                           *)
IntelDisable(c, wol) ==
  LET quiet == Always(IntelDown(c, FALSE), IntelSetupRxControl)
      arm(d) == IF d.phyWake THEN InitPhyWakeup(d) ELSE InitMacWakeup(d)
      ulp(d) == IF d.mac >= pch_spt THEN EnableUlp(d) ELSE Ok(d)
      off == Put(IntelDown(c, TRUE), [wuc |-> FALSE])
  IN Ignore(IF wol /\ c.apm
              THEN Always(Always(quiet, SuspendWorkarounds), arm)
              ELSE Always(Always(off, PowerDownPhy), ulp))

(* intelRestart() does not switch the work-around off first.                *)
IntelRestart(c) ==
  Put(Ignore(Always(IntelReset(c), IntelConfigure)), [gls |-> TRUE])

SetLinkDown(c) == Ignore(Always(IntelDown(c, TRUE), IntelConfigure))

(* intelPhyReadStatus(): eight registers of a PHY with link, for a snapshot. *)
PhyReadStatus(c) ==
  IF c.link = "none" THEN Ok(c) ELSE Tries(c, <<None, None, None, None, None, None, None, None>>)
SetLinkUp(c) == Ignore(Always(Always(PhyReadStatus(c), GetLinkUpInfo), CheckDownshift))

(* intelStart(): the NVM is read three times; if it is not valid the PHY is  *)
(* reset a last time.  struct e1000_hw starts from zero.                    *)
IntelStart(c) ==
  LET zero == [Fresh(c) EXCEPT !.ulpState = "unknown", !.gls = FALSE, !.want = "auto",
                               !.jumbo = FALSE]
      failed(d) == UNION {Failure(e) : e \in IF d.blocked THEN Ok(d) ELSE PhyHwReset(d)}
      nvm(d) == Ok(d) \cup Always(Fault(d), failed)
  IN Then(GetVariants(zero), LAMBDA d : Then(Always(ResetHw(d), nvm), IntelReset))

(***************************************************************************)
(* Handlers.                                                               *)
(***************************************************************************)
Init ==
  /\ \E p \in Parts, ulp \in BOOLEAN :
       chip = PowerOn(p, ulp /\ p.mac >= pch_lpt /\ p.ulpCap)
  /\ phase = "out" /\ linkUp = FALSE /\ wolActive = FALSE

Start ==
  /\ phase = "out"
  /\ \E d \in IntelStart(chip) :
       /\ chip' = [d EXCEPT !.err = FALSE]
       /\ phase' = IF d.err THEN "out" ELSE "down"
  /\ wolActive' = FALSE
  /\ UNCHANGED linkUp

Stop ==
  /\ phase = "down"
  /\ phase' = "out"
  /\ UNCHANGED <<chip, linkUp, wolActive>>

Enable ==
  /\ phase = "down"
  /\ chip' \in IntelEnable(Fresh(chip))
  /\ phase' = "up"
  /\ UNCHANGED <<linkUp, wolActive>>

Disable ==
  /\ phase = "up"
  /\ chip' \in IntelDisable(Session(chip), wolActive)
  /\ phase' = "down" /\ linkUp' = FALSE
  /\ UNCHANGED wolActive

(* systemWillShutdown(): before power off wake-up from S5 may be enabled.   *)
SystemWillShutdown ==
  /\ phase = "up"
  /\ \E s5 \in BOOLEAN :
       /\ wolActive' = (wolActive \/ s5)
       /\ chip' \in IntelDisable(Session(chip), wolActive')
  /\ phase' = "out" /\ linkUp' = FALSE

(* The watchdog or an uncorrectable error of the packet buffer.             *)
Restart ==
  /\ phase = "up"
  /\ chip' \in IntelRestart(Session(chip))
  /\ linkUp' = FALSE
  /\ UNCHANGED <<phase, wolActive>>

(* selectMedium() of an interface that is up.                               *)
SelectMedium(m) ==
  /\ phase = "up"
  /\ chip' \in IntelRestart([Session(chip) EXCEPT !.want = m])
  /\ linkUp' = FALSE
  /\ UNCHANGED <<phase, wolActive>>

(* setMaxPacketSize(): by way of setLinkDown(), the MTU is the new one.     *)
SetMaxPacketSize(jumbo) ==
  /\ phase = "up"
  /\ chip' \in Always(SetLinkDown([Session(chip) EXCEPT !.jumbo = jumbo]), IntelRestart)
  /\ linkUp' = FALSE
  /\ UNCHANGED <<phase, wolActive>>

(* setWakeOnMagicPacket() where the adapter can wake the system.            *)
SetWakeOnMagicPacket ==
  /\ phase = "up"
  /\ wolActive' = ~wolActive
  /\ UNCHANGED <<chip, phase, linkUp>>

(* checkLinkStatus() after the interrupt for a link status change.          *)
CheckLinkStatus ==
  /\ phase = "up" /\ chip.lsc
  /\ LET c == [Session(chip) EXCEPT !.gls = TRUE, !.lsc = FALSE]
         speed == IF c.link = "none" THEN GigDownshiftWorkaround(c) ELSE {c}
     IN \E d \in Always(speed, IntelCheckLink) :
          /\ linkUp' = (~linkUp /\ ~d.gls)
          /\ chip' \in IF linkUp THEN IF d.gls THEN SetLinkDown(d) ELSE IntelRestart(d)
                       ELSE IF d.gls THEN {d} ELSE SetLinkUp(d)
  /\ UNCHANGED <<phase, wolActive>>

(***************************************************************************)
(* Link partner and firmware.                                              *)
(***************************************************************************)
LinkComes(l) ==
  /\ chip.link = "none" /\ CanLink(chip, l)
  /\ chip' = [chip EXCEPT !.link = l, !.lsc = TRUE]
  /\ UNCHANGED <<phase, linkUp, wolActive>>

LinkGoes ==
  /\ chip.link # "none"
  /\ chip' = [chip EXCEPT !.link = "none", !.lsc = TRUE]
  /\ UNCHANGED <<phase, linkUp, wolActive>>

(* A redirection session of the ME begins or ends.                          *)
MeBlocks ==
  /\ chip.me
  /\ chip' = [chip EXCEPT !.blocked = ~@]
  /\ UNCHANGED <<phase, linkUp, wolActive>>

Next ==
  \/ Start \/ Stop \/ Enable \/ Disable \/ SystemWillShutdown
  \/ Restart \/ SetWakeOnMagicPacket \/ CheckLinkStatus
  \/ \E m \in Media : SelectMedium(m)
  \/ \E jumbo \in BOOLEAN : SetMaxPacketSize(jumbo)
  \/ \E l \in Links \ {"none"} : LinkComes(l)
  \/ LinkGoes \/ MeBlocks

Spec == Init /\ [][Next]_vars

(***************************************************************************)
(* Properties.                                                             *)
(***************************************************************************)
Undisturbed == phase = "up" /\ ~chip.hit

(* Whatever an earlier session, a fault in it or the firmware has left, an   *)
(* enabled interface whose own session met no fault has a PHY that can be    *)
(* reached, that is out of SMBus mode, ULP, power down and the Sx set-up,    *)
(* that configures itself only where it should (gate), and gigabit is on.    *)
PhyUsable ==
  Undisturbed =>
    /\ ~chip.macSmb /\ ~chip.phySmb
    /\ ~chip.ulp /\ ~chip.pdown /\ ~chip.sx
    /\ ~(NonManaged82579(chip) /\ chip.gate)
    /\ ~chip.low /\ ~chip.gbeDis

(* ulp_state: a PHY that the driver takes for out of ULP is out of it: the   *)
(* driver would not try to get it out again.                                *)
UlpBelief == chip.ulpState = "off" => ~chip.ulp

(* A disabled interface is armed for wake-up just when that was asked for    *)
(* and the NVM allows it, and then its PHY is powered and can be reached.    *)
WakeArmed ==
  phase = "down" /\ ~chip.hit =>
    LET armed == chip.wuc /\ (chip.phyWake => chip.hostWu) IN
    /\ armed = (wolActive /\ chip.apm)
    /\ armed => ~chip.pdown /\ ~chip.ulp /\ Reachable(chip)

K1Wanted(c) ==
  CASE c.mac = pchlan -> c.link # "1000full"
    [] c.mac = pch2lan -> c.link = "10half"
    [] c.mac = pch_lpt /\ c.ulpCap -> c.link # "1000full"
    [] OTHER -> c.k1

(* With the link reported up, K1, inter-packet gap and pointer gap are those *)
(* that the errata prescribe for the speed of this link, not of the last.    *)
LinkTuned ==
  Undisturbed /\ linkUp /\ ~chip.lsc =>
    /\ chip.link # "none"
    /\ chip.k1 = K1Wanted(chip)
    /\ chip.mac >= pch2lan => chip.ipg = Tipg(chip)
    /\ chip.mac >= pch_spt /\ chip.link = "1000full" => chip.gap >= 24

(* MAC and PHY agree on jumbo frames, as the MTU has it, and the Rx path is  *)
(* open; they agree on the speed, as the medium has it.                      *)
HalvesAgree ==
  Undisturbed =>
    /\ chip.mac >= pch2lan => chip.jmac = chip.jumbo /\ chip.jphy = chip.jumbo
    /\ chip.rx
    /\ chip.told = chip.want
    /\ chip.frc = (chip.want = "forced10")
===============================================================================
