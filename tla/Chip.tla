--------------------------------- MODULE Chip ---------------------------------
(***************************************************************************)
(* The MAC and PHY of one adapter as the drivers' procedures see them, and   *)
(* how a procedure of phy.c, mac.c and ich8lan.c is written here.            *)
(*                                                                         *)
(* A chip is a record: what the part is, the registers that survive from one *)
(* procedure to the next, and what struct e1000_hw remembers of them.  A     *)
(* procedure is an operator from a chip to the set of chips it may leave;    *)
(* err is its return value.  Every access of the PHY may fail: a fault is    *)
(* chosen by the model and counted, a PHY that cannot be reached always      *)
(* fails.  Accesses themselves are the subject of PhyBus.                    *)
(***************************************************************************)
EXTENDS Integers, Sequences, FiniteSets, SequencesExt, TLC

CONSTANTS
  Parts,        \* the adapters that are looked at
  MaxFaults     \* accesses that fail

(* enum e1000_mac_type and enum e1000_phy_type, in their order.             *)
ich8lan == 1
ich9lan == 2
ich10lan == 3
pchlan == 4
pch2lan == 5
pch_lpt == 6
pch_spt == 7
Phys == {"ife", "igp_3", "bm", "82578", "82577", "82579", "i217"}

(* What the medium asks for: autonegotiation of all speeds, of gigabit only *)
(* (half of the entries advertise one speed), or a forced speed.            *)
Media == {"auto", "gigabit", "forced10"}
Links == {"none", "10half", "100full", "1000full"}

ASSUME ChipAssumption ==
  /\ MaxFaults \in Nat
  /\ \A p \in Parts : /\ p.mac \in ich8lan .. pch_spt /\ p.phy \in Phys
                      /\ {p.me, p.ulpCap, p.apm, p.phyWake} \subseteq BOOLEAN

(* The members of a chip.  apm is the magic packet of eeprom_wol, which is   *)
(* all that wol can hold here, phyWake FLAG2_HAS_PHY_WAKEUP; ipg is TIPG and the EMI latency, gap the pointer *)
(* gap of PHY register 776.20, jmac and jphy the two halves of the jumbo    *)
(* frame work-around, rx the Rx path of the PHY, low the OEM bits that keep *)
(* gigabit off, told what the PHY was configured for, frc the forced speed  *)
(* of the MAC, sx the Rapid Start set-up, hit that the last procedure met a *)
(* fault or a firmware that blocks resets.                                  *)
ChipType == [
  mac : ich8lan .. pch_spt, phy : Phys, me : BOOLEAN, ulpCap : BOOLEAN,
  apm : BOOLEAN, phyWake : BOOLEAN,
  blocked : BOOLEAN, macSmb : BOOLEAN, phySmb : BOOLEAN, ulp : BOOLEAN,
  gate : BOOLEAN, gbeDis : BOOLEAN, low : BOOLEAN, pdown : BOOLEAN, sx : BOOLEAN,
  k1 : BOOLEAN, ipg : {"default", "slow", "10half"}, gap : {8, 24, 31},
  jmac : BOOLEAN, jphy : BOOLEAN, rx : BOOLEAN,
  hostWu : BOOLEAN, wuc : BOOLEAN, told : Media, frc : BOOLEAN, link : Links,
  lsc : BOOLEAN, ulpState : {"unknown", "off", "on"}, gls : BOOLEAN, want : Media,
  jumbo : BOOLEAN, err : BOOLEAN, hit : BOOLEAN, faults : 0 .. MaxFaults]

(* As the firmware hands the adapter over: nothing is known of ULP.         *)
PowerOn(p, ulp) == [
  mac |-> p.mac, phy |-> p.phy, me |-> p.me, ulpCap |-> p.ulpCap,
  apm |-> p.apm, phyWake |-> p.phyWake,
  blocked |-> FALSE, macSmb |-> ulp /\ ~p.me, phySmb |-> ulp /\ ~p.me, ulp |-> ulp,
  gate |-> FALSE, gbeDis |-> FALSE, low |-> FALSE, pdown |-> FALSE, sx |-> FALSE,
  k1 |-> TRUE, ipg |-> "default", gap |-> 8,
  jmac |-> FALSE, jphy |-> FALSE, rx |-> TRUE,
  hostWu |-> FALSE, wuc |-> FALSE, told |-> "auto", frc |-> FALSE, link |-> "none",
  lsc |-> FALSE, ulpState |-> "unknown", gls |-> FALSE, want |-> "auto",
  jumbo |-> FALSE, err |-> FALSE, hit |-> FALSE, faults |-> 0]

(* The e1000_info tables: FLAG2_HAS_EEE.                                    *)
HasEee(c) == c.mac >= pch2lan

(***************************************************************************)
(* Procedures.                                                             *)
(***************************************************************************)
None == [x \in {} |-> x]
Alter(c, new) == IF new = None THEN c ELSE new @@ c

Ok(c) == {[c EXCEPT !.err = FALSE]}
Failure(c) == {[c EXCEPT !.err = TRUE]}
Fault(c) ==
  IF c.faults < MaxFaults
    THEN {[c EXCEPT !.err = TRUE, !.hit = TRUE, !.faults = @ + 1]} ELSE {}

(* ret_val = ...; if (ret_val) return ret_val; ...                           *)
Then(S, Op(_)) == UNION {IF c.err THEN {c} ELSE Op(c) : c \in S}
(* A call whose result is not looked at.                                    *)
Always(S, Op(_)) == UNION {Op(c) : c \in S}
(* What is done only after an error.                                        *)
OrElse(S, Op(_)) == UNION {IF c.err THEN Op(c) ELSE {c} : c \in S}
(* Assignments to registers of the MAC and to members cannot fail.          *)
Put(S, new) == {Alter(c, new) : c \in S}
(* The procedure goes on as if nothing had failed.                          *)
Ignore(S) == {[c EXCEPT !.err = FALSE] : c \in S}

Reachable(c) == c.macSmb = c.phySmb

(* One access of the PHY that gives registers the values in new.            *)
Access(c, new) ==
  IF Reachable(c) THEN {Alter([c EXCEPT !.err = FALSE], new)} \cup Fault(c)
  ELSE Failure(c)
Read(c) == Access(c, None)
Acquire(c) == Ok(c) \cup Fault(c)

(* A sequence of accesses, each checked, or none of them.                   *)
Writes(c, ws) == FoldLeft(LAMBDA S, w : Then(S, LAMBDA d : Access(d, w)), Ok(c), ws)
Tries(c, ws) ==
  Ignore(FoldLeft(LAMBDA S, w : Always(S, LAMBDA d : Access(d, w)), Ok(c), ws))

(* Read, modify, write, of which only the read is checked.                  *)
Modify(c, new) == Then(Read(c), LAMBDA d : Tries(d, <<new>>))

(* acquire; body; release.                                                  *)
Locked(c, Body(_)) == Then(Acquire(c), Body)

(***************************************************************************)
(* Hardware.                                                               *)
(***************************************************************************)
UlpChip(c) == c.mac >= pch_lpt /\ c.ulpCap

(* A PHY that is reset forgets all but the SMBus mode, the OEM bits and the  *)
(* wake-up enable bits, and negotiates again.                               *)
PhyReset(c) == Alter(c, [
  pdown |-> FALSE, gap |-> 8, jphy |-> FALSE, rx |-> TRUE,
  told |-> "auto", link |-> "none", lsc |-> TRUE,
  k1 |-> IF c.mac >= pch2lan THEN TRUE ELSE c.k1])

(* LANPHYPC power-cycles it.                                                *)
PowerCycle(c) == Alter(PhyReset(c),
  [phySmb |-> FALSE, ulp |-> FALSE, low |-> FALSE, hostWu |-> FALSE, sx |-> FALSE])

(* CTRL.RST loads the MAC from the NVM; whether FORCE_SMBUS survives is not *)
(* relied upon.                                                             *)
MacReset(c) ==
  {Alter(c, [gbeDis |-> FALSE, jmac |-> FALSE, frc |-> FALSE, ipg |-> "default",
             macSmb |-> smb, lsc |-> TRUE]) : smb \in {FALSE, c.macSmb}}

(* The link that a PHY set up as it is can reach with this partner.         *)
CanLink(c, l) ==
  /\ ~c.pdown /\ ~c.ulp
  /\ CASE l = "1000full" -> c.told # "forced10" /\ ~c.low /\ c.phy # "ife"
       [] l = "100full" -> c.told = "auto"
       [] l = "10half" -> c.told # "gigabit"
       [] OTHER -> TRUE
===============================================================================
