------------------------------ MODULE Ich8lanPhy ------------------------------
(***************************************************************************)
(* How ich8lan.c gets at the PHY and brings it out of a reset: SMBus mode,   *)
(* ultra low power (ULP), the resets, the configuration that software loads *)
(* after them and the work-arounds of each chip set.                        *)
(***************************************************************************)
EXTENDS Chip

(* FWSM.RSPCIPHY does not change while it is polled for.                    *)
CheckResetBlock(c) == IF c.blocked THEN Failure(c) ELSE Ok(c)

Gate(c, gate) == IF c.mac < pch2lan THEN c ELSE [c EXCEPT !.gate = gate]
NonManaged82579(c) == c.mac = pch2lan /\ ~c.me
GateNonManaged(c, gate) == IF NonManaged82579(c) THEN Gate(c, gate) ELSE c

SlowMode(c) == Writes(c, <<None, None>>)

(***************************************************************************)
(* Reset of the PHY.                                                       *)
(***************************************************************************)
(* e1000e_phy_init_script_igp3: the speed is forced before the registers    *)
(* that depend on it, the last write restarts autonegotiation.              *)
PhyInitScriptIgp3(c) ==
  Tries(c, <<None, [told |-> "gigabit"], None, [told |-> "auto"]>>)

(* e1000_get_cfg_done_ich8lan: from ich10 on without a valid NVM bank it    *)
(* is an error; an igp_3 without NVM gets its script.                       *)
GetCfgDone(c) ==
  IF c.mac >= ich10lan THEN Ok(c) \cup Fault(c)
  ELSE Ok(c) \cup (IF c.phy = "igp_3" THEN PhyInitScriptIgp3(c) ELSE {})

(* e1000e_phy_hw_reset_generic: a blocked reset is not an error.            *)
HwResetGeneric(c) ==
  IF c.blocked THEN Ok(c)
  ELSE Then(Locked(c, LAMBDA d : Ok(PhyReset(d))), GetCfgDone)

(* e1000e_phy_sw_reset commits what was written before it: BMCR and the     *)
(* specific control registers keep their contents.                          *)
SwReset(c) == Writes(c, <<None, [link |-> "none", lsc |-> TRUE]>>)

(* e1000_configure_k1_ich8lan: Kumeran registers, then the speed is forced  *)
(* for a moment to make the MAC take over the change.                       *)
ConfigureK1(c, k1) == Writes(c, <<None, [k1 |-> k1]>>)

(* K1 is off at 1 Gb/s, else as in the NVM, on here.                        *)
K1GigWorkaroundHv(c, link) ==
  IF c.mac # pchlan THEN Ok(c)
  ELSE Locked(c, LAMBDA d :
         Then(Writes(d, <<None, None>>),
              LAMBDA e : ConfigureK1(e, ~(link /\ e.link = "1000full"))))

(* e1000_hv_phy_workarounds_ich8lan.                                        *)
HvWorkarounds(c) ==
  LET slow == IF c.phy = "82577" THEN SlowMode(c) ELSE Ok(c)
      tune(d) == Writes(d, <<None, None>>)
      soft(d) == IF d.phy = "82578"
                   THEN Always(SwReset(d), LAMBDA e : Access(e, [told |-> "auto"]))
                   ELSE Ok(d)
      page(d) == Locked(d, Read)
      port(d) == Locked(d, LAMBDA e : Writes(e, <<None, None, None>>))
  IN Then(Then(Then(Then(Then(slow, tune), soft), page),
          LAMBDA d : K1GigWorkaroundHv(d, TRUE)), port)

LvWorkarounds(c) == Then(SlowMode(c), LAMBDA d : Locked(d, LAMBDA e : Writes(e, <<None, None>>)))

(* e1000_sw_lcd_config_ich8lan: SMBus address, LEDs and the extended        *)
(* configuration of the NVM, where there is one for the part.               *)
SwLcdConfig(c) ==
  IF c.mac \in {ich9lan, ich10lan} \/ (c.mac = ich8lan /\ c.phy # "igp_3") THEN Ok(c)
  ELSE Locked(c, LAMBDA d : Then(Ok(d) \cup Fault(d), LAMBDA e : Writes(e, <<None, None>>)))

(* Gigabit is off in D0 if PHY_CTRL says so, and in Dx because the NVM sets  *)
(* the NOND0A bits.  Writing the bits restarts autonegotiation.  An NVM that *)
(* leaves them to the hardware is not looked at.                            *)
OemBitsConfig(c, d0) ==
  LET restart == (d0 \/ c.mac # pchlan) /\ ~c.blocked
      bits == [low |-> ~d0 \/ c.gbeDis,
               link |-> IF restart THEN "none" ELSE c.link, lsc |-> c.lsc \/ restart]
  IN IF c.mac < pchlan THEN Ok(c) ELSE Locked(c, LAMBDA d : Writes(d, <<None, bits>>))

(* e1000_set_d0_lplu_state_ich8lan(false): SmartSpeed is left to the PHY.   *)
D0LpluOff(c) == IF c.phy = "igp_3" THEN Writes(c, <<None, None>>) ELSE Ok(c)

(* Clear the host wake-up bit; neither access is checked.                   *)
ClearHostWu(c) == Tries(c, <<[hostWu |-> FALSE]>>)

(* Mutant of PostPhyReset: an 82579 is not ungated afterwards.               *)
PostPhyResetGated(c) ==
  IF c.blocked THEN Ok(c)
  ELSE Then(Then(ClearHostWu(c), SwLcdConfig), LAMBDA d : OemBitsConfig(d, TRUE))

(* e1000_post_phy_reset_ich8lan.  On pch2lan the error of the OEM bits is    *)
(* overwritten by that of the last access.                                  *)
PostPhyReset(c) ==
  LET workarounds == IF c.mac = pchlan THEN HvWorkarounds(c)
                     ELSE IF c.mac = pch2lan THEN LvWorkarounds(c) ELSE Ok(c)
      wakeup(d) == IF d.mac >= pchlan THEN ClearHostWu(d) ELSE Ok(d)
      oem(d) ==
        IF d.mac # pch2lan THEN OemBitsConfig(d, TRUE)
        ELSE Always(OemBitsConfig(d, TRUE),
                    LAMBDA e : Locked(GateNonManaged(e, FALSE), LAMBDA f : Writes(f, <<None>>)))
  IN IF c.blocked THEN Ok(c)
     ELSE Then(Then(Then(workarounds, wakeup), SwLcdConfig), oem)

PhyHwReset(c) == Then(HwResetGeneric(GateNonManaged(c, TRUE)), PostPhyReset)

(***************************************************************************)
(* Reaching the PHY.                                                       *)
(***************************************************************************)
(* Results of the accesses to CV_SMB_CTRL are ignored.                      *)
UnforceSmbus(c) == Put(Tries(c, <<[phySmb |-> FALSE]>>), [macSmb |-> FALSE])

(* e1000_phy_is_accessible_pchlan.  From pch_lpt on a read that ends        *)
(* without an error and returns all ones counts as an answer.               *)
PhyIsAccessible(c) ==
  LET twice == OrElse(Read(c), Read)
      allOnes == IF c.mac >= pch_lpt /\ ~Reachable(c) THEN Ignore(Fault(c)) ELSE {}
      slow(d) == IF d.mac < pch_lpt THEN Then(SlowMode(d), Read) ELSE {d}
  IN Then(OrElse(twice, slow) \cup allOnes,
          LAMBDA d : IF d.mac >= pch_lpt /\ ~d.me THEN UnforceSmbus(d) ELSE Ok(d))

ForceMacSmbus(c) == [c EXCEPT !.macSmb = TRUE]

(* Mutant of DisableUlp: an error is forgotten.                             *)
DisableUlpBlind(c, force) ==
  IF ~UlpChip(c) \/ c.ulpState = "off" THEN Ok(c)
  ELSE {Alter(c, [ulp |-> c.ulp /\ c.me, ulpState |-> "off", err |-> FALSE])}

(* e1000_disable_ulp_lpt_lp: the ME, when there is one, is asked to; it may *)
(* not report that it is done.                                              *)
DisableUlp(c, force) ==
  LET smb(d) == OrElse(Read(d), LAMBDA e : Read(ForceMacSmbus(e)))
      quit(d) ==
        Then(UnforceSmbus(d),
             LAMBDA e : Then(Modify(e, [k1 |-> TRUE]), LAMBDA f : Modify(f, [ulp |-> FALSE])))
      session(d) == Then(smb(IF force THEN PowerCycle(d) ELSE d), quit)
      reset(d) == IF force THEN {[e EXCEPT !.err = d.err] : e \in PhyHwReset(d)} ELSE {d}
      byDriver == Then(Acquire(c), LAMBDA d : Always(session(d), reset))
      byMe == {Alter(c, [ulp |-> FALSE, err |-> FALSE])} \cup Fault(c)
  IN IF ~UlpChip(c) \/ c.ulpState = "off" THEN Ok(c)
     ELSE Then(IF c.me THEN byMe ELSE byDriver,
               LAMBDA d : Ok([d EXCEPT !.ulpState = "off"]))

(* e1000_enable_ulp_lpt_lp(false).  An error after the PHY and the MAC were *)
(* put into SMBus mode leaves both there.                                   *)
EnableUlp(c) ==
  LET session(d) ==
        Then(Modify(d, [phySmb |-> TRUE]),
             LAMBDA e : Modify(ForceMacSmbus(e), [ulp |-> TRUE]))
      byDriver == IF c.link # "none" THEN Failure(c) ELSE Locked(c, session)
  IN IF ~UlpChip(c) \/ c.ulpState = "on" THEN Ok(c)
     ELSE Then(IF c.me THEN Ok([c EXCEPT !.ulp = TRUE]) ELSE byDriver,
               LAMBDA d : Ok([d EXCEPT !.ulpState = "on"]))

(* LANPHYPC as the last resort of InitPhyWorkarounds.                       *)
ToggleLanphypc(c) ==
  IF c.blocked THEN Failure(c)
  ELSE IF c.mac < pch_lpt THEN Ok(PowerCycle(c))
  ELSE OrElse(PhyIsAccessible(PowerCycle(c)),
              LAMBDA d : PhyIsAccessible([d EXCEPT !.macSmb = FALSE]))

(* e1000_init_phy_workarounds_pchlan.                                       *)
InitPhyWorkarounds(c) ==
  LET start == [Gate(c, TRUE) EXCEPT !.ulpState = "unknown"]
      lpt(d) == IF d.mac >= pch_lpt
                  THEN OrElse(PhyIsAccessible(d), LAMBDA e : PhyIsAccessible(ForceMacSmbus(e)))
                  ELSE IF d.mac = pch2lan THEN PhyIsAccessible(d) ELSE Failure(d)
      reach(d) == OrElse(lpt(d), LAMBDA e :
                    IF e.mac = pchlan /\ e.me THEN Ok(e) ELSE ToggleLanphypc(e))
      reset(d) == IF d.blocked THEN Ok(d) ELSE Then(HwResetGeneric(d), CheckResetBlock)
  IN {GateNonManaged(d, FALSE) :
        d \in Always(DisableUlp(start, TRUE), LAMBDA d : Then(Locked(d, reach), reset))}
===============================================================================
