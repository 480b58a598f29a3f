------------------------------- MODULE Ich8lan --------------------------------
(***************************************************************************)
(* What ich8lan.c does to the whole chip: identification, reset,             *)
(* initialisation, the work-arounds before and after sleep, power of the    *)
(* PHY and wake-up by the PHY.                                              *)
(***************************************************************************)
EXTENDS Copper

(***************************************************************************)
(* Identification: e1000_get_variants_ich8lan.                             *)
(***************************************************************************)
(* e1000e_get_phy_id: an id of all zeros or all ones, which is what a PHY   *)
(* gives that needs slow mode, is read again and then taken.                *)
GetPhyId(c) == Writes(c, <<None, None>>)

(* A later chip has told its id when it was found accessible, or tells it in *)
(* slow mode; so does a pchlan that gave none before.  An unknown id, such   *)
(* as the one of a PHY that cannot be reached, is an error.                 *)
InitPhyParamsPchlan(c) ==
  LET slow(d) == Then(SlowMode(d), GetPhyId)
      first(d) == IF d.mac = pchlan THEN GetPhyId(d) ELSE Ok(d)
      id(d) == IF Reachable(d) THEN Then(first(d), LAMBDA e : Ok(e) \cup slow(e))
               ELSE Failure(d)
  IN Then(InitPhyWorkarounds(c), id)

(* e1000e_determine_phy_address: every address is asked ten times for an id  *)
(* that is known, whatever becomes of the accesses.                         *)
DeterminePhyAddress(c) == Ok(c) \cup Fault(c)

(* Once with the accesses of an igp, once with those of a bm; then the id is *)
(* read at the address that was found.                                      *)
InitPhyParamsIch8lan(c) ==
  Then(OrElse(DeterminePhyAddress(c), DeterminePhyAddress), GetPhyId)

GetVariants(c) ==
  IF c.mac >= pchlan THEN InitPhyParamsPchlan(c) ELSE InitPhyParamsIch8lan(c)

(***************************************************************************)
(* Reset and initialisation.                                               *)
(***************************************************************************)
(* e1000_reset_hw_ich8lan: the MAC is reset whether or not the semaphore    *)
(* was acquired, the PHY with it unless that is blocked.  A pchlan that     *)
(* cannot read K1 from the NVM returns before the reset.                    *)
ResetHw(c) ==
  LET nvm == IF c.mac = pchlan THEN Ok(c) \cup Fault(c) ELSE Ok(c)
      reset(d) == IF d.blocked THEN d ELSE PhyReset(GateNonManaged(d, TRUE))
      cfg(d) == IF d.blocked THEN Ok(d) ELSE Then(GetCfgDone(d), PostPhyReset)
  IN Then(nvm, LAMBDA d :
       Always(Acquire(d), LAMBDA e : Always(MacReset(reset(e)), cfg)))

(* e1000_init_hw_ich8lan.  The 82578 has to lose its host wake-up bit and   *)
(* to be reset again.                                                       *)
InitHw(c) ==
  LET again == IF c.phy = "82578" THEN Always(ClearHostWu(c), PhyHwReset) ELSE Ok(c)
  IN Then(again, SetupLink)

(***************************************************************************)
(* Sleep.                                                                  *)
(***************************************************************************)
WriteSmbusAddr(c) == Writes(c, <<None, None>>)

(* EEE in Sx, and where there is no ME the Rapid Start set-up, of an i217.  *)
SuspendI217(c) ==
  LET sx(d) == Tries(d, <<[sx |-> ~d.me]>>)
  IN IF c.phy # "i217" THEN Ok(c)
     ELSE Ignore(Locked([c EXCEPT !.k1 = TRUE], LAMBDA d : Then(Read(d), sx)))

(* e1000_suspend_workarounds_ich8lan: gigabit is disabled whatever the i217 *)
(* part came to.  A pchlan needs a reset to take over its OEM bits.         *)
SuspendWorkarounds(c) ==
  LET off(d) == GigDownshiftWorkaround([d EXCEPT !.gbeDis = TRUE])
      reset(d) == IF d.mac = pchlan THEN HwResetGeneric(d) ELSE Ok(d)
      pch(d) == Always(Always(OemBitsConfig(d, FALSE), reset),
                       LAMBDA e : Locked(e, WriteSmbusAddr))
  IN Always(Always(SuspendI217(c), off), LAMBDA d : IF d.mac >= pchlan THEN pch(d) ELSE Ok(d))

(* e1000_resume_workarounds_pchlan.                                         *)
ResumeWorkarounds(c) ==
  LET sx(d) == Then(Tries(d, <<None>>), LAMBDA e :
                 Then(IF e.me THEN Ok(e) ELSE Modify(e, [sx |-> FALSE]), Read))
  IN IF c.mac < pch2lan THEN Ok(c)
     ELSE Then(InitPhyWorkarounds(c), LAMBDA d : IF d.phy = "i217" THEN Locked(d, sx) ELSE Ok(d))

(***************************************************************************)
(* Power of the PHY.                                                       *)
(***************************************************************************)
(* e1000_power_up_phy_copper: BMCR is written back as it was read, as zero  *)
(* if it could not be read, which is 10 Mb/s without autonegotiation.       *)
PowerUpPhy(c) ==
  Always(Read(c), LAMBDA d :
    Tries(d, <<[pdown |-> FALSE, told |-> IF d.err THEN "forced10" ELSE d.told]>>))

(* hw->mac.ops.check_mng_mode: an ME with valid firmware manages the part.   *)
CheckMngMode(c) == c.me

(* e1000_power_down_phy_copper_ich8lan: not while the ME manages or blocks  *)
(* the PHY.                                                                 *)
PowerDownPhy(c) ==
  IF CheckMngMode(c) \/ c.blocked THEN Ok(c)
  ELSE Always(Read(c), LAMBDA d :
         Tries(d, <<[pdown |-> TRUE, link |-> "none",
                     told |-> IF d.err THEN "forced10" ELSE d.told]>>))

(***************************************************************************)
(* Wake-up.                                                                *)
(***************************************************************************)
(* e1000_copy_rx_addrs_to_phy_ich8lan reports nothing.                      *)
CopyRxAddrsToPhy(c) == Ignore(Locked(c, LAMBDA d : Writes(d, <<None, None>>)))

(* IntelMausi::intelInitPhyWakeup: the wake-up page is opened, filled and   *)
(* activated; errors before that leave the adapter without wake-up.         *)
InitPhyWakeup(c) ==
  LET open(d) == Writes(d, <<None, None>>)
      activate(d) == Access([d EXCEPT !.wuc = TRUE], [hostWu |-> TRUE])
  IN Ignore(Always(CopyRxAddrsToPhy(c), LAMBDA d : Locked(d, LAMBDA e : Then(open(e), activate))))

(* IntelMausi::intelInitMacWakeup.                                          *)
InitMacWakeup(c) == Ok([c EXCEPT !.wuc = TRUE])
===============================================================================
