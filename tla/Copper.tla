-------------------------------- MODULE Copper --------------------------------
(***************************************************************************)
(* The copper link (phy.c, ich8lan.c): what the PHY and the MAC are told     *)
(* when the link is set up, and what is adjusted when it comes up: K1,       *)
(* inter-packet gap, pointer gap, the jumbo frame work-around.  Advertised   *)
(* pauses and EEE are the subject of Link.                                  *)
(***************************************************************************)
EXTENDS Ich8lanPhy

(***************************************************************************)
(* Set-up.                                                                 *)
(***************************************************************************)
(* e1000e_phy_has_link_generic reads BMSR twice; a failing first read is    *)
(* not an error.  phy_link is its *success.                                 *)
HasLink(c) == Always(Read(c), Read)
PhyLink(c) == c.link # "none"

SetMasterSlaveMode(c) == Writes(c, <<None, None>>)

(* CRS and downshift, MDI-X, master or slave.                               *)
CopperLinkSetup82577(c) ==
  Then(Writes(c, <<None, None, None, None>>), SetMasterSlaveMode)

(* MDI-X, polarity and downshift take effect with a reset; an 82578 gets    *)
(* its downshift count after it.                                            *)
CopperLinkSetupM88(c) ==
  Then(Then(Writes(c, <<None, None>>), SwReset),
       LAMBDA d : IF d.phy = "82578" THEN Writes(d, <<None, None>>) ELSE Ok(d))

(* The PHY is reset first; master and slave are left to autonegotiation.    *)
CopperLinkSetupIgp(c) ==
  LET mdix(d) == Writes(d, <<None, None>>)
      smart(d) == IF d.want = "gigabit" THEN Writes(d, <<None, None, None, None>>) ELSE Ok(d)
      master(d) == IF d.want = "forced10" THEN Ok(d) ELSE Then(smart(d), SetMasterSlaveMode)
  IN Then(Then(Then(PhyHwReset(c), D0LpluOff), mdix), master)

CopperLinkSetupIfe(c) == Writes(c, <<None, None>>)

(* e1000_phy_setup_autoneg and e1000_copper_link_autoneg: it is not waited  *)
(* for the result.                                                          *)
SetupAutoneg(c) == Writes(c, <<None, None, None, None>>)
CopperLinkAutoneg(c) ==
  Then(SetupAutoneg(c),
       LAMBDA d : Writes(d, <<None, [told |-> d.want, link |-> "none", lsc |-> TRUE]>>))

(* Mutant of ForceSetup: the MAC detects the speed.                         *)
ForceSetupPhyOnly(c) ==
  Access(c, [told |-> "forced10", link |-> "none", lsc |-> TRUE])

(* e1000e_phy_force_speed_duplex_setup between the read and the write of    *)
(* BMCR: the MAC is forced before the PHY is.                               *)
ForceSetup(c) ==
  Access([c EXCEPT !.frc = TRUE], [told |-> "forced10", link |-> "none", lsc |-> TRUE])

(* With a forced speed MDI is forced as well: before BMCR on bm and 82578,  *)
(* which then commit, after it on igp and ife.                              *)
ForceSpeedDuplexIgp(c) ==
  Then(Then(Read(c), ForceSetup), LAMBDA d : Writes(d, <<None, None>>))
ForceSpeedDuplexIfe(c) == ForceSpeedDuplexIgp(c)
ForceSpeedDuplexM88(c) ==
  Then(Then(Writes(c, <<None, None, None>>), ForceSetup), SwReset)
ForceSpeedDuplex82577(c) == Then(Read(c), ForceSetup)

ForceSpeedDuplex(c) ==
  CASE c.phy = "igp_3" -> ForceSpeedDuplexIgp(c)
    [] c.phy = "ife" -> ForceSpeedDuplexIfe(c)
    [] c.phy \in {"bm", "82578"} -> ForceSpeedDuplexM88(c)
    [] OTHER -> ForceSpeedDuplex82577(c)

(* e1000e_setup_copper_link.                                                *)
SetupCopperLinkGeneric(c) ==
  LET auto(d) == Then(CopperLinkAutoneg(d), LAMBDA e : Ok([e EXCEPT !.gls = TRUE]))
  IN Then(IF c.want = "forced10" THEN ForceSpeedDuplex(c) ELSE auto(c), HasLink)

(* e1000_setup_copper_link_ich8lan and its short form for pch_lpt.          *)
SetupCopperLink(c) ==
  LET free == [c EXCEPT !.frc = FALSE]
      kmrn(d) == IF d.mac < pch_lpt THEN Writes(d, <<None, None, None>>) ELSE Ok(d)
      phy(d) == CASE d.phy = "igp_3" -> CopperLinkSetupIgp(d)
                  [] d.phy \in {"bm", "82578"} -> CopperLinkSetupM88(d)
                  [] d.phy = "ife" -> CopperLinkSetupIfe(d)
                  [] OTHER -> CopperLinkSetup82577(d)
  IN Then(Then(kmrn(free), phy), SetupCopperLinkGeneric)

(* e1000_setup_link_ich8lan: nothing is set up while resets are blocked.    *)
(* The pause time of a PCH goes to the PHY as well.                         *)
SetupLink(c) ==
  IF c.blocked THEN Ok(c)
  ELSE Then(SetupCopperLink(c), LAMBDA d : IF d.mac >= pchlan THEN Read(d) ELSE Ok(d))

(***************************************************************************)
(* Information about the cable: an error unless there is link.              *)
(***************************************************************************)
CheckPolarityIgp(c) == Writes(c, <<None, None>>)
CheckPolarity(c) == Read(c)
CheckPolarity82577(c) == Read(c)

CheckDownshift(c) ==
  IF c.phy \in {"bm", "82578", "igp_3"} THEN Read(c) ELSE Ok(c)

(* A cable length out of the table is an error too.                         *)
OutOfTable(c) == Ok(c) \cup Fault(c)
GetCableLengthIgp2(c) == Then(Writes(c, <<None, None, None, None>>), OutOfTable)
GetCableLengthM88(c) == Then(Read(c), OutOfTable)
GetCableLength82577(c) == Then(Read(c), OutOfTable)

(* What the functions for the single PHYs have in common: the length of the  *)
(* cable and the state of both receivers are known at gigabit only.          *)
WithLink(c, Info(_)) ==
  Then(HasLink(c), LAMBDA d : IF PhyLink(d) THEN Info(d) ELSE Failure(d))
Cable(c, Length(_)) == IF c.link = "1000full" THEN Then(Length(c), Read) ELSE Ok(c)

GetPhyInfoM88(c) ==
  LET info(d) == Then(Then(Read(d), CheckPolarity), Read)
  IN WithLink(c, LAMBDA d : Then(info(d), LAMBDA e : Cable(e, GetCableLengthM88)))
GetPhyInfoIgp(c) ==
  LET info(d) == Then(CheckPolarityIgp(d), Read)
  IN WithLink(c, LAMBDA d : Then(info(d), LAMBDA e : Cable(e, GetCableLengthIgp2)))
(* An ife may have its polarity forced.                                     *)
GetPhyInfoIfe(c) ==
  WithLink(c, LAMBDA d : Then(Then(Read(d), LAMBDA e : Ok(e) \cup CheckPolarity(e)), Read))
GetPhyInfo82577(c) ==
  LET info(d) == Then(CheckPolarity82577(d), Read)
  IN WithLink(c, LAMBDA d : Then(info(d), LAMBDA e : Cable(e, GetCableLength82577)))

GetPhyInfo(c) ==
  CASE c.phy = "igp_3" -> GetPhyInfoIgp(c)
    [] c.phy = "ife" -> GetPhyInfoIfe(c)
    [] c.phy \in {"bm", "82578"} -> GetPhyInfoM88(c)
    [] OTHER -> GetPhyInfo82577(c)

(***************************************************************************)
(* Link up.                                                                *)
(***************************************************************************)
(* e1000_link_stall_workaround_hv: at gigabit the FIFO is flushed.          *)
LinkStallWorkaroundHv(c) ==
  IF c.phy # "82578" THEN Ok(c)
  ELSE Then(Then(Ignore(Read(c)), Read),
            LAMBDA d : IF d.link = "1000full" THEN Writes(d, <<None, None>>) ELSE Ok(d))

(* Mutant of K1WorkaroundLv: at 100 Mb/s K1 stays.                          *)
K1WorkaroundLvGigabit(c) ==
  IF c.mac # pch2lan THEN Ok(c)
  ELSE Then(Read(c), LAMBDA d :
         IF d.link = "1000full" THEN Writes(d, <<None, [k1 |-> FALSE]>>) ELSE Ok(d))

(* e1000_k1_workaround_lv: no K1 at 100 Mb/s and at 1 Gb/s.                 *)
K1WorkaroundLv(c) ==
  IF c.mac # pch2lan THEN Ok(c)
  ELSE Then(Read(c), LAMBDA d :
         IF d.link \in {"100full", "1000full"} THEN Writes(d, <<None, [k1 |-> FALSE]>>)
         ELSE Ok(d))

(* e1000_k1_workaround_lpt_lp, for an I218: at gigabit K1 is switched off   *)
(* for as long as it takes to keep the PLL running; k1 stands for the PLL   *)
(* request, the error of the last access leaves it set.                     *)
K1WorkaroundLptLp(c) ==
  LET pll(d) == Then(Writes(d, <<None, None>>),
                     LAMBDA e : Access([e EXCEPT !.k1 = FALSE], None))
      slow(d) == Then(IF d.link = "10half" THEN Writes(d, <<None, None>>) ELSE Ok(d),
                      LAMBDA e : Ok([e EXCEPT !.k1 = TRUE]))
  IN IF c.mac # pch_lpt \/ ~c.ulpCap THEN Ok(c)
     ELSE IF c.link = "1000full" THEN Locked(c, pll) ELSE slow(c)

(* e1000_set_eee_pchlan; what it enables is in Link.                        *)
SetEee(c) ==
  IF c.phy # "i217" THEN Ok(c)
  ELSE Locked(c, LAMBDA d : Writes(d, <<None, None, None, None, None>>))

Tipg(c) ==
  IF c.link = "10half" THEN "10half"
  ELSE IF c.mac >= pch_spt /\ c.link = "100full" THEN "slow" ELSE "default"

(* The pointer gap of pch_spt: at gigabit at least 24.                      *)
PtrGap(c) ==
  IF c.mac < pch_spt THEN Ok(c)
  ELSE IF c.link = "1000full"
    THEN Locked(c, LAMBDA d : Then(Read(d), LAMBDA e :
                                IF e.gap < 24 THEN Access(e, [gap |-> 24]) ELSE Ok(e)))
    ELSE Locked(c, LAMBDA d : Access(d, [gap |-> 8]))

(* The MAC's inter-packet gap and the latency of the PHY belong together.   *)
InterPacketGap(c) ==
  IF c.mac < pch2lan \/ ~PhyLink(c) THEN Ok(c)
  ELSE Then(Locked([c EXCEPT !.ipg = Tipg(c)], LAMBDA d : Writes(d, <<None, None>>)), PtrGap)

(* Half duplex preambles of a PCH; not checked.                             *)
Preamble(c) == IF c.mac \in {pchlan, pch2lan} THEN Tries(c, <<None>>) ELSE Ok(c)

(* e1000_check_for_copper_link_ich8lan: get_link_status is cleared as soon  *)
(* as there is link, errors after that leave the rest undone.               *)
CheckForCopperLink(c) ==
  LET k1(d) == K1GigWorkaroundHv(d, PhyLink(d))
      up(d) == Then(Then(Then(Then(K1WorkaroundLv(d), LinkStallWorkaroundHv), Preamble),
                         LAMBDA e : Ignore(CheckDownshift(e))), SetEee)
      rest(d) == IF PhyLink(d) THEN up([d EXCEPT !.gls = FALSE]) ELSE Ok(d)
  IN IF ~c.gls THEN Ok(c)
     ELSE Then(Then(Then(Then(HasLink(c), k1), InterPacketGap), K1WorkaroundLptLp), rest)

(* e1000e_gig_downshift_workaround_ich8lan ignores its errors.              *)
GigDownshiftWorkaround(c) ==
  IF c.mac # ich8lan \/ c.phy = "ife" THEN Ok(c) ELSE Tries(c, <<None>>)

(* e1000_kmrn_lock_loss_workaround_ich8lan: the PHY is reset while the lock  *)
(* on the PCS is lost, or gigabit is given up after ten resets.             *)
KmrnLockLossWorkaround(c) ==
  LET lost(d) == Ignore(PhyHwReset([d EXCEPT !.hit = TRUE]))
      giveUp(d) == UNION {Failure(e) : e \in GigDownshiftWorkaround([d EXCEPT !.gbeDis = TRUE])}
      checked(d) == Writes(d, <<None, None>>)
  IN Always(HasLink(c), LAMBDA d :
       IF ~PhyLink(d) THEN Ok(d)
       ELSE Then(checked(d), LAMBDA e : Ok(e) \cup lost(e) \cup Always(lost(e), giveUp)))

(* e1000_get_link_up_info_ich8lan.                                          *)
GetLinkUpInfo(c) ==
  IF c.mac = ich8lan /\ c.phy = "igp_3" /\ c.link = "1000full"
    THEN KmrnLockLossWorkaround(c) ELSE Ok(c)

(***************************************************************************)
(* Jumbo frames.                                                           *)
(***************************************************************************)
E1000_TX_PTR_GAP == 31

(* e1000_lv_jumbo_workaround_ich8lan: the Rx path of the PHY is off while   *)
(* MAC, Kumeran interface and PHY are changed; an error leaves it off.      *)
LvJumboWorkaround(c, enable) ==
  LET mac(d) == Writes([d EXCEPT !.jmac = enable], <<None, None, None, None>>)
      phy(d) == Writes(d, <<None, [jphy |-> enable],
                            [gap |-> IF enable THEN E1000_TX_PTR_GAP ELSE 8],
                            None, None, [rx |-> TRUE]>>)
  IN IF c.mac < pch2lan THEN Ok(c)
     ELSE Then(Then(Access(c, [rx |-> FALSE]), mac), phy)
===============================================================================
