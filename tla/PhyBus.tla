-------------------------------- MODULE PhyBus --------------------------------
(***************************************************************************)
(* How the driver reaches a register of the PHY (phy.c, ich8lan.c).  The    *)
(* MDI control register takes a PHY address and one of 32 registers; the    *)
(* registers 16 .. 31 exist once per page, so that most accesses first      *)
(* write a page select register, those of the wake-up page 800 and of the   *)
(* EMI and debug ports an address register as well.  hw->phy.addr, the      *)
(* selected pages and the ports are shared by every thread of the driver    *)
(* and by the firmware (ME) and are protected by the bit                    *)
(* __E1000_ACCESS_SHARED_RESOURCE and by SWFLAG in EXTCNF_CTRL.             *)
(*                                                                         *)
(* An access of the driver is a program: a sequence of micro steps, each of *)
(* one access to shared state.  A step that fails goes where the C code     *)
(* goes.  Three families of accessors are modelled: igp (igp3, ife), bm and *)
(* hv (all PCH).                                                            *)
(***************************************************************************)
EXTENDS Integers, Sequences, FiniteSets

CONSTANTS
  Thread,       \* threads that call into hw->phy.ops at the same time
  Families,     \* of the accessors that are looked at
  Alone,        \* sessions of a family that do not overlap with another thread
  MaxFaults,    \* MDI accesses that fail
  None

ASSUME BusAssumption ==
  /\ Thread # {} /\ Families \subseteq {"igp", "bm", "hv"}
  /\ MaxFaults \in Nat

(* What the MDI control register (KMRNCTRLSTA: "kmrn", address 0) may hold,   *)
(* with what the access does to 769.17; None stands for no command.           *)
Acts == {"data", "save", "enable", "restore", "activate", "kmrn"}
Command == [t : Thread, addr : {0, 1, 2}, reg : Int, v : Int, act : Acts]

ASSUME NoCommand == None \notin Command

VARIABLES
  fam,          \* which accessors hw->phy.ops holds
  bit,          \* __E1000_ACCESS_SHARED_RESOURCE
  extcnf,       \* who holds the semaphore: "free", "sw" (SWFLAG) or "fw"
  phyAddr,      \* hw->phy.addr
  mdic,         \* command in the MDI control register, None when it is done
  sel,          \* page selected at PHY address 1 and 2
  port,         \* contents of the address registers of the indirect ports
  wuc,          \* 769.17: bits "en", "me" and "host"
  meant,        \* 769.17 as the last complete session leaves it
  thread,       \* what each thread does: session, index, saved 769.17
  stray,        \* accesses that reached another register than was meant
  faults        \* bound

busVars == <<fam, bit, extcnf, phyAddr, mdic, sel, port, wuc, meant, thread, stray,
          faults>>
lock == <<bit, extcnf>>
device == <<sel, port, wuc, meant>>

(***************************************************************************)
(* Programs.  "mdic" is one MDI access, of register reg, that is meant to   *)
(* reach the register goal and carries a page or an address v, or data; act *)
(* marks the accesses of 769.17.  err says where a failing step goes: "out" *)
(* to the release, "return", "next", or past the next access ("skip").      *)
(***************************************************************************)
Step(k, r, v, goal, err) ==
  [k |-> k, reg |-> r, v |-> v, goal |-> goal, act |-> "data", err |-> err]
Mdic(r, v, goal) == Step("mdic", r, v, goal, "out")
Enabling(act) == [Mdic(17, 0, <<"wuc">>) EXCEPT !.act = act]
Addr(a) == Step("addr", 0, a, None, "out")

MAX_PHY_MULTI_PAGE_REG == 15
IGP01E1000_PHY_PAGE_SELECT == 31
BM_PHY_PAGE_SELECT == 22
BM_PORT_CTRL_PAGE == 769
BM_WUC_PAGE == 800
HV_INTC_FC_PAGE_START == 768
Paged(reg) == reg > MAX_PHY_MULTI_PAGE_REG
Target(a, page, reg) == <<"reg", a, IF Paged(reg) THEN page ELSE 0, reg>>

Acquire(err) == [n \in 1 .. 4 |->
  Step(<<"tas", "wait", "set", "verify">>[n], 0, 0, None, err)]

Release == <<Step("rel", 0, 0, None, "next"), Step("clr", 0, 0, None, "next")>>

(* e1000_set_page_igp: it leaves phy.addr at 1.                              *)
SetPageIgp(page) ==
  <<Addr(1), Mdic(IGP01E1000_PHY_PAGE_SELECT, page, <<"sel", 1>>)>>

EnableWakeupAccess ==
  <<Addr(1)>> \o SetPageIgp(BM_PORT_CTRL_PAGE)
  \o <<Enabling("save"), Enabling("enable")>>
  \o SetPageIgp(BM_WUC_PAGE)

DisableWakeupAccess(what) ==
  SetPageIgp(BM_PORT_CTRL_PAGE) \o <<Enabling(what)>>

(* e1000_access_phy_wakeup_reg_bm: address and data opcode.                 *)
Wakeup(reg, err) ==
  <<Step("mdic", 17, reg, <<"addr", 800>>, err),
    Step("mdic", 18, 0, <<"wu", reg>>, IF err = "skip" THEN "next" ELSE err)>>

AccessWakeup(reg) ==
  EnableWakeupAccess \o Wakeup(reg, "out") \o DisableWakeupAccess("restore")

(* e1000_access_phy_debug_regs_hv.                                           *)
AccessDebug(reg) ==
  <<Addr(2), Mdic(16, reg, <<"addr", 2>>), Mdic(17, 0, <<"port", reg>>)>>

AddrForHvPage(page) == IF page >= HV_INTC_FC_PAGE_START THEN 1 ELSE 2

(* Mutant of HvPaged: phy.addr stays as e1000_set_page_igp leaves it.       *)
HvPagedOne(page, reg, a) ==
  IF Paged(reg) THEN SetPageIgp(IF page = HV_INTC_FC_PAGE_START THEN 0 ELSE page) ELSE <<>>

(* The page is selected at address 1 and the register reached at a.         *)
HvPaged(page, reg, a) ==
  IF Paged(reg)
    THEN SetPageIgp(IF page = HV_INTC_FC_PAGE_START THEN 0 ELSE page) \o <<Addr(a)>>
    ELSE <<>>

(* __e1000_read_phy_reg_hv and __e1000_write_phy_reg_hv between acquire and *)
(* release, without their first assignment of phy.addr.  off11 is the work- *)
(* around before bit 11 of the PHY control register of an 82578 is set.     *)
HvBody(page, reg, off11) ==
  IF page = BM_WUC_PAGE THEN AccessWakeup(reg)
  ELSE IF page > 0 /\ page < HV_INTC_FC_PAGE_START THEN AccessDebug(reg)
  ELSE LET a == AddrForHvPage(page)
           p == IF page = HV_INTC_FC_PAGE_START THEN 0 ELSE page
       IN (IF off11 THEN AccessDebug(3) ELSE <<>>) \o HvPaged(page, reg, a)
          \o <<Mdic(reg, 0, IF off11 THEN <<"reg", 2, 0, 0>> ELSE Target(a, p, reg))>>

HvLocked(page, reg) == <<Addr(AddrForHvPage(page))>> \o HvBody(page, reg, FALSE)

Hv(page, reg, off11) ==
  <<Addr(AddrForHvPage(page))>> \o Acquire("return") \o HvBody(page, reg, off11) \o Release

(* A register behind the EMI port, reached with the semaphore held.         *)
AccessEmi(reg) ==
  LET a == AddrForHvPage(0) IN
  <<Addr(a)>> \o HvPaged(0, 16, a) \o <<Mdic(16, reg, <<"addr", 2>>)>>
  \o <<Addr(a)>> \o HvPaged(0, 17, a) \o <<Mdic(17, 0, <<"port", reg>>)>>

AddrForBmPage(page, reg) ==
  IF page >= 768 \/ (page = 0 /\ reg \in {25, 31}) THEN 1 ELSE 2

(* Which register selects the page depends on the PHY address.              *)
Bm(page, reg) ==
  LET a == AddrForBmPage(page, reg)
      select == IF a = 1 THEN IGP01E1000_PHY_PAGE_SELECT ELSE BM_PHY_PAGE_SELECT
  IN Acquire("return")
     \o (IF page = BM_WUC_PAGE THEN AccessWakeup(reg)
         ELSE <<Addr(a)>>
              \o (IF page > 0 \/ Paged(reg) THEN <<Mdic(select, page, <<"sel", a>>)>> ELSE <<>>)
              \o <<Mdic(reg, 0, Target(a, page, reg))>>)
     \o Release

(* __e1000e_read_phy_reg_igp and its write: phy.addr was determined once.   *)
Igp(page, reg) ==
  Acquire("return")
  \o (IF page > 0 \/ Paged(reg)
        THEN <<Mdic(IGP01E1000_PHY_PAGE_SELECT, page, <<"sel", 1>>)>> ELSE <<>>)
  \o <<Mdic(reg, 0, Target(1, page, reg))>> \o Release

(* __e1000_read_kmrn_reg: the offset is written, the answer read back.      *)
Kmrn(reg) ==
  Acquire("return")
  \o <<Step("kaddr", reg, 0, None, "next"), Step("kdata", reg, 0, <<"kmrn", reg>>, "next")>>
  \o Release

(* e1000_sw_lcd_config_ich8lan: SMBus address, LEDs, then what the NVM says. *)
LcdConfig ==
  Acquire("return") \o HvLocked(768, 26) \o HvLocked(768, 30) \o HvLocked(770, 17)
  \o HvLocked(0, 2) \o Release

(* write_reg_page: its result is not looked at.                             *)
WakeupPage(reg) == <<Addr(AddrForHvPage(BM_WUC_PAGE))>> \o Wakeup(reg, "skip")

CopyRxAddrs ==
  Acquire("return") \o EnableWakeupAccess \o WakeupPage(16) \o WakeupPage(17)
  \o DisableWakeupAccess("restore") \o Release

InitPhyWakeup ==
  Acquire("return") \o EnableWakeupAccess \o WakeupPage(0) \o WakeupPage(2)
  \o WakeupPage(1) \o DisableWakeupAccess("activate") \o Release

EmiSession == Acquire("return") \o AccessEmi(9) \o AccessEmi(11) \o Release

(* The end of intelDisable(): it releases what it may not have acquired.    *)
LpiCtrl == Acquire("out") \o HvLocked(772, 20) \o HvLocked(772, 20) \o Release

(* The global reset in e1000_reset_hw_ich8lan: it is issued even when the   *)
(* semaphore was not acquired, and ends by itself what SWFLAG stands for.   *)
ResetHw ==
  Acquire("out")
  \o <<Step("rst", 0, 0, None, "next"), Step("clrheld", 0, 0, None, "next")>>

Prog == [
  igp |-> [low |-> Igp(0, 2), high |-> Igp(770, 17), kmrn |-> Kmrn(9), reset |-> ResetHw],
  bm |-> [low |-> Bm(0, 2), high |-> Bm(0, 26), ctl |-> Bm(0, 25), page |-> Bm(769, 20),
          wake |-> Bm(800, 1), kmrn |-> Kmrn(9), reset |-> ResetHw],
  hv |-> [low |-> Hv(0, 2, FALSE), high |-> Hv(0, 26, FALSE), ctl |-> Hv(0, 0, TRUE),
          oem |-> Hv(768, 25, FALSE), page |-> Hv(770, 17, FALSE), debug |-> Hv(5, 3, FALSE),
          wake |-> Hv(800, 1, FALSE), emi |-> EmiSession, lcd |-> LcdConfig,
          rars |-> CopyRxAddrs, arm |-> InitPhyWakeup, lpi |-> LpiCtrl, kmrn |-> Kmrn(9),
          reset |-> ResetHw]]

ASSUME SessionNames == \A f \in Families : None \notin DOMAIN Prog[f]

Idle == [ses |-> None, at |-> 0, save |-> {}, held |-> FALSE, io |-> FALSE]

BusInit ==
  /\ fam \in Families
  /\ bit = FALSE /\ extcnf = "free" /\ phyAddr = 1 /\ mdic = None
  /\ sel = [a \in {1, 2} |-> 0] /\ port = [p \in {2, BM_WUC_PAGE} |-> 0]
  /\ wuc \in {{}, {"me"}} /\ meant = wuc
  /\ thread = [t \in Thread |-> Idle]
  /\ stray = {} /\ faults = 0

(***************************************************************************)
(* Threads.                                                                *)
(***************************************************************************)
Busy(t) == thread[t].ses # None
At(t) == Prog[fam][thread[t].ses][thread[t].at]
IsAt(t, k) == Busy(t) /\ ~thread[t].io /\ At(t).k = k

(* Where a thread is after step n of session s.                             *)
Goto(th, s, n) ==
  IF n \in 1 .. Len(Prog[fam][s])
    THEN [th EXCEPT !.ses = s, !.at = n, !.io = FALSE]
    ELSE Idle

(* Mutant of Fail: contention is waited out instead of being reported.      *)
FailWaits(t) ==
  IF At(t).err = "return" THEN Goto(Idle, thread[t].ses, 1) ELSE Goto(thread[t], thread[t].ses, thread[t].at + 1)

Fail(t) ==
  LET th == thread[t]
      p == Prog[fam][th.ses]
      outs == {n \in th.at + 1 .. Len(p) : p[n].k \in {"rel", "rst"}}
  IN CASE At(t).err = "return" -> Idle
       [] At(t).err = "next" -> Goto(th, th.ses, th.at + 1)
       [] At(t).err = "skip" -> Goto(th, th.ses, th.at + 2)
       [] OTHER -> Goto(th, th.ses, CHOOSE n \in outs : \A m \in outs : n <= m)

Advance(t) == thread' = [thread EXCEPT ![t] = Goto(@, @.ses, @.at + 1)]
Failed(t) == thread' = [thread EXCEPT ![t] = Fail(t)]

(* A caller enters an accessor, or a function that holds the semaphore over *)
(* several accesses.  Sessions in Alone are never entered, nor overlapped,  *)
(* while another thread is in one.                                          *)
Begin(t) ==
  /\ ~Busy(t)
  /\ \E s \in DOMAIN Prog[fam] :
       /\ \A u \in Thread : Busy(u) => {s, thread[u].ses} \cap Alone[fam] = {}
       /\ thread' = [thread EXCEPT ![t] = Goto(Idle, s, 1)]
  /\ UNCHANGED <<fam, lock, phyAddr, mdic, device, stray, faults>>

SetAddr(t) ==
  /\ IsAt(t, "addr")
  /\ phyAddr' = At(t).v
  /\ Advance(t)
  /\ UNCHANGED <<fam, lock, mdic, device, stray, faults>>

(* test_and_set_bit: contention is an error, not a wait.                    *)
TestAndSet(t) ==
  /\ IsAt(t, "tas")
  /\ IF bit THEN Failed(t) /\ UNCHANGED bit ELSE bit' = TRUE /\ Advance(t)
  /\ UNCHANGED <<fam, extcnf, phyAddr, mdic, device, stray, faults>>

(* SWFLAG is waited for and then written, which has no effect while the     *)
(* firmware holds the semaphore.                                            *)
WaitFlag(t) ==
  /\ IsAt(t, "wait")
  /\ IF extcnf = "sw" THEN Failed(t) /\ bit' = FALSE ELSE Advance(t) /\ UNCHANGED bit
  /\ UNCHANGED <<fam, extcnf, phyAddr, mdic, device, stray, faults>>

SetFlag(t) ==
  /\ IsAt(t, "set")
  /\ extcnf' = IF extcnf = "free" THEN "sw" ELSE extcnf
  /\ Advance(t)
  /\ UNCHANGED <<fam, bit, phyAddr, mdic, device, stray, faults>>

(* Mutant of VerifyFlag: the flag is not read back.                         *)
VerifyFlagBlind(t) ==
  /\ IsAt(t, "verify")
  /\ thread' = [thread EXCEPT ![t] = [Goto(@, @.ses, @.at + 1) EXCEPT !.held = TRUE]]
  /\ UNCHANGED <<fam, lock, phyAddr, mdic, device, stray, faults>>

(* Mutant of VerifyFlag: the bit stays set when the flag did not stick.     *)
VerifyFlagLeaks(t) ==
  /\ IsAt(t, "verify")
  /\ IF extcnf = "sw"
       THEN thread' = [thread EXCEPT ![t] = [Goto(@, @.ses, @.at + 1) EXCEPT !.held = TRUE]]
       ELSE Failed(t)
  /\ UNCHANGED <<fam, lock, phyAddr, mdic, device, stray, faults>>

(* The flag stuck, or SW_FLAG_TIMEOUT passes and the bit is cleared.        *)
VerifyFlag(t) ==
  /\ IsAt(t, "verify")
  /\ IF extcnf = "sw"
       THEN /\ thread' = [thread EXCEPT ![t] = [Goto(@, @.ses, @.at + 1) EXCEPT !.held = TRUE]]
            /\ UNCHANGED bit
       ELSE Failed(t) /\ bit' = FALSE
  /\ UNCHANGED <<fam, extcnf, phyAddr, mdic, device, stray, faults>>

(* e1000_release_swflag_ich8lan: it does not know whose flag it clears.     *)
ReleaseFlag(t) ==
  /\ IsAt(t, "rel")
  /\ extcnf' = IF extcnf = "sw" THEN "free" ELSE extcnf
  /\ thread' = [thread EXCEPT ![t] = [Goto(@, @.ses, @.at + 1) EXCEPT !.held = FALSE]]
  /\ UNCHANGED <<fam, bit, phyAddr, mdic, device, stray, faults>>

ClearBit(t) ==
  /\ IsAt(t, "clr")
  /\ bit' = FALSE
  /\ Advance(t)
  /\ UNCHANGED <<fam, extcnf, phyAddr, mdic, device, stray, faults>>

(* CTRL.RST, with CTRL.PHY_RST unless the firmware blocks it: SWFLAG clears, *)
(* a command in flight is lost, the PHY forgets its pages and ports.        *)
ChipReset(t) ==
  /\ IsAt(t, "rst")
  /\ extcnf' = IF extcnf = "sw" THEN "free" ELSE extcnf
  /\ mdic' = None
  /\ \E blocked \in BOOLEAN :
       /\ sel' = [a \in DOMAIN sel |-> IF blocked THEN sel[a] ELSE 0]
       /\ port' = [q \in DOMAIN port |-> IF blocked THEN port[q] ELSE 0]
  /\ Advance(t)
  /\ UNCHANGED <<fam, bit, phyAddr, wuc, meant, stray, faults>>

(* The bit is cleared only by the thread that acquired the semaphore.       *)
ClearIfHeld(t) ==
  /\ IsAt(t, "clrheld")
  /\ bit' = IF thread[t].held THEN FALSE ELSE bit
  /\ thread' = [thread EXCEPT ![t] = Idle]
  /\ UNCHANGED <<fam, extcnf, phyAddr, mdic, device, stray, faults>>

(***************************************************************************)
(* One access: ew32(MDIC) with the hw->phy.addr of that moment, then the    *)
(* poll for MDIC_READY.                                                     *)
(***************************************************************************)
Issue(t) ==
  /\ IsAt(t, "mdic")
  /\ mdic' = [t |-> t, addr |-> phyAddr, reg |-> At(t).reg, v |-> At(t).v, act |-> At(t).act]
  /\ thread' = [thread EXCEPT ![t].io = TRUE]
  /\ UNCHANGED <<fam, lock, phyAddr, device, stray, faults>>

(* The page that counts for an address: an hv PHY has one page select.      *)
Page(a) == IF fam = "hv" THEN sel[1] ELSE sel[a]

SelectReg(a) == IF a = 2 /\ fam = "bm" THEN BM_PHY_PAGE_SELECT ELSE IGP01E1000_PHY_PAGE_SELECT

(* The register the PHY finds at an address and a number.                   *)
Reached(a, reg) ==
  CASE reg = SelectReg(a) /\ (a = 1 \/ fam = "bm") -> <<"sel", a>>
    [] a = 1 /\ sel[1] = BM_PORT_CTRL_PAGE /\ reg = 17 -> <<"wuc">>
    [] a = 1 /\ sel[1] = BM_WUC_PAGE /\ reg = 17 /\ "en" \in wuc -> <<"addr", 800>>
    [] a = 1 /\ sel[1] = BM_WUC_PAGE /\ reg = 18 /\ "en" \in wuc -> <<"wu", port[800]>>
    [] a = 2 /\ fam = "hv" /\ reg = 16 -> <<"addr", 2>>
    [] a = 2 /\ fam = "hv" /\ reg = 17 -> <<"port", port[2]>>
    [] OTHER -> Target(a, Page(a), reg)

(* What 769.17 holds after each of the accesses made to it.                 *)
WucAfter(act, save) ==
  CASE act = "enable" -> (save \cup {"en"}) \ {"me", "host"}
    [] act = "restore" -> save
    [] act = "activate" -> save \cup {"en", "host"}
    [] OTHER -> wuc

Strays(goal, got) == IF goal = got THEN stray ELSE stray \cup {goal}

(* What the PHY does with the command.                                      *)
Perform(c, save) ==
  LET r == Reached(c.addr, c.reg) IN
  /\ sel' = IF r[1] = "sel" THEN [sel EXCEPT ![r[2]] = c.v] ELSE sel
  /\ port' = IF r[1] = "addr" THEN [port EXCEPT ![r[2]] = c.v] ELSE port
  /\ wuc' = IF r = <<"wuc">> THEN WucAfter(c.act, save) ELSE wuc
  /\ meant' = IF c.act = "activate" THEN meant \cup {"en", "host"} ELSE meant
  /\ stray' = Strays(At(c.t).goal, r)

Complete(t) ==
  /\ Busy(t) /\ thread[t].io
  /\ mdic = None \/ mdic.t = t
  /\ IF mdic = None
       THEN stray' = stray \cup {At(t).goal} /\ UNCHANGED device
       ELSE Perform(mdic, thread[t].save)
  /\ mdic' = None
  /\ thread' = [thread EXCEPT ![t] =
       [Goto(@, @.ses, @.at + 1)
          EXCEPT !.save = IF At(t).act = "save" THEN wuc ELSE thread[t].save]]
  /\ UNCHANGED <<fam, lock, phyAddr, faults>>

(* MDIC_ERROR, or no answer in time: the register was not reached.          *)
Error(t) ==
  /\ Busy(t) /\ thread[t].io /\ faults < MaxFaults
  /\ faults' = faults + 1
  /\ mdic' = None
  /\ Failed(t)
  /\ UNCHANGED <<fam, lock, phyAddr, device, stray>>

(* KMRNCTRLSTA holds the offset until it is read.                           *)
KmrnAddress(t) ==
  /\ IsAt(t, "kaddr")
  /\ mdic' = [t |-> t, addr |-> 0, reg |-> At(t).reg, v |-> 0, act |-> "kmrn"]
  /\ Advance(t)
  /\ UNCHANGED <<fam, lock, phyAddr, device, stray, faults>>

KmrnData(t) ==
  /\ IsAt(t, "kdata")
  /\ stray' = IF mdic = None THEN stray \cup {At(t).goal}
              ELSE Strays(At(t).goal, <<"kmrn", mdic.reg>>)
  /\ mdic' = None
  /\ Advance(t)
  /\ UNCHANGED <<fam, lock, phyAddr, device, faults>>

(***************************************************************************)
(* The firmware takes the semaphore when it is free and leaves pages and    *)
(* ports as it likes.                                                       *)
(***************************************************************************)
FwTakes ==
  /\ extcnf = "free"
  /\ extcnf' = "fw"
  /\ UNCHANGED <<fam, bit, phyAddr, mdic, device, thread, stray, faults>>

FwUses ==
  /\ extcnf = "fw" /\ mdic = None
  /\ sel' = [sel EXCEPT ![1] = 801]
  /\ port' = [q \in DOMAIN port |-> 801]
  /\ UNCHANGED <<fam, lock, phyAddr, mdic, wuc, meant, thread, stray, faults>>

FwGives ==
  /\ extcnf = "fw"
  /\ extcnf' = "free"
  /\ UNCHANGED <<fam, bit, phyAddr, mdic, device, thread, stray, faults>>

Run(t) ==
  \/ SetAddr(t) \/ TestAndSet(t) \/ WaitFlag(t) \/ SetFlag(t) \/ VerifyFlag(t)
  \/ ReleaseFlag(t) \/ ClearBit(t) \/ ChipReset(t) \/ ClearIfHeld(t)
  \/ Issue(t) \/ Complete(t) \/ KmrnAddress(t) \/ KmrnData(t)

BusNext ==
  \/ \E t \in Thread : Begin(t) \/ Run(t) \/ Error(t)
  \/ FwTakes \/ FwUses \/ FwGives

BusSpec == BusInit /\ [][BusNext]_busVars

(* Every thread runs on: each wait in the accessors has a timeout.          *)
FairBusSpec == BusSpec /\ \A t \in Thread : WF_busVars(Run(t))

(***************************************************************************)
(* Properties.                                                             *)
(***************************************************************************)

(* The state stays within the types of the code's variables.                *)
BusTypeOK ==
  /\ fam \in Families /\ bit \in BOOLEAN /\ extcnf \in {"free", "sw", "fw"}
  /\ phyAddr \in {1, 2} /\ faults \in 0 .. MaxFaults
  /\ wuc \subseteq {"en", "me", "host"} /\ meant \subseteq {"en", "me", "host"}
  /\ \A t \in Thread : Busy(t) => thread[t].at \in DOMAIN Prog[fam][thread[t].ses]

(* Every MDI access reaches the register its caller meant: the address and  *)
(* the page chosen for it, whatever earlier accesses and the firmware left. *)
(* (__e1000_read_phy_reg_hv, e1000_access_phy_wakeup_reg_bm and the others.) *)
ReachesMeant == stray = {}

(* Whoever got past e1000_acquire_swflag_ich8lan and did not release it is  *)
(* alone: SWFLAG is set, so the firmware keeps away, and so do the others.  *)
Exclusive ==
  \A t \in Thread : thread[t].held /\ ~IsAt(t, "clrheld") =>
    /\ extcnf = "sw" /\ bit
    /\ \A u \in Thread \ {t} : ~thread[u].held

(* When nobody is in them, no path through the accessors, their errors      *)
(* included, has left the bit or SWFLAG behind: the next access would fail   *)
(* for ever, and the firmware would be locked out.  Wake-up by the ME has    *)
(* survived the accesses to page 800, which switch it off in 769.17 and back *)
(* on, and the host's is on once it was activated, unless an access failed   *)
(* in between, which loses both; the code does not try again.                *)
NothingLeft ==
  (\A t \in Thread : ~Busy(t)) =>
    ~bit /\ extcnf # "sw" /\ (faults = 0 => wuc = meant)

(* Contention, a firmware that never lets go and failing accesses are all   *)
(* reported in the end: nobody stays in an accessor for ever.               *)
AccessEnds == \A t \in Thread : Busy(t) ~> ~Busy(t)
===============================================================================
