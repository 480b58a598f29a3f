------------------------------- MODULE Controller -------------------------------
(***************************************************************************)
(* The driver as IOKit sees it: loaded, started, enabled, put to sleep,      *)
(* stopped and unloaded, with the filters for addresses that the network     *)
(* stack sets meanwhile.  What happens to the chip is in Adapter.            *)
(***************************************************************************)
EXTENDS Resources, Filters

VARIABLES
  life,       \* where the driver object is in its life, see TypeOK
  res,        \* the driver's references, as in Resources
  vtd,        \* useAppleVTD
  isEnabled, promiscusMode, multicastMode,
  mcAddrList, \* mcAddrList
  macAddr,    \* hw->mac.addr
  mta,        \* the multicast table
  rctl,       \* RCTL.UPE and RCTL.MPE
  kind, wlock,\* the chip, and what the ME has locked of it
  regs,       \* receive address registers
  power,      \* power state of the device: "d0", "d3"
  wolActive,
  pme         \* PME enable of the device

res_vars == <<life, res, vtd>>
me_vars == <<kind, wlock>>
filter_vars == <<promiscusMode, multicastMode, mcAddrList, macAddr, mta, rctl, regs>>
power_vars == <<power, wolActive, pme>>
vars == <<res_vars, isEnabled, me_vars, filter_vars, power_vars>>

References == RxResources \cup TxResources \cup
  {"workLoop", "pciDevice", "open", "mapper", "baseMap", "flashMap", "mediumDict", "commandGate",
   "txQueue", "interruptSource", "timerSource", "netif", "DRV_LOAD", "mcAddrList"}

TypeOK ==
  /\ life \in {"new", "failed", "matched", "stopped", "freed", "off"}
  /\ res.held \subseteq References /\ res.ptr \subseteq References /\ res.over \subseteq References
  /\ {vtd, isEnabled, promiscusMode, multicastMode, rctl, wolActive, pme} \subseteq BOOLEAN
  /\ kind \in Kinds /\ wlock \in Wlocks
  /\ mcAddrList \subseteq Addr /\ mta \subseteq Bucket
  /\ macAddr \in Mac /\ regs \in [Regs -> Mac \cup {NoMac, MeMac}]
  /\ power \in {"d0", "d3"}

Init ==
  /\ life = "new" /\ res = New /\ vtd \in BOOLEAN
  /\ isEnabled = FALSE /\ promiscusMode = FALSE /\ multicastMode = FALSE
  /\ mcAddrList = {} /\ macAddr = PermAddr
  /\ mta = {} /\ rctl = FALSE
  /\ kind \in Kinds /\ wlock \in Wlocks
  /\ regs \in {[r \in Regs |-> IF r = Own THEN PermAddr
                               ELSE IF r \in MeRegs(kind, wlock) THEN MeMac ELSE left] :
                  left \in Mac \cup {NoMac}}
  /\ power = "d0" /\ wolActive = FALSE /\ pme = FALSE

(***************************************************************************)
(* Filters in the hardware.                                                *)
(***************************************************************************)
UpdateMcAddrList(list) == mta' = McTable(list)
SetRar(m, i) == regs' = RarSet(regs, kind, wlock, m, i)

(* Reset and initialisation: no promiscuous reception, the station address,  *)
(* an empty table; intelConfigure() then ends setMulticastMode(true).        *)
InitHw ==
  /\ regs' = InitRxAddrs(regs, kind, wlock, macAddr)
  /\ rctl' = FALSE /\ multicastMode' = TRUE

Configure == InitHw /\ UpdateMcAddrList(mcAddrList)

(***************************************************************************)
(* Life.                                                                   *)
(***************************************************************************)
(* A start() that failed half way returns TRUE all the same.                *)
StartDriver ==
  /\ life = "new"
  /\ \E flash \in BOOLEAN : res' \in Start(res, vtd, flash)
  /\ life' = IF res'.result THEN "matched" ELSE "failed"
  /\ IF "DRV_LOAD" \in res'.held
       THEN regs' = InitRxAddrs(regs, kind, wlock, macAddr) /\ mta' = {} /\ rctl' = FALSE
       ELSE UNCHANGED <<regs, mta, rctl>>
  /\ UNCHANGED <<me_vars, vtd, isEnabled, promiscusMode, multicastMode, mcAddrList, macAddr, power_vars>>

(* IOKit disables the interface before it stops the driver.                 *)
StopDriver ==
  /\ life = "matched" /\ ~isEnabled /\ power = "d0"
  /\ res' = Stop(res, vtd)
  /\ life' = "stopped" /\ mcAddrList' = {}
  /\ UNCHANGED <<me_vars, vtd, isEnabled, promiscusMode, multicastMode, macAddr, mta, rctl, regs, power_vars>>

FreeDriver ==
  /\ life \in {"failed", "stopped"}
  /\ res' = Free(res, vtd)
  /\ life' = "freed" /\ mcAddrList' = {}
  /\ UNCHANGED <<me_vars, vtd, isEnabled, promiscusMode, multicastMode, macAddr, mta, rctl, regs, power_vars>>

(* A new driver object: init(), and the permanent address from the NVM.     *)
Load ==
  /\ life \in {"freed", "off"}
  /\ life' = "new" /\ res' = New /\ vtd' \in BOOLEAN
  /\ isEnabled' = FALSE /\ promiscusMode' = FALSE /\ multicastMode' = FALSE
  /\ mcAddrList' = {} /\ macAddr' = PermAddr /\ wolActive' = FALSE
  /\ UNCHANGED <<me_vars, mta, rctl, regs, power, pme>>

(***************************************************************************)
(* enable() and disable().                                                 *)
(***************************************************************************)
(* IOKit enables an interface of a device that has power.                   *)
Attached == life = "matched" /\ "netif" \in res.ptr

Enable ==
  /\ Attached /\ ~isEnabled /\ power = "d0"
  /\ "open" \notin res.held
  /\ res' = Get(res, {"open"})
  /\ Configure
  /\ isEnabled' = TRUE
  /\ UNCHANGED <<me_vars, life, vtd, promiscusMode, mcAddrList, macAddr, power_vars>>

(* With wake-up, where the NVM allows it, the filters stay but for           *)
(* promiscuous reception, otherwise the adapter is reset.                   *)
DisableWith(r, wake) ==
  /\ isEnabled' = FALSE /\ rctl' = FALSE
  /\ mta' = IF wake THEN mta ELSE {}
  /\ mcAddrList' = {}
  /\ res' = RELEASE(r, {"mcAddrList", "open"})

Disable ==
  /\ isEnabled
  /\ \E apm \in BOOLEAN : DisableWith(res, wolActive /\ apm)
  /\ UNCHANGED <<me_vars, life, vtd, promiscusMode, multicastMode, macAddr, regs, power_vars>>

(* systemWillShutdown(): the permanent address returns, and the adapter to   *)
(* the firmware.  Wake-up from S5 may be switched on.                       *)
SystemWillShutdown ==
  /\ Attached /\ power = "d0"
  /\ \E s5 \in BOOLEAN : wolActive' = (wolActive \/ s5)
  /\ LET r == RELEASE(res, {"DRV_LOAD"}) IN
     IF isEnabled
       THEN \E apm \in BOOLEAN : DisableWith(r, wolActive' /\ apm)
       ELSE res' = r /\ UNCHANGED <<isEnabled, mcAddrList, mta, rctl>>
  /\ SetRar(PermAddr, 0)
  /\ life' = "off"
  /\ UNCHANGED <<me_vars, vtd, promiscusMode, multicastMode, macAddr, power, pme>>

(* intelRestart() from the watchdog, a new medium, a new MTU, a link that    *)
(* changed; promiscusMode is not looked at.                                 *)
Restart ==
  /\ isEnabled
  /\ Configure
  /\ UNCHANGED <<me_vars, res_vars, isEnabled, promiscusMode, mcAddrList, macAddr, power_vars>>

(***************************************************************************)
(* Filters.                                                                *)
(***************************************************************************)
SetPromiscuousMode(active) ==
  /\ isEnabled
  /\ rctl' = active /\ promiscusMode' = active
  /\ IF active THEN UNCHANGED mta ELSE UpdateMcAddrList(mcAddrList)
  /\ UNCHANGED <<me_vars, res_vars, isEnabled, multicastMode, mcAddrList, macAddr, regs, power_vars>>

SetMulticastMode(active) ==
  /\ isEnabled
  /\ UpdateMcAddrList(IF active THEN mcAddrList ELSE {})
  /\ rctl' = FALSE /\ multicastMode' = active
  /\ UNCHANGED <<me_vars, res_vars, isEnabled, promiscusMode, mcAddrList, macAddr, regs, power_vars>>

(* setMulticastList(), when there is memory for the list; without, the old   *)
(* one stays in force.                                                      *)
SetMulticastList(list) ==
  /\ isEnabled
  /\ mcAddrList' = list
  /\ res' = IF list = {} THEN RELEASE(res, {"mcAddrList"})
            ELSE Get(RELEASE(res, {"mcAddrList"}), {"mcAddrList"})
  /\ UpdateMcAddrList(list)
  /\ UNCHANGED <<me_vars, life, vtd, isEnabled, promiscusMode, multicastMode, macAddr, rctl, regs, power_vars>>

SetHardwareAddress(m) ==
  /\ Attached /\ power = "d0"
  /\ macAddr' = m /\ SetRar(m, 0)
  /\ UNCHANGED <<me_vars, res_vars, isEnabled, promiscusMode, multicastMode, mcAddrList, mta, rctl, power_vars>>

(***************************************************************************)
(* Power.                                                                  *)
(***************************************************************************)
(* setWakeOnMagicPacket(), where PME from D3 is supported.                  *)
SetWakeOnMagicPacket(active) ==
  /\ Attached
  /\ wolActive' = active
  /\ UNCHANGED <<me_vars, res_vars, isEnabled, filter_vars, power, pme>>

(* setPowerStateSleepAction and setPowerStateWakeAction: PME is enabled only *)
(* for sleep from which the adapter may wake the system.                    *)
SleepAction == power' = "d3" /\ pme' = wolActive
WakeAction == power' = "d0" /\ pme' = FALSE

(* setPowerState(): IOKit disables the interface before sleep.               *)
SetPowerState(p) ==
  /\ Attached /\ power # p
  /\ p = "d3" => ~isEnabled
  /\ IF p = "d3" THEN SleepAction ELSE WakeAction
  /\ UNCHANGED <<me_vars, res_vars, isEnabled, filter_vars, wolActive>>

(* The ME takes shared registers and gives back others, as zero.             *)
MeLocks(w) ==
  /\ Shared(kind) /\ w # wlock
  /\ wlock' = w
  /\ regs' = [r \in Regs |-> IF r \in MeRegs(kind, w) THEN MeMac
                            ELSE IF r \in MeRegs(kind, wlock) THEN NoMac ELSE regs[r]]
  /\ UNCHANGED <<res_vars, isEnabled, kind, promiscusMode, multicastMode, mcAddrList, macAddr,
                 mta, rctl, power_vars>>

Next ==
  \/ StartDriver \/ StopDriver \/ FreeDriver \/ Load
  \/ Enable \/ Disable \/ SystemWillShutdown \/ Restart
  \/ \E active \in BOOLEAN :
       SetPromiscuousMode(active) \/ SetMulticastMode(active) \/ SetWakeOnMagicPacket(active)
  \/ \E list \in SUBSET Addr : SetMulticastList(list)
  \/ \E m \in Mac : SetHardwareAddress(m)
  \/ \E p \in {"d0", "d3"} : SetPowerState(p)
  \/ \E w \in Wlocks : MeLocks(w)

Spec == Init /\ [][Next]_vars

(***************************************************************************)
(* Properties.                                                             *)
(***************************************************************************)
(* What an enabled interface works with is there: no error path, stop() or  *)
(* disable() in another order has given it back, and no member points to     *)
(* what is not owned.  Wherever start() failed, what it acquired is returned  *)
(* exactly once when the object is gone.  Exceptions of the code: the mapper *)
(* is never released, a medium dictionary that could not be completed is      *)
(* released twice, and DRV_LOAD stays set when start() fails after           *)
(* intelStart().                                                            *)
ReturnedOnce ==
  /\ isEnabled =>
       (References \ {"flashMap", "mcAddrList", "DRV_LOAD", "rxMap", "txMap", "txCursor"})
         \subseteq res.held
  /\ mcAddrList # {} => "mcAddrList" \in res.held
  /\ res.ptr \subseteq res.held \cup {"mediumDict"}
  /\ res.over \subseteq {"mediumDict"}
  /\ life = "freed" =>
       res.held \subseteq {"mapper"} \cup (IF res.at = "" THEN {} ELSE {"DRV_LOAD"})

(* The ME's receive address registers keep what the ME put there.  An        *)
(* enabled interface receives its own address and no other: what an earlier  *)
(* owner left in the driver's registers is gone.  In multicast mode it       *)
(* receives what the list of the network stack asks for, through every reset *)
(* (enable, intelRestart, setLinkDown).                                     *)
FiltersKept ==
  /\ \A r \in MeRegs(kind, wlock) : regs[r] = MeMac
  /\ isEnabled =>
       /\ regs[Own] = macAddr
       /\ \A i \in 1 .. RarEntryCount(kind) - 1 :
            Reg(kind, i) \notin Locked(wlock) => regs[Reg(kind, i)] = NoMac
       /\ multicastMode => mta = McTable(mcAddrList)
===============================================================================
