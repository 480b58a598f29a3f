-------------------------------- MODULE Filters --------------------------------
(***************************************************************************)
(* The receive address registers and the multicast table of a MAC (mac.c,    *)
(* ich8lan.c), which the driver shares with the management engine (ME).     *)
(* Every chip has RAR[0] for its own address.  An ich or pchlan has more     *)
(* RARs, the last of which an ich8lan leaves to the ME; a pch2lan leaves     *)
(* RAR[1] and the following to the ME and has shared registers (SHRA) for   *)
(* the driver; from pch_lpt on there are only shared ones.                  *)
(***************************************************************************)
EXTENDS Integers

CONSTANTS
  Addr,        \* multicast addresses
  Bucket,      \* bits of the multicast table
  Hash,        \* e1000_hash_mc_addr: which bit an address selects
  Mac,         \* station addresses
  PermAddr,    \* perm_addr, from the NVM
  NoMac,       \* the address zero, in a register that is not valid
  MeMac,       \* addresses of the ME
  RarEntries   \* rar_entry_count of an ich9lan

ASSUME FiltersAssumption ==
  /\ Hash \in [Addr -> Bucket]
  /\ PermAddr \in Mac /\ NoMac \notin Mac /\ MeMac \notin Mac /\ NoMac # MeMac
  /\ RarEntries \in Nat \ {0, 1}

Kinds == {"ich8lan", "ich9lan", "pch2lan", "pch_lpt"}
Shared(kind) == kind \in {"pch2lan", "pch_lpt"}
Regs == ({"RAR"} \X (0 .. RarEntries - 1)) \cup ({"SHRA"} \X (0 .. RarEntries - 2))
Own == <<"RAR", 0>>

(* FWSM.WLOCK_MAC: 0 leaves all shared registers to the driver, 1 none, a    *)
(* larger value so many.                                                    *)
Wlocks == 0 .. RarEntries - 1
Locked(wlock) ==
  {<<"SHRA", i>> : i \in {k \in 0 .. RarEntries - 2 : wlock = 1 \/ (wlock # 0 /\ k >= wlock)}}

MeRegs(kind, wlock) ==
  CASE kind = "ich8lan" -> {<<"RAR", RarEntries - 1>>}
    [] kind = "ich9lan" -> {}
    [] kind = "pch2lan" -> ({"RAR"} \X (1 .. RarEntries - 1)) \cup Locked(wlock)
    [] OTHER -> Locked(wlock)

(* rar_entry_count, and the register that rar_set takes for an index.        *)
RarEntryCount(kind) == IF kind = "ich8lan" THEN RarEntries - 1 ELSE RarEntries
Reg(kind, i) == IF Shared(kind) /\ i > 0 THEN <<"SHRA", i - 1>> ELSE <<"RAR", i>>

(* hw->mac.ops.rar_set.  A shared register that the ME has locked is left    *)
(* alone from pch_lpt on; on a pch2lan it ignores the write.  The semaphore  *)
(* is acquired (see PhyBus).                                                *)
RarSet(regs, kind, wlock, m, i) ==
  IF Reg(kind, i) \in Locked(wlock) THEN regs ELSE [regs EXCEPT ![Reg(kind, i)] = m]

(* Registers that e1000e_init_rx_addrs zeroes.                              *)
Zeroed(kind, wlock) == {Reg(kind, i) : i \in 1 .. RarEntryCount(kind) - 1} \ Locked(wlock)

(* Mutant of InitRxAddrs: one register too many.                             *)
InitRxAddrsAll(regs, kind, wlock, m) ==
  [r \in Regs |-> IF r = Own THEN m
                  ELSE IF r \in {Reg(kind, i) : i \in 1 .. RarEntries - 1} \ Locked(wlock) THEN NoMac
                  ELSE regs[r]]

InitRxAddrs(regs, kind, wlock, m) ==
  [r \in Regs |-> IF r = Own THEN m ELSE IF r \in Zeroed(kind, wlock) THEN NoMac ELSE regs[r]]

(* e1000e_update_mc_addr_list_generic replaces the whole table.             *)
McTable(list) == {Hash[a] : a \in list}
===============================================================================
