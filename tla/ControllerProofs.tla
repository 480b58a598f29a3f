---------------------------- MODULE ControllerProofs ----------------------------
(***************************************************************************)
(* The filters of an enabled interface are those the network stack asked     *)
(* for, and the ME's registers keep their addresses, for any number of       *)
(* receive address registers, any addresses and any hash; and the object     *)
(* owns what it works with and gives it back once, wherever start() fails.   *)
(***************************************************************************)
EXTENDS Controller, TLAPS

(***************************************************************************)
(* The registers.                                                          *)
(***************************************************************************)
(* A locked register is a shared one, a RAR never is.                        *)
LEMMA LockedIsShared ==
  ASSUME NEW w \in Wlocks, NEW i \in Int
  PROVE  /\ <<"RAR", i>> \notin Locked(w)
         /\ Locked(w) \subseteq Regs
<1>1. <<"RAR", i>> \notin Locked(w)
  BY DEF Locked
<1>2. Locked(w) \subseteq Regs
  BY FiltersAssumption DEF Locked, Regs
<1> QED BY <1>1, <1>2

(* Which register rar_set takes for an index.                               *)
LEMMA RegFor ==
  ASSUME NEW k \in Kinds, NEW i \in 0 .. RarEntryCount(k) - 1
  PROVE  /\ Reg(k, i) \in Regs
         /\ Reg(k, i) = Own <=> i = 0
         /\ Shared(k) /\ i # 0 => Reg(k, i) = <<"SHRA", i - 1>>
         /\ ~Shared(k) \/ i = 0 => Reg(k, i) = <<"RAR", i>>
<1>1. RarEntryCount(k) \in {RarEntries, RarEntries - 1}
  BY DEF RarEntryCount
<1>2. i \in 0 .. RarEntries - 1
  BY <1>1, FiltersAssumption
<1>3. CASE Shared(k) /\ i > 0
  <2>1. Reg(k, i) = <<"SHRA", i - 1>>
    BY <1>3 DEF Reg
  <2>2. i - 1 \in 0 .. RarEntries - 2
    BY <1>2, <1>3, FiltersAssumption
  <2> QED BY <2>1, <2>2, <1>2, <1>3 DEF Regs, Own
<1>4. CASE ~(Shared(k) /\ i > 0)
  <2>1. Reg(k, i) = <<"RAR", i>>
    BY <1>4 DEF Reg
  <2> QED BY <2>1, <1>2, <1>4 DEF Regs, Own
<1> QED BY <1>3, <1>4

(* Whatever the chip and whatever it has locked, RAR[0] is the driver's, and *)
(* a register that rar_set reaches belongs to the ME just when it is locked. *)
LEMMA OwnIsDrivers ==
  ASSUME NEW k \in Kinds, NEW w \in Wlocks
  PROVE  Own \in Regs /\ Own \notin MeRegs(k, w) /\ Own \notin Locked(w)
<1>1. Own \in Regs
  BY FiltersAssumption DEF Own, Regs
<1>2. Own \notin Locked(w)
  BY LockedIsShared DEF Own
<1>3. Own \notin MeRegs(k, w)
  BY <1>2, FiltersAssumption DEF Own, MeRegs, Kinds
<1> QED BY <1>1, <1>2, <1>3

LEMMA ReachedIsDrivers ==
  ASSUME NEW k \in Kinds, NEW w \in Wlocks, NEW i \in 1 .. RarEntryCount(k) - 1,
         Reg(k, i) \notin Locked(w)
  PROVE  Reg(k, i) \notin MeRegs(k, w)
<1>1. /\ Shared(k) => Reg(k, i) = <<"SHRA", i - 1>>
      /\ ~Shared(k) => Reg(k, i) = <<"RAR", i>>
  BY DEF Reg
<1>2. CASE Shared(k)
  <2>1. MeRegs(k, w) \subseteq ({"RAR"} \X (1 .. RarEntries - 1)) \cup Locked(w)
    BY <1>2 DEF MeRegs, Shared, Kinds
  <2> QED BY <2>1, <1>1, <1>2
<1>3. CASE ~Shared(k)
  <2>1. MeRegs(k, w) \subseteq {<<"RAR", RarEntries - 1>>}
        /\ (k = "ich9lan" => MeRegs(k, w) = {})
        /\ k \in {"ich8lan", "ich9lan"}
    BY <1>3 DEF MeRegs, Shared, Kinds
  <2>2. k = "ich8lan" => i # RarEntries - 1
    BY FiltersAssumption DEF RarEntryCount
  <2> QED BY <2>1, <2>2, <1>1, <1>3
<1> QED BY <1>2, <1>3

LEMMA MeRegsAreRegs ==
  ASSUME NEW k \in Kinds, NEW w \in Wlocks
  PROVE  /\ MeRegs(k, w) \subseteq Regs
         /\ MeRegs(k, w) \cap Zeroed(k, w) = {}
<1>1. MeRegs(k, w) \subseteq Regs
  <2>1. Locked(w) \subseteq Regs
    BY LockedIsShared, 0 \in Int
  <2>2. <<"RAR", RarEntries - 1>> \in Regs /\ {"RAR"} \X (1 .. RarEntries - 1) \subseteq Regs
    BY FiltersAssumption DEF Regs
  <2> QED BY <2>1, <2>2 DEF MeRegs, Kinds
<1>2. MeRegs(k, w) \cap Zeroed(k, w) = {}
  BY ReachedIsDrivers DEF Zeroed
<1> QED BY <1>1, <1>2

(* What e1000e_init_rx_addrs leaves: the ME's registers as they were, the    *)
(* driver's own address, and no other that is not locked.                   *)
LEMMA InitRxAddrsResult ==
  ASSUME NEW k \in Kinds, NEW w \in Wlocks, NEW rs, NEW m,
         \A r \in MeRegs(k, w) : rs[r] = MeMac
  PROVE  LET new == InitRxAddrs(rs, k, w, m) IN
         /\ \A r \in MeRegs(k, w) : new[r] = MeMac
         /\ new[Own] = m
         /\ \A i \in 1 .. RarEntryCount(k) - 1 :
              Reg(k, i) \notin Locked(w) => new[Reg(k, i)] = NoMac
<1> DEFINE new == InitRxAddrs(rs, k, w, m)
<1>1. \A r \in Regs : new[r] = IF r = Own THEN m ELSE IF r \in Zeroed(k, w) THEN NoMac ELSE rs[r]
  BY DEF InitRxAddrs
<1>2. \A r \in MeRegs(k, w) : new[r] = MeMac
  BY <1>1, MeRegsAreRegs, OwnIsDrivers
<1>3. new[Own] = m
  BY <1>1, OwnIsDrivers
<1>4. ASSUME NEW i \in 1 .. RarEntryCount(k) - 1, Reg(k, i) \notin Locked(w)
      PROVE  new[Reg(k, i)] = NoMac
  <2>1. i \in 0 .. RarEntryCount(k) - 1 /\ i # 0
    OBVIOUS
  <2>2. Reg(k, i) \in Regs /\ Reg(k, i) # Own
    BY <2>1, RegFor
  <2>3. Reg(k, i) \in Zeroed(k, w)
    BY <1>4 DEF Zeroed
  <2> QED BY <1>1, <2>2, <2>3
<1> HIDE DEF new
<1>5. /\ \A r \in MeRegs(k, w) : new[r] = MeMac
      /\ new[Own] = m
      /\ \A i \in 1 .. RarEntryCount(k) - 1 :
           Reg(k, i) \notin Locked(w) => new[Reg(k, i)] = NoMac
  BY <1>2, <1>3, <1>4
<1> QED BY <1>5 DEF new

(* rar_set at index 0 is one assignment to RAR[0].                          *)
LEMMA RarSetOwn ==
  ASSUME NEW k \in Kinds, NEW w \in Wlocks, NEW rs, NEW m
  PROVE  RarSet(rs, k, w, m, 0) = [rs EXCEPT ![Own] = m]
<1>1. Reg(k, 0) = Own
  BY DEF Reg, Own
<1> QED BY <1>1, OwnIsDrivers DEF RarSet

(***************************************************************************)
(* The inductive invariant.  It adds that only a driver that was matched is  *)
(* enabled: the handlers of the others do not look at the filters.          *)
(***************************************************************************)
IInv ==
  /\ kind \in Kinds /\ wlock \in Wlocks
  /\ regs = [r \in Regs |-> regs[r]]
  /\ isEnabled \in BOOLEAN
  /\ isEnabled => life = "matched"
  /\ FiltersKept

LEMMA InitEstablishes == Init => IInv
<1> SUFFICES ASSUME Init PROVE IInv
  OBVIOUS
<1>1. /\ kind \in Kinds /\ wlock \in Wlocks /\ isEnabled = FALSE
      /\ \E left : regs = [r \in Regs |-> IF r = Own THEN PermAddr
                                  ELSE IF r \in MeRegs(kind, wlock) THEN MeMac ELSE left]
  BY DEF Init
<1>2. \A r \in MeRegs(kind, wlock) : regs[r] = MeMac
  BY <1>1, MeRegsAreRegs, OwnIsDrivers
<1>3. regs = [r \in Regs |-> regs[r]]
  BY <1>1
<1> QED BY <1>1, <1>2, <1>3 DEF IInv, FiltersKept

(* Reset and initialisation make the filters of an interface right, with a   *)
(* multicast table computed from the list that is kept.                     *)
LEMMA ConfigureKeeps ==
  ASSUME IInv, Configure, UNCHANGED <<me_vars, mcAddrList, macAddr>>,
         isEnabled' \in BOOLEAN, isEnabled' => life' = "matched"
  PROVE  IInv'
<1>1. /\ kind \in Kinds /\ wlock \in Wlocks
      /\ kind' = kind /\ wlock' = wlock /\ macAddr' = macAddr /\ mcAddrList' = mcAddrList
      /\ \A r \in MeRegs(kind, wlock) : regs[r] = MeMac
  BY DEF IInv, FiltersKept, me_vars
<1>2. regs' = InitRxAddrs(regs, kind, wlock, macAddr) /\ mta' = McTable(mcAddrList)
  BY DEF Configure, InitHw, UpdateMcAddrList
<1>3. /\ \A r \in MeRegs(kind, wlock) : regs'[r] = MeMac
      /\ regs'[Own] = macAddr
      /\ \A i \in 1 .. RarEntryCount(kind) - 1 :
           Reg(kind, i) \notin Locked(wlock) => regs'[Reg(kind, i)] = NoMac
  BY <1>1, <1>2, InitRxAddrsResult
<1>4. regs' = [r \in Regs |-> regs'[r]]
  BY <1>2 DEF InitRxAddrs
<1> QED BY <1>1, <1>2, <1>3, <1>4 DEF IInv, FiltersKept

(* A new station address reaches RAR[0] and disturbs no other register.      *)
LEMMA OwnAddressKeeps ==
  ASSUME IInv, NEW m, SetRar(m, 0), UNCHANGED <<me_vars, multicastMode, promiscusMode>>,
         \/ isEnabled' = FALSE
         \/ isEnabled' = isEnabled /\ life' = life /\ macAddr' = m
             /\ UNCHANGED <<mta, mcAddrList>>
  PROVE  IInv'
<1>1. /\ kind \in Kinds /\ wlock \in Wlocks /\ kind' = kind /\ wlock' = wlock
      /\ regs = [r \in Regs |-> regs[r]]
  BY DEF IInv, me_vars
<1>2. regs' = [regs EXCEPT ![Own] = m]
  BY <1>1, RarSetOwn DEF SetRar
<1>3. regs' = [r \in Regs |-> IF r = Own THEN m ELSE regs[r]]
  BY <1>1, <1>2
<1>4. \A r \in MeRegs(kind, wlock) : regs'[r] = regs[r]
  BY <1>1, <1>3, MeRegsAreRegs, OwnIsDrivers
<1>5. regs'[Own] = m
  BY <1>1, <1>3, OwnIsDrivers
<1>6. ASSUME NEW i \in 1 .. RarEntryCount(kind) - 1
      PROVE  regs'[Reg(kind, i)] = regs[Reg(kind, i)]
  <2>1. i \in 0 .. RarEntryCount(kind) - 1 /\ i # 0
    OBVIOUS
  <2> QED BY <1>1, <1>3, <2>1, RegFor
<1>7. regs' = [r \in Regs |-> regs'[r]]
  BY <1>3
<1>8. CASE isEnabled' = FALSE
  BY <1>1, <1>4, <1>7, <1>8 DEF IInv, FiltersKept
<1>9. CASE isEnabled' = isEnabled /\ life' = life /\ macAddr' = m /\ UNCHANGED <<mta, mcAddrList>>
  <2>1. isEnabled' \in BOOLEAN /\ (isEnabled' => isEnabled /\ life' = "matched")
    BY <1>9 DEF IInv
  <2>2. FiltersKept'
    BY <1>1, <1>4, <1>5, <1>6, <1>9, <2>1 DEF IInv, FiltersKept
  <2> QED BY <1>1, <1>7, <2>1, <2>2 DEF IInv
<1> QED BY <1>8, <1>9

(* The ME may take and give back shared registers at any time: what it has   *)
(* not locked after that is zero.                                           *)
LEMMA MeLocksKeeps ==
  ASSUME IInv, NEW w \in Wlocks, MeLocks(w)
  PROVE  IInv'
<1>1. /\ kind \in Kinds /\ wlock \in Wlocks /\ kind' = kind /\ wlock' = w
      /\ UNCHANGED <<isEnabled, life, macAddr, mta, mcAddrList, multicastMode>>
      /\ regs' = [r \in Regs |-> IF r \in MeRegs(kind, w) THEN MeMac
                    ELSE IF r \in MeRegs(kind, wlock) THEN NoMac ELSE regs[r]]
  BY DEF IInv, MeLocks, res_vars
<1>2. \A r \in MeRegs(kind, w) : regs'[r] = MeMac
  BY <1>1, MeRegsAreRegs
<1>3. regs'[Own] = regs[Own]
  BY <1>1, OwnIsDrivers
<1>4. ASSUME isEnabled, NEW i \in 1 .. RarEntryCount(kind) - 1, Reg(kind, i) \notin Locked(w)
      PROVE  regs'[Reg(kind, i)] = NoMac
  <2>1. i \in 0 .. RarEntryCount(kind) - 1
    OBVIOUS
  <2>2. Reg(kind, i) \in Regs
    BY <1>1, <2>1, RegFor
  <2>3. Reg(kind, i) \notin MeRegs(kind, w)
    BY <1>1, <1>4, ReachedIsDrivers
  <2>4. Reg(kind, i) \in MeRegs(kind, wlock) \/ regs[Reg(kind, i)] = NoMac
    <3>1. CASE Reg(kind, i) \in Locked(wlock)
      BY <3>1, <1>1 DEF MeRegs, Kinds, MeLocks, Shared
    <3>2. CASE Reg(kind, i) \notin Locked(wlock)
      BY <3>2, <1>4 DEF IInv, FiltersKept
    <3> QED BY <3>1, <3>2
  <2> QED BY <1>1, <2>2, <2>3, <2>4
<1>5. regs' = [r \in Regs |-> regs'[r]]
  BY <1>1
<1> QED BY <1>1, <1>2, <1>3, <1>4, <1>5 DEF IInv, FiltersKept

(* Steps that leave the registers alone: those of an interface that is or    *)
(* becomes disabled, and those that keep what the table was computed from.   *)
LEMMA RegsUntouched ==
  ASSUME IInv, UNCHANGED <<kind, wlock, regs>>,
         \/ isEnabled' = FALSE
         \/ /\ UNCHANGED <<isEnabled, life, macAddr>>
            /\ multicastMode' => mta' = McTable(mcAddrList')
  PROVE  IInv'
<1>1. CASE isEnabled' = FALSE
  BY <1>1 DEF IInv, FiltersKept
<1>2. CASE UNCHANGED <<isEnabled, life, macAddr>> /\ (multicastMode' => mta' = McTable(mcAddrList'))
  <2>1. isEnabled' => isEnabled /\ life' = "matched"
    BY <1>2 DEF IInv
  <2>2. FiltersKept'
    BY <1>2, <2>1 DEF IInv, FiltersKept
  <2> QED BY <1>2, <2>1, <2>2 DEF IInv
<1> QED BY <1>1, <1>2

LEMMA StepKeeps == IInv /\ [Next]_vars => IInv'
<1> SUFFICES ASSUME IInv, [Next]_vars PROVE IInv'
  OBVIOUS
<1> USE DEF me_vars, res_vars, power_vars, filter_vars
<1>1. ASSUME StartDriver PROVE IInv'
  <2>1. /\ isEnabled = FALSE /\ isEnabled' = FALSE /\ UNCHANGED <<kind, wlock>>
        /\ kind \in Kinds /\ wlock \in Wlocks
        /\ \A r \in MeRegs(kind, wlock) : regs[r] = MeMac
    BY <1>1 DEF StartDriver, IInv, FiltersKept
  <2>2. CASE regs' = InitRxAddrs(regs, kind, wlock, macAddr)
    <3>1. \A r \in MeRegs(kind, wlock) : regs'[r] = MeMac
      BY <2>1, <2>2, InitRxAddrsResult
    <3>2. regs' = [r \in Regs |-> regs'[r]]
      BY <2>2 DEF InitRxAddrs
    <3> QED BY <2>1, <3>1, <3>2 DEF IInv, FiltersKept
  <2>3. CASE regs' = regs
    BY <2>1, <2>3, RegsUntouched
  <2> QED BY <1>1, <2>2, <2>3 DEF StartDriver
<1>2. ASSUME StopDriver PROVE IInv'
  BY <1>2, RegsUntouched DEF StopDriver, IInv
<1>3. ASSUME FreeDriver PROVE IInv'
  BY <1>3, RegsUntouched DEF FreeDriver, IInv
<1>4. ASSUME Load PROVE IInv'
  BY <1>4, RegsUntouched DEF Load
<1>5. ASSUME Enable PROVE IInv'
  BY <1>5, ConfigureKeeps DEF Enable, Attached
<1>6. ASSUME Disable PROVE IInv'
  BY <1>6, RegsUntouched DEF Disable, DisableWith
<1>7. ASSUME SystemWillShutdown PROVE IInv'
  <2>1. isEnabled' = FALSE
    BY <1>7 DEF SystemWillShutdown, DisableWith, IInv
  <2> QED BY <1>7, <2>1, OwnAddressKeeps DEF SystemWillShutdown
<1>8. ASSUME Restart PROVE IInv'
  BY <1>8, ConfigureKeeps DEF Restart, IInv
<1>9. ASSUME NEW active \in BOOLEAN, SetPromiscuousMode(active) PROVE IInv'
  <2>1. multicastMode' => mta' = McTable(mcAddrList')
    BY <1>9 DEF SetPromiscuousMode, UpdateMcAddrList, IInv, FiltersKept
  <2> QED BY <1>9, <2>1, RegsUntouched DEF SetPromiscuousMode
<1>10. ASSUME NEW active \in BOOLEAN, SetMulticastMode(active) PROVE IInv'
  <2>1. multicastMode' => mta' = McTable(mcAddrList')
    BY <1>10 DEF SetMulticastMode, UpdateMcAddrList
  <2> QED BY <1>10, <2>1, RegsUntouched DEF SetMulticastMode
<1>11. ASSUME NEW active \in BOOLEAN, SetWakeOnMagicPacket(active) PROVE IInv'
  BY <1>11 DEF SetWakeOnMagicPacket, IInv, FiltersKept
<1>12. ASSUME NEW list \in SUBSET Addr, SetMulticastList(list) PROVE IInv'
  <2>1. mta' = McTable(mcAddrList')
    BY <1>12 DEF SetMulticastList, UpdateMcAddrList
  <2> QED BY <1>12, <2>1, RegsUntouched DEF SetMulticastList
<1>13. ASSUME NEW m \in Mac, SetHardwareAddress(m) PROVE IInv'
  BY <1>13, OwnAddressKeeps DEF SetHardwareAddress
<1>14. ASSUME NEW p \in {"d0", "d3"}, SetPowerState(p) PROVE IInv'
  BY <1>14 DEF SetPowerState, IInv, FiltersKept
<1>15. ASSUME NEW w \in Wlocks, MeLocks(w) PROVE IInv'
  BY <1>15, MeLocksKeeps
<1>16. ASSUME UNCHANGED vars PROVE IInv'
  BY <1>16 DEF vars, IInv, FiltersKept
<1> QED
  BY <1>1, <1>2, <1>3, <1>4, <1>5, <1>6, <1>7, <1>8, <1>9, <1>10, <1>11, <1>12, <1>13, <1>14,
     <1>15, <1>16 DEF Next

(* In every state of the driver's life, through every reset, mode and change *)
(* of address, and whatever registers the ME takes, the filters are those    *)
(* the network stack asked for (enable, intelRestart, setMulticastMode,      *)
(* setMulticastList, setPromiscuousMode, setHardwareAddress).               *)
THEOREM FiltersAlwaysKept == Spec => []FiltersKept
<1>1. IInv => FiltersKept
  BY DEF IInv
<1> QED BY <1>1, InitEstablishes, StepKeeps, PTL DEF Spec

(***************************************************************************)
(* What the object acquires and gives back.                                *)
(***************************************************************************)
(* Where start() ends, what a set-up function has in its record, and what  *)
(* an object owns.                                                         *)
Labels == {"", "done", "error_open", "error_gate", "error_rx_dma", "error_tx_dma", "error_event"}
Object == [held : SUBSET References, ptr : SUBSET References, over : SUBSET References,
           at : Labels, result : BOOLEAN]

(* What acquiring and giving back do to the record.                        *)
LEMMA GetResult ==
  ASSUME NEW s \in Object, NEW rs \in SUBSET References
  PROVE  /\ Get(s, rs) \in Object
         /\ Get(s, rs).held = s.held \cup rs /\ Get(s, rs).ptr = s.ptr \cup rs
         /\ Get(s, rs).over = s.over /\ Get(s, rs).at = s.at /\ Get(s, rs).result = s.result
BY DEF Get, Object

LEMMA GiveResult ==
  ASSUME NEW s \in Object, NEW rs \in SUBSET References
  PROVE  LET t == Give(s, rs) IN
         /\ t \in Object
         /\ t.held = s.held \ rs /\ t.ptr = s.ptr \ rs /\ t.over = s.over \cup (rs \ s.held)
         /\ t.at = s.at /\ t.result = s.result
BY DEF Give, ReleaseOnly, Object

(* What the steps before the i-th acquire, and what is given back from     *)
(* the j-th of n labels on.                                                *)
Before(steps, i) == UNION {steps[k].get : k \in 1 .. i - 1}
After(labels, n, j) == UNION {labels[k].gives : k \in j .. n}

(* A goto runs through its label and all that follow it.                   *)
LEMMA LabelReached ==
  ASSUME NEW labels, NEW n \in Nat, DOMAIN labels = 1 .. n,
         \A i, j \in 1 .. n : labels[i].name = labels[j].name => i = j
  PROVE  \A j \in 1 .. n : From(labels, labels[j].name) = After(labels, n, j)
<1> TAKE j \in 1 .. n
<1>1. \A k \in 1 .. n : (\E i \in 1 .. k : labels[i].name = labels[j].name) <=> j <= k
  OBVIOUS
<1>2. {k \in DOMAIN labels : \E i \in 1 .. k : labels[i].name = labels[j].name} = j .. n
  BY <1>1
<1>3. QED BY <1>2 DEF From, After

(* Both sums, one step at a time.                                          *)
LEMMA BeforeNext ==
  ASSUME NEW steps
  PROVE  /\ Before(steps, 1) = {}
         /\ \A i \in Nat \ {0} : Before(steps, i + 1) = Before(steps, i) \cup steps[i].get
BY DEF Before

LEMMA AfterNext ==
  ASSUME NEW labels, NEW n \in Nat
  PROVE  /\ After(labels, n, n + 1) = {}
         /\ \A j \in 1 .. n : After(labels, n, j) = labels[j].gives \cup After(labels, n, j + 1)
BY DEF After

(* A set-up function whose every error label gives back exactly what was   *)
(* acquired when its goto is taken ends with all of it, or with the error  *)
(* and the object as it was: nothing is left and nothing is given back     *)
(* twice.                                                                  *)
LEMMA SetUpResult ==
  ASSUME NEW s \in Object, NEW n \in Nat, NEW steps, DOMAIN steps = 1 .. n, NEW labels,
         NEW error \in Labels, NEW all \in SUBSET References,
         all = Before(steps, n + 1),
         all \cap s.held = {}, all \cap s.ptr = {},
         \A i \in 1 .. n : steps[i].part \subseteq steps[i].get
                           /\ From(labels, steps[i].label) = steps[i].part \cup Before(steps, i),
         NEW t \in SetUp(s, steps, labels, error)
  PROVE  /\ t \in Object /\ t.over = s.over /\ t.result = s.result
         /\ \/ t.at = s.at /\ t.held = s.held \cup all /\ t.ptr = s.ptr \cup all
            \/ t.at = error /\ t.held = s.held /\ t.ptr = s.ptr
<1>1. CASE t = Done(s, steps)
  <2>1. t = Get(s, all)
    BY <1>1 DEF Done, Before
  <2>2. QED BY <2>1, GetResult
<1>2. ASSUME NEW i \in 1 .. n, t = [FailsAt(s, steps, labels, i) EXCEPT !.at = error]
      PROVE  t \in Object /\ t.over = s.over /\ t.result = s.result
             /\ t.at = error /\ t.held = s.held /\ t.ptr = s.ptr
  <2> DEFINE got == steps[i].part \cup Before(steps, i)
             u == Get(s, got)
             w == Give(u, got)
  <2>1. FailsAt(s, steps, labels, i) = w
    BY DEF FailsAt, Before
  <2>2. got \subseteq all
    <3>1. Before(steps, i) \subseteq all
      BY DEF Before
    <3>2. steps[i].get \subseteq all
      BY DEF Before
    <3>3. QED BY <3>1, <3>2
  <2> HIDE DEF got
  <2>3. u \in Object /\ u.held = s.held \cup got /\ u.ptr = s.ptr \cup got
        /\ u.over = s.over /\ u.at = s.at /\ u.result = s.result
    BY <2>2, GetResult
  <2> HIDE DEF u
  <2>4. w \in Object /\ w.held = u.held \ got /\ w.ptr = u.ptr \ got
        /\ w.over = u.over \cup (got \ u.held) /\ w.result = u.result
    BY <2>2, <2>3, GiveResult
  <2>5. w.held = s.held /\ w.ptr = s.ptr /\ w.over = s.over /\ w.result = s.result
    BY <2>2, <2>3, <2>4
  <2> HIDE DEF w
  <2>6. t = [w EXCEPT !.at = error]
    BY <1>2, <2>1
  <2>7. QED BY <2>4, <2>5, <2>6 DEF Object
<1>3. QED BY <1>1, <1>2 DEF SetUp

(* setupRxResources(): each label gives back what its gotos find.          *)
RxAll(v) == RxResources \ (IF v THEN {} ELSE {"rxMap"})

LEMMA RxShape ==
  ASSUME NEW v \in BOOLEAN
  PROVE  LET n  == IF v THEN 9 ELSE 8
             st == RxSteps(v)
         IN  /\ DOMAIN st = 1 .. n
             /\ Before(st, n + 1) = RxAll(v)
             /\ \A i \in 1 .. n : st[i].part \subseteq st[i].get
                                  /\ From(RxLabels, st[i].label) = st[i].part \cup Before(st, i)
<1> DEFINE n  == IF v THEN 9 ELSE 8
           st == RxSteps(v)
           a  == <<Need("rxArray", "done"), Need("rxDesc", "error_rx_desc"),
                   Need("rxPrepared", "error_rx_prep"), Need("rxDma", "error_rx_dma"),
                   Need("rxDmaSet", "error_rx_set"), Check("error_rx_seg"),
                   Need("rxPool", "error_rx_pool"), NeedAll("rxBufs", "error_rx_buf")>>
<1>1. /\ DOMAIN st = 1 .. n
      /\ st[1] = Need("rxArray", "done") /\ st[2] = Need("rxDesc", "error_rx_desc")
      /\ st[3] = Need("rxPrepared", "error_rx_prep") /\ st[4] = Need("rxDma", "error_rx_dma")
      /\ st[5] = Need("rxDmaSet", "error_rx_set") /\ st[6] = Check("error_rx_seg")
      /\ st[7] = Need("rxPool", "error_rx_pool") /\ st[8] = NeedAll("rxBufs", "error_rx_buf")
      /\ v => st[9] = Need("rxMap", "error_rx_buf")
  <2>1. CASE v
    <3> DEFINE b == a \o <<Need("rxMap", "error_rx_buf")>>
    <3>1. st = b
      BY <2>1 DEF RxSteps
    <3>2. Len(a) = 8
      OBVIOUS
    <3>3. DOMAIN b = 1 .. 9
      OBVIOUS
    <3>4. \A i \in 1 .. 8 : b[i] = a[i]
      OBVIOUS
    <3>5. b[9] = Need("rxMap", "error_rx_buf")
      OBVIOUS
    <3>6. QED BY <3>1, <3>2, <3>3, <3>4, <3>5, <2>1
  <2>2. CASE ~v
    BY <2>2 DEF RxSteps
  <2>3. QED BY <2>1, <2>2
<1> HIDE DEF st, a
<1>2. /\ Before(st, 1) = {} /\ Before(st, 2) = {"rxArray"}
      /\ Before(st, 3) = {"rxArray", "rxDesc"}
      /\ Before(st, 4) = {"rxArray", "rxDesc", "rxPrepared"}
      /\ Before(st, 5) = {"rxArray", "rxDesc", "rxPrepared", "rxDma"}
      /\ Before(st, 6) = {"rxArray", "rxDesc", "rxPrepared", "rxDma", "rxDmaSet"}
      /\ Before(st, 7) = {"rxArray", "rxDesc", "rxPrepared", "rxDma", "rxDmaSet"}
      /\ Before(st, 8) = {"rxArray", "rxDesc", "rxPrepared", "rxDma", "rxDmaSet", "rxPool"}
      /\ Before(st, 9) = RxAll(FALSE)
      /\ v => Before(st, 10) = RxAll(TRUE)
  <2>1. /\ Before(st, 1) = {} /\ Before(st, 2) = Before(st, 1) \cup st[1].get
        /\ Before(st, 3) = Before(st, 2) \cup st[2].get /\ Before(st, 4) = Before(st, 3) \cup st[3].get
        /\ Before(st, 5) = Before(st, 4) \cup st[4].get /\ Before(st, 6) = Before(st, 5) \cup st[5].get
        /\ Before(st, 7) = Before(st, 6) \cup st[6].get /\ Before(st, 8) = Before(st, 7) \cup st[7].get
        /\ Before(st, 9) = Before(st, 8) \cup st[8].get /\ Before(st, 10) = Before(st, 9) \cup st[9].get
    <3>1. \A i \in Nat \ {0} : Before(st, i + 1) = Before(st, i) \cup st[i].get
      BY BeforeNext
    <3>2. QED BY <3>1, BeforeNext
  <2>2. /\ st[1].get = {"rxArray"} /\ st[2].get = {"rxDesc"} /\ st[3].get = {"rxPrepared"}
        /\ st[4].get = {"rxDma"} /\ st[5].get = {"rxDmaSet"} /\ st[6].get = {}
        /\ st[7].get = {"rxPool"} /\ st[8].get = {"rxBufs"} /\ (v => st[9].get = {"rxMap"})
    BY <1>1 DEF Need, NeedAll, Check
  <2>3. QED BY <2>1, <2>2 DEF RxAll, RxResources
<1>3. /\ From(RxLabels, "done") = {} /\ From(RxLabels, "error_rx_desc") = {"rxArray"}
      /\ From(RxLabels, "error_rx_prep") = {"rxArray", "rxDesc"}
      /\ From(RxLabels, "error_rx_dma") = {"rxArray", "rxDesc", "rxPrepared"}
      /\ From(RxLabels, "error_rx_set") = {"rxArray", "rxDesc", "rxPrepared", "rxDma"}
      /\ From(RxLabels, "error_rx_seg") = {"rxArray", "rxDesc", "rxPrepared", "rxDma", "rxDmaSet"}
      /\ From(RxLabels, "error_rx_pool") = {"rxArray", "rxDesc", "rxPrepared", "rxDma", "rxDmaSet"}
      /\ From(RxLabels, "error_rx_buf") = RxAll(FALSE)
  <2> DEFINE l == RxLabels
             F(j) == After(l, 8, j)
  <2>1. /\ DOMAIN l = 1 .. 8
        /\ l[1].name = "error_rx_buf" /\ l[2].name = "error_rx_pool" /\ l[3].name = "error_rx_seg"
        /\ l[4].name = "error_rx_set" /\ l[5].name = "error_rx_dma" /\ l[6].name = "error_rx_prep"
        /\ l[7].name = "error_rx_desc" /\ l[8].name = "done"
    BY DEF RxLabels, Label
  <2>2. /\ l[1].gives = {"rxBufs", "rxPool"} /\ l[2].gives = {} /\ l[3].gives = {"rxDmaSet"}
        /\ l[4].gives = {"rxDma"} /\ l[5].gives = {"rxPrepared"} /\ l[6].gives = {"rxDesc"}
        /\ l[7].gives = {"rxArray"} /\ l[8].gives = {}
    BY DEF RxLabels, Label
  <2>3. /\ F(9) = {} /\ F(8) = l[8].gives \cup F(9) /\ F(7) = l[7].gives \cup F(8)
        /\ F(6) = l[6].gives \cup F(7) /\ F(5) = l[5].gives \cup F(6) /\ F(4) = l[4].gives \cup F(5)
        /\ F(3) = l[3].gives \cup F(4) /\ F(2) = l[2].gives \cup F(3) /\ F(1) = l[1].gives \cup F(2)
    <3>1. /\ After(l, 8, 8 + 1) = {}
          /\ \A j \in 1 .. 8 : After(l, 8, j) = l[j].gives \cup After(l, 8, j + 1)
      <4> HIDE DEF l
      <4>1. QED BY AfterNext
    <3> HIDE DEF l
    <3>2. QED BY <3>1
  <2>4. \A j \in 1 .. 8 : From(l, l[j].name) = F(j)
    <3> DEFINE m == 8
    <3> HIDE DEF l, F
    <3>1. m \in Nat /\ DOMAIN l = 1 .. m
      BY <2>1
    <3>2. \A i, j \in 1 .. m : l[i].name = l[j].name => i = j
      BY <2>1
    <3> HIDE DEF m
    <3>3. \A j \in 1 .. m : From(l, l[j].name) = After(l, m, j)
      BY <3>1, <3>2, LabelReached, Zenon
    <3>4. QED BY <3>3 DEF F, m
  <2> HIDE DEF l, F
  <2>5. /\ From(l, "done") = F(8) /\ From(l, "error_rx_desc") = F(7) /\ From(l, "error_rx_prep") = F(6)
        /\ From(l, "error_rx_dma") = F(5) /\ From(l, "error_rx_set") = F(4)
        /\ From(l, "error_rx_seg") = F(3) /\ From(l, "error_rx_pool") = F(2)
        /\ From(l, "error_rx_buf") = F(1)
    BY <2>1, <2>4
  <2>6. /\ F(8) = {} /\ F(7) = {"rxArray"} /\ F(6) = {"rxArray", "rxDesc"}
        /\ F(5) = {"rxArray", "rxDesc", "rxPrepared"} /\ F(4) = {"rxArray", "rxDesc", "rxPrepared", "rxDma"}
        /\ F(3) = {"rxArray", "rxDesc", "rxPrepared", "rxDma", "rxDmaSet"} /\ F(2) = F(3)
        /\ F(1) = RxAll(FALSE)
    BY <2>2, <2>3 DEF RxAll, RxResources
  <2>7. QED BY <2>5, <2>6 DEF l
<1>4. /\ st[1].label = "done" /\ st[2].label = "error_rx_desc" /\ st[3].label = "error_rx_prep"
      /\ st[4].label = "error_rx_dma" /\ st[5].label = "error_rx_set" /\ st[6].label = "error_rx_seg"
      /\ st[7].label = "error_rx_pool" /\ st[8].label = "error_rx_buf"
      /\ (v => st[9].label = "error_rx_buf")
      /\ st[1].part = {} /\ st[2].part = {} /\ st[3].part = {} /\ st[4].part = {} /\ st[5].part = {}
      /\ st[6].part = {} /\ st[7].part = {} /\ st[8].part = {"rxBufs"} /\ st[8].get = {"rxBufs"}
      /\ (v => st[9].part = {})
  BY <1>1 DEF Need, NeedAll, Check
<1>5. ASSUME NEW i \in 1 .. n
      PROVE  /\ st[i].part \subseteq st[i].get
             /\ From(RxLabels, st[i].label) = st[i].part \cup Before(st, i)
  <2>1. i \in 1 .. 8 \/ (v /\ i = 9)
    OBVIOUS
  <2>2. CASE i \in 1 .. 7
    <3>1. i = 1 \/ i = 2 \/ i = 3 \/ i = 4 \/ i = 5 \/ i = 6 \/ i = 7
      BY <2>2
    <3>2. QED BY <1>2, <1>3, <1>4, <3>1
  <2>3. CASE i = 8
    <3>1. RxAll(FALSE) = {"rxBufs"} \cup Before(st, 8)
      BY <1>2 DEF RxAll, RxResources
    <3>2. /\ st[8].label = "error_rx_buf" /\ st[8].part = {"rxBufs"} /\ st[8].get = {"rxBufs"}
          /\ From(RxLabels, "error_rx_buf") = RxAll(FALSE)
      BY <1>3, <1>4
    <3> HIDE DEF st
    <3>3. QED BY <2>3, <3>1, <3>2
  <2>4. CASE v /\ i = 9
    <3>1. From(RxLabels, st[9].label) = RxAll(FALSE) /\ Before(st, 9) = RxAll(FALSE)
          /\ st[9].part = {}
      BY <1>2, <1>3, <1>4, <2>4
    <3>2. QED BY <3>1, <2>4
  <2>5. QED BY <2>1, <2>2, <2>3, <2>4
<1>6. Before(st, n + 1) = RxAll(v)
  <2>1. CASE v
    <3>1. n + 1 = 10 /\ RxAll(v) = RxAll(TRUE)
      BY <2>1
    <3>2. QED BY <1>2, <2>1, <3>1
  <2>2. CASE ~v
    <3>1. n + 1 = 9 /\ RxAll(v) = RxAll(FALSE)
      BY <2>2 DEF RxAll
    <3>2. QED BY <1>2, <3>1
  <2>3. QED BY <2>1, <2>2
<1>7. QED BY <1>1, <1>5, <1>6 DEF st

(* setupTxResources() likewise.                                            *)
TxAll(v) ==
  {"txArray", "txDesc", "txPrepared", "txDma", "txDmaSet", IF v THEN "txMap" ELSE "txCursor"}

LEMMA TxShape ==
  ASSUME NEW v \in BOOLEAN
  PROVE  LET st == TxSteps(v)
         IN  /\ DOMAIN st = 1 .. 7
             /\ Before(st, 8) = TxAll(v)
             /\ \A i \in 1 .. 7 : st[i].part \subseteq st[i].get
                                  /\ From(TxLabels, st[i].label) = st[i].part \cup Before(st, i)
<1> DEFINE st == TxSteps(v)
<1>1. /\ DOMAIN st = 1 .. 7 /\ st[1].get = {"txArray"} /\ st[1].label = "done"
      /\ st[1].part = {} /\ st[2].get = {"txDesc"} /\ st[2].label = "error_tx_buf"
      /\ st[2].part = {} /\ st[3].get = {"txPrepared"} /\ st[3].label = "error_tx_prep"
      /\ st[3].part = {} /\ st[4].get = {"txDma"} /\ st[4].label = "error_tx_dma"
      /\ st[4].part = {} /\ st[5].get = {"txDmaSet"} /\ st[5].label = "error_tx_set"
      /\ st[5].part = {} /\ st[6].get = {} /\ st[6].label = "error_tx_seg"
      /\ st[6].part = {} /\ st[7].get = {IF v THEN "txMap" ELSE "txCursor"} /\ st[7].label = "error_tx_seg"
      /\ st[7].part = {}
  BY DEF TxSteps, Need, Check
<1> HIDE DEF st
<1>2. /\ Before(st, 1) = {}
      /\ Before(st, 2) = {"txArray"}
      /\ Before(st, 3) = {"txArray", "txDesc"}
      /\ Before(st, 4) = {"txArray", "txDesc", "txPrepared"}
      /\ Before(st, 5) = {"txArray", "txDesc", "txPrepared", "txDma"}
      /\ Before(st, 6) = {"txArray", "txDesc", "txPrepared", "txDma", "txDmaSet"}
      /\ Before(st, 7) = {"txArray", "txDesc", "txPrepared", "txDma", "txDmaSet"}
      /\ Before(st, 8) = {"txArray", "txDesc", "txPrepared", "txDma", "txDmaSet", IF v THEN "txMap" ELSE "txCursor"}
  <2>1. /\ Before(st, 1) = {}
        /\ Before(st, 2) = Before(st, 1) \cup st[1].get
        /\ Before(st, 3) = Before(st, 2) \cup st[2].get
        /\ Before(st, 4) = Before(st, 3) \cup st[3].get
        /\ Before(st, 5) = Before(st, 4) \cup st[4].get
        /\ Before(st, 6) = Before(st, 5) \cup st[5].get
        /\ Before(st, 7) = Before(st, 6) \cup st[6].get
        /\ Before(st, 8) = Before(st, 7) \cup st[7].get
    <3>1. \A i \in Nat \ {0} : Before(st, i + 1) = Before(st, i) \cup st[i].get
      BY BeforeNext
    <3>2. QED BY <3>1, BeforeNext
  <2>2. QED BY <1>1, <2>1
<1>3. /\ From(TxLabels, "done") = {}
      /\ From(TxLabels, "error_tx_buf") = {"txArray"}
      /\ From(TxLabels, "error_tx_prep") = {"txArray", "txDesc"}
      /\ From(TxLabels, "error_tx_dma") = {"txArray", "txDesc", "txPrepared"}
      /\ From(TxLabels, "error_tx_set") = {"txArray", "txDesc", "txPrepared", "txDma"}
      /\ From(TxLabels, "error_tx_seg") = {"txArray", "txDesc", "txPrepared", "txDma", "txDmaSet"}
  <2> DEFINE l == TxLabels
             F(j) == After(l, 6, j)
  <2>1. /\ DOMAIN l = 1 .. 6 /\ l[1].name = "error_tx_seg"
        /\ l[2].name = "error_tx_set" /\ l[3].name = "error_tx_dma"
        /\ l[4].name = "error_tx_prep" /\ l[5].name = "error_tx_buf"
        /\ l[6].name = "done"
    BY DEF TxLabels, Label
  <2>2. /\ l[1].gives = {"txDmaSet"} /\ l[2].gives = {"txDma"} /\ l[3].gives = {"txPrepared"}
        /\ l[4].gives = {"txDesc"} /\ l[5].gives = {"txArray"} /\ l[6].gives = {}
    BY DEF TxLabels, Label
  <2>3. /\ F(7) = {} /\ F(6) = l[6].gives \cup F(7)
        /\ F(5) = l[5].gives \cup F(6) /\ F(4) = l[4].gives \cup F(5)
        /\ F(3) = l[3].gives \cup F(4) /\ F(2) = l[2].gives \cup F(3)
        /\ F(1) = l[1].gives \cup F(2)
    <3>1. /\ After(l, 6, 6 + 1) = {}
          /\ \A j \in 1 .. 6 : After(l, 6, j) = l[j].gives \cup After(l, 6, j + 1)
      <4> HIDE DEF l
      <4>1. QED BY AfterNext
    <3> HIDE DEF l
    <3>2. QED BY <3>1
  <2>4. \A j \in 1 .. 6 : From(l, l[j].name) = F(j)
    <3> DEFINE m == 6
    <3> HIDE DEF l, F
    <3>1. m \in Nat /\ DOMAIN l = 1 .. m
      BY <2>1
    <3>2. \A i, j \in 1 .. m : l[i].name = l[j].name => i = j
      BY <2>1
    <3> HIDE DEF m
    <3>3. \A j \in 1 .. m : From(l, l[j].name) = After(l, m, j)
      BY <3>1, <3>2, LabelReached, Zenon
    <3>4. QED BY <3>3 DEF F, m
  <2> HIDE DEF l, F
  <2>5. /\ From(l, "done") = F(6) /\ From(l, "error_tx_buf") = F(5)
        /\ From(l, "error_tx_prep") = F(4) /\ From(l, "error_tx_dma") = F(3)
        /\ From(l, "error_tx_set") = F(2) /\ From(l, "error_tx_seg") = F(1)
    BY <2>1, <2>4
  <2>6. QED BY <2>2, <2>3, <2>5 DEF l
<1>4. ASSUME NEW i \in 1 .. 7
      PROVE  /\ st[i].part \subseteq st[i].get
             /\ From(TxLabels, st[i].label) = st[i].part \cup Before(st, i)
  <2>1. i = 1 \/ i = 2 \/ i = 3 \/ i = 4 \/ i = 5 \/ i = 6 \/ i = 7
    OBVIOUS
  <2>2. QED BY <1>1, <1>2, <1>3, <2>1
<1>5. QED BY <1>1, <1>2, <1>4 DEF st, TxAll

(* initEventSources() likewise.                                            *)
EventSteps ==
  <<Need("txQueue", "done"), Need("interruptSource", "error1"), Need("timerSource", "error2")>>
EventLabels ==
  <<Label("error2", {"interruptSource"}), Label("error1", {"txQueue"}), Label("done", {})>>
EventAll == {"txQueue", "interruptSource", "timerSource"}

LEMMA EventShape ==
  LET st == EventSteps
  IN  /\ DOMAIN st = 1 .. 3
             /\ Before(st, 4) = EventAll
             /\ \A i \in 1 .. 3 : st[i].part \subseteq st[i].get
                                  /\ From(EventLabels, st[i].label) = st[i].part \cup Before(st, i)
<1> DEFINE st == EventSteps
<1>1. /\ DOMAIN st = 1 .. 3 /\ st[1].get = {"txQueue"} /\ st[1].label = "done"
      /\ st[1].part = {} /\ st[2].get = {"interruptSource"} /\ st[2].label = "error1"
      /\ st[2].part = {} /\ st[3].get = {"timerSource"} /\ st[3].label = "error2"
      /\ st[3].part = {}
  BY DEF EventSteps, Need, Check
<1> HIDE DEF st
<1>2. /\ Before(st, 1) = {}
      /\ Before(st, 2) = {"txQueue"}
      /\ Before(st, 3) = {"txQueue", "interruptSource"}
      /\ Before(st, 4) = {"txQueue", "interruptSource", "timerSource"}
  <2>1. /\ Before(st, 1) = {}
        /\ Before(st, 2) = Before(st, 1) \cup st[1].get
        /\ Before(st, 3) = Before(st, 2) \cup st[2].get
        /\ Before(st, 4) = Before(st, 3) \cup st[3].get
    <3>1. \A i \in Nat \ {0} : Before(st, i + 1) = Before(st, i) \cup st[i].get
      BY BeforeNext
    <3>2. QED BY <3>1, BeforeNext
  <2>2. QED BY <1>1, <2>1
<1>3. /\ From(EventLabels, "done") = {}
      /\ From(EventLabels, "error1") = {"txQueue"}
      /\ From(EventLabels, "error2") = {"txQueue", "interruptSource"}
  <2> DEFINE l == EventLabels
             F(j) == After(l, 3, j)
  <2>1. /\ DOMAIN l = 1 .. 3 /\ l[1].name = "error2"
        /\ l[2].name = "error1" /\ l[3].name = "done"
    BY DEF EventLabels, Label
  <2>2. /\ l[1].gives = {"interruptSource"} /\ l[2].gives = {"txQueue"} /\ l[3].gives = {}
    BY DEF EventLabels, Label
  <2>3. /\ F(4) = {} /\ F(3) = l[3].gives \cup F(4)
        /\ F(2) = l[2].gives \cup F(3) /\ F(1) = l[1].gives \cup F(2)
    <3>1. /\ After(l, 3, 3 + 1) = {}
          /\ \A j \in 1 .. 3 : After(l, 3, j) = l[j].gives \cup After(l, 3, j + 1)
      <4> DEFINE m == 3
      <4> HIDE DEF l, m
      <4>1. m \in Nat
        BY DEF m
      <4>2. /\ After(l, m, m + 1) = {}
            /\ \A j \in 1 .. m : After(l, m, j) = l[j].gives \cup After(l, m, j + 1)
        BY <4>1, AfterNext
      <4>3. QED BY <4>2 DEF m
    <3> HIDE DEF l
    <3>2. QED BY <3>1
  <2>4. \A j \in 1 .. 3 : From(l, l[j].name) = F(j)
    <3> DEFINE m == 3
    <3> HIDE DEF l, F
    <3>1. m \in Nat /\ DOMAIN l = 1 .. m
      BY <2>1
    <3>2. \A i, j \in 1 .. m : l[i].name = l[j].name => i = j
      BY <2>1
    <3> HIDE DEF m
    <3>3. \A j \in 1 .. m : From(l, l[j].name) = After(l, m, j)
      BY <3>1, <3>2, LabelReached, Zenon
    <3>4. QED BY <3>3 DEF F, m
  <2> HIDE DEF l, F
  <2>5. /\ From(l, "done") = F(3) /\ From(l, "error1") = F(2)
        /\ From(l, "error2") = F(1)
    BY <2>1, <2>4
  <2>6. QED BY <2>2, <2>3, <2>5 DEF l
<1>4. ASSUME NEW i \in 1 .. 3
      PROVE  /\ st[i].part \subseteq st[i].get
             /\ From(EventLabels, st[i].label) = st[i].part \cup Before(st, i)
  <2>1. i = 1 \/ i = 2 \/ i = 3
    OBVIOUS
  <2>2. QED BY <1>1, <1>2, <1>3, <2>1
<1>5. QED BY <1>1, <1>2, <1>4 DEF st, EventAll

(* initPCIConfigSpace() likewise, with and without a flash BAR of its      *)
(* own.                                                                    *)
PciSteps(f) ==
  <<Check("done"), Need("baseMap", "done")>> \o (IF f THEN <<Need("flashMap", "error")>> ELSE <<>>)
PciLabels == <<Label("error", {"baseMap"}), Label("done", {})>>
PciAll(f) == {"baseMap"} \cup (IF f THEN {"flashMap"} ELSE {})

LEMMA PciShape ==
  ASSUME NEW f \in BOOLEAN
  PROVE  LET n  == IF f THEN 3 ELSE 2
             st == PciSteps(f)
         IN  /\ DOMAIN st = 1 .. n
             /\ Before(st, n + 1) = PciAll(f)
             /\ \A i \in 1 .. n : st[i].part \subseteq st[i].get
                                  /\ From(PciLabels, st[i].label) = st[i].part \cup Before(st, i)
<1> DEFINE n  == IF f THEN 3 ELSE 2
           st == PciSteps(f)
           a  == <<Check("done"), Need("baseMap", "done")>>
<1>1. /\ DOMAIN st = 1 .. n
      /\ st[1] = Check("done") /\ st[2] = Need("baseMap", "done")
      /\ f => st[3] = Need("flashMap", "error")
  <2>1. CASE f
    <3> DEFINE b == a \o <<Need("flashMap", "error")>>
    <3>1. st = b
      BY <2>1 DEF PciSteps
    <3>2. DOMAIN b = 1 .. 3
      OBVIOUS
    <3>3. \A i \in 1 .. 2 : b[i] = a[i]
      OBVIOUS
    <3>4. b[3] = Need("flashMap", "error")
      OBVIOUS
    <3>5. QED BY <3>1, <3>2, <3>3, <3>4, <2>1
  <2>2. CASE ~f
    BY <2>2 DEF PciSteps
  <2>3. QED BY <2>1, <2>2
<1> HIDE DEF st, a
<1>2. /\ st[1].get = {} /\ st[1].label = "done" /\ st[1].part = {}
      /\ st[2].get = {"baseMap"} /\ st[2].label = "done" /\ st[2].part = {}
      /\ f => st[3].get = {"flashMap"} /\ st[3].label = "error" /\ st[3].part = {}
  BY <1>1 DEF Need, Check
<1>3. /\ Before(st, 1) = {} /\ Before(st, 2) = {} /\ Before(st, 3) = {"baseMap"}
      /\ f => Before(st, 4) = {"baseMap", "flashMap"}
  <2>1. /\ Before(st, 1) = {} /\ Before(st, 2) = Before(st, 1) \cup st[1].get
        /\ Before(st, 3) = Before(st, 2) \cup st[2].get
        /\ Before(st, 4) = Before(st, 3) \cup st[3].get
    <3>1. \A i \in Nat \ {0} : Before(st, i + 1) = Before(st, i) \cup st[i].get
      BY BeforeNext
    <3>2. QED BY <3>1, BeforeNext
  <2>2. QED BY <1>2, <2>1
<1>4. From(PciLabels, "done") = {} /\ From(PciLabels, "error") = {"baseMap"}
  <2>1. DOMAIN PciLabels = 1 .. 2 /\ PciLabels[1].name = "error" /\ PciLabels[2].name = "done"
        /\ PciLabels[1].gives = {"baseMap"} /\ PciLabels[2].gives = {}
    BY DEF PciLabels, Label
  <2>2. QED BY <2>1 DEF From
<1>5. ASSUME NEW i \in 1 .. n
      PROVE  /\ st[i].part \subseteq st[i].get
             /\ From(PciLabels, st[i].label) = st[i].part \cup Before(st, i)
  <2>1. i = 1 \/ i = 2 \/ (f /\ i = 3)
    OBVIOUS
  <2>2. QED BY <1>2, <1>3, <1>4, <2>1
<1>6. Before(st, n + 1) = PciAll(f)
  <2>1. CASE f
    BY <1>3, <2>1 DEF PciAll
  <2>2. CASE ~f
    BY <1>3, <2>2 DEF PciAll
  <2>3. QED BY <2>1, <2>2
<1>7. QED BY <1>1, <1>5, <1>6 DEF st

(* What holds of an object at all times: a member points to what is owned  *)
(* (the medium dictionary may dangle after a failing publish), nothing     *)
(* was over-released but that dictionary, the AppleVTD parts are there     *)
(* only with AppleVTD, the buffers not without their array, the event      *)
(* sources not without a work loop.                                        *)
Sound(s, v) ==
  /\ s \in Object
  /\ s.held \subseteq s.ptr /\ s.ptr \subseteq s.held \cup {"mediumDict"}
  /\ s.over \subseteq {"mediumDict"}
  /\ "rxMap" \in s.held \/ "txMap" \in s.held => v
  /\ "rxBufs" \in s.held => "rxArray" \in s.held
  /\ "interruptSource" \in s.held \/ "timerSource" \in s.held => "workLoop" \in s.held

(* A release that checks the member and clears it keeps an object sound.   *)
LEMMA ReleaseSound ==
  ASSUME NEW v, NEW s, Sound(s, v), NEW rs \in SUBSET References,
         "rxArray" \in rs => "rxBufs" \in rs,
         "workLoop" \in rs => "interruptSource" \in rs /\ "timerSource" \in rs
  PROVE  LET t == RELEASE(s, rs) IN
         /\ Sound(t, v)
         /\ t.held = s.held \ rs /\ t.at = s.at /\ t.result = s.result
<1> DEFINE t == RELEASE(s, rs)
<1>1. s \in Object /\ rs \cap s.ptr \in SUBSET References
  BY DEF Sound
<1>2. /\ t \in Object
      /\ t.held = s.held \ (rs \cap s.ptr) /\ t.ptr = s.ptr \ (rs \cap s.ptr)
      /\ t.over = s.over \cup ((rs \cap s.ptr) \ s.held)
      /\ t.at = s.at /\ t.result = s.result
  BY <1>1, GiveResult DEF RELEASE
<1> HIDE DEF t
<1>3. t.held = s.held \ rs /\ t.ptr = s.ptr \ rs
  BY <1>2 DEF Sound
<1>4. t.over \subseteq {"mediumDict"}
  BY <1>2 DEF Sound
<1>5. Sound(t, v)
  BY <1>2, <1>3, <1>4 DEF Sound
<1>6. QED BY <1>2, <1>3, <1>5 DEF t

(* So does giving back what is certainly there.                            *)
LEMMA GiveSound ==
  ASSUME NEW v, NEW s, Sound(s, v), NEW r \in {"open", "pciDevice"}, r \in s.held
  PROVE  LET t == Give(s, {r}) IN
         /\ Sound(t, v)
         /\ t.held = s.held \ {r} /\ t.at = s.at /\ t.result = s.result
<1> DEFINE t == Give(s, {r})
<1>1. s \in Object /\ {r} \in SUBSET References
  BY DEF Sound, References
<1>2. /\ t \in Object
      /\ t.held = s.held \ {r} /\ t.ptr = s.ptr \ {r}
      /\ t.over = s.over \cup ({r} \ s.held)
      /\ t.at = s.at /\ t.result = s.result
  BY <1>1, GiveResult
<1> HIDE DEF t
<1>3. t.over \subseteq {"mediumDict"}
  BY <1>2 DEF Sound
<1>4. Sound(t, v)
  BY <1>2, <1>3 DEF Sound
<1>5. QED BY <1>2, <1>4 DEF t

(* freeRxResources(), freeTxResources() and free() release what is there.  *)
LEMMA FreeRxSound ==
  ASSUME NEW v \in BOOLEAN, NEW s, Sound(s, v)
  PROVE  LET t == FreeRxResources(s, v) IN
         /\ Sound(t, v)
         /\ t.held = s.held \ RxResources /\ t.at = s.at /\ t.result = s.result
<1> DEFINE rs == RxResources \ ((IF v THEN {} ELSE {"rxMap"})
                                \cup (IF "rxArray" \in s.ptr THEN {} ELSE {"rxBufs"}))
           t == RELEASE(s, rs)
<1>1. rs \in SUBSET References /\ "workLoop" \notin rs
  BY DEF RxResources, References
<1>2. CASE "rxArray" \in s.ptr
  <2>1. "rxArray" \in rs => "rxBufs" \in rs
    BY <1>2 DEF RxResources
  <2>2. Sound(t, v) /\ t.held = s.held \ rs /\ t.at = s.at /\ t.result = s.result
    <3> HIDE DEF rs
    <3>1. QED BY <1>1, <2>1, ReleaseSound
  <2>3. s.held \ rs = s.held \ RxResources
    BY <1>2 DEF Sound
  <2>4. QED BY <2>2, <2>3 DEF FreeRxResources
<1>3. CASE "rxArray" \notin s.ptr
  <2> DEFINE qs == rs \ {"rxArray"}
  <2>1. "rxArray" \notin s.held /\ "rxBufs" \notin s.held
    BY <1>3 DEF Sound
  <2>2. t = RELEASE(s, qs)
    <3>1. rs \cap s.ptr = qs \cap s.ptr
      BY <1>3
    <3>2. QED BY <3>1 DEF RELEASE
  <2>3. qs \in SUBSET References /\ "workLoop" \notin qs /\ "rxArray" \notin qs
    BY <1>1
  <2>4. Sound(t, v) /\ t.held = s.held \ qs /\ t.at = s.at /\ t.result = s.result
    <3> HIDE DEF qs, rs
    <3>1. QED BY <2>2, <2>3, ReleaseSound
  <2>5. s.held \ qs = s.held \ RxResources
    BY <2>1, <1>3 DEF Sound
  <2>6. QED BY <2>4, <2>5 DEF FreeRxResources
<1>4. QED BY <1>2, <1>3

LEMMA FreeTxSound ==
  ASSUME NEW v \in BOOLEAN, NEW s, Sound(s, v)
  PROVE  LET t == FreeTxResources(s, v) IN
         /\ Sound(t, v)
         /\ t.held = s.held \ TxResources /\ t.at = s.at /\ t.result = s.result
<1> DEFINE rs == IF v THEN TxResources ELSE TxResources \ {"txMap"}
           t == RELEASE(s, rs)
<1>1. rs \in SUBSET References /\ "workLoop" \notin rs /\ "rxArray" \notin rs
  BY DEF TxResources, References
<1>2. Sound(t, v) /\ t.held = s.held \ rs /\ t.at = s.at /\ t.result = s.result
  <2> HIDE DEF rs
  <2>1. QED BY <1>1, ReleaseSound
<1>3. s.held \ rs = s.held \ TxResources
  BY DEF Sound
<1>4. QED BY <1>2, <1>3 DEF FreeTxResources

Common ==
  {"workLoop", "interruptSource", "timerSource", "commandGate", "txQueue", "mediumDict", "baseMap",
   "flashMap", "pciDevice", "mcAddrList"}

LEMMA FreeSound ==
  ASSUME NEW v \in BOOLEAN, NEW s, Sound(s, v)
  PROVE  LET t == Free(s, v) IN
         /\ Sound(t, v)
         /\ t.held = s.held \ (Common \cup TxResources \cup RxResources)
         /\ t.held \subseteq {"open", "mapper", "netif", "DRV_LOAD"}
         /\ t.at = s.at /\ t.result = s.result
<1> DEFINE ws == IF "workLoop" \in s.ptr THEN {"interruptSource", "timerSource", "workLoop"} ELSE {}
           cs == {"commandGate", "txQueue", "mediumDict", "baseMap", "flashMap", "pciDevice", "mcAddrList"}
           a == RELEASE(s, ws)
           b == RELEASE(a, cs)
           c == FreeTxResources(b, v)
           t == FreeRxResources(c, v)
<1>1. t = Free(s, v)
  BY DEF Free, ReleaseCommon
<1>2. Sound(a, v) /\ a.held = s.held \ ws /\ a.at = s.at /\ a.result = s.result
  <2>1. ws \in SUBSET References /\ "rxArray" \notin ws
        /\ ("workLoop" \in ws => "interruptSource" \in ws /\ "timerSource" \in ws)
    BY DEF References
  <2> HIDE DEF ws
  <2>2. QED BY <2>1, ReleaseSound
<1>3. a.held = s.held \ {"interruptSource", "timerSource", "workLoop"}
  BY <1>2 DEF Sound
<1> HIDE DEF a
<1>4. Sound(b, v) /\ b.held = a.held \ cs /\ b.at = a.at /\ b.result = a.result
  <2>1. cs \in SUBSET References /\ "rxArray" \notin cs /\ "workLoop" \notin cs
    BY DEF References
  <2> HIDE DEF cs
  <2>2. QED BY <1>2, <2>1, ReleaseSound
<1> HIDE DEF b
<1>5. Sound(c, v) /\ c.held = b.held \ TxResources /\ c.at = b.at /\ c.result = b.result
  BY <1>4, FreeTxSound
<1> HIDE DEF c
<1>6. Sound(t, v) /\ t.held = c.held \ RxResources /\ t.at = c.at /\ t.result = c.result
  BY <1>5, FreeRxSound
<1> HIDE DEF t
<1>7. t.held = s.held \ (Common \cup TxResources \cup RxResources)
  BY <1>3, <1>4, <1>5, <1>6 DEF Common
<1>8. s.held \subseteq References
  BY DEF Sound, Object
<1>9. t.held \subseteq {"open", "mapper", "netif", "DRV_LOAD"}
  <2>1. References \ (Common \cup TxResources \cup RxResources)
          = {"open", "mapper", "netif", "DRV_LOAD"}
    BY DEF References, Common, TxResources, RxResources
  <2>2. QED BY <1>7, <1>8, <2>1
<1>10. t.at = s.at /\ t.result = s.result
  BY <1>2, <1>4, <1>5, <1>6
<1>11. QED BY <1>1, <1>6, <1>7, <1>9, <1>10

-------------------------------------------------------------------------------
(* A start() that goes on owns what it acquired so far; one that failed has  *)
(* what its error label takes for granted.                                  *)
Going(s, H) ==
  /\ s \in Object /\ s.at = "" /\ s.result = TRUE /\ s.over = {}
  /\ s.held = H /\ s.ptr = H

Failed(s, v) ==
  /\ Sound(s, v) /\ "netif" \notin s.held
  /\ s.at \in {"done", "error_open", "error_gate", "error_rx_dma", "error_tx_dma", "error_event"}
  /\ s.at = "done" => "open" \notin s.held
  /\ s.at = "error_open" => "open" \notin s.held /\ "pciDevice" \in s.held
  /\ s.at \notin {"done", "error_open"} => "open" \in s.held /\ "pciDevice" \in s.held

(* What an attached interface works with, and how start() ends.            *)
Complete == References \ {"flashMap", "mcAddrList", "DRV_LOAD", "rxMap", "txMap", "txCursor", "open"}

Started(s, v) ==
  /\ Sound(s, v) /\ "open" \notin s.held
  /\ s.at = "" => s.result /\ Complete \subseteq s.held
  /\ s.at # "" => "netif" \notin s.held

(* The error labels of start() leave nothing open and nothing attached.    *)
LEMMA UnwindStarted ==
  ASSUME NEW v \in BOOLEAN, NEW s, Failed(s, v)
  PROVE  Started(Unwind(s, v), v)
<1> DEFINE e == s.at
           a == IF e = "error_event" THEN FreeTxResources(s, v) ELSE s
           b == IF e \in {"error_event", "error_tx_dma"} THEN FreeRxResources(a, v) ELSE a
           c == IF e \in {"error_event", "error_tx_dma", "error_rx_dma"}
                  THEN RELEASE(b, {"commandGate"}) ELSE b
           d == IF e \in {"", "error_open", "done"} THEN c ELSE Give(c, {"open"})
           t == Give(d, {"pciDevice"})
<1>1. e # "" /\ Sound(s, v)
  BY DEF Failed
<1>2. Unwind(s, v) = IF e = "done" THEN s ELSE t
  BY <1>1 DEF Unwind
<1>3. Sound(a, v) /\ a.at = e /\ a.held \subseteq s.held
      /\ \A r \in {"open", "pciDevice"} : r \in a.held <=> r \in s.held
  <2>1. "open" \notin TxResources /\ "pciDevice" \notin TxResources
    BY DEF TxResources
  <2>2. LET u == FreeTxResources(s, v) IN
        Sound(u, v) /\ u.held = s.held \ TxResources /\ u.at = s.at
    BY <1>1, FreeTxSound
  <2>3. s.at = e
    OBVIOUS
  <2> HIDE DEF e
  <2>4. QED BY <1>1, <2>1, <2>2, <2>3
<1> HIDE DEF a
<1>4. Sound(b, v) /\ b.at = e /\ b.held \subseteq s.held
      /\ \A r \in {"open", "pciDevice"} : r \in b.held <=> r \in s.held
  <2>1. "open" \notin RxResources /\ "pciDevice" \notin RxResources
    BY DEF RxResources
  <2>2. QED BY <1>3, <2>1, FreeRxSound
<1> HIDE DEF b
<1>5. Sound(c, v) /\ c.at = e /\ c.held \subseteq s.held
      /\ \A r \in {"open", "pciDevice"} : r \in c.held <=> r \in s.held
  <2>1. {"commandGate"} \in SUBSET References
    BY DEF References
  <2>2. RELEASE(b, {"commandGate"}).held = b.held \ {"commandGate"}
        /\ Sound(RELEASE(b, {"commandGate"}), v) /\ RELEASE(b, {"commandGate"}).at = b.at
    BY <1>4, <2>1, ReleaseSound
  <2>3. QED BY <1>4, <2>2
<1> HIDE DEF c
<1>6. Sound(d, v) /\ d.at = e /\ d.held \subseteq s.held
      /\ (e # "done" => "open" \notin d.held /\ "pciDevice" \in d.held)
  <2>1. CASE e \in {"error_open", "done"}
    <3>1. d = c
      BY <2>1
    <3>2. QED BY <1>5, <2>1, <3>1 DEF Failed
  <2>2. CASE e \notin {"error_open", "done"}
    <3>1. d = Give(c, {"open"})
      BY <1>1, <2>2
    <3>2. "open" \in c.held /\ "pciDevice" \in c.held
      BY <1>5, <2>2 DEF Failed
    <3>3. Sound(d, v) /\ d.held = c.held \ {"open"} /\ d.at = c.at
      BY <1>5, <3>1, <3>2, GiveSound
    <3>4. QED BY <1>5, <3>2, <3>3
  <2>3. QED BY <2>1, <2>2
<1> HIDE DEF d
<1>7. CASE e = "done"
  <2>1. "open" \notin s.held /\ "netif" \notin s.held
    BY <1>7 DEF Failed
  <2>2. QED BY <1>1, <1>2, <1>7, <2>1 DEF Started
<1>8. CASE e # "done"
  <2>1. Sound(t, v) /\ t.held = d.held \ {"pciDevice"} /\ t.at = d.at
    BY <1>6, <1>8, GiveSound
  <2>2. "open" \notin t.held /\ "netif" \notin t.held /\ t.at # ""
    BY <1>1, <1>6, <1>8, <2>1 DEF Failed
  <2> HIDE DEF t
  <2>3. QED BY <1>2, <1>8, <2>1, <2>2 DEF Started
<1>9. QED BY <1>7, <1>8

LEMMA GoingSound ==
  ASSUME NEW v, NEW s, NEW H, Going(s, H),
         "rxMap" \in H \/ "txMap" \in H => v, "rxBufs" \in H => "rxArray" \in H,
         "interruptSource" \in H \/ "timerSource" \in H => "workLoop" \in H
  PROVE  Sound(s, v)
BY DEF Going, Sound

(* A step of start() that acquires, or fails.                               *)
LEMMA GetGoing ==
  ASSUME NEW s, NEW H \in SUBSET References, Going(s, H), NEW rs \in SUBSET References
  PROVE  Going(Get(s, rs), H \cup rs)
<1>1. s \in Object
  BY DEF Going
<1>2. /\ Get(s, rs) \in Object
      /\ Get(s, rs).held = s.held \cup rs /\ Get(s, rs).ptr = s.ptr \cup rs
      /\ Get(s, rs).over = s.over /\ Get(s, rs).at = s.at /\ Get(s, rs).result = s.result
  BY <1>1, GetResult
<1>3. QED BY <1>2 DEF Going

(* A set-up step that failed has taken what its error label gives back.    *)
LEMMA NotGoing ==
  ASSUME NEW v, NEW t \in Object, NEW H, t.held = H, t.ptr = H, t.over = {},
         t.at \in {"error_gate", "error_rx_dma", "error_tx_dma", "error_event"},
         {"open", "pciDevice", "workLoop"} \subseteq H, "netif" \notin H,
         "rxMap" \in H \/ "txMap" \in H => v, "rxBufs" \in H => "rxArray" \in H
  PROVE  Failed(t, v)
BY DEF Failed, Sound

(* start(), from a new object, step by step: H1 to H11 is what it owns     *)
(* when it goes on after each of its eleven parts.                         *)
LEMMA StartResult ==
  ASSUME NEW v \in BOOLEAN, NEW f \in BOOLEAN, NEW t \in Start(New, v, f)
  PROVE  Started(t, v)
<1> DEFINE try(s, get, error) == {Get(s, {get}), [s EXCEPT !.at = error]}
           super == {Get(New, {"workLoop"}), [New EXCEPT !.at = "done", !.result = FALSE]}
           device(s) == try(s, "pciDevice", "done")
           open(s) == try(s, "open", "error_open")
           pci(s) == InitPCIConfigSpace(Get(s, {"mapper"}), f)
           chip(s) == try(s, "DRV_LOAD", "error_gate")
           gate(s) == try(s, "commandGate", "error_gate")
           rx(s) == SetupRxResources(s, v)
           tx(s) == SetupTxResources(s, v)
           S2 == Then(super, device)
           S3 == Then(S2, open)
           S4 == Then(S3, pci)
           S5 == Then(S4, chip)
           S6 == Then(S5, SetupMediumDict)
           S7 == Then(S6, gate)
           S8 == Then(S7, rx)
           S9 == Then(S8, tx)
           S10 == Then(S9, InitEventSources)
           S11 == Then(S10, AttachInterface)
<1>1. Start(New, v, f) = {Unwind(s, v) : s \in S11}
  BY DEF Start
<1> DEFINE H1 == {"workLoop"}
           H2 == H1 \cup {"pciDevice"}
           H3 == H2 \cup {"open"}
           H4 == (H3 \cup {"mapper"}) \cup PciAll(f)
           H5 == H4 \cup {"DRV_LOAD"}
           H6 == H5 \cup {"mediumDict"}
           H7 == H6 \cup {"commandGate"}
           H8 == H7 \cup RxAll(v)
           H9 == H8 \cup TxAll(v)
           H10 == H9 \cup EventAll
           H11 == H10 \cup {"netif"}
           holds(s, H) == Going(s, H) \/ Failed(s, v)

<1> DEFINE fine(H) == /\ H \in SUBSET References /\ "netif" \notin H
                      /\ {"open", "pciDevice", "workLoop"} \subseteq H
                      /\ "rxMap" \in H \/ "txMap" \in H => v
                      /\ "rxBufs" \in H => "rxArray" \in H
<1>2. /\ fine(H3) /\ fine(H3 \cup {"mapper"}) /\ fine(H4) /\ fine(H5) /\ fine(H6) /\ fine(H7)
      /\ "mediumDict" \notin H5
      /\ PciAll(f) \cap (H3 \cup {"mapper"}) = {} /\ PciAll(f) \in SUBSET References
  BY DEF References, PciAll
<1>3. /\ fine(H8) /\ RxAll(v) \cap H7 = {} /\ RxAll(v) \in SUBSET References
  BY DEF References, PciAll, RxAll, RxResources
<1>4. /\ fine(H9) /\ TxAll(v) \cap H8 = {} /\ TxAll(v) \in SUBSET References
  BY <1>3 DEF References, PciAll, RxAll, RxResources, TxAll, TxResources
<1>5. /\ fine(H10) /\ EventAll \cap H9 = {} /\ EventAll \in SUBSET References
  BY <1>4 DEF References, PciAll, RxAll, RxResources, TxAll, EventAll
<1>6. H2 \in SUBSET References /\ H1 \in SUBSET References /\ H11 \in SUBSET References
  BY <1>5 DEF References
<1> HIDE DEF S2, S3, S4, S5, S6, S7, S8, S9, S10, S11, H3, H4, H5, H6, H7, H8, H9, H10, H11
<1>7. /\ New \in Object /\ New.held = {} /\ New.ptr = {} /\ New.over = {} /\ New.at = ""
      /\ New.result = TRUE
  <2>1. New \in Object
    BY DEF New, Object, Labels
  <2>2. QED BY <2>1, Zenon DEF New
<1>8. ASSUME NEW s \in super PROVE holds(s, H1)
  <2>1. Going(New, {})
    BY <1>7 DEF Going
  <2>2. CASE s = Get(New, {"workLoop"})
    <3>1. {"workLoop"} \in SUBSET References /\ {} \in SUBSET References
      BY DEF References
    <3>2. Going(s, {} \cup {"workLoop"})
      BY <2>1, <2>2, <3>1, GetGoing
    <3>3. QED BY <3>2
  <2>3. CASE s = [New EXCEPT !.at = "done", !.result = FALSE]
    <3>1. s \in Object /\ s.held = {} /\ s.ptr = {} /\ s.over = {} /\ s.at = "done"
      BY <1>7, <2>3 DEF Object, Labels
    <3>2. QED BY <3>1 DEF Failed, Sound
  <2>4. QED BY <2>2, <2>3

<1>9. ASSUME NEW s \in S2 PROVE holds(s, H2)
  <2>1. PICK r \in super : s \in IF r.at = "" THEN device(r) ELSE {r}
    <3> HIDE DEF super, device
    <3>1. QED BY DEF S2, Then
  <2>2. holds(r, H1)
    BY <1>8
  <2>3. CASE Failed(r, v)
    <3>1. s = r
      BY <2>1, <2>3 DEF Failed
    <3>2. QED BY <2>3, <3>1
  <2>4. ASSUME Going(r, H1), s \in device(r) PROVE holds(s, H2)
    <3>1. CASE s = Get(r, {"pciDevice"})
      <4>1. {"pciDevice"} \in SUBSET References
        BY DEF References
      <4>2. Going(s, H1 \cup {"pciDevice"})
        BY <1>6, <2>4, <3>1, <4>1, GetGoing
      <4>3. QED BY <4>2 DEF H2
    <3>2. CASE s = [r EXCEPT !.at = "done"]
      <4>1. s \in Object /\ s.held = H1 /\ s.ptr = H1 /\ s.over = {} /\ s.at = "done"
        BY <2>4, <3>2 DEF Going, Object, Labels
      <4>2. QED BY <1>6, <4>1 DEF Failed, Sound
    <3>3. QED BY <2>4, <3>1, <3>2
  <2>5. CASE Going(r, H1)
    BY <2>1, <2>4, <2>5 DEF Going
  <2>6. QED BY <2>2, <2>3, <2>5

<1>10. ASSUME NEW s \in S3 PROVE holds(s, H3)
  <2>1. PICK r \in S2 : s \in IF r.at = "" THEN open(r) ELSE {r}
    <3> HIDE DEF open
    <3>1. QED BY DEF S3, Then
  <2>2. holds(r, H2)
    BY <1>9
  <2>3. CASE Failed(r, v)
    <3>1. s = r
      BY <2>1, <2>3 DEF Failed
    <3>2. QED BY <2>3, <3>1
  <2>4. ASSUME Going(r, H2), s \in open(r) PROVE holds(s, H3)
    <3>1. CASE s = Get(r, {"open"})
      <4>1. {"open"} \in SUBSET References
        BY DEF References
      <4>2. Going(s, H2 \cup {"open"})
        BY <1>6, <2>4, <3>1, <4>1, GetGoing
      <4>3. QED BY <4>2 DEF H3
    <3>2. CASE s = [r EXCEPT !.at = "error_open"]
      <4>1. s \in Object /\ s.held = H2 /\ s.ptr = H2 /\ s.over = {} /\ s.at = "error_open"
        BY <2>4, <3>2 DEF Going, Object, Labels
      <4>2. QED BY <1>6, <4>1 DEF Failed, Sound
    <3>3. QED BY <2>4, <3>1, <3>2
  <2>5. CASE Going(r, H2)
    BY <2>1, <2>4, <2>5 DEF Going
  <2>6. QED BY <2>2, <2>3, <2>5

<1>11. ASSUME NEW s \in S4 PROVE holds(s, H4)
  <2>1. PICK r \in S3 : s \in IF r.at = "" THEN pci(r) ELSE {r}
    <3> HIDE DEF pci
    <3>1. QED BY DEF S4, Then
  <2>2. holds(r, H3)
    BY <1>10
  <2>3. CASE Failed(r, v)
    <3>1. s = r
      BY <2>1, <2>3 DEF Failed
    <3>2. QED BY <2>3, <3>1
  <2>4. ASSUME Going(r, H3), s \in pci(r) PROVE holds(s, H4)
    <3> DEFINE st == PciSteps(f)
               n  == IF f THEN 3 ELSE 2
               u  == Get(r, {"mapper"})
    <3>0. Going(u, H3 \cup {"mapper"})
      <4>1. {"mapper"} \in SUBSET References
        BY DEF References
      <4>2. QED BY <1>2, <2>4, <4>1, GetGoing
    <3> DEFINE Hm == H3 \cup {"mapper"}
    <3>1. /\ n \in Nat /\ DOMAIN st = 1 .. n /\ PciAll(f) = Before(st, n + 1)
          /\ \A i \in 1 .. n : st[i].part \subseteq st[i].get
                               /\ From(PciLabels, st[i].label) = st[i].part \cup Before(st, i)
      BY PciShape
    <3>2. s \in SetUp(u, st, PciLabels, "error_gate")
      BY <2>4 DEF InitPCIConfigSpace, PciSteps, PciLabels
    <3> HIDE DEF st, n
    <3>3. /\ PciAll(f) \cap u.held = {} /\ PciAll(f) \cap u.ptr = {} /\ u \in Object
          /\ u.at = "" /\ u.result = TRUE /\ u.over = {}
          /\ u.held = Hm /\ u.ptr = Hm
      BY <1>2, <3>0 DEF Going
    <3>4. /\ s \in Object /\ s.over = u.over /\ s.result = u.result
          /\ \/ /\ s.at = u.at /\ s.held = u.held \cup PciAll(f)
                /\ s.ptr = u.ptr \cup PciAll(f)
             \/ s.at = "error_gate" /\ s.held = u.held /\ s.ptr = u.ptr
      <4> DEFINE all == PciAll(f)
                 error == "error_gate"
      <4>1. all \in SUBSET References /\ error \in Labels
        BY <1>2 DEF Labels
      <4> HIDE DEF all, error
      <4>2. /\ u \in Object /\ all \cap u.held = {} /\ all \cap u.ptr = {}
            /\ all = Before(st, n + 1) /\ n \in Nat /\ DOMAIN st = 1 .. n
            /\ s \in SetUp(u, st, PciLabels, error)
        BY <3>1, <3>2, <3>3 DEF all, error
      <4>3. /\ s \in Object /\ s.over = u.over /\ s.result = u.result
            /\ \/ /\ s.at = u.at /\ s.held = u.held \cup all
                  /\ s.ptr = u.ptr \cup all
               \/ s.at = error /\ s.held = u.held /\ s.ptr = u.ptr
        BY <3>1, <4>1, <4>2, SetUpResult
      <4>4. QED BY <4>3 DEF all, error
    <3>5. CASE s.at = ""
      <4>1. Going(s, H4)
        BY <3>3, <3>4, <3>5 DEF Going, H4
      <4>2. QED BY <4>1
    <3>6. CASE s.at = "error_gate"
      <4>1. s.held = Hm /\ s.ptr = Hm /\ s.over = {}
        BY <3>3, <3>4, <3>6
      <4>2. QED BY <1>2, <3>4, <3>6, <4>1, NotGoing
    <3>7. QED BY <3>3, <3>4, <3>5, <3>6
  <2>5. CASE Going(r, H3)
    BY <2>1, <2>4, <2>5 DEF Going
  <2>6. QED BY <2>2, <2>3, <2>5

<1>12. ASSUME NEW s \in S5 PROVE holds(s, H5)
  <2>1. PICK r \in S4 : s \in IF r.at = "" THEN chip(r) ELSE {r}
    <3> HIDE DEF chip
    <3>1. QED BY DEF S5, Then
  <2>2. holds(r, H4)
    BY <1>11
  <2>3. CASE Failed(r, v)
    <3>1. s = r
      BY <2>1, <2>3 DEF Failed
    <3>2. QED BY <2>3, <3>1
  <2>4. ASSUME Going(r, H4), s \in chip(r) PROVE holds(s, H5)
    <3>1. CASE s = Get(r, {"DRV_LOAD"})
      <4>1. {"DRV_LOAD"} \in SUBSET References
        BY DEF References
      <4>2. Going(s, H4 \cup {"DRV_LOAD"})
        BY <1>2, <2>4, <3>1, <4>1, GetGoing
      <4>3. QED BY <4>2 DEF H5
    <3>2. CASE s = [r EXCEPT !.at = "error_gate"]
      <4>1. s \in Object /\ s.held = H4 /\ s.ptr = H4 /\ s.over = {} /\ s.at = "error_gate"
        BY <2>4, <3>2 DEF Going, Object, Labels
      <4>2. QED BY <1>2, <4>1, NotGoing
    <3>3. QED BY <2>4, <3>1, <3>2
  <2>5. CASE Going(r, H4)
    BY <2>1, <2>4, <2>5 DEF Going
  <2>6. QED BY <2>2, <2>3, <2>5

<1>13. ASSUME NEW s \in S6 PROVE holds(s, H6)
  <2>1. PICK r \in S5 : s \in IF r.at = "" THEN SetupMediumDict(r) ELSE {r}
    <3>1. QED BY DEF S6, Then
  <2>2. holds(r, H5)
    BY <1>12
  <2>3. CASE Failed(r, v)
    <3>1. s = r
      BY <2>1, <2>3 DEF Failed
    <3>2. QED BY <2>3, <3>1
  <2>4. ASSUME Going(r, H5), s \in SetupMediumDict(r) PROVE holds(s, H6)
    <3> DEFINE d == Get(r, {"mediumDict"})
    <3>1. {"mediumDict"} \in SUBSET References
      BY DEF References
    <3>2. Going(d, H6)
      BY <1>2, <2>4, <3>1, GetGoing DEF H6
    <3>3. s = d \/ s = [ReleaseOnly(d, {"mediumDict"}) EXCEPT !.at = "error_gate"]
      BY <2>4 DEF SetupMediumDict
    <3> HIDE DEF d
    <3>4. CASE s = [ReleaseOnly(d, {"mediumDict"}) EXCEPT !.at = "error_gate"]
      <4>1. /\ s \in Object /\ s.held = H6 \ {"mediumDict"} /\ s.ptr = H6 /\ s.at = "error_gate"
            /\ s.over = {"mediumDict"} \ H6
        BY <3>1, <3>2, <3>4 DEF Going, Object, Labels, ReleaseOnly
      <4>2. QED BY <1>2, <4>1 DEF Failed, Sound
    <3>5. QED BY <3>2, <3>3, <3>4
  <2>5. CASE Going(r, H5)
    BY <2>1, <2>4, <2>5 DEF Going
  <2>6. QED BY <2>2, <2>3, <2>5

<1>14. ASSUME NEW s \in S7 PROVE holds(s, H7)
  <2>1. PICK r \in S6 : s \in IF r.at = "" THEN gate(r) ELSE {r}
    <3> HIDE DEF gate
    <3>1. QED BY DEF S7, Then
  <2>2. holds(r, H6)
    BY <1>13
  <2>3. CASE Failed(r, v)
    <3>1. s = r
      BY <2>1, <2>3 DEF Failed
    <3>2. QED BY <2>3, <3>1
  <2>4. ASSUME Going(r, H6), s \in gate(r) PROVE holds(s, H7)
    <3>1. CASE s = Get(r, {"commandGate"})
      <4>1. {"commandGate"} \in SUBSET References
        BY DEF References
      <4>2. Going(s, H6 \cup {"commandGate"})
        BY <1>2, <2>4, <3>1, <4>1, GetGoing
      <4>3. QED BY <4>2 DEF H7
    <3>2. CASE s = [r EXCEPT !.at = "error_gate"]
      <4>1. s \in Object /\ s.held = H6 /\ s.ptr = H6 /\ s.over = {} /\ s.at = "error_gate"
        BY <2>4, <3>2 DEF Going, Object, Labels
      <4>2. QED BY <1>2, <4>1, NotGoing
    <3>3. QED BY <2>4, <3>1, <3>2
  <2>5. CASE Going(r, H6)
    BY <2>1, <2>4, <2>5 DEF Going
  <2>6. QED BY <2>2, <2>3, <2>5

<1>15. ASSUME NEW s \in S8 PROVE holds(s, H8)
  <2>1. PICK r \in S7 : s \in IF r.at = "" THEN rx(r) ELSE {r}
    <3> HIDE DEF rx
    <3>1. QED BY DEF S8, Then
  <2>2. holds(r, H7)
    BY <1>14
  <2>3. CASE Failed(r, v)
    <3>1. s = r
      BY <2>1, <2>3 DEF Failed
    <3>2. QED BY <2>3, <3>1
  <2>4. ASSUME Going(r, H7), s \in rx(r) PROVE holds(s, H8)
    <3> DEFINE st == RxSteps(v)
               n  == IF v THEN 9 ELSE 8
    <3>1. /\ n \in Nat /\ DOMAIN st = 1 .. n /\ RxAll(v) = Before(st, n + 1)
          /\ \A i \in 1 .. n : st[i].part \subseteq st[i].get
                               /\ From(RxLabels, st[i].label) = st[i].part \cup Before(st, i)
      BY RxShape
    <3>2. s \in SetUp(r, st, RxLabels, "error_rx_dma")
      BY <2>4 DEF SetupRxResources
    <3> HIDE DEF st, n
    <3>3. /\ RxAll(v) \cap r.held = {} /\ RxAll(v) \cap r.ptr = {} /\ r \in Object
          /\ r.at = "" /\ r.result = TRUE /\ r.over = {}
          /\ r.held = H7 /\ r.ptr = H7
      BY <1>2, <1>3, <2>4 DEF Going
    <3>4. /\ s \in Object /\ s.over = r.over /\ s.result = r.result
          /\ \/ /\ s.at = r.at /\ s.held = r.held \cup RxAll(v)
                /\ s.ptr = r.ptr \cup RxAll(v)
             \/ s.at = "error_rx_dma" /\ s.held = r.held /\ s.ptr = r.ptr
      <4> DEFINE all == RxAll(v)
                 error == "error_rx_dma"
      <4>1. all \in SUBSET References /\ error \in Labels
        BY <1>2, <1>3 DEF Labels
      <4> HIDE DEF all, error
      <4>2. /\ r \in Object /\ all \cap r.held = {} /\ all \cap r.ptr = {}
            /\ all = Before(st, n + 1) /\ n \in Nat /\ DOMAIN st = 1 .. n
            /\ s \in SetUp(r, st, RxLabels, error)
        BY <3>1, <3>2, <3>3 DEF all, error
      <4>3. /\ s \in Object /\ s.over = r.over /\ s.result = r.result
            /\ \/ /\ s.at = r.at /\ s.held = r.held \cup all
                  /\ s.ptr = r.ptr \cup all
               \/ s.at = error /\ s.held = r.held /\ s.ptr = r.ptr
        BY <3>1, <4>1, <4>2, SetUpResult
      <4>4. QED BY <4>3 DEF all, error
    <3>5. CASE s.at = ""
      <4>1. Going(s, H8)
        BY <3>3, <3>4, <3>5 DEF Going, H8
      <4>2. QED BY <4>1
    <3>6. CASE s.at = "error_rx_dma"
      <4>1. s.held = H7 /\ s.ptr = H7 /\ s.over = {}
        BY <3>3, <3>4, <3>6
      <4>2. QED BY <1>2, <1>3, <3>4, <3>6, <4>1, NotGoing
    <3>7. QED BY <3>3, <3>4, <3>5, <3>6
  <2>5. CASE Going(r, H7)
    BY <2>1, <2>4, <2>5 DEF Going
  <2>6. QED BY <2>2, <2>3, <2>5

<1>16. ASSUME NEW s \in S9 PROVE holds(s, H9)
  <2>1. PICK r \in S8 : s \in IF r.at = "" THEN tx(r) ELSE {r}
    <3> HIDE DEF tx
    <3>1. QED BY DEF S9, Then
  <2>2. holds(r, H8)
    BY <1>15
  <2>3. CASE Failed(r, v)
    <3>1. s = r
      BY <2>1, <2>3 DEF Failed
    <3>2. QED BY <2>3, <3>1
  <2>4. ASSUME Going(r, H8), s \in tx(r) PROVE holds(s, H9)
    <3> DEFINE st == TxSteps(v)
               n  == 7
    <3>1. /\ n \in Nat /\ DOMAIN st = 1 .. n /\ TxAll(v) = Before(st, n + 1)
          /\ \A i \in 1 .. n : st[i].part \subseteq st[i].get
                               /\ From(TxLabels, st[i].label) = st[i].part \cup Before(st, i)
      <4>1. /\ DOMAIN st = 1 .. 7 /\ Before(st, 8) = TxAll(v)
            /\ \A i \in 1 .. 7 : st[i].part \subseteq st[i].get
                                 /\ From(TxLabels, st[i].label) = st[i].part \cup Before(st, i)
        BY TxShape
      <4>2. n = 7 /\ n + 1 = 8 /\ n \in Nat
        OBVIOUS
      <4> HIDE DEF n, st
      <4>3. QED BY <4>1, <4>2
    <3>2. s \in SetUp(r, st, TxLabels, "error_tx_dma")
      BY <2>4 DEF SetupTxResources
    <3> HIDE DEF st, n
    <3>3. /\ TxAll(v) \cap r.held = {} /\ TxAll(v) \cap r.ptr = {} /\ r \in Object
          /\ r.at = "" /\ r.result = TRUE /\ r.over = {}
          /\ r.held = H8 /\ r.ptr = H8
      BY <1>3, <1>4, <2>4 DEF Going
    <3>4. /\ s \in Object /\ s.over = r.over /\ s.result = r.result
          /\ \/ /\ s.at = r.at /\ s.held = r.held \cup TxAll(v)
                /\ s.ptr = r.ptr \cup TxAll(v)
             \/ s.at = "error_tx_dma" /\ s.held = r.held /\ s.ptr = r.ptr
      <4> DEFINE all == TxAll(v)
                 error == "error_tx_dma"
      <4>1. all \in SUBSET References /\ error \in Labels
        BY <1>3, <1>4 DEF Labels
      <4> HIDE DEF all, error
      <4>2. /\ r \in Object /\ all \cap r.held = {} /\ all \cap r.ptr = {}
            /\ all = Before(st, n + 1) /\ n \in Nat /\ DOMAIN st = 1 .. n
            /\ s \in SetUp(r, st, TxLabels, error)
        BY <3>1, <3>2, <3>3 DEF all, error
      <4>3. /\ s \in Object /\ s.over = r.over /\ s.result = r.result
            /\ \/ /\ s.at = r.at /\ s.held = r.held \cup all
                  /\ s.ptr = r.ptr \cup all
               \/ s.at = error /\ s.held = r.held /\ s.ptr = r.ptr
        BY <3>1, <4>1, <4>2, SetUpResult
      <4>4. QED BY <4>3 DEF all, error
    <3>5. CASE s.at = ""
      <4>1. Going(s, H9)
        BY <3>3, <3>4, <3>5 DEF Going, H9
      <4>2. QED BY <4>1
    <3>6. CASE s.at = "error_tx_dma"
      <4>1. s.held = H8 /\ s.ptr = H8 /\ s.over = {}
        BY <3>3, <3>4, <3>6
      <4>2. QED BY <1>3, <1>4, <3>4, <3>6, <4>1, NotGoing
    <3>7. QED BY <3>3, <3>4, <3>5, <3>6
  <2>5. CASE Going(r, H8)
    BY <2>1, <2>4, <2>5 DEF Going
  <2>6. QED BY <2>2, <2>3, <2>5

<1>17. ASSUME NEW s \in S10 PROVE holds(s, H10)
  <2>1. PICK r \in S9 : s \in IF r.at = "" THEN InitEventSources(r) ELSE {r}
    <3>1. QED BY DEF S10, Then
  <2>2. holds(r, H9)
    BY <1>16
  <2>3. CASE Failed(r, v)
    <3>1. s = r
      BY <2>1, <2>3 DEF Failed
    <3>2. QED BY <2>3, <3>1
  <2>4. ASSUME Going(r, H9), s \in InitEventSources(r) PROVE holds(s, H10)
    <3> DEFINE st == EventSteps
               n  == 3
    <3>1. /\ n \in Nat /\ DOMAIN st = 1 .. n /\ EventAll = Before(st, n + 1)
          /\ \A i \in 1 .. n : st[i].part \subseteq st[i].get
                               /\ From(EventLabels, st[i].label) = st[i].part \cup Before(st, i)
      <4>1. /\ DOMAIN st = 1 .. 3 /\ Before(st, 4) = EventAll
            /\ \A i \in 1 .. 3 : st[i].part \subseteq st[i].get
                                 /\ From(EventLabels, st[i].label) = st[i].part \cup Before(st, i)
        BY EventShape
      <4>2. n = 3 /\ n + 1 = 4 /\ n \in Nat
        OBVIOUS
      <4> HIDE DEF n, st
      <4>3. QED BY <4>1, <4>2
    <3>2. s \in SetUp(r, st, EventLabels, "error_event")
      BY <2>4 DEF InitEventSources, EventSteps, EventLabels
    <3> HIDE DEF st, n
    <3>3. /\ EventAll \cap r.held = {} /\ EventAll \cap r.ptr = {} /\ r \in Object
          /\ r.at = "" /\ r.result = TRUE /\ r.over = {}
          /\ r.held = H9 /\ r.ptr = H9
      BY <1>4, <1>5, <2>4 DEF Going
    <3>4. /\ s \in Object /\ s.over = r.over /\ s.result = r.result
          /\ \/ /\ s.at = r.at /\ s.held = r.held \cup EventAll
                /\ s.ptr = r.ptr \cup EventAll
             \/ s.at = "error_event" /\ s.held = r.held /\ s.ptr = r.ptr
      <4> DEFINE all == EventAll
                 error == "error_event"
      <4>1. all \in SUBSET References /\ error \in Labels
        BY <1>4, <1>5 DEF Labels
      <4> HIDE DEF all, error
      <4>2. /\ r \in Object /\ all \cap r.held = {} /\ all \cap r.ptr = {}
            /\ all = Before(st, n + 1) /\ n \in Nat /\ DOMAIN st = 1 .. n
            /\ s \in SetUp(r, st, EventLabels, error)
        BY <3>1, <3>2, <3>3 DEF all, error
      <4>3. /\ s \in Object /\ s.over = r.over /\ s.result = r.result
            /\ \/ /\ s.at = r.at /\ s.held = r.held \cup all
                  /\ s.ptr = r.ptr \cup all
               \/ s.at = error /\ s.held = r.held /\ s.ptr = r.ptr
        BY <3>1, <4>1, <4>2, SetUpResult
      <4>4. QED BY <4>3 DEF all, error
    <3>5. CASE s.at = ""
      <4>1. Going(s, H10)
        BY <3>3, <3>4, <3>5 DEF Going, H10
      <4>2. QED BY <4>1
    <3>6. CASE s.at = "error_event"
      <4>1. s.held = H9 /\ s.ptr = H9 /\ s.over = {}
        BY <3>3, <3>4, <3>6
      <4>2. QED BY <1>4, <1>5, <3>4, <3>6, <4>1, NotGoing
    <3>7. QED BY <3>3, <3>4, <3>5, <3>6
  <2>5. CASE Going(r, H9)
    BY <2>1, <2>4, <2>5 DEF Going
  <2>6. QED BY <2>2, <2>3, <2>5

<1>18. ASSUME NEW s \in S11 PROVE holds(s, H11)
  <2>1. PICK r \in S10 : s \in IF r.at = "" THEN AttachInterface(r) ELSE {r}
    <3>1. QED BY DEF S11, Then
  <2>2. holds(r, H10)
    BY <1>17
  <2>3. CASE Failed(r, v)
    <3>1. s = r
      BY <2>1, <2>3 DEF Failed
    <3>2. QED BY <2>3, <3>1
  <2>4. ASSUME Going(r, H10), s \in AttachInterface(r) PROVE holds(s, H11)
    <3>1. s = Get(r, {"netif"}) \/ s = [r EXCEPT !.at = "error_event", !.result = FALSE]
      <4> DEFINE w == [r EXCEPT !.at = "error_event", !.result = FALSE]
      <4>1. r.at = "" /\ w.at = "error_event"
        BY <2>4 DEF Going, Object
      <4>2. AttachInterface(r) = UNION {IF x.at = "" THEN {Get(x, {"netif"})} ELSE {x} : x \in {r, w}}
        BY DEF AttachInterface, ConfigureInterface, Then
      <4> HIDE DEF w
      <4>3. s = Get(r, {"netif"}) \/ s = w
        BY <2>4, <4>1, <4>2
      <4>4. QED BY <4>3 DEF w
    <3>2. CASE s = Get(r, {"netif"})
      <4>1. {"netif"} \in SUBSET References
        BY DEF References
      <4>2. QED BY <1>5, <2>4, <3>2, <4>1, GetGoing DEF H11
    <3>3. CASE s = [r EXCEPT !.at = "error_event", !.result = FALSE]
      <4>1. /\ s \in Object /\ s.held = H10 /\ s.ptr = H10 /\ s.over = {} /\ s.at = "error_event"
        BY <2>4, <3>3 DEF Going, Object, Labels
      <4>2. QED BY <1>5, <4>1, NotGoing
    <3>4. QED BY <3>1, <3>2, <3>3
  <2>5. CASE Going(r, H10)
    BY <2>1, <2>4, <2>5 DEF Going
  <2>6. QED BY <2>2, <2>3, <2>5

<1>19. PICK s \in S11 : t = Unwind(s, v)
  BY <1>1
<1>20. holds(s, H11)
  BY <1>18
<1>21. CASE Failed(s, v)
  BY <1>19, <1>21, UnwindStarted
<1>22. CASE Going(s, H11)
  <2>1. Sound(s, v) /\ "open" \in s.held /\ s.at = "" /\ s.result
    <3>1. /\ "rxMap" \in H11 \/ "txMap" \in H11 => v
          /\ "rxBufs" \in H11 => "rxArray" \in H11
          /\ "workLoop" \in H11 /\ "open" \in H11
      BY <1>5 DEF H11
    <3>2. QED BY <1>22, <3>1, GoingSound DEF Going
  <2>2. t = Give(s, {"open"})
    BY <1>19, <2>1 DEF Unwind
  <2>3. Sound(t, v) /\ t.held = s.held \ {"open"} /\ t.at = "" /\ t.result
    BY <2>1, <2>2, GiveSound
  <2>4. Complete \subseteq H11
    BY DEF Complete, References, H11, H10, H9, H8, H7, H6, H5, H4, H3, PciAll, RxAll, RxResources, TxAll,
           TxResources, EventAll
  <2>5. s.held = H11
    BY <1>22 DEF Going
  <2>6. "open" \notin Complete
    BY DEF Complete
  <2>7. QED BY <2>3, <2>4, <2>5, <2>6 DEF Started
<1>23. QED BY <1>20, <1>21, <1>22

-------------------------------------------------------------------------------
(* What the object owns at each time of its life.                           *)
IRes ==
  /\ Sound(res, vtd) /\ vtd \in BOOLEAN /\ isEnabled \in BOOLEAN
  /\ life = "new" => res = New
  /\ life \in {"failed", "stopped"} =>
       /\ "open" \notin res.held /\ "netif" \notin res.held
       /\ "DRV_LOAD" \in res.held => res.at # ""
  /\ life = "matched" =>
       /\ res.at = "" => Complete \subseteq res.held
       /\ res.at # "" => "netif" \notin res.held
       /\ "open" \in res.held <=> isEnabled
  /\ life = "freed" => res.held \subseteq {"mapper"} \cup (IF res.at = "" THEN {} ELSE {"DRV_LOAD"})
  /\ isEnabled => life = "matched" /\ res.at = ""
  /\ mcAddrList # {} => "mcAddrList" \in res.held

(* A new object owns nothing.                                              *)
LEMMA NewObject ==
  ASSUME NEW v
  PROVE  Sound(New, v) /\ New.held = {}
<1>1. New \in Object
  BY DEF New, Object, Labels
<1>2. New.held = {} /\ New.ptr = {} /\ New.over = {}
  BY DEF New
<1>3. QED BY <1>1, <1>2 DEF Sound

(* One lemma per action that acquires or releases.                         *)
LEMMA StartOwns == ASSUME IRes, StartDriver PROVE IRes'
<1>1. /\ life = "new" /\ res = New /\ vtd \in BOOLEAN /\ vtd' = vtd
      /\ life' = IF res'.result THEN "matched" ELSE "failed"
      /\ isEnabled' = isEnabled /\ isEnabled = FALSE /\ mcAddrList' = mcAddrList
  BY DEF StartDriver, IRes
<1>2. PICK f \in BOOLEAN : res' \in Start(res, vtd, f)
  BY DEF StartDriver
<1>3. Started(res', vtd)
  BY <1>1, <1>2, StartResult
<1>4. mcAddrList = {}
  BY <1>1, NewObject DEF IRes
<1>5. QED BY <1>1, <1>3, <1>4 DEF IRes, Started

LEMMA StopOwns == ASSUME IRes, StopDriver PROVE IRes'
<1> DEFINE s == IF "netif" \in res.ptr THEN RELEASE(res, {"DRV_LOAD", "netif"}) ELSE res
<1>1. /\ life = "matched" /\ isEnabled = FALSE /\ isEnabled' = FALSE /\ vtd' = vtd /\ vtd \in BOOLEAN
      /\ res' = Free(s, vtd) /\ life' = "stopped" /\ mcAddrList' = {} /\ Sound(res, vtd)
      /\ "open" \notin res.held
  BY DEF StopDriver, Stop, IRes
<1>2. Sound(s, vtd) /\ s.at = res.at /\ "open" \notin s.held /\ "netif" \notin s.held
      /\ ("DRV_LOAD" \in s.held => res.at # "")
  <2>1. CASE "netif" \in res.ptr
    <3>1. s = RELEASE(res, {"DRV_LOAD", "netif"}) /\ {"DRV_LOAD", "netif"} \in SUBSET References
      BY <2>1 DEF References
    <3>2. Sound(s, vtd) /\ s.held = res.held \ {"DRV_LOAD", "netif"} /\ s.at = res.at
      <4> HIDE DEF s
      <4>1. QED BY <1>1, <3>1, ReleaseSound
    <3>3. QED BY <1>1, <3>2
  <2>2. CASE "netif" \notin res.ptr
    <3>1. s = res /\ "netif" \notin res.held
      BY <1>1, <2>2 DEF Sound
    <3>2. res.at # ""
      BY <1>1, <3>1 DEF IRes, Complete, References
    <3>3. QED BY <1>1, <3>1, <3>2
  <2>3. QED BY <2>1, <2>2
<1> HIDE DEF s
<1>3. /\ Sound(res', vtd) /\ res'.held \subseteq s.held /\ res'.at = s.at
  BY <1>1, <1>2, FreeSound
<1>4. QED BY <1>1, <1>2, <1>3 DEF IRes

LEMMA FreeOwns == ASSUME IRes, FreeDriver PROVE IRes'
<1>1. /\ life \in {"failed", "stopped"} /\ life' = "freed" /\ isEnabled' = isEnabled
      /\ isEnabled = FALSE /\ mcAddrList' = {} /\ vtd' = vtd /\ vtd \in BOOLEAN
      /\ Sound(res, vtd) /\ "open" \notin res.held /\ "netif" \notin res.held
      /\ ("DRV_LOAD" \in res.held => res.at # "")
      /\ res' = Free(res, vtd)
  BY DEF FreeDriver, IRes
<1>2. /\ Sound(res', vtd) /\ res'.held \subseteq res.held /\ res'.at = res.at
      /\ res'.held \subseteq {"open", "mapper", "netif", "DRV_LOAD"}
  BY <1>1, FreeSound
<1>3. QED BY <1>1, <1>2 DEF IRes

LEMMA LoadOwns == ASSUME IRes, Load PROVE IRes'
<1>1. life' = "new" /\ res' = New /\ vtd' \in BOOLEAN /\ isEnabled' = FALSE /\ mcAddrList' = {}
  BY DEF Load
<1>2. QED BY <1>1, NewObject DEF IRes

LEMMA EnableOwns == ASSUME IRes, Enable PROVE IRes'
<1>1. /\ life = "matched" /\ life' = life /\ vtd' = vtd /\ mcAddrList' = mcAddrList
      /\ isEnabled' = TRUE /\ res' = Get(res, {"open"}) /\ "netif" \in res.ptr
      /\ Sound(res, vtd)
  BY DEF Enable, Attached, IRes
<1>2. res \in Object /\ {"open"} \in SUBSET References
  BY <1>1 DEF Sound, References
<1>3. /\ res' \in Object /\ res'.held = res.held \cup {"open"} /\ res'.ptr = res.ptr \cup {"open"}
      /\ res'.over = res.over /\ res'.at = res.at
  BY <1>1, <1>2, GetResult
<1>4. "netif" \in res.held
  BY <1>1 DEF Sound
<1>5. res.at = ""
  BY <1>1, <1>4 DEF IRes
<1>6. Sound(res', vtd)
  BY <1>1, <1>3 DEF Sound
<1>7. QED BY <1>1, <1>3, <1>5, <1>6 DEF IRes

(* disable() gives back what belongs to an enabled interface.               *)
LEMMA DisableOwns == ASSUME IRes, Disable PROVE IRes'
<1>1. /\ life = "matched" /\ life' = life /\ vtd' = vtd /\ vtd \in BOOLEAN /\ res.at = ""
      /\ res' = RELEASE(res, {"mcAddrList", "open"}) /\ isEnabled' = FALSE /\ mcAddrList' = {}
      /\ Complete \subseteq res.held
  BY DEF Disable, DisableWith, IRes
<1>2. Sound(res, vtd) /\ {"mcAddrList", "open"} \in SUBSET References
  BY DEF References, IRes
<1> DEFINE t == RELEASE(res, {"mcAddrList", "open"})
<1>3. Sound(t, vtd) /\ t.held = res.held \ {"mcAddrList", "open"} /\ t.at = res.at
  BY <1>2, ReleaseSound
<1> HIDE DEF t
<1>4. "netif" \in Complete /\ "mcAddrList" \notin Complete /\ "open" \notin Complete
  BY DEF Complete, References
<1>5. t = res'
  BY <1>1 DEF t
<1>6. QED BY <1>1, <1>3, <1>4, <1>5 DEF IRes

LEMMA ShutdownOwns == ASSUME IRes, SystemWillShutdown PROVE IRes'
<1> DEFINE r == RELEASE(res, {"DRV_LOAD"})
<1>1. /\ life' = "off" /\ vtd' = vtd /\ life = "matched" /\ "netif" \in res.ptr
      /\ Sound(res, vtd) /\ vtd \in BOOLEAN
      /\ IF isEnabled
           THEN \E apm \in BOOLEAN : DisableWith(r, wolActive' /\ apm)
           ELSE res' = r /\ UNCHANGED <<isEnabled, mcAddrList>>
  BY DEF SystemWillShutdown, Attached, IRes
<1>2. Sound(res, vtd) /\ {"DRV_LOAD"} \in SUBSET References
  BY DEF References, IRes
<1>3. Sound(r, vtd) /\ r.held = res.held \ {"DRV_LOAD"} /\ r.at = res.at
  BY <1>2, ReleaseSound
<1> HIDE DEF r
<1>4. CASE isEnabled
  <2>1. res'= RELEASE(r, {"mcAddrList", "open"}) /\ isEnabled' = FALSE /\ mcAddrList' = {}
    BY <1>1, <1>4 DEF DisableWith
  <2>2. {"mcAddrList", "open"} \in SUBSET References
    BY DEF References
  <2>3. Sound(res', vtd)
    BY <1>3, <2>1, <2>2, ReleaseSound
  <2>4. QED BY <1>1, <2>1, <2>3 DEF IRes
<1>5. CASE ~isEnabled
  <2>1. res' = r /\ isEnabled' = isEnabled /\ isEnabled = FALSE /\ mcAddrList' = mcAddrList
    BY <1>1, <1>5 DEF IRes
  <2>2. QED BY <1>1, <1>3, <2>1 DEF IRes
<1>6. QED BY <1>4, <1>5

LEMMA ListOwns ==
  ASSUME IRes, NEW list, SetMulticastList(list) PROVE IRes'
<1> DEFINE r == RELEASE(res, {"mcAddrList"})
<1>1. /\ isEnabled /\ isEnabled' = isEnabled /\ life' = life /\ vtd' = vtd /\ mcAddrList' = list
      /\ res' = IF list = {} THEN r ELSE Get(r, {"mcAddrList"})
      /\ Sound(res, vtd) /\ life = "matched" /\ res.at = ""
  BY DEF SetMulticastList, IRes
<1>2. Sound(res, vtd) /\ {"mcAddrList"} \in SUBSET References
  BY DEF References, IRes
<1>3. Sound(r, vtd) /\ r.held = res.held \ {"mcAddrList"} /\ r.at = res.at
  BY <1>2, ReleaseSound
<1> HIDE DEF r
<1>4. /\ Sound(res', vtd) /\ res'.at = res.at
      /\ \A x : x # "mcAddrList" => (x \in res'.held <=> x \in res.held)
      /\ list # {} => "mcAddrList" \in res'.held
  <2>1. CASE list = {}
    BY <1>1, <1>3, <2>1
  <2>2. CASE list # {}
    <3>1. res' = Get(r, {"mcAddrList"}) /\ r \in Object
      BY <1>1, <1>3, <2>2 DEF Sound
    <3>2. /\ res' \in Object
          /\ res'.held = r.held \cup {"mcAddrList"} /\ res'.ptr = r.ptr \cup {"mcAddrList"}
          /\ res'.over = r.over /\ res'.at = r.at
      BY <1>2, <3>1, GetResult
    <3>3. Sound(res', vtd)
      BY <1>3, <3>2 DEF Sound
    <3>4. QED BY <1>3, <3>2, <3>3
  <2>3. QED BY <2>1, <2>2
<1>5. "mcAddrList" \notin Complete
  BY DEF Complete
<1>6. Complete \subseteq res'.held
  BY <1>1, <1>4, <1>5 DEF IRes
<1>7. "open" \in res'.held
  BY <1>1, <1>4 DEF IRes
<1>8. QED BY <1>1, <1>4, <1>6, <1>7 DEF IRes

LEMMA OwnsKept == IRes /\ [Next]_vars => IRes'
<1> SUFFICES ASSUME IRes, [Next]_vars PROVE IRes'
  OBVIOUS
<1>2. ASSUME UNCHANGED <<res_vars, isEnabled, mcAddrList>> PROVE IRes'
  BY <1>2 DEF IRes, res_vars
<1>3. ASSUME NEW active \in BOOLEAN,
             \/ Restart \/ SetPromiscuousMode(active) \/ SetMulticastMode(active)
             \/ SetWakeOnMagicPacket(active)
      PROVE  IRes'
  BY <1>2, <1>3 DEF Restart, SetPromiscuousMode, SetMulticastMode, SetWakeOnMagicPacket, filter_vars
<1>4. ASSUME NEW m \in Mac, SetHardwareAddress(m) PROVE IRes'
  BY <1>2, <1>4 DEF SetHardwareAddress
<1>5. ASSUME NEW p \in {"d0", "d3"}, SetPowerState(p) PROVE IRes'
  BY <1>2, <1>5 DEF SetPowerState, filter_vars
<1>6. ASSUME NEW w \in Wlocks, MeLocks(w) PROVE IRes'
  BY <1>2, <1>6 DEF MeLocks
<1>7. CASE UNCHANGED vars
  BY <1>2, <1>7 DEF vars, filter_vars
<1> QED
  BY <1>3, <1>4, <1>5, <1>6, <1>7, StartOwns, StopOwns, FreeOwns, LoadOwns, EnableOwns,
     DisableOwns, ShutdownOwns, ListOwns DEF Next

(* Wherever start() fails, whatever order enable, disable, stop, shutdown and*)
(* a change of the multicast list come in: what an enabled interface works   *)
(* with is there, no member points to what was given back, nothing is        *)
(* released twice, and an object that is gone has returned all it acquired.  *)
THEOREM AllReturnedOnce == Spec => []ReturnedOnce
<1>1. Init => IRes
  <2>1. ASSUME Init PROVE IRes
    <3>1. life = "new" /\ res = New /\ vtd \in BOOLEAN /\ isEnabled = FALSE /\ mcAddrList = {}
      BY <2>1 DEF Init
    <3>2. QED BY <3>1, NewObject DEF IRes
  <2>2. QED BY <2>1
<1>2. IRes => ReturnedOnce
  <2>1. ASSUME IRes PROVE ReturnedOnce
    <3>1. isEnabled => Complete \cup {"open"} \subseteq res.held
      BY <2>1 DEF IRes
    <3>2. References \ {"flashMap", "mcAddrList", "DRV_LOAD", "rxMap", "txMap", "txCursor"}
            \subseteq Complete \cup {"open"}
      BY DEF Complete
    <3>3. QED BY <2>1, <3>1, <3>2 DEF IRes, ReturnedOnce, Sound
  <2>2. QED BY <2>1
<1> QED BY <1>1, <1>2, OwnsKept, PTL DEF Spec
===============================================================================
