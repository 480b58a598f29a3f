# IntelMausiEthernet: models, checks and proofs

IntelMausiEthernet is a macOS kernel driver for Intel's onboard gigabit NICs.
Its macOS side (`IntelMausi*.cpp`, `MausiRxPool.cpp`) is written for this
driver; the hardware layer (`ich8lan.c`, `phy.c`, `mac.c`, `nvm.c`, `manage.c`)
and a few functions of `netdev.c` come from Intel's Linux driver e1000e. This
directory holds TLA+ modules of the parts where order, concurrency or failure
decide whether the driver is right, TLC configurations that check them on small
instances, and TLAPS proofs of the transmit ring, service and mappings, of the receive ring and
pools, of interrupts and polling, of the link and the PHY semaphore, of the address filters and
the resources of a driver object and of the NVM update for every value of their constants.

Source files are named by their base name below; all lie in
`src/IntelMausiEthernet/`.

## 1. The system

### 1.1 Who runs when

| Actor | What it runs | Concurrent with |
|---|---|---|
| Output thread (IONetworkInterface, pull model) | `outputStart` | everything; kept out only by `stopOutputThread()` |
| Work loop (command gate) | `interruptOccurred[VTD]`, `timerAction`, `enable`, `disable`, `selectMedium`, `setMaxPacketSize`, the poller's `setInputPacketPollingEnable` and `pollInputPackets` | the output thread, the NIC, the refill thread |
| Refill thread call | `MausiRxPool::refillPool` | the work loop |
| NIC | fetches descriptors, writes them back, DMA, raises causes in ICR | everything |
| PHY and link partner | negotiate, raise LSC | everything |
| IOKit's power management | `setPowerState` (through the gate), `systemWillShutdown` (not through the gate) | the work loop, in the case of shutdown |
| ME firmware | may swallow writes of TDT and RDT, takes the PHY's semaphore, blocks PHY resets, locks receive address registers | everything |

Handlers of the work loop never overlap each other. The driver has no lock of
its own: the output thread and the work loop share the transmit ring through
index variables with one writer each, atomic counters and a barrier index.

### 1.2 Components, their state and what makes them correct

| Component | State | Operations | Hard behaviour | Correct when |
|---|---|---|---|---|
| Transmit ring | `txBufArray`, `txDescArray`, `txNextDescIndex`, `txDirtyIndex`, `txCleanBarrierIndex`, `txNumFreeDesc`; TDH, TDT, TCTL.EN | `outputStart`, `txInterrupt`, `intelUpdateTxDescTail`, `intelFlushTxRing`, `intelInitTxRing`, `clearDescriptors` | two threads and the NIC on one ring without a lock; indexes that wrap; tail writes that vanish | no packet is freed under the NIC, overwritten or freed twice; none is lost but those section 4 names; the rest is a FIFO |
| Transmit service | `forceReset`, `deadlockWarn`, `txDescDoneCount/Last`, `isEnabled`, `linkUp`, the timer, the state of the output thread | stall and `signalOutputThread`, `timerAction`, `checkForDeadlock`, `intelRestart`, `setLinkUp/Down`, `enable`, `disable`, `setMaxPacketSize` | lost interrupts, hung NIC, a timer that is re-armed by some paths and not by others | every packet is freed in the end; a stalled thread wakes; an announced reset happens |
| Transmit mappings (AppleVTD) | `txMapInfo`: `txMemIO`, `txMemRange`, `txNextMem2Use/Free`, `txNumFreeMem` | `txMapPacket`, `txUnmapPacket`, the clearing of all mappings | mapping and packet are tied together only by two indexes that two threads move | a packet's own mapping is active while the NIC may read it, until the two fall out of step (section 4) |
| Receive ring | `rxBufArray`, `rxDescArray`, `rxNextDescIndex`, `rxCleanedCount`, `rxMapNextIndex`, the packet being joined; RDH, RDT, RCTL.EN | `rxInterrupt[VTD]`, `rxMapBuffers`, `intelUpdateRxDescTail`, `discardPacketFragment`, `clearDescriptors`, `setupRxMap` | jumbo frames across descriptors, batches of mappings, a tail that must not meet the head, no memory for a replacement | the NIC writes only into fresh buffers of its own slots; a packet handed up is one whole frame |
| Receive packet pool | two lists with head, tail, count; `refillScheduled` | `getPacket`, `refillPool`, `free` | a producer and a consumer on a linked list without a lock | lists intact, every packet owned once, a refill can always be scheduled again |
| Interrupts and polling | ICR, IMS, `polling` | `interruptOccurred`, `setInputPacketPollingEnable`, `pollInputPackets` | every read of ICR masks all causes and only those read are unmasked; causes that arrive while a handler runs; a change of mode between two of them | some interrupt or poll always leads on; no frame is left behind by a handler or a change of mode |
| Link, medium, flow control, EEE | `get_link_status`, `fc.current_mode`, `requested_mode`, `adv`, `eeeMode`, `linkUp`; CTRL, FCRTH, LTRV, LPI_CTRL | `checkLinkStatus` with `check_for_copper_link`, `config_fc_after_link_up`, `setLinkUp/Down`, `intelReset`, `selectMedium`, `setMaxPacketSize`, `intelEnableEEE` | the PHY renegotiates between two accesses of the driver; accesses fail | driver and PHY agree when all is quiet; what is configured and reported is what was negotiated |
| NVM | two flash banks, `shadow_ram` | `validate_nvm_checksum`, `update_nvm_checksum`, the loop of `intelStart` | loss of power, torn and failing cycles in the middle of a commit | a whole image is valid at every moment |
| PHY access | `__E1000_ACCESS_SHARED_RESOURCE`, SWFLAG in EXTCNF_CTRL, `phy.addr`, MDIC, the selected pages, the address registers of the indirect ports, the wake-up bits 769.17 | the read and write functions of the igp, bm and hv PHYs, `acquire`, `release`, sessions over several accesses | several accesses make one; errors in the middle; a second thread and the firmware; a reset that ends what SWFLAG stands for | an access reaches the register it means; nothing stays locked |
| PHY set-up and work-arounds | SMBus mode, ULP, gate, K1, LPLU, OEM bits, IPG, jumbo work-around, `ulp_state` | `init_phy_workarounds_pchlan`, `phy_hw_reset`, `post_phy_reset`, `setup_copper_link`, `check_for_copper_link` | registers that some resets clear and others do not; what one session leaves to the next | an enabled interface has a usable PHY, tuned for the link it has |
| Power management, wake-on-LAN | `wolActive`, `wolCapable`, `powerState`; WUC, host wake-up, OEM bits, ULP | `enable`, `disable`, `setPowerState`, `systemWillShutdown`, `intelDisable`, `intelInitPhyWakeup`, `suspend_workarounds`, `resume_workarounds` | shutdown after or before a `disable`; a PHY that is left at low power, then reset | wake-up is armed just when asked for; every wake-up finds the PHY again |
| Resources | everything `start` and `setup*Resources` allocate | `start`, `stop`, `free`, every error label | failure at any step; `stop` after a failed or successful `start` | each resource is given back once, and none that is in use |
| Filters | RAR, SHRA, MTA, `mcAddrList` | `setMulticastList`, `setMulticastMode`, `setPromiscuousMode`, `setHardwareAddress`, `init_rx_addrs`, `rar_set` | entries the ME has locked; resets behind the network stack's back | the filters are those asked for; the ME keeps its addresses |
| Offload, statistics, parameters, not built files | see section 6 | | arithmetic, counters, input | left out |

Interaction: `outputStart` and `txInterrupt` meet in the transmit ring;
`txInterrupt` wakes the output thread; `timerAction` cleans the ring and
restarts the NIC through `setLinkDown`, after which the PHY's LSC brings
`checkLinkStatus` and `setLinkUp`, which starts the output thread and the timer
again; `rxInterrupt` draws from the pool and is called from the interrupt or
from the poller; `intelStart` validates the NVM before anything else exists and
finds the PHY in the state the last session, the firmware or a boot loader left;
every handler that resets the NIC sets up PHY, MAC and filters again; all of them
reach the PHY through the same pages and the same semaphore.

The hazards this leads to, each at its line and with the properties that
would catch it, are listed in `PROJECT.json` (`hazards`). Where a hazard has a
note instead of a property, the note says what was seen or why it is out of the
model.

## 2. Modules

```
TxFifo           what the transmit path promises: a FIFO of packets
  ^ implemented by
TxRing           descriptors, indexes, counters, NIC     TxRingInv     its inductive invariant
  TxRingFifo     refinement mapping                     TxRingProofs  TLAPS proofs
TxService        output thread, watchdog, restarts around a TxFifo   (INSTANCE TxFifo)
                                                          TxServiceProofs  TLAPS proofs
TxMap            DMA mappings of transmit packets          TxMapProofs  TLAPS proofs
RxRing           receive ring, batches of mappings, joining of frames
                                                          RxRingProofs  TLAPS proofs
RxPool           lock-free pools
RxPoll           interrupts and polling
PacketBuffer     packet buffer, water marks, latency tolerance: operators
  ^ extended by
Link             link, medium, flow control, EEE, LTR
Nvm              NVM validation and two-bank commit        NvmProofs   TLAPS proofs
PhyBus           PHY access, step by step: threads, firmware, pages, semaphore
Chip             registers of MAC and PHY, and how procedures over them are written
  ^ extended by
Ich8lanPhy       reaching the PHY: SMBus, ULP, resets, configuration after them
  ^ extended by
Copper           setting the link up, tuning it when it comes
  ^ extended by
Ich8lan          identification, reset, initialisation, sleep, wake-up
  ^ extended by
Adapter          the driver's handlers on that chip
Resources        what start() acquires and gives back     Filters      RAR, SHRA, MTA: operators
  ^ both extended by
Controller       the life of the driver object, its power state and its filters
                                                          ControllerProofs  TLAPS proofs
RxProofs         TLAPS proofs of RxPoll and RxPool
PhyProofs        TLAPS proofs of Link and PhyBus
MC*              constants for TLC
```

`TxFifo` is used twice. `TxRing` implements it (descriptors and indexes),
and `TxService` takes its actions instead of the ring's, so that liveness is
checked on a model without descriptors. `TxService` is in turn shown to be a
FIFO as a whole, resets included (`ServiceIsFifo`).

Names follow the source: an action has the name of the handler or of the part
of it that runs without another actor being able to interfere, a variable the
name of the member it stands for. `PROJECT.json` (`map`) gives the lines of
every definition. A definition called *Mutant of X* is not part of the model:
it is X with a plausible mistake, kept to show that a property would notice it.

### 2.1 TxRing

`outputStart` is split where it touches what `txInterrupt` and the NIC see:
taking the packet and its descriptors (`OutputBegin`; `txNumFreeDesc` and
`txNextDescIndex` move first), one step per descriptor, the buffer entry of the
last one, the tail write (which may go astray, noticed or not), and the clean
barrier, which moves in both cases. `txInterrupt` is split into looking at the
slot, freeing, counting. The NIC processes one descriptor per step and
writes back the done bit, which the driver reads in the last descriptor of a
packet only. A TSO packet in one segment is modelled as `outputStart` treats it: its one
data descriptor is the first, so it never becomes the last (`LastOfLost`), and packet and
descriptors are lost to the driver. `lost`, `lostAt` and `lostDescs` are history: these
packets, the slots where they end, and the descriptors `txInterrupt` has passed over.
Properties and invariants say what holds in spite of them. The work loop's `intelRestart`, `setLinkDown` and
`disable` stop the output thread, flush the rings (`mac.type >= e1000_pch_spt`:
one more descriptor, a NIC switched on and off), reset and clear them.

### 2.2 TxService

Packets instead of descriptors. The output thread is *stopped*, *ready* or
*stalled*; a signal that arrives while `outputStart` runs is kept, as
IONetworkInterface does. Packets that `outputStart` forgets are left out (section 3.3). `timerAction` with `checkForDeadlock` is one handler
with its early return (`forceReset`) and its two-stage deadlock warning. The
timer is armed by `setLinkUp` and re-armed at the end of the handler only.

### 2.3 RxRing and RxPool

One round of the loop of `rxInterrupt` is one step, because only the NIC runs
beside it and never touches a descriptor whose done bit is set. The outcome of
`replaceOrCopyPacket` (replaced, copied, failed) is a choice; `RxPool` is the
model of what is behind it. `useAppleVTD` selects the batch-wise update
(`rxMapBuffers`), otherwise the tail moves every 16 buffers. `RxPool` has a step
for every access to a list or counter that both threads see.

### 2.4 TxMap and RxPoll

`TxMap` has one memory descriptor per packet, its ranges in `txMemRange`, and
both indexes; the ring itself is reduced to its numbers. A packet is of any size from one
descriptor on; with one memory descriptor left it is posted without a mapping, and one
that is not recorded is passed over. `unpaired` is history: one of these was posted since
everything was cleared last. `RxPoll` has the causes
as sets of classes (transmit, receive, link, ECC), the handlers split where a
cause may arrive, and frames as a number. A read of ICR masks all classes, the end of
the handler unmasks those that were read.

### 2.5 PacketBuffer and Link

`PacketBuffer` computes what `intelReset` and `e1000_platform_pm_pch_lpt`
compute, per chip and frame size. `Link` steps whenever the driver reads or
writes the PHY or a register that depends on it; the PHY moves in between. The
partner is a record of modes, pause bits and EEE speeds.

### 2.6 Nvm

A word is the set of its one bits: programming is intersection, an erased word
has all bits. Four words stand for the image. The update is one step per word
and per signature write. A loss of power may come between any two and in the middle
of a write (`PowerLoss`, some of the bits are programmed); a cycle may
fail, with or without having been done in whole or in part, and is tried again
(`Repeat`) until the bound of the code's loop, when the attempt ends.

### 2.7 PhyBus

An accessor is a *program*, a sequence of micro steps with the place each goes to
when it fails: the `goto out` and early `return` of the C code. A thread executes
one micro step at a time, so that two threads and the firmware interleave
between writing `phy.addr`, setting the bit, waiting for SWFLAG, setting and
verifying it, the page select, the address of an indirect port, the data, the
release and the clearing of the bit. An MDI access is itself two steps (the command
and its completion), because the PHY's page is that of the moment it is executed.
`stray` collects accesses that reached another register than the caller meant.

### 2.8 Chip, Ich8lanPhy, Copper, Ich8lan and Adapter

Where `PhyBus` looks at one access, these modules look at what whole procedures
leave behind. A chip is a record: what the part is (MAC generation, PHY, ME, ULP,
wake-up as the NVM allows it), the registers that outlive a procedure (SMBus
mode of both halves, ULP, power down, gate, K1, LPLU and gigabit bits, inter-packet
and pointer gap, both halves of the jumbo frame work-around, wake-up) and what
`struct e1000_hw` remembers (`ulp_state`, `get_link_status`, the forced speed). A
procedure is an operator from a chip to the set of chips it can leave, with its
error; `Then` stops at an error as `if (ret_val) return` does, `Always` goes on
as code does that ignores it. Every PHY access may fail; a PHY in SMBus mode
that the MAC does not share, or in ULP, fails always. `Adapter` has one action per handler
of the driver: `Start`, `Enable`, `Disable`, `SystemWillShutdown`, `Restart` (also
that of the watchdog), `SelectMedium`, `SetMaxPacketSize`, `SetWakeOnMagicPacket`,
`CheckLinkStatus`; around them the link comes and goes and the ME blocks and
allows PHY resets. `hit` is history: the session has met a fault or a block.

### 2.9 Resources, Filters and Controller

`Resources` evaluates `start()` as the list of its steps, each with what it
acquires and the label it leaves for; the set of all outcomes, one per failing
step, is what `StartDriver` chooses from. An object records which references it
owns (`held`), which members are not NULL (`ptr`) and what it released without owning it
(`over`). `Filters` gives every chip its address registers: which exist, which the
ME may lock, and what `rar_set` and `init_rx_addrs` do to them. `Controller`
composes both with the object's life: matched, started, enabled, asleep, stopped,
freed, and the calls of the network stack in between.

## 3. Runs

| Run | Instance | Shows |
|---|---|---|
| `tx_ring` | 5 slots, 1 data descriptor per packet (with or without a context descriptor, for TSO or not), 2 packets, flush on | types, no overrun, nothing freed under the NIC; packets and descriptors are lost in the one way the code loses them and in no other; without these the ring implements `TxFifo` |
| `tx_service` | ring of 3 packets, 2 packets, stall below 2 free, wake above 2 | the watchdog is armed while the link is up; every packet is freed, a stalled thread wakes, a pending reset happens, whatever NIC and firmware do; all of it is still a FIFO |
| `rx_ring` | 4 slots in 2 batches, frames of up to 3 buffers, 6 buffers | the NIC owns fresh buffers only, a buffer is in one place, no packet mixes frames, the NIC is not starved |
| `rx_vtd_setup` | same, from the state `setupRxMap` leaves | **finding**: addresses stored under the wrong index |
| `rx_pool` | 2 pools of 3 packets, refill at 1, 7 packets | lists and ownership intact, refill flag never stuck |
| `tx_map` | 8 descriptors, 4 memory descriptors, 1 or 2 segments, with or without a context descriptor, for TSO or not | until a packet is posted without a mapping or a record: a packet is mapped while the NIC may read it, the mapping freed is that of the packet freed, and no packet goes unmapped before the memory descriptors are used up |
| `rx_poll` | 2 frames waiting | between handlers some interrupt or poll leads on, and the next one announces every frame that waits; a frame within reach of a poll or an unmasked cause is taken |
| `link` | three partners, four media, two frame sizes, 2 resets, all chips | driver and PHY agree when quiet; pauses, EEE and reports are what was negotiated; the link follows the PHY |
| `nvm` | 4 words, 6 faults, 2 repetitions of a cycle | one whole image valid at every moment; the driver runs with the repaired one; the repair is made in the end |
| `phy_bus` | 2 threads, all three families of accessors, 1 failing access | accesses reach the register they mean; whoever has the semaphore is alone; nothing stays locked; every access ends |
| `adapter` | 13 kinds of adapter, 1 failing access | an enabled interface has a usable PHY whatever was before; ULP is known; wake-up is armed just when asked for; MAC and PHY are tuned alike |
| `controller` | 3 multicast addresses in 2 buckets, 2 own addresses, 3 registers, four kinds of MAC | resources are given back once and held while in use; the filters are those asked for and the ME keeps its registers |

One run, `rx_vtd_setup`, is expected to find its property violated.

### 3.1 Bounds, and why they are enough

* `NumTxDesc = 5`, `MaxSegs = 1`: the reserve is 4, so a packet of two
  descriptors and the flush's dummy descriptor take the ring to its limit, all
  indexes wrap, and a packet may straddle the end of the array; one that is lost takes as
  many descriptors as one that is not. Larger instances were checked once (6 slots with 1
  segment, 6 with 2 segments without flush, 5 with 3 packets). The proofs cover
  every other size.
* `RingSize = 3`, `Reserve = 2`, `WakeThreshold = 2`: the smallest ring in which
  the thread stalls with a packet left and must wait for an empty ring.
* `NumRxDesc = 4`, batches of 2: tail and head can meet, a batch can be half
  full, frames of 3 buffers cross a batch and the end of the ring. 6 buffers are
  the ring's 4 and 2 in the chain or with the stack.
* `Capacity = 3`: refill is due at one packet below, and the last packet is
  reached. 7 packets: both pools full and one in use.
* `NumTxDesc = 8`, `NumMemDesc = 4`: two to one as 512 to 256, so that packets of one descriptor
  use up the memory descriptors before the descriptors; both rings wrap. 9 to 4 and 13 to 6
  were checked once; the proofs cover every number.
* `MaxWaiting = 2`: a frame arriving while another is being taken.
* Partners, media and frame sizes of `MCLink` differ in every feature the
  properties look at; two resets are enough to have one in the middle of the
  handling of another's link change. `TxSpaceKB = 14`, and 4099 (0x1003, 3.1 ms) is
  what platforms report.
* `Nvm`: `MaxFaults = 6`, `Retries = 2`: three attempts of a start can each fail
  for good (two failures), a loss of power can come on top of two of them. The
  proofs cover every number.
* `PhyBus`: two threads are the most the driver has in the PHY at once (work loop and
  shutdown). `MaxFaults = 1`: one access fails at any place; a second failure finds
  the program on its way out, where every error goes to the same release. Sessions
  of the hv family do not overlap between the two threads (`Alone`): their number
  would square the state space; those of igp and bm, which share the semaphore code,
  do overlap, but for the chip reset. The proofs cover any number of threads and faults, and
  sessions of the hv family that overlap: all but two for the semaphore, those that assign
  `phy.addr` only when they hold it (`kmrn`, say) for what an access reaches.
* `Adapter`: the parts are one of each combination the code tells apart.
  `MaxFaults = 1`: an access fails in one of the sessions, and the next ones
  must get over what it left.
* `Controller`: two addresses in one bucket and one in another, so that the table
  depends on more than one; `RarEntries = 3` gives a register that is the driver's
  own, one it shares and one the ME may lock. The proofs cover every number.

Symmetry is used for packets and buffers only in runs without temporal
properties.

### 3.2 Fairness

* `TxService`: both threads go on with a handler they have begun (weak), and an
  expired timer is served eventually however busy the work loop is (strong: the
  work loop serves its event sources in turn). Nothing is assumed of the NIC,
  its interrupts, the link or the firmware.
* `RxPoll`: handlers run to their end; an interrupt that keeps being pending,
  and the poller while polling is on, are served (strong, for the same reason). Nothing
  is assumed of a cause that stays masked: `FramesTaken` starts when the poller or a
  pending unmasked cause is there.
* `Link`: the PHY gains or loses a link it can or cannot have, and
  `checkLinkStatus` is served and runs to its end. Without a link LSC is unmasked whenever no
  handler runs (`NothingStranded` of `RxPoll`), so its coming is served. A loss may find LSC masked by an
  interrupt for packets alone; it is served then by the next interrupt, whatever its cause,
  or by the reset of the watchdog once a packet waits to be sent. `LinkFollows` rests on one of these coming.
* `PhyBus`: a thread in an accessor goes on (weak fairness of each thread's steps);
  nothing is assumed of the firmware, which may keep the semaphore for ever.
* `Nvm`: `intelStart` runs to its end and a computer is started again. Faults are
  bounded, which stands for "not for ever".

### 3.3 Assumptions

* 200 µs after `intelFlushTxRing` the NIC has fetched what it was given (the code
  waits and does not check); `TCTL.EN` off stops it.
* A tail write that goes astray leaves the register as it was.
* Reading ICR masks every cause: IAME is set and IAM is all ones (`IntelMausiHardware.cpp:589-592`), as the
  comment at `IntelMausiEthernet.cpp:1372` says.
* The network stack requests only checksums that `getChecksumSupport()` offers
  (`IntelMausiEthernet.cpp:991-1011`). These are the flags for which `outputStart` counts a context descriptor
  (633); it writes one for any flag (701).
* A frame that ends in a descriptor without EOP is sent with what follows: on the wire it is
  broken, but the NIC goes on through the ring.
* `TxService` abstracts from TSO packets in one segment. Besides the packets themselves they cost it two descriptors each
  until the next reset, which comes when the watchdog sees descriptors in use and no progress, be it an idle ring
  (`IntelMausiEthernet.cpp:2047`).
* The network family switches its poller off before the link comes up again.
* `MapMayFail = FALSE`: mapping wired kernel buffers succeeds.
* A reset of the MAC drops the link, and reading ICR in it clears LSC; right after
  autonegotiation was restarted there is no link; partners negotiate.
* The properties of `Link` about flow control leave out a PHY the ME has blocked.
* `FlashFaults = {}`: reading a signature succeeds, and a flash that refuses to
  erase refuses to program. An erase is all or nothing, and an erase sector is as large
  as a bank. The NVM was delivered with one valid bank.
* `PhyBus`: the PHY answers an MDI command with the pages selected at that moment. No accessor is
  called `None`, and `None` is no MDI command (`SessionNames`, `NoCommand`). The theorems about
  `PhyBus` have the hypothesis `HeedlessAlone`: the global
  reset and the LPI_CTRL access of `intelDisable()` overlap with no session of another thread (see
  sections 4 and 5.8). Those about what an access reaches have `AddressedAlone` as well: so does no
  session that writes `phy.addr` before it acquires the semaphore (the hv functions,
  `phy.c:2760`, 2867; see section 4). In the work loop nothing overlaps; `systemWillShutdown()` runs
  outside the gate, and a handler that is in an access at that moment is what the hypotheses leave
  out.
* `Chip` and its users: toggling LANPHYPC takes the PHY out of SMBus mode and ULP;
  a global reset loads the MAC from the NVM and may clear the forced SMBus mode; the
  OEM bits and the host's wake-up bit survive a PHY reset; the ME does what
  H2ME asks for. `to_sx` of `e1000_enable_ulp_lpt_lp` is
  never TRUE, as in every call the driver makes. pch_cnp, pch_tgp and pch_adp take the
  branches of pch_spt.
* `Adapter`: handlers are atomic with respect to each other; what a concurrent one
  does to an access is the subject of `PhyBus`.
* `Controller`: IOKit disables an interface before the machine sleeps and enables
  it after it woke, and calls nothing of an interface that was not attached; the
  ME zeroes a shared register it gives back; `rar_set` gets its semaphore.
* `ReturnedOnce` leaves out what section 4 lists under `start()` and `setupMediumDict()`.

## 4. Findings

`setupRxMap()` (`IntelMausiVTD.cpp:75`) stores buffer addresses in the
   descriptor of the batch number: until the first restart the NIC is given
   descriptors that point to other slots' buffers, or to 0. Run `rx_vtd_setup`.

Other disagreements were met while modelling. They have no run of their own,
because they are left out of the models as an assumption, excepted in a
property, or lie in code the models abstract:

* `outputStart()` (`IntelMausiEthernet.cpp:724-731`) asks for the first segment of a TSO packet before it asks for the
  last one. A packet in a single segment gets neither EOP nor RS and no record: its mbuf is never
  freed, and its two descriptors are not given back before the next reset. `Info.plist:35-38` switches TSO on,
  though `README.md:54` of the repository calls it disabled. `NoLeak` and `NoDescriptorLeak` say that
  this is all that gets lost.
* `txMapPacket()` (`IntelMausiVTD.cpp:272`) returns the number of segments
  though it mapped none when one memory descriptor is left, which packets of one descriptor
  bring about. `txUnmapPacket()` (336) completes a mapping for that packet all the same, and for one that is not
  recorded none; from then on mappings of packets the NIC may still read are completed, until all
  are cleared. A memory descriptor that was never allocated may be completed, too, a call
  through NULL.
* `interruptOccurred()` unmasks only the causes it read (`IntelMausiEthernet.cpp:1405`, `IntelMausiVTD.cpp:204`), though reading
  ICR masked all. After an interrupt for transmission alone, receive and link causes stay
  masked until a transmission interrupts again, a reset, a change of polling, or a new link; meanwhile frames
  wait and a lost link is not noticed. `NothingStranded` says what keeps this from lasting for ever
  in the cases where something does.
* `enable()` (`IntelMausiEthernet.cpp:498`) clears `forceReset` after the
  configuration that may have set it.
* `e1000_platform_pm_pch_lpt()` (`ich8lan.c:1091`) compares encoded latencies;
  at 10 Mbit/s the value written exceeds the platform's.
* `start()`: the mapper is never released (`IntelMausiEthernet.cpp:284`), DRV_LOAD
  stays set when a step after `intelStart()` fails (1900), and the result is
  TRUE after most failures. `setupMediumDict()` releases its dictionary and leaves the
  pointer (`IntelMausiSetup.cpp:301`). `setupRxMap()`'s error path completes a
  memory descriptor whose `prepare()` failed (`IntelMausiVTD.cpp:88`).
* Promiscuous mode is lost at every restart: nothing but `setPromiscuousMode()`
  looks at it. `getMaxPacketSize()` and `setMaxPacketSize()` ignore
  `max_hw_frame_size` (1139, 1149).
* A change of MTU or medium on a disabled interface resets the adapter
  (`IntelMausiHardware.cpp:934`) and so powers up its PHY and disarms wake-up; a change of
  wake-on-LAN after `disable()` does not arm it, though going to sleep looks at it.
* The watchdog restarts a NIC which has just made progress; a pool that has come down
  to its last packet never refills; without memory in the middle of a jumbo frame
  its last buffer is handed up as a frame; a failing `prepare()` in `rxMapBuffers()`
  is not tried again.
* `intelCheckLink()` ignores the error of `check_for_link`: one failing PHY access
  leaves the link reported down until the next LSC. With PHY resets blocked by the ME
  `setup_link` leaves `fc.current_mode` unresolved (`ich8lan.c:4963`). The high water mark of
  ich9, and of pch2 and pch_lpt with jumbo frames, leaves no room for one more frame.
* The NVM commit assumes bank 0 when a signature cannot be read (`ich8lan.c:3799`) and
  takes a refused erase for success (4545); the address of 256-byte sectors
  accumulates (4525); the attempts of `intelStart` share `shadow_ram`.
* The PHY: power up and down write BMCR as 0 when it cannot be read; the value 0x1F of
  the pointer gap for jumbo frames is lost by a link at 100 Mbit/s followed by one at
  1000; an error in `e1000_enable_ulp_lpt_lp` leaves the PHY in SMBus mode, which the next
  `enable` undoes; an early error in `e1000_post_phy_reset_ich8lan` leaves the automatic
  configuration of an 82579 gated until the next reset; from pch_lpt on a PHY id of all
  ones counts as an answer; the reset of the Kumeran lock-loss work-around forgets
  a forced speed; `phy.addr` is written before the semaphore is acquired (`phy.c:2760`, 2867)
  while shutdown's `disable` runs outside the gate.
* `intelDisable()` releases the PHY semaphore even when it was refused
  (`IntelMausiHardware.cpp:392`), and the global reset goes on without it (`ich8lan.c:4740`):
  either takes away SWFLAG from a thread that holds it. `Exclusive` fails at the reset as soon as
  the two may overlap (`Alone <- MCNone` in `MCPhyBus.cfg`).

## 5. Proofs

### 5.1 The transmit ring

`TxRingProofs` proves for every `NumTxDesc >= MaxSegs + 3` with `MaxSegs > 0`,
every set of packets and both settings of `FlushRings`:

| Theorem | Statement |
|---|---|
| `TypeCorrect` | `Spec => []TypeOK` |
| `Inductive` | `Spec => []IInv` |
| `SlotsNotOverrun` | `Spec => []NoOverrun` |
| `NeverFull` | `Spec => []RingNeverFull` |
| `NicNeverReadsFreed` | `Spec => []NicReadsHeld` |
| `PacketsAccountedFor` | `Spec => []NoLeak`: what is held is in the ring, with `outputStart`, or a TSO packet in one segment |
| `DescriptorsAccountedFor` | `Spec => []NoDescriptorLeak`: two are gone for each of these, no other |
| `NoPacketWithoutLink` | `Spec => []LinkDownRingEmpty`: only these are held without a link |
| `RingImplementsFifo` | `Spec => RingIsFifo` |

Assumptions are those of the constants in `TxRing` (`NumTxDesc`, `MaxSegs` are
numbers, the ring holds at least the reserve, `NoMbuf` is no packet); TLC
evaluates them in `tx_ring`.

The argument. None of the invariants is inductive: they speak of where pointers
are, and on a ring "before" means nothing. `txNumFreeDesc` and `txNextDescIndex`
together determine where the oldest packet begins (`RingHead`), and the distance
from there (`Off`) orders all pointers, provided that the used part never fills
the ring. That is what the reserve of three descriptors is for: one for the context
descriptor, one for the dummy descriptor of the flush, and one that keeps
"empty" and "full" apart. `IInv` then says that the pointers are ordered along
the used part (`IOrder`), packets tile it (`ITile`, `IFill`), done bits are
behind TDH (`INic`), what the NIC may fetch belongs to held packets (`IDma`),
and held packets are in exactly one place (`IHeld`). `ICount` covers the moment
between freeing a packet and counting its descriptors, when the counter is
behind the ring; `IControl` says who may run when. A lost packet ends in a slot without a
record; to the tiling it is a packet like any other (`EndsAt`, `DescsOf`) until `txInterrupt`
passes it. From then on its two descriptors are a part of the used ones that nobody gives
back: `RingHead` lies so many slots (`lostDescs`) before the oldest packet, which `ITile`, `IFill`
and `ICount` account for. What it costs the ring is bounded by the reserve like any
packet's. Distances are handled by a
dozen arithmetic lemmas at the beginning; each action has a lemma of its own.

`RingImplementsFifo` needs `IInv` in every step. The mapping (`TxRingFifo`) numbers a packet
by counting the slots with a packet that are nearer to `RingHead` (`Count`); the FIFO's
indexes count the packets before TDT, the barrier and TDH. `Listing` shows that this
lists every packet of the ring once and in order of distance. Three lemmas say what
the ring's steps do to that sequence: a packet stored behind all others is appended
(`QueueAppend`), freeing the first one removes the head though `RingHead` moves with it
(`QueueTail`), and moving `RingHead` over slots without a packet changes nothing
(`QueueShift`). Then each action has a lemma (`Fifo...`) that names the step of `TxFifo` it
is: storing the mbuf in the last descriptor's slot is a stutter because the mapping counts the packet in
`outputStart`'s hands already, unless it will be lost (`WillBeLost`); a TDH that moves inside a packet is one too,
and so is every step of a packet that is lost, which the FIFO never has.

### 5.2 The transmit service

`TxServiceProofs` proves for every ring size, threshold and set of packets:

| Theorem | Statement |
|---|---|
| `AlwaysWatched` | `Spec => []LinkUpWatched` |
| `ServiceImplementsFifo` | `Spec => ServiceIsFifo` |

A reset is several steps, and the FIFO must not lose a packet the NIC may still send:
the abstract `Discard` needs a NIC that has forgotten the ring. `IStopped` says why that is
so: from `stopOutputThread()` to the end of the handler no `outputStart` runs that could
write TDT again, so what `quiesce` and `flushed` established still holds at `clear`.
`ILink` says in which stages of a handler a link may be up, and that a live link with the
transmitter off has `forceReset` set (the watchdog's next tick resets); `ITimer` that
the timer is armed unless its own handler runs and will arm it again.
With that every step of the service is a step of `TxFifo` or leaves packets,
NIC and history as they are.

### 5.3 The transmit mappings

`TxMapProofs` proves for rings, packets and numbers of memory descriptors of every size:

| Theorem | Statement |
|---|---|
| `AlwaysMapped` | `Spec => []MappedWhileRead` |
| `AlwaysUnmapsOwn` | `Spec => []UnmapsOwn` |

There is no hypothesis about packets or memory. Both properties speak of the time in which every posted
packet has its mapping and its record (`~unpaired`), and `MappedWhileRead` says in addition when that time can end
for lack of memory descriptors: not before packets of the ring hold all but one of them. Nothing
records which memory descriptor belongs to which packet, so the invariant (`Paired`) gives the rule: counted from
`txNextMem2Free` they follow in the order of the packets, also while a packet is being mapped, completed or
freed, and `txNumFreeMem` is what these packets leave (`IMem`). `Counted` is the moment when
the memory descriptor is free again and its packet still in the ring. `IRing` keeps the packets apart along
the ring, and shows that the ranges a packet writes behind its end meet nobody
else's. `IMap` says that exactly the packets which were not completed are mapped. Once
`unpaired` is set nothing of this is claimed, but who may run when (`IControl`) still is: it is what makes the
state after the next clearing one in which `Paired` holds again.

### 5.4 The receive ring

`RxRingProofs`: `BuffersInOnePlace == (Spec => []BufferOnce) /\ (SpecCleared => []BufferOnce)`
for rings, batches, frames and sets of buffers of every size, and whether mappings fail or
not. `BufferOnce` with the types is inductive: a fresh buffer is one not in use, `Join` moves a
buffer from its slot to the chain or all of them to the stack, and a discarded chain
gives up its own buffers only.

It also proves, for every ring and batch size, from the first restart on and under the
hypothesis `MapMayFail = FALSE`:

| Theorem | Statement |
|---|---|
| `NicAlwaysOwnsFresh` | `SpecCleared => []NicOwnsFresh` |
| `NicNeverStarves` | `SpecCleared => []NicNotStarved` |

The invariant orders head, tail and the driver's next descriptor by how far they are ahead
of the first slot that was not given back (`Ahead`): the next descriptor itself, or with
AppleVTD the first batch that was not mapped again. `IRing` says that up to the head
all is done and from it on all is fresh, and that the tail is not behind the head;
a swallowed write of RDT leaves the tail where it was, which keeps that order. `IBatch`
counts: the whole batches between the mapping index and the next descriptor are
`rxCleanedCount`, so a batch that is given back was taken as a whole. The invariant has
a parameter: the claim `"address"` says what is needed here; the claim `"order"` leaves out the
addresses, lets a failing mapping forget batches, and holds without the hypothesis and from
`setupRxResources` on. `IOwned` and `IQuiet`
bound what the driver keeps outside `rxInterrupt` to less than one batch, and a ring has
two (`RxConstants`), so head and tail do not meet. The rest is arithmetic modulo the ring and
batch sizes, in lemmas of their own. Before the first restart `NicOwnsFresh` does not
hold with AppleVTD (finding, run `rx_vtd_setup`).

`FramesNeverMixed == (Spec => []NoMixedFrames) /\ (SpecCleared => []NoMixedFrames)` needs the order
alone, so it holds whether mappings fail or not. What was received is a row of fragments
(`IRow`): the last one joined, the descriptors that are done from the next one to the head, and the
fragment the NIC is in the middle of, each followed by the next of its frame or the first of
another one. A bad descriptor empties the packet but not the row, so the rest of its frame is
never joined to another; a reset cuts the row, and `clearDescriptors` drops all of it before the
receiver is on again. `HeadAndNext` says that the row never bites its tail.

### 5.5 Interrupts and polling; the receive pools

`RxProofs` holds the theorems of two components that share nothing.

Of `RxPoll`: `NothingEverStranded == Spec => []NothingStranded` for a ring of every
size `MaxWaiting > 0`. `NothingStranded` speaks of the moments between handlers. Inside one
every cause is masked, but those in `cause` will be unmasked. `IMask` follows what will be unmasked at the end
(`Unmasked`): something, unless polling is on; and without a link the link's cause, because then
only it and ECC errors can interrupt, and an ECC error ends in a reset. A
frame whose cause was read is safe because `rxInterrupt` is called with a quota of
the whole ring: what is left of the quota exceeds what waits (`waiting < budget`,
`IFrames`). `IPolling` says that with polling on a handler only runs for the link and
is going to reset the NIC, which is why a frame may wait without a poller there.

Of `RxPool`: `PoolsStayIntact == PoolSpec => []ListsIntact` and `RefillsRun == PoolSpec =>
[]ScheduledRuns`, for every `Capacity > 0` and at least `2 * Capacity` packets. `ListsIntact`
speaks of what is reached from a head, a set; the steps change single links, and whether
a changed link cuts the list depends on where it is. So `IPool` says that for each pool there is a sequence
of packets which the links follow (`Lists`), as long as the counter plus the packets that a
thread has linked and not counted, or uncounted and not unlinked; no packet is twice in these
sequences. `GetUnlink` drops its first element, which is not the last because the counter was above
one before; `RefillLink` appends behind the tail. That the two threads may do so at the same
time without a lock is just this: the sequence never gets shorter than one, and
each writes only its own end. `ChainReach` connects sequences and `Reach`: a set closed under
`nextpkt` that holds the first packet of a chain holds every one, by the least position it would
miss (`LeastNatural`). `Reach` is defined as a closure instead of recursively for that
reason. `IRefill` adds that a refill appends only below the capacity.

### 5.6 The filters and the resources

`ControllerProofs` proves two theorems. `FiltersAlwaysKept == Spec => []FiltersKept` for every number of
receive address registers, every set of addresses, every hash of them and every kind
of MAC. The argument is that the driver's registers and the ME's are disjoint
(`ReachedIsDrivers`: what `rar_set` reaches under a write lock is not locked) and that
`init_rx_addrs` clears exactly the rest. The invariant `IInv` adds that locked
registers hold the ME's addresses at every moment, and that what the ME gives back
is empty.

`AllReturnedOnce == Spec => []ReturnedOnce` rests on `SetUpResult`: if at every `goto` of a set-up
function the labels it runs through give back exactly what was acquired by then, the
function ends with everything, or with its error and the object as it was. `RxShape`,
`TxShape`, `EventShape` and `PciShape` show that of the four functions, with AppleVTD and
without; a label in the wrong place would leave one of them without a proof.
`StartResult` follows `start()` through its eleven parts (`Going`, with what is owned
by then, or `Failed`, with what the label it jumps to takes for granted) and through
the labels of its own. The invariant `IRes` says what an object owns at each time of its
life, and `Sound` that a member points to something owned unless it is the dictionary
that a failing `publish` released.

### 5.7 The NVM

`NvmProofs` proves for every order of the words and every number of faults and
repetitions, on a flash whose failures are reported (`FlashFaults = {}`, a hypothesis of
the theorems):

| Theorem | Statement |
|---|---|
| `AlwaysBoots` | `Spec => []BootsOldOrNew` |
| `AlwaysRunsRepaired` | `Spec => []RunsRepaired` |

That a whole image is valid now says nothing about what the other bank will hold when it
is marked valid. `ICopy` says that it can still become the repaired image: the
words behind the loop's index are, the others have all the bits the repaired one
needs (an interrupted write takes away none of them), and the signature keeps the copy
invalid. `ICommit` ties each stage to what `shadow_ram` must hold, and
`IShadow` says what it may hold at all, because it outlives a failed attempt; `ICheck`
that a checksum which adds up is that of the repaired image.

### 5.8 The link, and the semaphore of the PHY

`PhyProofs` holds the theorems of two components. Of `Link`, for any partners, media, frame sizes,
resets and limits of the platform:

| Theorem | Statement |
|---|---|
| `LinkSettles` | `Spec => []Settled` |
| `PausesAgreed` | `Spec => []PausesNegotiated` |
| `MacosToldTrue` | `Spec => []ToldTrue` |
| `IdleAgreed` | `Spec => []LpiNegotiated` |

The properties speak of the moments when nothing is left to be noticed; in between the PHY
may change its mind after any access. `Known` says that what was read still holds: no
LSC since, no access failed. `IPhase` says how `get_link_status` and `linkUp` follow the PHY
through `checkLinkStatus` while `Known` lasts. `IKnown` adds what was configured at each stage
(`LtrRight`, `Resolved`, `Told`): when the link changes, `Known` falls first, and nothing is
claimed until the handler has run again; a link that was up is reset before it counts. `IDown`
says that nothing is left of an earlier link when that handler starts, so that a delayed
`timerAction` or an error path does not inherit it. `IWishes` ties the advertisement, `FCRTH`
and the requested mode together; the cascade of the negotiation is then decided by cases. Two lemmas
are about the packet buffer alone: every frame size leaves a high water mark
(`HighWater`), and the bus is never asked to wait longer than the receive buffer lasts
(`Stall`).

Of `PhyBus`, for any number of threads, any number of failing accesses and each of the three
families of accessors, under the hypothesis `HeedlessAlone`, the last two under `AddressedAlone`
too:

| Theorem | Statement |
|---|---|
| `SemaphoreExcludes` | `HeedlessAlone /\ BusSpec => []Exclusive` |
| `NothingHeldBack` | `HeedlessAlone /\ BusSpec => []((\A t \in Thread : ~Busy(t)) => ~bit /\ extcnf # "sw")` |
| `BusTypeCorrect` | `HeedlessAlone /\ BusSpec => []BusTypeOK` |
| `AccessesReachMeant` | `HeedlessAlone /\ AddressedAlone /\ BusSpec => []ReachesMeant` |
| `NothingIsLeft` | `HeedlessAlone /\ AddressedAlone /\ BusSpec => []NothingLeft` |

The 25 programs differ, and the invariant must not know them. What they have in common is
their shape (`Session`): perhaps an assignment of `phy.addr`, the four steps of the
acquisition, steps that only access (`Inner`), and two steps that release. `Opened`,
`IsBody` and the lemmas that concatenate them show it of each piece, as the accessors are
put together; `Sessions` of each program. `Places` turns the kind of a thread's next step
into its place in the program and back, and `Fails` says where an error leads: an
acquisition that fails leaves the accessor (the two heedless ones go on to their end), an
access that fails never gets past the release. Then `ILock` can speak of places: the thread
past `test_and_set_bit` (`Owner`) is the only one, the bit is set as long as it is, SWFLAG
is set only from its third step to its release. `HeedlessAlone` enters in two steps: a
session that goes to its end without the bit clears what it does not own, unless nobody owns
it. The hypothesis is weaker than the configuration of `phy_bus`, where sessions of the hv
family overlap with none, and it is needed (section 4).

What an access reaches depends on what every program has done before it, page by page, and not
on its shape. The proof is in two parts.

* The programs alone. A `View` is what a program can tell: `phy.addr`, the pages selected, the
  ports, 769.17 with its saved copy and its meant value, whether no access has failed, and the
  Kumeran register asked for. `Noted` gives each place of a piece of a program a set of views, such
  that the step taken in one of them is right (`Right`: it finds its goal) and leads to one of the
  next; where it fails without leaving the body (`next`, `skip`), to one of the place it goes to,
  with the record of 769.17 no longer to be relied on (`Spoiled`). `Works` says that a piece has
  such an annotation from one set of views to another; pieces are put together as `Opened` does
  for the shape. `Runs` says it of a whole session, from `Ready` (whatever pages and ports are
  selected, nothing under way, 769.17 as meant, `phy.addr` where the session assigned it early) to
  `Kept` (the same, of any `phy.addr`): the detour through the wake-up page (`EnableWorks` and what
  follows it) saves 769.17, changes it, and restores what it saved. `AllRun` proves `Runs` of each
  of the 25 programs.
* The threads. `IReach` says that whoever is between verifying SWFLAG and clearing it (`Inside`)
  is in a view of its place (`Placed`), that the command of an access under way is still in the
  register (`Pending`), that `phy.addr` is as assigned until the semaphore is had (`Addressed`),
  and that 769.17 is as meant when nobody is inside (`AtRest`). It is inductive together with
  `IBus`: only one thread is inside, the firmware uses the PHY only when none is, and a new owner
  assumes nothing about pages and ports, which is why the firmware may leave them as it likes.

`AddressedAlone` enters at one place: an assignment of `phy.addr` before the acquisition would
change the view of whoever is inside. It is needed: without it (any `Alone` of the hv family
that holds `reset` and `lpi` only) TLC finds two overlapping sessions of which one goes on with
the `phy.addr` of the other. It is weaker than the configuration of `phy_bus` too.

### 5.9 What is only model-checked

* Whatever needs fairness (`PacketsFreed`, `StalledWakes`, `ResetFollows`, `FramesTaken`,
  `LinkFollows`, `RepairMade`, `AccessEnds`): liveness cannot be proved with the installed
  backends.
* The invariants of `Adapter`: procedures are chains of operators over sets of chips (`Then`,
  `Always`, folds over lists of LAMBDAs), which the provers cannot instantiate.

## 6. Plan

The parts were modelled in this order: transmit path (ring, FIFO, service,
mappings) with the first proofs; receive path (ring, pool, polling); link; NVM;
filters and resources; PHY access; PHY set-up and power management; proofs of the
filters and resources, the NVM, polling, the transmit service and mappings, the receive ring,
the link, the resources of a driver object, the ring as an implementation of `TxFifo`, the receive
pools, the PHY semaphore and what the accesses reach that hold it.

What would come next: `Adapter` with handlers split at their PHY accesses, so that
shutdown interleaves with them.

Not modelled, and why:

* Checksum offload and TSO set-up: arithmetic on header bytes and descriptor fields;
  the ring counts the context descriptor and leaves its contents out.
* Statistics and adaptive inter-frame spacing: counters that no decision depends
  on but a tuning value.
* LEDs, VLAN filters, bus information and the host interface to the ME firmware in `mac.c`
  and `manage.c`: register accesses without state, or without a caller in the driver.
* `ethtool.c`, `param.c`, `ptp.c` and most of `netdev.c`: not built, or excluded by
  the preprocessor. `netdev.c` and the ethtool files alone are a third of the lines
  of the repository.
* Reading the property list: input without later effect but the choices the models make.
* `MausiRxPool::free()`: its race with a running refill depends on how long 1 ms is.
* Erasing in sectors of 256 bytes (a hazard read from the code); the flash
  controller's registers below one cycle.
* The m88, bm2 and GG82563 accessors: no device of the driver uses them. Fiber and
  serdes media: no supported chip has them.

## 7. Running

```
tlc -workers 2 -config MCTxRing.cfg MCTxRing
tlapm TxRingProofs.tla
tlapm ControllerProofs.tla
tlapm NvmProofs.tla
tlapm RxProofs.tla
tlapm TxServiceProofs.tla
tlapm TxMapProofs.tla
tlapm RxRingProofs.tla
tlapm PhyProofs.tla
```

Every configuration `MCx.cfg` belongs to the module `MCx`, or to the one whose
name its own begins with. The longest runs, `link`, `adapter` and `tx_map`, take about two
minutes each, the proofs a few minutes in all.
