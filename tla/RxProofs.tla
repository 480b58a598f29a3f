------------------------------ MODULE RxProofs ------------------------------
(***************************************************************************)
(* Two components of the receive path that know nothing of each other.      *)
(*                                                                         *)
(* NothingStranded of RxPoll, for a receive ring of every size.  It speaks of *)
(* the moments between handlers and is not inductive: interruptOccurred has  *)
(* masked every cause until it ends, and a frame whose cause was read is     *)
(* safe only because rxInterrupt's quota is larger than the ring.            *)
(*                                                                         *)
(* ListsIntact and ScheduledRuns of RxPool, for every capacity and any       *)
(* number of packets.  What is reached from a head says nothing of the order *)
(* of the packets, and a step changes a link; so the invariant (IPool) says  *)
(* that there are sequences of packets that the links follow (Lists).        *)
(***************************************************************************)
EXTENDS RxPoll, RxPool, Sequences, FiniteSetTheorems, SequenceTheorems,
        WellFoundedInduction, TLAPS

-----------------------------------------------------------------------------
(* Interrupts and polling.                                                  *)

(* The causes that are unmasked when the running handler has ended.         *)
Unmasked == IF wl \in {"idle", "poll"} THEN ims ELSE ims \cup cause

(* Some cause interrupts.  Without a link, only the link and ECC errors do;  *)
(* the former is unmasked unless an ECC error is about to unmask everything. *)
IMask ==
  /\ ~polling => Unmasked # {}
  /\ ~linkUp => /\ icr \subseteq {"link", "ecc"}
                /\ "link" \in Unmasked \/ (wl \in {"tx", "rx", "link"} /\ "ecc" \in cause)

(* A frame in the ring is announced, or rxInterrupt is going to reach it, or *)
(* the ring is going to be emptied.                                         *)
IFrames ==
  waiting > 0 =>
    /\ linkUp
    /\ \/ "rx" \in icr
       \/ wl = "tx" /\ "rx" \in cause
       \/ wl = "rx" /\ waiting < budget
       \/ wl = "link" /\ polling

(* While packets are polled the link alone interrupts, and what it brings is *)
(* a reset.                                                                 *)
IPolling ==
  polling =>
    /\ wl \notin {"tx", "rx"} /\ (phyLink => linkUp)
    /\ linkUp => \/ wl \in {"idle", "poll"} /\ ims \subseteq {"link"}
                 \/ wl = "link" /\ "link" \in cause

IInv == TypeOK /\ IMask /\ IFrames /\ IPolling /\ (wl = "poll" => polling)

(* The NIC.                                                                 *)
LEMMA NicKeeps == ASSUME IInv, Nic PROVE IInv'
  <1> USE PollConstants DEF IInv, TypeOK, IMask, IFrames, IPolling, Unmasked, intrMask, handlerVars, RxQuota
  <1>1. CASE NicReceive BY <1>1 DEF NicReceive
  <1>2. CASE NicSend BY <1>2 DEF NicSend
  <1>3. CASE PhyLinkUp BY <1>3 DEF PhyLinkUp
  <1>4. CASE PhyLinkDown BY <1>4 DEF PhyLinkDown
  <1>5. CASE EccError BY <1>5 DEF EccError
  <1>6. QED BY <1>1, <1>2, <1>3, <1>4, <1>5 DEF Nic

(* interruptOccurred().                                                     *)
LEMMA InterruptKeeps == ASSUME IInv, InterruptOccurred PROVE IInv'
  <1> USE PollConstants DEF IInv, TypeOK, IMask, IFrames, IPolling, Unmasked, intrMask, nicVars, RxQuota
  <1>1. CASE ReadIcr BY <1>1 DEF ReadIcr
  <1>2. CASE TxInterrupt
    <2>1. TypeOK'
      <3>1. txDone' \in BOOLEAN BY <1>2, Zenon DEF TxInterrupt
      <3>2. phyLink' \in BOOLEAN /\ linkUp' \in BOOLEAN /\ polling' \in BOOLEAN
        BY <1>2, Zenon DEF TxInterrupt
      <3>3. wl' \in {"idle", "tx", "rx", "link", "enable", "poll"} BY <1>2 DEF TxInterrupt
      <3>4. icr' \subseteq intrMask /\ ims' \subseteq intrMask /\ cause' \subseteq intrMask
        BY <1>2 DEF TxInterrupt
      <3>5. waiting' \in 0 .. MaxWaiting /\ budget' \in 0 .. RxQuota BY <1>2 DEF TxInterrupt
      <3>6. QED BY <3>1, <3>2, <3>3, <3>4, <3>5
    <2>2. IMask' BY <1>2 DEF TxInterrupt
    <2>3. IFrames' BY <1>2 DEF TxInterrupt
    <2>4. IPolling' BY <1>2 DEF TxInterrupt
    <2>5. (wl = "poll" => polling)' BY <1>2 DEF TxInterrupt
    <2>6. QED BY <2>1, <2>2, <2>3, <2>4, <2>5
  <1>3. CASE RxEnd BY <1>3 DEF RxEnd
  <1>4. CASE NoLinkCause BY <1>4 DEF NoLinkCause
  <1>5. CASE HandleEcc
    <2>1. TypeOK'
      <3>1. txDone' \in BOOLEAN BY <1>5, Zenon DEF HandleEcc, ResetNic
      <3>2. phyLink' \in BOOLEAN /\ linkUp' \in BOOLEAN /\ polling' \in BOOLEAN
        BY <1>5, Zenon DEF HandleEcc, ResetNic
      <3>3. wl' \in {"idle", "tx", "rx", "link", "enable", "poll"} BY <1>5 DEF HandleEcc, ResetNic
      <3>4. icr' \subseteq intrMask /\ ims' \subseteq intrMask /\ cause' \subseteq intrMask
        BY <1>5 DEF HandleEcc, ResetNic
      <3>5. waiting' \in 0 .. MaxWaiting /\ budget' \in 0 .. RxQuota BY <1>5 DEF HandleEcc, ResetNic
      <3>6. QED BY <3>1, <3>2, <3>3, <3>4, <3>5
    <2>2. IMask' BY <1>5 DEF HandleEcc, ResetNic
    <2>3. IFrames' BY <1>5 DEF HandleEcc, ResetNic
    <2>4. IPolling' BY <1>5 DEF HandleEcc, ResetNic
    <2>5. (wl = "poll" => polling)' BY <1>5 DEF HandleEcc, ResetNic
    <2>6. QED BY <2>1, <2>2, <2>3, <2>4, <2>5
  <1>6. CASE CheckLinkReset
    <2>1. TypeOK'
      <3>1. txDone' \in BOOLEAN BY <1>6, Zenon DEF CheckLinkReset, ResetNic
      <3>2. phyLink' \in BOOLEAN /\ linkUp' \in BOOLEAN /\ polling' \in BOOLEAN
        BY <1>6, Zenon DEF CheckLinkReset, ResetNic
      <3>3. wl' \in {"idle", "tx", "rx", "link", "enable", "poll"} BY <1>6 DEF CheckLinkReset, ResetNic
      <3>4. icr' \subseteq intrMask /\ ims' \subseteq intrMask /\ cause' \subseteq intrMask
        BY <1>6 DEF CheckLinkReset, ResetNic
      <3>5. waiting' \in 0 .. MaxWaiting /\ budget' \in 0 .. RxQuota BY <1>6 DEF CheckLinkReset, ResetNic
      <3>6. QED BY <3>1, <3>2, <3>3, <3>4, <3>5
    <2>2. IMask' BY <1>6 DEF CheckLinkReset, ResetNic
    <2>3. IFrames' BY <1>6 DEF CheckLinkReset, ResetNic
    <2>4. IPolling' BY <1>6 DEF CheckLinkReset, ResetNic
    <2>5. (wl = "poll" => polling)' BY <1>6 DEF CheckLinkReset, ResetNic
    <2>6. QED BY <2>1, <2>2, <2>3, <2>4, <2>5
  <1>7. CASE CheckLinkUp BY <1>7 DEF CheckLinkUp
  <1>8. CASE Reenable BY <1>8 DEF Reenable
  <1>9. QED BY <1>1, <1>2, <1>3, <1>4, <1>5, <1>6, <1>7, <1>8 DEF InterruptOccurred

(* The poller, and rxInterrupt for it or for the interrupt.                 *)
LEMMA PollerKeeps == ASSUME IInv, Poller \/ TakeFrame PROVE IInv'
  <1> USE PollConstants DEF IInv, TypeOK, IMask, IFrames, IPolling, Unmasked, intrMask, nicVars, handlerVars, RxQuota
  <1>1. CASE PollingOn BY <1>1 DEF PollingOn
  <1>2. CASE PollingOff BY <1>2 DEF PollingOff
  <1>3. CASE PollBegin BY <1>3 DEF PollBegin
  <1>4. CASE PollEnd
    <2>1. txDone' \in BOOLEAN BY <1>4, Zenon DEF PollEnd
    <2>2. TypeOK' BY <1>4, <2>1 DEF PollEnd
    <2>3. IMask' BY <1>4 DEF PollEnd
    <2>4. IFrames' BY <1>4 DEF PollEnd
    <2>5. IPolling' BY <1>4 DEF PollEnd
    <2>6. (wl = "poll" => polling)' BY <1>4 DEF PollEnd
    <2>7. QED BY <2>2, <2>3, <2>4, <2>5, <2>6
  <1>5. CASE TakeFrame
    <2>1. TypeOK' BY <1>5 DEF TakeFrame
    <2>2. IMask' BY <1>5 DEF TakeFrame
    <2>3. IFrames' BY <1>5 DEF TakeFrame
    <2>4. IPolling' BY <1>5 DEF TakeFrame
    <2>5. (wl = "poll" => polling)' BY <1>5 DEF TakeFrame
    <2>6. QED BY <2>1, <2>2, <2>3, <2>4, <2>5
  <1>6. QED BY <1>1, <1>2, <1>3, <1>4, <1>5 DEF Poller

(* Between handlers the coming of a link interrupts, without polling some     *)
(* cause does and every frame that waits is pending, and with polling no     *)
(* frame interrupts: however interrupts, polling, link changes and resets    *)
(* follow on one another, and however many descriptors the ring has.         *)
THEOREM NothingEverStranded == Spec => []NothingStranded
  <1>1. Init => IInv
    <2>1. Init => TypeOK
      <3>1. Init => txDone \in BOOLEAN /\ phyLink \in BOOLEAN /\ linkUp \in BOOLEAN /\ polling \in BOOLEAN
        BY Zenon DEF Init
      <3>2. QED
        BY <3>1, PollConstants DEF Init, TypeOK, intrMask, RxQuota
    <2>2. Init => IMask /\ IFrames /\ IPolling /\ wl # "poll"
      BY DEF Init, IMask, IFrames, IPolling, Unmasked, intrMask
    <2>3. QED
      BY <2>1, <2>2 DEF IInv
  <1>2. ASSUME IInv, [Next]_vars PROVE IInv'
    <2>1. CASE Next
      BY <1>2, <2>1, NicKeeps, InterruptKeeps, PollerKeeps DEF Next
    <2>2. CASE UNCHANGED vars
      BY <1>2, <2>2 DEF vars, nicVars, IInv, TypeOK, IMask, IFrames, IPolling, Unmasked
    <2>3. QED
      BY <1>2, <2>1, <2>2
  <1>3. IInv => NothingStranded
    BY DEF IInv, TypeOK, IMask, IFrames, IPolling, Unmasked, NothingStranded
  <1>4. QED
    BY <1>1, <1>2, <1>3, PTL DEF Spec

-----------------------------------------------------------------------------
(* The pools.                                                               *)

(* Among natural numbers there is always a least one.                       *)
LEMMA LeastNatural ==
  ASSUME NEW T \in SUBSET Nat, T # {}
  PROVE  \E x \in T : \A y \in T : x <= y
<1>1. PICK x \in T : \A y \in T : ~ (<<y, x>> \in OpToRel(<, Nat))
  BY NatLessThanWellFounded, WFMin
<1>2. \A y \in T : <<y, x>> \in OpToRel(<, Nat) <=> y < x
  BY DEF OpToRel
<1>3. \A y \in T : y \in Nat /\ ~(y < x)
  BY <1>1, <1>2
<1> QED
  BY <1>3

(* A list of n packets, in order, that begins at q.                         *)
Chain(q, n, list) ==
  /\ n \in Nat \ {0} /\ list[1] = q
  /\ \A k \in 1 .. n : list[k] \in Pkt
  /\ \A k \in 1 .. n - 1 : nextpkt[list[k]] = list[k + 1]
  /\ nextpkt[list[n]] = NoPkt
  /\ \A k, l \in 1 .. n : list[k] = list[l] => k = l

(* What is reached from its head are its packets.                           *)
LEMMA ChainReach ==
  ASSUME NEW q, NEW n, NEW list, Chain(q, n, list)
  PROVE  /\ Reach(q) = {list[k] : k \in 1 .. n}
         /\ IsFiniteSet(Reach(q)) /\ Cardinality(Reach(q)) = n
<1> DEFINE members == {list[k] : k \in 1 .. n}
<1>1. /\ n \in Nat /\ 1 \in 1 .. n /\ n \in 1 .. n
      /\ \A k \in 1 .. n : k = n \/ (k \in 1 .. n - 1 /\ k + 1 \in 1 .. n)
  BY DEF Chain
<1>2. q \in members /\ members \subseteq Pkt
  BY <1>1 DEF Chain
<1>3. Follows(members)
  <2> SUFFICES ASSUME NEW k \in 1 .. n
               PROVE  nextpkt[list[k]] \in members \cup {NoPkt}
    BY DEF Follows
  <2> QED
    BY <1>1 DEF Chain
<1>4. Reach(q) \subseteq members
  BY <1>2, <1>3 DEF Reach
<1>5. ASSUME NEW S \in SUBSET Pkt, q \in S \cup {NoPkt}, Follows(S)
      PROVE  \A k \in 1 .. n : list[k] \in S
  <2> DEFINE missing == {k \in 1 .. n : list[k] \notin S}
  <2> SUFFICES ASSUME missing # {} PROVE FALSE
    OBVIOUS
  <2>1. missing \in SUBSET Nat
    BY <1>1
  <2>2. PICK k \in missing : \A l \in missing : k <= l
    BY <2>1, LeastNatural
  <2>3. k # 1
    BY <1>1, <1>2, <1>5, PoolConstants DEF Chain
  <2>4. k - 1 \in 1 .. n /\ k - 1 \in 1 .. n - 1 /\ k - 1 + 1 = k
    BY <1>1, <2>2, <2>3
  <2>5. list[k - 1] \in S
    BY <1>1, <2>2, <2>4
  <2>6. nextpkt[list[k - 1]] = list[k] /\ list[k] \in Pkt
    BY <1>1, <2>4 DEF Chain
  <2>7. list[k] \in S
    BY <1>5, <2>5, <2>6, PoolConstants DEF Follows
  <2> QED
    BY <2>2, <2>7
<1>6. Reach(q) = members
  BY <1>2, <1>4, <1>5 DEF Reach
<1> DEFINE f == [k \in 1 .. n |-> list[k]]
<1>7. f \in [1 .. n -> members] /\ \A k \in 1 .. n : f[k] = list[k]
  OBVIOUS
<1>8. /\ \A k, l \in 1 .. n : f[k] = f[l] => k = l
      /\ \A m \in members : \E k \in 1 .. n : f[k] = m
  BY DEF Chain
<1> HIDE DEF f, members
<1>9. f \in Bijection(1 .. n, members)
  BY <1>7, <1>8 DEF Bijection, Injection, Surjection, IsInjective
<1>10. IsFiniteSet(1 .. n) /\ Cardinality(1 .. n) = n
  BY <1>1, FS_Interval
<1>11. IsFiniteSet(members) /\ Cardinality(members) = n
  BY <1>9, <1>10, FS_Bijection DEF ExistsBijection
<1> QED
  BY <1>6, <1>11 DEF members

-----------------------------------------------------------------------------
(* The packet that is linked and not yet the tail.                          *)
Untailed(p) == IF refillPool = p /\ refillPc = "tail" THEN 1 ELSE 0

(* L[p] are the packets of p in order: as many as are counted, each leads to *)
(* the next, and no packet occurs twice or is in somebody's hands.           *)
Lists(L) ==
  /\ L \in [Pool -> Seq(Pkt)]
  /\ \A p \in Pool :
       /\ Len(L[p]) = num[p] + Uncounted(p)
       /\ head[p] = L[p][1]
       /\ tail[p] = L[p][Len(L[p]) - Untailed(p)]
       /\ nextpkt[L[p][Len(L[p])]] = NoPkt
       /\ \A k \in 1 .. Len(L[p]) :
            /\ k < Len(L[p]) => nextpkt[L[p][k]] = L[p][k + 1]
            /\ L[p][k] \notin out
            /\ refillPc = "link" => L[p][k] # refillPkt
       /\ refillPc = "tail" /\ refillPool = p => L[p][Len(L[p])] = refillPkt
  /\ \A p, r \in Pool : \A k \in 1 .. Len(L[p]), l \in 1 .. Len(L[r]) :
       L[p][k] = L[r][l] => p = r /\ k = l

(* The refill thread appends to a pool that is not full, and what it has    *)
(* allocated is its own.                                                    *)
IRefill ==
  /\ refillPc \in {"link", "tail", "count"} => num[refillPool] < Capacity
  /\ refillPc \in {"link", "tail"} => refillPkt \in Pkt
  /\ refillPc = "link" => nextpkt[refillPkt] = NoPkt /\ refillPkt \notin out

IPool ==
  /\ PoolTypeOK /\ IRefill /\ ScheduledRuns
  /\ \A p \in Pool : num[p] >= 1
  /\ \A m \in out : nextpkt[m] = NoPkt
  /\ \E L \in [Pool -> Seq(Pkt)] : Lists(L)

-----------------------------------------------------------------------------
(* A list of a pool is a chain from its head.                               *)
LEMMA ListChain ==
  ASSUME PoolTypeOK, \A p \in Pool : num[p] >= 1, NEW L, Lists(L), NEW p \in Pool
  PROVE  /\ Len(L[p]) \in Nat \ {0}
         /\ \A k \in 1 .. Len(L[p]) : L[p][k] \in Pkt
         /\ Chain(head[p], Len(L[p]), L[p])
<1>1. num[p] \in 1 .. Capacity /\ Uncounted(p) \in 0 .. 2
  BY PoolConstants DEF PoolTypeOK, Uncounted
<1>2. Len(L[p]) \in Nat \ {0} /\ L[p] \in Seq(Pkt)
  BY <1>1, PoolConstants DEF Lists
<1>3. \A k \in 1 .. Len(L[p]) : L[p][k] \in Pkt
  BY <1>2
<1>4. \A k, l \in 1 .. Len(L[p]) : L[p][k] = L[p][l] => k = l
  BY DEF Lists
<1>5. \A k \in 1 .. Len(L[p]) - 1 : nextpkt[L[p][k]] = L[p][k + 1]
  BY <1>2 DEF Lists
<1> QED
  BY <1>2, <1>3, <1>4, <1>5 DEF Lists, Chain

(* What is reached from a head are the packets of its list.                 *)
LEMMA ListReach ==
  ASSUME PoolTypeOK, \A p \in Pool : num[p] >= 1, NEW L, Lists(L), NEW p \in Pool
  PROVE  /\ Reach(head[p]) = {L[p][k] : k \in 1 .. Len(L[p])}
         /\ Cardinality(Reach(head[p])) = Len(L[p])
BY ListChain, ChainReach

(* The invariant says what the property does.                               *)
LEMMA PoolsIntact ==
  ASSUME IPool PROVE ListsIntact
<1>1. PICK L \in [Pool -> Seq(Pkt)] : Lists(L)
  BY DEF IPool
<1>2. PoolTypeOK /\ \A p \in Pool : num[p] >= 1
  BY DEF IPool
<1>3. ASSUME NEW p \in Pool
      PROVE  /\ head[p] # NoPkt /\ tail[p] \in Reach(head[p])
             /\ Cardinality(Reach(head[p])) = num[p] + Uncounted(p)
  <2>1. Len(L[p]) \in Nat \ {0} /\ \A k \in 1 .. Len(L[p]) : L[p][k] \in Pkt
    BY <1>1, <1>2, ListChain
  <2>2. /\ Reach(head[p]) = {L[p][k] : k \in 1 .. Len(L[p])}
        /\ Cardinality(Reach(head[p])) = Len(L[p])
    BY <1>1, <1>2, ListReach
  <2>3. head[p] # NoPkt
    BY <1>1, <2>1, PoolConstants DEF Lists
  <2>4. Len(L[p]) - Untailed(p) \in 1 .. Len(L[p])
    <3>1. Len(L[p]) = num[p] + Uncounted(p) /\ num[p] >= 1 /\ num[p] \in Nat
      BY <1>1, <1>2, PoolConstants DEF Lists, PoolTypeOK
    <3>2. Untailed(p) \in {0, 1} /\ Uncounted(p) \in 0 .. 2 /\ Untailed(p) <= Uncounted(p)
      BY DEF Untailed, Uncounted
    <3> QED
      BY <3>1, <3>2, <2>1
  <2>5. tail[p] = L[p][Len(L[p]) - Untailed(p)] /\ Len(L[p]) = num[p] + Uncounted(p)
    BY <1>1 DEF Lists
  <2> QED
    BY <2>2, <2>3, <2>4, <2>5
<1>4. \A p \in Pool : Reach(head[p]) = {L[p][k] : k \in 1 .. Len(L[p])}
  BY <1>1, <1>2, ListReach
<1>5. Reach(head["mbuf"]) \cap Reach(head["clust"]) = {}
  <2>1. "mbuf" \in Pool /\ "clust" \in Pool /\ "mbuf" # "clust"
    BY PoolConstants
  <2> QED
    <3>1. SUFFICES ASSUME NEW k \in 1 .. Len(L["mbuf"]), NEW l \in 1 .. Len(L["clust"]),
                          L["mbuf"][k] = L["clust"][l]
                   PROVE  FALSE
      <4>1. /\ Reach(head["mbuf"]) = {L["mbuf"][k] : k \in 1 .. Len(L["mbuf"])}
            /\ Reach(head["clust"]) = {L["clust"][k] : k \in 1 .. Len(L["clust"])}
        BY <1>4, <2>1, Zenon
      <4> QED
        BY <4>1, Zenon
    <3> QED
      BY <1>1, <2>1, <3>1 DEF Lists
<1>6. Listed \cap out = {}
  <2>1. SUFFICES ASSUME NEW m \in Listed, m \in out PROVE FALSE
    OBVIOUS
  <2>2. PICK p \in Pool : m \in Reach(head[p])
    BY <2>1 DEF Listed
  <2>3. PICK k \in 1 .. Len(L[p]) : m = L[p][k]
    BY <1>4, <2>2, Zenon
  <2> QED
    BY <1>1, <2>1, <2>3 DEF Lists
<1> QED
  BY <1>2, <1>3, <1>5, <1>6 DEF IPool, ListsIntact

(* Memory the kernel has free is in no list.                                *)
LEMMA FreeNotListed ==
  ASSUME PoolTypeOK, \A p \in Pool : num[p] >= 1, NEW L, Lists(L), NEW m \in FreeMemory
  PROVE  \A p \in Pool : \A k \in 1 .. Len(L[p]) : L[p][k] # m
<1>1. \A p \in Pool : Reach(head[p]) = {L[p][k] : k \in 1 .. Len(L[p])}
  BY ListReach
<1> QED
  BY <1>1 DEF FreeMemory, Listed

(* A step that changes no link of the lists keeps them, if the counter and  *)
(* the two threads' packets still agree with them.                           *)
LEMMA ListsKept ==
  ASSUME NEW L, Lists(L), head' = head,
         \A p \in Pool : /\ num'[p] + Uncounted(p)' = num[p] + Uncounted(p)
                         /\ tail'[p] = L[p][Len(L[p]) - Untailed(p)']
                         /\ nextpkt'[L[p][Len(L[p])]] = nextpkt[L[p][Len(L[p])]],
         \A p \in Pool : \A k \in 1 .. Len(L[p]) :
           /\ nextpkt'[L[p][k]] = nextpkt[L[p][k]]
           /\ L[p][k] \notin out'
           /\ refillPc' = "link" => L[p][k] # refillPkt',
         refillPc' = "tail" => /\ refillPc = "tail"
                               /\ refillPool' = refillPool /\ refillPkt' = refillPkt
  PROVE  Lists(L)'
BY DEF Lists

-----------------------------------------------------------------------------
(* getPacket.                                                               *)
LEMMA KeepsGetFromMemory ==
  ASSUME IPool, NEW m \in Pkt, GetFromMemory(m) PROVE IPool'
<1>1. PICK L \in [Pool -> Seq(Pkt)] : Lists(L)
  BY DEF IPool
<1>2. /\ PoolTypeOK /\ IRefill /\ ScheduledRuns /\ \A p \in Pool : num[p] >= 1
      /\ \A q \in out : nextpkt[q] = NoPkt
  BY DEF IPool
<1>3. /\ m \in FreeMemory /\ nextpkt' = [nextpkt EXCEPT ![m] = NoPkt] /\ out' = out \cup {m}
      /\ head' = head /\ tail' = tail /\ num' = num /\ refillScheduled' = refillScheduled
      /\ getPc' = getPc /\ getPool' = getPool /\ refillPc' = refillPc
      /\ refillPool' = refillPool /\ refillPkt' = refillPkt
  BY DEF GetFromMemory, getVars, refillVars
<1>4. \A p \in Pool : \A k \in 1 .. Len(L[p]) : L[p][k] # m /\ L[p][k] \in Pkt
  BY <1>1, <1>2, <1>3, FreeNotListed, ListChain
<1>5. \A q \in Pkt : q # m => nextpkt'[q] = nextpkt[q]
  BY <1>2, <1>3 DEF PoolTypeOK
<1>6. Lists(L)'
  <2>1. \A p \in Pool : /\ Uncounted(p)' = Uncounted(p) /\ Untailed(p)' = Untailed(p)
                        /\ Len(L[p]) \in 1 .. Len(L[p])
    BY <1>1, <1>2, <1>3, ListChain DEF Uncounted, Untailed
  <2>2. \A p \in Pool : \A k \in 1 .. Len(L[p]) :
           /\ nextpkt'[L[p][k]] = nextpkt[L[p][k]]
           /\ L[p][k] \notin out' /\ (refillPc = "link" => L[p][k] # refillPkt)
    BY <1>1, <1>3, <1>4, <1>5 DEF Lists
  <2>3. \A p \in Pool : tail'[p] = L[p][Len(L[p]) - Untailed(p)']
    BY <1>1, <1>3, <2>1 DEF Lists
  <2> QED
    BY <1>1, <1>3, <2>1, <2>2, <2>3, ListsKept
<1>7. PoolTypeOK' /\ ScheduledRuns'
  BY <1>2, <1>3 DEF PoolTypeOK, ScheduledRuns
<1>8. IRefill' /\ \A q \in out' : nextpkt'[q] = NoPkt
  BY <1>2, <1>3 DEF IRefill, PoolTypeOK, FreeMemory
<1> QED
  BY <1>2, <1>3, <1>6, <1>7, <1>8 DEF IPool

(* A step that leaves the links alone.                                      *)
LEMMA LinksAlone ==
  ASSUME IPool, PoolTypeOK', IRefill', ScheduledRuns', \A p \in Pool : num'[p] >= 1,
         head' = head, tail' = tail, nextpkt' = nextpkt, out' \subseteq out,
         \A p \in Pool : /\ num'[p] + Uncounted(p)' = num[p] + Uncounted(p)
                         /\ Untailed(p)' = Untailed(p),
         refillPkt' = refillPkt,
         refillPc' \in {"link", "tail"} => refillPc' = refillPc /\ refillPool' = refillPool
  PROVE  IPool'
<1>1. PICK L \in [Pool -> Seq(Pkt)] : Lists(L)
  BY DEF IPool
<1>2. \A p \in Pool : tail'[p] = L[p][Len(L[p]) - Untailed(p)']
  BY <1>1 DEF Lists
<1>3. \A p \in Pool : \A k \in 1 .. Len(L[p]) :
        /\ L[p][k] \notin out'
        /\ refillPc' = "link" => L[p][k] # refillPkt'
  BY <1>1 DEF Lists
<1>4. Lists(L)'
  BY <1>1, <1>2, <1>3, ListsKept
<1> QED
  BY <1>4 DEF IPool

LEMMA KeepsGetFromPool ==
  ASSUME IPool, NEW p \in Pool, GetFromPool(p) PROVE IPool'
<1> USE DEF GetFromPool, getVars, refillVars
<1>1. PoolTypeOK /\ IRefill /\ ScheduledRuns /\ \A r \in Pool : num[r] >= 1
  BY DEF IPool
<1>2. \A r \in Pool : num'[r] = IF r = p THEN num[r] - 1 ELSE num[r]
  BY <1>1 DEF PoolTypeOK
<1>3. \A r \in Pool : num'[r] >= 1 /\ num'[r] \in 0 .. Capacity /\ num'[r] <= num[r]
  BY <1>1, <1>2, PoolConstants DEF PoolTypeOK
<1>4. PoolTypeOK'
  BY <1>1, <1>3, PoolConstants DEF PoolTypeOK
<1>5. IRefill' /\ ScheduledRuns'
  BY <1>1, <1>2, <1>3, PoolConstants DEF IRefill, ScheduledRuns, PoolTypeOK
<1>6. \A r \in Pool : /\ num'[r] + Uncounted(r)' = num[r] + Uncounted(r)
                      /\ Untailed(r)' = Untailed(r)
  BY <1>1, <1>2, PoolConstants DEF Uncounted, Untailed, PoolTypeOK
<1> QED
  BY <1>3, <1>4, <1>5, <1>6, LinksAlone

LEMMA KeepsGetControl ==
  ASSUME IPool, GetSchedule \/ GetEnterThread PROVE IPool'
<1>1. PoolTypeOK /\ IRefill /\ ScheduledRuns /\ \A r \in Pool : num[r] >= 1
  BY DEF IPool
<1>2. /\ UNCHANGED <<listVars, out, getPool, refillPool, refillPkt>>
      /\ refillPc' = refillPc \/ (refillPc = "idle" /\ refillPc' = "pending")
      /\ getPc \in {"schedule", "enter"} /\ getPc' \in {"idle", "enter"}
  BY DEF GetSchedule, GetEnterThread, refillVars
<1>3. refillScheduled' \in BOOLEAN
  BY <1>1 DEF GetSchedule, GetEnterThread, PoolTypeOK
<1>4. ScheduledRuns'
  BY <1>1 DEF GetSchedule, GetEnterThread, ScheduledRuns, refillVars
<1>5. PoolTypeOK' /\ IRefill' /\ \A r \in Pool : num'[r] >= 1
  BY <1>1, <1>2, <1>3 DEF PoolTypeOK, IRefill, listVars
<1>6. \A r \in Pool : /\ num'[r] + Uncounted(r)' = num[r] + Uncounted(r)
                      /\ Untailed(r)' = Untailed(r)
  BY <1>1, <1>2, PoolConstants DEF Uncounted, Untailed, PoolTypeOK, listVars
<1> QED
  BY <1>2, <1>4, <1>5, <1>6, LinksAlone DEF listVars

LEMMA KeepsStackFree ==
  ASSUME IPool, NEW m \in Pkt, StackFree(m) PROVE IPool'
<1> USE DEF StackFree, listVars, getVars, refillVars
<1>1. PoolTypeOK /\ IRefill /\ ScheduledRuns /\ \A r \in Pool : num[r] >= 1
  BY DEF IPool
<1>2. PoolTypeOK' /\ IRefill' /\ \A r \in Pool : num'[r] >= 1
  BY <1>1 DEF PoolTypeOK, IRefill
<1>3. ScheduledRuns'
  BY <1>1 DEF ScheduledRuns
<1>4. \A r \in Pool : /\ num'[r] + Uncounted(r)' = num[r] + Uncounted(r)
                      /\ Untailed(r)' = Untailed(r)
  BY <1>1, PoolConstants DEF Uncounted, Untailed, PoolTypeOK
<1> QED
  BY <1>2, <1>3, <1>4, LinksAlone

-----------------------------------------------------------------------------
(* The thread call, as far as it leaves the links alone.                    *)
LEMMA KeepsRefillControl ==
  ASSUME IPool, RefillStart \/ RefillNextPool \/ RefillDone PROVE IPool'
<1>1. PoolTypeOK /\ IRefill /\ ScheduledRuns /\ \A r \in Pool : num[r] >= 1
  BY DEF IPool
<1>2. /\ UNCHANGED <<listVars, out, getVars, refillPkt>>
      /\ refillPc \in {"pending", "loop"} /\ refillPc' \in {"loop", "idle"}
      /\ refillPool' \in Pool
  BY <1>1, PoolConstants DEF RefillStart, RefillNextPool, RefillDone, refillVars, PoolTypeOK
<1>3. refillScheduled' \in BOOLEAN
  BY <1>1 DEF RefillStart, RefillNextPool, RefillDone, PoolTypeOK
<1>4. ScheduledRuns'
  BY <1>1 DEF RefillStart, RefillNextPool, RefillDone, ScheduledRuns, refillVars
<1>5. PoolTypeOK' /\ IRefill' /\ \A r \in Pool : num'[r] >= 1
  BY <1>1, <1>2, <1>3 DEF PoolTypeOK, IRefill, listVars, getVars
<1>6. \A r \in Pool : /\ num'[r] + Uncounted(r)' = num[r] + Uncounted(r)
                      /\ Untailed(r)' = Untailed(r)
  BY <1>1, <1>2, PoolConstants DEF Uncounted, Untailed, PoolTypeOK, listVars, getVars
<1> QED
  BY <1>2, <1>4, <1>5, <1>6, LinksAlone DEF listVars

LEMMA KeepsRefillCount ==
  ASSUME IPool, RefillCount PROVE IPool'
<1> USE DEF RefillCount, getVars
<1>1. PoolTypeOK /\ IRefill /\ ScheduledRuns /\ \A r \in Pool : num[r] >= 1
  BY DEF IPool
<1>2. \A r \in Pool : num'[r] = IF r = refillPool THEN num[r] + 1 ELSE num[r]
  BY <1>1 DEF PoolTypeOK
<1>3. num[refillPool] < Capacity
  BY <1>1 DEF IRefill
<1>4. \A r \in Pool : num'[r] >= 1 /\ num'[r] \in 0 .. Capacity
  BY <1>1, <1>2, <1>3, PoolConstants DEF PoolTypeOK
<1>5. PoolTypeOK'
  BY <1>1, <1>4, PoolConstants DEF PoolTypeOK
<1>6. IRefill' /\ ScheduledRuns'
  BY <1>1 DEF IRefill, ScheduledRuns
<1>7. \A r \in Pool : /\ num'[r] + Uncounted(r)' = num[r] + Uncounted(r)
                      /\ Untailed(r)' = Untailed(r)
  BY <1>1, <1>2, PoolConstants DEF Uncounted, Untailed, PoolTypeOK
<1> QED
  BY <1>4, <1>5, <1>6, <1>7, LinksAlone

LEMMA KeepsRefillAlloc ==
  ASSUME IPool, NEW m \in Pkt, RefillAlloc(m) PROVE IPool'
<1>1. PICK L \in [Pool -> Seq(Pkt)] : Lists(L)
  BY DEF IPool
<1>2. /\ PoolTypeOK /\ IRefill /\ ScheduledRuns /\ \A p \in Pool : num[p] >= 1
      /\ \A q \in out : nextpkt[q] = NoPkt
  BY DEF IPool
<1>3. /\ m \in FreeMemory /\ nextpkt' = [nextpkt EXCEPT ![m] = NoPkt] /\ out' = out
      /\ head' = head /\ tail' = tail /\ num' = num /\ refillScheduled' = refillScheduled
      /\ getPc' = getPc /\ getPool' = getPool /\ refillPc = "loop" /\ refillPc' = "link"
      /\ refillPool' = refillPool /\ refillPkt' = m /\ num[refillPool] < Capacity
  BY DEF RefillAlloc, getVars
<1>4. \A p \in Pool : \A k \in 1 .. Len(L[p]) : L[p][k] # m /\ L[p][k] \in Pkt
  BY <1>1, <1>2, <1>3, FreeNotListed, ListChain
<1>5. \A q \in Pkt : nextpkt'[q] = IF q = m THEN NoPkt ELSE nextpkt[q]
  BY <1>2, <1>3 DEF PoolTypeOK
<1>6. Lists(L)'
  <2>1. \A p \in Pool : /\ Uncounted(p)' = Uncounted(p) /\ Untailed(p)' = Untailed(p)
                        /\ Len(L[p]) \in 1 .. Len(L[p])
    BY <1>1, <1>2, <1>3, ListChain DEF Uncounted, Untailed
  <2>2. \A p \in Pool : \A k \in 1 .. Len(L[p]) :
           /\ nextpkt'[L[p][k]] = nextpkt[L[p][k]]
           /\ L[p][k] \notin out' /\ L[p][k] # refillPkt'
    BY <1>1, <1>3, <1>4, <1>5 DEF Lists
  <2>3. \A p \in Pool : tail'[p] = L[p][Len(L[p]) - Untailed(p)']
    BY <1>1, <1>3, <2>1 DEF Lists
  <2> QED
    BY <1>1, <1>3, <2>1, <2>2, <2>3, ListsKept
<1>7. PoolTypeOK' /\ ScheduledRuns'
  BY <1>2, <1>3 DEF PoolTypeOK, ScheduledRuns
<1>8. IRefill' /\ \A q \in out' : nextpkt'[q] = NoPkt
  BY <1>2, <1>3, <1>5 DEF IRefill, PoolTypeOK, FreeMemory
<1> QED
  BY <1>2, <1>3, <1>6, <1>7, <1>8 DEF IPool

LEMMA KeepsRefillTail ==
  ASSUME IPool, RefillTail PROVE IPool'
<1>1. PICK L \in [Pool -> Seq(Pkt)] : Lists(L)
  BY DEF IPool
<1>2. /\ PoolTypeOK /\ IRefill /\ ScheduledRuns /\ \A p \in Pool : num[p] >= 1
      /\ \A q \in out : nextpkt[q] = NoPkt
  BY DEF IPool
<1>3. /\ nextpkt' = nextpkt /\ out' = out /\ head' = head
      /\ tail' = [tail EXCEPT ![refillPool] = refillPkt]
      /\ num' = num /\ refillScheduled' = refillScheduled
      /\ getPc' = getPc /\ getPool' = getPool /\ refillPc = "tail" /\ refillPc' = "count"
      /\ refillPool' = refillPool /\ refillPkt' = NoPkt
  BY DEF RefillTail, getVars
<1>4. refillPkt \in Pkt
  BY <1>2, <1>3 DEF IRefill
<1>5. \A p \in Pool : tail'[p] = IF p = refillPool THEN refillPkt ELSE tail[p]
  BY <1>2, <1>3 DEF PoolTypeOK
<1>6. Lists(L)'
  <2>1. \A p \in Pool : /\ Uncounted(p)' = Uncounted(p) /\ Untailed(p)' = 0
                        /\ Untailed(p) = IF p = refillPool THEN 1 ELSE 0
                        /\ Len(L[p]) - 0 = Len(L[p])
    BY <1>1, <1>2, <1>3, ListChain DEF Uncounted, Untailed
  <2>2. \A p \in Pool : tail'[p] = L[p][Len(L[p]) - Untailed(p)']
    BY <1>1, <1>3, <1>5, <2>1 DEF Lists
  <2>3. \A p \in Pool : \A k \in 1 .. Len(L[p]) : L[p][k] \notin out'
    BY <1>1, <1>3 DEF Lists
  <2> QED
    BY <1>1, <1>3, <2>1, <2>2, <2>3, ListsKept
<1>7. PoolTypeOK' /\ ScheduledRuns'
  BY <1>2, <1>3, <1>4 DEF PoolTypeOK, ScheduledRuns
<1>8. IRefill' /\ \A q \in out' : nextpkt'[q] = NoPkt
  BY <1>2, <1>3 DEF IRefill
<1> QED
  BY <1>2, <1>3, <1>6, <1>7, <1>8 DEF IPool

-----------------------------------------------------------------------------
(* getPacket takes the first packet of a list that has another one.         *)
LEMMA KeepsGetUnlink ==
  ASSUME IPool, GetUnlink PROVE IPool'
<1>1. PICK L \in [Pool -> Seq(Pkt)] : Lists(L)
  BY DEF IPool
<1>2. /\ PoolTypeOK /\ IRefill /\ ScheduledRuns /\ \A p \in Pool : num[p] >= 1
      /\ \A q \in out : nextpkt[q] = NoPkt
  BY DEF IPool
<1>3. PICK g \in Pool : g = getPool
  BY <1>2 DEF PoolTypeOK
<1>4. /\ head' = [head EXCEPT ![g] = nextpkt[head[g]]]
      /\ nextpkt' = [nextpkt EXCEPT ![head[g]] = NoPkt]
      /\ out' = out \cup {head[g]}
      /\ tail' = tail /\ num' = num /\ refillScheduled' = refillScheduled
      /\ getPc = "unlink" /\ getPc' = "schedule" /\ getPool' = g
      /\ refillPc' = refillPc /\ refillPool' = refillPool /\ refillPkt' = refillPkt
  BY <1>3 DEF GetUnlink, refillVars
<1>5. PICK M \in [Pool -> Seq(Pkt)] : M = [L EXCEPT ![g] = Tail(L[g])]
  <2>1. Tail(L[g]) \in Seq(Pkt)
    <3>1. L[g] \in Seq(Pkt) /\ Len(L[g]) \in Nat \ {0}
      BY <1>1, <1>2, ListChain
    <3> QED
      BY <3>1
  <2> QED
    BY <2>1
<1>6. /\ \A p \in Pool : Len(L[p]) \in Nat \ {0} /\ Len(L[p]) = num[p] + Uncounted(p)
      /\ \A p \in Pool : \A k \in 1 .. Len(L[p]) : L[p][k] \in Pkt
  BY <1>1, <1>2, ListChain DEF Lists
<1>7. /\ Uncounted(g) = Uncounted(g)' + 1 /\ Untailed(g) = Untailed(g)'
      /\ \A p \in Pool : Untailed(p)' \in Nat /\ Untailed(p)' <= Uncounted(p)'
      /\ \A p \in Pool \ {g} : Uncounted(p)' = Uncounted(p) /\ Untailed(p)' = Untailed(p)
      /\ \A p \in Pool : Uncounted(p)' \in Nat
  BY <1>3, <1>4 DEF Uncounted, Untailed
<1>8. Len(L[g]) >= 2 /\ Len(L[g]) - Untailed(g)' >= 2
  <2> DEFINE len == Len(L[g])
             c == num[g]
             u == Uncounted(g)'
             t == Untailed(g)'
  <2>1. c \in Nat
    BY PoolConstants, <1>2 DEF PoolTypeOK
  <2>2. c >= 1 /\ len = c + Uncounted(g) /\ Uncounted(g) = u + 1
    BY <1>2, <1>6, <1>7
  <2>3. u \in Nat /\ t \in Nat /\ t <= u
    BY <1>7
  <2> HIDE DEF len, c, u, t
  <2>4. len >= 2 /\ len - t >= 2
    BY <2>1, <2>2, <2>3
  <2> QED
    BY <2>4 DEF len, t
<1>9. /\ head[g] = L[g][1] /\ L[g][1] \in Pkt /\ nextpkt[L[g][1]] = L[g][2]
      /\ L[g][1] \notin out /\ (refillPc = "link" => L[g][1] # refillPkt)
      /\ 1 \in 1 .. Len(L[g]) /\ 2 \in 1 .. Len(L[g])
  <2>1. 1 \in 1 .. Len(L[g]) /\ 2 \in 1 .. Len(L[g]) /\ 1 < Len(L[g]) /\ 1 + 1 = 2
    BY <1>6, <1>8
  <2> QED
    BY <1>1, <1>6, <2>1 DEF Lists
<1>10. /\ Len(M[g]) = Len(L[g]) - 1
       /\ \A k \in 1 .. Len(M[g]) : M[g][k] = L[g][k + 1] /\ k + 1 \in 1 .. Len(L[g])
       /\ \A p \in Pool \ {g} : M[p] = L[p]
  <2>1. M[g] = Tail(L[g]) /\ L[g] \in Seq(Pkt) /\ Len(L[g]) >= 2
    BY <1>5, <1>8
  <2>2. \A p \in Pool \ {g} : M[p] = L[p]
    BY <1>5
  <2> QED
    BY <2>1, <2>2
<1>11. \A p, r \in Pool : \A k \in 1 .. Len(L[p]), l \in 1 .. Len(L[r]) :
         L[p][k] = L[r][l] => p = r /\ k = l
  BY <1>1 DEF Lists
<1>12. \A q \in Pkt : nextpkt'[q] = IF q = L[g][1] THEN NoPkt ELSE nextpkt[q]
  BY <1>2, <1>4, <1>9 DEF PoolTypeOK
<1>13. \A p \in Pool : \A k \in 1 .. Len(M[p]) : M[p][k] # L[g][1] /\ M[p][k] \in Pkt
  <2>1. ASSUME NEW p \in Pool, p # g, NEW k \in 1 .. Len(M[p])
        PROVE  M[p][k] # L[g][1] /\ M[p][k] \in Pkt
    BY <1>6, <1>9, <1>10, <1>11, <2>1
  <2>2. ASSUME NEW k \in 1 .. Len(M[g])
        PROVE  M[g][k] # L[g][1] /\ M[g][k] \in Pkt
    <3>1. k + 1 \in 1 .. Len(L[g]) /\ k + 1 # 1 /\ M[g][k] = L[g][k + 1]
      BY <1>6, <1>10
    <3> QED
      BY <1>6, <1>9, <1>11, <3>1
  <2> QED
    BY <2>1, <2>2
<1>14. Lists(M)'
  <2>1. ASSUME NEW p \in Pool
        PROVE  /\ Len(M[p]) = num'[p] + Uncounted(p)'
               /\ head'[p] = M[p][1]
               /\ tail'[p] = M[p][Len(M[p]) - Untailed(p)']
               /\ nextpkt'[M[p][Len(M[p])]] = NoPkt
               /\ refillPc' = "tail" /\ refillPool' = p => M[p][Len(M[p])] = refillPkt'
    <3>1. CASE p = g
      <4>1. Len(M[g]) = num'[g] + Uncounted(g)'
        <5>1. /\ num'[g] = num[g] /\ num[g] \in Int /\ Uncounted(g)' \in Nat
              /\ Len(L[g]) = num[g] + Uncounted(g)
          BY <1>2, <1>4, <1>6, <1>7, PoolConstants DEF PoolTypeOK
        <5>2. Len(M[g]) = (num[g] + (Uncounted(g)' + 1)) - 1
          BY <1>7, <1>10, <5>1
        <5>3. \A a \in Int, u \in Nat : (a + (u + 1)) - 1 = a + u
          OBVIOUS
        <5> QED
          BY <5>1, <5>2, <5>3
      <4>2. 1 \in 1 .. Len(M[g]) /\ Len(M[g]) \in 1 .. Len(M[g])
            /\ Len(M[g]) - Untailed(g)' \in 1 .. Len(M[g])
        BY <1>6, <1>7, <1>8, <1>10
      <4>3. /\ M[g][1] = L[g][2] /\ M[g][Len(M[g])] = L[g][Len(L[g])]
            /\ M[g][Len(M[g]) - Untailed(g)'] = L[g][Len(L[g]) - Untailed(g)]
        <5>1. 1 + 1 = 2 /\ Len(M[g]) + 1 = Len(L[g])
              /\ (Len(M[g]) - Untailed(g)') + 1 = Len(L[g]) - Untailed(g)
          BY <1>6, <1>7, <1>10
        <5> QED
          BY <1>10, <4>2, <5>1
      <4>4. head'[g] = M[g][1]
        BY <1>2, <1>4, <1>9, <4>3 DEF PoolTypeOK
      <4>5. /\ tail[g] = L[g][Len(L[g]) - Untailed(g)] /\ nextpkt[L[g][Len(L[g])]] = NoPkt
            /\ refillPc = "tail" /\ refillPool = g => L[g][Len(L[g])] = refillPkt
        BY <1>1 DEF Lists
      <4>6. nextpkt'[M[g][Len(M[g])]] = NoPkt
        BY <1>12, <1>13, <4>2, <4>3, <4>5
      <4> QED
        BY <1>4, <3>1, <4>1, <4>3, <4>4, <4>5, <4>6
    <3>2. CASE p # g
      <4>1. M[p] = L[p] /\ head'[p] = head[p] /\ tail'[p] = tail[p] /\ num'[p] = num[p]
        BY <1>2, <1>4, <1>10, <3>2 DEF PoolTypeOK
      <4>2. /\ head[p] = L[p][1] /\ tail[p] = L[p][Len(L[p]) - Untailed(p)]
            /\ nextpkt[L[p][Len(L[p])]] = NoPkt
            /\ refillPc = "tail" /\ refillPool = p => L[p][Len(L[p])] = refillPkt
        BY <1>1 DEF Lists
      <4>3. nextpkt'[M[p][Len(M[p])]] = NoPkt
        <5>1. Len(M[p]) \in 1 .. Len(M[p])
          BY <1>6, <4>1
        <5> QED
          BY <1>12, <1>13, <4>1, <4>2, <5>1
      <4> QED
        BY <1>4, <1>6, <1>7, <3>2, <4>1, <4>2, <4>3
    <3> QED
      BY <3>1, <3>2
  <2>2. ASSUME NEW p \in Pool, NEW k \in 1 .. Len(M[p])
        PROVE  /\ k < Len(M[p]) => nextpkt'[M[p][k]] = M[p][k + 1]
               /\ M[p][k] \notin out'
               /\ refillPc' = "link" => M[p][k] # refillPkt'
    <3>1. nextpkt'[M[p][k]] = nextpkt[M[p][k]] /\ M[p][k] # head[g]
      BY <1>9, <1>12, <1>13
    <3>2. CASE p = g
      <4>1. k + 1 \in 1 .. Len(L[g]) /\ M[g][k] = L[g][k + 1] /\ Len(M[g]) = Len(L[g]) - 1
        BY <1>10, <3>2
      <4>2. k < Len(M[g]) => /\ k + 1 \in 1 .. Len(M[g]) /\ k + 1 < Len(L[g])
                             /\ M[g][k + 1] = L[g][(k + 1) + 1]
        BY <1>6, <1>10, <3>2, <4>1
      <4>3. /\ k + 1 < Len(L[g]) => nextpkt[L[g][k + 1]] = L[g][(k + 1) + 1]
            /\ L[g][k + 1] \notin out
            /\ refillPc = "link" => L[g][k + 1] # refillPkt
        BY <1>1, <4>1 DEF Lists
      <4> QED
        BY <1>4, <3>1, <3>2, <4>1, <4>2, <4>3
    <3>3. CASE p # g
      <4>1. M[p] = L[p]
        BY <1>10, <3>3
      <4>2. /\ k < Len(L[p]) => nextpkt[L[p][k]] = L[p][k + 1]
            /\ L[p][k] \notin out
            /\ refillPc = "link" => L[p][k] # refillPkt
        BY <1>1, <4>1 DEF Lists
      <4> QED
        BY <1>4, <3>1, <4>1, <4>2
    <3> QED
      BY <3>2, <3>3
  <2>3. ASSUME NEW p \in Pool, NEW r \in Pool,
               NEW k \in 1 .. Len(M[p]), NEW l \in 1 .. Len(M[r]), M[p][k] = M[r][l]
        PROVE  p = r /\ k = l
    <3>1. /\ p = g => k + 1 \in 1 .. Len(L[p]) /\ M[p][k] = L[p][k + 1]
          /\ r = g => l + 1 \in 1 .. Len(L[r]) /\ M[r][l] = L[r][l + 1]
          /\ p # g => k \in 1 .. Len(L[p]) /\ M[p][k] = L[p][k]
          /\ r # g => l \in 1 .. Len(L[r]) /\ M[r][l] = L[r][l]
      BY <1>10
    <3>2. p = r
      BY <1>11, <2>3, <3>1
    <3>3. k \in Int /\ l \in Int
      OBVIOUS
    <3>4. CASE p = g
      <4>1. k + 1 = l + 1
        BY <1>11, <2>3, <3>1, <3>2, <3>4
      <4> QED
        BY <3>2, <3>3, <4>1
    <3>5. CASE p # g
      BY <1>11, <2>3, <3>1, <3>2, <3>5
    <3> QED
      BY <3>4, <3>5
  <2> QED
    BY <2>1, <2>2, <2>3 DEF Lists
<1>15. head' \in [Pool -> Pkt \cup {NoPkt}] /\ nextpkt' \in [Pkt -> Pkt \cup {NoPkt}]
       /\ out' \subseteq Pkt
  BY <1>2, <1>4, <1>6, <1>9 DEF PoolTypeOK
<1>16. PoolTypeOK' /\ ScheduledRuns'
  BY <1>2, <1>4, <1>15 DEF PoolTypeOK, ScheduledRuns
<1>17. IRefill'
  BY <1>2, <1>4, <1>9, <1>12 DEF IRefill
<1>18. \A q \in out' : nextpkt'[q] = NoPkt
  BY <1>2, <1>4, <1>9, <1>12 DEF PoolTypeOK
<1>19. \A p \in Pool : num'[p] >= 1
  BY <1>2, <1>4
<1> QED
  BY <1>14, <1>16, <1>17, <1>18, <1>19 DEF IPool

-----------------------------------------------------------------------------
(* The thread call appends its packet behind the tail.                      *)
LEMMA KeepsRefillLink ==
  ASSUME IPool, RefillLink PROVE IPool'
<1>1. PICK L \in [Pool -> Seq(Pkt)] : Lists(L)
  BY DEF IPool
<1>2. /\ PoolTypeOK /\ IRefill /\ ScheduledRuns /\ \A p \in Pool : num[p] >= 1
      /\ \A q \in out : nextpkt[q] = NoPkt
  BY DEF IPool
<1>3. PICK g \in Pool : g = refillPool
  BY <1>2 DEF PoolTypeOK
<1>4. refillPc = "link" /\ refillPkt \in Pkt /\ nextpkt[refillPkt] = NoPkt /\ refillPkt \notin out
  BY <1>2 DEF RefillLink, IRefill
<1>5. PICK m \in Pkt : m = refillPkt
  BY <1>4
<1>6. /\ nextpkt' = [nextpkt EXCEPT ![tail[g]] = m]
      /\ head' = head /\ tail' = tail /\ num' = num /\ refillScheduled' = refillScheduled
      /\ out' = out /\ getPc' = getPc /\ getPool' = getPool
      /\ refillPc' = "tail" /\ refillPool' = g /\ refillPkt' = m
  BY <1>3, <1>5 DEF RefillLink, getVars
<1>7. /\ \A p \in Pool : Len(L[p]) \in Nat \ {0} /\ Len(L[p]) = num[p] + Uncounted(p)
      /\ \A p \in Pool : \A k \in 1 .. Len(L[p]) : L[p][k] \in Pkt /\ L[p][k] # m
  <2>1. \A p \in Pool : Len(L[p]) \in Nat \ {0} /\ \A k \in 1 .. Len(L[p]) : L[p][k] \in Pkt
    BY <1>1, <1>2, ListChain
  <2>2. /\ \A p \in Pool : Len(L[p]) = num[p] + Uncounted(p)
        /\ \A p \in Pool : \A k \in 1 .. Len(L[p]) : L[p][k] # refillPkt
    BY <1>1, <1>4 DEF Lists
  <2> QED
    BY <1>5, <2>1, <2>2
<1>8. PICK M \in [Pool -> Seq(Pkt)] : M = [L EXCEPT ![g] = Append(L[g], m)]
  <2>1. Append(L[g], m) \in Seq(Pkt)
    BY AppendProperties
  <2> QED
    BY <2>1
<1>9. /\ Len(M[g]) = Len(L[g]) + 1 /\ M[g][Len(M[g])] = m
      /\ \A k \in 1 .. Len(L[g]) : M[g][k] = L[g][k]
      /\ \A p \in Pool \ {g} : M[p] = L[p]
  <2>1. M[g] = Append(L[g], m) /\ L[g] \in Seq(Pkt)
    BY <1>8
  <2>2. \A p \in Pool \ {g} : M[p] = L[p]
    BY <1>8
  <2> QED
    BY <2>1, <2>2, AppendProperties
<1>10. /\ Uncounted(g)' = Uncounted(g) + 1 /\ Uncounted(g) \in Nat
       /\ Untailed(g)' = 1 /\ Untailed(g) = 0
       /\ \A p \in Pool \ {g} : Uncounted(p)' = Uncounted(p) /\ Untailed(p)' = Untailed(p)
  BY <1>3, <1>4, <1>6 DEF Uncounted, Untailed
<1>11. tail[g] = L[g][Len(L[g])] /\ Len(L[g]) \in 1 .. Len(L[g]) /\ tail[g] \in Pkt
  <2>1. tail[g] = L[g][Len(L[g]) - Untailed(g)]
    BY <1>1 DEF Lists
  <2>2. Len(L[g]) - 0 = Len(L[g]) /\ Len(L[g]) \in 1 .. Len(L[g])
    BY <1>7
  <2> QED
    BY <1>7, <1>10, <2>1, <2>2
<1>12. \A q \in Pkt : nextpkt'[q] = IF q = tail[g] THEN m ELSE nextpkt[q]
  BY <1>2, <1>6, <1>11 DEF PoolTypeOK
<1>13. tail[g] # m
  BY <1>7, <1>11
<1>14. \A p, r \in Pool : \A k \in 1 .. Len(L[p]), l \in 1 .. Len(L[r]) :
         L[p][k] = L[r][l] => p = r /\ k = l
  BY <1>1 DEF Lists
<1>15. Lists(M)'
  <2>1. ASSUME NEW p \in Pool
        PROVE  /\ Len(M[p]) = num'[p] + Uncounted(p)'
               /\ head'[p] = M[p][1]
               /\ tail'[p] = M[p][Len(M[p]) - Untailed(p)']
               /\ nextpkt'[M[p][Len(M[p])]] = NoPkt
               /\ refillPc' = "tail" /\ refillPool' = p => M[p][Len(M[p])] = refillPkt'
    <3>1. CASE p = g
      <4>1. Len(M[g]) = num'[g] + Uncounted(g)'
        <5>1. num'[g] = num[g] /\ num[g] \in Int /\ Len(L[g]) = num[g] + Uncounted(g)
          BY <1>2, <1>6, <1>7, PoolConstants DEF PoolTypeOK
        <5>2. Len(M[g]) = (num[g] + Uncounted(g)) + 1
          BY <1>9, <5>1
        <5> QED
          BY <1>10, <5>1, <5>2
      <4>2. head[g] = L[g][1] /\ 1 \in 1 .. Len(L[g])
        BY <1>1, <1>7 DEF Lists
      <4>3. Len(M[g]) - 1 = Len(L[g])
        BY <1>7, <1>9
      <4>4. tail'[g] = M[g][Len(M[g]) - Untailed(g)']
        BY <1>6, <1>9, <1>10, <1>11, <4>3
      <4>5. nextpkt'[m] = NoPkt
        BY <1>4, <1>5, <1>12, <1>13
      <4> QED
        BY <1>6, <1>9, <3>1, <4>1, <4>2, <4>4, <4>5
    <3>2. CASE p # g
      <4>1. M[p] = L[p] /\ head'[p] = head[p] /\ tail'[p] = tail[p] /\ num'[p] = num[p]
        BY <1>6, <1>9, <3>2
      <4>2. /\ head[p] = L[p][1] /\ tail[p] = L[p][Len(L[p]) - Untailed(p)]
            /\ nextpkt[L[p][Len(L[p])]] = NoPkt
        BY <1>1 DEF Lists
      <4>3. nextpkt'[M[p][Len(M[p])]] = NoPkt
        <5>1. Len(L[p]) \in 1 .. Len(L[p]) /\ L[p][Len(L[p])] \in Pkt
          BY <1>7
        <5>2. L[p][Len(L[p])] # tail[g]
          BY <1>11, <1>14, <3>2, <5>1
        <5> QED
          BY <1>12, <4>1, <4>2, <5>1, <5>2
      <4> QED
        BY <1>6, <1>7, <1>10, <3>2, <4>1, <4>2, <4>3
    <3> QED
      BY <3>1, <3>2
  <2>2. ASSUME NEW p \in Pool, NEW k \in 1 .. Len(M[p])
        PROVE  /\ k < Len(M[p]) => nextpkt'[M[p][k]] = M[p][k + 1]
               /\ M[p][k] \notin out'
    <3>1. CASE p = g /\ k = Len(L[g]) + 1
      BY <1>4, <1>5, <1>6, <1>7, <1>9, <3>1
    <3>2. CASE p = g /\ k = Len(L[g])
      <4>1. M[g][k] = tail[g] /\ M[g][k + 1] = m
        BY <1>9, <1>11, <3>2
      <4>2. tail[g] \notin out
        BY <1>1, <1>11 DEF Lists
      <4> QED
        BY <1>6, <1>11, <1>12, <3>2, <4>1, <4>2
    <3>3. CASE p = g /\ k < Len(L[g])
      <4>1. k \in 1 .. Len(L[g]) /\ k + 1 \in 1 .. Len(L[g])
        BY <1>7, <1>9, <3>3
      <4>2. nextpkt[L[g][k]] = L[g][k + 1] /\ L[g][k] \notin out
        BY <1>1, <3>3, <4>1 DEF Lists
      <4>3. L[g][k] # tail[g]
        <5>1. k # Len(L[g])
          BY <1>7, <3>3, <4>1
        <5> QED
          BY <1>11, <1>14, <4>1, <5>1
      <4> QED
        BY <1>6, <1>7, <1>9, <1>12, <3>3, <4>1, <4>2, <4>3
    <3>4. CASE p # g
      <4>1. M[p] = L[p]
        BY <1>9, <3>4
      <4>2. (k < Len(L[p]) => nextpkt[L[p][k]] = L[p][k + 1]) /\ L[p][k] \notin out
        BY <1>1, <4>1 DEF Lists
      <4>3. L[p][k] # tail[g] /\ L[p][k] \in Pkt
        BY <1>7, <1>11, <1>14, <3>4, <4>1
      <4> QED
        BY <1>6, <1>12, <4>1, <4>2, <4>3
    <3> QED
      <4>1. p = g => k \in 1 .. Len(L[g]) + 1
        BY <1>9
      <4>2. Len(L[g]) \in Nat
        BY <1>7
      <4> QED
        BY <3>1, <3>2, <3>3, <3>4, <4>1, <4>2
  <2>3. ASSUME NEW p \in Pool, NEW r \in Pool,
               NEW k \in 1 .. Len(M[p]), NEW l \in 1 .. Len(M[r]), M[p][k] = M[r][l]
        PROVE  p = r /\ k = l
    <3>1. \A q \in Pool : \A j \in 1 .. Len(M[q]) :
            \/ j \in 1 .. Len(L[q]) /\ M[q][j] = L[q][j] /\ M[q][j] # m
            \/ q = g /\ j = Len(L[g]) + 1 /\ M[q][j] = m
      <4>1. ASSUME NEW j \in 1 .. Len(M[g])
            PROVE  \/ j \in 1 .. Len(L[g]) /\ M[g][j] = L[g][j] /\ M[g][j] # m
                   \/ j = Len(L[g]) + 1 /\ M[g][j] = m
        <5>1. j \in 1 .. Len(L[g]) \/ j = Len(L[g]) + 1
          BY <1>7, <1>9
        <5> QED
          BY <5>1, <1>7, <1>9
      <4>2. \A q \in Pool \ {g} : \A j \in 1 .. Len(M[q]) :
              j \in 1 .. Len(L[q]) /\ M[q][j] = L[q][j] /\ M[q][j] # m
        BY <1>7, <1>9
      <4> QED
        BY <4>1, <4>2
    <3>2. CASE M[p][k] = m
      BY <2>3, <3>1, <3>2
    <3>3. CASE M[p][k] # m
      <4>1. k \in 1 .. Len(L[p]) /\ M[p][k] = L[p][k] /\ l \in 1 .. Len(L[r]) /\ M[r][l] = L[r][l]
        BY <2>3, <3>1, <3>3
      <4> QED
        <5>1. L[p][k] = L[r][l] => p = r /\ k = l
          BY <1>14, <4>1
        <5> QED
          BY <2>3, <4>1, <5>1
    <3> QED
      BY <3>2, <3>3
  <2> QED
    BY <1>6, <2>1, <2>2, <2>3 DEF Lists
<1>16. nextpkt' \in [Pkt -> Pkt \cup {NoPkt}]
  BY <1>2, <1>6, <1>11 DEF PoolTypeOK
<1>17. PoolTypeOK' /\ ScheduledRuns'
  BY <1>2, <1>6, <1>16 DEF PoolTypeOK, ScheduledRuns
<1>18. IRefill'
  BY <1>2, <1>3, <1>4, <1>6 DEF IRefill
<1>19. \A q \in out' : nextpkt'[q] = NoPkt
  <2>1. tail[g] \notin out
    BY <1>1, <1>11 DEF Lists
  <2> QED
    BY <1>2, <1>6, <1>12, <2>1 DEF PoolTypeOK
<1> QED
  BY <1>2, <1>6, <1>15, <1>17, <1>18, <1>19 DEF IPool

-----------------------------------------------------------------------------
(* initWithCapacity leaves two full lists.                                  *)
LEMMA PoolsFilled ==
  ASSUME PoolInit PROVE IPool
<1>1. PICK f \in [Pool \X (1 .. Capacity) -> Pkt] :
        /\ \A x, y \in Pool \X (1 .. Capacity) : x # y => f[x] # f[y]
        /\ head = [p \in Pool |-> f[<<p, 1>>]]
        /\ tail = [p \in Pool |-> f[<<p, Capacity>>]]
        /\ nextpkt = [q \in Pkt |->
             IF \E p \in Pool, i \in 1 .. Capacity - 1 : f[<<p, i>>] = q
               THEN LET x == CHOOSE x \in Pool \X (1 .. Capacity - 1) : f[x] = q
                    IN  f[<<x[1], x[2] + 1>>]
               ELSE NoPkt]
  BY DEF PoolInit
<1>2. /\ num = [p \in Pool |-> Capacity] /\ refillScheduled = FALSE /\ out = {}
      /\ getPc = "idle" /\ getPool = "mbuf"
      /\ refillPc = "idle" /\ refillPool = "mbuf" /\ refillPkt = NoPkt
  BY DEF PoolInit
<1>3. Capacity \in Nat \ {0} /\ NoPkt \notin Pkt /\ "mbuf" \in Pool
  BY PoolConstants
<1>4. /\ \A p, r \in Pool : \A k, l \in 1 .. Capacity :
           f[<<p, k>>] \in Pkt /\ (f[<<p, k>>] = f[<<r, l>>] => p = r /\ k = l)
  BY <1>1
<1>5. ASSUME NEW p \in Pool, NEW k \in 1 .. Capacity
      PROVE  nextpkt[f[<<p, k>>]] = IF k < Capacity THEN f[<<p, k + 1>>] ELSE NoPkt
  <2>1. CASE k < Capacity
    <3> DEFINE X == Pool \X (1 .. Capacity - 1)
    <3>1. k \in 1 .. Capacity - 1 /\ <<p, k>> \in X
      BY <1>3, <2>1
    <3> DEFINE x == CHOOSE x \in X : f[x] = f[<<p, k>>]
    <3>2. x \in X /\ f[x] = f[<<p, k>>]
      BY <3>1
    <3>3. x = <<p, k>>
      <4>1. X \subseteq Pool \X (1 .. Capacity)
        BY <1>3
      <4> QED
        BY <1>1, <3>1, <3>2, <4>1
    <3>4. f[<<p, k>>] \in Pkt /\ \E r \in Pool, i \in 1 .. Capacity - 1 : f[<<r, i>>] = f[<<p, k>>]
      BY <1>4, <3>1
    <3>5. nextpkt[f[<<p, k>>]] = f[<<x[1], x[2] + 1>>]
      BY <1>1, <3>4
    <3> HIDE DEF x
    <3>6. x[1] = p /\ x[2] = k
      BY <3>3
    <3> QED
      BY <2>1, <3>5, <3>6
  <2>2. CASE k = Capacity
    <3>1. ~ \E r \in Pool, i \in 1 .. Capacity - 1 : f[<<r, i>>] = f[<<p, k>>]
      <4> SUFFICES ASSUME NEW r \in Pool, NEW i \in 1 .. Capacity - 1, f[<<r, i>>] = f[<<p, k>>]
                   PROVE  FALSE
        OBVIOUS
      <4>1. i \in 1 .. Capacity /\ i # k
        BY <1>3, <2>2
      <4>2. <<r, i>> # <<p, k>> /\ <<r, i>> \in Pool \X (1 .. Capacity)
            /\ <<p, k>> \in Pool \X (1 .. Capacity)
        BY <4>1
      <4> QED
        BY <1>1, <4>2, Zenon
    <3> QED
      <4>1. f[<<p, k>>] \in Pkt /\ ~(k < Capacity)
        BY <1>3, <1>4, <2>2
      <4>2. nextpkt[f[<<p, k>>]] = NoPkt
        BY <1>1, <3>1, <4>1, Zenon
      <4> QED
        BY <4>1, <4>2
  <2> QED
    BY <1>3, <2>1, <2>2
<1>6. PICK L : L = [p \in Pool |-> [k \in 1 .. Capacity |-> f[<<p, k>>]]]
  OBVIOUS
<1>7. \A p \in Pool : /\ L[p] \in Seq(Pkt) /\ Len(L[p]) = Capacity
                      /\ \A k \in 1 .. Capacity : L[p][k] = f[<<p, k>>]
  BY <1>3, <1>4, <1>6
<1>8. L \in [Pool -> Seq(Pkt)]
  BY <1>6, <1>7
<1>9. \A p \in Pool : Uncounted(p) = 0 /\ Untailed(p) = 0
  BY <1>2 DEF Uncounted, Untailed
<1>10. \A p \in Pool : head[p] = f[<<p, 1>>] /\ tail[p] = f[<<p, Capacity>>] /\ num[p] = Capacity
  BY <1>1, <1>2
<1>11. 1 \in 1 .. Capacity /\ Capacity \in 1 .. Capacity /\ Capacity - 0 = Capacity
       /\ \A k \in 1 .. Capacity : k < Capacity => k + 1 \in 1 .. Capacity
  BY <1>3
<1>12. ASSUME NEW p \in Pool
       PROVE  /\ Len(L[p]) = num[p] + Uncounted(p)
              /\ head[p] = L[p][1]
              /\ tail[p] = L[p][Len(L[p]) - Untailed(p)]
              /\ nextpkt[L[p][Len(L[p])]] = NoPkt
              /\ \A k \in 1 .. Len(L[p]) :
                   k < Len(L[p]) => nextpkt[L[p][k]] = L[p][k + 1]
  <2>1. Len(L[p]) = num[p] + Uncounted(p)
    <3>1. Len(L[p]) = Capacity /\ num[p] = Capacity /\ Uncounted(p) = 0
      BY <1>7, <1>9, <1>10
    <3>2. Capacity = Capacity + 0
      BY <1>3
    <3> QED
      BY <3>1, <3>2
  <2>2. head[p] = L[p][1] /\ tail[p] = L[p][Capacity]
    BY <1>7, <1>10, <1>11
  <2>3. Len(L[p]) - Untailed(p) = Capacity
    <3>1. Len(L[p]) = Capacity /\ Untailed(p) = 0
      BY <1>7, <1>9
    <3> QED
      BY <1>11, <3>1
  <2>4. ASSUME NEW k \in 1 .. Capacity
        PROVE  nextpkt[L[p][k]] = IF k < Capacity THEN L[p][k + 1] ELSE NoPkt
    <3>1. L[p][k] = f[<<p, k>>]
      BY <1>7
    <3>2. k < Capacity => L[p][k + 1] = f[<<p, k + 1>>]
      BY <1>7, <1>11
    <3> QED
      BY <1>5, <3>1, <3>2
  <2>5. Len(L[p]) = Capacity /\ ~(Capacity < Capacity)
    BY <1>3, <1>7
  <2> QED
    BY <1>11, <2>1, <2>2, <2>3, <2>4, <2>5
<1>13. \A p, r \in Pool : \A k \in 1 .. Len(L[p]), l \in 1 .. Len(L[r]) :
         L[p][k] = L[r][l] => p = r /\ k = l
  <2>1. ASSUME NEW p \in Pool, NEW r \in Pool, NEW k \in 1 .. Len(L[p]), NEW l \in 1 .. Len(L[r]),
               L[p][k] = L[r][l]
        PROVE  p = r /\ k = l
    <3>1. k \in 1 .. Capacity /\ l \in 1 .. Capacity
      BY <1>7
    <3>2. f[<<p, k>>] = f[<<r, l>>]
      BY <1>7, <2>1, <3>1
    <3>3. <<p, k>> \in Pool \X (1 .. Capacity) /\ <<r, l>> \in Pool \X (1 .. Capacity)
      BY <3>1
    <3>4. <<p, k>> = <<r, l>>
      BY <1>1, <3>2, <3>3, Zenon
    <3> QED
      BY <3>4
  <2> QED
    BY <2>1
<1>14. Lists(L)
  BY <1>2, <1>8, <1>12, <1>13 DEF Lists
<1>15. /\ head \in [Pool -> Pkt \cup {NoPkt}] /\ tail \in [Pool -> Pkt]
       /\ nextpkt \in [Pkt -> Pkt \cup {NoPkt}] /\ num \in [Pool -> 0 .. Capacity]
  <2>1. head \in [Pool -> Pkt \cup {NoPkt}] /\ tail \in [Pool -> Pkt]
    BY <1>1, <1>4, <1>11
  <2>2. nextpkt \in [Pkt -> Pkt \cup {NoPkt}]
    <3>1. ASSUME NEW q \in Pkt PROVE nextpkt[q] \in Pkt \cup {NoPkt}
      <4>1. CASE \E p \in Pool, i \in 1 .. Capacity - 1 : f[<<p, i>>] = q
        <5>1. PICK p \in Pool, i \in 1 .. Capacity - 1 : f[<<p, i>>] = q
          BY <4>1
        <5>2. i \in 1 .. Capacity /\ i < Capacity
          BY <1>3
        <5> QED
          BY <1>4, <1>5, <1>11, <5>1, <5>2
      <4>2. CASE ~ \E p \in Pool, i \in 1 .. Capacity - 1 : f[<<p, i>>] = q
        BY <1>1, <4>2
      <4> QED
        BY <4>1, <4>2
    <3> QED
      BY <1>1, <3>1
  <2> QED
    BY <1>2, <1>3, <2>1, <2>2
<1>16. PoolTypeOK
  BY <1>2, <1>3, <1>15 DEF PoolTypeOK
<1>17. IRefill /\ ScheduledRuns
  BY <1>2 DEF IRefill, ScheduledRuns
<1> QED
  BY <1>2, <1>3, <1>8, <1>14, <1>16, <1>17 DEF IPool

(* Every step keeps the invariant.                                          *)
LEMMA PoolStep ==
  IPool /\ [PoolNext]_poolVars => IPool'
<1> SUFFICES ASSUME IPool, [PoolNext]_poolVars PROVE IPool'
  OBVIOUS
<1>1. CASE UNCHANGED poolVars
  <2> USE DEF poolVars, listVars, getVars, refillVars
  <2>1. PoolTypeOK' /\ IRefill' /\ ScheduledRuns' /\ \A p \in Pool : num'[p] >= 1
    BY <1>1 DEF IPool, PoolTypeOK, IRefill, ScheduledRuns
  <2>2. \A p \in Pool : Uncounted(p)' = Uncounted(p) /\ Untailed(p)' = Untailed(p)
    BY <1>1 DEF Uncounted, Untailed
  <2> QED
    BY <1>1, <2>1, <2>2, LinksAlone
<1>2. CASE GetPacket
  BY <1>2, KeepsGetFromMemory, KeepsGetFromPool, KeepsGetUnlink, KeepsGetControl DEF GetPacket
<1>3. CASE Refill
  BY <1>3, KeepsRefillControl, KeepsRefillAlloc, KeepsRefillLink, KeepsRefillTail,
     KeepsRefillCount DEF Refill
<1>4. CASE \E m \in Pkt : StackFree(m)
  BY <1>4, KeepsStackFree
<1> QED
  BY <1>1, <1>2, <1>3, <1>4 DEF PoolNext

(* For any number of packets and every capacity: whatever getPacket and the *)
(* refill thread do at the same time, the lists stay whole, and no packet is *)
(* given away twice.                                                        *)
THEOREM PoolsStayIntact == PoolSpec => []ListsIntact
<1>1. PoolInit => IPool
  BY PoolsFilled
<1>2. IPool /\ [PoolNext]_poolVars => IPool'
  BY PoolStep
<1>3. IPool => ListsIntact
  BY PoolsIntact
<1> QED
  BY <1>1, <1>2, <1>3, PTL DEF PoolSpec

(* A refill that is marked as scheduled is on its way.                      *)
THEOREM RefillsRun == PoolSpec => []ScheduledRuns
<1>1. PoolInit => IPool
  BY PoolsFilled
<1>2. IPool /\ [PoolNext]_poolVars => IPool'
  BY PoolStep
<1>3. IPool => ScheduledRuns
  BY DEF IPool
<1> QED
  BY <1>1, <1>2, <1>3, PTL DEF PoolSpec
=============================================================================
