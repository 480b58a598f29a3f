------------------------------- MODULE RxPool -------------------------------
(***************************************************************************)
(* MausiRxPool: two reserves of packets, used when the kernel has no memory *)
(* for a new one.                                                           *)
(*                                                                         *)
(* Each is a singly linked list without a lock.  The work loop (getPacket)  *)
(* takes from its head, a thread call (refillPool) appends at its tail; they*)
(* meet only in the atomic counter and in the rule that the last packet is  *)
(* never taken.                                                              *)
(***************************************************************************)
EXTENDS Integers, FiniteSets

CONSTANTS
  Pkt, NoPkt,   (* Packets of the kernel's memory; NULL.                    *)
  Pool,         (* "mbuf" (filled first) and "clust".                       *)
  Capacity      (* mCapacity, cCapacity.                                    *)

(* mCapacity - (mCapacity >> 1).                                             *)
RefillTresh(p) == Capacity - Capacity \div 2

ASSUME PoolConstants ==
  /\ NoPkt \notin Pkt
  /\ Pool = {"mbuf", "clust"}
  /\ Capacity \in Nat \ {0} /\ Cardinality(Pkt) >= 2 * Capacity

VARIABLES
  head, tail, num,      (* xPktHead, xPktTail, xPktNum                      *)
  nextpkt,              (* mbuf_nextpkt                                     *)
  refillScheduled,
  out,                  (* packets in the hands of rxInterrupt or the stack *)
  getPc, getPool,       (* getPacket: where it is, for which pool           *)
  refillPc, refillPool, (* the thread call: where it is, which pool         *)
  refillPkt             (* refillPool's m                                   *)

listVars   == <<head, tail, num, nextpkt>>
getVars    == <<getPc, getPool>>
refillVars == <<refillPc, refillPool, refillPkt>>
poolVars == <<listVars, refillScheduled, out, getVars, refillVars>>

(* The packets from q on along nextpkt: those in every set that holds q and *)
(* with a packet the next one.                                               *)
Follows(S) == \A r \in S : nextpkt[r] \in S \cup {NoPkt}
Reach(q) == {r \in Pkt : \A S \in SUBSET Pkt :
                           q \in S \cup {NoPkt} /\ Follows(S) => r \in S}

Listed == UNION {Reach(head[p]) : p \in Pool}
FreeMemory == Pkt \ (Listed \cup out \cup {refillPkt})

(* initWithCapacity: both lists are filled to their capacity.                *)
PoolInit ==
  /\ \E f \in [Pool \X (1 .. Capacity) -> Pkt] :
       /\ \A x, y \in Pool \X (1 .. Capacity) : x # y => f[x] # f[y]
       /\ head = [p \in Pool |-> f[<<p, 1>>]]
       /\ tail = [p \in Pool |-> f[<<p, Capacity>>]]
       /\ nextpkt = [q \in Pkt |->
            IF \E p \in Pool, i \in 1 .. Capacity - 1 : f[<<p, i>>] = q
              THEN LET x == CHOOSE x \in Pool \X (1 .. Capacity - 1) : f[x] = q
                   IN  f[<<x[1], x[2] + 1>>]
              ELSE NoPkt]
  /\ num = [p \in Pool |-> Capacity]
  /\ refillScheduled = FALSE /\ out = {}
  /\ getPc = "idle" /\ getPool = "mbuf"
  /\ refillPc = "idle" /\ refillPool = "mbuf" /\ refillPkt = NoPkt

-----------------------------------------------------------------------------
(* getPacket, on the work loop.                                              *)

(* mbuf_allocpacket succeeds: the pool is not touched.                      *)
GetFromMemory(m) ==
  /\ getPc = "idle"
  /\ m \in FreeMemory
  /\ nextpkt' = [nextpkt EXCEPT ![m] = NoPkt]
  /\ out' = out \cup {m}
  /\ UNCHANGED <<head, tail, num, refillScheduled, getVars, refillVars>>

(* Mutant of GetFromPool: the last packet is taken, too.                    *)
GetLastFromPool(p) ==
  /\ getPc = "idle" /\ num[p] > 0
  /\ num' = [num EXCEPT ![p] = @ - 1]
  /\ getPc' = "unlink" /\ getPool' = p
  /\ UNCHANGED <<head, tail, nextpkt, refillScheduled, out, refillVars>>

(* It fails; there is more than one packet in the pool.                     *)
GetFromPool(p) ==
  /\ getPc = "idle" /\ num[p] > 1
  /\ num' = [num EXCEPT ![p] = @ - 1]
  /\ getPc' = "unlink" /\ getPool' = p
  /\ UNCHANGED <<head, tail, nextpkt, refillScheduled, out, refillVars>>

GetUnlink ==
  /\ getPc = "unlink"
  /\ head' = [head EXCEPT ![getPool] = nextpkt[head[getPool]]]
  /\ nextpkt' = [nextpkt EXCEPT ![head[getPool]] = NoPkt]
  /\ out' = out \cup {head[getPool]}
  /\ getPc' = "schedule"
  /\ UNCHANGED <<tail, num, refillScheduled, getPool, refillVars>>

GetSchedule ==
  /\ getPc = "schedule"
  /\ IF num[getPool] < RefillTresh(getPool) /\ ~refillScheduled
       THEN refillScheduled' = TRUE /\ getPc' = "enter"
       ELSE getPc' = "idle" /\ UNCHANGED refillScheduled
  /\ UNCHANGED <<listVars, out, getPool, refillVars>>

(* thread_call_enter_delayed.                                               *)
GetEnterThread ==
  /\ getPc = "enter" /\ refillPc = "idle"
  /\ refillPc' = "pending"
  /\ getPc' = "idle"
  /\ UNCHANGED <<listVars, refillScheduled, out, getPool, refillPool,
                 refillPkt>>

(* rxInterrupt's packet is freed by the network stack (external).           *)
StackFree(m) ==
  /\ m \in out
  /\ out' = out \ {m}
  /\ UNCHANGED <<listVars, refillScheduled, getVars, refillVars>>

-----------------------------------------------------------------------------
(* refillPool, on the thread call.                                           *)

RefillStart ==
  /\ refillPc = "pending"
  /\ refillPc' = "loop" /\ refillPool' = "mbuf"
  /\ UNCHANGED <<listVars, refillScheduled, out, getVars, refillPkt>>

RefillAlloc(m) ==
  /\ refillPc = "loop" /\ num[refillPool] < Capacity
  /\ m \in FreeMemory
  /\ nextpkt' = [nextpkt EXCEPT ![m] = NoPkt]
  /\ refillPkt' = m
  /\ refillPc' = "link"
  /\ UNCHANGED <<head, tail, num, refillScheduled, out, getVars, refillPool>>

(* The mbuf pool is full: on to the clusters.                               *)
RefillNextPool ==
  /\ refillPc = "loop" /\ num[refillPool] >= Capacity /\ refillPool = "mbuf"
  /\ refillPool' = "clust"
  /\ UNCHANGED <<listVars, refillScheduled, out, getVars, refillPc,
                 refillPkt>>

RefillLink ==
  /\ refillPc = "link"
  /\ nextpkt' = [nextpkt EXCEPT ![tail[refillPool]] = refillPkt]
  /\ refillPc' = "tail"
  /\ UNCHANGED <<head, tail, num, refillScheduled, out, getVars, refillPool,
                 refillPkt>>

RefillTail ==
  /\ refillPc = "tail"
  /\ tail' = [tail EXCEPT ![refillPool] = refillPkt]
  /\ refillPkt' = NoPkt
  /\ refillPc' = "count"
  /\ UNCHANGED <<head, num, nextpkt, refillScheduled, out, getVars,
                 refillPool>>

RefillCount ==
  /\ refillPc = "count"
  /\ num' = [num EXCEPT ![refillPool] = @ + 1]
  /\ refillPc' = "loop"
  /\ UNCHANGED <<head, tail, nextpkt, refillScheduled, out, getVars,
                 refillPool, refillPkt>>

(* Mutant of RefillDone: the flag is cleared only when both pools are full. *)
RefillDoneWhenFull ==
  /\ refillPc = "loop"
  /\ refillScheduled' = \E p \in Pool : num[p] < Capacity
  /\ refillPc' = "idle"
  /\ UNCHANGED <<listVars, out, getVars, refillPool, refillPkt>>

(* Both pools are full, or an allocation failed.                            *)
RefillDone ==
  /\ refillPc = "loop"
  /\ num[refillPool] < Capacity \/ refillPool = "clust"
  /\ refillScheduled' = FALSE
  /\ refillPc' = "idle"
  /\ UNCHANGED <<listVars, out, getVars, refillPool, refillPkt>>

GetPacket ==
  \/ \E m \in Pkt : GetFromMemory(m)
  \/ \E p \in Pool : GetFromPool(p)
  \/ GetUnlink \/ GetSchedule \/ GetEnterThread

Refill ==
  \/ RefillStart \/ \E m \in Pkt : RefillAlloc(m)
  \/ RefillNextPool \/ RefillLink \/ RefillTail \/ RefillCount \/ RefillDone

PoolNext == GetPacket \/ Refill \/ \E m \in Pkt : StackFree(m)

PoolSpec == PoolInit /\ [][PoolNext]_poolVars

-----------------------------------------------------------------------------
(* Properties.                                                              *)

PoolTypeOK ==
  /\ head \in [Pool -> Pkt \cup {NoPkt}] /\ tail \in [Pool -> Pkt]
  /\ num \in [Pool -> 0 .. Capacity]
  /\ nextpkt \in [Pkt -> Pkt \cup {NoPkt}]
  /\ refillScheduled \in BOOLEAN /\ out \subseteq Pkt
  /\ getPc \in {"idle", "unlink", "schedule", "enter"} /\ getPool \in Pool
  /\ refillPc \in {"idle", "pending", "loop", "link", "tail", "count"}
  /\ refillPool \in Pool /\ refillPkt \in Pkt \cup {NoPkt}

(* Packets the refill thread has linked to p but not counted yet, and the   *)
(* packet getPacket has uncounted but not unlinked yet.                      *)
Uncounted(p) ==
  (IF refillPool = p /\ refillPc \in {"tail", "count"} THEN 1 ELSE 0)
  + (IF getPool = p /\ getPc = "unlink" THEN 1 ELSE 0)

(* Each list leads from its head to its tail and holds exactly the counted  *)
(* packets; it never runs empty, so the two threads never meet at one packet.*)
(* No packet is in two lists, nor in a list and in somebody's hands: what   *)
(* getPacket returns belongs to its caller alone.                            *)
ListsIntact ==
  /\ \A p \in Pool :
       /\ head[p] # NoPkt /\ num[p] >= 1
       /\ tail[p] \in Reach(head[p])
       /\ Cardinality(Reach(head[p])) = num[p] + Uncounted(p)
  /\ Reach(head["mbuf"]) \cap Reach(head["clust"]) = {}
  /\ Listed \cap out = {}
  /\ \A m \in out : nextpkt[m] = NoPkt

(* The flag that keeps getPacket from scheduling a refill is set only while *)
(* one is on its way: a failed refill can be tried again.                    *)
ScheduledRuns ==
  refillScheduled => refillPc # "idle" \/ getPc = "enter"
=============================================================================
