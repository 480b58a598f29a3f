------------------------------ MODULE TxMapProofs ------------------------------
(***************************************************************************)
(* Packets and memory descriptors keep step, for rings, packets and numbers *)
(* of memory descriptors of every size, until a packet is posted that has no *)
(* mapping or is not recorded, and again when everything was cleared.        *)
(*                                                                         *)
(* Ring slots are ordered by their distance from the first used one, Off,    *)
(* memory descriptors by theirs from the next one to complete, MOff.         *)
(***************************************************************************)
EXTENDS TxMap, TLAPS

Dist(n, a, b) == IF a <= b THEN b - a ELSE b - a + n
Slots == 0 .. NumTxDesc - 1
Used  == NumTxDesc - txNumFreeDesc
Oldest == IF txNextDescIndex + txNumFreeDesc < NumTxDesc
           THEN txNextDescIndex + txNumFreeDesc
           ELSE txNextDescIndex + txNumFreeDesc - NumTxDesc
Off(i)  == Dist(NumTxDesc, Oldest, i)
MOff(m) == Dist(NumMemDesc, txNextMem2Free, m)

(* The oldest packet's mapping was completed, its memory descriptor counted;  *)
(* pkt has a memory descriptor.                                             *)
Completed == IF wlPc \in {"count", "free"} THEN 1 ELSE 0
Counted   == IF wlPc = "free" THEN 1 ELSE 0
HasMem    == outPc \in {"prepare", "post"} /\ pkt.mem # Unmapped
Taken     == IF HasMem THEN 1 ELSE 0

ITypes ==
  /\ txNextDescIndex \in Slots /\ txNumFreeDesc \in 2 .. NumTxDesc
  /\ txNextMem2Use \in Mem /\ txNextMem2Free \in Mem
  /\ txMemIO \in [Mem -> SUBSET Int]
  /\ posted \in Seq(Packet) /\ sent \in 0 .. Len(posted) /\ pkt \in Packet
  /\ outPc \in {"idle", "take", "prepare", "post"}
  /\ wlPc \in {"idle", "count", "free", "clear"}

(* Nothing is mapped while the ring is cleared; what is completed was sent.  *)
IControl ==
  /\ wlPc = "clear" => outPc = "idle" /\ sent = 0
  /\ Completed <= sent
  /\ outPc = "prepare" => pkt.mem \in Mem

Fits(p) == 1 <= p.segs /\ p.segs <= p.descs /\ p.descs <= MaxSegs + 1

(* Packets follow each other in the used part of the ring; the one that is   *)
(* being mapped has room behind them.                                        *)
IRing ==
  /\ \A k \in 1 .. Len(posted) :
       /\ Fits(posted[k])
       /\ Off(posted[k].first) + posted[k].descs <= Used
       /\ \A l \in 1 .. Len(posted) : k < l =>
            Off(posted[k].first) + posted[k].descs <= Off(posted[l].first)
  /\ outPc # "idle" =>
       Fits(pkt) /\ pkt.first = txNextDescIndex /\ txNumFreeDesc >= MaxSegs + 3

(* The mappings are taken in the order of the packets.                      *)
IMem ==
  /\ Len(posted) - Counted < NumMemDesc
  /\ outPc = "take" \/ HasMem => Len(posted) - Counted < NumMemDesc - 1
  /\ \A k \in 1 .. Len(posted) : posted[k].rec
  /\ txNumFreeMem = NumMemDesc - Len(posted) - Taken + Counted
  /\ \A k \in 1 .. Len(posted) : k > Completed =>
       posted[k].mem \in Mem /\ MOff(posted[k].mem) = k - 1 - Completed
  /\ MOff(txNextMem2Use) = Len(posted) - Completed + Taken
  /\ Taken = 1 => pkt.mem \in Mem /\ MOff(pkt.mem) = Len(posted) - Completed

(* Exactly the packets that were not completed are mapped.                  *)
IMap ==
  /\ \A k \in 1 .. Len(posted) : k > Completed => txMemIO[posted[k].mem] = Ranges(posted[k])
  /\ outPc = "post" /\ HasMem => txMemIO[pkt.mem] = Ranges(pkt)
  /\ \A m \in Mem :
       \/ txMemIO[m] = {}
       \/ outPc = "post" /\ m = pkt.mem
       \/ \E k \in 1 .. Len(posted) : k > Completed /\ m = posted[k].mem

Paired == ITypes /\ IControl /\ IRing /\ IMem /\ IMap

IInv == TypeOK /\ IControl /\ (~unpaired => Paired)

-------------------------------------------------------------------------------
LEMMA Sizes ==
  /\ NumTxDesc \in Nat /\ NumTxDesc > 0 /\ MaxSegs \in Nat /\ NumTxDesc > MaxSegs + 3
  /\ NumMemDesc \in Nat /\ NumMemDesc > 1
  /\ 0 \in Slots /\ 0 \in Mem
  BY MapConstants DEF Slots, Mem

LEMMA DistFacts ==
  ASSUME NEW n \in Nat, n > 0, NEW a \in 0 .. n - 1, NEW b \in 0 .. n - 1, NEW c \in 0 .. n - 1
  PROVE  /\ Dist(n, a, b) \in 0 .. n - 1
         /\ Dist(n, a, a) = 0
         /\ Dist(n, a, b) = Dist(n, a, c) => b = c
  BY DEF Dist

LEMMA NextMem ==
  ASSUME NEW i \in Mem
  PROVE  Next1(i) = (IF i = NumMemDesc - 1 THEN 0 ELSE i + 1) /\ Next1(i) \in Mem
  BY Sizes DEF Mem, Next1

(* The next memory descriptor is one further ...                            *)
LEMMA MemAhead ==
  ASSUME NEW f \in Mem, NEW i \in Mem, Dist(NumMemDesc, f, i) < NumMemDesc - 1
  PROVE  Dist(NumMemDesc, f, Next1(i)) = Dist(NumMemDesc, f, i) + 1
  BY Sizes, NextMem DEF Mem, Dist

(* ... and when the first one moves the others get nearer.                   *)
LEMMA MemNearer ==
  ASSUME NEW f \in Mem, NEW i \in Mem, Dist(NumMemDesc, f, i) # 0
  PROVE  Dist(NumMemDesc, Next1(f), i) = Dist(NumMemDesc, f, i) - 1
  BY Sizes, NextMem DEF Mem, Dist

LEMMA FirstMem ==
  ASSUME ITypes, NEW m \in Mem
  PROVE  MOff(m) \in Nat /\ (MOff(m) = 0 <=> m = txNextMem2Free)
  BY Sizes DEF ITypes, MOff, Dist, Mem

LEMMA RingFacts ==
  ASSUME ITypes
  PROVE  /\ Oldest \in Slots /\ Used \in 0 .. NumTxDesc - 2
         /\ Off(txNextDescIndex) = Used
         /\ \A i \in Slots : Off(i) \in 0 .. NumTxDesc - 1
  BY Sizes DEF ITypes, Oldest, Used, Off, Dist, Slots

LEMMA PacketFacts ==
  ASSUME ITypes
  PROVE  /\ Len(posted) \in Nat
         /\ \A k \in 1 .. Len(posted) :
              /\ posted[k] \in Packet /\ posted[k].first \in Slots
              /\ posted[k].segs \in Nat /\ posted[k].descs \in Nat
         /\ pkt.first \in Slots /\ pkt.segs \in Nat /\ pkt.descs \in Nat
<1>1. ASSUME NEW p \in Packet PROVE p.first \in Slots /\ p.segs \in Nat /\ p.descs \in Nat
  BY Sizes DEF Packet, Slots
<1>2. Len(posted) \in Nat /\ pkt \in Packet /\ \A k \in 1 .. Len(posted) : posted[k] \in Packet
  BY DEF ITypes
<1>3. QED BY <1>1, <1>2

(* Steps that leave ring, memory descriptors and their packets alone.        *)
LEMMA SameRing ==
  ASSUME Paired, UNCHANGED <<txNextDescIndex, txNumFreeDesc, posted>>,
         outPc' # "idle" => UNCHANGED pkt /\ outPc # "idle"
  PROVE  IRing'
<1>1. Used' = Used /\ \A i : Off(i)' = Off(i)
  BY DEF Used, Off, Oldest
<1>2. QED BY <1>1 DEF Paired, IRing, Fits

-------------------------------------------------------------------------------
LEMMA Starts == Init => IInv
<1>1. ASSUME Init PROVE IInv
  <2>1. posted = <<>> /\ Len(posted) = 0 /\ sent = 0 /\ outPc = "idle" /\ wlPc = "idle" /\ pkt = NoPkt
        /\ txNumFreeDesc = NumTxDesc /\ txNextDescIndex = 0 /\ txNumFreeMem = NumMemDesc
        /\ txNextMem2Use = 0 /\ txNextMem2Free = 0 /\ txMemIO = [k \in Mem |-> {}]
    BY <1>1 DEF Init
  <2>2. pkt \in Packet /\ posted \in Seq(Packet)
    BY <2>1, Sizes DEF NoPkt, Packet, Unmapped
  <2>3. unpaired \in BOOLEAN
    BY <1>1, Zenon DEF Init
  <2>4. TypeOK
    BY <2>1, <2>2, <2>3, Sizes DEF TypeOK
  <2>5. ITypes
    BY <2>1, <2>2, Sizes DEF ITypes
  <2>6. Completed = 0 /\ Taken = 0 /\ ~HasMem /\ MOff(0) = 0
    BY <2>1, Sizes DEF Completed, Taken, HasMem, MOff, Dist
  <2>7. IMem
    BY <2>1, <2>6, Sizes DEF IMem, Counted
  <2>8. IControl /\ IRing /\ IMap
    BY <2>1, <2>6, Sizes DEF IControl, IRing, IMap
  <2>9. QED BY <2>4, <2>5, <2>7, <2>8 DEF IInv, Paired
<1>2. QED BY <1>1

(* outputStart dequeues a packet, to be mapped if memory descriptors are left. *)
LEMMA BeginKeeps ==
  ASSUME Paired, NEW segs \in 1 .. MaxSegs, NEW ctx \in {0, 1}, NEW tso \in BOOLEAN,
         MapBegin(segs, ctx, tso), TypeOK'
  PROVE  Paired'
<1>1. /\ outPc = "idle" /\ wlPc # "clear" /\ txNumFreeDesc >= MaxSegs + 3
      /\ pkt'.first = txNextDescIndex /\ pkt'.segs = segs /\ pkt'.descs = segs + ctx
      /\ pkt'.mem = Unmapped
      /\ outPc' = IF txNumFreeMem > 1 THEN "take" ELSE "post"
      /\ UNCHANGED <<txNextDescIndex, txNumFreeDesc, txNextMem2Use, txNextMem2Free,
                     txNumFreeMem, txMemIO, posted, sent, wlPc>>
  BY DEF MapBegin, memVars
<1>2. Taken = 0 /\ Taken' = 0 /\ ~HasMem' /\ Completed' = Completed
  BY <1>1 DEF Taken, HasMem, Completed
<1>3. outPc' = "take" => Len(posted) - Counted < NumMemDesc - 1
  <2>1. outPc' = "take" => txNumFreeMem > 1
    BY <1>1
  <2>2. txNumFreeMem = NumMemDesc - Len(posted) - 0 + Counted
    BY <1>2 DEF Paired, IMem
  <2>3. Len(posted) \in Nat /\ Counted \in {0, 1}
    BY PacketFacts DEF Paired, Counted
  <2>4. QED BY <2>1, <2>2, <2>3, Sizes
<1>4. ITypes' /\ IControl'
  <2>1. pkt' \in Packet
    BY DEF TypeOK
  <2>2. ITypes'
    BY <1>1, <2>1 DEF Paired, ITypes
  <2>3. QED BY <1>1, <1>2, <2>2 DEF Paired, IControl
<1>5. IRing'
  <2>1. Used' = Used /\ \A i : Off(i)' = Off(i)
    BY <1>1 DEF Used, Off, Oldest
  <2>2. Fits(pkt')
    BY <1>1, Sizes DEF Fits
  <2>3. QED BY <1>1, <2>1, <2>2 DEF Paired, IRing, Fits
<1>6. IMem' /\ IMap'
  <2>1. \A m : MOff(m)' = MOff(m)
    BY <1>1 DEF MOff
  <2>2. IMem'
    BY <1>1, <1>2, <1>3, <2>1 DEF Paired, IMem, Counted
  <2>3. IMap'
    BY <1>1, <1>2 DEF Paired, IMap
  <2>4. QED BY <2>2, <2>3
<1>7. QED BY <1>4, <1>5, <1>6 DEF Paired

LEMMA TakeKeeps == ASSUME Paired, MapTake, TypeOK' PROVE Paired'
<1>1. /\ outPc = "take" /\ outPc' = "prepare" /\ txNumFreeMem' = txNumFreeMem - 1
      /\ pkt' = [pkt EXCEPT !.mem = txNextMem2Use] /\ txNextMem2Use' = Next1(txNextMem2Use)
      /\ UNCHANGED <<txNextDescIndex, txNumFreeDesc, txNextMem2Free, txMemIO, posted, sent, wlPc>>
  BY DEF MapTake
<1>3. txNextMem2Use \in Mem /\ Next1(txNextMem2Use) \in Mem /\ txNextMem2Free \in Mem
  BY NextMem DEF Paired, ITypes
<1>4. /\ pkt' \in Packet /\ pkt'.mem = txNextMem2Use /\ txNextMem2Use # Unmapped
      /\ pkt'.first = pkt.first /\ pkt'.segs = pkt.segs /\ pkt'.descs = pkt.descs
  <2>1. pkt' \in Packet
    BY DEF TypeOK
  <2>2. pkt \in Packet
    BY DEF Paired, ITypes
  <2>3. txNextMem2Use # Unmapped
    BY <1>3, Sizes DEF Mem, Unmapped
  <2>4. QED BY <1>1, <2>1, <2>2, <2>3 DEF Packet
<1>2. Taken = 0 /\ Taken' = 1 /\ HasMem' /\ Completed' = Completed /\ Completed \in {0, 1}
  BY <1>1, <1>4 DEF Taken, HasMem, Completed
<1>5. ITypes' /\ IControl'
  BY <1>1, <1>2, <1>3, <1>4 DEF Paired, ITypes, IControl
<1>6. IRing'
  <2>1. Used' = Used /\ \A i : Off(i)' = Off(i)
    BY <1>1 DEF Used, Off, Oldest
  <2>2. QED BY <1>1, <1>4, <2>1 DEF Paired, IRing, Fits
<1>7. IMem'
  <2>1. \A m : MOff(m)' = MOff(m)
    BY <1>1 DEF MOff
  <2>2. MOff(txNextMem2Use) = Len(posted) - Completed /\ Len(posted) - Counted < NumMemDesc - 1
        /\ Len(posted) \in Nat /\ Counted <= Completed /\ Counted \in {0, 1}
    BY <1>1, <1>2, PacketFacts DEF Paired, IMem, Counted, Completed
  <2>3. MOff(Next1(txNextMem2Use)) = Len(posted) - Completed + 1
    BY <1>2, <1>3, <2>2, MemAhead, Sizes DEF MOff
  <2>4. txNumFreeMem' = NumMemDesc - Len(posted) - 1 + Counted
    BY <1>1, <1>2, <2>2, Sizes DEF Paired, IMem
  <2>5. QED BY <1>1, <1>2, <1>3, <1>4, <2>1, <2>2, <2>3, <2>4 DEF Paired, IMem, Counted
<1>8. IMap'
  BY <1>1, <1>2 DEF Paired, IMap
<1>9. QED BY <1>5, <1>6, <1>7, <1>8 DEF Paired

(* The memory descriptor of the packet belongs to none in the ring.          *)
LEMMA OwnMem ==
  ASSUME Paired, Taken = 1
  PROVE  /\ pkt.mem \in Mem
         /\ \A k \in 1 .. Len(posted) : k > Completed => posted[k].mem # pkt.mem
<1>1. pkt.mem \in Mem /\ MOff(pkt.mem) = Len(posted) - Completed
  BY DEF Paired, IMem, Counted
<1>2. ASSUME NEW k \in 1 .. Len(posted), k > Completed, posted[k].mem = pkt.mem PROVE FALSE
  <2>1. MOff(pkt.mem) = k - 1 - Completed
    BY <1>2 DEF Paired, IMem, Counted
  <2>2. QED BY <1>1, <2>1, PacketFacts DEF Paired, Completed
<1>3. QED BY <1>1, <1>2

LEMMA PrepareKeeps == ASSUME Paired, MapPrepare PROVE Paired'
<1>1. /\ outPc = "prepare" /\ outPc' = "post" /\ txMemIO' = [txMemIO EXCEPT ![pkt.mem] = Ranges(pkt)]
      /\ UNCHANGED <<txNextDescIndex, txNumFreeDesc, txNextMem2Use, txNextMem2Free,
                     txNumFreeMem, posted, sent, pkt, wlPc>>
  BY DEF MapPrepare
<1>2. Taken = 1 /\ Taken' = 1 /\ HasMem /\ HasMem' /\ Completed' = Completed
  BY <1>1, Sizes DEF Taken, HasMem, Completed, Paired, IControl, Mem, Unmapped
<1>3. /\ pkt.mem \in Mem /\ txMemIO \in [Mem -> SUBSET Int] /\ Ranges(pkt) \subseteq Int
      /\ \A k \in 1 .. Len(posted) : k > Completed => posted[k].mem \in Mem /\ posted[k].mem # pkt.mem
  BY <1>2, OwnMem, PacketFacts, Sizes DEF Paired, ITypes, IMem, Counted, Ranges, Slots
<1>4. ITypes' /\ IControl'
  BY <1>1, <1>2, <1>3 DEF Paired, ITypes, IControl
<1>5. IRing'
  BY <1>1, SameRing
<1>6. IMem'
  BY <1>1, <1>2 DEF Paired, IMem, Counted, MOff
<1>7. IMap'
  <2>1. txMemIO'[pkt.mem] = Ranges(pkt) /\ \A m \in Mem \ {pkt.mem} : txMemIO'[m] = txMemIO[m]
    BY <1>1, <1>3
  <2>2. \A k \in 1 .. Len(posted) : k > Completed => txMemIO'[posted[k].mem] = Ranges(posted[k])
    BY <1>3, <2>1 DEF Paired, IMap
  <2>3. \A m \in Mem \ {pkt.mem} :
          txMemIO[m] = {} \/ \E k \in 1 .. Len(posted) : k > Completed /\ m = posted[k].mem
    BY <1>1 DEF Paired, IMap
  <2>4. QED BY <1>1, <1>2, <2>1, <2>2, <2>3 DEF IMap, Ranges
<1>8. QED BY <1>4, <1>5, <1>6, <1>7 DEF Paired

LEMMA FailKeeps == ASSUME Paired, MapFail, TypeOK' PROVE Paired'
<1>1. /\ outPc = "prepare" /\ outPc' = "idle" /\ pkt' = NoPkt
      /\ txNextMem2Use' = pkt.mem /\ txNumFreeMem' = txNumFreeMem + 1
      /\ UNCHANGED <<txNextDescIndex, txNumFreeDesc, txNextMem2Free, txMemIO, posted, sent, wlPc>>
  BY DEF MapFail
<1>2. Taken = 1 /\ Taken' = 0 /\ ~HasMem' /\ Completed' = Completed /\ Completed \in {0, 1}
  BY <1>1, Sizes DEF Taken, HasMem, Completed, Paired, IControl, Mem, Unmapped
<1>3. pkt.mem \in Mem /\ MOff(pkt.mem) = Len(posted) - Completed /\ Len(posted) \in Nat
  BY <1>2, PacketFacts DEF Paired, IMem, Counted
<1>4. ITypes' /\ IControl'
  <2>1. pkt' \in Packet
    BY DEF TypeOK
  <2>2. QED BY <1>1, <1>2, <1>3, <2>1 DEF Paired, ITypes, IControl
<1>5. IRing'
  BY <1>1, SameRing
<1>6. IMem'
  <2>1. \A m : MOff(m)' = MOff(m)
    BY <1>1 DEF MOff
  <2>2. txNumFreeMem' = NumMemDesc - Len(posted) - 0 + Counted
    BY <1>1, <1>2, <1>3, Sizes DEF Paired, IMem, Counted
  <2>3. MOff(pkt.mem) = Len(posted) - Completed + 0
    BY <1>2, <1>3
  <2>4. QED BY <1>1, <1>2, <2>1, <2>2, <2>3 DEF Paired, IMem, Counted
<1>7. IMap'
  BY <1>1, <1>2 DEF Paired, IMap
<1>8. QED BY <1>4, <1>5, <1>6, <1>7 DEF Paired

(* Descriptors that are taken leave the first used slot where it is.         *)
LEMMA RingGrows ==
  ASSUME ITypes, NEW d \in Nat, d + 2 <= txNumFreeDesc,
         txNumFreeDesc' = txNumFreeDesc - d, txNextDescIndex' = (txNextDescIndex + d) % NumTxDesc
  PROVE  /\ Oldest' = Oldest /\ Used' = Used + d
         /\ txNumFreeDesc' \in 2 .. NumTxDesc /\ txNextDescIndex' \in Slots
<1>1. txNextDescIndex \in Slots /\ txNumFreeDesc \in 2 .. NumTxDesc
  BY DEF ITypes
<1>2. txNextDescIndex' = IF txNextDescIndex + d < NumTxDesc THEN txNextDescIndex + d
                                                      ELSE txNextDescIndex + d - NumTxDesc
  BY <1>1, Sizes DEF Slots
<1>3. QED BY <1>1, <1>2, Sizes DEF Oldest, Used, Slots

(* A packet with a mapping goes into the ring, behind the others.           *)
LEMMA PostKeeps == ASSUME Paired, Post, TypeOK', pkt.mem # Unmapped, pkt.rec PROVE Paired'
<1> DEFINE n == Len(posted)
<1>1. /\ outPc = "post" /\ outPc' = "idle" /\ pkt' = NoPkt
      /\ txNumFreeDesc' = txNumFreeDesc - pkt.descs
      /\ txNextDescIndex' = (txNextDescIndex + pkt.descs) % NumTxDesc
      /\ posted' = Append(posted, pkt)
      /\ UNCHANGED <<txNextMem2Use, txNextMem2Free, txNumFreeMem, txMemIO, sent, wlPc>>
  BY DEF Post, memVars
<1>2. Taken = 1 /\ HasMem /\ Taken' = 0 /\ ~HasMem' /\ Completed' = Completed /\ Completed \in {0, 1}
  BY <1>1 DEF Taken, HasMem, Completed
<1>3. /\ posted \in Seq(Packet) /\ pkt \in Packet /\ n \in Nat
      /\ posted' \in Seq(Packet) /\ Len(posted') = n + 1 /\ posted'[n + 1] = pkt
      /\ \A k \in 1 .. n : posted'[k] = posted[k]
  BY <1>1 DEF Paired, ITypes
<1>4. /\ Fits(pkt) /\ pkt.first = txNextDescIndex /\ pkt.descs \in Nat /\ pkt.descs <= MaxSegs + 1
      /\ txNumFreeDesc \in 2 .. NumTxDesc /\ txNumFreeDesc >= MaxSegs + 3 /\ txNextDescIndex \in Slots
      /\ pkt.segs \in Nat
  BY <1>1, PacketFacts DEF Paired, ITypes, IRing, Fits
<1>5. /\ Oldest' = Oldest /\ Used' = Used + pkt.descs
      /\ txNumFreeDesc' \in 2 .. NumTxDesc /\ txNextDescIndex' \in Slots
  <2>1. pkt.descs + 2 <= txNumFreeDesc
    BY <1>4, Sizes
  <2>2. QED BY <1>1, <1>4, <2>1, RingGrows DEF Paired
<1>7. \A i : Off(i)' = Off(i)
  BY <1>5 DEF Off
<1>8. ITypes' /\ IControl'
  <2>2. pkt' \in Packet
    BY DEF TypeOK
  <2>3. sent' \in 0 .. Len(posted')
    BY <1>1, <1>3 DEF Paired, ITypes
  <2>4. ITypes'
    BY <1>1, <1>3, <1>5, <2>2, <2>3 DEF Paired, ITypes
  <2>5. QED BY <1>1, <1>2, <2>4 DEF Paired, IControl
<1>9. IRing'
  <2>1. Off(pkt.first) = Used /\ Used \in Nat
    BY <1>4, RingFacts, Sizes DEF Paired
  <2>2. \A k \in 1 .. n + 1 : Fits(posted'[k])
    <3>1. \A k \in 1 .. n : Fits(posted[k])
      BY DEF Paired, IRing
    <3>2. Fits(posted'[n + 1]) /\ \A k \in 1 .. n : Fits(posted'[k])
      BY <1>3, <1>4, <3>1
    <3> HIDE DEF n
    <3>3. QED BY <1>3, <3>2
  <2>3. ASSUME NEW k \in 1 .. n
        PROVE  /\ Off(posted[k].first) + posted[k].descs <= Used + pkt.descs
               /\ Off(posted[k].first) + posted[k].descs <= Off(pkt.first)
    <3>1. Off(posted[k].first) + posted[k].descs <= Used
      BY DEF Paired, IRing
    <3>2. Off(posted[k].first) \in Int /\ posted[k].descs \in Int
      BY PacketFacts, RingFacts, Sizes DEF Paired
    <3>3. QED BY <2>1, <3>1, <3>2, <1>4
  <2>5. \A k \in 1 .. n + 1 : Off(posted'[k].first) + posted'[k].descs <= Used'
    <3>1. ASSUME NEW k \in 1 .. n + 1
          PROVE  Off(posted'[k].first) + posted'[k].descs <= Used + pkt.descs
      <4>1. k = n + 1 \/ k \in 1 .. n
        BY <1>3
      <4>2. QED BY <4>1, <2>1, <2>3, <1>3, <1>4
    <3>2. QED BY <3>1, <1>5
  <2>6. ASSUME NEW k \in 1 .. n + 1, NEW l \in 1 .. n + 1, k < l
        PROVE  Off(posted'[k].first) + posted'[k].descs <= Off(posted'[l].first)
    <3>1. k \in 1 .. n
      BY <2>6, <1>3
    <3>2. CASE l = n + 1
      BY <3>1, <3>2, <2>3, <1>3
    <3>3. CASE l # n + 1
      <4>1. l \in 1 .. n
        BY <3>3, <1>3
      <4>2. QED BY <3>1, <4>1, <2>6, <1>3 DEF Paired, IRing
    <3>4. QED BY <3>2, <3>3
  <2> HIDE DEF n
  <2>7. QED BY <1>1, <1>3, <1>7, <2>2, <2>5, <2>6 DEF IRing, Fits
<1>10. IMem'
  <2>1. \A m : MOff(m)' = MOff(m)
    BY <1>1 DEF MOff
  <2>2. /\ pkt.mem \in Mem /\ MOff(pkt.mem) = n - Completed /\ n - Counted < NumMemDesc - 1
        /\ txNumFreeMem = NumMemDesc - n - 1 + Counted
        /\ MOff(txNextMem2Use) = n - Completed + 1
    BY <1>1, <1>2 DEF Paired, IMem
  <2>7. Counted \in {0, 1} /\ Counted' = Counted
    BY <1>1 DEF Counted
  <2>3. /\ n + 1 - Counted < NumMemDesc
        /\ txNumFreeMem = NumMemDesc - (n + 1) - 0 + Counted
        /\ MOff(txNextMem2Use) = n + 1 - Completed + 0
        /\ MOff(pkt.mem) = n + 1 - 1 - Completed
    BY <2>2, <2>7, <1>2, <1>3, Sizes
  <2>6. \A k \in 1 .. n + 1 : posted'[k].rec
    <3>1. \A k \in 1 .. n : posted'[k].rec
      BY <1>3 DEF Paired, IMem, Counted
    <3>2. \A k \in 1 .. n + 1 : k \in 1 .. n \/ k = n + 1
      BY <1>3
    <3>3. QED BY <1>3, <3>1, <3>2, Zenon
  <2>4. \A k \in 1 .. n + 1 : k > Completed =>
          posted'[k].mem \in Mem /\ MOff(posted'[k].mem) = k - 1 - Completed
    BY <2>2, <2>3, <1>3 DEF Paired, IMem, Counted
  <2> HIDE DEF n
  <2>8. ~(outPc = "take" \/ HasMem)'
    BY <1>1, <1>2
  <2>9. (Taken = 0)'
    BY <1>2
  <2>5. QED BY <1>1, <1>2, <1>3, <2>1, <2>3, <2>4, <2>6, <2>7, <2>8, <2>9 DEF IMem
<1>11. IMap'
  <2>1. ASSUME NEW k \in 1 .. n + 1, k > Completed
        PROVE  txMemIO[posted'[k].mem] = Ranges(posted'[k])
    <3>1. CASE k = n + 1
      BY <3>1, <1>1, <1>2, <1>3 DEF Paired, IMap
    <3>2. CASE k \in 1 .. n
      BY <3>2, <2>1, <1>3 DEF Paired, IMap
    <3>3. QED BY <3>1, <3>2, <1>3
  <2>2. ASSUME NEW m \in Mem, txMemIO[m] # {}
        PROVE  \E k \in 1 .. n + 1 : k > Completed /\ m = posted'[k].mem
    <3>1. CASE m = pkt.mem
      <4>1. n + 1 > Completed
        <5>1. Completed <= n
          BY <1>2, <1>3 DEF Paired, IControl, ITypes
        <5>2. QED BY <5>1, <1>2, <1>3
      <4>2. QED BY <4>1, <3>1, <1>3
    <3>2. CASE m # pkt.mem
      <4>1. PICK k \in 1 .. n : k > Completed /\ m = posted[k].mem
        BY <2>2, <3>2 DEF Paired, IMap
      <4>2. k \in 1 .. n + 1 /\ posted'[k] = posted[k]
        BY <1>3
      <4>3. QED BY <4>1, <4>2
    <3>3. QED BY <3>1, <3>2
  <2> HIDE DEF n
  <2>3. QED BY <1>1, <1>2, <1>3, <2>1, <2>2 DEF IMap, Ranges
<1>12. QED BY <1>8, <1>9, <1>10, <1>11 DEF Paired

-------------------------------------------------------------------------------
(* The oldest packet's mapping is completed.                                *)
LEMMA CompleteKeeps == ASSUME Paired, UnmapComplete PROVE Paired'
<1> DEFINE n == Len(posted)
<1>1. /\ wlPc = "idle" /\ wlPc' = "count" /\ sent > 0
      /\ txMemIO' = [txMemIO EXCEPT ![txNextMem2Free] = {}]
      /\ txNextMem2Free' = Next1(txNextMem2Free)
      /\ UNCHANGED <<txNextDescIndex, txNumFreeDesc, txNextMem2Use, txNumFreeMem,
                     posted, sent, pkt, outPc>>
  BY DEF UnmapComplete
<1>2. Taken' = Taken /\ HasMem' = HasMem /\ Taken \in {0, 1} /\ Completed = 0 /\ Completed' = 1
  BY <1>1 DEF Taken, HasMem, Completed
<1>3. /\ txNextMem2Free \in Mem /\ txNextMem2Use \in Mem /\ Next1(txNextMem2Free) \in Mem
      /\ txMemIO \in [Mem -> SUBSET Int] /\ n \in Nat /\ n >= 1
  BY <1>1, NextMem, PacketFacts DEF Paired, ITypes
<1>4. ITypes' /\ IControl'
  BY <1>1, <1>2, <1>3 DEF Paired, ITypes, IControl
<1>5. IRing'
  BY <1>1, SameRing
<1>6. ASSUME NEW m \in Mem, MOff(m) # 0 PROVE MOff(m)' = MOff(m) - 1
  BY <1>1, <1>3, <1>6, MemNearer DEF MOff
<1>7. IMem'
  <2>1. MOff(txNextMem2Use) = n + Taken /\ MOff(txNextMem2Use)' = n - 1 + Taken
    <3>1. MOff(txNextMem2Use) = n - 0 + Taken
      BY <1>2 DEF Paired, IMem, Counted
    <3>2. MOff(txNextMem2Use) = n + Taken /\ MOff(txNextMem2Use) # 0
      BY <3>1, <1>2, <1>3
    <3>3. MOff(txNextMem2Use)' = n + Taken - 1
      <4>1. PICK m \in Mem : m = txNextMem2Use
        BY <1>3
      <4>2. MOff(m) = n + Taken /\ MOff(m) # 0
        BY <4>1, <3>2
      <4>3. MOff(m)' = MOff(m) - 1
        BY <4>2, <1>6
      <4>4. MOff(txNextMem2Use)' = MOff(m)'
        BY <4>1, <1>1 DEF MOff
      <4>5. QED BY <4>2, <4>3, <4>4, <1>2, <1>3
    <3>4. QED BY <3>2, <3>3, <1>2, <1>3
  <2>2. ASSUME NEW k \in 1 .. n, k > 1
        PROVE  posted[k].mem \in Mem /\ MOff(posted[k].mem)' = k - 1 - 1
    <3>1. posted[k].mem \in Mem /\ MOff(posted[k].mem) = k - 1 - 0
      BY <2>2, <1>2 DEF Paired, IMem, Counted
    <3>2. QED BY <3>1, <2>2, <1>1, <1>6
  <2>3. Taken = 1 => pkt.mem \in Mem /\ MOff(pkt.mem)' = n - 1
    <3>1. Taken = 1 => pkt.mem \in Mem /\ MOff(pkt.mem) = n - 0
      BY <1>2 DEF Paired, IMem, Counted
    <3>2. QED BY <3>1, <1>1, <1>3, <1>6
  <2> HIDE DEF n
  <2>5. QED BY <1>1, <1>2, <1>3, <2>1, <2>2, <2>3 DEF Paired, IMem, Counted, MOff, n
<1>8. IMap'
  <2>1. txMemIO'[txNextMem2Free] = {} /\ \A m \in Mem \ {txNextMem2Free} : txMemIO'[m] = txMemIO[m]
    BY <1>1, <1>3
  <2>2. MOff(txNextMem2Free) = 0
    BY <1>3, FirstMem DEF Paired
  <2>3. posted[1].mem = txNextMem2Free
    <3>1. posted[1].mem \in Mem /\ MOff(posted[1].mem) = 0
      <4>1. 1 \in 1 .. n /\ 1 - 1 - 0 = 0
        BY <1>3
      <4>2. QED BY <4>1, <1>2 DEF Paired, IMem, Counted
    <3>2. QED BY <3>1, FirstMem DEF Paired
  <2>4. \A k \in 1 .. n : k > 1 => posted[k].mem \in Mem /\ posted[k].mem # txNextMem2Free
    <3>1. ASSUME NEW k \in 1 .. n, k > 1 PROVE posted[k].mem \in Mem /\ MOff(posted[k].mem) = k - 1 - 0
      BY <3>1, <1>2, <1>3 DEF Paired, IMem, Counted
    <3>2. QED BY <3>1, <2>2
  <2>5. outPc = "post" /\ HasMem => pkt.mem \in Mem /\ pkt.mem # txNextMem2Free
    <3>1. outPc = "post" /\ HasMem => pkt.mem \in Mem /\ MOff(pkt.mem) = n - 0
      BY <1>2 DEF Paired, IMem, Counted, Taken, HasMem
    <3>2. QED BY <3>1, <2>2, <1>3
  <2>6. ASSUME NEW m \in Mem, m # txNextMem2Free, txMemIO[m] # {}
        PROVE  (outPc = "post" /\ m = pkt.mem) \/ \E k \in 1 .. n : k > 1 /\ m = posted[k].mem
    <3>1. (outPc = "post" /\ m = pkt.mem) \/ \E k \in 1 .. n : k > 0 /\ m = posted[k].mem
      BY <2>6, <1>2 DEF Paired, IMap
    <3>2. \A k \in 1 .. n : k > 1 \/ k = 1
      BY <1>3
    <3>3. QED BY <3>1, <3>2, <2>3, <2>6
  <2>7. \A k \in 1 .. n : k > 1 => txMemIO[posted[k].mem] = Ranges(posted[k])
    BY <1>2 DEF Paired, IMap
  <2>8. outPc = "post" /\ HasMem => txMemIO[pkt.mem] = Ranges(pkt)
    BY DEF Paired, IMap
  <2> HIDE DEF n
  <2>9. QED BY <1>1, <1>2, <2>1, <2>4, <2>5, <2>6, <2>7, <2>8 DEF IMap, Ranges, n
<1>9. QED BY <1>4, <1>5, <1>7, <1>8 DEF Paired

(* Its memory descriptor is free again.                                     *)
LEMMA CountKeeps == ASSUME Paired, UnmapCount PROVE Paired'
<1>1. /\ wlPc = "count" /\ wlPc' = "free" /\ txNumFreeMem' = txNumFreeMem + 1
      /\ UNCHANGED <<txNextDescIndex, txNumFreeDesc, txNextMem2Use, txNextMem2Free,
                     txMemIO, posted, sent, pkt, outPc>>
  BY DEF UnmapCount
<1>2. Taken' = Taken /\ HasMem' = HasMem /\ Completed' = Completed /\ Taken \in {0, 1} /\ Len(posted) \in Nat
  BY <1>1, PacketFacts DEF Taken, HasMem, Completed, Paired
<1>3. txNumFreeMem' = NumMemDesc - Len(posted) - Taken + 1
  <2>1. txNumFreeMem = NumMemDesc - Len(posted) - Taken + 0
    BY <1>1 DEF Paired, IMem, Counted
  <2>2. QED BY <2>1, <1>1, <1>2, Sizes
<1>4. ITypes' /\ IControl' /\ IMap'
  BY <1>1, <1>2 DEF Paired, ITypes, IControl, IMap
<1>5. IMem'
  <2>1. Counted = 0 /\ Counted' = 1 /\ \A m : MOff(m)' = MOff(m)
    BY <1>1 DEF Counted, MOff
  <2>2. Len(posted) - 0 < NumMemDesc /\ (outPc = "take" \/ HasMem => Len(posted) - 0 < NumMemDesc - 1)
    BY <2>1 DEF Paired, IMem
  <2>3. Len(posted) - 1 < NumMemDesc /\ (outPc = "take" \/ HasMem => Len(posted) - 1 < NumMemDesc - 1)
    BY <2>2, <1>2, Sizes
  <2>4. QED BY <1>1, <1>2, <1>3, <2>1, <2>3 DEF Paired, IMem
<1>6. QED BY <1>1, <1>4, <1>5, SameRing DEF Paired

(* Descriptors that are given back move the first used slot.                 *)
LEMMA OldestMoves ==
  ASSUME ITypes, NEW d \in Nat, d <= Used,
         txNumFreeDesc' = txNumFreeDesc + d, txNextDescIndex' = txNextDescIndex
  PROVE  /\ Used' = Used - d
         /\ \A i \in Slots : d <= Off(i) => Off(i)' = Off(i) - d
<1>1. txNextDescIndex \in Slots /\ txNumFreeDesc \in 2 .. NumTxDesc
  BY DEF ITypes
<1>2. Used' = Used - d
  BY <1>1, Sizes DEF Used
<1>3. Oldest \in Slots /\ Used \in 0 .. NumTxDesc - 2
  BY RingFacts
<1>4. Oldest' = IF Oldest + d < NumTxDesc THEN Oldest + d ELSE Oldest + d - NumTxDesc
  BY <1>1, <1>3, Sizes DEF Oldest, Used, Slots
<1>5. ASSUME NEW i \in Slots, d <= Off(i) PROVE Off(i)' = Off(i) - d
  <2>1. Off(i)' = Dist(NumTxDesc, Oldest', i)
    BY DEF Off
  <2>2. QED BY <2>1, <1>3, <1>4, <1>5, Sizes DEF Off, Dist, Slots
<1>6. QED BY <1>2, <1>5

(* txInterrupt frees the oldest packet.                                     *)
LEMMA FreeKeeps == ASSUME Paired, CleanFree PROVE Paired'
<1> DEFINE n == Len(posted)
           d == posted[1].descs
<1>1. /\ wlPc = "free" /\ wlPc' = "idle" /\ txNumFreeDesc' = txNumFreeDesc + d
      /\ posted' = Tail(posted) /\ sent' = sent - 1
      /\ UNCHANGED <<txNextDescIndex, txNextMem2Use, txNextMem2Free, txNumFreeMem, txMemIO, pkt, outPc>>
  BY DEF CleanFree, memVars
<1>2. Taken' = Taken /\ HasMem' = HasMem /\ Taken \in {0, 1} /\ Completed = 1 /\ Completed' = 0
  BY <1>1 DEF Taken, HasMem, Completed
<1>3. sent >= 1 /\ sent \in Nat /\ sent <= n /\ n \in Nat /\ n >= 1
  BY <1>2, PacketFacts DEF Paired, IControl, ITypes
<1>4. /\ posted' \in Seq(Packet) /\ Len(posted') = n - 1
      /\ \A k \in 1 .. n - 1 : posted'[k] = posted[k + 1] /\ k + 1 \in 1 .. n
  <2>1. posted \in Seq(Packet) /\ posted # <<>>
    BY <1>3 DEF Paired, ITypes
  <2>2. QED BY <2>1, <1>1, <1>3
<1>5. d \in Nat /\ d <= Used /\ d >= 1 /\ Used \in Nat
  <2>1. 1 \in 1 .. n
    BY <1>3
  <2>2. Fits(posted[1]) /\ Off(posted[1].first) + d <= Used
    BY <2>1 DEF Paired, IRing
  <2>3. Off(posted[1].first) \in Nat /\ posted[1].segs \in Nat /\ d \in Nat /\ Used \in Nat
    BY <2>1, PacketFacts, RingFacts, Sizes DEF Paired
  <2>5. QED BY <2>2, <2>3 DEF Fits
<1>6. /\ Used' = Used - d
      /\ \A i \in Slots : d <= Off(i) => Off(i)' = Off(i) - d
  BY <1>1, <1>5, OldestMoves DEF Paired
<1>7. ITypes' /\ IControl'
  <2>1. txNumFreeDesc' \in 2 .. NumTxDesc
    BY <1>1, <1>5, Sizes DEF Paired, ITypes, Used
  <2>2. sent' \in 0 .. Len(posted')
    BY <1>1, <1>3, <1>4
  <2>3. QED BY <1>1, <1>2, <1>4, <2>1, <2>2 DEF Paired, ITypes, IControl
<1>8. IRing'
  <2>1. ASSUME NEW k \in 1 .. n, k > 1
        PROVE  posted[k].first \in Slots /\ d <= Off(posted[k].first) /\ Off(posted[k].first) \in Nat
    <3>1. 1 \in 1 .. n /\ 1 < k
      BY <2>1, <1>3
    <3>2. Off(posted[1].first) + d <= Off(posted[k].first)
      BY <3>1 DEF Paired, IRing
    <3>3. Off(posted[1].first) \in Nat /\ Off(posted[k].first) \in Nat /\ posted[k].first \in Slots
      BY <3>1, PacketFacts, RingFacts, Sizes DEF Paired
    <3>4. QED BY <3>2, <3>3, <1>5
  <2>2. ASSUME NEW k \in 1 .. n - 1
        PROVE  /\ k + 1 \in 1 .. n /\ posted'[k] = posted[k + 1]
               /\ Off(posted[k].first)' = Off(posted[k + 1].first) - d
               /\ Off(posted[k + 1].first) \in Nat /\ posted[k + 1].descs \in Nat
    <3>1. k + 1 \in 1 .. n /\ k + 1 > 1 /\ posted'[k] = posted[k + 1]
      BY <1>3, <1>4
    <3>2. PICK i \in Slots : i = posted[k + 1].first /\ d <= Off(i)
      BY <3>1, <2>1
    <3>3. Off(posted[k].first)' = Off(i)' 
      BY <3>1, <3>2 DEF Off
    <3>4. QED BY <3>1, <3>2, <3>3, <2>1, <1>6, PacketFacts DEF Paired
  <2>3. ASSUME NEW k \in 1 .. n - 1
        PROVE  Fits(posted'[k]) /\ Off(posted[k].first)' + posted'[k].descs <= Used - d
    <3>1. Fits(posted[k + 1]) /\ Off(posted[k + 1].first) + posted[k + 1].descs <= Used
      BY <2>2 DEF Paired, IRing
    <3> DEFINE o == Off(posted[k + 1].first)
               c == posted[k + 1].descs
    <3>2. o + c <= Used /\ o \in Nat /\ c \in Nat
      BY <2>2, <3>1
    <3>6. d \in Int /\ Used \in Int
      BY <1>5
    <3>3. Off(posted[k].first)' = o - d /\ posted'[k].descs = c
      BY <2>2
    <3> HIDE DEF o, c, d
    <3>4. (o - d) + c <= Used - d
      BY <3>2, <3>6
    <3>5. QED BY <2>2, <3>1, <3>3, <3>4
  <2>4. ASSUME NEW k \in 1 .. n - 1, NEW l \in 1 .. n - 1, k < l
        PROVE  Off(posted[k].first)' + posted'[k].descs <= Off(posted[l].first)'
    <3>1. Off(posted[k + 1].first) + posted[k + 1].descs <= Off(posted[l + 1].first)
      <4>1. k + 1 \in 1 .. n /\ l + 1 \in 1 .. n /\ k + 1 < l + 1
        BY <2>2, <2>4, <1>3
      <4>2. QED BY <4>1 DEF Paired, IRing
    <3> DEFINE o == Off(posted[k + 1].first)
               c == posted[k + 1].descs
               z == Off(posted[l + 1].first)
    <3>2. /\ Off(posted[k].first)' = o - d /\ posted'[k].descs = c
          /\ Off(posted[l].first)' = z - d
          /\ o \in Nat /\ c \in Nat /\ z \in Nat /\ o + c <= z
      BY <2>2, <3>1
    <3>5. d \in Int
      BY <1>5
    <3> HIDE DEF o, c, z, d
    <3>3. (o - d) + c <= z - d
      BY <3>2, <3>5
    <3>4. QED BY <3>2, <3>3
  <2>5. outPc' # "idle" =>
          Fits(pkt') /\ pkt'.first = txNextDescIndex' /\ txNumFreeDesc' >= MaxSegs + 3
    BY <1>1, <1>5, Sizes DEF Paired, ITypes, IRing, Fits
  <2> HIDE DEF n, d
  <2>6. QED BY <2>3, <2>4, <2>5, <1>4, <1>6 DEF IRing, Fits
<1>9. IMem'
  <2>1. \A m : MOff(m)' = MOff(m)
    BY <1>1 DEF MOff
  <2>2. /\ n - 1 < NumMemDesc /\ (outPc = "take" \/ HasMem => n - 1 < NumMemDesc - 1)
        /\ txNumFreeMem = NumMemDesc - n - Taken + 1
        /\ MOff(txNextMem2Use) = n - 1 + Taken
        /\ Taken = 1 => pkt.mem \in Mem /\ MOff(pkt.mem) = n - 1
    BY <1>1, <1>2 DEF Paired, IMem, Counted
  <2>3. /\ n - 1 - 0 < NumMemDesc /\ (outPc = "take" \/ HasMem => n - 1 - 0 < NumMemDesc - 1)
        /\ txNumFreeMem = NumMemDesc - (n - 1) - Taken + 0
        /\ MOff(txNextMem2Use) = n - 1 - 0 + Taken
        /\ Taken = 1 => pkt.mem \in Mem /\ MOff(pkt.mem) = n - 1 - 0
    BY <2>2, <1>2, <1>3, Sizes
  <2>6. \A k \in 1 .. n - 1 : posted'[k].rec
    <3>1. \A k \in 1 .. n : posted[k].rec
      BY DEF Paired, IMem, Counted
    <3>2. QED BY <1>4, <3>1, Zenon
  <2>4. ASSUME NEW k \in 1 .. n - 1
        PROVE  posted'[k].mem \in Mem /\ MOff(posted'[k].mem) = k - 1 - 0
    <3>1. k + 1 \in 1 .. n /\ k + 1 > 1 /\ posted'[k] = posted[k + 1]
      BY <1>3, <1>4
    <3>2. posted[k + 1].mem \in Mem /\ MOff(posted[k + 1].mem) = k + 1 - 1 - 1
      BY <3>1, <1>2 DEF Paired, IMem, Counted
    <3>3. QED BY <3>1, <3>2, <1>3
  <2> HIDE DEF n
  <2>5. QED BY <1>1, <1>2, <1>4, <2>1, <2>3, <2>4, <2>6 DEF IMem, Counted
<1>10. IMap'
  <2>1. \A k \in 1 .. n - 1 : txMemIO[posted'[k].mem] = Ranges(posted'[k])
    <3>1. \A k \in 1 .. n - 1 : k + 1 \in 1 .. n /\ k + 1 > 1
      BY <1>3
    <3>2. QED BY <3>1, <1>2, <1>4 DEF Paired, IMap
  <2>2. ASSUME NEW m \in Mem, txMemIO[m] # {}
        PROVE  (outPc = "post" /\ m = pkt.mem) \/ \E k \in 1 .. n - 1 : k > 0 /\ m = posted'[k].mem
    <3>1. CASE ~(outPc = "post" /\ m = pkt.mem)
      <4>1. PICK l \in 1 .. n : l > 1 /\ m = posted[l].mem
        BY <3>1, <2>2, <1>2 DEF Paired, IMap
      <4>2. l - 1 \in 1 .. n - 1 /\ l - 1 > 0 /\ (l - 1) + 1 = l
        BY <4>1, <1>3
      <4>3. posted'[l - 1] = posted[l]
        BY <4>2, <1>4
      <4>4. QED BY <4>1, <4>2, <4>3
    <3>2. QED BY <3>1
  <2>3. outPc = "post" /\ HasMem => txMemIO[pkt.mem] = Ranges(pkt)
    BY DEF Paired, IMap
  <2> HIDE DEF n
  <2>4. QED BY <1>1, <1>2, <1>4, <2>1, <2>2, <2>3 DEF IMap, Ranges
<1>11. QED BY <1>7, <1>8, <1>9, <1>10 DEF Paired

-------------------------------------------------------------------------------
LEMMA SendKeeps == ASSUME Paired, NicSend PROVE Paired'
<1>1. /\ sent < Len(posted) /\ wlPc # "clear" /\ sent' = sent + 1
      /\ UNCHANGED <<txNextDescIndex, txNumFreeDesc, txNextMem2Use, txNextMem2Free,
                     txNumFreeMem, txMemIO, posted, pkt, outPc, wlPc>>
  BY DEF NicSend, memVars
<1>2. Taken' = Taken /\ HasMem' = HasMem /\ Completed' = Completed /\ Completed \in {0, 1}
  BY <1>1 DEF Taken, HasMem, Completed
<1>3. ITypes' /\ IControl'
  BY <1>1, <1>2, PacketFacts DEF Paired, ITypes, IControl
<1>4. IMem' /\ IMap'
  BY <1>1, <1>2 DEF Paired, IMem, Counted, IMap, MOff
<1>5. QED BY <1>1, <1>3, <1>4, SameRing DEF Paired

LEMMA StopKeeps == ASSUME Paired, StopNic PROVE Paired'
<1>1. /\ wlPc = "idle" /\ outPc = "idle" /\ sent' = 0 /\ wlPc' = "clear"
      /\ UNCHANGED <<txNextDescIndex, txNumFreeDesc, txNextMem2Use, txNextMem2Free,
                     txNumFreeMem, txMemIO, posted, pkt, outPc>>
  BY DEF StopNic, memVars
<1>2. Taken' = Taken /\ HasMem' = HasMem /\ Completed' = 0 /\ Completed = 0
  BY <1>1 DEF Taken, HasMem, Completed
<1>3. ITypes' /\ IControl'
  BY <1>1, <1>2, PacketFacts DEF Paired, ITypes, IControl
<1>4. IMem' /\ IMap'
  BY <1>1, <1>2 DEF Paired, IMem, Counted, IMap, MOff
<1>5. QED BY <1>1, <1>3, <1>4, SameRing DEF Paired

(* Everything is completed, and both indexes start again at zero: whatever   *)
(* was out of step is in step again.                                        *)
LEMMA ClearKeeps == ASSUME TypeOK, IControl, ClearDescriptors PROVE Paired'
<1>1. /\ wlPc = "clear" /\ wlPc' = "idle" /\ txMemIO' = [k \in Mem |-> {}] /\ posted' = <<>>
      /\ txNextMem2Use' = 0 /\ txNextMem2Free' = 0 /\ txNumFreeMem' = NumMemDesc
      /\ txNextDescIndex' = 0 /\ txNumFreeDesc' = NumTxDesc
      /\ UNCHANGED <<sent, pkt, outPc>>
  BY DEF ClearDescriptors
<1>2. outPc = "idle" /\ sent = 0
  BY <1>1 DEF IControl
<1>3. Taken' = 0 /\ ~HasMem' /\ Completed' = 0 /\ MOff(txNextMem2Use)' = 0 /\ Len(posted') = 0
  BY <1>1, <1>2, Sizes DEF Taken, HasMem, Completed, MOff, Dist
<1>4. ITypes' /\ IControl'
  <2>1. pkt' \in Packet
    BY <1>1 DEF TypeOK
  <2>2. QED BY <1>1, <1>2, <1>3, <2>1, Sizes DEF ITypes, IControl
<1>5. IMem'
  BY <1>1, <1>2, <1>3, Sizes DEF IMem, Counted
<1>6. QED BY <1>1, <1>2, <1>3, <1>4, <1>5, Sizes DEF Paired, IRing, IMap

-------------------------------------------------------------------------------
LEMMA SetMem ==
  ASSUME NEW p \in Packet, NEW m \in Mem
  PROVE  [p EXCEPT !.mem = m] \in Packet /\ [p EXCEPT !.mem = m].mem = m
<1>1. m \in 0 .. NumMemDesc
  BY Sizes DEF Mem
<1>2. QED BY <1>1, Zenon DEF Packet

(* What holds of packets out of step as well.                               *)
LEMMA TypesOutput ==
  ASSUME TypeOK, IControl, OutputStart
  PROVE  TypeOK' /\ IControl'
<1> USE Sizes DEF TypeOK, IControl, Completed, memVars
<1>1. NoPkt \in Packet
  BY DEF NoPkt, Packet, Unmapped
<1>2. pkt.mem \in 0 .. NumMemDesc /\ pkt.descs \in Nat /\ pkt.segs \in Nat /\ pkt.first \in Int
  BY DEF Packet
<1>3. ASSUME NEW segs \in 1 .. MaxSegs, NEW ctx \in {0, 1}, NEW tso \in BOOLEAN,
             MapBegin(segs, ctx, tso)
      PROVE  TypeOK' /\ IControl'
  <2> DEFINE b == ~(tso /\ segs = 1)
  <2>1. b \in BOOLEAN
    OBVIOUS
  <2>2. pkt' = [first |-> txNextDescIndex, segs |-> segs, descs |-> segs + ctx, mem |-> Unmapped, rec |-> b]
    BY <1>3 DEF MapBegin
  <2> HIDE DEF b
  <2>3. pkt' \in Packet
    BY <2>1, <2>2 DEF Packet, Unmapped
  <2>4. unpaired' \in BOOLEAN
    BY <1>3, Zenon DEF MapBegin
  <2>5. /\ outPc' \in {"take", "post"} /\ wlPc # "clear"
        /\ UNCHANGED <<txNextDescIndex, txNumFreeDesc, txNextMem2Use, txNextMem2Free,
                       txNumFreeMem, txMemIO, posted, sent, wlPc>>
    BY <1>3 DEF MapBegin
  <2>6. TypeOK'
    BY <2>3, <2>4, <2>5
  <2>7. Completed' = Completed
    BY <2>5
  <2> HIDE DEF Completed, TypeOK
  <2>8. IControl'
    BY <2>5, <2>7
  <2>9. QED BY <2>6, <2>8
<1>4. CASE MapTake
  <2>4. pkt' = [pkt EXCEPT !.mem = txNextMem2Use] /\ pkt \in Packet /\ txNextMem2Use \in Mem
    BY <1>4 DEF MapTake
  <2>1. pkt'.mem = txNextMem2Use /\ pkt' \in Packet /\ Next1(txNextMem2Use) \in Mem
    BY <2>4, SetMem, NextMem
  <2>2. unpaired' \in BOOLEAN
    BY <1>4, Zenon DEF MapTake
  <2>3. QED BY <1>4, <2>1, <2>2 DEF MapTake
<1>5. CASE MapPrepare
  <2>1. Ranges(pkt) \subseteq Int
    BY <1>2 DEF Ranges
  <2>2. unpaired' \in BOOLEAN
    BY <1>5, Zenon DEF MapPrepare
  <2>3. QED BY <1>5, <2>1, <2>2 DEF MapPrepare
<1>6. CASE MapFail
  <2>1. unpaired' \in BOOLEAN
    BY <1>6, Zenon DEF MapFail
  <2>2. QED BY <1>1, <1>6, <2>1 DEF MapFail
<1>7. CASE Post
  <2>1. unpaired' \in BOOLEAN
    BY <1>7, Zenon DEF Post
  <2>5. posted \in Seq(Packet) /\ pkt \in Packet /\ sent \in 0 .. Len(posted)
        /\ posted' = Append(posted, pkt) /\ sent' = sent
    BY <1>7 DEF Post
  <2>2. posted' \in Seq(Packet) /\ sent' \in 0 .. Len(posted')
    <3> HIDE DEF TypeOK, IControl
    <3>1. QED BY <2>5
  <2>3. txNextDescIndex' \in 0 .. NumTxDesc - 1 /\ txNumFreeDesc' \in Int
    <3>1. /\ txNextDescIndex' = (txNextDescIndex + pkt.descs) % NumTxDesc
          /\ txNumFreeDesc' = txNumFreeDesc - pkt.descs
          /\ txNextDescIndex \in 0 .. NumTxDesc - 1 /\ txNumFreeDesc \in Int
      BY <1>7 DEF Post
    <3> HIDE DEF TypeOK, IControl
    <3>2. QED BY <3>1, <1>2
  <2>4. QED BY <1>1, <1>7, <2>1, <2>2, <2>3 DEF Post
<1>8. QED BY <1>3, <1>4, <1>5, <1>6, <1>7 DEF OutputStart

LEMMA TypesOthers ==
  ASSUME TypeOK, IControl, NicSend \/ TxInterrupt \/ StopNic \/ ClearDescriptors \/ UNCHANGED vars
  PROVE  TypeOK' /\ IControl'
<1> USE Sizes DEF TypeOK, IControl, Completed, memVars
<1>1. sent > 0 => Tail(posted) \in Seq(Packet) /\ Len(Tail(posted)) = Len(posted) - 1
                  /\ posted[1] \in Packet
  OBVIOUS
<1>2. unpaired' \in BOOLEAN
  BY Zenon DEF NicSend, TxInterrupt, StopNic, ClearDescriptors, vars, UnmapComplete, UnmapCount,
               CleanFree, CleanSkip
<1>3. CASE NicSend BY <1>2, <1>3 DEF NicSend
<1>4. CASE UnmapComplete
  <2>1. /\ sent > 0 /\ wlPc' = "count" /\ Next1(txNextMem2Free) \in Mem
        /\ txMemIO' = [txMemIO EXCEPT ![txNextMem2Free] = {}]
        /\ txNextMem2Free' = Next1(txNextMem2Free)
        /\ UNCHANGED <<txNextDescIndex, txNumFreeDesc, txNextMem2Use, txNumFreeMem,
                       posted, sent, pkt, outPc>>
    BY <1>4, NextMem DEF UnmapComplete
  <2>2. txMemIO' \in [Mem -> SUBSET Int]
    BY <2>1
  <2>3. TypeOK'
    BY <2>1, <2>2, <1>2
  <2>4. IControl'
    BY <2>1
  <2>5. QED BY <2>3, <2>4
<1>5. CASE UnmapCount BY <1>2, <1>5 DEF UnmapCount
<1>6. CASE CleanFree
  <2>1. posted[1].descs \in Int
    <3>1. posted[1] \in Packet
      BY <1>1, <1>6 DEF CleanFree
    <3> HIDE DEF TypeOK, IControl
    <3>2. QED BY <3>1, Sizes DEF Packet
  <2>2. QED BY <1>1, <1>2, <1>6, <2>1 DEF CleanFree
<1>7. CASE CleanSkip BY <1>1, <1>2, <1>7 DEF CleanSkip
<1>8. CASE StopNic BY <1>2, <1>8 DEF StopNic
<1>9. CASE ClearDescriptors
  <2>1. posted' = <<>> /\ posted' \in Seq(Packet) /\ Len(posted') = 0
    BY <1>9 DEF ClearDescriptors
  <2>2. QED BY <1>2, <1>9, <2>1 DEF ClearDescriptors
<1>10. CASE UNCHANGED vars BY <1>2, <1>10 DEF vars
<1>11. QED BY <1>3, <1>4, <1>5, <1>6, <1>7, <1>8, <1>9, <1>10 DEF TxInterrupt

(* A step after which everything is in step comes from a state in which it   *)
(* was, unless everything was cleared.                                      *)
LEMMA PairedKept == ASSUME IInv, Next, ~unpaired', TypeOK' PROVE Paired'
<1>1. CASE ClearDescriptors
  BY <1>1, ClearKeeps DEF IInv
<1>2. CASE ~ClearDescriptors
  <2>1. ~unpaired
    BY <1>2 DEF Next, OutputStart, TxInterrupt, MapBegin, MapTake, MapPrepare, MapFail, Post, NicSend,
                UnmapComplete, UnmapCount, CleanFree, CleanSkip, StopNic
  <2>2. Paired
    BY <2>1 DEF IInv
  <2>3. CASE OutputStart
    <3>1. ASSUME Post PROVE pkt.mem # Unmapped /\ pkt.rec
      BY <3>1 DEF Post
    <3>2. QED BY <2>2, <2>3, <3>1, BeginKeeps, TakeKeeps, PrepareKeeps, FailKeeps, PostKeeps
              DEF OutputStart
  <2>4. CASE TxInterrupt
    <3>1. CASE CleanSkip
      <4>1. 1 \in 1 .. Len(posted) /\ ~posted[1].rec
        BY <2>2, <3>1, PacketFacts DEF CleanSkip, Paired, ITypes
      <4>2. QED BY <2>2, <4>1 DEF Paired, IMem, Counted
    <3>2. QED BY <2>2, <2>4, <3>1, CompleteKeeps, CountKeeps, FreeKeeps DEF TxInterrupt
  <2>5. QED BY <1>2, <2>2, <2>3, <2>4, SendKeeps, StopKeeps DEF Next
<1>3. QED BY <1>1, <1>2

LEMMA Inductive == Spec => []IInv
<1>1. Init => IInv
  BY Starts
<1>2. ASSUME IInv, UNCHANGED vars PROVE IInv'
  <2>1. UNCHANGED <<txNextDescIndex, txNumFreeDesc, txNextMem2Use, txNextMem2Free,
                    txNumFreeMem, txMemIO, posted, sent, pkt, outPc, wlPc, unpaired>>
    BY <1>2 DEF vars, memVars
  <2>2. TypeOK' /\ IControl'
    BY <1>2, TypesOthers DEF IInv
  <2>3. ASSUME Paired PROVE Paired'
    <3>1. Completed' = Completed /\ Taken' = Taken /\ HasMem' = HasMem
      BY <2>1 DEF Completed, Taken, HasMem
    <3>2. ITypes' /\ IControl' /\ IMem' /\ IMap'
      BY <2>1, <2>3, <3>1 DEF Paired, ITypes, IControl, IMem, Counted, IMap, MOff
    <3>3. IRing'
      BY <2>1, <2>3, SameRing
    <3>4. QED BY <3>2, <3>3 DEF Paired
  <2>4. QED BY <1>2, <2>1, <2>2, <2>3 DEF IInv
<1>3. ASSUME IInv, Next PROVE IInv'
  <2>1. TypeOK' /\ IControl'
    BY <1>3, TypesOutput, TypesOthers DEF IInv, Next
  <2>2. ~unpaired' => Paired'
    BY <1>3, <2>1, PairedKept
  <2>3. QED BY <2>1, <2>2 DEF IInv
<1>4. QED BY <1>1, <1>2, <1>3, PTL DEF Spec

-------------------------------------------------------------------------------
(* Ranges behind the end of the ring do not collide with others: of two      *)
(* packets only one reaches across it.                                       *)
LEMMA Apart ==
  ASSUME ITypes, NEW p \in Packet, NEW q \in Packet, Fits(p), Fits(q),
         Off(p.first) + p.descs <= Off(q.first), Off(q.first) + q.descs <= NumTxDesc - 2
  PROVE  Ranges(p) \cap Ranges(q) = {}
<1>1. ASSUME NEW h \in Slots, NEW a \in Slots, NEW b \in Slots, NEW s \in Nat, NEW t \in Nat,
             NEW d \in Nat, NEW e \in Nat, s <= d, t <= e,
             Dist(NumTxDesc, h, a) + d <= Dist(NumTxDesc, h, b),
             Dist(NumTxDesc, h, b) + e <= NumTxDesc - 2,
             NEW x \in Int, a <= x, x <= a + s - 1, b <= x, x <= b + t - 1
      PROVE  FALSE
  BY <1>1, Sizes DEF Dist, Slots
<1>2. Oldest \in Slots /\ p.first \in Slots /\ q.first \in Slots
      /\ p.segs \in Nat /\ q.segs \in Nat /\ p.descs \in Nat /\ q.descs \in Nat
      /\ p.segs <= p.descs /\ q.segs <= q.descs
  BY RingFacts, Sizes DEF Packet, Slots, Fits
<1>3. ASSUME NEW x \in Int, x \in Ranges(p), x \in Ranges(q) PROVE FALSE
  <2>1. p.first <= x /\ x <= p.first + p.segs - 1 /\ q.first <= x /\ x <= q.first + q.segs - 1
    BY <1>3 DEF Ranges
  <2>2. Dist(NumTxDesc, Oldest, p.first) + p.descs <= Dist(NumTxDesc, Oldest, q.first)
        /\ Dist(NumTxDesc, Oldest, q.first) + q.descs <= NumTxDesc - 2
    BY DEF Off
  <2>3. QED BY <1>1, <1>2, <2>1, <2>2
<1>4. Ranges(p) \subseteq Int /\ Ranges(q) \subseteq Int
  BY <1>2 DEF Ranges, Slots
<1>5. QED BY <1>3, <1>4

(* Until a packet is posted that has no mapping or is not recorded: as long  *)
(* as the NIC may read a packet, the mapping of its own ranges is active,    *)
(* through every wrap of the three rings, every packet dropped by error_map  *)
(* and every reset; and no packet goes without a mapping before all memory   *)
(* descriptors but one are with packets of the ring.                        *)
THEOREM AlwaysMapped == Spec => []MappedWhileRead
<1>1. IInv => MappedWhileRead
  <2>1. SUFFICES ASSUME IInv, ~unpaired, wlPc # "clear" PROVE MappedWhileRead
    BY DEF MappedWhileRead
  <2>2. Paired
    BY <2>1 DEF IInv
  <2>3. ASSUME NEW k \in sent + 1 .. Len(posted)
        PROVE  posted[k].mem # Unmapped /\ txMemIO[posted[k].mem] = Ranges(posted[k])
    <3>1. k \in 1 .. Len(posted) /\ k > Completed
      BY <2>2, PacketFacts DEF Paired, ITypes, IControl, Completed
    <3>2. QED BY <2>2, <3>1, Sizes DEF Paired, IMem, Counted, IMap, Mem, Unmapped
  <2>4. ASSUME outPc = "idle", txNumFreeMem <= 1 PROVE Len(posted) >= NumMemDesc - 1
    <3>1. Taken = 0
      BY <2>4 DEF Taken, HasMem
    <3>2. txNumFreeMem = NumMemDesc - Len(posted) - 0 + Counted /\ Counted \in {0, 1}
      BY <2>2, <3>1 DEF Paired, IMem, Counted
    <3>3. QED BY <2>2, <2>4, <3>2, PacketFacts, Sizes DEF Paired
  <2>5. QED BY <2>3, <2>4 DEF MappedWhileRead
<1>2. QED BY <1>1, Inductive, PTL

(* Until then txInterrupt completes the mapping                              *)
(* of the packet it is about to free, and outputStart writes no address      *)
(* range that an active mapping refers to, although a packet at the end of   *)
(* the ring keeps its ranges behind it.                                      *)
THEOREM AlwaysUnmapsOwn == Spec => []UnmapsOwn
<1>1. ASSUME Paired, wlPc = "idle", posted # <<>> PROVE posted[1].mem = txNextMem2Free
  <2>1. 1 \in 1 .. Len(posted) /\ Completed = 0
    BY <1>1, PacketFacts DEF Paired, ITypes, Completed
  <2>2. posted[1].mem \in Mem /\ MOff(posted[1].mem) = 0
    <3>1. 1 - 1 - 0 = 0 /\ 1 > 0
      OBVIOUS
    <3>2. QED BY <3>1, <2>1, <1>1 DEF Paired, IMem, Counted
  <2>3. QED BY <2>2, <1>1, FirstMem DEF Paired
<1>2. ASSUME Paired, outPc # "idle", NEW m \in Mem, m # pkt.mem
      PROVE  txMemIO[m] \cap Ranges(pkt) = {}
  <2>1. CASE txMemIO[m] = {}
    BY <2>1
  <2>2. CASE txMemIO[m] # {}
    <3>1. PICK k \in 1 .. Len(posted) : k > Completed /\ m = posted[k].mem
      BY <1>2, <2>2 DEF Paired, IMap
    <3>2. txMemIO[m] = Ranges(posted[k])
      BY <3>1, <1>2 DEF Paired, IMap
    <3>3. /\ Fits(posted[k]) /\ Off(posted[k].first) + posted[k].descs <= Used
      BY <1>2, <3>1 DEF Paired, IRing
    <3>4. Fits(pkt) /\ Off(pkt.first) = Used /\ Used + pkt.descs <= NumTxDesc - 2
      <4>1. Fits(pkt) /\ pkt.first = txNextDescIndex /\ txNumFreeDesc >= MaxSegs + 3
        BY <1>2 DEF Paired, IRing
      <4>2. txNumFreeDesc \in Nat /\ pkt.descs \in Nat /\ Off(txNextDescIndex) = Used
        BY <1>2, PacketFacts, RingFacts, Sizes DEF Paired, ITypes
      <4>3. QED BY <4>1, <4>2, Sizes DEF Fits, Used
    <3>5. posted[k] \in Packet /\ pkt \in Packet
      BY <1>2, PacketFacts DEF Paired, ITypes
    <3>6. Ranges(posted[k]) \cap Ranges(pkt) = {}
      BY <1>2, <3>3, <3>4, <3>5, Apart DEF Paired
    <3>7. QED BY <3>2, <3>6
  <2>3. QED BY <2>1, <2>2
<1>3. IInv => UnmapsOwn
  BY <1>1, <1>2 DEF UnmapsOwn, IInv
<1>4. QED BY <1>3, Inductive, PTL
================================================================================
