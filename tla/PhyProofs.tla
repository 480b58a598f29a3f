------------------------------- MODULE PhyProofs -------------------------------
(***************************************************************************)
(* The link, and the way to the PHY that everything about it is read by.    *)
(*                                                                         *)
(* Link: the driver agrees with the PHY about the link, for any partners,    *)
(* media and frame sizes, wherever the PHY changes its mind and whichever    *)
(* access to it fails.  The properties speak of the moments when no link     *)
(* change is left to be noticed; the invariant says what the driver knows at *)
(* each step of checkLinkStatus as long as no further change interrupts it.  *)
(*                                                                         *)
(* PhyBus: the semaphore excludes, for any number of threads, any faults and *)
(* any overlap of sessions but those of the two that go on without it.       *)
(* Every program of Prog has one shape (Session): it acquires, accesses and  *)
(* releases; that is proved piece by piece, and the invariant (IBus) relates *)
(* the bit and SWFLAG to the places of the threads in their programs.        *)
(*                                                                         *)
(* That every access reaches the register it means is proved in two parts.   *)
(* The programs alone (Works, Runs): an annotation of each one with sets of  *)
(* views, such that a step in one of its views does what it should and leads *)
(* to one of the next, even if it fails. The threads (IReach): whoever holds *)
(* the semaphore is in a view of its place, and nobody else changes it.      *)
(***************************************************************************)
EXTENDS Link, PhyBus, SequenceTheorems, TLAPS

-----------------------------------------------------------------------------
(* The link.                                                                *)

(* What was read of the PHY still holds.                                     *)
Known == ~lsc /\ ~phyErr

Pausing == {"tx_pause", "full"}

Ends == Peers \cup {NoPeer}
Advs == [modes : SUBSET Modes, pause : BOOLEAN, asym : BOOLEAN, eee : SUBSET {100, 1000}]

ITypes ==
  /\ chip \in Chips
  /\ blocked \in BOOLEAN /\ lsc \in BOOLEAN /\ phyErr \in BOOLEAN
  /\ linkUp \in BOOLEAN /\ getLinkStatus \in BOOLEAN
  /\ cable \in Ends /\ peer \in Ends
  /\ peer # NoPeer => Common(peer) # {}
  /\ adv \in Advs
  /\ medium \in Media
  /\ frameSize \in Frames
  /\ wl \in {"idle", "check", "fc", "decide"}

(* A PHY that could be reset advertises what the medium asks for, and FCRTH  *)
(* is set for whatever the negotiation may give.                            *)
IWishes ==
  ~blocked =>
    /\ requestedMode \in FcModes /\ currentMode \in FcModes
    /\ adv.pause = AdvPause(requestedMode) /\ adv.asym = AdvAsym(requestedMode)
    /\ fcrth = IF Forced(medium) THEN 0 ELSE FcWatermarks(requestedMode, frameSize)
    /\ currentMode \in Pausing \/ ctrlFc \in Pausing =>
         ~Forced(medium) /\ requestedMode \in Pausing

(* How get_link_status and linkUp follow the PHY through checkLinkStatus.    *)
IPhase ==
  /\ wl = "check" => getLinkStatus
  /\ wl = "fc" => ~getLinkStatus
  /\ wl \in {"fc", "decide"} /\ Known => (getLinkStatus <=> peer = NoPeer)
  /\ wl = "idle" /\ Known => (linkUp <=> peer # NoPeer)

(* A link that is not reported has left nothing behind, but what is on its   *)
(* way from checkForLink to setLinkUp.                                      *)
IDown ==
  ~linkUp =>
    /\ wl # "decide" \/ getLinkStatus => ctrlFc = "none" /\ lpi = {}
    /\ wl \in {"idle", "check"} \/ getLinkStatus => ltr = NoLtr

LtrRight == chip = "lpt" => ltr = LtrEncoding(chip, frameSize, LinkMode[1])

Resolved ==
  IF Forced(medium) \/ (blocked /\ currentMode \notin FcModes) THEN ctrlFc = "none"
  ELSE ctrlFc = Negotiated(adv, peer, requestedMode, LinkMode[2])

Told ==
  /\ <<reported.speed, reported.fd>> = LinkMode
  /\ reported.speed # 10 => (reported.fc <=> ctrlFc # "none")
  /\ chip = "lpt" => busStall <= Tolerated(chip, frameSize, LinkMode[1])

(* What was configured for the link there is; a link that is up already is  *)
(* reset before it counts again.                                            *)
IKnown ==
  Known /\ peer # NoPeer =>
    /\ wl = "fc" => LtrRight
    /\ (wl = "decide" /\ ~linkUp) \/ wl = "idle" =>
         LtrRight /\ Resolved /\ lpi \subseteq SupportedEee
    /\ wl = "idle" => Told /\ eeeMode \subseteq SupportedEee

IInv == ITypes /\ IWishes /\ IPhase /\ IDown /\ IKnown

-------------------------------------------------------------------------------
(* Every frame size leaves a high water mark.                               *)
LEMMA HighWater ==
  ASSUME NEW c \in Chips, NEW f \in Nat PROVE WaterMarks(c, f).high > 0
<1> DEFINE rx == Pba(c, f) * 1024
           jumbo == f > StandardFrame
<1>1. CASE c = "ich9"
  <2>1. CASE jumbo
    <3>1. WaterMarks(c, f).high = 10240
      BY <1>1, <2>1 DEF WaterMarks
    <3>2. QED BY <3>1
  <2>2. CASE ~jumbo
    <3>1. rx = 18432
      <4>1. f <= StandardFrame
        BY <2>2 DEF StandardFrame
      <4>2. QED BY <1>1, <4>1 DEF Pba, DefaultPba
    <3>2. WaterMarks(c, f).high = Mask8(Least((rx * 9) \div 10, rx - f))
      BY <1>1, <2>2 DEF WaterMarks
    <3>3. rx - f \in Int /\ rx - f >= 16914 /\ (rx * 9) \div 10 = 16588
      BY <2>2, <3>1 DEF StandardFrame
    <3>4. Least((rx * 9) \div 10, rx - f) = 16588
      BY <3>3 DEF Least
    <3>5. QED BY <3>2, <3>4 DEF Mask8
  <2>3. QED BY <2>1, <2>2
<1>2. CASE c = "pch"
  <2>1. WaterMarks(c, f).high = IF jumbo THEN 13568 ELSE 20480
    BY <1>2 DEF WaterMarks
  <2>2. QED BY <2>1
<1>3. CASE c \notin {"ich9", "pch"}
  <2>1. WaterMarks(c, f).high = IF jumbo THEN Mask8((rx * 9) \div 10) ELSE 23584
    BY <1>3 DEF WaterMarks
  <2>2. jumbo => rx = 14336
    BY <1>3 DEF Pba, StandardFrame
  <2>3. jumbo => Mask8((rx * 9) \div 10) = 12896
    BY <2>2 DEF Mask8
  <2>4. QED BY <2>1, <2>3
<1>4. QED BY <1>1, <1>2, <1>3

LEMMA LatencyInt == MaxLatency \in Int
<1>1. ASSUME NEW e \in Encodings PROVE Decode(e) \in Int
  <2>1. e % 1024 \in Int /\ e \div 1024 \in 0 .. 7
    <3>1. e \in Int /\ 0 <= e /\ e < 8192
      BY DEF Encodings
    <3> QED
      BY <3>1
  <2>2. \A k \in 0 .. 7 : 32 ^ k \in Int
    <3>1. /\ 32 ^ 0 \in Int /\ 32 ^ 1 \in Int /\ 32 ^ 2 \in Int /\ 32 ^ 3 \in Int
          /\ 32 ^ 4 \in Int /\ 32 ^ 5 \in Int /\ 32 ^ 6 \in Int /\ 32 ^ 7 \in Int
      OBVIOUS
    <3>2. QED BY <3>1
  <2> DEFINE a == e % 1024
             b == 32 ^ (e \div 1024)
  <2>3. a \in Int /\ b \in Int
    BY <2>1, <2>2
  <2>4. Decode(e) = a * b
    BY DEF Decode
  <2> HIDE DEF a, b
  <2>5. QED BY <2>3, <2>4
<1>2. Decode(MaxSnoop) \in Int /\ Decode(MaxNoSnoop) \in Int
  <2>1. MaxSnoop \in Encodings /\ MaxNoSnoop \in Encodings
    BY PacketBufferConstants
  <2>2. QED BY <1>1, <2>1, Zenon
<1>3. QED BY <1>2 DEF MaxLatency, Least, Largest

(* The bus may stall as long as the receive buffer lasts, at most.           *)
LEMMA Stall ==
  ASSUME NEW c \in Chips, NEW f \in Nat, NEW s \in Speeds
  PROVE  BusStall(c, f, s) <= Tolerated(c, f, s)
<1> DEFINE t == Tolerated(c, f, s)
<1>1. t \in Int
  <2>1. 16000 \div s \in Int
    BY DEF Speeds
  <2>2. Pba(c, f) \in Int
    <3>1. DefaultPba(c) \in Int
      BY DEF DefaultPba
    <3>2. JumboPba(c, f) \in Int
      <4>1. KB(f) \in Int /\ KB(2 * (f + 12)) \in Int
        BY DEF KB, CeilDiv
      <4>2. QED BY <3>1, <4>1, PacketBufferConstants DEF JumboPba, Largest
    <3>3. QED BY <3>1, <3>2 DEF Pba
  <2>3. (Pba(c, f) * 512) - f \in Int /\ Pba(c, f) * 512 \in Int
    BY <2>2
  <2> DEFINE d == (Pba(c, f) * 512) - f
             q == 16000 \div s
  <2>4. t = IF Pba(c, f) * 512 > f THEN d * q ELSE 0
    BY DEF Tolerated
  <2>5. d \in Int /\ q \in Int
    BY <2>1, <2>3
  <2> HIDE DEF d, q, t
  <2>6. d * q \in Int
    BY <2>5
  <2>7. QED BY <2>4, <2>6
<1>2. MaxLatency \in Int
  BY LatencyInt
<1>3. BusStall(c, f, s) = IF MaxLatency > 0 THEN Least(t, MaxLatency) ELSE t
  BY DEF BusStall
<1> HIDE DEF t
<1>4. BusStall(c, f, s) <= t
  BY <1>1, <1>2, <1>3 DEF Least
<1>5. QED BY <1>4 DEF t

(* The modes, from the lowest to the highest.                               *)
LEMMA Faster == ASSUME NEW p, NEW q, p[1] > q[1] PROVE HigherMode(p, q)
BY DEF HigherMode

LEMMA FullDuplex ==
  ASSUME NEW p, NEW q, p[1] = q[1], p[2], ~q[2] PROVE HigherMode(p, q)
BY Zenon DEF HigherMode

LEMMA ModeOrder ==
  /\ HigherMode(<<1000, TRUE>>, <<100, TRUE>>) /\ HigherMode(<<1000, TRUE>>, <<100, FALSE>>)
  /\ HigherMode(<<1000, TRUE>>, <<10, TRUE>>) /\ HigherMode(<<1000, TRUE>>, <<10, FALSE>>)
  /\ HigherMode(<<100, TRUE>>, <<100, FALSE>>) /\ HigherMode(<<100, TRUE>>, <<10, TRUE>>)
  /\ HigherMode(<<100, TRUE>>, <<10, FALSE>>) /\ HigherMode(<<100, FALSE>>, <<10, TRUE>>)
  /\ HigherMode(<<100, FALSE>>, <<10, FALSE>>) /\ HigherMode(<<10, TRUE>>, <<10, FALSE>>)
<1>1. /\ <<1000, TRUE>>[1] = 1000 /\ <<100, TRUE>>[1] = 100 /\ <<100, FALSE>>[1] = 100
      /\ <<10, TRUE>>[1] = 10 /\ <<10, FALSE>>[1] = 10
  OBVIOUS
<1>2. <<100, TRUE>>[2] /\ ~<<100, FALSE>>[2] /\ <<10, TRUE>>[2] /\ ~<<10, FALSE>>[2]
  BY Zenon
<1>3. /\ <<1000, TRUE>>[1] > <<100, TRUE>>[1] /\ <<1000, TRUE>>[1] > <<100, FALSE>>[1]
      /\ <<1000, TRUE>>[1] > <<10, TRUE>>[1] /\ <<1000, TRUE>>[1] > <<10, FALSE>>[1]
      /\ <<100, TRUE>>[1] > <<10, TRUE>>[1] /\ <<100, TRUE>>[1] > <<10, FALSE>>[1]
      /\ <<100, FALSE>>[1] > <<10, TRUE>>[1] /\ <<100, FALSE>>[1] > <<10, FALSE>>[1]
  BY <1>1
<1>4. <<100, TRUE>>[1] = <<100, FALSE>>[1] /\ <<10, TRUE>>[1] = <<10, FALSE>>[1]
  BY <1>1
<1>5. HigherMode(<<100, TRUE>>, <<100, FALSE>>) /\ HigherMode(<<10, TRUE>>, <<10, FALSE>>)
  BY <1>2, <1>4, FullDuplex, Zenon
<1>6. /\ HigherMode(<<1000, TRUE>>, <<100, TRUE>>) /\ HigherMode(<<1000, TRUE>>, <<100, FALSE>>)
      /\ HigherMode(<<1000, TRUE>>, <<10, TRUE>>) /\ HigherMode(<<1000, TRUE>>, <<10, FALSE>>)
      /\ HigherMode(<<100, TRUE>>, <<10, TRUE>>) /\ HigherMode(<<100, TRUE>>, <<10, FALSE>>)
      /\ HigherMode(<<100, FALSE>>, <<10, TRUE>>) /\ HigherMode(<<100, FALSE>>, <<10, FALSE>>)
  BY <1>3, Faster
<1>7. QED BY <1>5, <1>6

(* The mode a PHY resolves is one both ends have.                           *)
LEMMA HighestMode ==
  ASSUME NEW S \in SUBSET Modes, S # {}
  PROVE  \E m \in S : \A n \in S : n # m => HigherMode(m, n)
<1> DEFINE a == <<1000, TRUE>>
           b == <<100, TRUE>>
           c == <<100, FALSE>>
           d == <<10, TRUE>>
           e == <<10, FALSE>>
<1>0. Modes = {e, d, c, b, a}
  BY DEF Modes
<1>1. \A m \in S : m = a \/ m = b \/ m = c \/ m = d \/ m = e
  <2> HIDE DEF a, b, c, d, e
  <2>1. QED BY <1>0, Zenon
<1>2. /\ HigherMode(a, b) /\ HigherMode(a, c) /\ HigherMode(a, d) /\ HigherMode(a, e)
      /\ HigherMode(b, c) /\ HigherMode(b, d) /\ HigherMode(b, e)
      /\ HigherMode(c, d) /\ HigherMode(c, e) /\ HigherMode(d, e)
  BY ModeOrder
<1> HIDE DEF a, b, c, d, e
<1>3. CASE a \in S
  BY <1>1, <1>2, <1>3, Zenon
<1>4. CASE a \notin S /\ b \in S
  BY <1>1, <1>2, <1>4, Zenon
<1>5. CASE a \notin S /\ b \notin S /\ c \in S
  BY <1>1, <1>2, <1>5, Zenon
<1>6. CASE a \notin S /\ b \notin S /\ c \notin S /\ d \in S
  BY <1>1, <1>2, <1>6, Zenon
<1>7. CASE a \notin S /\ b \notin S /\ c \notin S /\ d \notin S
  BY <1>1, <1>7, Zenon
<1>8. QED BY <1>3, <1>4, <1>5, <1>6, <1>7, Zenon

LEMMA ModePairs ==
  ASSUME NEW m \in Modes
  PROVE  m = <<m[1], m[2]>> /\ m[1] \in Speeds /\ m[2] \in BOOLEAN
<1> DEFINE x == 10
           y == 100
           z == 1000
           s == {x, y, z}
<1>1. Modes = {<<x, FALSE>>, <<x, TRUE>>, <<y, FALSE>>, <<y, TRUE>>, <<z, TRUE>>}
  BY DEF Modes
<1>2. s = Speeds
  BY DEF Speeds
<1> HIDE DEF x, y, z
<1>3. \E a \in s, b \in BOOLEAN : m = <<a, b>>
  BY <1>1, Zenon
<1> HIDE DEF s
<1>4. PICK a \in s, b \in BOOLEAN : m = <<a, b>>
  BY <1>3
<1>5. m[1] = a /\ m[2] = b
  BY <1>4, Zenon
<1>6. m = <<m[1], m[2]>> /\ m[1] \in s /\ m[2] \in BOOLEAN
  BY <1>4, <1>5, Zenon
<1>7. QED BY <1>2, <1>6

LEMMA LinkModeFacts ==
  ASSUME ITypes, peer # NoPeer
  PROVE  /\ LinkMode \in Modes
         /\ LinkMode = <<LinkMode[1], LinkMode[2]>>
         /\ LinkMode[1] \in Speeds /\ LinkMode[2] \in BOOLEAN
<1>1. adv \in Advs /\ Common(peer) # {}
  BY Zenon DEF ITypes
<1>2. Common(peer) \subseteq Modes
  BY <1>1 DEF Advs, Common
<1>3. LinkMode \in Common(peer)
  BY <1>1, <1>2, HighestMode DEF LinkMode
<1>4. LinkMode \in Modes
  BY <1>2, <1>3
<1>5. QED BY <1>4, ModePairs

(* The wishes of a reset.                                                   *)
LEMMA ModesAdvertised ==
  ASSUME NEW m \in Media PROVE Advertised(m) \subseteq Modes
<1>1. m = AutoMedium \/ m \in FixedMedia
  BY Zenon DEF Media
<1>2. m \in FixedMedia => <<m.speed, m.fd>> \in Modes
  BY Zenon DEF FixedMedia
<1>3. QED BY <1>1, <1>2, Zenon DEF Advertised

-------------------------------------------------------------------------------
(* The mode and what both ends have EEE for belong to one link.              *)
LEMMA SameLink ==
  ASSUME chip' = chip, adv' = adv, peer' = peer
  PROVE  LinkMode' = LinkMode /\ SupportedEee' = SupportedEee
<1>1. Common(peer)' = Common(peer)
  BY DEF Common
<1>2. QED BY <1>1 DEF LinkMode, SupportedEee, HasEee, Media

(* The chip stays what it is, and with it the media there are.              *)
LEMMA TypesStep ==
  ASSUME ITypes, UNCHANGED <<chip, blocked>>,
         adv' \in Advs, medium' \in Media, frameSize' \in Frames,
         cable' \in Ends, peer' \in Ends, peer' # NoPeer => Common(peer)' # {},
         lsc' \in BOOLEAN, phyErr' \in BOOLEAN, linkUp' \in BOOLEAN,
         getLinkStatus' \in BOOLEAN, wl' \in {"idle", "check", "fc", "decide"}
  PROVE  ITypes'
<1>1. Media' = Media
  BY DEF Media, HasEee
<1>2. (medium \in Media)'
  BY <1>1, Zenon
<1>3. chip' \in Chips /\ blocked' \in BOOLEAN
  BY Zenon DEF ITypes
<1>4. QED BY <1>2, <1>3, Zenon DEF ITypes

LEMMA SameWishes ==
  ASSUME IWishes, UNCHANGED <<chip, blocked, adv, medium, frameSize, requestedMode,
                              currentMode, fcrth, ctrlFc>>
  PROVE  IWishes'
BY DEF IWishes, FcWatermarks

-------------------------------------------------------------------------------
LEMMA CableStep ==
  ASSUME IInv,
         cable' \in Ends,
         UNCHANGED <<confVars, peer, adv, lpi, lsc, macVars, wishVars, drvVars, wl, phyErr>>
  PROVE  IInv'
<1> USE DEF IInv, confVars, macVars, wishVars, drvVars
<1>1. ITypes'
  BY DEF ITypes, Common, Media, HasEee
<1>2. IWishes'
  BY SameWishes
<1>3. LinkMode' = LinkMode /\ SupportedEee' = SupportedEee
  BY SameLink
<1>4. IPhase' /\ IDown'
  BY DEF IPhase, IDown, Known
<1>5. IKnown'
  BY <1>3 DEF IKnown, Known, LtrRight, Resolved, Told
<1>6. QED BY <1>1, <1>2, <1>4, <1>5

(* The link comes or goes: what was known is outdated, and LSC says so.      *)
LEMMA PhyStep ==
  ASSUME IInv, lsc', peer' \in Ends, peer' # NoPeer => Common(peer') # {},
         UNCHANGED <<confVars, cable, adv, lpi, macVars, wishVars, drvVars, wl, phyErr>>
  PROVE  IInv'
<1> USE DEF IInv, confVars, macVars, wishVars, drvVars
<1>1. ITypes'
  BY DEF ITypes, Common, Media, HasEee
<1>2. IWishes'
  BY SameWishes
<1>3. IPhase' /\ IDown' /\ IKnown'
  BY DEF IPhase, IDown, IKnown, Known
<1>4. QED BY <1>1, <1>2, <1>3

(* A reset leaves no link and nothing of the one before.                    *)
LEMMA ResetStep ==
  ASSUME IInv, NEW m \in Media, NEW f \in Frames, NEW req,
         ~blocked => Fixup(req) \in FcModes,
         Reset(m, f, req), wl' = "idle"
  PROVE  IInv'
<1> USE DEF IInv
<1>1. ITypes'
  <2>1. /\ chip' = chip /\ blocked' = blocked /\ cable' = cable /\ peer' = NoPeer
        /\ lsc' = FALSE /\ phyErr' = FALSE /\ linkUp' = FALSE /\ getLinkStatus' = TRUE
        /\ medium' = m /\ frameSize' = f
    BY DEF Reset, ResetPhy, confVars
  <2>2. adv' \in Advs
    <3>1. adv' = IF blocked THEN [adv EXCEPT !.eee = Advertisement(m, Fixup(req)).eee]
                            ELSE Advertisement(m, Fixup(req))
      BY DEF Reset, ResetPhy
    <3> DEFINE a == Advertisement(m, Fixup(req))
    <3>2. a \in Advs
      BY ModesAdvertised DEF Advertisement, AdvPause, AdvAsym, Advs
    <3>3. adv \in Advs
      BY Zenon DEF ITypes
    <3> HIDE DEF a, IInv
    <3>4. a.eee \in SUBSET {100, 1000}
      BY <3>2 DEF Advs
    <3>5. [adv EXCEPT !.eee = a.eee] \in Advs
      BY <3>3, <3>4 DEF Advs
    <3>6. adv' = IF blocked THEN [adv EXCEPT !.eee = a.eee] ELSE a
      BY <3>1 DEF a
    <3>7. QED BY <3>2, <3>5, <3>6, Zenon
  <2>3. cable' \in Ends /\ ITypes
    BY <2>1, Zenon DEF ITypes
  <2>4. peer' \in Ends
    BY <2>1 DEF Ends
  <2> HIDE DEF IInv
  <2>5. QED BY <2>1, <2>2, <2>3, <2>4, TypesStep, Zenon
<1>2. IWishes'
  <2>1. SUFFICES ASSUME ~blocked PROVE IWishes'
    BY DEF Reset, confVars, IWishes
  <2>2. Fixup(req) \in FcModes
    BY <2>1
  <2>3. /\ requestedMode' = Fixup(req)
        /\ currentMode' = IF Forced(m) THEN "none" ELSE Fixup(req)
        /\ fcrth' = FcWatermarks(currentMode', f)
        /\ ctrlFc' = "none" /\ medium' = m /\ frameSize' = f /\ chip' = chip
    BY <2>1 DEF Reset, confVars
  <2>4. adv'.pause = AdvPause(Fixup(req)) /\ adv'.asym = AdvAsym(Fixup(req))
    BY <2>1 DEF Reset, ResetPhy, Advertisement
  <2>5. FcWatermarks("none", f) = 0
    BY DEF FcWatermarks
  <2>6. FcWatermarks(requestedMode, frameSize)' = FcWatermarks(Fixup(req), f)
    BY <2>3 DEF FcWatermarks
  <2>7. QED BY <2>2, <2>3, <2>4, <2>5, <2>6 DEF IWishes, FcModes, Pausing, Forced
<1>3. IPhase' /\ IDown' /\ IKnown'
  BY DEF Reset, ResetPhy, IPhase, IDown, IKnown
<1>4. QED BY <1>1, <1>2, <1>3

-------------------------------------------------------------------------------
LEMMA LscStep == ASSUME IInv, LscInterrupt PROVE IInv'
<1> USE DEF IInv, LscInterrupt, confVars, phyVars, macVars, wishVars
<1>1. ITypes' /\ IWishes'
  <2>1. ITypes'
    <3>1. /\ chip' = chip /\ blocked' = blocked /\ cable' = cable /\ peer' = peer /\ adv' = adv
          /\ medium' = medium /\ frameSize' = frameSize /\ linkUp' = linkUp
          /\ lsc' = FALSE /\ phyErr' = FALSE /\ getLinkStatus' = TRUE /\ wl' = "check"
      OBVIOUS
    <3>2. ITypes
      OBVIOUS
    <3> HIDE DEF IInv, LscInterrupt, confVars, phyVars, macVars, wishVars
    <3>3. /\ cable \in Ends /\ peer \in Ends /\ adv \in Advs /\ medium \in Media
          /\ frameSize \in Frames /\ linkUp \in BOOLEAN
          /\ peer # NoPeer => Common(peer) # {}
      BY <3>2, Zenon DEF ITypes
    <3>4. Common(peer)' = Common(peer)
      BY <3>1 DEF Common
    <3>5. /\ cable' \in Ends /\ peer' \in Ends /\ adv' \in Advs /\ medium' \in Media
          /\ frameSize' \in Frames /\ linkUp' \in BOOLEAN
          /\ peer' # NoPeer => Common(peer)' # {}
      BY <3>1, <3>3, <3>4
    <3>6. /\ lsc' \in BOOLEAN /\ phyErr' \in BOOLEAN /\ getLinkStatus' \in BOOLEAN
          /\ wl' \in {"idle", "check", "fc", "decide"} /\ UNCHANGED <<chip, blocked>>
      BY <3>1
    <3>7. QED BY <3>2, <3>5, <3>6, TypesStep, Zenon
  <2>2. QED BY <2>1, SameWishes
<1>2. IPhase' /\ IDown' /\ IKnown'
  BY DEF IPhase, IDown, IKnown
<1>3. QED BY <1>1, <1>2

LEMMA FailStep == ASSUME IInv, PhyFails PROVE IInv'
<1> USE DEF IInv, PhyFails, confVars, phyVars, macVars, wishVars, drvVars
<1>1. ITypes' /\ IWishes'
  <2>1. ITypes'
    BY DEF ITypes, Common, Media, HasEee
  <2>2. QED BY <2>1, SameWishes
<1>2. IPhase' /\ IKnown'
  BY DEF IPhase, IKnown, Known
<1>3. IDown'
  BY DEF IDown, IPhase
<1>4. QED BY <1>1, <1>2, <1>3

LEMMA CheckStep == ASSUME IInv, CheckForLink PROVE IInv'
<1> USE DEF IInv, CheckForLink, confVars, phyVars, wishVars
<1>1. ITypes' /\ IWishes'
  <2>1. ITypes'
    BY DEF ITypes, Common, Media, HasEee
  <2>2. QED BY <2>1, SameWishes
<1>2. IPhase'
  BY DEF IPhase
<1>3. IDown'
  BY DEF IDown
<1>4. IKnown'
  <2>1. SUFFICES ASSUME peer # NoPeer PROVE IKnown'
    BY DEF IKnown
  <2>2. LinkMode' = LinkMode
    BY SameLink
  <2>3. LtrRight'
    BY <2>1, <2>2 DEF LtrRight
  <2>4. QED BY <2>1, <2>3 DEF IKnown
<1>5. QED BY <1>1, <1>2, <1>3, <1>4

(* Flow control is resolved for the link the negotiation was complete for.  *)
LEMMA FcStep == ASSUME IInv, ConfigFc PROVE IInv'
<1> USE DEF IInv, ConfigFc, confVars, wishVars
<1>1. ITypes'
  BY DEF ITypes, Common, Media, HasEee
<1>2. IWishes'
  <2>1. SUFFICES ASSUME ~blocked PROVE IWishes'
    BY DEF IWishes
  <2>2. /\ requestedMode \in FcModes /\ currentMode \in FcModes
        /\ adv.pause = AdvPause(requestedMode) /\ adv.asym = AdvAsym(requestedMode)
        /\ fcrth = IF Forced(medium) THEN 0 ELSE FcWatermarks(requestedMode, frameSize)
        /\ currentMode \in Pausing \/ ctrlFc \in Pausing =>
             ~Forced(medium) /\ requestedMode \in Pausing
    BY <2>1 DEF IWishes
  <2>3. FcWatermarks(requestedMode, frameSize)' = FcWatermarks(requestedMode, frameSize)
    BY DEF FcWatermarks
  <2>4. CASE Forced(medium)
    <3>1. currentMode' = currentMode /\ ctrlFc' = ctrlFc
      BY <2>4
    <3>2. QED BY <2>1, <2>2, <2>3, <3>1 DEF IWishes
  <2>5. CASE ~Forced(medium)
    <3>1. ctrlFc' = currentMode' /\ currentMode' \in FcModes
      BY <2>2, <2>5 DEF ForceMacFc
    <3>2. /\ ~AutonegComplete => currentMode' = currentMode
          /\ AutonegComplete =>
               currentMode' = Negotiated(adv, peer, requestedMode, LinkMode[2])
      BY <2>2, <2>5
    <3>3. currentMode' \in Pausing => requestedMode \in Pausing
      <4>1. CASE ~AutonegComplete
        BY <2>2, <3>2, <4>1
      <4>2. CASE AutonegComplete /\ currentMode' = "full"
        <5>1. requestedMode = "full"
          BY <3>2, <4>2 DEF Negotiated
        <5>2. QED BY <5>1 DEF Pausing
      <4>3. CASE AutonegComplete /\ currentMode' = "tx_pause"
        <5>1. ~adv.pause /\ adv.asym
          BY <3>2, <4>3 DEF Negotiated
        <5>2. requestedMode = "tx_pause"
          BY <2>2, <5>1 DEF FcModes, AdvPause, AdvAsym
        <5>3. QED BY <5>2 DEF Pausing
      <4>4. QED BY <4>1, <4>2, <4>3 DEF Pausing
    <3>4. QED BY <2>1, <2>2, <2>3, <2>5, <3>1, <3>3 DEF IWishes, Forced
  <2>6. QED BY <2>4, <2>5
<1>3. IPhase'
  BY DEF IPhase, Known
<1>4. IDown'
  BY DEF IDown, IPhase
<1>5. IKnown'
  <2>1. SUFFICES ASSUME Known, peer # NoPeer PROVE IKnown'
    BY DEF IKnown, Known
  <2>2. LinkMode' = LinkMode /\ SupportedEee' = SupportedEee
    BY SameLink
  <2>3. LtrRight'
    BY <2>1, <2>2 DEF IKnown, LtrRight
  <2>4. ~linkUp => lpi' \subseteq SupportedEee
    <3>1. ~linkUp => lpi = {}
      BY DEF IDown
    <3>2. QED BY <3>1
  <2>5. ~linkUp => Resolved'
    <3>1. SUFFICES ASSUME ~linkUp PROVE Resolved'
      OBVIOUS
    <3>2. ctrlFc = "none"
      BY <3>1 DEF IDown
    <3>3. CASE Forced(medium) \/ currentMode \notin FcModes
      <4>1. ctrlFc' = "none" /\ currentMode' = currentMode /\ medium' = medium
        BY <3>2, <3>3
      <4>2. Forced(medium) \/ (blocked /\ currentMode \notin FcModes)
        BY <3>3 DEF IWishes
      <4>3. QED BY <4>1, <4>2 DEF Resolved, Forced
    <3>4. CASE ~(Forced(medium) \/ currentMode \notin FcModes)
      <4>1. /\ currentMode' = Negotiated(adv, peer, requestedMode, LinkMode[2])
            /\ ctrlFc' = currentMode' /\ currentMode' \in FcModes
        BY <2>1, <3>4 DEF AutonegComplete, ForceMacFc
      <4>2. QED BY <2>2, <3>4, <4>1 DEF Resolved, Forced
    <3>5. QED BY <3>3, <3>4
  <2>6. QED BY <2>2, <2>3, <2>4, <2>5 DEF IKnown
<1>6. QED BY <1>1, <1>2, <1>3, <1>4, <1>5

(* What is told is read from the PHY and computed for what was read.        *)
LEMMA UpStep == ASSUME IInv, SetLinkUp PROVE IInv'
<1> USE DEF IInv, SetLinkUp, confVars, phyVars, macVars, wishVars
<1>1. ITypes' /\ IWishes'
  <2>1. ITypes'
    BY DEF ITypes, Common, Media, HasEee
  <2>2. QED BY <2>1, SameWishes
<1>2. IPhase'
  BY DEF IPhase, Known
<1>3. IDown'
  BY DEF IDown
<1>4. IKnown'
  <2>1. SUFFICES ASSUME Known, peer # NoPeer PROVE IKnown'
    BY DEF IKnown, Known
  <2>2. LinkMode' = LinkMode /\ SupportedEee' = SupportedEee
    BY SameLink
  <2>3. LtrRight /\ Resolved /\ lpi \subseteq SupportedEee
    BY <2>1 DEF IKnown
  <2>4. LtrRight' /\ Resolved' /\ (lpi \subseteq SupportedEee)'
    BY <2>2, <2>3 DEF LtrRight, Resolved
  <2>5. /\ LinkMode = <<LinkMode[1], LinkMode[2]>>
        /\ LinkMode[1] \in Speeds /\ LinkMode[2] \in BOOLEAN
    BY <2>1, LinkModeFacts
  <2>6. PICK mode \in ReadModes :
          /\ eeeMode' = IF mode \in {<<100, TRUE>>, <<1000, TRUE>>}
                          THEN SupportedEee ELSE {}
          /\ reported' = [speed |-> mode[1], fd |-> mode[2],
                          fc |-> ctrlFc # "none" /\ mode[1] # 10 /\ mode[2],
                          eee |-> eeeMode' # {}]
          /\ busStall' = IF chip = "lpt" THEN BusStall(chip, frameSize, mode[1])
                                         ELSE busStall
    OBVIOUS
  <2>7. mode = LinkMode
    BY <2>1, <2>6 DEF ReadModes
  <2> DEFINE fast == mode \in {<<100, TRUE>>, <<1000, TRUE>>}
  <2>8. eeeMode' \subseteq SupportedEee
    <3>1. eeeMode' = IF fast THEN SupportedEee ELSE {}
      BY <2>6
    <3> HIDE DEF fast, SetLinkUp
    <3>2. QED BY <3>1, Zenon
  <2>9. reported'.speed = LinkMode[1] /\ reported'.fd = LinkMode[2]
    BY <2>6, <2>7
  <2>10. reported'.fc <=> (ctrlFc # "none" /\ LinkMode[1] # 10 /\ LinkMode[2])
    BY <2>6, <2>7
  <2>11. ctrlFc # "none" => LinkMode[2]
    BY <2>3, <2>5 DEF Resolved, Negotiated
  <2>12. chip = "lpt" => busStall' <= Tolerated(chip, frameSize, LinkMode[1])
    <3>1. chip \in Chips /\ frameSize \in Nat
      BY LinkConstants DEF ITypes
    <3>2. BusStall(chip, frameSize, LinkMode[1]) <= Tolerated(chip, frameSize, LinkMode[1])
      BY <2>5, <3>1, Stall
    <3>3. QED BY <2>6, <2>7, <3>2
  <2>13. Told'
    <3>1. <<reported'.speed, reported'.fd>> = LinkMode
      BY <2>5, <2>9
    <3>2. (reported.speed # 10 => (reported.fc <=> ctrlFc # "none"))'
      BY <2>9, <2>10, <2>11
    <3>3. QED BY <2>2, <2>12, <3>1, <3>2 DEF Told
  <2>14. QED BY <2>2, <2>4, <2>8, <2>13 DEF IKnown
<1>5. QED BY <1>1, <1>2, <1>3, <1>4

LEMMA DownStep == ASSUME IInv, StillDown PROVE IInv'
<1> USE DEF IInv, StillDown, confVars, phyVars, macVars, wishVars, drvVars
<1>1. ITypes' /\ IWishes'
  <2>1. ITypes'
    BY DEF ITypes, Common, Media, HasEee
  <2>2. QED BY <2>1, SameWishes
<1>2. IPhase' /\ IDown'
  BY DEF IPhase, IDown, Known
<1>3. IKnown'
  BY DEF IKnown, IPhase, Known
<1>4. QED BY <1>1, <1>2, <1>3

LEMMA EeeStep == ASSUME IInv, EnableEee PROVE IInv'
<1> USE DEF IInv, EnableEee, confVars, macVars, wishVars
<1>1. ITypes' /\ IWishes'
  <2>1. ITypes'
    BY DEF ITypes, Common, Media, HasEee
  <2>2. QED BY <2>1, SameWishes
<1>2. IPhase' /\ IDown'
  BY DEF IPhase, IDown, Known
<1>3. IKnown'
  <2>1. LinkMode' = LinkMode /\ SupportedEee' = SupportedEee
    BY SameLink
  <2>2. QED BY <2>1 DEF IKnown, Known, LtrRight, Resolved, Told
<1>4. QED BY <1>1, <1>2, <1>3

LEMMA StepInv == ASSUME IInv, [Next]_vars PROVE IInv'
<1>1. CASE Environment
  <2>1. CASE Unplug
    BY <2>1, CableStep DEF Unplug, Ends
  <2>2. ASSUME NEW p \in Peers, Plug(p) PROVE IInv'
    BY <2>2, CableStep DEF Plug, Ends
  <2>3. CASE PhyUp
    <3>1. peer' = cable /\ adv' = adv /\ cable # NoPeer /\ Common(cable) # {} /\ cable' = cable
      BY <2>3 DEF PhyUp
    <3>2. Common(peer)' = Common(cable)
      BY <3>1 DEF Common
    <3>3. cable \in Ends
      BY DEF IInv, ITypes
    <3>4. QED BY <2>3, <3>1, <3>2, <3>3, PhyStep DEF PhyUp
  <2>4. CASE PhyDown
    BY <2>4, PhyStep DEF PhyDown, Ends
  <2>5. QED BY <1>1, <2>1, <2>2, <2>3, <2>4 DEF Environment
<1> DEFINE sound(m, req) == m \in Media /\ (~blocked => Fixup(req) \in FcModes)
<1>2. ~blocked => requestedMode \in FcModes
  BY DEF IInv, IWishes
<1>3. Fixup(requestedMode) = requestedMode \/ Fixup(requestedMode) \in FcModes
  BY DEF Fixup, FcModes
<1>4. sound(medium, requestedMode)
  BY <1>2, <1>3 DEF IInv, ITypes
<1>5. frameSize \in Frames
  BY DEF IInv, ITypes
<1>6. CASE CheckLinkStatus
  <2>1. CASE LinkChanged
    BY <1>4, <1>5, <2>1, ResetStep DEF LinkChanged
  <2>2. CASE LinkLost
    BY <1>4, <1>5, <2>2, ResetStep DEF LinkLost
  <2>3. QED BY <1>6, <2>1, <2>2, LscStep, FailStep, CheckStep, FcStep, UpStep, DownStep
               DEF CheckLinkStatus
<1>7. CASE EnableEee
  BY <1>7, EeeStep
<1>8. CASE Requests
  <2>1. ASSUME NEW m \in Choices \cap Media, SelectMedium(m) PROVE IInv'
    <3> DEFINE req == IF m = medium THEN requestedMode ELSE RequestedMode(m)
    <3>1. ~blocked => Fixup(req) \in FcModes
      <4>1. RequestedMode(m) \in {"default", "full", "none", requestedMode}
        BY DEF RequestedMode
      <4>2. req \in {"default", "full", "none", requestedMode}
        BY <4>1
      <4> HIDE DEF req
      <4>3. QED BY <1>2, <4>2 DEF Fixup, FcModes
    <3>2. Reset(m, frameSize, req) /\ wl' = "idle"
      BY <2>1 DEF SelectMedium
    <3> HIDE DEF req
    <3>3. QED BY <1>5, <3>1, <3>2, ResetStep
  <2>2. ASSUME NEW f \in Frames, SetMaxPacketSize(f) PROVE IInv'
    <3>1. Reset(medium, f, requestedMode) /\ wl' = "idle"
      BY <2>2 DEF SetMaxPacketSize
    <3>2. QED BY <1>4, <3>1, ResetStep
  <2>3. QED BY <1>8, <2>1, <2>2 DEF Requests
<1>9. CASE UNCHANGED vars
  <2>1. UNCHANGED <<confVars, peer, adv, lpi, lsc, macVars, wishVars, drvVars, wl, phyErr>>
        /\ cable' = cable
    BY <1>9 DEF vars, phyVars
  <2>2. cable' \in Ends
    BY <2>1 DEF IInv, ITypes
  <2>3. QED BY <2>1, <2>2, CableStep
<1>10. QED BY <1>1, <1>6, <1>7, <1>8, <1>9 DEF Next

LEMMA InitInv == ASSUME Init PROVE IInv
<1> USE DEF Init
<1>1. ITypes
  <2>1. AutoMedium \in Media
    BY DEF Media
  <2>2. adv \in Advs
    <3> DEFINE e == IF HasEee THEN {100, 1000} ELSE {}
    <3>1. InitialAdv \in Advs
      BY DEF InitialAdv, Advs
    <3>2. e \in SUBSET {100, 1000}
      OBVIOUS
    <3>3. adv = [InitialAdv EXCEPT !.eee = e]
      OBVIOUS
    <3> HIDE DEF e, Init
    <3>4. QED BY <3>1, <3>2, <3>3 DEF Advs
  <2>3. QED BY <2>1, <2>2, LinkConstants DEF ITypes, Ends
<1>2. IWishes
  <2>1. SUFFICES ASSUME ~blocked PROVE IWishes
    BY DEF IWishes
  <2>2. requestedMode \in {"rx_pause", "full"} /\ currentMode = requestedMode
    BY <2>1 DEF Fixup
  <2>3. adv.pause = TRUE /\ adv.asym = TRUE
    BY Zenon DEF InitialAdv
  <2>4. ~Forced(medium)
    BY DEF Forced, AutoMedium
  <2>5. QED BY <2>2, <2>3, <2>4 DEF IWishes, AdvPause, AdvAsym, FcModes, Pausing
<1>3. IPhase /\ IDown /\ IKnown
  BY DEF IPhase, IDown, IKnown
<1>4. QED BY <1>1, <1>2, <1>3 DEF IInv

LEMMA Inductive == Spec => []IInv
BY InitInv, StepInv, PTL DEF Spec

-------------------------------------------------------------------------------
(* Once every interrupt was served the driver agrees with the PHY about     *)
(* whether there is a link, however often the PHY changed its mind between   *)
(* two accesses of checkLinkStatus: LSC stays set or get_link_status follows.*)
THEOREM LinkSettles == Spec => []Settled
<1>1. IInv => Settled
  BY DEF IInv, IPhase, Settled, Quiet, Known
<1>2. QED BY <1>1, Inductive, PTL

(* e1000e_config_fc_after_link_up sends and obeys pause frames exactly as   *)
(* both ends negotiated, for any partner, medium and order of link changes, *)
(* and never sends them without a high water mark.                          *)
THEOREM PausesAgreed == Spec => []PausesNegotiated
<1>1. ASSUME IInv PROVE PausesNegotiated
  <2> USE <1>1 DEF IInv
  <2>1. SUFFICES ASSUME ~blocked PROVE PausesNegotiated
    BY DEF PausesNegotiated
  <2>2. /\ requestedMode \in FcModes
        /\ adv.pause = AdvPause(requestedMode) /\ adv.asym = AdvAsym(requestedMode)
        /\ fcrth = IF Forced(medium) THEN 0 ELSE FcWatermarks(requestedMode, frameSize)
        /\ ctrlFc \in Pausing => ~Forced(medium) /\ requestedMode \in Pausing
    BY <2>1 DEF IWishes
  <2>3. ctrlFc \in Pausing => fcrth > 0
    <3>1. WaterMarks(chip, frameSize).high > 0
      BY HighWater, LinkConstants DEF ITypes
    <3>2. QED BY <2>2, <3>1 DEF FcWatermarks, Pausing
  <2>4. ASSUME Quiet, linkUp
        PROVE  LET on == LinkMode[2] /\ ~Forced(medium)
               IN  /\ ctrlFc \in {"rx_pause", "full"} <=> on /\ Obeys(peer)
                   /\ ctrlFc \in {"tx_pause", "full"} <=> on /\ Sends(peer)
    <3>1. Known /\ wl = "idle" /\ peer # NoPeer
      BY <2>4 DEF Quiet, Known, IPhase
    <3>2. Resolved
      BY <3>1 DEF IKnown
    <3>3. peer.pause \in BOOLEAN /\ peer.asym \in BOOLEAN
      BY <3>1, LinkConstants DEF ITypes, Ends
    <3>4. LinkMode[2] \in BOOLEAN
      BY <3>1, LinkModeFacts
    <3>5. CASE Forced(medium)
      BY <2>1, <3>2, <3>5 DEF Resolved
    <3>6. CASE ~Forced(medium)
      <4>1. ctrlFc = Negotiated(adv, peer, requestedMode, LinkMode[2])
        BY <2>1, <3>2, <3>6 DEF Resolved
      <4>2. QED BY <2>2, <3>3, <3>4, <3>6, <4>1
                DEF Negotiated, Obeys, Sends, AdvPause, AdvAsym, FcModes
    <3>7. QED BY <3>5, <3>6
  <2>5. QED BY <2>3, <2>4, Zenon DEF PausesNegotiated, Pausing
<1>2. QED BY <1>1, Inductive, PTL

(* The medium setLinkUp reports, and the latencies checkForLink and         *)
(* setLinkUp claim, are those of the link there is; without a link no       *)
(* latency is claimed.                                                       *)
THEOREM MacosToldTrue == Spec => []ToldTrue
<1>1. ASSUME IInv PROVE ToldTrue
  <2> USE <1>1 DEF IInv
  <2>1. ASSUME Quiet, linkUp PROVE Told /\ LtrRight
    <3>1. Known /\ wl = "idle" /\ peer # NoPeer
      BY <2>1 DEF Quiet, Known, IPhase
    <3>2. QED BY <3>1 DEF IKnown
  <2>2. Quiet /\ ~linkUp => ltr = NoLtr
    BY DEF Quiet, IDown
  <2>3. QED BY <2>1, <2>2 DEF ToldTrue, Told, LtrRight
<1>2. QED BY <1>1, Inductive, PTL

(* LPI_CTRL allows low power idle only for speeds both ends of the present  *)
(* link agreed on: no reset, change of partner or delayed timerAction leaves*)
(* one of an earlier link behind.                                            *)
THEOREM IdleAgreed == Spec => []LpiNegotiated
<1>1. ASSUME IInv PROVE LpiNegotiated
  <2> USE <1>1 DEF IInv
  <2>1. SUFFICES ASSUME Quiet, lpi # {} PROVE linkUp /\ lpi \subseteq SupportedEee
    BY DEF LpiNegotiated
  <2>2. linkUp
    BY <2>1 DEF Quiet, IDown
  <2>3. Known /\ wl = "idle" /\ peer # NoPeer
    BY <2>1, <2>2 DEF Quiet, Known, IPhase
  <2>4. QED BY <2>2, <2>3 DEF IKnown
<1>2. QED BY <1>1, Inductive, PTL

-----------------------------------------------------------------------------
(* The way to the PHY: the shape of the programs.                           *)

(* Steps between the semaphore's acquisition and its release.               *)
Inner(s) ==
  /\ s.k \in {"addr", "mdic", "kaddr", "kdata"}
  /\ s.k = "addr" => s.v \in {1, 2}
  /\ s.err \in {"out", "next", "skip"}

(* A piece of a program that holds the semaphore; what a failing step skips *)
(* is in the piece, too.                                                     *)
IsBody(p) ==
  /\ \E S : p \in Seq(S)
  /\ \A n \in 1 .. Len(p) : Inner(p[n]) /\ (p[n].err = "skip" => n < Len(p))

Entry(p) == IF p[1].k = "tas" THEN 1 ELSE 2

(* A program that has acquired the semaphore.                               *)
Opened(p, e, err) ==
  /\ \E S : p \in Seq(S)
  /\ e \in {1, 2} /\ Len(p) \in Nat /\ e + 3 <= Len(p)
  /\ e = 2 => p[1].k = "addr" /\ p[1].v \in {1, 2}
  /\ p[e].k = "tas" /\ p[e + 1].k = "wait" /\ p[e + 2].k = "set" /\ p[e + 3].k = "verify"
  /\ \A n \in e .. e + 3 : p[n].err = err
  /\ \A n \in e + 4 .. Len(p) : Inner(p[n]) /\ (p[n].err = "skip" => n < Len(p))

(* And a whole one: it ends with the release, or with a reset of the chip.  *)
Session(p, err, last) ==
  LET e == Entry(p) IN
  /\ DOMAIN p = 1 .. Len(p) /\ Len(p) \in Nat /\ e + 5 <= Len(p)
  /\ e = 2 => p[1].k = "addr" /\ p[1].v \in {1, 2}
  /\ p[e].k = "tas" /\ p[e + 1].k = "wait" /\ p[e + 2].k = "set" /\ p[e + 3].k = "verify"
  /\ \A n \in e .. e + 3 : p[n].err = err
  /\ \A n \in e + 4 .. Len(p) - 2 : Inner(p[n]) /\ (p[n].err = "skip" => n < Len(p) - 2)
  /\ p[Len(p) - 1].k = last
  /\ p[Len(p)].k = IF last = "rel" THEN "clr" ELSE "clrheld"

(* A sequence over a set is one over every larger set.                      *)
LEMMA SeqWider ==
  ASSUME NEW S, NEW T, NEW p \in Seq(S) PROVE p \in Seq(S \cup T) /\ p \in Seq(T \cup S)
OBVIOUS

(* The elements of a concatenation.                                         *)
LEMMA ConcatAt ==
  ASSUME NEW p, NEW q, \E S : p \in Seq(S), \E S : q \in Seq(S)
  PROVE  /\ \E S : p \o q \in Seq(S)
         /\ Len(p) \in Nat /\ Len(q) \in Nat
         /\ Len(p \o q) = Len(p) + Len(q)
         /\ \A n \in 1 .. Len(p) : (p \o q)[n] = p[n]
         /\ \A n \in 1 .. Len(q) : (p \o q)[Len(p) + n] = q[n]
<1>1. PICK S : p \in Seq(S)
  OBVIOUS
<1>2. PICK T : q \in Seq(T)
  OBVIOUS
<1>3. p \in Seq(S \cup T) /\ q \in Seq(S \cup T)
  BY <1>1, <1>2, SeqWider
<1>4. Len(p) \in Nat /\ Len(q) \in Nat
  BY <1>1, <1>2
<1> QED
  BY <1>3, <1>4, ConcatProperties

(* Bodies are closed under concatenation; a single step is one unless it     *)
(* skips, and so is none.                                                   *)
LEMMA BodyConcat ==
  ASSUME NEW p, NEW q, IsBody(p), IsBody(q) PROVE IsBody(p \o q)
<1>1. (\E S : p \in Seq(S)) /\ (\E S : q \in Seq(S))
  BY DEF IsBody
<1>2. /\ \E S : p \o q \in Seq(S)
      /\ Len(p) \in Nat /\ Len(q) \in Nat
      /\ Len(p \o q) = Len(p) + Len(q)
      /\ \A n \in 1 .. Len(p) : (p \o q)[n] = p[n]
      /\ \A n \in 1 .. Len(q) : (p \o q)[Len(p) + n] = q[n]
  BY <1>1, ConcatAt
<1>3. ASSUME NEW n \in 1 .. Len(p \o q)
      PROVE  /\ Inner((p \o q)[n])
             /\ (p \o q)[n].err = "skip" => n < Len(p \o q)
  <2>1. CASE n <= Len(p)
    <3>1. n \in 1 .. Len(p) /\ (p \o q)[n] = p[n]
      BY <1>2, <2>1
    <3>2. Inner(p[n]) /\ (p[n].err = "skip" => n < Len(p))
      BY <3>1 DEF IsBody
    <3> QED
      BY <1>2, <3>1, <3>2
  <2>2. CASE n > Len(p)
    <3>1. PICK m \in 1 .. Len(q) : n = Len(p) + m
      <4>1. n - Len(p) \in 1 .. Len(q) /\ n = Len(p) + (n - Len(p))
        BY <1>2, <2>2
      <4> QED
        BY <4>1
    <3>2. (p \o q)[n] = q[m]
      BY <1>2, <3>1
    <3>3. Inner(q[m]) /\ (q[m].err = "skip" => m < Len(q))
      BY DEF IsBody
    <3> QED
      BY <1>2, <3>1, <3>2, <3>3
  <2> QED
    BY <1>2, <2>1, <2>2
<1> QED
  BY <1>2, <1>3 DEF IsBody

(* One step.                                                                *)
LEMMA BodyOne ==
  ASSUME NEW s, Inner(s), s.err # "skip" PROVE IsBody(<<s>>)
<1> DEFINE p == <<s>>
<1>1. p \in Seq({s}) /\ Len(p) = 1 /\ p[1] = s
  OBVIOUS
<1> HIDE DEF p
<1>2. \A n \in 1 .. Len(p) : p[n] = s
  BY <1>1
<1>3. IsBody(p)
  BY <1>1, <1>2 DEF IsBody
<1> QED
  BY <1>3 DEF p

(* No step.                                                                 *)
LEMMA BodyNone == IsBody(<<>>)
<1>1. <<>> \in Seq({}) /\ Len(<<>>) = 0
  OBVIOUS
<1> QED
  BY <1>1 DEF IsBody

(* A body follows an acquisition.                                           *)
LEMMA OpenedConcat ==
  ASSUME NEW p, NEW e, NEW err, NEW q, Opened(p, e, err), IsBody(q) PROVE Opened(p \o q, e, err)
<1>1. (\E S : p \in Seq(S)) /\ (\E S : q \in Seq(S))
  BY DEF Opened, IsBody
<1>2. /\ \E S : p \o q \in Seq(S)
      /\ Len(p) \in Nat /\ Len(q) \in Nat
      /\ Len(p \o q) = Len(p) + Len(q)
      /\ \A n \in 1 .. Len(p) : (p \o q)[n] = p[n]
      /\ \A n \in 1 .. Len(q) : (p \o q)[Len(p) + n] = q[n]
  BY <1>1, ConcatAt
<1>3. e \in {1, 2} /\ e + 3 <= Len(p)
  BY DEF Opened
<1>4. ASSUME NEW n \in e + 4 .. Len(p \o q)
      PROVE  /\ Inner((p \o q)[n])
             /\ (p \o q)[n].err = "skip" => n < Len(p \o q)
  <2>1. CASE n <= Len(p)
    <3>1. n \in 1 .. Len(p) /\ n \in e + 4 .. Len(p) /\ (p \o q)[n] = p[n]
      BY <1>2, <1>3, <2>1
    <3>2. Inner(p[n]) /\ (p[n].err = "skip" => n < Len(p))
      BY <3>1 DEF Opened
    <3> QED
      BY <1>2, <3>1, <3>2
  <2>2. CASE n > Len(p)
    <3>1. PICK m \in 1 .. Len(q) : n = Len(p) + m
      <4>1. n - Len(p) \in 1 .. Len(q) /\ n = Len(p) + (n - Len(p))
        BY <1>2, <1>3, <2>2
      <4> QED
        BY <4>1
    <3>2. (p \o q)[n] = q[m]
      BY <1>2, <3>1
    <3>3. Inner(q[m]) /\ (q[m].err = "skip" => m < Len(q))
      BY DEF IsBody
    <3> QED
      BY <1>2, <3>1, <3>2, <3>3
  <2> QED
    BY <1>2, <1>3, <2>1, <2>2
<1>5. \A n \in 1 .. e + 3 : (p \o q)[n] = p[n]
  BY <1>2, <1>3
<1>6. 1 \in 1 .. e + 3 /\ e \in 1 .. e + 3 /\ e + 1 \in 1 .. e + 3 /\ e + 2 \in 1 .. e + 3
      /\ e + 3 \in 1 .. e + 3 /\ \A n \in e .. e + 3 : n \in 1 .. e + 3
  BY <1>3
<1>7. \A n \in e .. e + 3 : (p \o q)[n].err = err
  BY <1>5, <1>6 DEF Opened
<1>8. Len(p \o q) \in Nat /\ e + 3 <= Len(p \o q)
  BY <1>2, <1>3
<1> QED
  BY <1>2, <1>4, <1>5, <1>6, <1>7, <1>8 DEF Opened

(* e1000_acquire_swflag_ich8lan begins a session ...                         *)
LEMMA AcquireOpens ==
  ASSUME NEW err PROVE Opened(Acquire(err), 1, err)
<1> DEFINE k == <<"tas", "wait", "set", "verify">>
           s(n) == Step(k[n], 0, 0, None, err)
<1>1. Acquire(err) = [n \in 1 .. 4 |-> s(n)]
  BY DEF Acquire
<1>2. k[1] = "tas" /\ k[2] = "wait" /\ k[3] = "set" /\ k[4] = "verify"
  OBVIOUS
<1>3. \A n \in 1 .. 4 : s(n).k = k[n] /\ s(n).err = err
  BY DEF Step
<1> HIDE DEF k, s
<1>4. Acquire(err) \in Seq({s(n) : n \in 1 .. 4}) /\ Len(Acquire(err)) = 4
      /\ \A n \in 1 .. 4 : Acquire(err)[n] = s(n)
  BY <1>1
<1> QED
  BY <1>2, <1>3, <1>4 DEF Opened

(* ... with an assignment of phy.addr in front of it in the hv accessors.    *)
LEMMA AddrAcquireOpens ==
  ASSUME NEW err, NEW a \in {1, 2} PROVE Opened(<<Addr(a)>> \o Acquire(err), 2, err)
<1> DEFINE p == <<Addr(a)>>
           q == Acquire(err)
<1>1. p \in Seq({Addr(a)}) /\ Len(p) = 1 /\ p[1] = Addr(a)
  OBVIOUS
<1>2. Addr(a).k = "addr" /\ Addr(a).v = a
  BY DEF Addr, Step
<1>3. Opened(q, 1, err)
  BY AcquireOpens
<1> HIDE DEF p, q
<1>4. (\E S : p \in Seq(S)) /\ (\E S : q \in Seq(S))
  BY <1>1, <1>3 DEF Opened
<1>5. /\ \E S : p \o q \in Seq(S)
      /\ Len(p) \in Nat /\ Len(q) \in Nat
      /\ Len(p \o q) = Len(p) + Len(q)
      /\ \A n \in 1 .. Len(p) : (p \o q)[n] = p[n]
      /\ \A n \in 1 .. Len(q) : (p \o q)[Len(p) + n] = q[n]
  BY <1>4, ConcatAt
<1>6. Len(q) >= 4 /\ \A n \in 2 .. Len(p \o q) : n - 1 \in 1 .. Len(q) /\ 1 + (n - 1) = n
  BY <1>1, <1>3, <1>5 DEF Opened
<1>7. \A n \in 2 .. Len(p \o q) : (p \o q)[n] = q[n - 1]
  BY <1>1, <1>5, <1>6
<1>8. /\ (p \o q)[1] = Addr(a) /\ (p \o q)[2] = q[1] /\ (p \o q)[3] = q[2]
      /\ (p \o q)[4] = q[3] /\ (p \o q)[5] = q[4]
  BY <1>1, <1>5, <1>6, <1>7
<1>9. /\ q[1].k = "tas" /\ q[2].k = "wait" /\ q[3].k = "set" /\ q[4].k = "verify"
      /\ \A n \in 1 .. 4 : q[n].err = err
      /\ \A n \in 5 .. Len(q) : Inner(q[n]) /\ (q[n].err = "skip" => n < Len(q))
  BY <1>3 DEF Opened
<1>10. \A n \in 2 .. 5 : (p \o q)[n].err = err
  <2>1. \A n \in 2 .. 5 : n - 1 \in 1 .. 4 /\ n \in 2 .. Len(p \o q)
    BY <1>1, <1>5, <1>6
  <2> QED
    BY <1>7, <1>9, <2>1
<1>11. ASSUME NEW n \in 6 .. Len(p \o q)
       PROVE  Inner((p \o q)[n]) /\ ((p \o q)[n].err = "skip" => n < Len(p \o q))
  <2>1. n - 1 \in 5 .. Len(q) /\ (p \o q)[n] = q[n - 1] /\ Len(p \o q) = 1 + Len(q)
    BY <1>1, <1>5, <1>7
  <2> QED
    BY <1>5, <1>9, <2>1
<1> QED
  BY <1>1, <1>2, <1>5, <1>6, <1>8, <1>9, <1>10, <1>11 DEF Opened, p, q

(* The last two steps make it a session.                                    *)
LEMMA OpenedEnds ==
  ASSUME NEW p, NEW e, NEW err, Opened(p, e, err), NEW r, NEW c,
         r.k \in {"rel", "rst"}, c.k = IF r.k = "rel" THEN "clr" ELSE "clrheld"
  PROVE  Session(p \o <<r, c>>, err, r.k) /\ Entry(p \o <<r, c>>) = e
<1> DEFINE q == <<r, c>>
<1>1. q \in Seq({r, c}) /\ Len(q) = 2 /\ q[1] = r /\ q[2] = c
  OBVIOUS
<1> HIDE DEF q
<1>2. (\E S : p \in Seq(S)) /\ (\E S : q \in Seq(S))
  BY <1>1 DEF Opened
<1>3. /\ Len(p) \in Nat /\ DOMAIN (p \o q) = 1 .. Len(p \o q)
      /\ Len(p \o q) = Len(p) + 2
      /\ \A n \in 1 .. Len(p) : (p \o q)[n] = p[n]
      /\ (p \o q)[Len(p) + 1] = r /\ (p \o q)[Len(p) + 2] = c
  <2>1. /\ Len(p) \in Nat /\ Len(p \o q) = Len(p) + Len(q)
        /\ \A n \in 1 .. Len(p) : (p \o q)[n] = p[n]
        /\ \A n \in 1 .. Len(q) : (p \o q)[Len(p) + n] = q[n]
    BY <1>2, ConcatAt
  <2>2. PICK S : p \o q \in Seq(S)
    BY <1>2, ConcatAt
  <2>3. DOMAIN (p \o q) = 1 .. Len(p \o q)
    BY <2>2
  <2> QED
    BY <1>1, <2>1, <2>3
<1>4. e \in {1, 2} /\ e + 3 <= Len(p)
  BY DEF Opened
<1>5. \A n \in 1 .. e + 3 : (p \o q)[n] = p[n]
  BY <1>3, <1>4
<1>6. 1 \in 1 .. e + 3 /\ e \in 1 .. e + 3 /\ e + 1 \in 1 .. e + 3 /\ e + 2 \in 1 .. e + 3
      /\ e + 3 \in 1 .. e + 3 /\ \A n \in e .. e + 3 : n \in 1 .. e + 3
  BY <1>4
<1>7. Entry(p \o q) = e
  BY <1>4, <1>5, <1>6 DEF Opened, Entry
<1>8. /\ e = 2 => (p \o q)[1].k = "addr" /\ (p \o q)[1].v \in {1, 2}
      /\ (p \o q)[e].k = "tas" /\ (p \o q)[e + 1].k = "wait" /\ (p \o q)[e + 2].k = "set"
      /\ (p \o q)[e + 3].k = "verify"
      /\ \A n \in e .. e + 3 : (p \o q)[n].err = err
  BY <1>5, <1>6 DEF Opened
<1>9. ASSUME NEW n \in e + 4 .. Len(p \o q) - 2
      PROVE  Inner((p \o q)[n]) /\ ((p \o q)[n].err = "skip" => n < Len(p \o q) - 2)
  <2>1. n \in 1 .. Len(p) /\ n \in e + 4 .. Len(p) /\ Len(p \o q) - 2 = Len(p)
    BY <1>3, <1>4
  <2> QED
    BY <1>3, <2>1 DEF Opened
<1>10. /\ Len(p \o q) \in Nat /\ e + 5 <= Len(p \o q)
       /\ Len(p \o q) - 1 = Len(p) + 1 /\ Len(p \o q) = Len(p) + 2
  BY <1>3, <1>4
<1>11. Session(p \o q, err, r.k)
  <2> DEFINE w == p \o q
             z == Entry(w)
  <2>1. z = e
    BY <1>7
  <2>2. /\ DOMAIN w = 1 .. Len(w) /\ Len(w) \in Nat /\ z + 5 <= Len(w)
        /\ w[Len(w) - 1].k = r.k /\ w[Len(w)].k = IF r.k = "rel" THEN "clr" ELSE "clrheld"
    BY <1>3, <1>10, <2>1
  <2>3. /\ z = 2 => w[1].k = "addr" /\ w[1].v \in {1, 2}
        /\ w[z].k = "tas" /\ w[z + 1].k = "wait" /\ w[z + 2].k = "set" /\ w[z + 3].k = "verify"
    BY <1>8, <2>1
  <2>4. \A n \in z .. z + 3 : w[n].err = err
    BY <1>8, <2>1
  <2>5. \A n \in z + 4 .. Len(w) - 2 : Inner(w[n]) /\ (w[n].err = "skip" => n < Len(w) - 2)
    BY <1>9, <2>1
  <2> HIDE DEF w
  <2>6. Session(w, err, r.k)
    BY <2>2, <2>3, <2>4, <2>5, Zenon DEF Session
  <2> QED
    BY <2>6 DEF w
<1> QED
  BY <1>7, <1>11 DEF q

-----------------------------------------------------------------------------
(* What the accessors are made of.                                          *)
LEMMA Bodies ==
  /\ \A a \in {1, 2} : IsBody(<<Addr(a)>>)
  /\ \A r, v, goal : IsBody(<<Mdic(r, v, goal)>>)
  /\ \A act : IsBody(<<Enabling(act)>>)
<1>1. ASSUME NEW a \in {1, 2} PROVE IsBody(<<Addr(a)>>)
  <2>1. Addr(a).k = "addr" /\ Addr(a).v = a /\ Addr(a).err = "out"
    BY DEF Addr, Step
  <2> QED
    BY <2>1, BodyOne DEF Inner
<1>2. ASSUME NEW r, NEW v, NEW goal PROVE IsBody(<<Mdic(r, v, goal)>>)
  <2>1. Mdic(r, v, goal).k = "mdic" /\ Mdic(r, v, goal).err = "out"
    BY DEF Mdic, Step
  <2> QED
    BY <2>1, BodyOne DEF Inner
<1>3. ASSUME NEW act PROVE IsBody(<<Enabling(act)>>)
  <2>1. Enabling(act).k = "mdic" /\ Enabling(act).err = "out"
    BY DEF Enabling, Mdic, Step
  <2> QED
    BY <2>1, BodyOne DEF Inner
<1> QED
  BY <1>1, <1>2, <1>3

(* Two and three steps.                                                     *)
LEMMA BodyTwo ==
  ASSUME NEW r, NEW s, Inner(r), Inner(s), s.err # "skip" PROVE IsBody(<<r, s>>)
<1> DEFINE p == <<r, s>>
<1>1. p \in Seq({r, s}) /\ Len(p) = 2 /\ p[1] = r /\ p[2] = s
  OBVIOUS
<1> HIDE DEF p
<1>2. \A n \in 1 .. Len(p) : (n = 1 /\ p[n] = r) \/ (n = 2 /\ p[n] = s)
  BY <1>1
<1>3. IsBody(p)
  BY <1>1, <1>2 DEF IsBody
<1> QED
  BY <1>3 DEF p

LEMMA BodyThree ==
  ASSUME NEW r, NEW s, NEW u, Inner(r), Inner(s), Inner(u),
         r.err # "skip", s.err # "skip", u.err # "skip"
  PROVE  IsBody(<<r, s, u>>)
<1> DEFINE p == <<r, s, u>>
<1>1. p \in Seq({r, s, u}) /\ Len(p) = 3 /\ p[1] = r /\ p[2] = s /\ p[3] = u
  OBVIOUS
<1> HIDE DEF p
<1>2. \A n \in 1 .. Len(p) : p[n] \in {r, s, u}
  BY <1>1
<1>3. IsBody(p)
  BY <1>1, <1>2 DEF IsBody
<1> QED
  BY <1>3 DEF p

(* The accesses of pages 769 and 800 and of the debug port.                  *)
LEMMA WakeupBodies ==
  /\ \A page : IsBody(SetPageIgp(page))
  /\ IsBody(EnableWakeupAccess)
  /\ \A what : IsBody(DisableWakeupAccess(what))
  /\ \A reg : IsBody(AccessWakeup(reg)) /\ IsBody(AccessDebug(reg))
  /\ \A reg : IsBody(WakeupPage(reg))
<1>1. ASSUME NEW page PROVE IsBody(SetPageIgp(page))
  <2>1. /\ SetPageIgp(page) = <<Addr(1), Mdic(IGP01E1000_PHY_PAGE_SELECT, page, <<"sel", 1>>)>>
    BY DEF SetPageIgp
  <2>2. Inner(Addr(1)) /\ \A v, g : Inner(Mdic(IGP01E1000_PHY_PAGE_SELECT, v, g))
    BY DEF Addr, Mdic, Step, Inner
  <2>3. \A v, g : Mdic(IGP01E1000_PHY_PAGE_SELECT, v, g).err # "skip"
    BY DEF Mdic, Step
  <2> QED
    BY <2>1, <2>2, <2>3, BodyTwo
<1>2. IsBody(EnableWakeupAccess)
  <2>1. IsBody(<<Enabling("save"), Enabling("enable")>>)
    <3>1. \A act : Inner(Enabling(act)) /\ Enabling(act).err # "skip"
      BY DEF Enabling, Mdic, Step, Inner
    <3> QED
      BY <3>1, BodyTwo
  <2>2. IsBody(<<Addr(1)>> \o SetPageIgp(BM_PORT_CTRL_PAGE))
    BY <1>1, Bodies, BodyConcat
  <2>3. IsBody((<<Addr(1)>> \o SetPageIgp(BM_PORT_CTRL_PAGE)) \o <<Enabling("save"), Enabling("enable")>>)
    BY <2>1, <2>2, BodyConcat
  <2>4. IsBody(((<<Addr(1)>> \o SetPageIgp(BM_PORT_CTRL_PAGE)) \o <<Enabling("save"), Enabling("enable")>>)
               \o SetPageIgp(BM_WUC_PAGE))
    BY <1>1, <2>3, BodyConcat
  <2> QED
    BY <2>4 DEF EnableWakeupAccess
<1>3. ASSUME NEW what PROVE IsBody(DisableWakeupAccess(what))
  BY <1>1, Bodies, BodyConcat DEF DisableWakeupAccess
<1>4. ASSUME NEW reg, NEW err \in {"out", "skip"} PROVE IsBody(Wakeup(reg, err))
  <2> DEFINE r == Step("mdic", 17, reg, <<"addr", 800>>, err)
             s == Step("mdic", 18, 0, <<"wu", reg>>, IF err = "skip" THEN "next" ELSE err)
  <2>1. Inner(r) /\ Inner(s) /\ s.err # "skip"
    BY DEF Step, Inner
  <2>2. Wakeup(reg, err) = <<r, s>>
    BY DEF Wakeup
  <2> HIDE DEF r, s
  <2> QED
    BY <2>1, <2>2, BodyTwo
<1>5. ASSUME NEW reg PROVE IsBody(AccessWakeup(reg))
  <2>1. IsBody(EnableWakeupAccess \o Wakeup(reg, "out"))
    BY <1>2, <1>4, BodyConcat
  <2> QED
    BY <1>3, <2>1, BodyConcat DEF AccessWakeup
<1>6. ASSUME NEW reg PROVE IsBody(AccessDebug(reg))
  <2>1. /\ Inner(Addr(2)) /\ Addr(2).err # "skip"
        /\ \A r, v, g : Inner(Mdic(r, v, g)) /\ Mdic(r, v, g).err # "skip"
    BY DEF Addr, Mdic, Step, Inner
  <2> QED
    BY <2>1, BodyThree DEF AccessDebug
<1>7. ASSUME NEW reg PROVE IsBody(WakeupPage(reg))
  <2>1. AddrForHvPage(BM_WUC_PAGE) \in {1, 2}
    BY DEF AddrForHvPage
  <2> QED
    BY <1>4, <2>1, Bodies, BodyConcat DEF WakeupPage
<1> QED
  BY <1>1, <1>2, <1>3, <1>5, <1>6, <1>7

(* The accesses of the hv PHYs, and those of their EMI port.                 *)
LEMMA HvBodies ==
  /\ \A page : AddrForHvPage(page) \in {1, 2}
  /\ \A page, reg : \A a \in {1, 2} : IsBody(HvPaged(page, reg, a))
  /\ \A page, reg : IsBody(HvBody(page, reg, TRUE)) /\ IsBody(HvBody(page, reg, FALSE))
  /\ \A page, reg : IsBody(HvLocked(page, reg))
  /\ \A reg : IsBody(AccessEmi(reg))
<1>1. \A page : AddrForHvPage(page) \in {1, 2}
  BY DEF AddrForHvPage
<1>2. ASSUME NEW page, NEW reg, NEW a \in {1, 2} PROVE IsBody(HvPaged(page, reg, a))
  <2> DEFINE p == IF page = HV_INTC_FC_PAGE_START THEN 0 ELSE page
  <2>1. IsBody(SetPageIgp(p) \o <<Addr(a)>>)
    BY WakeupBodies, Bodies, BodyConcat
  <2>2. CASE Paged(reg)
    <3>1. HvPaged(page, reg, a) = SetPageIgp(p) \o <<Addr(a)>>
      BY <2>2 DEF HvPaged
    <3> QED
      BY <2>1, <3>1
  <2>3. CASE ~Paged(reg)
    BY <2>3, BodyNone DEF HvPaged
  <2> QED
    BY <2>2, <2>3
<1>3. ASSUME NEW page, NEW reg, NEW off11 \in BOOLEAN PROVE IsBody(HvBody(page, reg, off11))
  <2> DEFINE a == AddrForHvPage(page)
             p == IF page = HV_INTC_FC_PAGE_START THEN 0 ELSE page
             work == IF off11 THEN AccessDebug(3) ELSE <<>>
             goal == IF off11 THEN <<"reg", 2, 0, 0>> ELSE Target(a, p, reg)
  <2>1. CASE page = BM_WUC_PAGE
    BY <2>1, WakeupBodies DEF HvBody
  <2>2. CASE page # BM_WUC_PAGE /\ page > 0 /\ page < HV_INTC_FC_PAGE_START
    BY <2>2, WakeupBodies DEF HvBody
  <2>3. CASE page # BM_WUC_PAGE /\ ~(page > 0 /\ page < HV_INTC_FC_PAGE_START)
    <3>1. IsBody(work)
      BY WakeupBodies, BodyNone
    <3>2. a \in {1, 2}
      BY <1>1
    <3>3. HvBody(page, reg, off11) = (work \o HvPaged(page, reg, a)) \o <<Mdic(reg, 0, goal)>>
      BY <2>3, Zenon DEF HvBody
    <3> HIDE DEF work, goal, a
    <3>4. IsBody(work \o HvPaged(page, reg, a))
      BY <1>2, <3>1, <3>2, BodyConcat
    <3>5. IsBody((work \o HvPaged(page, reg, a)) \o <<Mdic(reg, 0, goal)>>)
      BY <3>4, Bodies, BodyConcat
    <3> QED
      BY <3>3, <3>5
  <2> QED
    BY <2>1, <2>2, <2>3
<1>4. ASSUME NEW page, NEW reg PROVE IsBody(HvLocked(page, reg))
  BY <1>1, <1>3, Bodies, BodyConcat DEF HvLocked
<1>5. ASSUME NEW reg PROVE IsBody(AccessEmi(reg))
  <2> DEFINE a == AddrForHvPage(0)
  <2>1. a \in {1, 2}
    BY <1>1
  <2>2. AccessEmi(reg) =
          ((((<<Addr(a)>> \o HvPaged(0, 16, a)) \o <<Mdic(16, reg, <<"addr", 2>>)>>)
            \o <<Addr(a)>>) \o HvPaged(0, 17, a)) \o <<Mdic(17, 0, <<"port", reg>>)>>
    BY Zenon DEF AccessEmi
  <2> HIDE DEF a
  <2>3. IsBody(<<Addr(a)>> \o HvPaged(0, 16, a))
    BY <1>2, <2>1, Bodies, BodyConcat
  <2>4. IsBody((<<Addr(a)>> \o HvPaged(0, 16, a)) \o <<Mdic(16, reg, <<"addr", 2>>)>>)
    BY <2>3, Bodies, BodyConcat
  <2>5. IsBody(((<<Addr(a)>> \o HvPaged(0, 16, a)) \o <<Mdic(16, reg, <<"addr", 2>>)>>)
                 \o <<Addr(a)>>)
    BY <2>1, <2>4, Bodies, BodyConcat
  <2>6. IsBody((((<<Addr(a)>> \o HvPaged(0, 16, a)) \o <<Mdic(16, reg, <<"addr", 2>>)>>)
                 \o <<Addr(a)>>) \o HvPaged(0, 17, a))
    BY <1>2, <2>1, <2>5, BodyConcat
  <2>7. IsBody(((((<<Addr(a)>> \o HvPaged(0, 16, a)) \o <<Mdic(16, reg, <<"addr", 2>>)>>)
                 \o <<Addr(a)>>) \o HvPaged(0, 17, a)) \o <<Mdic(17, 0, <<"port", reg>>)>>)
    BY <2>6, Bodies, BodyConcat
  <2> QED
    BY <2>2, <2>7
<1> QED
  BY <1>1, <1>2, <1>3, <1>4, <1>5

(* The end of a session.                                                    *)
LEMMA Released ==
  ASSUME NEW p, NEW e, NEW err, Opened(p, e, err) PROVE Session(p \o Release, err, "rel")
<1> DEFINE r == Step("rel", 0, 0, None, "next")
           c == Step("clr", 0, 0, None, "next")
<1>1. r.k = "rel" /\ c.k = "clr" /\ Release = <<r, c>>
  BY DEF Step, Release
<1> HIDE DEF r, c
<1> QED
  BY <1>1, OpenedEnds

(* The sessions.                                                            *)
LEMMA HvSessions ==
  \A page, reg : /\ Session(Hv(page, reg, TRUE), "return", "rel")
                 /\ Session(Hv(page, reg, FALSE), "return", "rel")
<1> SUFFICES ASSUME NEW page, NEW reg, NEW off11 \in BOOLEAN
             PROVE  Session(Hv(page, reg, off11), "return", "rel")
  OBVIOUS
<1>1. Opened(<<Addr(AddrForHvPage(page))>> \o Acquire("return"), 2, "return")
  BY HvBodies, AddrAcquireOpens
<1>2. IsBody(HvBody(page, reg, off11))
  BY HvBodies
<1>3. Opened((<<Addr(AddrForHvPage(page))>> \o Acquire("return")) \o HvBody(page, reg, off11), 2, "return")
  BY <1>1, <1>2, OpenedConcat
<1> QED
  BY <1>3, Released DEF Hv

(* Those of the bm and igp accessors and of the Kumeran registers.           *)
LEMMA OtherSessions ==
  /\ \A page, reg : Session(Bm(page, reg), "return", "rel")
  /\ \A page, reg : Session(Igp(page, reg), "return", "rel")
  /\ \A reg : Session(Kmrn(reg), "return", "rel")
<1>1. Opened(Acquire("return"), 1, "return")
  BY AcquireOpens
<1>2. ASSUME NEW page, NEW reg PROVE Session(Bm(page, reg), "return", "rel")
  <2> DEFINE a == AddrForBmPage(page, reg)
             select == IF a = 1 THEN IGP01E1000_PHY_PAGE_SELECT ELSE BM_PHY_PAGE_SELECT
             paged == IF page > 0 \/ Paged(reg) THEN <<Mdic(select, page, <<"sel", a>>)>> ELSE <<>>
             body == IF page = BM_WUC_PAGE THEN AccessWakeup(reg)
                     ELSE (<<Addr(a)>> \o paged) \o <<Mdic(reg, 0, Target(a, page, reg))>>
  <2>1. Bm(page, reg) = (Acquire("return") \o body) \o Release
    BY Zenon DEF Bm
  <2>2. IsBody(paged)
    BY Bodies, BodyNone
  <2>3. a \in {1, 2}
    BY DEF AddrForBmPage
  <2>4. IsBody(<<Addr(a)>> \o paged)
    <3> HIDE DEF paged, a
    <3> QED
      BY <2>2, <2>3, Bodies, BodyConcat
  <2>5. IsBody((<<Addr(a)>> \o paged) \o <<Mdic(reg, 0, Target(a, page, reg))>>)
    <3> HIDE DEF paged, a
    <3> QED
      BY <2>4, Bodies, BodyConcat
  <2>6. IsBody(body)
    BY <2>5, WakeupBodies
  <2> HIDE DEF body
  <2> QED
    BY <1>1, <2>1, <2>6, OpenedConcat, Released
<1>3. ASSUME NEW page, NEW reg PROVE Session(Igp(page, reg), "return", "rel")
  <2> DEFINE paged == IF page > 0 \/ Paged(reg)
                        THEN <<Mdic(IGP01E1000_PHY_PAGE_SELECT, page, <<"sel", 1>>)>> ELSE <<>>
             last == <<Mdic(reg, 0, Target(1, page, reg))>>
  <2>1. Igp(page, reg) = ((Acquire("return") \o paged) \o last) \o Release
    BY Zenon DEF Igp
  <2>2. IsBody(paged) /\ IsBody(last)
    BY Bodies, BodyNone
  <2> HIDE DEF paged, last
  <2> QED
    BY <1>1, <2>1, <2>2, OpenedConcat, Released
<1>4. ASSUME NEW reg PROVE Session(Kmrn(reg), "return", "rel")
  <2> DEFINE r == Step("kaddr", reg, 0, None, "next")
             s == Step("kdata", reg, 0, <<"kmrn", reg>>, "next")
  <2>1. Inner(r) /\ Inner(s) /\ s.err # "skip"
    BY DEF Step, Inner
  <2>2. Kmrn(reg) = (Acquire("return") \o <<r, s>>) \o Release
    BY Zenon DEF Kmrn
  <2> HIDE DEF r, s
  <2>3. IsBody(<<r, s>>)
    BY <2>1, BodyTwo
  <2> QED
    BY <1>1, <2>2, <2>3, OpenedConcat, Released
<1> QED
  BY <1>2, <1>3, <1>4

(* And the functions that hold the semaphore over several accesses.          *)
LEMMA LongSessions ==
  /\ Session(LcdConfig, "return", "rel") /\ Session(CopyRxAddrs, "return", "rel")
  /\ Session(InitPhyWakeup, "return", "rel") /\ Session(EmiSession, "return", "rel")
  /\ Session(LpiCtrl, "out", "rel") /\ Session(ResetHw, "out", "rst")
<1>1. \A err : Opened(Acquire(err), 1, err)
  BY AcquireOpens
<1>2. Session(LcdConfig, "return", "rel")
  <2>1. Opened(Acquire("return") \o HvLocked(768, 26), 1, "return")
    BY <1>1, HvBodies, OpenedConcat
  <2>2. Opened((Acquire("return") \o HvLocked(768, 26)) \o HvLocked(768, 30), 1, "return")
    BY <2>1, HvBodies, OpenedConcat
  <2>3. Opened(((Acquire("return") \o HvLocked(768, 26)) \o HvLocked(768, 30)) \o HvLocked(770, 17),
               1, "return")
    BY <2>2, HvBodies, OpenedConcat
  <2>4. Opened((((Acquire("return") \o HvLocked(768, 26)) \o HvLocked(768, 30)) \o HvLocked(770, 17))
               \o HvLocked(0, 2), 1, "return")
    BY <2>3, HvBodies, OpenedConcat
  <2> QED
    BY <2>4, Released DEF LcdConfig
<1>3. Opened(Acquire("return") \o EnableWakeupAccess, 1, "return")
  BY <1>1, WakeupBodies, OpenedConcat
<1>4. Session(CopyRxAddrs, "return", "rel")
  <2>1. Opened((Acquire("return") \o EnableWakeupAccess) \o WakeupPage(16), 1, "return")
    BY <1>3, WakeupBodies, OpenedConcat
  <2>2. Opened(((Acquire("return") \o EnableWakeupAccess) \o WakeupPage(16)) \o WakeupPage(17),
               1, "return")
    BY <2>1, WakeupBodies, OpenedConcat
  <2>3. Opened((((Acquire("return") \o EnableWakeupAccess) \o WakeupPage(16)) \o WakeupPage(17))
               \o DisableWakeupAccess("restore"), 1, "return")
    BY <2>2, WakeupBodies, OpenedConcat
  <2> QED
    BY <2>3, Released DEF CopyRxAddrs
<1>5. Session(InitPhyWakeup, "return", "rel")
  <2>1. Opened((Acquire("return") \o EnableWakeupAccess) \o WakeupPage(0), 1, "return")
    BY <1>3, WakeupBodies, OpenedConcat
  <2>2. Opened(((Acquire("return") \o EnableWakeupAccess) \o WakeupPage(0)) \o WakeupPage(2),
               1, "return")
    BY <2>1, WakeupBodies, OpenedConcat
  <2>3. Opened((((Acquire("return") \o EnableWakeupAccess) \o WakeupPage(0)) \o WakeupPage(2))
               \o WakeupPage(1), 1, "return")
    BY <2>2, WakeupBodies, OpenedConcat
  <2>4. Opened(((((Acquire("return") \o EnableWakeupAccess) \o WakeupPage(0)) \o WakeupPage(2))
               \o WakeupPage(1)) \o DisableWakeupAccess("activate"), 1, "return")
    BY <2>3, WakeupBodies, OpenedConcat
  <2> QED
    BY <2>4, Released DEF InitPhyWakeup
<1>6. Session(EmiSession, "return", "rel")
  <2>1. Opened(Acquire("return") \o AccessEmi(9), 1, "return")
    BY <1>1, HvBodies, OpenedConcat
  <2>2. Opened((Acquire("return") \o AccessEmi(9)) \o AccessEmi(11), 1, "return")
    BY <2>1, HvBodies, OpenedConcat
  <2> QED
    BY <2>2, Released DEF EmiSession
<1>7. Session(LpiCtrl, "out", "rel")
  <2>1. Opened(Acquire("out") \o HvLocked(772, 20), 1, "out")
    BY <1>1, HvBodies, OpenedConcat
  <2>2. Opened((Acquire("out") \o HvLocked(772, 20)) \o HvLocked(772, 20), 1, "out")
    BY <2>1, HvBodies, OpenedConcat
  <2> QED
    BY <2>2, Released DEF LpiCtrl
<1>8. Session(ResetHw, "out", "rst")
  <2> DEFINE r == Step("rst", 0, 0, None, "next")
             c == Step("clrheld", 0, 0, None, "next")
  <2>1. r.k = "rst" /\ c.k = "clrheld" /\ ResetHw = Acquire("out") \o <<r, c>>
    BY DEF Step, ResetHw
  <2> HIDE DEF r, c
  <2> QED
    BY <1>1, <2>1, OpenedEnds
<1> QED
  BY <1>2, <1>4, <1>5, <1>6, <1>7, <1>8

(* Sessions that go on when the semaphore was not acquired.                 *)
Heedless == {"reset", "lpi"}

(* Whatever accessors hw->phy.ops holds, every program is a session.        *)
LEMMA Sessions ==
  ASSUME NEW f \in Families, NEW s \in DOMAIN Prog[f]
  PROVE  Session(Prog[f][s], IF s \in Heedless THEN "out" ELSE "return",
                 IF s = "reset" THEN "rst" ELSE "rel")
<1>1. /\ Prog["igp"] = [low |-> Igp(0, 2), high |-> Igp(770, 17), kmrn |-> Kmrn(9), reset |-> ResetHw]
      /\ Prog["bm"] = [low |-> Bm(0, 2), high |-> Bm(0, 26), ctl |-> Bm(0, 25), page |-> Bm(769, 20),
                       wake |-> Bm(800, 1), kmrn |-> Kmrn(9), reset |-> ResetHw]
      /\ Prog["hv"] = [low |-> Hv(0, 2, FALSE), high |-> Hv(0, 26, FALSE), ctl |-> Hv(0, 0, TRUE),
          oem |-> Hv(768, 25, FALSE), page |-> Hv(770, 17, FALSE), debug |-> Hv(5, 3, FALSE),
          wake |-> Hv(800, 1, FALSE), emi |-> EmiSession, lcd |-> LcdConfig,
          rars |-> CopyRxAddrs, arm |-> InitPhyWakeup, lpi |-> LpiCtrl, kmrn |-> Kmrn(9),
          reset |-> ResetHw]
  BY DEF Prog
<1>2. CASE f = "igp"
  BY <1>1, <1>2, OtherSessions, LongSessions DEF Heedless
<1>3. CASE f = "bm"
  BY <1>1, <1>3, OtherSessions, LongSessions DEF Heedless
<1>4. CASE f = "hv"
  <2>1. DOMAIN Prog[f] = {"low", "high", "ctl", "oem", "page", "debug", "wake", "emi", "lcd", "rars",
                          "arm", "lpi", "kmrn", "reset"}
    BY <1>1, <1>4
  <2>2. CASE s \in Heedless
    BY <1>1, <1>4, <2>2, LongSessions DEF Heedless
  <2>3. CASE s \in {"emi", "lcd", "rars", "arm", "kmrn"}
    BY <1>1, <1>4, <2>3, LongSessions, OtherSessions DEF Heedless
  <2>4. CASE s \in {"low", "high", "ctl", "oem", "page", "debug", "wake"}
    <3> DEFINE p0 == 0
               p5 == 5
               p768 == 768
               p770 == 770
               p800 == 800
               low == Hv(p0, 2, FALSE)
               high == Hv(p0, 26, FALSE)
               ctl == Hv(p0, 0, TRUE)
               oem == Hv(p768, 25, FALSE)
               page == Hv(p770, 17, FALSE)
               debug == Hv(p5, 3, FALSE)
               wake == Hv(p800, 1, FALSE)
    <3>1. Prog[f] = [low |-> low, high |-> high, ctl |-> ctl, oem |-> oem, page |-> page,
                     debug |-> debug, wake |-> wake, emi |-> EmiSession, lcd |-> LcdConfig,
                     rars |-> CopyRxAddrs, arm |-> InitPhyWakeup, lpi |-> LpiCtrl,
                     kmrn |-> Kmrn(9), reset |-> ResetHw]
      BY <1>1, <1>4, SMT
    <3> HIDE DEF p0, p5, p768, p770, p800
    <3>2. \A p \in {low, high, ctl, oem, page, debug, wake} : Session(p, "return", "rel")
      <4>1. Session(low, "return", "rel")
        BY HvSessions, Zenon
      <4>2. Session(high, "return", "rel")
        BY HvSessions, Zenon
      <4>3. Session(ctl, "return", "rel")
        BY HvSessions, Zenon
      <4>4. Session(oem, "return", "rel")
        BY HvSessions, Zenon
      <4>5. Session(page, "return", "rel")
        BY HvSessions, Zenon
      <4>6. Session(debug, "return", "rel")
        BY HvSessions, Zenon
      <4>7. Session(wake, "return", "rel")
        BY HvSessions, Zenon
      <4> HIDE DEF low, high, ctl, oem, page, debug, wake
      <4> QED
        BY <4>1, <4>2, <4>3, <4>4, <4>5, <4>6, <4>7
    <3> HIDE DEF low, high, ctl, oem, page, debug, wake
    <3>3. Prog[f][s] \in {low, high, ctl, oem, page, debug, wake}
      BY <2>4, <3>1
    <3>4. s \notin Heedless /\ s # "reset"
      BY <2>4 DEF Heedless
    <3> QED
      BY <3>2, <3>3, <3>4
  <2> QED
    BY <2>1, <2>2, <2>3, <2>4 DEF Heedless
<1> QED
  BY <1>2, <1>3, <1>4, BusAssumption

-----------------------------------------------------------------------------
(* They overlap with no other session.                                      *)
HeedlessAlone == \A f \in Families : Heedless \cap DOMAIN Prog[f] \subseteq Alone[f]

Prg(t) == Prog[fam][thread[t].ses]
N(t)   == Len(Prg(t))
E(t)   == Entry(Prg(t))

(* Between test_and_set_bit and clear_bit.                                  *)
Owner(t) == Busy(t) /\ thread[t].at > E(t)

ThreadState ==
  [ses : DOMAIN Prog[fam] \cup {None}, at : Nat, save : SUBSET {"en", "me", "host"},
   held : BOOLEAN, io : BOOLEAN]

(* "held" is where the semaphore was acquired.                              *)
IThread ==
  /\ thread \in [Thread -> ThreadState]
  /\ \A t \in Thread : ~Busy(t) => ~thread[t].held /\ ~thread[t].io
  /\ \A t \in Thread : Busy(t) =>
       /\ thread[t].at \in 1 .. N(t)
       /\ thread[t].io => At(t).k = "mdic"
       /\ thread[t].held => thread[t].at >= E(t) + 4
       /\ thread[t].held /\ thread[t].at = N(t) => At(t).k = "clrheld"
       /\ thread[t].at \in E(t) + 4 .. N(t) - 2 => thread[t].held

(* The bit has one owner, and SWFLAG is set by the owner of the bit.         *)
ILock ==
  /\ \A t, u \in Thread : Owner(t) /\ Owner(u) => t = u
  /\ bit => \E t \in Thread : Owner(t)
  /\ \A t \in Thread :
       Owner(t) /\ (thread[t].ses \notin Heedless \/ thread[t].held \/ thread[t].at <= E(t) + 3)
         => bit
  /\ extcnf = "sw" => \E t \in Thread : Owner(t) /\ thread[t].at \in E(t) + 3 .. N(t) - 1
  /\ \A t \in Thread : Busy(t) /\ thread[t].held /\ thread[t].at <= N(t) - 1 => extcnf = "sw"
  /\ \A t \in Thread :
       Busy(t) /\ thread[t].ses = "reset" /\ thread[t].at >= N(t) - 1 /\ ~thread[t].held => ~bit

(* Sessions of Alone are alone.                                             *)
IAlone ==
  \A t, u \in Thread : Busy(t) /\ Busy(u) /\ t # u => thread[t].ses \notin Alone[fam]

IBus == HeedlessAlone /\ BusTypeOK /\ IThread /\ ILock /\ IAlone

-----------------------------------------------------------------------------
(* The kind of a step tells where in its session a thread is.               *)
LEMMA Places ==
  ASSUME fam \in Families, IThread, NEW t \in Thread, Busy(t)
  PROVE  /\ thread[t].ses \in DOMAIN Prog[fam] /\ thread[t].at \in 1 .. N(t)
         /\ E(t) \in {1, 2} /\ N(t) \in Nat /\ E(t) + 5 <= N(t)
         /\ At(t).k = "addr" => At(t).v \in {1, 2}
         /\ At(t).k = "addr" => (thread[t].at < E(t) \/ thread[t].at \in E(t) + 4 .. N(t) - 2)
         /\ At(t).k = "tas" <=> thread[t].at = E(t)
         /\ At(t).k = "wait" <=> thread[t].at = E(t) + 1
         /\ At(t).k = "set" <=> thread[t].at = E(t) + 2
         /\ At(t).k = "verify" <=> thread[t].at = E(t) + 3
         /\ At(t).k \in {"mdic", "kaddr", "kdata"} => thread[t].at \in E(t) + 4 .. N(t) - 2
         /\ At(t).k \in {"rel", "rst"} <=> thread[t].at = N(t) - 1
         /\ At(t).k = "rst" => thread[t].ses = "reset"
         /\ At(t).k = "rel" => thread[t].ses # "reset"
         /\ At(t).k \in {"clr", "clrheld"} <=> thread[t].at = N(t)
         /\ At(t).k = "clrheld" <=> (thread[t].at = N(t) /\ thread[t].ses = "reset")
<1> DEFINE s == thread[t].ses
           p == Prg(t)
           n == thread[t].at
<1>1. s \in DOMAIN Prog[fam] /\ n \in 1 .. N(t) /\ fam \in Families
  BY DEF IThread, ThreadState, Busy
<1>2. /\ Session(p, IF s \in Heedless THEN "out" ELSE "return", IF s = "reset" THEN "rst" ELSE "rel")
      /\ At(t) = p[n] /\ N(t) = Len(p) /\ E(t) = Entry(p)
  BY <1>1, Sessions DEF Prg, At, N, E
<1>3. E(t) \in {1, 2} /\ N(t) \in Nat /\ E(t) + 5 <= N(t)
  BY <1>2 DEF Session, Entry
<1> HIDE DEF s, p, n
<1>4. CASE n < E(t)
  <2>1. n = 1 /\ E(t) = 2
    BY <1>1, <1>3, <1>4
  <2>2. p[n].k = "addr" /\ p[n].v \in {1, 2}
    BY <1>2, <2>1 DEF Session
  <2> QED
    BY <1>1, <1>2, <1>3, <1>4, <2>2 DEF n, s
<1>5. CASE n = E(t)
  <2>1. p[n].k = "tas"
    BY <1>2, <1>5 DEF Session
  <2> QED
    BY <1>1, <1>2, <1>3, <1>5, <2>1 DEF n, s
<1>6. CASE n = E(t) + 1
  <2>1. p[n].k = "wait"
    BY <1>2, <1>6 DEF Session
  <2> QED
    BY <1>1, <1>2, <1>3, <1>6, <2>1 DEF n, s
<1>7. CASE n = E(t) + 2
  <2>1. p[n].k = "set"
    BY <1>2, <1>7 DEF Session
  <2> QED
    BY <1>1, <1>2, <1>3, <1>7, <2>1 DEF n, s
<1>8. CASE n = E(t) + 3
  <2>1. p[n].k = "verify"
    BY <1>2, <1>8 DEF Session
  <2> QED
    BY <1>1, <1>2, <1>3, <1>8, <2>1 DEF n, s
<1>9. CASE n \in E(t) + 4 .. N(t) - 2
  <2>1. Inner(p[n])
    BY <1>2, <1>9 DEF Session
  <2>2. p[n].k \in {"addr", "mdic", "kaddr", "kdata"} /\ (p[n].k = "addr" => p[n].v \in {1, 2})
    BY <2>1 DEF Inner
  <2> QED
    BY <1>1, <1>2, <1>3, <1>9, <2>2 DEF n, s
<1>10. CASE n = N(t) - 1
  <2>1. p[n].k = IF s = "reset" THEN "rst" ELSE "rel"
    BY <1>2, <1>10 DEF Session
  <2> QED
    BY <1>1, <1>2, <1>3, <1>10, <2>1 DEF n, s
<1>11. CASE n = N(t)
  <2>1. p[n].k = IF s = "reset" THEN "clrheld" ELSE "clr"
    BY <1>2, <1>11 DEF Session
  <2> QED
    BY <1>1, <1>2, <1>3, <1>11, <2>1 DEF n, s
<1> QED
  BY <1>1, <1>3, <1>4, <1>5, <1>6, <1>7, <1>8, <1>9, <1>10, <1>11

(* Going to a step of the same session.                                     *)
LEMMA GoesTo ==
  ASSUME NEW t \in Thread, IThread, Busy(t), NEW m \in 1 .. N(t)
  PROVE  Goto(thread[t], thread[t].ses, m) =
           [ses |-> thread[t].ses, at |-> m, save |-> thread[t].save, held |-> thread[t].held,
            io |-> FALSE]
<1>1. thread[t] \in ThreadState
  BY DEF IThread
<1>2. Goto(thread[t], thread[t].ses, m) =
        [thread[t] EXCEPT !.ses = thread[t].ses, !.at = m, !.io = FALSE]
  BY DEF Goto, N, Prg
<1> QED
  BY <1>1, <1>2 DEF ThreadState

(* Going past the end.                                                      *)
LEMMA GoesIdle ==
  ASSUME NEW t \in Thread, IThread, Busy(t), NEW m, m \notin 1 .. N(t)
  PROVE  Goto(thread[t], thread[t].ses, m) = Idle
BY DEF Goto, N, Prg

(* Where a failing step goes: an acquisition reports the failure, or goes   *)
(* on to the end if it is heedless; an access never leaves the session.     *)
LEMMA Fails ==
  ASSUME fam \in Families, IThread, NEW t \in Thread, Busy(t)
  PROVE  /\ thread[t].at \in E(t) .. E(t) + 3 /\ thread[t].ses \notin Heedless => Fail(t) = Idle
         /\ thread[t].at \in E(t) .. E(t) + 3 /\ thread[t].ses \in Heedless =>
              Fail(t) = [ses |-> thread[t].ses, at |-> N(t) - 1, save |-> thread[t].save,
                         held |-> thread[t].held, io |-> FALSE]
         /\ thread[t].at \in E(t) + 4 .. N(t) - 2 =>
              \E m \in thread[t].at + 1 .. N(t) - 1 :
                /\ Fail(t) = [ses |-> thread[t].ses, at |-> m, save |-> thread[t].save,
                              held |-> thread[t].held, io |-> FALSE]
                /\ \/ m = N(t) - 1
                   \/ At(t).err = "next" /\ m = thread[t].at + 1
                   \/ At(t).err = "skip" /\ m = thread[t].at + 2
<1> DEFINE s == thread[t].ses
           p == Prg(t)
           n == thread[t].at
           outs == {m \in n + 1 .. Len(p) : p[m].k \in {"rel", "rst"}}
<1>1. s \in DOMAIN Prog[fam] /\ n \in 1 .. N(t) /\ fam \in Families
  BY DEF IThread, ThreadState, Busy
<1>2. /\ Session(p, IF s \in Heedless THEN "out" ELSE "return", IF s = "reset" THEN "rst" ELSE "rel")
      /\ At(t) = p[n] /\ N(t) = Len(p) /\ E(t) = Entry(p)
  BY <1>1, Sessions DEF Prg, At, N, E
<1>3. E(t) \in {1, 2} /\ N(t) \in Nat /\ E(t) + 5 <= N(t)
  BY <1>2 DEF Session, Entry
<1>4. Fail(t) = CASE At(t).err = "return" -> Idle
                  [] At(t).err = "next" -> Goto(thread[t], s, n + 1)
                  [] At(t).err = "skip" -> Goto(thread[t], s, n + 2)
                  [] OTHER -> Goto(thread[t], s, CHOOSE m \in outs : \A l \in outs : m <= l)
  BY DEF Fail, Prg
<1> HIDE DEF p
<1>5. ASSUME E(t) <= n, n <= N(t) - 2 PROVE (CHOOSE m \in outs : \A l \in outs : m <= l) = N(t) - 1
  <2>1. N(t) - 1 \in outs
    <3>1. p[Len(p) - 1].k \in {"rel", "rst"}
      BY <1>2 DEF Session
    <3> QED
      BY <1>1, <1>2, <1>3, <1>5, <3>1
  <2>2. ASSUME NEW m \in outs PROVE N(t) - 1 <= m
    <3>1. m \in n + 1 .. Len(p) /\ p[m].k \in {"rel", "rst"}
      OBVIOUS
    <3>2. SUFFICES ASSUME m < N(t) - 1 PROVE FALSE
      BY <1>1, <1>2, <1>3, <3>1
    <3>3. m \in E(t) + 1 .. N(t) - 2
      BY <1>1, <1>2, <1>3, <1>5, <3>1, <3>2
    <3>4. CASE m \in E(t) + 4 .. N(t) - 2
      <4>1. Inner(p[m])
        BY <1>2, <3>4 DEF Session
      <4> QED
        BY <3>1, <4>1 DEF Inner
    <3>5. CASE m \in {E(t) + 1, E(t) + 2, E(t) + 3}
      BY <1>2, <3>1, <3>5 DEF Session
    <3> QED
      BY <1>3, <3>3, <3>4, <3>5
  <2>3. outs \subseteq Nat
    BY <1>1, <1>2, <1>3
  <2> HIDE DEF outs
  <2> DEFINE c == CHOOSE m \in outs : \A l \in outs : m <= l
  <2>4. c \in outs /\ \A l \in outs : c <= l
    BY <2>1, <2>2, Zenon
  <2> HIDE DEF c
  <2>5. c \in Nat /\ N(t) - 1 \in Nat /\ c <= N(t) - 1 /\ N(t) - 1 <= c
    BY <2>1, <2>2, <2>3, <2>4
  <2>6. c = N(t) - 1
    BY <2>5
  <2> QED
    BY <2>6 DEF c
<1> HIDE DEF outs
<1>6. N(t) - 1 \in 1 .. N(t)
  BY <1>3
<1>7. ASSUME n \in E(t) .. E(t) + 3 PROVE p[n].err = IF s \in Heedless THEN "out" ELSE "return"
  BY <1>2, <1>7 DEF Session
<1>8. ASSUME n \in E(t) .. E(t) + 3, s \notin Heedless PROVE Fail(t) = Idle
  BY <1>2, <1>4, <1>7, <1>8
<1>9. ASSUME n \in E(t) .. E(t) + 3, s \in Heedless
      PROVE  Fail(t) = Goto(thread[t], s, N(t) - 1)
  <2>1. At(t).err = "out" /\ E(t) <= n /\ n <= N(t) - 2
    BY <1>1, <1>2, <1>3, <1>7, <1>9
  <2> QED
    BY <1>4, <1>5, <2>1
<1>10. ASSUME n \in E(t) + 4 .. N(t) - 2
       PROVE  \E m \in n + 1 .. N(t) - 1 :
                /\ Fail(t) = Goto(thread[t], s, m)
                /\ \/ m = N(t) - 1
                   \/ At(t).err = "next" /\ m = n + 1
                   \/ At(t).err = "skip" /\ m = n + 2
  <2>1. p[n].err \in {"out", "next", "skip"} /\ (p[n].err = "skip" => n < N(t) - 2)
    BY <1>2, <1>10 DEF Session, Inner
  <2>2. E(t) <= n /\ n <= N(t) - 2 /\ n \in Nat
    BY <1>1, <1>3, <1>10
  <2>3. CASE p[n].err = "next"
    <3>1. Fail(t) = Goto(thread[t], s, n + 1)
      BY <1>2, <1>4, <2>3
    <3> QED
      BY <1>2, <1>3, <2>2, <2>3, <3>1
  <2>4. CASE p[n].err = "skip"
    <3>1. Fail(t) = Goto(thread[t], s, n + 2)
      BY <1>2, <1>4, <2>4
    <3> QED
      BY <1>2, <1>3, <2>1, <2>2, <2>4, <3>1
  <2>5. CASE p[n].err = "out"
    <3>1. Fail(t) = Goto(thread[t], s, N(t) - 1)
      BY <1>2, <1>4, <1>5, <2>2, <2>5
    <3> QED
      BY <1>3, <2>2, <3>1
  <2> QED
    BY <2>1, <2>3, <2>4, <2>5
<1>11. \A m \in n + 1 .. N(t) - 1 : m \in 1 .. N(t)
  BY <1>1, <1>3
<1> QED
  BY <1>6, <1>8, <1>9, <1>10, <1>11, GoesTo

-----------------------------------------------------------------------------
(* A step of one thread leaves the others where they are.                   *)
LEMMA Others ==
  ASSUME NEW t \in Thread, NEW new, IThread, fam' = fam,
         thread' = [thread EXCEPT ![t] = new]
  PROVE  /\ thread'[t] = new
         /\ \A u \in Thread \ {t} :
              /\ thread'[u] = thread[u] /\ N(u)' = N(u) /\ E(u)' = E(u) /\ At(u)' = At(u)
              /\ Busy(u)' <=> Busy(u)
              /\ Owner(u)' <=> Owner(u)
         /\ new.ses = thread[t].ses =>
              N(t)' = N(t) /\ E(t)' = E(t) /\ (Busy(t)' <=> Busy(t))
<1>1. thread'[t] = new /\ \A u \in Thread \ {t} : thread'[u] = thread[u]
  BY DEF IThread
<1>2. \A u \in Thread : thread'[u].ses = thread[u].ses => Prg(u)' = Prg(u) /\ (Busy(u)' <=> Busy(u))
  BY DEF Prg, Busy
<1>3. \A u \in Thread : thread'[u].ses = thread[u].ses => N(u)' = N(u) /\ E(u)' = E(u)
  BY <1>2 DEF N, E
<1> QED
  BY <1>1, <1>2, <1>3 DEF Owner, At

(* A step of the only owner of the bit, or one that makes a thread that.    *)
LEMMA OwnerMoves ==
  ASSUME IBus, NEW t \in Thread, Busy(t), NEW new \in ThreadState, fam' = fam,
         thread' = [thread EXCEPT ![t] = new],
         \A u \in Thread \ {t} : ~Owner(u),
         new.ses = thread[t].ses, new.at \in E(t) + 1 .. N(t),
         new.io => At(t)'.k = "mdic",
         bit' \in BOOLEAN,
         new.ses \notin Heedless \/ new.held \/ new.at <= E(t) + 3 => bit',
         extcnf' = "sw" => new.at \in E(t) + 3 .. N(t) - 1,
         new.held /\ new.at <= N(t) - 1 => extcnf' = "sw",
         new.ses = "reset" /\ new.at >= N(t) - 1 /\ ~new.held => ~bit',
         new.held => new.at >= E(t) + 4,
         new.held /\ new.at = N(t) => new.ses = "reset",
         new.at \in E(t) + 4 .. N(t) - 2 => new.held
  PROVE  IThread' /\ ILock' /\ IAlone'
<1>1. /\ IThread /\ ILock /\ IAlone /\ fam \in Families
  BY DEF IBus, BusTypeOK
<1>2. /\ thread'[t] = new
      /\ \A u \in Thread \ {t} :
           /\ thread'[u] = thread[u] /\ N(u)' = N(u) /\ E(u)' = E(u) /\ At(u)' = At(u)
           /\ Busy(u)' <=> Busy(u)
           /\ Owner(u)' <=> Owner(u)
      /\ N(t)' = N(t) /\ E(t)' = E(t) /\ Busy(t)'
  BY <1>1, Others
<1>3. /\ E(t) \in {1, 2} /\ N(t) \in Nat /\ E(t) + 5 <= N(t)
      /\ \A u \in Thread : Busy(u) => E(u) \in {1, 2} /\ N(u) \in Nat /\ E(u) + 5 <= N(u)
  BY <1>1, Places
<1>4. thread' \in [Thread -> ThreadState'] /\ ThreadState' = ThreadState
  BY <1>1 DEF IThread, ThreadState
<1>5. Owner(t)'
  BY <1>2, <1>3 DEF Owner
<1>6. (new.held /\ new.at = N(t)) => At(t)'.k = "clrheld"
  <2>1. SUFFICES ASSUME new.held, new.at = N(t) PROVE At(t)'.k = "clrheld"
    OBVIOUS
  <2>2. new.ses = "reset" /\ At(t)' = Prg(t)[N(t)]
    BY <1>2, <2>1 DEF At, Prg
  <2>3. thread[t].ses \in DOMAIN Prog[fam]
    BY <1>1, Places
  <2>4. Session(Prg(t), "out", "rst")
    BY <1>1, <2>2, <2>3, Sessions DEF Prg, Heedless
  <2> QED
    BY <2>2, <2>4 DEF Session, N
<1>7. IThread'
  <2>1. ASSUME NEW u \in Thread, u # t
        PROVE  /\ ~Busy(u)' => ~thread'[u].held /\ ~thread'[u].io
               /\ Busy(u)' =>
                    /\ thread'[u].at \in 1 .. N(u)'
                    /\ thread'[u].io => At(u)'.k = "mdic"
                    /\ thread'[u].held => thread'[u].at >= E(u)' + 4
                    /\ thread'[u].held /\ thread'[u].at = N(u)' => At(u)'.k = "clrheld"
                    /\ thread'[u].at \in E(u)' + 4 .. N(u)' - 2 => thread'[u].held
    BY <1>1, <1>2, <2>1 DEF IThread
  <2>2. thread'[t].at \in 1 .. N(t)'
    BY <1>2, <1>3
  <2> QED
    BY <1>2, <1>4, <1>6, <2>1, <2>2 DEF IThread
<1>8. ILock'
  <2>1. \A u \in Thread : Owner(u)' => u = t
    BY <1>2
  <2>2. \A u \in Thread \ {t} : Busy(u) => ~thread[u].held /\ ~(thread[u].at >= N(u) - 1)
    <3> SUFFICES ASSUME NEW u \in Thread \ {t}, Busy(u)
                 PROVE  ~thread[u].held /\ ~(thread[u].at >= N(u) - 1)
      OBVIOUS
    <3>1. ~(thread[u].at > E(u)) /\ thread[u].at \in Nat
      BY <1>1 DEF Owner, IThread, ThreadState
    <3>2. thread[u].held => thread[u].at >= E(u) + 4
      BY <1>1 DEF IThread
    <3> QED
      BY <1>3, <3>1, <3>2
  <2>3. \A u \in Thread :
          Owner(u)' /\ (thread'[u].ses \notin Heedless \/ thread'[u].held \/ thread'[u].at <= E(u)' + 3)
            => bit'
    BY <1>2, <2>1
  <2>4. extcnf' = "sw" => \E u \in Thread : Owner(u)' /\ thread'[u].at \in E(u)' + 3 .. N(u)' - 1
    BY <1>2, <1>5
  <2>5. \A u \in Thread : Busy(u)' /\ thread'[u].held /\ thread'[u].at <= N(u)' - 1 => extcnf' = "sw"
    BY <1>2, <2>2
  <2>6. \A u \in Thread :
          Busy(u)' /\ thread'[u].ses = "reset" /\ thread'[u].at >= N(u)' - 1 /\ ~thread'[u].held => ~bit'
    BY <1>2, <2>2
  <2> QED
    BY <1>5, <2>1, <2>3, <2>4, <2>5, <2>6 DEF ILock
<1>9. IAlone'
  BY <1>1, <1>2 DEF IAlone
<1> QED
  BY <1>7, <1>8, <1>9

(* A thread leaves, and leaves neither the bit nor SWFLAG behind.            *)
LEMMA Leaves ==
  ASSUME IBus, NEW t \in Thread, Busy(t), fam' = fam, extcnf' = extcnf,
         thread' = [thread EXCEPT ![t] = Idle], bit' \in BOOLEAN,
         Owner(t) => ~bit' /\ extcnf # "sw",
         ~Owner(t) => (bit' <=> bit)
  PROVE  IThread' /\ ILock' /\ IAlone'
<1>1. /\ IThread /\ ILock /\ IAlone /\ fam \in Families
  BY DEF IBus, BusTypeOK
<1>2. /\ thread'[t] = Idle
      /\ \A u \in Thread \ {t} :
           /\ thread'[u] = thread[u] /\ N(u)' = N(u) /\ E(u)' = E(u) /\ At(u)' = At(u)
           /\ Busy(u)' <=> Busy(u)
           /\ Owner(u)' <=> Owner(u)
  BY <1>1, Others
<1>3. ~Busy(t)' /\ ~Owner(t)' /\ ~Idle.held /\ ~Idle.io
  BY <1>2 DEF Busy, Owner, Idle
<1>4. Idle \in ThreadState
  BY DEF Idle, ThreadState
<1>5. thread' \in [Thread -> ThreadState'] /\ ThreadState' = ThreadState
  BY <1>1, <1>4 DEF IThread, ThreadState
<1>6. IThread'
  <2>1. ASSUME NEW u \in Thread, u # t
        PROVE  /\ ~Busy(u)' => ~thread'[u].held /\ ~thread'[u].io
               /\ Busy(u)' =>
                    /\ thread'[u].at \in 1 .. N(u)'
                    /\ thread'[u].io => At(u)'.k = "mdic"
                    /\ thread'[u].held => thread'[u].at >= E(u)' + 4
                    /\ thread'[u].held /\ thread'[u].at = N(u)' => At(u)'.k = "clrheld"
                    /\ thread'[u].at \in E(u)' + 4 .. N(u)' - 2 => thread'[u].held
    BY <1>1, <1>2, <2>1 DEF IThread
  <2> QED
    BY <1>2, <1>3, <1>5, <2>1 DEF IThread
<1>7. ILock'
  <2>1. \A u, w \in Thread : Owner(u)' /\ Owner(w)' => u = w
    BY <1>1, <1>2, <1>3 DEF ILock
  <2>2. bit' => \E u \in Thread : Owner(u)'
    <3>1. SUFFICES ASSUME bit' PROVE \E u \in Thread : Owner(u)'
      OBVIOUS
    <3>2. ~Owner(t) /\ bit
      BY <3>1
    <3>3. PICK u \in Thread : Owner(u)
      BY <1>1, <3>2 DEF ILock
    <3> QED
      BY <1>2, <3>2, <3>3
  <2>3. \A u \in Thread \ {t} : Owner(u) => ~Owner(t) /\ (bit' <=> bit)
    BY <1>1 DEF ILock
  <2>4. \A u \in Thread :
          Owner(u)' /\ (thread'[u].ses \notin Heedless \/ thread'[u].held \/ thread'[u].at <= E(u)' + 3)
            => bit'
    <3> SUFFICES ASSUME NEW u \in Thread \ {t}, Owner(u),
                        thread[u].ses \notin Heedless \/ thread[u].held \/ thread[u].at <= E(u) + 3
                 PROVE  bit'
      BY <1>2, <1>3
    <3>1. bit
      BY <1>1 DEF ILock
    <3> QED
      BY <2>3, <3>1
  <2>5. extcnf' = "sw" => \E u \in Thread : Owner(u)' /\ thread'[u].at \in E(u)' + 3 .. N(u)' - 1
    <3>1. SUFFICES ASSUME extcnf = "sw"
                   PROVE  \E u \in Thread : Owner(u)' /\ thread'[u].at \in E(u)' + 3 .. N(u)' - 1
      OBVIOUS
    <3>2. PICK u \in Thread : Owner(u) /\ thread[u].at \in E(u) + 3 .. N(u) - 1
      BY <1>1, <3>1 DEF ILock
    <3> QED
      BY <1>2, <3>1, <3>2
  <2>6. \A u \in Thread : Busy(u)' /\ thread'[u].held /\ thread'[u].at <= N(u)' - 1 => extcnf' = "sw"
    BY <1>1, <1>2, <1>3 DEF ILock
  <2>7. \A u \in Thread :
          Busy(u)' /\ thread'[u].ses = "reset" /\ thread'[u].at >= N(u)' - 1 /\ ~thread'[u].held => ~bit'
    <3> SUFFICES ASSUME NEW u \in Thread \ {t}, Busy(u), thread[u].ses = "reset",
                        thread[u].at >= N(u) - 1, ~thread[u].held
                 PROVE  ~bit'
      BY <1>2, <1>3
    <3>1. ~bit
      BY <1>1 DEF ILock
    <3> QED
      BY <3>1
  <2> QED
    BY <2>1, <2>2, <2>4, <2>5, <2>6, <2>7 DEF ILock
<1>8. IAlone'
  BY <1>1, <1>2, <1>3 DEF IAlone
<1> QED
  BY <1>6, <1>7, <1>8

(* A thread before it tries to get the bit.                                 *)
LEMMA Approaches ==
  ASSUME IBus, NEW t \in Thread, NEW new \in ThreadState, fam' = fam, bit' = bit, extcnf' = extcnf,
         thread' = [thread EXCEPT ![t] = new], ~Owner(t),
         new.ses \in DOMAIN Prog[fam],
         new.at \in Nat \ {0}, new.at <= Entry(Prog[fam][new.ses]), ~new.io, ~new.held,
         \A u \in Thread \ {t} : Busy(u) => {new.ses, thread[u].ses} \cap Alone[fam] = {}
  PROVE  IThread' /\ ILock' /\ IAlone'
<1>1. /\ IThread /\ ILock /\ IAlone /\ fam \in Families /\ bit \in BOOLEAN
  BY DEF IBus, BusTypeOK
<1>2. /\ thread'[t] = new
      /\ \A u \in Thread \ {t} :
           /\ thread'[u] = thread[u] /\ N(u)' = N(u) /\ E(u)' = E(u) /\ At(u)' = At(u)
           /\ Busy(u)' <=> Busy(u)
           /\ Owner(u)' <=> Owner(u)
  BY <1>1, Others
<1>3. /\ Prg(t)' = Prog[fam][new.ses] /\ E(t)' = Entry(Prog[fam][new.ses])
      /\ N(t)' = Len(Prog[fam][new.ses])
  BY <1>2 DEF Prg, E, N
<1>4. E(t)' \in {1, 2} /\ N(t)' \in Nat /\ E(t)' + 5 <= N(t)'
  <2> DEFINE p == Prog[fam][new.ses]
  <2>1. \E err, k : Session(p, err, k)
    BY <1>1, Sessions
  <2>2. E(t)' = Entry(p) /\ N(t)' = Len(p)
    BY <1>3
  <2> HIDE DEF p
  <2>3. PICK err, k : Session(p, err, k)
    BY <2>1
  <2> QED
    BY <2>2, <2>3 DEF Session, Entry
<1>5. ~Owner(t)' /\ new.at \in 1 .. N(t)' /\ ~(new.at \in E(t)' + 4 .. N(t)' - 2)
      /\ ~(new.at >= N(t)' - 1)
  BY <1>2, <1>3, <1>4 DEF Owner
<1>6. thread' \in [Thread -> ThreadState'] /\ ThreadState' = ThreadState
  BY <1>1 DEF IThread, ThreadState
<1>7. IThread'
  <2>1. ASSUME NEW u \in Thread, u # t
        PROVE  /\ ~Busy(u)' => ~thread'[u].held /\ ~thread'[u].io
               /\ Busy(u)' =>
                    /\ thread'[u].at \in 1 .. N(u)'
                    /\ thread'[u].io => At(u)'.k = "mdic"
                    /\ thread'[u].held => thread'[u].at >= E(u)' + 4
                    /\ thread'[u].held /\ thread'[u].at = N(u)' => At(u)'.k = "clrheld"
                    /\ thread'[u].at \in E(u)' + 4 .. N(u)' - 2 => thread'[u].held
    BY <1>1, <1>2, <2>1 DEF IThread
  <2> QED
    BY <1>2, <1>5, <1>6, <2>1 DEF IThread
<1>8. ILock'
  <2>1. \A u, w \in Thread : Owner(u)' /\ Owner(w)' => u = w
    BY <1>1, <1>2, <1>5 DEF ILock
  <2>2. bit' => \E u \in Thread : Owner(u)'
    BY <1>1, <1>2 DEF ILock
  <2>3. \A u \in Thread :
          Owner(u)' /\ (thread'[u].ses \notin Heedless \/ thread'[u].held \/ thread'[u].at <= E(u)' + 3)
            => bit'
    <3> SUFFICES ASSUME NEW u \in Thread \ {t}, Owner(u),
                        thread[u].ses \notin Heedless \/ thread[u].held \/ thread[u].at <= E(u) + 3
                 PROVE  bit
      BY <1>2, <1>5
    <3> QED
      BY <1>1 DEF ILock
  <2>4. extcnf' = "sw" => \E u \in Thread : Owner(u)' /\ thread'[u].at \in E(u)' + 3 .. N(u)' - 1
    <3>1. SUFFICES ASSUME extcnf = "sw"
                   PROVE  \E u \in Thread : Owner(u)' /\ thread'[u].at \in E(u)' + 3 .. N(u)' - 1
      OBVIOUS
    <3>2. PICK u \in Thread : Owner(u) /\ thread[u].at \in E(u) + 3 .. N(u) - 1
      BY <1>1, <3>1 DEF ILock
    <3> QED
      BY <1>2, <3>1, <3>2
  <2>5. \A u \in Thread : Busy(u)' /\ thread'[u].held /\ thread'[u].at <= N(u)' - 1 => extcnf' = "sw"
    BY <1>1, <1>2, <1>5 DEF ILock
  <2>6. \A u \in Thread :
          Busy(u)' /\ thread'[u].ses = "reset" /\ thread'[u].at >= N(u)' - 1 /\ ~thread'[u].held => ~bit'
    <3> SUFFICES ASSUME NEW u \in Thread \ {t}, Busy(u), thread[u].ses = "reset",
                        thread[u].at >= N(u) - 1, ~thread[u].held
                 PROVE  ~bit
      BY <1>2, <1>5
    <3> QED
      BY <1>1 DEF ILock
  <2> QED
    BY <2>1, <2>2, <2>3, <2>4, <2>5, <2>6 DEF ILock
<1>9. IAlone'
  <2>1. \A u \in Thread \ {t} : Busy(u) => new.ses \notin Alone[fam] /\ thread[u].ses \notin Alone[fam]
    OBVIOUS
  <2> QED
    BY <1>1, <1>2, <2>1 DEF IAlone
<1> QED
  BY <1>7, <1>8, <1>9

(* The firmware takes and gives the semaphore: no thread is concerned.      *)
LEMMA FirmwareKeeps ==
  ASSUME IThread, ILock, IAlone, fam' = fam, thread' = thread, bit' = bit,
         extcnf' = extcnf \/ (extcnf # "sw" /\ extcnf' # "sw")
  PROVE  IThread' /\ ILock' /\ IAlone'
<1>1. \A u \in Thread : /\ N(u)' = N(u) /\ E(u)' = E(u) /\ At(u)' = At(u)
                        /\ (Busy(u)' <=> Busy(u)) /\ (Owner(u)' <=> Owner(u))
  BY DEF N, E, Prg, At, Busy, Owner
<1>2. ThreadState' = ThreadState
  BY DEF ThreadState
<1>3. IThread'
  BY <1>1, <1>2 DEF IThread
<1>4. ILock'
  BY <1>1 DEF ILock
<1> QED
  BY <1>1, <1>3, <1>4 DEF IAlone

-----------------------------------------------------------------------------
(* One lemma per action: what holds of the threads and of the lock.         *)
IKept == IThread /\ ILock /\ IAlone

(* Who is past test_and_set_bit is the only one.                            *)
LEMMA OnlyOwner ==
  ASSUME IBus, NEW t \in Thread, Owner(t)
  PROVE  \A u \in Thread \ {t} : ~Owner(u)
BY DEF IBus, ILock

(* What most steps need of the invariant.                                   *)
LEMMA Facts ==
  ASSUME IBus
  PROVE  /\ IThread /\ ILock /\ IAlone /\ fam \in Families /\ bit \in BOOLEAN
         /\ thread \in [Thread -> ThreadState] /\ HeedlessAlone
BY DEF IBus, BusTypeOK, IThread

(* A session of one step further.                                           *)
LEMMA AdvanceTo ==
  ASSUME IBus, NEW t \in Thread, Busy(t), thread[t].at < N(t)
  PROVE  /\ Goto(thread[t], thread[t].ses, thread[t].at + 1) =
              [ses |-> thread[t].ses, at |-> thread[t].at + 1, save |-> thread[t].save,
               held |-> thread[t].held, io |-> FALSE]
         /\ [ses |-> thread[t].ses, at |-> thread[t].at + 1, save |-> thread[t].save,
              held |-> thread[t].held, io |-> FALSE] \in ThreadState
<1>1. thread[t] \in ThreadState /\ thread[t].at \in 1 .. N(t) /\ N(t) \in Nat
  BY Facts, Places DEF IThread
<1>2. thread[t].at + 1 \in 1 .. N(t)
  BY <1>1
<1> QED
  BY <1>1, <1>2, Facts, GoesTo DEF ThreadState

(* A session begins before its acquisition.                                 *)
LEMMA KeepsBegin ==
  ASSUME IBus, NEW t \in Thread, Begin(t) PROVE IKept'
<1>1. PICK s \in DOMAIN Prog[fam] :
        /\ \A u \in Thread : Busy(u) => {s, thread[u].ses} \cap Alone[fam] = {}
        /\ thread' = [thread EXCEPT ![t] = Goto(Idle, s, 1)]
  BY DEF Begin
<1>2. ~Busy(t) /\ fam' = fam /\ bit' = bit /\ extcnf' = extcnf
  BY DEF Begin, lock
<1>3. Session(Prog[fam][s], IF s \in Heedless THEN "out" ELSE "return",
              IF s = "reset" THEN "rst" ELSE "rel")
  BY Facts, Sessions
<1>4. Entry(Prog[fam][s]) \in {1, 2} /\ 1 \in 1 .. Len(Prog[fam][s])
  BY <1>3 DEF Session, Entry
<1>5. Goto(Idle, s, 1) = [ses |-> s, at |-> 1, save |-> {}, held |-> FALSE, io |-> FALSE]
  BY <1>4 DEF Goto, Idle
<1> DEFINE new == [ses |-> s, at |-> 1, save |-> {}, held |-> FALSE, io |-> FALSE]
<1>6. new \in ThreadState
  BY DEF ThreadState
<1>7. ~Owner(t)
  BY <1>2 DEF Owner
<1>8. /\ new.ses = s /\ new.at = 1 /\ ~new.held /\ ~new.io
      /\ thread' = [thread EXCEPT ![t] = new]
  BY <1>1, <1>5
<1>9. new.at \in Nat \ {0} /\ new.at <= Entry(Prog[fam][new.ses]) /\ new.ses \in DOMAIN Prog[fam]
  BY <1>4, <1>8
<1> HIDE DEF new
<1>10. \A u \in Thread \ {t} : Busy(u) => {new.ses, thread[u].ses} \cap Alone[fam] = {}
  BY <1>1, <1>8
<1> QED
  BY <1>2, <1>6, <1>7, <1>8, <1>9, <1>10, Approaches DEF IKept

(* Inside a body the semaphore is held and stays held.                      *)
LEMMA KeepsInside ==
  ASSUME IBus, NEW t \in Thread, Busy(t), thread[t].at \in E(t) + 4 .. N(t) - 2,
         fam' = fam, bit' = bit, extcnf' = extcnf,
         NEW m \in thread[t].at .. N(t) - 1, NEW save \in SUBSET {"en", "me", "host"},
         NEW io \in BOOLEAN, io => m = thread[t].at /\ At(t).k = "mdic",
         thread' = [thread EXCEPT ![t] =
           [ses |-> thread[t].ses, at |-> m, save |-> save, held |-> thread[t].held, io |-> io]]
  PROVE  IKept'
<1> DEFINE new == [ses |-> thread[t].ses, at |-> m, save |-> save, held |-> thread[t].held, io |-> io]
<1>1. /\ thread[t].ses \in DOMAIN Prog[fam] /\ E(t) \in {1, 2} /\ N(t) \in Nat
      /\ thread[t] \in ThreadState /\ thread[t].held
  BY Facts, Places DEF IThread
<1>2. m \in E(t) + 4 .. N(t) - 1 /\ m \in Nat
  BY <1>1
<1>3. new \in ThreadState
  BY <1>1, <1>2 DEF ThreadState
<1>4. Owner(t)
  BY <1>1 DEF Owner
<1>5. bit /\ extcnf = "sw"
  BY <1>1, <1>4, Facts DEF ILock
<1>6. /\ new.ses = thread[t].ses /\ new.at = m /\ new.held = thread[t].held /\ new.io = io
  OBVIOUS
<1> HIDE DEF new
<1>7. new.io => At(t)'.k = "mdic"
  <2>1. SUFFICES ASSUME io PROVE At(t)'.k = "mdic"
    BY <1>6
  <2>2. thread'[t] = new
    BY Facts DEF new
  <2>3. At(t)' = At(t)
    BY <1>6, <2>1, <2>2 DEF At
  <2> QED
    BY <2>1, <2>3
<1>8. m \in E(t) + 1 .. N(t) /\ m >= E(t) + 4 /\ m # N(t) /\ m \in E(t) + 3 .. N(t) - 1
  BY <1>1, <1>2
<1>9. IThread' /\ ILock' /\ IAlone'
  <2>1. thread' = [thread EXCEPT ![t] = new]
    BY DEF new
  <2> QED
    BY <1>1, <1>3, <1>4, <1>5, <1>6, <1>7, <1>8, <2>1, Facts, OnlyOwner, OwnerMoves
<1> QED
  BY <1>9 DEF IKept

(* phy.addr is set in front of the acquisition or inside a body.             *)
LEMMA KeepsSetAddr ==
  ASSUME IBus, NEW t \in Thread, SetAddr(t) PROVE IKept' /\ phyAddr' \in {1, 2}
<1>1. /\ Busy(t) /\ At(t).k = "addr" /\ phyAddr' = At(t).v
      /\ fam' = fam /\ bit' = bit /\ extcnf' = extcnf
      /\ thread' = [thread EXCEPT ![t] = Goto(thread[t], thread[t].ses, thread[t].at + 1)]
  BY DEF SetAddr, IsAt, lock, Advance
<1>2. /\ thread[t].ses \in DOMAIN Prog[fam] /\ thread[t].at \in 1 .. N(t)
      /\ E(t) \in {1, 2} /\ N(t) \in Nat /\ E(t) + 5 <= N(t)
      /\ phyAddr' \in {1, 2}
      /\ thread[t].at < E(t) \/ thread[t].at \in E(t) + 4 .. N(t) - 2
      /\ thread[t] \in ThreadState
  BY <1>1, Facts, Places DEF IThread
<1>3. thread[t].at < N(t)
  BY <1>2
<1> DEFINE new == [ses |-> thread[t].ses, at |-> thread[t].at + 1, save |-> thread[t].save,
                   held |-> thread[t].held, io |-> FALSE]
<1>4. thread' = [thread EXCEPT ![t] = new] /\ new \in ThreadState
  BY <1>1, <1>3, AdvanceTo
<1>5. CASE thread[t].at < E(t)
  <2>1. ~Owner(t)
    BY <1>2, <1>5 DEF Owner
  <2>2. ~thread[t].held
    BY <1>1, <1>2, <1>5, Facts DEF IThread
  <2>3. \A u \in Thread \ {t} : Busy(u) => {thread[t].ses, thread[u].ses} \cap Alone[fam] = {}
    BY <1>1, Facts DEF IAlone
  <2>4. /\ new.ses = thread[t].ses /\ new.at = thread[t].at + 1 /\ ~new.held /\ ~new.io
    BY <2>2
  <2>5. new.at \in Nat \ {0} /\ new.at <= Entry(Prog[fam][new.ses])
    BY <1>2, <1>5, <2>4 DEF E, Prg
  <2> HIDE DEF new
  <2> QED
    BY <1>1, <1>2, <1>4, <2>1, <2>3, <2>4, <2>5, Approaches DEF IKept
<1>6. CASE thread[t].at \in E(t) + 4 .. N(t) - 2
  <2>1. thread[t].at + 1 \in thread[t].at .. N(t) - 1 /\ thread[t].save \in SUBSET {"en", "me", "host"}
    BY <1>2, <1>6 DEF ThreadState
  <2> QED
    BY <1>1, <1>2, <1>4, <1>6, <2>1, KeepsInside
<1> QED
  BY <1>2, <1>5, <1>6

(* test_and_set_bit: whoever sets the bit becomes its owner; who finds it    *)
(* set leaves, or goes to the end of a session nobody else is in.           *)
LEMMA KeepsTestAndSet ==
  ASSUME IBus, NEW t \in Thread, TestAndSet(t) PROVE IKept' /\ bit' \in BOOLEAN
<1>1. Busy(t) /\ At(t).k = "tas" /\ fam' = fam /\ extcnf' = extcnf
  BY DEF TestAndSet, IsAt
<1>2. /\ thread[t].ses \in DOMAIN Prog[fam] /\ thread[t].at = E(t)
      /\ E(t) \in {1, 2} /\ N(t) \in Nat /\ E(t) + 5 <= N(t)
      /\ thread[t] \in ThreadState
  BY <1>1, Facts, Places DEF IThread
<1>3. ~Owner(t)
  BY <1>2 DEF Owner
<1>4. CASE bit
  <2>1. PICK u \in Thread : Owner(u)
    BY <1>4, Facts DEF ILock
  <2>2. u # t /\ Busy(u)
    BY <1>3, <2>1 DEF Owner
  <2>3. thread[t].ses \notin Heedless
    BY <1>1, <1>2, <2>2, Facts DEF IAlone, HeedlessAlone
  <2>4. Fail(t) = Idle
    BY <1>1, <1>2, <2>3, Facts, Fails
  <2>5. thread' = [thread EXCEPT ![t] = Idle] /\ bit' = bit
    BY <1>4, <2>4 DEF TestAndSet, Failed
  <2> QED
    BY <1>1, <1>3, <2>5, Facts, Leaves DEF IKept
<1>5. CASE ~bit
  <2> DEFINE new == [ses |-> thread[t].ses, at |-> thread[t].at + 1, save |-> thread[t].save,
                     held |-> thread[t].held, io |-> FALSE]
  <2>1. bit' = TRUE /\ thread' = [thread EXCEPT ![t] = Goto(thread[t], thread[t].ses, thread[t].at + 1)]
    BY <1>5 DEF TestAndSet, Advance
  <2>2. thread[t].at < N(t)
    BY <1>2
  <2>3. thread' = [thread EXCEPT ![t] = new] /\ new \in ThreadState
    BY <1>1, <2>1, <2>2, AdvanceTo
  <2>4. /\ new.ses = thread[t].ses /\ new.at = E(t) + 1 /\ ~new.held /\ ~new.io
    BY <1>1, <1>2, Facts DEF IThread
  <2>5. extcnf' # "sw"
    <3>1. \A u \in Thread : ~Owner(u)
      <4> SUFFICES ASSUME NEW u \in Thread, Owner(u) PROVE FALSE
        OBVIOUS
      <4>1. thread[u].ses \in Heedless
        BY <1>5, Facts DEF ILock
      <4>2. Busy(u) /\ u # t
        BY <1>3 DEF Owner
      <4>3. thread[u].ses \in DOMAIN Prog[fam]
        BY <4>2, Facts, Places
      <4> QED
        BY <1>1, <4>1, <4>2, <4>3, Facts DEF IAlone, HeedlessAlone
    <3> QED
      BY <1>1, <3>1, Facts DEF ILock
  <2>6. \A u \in Thread \ {t} : ~Owner(u)
    <3> SUFFICES ASSUME NEW u \in Thread \ {t}, Owner(u) PROVE FALSE
      OBVIOUS
    <3>1. thread[u].ses \in Heedless
      BY <1>5, Facts DEF ILock
    <3>2. Busy(u)
      BY DEF Owner
    <3>3. thread[u].ses \in DOMAIN Prog[fam]
      BY <3>2, Facts, Places
    <3> QED
      BY <1>1, <3>1, <3>2, <3>3, Facts DEF IAlone, HeedlessAlone
  <2>7. new.at \in E(t) + 1 .. N(t) /\ ~(new.at >= N(t) - 1) /\ ~(new.at \in E(t) + 4 .. N(t) - 2)
    BY <1>2, <2>4
  <2> HIDE DEF new
  <2> QED
    BY <1>1, <2>1, <2>3, <2>4, <2>5, <2>6, <2>7, OwnerMoves DEF IKept
<1> QED
  BY <1>4, <1>5, Facts

(* SWFLAG is not set before the owner of the bit sets it.                    *)
LEMMA KeepsWaitFlag ==
  ASSUME IBus, NEW t \in Thread, WaitFlag(t) PROVE IKept' /\ bit' \in BOOLEAN
<1>1. Busy(t) /\ At(t).k = "wait" /\ fam' = fam /\ extcnf' = extcnf
  BY DEF WaitFlag, IsAt
<1>2. /\ thread[t].at = E(t) + 1 /\ E(t) \in {1, 2} /\ N(t) \in Nat /\ E(t) + 5 <= N(t)
      /\ thread[t] \in ThreadState
  BY <1>1, Facts, Places DEF IThread
<1>3. Owner(t)
  BY <1>1, <1>2 DEF Owner
<1>4. extcnf # "sw" /\ bit
  <2>1. SUFFICES ASSUME extcnf = "sw" PROVE FALSE
    BY <1>2, <1>3, Facts DEF ILock
  <2>2. PICK u \in Thread : Owner(u) /\ thread[u].at \in E(u) + 3 .. N(u) - 1
    BY <2>1, Facts DEF ILock
  <2>3. u = t
    BY <1>3, <2>2, OnlyOwner
  <2> QED
    BY <1>2, <2>2, <2>3
<1> DEFINE new == [ses |-> thread[t].ses, at |-> thread[t].at + 1, save |-> thread[t].save,
                   held |-> thread[t].held, io |-> FALSE]
<1>5. thread' = [thread EXCEPT ![t] = Goto(thread[t], thread[t].ses, thread[t].at + 1)] /\ bit' = bit
  BY <1>4 DEF WaitFlag, Advance
<1>6. thread' = [thread EXCEPT ![t] = new] /\ new \in ThreadState
  <2>1. thread[t].at < N(t)
    BY <1>2
  <2> QED
    BY <1>1, <1>5, <2>1, AdvanceTo
<1>7. /\ new.ses = thread[t].ses /\ new.at = E(t) + 2 /\ ~new.held /\ ~new.io
  BY <1>1, <1>2, Facts DEF IThread
<1>8. new.at \in E(t) + 1 .. N(t) /\ ~(new.at >= N(t) - 1) /\ ~(new.at \in E(t) + 4 .. N(t) - 2)
  BY <1>2, <1>7
<1> HIDE DEF new
<1>9. IThread' /\ ILock' /\ IAlone'
  BY <1>1, <1>3, <1>4, <1>5, <1>6, <1>7, <1>8, Facts, OnlyOwner, OwnerMoves
<1> QED
  BY <1>5, <1>9, Facts DEF IKept

(* SWFLAG is set by the owner of the bit.                                   *)
LEMMA KeepsSetFlag ==
  ASSUME IBus, NEW t \in Thread, SetFlag(t) PROVE IKept'
<1>1. /\ Busy(t) /\ At(t).k = "set" /\ fam' = fam /\ bit' = bit
      /\ thread' = [thread EXCEPT ![t] = Goto(thread[t], thread[t].ses, thread[t].at + 1)]
  BY DEF SetFlag, IsAt, Advance
<1>2. /\ thread[t].at = E(t) + 2 /\ E(t) \in {1, 2} /\ N(t) \in Nat /\ E(t) + 5 <= N(t)
      /\ thread[t] \in ThreadState
  BY <1>1, Facts, Places DEF IThread
<1>3. Owner(t)
  BY <1>1, <1>2 DEF Owner
<1>4. bit
  BY <1>2, <1>3, Facts DEF ILock
<1> DEFINE new == [ses |-> thread[t].ses, at |-> thread[t].at + 1, save |-> thread[t].save,
                   held |-> thread[t].held, io |-> FALSE]
<1>5. thread' = [thread EXCEPT ![t] = new] /\ new \in ThreadState
  <2>1. thread[t].at < N(t)
    BY <1>2
  <2> QED
    BY <1>1, <2>1, AdvanceTo
<1>6. /\ new.ses = thread[t].ses /\ new.at = E(t) + 3 /\ ~new.held /\ ~new.io
  BY <1>1, <1>2, Facts DEF IThread
<1>7. /\ new.at \in E(t) + 1 .. N(t) /\ ~(new.at >= N(t) - 1) /\ ~(new.at \in E(t) + 4 .. N(t) - 2)
      /\ new.at \in E(t) + 3 .. N(t) - 1
  BY <1>2, <1>6
<1> HIDE DEF new
<1>8. IThread' /\ ILock' /\ IAlone'
  BY <1>1, <1>3, <1>4, <1>5, <1>6, <1>7, Facts, OnlyOwner, OwnerMoves
<1> QED
  BY <1>8 DEF IKept

(* The owner reads SWFLAG back: it holds the semaphore, or gives the bit up.  *)
LEMMA KeepsVerifyFlag ==
  ASSUME IBus, NEW t \in Thread, VerifyFlag(t) PROVE IKept' /\ bit' \in BOOLEAN
<1>1. Busy(t) /\ At(t).k = "verify" /\ fam' = fam /\ extcnf' = extcnf
  BY DEF VerifyFlag, IsAt
<1>2. /\ thread[t].at = E(t) + 3 /\ E(t) \in {1, 2} /\ N(t) \in Nat /\ E(t) + 5 <= N(t)
      /\ thread[t] \in ThreadState /\ ~thread[t].held
      /\ thread[t].ses \in DOMAIN Prog[fam]
  BY <1>1, Facts, Places DEF IThread
<1>3. Owner(t)
  BY <1>1, <1>2 DEF Owner
<1>4. CASE extcnf = "sw"
  <2> DEFINE new == [ses |-> thread[t].ses, at |-> thread[t].at + 1, save |-> thread[t].save,
                     held |-> TRUE, io |-> FALSE]
  <2>1. /\ thread' = [thread EXCEPT ![t] =
               [Goto(thread[t], thread[t].ses, thread[t].at + 1) EXCEPT !.held = TRUE]]
        /\ bit' = bit
    BY <1>4 DEF VerifyFlag
  <2>2. Goto(thread[t], thread[t].ses, thread[t].at + 1) =
          [ses |-> thread[t].ses, at |-> thread[t].at + 1, save |-> thread[t].save,
           held |-> thread[t].held, io |-> FALSE]
    BY <1>1, <1>2, AdvanceTo
  <2>3. thread' = [thread EXCEPT ![t] = new]
    <3>1. [[ses |-> thread[t].ses, at |-> thread[t].at + 1, save |-> thread[t].save,
            held |-> thread[t].held, io |-> FALSE] EXCEPT !.held = TRUE] = new
      <4> DEFINE h == TRUE
                 i == FALSE
      <4> HIDE DEF h, i
      <4>1. [[ses |-> thread[t].ses, at |-> thread[t].at + 1, save |-> thread[t].save,
              held |-> thread[t].held, io |-> i] EXCEPT !.held = h] =
            [ses |-> thread[t].ses, at |-> thread[t].at + 1, save |-> thread[t].save,
             held |-> h, io |-> i]
        OBVIOUS
      <4> QED
        BY <4>1, Zenon DEF h, i, new
    <3> QED
      BY <2>1, <2>2, <3>1, Zenon
  <2>4. new \in ThreadState
    BY <1>2 DEF ThreadState
  <2>5. /\ new.ses = thread[t].ses /\ new.at = E(t) + 4 /\ new.held /\ ~new.io
    BY <1>2
  <2>6. new.at \in E(t) + 1 .. N(t) /\ new.at >= E(t) + 4 /\ new.at # N(t)
        /\ new.at \in E(t) + 3 .. N(t) - 1
    BY <1>2, <2>5
  <2>7. bit
    BY <1>2, <1>3, Facts DEF ILock
  <2> HIDE DEF new
  <2>8. IThread' /\ ILock' /\ IAlone'
    BY <1>1, <1>3, <1>4, <2>1, <2>3, <2>4, <2>5, <2>6, <2>7, Facts, OnlyOwner, OwnerMoves
  <2> QED
    BY <2>1, <2>8, Facts DEF IKept
<1>5. CASE extcnf # "sw" /\ thread[t].ses \notin Heedless
  <2>1. bit' = FALSE /\ thread' = [thread EXCEPT ![t] = Fail(t)]
    BY <1>5 DEF VerifyFlag, Failed
  <2>2. Fail(t) = Idle
    BY <1>1, <1>2, <1>5, Facts, Fails
  <2>3. IThread' /\ ILock' /\ IAlone'
    BY <1>1, <1>3, <1>5, <2>1, <2>2, Leaves
  <2> QED
    BY <2>1, <2>3 DEF IKept
<1>6. CASE extcnf # "sw" /\ thread[t].ses \in Heedless
  <2> DEFINE new == [ses |-> thread[t].ses, at |-> N(t) - 1, save |-> thread[t].save,
                     held |-> thread[t].held, io |-> FALSE]
  <2>1. bit' = FALSE /\ thread' = [thread EXCEPT ![t] = Fail(t)]
    BY <1>6 DEF VerifyFlag, Failed
  <2>2. Fail(t) = new
    BY <1>1, <1>2, <1>6, Facts, Fails
  <2>3. new \in ThreadState
    BY <1>2 DEF ThreadState
  <2>4. /\ new.ses = thread[t].ses /\ new.at = N(t) - 1 /\ ~new.held /\ ~new.io
    BY <1>2
  <2>5. new.at \in E(t) + 1 .. N(t) /\ ~(new.at <= E(t) + 3) /\ ~(new.at \in E(t) + 4 .. N(t) - 2)
        /\ new.at \in E(t) + 3 .. N(t) - 1
    BY <1>2, <2>4
  <2> HIDE DEF new
  <2>6. IThread' /\ ILock' /\ IAlone'
    BY <1>1, <1>3, <1>6, <2>1, <2>2, <2>3, <2>4, <2>5, Facts, OnlyOwner, OwnerMoves
  <2> QED
    BY <2>1, <2>6 DEF IKept
<1> QED
  BY <1>4, <1>5, <1>6

(* SWFLAG is cleared by its owner ...                                       *)
LEMMA KeepsReleaseFlag ==
  ASSUME IBus, NEW t \in Thread, ReleaseFlag(t) PROVE IKept'
<1>1. /\ Busy(t) /\ At(t).k = "rel" /\ fam' = fam /\ bit' = bit /\ extcnf' # "sw"
      /\ thread' = [thread EXCEPT ![t] =
           [Goto(thread[t], thread[t].ses, thread[t].at + 1) EXCEPT !.held = FALSE]]
  BY DEF ReleaseFlag, IsAt
<1>2. /\ thread[t].at = N(t) - 1 /\ E(t) \in {1, 2} /\ N(t) \in Nat /\ E(t) + 5 <= N(t)
      /\ thread[t] \in ThreadState /\ thread[t].ses # "reset"
  BY <1>1, Facts, Places DEF IThread
<1>3. Owner(t)
  BY <1>1, <1>2 DEF Owner
<1>4. thread[t].ses \notin Heedless => bit
  BY <1>3, Facts DEF ILock
<1> DEFINE new == [ses |-> thread[t].ses, at |-> thread[t].at + 1, save |-> thread[t].save,
                   held |-> FALSE, io |-> FALSE]
<1>5. Goto(thread[t], thread[t].ses, thread[t].at + 1) =
        [ses |-> thread[t].ses, at |-> thread[t].at + 1, save |-> thread[t].save,
         held |-> thread[t].held, io |-> FALSE]
  BY <1>1, <1>2, AdvanceTo
<1>6. thread' = [thread EXCEPT ![t] = new]
  <2>1. [[ses |-> thread[t].ses, at |-> thread[t].at + 1, save |-> thread[t].save,
          held |-> thread[t].held, io |-> FALSE] EXCEPT !.held = FALSE] = new
    <3> DEFINE h == FALSE
    <3> HIDE DEF h
    <3>1. [[ses |-> thread[t].ses, at |-> thread[t].at + 1, save |-> thread[t].save,
            held |-> thread[t].held, io |-> h] EXCEPT !.held = h] =
          [ses |-> thread[t].ses, at |-> thread[t].at + 1, save |-> thread[t].save,
           held |-> h, io |-> h]
      OBVIOUS
    <3> QED
      BY <3>1, Zenon DEF h, new
  <2> QED
    BY <1>1, <1>5, <2>1, Zenon
<1>7. new \in ThreadState
  BY <1>2 DEF ThreadState
<1>8. /\ new.ses = thread[t].ses /\ new.at = N(t) /\ ~new.held /\ ~new.io
  BY <1>2
<1>9. new.at \in E(t) + 1 .. N(t) /\ ~(new.at <= E(t) + 3) /\ ~(new.at \in E(t) + 4 .. N(t) - 2)
  BY <1>2, <1>8
<1> HIDE DEF new
<1>10. IThread' /\ ILock' /\ IAlone'
  BY <1>1, <1>2, <1>3, <1>4, <1>6, <1>7, <1>8, <1>9, Facts, OnlyOwner, OwnerMoves
<1> QED
  BY <1>10 DEF IKept

(* ... and then the bit, at the end of a reset only if it was acquired.      *)
LEMMA KeepsClearBit ==
  ASSUME IBus, NEW t \in Thread, ClearBit(t) \/ ClearIfHeld(t) PROVE IKept' /\ bit' \in BOOLEAN
<1>1. /\ Busy(t) /\ At(t).k \in {"clr", "clrheld"} /\ fam' = fam /\ extcnf' = extcnf
  BY DEF ClearBit, ClearIfHeld, IsAt
<1>2. /\ thread[t].at = N(t) /\ E(t) \in {1, 2} /\ N(t) \in Nat /\ E(t) + 5 <= N(t)
      /\ At(t).k = "clrheld" => thread[t].ses = "reset"
  BY <1>1, Facts, Places
<1>3. Owner(t)
  BY <1>1, <1>2 DEF Owner
<1>4. extcnf # "sw"
  <2>1. SUFFICES ASSUME extcnf = "sw" PROVE FALSE
    OBVIOUS
  <2>2. PICK u \in Thread : Owner(u) /\ thread[u].at \in E(u) + 3 .. N(u) - 1
    BY <2>1, Facts DEF ILock
  <2>3. u = t
    BY <1>3, <2>2, OnlyOwner
  <2> QED
    BY <1>2, <2>2, <2>3
<1>5. thread' = [thread EXCEPT ![t] = Idle]
  <2>1. Goto(thread[t], thread[t].ses, thread[t].at + 1) = Idle
    <3>1. N(t) + 1 \notin 1 .. N(t)
      BY <1>2
    <3> QED
      BY <1>1, <1>2, <3>1, Facts, GoesIdle
  <2> QED
    BY <2>1 DEF ClearBit, ClearIfHeld, Advance
<1>6. bit' = FALSE
  <2>1. CASE ClearBit(t)
    BY <2>1 DEF ClearBit
  <2>2. CASE ClearIfHeld(t)
    <3>1. At(t).k = "clrheld" /\ bit' = IF thread[t].held THEN FALSE ELSE bit
      BY <2>2 DEF ClearIfHeld, IsAt
    <3>2. ~thread[t].held => ~bit
      BY <1>1, <1>2, <3>1, Facts DEF ILock
    <3>3. bit \in BOOLEAN
      BY Facts
    <3>4. CASE thread[t].held
      BY <3>1, <3>4
    <3>5. CASE ~thread[t].held
      BY <3>1, <3>2, <3>3, <3>5, Zenon
    <3> QED
      BY <3>4, <3>5
  <2> QED
    BY <2>1, <2>2
<1>7. IThread' /\ ILock' /\ IAlone'
  BY <1>1, <1>3, <1>4, <1>5, <1>6, Leaves
<1> QED
  BY <1>6, <1>7 DEF IKept

(* The reset of the chip clears SWFLAG, whose owner is the thread itself.     *)
LEMMA KeepsChipReset ==
  ASSUME IBus, NEW t \in Thread, ChipReset(t) PROVE IKept'
<1>1. /\ Busy(t) /\ At(t).k = "rst" /\ fam' = fam /\ bit' = bit /\ extcnf' # "sw"
      /\ thread' = [thread EXCEPT ![t] = Goto(thread[t], thread[t].ses, thread[t].at + 1)]
  BY DEF ChipReset, IsAt, Advance
<1>2. /\ thread[t].at = N(t) - 1 /\ E(t) \in {1, 2} /\ N(t) \in Nat /\ E(t) + 5 <= N(t)
      /\ thread[t] \in ThreadState /\ thread[t].ses = "reset"
  BY <1>1, Facts, Places DEF IThread
<1>3. Owner(t)
  BY <1>1, <1>2 DEF Owner
<1>4. (thread[t].held => bit) /\ (~thread[t].held => ~bit)
  BY <1>1, <1>2, <1>3, Facts DEF ILock
<1> DEFINE new == [ses |-> thread[t].ses, at |-> thread[t].at + 1, save |-> thread[t].save,
                   held |-> thread[t].held, io |-> FALSE]
<1>5. thread' = [thread EXCEPT ![t] = new] /\ new \in ThreadState
  <2>1. thread[t].at < N(t)
    BY <1>2
  <2> QED
    BY <1>1, <2>1, AdvanceTo
<1>6. /\ new.ses = thread[t].ses /\ new.at = N(t) /\ new.held = thread[t].held /\ ~new.io
  BY <1>2
<1>7. new.at \in E(t) + 1 .. N(t) /\ ~(new.at <= E(t) + 3) /\ ~(new.at \in E(t) + 4 .. N(t) - 2)
      /\ new.at >= E(t) + 4 /\ ~(new.at <= N(t) - 1)
  BY <1>2, <1>6
<1>8. new.ses \in Heedless
  BY <1>2, <1>6 DEF Heedless
<1> HIDE DEF new
<1>9. IThread' /\ ILock' /\ IAlone'
  BY <1>1, <1>2, <1>3, <1>4, <1>5, <1>6, <1>7, <1>8, Facts, OnlyOwner, OwnerMoves
<1> QED
  BY <1>9 DEF IKept

-----------------------------------------------------------------------------
(* Accesses, which all happen with the semaphore held.                      *)
LEMMA Accessing ==
  ASSUME IBus, NEW t \in Thread, Busy(t), At(t).k \in {"mdic", "kaddr", "kdata"}
  PROVE  /\ thread[t].at \in E(t) + 4 .. N(t) - 2 /\ thread[t].at < N(t)
         /\ thread[t].at \in thread[t].at .. N(t) - 1 /\ thread[t].at + 1 \in thread[t].at .. N(t) - 1
         /\ thread[t].save \in SUBSET {"en", "me", "host"}
<1>1. /\ thread[t].at \in E(t) + 4 .. N(t) - 2 /\ E(t) \in {1, 2} /\ N(t) \in Nat
  BY Facts, Places
<1>2. thread[t].save \in SUBSET {"en", "me", "host"} /\ thread[t].at \in Nat
  BY Facts DEF ThreadState
<1>3. thread[t].at < N(t) /\ thread[t].at \in thread[t].at .. N(t) - 1
      /\ thread[t].at + 1 \in thread[t].at .. N(t) - 1
  BY <1>1, <1>2
<1> QED
  BY <1>1, <1>2, <1>3

(* The command is written, and finished, in the same place.                 *)
LEMMA KeepsIssue ==
  ASSUME IBus, NEW t \in Thread, Issue(t) PROVE IKept'
<1>1. /\ Busy(t) /\ At(t).k = "mdic" /\ fam' = fam /\ bit' = bit /\ extcnf' = extcnf
      /\ thread' = [thread EXCEPT ![t].io = TRUE]
  BY DEF Issue, IsAt, lock
<1>2. thread[t] \in ThreadState
  BY Facts
<1>3. [thread[t] EXCEPT !.io = TRUE] =
        [ses |-> thread[t].ses, at |-> thread[t].at, save |-> thread[t].save,
         held |-> thread[t].held, io |-> TRUE]
  <2> DEFINE h == TRUE
  <2> HIDE DEF h
  <2>1. [thread[t] EXCEPT !.io = h] =
          [ses |-> thread[t].ses, at |-> thread[t].at, save |-> thread[t].save,
           held |-> thread[t].held, io |-> h]
    BY <1>2 DEF ThreadState
  <2> QED
    BY <2>1, Zenon DEF h
<1>4. thread' = [thread EXCEPT ![t] =
        [ses |-> thread[t].ses, at |-> thread[t].at, save |-> thread[t].save,
         held |-> thread[t].held, io |-> TRUE]]
  BY <1>1, <1>3
<1> QED
  BY <1>1, <1>4, Accessing, KeepsInside

(* Accesses of Kumeran registers.                                           *)
LEMMA KeepsKmrn ==
  ASSUME IBus, NEW t \in Thread, KmrnAddress(t) \/ KmrnData(t) PROVE IKept'
<1>1. /\ Busy(t) /\ At(t).k \in {"kaddr", "kdata"} /\ fam' = fam /\ bit' = bit /\ extcnf' = extcnf
      /\ thread' = [thread EXCEPT ![t] = Goto(thread[t], thread[t].ses, thread[t].at + 1)]
  BY DEF KmrnAddress, KmrnData, IsAt, lock, Advance
<1>2. thread' = [thread EXCEPT ![t] =
        [ses |-> thread[t].ses, at |-> thread[t].at + 1, save |-> thread[t].save,
         held |-> thread[t].held, io |-> FALSE]]
  BY <1>1, Accessing, AdvanceTo
<1> QED
  BY <1>1, <1>2, Accessing, KeepsInside

(* An access that fails stays inside the session.                           *)
LEMMA KeepsError ==
  ASSUME IBus, NEW t \in Thread, Error(t) PROVE IKept'
<1>1. /\ Busy(t) /\ thread[t].io /\ fam' = fam /\ bit' = bit /\ extcnf' = extcnf
      /\ thread' = [thread EXCEPT ![t] = Fail(t)]
  BY DEF Error, lock, Failed
<1>2. At(t).k = "mdic"
  BY <1>1, Facts DEF IThread
<1>3. PICK m \in thread[t].at + 1 .. N(t) - 1 :
        Fail(t) = [ses |-> thread[t].ses, at |-> m, save |-> thread[t].save,
                   held |-> thread[t].held, io |-> FALSE]
  BY <1>1, <1>2, Facts, Accessing, Fails
<1>4. m \in thread[t].at .. N(t) - 1
  BY <1>1, Facts, Places
<1> QED
  BY <1>1, <1>2, <1>3, <1>4, Accessing, KeepsInside

(* An access is done; the types of 769.17 and its copies are kept, too.      *)
LEMMA KeepsComplete ==
  ASSUME IBus, NEW t \in Thread, Complete(t)
  PROVE  IKept' /\ wuc' \subseteq {"en", "me", "host"} /\ meant' \subseteq {"en", "me", "host"}
<1> DEFINE to == Goto(thread[t], thread[t].ses, thread[t].at + 1)
           save == IF At(t).act = "save" THEN wuc ELSE thread[t].save
<1>1. /\ Busy(t) /\ thread[t].io /\ fam' = fam /\ bit' = bit /\ extcnf' = extcnf
      /\ thread' = [thread EXCEPT ![t] =
           [to EXCEPT !.save = IF At(t).act = "save" THEN wuc ELSE thread[t].save]]
  BY DEF Complete, lock
<1>2. At(t).k = "mdic"
  BY <1>1, Facts DEF IThread
<1>3. wuc \subseteq {"en", "me", "host"} /\ meant \subseteq {"en", "me", "host"}
  BY DEF IBus, BusTypeOK
<1>4. save \in SUBSET {"en", "me", "host"}
  BY <1>1, <1>2, <1>3, Accessing
<1>5. to = [ses |-> thread[t].ses, at |-> thread[t].at + 1, save |-> thread[t].save,
            held |-> thread[t].held, io |-> FALSE]
  BY <1>1, <1>2, Accessing, AdvanceTo
<1>6. thread' = [thread EXCEPT ![t] =
        [ses |-> thread[t].ses, at |-> thread[t].at + 1, save |-> save,
         held |-> thread[t].held, io |-> FALSE]]
  <2> DEFINE h == FALSE
             saved == [to EXCEPT !.save = save]
  <2>1. to = [ses |-> thread[t].ses, at |-> thread[t].at + 1, save |-> thread[t].save,
              held |-> thread[t].held, io |-> h]
    BY <1>5
  <2> HIDE DEF h
  <2>2. saved = [ses |-> thread[t].ses, at |-> thread[t].at + 1, save |-> save,
                 held |-> thread[t].held, io |-> h]
    <3> HIDE DEF to, save
    <3> QED
      BY <2>1
  <2>3. thread' = [thread EXCEPT ![t] = saved]
    BY <1>1, Zenon
  <2> QED
    BY <2>2, <2>3, Zenon DEF h
<1>7. IKept'
  <2> HIDE DEF save
  <2> QED
    BY <1>1, <1>2, <1>4, <1>6, Accessing, KeepsInside
<1>8. \A act : WucAfter(act, thread[t].save) \subseteq {"en", "me", "host"}
  BY <1>1, <1>2, <1>3, Accessing DEF WucAfter
<1>9. wuc' \subseteq {"en", "me", "host"} /\ meant' \subseteq {"en", "me", "host"}
  <2>1. CASE mdic = None
    BY <1>3, <2>1 DEF Complete, device
  <2>2. CASE mdic # None
    <3>1. Perform(mdic, thread[t].save)
      BY <2>2 DEF Complete
    <3>2. wuc' = wuc \/ wuc' = WucAfter(mdic.act, thread[t].save)
      BY <3>1 DEF Perform
    <3>3. meant' = meant \/ meant' = meant \cup {"en", "host"}
      BY <3>1 DEF Perform
    <3> QED
      BY <1>3, <1>8, <3>2, <3>3
  <2> QED
    BY <2>1, <2>2
<1> QED
  BY <1>7, <1>9

-----------------------------------------------------------------------------
(* The invariant is inductive.                                              *)
(* The types that do not depend on programs.                                *)
BusScalars ==
  /\ fam \in Families /\ bit \in BOOLEAN /\ extcnf \in {"free", "sw", "fw"}
  /\ phyAddr \in {1, 2} /\ faults \in 0 .. MaxFaults
  /\ wuc \subseteq {"en", "me", "host"} /\ meant \subseteq {"en", "me", "host"}

(* Nobody is in an accessor.                                                *)
LEMMA BusInitial == HeedlessAlone /\ BusInit => IBus
<1> SUFFICES ASSUME HeedlessAlone, BusInit PROVE IBus
  OBVIOUS
<1>1. thread = [t \in Thread |-> Idle] /\ bit = FALSE /\ extcnf = "free"
  BY DEF BusInit
<1>2. \A t \in Thread : ~Busy(t) /\ ~Owner(t) /\ ~thread[t].held /\ ~thread[t].io
  BY <1>1 DEF Busy, Owner, Idle
<1>3. Idle \in ThreadState
  BY DEF Idle, ThreadState
<1>4. IThread
  BY <1>1, <1>2, <1>3 DEF IThread
<1>5. ILock
  BY <1>1, <1>2 DEF ILock
<1>6. IAlone
  BY <1>2 DEF IAlone
<1>7. BusTypeOK
  <2>1. faults \in 0 .. MaxFaults
    BY BusAssumption DEF BusInit
  <2>2. meant = wuc /\ wuc \subseteq {"en", "me", "host"}
    BY DEF BusInit
  <2>3. fam \in Families /\ phyAddr = 1
    BY DEF BusInit
  <2> QED
    BY <1>1, <1>2, <2>1, <2>2, <2>3 DEF BusTypeOK
<1> QED
  BY <1>4, <1>5, <1>6, <1>7 DEF IBus

(* The step a thread is at exists.                                           *)
LEMMA StepInSession ==
  ASSUME fam' \in Families, IThread'
  PROVE  \A t \in Thread : Busy(t)' => thread'[t].at \in DOMAIN Prog[fam'][thread'[t].ses]
<1> SUFFICES ASSUME NEW t \in Thread, Busy(t)'
             PROVE  thread'[t].at \in DOMAIN Prog[fam'][thread'[t].ses]
  OBVIOUS
<1>1. thread'[t].ses \in DOMAIN Prog[fam'] /\ thread'[t].at \in 1 .. Len(Prog[fam'][thread'[t].ses])
  BY DEF IThread, ThreadState, Busy, N, Prg
<1> QED
  BY <1>1, Sessions DEF Session

(* Every action, and a stuttering step.                                     *)
LEMMA BusStep == IBus /\ [BusNext]_busVars => IBus'
<1> SUFFICES ASSUME IBus, [BusNext]_busVars PROVE IBus'
  OBVIOUS
<1>1. BusScalars /\ IThread /\ ILock /\ IAlone
  BY DEF IBus, BusTypeOK, BusScalars
<1>2. SUFFICES BusScalars' /\ IKept'
  <2>1. ASSUME BusScalars', IKept' PROVE IBus'
    <3>1. \A t \in Thread : Busy(t)' => thread'[t].at \in DOMAIN Prog[fam'][thread'[t].ses]
      BY <2>1, StepInSession DEF BusScalars, IKept
    <3>2. BusTypeOK'
      BY <2>1, <3>1 DEF BusScalars, BusTypeOK
    <3>3. HeedlessAlone'
      BY DEF IBus, HeedlessAlone
    <3> QED
      BY <2>1, <3>2, <3>3 DEF IKept, IBus
  <2> QED
    BY <2>1
<1>3. ASSUME NEW t \in Thread, Begin(t) PROVE BusScalars' /\ IKept'
  BY <1>1, <1>3, KeepsBegin DEF Begin, lock, device, BusScalars
<1>4. ASSUME NEW t \in Thread, SetAddr(t) PROVE BusScalars' /\ IKept'
  BY <1>1, <1>4, KeepsSetAddr DEF SetAddr, lock, device, BusScalars
<1>5. ASSUME NEW t \in Thread, TestAndSet(t) PROVE BusScalars' /\ IKept'
  BY <1>1, <1>5, KeepsTestAndSet DEF TestAndSet, device, BusScalars
<1>6. ASSUME NEW t \in Thread, WaitFlag(t) PROVE BusScalars' /\ IKept'
  BY <1>1, <1>6, KeepsWaitFlag DEF WaitFlag, device, BusScalars
<1>7. ASSUME NEW t \in Thread, SetFlag(t) PROVE BusScalars' /\ IKept'
  BY <1>1, <1>7, KeepsSetFlag DEF SetFlag, device, BusScalars
<1>8. ASSUME NEW t \in Thread, VerifyFlag(t) PROVE BusScalars' /\ IKept'
  BY <1>1, <1>8, KeepsVerifyFlag DEF VerifyFlag, device, BusScalars
<1>9. ASSUME NEW t \in Thread, ReleaseFlag(t) PROVE BusScalars' /\ IKept'
  BY <1>1, <1>9, KeepsReleaseFlag DEF ReleaseFlag, device, BusScalars
<1>10. ASSUME NEW t \in Thread, ClearBit(t) \/ ClearIfHeld(t) PROVE BusScalars' /\ IKept'
  BY <1>1, <1>10, KeepsClearBit DEF ClearBit, ClearIfHeld, device, BusScalars
<1>11. ASSUME NEW t \in Thread, ChipReset(t) PROVE BusScalars' /\ IKept'
  BY <1>1, <1>11, KeepsChipReset DEF ChipReset, BusScalars
<1>12. ASSUME NEW t \in Thread, Issue(t) PROVE BusScalars' /\ IKept'
  BY <1>1, <1>12, KeepsIssue DEF Issue, lock, device, BusScalars
<1>13. ASSUME NEW t \in Thread, Complete(t) PROVE BusScalars' /\ IKept'
  BY <1>1, <1>13, KeepsComplete DEF Complete, lock, BusScalars
<1>14. ASSUME NEW t \in Thread, KmrnAddress(t) \/ KmrnData(t) PROVE BusScalars' /\ IKept'
  BY <1>1, <1>14, KeepsKmrn DEF KmrnAddress, KmrnData, lock, device, BusScalars
<1>15. ASSUME NEW t \in Thread, Error(t) PROVE BusScalars' /\ IKept'
  <2>1. IKept'
    BY <1>15, KeepsError
  <2>2. faults' \in 0 .. MaxFaults
    BY <1>1, <1>15, BusAssumption DEF Error, BusScalars
  <2> QED
    BY <1>1, <1>15, <2>1, <2>2 DEF Error, lock, device, BusScalars
<1>16. CASE FwTakes \/ FwUses \/ FwGives
  <2>1. /\ fam' = fam /\ thread' = thread /\ bit' = bit /\ phyAddr' = phyAddr /\ faults' = faults
        /\ wuc' = wuc /\ meant' = meant
        /\ extcnf' = extcnf \/ (extcnf # "sw" /\ extcnf' \in {"free", "fw"})
    BY <1>16 DEF FwTakes, FwUses, FwGives, lock, device
  <2>2. IKept'
    BY <1>1, <2>1, FirmwareKeeps DEF IKept
  <2> QED
    BY <1>1, <2>1, <2>2 DEF BusScalars
<1>17. CASE UNCHANGED busVars
  <2>1. /\ fam' = fam /\ thread' = thread /\ bit' = bit /\ phyAddr' = phyAddr /\ faults' = faults
        /\ wuc' = wuc /\ meant' = meant /\ extcnf' = extcnf
    BY <1>17 DEF busVars
  <2>2. IKept'
    BY <1>1, <2>1, FirmwareKeeps DEF IKept
  <2> QED
    BY <1>1, <2>1, <2>2 DEF BusScalars
<1> QED
  BY <1>3, <1>4, <1>5, <1>6, <1>7, <1>8, <1>9, <1>10, <1>11, <1>12, <1>13, <1>14, <1>15, <1>16,
     <1>17 DEF BusNext, Run

(* So the invariant always holds.                                           *)
LEMMA BusInvariant == HeedlessAlone /\ BusSpec => []IBus
<1>1. HeedlessAlone /\ BusInit => IBus
  BY BusInitial
<1>2. IBus /\ [BusNext]_busVars => IBus'
  BY BusStep
<1> QED
  BY <1>1, <1>2, PTL DEF BusSpec

(* A thread that holds the semaphore, the end of a reset apart.             *)
LEMMA Holding ==
  ASSUME IBus, NEW t \in Thread, thread[t].held
  PROVE  Owner(t) /\ (~IsAt(t, "clrheld") => extcnf = "sw" /\ bit)
<1>1. Busy(t)
  BY Facts DEF IThread
<1>2. E(t) \in {1, 2} /\ N(t) \in Nat /\ thread[t].at \in 1 .. N(t)
  BY <1>1, Facts, Places
<1>3. thread[t].at >= E(t) + 4
  BY <1>1, Facts DEF IThread
<1>4. Owner(t)
  BY <1>1, <1>2, <1>3 DEF Owner
<1>5. ASSUME ~IsAt(t, "clrheld") PROVE extcnf = "sw" /\ bit
  <2>1. thread[t].at # N(t)
    <3>1. SUFFICES ASSUME thread[t].at = N(t) PROVE FALSE
      OBVIOUS
    <3>2. At(t).k = "clrheld"
      BY <1>1, <3>1, Facts DEF IThread
    <3>3. thread[t].io
      BY <1>1, <1>5, <3>2 DEF IsAt
    <3>4. At(t).k = "mdic"
      BY <1>1, <3>3, Facts DEF IThread
    <3> QED
      BY <3>2, <3>4
  <2>2. thread[t].at <= N(t) - 1
    BY <1>2, <2>1
  <2> QED
    BY <1>1, <1>4, <2>2, Facts DEF ILock
<1> QED
  BY <1>4, <1>5

(* Every accessor stays within its steps and hw->phy.addr, the lock and      *)
(* 769.17 within their values, whatever fails in whichever session.         *)
THEOREM BusTypeCorrect == HeedlessAlone /\ BusSpec => []BusTypeOK
<1>1. IBus => BusTypeOK
  BY DEF IBus
<1> QED
  BY <1>1, BusInvariant, PTL

(* The bit of test_and_set_bit and SWFLAG together exclude: a thread that    *)
(* got past e1000_acquire_swflag_ich8lan has them both until it releases     *)
(* them, for any number of threads, whatever the firmware does and whichever *)
(* access fails.  What it takes is that intelDisable() and the global reset, *)
(* which go on when the semaphore was refused, overlap with no other         *)
(* session: they would release what another thread holds.                   *)
THEOREM SemaphoreExcludes == HeedlessAlone /\ BusSpec => []Exclusive
<1>1. IBus => Exclusive
  <2> SUFFICES ASSUME IBus, NEW t \in Thread, thread[t].held, ~IsAt(t, "clrheld")
               PROVE  extcnf = "sw" /\ bit /\ \A u \in Thread \ {t} : ~thread[u].held
    BY DEF Exclusive
  <2>1. Owner(t) /\ extcnf = "sw" /\ bit
    BY Holding
  <2>2. ASSUME NEW u \in Thread \ {t}, thread[u].held PROVE FALSE
    BY <2>1, <2>2, Holding, OnlyOwner
  <2> QED
    BY <2>1, <2>2
<1> QED
  BY <1>1, BusInvariant, PTL

(* No path through the accessors, their errors and a refused semaphore       *)
(* included, leaves the bit or SWFLAG behind (the first two parts of         *)
(* NothingLeft): the next access does not fail for ever, and the firmware is *)
(* not locked out.                                                          *)
THEOREM NothingHeldBack ==
  HeedlessAlone /\ BusSpec => []((\A t \in Thread : ~Busy(t)) => ~bit /\ extcnf # "sw")
<1>1. IBus => ((\A t \in Thread : ~Busy(t)) => ~bit /\ extcnf # "sw")
  <2> SUFFICES ASSUME IBus, \A t \in Thread : ~Busy(t) PROVE ~bit /\ extcnf # "sw"
    OBVIOUS
  <2>1. \A t \in Thread : ~Owner(t)
    BY DEF Owner
  <2> QED
    BY <2>1, Facts DEF ILock
<1> QED
  BY <1>1, BusInvariant, PTL

-----------------------------------------------------------------------------
(* What the programs do to the PHY.                                         *)
(*                                                                         *)
(* Inside a body a thread is alone, and what it finds depends on a view: the *)
(* address, pages and ports, 769.17 with its copies, whether no access has   *)
(* failed yet, and the Kumeran register asked for.  igp PHYs are at 1.       *)
Addrs(f) == IF f = "igp" THEN {1} ELSE {1, 2}

Bits == {"en", "me", "host"}

Views(f) ==
  [addr : Addrs(f), sel : [{1, 2} -> Int], port : [{2, BM_WUC_PAGE} -> Int],
   wuc : SUBSET Bits, meant : SUBSET Bits, save : SUBSET Bits, clean : BOOLEAN,
   mail : SUBSET Int]

(* The register that Reached names.                                         *)
Found(f, x, reg) ==
  LET a == x.addr
      select == IF a = 2 /\ f = "bm" THEN BM_PHY_PAGE_SELECT ELSE IGP01E1000_PHY_PAGE_SELECT
  IN CASE reg = select /\ (a = 1 \/ f = "bm") -> <<"sel", a>>
       [] a = 1 /\ x.sel[1] = BM_PORT_CTRL_PAGE /\ reg = 17 -> <<"wuc">>
       [] a = 1 /\ x.sel[1] = BM_WUC_PAGE /\ reg = 17 /\ "en" \in x.wuc -> <<"addr", 800>>
       [] a = 1 /\ x.sel[1] = BM_WUC_PAGE /\ reg = 18 /\ "en" \in x.wuc -> <<"wu", x.port[800]>>
       [] a = 2 /\ f = "hv" /\ reg = 16 -> <<"addr", 2>>
       [] a = 2 /\ f = "hv" /\ reg = 17 -> <<"port", x.port[2]>>
       [] OTHER -> Target(a, IF f = "hv" THEN x.sel[1] ELSE x.sel[a], reg)

(* A step does what it is meant to do in view x ...                          *)
Right(f, s, x) ==
  /\ s.k = "addr" => s.v \in Addrs(f)
  /\ s.k = "mdic" => /\ s.reg \in Int /\ s.v \in Int /\ s.act \in Acts
                     /\ Found(f, x, s.reg) = s.goal /\ x.mail = {}
  /\ s.k = "kaddr" => s.reg \in Int
  /\ s.k = "kdata" => x.mail = {s.reg} /\ s.goal = <<"kmrn", s.reg>>

(* ... and leaves view y.                                                   *)
Leaving(s, x, y) ==
  /\ y.clean = x.clean
  /\ y.addr = IF s.k = "addr" THEN s.v ELSE x.addr
  /\ y.mail = IF s.k = "kaddr" THEN {s.reg} ELSE IF s.k = "addr" THEN x.mail ELSE {}
  /\ y.sel = IF s.k = "mdic" /\ s.goal[1] = "sel" THEN [x.sel EXCEPT ![s.goal[2]] = s.v] ELSE x.sel
  /\ y.port = IF s.k = "mdic" /\ s.goal[1] = "addr" THEN [x.port EXCEPT ![s.goal[2]] = s.v] ELSE x.port
  /\ y.wuc = IF s.k # "mdic" \/ s.goal # <<"wuc">> THEN x.wuc
             ELSE CASE s.act = "enable" -> (x.save \cup {"en"}) \ {"me", "host"}
                    [] s.act = "restore" -> x.save
                    [] s.act = "activate" -> x.save \cup {"en", "host"}
                    [] OTHER -> x.wuc
  /\ y.meant = IF s.k = "mdic" /\ s.act = "activate" THEN x.meant \cup {"en", "host"} ELSE x.meant
  /\ y.save = IF s.k = "mdic" /\ s.act = "save" THEN x.wuc ELSE x.save

(* A failed access leaves everything but the record of 769.17 reliable.      *)
Spoiled(x, y) ==
  /\ y.clean = FALSE /\ y.mail = {}
  /\ y.addr = x.addr /\ y.sel = x.sel /\ y.port = x.port
  /\ y.wuc = x.wuc /\ y.meant = x.meant /\ y.save = x.save

(* From every view of A the step is right and leads to B; where it fails    *)
(* without ending the body, to B or past the next step to C.                *)
Leads(f, s, A, B) ==
  \A x \in A : /\ Right(f, s, x)
               /\ \A y \in Views(f) :
                    Leaving(s, x, y) \/ (s.err = "next" /\ s.k = "mdic" /\ Spoiled(x, y)) => y \in B

Skips(f, A, C) == \A x \in A : \A y \in Views(f) : Spoiled(x, y) => y \in C

(* Views c before each step from e on, and behind the last one.             *)
Noted(f, p, e, last, c) ==
  /\ c \in [e .. last + 1 -> SUBSET Views(f)]
  /\ \A n \in e .. last : Leads(f, p[n], c[n], c[n + 1])
  /\ \A n \in e .. last : p[n].err = "skip" => n < last /\ Skips(f, c[n], c[n + 2])

(* Run in a view of P the steps of p from e on do what they are meant to do, *)
(* and what is left is a view of Q.                                         *)
Works(f, p, e, P, Q) ==
  /\ \E S : p \in Seq(S)
  /\ \E c : Noted(f, p, e, Len(p), c) /\ P \subseteq c[e] /\ c[Len(p) + 1] \subseteq Q

(* Less is left to be known.                                                *)
LEMMA LeadsTo ==
  ASSUME NEW f, NEW s, NEW A, NEW B, NEW C, Leads(f, s, A, B), B \subseteq C
  PROVE  Leads(f, s, A, C)
BY DEF Leads

LEMMA SkipsTo ==
  ASSUME NEW f, NEW A, NEW B, NEW C, Skips(f, A, B), B \subseteq C PROVE Skips(f, A, C)
BY DEF Skips

(* A single step.                                                           *)
LEMMA WorksOne ==
  ASSUME NEW f, NEW s, s.err # "skip", NEW A \in SUBSET Views(f), NEW B \in SUBSET Views(f),
         Leads(f, s, A, B)
  PROVE  Works(f, <<s>>, 1, A, B)
<1> DEFINE p == <<s>>
           c == [n \in 1 .. 2 |-> IF n = 1 THEN A ELSE B]
<1>1. p \in Seq({s}) /\ Len(p) = 1 /\ p[1] = s
  OBVIOUS
<1>2. c \in [1 .. 2 -> SUBSET Views(f)] /\ c[1] = A /\ c[2] = B
  OBVIOUS
<1> HIDE DEF p, c
<1>3. \A n \in 1 .. Len(p) : n = 1 /\ p[n] = s
  BY <1>1
<1>4. Noted(f, p, 1, Len(p), c)
  BY <1>1, <1>2, <1>3 DEF Noted
<1>5. Works(f, p, 1, A, B)
  BY <1>1, <1>2, <1>4 DEF Works
<1> QED
  BY <1>5 DEF p

(* No step.                                                                 *)
LEMMA WorksNone ==
  ASSUME NEW f, NEW A \in SUBSET Views(f) PROVE Works(f, <<>>, 1, A, A)
<1> DEFINE p == <<>>
           c == [n \in 1 .. 1 |-> A]
<1>1. p \in Seq({}) /\ Len(p) = 0
  OBVIOUS
<1>2. c \in [1 .. 1 -> SUBSET Views(f)] /\ c[1] = A
  OBVIOUS
<1> HIDE DEF p, c
<1>3. Noted(f, p, 1, Len(p), c)
  BY <1>1, <1>2 DEF Noted
<1>4. Works(f, p, 1, A, A)
  BY <1>1, <1>2, <1>3 DEF Works
<1> QED
  BY <1>4 DEF p

(* One piece after the other.                                               *)
LEMMA WorksConcat ==
  ASSUME NEW f, NEW p, NEW q, NEW e, NEW P, NEW Q, NEW R, e \in 1 .. Len(p) + 1,
         Works(f, p, e, P, Q), Works(f, q, 1, Q, R)
  PROVE  Works(f, p \o q, e, P, R)
<1>1. (\E S : p \in Seq(S)) /\ (\E S : q \in Seq(S))
  BY DEF Works
<1>2. /\ \E S : p \o q \in Seq(S)
      /\ Len(p) \in Nat /\ Len(q) \in Nat
      /\ Len(p \o q) = Len(p) + Len(q)
      /\ \A n \in 1 .. Len(p) : (p \o q)[n] = p[n]
      /\ \A n \in 1 .. Len(q) : (p \o q)[Len(p) + n] = q[n]
  BY <1>1, ConcatAt
<1>3. PICK c : Noted(f, p, e, Len(p), c) /\ P \subseteq c[e] /\ c[Len(p) + 1] \subseteq Q
  BY DEF Works
<1>4. PICK d : Noted(f, q, 1, Len(q), d) /\ Q \subseteq d[1] /\ d[Len(q) + 1] \subseteq R
  BY DEF Works
<1> DEFINE w == p \o q
           b == [n \in e .. Len(w) + 1 |-> IF n <= Len(p) THEN c[n] ELSE d[n - Len(p)]]
<1>5. /\ Len(w) = Len(p) + Len(q) /\ Len(w) \in Nat
      /\ \A n \in e .. Len(p) : w[n] = p[n]
      /\ \A n \in 1 .. Len(q) : w[Len(p) + n] = q[n]
  BY <1>2
<1>6. /\ c \in [e .. Len(p) + 1 -> SUBSET Views(f)]
      /\ d \in [1 .. Len(q) + 1 -> SUBSET Views(f)]
  BY <1>3, <1>4 DEF Noted
<1>7. b \in [e .. Len(w) + 1 -> SUBSET Views(f)]
  <2>1. ASSUME NEW n \in e .. Len(w) + 1
        PROVE  (IF n <= Len(p) THEN c[n] ELSE d[n - Len(p)]) \in SUBSET Views(f)
    <3>1. n <= Len(p) => n \in e .. Len(p) + 1
      BY <1>2
    <3>2. ~(n <= Len(p)) => n - Len(p) \in 1 .. Len(q) + 1
      BY <1>2, <1>5
    <3> QED
      BY <1>6, <3>1, <3>2
  <2> QED
    BY <2>1
<1>8. /\ \A n \in e .. Len(p) : b[n] = c[n]
      /\ \A n \in 1 .. Len(q) + 1 : b[Len(p) + n] = d[n]
  <2>1. ASSUME NEW n \in e .. Len(p) PROVE b[n] = c[n]
    <3>1. n \in e .. Len(w) + 1 /\ n <= Len(p)
      BY <1>2, <1>5
    <3> QED
      BY <3>1
  <2>2. ASSUME NEW n \in 1 .. Len(q) + 1 PROVE b[Len(p) + n] = d[n]
    <3>1. Len(p) + n \in e .. Len(w) + 1 /\ ~(Len(p) + n <= Len(p)) /\ Len(p) + n - Len(p) = n
      BY <1>2, <1>5
    <3> QED
      BY <3>1
  <2> QED
    BY <2>1, <2>2
<1>9. \A n \in e .. Len(p) + 1 : c[n] \subseteq b[n]
  <2>1. b[Len(p) + 1] = d[1]
    BY <1>2, <1>8
  <2>2. c[Len(p) + 1] \subseteq b[Len(p) + 1]
    BY <1>3, <1>4, <2>1
  <2>3. \A n \in e .. Len(p) + 1 : n = Len(p) + 1 \/ n \in e .. Len(p)
    BY <1>2
  <2> QED
    BY <1>8, <2>2, <2>3
<1> HIDE DEF w, b
<1>10. ASSUME NEW n \in e .. Len(p)
       PROVE  /\ Leads(f, w[n], b[n], b[n + 1])
              /\ w[n].err = "skip" => n < Len(w) /\ Skips(f, b[n], b[n + 2])
  <2>1. Leads(f, p[n], c[n], c[n + 1]) /\ (p[n].err = "skip" => n < Len(p) /\ Skips(f, c[n], c[n + 2]))
    BY <1>3 DEF Noted
  <2>2. w[n] = p[n] /\ b[n] = c[n] /\ n + 1 \in e .. Len(p) + 1
        /\ (n < Len(p) => n + 2 \in e .. Len(p) + 1 /\ n < Len(w))
    BY <1>2, <1>5, <1>8
  <2>3. Leads(f, w[n], b[n], b[n + 1])
    BY <1>9, <2>1, <2>2, LeadsTo
  <2>4. ASSUME w[n].err = "skip" PROVE n < Len(w) /\ Skips(f, b[n], b[n + 2])
    BY <1>9, <2>1, <2>2, <2>4, SkipsTo
  <2> QED
    BY <2>3, <2>4
<1>11. ASSUME NEW m \in 1 .. Len(q)
       PROVE  /\ Leads(f, w[Len(p) + m], b[Len(p) + m], b[Len(p) + m + 1])
              /\ w[Len(p) + m].err = "skip" =>
                   Len(p) + m < Len(w) /\ Skips(f, b[Len(p) + m], b[Len(p) + m + 2])
  <2>1. Leads(f, q[m], d[m], d[m + 1]) /\ (q[m].err = "skip" => m < Len(q) /\ Skips(f, d[m], d[m + 2]))
    BY <1>4 DEF Noted
  <2>2. /\ m \in 1 .. Len(q) + 1 /\ m + 1 \in 1 .. Len(q) + 1
        /\ Len(p) + m + 1 = Len(p) + (m + 1) /\ Len(p) + m + 2 = Len(p) + (m + 2)
        /\ m < Len(q) => m + 2 \in 1 .. Len(q) + 1 /\ Len(p) + m < Len(w)
    BY <1>2, <1>5
  <2>3. /\ w[Len(p) + m] = q[m] /\ b[Len(p) + m] = d[m] /\ b[Len(p) + m + 1] = d[m + 1]
        /\ m < Len(q) => b[Len(p) + m + 2] = d[m + 2]
    BY <1>5, <1>8, <2>2
  <2> QED
    BY <2>1, <2>2, <2>3
<1>12. \A n \in e .. Len(w) : n \in e .. Len(p) \/ \E m \in 1 .. Len(q) : n = Len(p) + m
  <2> SUFFICES ASSUME NEW n \in e .. Len(w), n \notin e .. Len(p)
               PROVE  \E m \in 1 .. Len(q) : n = Len(p) + m
    OBVIOUS
  <2>1. n - Len(p) \in 1 .. Len(q) /\ n = Len(p) + (n - Len(p))
    BY <1>2, <1>5
  <2> QED
    BY <2>1
<1>13. Noted(f, w, e, Len(w), b)
  BY <1>7, <1>10, <1>11, <1>12 DEF Noted
<1>14. P \subseteq b[e]
  <2>1. e \in e .. Len(p) + 1
    BY <1>2
  <2> QED
    BY <1>3, <1>9, <2>1
<1>15. b[Len(w) + 1] \subseteq R
  <2>1. Len(q) + 1 \in 1 .. Len(q) + 1 /\ Len(w) + 1 = Len(p) + (Len(q) + 1)
    BY <1>2, <1>5
  <2> QED
    BY <1>4, <1>8, <2>1
<1> QED
  BY <1>2, <1>13, <1>14, <1>15 DEF Works, w

-----------------------------------------------------------------------------
(* Views in which no Kumeran register is asked for.                          *)
Calm(f) == {x \in Views(f) : x.mail = {}}

(* 769.17 is as it should stay, it was read, it opens page 800.              *)
Kept(f)  == {x \in Calm(f) : x.clean => x.wuc = x.meant}
Saved(f) == {x \in Calm(f) : x.clean => x.wuc = x.meant /\ x.save = x.meant}
Opening(f) == {x \in Calm(f) : "en" \in x.wuc /\ (x.clean => x.save = x.meant)}

AtAddr(B, a) == {x \in B : x.addr = a}
OnPage(B, page) == {x \in B : x.sel[1] = page}
WithPort(B, v) == {x \in B : x.port[2] = v}

(* Nothing is said of address and page.                                     *)
Free(f, B) ==
  /\ B \subseteq Calm(f)
  /\ \A x \in B : \A y \in Views(f) :
       (/\ y.mail = {} /\ y.clean = x.clean /\ y.port = x.port
        /\ y.wuc = x.wuc /\ y.meant = x.meant /\ y.save = x.save) => y \in B

LEMMA FreeSets ==
  ASSUME NEW f
  PROVE  /\ Free(f, Kept(f)) /\ Free(f, Saved(f)) /\ Free(f, Opening(f))
         /\ \A v : Free(f, WithPort(Kept(f), v))
<1>1. Free(f, Kept(f))
  BY DEF Free, Kept, Calm
<1>2. Free(f, Saved(f))
  BY DEF Free, Saved, Calm
<1>3. Free(f, Opening(f))
  BY DEF Free, Opening, Calm
<1>4. ASSUME NEW v PROVE Free(f, WithPort(Kept(f), v))
  BY DEF Free, WithPort, Kept, Calm
<1> QED
  BY <1>1, <1>2, <1>3, <1>4

(* The steps of the programs.                                               *)
LEMMA StepFields ==
  /\ \A a : Addr(a).k = "addr" /\ Addr(a).v = a /\ Addr(a).err = "out"
  /\ \A r, v, goal : /\ Mdic(r, v, goal).k = "mdic" /\ Mdic(r, v, goal).reg = r /\ Mdic(r, v, goal).v = v
                     /\ Mdic(r, v, goal).goal = goal /\ Mdic(r, v, goal).act = "data"
                     /\ Mdic(r, v, goal).err = "out"
  /\ \A act : /\ Enabling(act).k = "mdic" /\ Enabling(act).reg = 17 /\ Enabling(act).v = 0
              /\ Enabling(act).goal = <<"wuc">> /\ Enabling(act).act = act /\ Enabling(act).err = "out"
  /\ \A k, r, v, goal, err :
       /\ Step(k, r, v, goal, err).k = k /\ Step(k, r, v, goal, err).reg = r
       /\ Step(k, r, v, goal, err).v = v /\ Step(k, r, v, goal, err).goal = goal
       /\ Step(k, r, v, goal, err).act = "data" /\ Step(k, r, v, goal, err).err = err
<1>1. \A a : Addr(a).k = "addr" /\ Addr(a).v = a /\ Addr(a).err = "out"
  BY DEF Addr, Step
<1>2. \A r, v, goal : /\ Mdic(r, v, goal).k = "mdic" /\ Mdic(r, v, goal).reg = r /\ Mdic(r, v, goal).v = v
                      /\ Mdic(r, v, goal).goal = goal /\ Mdic(r, v, goal).act = "data"
                      /\ Mdic(r, v, goal).err = "out"
  BY DEF Mdic, Step
<1>3. \A act : /\ Enabling(act).k = "mdic" /\ Enabling(act).reg = 17 /\ Enabling(act).v = 0
               /\ Enabling(act).goal = <<"wuc">> /\ Enabling(act).act = act /\ Enabling(act).err = "out"
  BY DEF Enabling, Mdic, Step
<1>4. \A k, r, v, goal, err :
        /\ Step(k, r, v, goal, err).k = k /\ Step(k, r, v, goal, err).reg = r
        /\ Step(k, r, v, goal, err).v = v /\ Step(k, r, v, goal, err).goal = goal
        /\ Step(k, r, v, goal, err).act = "data" /\ Step(k, r, v, goal, err).err = err
  BY DEF Step
<1> QED
  BY <1>1, <1>2, <1>3, <1>4

(* What is found where.                                                     *)
LEMMA FoundThere ==
  ASSUME NEW f, NEW x
  PROVE  /\ x.addr = 1 => Found(f, x, IGP01E1000_PHY_PAGE_SELECT) = <<"sel", 1>>
         /\ x.addr = 1 /\ x.sel[1] = BM_PORT_CTRL_PAGE => Found(f, x, 17) = <<"wuc">>
         /\ x.addr = 1 /\ x.sel[1] = BM_WUC_PAGE /\ "en" \in x.wuc =>
              Found(f, x, 17) = <<"addr", 800>> /\ Found(f, x, 18) = <<"wu", x.port[800]>>
         /\ x.addr = 2 /\ f = "hv" =>
              Found(f, x, 16) = <<"addr", 2>> /\ Found(f, x, 17) = <<"port", x.port[2]>>
<1> USE DEF Found, IGP01E1000_PHY_PAGE_SELECT, BM_PHY_PAGE_SELECT, BM_PORT_CTRL_PAGE, BM_WUC_PAGE
<1>1. ASSUME x.addr = 1 PROVE Found(f, x, IGP01E1000_PHY_PAGE_SELECT) = <<"sel", 1>>
  BY <1>1, SMT
<1>2. ASSUME x.addr = 1, x.sel[1] = BM_PORT_CTRL_PAGE PROVE Found(f, x, 17) = <<"wuc">>
  BY <1>2, SMT
<1>3. ASSUME x.addr = 1, x.sel[1] = BM_WUC_PAGE, "en" \in x.wuc
      PROVE  Found(f, x, 17) = <<"addr", 800>>
  BY <1>3, SMT
<1>4. ASSUME x.addr = 1, x.sel[1] = BM_WUC_PAGE, "en" \in x.wuc
      PROVE  Found(f, x, 18) = <<"wu", x.port[800]>>
  BY <1>4, SMT
<1>5. ASSUME x.addr = 2, f = "hv" PROVE Found(f, x, 16) = <<"addr", 2>>
  BY <1>5, SMT
<1>6. ASSUME x.addr = 2, f = "hv" PROVE Found(f, x, 17) = <<"port", x.port[2]>>
  BY <1>6, SMT
<1> HIDE DEF Found, IGP01E1000_PHY_PAGE_SELECT, BM_PHY_PAGE_SELECT, BM_PORT_CTRL_PAGE, BM_WUC_PAGE
<1> QED
  BY <1>1, <1>2, <1>3, <1>4, <1>5, <1>6

(* Everything else is found under the page selected.                         *)
LEMMA FoundElse ==
  ASSUME NEW f, NEW x, x.addr \in {1, 2}, NEW page, NEW reg \in Int, reg # IGP01E1000_PHY_PAGE_SELECT,
         f = "bm" => reg # BM_PHY_PAGE_SELECT,
         x.addr = 1 /\ x.sel[1] \in {BM_PORT_CTRL_PAGE, BM_WUC_PAGE} => reg \notin {17, 18},
         x.addr = 2 /\ f = "hv" => reg \notin {16, 17},
         Paged(reg) => page = IF f = "hv" THEN x.sel[1] ELSE x.sel[x.addr]
  PROVE  Found(f, x, reg) = Target(x.addr, page, reg)
<1>1. Found(f, x, reg) = Target(x.addr, IF f = "hv" THEN x.sel[1] ELSE x.sel[x.addr], reg)
  BY SMT DEF Found
<1> QED
  BY <1>1, SMT DEF Target

(* hw->phy.addr is set.                                                     *)
LEMMA AddrWorks ==
  ASSUME NEW f, NEW B, Free(f, B), NEW a \in Addrs(f)
  PROVE  /\ Works(f, <<Addr(a)>>, 1, B, AtAddr(B, a))
         /\ \A page : Works(f, <<Addr(a)>>, 1, OnPage(B, page), AtAddr(OnPage(B, page), a))
<1> DEFINE s == Addr(a)
<1>1. s.k = "addr" /\ s.v = a /\ s.err = "out"
  BY StepFields
<1> HIDE DEF s
<1>2. B \subseteq Views(f) /\ \A x \in B : x.mail = {}
  BY DEF Free, Calm
<1>3. ASSUME NEW x \in B, NEW y \in Views(f), Leaving(s, x, y)
      PROVE  y \in B /\ y.addr = a /\ y.sel = x.sel
  <2>1. y.mail = {} /\ y.clean = x.clean /\ y.port = x.port /\ y.wuc = x.wuc /\ y.meant = x.meant
        /\ y.save = x.save /\ y.addr = a /\ y.sel = x.sel
    BY <1>1, <1>2, <1>3 DEF Leaving
  <2> QED
    BY <2>1 DEF Free
<1>4. Leads(f, s, B, AtAddr(B, a))
  BY <1>1, <1>2, <1>3 DEF Leads, Right, AtAddr
<1>5. \A page : Leads(f, s, OnPage(B, page), AtAddr(OnPage(B, page), a))
  BY <1>1, <1>2, <1>3 DEF Leads, Right, AtAddr, OnPage
<1>6. AtAddr(B, a) \subseteq Views(f)
      /\ \A page : OnPage(B, page) \subseteq Views(f) /\ AtAddr(OnPage(B, page), a) \subseteq Views(f)
  BY <1>2 DEF AtAddr, OnPage
<1>7. Works(f, <<s>>, 1, B, AtAddr(B, a))
  BY <1>1, <1>2, <1>4, <1>6, WorksOne
<1>8. \A page : Works(f, <<s>>, 1, OnPage(B, page), AtAddr(OnPage(B, page), a))
  BY <1>1, <1>5, <1>6, WorksOne
<1> QED
  BY <1>7, <1>8 DEF s

(* The page register of address 1 is reached under every page.              *)
LEMMA SelectWorks ==
  ASSUME NEW f, NEW B, Free(f, B), NEW page \in Int
  PROVE  Works(f, <<Mdic(IGP01E1000_PHY_PAGE_SELECT, page, <<"sel", 1>>)>>, 1,
               AtAddr(B, 1), AtAddr(OnPage(B, page), 1))
<1> DEFINE s == Mdic(IGP01E1000_PHY_PAGE_SELECT, page, <<"sel", 1>>)
<1>1. /\ s.k = "mdic" /\ s.reg = IGP01E1000_PHY_PAGE_SELECT /\ s.v = page /\ s.goal = <<"sel", 1>>
      /\ s.act = "data" /\ s.err = "out"
  BY StepFields
<1>2. s.goal[1] = "sel" /\ s.goal[2] = 1 /\ s.goal # <<"wuc">>
  BY <1>1
<1> HIDE DEF s
<1>3. B \subseteq Views(f) /\ \A x \in B : x.mail = {}
  BY DEF Free, Calm
<1>4. \A x \in AtAddr(B, 1) : Right(f, s, x)
  <2>1. IGP01E1000_PHY_PAGE_SELECT \in Int /\ "data" \in Acts
    BY DEF IGP01E1000_PHY_PAGE_SELECT, Acts
  <2> QED
    BY <1>1, <1>3, <2>1, FoundThere DEF AtAddr, Right
<1>5. ASSUME NEW x \in B, x.addr = 1, NEW y \in Views(f), Leaving(s, x, y)
      PROVE  y \in B /\ y.addr = 1 /\ y.sel[1] = page
  <2>1. y.mail = {} /\ y.clean = x.clean /\ y.port = x.port /\ y.wuc = x.wuc /\ y.meant = x.meant
        /\ y.save = x.save /\ y.addr = 1 /\ y.sel = [x.sel EXCEPT ![1] = page]
    BY <1>1, <1>2, <1>5 DEF Leaving
  <2>2. x.sel \in [{1, 2} -> Int]
    BY <1>3 DEF Views
  <2> QED
    BY <2>1, <2>2 DEF Free
<1>6. Leads(f, s, AtAddr(B, 1), AtAddr(OnPage(B, page), 1))
  BY <1>1, <1>4, <1>5 DEF Leads, AtAddr, OnPage
<1>7. AtAddr(B, 1) \subseteq Views(f) /\ AtAddr(OnPage(B, page), 1) \subseteq Views(f)
  BY <1>3 DEF AtAddr, OnPage
<1>8. Works(f, <<s>>, 1, AtAddr(B, 1), AtAddr(OnPage(B, page), 1))
  BY <1>1, <1>6, <1>7, WorksOne
<1> QED
  BY <1>8 DEF s

(* Every piece has a first step, or its end instead.                        *)
LEMMA Length ==
  ASSUME NEW p, \E S : p \in Seq(S) PROVE 1 \in 1 .. Len(p) + 1
<1>1. PICK S : p \in Seq(S)
  OBVIOUS
<1>2. Len(p) \in Nat
  BY <1>1
<1> QED
  BY <1>2

(* The rule for two pieces.                                                 *)
LEMMA WorksThen ==
  ASSUME NEW f, NEW p, NEW q, NEW P, NEW Q, NEW R, Works(f, p, 1, P, Q), Works(f, q, 1, Q, R)
  PROVE  Works(f, p \o q, 1, P, R)
<1>1. \E S : p \in Seq(S)
  BY DEF Works
<1> QED
  BY <1>1, Length, WorksConcat

(* Less is known before, more is claimed afterwards.                        *)
LEMMA WorksWeaker ==
  ASSUME NEW f, NEW p, NEW e, NEW P, NEW Q, NEW A, NEW B, Works(f, p, e, P, Q),
         A \subseteq P, Q \subseteq B
  PROVE  Works(f, p, e, A, B)
BY DEF Works

(* e1000_set_page_igp.                                                      *)
LEMMA SetPageWorks ==
  ASSUME NEW f, NEW B, Free(f, B), NEW page \in Int
  PROVE  Works(f, SetPageIgp(page), 1, B, AtAddr(OnPage(B, page), 1))
<1> DEFINE s == Mdic(IGP01E1000_PHY_PAGE_SELECT, page, <<"sel", 1>>)
<1>1. 1 \in Addrs(f)
  BY DEF Addrs
<1>2. Works(f, <<Addr(1)>>, 1, B, AtAddr(B, 1))
  BY <1>1, AddrWorks
<1>3. Works(f, <<s>>, 1, AtAddr(B, 1), AtAddr(OnPage(B, page), 1))
  BY SelectWorks
<1>4. SetPageIgp(page) = <<Addr(1)>> \o <<s>>
  BY DEF SetPageIgp
<1> HIDE DEF s
<1> QED
  BY <1>2, <1>3, <1>4, WorksThen

(* Pages of the wake-up registers.                                          *)
LEMMA Pages == BM_PORT_CTRL_PAGE \in Int /\ BM_WUC_PAGE \in Int /\ BM_WUC_PAGE = 800
               /\ BM_PORT_CTRL_PAGE # BM_WUC_PAGE /\ 800 # 2
  BY SMT DEF BM_PORT_CTRL_PAGE, BM_WUC_PAGE

(* 769.17 is read and written.                                              *)
LEMMA EnablingWorks ==
  ASSUME NEW f
  PROVE  /\ Works(f, <<Enabling("save")>>, 1, AtAddr(OnPage(Kept(f), BM_PORT_CTRL_PAGE), 1),
                  AtAddr(OnPage(Saved(f), BM_PORT_CTRL_PAGE), 1))
         /\ Works(f, <<Enabling("enable")>>, 1, AtAddr(OnPage(Saved(f), BM_PORT_CTRL_PAGE), 1),
                  Opening(f))
         /\ \A what \in {"restore", "activate"} :
              Works(f, <<Enabling(what)>>, 1, AtAddr(OnPage(Opening(f), BM_PORT_CTRL_PAGE), 1), Kept(f))
<1> DEFINE At769(B) == AtAddr(OnPage(B, BM_PORT_CTRL_PAGE), 1)
<1>1. ASSUME NEW x \in Calm(f), x.addr = 1, x.sel[1] = BM_PORT_CTRL_PAGE, NEW act \in Acts
      PROVE  Right(f, Enabling(act), x)
  <2>1. Found(f, x, 17) = <<"wuc">>
    BY <1>1, FoundThere
  <2>2. x.mail = {} /\ 17 \in Int /\ 0 \in Int
    BY DEF Calm
  <2> QED
    BY <2>1, <2>2, StepFields DEF Right
<1>2. ASSUME NEW x \in Calm(f), NEW y \in Views(f), NEW act, Leaving(Enabling(act), x, y)
      PROVE  /\ y.clean = x.clean /\ y.addr = x.addr /\ y.mail = {} /\ y.sel = x.sel
             /\ act = "save" => y.wuc = x.wuc /\ y.meant = x.meant /\ y.save = x.wuc
             /\ act = "enable" => y.wuc = (x.save \cup {"en"}) \ {"me", "host"} /\ y.meant = x.meant
                                  /\ y.save = x.save
             /\ act = "restore" => y.wuc = x.save /\ y.meant = x.meant
             /\ act = "activate" => y.wuc = x.save \cup {"en", "host"}
                                    /\ y.meant = x.meant \cup {"en", "host"}
  <2> DEFINE s == Enabling(act)
  <2>1. s.k = "mdic" /\ s.goal = <<"wuc">> /\ s.act = act
    BY StepFields
  <2>2. s.goal[1] = "wuc"
    BY <2>1
  <2> HIDE DEF s
  <2>3. Leaving(s, x, y)
    BY <1>2 DEF s
  <2> QED
    BY <2>1, <2>2, <2>3 DEF Leaving
<1>3. \A act : Enabling(act).err = "out" /\ Enabling(act).k = "mdic"
  BY StepFields
<1>4. /\ Kept(f) \subseteq Calm(f) /\ Saved(f) \subseteq Calm(f) /\ Opening(f) \subseteq Calm(f)
      /\ Calm(f) \subseteq Views(f)
  BY DEF Kept, Saved, Opening, Calm
<1>5. Leads(f, Enabling("save"), At769(Kept(f)), At769(Saved(f)))
  <2> SUFFICES ASSUME NEW x \in At769(Kept(f))
               PROVE  /\ Right(f, Enabling("save"), x)
                      /\ \A y \in Views(f) : Leaving(Enabling("save"), x, y) => y \in At769(Saved(f))
    BY <1>3 DEF Leads
  <2>1. x \in Kept(f) /\ x.addr = 1 /\ x.sel[1] = BM_PORT_CTRL_PAGE
    BY DEF AtAddr, OnPage
  <2>2. ASSUME NEW y \in Views(f), Leaving(Enabling("save"), x, y) PROVE y \in At769(Saved(f))
    <3>1. /\ y.clean = x.clean /\ y.addr = x.addr /\ y.mail = {} /\ y.sel = x.sel
          /\ y.wuc = x.wuc /\ y.meant = x.meant /\ y.save = x.wuc
      BY <1>2, <1>4, <2>1, <2>2
    <3> QED
      BY <2>1, <3>1 DEF AtAddr, OnPage, Saved, Kept, Calm
  <2> QED
    BY <1>1, <1>4, <2>1, <2>2 DEF Acts
<1>6. Leads(f, Enabling("enable"), At769(Saved(f)), Opening(f))
  <2> SUFFICES ASSUME NEW x \in At769(Saved(f))
               PROVE  /\ Right(f, Enabling("enable"), x)
                      /\ \A y \in Views(f) : Leaving(Enabling("enable"), x, y) => y \in Opening(f)
    BY <1>3 DEF Leads
  <2>1. x \in Saved(f) /\ x.addr = 1 /\ x.sel[1] = BM_PORT_CTRL_PAGE
    BY DEF AtAddr, OnPage
  <2>2. ASSUME NEW y \in Views(f), Leaving(Enabling("enable"), x, y) PROVE y \in Opening(f)
    <3>1. /\ y.clean = x.clean /\ y.mail = {}
          /\ y.wuc = (x.save \cup {"en"}) \ {"me", "host"} /\ y.meant = x.meant /\ y.save = x.save
      BY <1>2, <1>4, <2>1, <2>2
    <3> QED
      BY <2>1, <3>1 DEF Saved, Opening, Calm
  <2> QED
    BY <1>1, <1>4, <2>1, <2>2 DEF Acts
<1>7. ASSUME NEW what \in {"restore", "activate"}
      PROVE  Leads(f, Enabling(what), At769(Opening(f)), Kept(f))
  <2> SUFFICES ASSUME NEW x \in At769(Opening(f))
               PROVE  /\ Right(f, Enabling(what), x)
                      /\ \A y \in Views(f) : Leaving(Enabling(what), x, y) => y \in Kept(f)
    BY <1>3 DEF Leads
  <2>1. x \in Opening(f) /\ x.addr = 1 /\ x.sel[1] = BM_PORT_CTRL_PAGE
    BY DEF AtAddr, OnPage
  <2>2. ASSUME NEW y \in Views(f), Leaving(Enabling(what), x, y) PROVE y \in Kept(f)
    <3>1. /\ y.clean = x.clean /\ y.mail = {}
          /\ \/ y.wuc = x.save /\ y.meant = x.meant
             \/ y.wuc = x.save \cup {"en", "host"} /\ y.meant = x.meant \cup {"en", "host"}
      BY <1>2, <1>4, <2>1, <2>2
    <3> QED
      BY <2>1, <3>1 DEF Opening, Kept, Calm
  <2> QED
    BY <1>1, <1>4, <2>1, <2>2 DEF Acts
<1>8. \A B \in SUBSET Calm(f) : At769(B) \subseteq Views(f)
  BY <1>4 DEF AtAddr, OnPage
<1>9. Works(f, <<Enabling("save")>>, 1, At769(Kept(f)), At769(Saved(f)))
  BY <1>3, <1>4, <1>5, <1>8, WorksOne
<1>10. Works(f, <<Enabling("enable")>>, 1, At769(Saved(f)), Opening(f))
  BY <1>3, <1>4, <1>6, <1>8, WorksOne
<1>11. \A what \in {"restore", "activate"} :
         Works(f, <<Enabling(what)>>, 1, At769(Opening(f)), Kept(f))
  BY <1>3, <1>4, <1>7, <1>8, WorksOne
<1> QED
  BY <1>9, <1>10, <1>11

LEMMA TwoSteps == \A r, s : <<r>> \o <<s>> = <<r, s>>
<1> SUFFICES ASSUME NEW r, NEW s PROVE <<r>> \o <<s>> = <<r, s>>
  OBVIOUS
<1>1. <<r>> \in Seq({r, s}) /\ <<s>> \in Seq({r, s}) /\ <<r, s>> \in Seq({r, s})
  OBVIOUS
<1> DEFINE p == <<r>>
           q == <<s>>
           w == <<r, s>>
<1>2. Len(p) = 1 /\ p[1] = r /\ Len(q) = 1 /\ q[1] = s /\ Len(w) = 2 /\ w[1] = r /\ w[2] = s
  OBVIOUS
<1>3. p \in Seq({r, s}) /\ q \in Seq({r, s}) /\ w \in Seq({r, s})
  BY <1>1
<1> HIDE DEF p, q, w
<1>4. /\ p \o q \in Seq({r, s}) /\ Len(p \o q) = Len(p) + Len(q)
      /\ \A n \in 1 .. Len(p) : (p \o q)[n] = p[n]
      /\ \A n \in 1 .. Len(q) : (p \o q)[Len(p) + n] = q[n]
  BY <1>3, ConcatProperties
<1>5. p \o q = w
  <2>1. /\ Len(p \o q) = 2 /\ 1 \in 1 .. Len(p) /\ 1 \in 1 .. Len(q) /\ Len(p) + 1 = 2
        /\ \A n \in 1 .. 2 : n = 1 \/ n = 2
    BY <1>2, <1>4
  <2>2. (p \o q)[1] = r /\ (p \o q)[2] = s
    BY <1>2, <1>4, <2>1
  <2>3. \A n \in 1 .. Len(p \o q) : (p \o q)[n] = w[n]
    BY <1>2, <2>1, <2>2
  <2> QED
    BY <1>2, <1>3, <1>4, <2>1, <2>3, SeqEqual
<1> QED
  BY <1>5 DEF p, q, w

(* Page 800 is opened and closed.                                           *)
Opened800(f) == AtAddr(OnPage(Opening(f), BM_WUC_PAGE), 1)

LEMMA EnableWorks ==
  ASSUME NEW f PROVE Works(f, EnableWakeupAccess, 1, Kept(f), Opened800(f))
<1> DEFINE At769(B) == AtAddr(OnPage(B, BM_PORT_CTRL_PAGE), 1)
<1>1. Works(f, <<Addr(1)>>, 1, Kept(f), Kept(f))
  <2>1. 1 \in Addrs(f) /\ AtAddr(Kept(f), 1) \subseteq Kept(f)
    BY DEF Addrs, AtAddr
  <2>2. Works(f, <<Addr(1)>>, 1, Kept(f), AtAddr(Kept(f), 1))
    BY <2>1, AddrWorks, FreeSets
  <2> QED
    BY <2>1, <2>2, WorksWeaker
<1>2. Works(f, SetPageIgp(BM_PORT_CTRL_PAGE), 1, Kept(f), At769(Kept(f)))
  BY Pages, FreeSets, SetPageWorks
<1> HIDE DEF At769
<1>3. Works(f, <<Enabling("save")>> \o <<Enabling("enable")>>, 1, At769(Kept(f)), Opening(f))
  <2>1. /\ Works(f, <<Enabling("save")>>, 1, At769(Kept(f)), At769(Saved(f)))
        /\ Works(f, <<Enabling("enable")>>, 1, At769(Saved(f)), Opening(f))
    BY EnablingWorks DEF At769
  <2> QED
    BY <2>1, WorksThen
<1>4. <<Enabling("save")>> \o <<Enabling("enable")>> = <<Enabling("save"), Enabling("enable")>>
  BY TwoSteps
<1>5. Works(f, SetPageIgp(BM_WUC_PAGE), 1, Opening(f), Opened800(f))
  BY Pages, FreeSets, SetPageWorks DEF Opened800
<1>6. Works(f, <<Addr(1)>> \o SetPageIgp(BM_PORT_CTRL_PAGE), 1, Kept(f), At769(Kept(f)))
  BY <1>1, <1>2, WorksThen
<1>7. Works(f, (<<Addr(1)>> \o SetPageIgp(BM_PORT_CTRL_PAGE)) \o <<Enabling("save"), Enabling("enable")>>,
            1, Kept(f), Opening(f))
  BY <1>3, <1>4, <1>6, WorksThen
<1>8. Works(f, ((<<Addr(1)>> \o SetPageIgp(BM_PORT_CTRL_PAGE)) \o <<Enabling("save"), Enabling("enable")>>)
               \o SetPageIgp(BM_WUC_PAGE), 1, Kept(f), Opened800(f))
  BY <1>5, <1>7, WorksThen
<1> QED
  BY <1>8 DEF EnableWakeupAccess

LEMMA DisableWorks ==
  ASSUME NEW f, NEW what \in {"restore", "activate"}
  PROVE  Works(f, DisableWakeupAccess(what), 1, Opening(f), Kept(f))
<1>1. Works(f, SetPageIgp(BM_PORT_CTRL_PAGE), 1, Opening(f),
            AtAddr(OnPage(Opening(f), BM_PORT_CTRL_PAGE), 1))
  BY Pages, FreeSets, SetPageWorks
<1>2. Works(f, <<Enabling(what)>>, 1, AtAddr(OnPage(Opening(f), BM_PORT_CTRL_PAGE), 1), Kept(f))
  BY EnablingWorks
<1> QED
  BY <1>1, <1>2, WorksThen DEF DisableWakeupAccess

(* A register behind page 800; what is not looked at may fail.               *)
LEMMA WakeupWorks ==
  ASSUME NEW f, NEW reg \in Int, NEW err \in {"out", "skip"}
  PROVE  Works(f, Wakeup(reg, err), 1, Opened800(f), Opened800(f))
<1> DEFINE r == Step("mdic", 17, reg, <<"addr", 800>>, err)
           s == Step("mdic", 18, 0, <<"wu", reg>>, IF err = "skip" THEN "next" ELSE err)
           A == Opened800(f)
           B == {x \in A : x.port[800] = reg}
           p == <<r, s>>
           c == [n \in 1 .. 3 |-> IF n = 2 THEN B ELSE A]
<1>1. /\ r.k = "mdic" /\ r.reg = 17 /\ r.v = reg /\ r.goal = <<"addr", 800>> /\ r.act = "data"
      /\ r.err = err
      /\ s.k = "mdic" /\ s.reg = 18 /\ s.v = 0 /\ s.goal = <<"wu", reg>> /\ s.act = "data"
      /\ s.err # "skip"
  BY StepFields
<1>2. /\ r.goal[1] = "addr" /\ r.goal[2] = 800 /\ r.goal # <<"wuc">>
      /\ s.goal[1] = "wu" /\ s.goal # <<"wuc">>
  BY <1>1
<1>3. Wakeup(reg, err) = p
  BY DEF Wakeup
<1>4. p \in Seq({r, s}) /\ Len(p) = 2 /\ p[1] = r /\ p[2] = s
  OBVIOUS
<1>5. /\ B \subseteq A /\ A \subseteq Views(f)
      /\ \A x \in A : /\ x.addr = 1 /\ x.sel[1] = BM_WUC_PAGE /\ "en" \in x.wuc /\ x.mail = {}
                      /\ x.port \in [{2, 800} -> Int]
  BY Pages DEF Opened800, AtAddr, OnPage, Opening, Calm, Views
<1>6. c \in [1 .. 3 -> SUBSET Views(f)] /\ c[1] = A /\ c[2] = B /\ c[3] = A
  BY <1>5
<1>7. ASSUME NEW x \in A, NEW y \in Views(f), y.addr = x.addr, y.sel = x.sel, y.wuc = x.wuc,
             y.meant = x.meant, y.save = x.save, y.mail = {}, y.clean \in {x.clean, FALSE}
      PROVE  y \in A
  BY <1>7 DEF Opened800, AtAddr, OnPage, Opening, Calm
<1>8. \A x \in A : Found(f, x, 17) = <<"addr", 800>> /\ Found(f, x, 18) = <<"wu", x.port[800]>>
  BY <1>5, FoundThere
<1>9. \A x \in B : x.port[800] = reg /\ x \in A
  OBVIOUS
<1> HIDE DEF r, s, A, p, c
<1>10. Leads(f, r, A, B)
  <2>1. ASSUME NEW x \in A PROVE Right(f, r, x)
    <3>1. x.mail = {} /\ Found(f, x, 17) = <<"addr", 800>>
      BY <1>5, <1>8
    <3>2. 17 \in Int /\ "data" \in Acts
      BY DEF Acts
    <3> QED
      BY <1>1, <3>1, <3>2 DEF Right
  <2>2. ASSUME NEW x \in A, NEW y \in Views(f), Leaving(r, x, y) PROVE y \in B
    <3>1. /\ y.addr = x.addr /\ y.sel = x.sel /\ y.wuc = x.wuc /\ y.clean = x.clean
          /\ y.meant = x.meant /\ y.save = x.save /\ y.mail = {}
          /\ y.port = [x.port EXCEPT ![800] = reg]
      <4>1. /\ r.k = "mdic" /\ r.act = "data" /\ r.v = reg /\ r.goal # <<"wuc">>
            /\ r.goal[1] = "addr" /\ r.goal[2] = 800
        BY <1>1, <1>2
      <4>2. /\ y.addr = x.addr /\ y.clean = x.clean /\ y.mail = {}
            /\ y.meant = x.meant /\ y.save = x.save
        BY <2>2, <4>1 DEF Leaving
      <4>3. y.sel = x.sel /\ y.port = [x.port EXCEPT ![800] = reg]
        BY <2>2, <4>1 DEF Leaving
      <4>4. y.wuc = x.wuc
        BY <2>2, <4>1 DEF Leaving
      <4> QED
        BY <4>2, <4>3, <4>4
    <3>2. x.port \in [{2, 800} -> Int]
      BY <1>5
    <3>3. y.port[800] = reg
      BY <3>1, <3>2
    <3>4. y \in A
      <4>1. y.clean \in {x.clean, FALSE}
        BY <3>1
      <4> HIDE DEF B
      <4> QED
        BY <1>7, <2>2, <3>1, <4>1, Zenon
    <3> QED
      BY <3>3, <3>4
  <2>3. r.err # "next"
    BY <1>1
  <2> HIDE DEF B
  <2> QED
    BY <2>1, <2>2, <2>3 DEF Leads
<1>11. Leads(f, s, B, A)
  <2>1. ASSUME NEW x \in B PROVE Right(f, s, x)
    <3>1. x.mail = {} /\ Found(f, x, 18) = <<"wu", reg>>
      BY <1>5, <1>8, <1>9
    <3>2. 18 \in Int /\ 0 \in Int /\ "data" \in Acts
      BY DEF Acts
    <3> QED
      BY <1>1, <3>1, <3>2 DEF Right
  <2>2. ASSUME NEW x \in B, NEW y \in Views(f), Leaving(s, x, y) \/ Spoiled(x, y) PROVE y \in A
    <3>1. ASSUME Leaving(s, x, y)
          PROVE  /\ y.addr = x.addr /\ y.sel = x.sel /\ y.wuc = x.wuc /\ y.clean \in {x.clean, FALSE}
                 /\ y.meant = x.meant /\ y.save = x.save /\ y.mail = {}
      BY <1>1, <1>2, <3>1 DEF Leaving
    <3>2. ASSUME Spoiled(x, y)
          PROVE  /\ y.addr = x.addr /\ y.sel = x.sel /\ y.wuc = x.wuc /\ y.clean \in {x.clean, FALSE}
                 /\ y.meant = x.meant /\ y.save = x.save /\ y.mail = {}
      BY <3>2 DEF Spoiled
    <3>3. x \in A
      BY <1>9
    <3> HIDE DEF B
    <3>4. CASE Leaving(s, x, y)
      BY <1>7, <2>2, <3>1, <3>3, <3>4, Zenon
    <3>5. CASE Spoiled(x, y)
      BY <1>7, <2>2, <3>2, <3>3, <3>5, Zenon
    <3> QED
      BY <2>2, <3>4, <3>5
  <2> HIDE DEF B
  <2> QED
    BY <2>1, <2>2 DEF Leads
<1>12. Skips(f, A, A)
  BY <1>7 DEF Skips, Spoiled
<1>13. Noted(f, p, 1, 2, c)
  <2> HIDE DEF B
  <2>1. \A n \in 1 .. 2 : (n = 1 /\ n + 1 = 2 /\ n + 2 = 3 /\ n < 2) \/ (n = 2 /\ n + 1 = 3)
    OBVIOUS
  <2>2. Leads(f, p[1], c[1], c[2]) /\ Leads(f, p[2], c[2], c[3])
    BY <1>4, <1>6, <1>10, <1>11, Zenon
  <2>3. Skips(f, c[1], c[3]) /\ p[2].err # "skip"
    <3>1. Skips(f, c[1], c[3])
      BY <1>6, <1>12, Zenon
    <3>2. p[2].err # "skip"
      BY <1>1, <1>4
    <3> QED
      BY <3>1, <3>2
  <2>4. c \in [1 .. 2 + 1 -> SUBSET Views(f)]
    BY <1>6, SMT
  <2> QED
    BY <2>1, <2>2, <2>3, <2>4, Zenon DEF Noted
<1>14. Works(f, p, 1, A, A)
  <2>1. c[Len(p) + 1] = A
    BY <1>4, <1>6, SMT
  <2>2. (\E S : p \in Seq(S)) /\ Noted(f, p, 1, Len(p), c)
    BY <1>4, <1>13
  <2>3. A \subseteq c[1] /\ c[Len(p) + 1] \subseteq A
    BY <1>6, <2>1
  <2> QED
    BY <2>2, <2>3, Zenon DEF Works
<1> QED
  BY <1>3, <1>14 DEF A

(* A whole access of page 800, and one of several.                           *)
LEMMA AccessWakeupWorks ==
  ASSUME NEW f, NEW reg \in Int
  PROVE  Works(f, AccessWakeup(reg), 1, Kept(f), Kept(f))
<1>1. Works(f, EnableWakeupAccess \o Wakeup(reg, "out"), 1, Kept(f), Opened800(f))
  BY EnableWorks, WakeupWorks, WorksThen
<1>2. Opened800(f) \subseteq Opening(f)
  BY DEF Opened800, AtAddr, OnPage
<1>3. Works(f, EnableWakeupAccess \o Wakeup(reg, "out"), 1, Kept(f), Opening(f))
  BY <1>1, <1>2, WorksWeaker
<1> QED
  BY <1>3, DisableWorks, WorksThen DEF AccessWakeup

LEMMA WakeupPageWorks ==
  ASSUME NEW f, NEW reg \in Int
  PROVE  Works(f, WakeupPage(reg), 1, Opened800(f), Opened800(f))
<1>1. AddrForHvPage(BM_WUC_PAGE) = 1 /\ 1 \in Addrs(f)
  BY SMT DEF AddrForHvPage, BM_WUC_PAGE, HV_INTC_FC_PAGE_START, Addrs
<1>2. Works(f, <<Addr(1)>>, 1, OnPage(Opening(f), BM_WUC_PAGE), Opened800(f))
  BY <1>1, AddrWorks, FreeSets DEF Opened800
<1>3. Works(f, <<Addr(1)>>, 1, Opened800(f), Opened800(f))
  <2>1. Opened800(f) \subseteq OnPage(Opening(f), BM_WUC_PAGE)
    BY DEF Opened800, AtAddr
  <2> QED
    BY <1>2, <2>1, WorksWeaker
<1> QED
  BY <1>1, <1>3, WakeupWorks, WorksThen DEF WakeupPage

LEMMA ThreeSteps == \A r, s, u : (<<r>> \o <<s>>) \o <<u>> = <<r, s, u>>
<1> SUFFICES ASSUME NEW r, NEW s, NEW u PROVE (<<r>> \o <<s>>) \o <<u>> = <<r, s, u>>
  OBVIOUS
<1> DEFINE S == {r, s, u}
           p == <<r, s>>
           q == <<u>>
           w == <<r, s, u>>
<1>1. p \in Seq(S) /\ q \in Seq(S) /\ w \in Seq(S)
  OBVIOUS
<1>2. Len(p) = 2 /\ p[1] = r /\ p[2] = s /\ Len(q) = 1 /\ q[1] = u
      /\ Len(w) = 3 /\ w[1] = r /\ w[2] = s /\ w[3] = u
  OBVIOUS
<1> HIDE DEF p, q, w
<1>3. /\ p \o q \in Seq(S) /\ Len(p \o q) = Len(p) + Len(q)
      /\ \A n \in 1 .. Len(p) : (p \o q)[n] = p[n]
      /\ \A n \in 1 .. Len(q) : (p \o q)[Len(p) + n] = q[n]
  BY <1>1, ConcatProperties
<1>4. p \o q = w
  <2>1. /\ Len(p \o q) = 3 /\ 1 \in 1 .. Len(p) /\ 2 \in 1 .. Len(p) /\ 1 \in 1 .. Len(q)
        /\ Len(p) + 1 = 3 /\ \A n \in 1 .. 3 : n = 1 \/ n = 2 \/ n = 3
    BY <1>2, <1>3
  <2>2. (p \o q)[1] = r /\ (p \o q)[2] = s /\ (p \o q)[3] = u
    BY <1>2, <1>3, <2>1
  <2>3. \A n \in 1 .. Len(p \o q) : (p \o q)[n] = w[n]
    BY <1>2, <2>1, <2>2
  <2> QED
    BY <1>1, <1>2, <1>3, <2>1, <2>3, SeqEqual
<1> QED
  BY <1>4, TwoSteps DEF p, q, w

(* phy.addr is set in front of an access.                                   *)
LEMMA AddrKeeps ==
  ASSUME NEW f, NEW a \in Addrs(f)
  PROVE  Works(f, <<Addr(a)>>, 1, Kept(f), AtAddr(Kept(f), a))
BY AddrWorks, FreeSets

(* An access that changes nothing the views tell.                            *)
LEMMA RegWorks ==
  ASSUME NEW f, NEW B, Free(f, B), NEW A \in SUBSET B, NEW reg \in Int, NEW goal,
         goal[1] \notin {"sel", "addr", "wuc"}, \A x \in A : Found(f, x, reg) = goal
  PROVE  Works(f, <<Mdic(reg, 0, goal)>>, 1, A, B)
         /\ \A a : Works(f, <<Mdic(reg, 0, goal)>>, 1, AtAddr(A, a), AtAddr(B, a))
<1> DEFINE s == Mdic(reg, 0, goal)
<1>1. s.k = "mdic" /\ s.reg = reg /\ s.v = 0 /\ s.goal = goal /\ s.act = "data" /\ s.err = "out"
  BY StepFields
<1> HIDE DEF s
<1>2. goal # <<"wuc">> /\ goal[1] # "sel" /\ goal[1] # "addr"
  <2>1. <<"wuc">>[1] = "wuc"
    OBVIOUS
  <2> QED
    BY <2>1
<1>3. B \subseteq Views(f) /\ \A x \in B : x.mail = {}
  BY DEF Free, Calm
<1>4. \A x \in A : Right(f, s, x)
  <2>1. 0 \in Int /\ "data" \in Acts
    BY DEF Acts
  <2> QED
    BY <1>1, <1>3, <2>1 DEF Right
<1>5. ASSUME NEW x \in B, NEW y \in Views(f), Leaving(s, x, y) PROVE y \in B /\ y.addr = x.addr
  <2>1. y.mail = {} /\ y.clean = x.clean /\ y.port = x.port /\ y.wuc = x.wuc /\ y.meant = x.meant
        /\ y.save = x.save /\ y.addr = x.addr
    BY <1>1, <1>2, <1>5 DEF Leaving
  <2> QED
    BY <2>1 DEF Free
<1>6. Leads(f, s, A, B) /\ \A a : Leads(f, s, AtAddr(A, a), AtAddr(B, a))
  <2>1. s.err # "next"
    BY <1>1
  <2>2. Leads(f, s, A, B)
    BY <1>4, <1>5, <2>1 DEF Leads
  <2>3. ASSUME NEW a PROVE Leads(f, s, AtAddr(A, a), AtAddr(B, a))
    BY <1>4, <1>5, <2>1 DEF Leads, AtAddr
  <2> QED
    BY <2>2, <2>3
<1>7. A \subseteq Views(f) /\ \A a : AtAddr(A, a) \subseteq Views(f) /\ AtAddr(B, a) \subseteq Views(f)
  BY <1>3 DEF AtAddr
<1>8. Works(f, <<s>>, 1, A, B)
  BY <1>1, <1>3, <1>6, <1>7, WorksOne
<1>9. \A a : Works(f, <<s>>, 1, AtAddr(A, a), AtAddr(B, a))
  BY <1>1, <1>6, <1>7, WorksOne
<1> QED
  BY <1>8, <1>9 DEF s

-----------------------------------------------------------------------------
(* The ports at address 2 of the hv PHYs.                                    *)
LEMMA PortWorks ==
  ASSUME NEW reg \in Int
  PROVE  /\ Works("hv", <<Mdic(16, reg, <<"addr", 2>>)>>, 1,
                  AtAddr(Kept("hv"), 2), WithPort(Kept("hv"), reg))
         /\ Works("hv", <<Mdic(16, reg, <<"addr", 2>>)>>, 1,
                  AtAddr(Kept("hv"), 2), AtAddr(WithPort(Kept("hv"), reg), 2))
         /\ Works("hv", <<Mdic(17, 0, <<"port", reg>>)>>, 1,
                  AtAddr(WithPort(Kept("hv"), reg), 2), AtAddr(Kept("hv"), 2))
<1> DEFINE f == "hv"
           B == Kept(f)
           C == WithPort(Kept(f), reg)
<1>1. AtAddr(C, 2) \subseteq C /\ C \subseteq B /\ B \subseteq Calm(f) /\ Calm(f) \subseteq Views(f)
  BY DEF AtAddr, WithPort, Kept, Calm
<1>2. Works(f, <<Mdic(16, reg, <<"addr", 2>>)>>, 1, AtAddr(B, 2), AtAddr(C, 2))
  <2> DEFINE s == Mdic(16, reg, <<"addr", 2>>)
  <2>1. /\ s.k = "mdic" /\ s.reg = 16 /\ s.v = reg /\ s.goal = <<"addr", 2>>
        /\ s.act = "data" /\ s.err = "out"
    BY StepFields
  <2>2. s.goal[1] = "addr" /\ s.goal[2] = 2 /\ s.goal # <<"wuc">>
    BY <2>1
  <2> HIDE DEF s, B
  <2>3. ASSUME NEW x \in AtAddr(B, 2) PROVE Right(f, s, x)
    <3>1. x.addr = 2 /\ x.mail = {}
      BY <1>1 DEF AtAddr, Calm
    <3>2. Found(f, x, 16) = <<"addr", 2>> /\ 16 \in Int /\ "data" \in Acts
      BY <3>1, FoundThere DEF Acts
    <3> QED
      BY <2>1, <3>1, <3>2 DEF Right
  <2>4. ASSUME NEW x \in AtAddr(B, 2), NEW y \in Views(f), Leaving(s, x, y) PROVE y \in AtAddr(C, 2)
    <3>1. /\ y.mail = {} /\ y.clean = x.clean /\ y.wuc = x.wuc /\ y.meant = x.meant
          /\ y.addr = x.addr /\ y.port = [x.port EXCEPT ![2] = reg]
      BY <2>1, <2>2, <2>4 DEF Leaving
    <3>2. x \in B /\ x.addr = 2 /\ x \in Views(f)
      BY <1>1 DEF AtAddr
    <3>3. y \in B
      BY <3>1, <3>2 DEF B, Kept, Calm
    <3>4. y.port[2] = reg
      BY <3>1, <3>2 DEF Views
    <3> QED
      BY <3>1, <3>2, <3>3, <3>4 DEF AtAddr, WithPort, B
  <2>5. Leads(f, s, AtAddr(B, 2), AtAddr(C, 2))
    <3>1. s.err # "next"
      BY <2>1
    <3> HIDE DEF C
    <3> QED
      BY <2>3, <2>4, <3>1 DEF Leads
  <2>6. AtAddr(B, 2) \subseteq Views(f) /\ AtAddr(C, 2) \subseteq Views(f)
    BY <1>1 DEF AtAddr
  <2>7. Works(f, <<s>>, 1, AtAddr(B, 2), AtAddr(C, 2))
    BY <2>1, <2>5, <2>6, WorksOne
  <2> QED
    BY <2>7 DEF s
<1>3. Works(f, <<Mdic(17, 0, <<"port", reg>>)>>, 1, AtAddr(AtAddr(C, 2), 2), AtAddr(B, 2))
  <2>1. <<"port", reg>>[1] = "port"
    OBVIOUS
  <2>2. \A x \in AtAddr(C, 2) : x.addr = 2 /\ x.port[2] = reg
    BY DEF AtAddr, WithPort
  <2>3. \A x \in AtAddr(C, 2) : Found(f, x, 17) = <<"port", reg>>
    BY <2>2, FoundThere
  <2>4. AtAddr(C, 2) \in SUBSET B
    BY <1>1
  <2> HIDE DEF C, B
  <2>5. Free(f, B)
    BY FreeSets DEF B
  <2>6. <<"port", reg>>[1] \notin {"sel", "addr", "wuc"} /\ 17 \in Int
    BY <2>1
  <2> QED
    BY <2>3, <2>4, <2>5, <2>6, RegWorks
<1>4. AtAddr(AtAddr(C, 2), 2) = AtAddr(C, 2)
  BY DEF AtAddr
<1>5. Works(f, <<Mdic(16, reg, <<"addr", 2>>)>>, 1, AtAddr(B, 2), C)
  BY <1>1, <1>2, WorksWeaker
<1> QED
  BY <1>2, <1>3, <1>4, <1>5

(* e1000_access_phy_debug_regs_hv.                                           *)
LEMMA DebugWorks ==
  ASSUME NEW reg \in Int
  PROVE  Works("hv", AccessDebug(reg), 1, Kept("hv"), AtAddr(Kept("hv"), 2))
<1> DEFINE r == Addr(2)
           s == Mdic(16, reg, <<"addr", 2>>)
           u == Mdic(17, 0, <<"port", reg>>)
<1>1. Works("hv", <<r>>, 1, Kept("hv"), AtAddr(Kept("hv"), 2))
  <2>1. 2 \in Addrs("hv")
    BY DEF Addrs
  <2> QED
    BY <2>1, AddrKeeps
<1>2. /\ Works("hv", <<s>>, 1, AtAddr(Kept("hv"), 2), AtAddr(WithPort(Kept("hv"), reg), 2))
      /\ Works("hv", <<u>>, 1, AtAddr(WithPort(Kept("hv"), reg), 2), AtAddr(Kept("hv"), 2))
  BY PortWorks
<1>3. AccessDebug(reg) = <<r, s, u>>
  BY DEF AccessDebug
<1> HIDE DEF r, s, u
<1>4. AccessDebug(reg) = (<<r>> \o <<s>>) \o <<u>>
  BY <1>3, ThreeSteps
<1>5. Works("hv", <<r>> \o <<s>>, 1, Kept("hv"), AtAddr(WithPort(Kept("hv"), reg), 2))
  BY <1>1, <1>2, WorksThen
<1>6. Works("hv", (<<r>> \o <<s>>) \o <<u>>, 1, Kept("hv"), AtAddr(Kept("hv"), 2))
  BY <1>2, <1>5, WorksThen
<1> QED
  BY <1>4, <1>6

(* The page that an access goes to.                                         *)
Prepared(B, a, b, page, reg) == {x \in AtAddr(B, a) : Paged(reg) => x.sel[b] = page}

LEMMA HvPagedWorks ==
  ASSUME NEW B, Free("hv", B), NEW a \in {1, 2}, NEW page \in Int, NEW p \in Int,
         p = IF page = HV_INTC_FC_PAGE_START THEN 0 ELSE page, NEW reg
  PROVE  Works("hv", HvPaged(page, reg, a), 1, AtAddr(B, a), Prepared(B, a, 1, p, reg))
<1>1. a \in Addrs("hv") /\ AtAddr(B, a) \subseteq B /\ AtAddr(B, a) \in SUBSET Views("hv")
  BY DEF Addrs, AtAddr, Free, Calm
<1>2. CASE Paged(reg)
  <2>1. HvPaged(page, reg, a) = SetPageIgp(p) \o <<Addr(a)>>
    BY <1>2 DEF HvPaged
  <2>2. Works("hv", SetPageIgp(p), 1, B, AtAddr(OnPage(B, p), 1))
    BY SetPageWorks
  <2>3. AtAddr(OnPage(B, p), 1) \subseteq OnPage(B, p)
    BY DEF AtAddr
  <2>4. Works("hv", SetPageIgp(p), 1, AtAddr(B, a), OnPage(B, p))
    BY <1>1, <2>2, <2>3, WorksWeaker
  <2>5. Works("hv", <<Addr(a)>>, 1, OnPage(B, p), AtAddr(OnPage(B, p), a))
    BY <1>1, AddrWorks
  <2>6. Works("hv", SetPageIgp(p) \o <<Addr(a)>>, 1, AtAddr(B, a), AtAddr(OnPage(B, p), a))
    BY <2>4, <2>5, WorksThen
  <2>7. AtAddr(OnPage(B, p), a) = Prepared(B, a, 1, p, reg)
    BY <1>2 DEF AtAddr, OnPage, Prepared
  <2> QED
    BY <2>1, <2>6, <2>7
<1>3. CASE ~Paged(reg)
  <2>1. HvPaged(page, reg, a) = <<>>
    BY <1>3 DEF HvPaged
  <2>2. Prepared(B, a, 1, p, reg) = AtAddr(B, a)
    BY <1>3 DEF Prepared, AtAddr
  <2> QED
    BY <1>1, <2>1, <2>2, WorksNone
<1> QED
  BY <1>2, <1>3

(* The accesses of the hv PHYs that Prog holds, and others like them: the    *)
(* wake-up and debug registers by their ports, the rest by number and page.  *)
HvPlain(page, reg, off11) ==
  /\ page \in Nat /\ page # BM_PORT_CTRL_PAGE
  /\ reg \in Int /\ reg # IGP01E1000_PHY_PAGE_SELECT
  /\ page = 0 => reg \notin {16, 17}
  /\ off11 => page = 0 /\ reg = 0

LEMMA HvBodyWorks ==
  ASSUME NEW page, NEW reg, NEW off11 \in BOOLEAN, HvPlain(page, reg, off11)
  PROVE  Works("hv", HvBody(page, reg, off11), 1,
               AtAddr(Kept("hv"), AddrForHvPage(page)), Kept("hv"))
<1> DEFINE a == AddrForHvPage(page)
           p == IF page = HV_INTC_FC_PAGE_START THEN 0 ELSE page
           B == Kept("hv")
           A == AtAddr(B, a)
<1>1. page \in Int /\ reg \in Int /\ a \in {1, 2} /\ p \in Int
  BY HvBodies DEF HvPlain
<1>2. A \subseteq B /\ AtAddr(B, 2) \subseteq B
  BY DEF AtAddr
<1>3. CASE page = BM_WUC_PAGE
  <2>1. HvBody(page, reg, off11) = AccessWakeup(reg)
    BY <1>3 DEF HvBody
  <2>2. Works("hv", AccessWakeup(reg), 1, B, B)
    BY <1>1, AccessWakeupWorks
  <2> QED
    BY <1>2, <2>1, <2>2, WorksWeaker
<1>4. CASE page # BM_WUC_PAGE /\ page > 0 /\ page < HV_INTC_FC_PAGE_START
  <2>1. HvBody(page, reg, off11) = AccessDebug(reg)
    BY <1>4 DEF HvBody
  <2>2. Works("hv", AccessDebug(reg), 1, B, AtAddr(B, 2))
    BY <1>1, DebugWorks
  <2> QED
    BY <1>2, <2>1, <2>2, WorksWeaker
<1>5. CASE page # BM_WUC_PAGE /\ ~(page > 0 /\ page < HV_INTC_FC_PAGE_START)
  <2> DEFINE work == IF off11 THEN AccessDebug(3) ELSE <<>>
             goal == IF off11 THEN <<"reg", 2, 0, 0>> ELSE Target(a, p, reg)
             C == Prepared(B, a, 1, p, reg)
  <2>1. HvBody(page, reg, off11) = (work \o HvPaged(page, reg, a)) \o <<Mdic(reg, 0, goal)>>
    BY <1>5, Zenon DEF HvBody
  <2>2. Works("hv", work, 1, A, A)
    <3>1. CASE off11
      <4>1. a = 2
        BY <3>1, SMT DEF HvPlain, AddrForHvPage, HV_INTC_FC_PAGE_START
      <4>2. Works("hv", AccessDebug(3), 1, B, AtAddr(B, 2))
        BY DebugWorks
      <4>3. work = AccessDebug(3)
        BY <3>1
      <4> HIDE DEF work, a
      <4> QED
        BY <1>2, <4>1, <4>2, <4>3, WorksWeaker
    <3>2. CASE ~off11
      <4>1. work = <<>>
        BY <3>2
      <4>2. A \in SUBSET Views("hv")
        BY DEF AtAddr, Kept, Calm
      <4> HIDE DEF work, A
      <4> QED
        BY <4>1, <4>2, WorksNone
    <3> QED
      BY <3>1, <3>2
  <2>3. Works("hv", HvPaged(page, reg, a), 1, A, C)
    <3> HIDE DEF a, p
    <3>1. p = IF page = HV_INTC_FC_PAGE_START THEN 0 ELSE page
      BY DEF p
    <3> QED
      BY <1>1, <3>1, FreeSets, HvPagedWorks
  <2>4. goal = Target(a, p, reg)
    <3>1. ASSUME off11 PROVE a = 2 /\ p = 0 /\ reg = 0
      BY <3>1, SMT DEF HvPlain, AddrForHvPage, HV_INTC_FC_PAGE_START
    <3>2. ~Paged(0)
      BY DEF Paged, MAX_PHY_MULTI_PAGE_REG
    <3>3. Target(2, 0, 0) = <<"reg", 2, 0, 0>>
      BY <3>2 DEF Target
    <3> QED
      BY <3>1, <3>3
  <2>5. goal[1] \notin {"sel", "addr", "wuc"}
    <3>1. goal[1] = "reg"
      BY <2>4 DEF Target
    <3> QED
      BY <3>1
  <2>6. ASSUME NEW x \in C PROVE Found("hv", x, reg) = goal
    <3>1. x.addr = a /\ (Paged(reg) => x.sel[1] = p)
      BY DEF Prepared, AtAddr
    <3>2. x.addr \in {1, 2} /\ reg # IGP01E1000_PHY_PAGE_SELECT
      BY <1>1, <3>1 DEF HvPlain
    <3>3. ASSUME x.addr = 1, x.sel[1] \in {BM_PORT_CTRL_PAGE, BM_WUC_PAGE}
          PROVE  reg \notin {17, 18}
      <4>1. Paged(17) /\ Paged(18)
        BY SMT DEF Paged, MAX_PHY_MULTI_PAGE_REG
      <4>2. p \notin {BM_PORT_CTRL_PAGE, BM_WUC_PAGE}
        BY <1>5, SMT DEF HvPlain, BM_PORT_CTRL_PAGE, BM_WUC_PAGE
      <4> HIDE DEF p
      <4> QED
        BY <3>1, <3>3, <4>1, <4>2
    <3>4. ASSUME x.addr = 2 PROVE reg \notin {16, 17}
      <4>1. page = 0
        BY <1>5, <3>1, <3>4, SMT DEF AddrForHvPage, HV_INTC_FC_PAGE_START, HvPlain
      <4> QED
        BY <4>1 DEF HvPlain
    <3> HIDE DEF p, a, goal
    <3>5. Found("hv", x, reg) = Target(x.addr, p, reg)
      BY <1>1, <3>1, <3>2, <3>3, <3>4, FoundElse
    <3> QED
      BY <2>4, <3>1, <3>5
  <2>7. C \in SUBSET B
    BY DEF Prepared, AtAddr
  <2> HIDE DEF work, goal, a, C, A, B
  <2>8. Free("hv", B)
    BY FreeSets DEF B
  <2>9. Works("hv", <<Mdic(reg, 0, goal)>>, 1, C, B)
    BY <1>1, <2>5, <2>6, <2>7, <2>8, RegWorks
  <2>10. Works("hv", work \o HvPaged(page, reg, a), 1, A, C)
    BY <2>2, <2>3, WorksThen
  <2>11. Works("hv", (work \o HvPaged(page, reg, a)) \o <<Mdic(reg, 0, goal)>>, 1, A, B)
    BY <2>9, <2>10, WorksThen
  <2> QED
    BY <2>1, <2>11 DEF A, B, a
<1> QED
  BY <1>3, <1>4, <1>5

LEMMA HvLockedWorks ==
  ASSUME NEW page, NEW reg, HvPlain(page, reg, FALSE)
  PROVE  Works("hv", HvLocked(page, reg), 1, Kept("hv"), Kept("hv"))
<1>1. AddrForHvPage(page) \in Addrs("hv")
  BY HvBodies DEF Addrs
<1>2. Works("hv", <<Addr(AddrForHvPage(page))>>, 1, Kept("hv"), AtAddr(Kept("hv"), AddrForHvPage(page)))
  BY <1>1, AddrKeeps
<1>3. Works("hv", HvBody(page, reg, FALSE), 1, AtAddr(Kept("hv"), AddrForHvPage(page)), Kept("hv"))
  BY HvBodyWorks
<1> QED
  BY <1>2, <1>3, WorksThen DEF HvLocked

(* The EMI port: its contents survive the choice of page and address.        *)
LEMMA EmiWorks ==
  ASSUME NEW reg \in Int PROVE Works("hv", AccessEmi(reg), 1, Kept("hv"), Kept("hv"))
<1> DEFINE B == Kept("hv")
           C == WithPort(B, reg)
           p16 == HvPaged(0, 16, 2)
           p17 == HvPaged(0, 17, 2)
           s == <<Mdic(16, reg, <<"addr", 2>>)>>
           u == <<Mdic(17, 0, <<"port", reg>>)>>
           d == <<Addr(2)>>
<1>1. AddrForHvPage(0) = 2 /\ 2 \in Addrs("hv")
  BY SMT DEF AddrForHvPage, HV_INTC_FC_PAGE_START, Addrs
<1>2. AccessEmi(reg) = ((((d \o p16) \o s) \o d) \o p17) \o u
  BY <1>1, Zenon DEF AccessEmi
<1>3. Free("hv", B) /\ Free("hv", C)
  BY FreeSets
<1>4. 0 = IF 0 = HV_INTC_FC_PAGE_START THEN 0 ELSE 0
  OBVIOUS
<1>5. Works("hv", d, 1, B, AtAddr(B, 2)) /\ Works("hv", d, 1, C, AtAddr(C, 2))
  <2> HIDE DEF B, C
  <2> QED
    BY <1>1, <1>3, AddrWorks
<1>6. /\ Works("hv", p16, 1, AtAddr(B, 2), Prepared(B, 2, 1, 0, 16))
      /\ Works("hv", p17, 1, AtAddr(C, 2), Prepared(C, 2, 1, 0, 17))
  <2> HIDE DEF B, C
  <2> QED
    BY <1>3, <1>4, HvPagedWorks
<1>7. Works("hv", s, 1, AtAddr(B, 2), C) /\ Works("hv", u, 1, AtAddr(C, 2), AtAddr(B, 2))
  BY PortWorks
<1>8. /\ Prepared(B, 2, 1, 0, 16) \subseteq AtAddr(B, 2) /\ Prepared(C, 2, 1, 0, 17) \subseteq AtAddr(C, 2)
      /\ AtAddr(B, 2) \subseteq B
  BY DEF Prepared, AtAddr
<1> HIDE DEF B, C, p16, p17, s, u, d
<1>9. Works("hv", p16, 1, AtAddr(B, 2), AtAddr(B, 2)) /\ Works("hv", p17, 1, AtAddr(C, 2), AtAddr(C, 2))
  BY <1>6, <1>8, WorksWeaker
<1>10. Works("hv", d \o p16, 1, B, AtAddr(B, 2))
  BY <1>5, <1>9, WorksThen
<1>11. Works("hv", (d \o p16) \o s, 1, B, C)
  BY <1>7, <1>10, WorksThen
<1>12. Works("hv", ((d \o p16) \o s) \o d, 1, B, AtAddr(C, 2))
  BY <1>5, <1>11, WorksThen
<1>13. Works("hv", (((d \o p16) \o s) \o d) \o p17, 1, B, AtAddr(C, 2))
  BY <1>9, <1>12, WorksThen
<1>14. Works("hv", ((((d \o p16) \o s) \o d) \o p17) \o u, 1, B, AtAddr(B, 2))
  BY <1>7, <1>13, WorksThen
<1>15. Works("hv", ((((d \o p16) \o s) \o d) \o p17) \o u, 1, B, B)
  BY <1>8, <1>14, WorksWeaker
<1> QED
  BY <1>2, <1>15 DEF B

-----------------------------------------------------------------------------
(* The bm PHYs have a page register at each address.                         *)
LEMMA BmSelectWorks ==
  ASSUME NEW a \in {1, 2}, NEW page \in Int, NEW select,
         select = IF a = 1 THEN IGP01E1000_PHY_PAGE_SELECT ELSE BM_PHY_PAGE_SELECT
  PROVE  Works("bm", <<Mdic(select, page, <<"sel", a>>)>>, 1, AtAddr(Kept("bm"), a),
               {x \in AtAddr(Kept("bm"), a) : x.sel[a] = page})
<1> DEFINE f == "bm"
           B == Kept(f)
           A == AtAddr(B, a)
           C == {x \in A : x.sel[a] = page}
           s == Mdic(select, page, <<"sel", a>>)
<1>1. /\ s.k = "mdic" /\ s.reg = select /\ s.v = page /\ s.goal = <<"sel", a>>
      /\ s.act = "data" /\ s.err = "out"
  BY StepFields
<1>2. s.goal[1] = "sel" /\ s.goal[2] = a /\ s.goal # <<"wuc">>
  BY <1>1
<1> HIDE DEF s
<1>3. ASSUME NEW x \in A PROVE x \in B /\ x.addr = a /\ x.mail = {} /\ x.sel \in [{1, 2} -> Int]
  BY DEF AtAddr, Kept, Calm, Views
<1>4. ASSUME NEW x \in A PROVE Right(f, s, x)
  <2>1. Found(f, x, select) = <<"sel", a>>
    BY <1>3, SMT DEF Found, IGP01E1000_PHY_PAGE_SELECT, BM_PHY_PAGE_SELECT
  <2>2. select \in Int /\ "data" \in Acts
    BY DEF Acts, IGP01E1000_PHY_PAGE_SELECT, BM_PHY_PAGE_SELECT
  <2> QED
    BY <1>1, <1>3, <2>1, <2>2 DEF Right
<1>5. ASSUME NEW x \in A, NEW y \in Views(f), Leaving(s, x, y) PROVE y \in C
  <2>1. /\ y.mail = {} /\ y.clean = x.clean /\ y.wuc = x.wuc /\ y.meant = x.meant
        /\ y.addr = x.addr /\ y.sel = [x.sel EXCEPT ![a] = page]
    BY <1>1, <1>2, <1>5 DEF Leaving
  <2>2. y \in B
    BY <1>3, <2>1 DEF Kept, Calm
  <2>3. y.sel[a] = page /\ y.addr = a
    BY <1>3, <2>1
  <2> QED
    BY <2>2, <2>3 DEF AtAddr
<1>6. A \subseteq Views(f) /\ C \subseteq Views(f)
  BY DEF AtAddr, Kept, Calm
<1> HIDE DEF A, C
<1>7. Leads(f, s, A, C)
  <2>1. s.err # "next"
    BY <1>1
  <2> QED
    BY <1>4, <1>5, <2>1 DEF Leads
<1>8. Works(f, <<s>>, 1, A, C)
  BY <1>1, <1>6, <1>7, WorksOne
<1> QED
  BY <1>8 DEF s, A, C

(* What comes between acquire and release in the bm accessors.               *)
BmBody(page, reg) ==
  LET a == AddrForBmPage(page, reg)
      select == IF a = 1 THEN IGP01E1000_PHY_PAGE_SELECT ELSE BM_PHY_PAGE_SELECT
  IN IF page = BM_WUC_PAGE THEN AccessWakeup(reg)
     ELSE (<<Addr(a)>>
           \o (IF page > 0 \/ Paged(reg) THEN <<Mdic(select, page, <<"sel", a>>)>> ELSE <<>>))
          \o <<Mdic(reg, 0, Target(a, page, reg))>>

BmPlain(page, reg) ==
  /\ page \in Nat
  /\ reg \in Int \ {IGP01E1000_PHY_PAGE_SELECT, BM_PHY_PAGE_SELECT}
  /\ page = BM_PORT_CTRL_PAGE => reg \notin {17, 18}

LEMMA BmBodyWorks ==
  ASSUME NEW page, NEW reg, BmPlain(page, reg)
  PROVE  Works("bm", BmBody(page, reg), 1, Kept("bm"), Kept("bm"))
<1> DEFINE B == Kept("bm")
<1>1. CASE page = BM_WUC_PAGE
  <2>1. BmBody(page, reg) = AccessWakeup(reg)
    BY <1>1 DEF BmBody
  <2>2. reg \in Int
    BY DEF BmPlain
  <2> QED
    BY <2>1, <2>2, AccessWakeupWorks
<1>2. CASE page # BM_WUC_PAGE
  <2> DEFINE a == AddrForBmPage(page, reg)
             select == IF a = 1 THEN IGP01E1000_PHY_PAGE_SELECT ELSE BM_PHY_PAGE_SELECT
             chosen == <<Mdic(select, page, <<"sel", a>>)>>
             paged == IF page > 0 \/ Paged(reg) THEN chosen ELSE <<>>
             goal == Target(a, page, reg)
             A == AtAddr(B, a)
             C == Prepared(B, a, a, page, reg)
  <2>1. BmBody(page, reg) = (<<Addr(a)>> \o paged) \o <<Mdic(reg, 0, goal)>>
    BY <1>2, Zenon DEF BmBody
  <2>2. a \in {1, 2} /\ a \in Addrs("bm") /\ page \in Int
    BY DEF AddrForBmPage, Addrs, BmPlain
  <2>3. Works("bm", <<Addr(a)>>, 1, B, A)
    <3> HIDE DEF a
    <3> QED
      BY <2>2, AddrKeeps
  <2>4. Works("bm", paged, 1, A, C)
    <3>1. CASE page > 0 \/ Paged(reg)
      <4>1. paged = chosen
        BY <3>1
      <4> HIDE DEF a, paged
      <4>2. Works("bm", chosen, 1, A, {x \in A : x.sel[a] = page})
        BY <2>2, BmSelectWorks
      <4>3. {x \in A : x.sel[a] = page} \subseteq C /\ A \subseteq A
        BY DEF Prepared
      <4> HIDE DEF chosen, A, C
      <4> QED
        BY <4>1, <4>2, <4>3, WorksWeaker
    <3>2. CASE ~(page > 0 \/ Paged(reg))
      <4>1. paged = <<>> /\ C = A
        BY <3>2 DEF Prepared
      <4>2. A \in SUBSET Views("bm")
        BY DEF AtAddr, Kept, Calm
      <4> HIDE DEF paged, A, C
      <4> QED
        BY <4>1, <4>2, WorksNone
    <3> QED
      BY <3>1, <3>2
  <2>5. goal[1] \notin {"sel", "addr", "wuc"}
    <3>1. goal[1] = "reg"
      BY DEF Target
    <3> QED
      BY <3>1
  <2>6. ASSUME NEW x \in C PROVE Found("bm", x, reg) = goal
    <3> HIDE DEF a, goal
    <3>1. x.addr = a /\ (Paged(reg) => x.sel[a] = page)
      BY DEF Prepared, AtAddr
    <3>2. x.addr \in {1, 2} /\ reg \in Int /\ reg # IGP01E1000_PHY_PAGE_SELECT /\ reg # BM_PHY_PAGE_SELECT
      BY <2>2, <3>1 DEF BmPlain
    <3>3. ASSUME x.addr = 1, x.sel[1] \in {BM_PORT_CTRL_PAGE, BM_WUC_PAGE}
          PROVE  reg \notin {17, 18}
      <4>1. Paged(17) /\ Paged(18)
        BY SMT DEF Paged, MAX_PHY_MULTI_PAGE_REG
      <4> QED
        BY <1>2, <3>1, <3>3, <4>1 DEF BmPlain
    <3>4. Paged(reg) => page = x.sel[x.addr]
      BY <3>1
    <3>5. "bm" # "hv"
      OBVIOUS
    <3>6. Found("bm", x, reg) = Target(x.addr, page, reg)
      BY <3>2, <3>3, <3>4, <3>5, FoundElse
    <3> QED
      BY <3>1, <3>6 DEF goal
  <2>7. C \in SUBSET B
    BY DEF Prepared, AtAddr
  <2> HIDE DEF goal, a, C, A, B, paged
  <2>8. Free("bm", B)
    BY FreeSets DEF B
  <2>9. Works("bm", <<Mdic(reg, 0, goal)>>, 1, C, B)
    <3>1. reg \in Int
      BY DEF BmPlain
    <3> QED
      BY <3>1, <2>5, <2>6, <2>7, <2>8, RegWorks
  <2>10. Works("bm", <<Addr(a)>> \o paged, 1, B, C)
    BY <2>3, <2>4, WorksThen
  <2>11. Works("bm", (<<Addr(a)>> \o paged) \o <<Mdic(reg, 0, goal)>>, 1, B, B)
    BY <2>9, <2>10, WorksThen
  <2> QED
    BY <2>1, <2>11 DEF B
<1> QED
  BY <1>1, <1>2

(* Those of the igp accessors, whose PHYs are at address 1.                  *)
IgpPlain(page, reg) ==
  /\ page \in Nat /\ page \notin {BM_PORT_CTRL_PAGE, BM_WUC_PAGE}
  /\ reg \in Int \ {IGP01E1000_PHY_PAGE_SELECT}

LEMMA IgpBodyWorks ==
  ASSUME NEW page, NEW reg, IgpPlain(page, reg)
  PROVE  LET paged == IF page > 0 \/ Paged(reg)
                        THEN <<Mdic(IGP01E1000_PHY_PAGE_SELECT, page, <<"sel", 1>>)>> ELSE <<>>
         IN  \E Q : /\ Works("igp", paged, 1, Kept("igp"), Q)
                    /\ Works("igp", <<Mdic(reg, 0, Target(1, page, reg))>>, 1, Q, Kept("igp"))
<1> DEFINE B == Kept("igp")
           A == AtAddr(B, 1)
           C == Prepared(B, 1, 1, page, reg)
           chosen == <<Mdic(IGP01E1000_PHY_PAGE_SELECT, page, <<"sel", 1>>)>>
           paged == IF page > 0 \/ Paged(reg) THEN chosen ELSE <<>>
           goal == Target(1, page, reg)
<1>2. A = B /\ A \in SUBSET Views("igp") /\ A \subseteq A
  BY DEF AtAddr, Kept, Calm, Views, Addrs
<1>3. page \in Int
  BY DEF IgpPlain
<1>4. Works("igp", paged, 1, A, C)
  <2>1. CASE page > 0 \/ Paged(reg)
    <3>1. paged = chosen
      BY <2>1
    <3>2. AtAddr(OnPage(B, page), 1) \subseteq C
      BY DEF AtAddr, OnPage, Prepared
    <3> HIDE DEF paged, C, B
    <3>3. Works("igp", chosen, 1, A, AtAddr(OnPage(B, page), 1))
      BY <1>3, FreeSets, SelectWorks DEF B
    <3> HIDE DEF chosen, A
    <3> QED
      BY <1>2, <3>1, <3>2, <3>3, WorksWeaker
  <2>2. CASE ~(page > 0 \/ Paged(reg))
    <3>1. paged = <<>> /\ C = A
      BY <2>2 DEF Prepared
    <3> HIDE DEF paged, A, C
    <3> QED
      BY <1>2, <3>1, WorksNone
  <2> QED
    BY <2>1, <2>2
<1>5. goal[1] \notin {"sel", "addr", "wuc"}
  <2>1. goal[1] = "reg"
    BY DEF Target
  <2> QED
    BY <2>1
<1>6. ASSUME NEW x \in C PROVE Found("igp", x, reg) = goal
  <2> HIDE DEF goal
  <2>1. x.addr = 1 /\ (Paged(reg) => x.sel[1] = page)
    BY DEF Prepared, AtAddr
  <2>2. reg \in Int /\ reg # IGP01E1000_PHY_PAGE_SELECT /\ 1 \in {1, 2}
    BY DEF IgpPlain
  <2>3. ASSUME x.sel[1] \in {BM_PORT_CTRL_PAGE, BM_WUC_PAGE} PROVE reg \notin {17, 18}
    <3>1. Paged(17) /\ Paged(18)
      BY SMT DEF Paged, MAX_PHY_MULTI_PAGE_REG
    <3> QED
      BY <2>1, <2>3, <3>1 DEF IgpPlain
  <2>4. "igp" # "hv" /\ "igp" # "bm" /\ 1 # 2
    OBVIOUS
  <2>5. Found("igp", x, reg) = Target(x.addr, page, reg)
    BY <2>1, <2>2, <2>3, <2>4, FoundElse
  <2> QED
    BY <2>1, <2>5 DEF goal
<1>7. C \in SUBSET B
  BY DEF Prepared, AtAddr
<1> HIDE DEF goal, C, A, B, paged
<1>8. Free("igp", B)
  BY FreeSets DEF B
<1>9. Works("igp", <<Mdic(reg, 0, goal)>>, 1, C, B)
  <2>1. reg \in Int
    BY DEF IgpPlain
  <2> QED
    BY <2>1, <1>5, <1>6, <1>7, <1>8, RegWorks
<1>10. \E Q : Works("igp", paged, 1, B, Q) /\ Works("igp", <<Mdic(reg, 0, goal)>>, 1, Q, B)
  BY <1>2, <1>4, <1>9
<1> QED
  BY <1>10 DEF B, paged, goal

(* __e1000_read_kmrn_reg: the offset is what the data are read by.           *)
KmrnBody(reg) ==
  <<Step("kaddr", reg, 0, None, "next"), Step("kdata", reg, 0, <<"kmrn", reg>>, "next")>>

LEMMA KmrnWorks ==
  ASSUME NEW f, NEW reg \in Int PROVE Works(f, KmrnBody(reg), 1, Kept(f), Kept(f))
<1> DEFINE r == Step("kaddr", reg, 0, None, "next")
           s == Step("kdata", reg, 0, <<"kmrn", reg>>, "next")
           B == Kept(f)
           C == {x \in Views(f) : x.mail = {reg} /\ (x.clean => x.wuc = x.meant)}
<1>1. /\ r.k = "kaddr" /\ r.reg = reg /\ r.err = "next"
      /\ s.k = "kdata" /\ s.reg = reg /\ s.goal = <<"kmrn", reg>> /\ s.err = "next"
  BY StepFields
<1>2. KmrnBody(reg) = <<r, s>>
  BY DEF KmrnBody
<1>3. B \subseteq Views(f) /\ C \subseteq Views(f)
  BY DEF Kept, Calm
<1> HIDE DEF r, s
<1>4. Leads(f, r, B, C)
  <2>1. ASSUME NEW x \in B PROVE Right(f, r, x)
    BY <1>1 DEF Right
  <2>2. ASSUME NEW x \in B, NEW y \in Views(f), Leaving(r, x, y) PROVE y \in C
    <3>1. y.mail = {reg} /\ y.clean = x.clean /\ y.wuc = x.wuc /\ y.meant = x.meant
      BY <1>1, <2>2 DEF Leaving
    <3> QED
      BY <3>1 DEF Kept
  <2>3. r.k # "mdic"
    BY <1>1
  <2> HIDE DEF B, C
  <2> QED
    BY <2>1, <2>2, <2>3 DEF Leads
<1>5. Leads(f, s, C, B)
  <2>1. ASSUME NEW x \in C PROVE Right(f, s, x)
    BY <1>1 DEF Right
  <2>2. ASSUME NEW x \in C, NEW y \in Views(f), Leaving(s, x, y) PROVE y \in B
    <3>1. y.mail = {} /\ y.clean = x.clean /\ y.wuc = x.wuc /\ y.meant = x.meant
      BY <1>1, <2>2 DEF Leaving
    <3> QED
      BY <3>1 DEF Kept, Calm
  <2>3. s.k # "mdic"
    BY <1>1
  <2> HIDE DEF B, C
  <2> QED
    BY <2>1, <2>2, <2>3 DEF Leads
<1> HIDE DEF B, C
<1>6. Works(f, <<r>>, 1, B, C) /\ Works(f, <<s>>, 1, C, B)
  <2>1. r.err # "skip" /\ s.err # "skip"
    BY <1>1
  <2> QED
    BY <1>3, <1>4, <1>5, <2>1, WorksOne
<1>7. Works(f, <<r>> \o <<s>>, 1, B, B)
  BY <1>6, WorksThen
<1> QED
  BY <1>2, <1>7, TwoSteps DEF B

-----------------------------------------------------------------------------
(* Whole sessions: whoever acquires the semaphore where nothing is under way *)
(* finds what every step of the body is meant to find, and leaves it so; the *)
(* steps that assign phy.addr before the acquisition know it still holds.    *)
Ready(f, p) == {x \in Kept(f) : Entry(p) = 2 => x.addr = p[1].v}

Annotates(f, p, c) ==
  /\ Noted(f, p, Entry(p) + 4, Len(p) - 2, c)
  /\ Ready(f, p) \subseteq c[Entry(p) + 4]
  /\ c[Len(p) - 1] = Kept(f)

Runs(f, p) == (f = "igp" => Entry(p) = 1) /\ \E c : Annotates(f, p, c)

(* Nothing is done yet behind the acquisition.                              *)
LEMMA WorksAtEnd ==
  ASSUME NEW f, NEW p, \E S : p \in Seq(S), NEW P \in SUBSET Views(f), NEW e, e = Len(p) + 1
  PROVE  Works(f, p, e, P, P)
<1> DEFINE c == [n \in e .. e |-> P]
<1>1. Len(p) \in Nat
  <2>1. PICK S : p \in Seq(S)
    OBVIOUS
  <2> QED
    BY <2>1
<1>2. e \in Nat /\ Len(p) + 1 = e /\ (\A n \in e .. Len(p) : FALSE) /\ e .. Len(p) + 1 = e .. e
  BY <1>1
<1>3. c \in [e .. Len(p) + 1 -> SUBSET Views(f)] /\ c[e] = P /\ c[Len(p) + 1] = P
  BY <1>2
<1> HIDE DEF c
<1>4. Noted(f, p, e, Len(p), c)
  BY <1>2, <1>3 DEF Noted
<1> QED
  BY <1>3, <1>4 DEF Works

(* What is left at the end may be widened.                                   *)
Ending(f, p, e, P, Q) ==
  \E c : Noted(f, p, e, Len(p), c) /\ P \subseteq c[e] /\ c[Len(p) + 1] = Q

LEMMA WorksUpTo ==
  ASSUME NEW f, NEW p, NEW e \in Nat, e <= Len(p) + 1, NEW P, NEW Q \in SUBSET Views(f),
         Works(f, p, e, P, Q)
  PROVE  Ending(f, p, e, P, Q)
<1>1. PICK b : Noted(f, p, e, Len(p), b) /\ P \subseteq b[e] /\ b[Len(p) + 1] \subseteq Q
  BY DEF Works
<1> DEFINE l == Len(p) + 1
           c == [n \in e .. l |-> IF n = l THEN Q ELSE b[n]]
<1>2. Len(p) \in Nat
  <2>1. PICK S : p \in Seq(S)
    BY DEF Works
  <2> QED
    BY <2>1
<1>3. /\ b \in [e .. l -> SUBSET Views(f)]
      /\ \A n \in e .. Len(p) : Leads(f, p[n], b[n], b[n + 1])
      /\ \A n \in e .. Len(p) : p[n].err = "skip" => n < Len(p) /\ Skips(f, b[n], b[n + 2])
  BY <1>1 DEF Noted
<1>4. /\ l \in e .. l
      /\ \A n \in e .. Len(p) : n \in e .. l /\ n # l /\ n + 1 \in e .. l /\ (n < Len(p) => n + 2 \in e .. l)
  BY <1>2
<1>5. /\ c \in [e .. l -> SUBSET Views(f)] /\ c[l] = Q
      /\ \A n \in e .. l : b[n] \subseteq c[n]
      /\ \A n \in e .. Len(p) : c[n] = b[n]
  BY <1>1, <1>3, <1>4
<1> HIDE DEF c
<1>6. \A n \in e .. Len(p) : Leads(f, p[n], c[n], c[n + 1])
  BY <1>3, <1>4, <1>5, LeadsTo
<1>7. \A n \in e .. Len(p) : p[n].err = "skip" => n < Len(p) /\ Skips(f, c[n], c[n + 2])
  BY <1>3, <1>4, <1>5, SkipsTo
<1>8. Noted(f, p, e, Len(p), c)
  BY <1>5, <1>6, <1>7 DEF Noted
<1>9. P \subseteq c[e]
  <2>1. e \in e .. l
    BY <1>2
  <2> QED
    BY <1>1, <1>5, <2>1
<1> QED
  BY <1>5, <1>8, <1>9 DEF Ending

(* A body that works makes a session that runs.                              *)
LEMMA RunsEnd ==
  ASSUME NEW f, NEW p, NEW e, NEW err, Opened(p, e, err), NEW r, NEW c,
         r.k \in {"rel", "rst"}, c.k = IF r.k = "rel" THEN "clr" ELSE "clrheld",
         f = "igp" => e = 1, NEW P, Works(f, p, e + 4, P, Kept(f)),
         \A x \in Kept(f) : (e = 2 => x.addr = p[1].v) => x \in P
  PROVE  Runs(f, p \o <<r, c>>)
<1> DEFINE q == <<r, c>>
           w == p \o q
<1>1. Entry(w) = e
  BY OpenedEnds
<1>2. q \in Seq({r, c}) /\ Len(q) = 2
  OBVIOUS
<1> HIDE DEF q
<1>3. (\E S : p \in Seq(S)) /\ (\E S : q \in Seq(S))
  BY <1>2 DEF Opened
<1>4. /\ Len(p) \in Nat /\ Len(w) = Len(p) + Len(q)
      /\ \A n \in 1 .. Len(p) : w[n] = p[n]
  BY <1>3, ConcatAt
<1>5. e \in {1, 2} /\ e + 3 <= Len(p)
  BY DEF Opened
<1> HIDE DEF w
<1>6. /\ Len(w) - 2 = Len(p) /\ Len(w) - 1 = Len(p) + 1
      /\ e + 4 \in Nat /\ e + 4 <= Len(p) + 1 /\ 1 \in 1 .. Len(p)
      /\ \A n \in e + 4 .. Len(p) : n \in 1 .. Len(p)
  BY <1>2, <1>4, <1>5
<1>7. Kept(f) \in SUBSET Views(f)
  BY DEF Kept, Calm
<1>8. PICK b : Noted(f, p, e + 4, Len(p), b) /\ P \subseteq b[e + 4] /\ b[Len(p) + 1] = Kept(f)
  <2> DEFINE from == e + 4
             Q == Kept(f)
  <2>1. Works(f, p, from, P, Q)
    BY Zenon
  <2>2. from \in Nat /\ from <= Len(p) + 1 /\ Q \in SUBSET Views(f)
    BY <1>6, <1>7
  <2> HIDE DEF from, Q
  <2>3. Ending(f, p, from, P, Q)
    BY <2>1, <2>2, WorksUpTo
  <2> QED
    BY <2>3, Zenon DEF from, Q, Ending
<1>9. Noted(f, w, e + 4, Len(p), b)
  BY <1>4, <1>6, <1>8 DEF Noted
<1>10. w[1] = p[1]
  BY <1>4, <1>6
<1>11. Ready(f, w) \subseteq b[e + 4]
  BY <1>1, <1>8, <1>10 DEF Ready
<1>12. Annotates(f, w, b)
  BY <1>1, <1>6, <1>8, <1>9, <1>11 DEF Annotates
<1>13. Runs(f, w)
  BY <1>1, <1>12 DEF Runs
<1> QED
  BY <1>13 DEF w, q

LEMMA RunsReleased ==
  ASSUME NEW f, NEW p, NEW e, NEW err, Opened(p, e, err),
         f = "igp" => e = 1, NEW P, Works(f, p, e + 4, P, Kept(f)),
         \A x \in Kept(f) : (e = 2 => x.addr = p[1].v) => x \in P
  PROVE  Runs(f, p \o Release)
<1> DEFINE r == Step("rel", 0, 0, None, "next")
           c == Step("clr", 0, 0, None, "next")
<1>1. r.k = "rel" /\ c.k = "clr" /\ Release = <<r, c>>
  BY DEF Step, Release
<1> HIDE DEF r, c
<1>2. r.k \in {"rel", "rst"} /\ c.k = IF r.k = "rel" THEN "clr" ELSE "clrheld"
  BY <1>1
<1>3. Runs(f, p \o <<r, c>>)
  BY <1>2, RunsEnd
<1> QED
  BY <1>1, <1>3

(* A session that acquires first, up to some step of its body.                *)
Within(f, p, err, Q) == Opened(p, 1, err) /\ Works(f, p, 5, Kept(f), Q)

LEMMA WithinAcquired == ASSUME NEW f, NEW err PROVE Within(f, Acquire(err), err, Kept(f))
<1> DEFINE a == Acquire(err)
<1>1. Opened(a, 1, err) /\ Len(a) = 4
  <2>1. Len(a) = 4
    BY DEF Acquire
  <2> QED
    BY <2>1, AcquireOpens
<1> HIDE DEF a
<1>2. (\E S : a \in Seq(S)) /\ 5 = Len(a) + 1
  BY <1>1 DEF Opened
<1>3. Kept(f) \in SUBSET Views(f)
  BY DEF Kept, Calm
<1>4. Works(f, a, 5, Kept(f), Kept(f))
  BY <1>2, <1>3, WorksAtEnd
<1> QED
  BY <1>1, <1>4 DEF Within, a

LEMMA WithinThen ==
  ASSUME NEW f, NEW p, NEW err, NEW Q, NEW R, NEW q, Within(f, p, err, Q), IsBody(q),
         Works(f, q, 1, Q, R)
  PROVE  Within(f, p \o q, err, R)
<1>1. Opened(p \o q, 1, err)
  BY OpenedConcat DEF Within
<1>2. 5 \in 1 .. Len(p) + 1
  BY DEF Within, Opened
<1>3. Works(f, p \o q, 5, Kept(f), R)
  BY <1>2, WorksConcat DEF Within
<1> QED
  BY <1>1, <1>3 DEF Within

LEMMA WithinEnds ==
  ASSUME NEW f, NEW p, NEW err, Within(f, p, err, Kept(f)) PROVE Runs(f, p \o Release)
<1>1. Opened(p, 1, err) /\ Works(f, p, 1 + 4, Kept(f), Kept(f))
  BY DEF Within
<1>2. \A x \in Kept(f) : (1 = 2 => x.addr = p[1].v) => x \in Kept(f)
  OBVIOUS
<1> QED
  BY <1>1, <1>2, RunsReleased

LEMMA RunsAcquired ==
  ASSUME NEW f, NEW q, IsBody(q), Works(f, q, 1, Kept(f), Kept(f)), NEW err
  PROVE  Runs(f, (Acquire(err) \o q) \o Release)
<1>1. Within(f, Acquire(err) \o q, err, Kept(f))
  BY WithinAcquired, WithinThen
<1> QED
  BY <1>1, WithinEnds

(* And one that assigns phy.addr before.                                     *)
LEMMA RunsAddressed ==
  ASSUME NEW q, IsBody(q), NEW a \in {1, 2}, Works("hv", q, 1, AtAddr(Kept("hv"), a), Kept("hv")),
         NEW err
  PROVE  Runs("hv", ((<<Addr(a)>> \o Acquire(err)) \o q) \o Release)
<1> DEFINE p == <<Addr(a)>> \o Acquire(err)
           A == AtAddr(Kept("hv"), a)
<1>1. Opened(p, 2, err)
  BY AddrAcquireOpens
<1>2. Len(p) = 5 /\ p[1] = Addr(a)
  <2> DEFINE d == <<Addr(a)>>
             b == Acquire(err)
  <2>1. d \in Seq({Addr(a)}) /\ Len(d) = 1 /\ d[1] = Addr(a)
    OBVIOUS
  <2>2. Opened(b, 1, err) /\ Len(b) = 4
    <3>1. Len(b) = 4
      BY DEF Acquire
    <3> QED
      BY <3>1, AcquireOpens
  <2> HIDE DEF d, b
  <2>3. (\E S : d \in Seq(S)) /\ (\E S : b \in Seq(S))
    BY <2>1, <2>2 DEF Opened
  <2>4. /\ Len(d \o b) = Len(d) + Len(b)
        /\ \A n \in 1 .. Len(d) : (d \o b)[n] = d[n]
    BY <2>3, ConcatAt
  <2>5. Len(d \o b) = 5 /\ (d \o b)[1] = Addr(a)
    BY <2>1, <2>2, <2>4
  <2> QED
    BY <2>5 DEF d, b
<1>3. p[1].v = a
  BY <1>2, StepFields
<1> HIDE DEF p
<1>4. Opened(p \o q, 2, err)
  BY <1>1, OpenedConcat
<1>5. (\E S : p \in Seq(S)) /\ 6 = Len(p) + 1 /\ 6 \in 1 .. Len(p) + 1 /\ 2 + 4 = 6 /\ 1 \in 1 .. Len(p)
  BY <1>1, <1>2 DEF Opened
<1>6. A \in SUBSET Views("hv")
  BY DEF AtAddr, Kept, Calm
<1> HIDE DEF A
<1>7. Works("hv", p, 6, A, A)
  BY <1>5, <1>6, WorksAtEnd
<1>8. Works("hv", q, 1, A, Kept("hv"))
  BY DEF A
<1>9. Works("hv", p \o q, 2 + 4, A, Kept("hv"))
  BY <1>5, <1>7, <1>8, WorksConcat
<1>10. (p \o q)[1].v = a
  <2>1. \E S : q \in Seq(S)
    BY DEF IsBody
  <2>2. \A n \in 1 .. Len(p) : (p \o q)[n] = p[n]
    BY <1>5, <2>1, ConcatAt
  <2> QED
    BY <1>3, <1>5, <2>2
<1>11. \A x \in Kept("hv") : (2 = 2 => x.addr = (p \o q)[1].v) => x \in A
  BY <1>10 DEF A, AtAddr
<1>12. Runs("hv", (p \o q) \o Release)
  <2>1. "hv" # "igp"
    OBVIOUS
  <2> QED
    BY <1>4, <1>9, <1>11, <2>1, RunsReleased
<1> QED
  BY <1>12 DEF p

(* The sessions of Prog.                                                    *)
LEMMA HvRuns ==
  ASSUME NEW page, NEW reg, NEW off11 \in BOOLEAN, HvPlain(page, reg, off11)
  PROVE  Runs("hv", Hv(page, reg, off11))
<1> DEFINE a == AddrForHvPage(page)
<1>1. a \in {1, 2} /\ IsBody(HvBody(page, reg, off11))
  BY HvBodies
<1>2. Works("hv", HvBody(page, reg, off11), 1, AtAddr(Kept("hv"), a), Kept("hv"))
  BY HvBodyWorks
<1>3. Hv(page, reg, off11) = ((<<Addr(a)>> \o Acquire("return")) \o HvBody(page, reg, off11)) \o Release
  BY Zenon DEF Hv
<1> HIDE DEF a
<1> QED
  BY <1>1, <1>2, <1>3, RunsAddressed

LEMMA BmRuns ==
  ASSUME NEW page, NEW reg, BmPlain(page, reg) PROVE Runs("bm", Bm(page, reg))
<1> DEFINE a == AddrForBmPage(page, reg)
           select == IF a = 1 THEN IGP01E1000_PHY_PAGE_SELECT ELSE BM_PHY_PAGE_SELECT
           paged == IF page > 0 \/ Paged(reg) THEN <<Mdic(select, page, <<"sel", a>>)>> ELSE <<>>
           plain == (<<Addr(a)>> \o paged) \o <<Mdic(reg, 0, Target(a, page, reg))>>
<1>1. Bm(page, reg) = (Acquire("return") \o BmBody(page, reg)) \o Release
  BY Zenon DEF Bm, BmBody
<1>2. IsBody(BmBody(page, reg))
  <2>1. a \in {1, 2}
    BY DEF AddrForBmPage
  <2>2. IsBody(paged)
    BY Bodies, BodyNone
  <2>3. IsBody(plain)
    <3> DEFINE last == <<Mdic(reg, 0, Target(a, page, reg))>>
    <3>1. IsBody(last)
      BY Bodies
    <3> HIDE DEF paged, a, last
    <3>2. IsBody(<<Addr(a)>> \o paged)
      BY <2>1, <2>2, Bodies, BodyConcat
    <3>3. IsBody((<<Addr(a)>> \o paged) \o last)
      BY <3>1, <3>2, BodyConcat
    <3> QED
      BY <3>3 DEF last
  <2>4. BmBody(page, reg) = IF page = BM_WUC_PAGE THEN AccessWakeup(reg) ELSE plain
    BY Zenon DEF BmBody
  <2> HIDE DEF plain
  <2> QED
    BY <2>3, <2>4, WakeupBodies
<1>3. Works("bm", BmBody(page, reg), 1, Kept("bm"), Kept("bm"))
  BY BmBodyWorks
<1> QED
  BY <1>1, <1>2, <1>3, RunsAcquired

LEMMA IgpRuns ==
  ASSUME NEW page, NEW reg, IgpPlain(page, reg) PROVE Runs("igp", Igp(page, reg))
<1> DEFINE paged == IF page > 0 \/ Paged(reg)
                      THEN <<Mdic(IGP01E1000_PHY_PAGE_SELECT, page, <<"sel", 1>>)>> ELSE <<>>
           last == <<Mdic(reg, 0, Target(1, page, reg))>>
           a == Acquire("return")
<1>1. Igp(page, reg) = ((a \o paged) \o last) \o Release
  BY Zenon DEF Igp
<1>2. IsBody(paged) /\ IsBody(last)
  BY Bodies, BodyNone
<1>3. PICK Q : Works("igp", paged, 1, Kept("igp"), Q) /\ Works("igp", last, 1, Q, Kept("igp"))
  BY IgpBodyWorks
<1>4. Within("igp", a, "return", Kept("igp"))
  BY WithinAcquired
<1> HIDE DEF paged, last, a
<1>5. Within("igp", a \o paged, "return", Q)
  BY <1>2, <1>3, <1>4, WithinThen
<1>6. Within("igp", (a \o paged) \o last, "return", Kept("igp"))
  BY <1>2, <1>3, <1>5, WithinThen
<1> QED
  BY <1>1, <1>6, WithinEnds

LEMMA KmrnRuns ==
  ASSUME NEW f, NEW reg \in Int PROVE Runs(f, Kmrn(reg))
<1> DEFINE r == Step("kaddr", reg, 0, None, "next")
           s == Step("kdata", reg, 0, <<"kmrn", reg>>, "next")
<1>1. Inner(r) /\ Inner(s) /\ s.err # "skip"
  BY DEF Step, Inner
<1>2. KmrnBody(reg) = <<r, s>> /\ Kmrn(reg) = (Acquire("return") \o KmrnBody(reg)) \o Release
  BY Zenon DEF Kmrn, KmrnBody
<1> HIDE DEF r, s
<1>3. IsBody(KmrnBody(reg))
  BY <1>1, <1>2, BodyTwo
<1> QED
  BY <1>2, <1>3, KmrnWorks, RunsAcquired

LEMMA ResetRuns == ASSUME NEW f PROVE Runs(f, ResetHw)
<1> DEFINE r == Step("rst", 0, 0, None, "next")
           c == Step("clrheld", 0, 0, None, "next")
           a == Acquire("out")
<1>1. r.k = "rst" /\ c.k = "clrheld" /\ ResetHw = a \o <<r, c>>
  BY DEF Step, ResetHw
<1>2. Opened(a, 1, "out") /\ Len(a) = 4
  <2>1. Len(a) = 4
    BY DEF Acquire
  <2> QED
    BY <2>1, AcquireOpens
<1> HIDE DEF r, c, a
<1>3. (\E S : a \in Seq(S)) /\ 1 + 4 = Len(a) + 1
  BY <1>2 DEF Opened
<1>4. Kept(f) \in SUBSET Views(f)
  BY DEF Kept, Calm
<1>5. Works(f, a, 1 + 4, Kept(f), Kept(f))
  BY <1>3, <1>4, WorksAtEnd
<1>6. r.k \in {"rel", "rst"} /\ c.k = IF r.k = "rel" THEN "clr" ELSE "clrheld"
  BY <1>1
<1>7. \A x \in Kept(f) : (1 = 2 => x.addr = a[1].v) => x \in Kept(f)
  OBVIOUS
<1> QED
  BY <1>1, <1>2, <1>5, <1>6, <1>7, RunsEnd

(* The functions that hold the semaphore over several accesses.              *)
LEMMA LongRuns ==
  Runs("hv", LcdConfig) /\ Runs("hv", CopyRxAddrs) /\ Runs("hv", InitPhyWakeup)
  /\ Runs("hv", EmiSession) /\ Runs("hv", LpiCtrl)
<1> DEFINE K == Kept("hv")
           O == Opened800("hv")
           a == Acquire("return")
           b == Acquire("out")
<1>1. Within("hv", a, "return", K) /\ Within("hv", b, "out", K)
  BY WithinAcquired
<1>2. ASSUME NEW p, NEW err, Within("hv", p, err, K), NEW page, NEW reg, HvPlain(page, reg, FALSE)
      PROVE  Within("hv", p \o HvLocked(page, reg), err, K)
  BY <1>2, HvBodies, HvLockedWorks, WithinThen
<1>3. ASSUME NEW p, NEW err, Within("hv", p, err, O), NEW reg \in Int
      PROVE  Within("hv", p \o WakeupPage(reg), err, O)
  BY <1>3, WakeupBodies, WakeupPageWorks, WithinThen
<1>4. ASSUME NEW p, NEW err, Within("hv", p, err, O), NEW what \in {"restore", "activate"}
      PROVE  Within("hv", p \o DisableWakeupAccess(what), err, K)
  <2>1. Works("hv", DisableWakeupAccess(what), 1, O, K)
    <3>1. O \subseteq Opening("hv") /\ K \subseteq K
      BY DEF Opened800, AtAddr, OnPage
    <3> QED
      BY <3>1, DisableWorks, WorksWeaker
  <2> QED
    BY <1>4, <2>1, WakeupBodies, WithinThen
<1>5. Within("hv", a \o EnableWakeupAccess, "return", O)
  BY <1>1, EnableWorks, WakeupBodies, WithinThen
<1>6. Runs("hv", LcdConfig) /\ Runs("hv", LpiCtrl)
  <2> DEFINE no == FALSE
             p768 == 768
             p770 == 770
             p772 == 772
             r1 == HvLocked(p768, 26)
             r2 == HvLocked(p768, 30)
             r3 == HvLocked(p770, 17)
             r4 == HvLocked(0, 2)
             r5 == HvLocked(p772, 20)
  <2>1. \A off \in BOOLEAN : ~off =>
          /\ HvPlain(p768, 26, off) /\ HvPlain(p768, 30, off) /\ HvPlain(p770, 17, off)
          /\ HvPlain(0, 2, off) /\ HvPlain(p772, 20, off)
    BY SMT DEF HvPlain, BM_PORT_CTRL_PAGE, IGP01E1000_PHY_PAGE_SELECT
  <2>2. \A p, err : Within("hv", p, err, K) =>
          \A q \in {r1, r2, r3, r4, r5} : Within("hv", p \o q, err, K)
    <3>1. \A page, reg, p, err : HvPlain(page, reg, no) /\ Within("hv", p, err, K) =>
            Within("hv", p \o HvLocked(page, reg), err, K)
      BY <1>2, Zenon
    <3>2. no \in BOOLEAN /\ ~no
      OBVIOUS
    <3> HIDE DEF p768, p770, p772, no, K
    <3>3. /\ HvPlain(p768, 26, no) /\ HvPlain(p768, 30, no) /\ HvPlain(p770, 17, no)
          /\ HvPlain(0, 2, no) /\ HvPlain(p772, 20, no)
      BY <2>1, <3>2
    <3> QED
      BY <3>1, <3>3
  <2>3. LcdConfig = ((((a \o r1) \o r2) \o r3) \o r4) \o Release /\ LpiCtrl = ((b \o r5) \o r5) \o Release
    BY SMT DEF LcdConfig, LpiCtrl
  <2> HIDE DEF r1, r2, r3, r4, r5, a, b, K, no, p768, p770, p772
  <2>4. Within("hv", (((a \o r1) \o r2) \o r3) \o r4, "return", K)
    BY <1>1, <2>2
  <2>5. Within("hv", (b \o r5) \o r5, "out", K)
    BY <1>1, <2>2
  <2> QED
    BY <2>3, <2>4, <2>5, WithinEnds DEF K
<1>7. Runs("hv", EmiSession)
  <2>1. ASSUME NEW p, NEW err, Within("hv", p, err, K), NEW reg \in Int
        PROVE  Within("hv", p \o AccessEmi(reg), err, K)
    BY <2>1, HvBodies, EmiWorks, WithinThen
  <2>2. 9 \in Int /\ 11 \in Int
    OBVIOUS
  <2>3. EmiSession = ((a \o AccessEmi(9)) \o AccessEmi(11)) \o Release
    BY DEF EmiSession
  <2> HIDE DEF a, K
  <2>4. Within("hv", (a \o AccessEmi(9)) \o AccessEmi(11), "return", K)
    BY <1>1, <2>1, <2>2
  <2> QED
    BY <2>3, <2>4, WithinEnds DEF K
<1>8. Runs("hv", CopyRxAddrs)
  <2>1. CopyRxAddrs = ((((a \o EnableWakeupAccess) \o WakeupPage(16)) \o WakeupPage(17))
                       \o DisableWakeupAccess("restore")) \o Release
    BY Zenon DEF CopyRxAddrs
  <2>2. 16 \in Int /\ 17 \in Int
    OBVIOUS
  <2> HIDE DEF a, K, O
  <2>3. Within("hv", ((a \o EnableWakeupAccess) \o WakeupPage(16)) \o WakeupPage(17), "return", O)
    BY <1>3, <1>5, <2>2
  <2>4. Within("hv", (((a \o EnableWakeupAccess) \o WakeupPage(16)) \o WakeupPage(17))
                     \o DisableWakeupAccess("restore"), "return", K)
    BY <1>4, <2>3
  <2> QED
    BY <2>1, <2>4, WithinEnds DEF K
<1>9. Runs("hv", InitPhyWakeup)
  <2>1. InitPhyWakeup = (((((a \o EnableWakeupAccess) \o WakeupPage(0)) \o WakeupPage(2))
                          \o WakeupPage(1)) \o DisableWakeupAccess("activate")) \o Release
    BY Zenon DEF InitPhyWakeup
  <2>2. 0 \in Int /\ 1 \in Int /\ 2 \in Int
    OBVIOUS
  <2> HIDE DEF a, K, O
  <2>3. Within("hv", (((a \o EnableWakeupAccess) \o WakeupPage(0)) \o WakeupPage(2)) \o WakeupPage(1),
               "return", O)
    BY <1>3, <1>5, <2>2
  <2>4. Within("hv", ((((a \o EnableWakeupAccess) \o WakeupPage(0)) \o WakeupPage(2)) \o WakeupPage(1))
                     \o DisableWakeupAccess("activate"), "return", K)
    BY <1>4, <2>3
  <2> QED
    BY <2>1, <2>4, WithinEnds DEF K
<1> QED
  BY <1>6, <1>7, <1>8, <1>9

(* Every program of Prog runs.                                              *)
LEMMA AllRun ==
  ASSUME NEW f \in Families, NEW s \in DOMAIN Prog[f] PROVE Runs(f, Prog[f][s])
<1> DEFINE igp1 == Igp(0, 2)
           igp2 == Igp(770, 17)
           bm1 == Bm(0, 2)
           bm2 == Bm(0, 26)
           bm3 == Bm(0, 25)
           bm4 == Bm(769, 20)
           bm5 == Bm(800, 1)
           hv1 == Hv(0, 2, FALSE)
           hv2 == Hv(0, 26, FALSE)
           hv3 == Hv(0, 0, TRUE)
           hv4 == Hv(768, 25, FALSE)
           hv5 == Hv(770, 17, FALSE)
           hv6 == Hv(5, 3, FALSE)
           hv7 == Hv(800, 1, FALSE)
           kmrn == Kmrn(9)
<1>1. /\ Prog["igp"] = [low |-> igp1, high |-> igp2, kmrn |-> kmrn, reset |-> ResetHw]
      /\ Prog["bm"] = [low |-> bm1, high |-> bm2, ctl |-> bm3, page |-> bm4, wake |-> bm5,
                       kmrn |-> kmrn, reset |-> ResetHw]
      /\ Prog["hv"] = [low |-> hv1, high |-> hv2, ctl |-> hv3, oem |-> hv4, page |-> hv5,
                       debug |-> hv6, wake |-> hv7, emi |-> EmiSession, lcd |-> LcdConfig,
                       rars |-> CopyRxAddrs, arm |-> InitPhyWakeup, lpi |-> LpiCtrl,
                       kmrn |-> kmrn, reset |-> ResetHw]
  BY SMT DEF Prog
<1>2. Runs("igp", igp1) /\ Runs("igp", igp2)
  <2>1. IgpPlain(0, 2) /\ IgpPlain(770, 17)
    BY SMT DEF IgpPlain, BM_PORT_CTRL_PAGE, BM_WUC_PAGE, IGP01E1000_PHY_PAGE_SELECT
  <2> QED
    BY <2>1, IgpRuns, SMT
<1>3. Runs("bm", bm1) /\ Runs("bm", bm2) /\ Runs("bm", bm3) /\ Runs("bm", bm4) /\ Runs("bm", bm5)
  <2>1. BmPlain(0, 2) /\ BmPlain(0, 26) /\ BmPlain(0, 25) /\ BmPlain(769, 20) /\ BmPlain(800, 1)
    BY SMT DEF BmPlain, BM_PORT_CTRL_PAGE, IGP01E1000_PHY_PAGE_SELECT, BM_PHY_PAGE_SELECT
  <2> QED
    BY <2>1, BmRuns, SMT
<1>4. /\ Runs("hv", hv1) /\ Runs("hv", hv2) /\ Runs("hv", hv3) /\ Runs("hv", hv4) /\ Runs("hv", hv5)
      /\ Runs("hv", hv6) /\ Runs("hv", hv7)
  <2> USE DEF HvPlain, BM_PORT_CTRL_PAGE, IGP01E1000_PHY_PAGE_SELECT
  <2> DEFINE yes == TRUE
             no == FALSE
  <2>1. \A off \in BOOLEAN : ~off => /\ HvPlain(0, 2, off) /\ HvPlain(0, 26, off) /\ HvPlain(768, 25, off)
             /\ HvPlain(770, 17, off) /\ HvPlain(5, 3, off) /\ HvPlain(800, 1, off)
    BY SMT
  <2>2. \A off \in BOOLEAN : HvPlain(0, 0, off)
    BY SMT
  <2> HIDE DEF HvPlain, BM_PORT_CTRL_PAGE, IGP01E1000_PHY_PAGE_SELECT
  <2>3. no \in BOOLEAN /\ yes \in BOOLEAN /\ ~no
    OBVIOUS
  <2>4. /\ hv1 = Hv(0, 2, no) /\ hv2 = Hv(0, 26, no) /\ hv3 = Hv(0, 0, yes) /\ hv4 = Hv(768, 25, no)
        /\ hv5 = Hv(770, 17, no) /\ hv6 = Hv(5, 3, no) /\ hv7 = Hv(800, 1, no)
    OBVIOUS
  <2> HIDE DEF no, yes, hv1, hv2, hv3, hv4, hv5, hv6, hv7
  <2>5. \A page, reg : \A off \in BOOLEAN : HvPlain(page, reg, off) => Runs("hv", Hv(page, reg, off))
    BY HvRuns
  <2> QED
    BY <2>1, <2>2, <2>3, <2>4, <2>5, SMT
<1>5. \A g : Runs(g, kmrn) /\ Runs(g, ResetHw)
  <2>1. 9 \in Int
    OBVIOUS
  <2> QED
    BY <2>1, KmrnRuns, ResetRuns
<1> HIDE DEF igp1, igp2, bm1, bm2, bm3, bm4, bm5, hv1, hv2, hv3, hv4, hv5, hv6, hv7, kmrn
<1>6. CASE f = "igp"
  BY <1>1, <1>2, <1>5, <1>6
<1>7. CASE f = "bm"
  BY <1>1, <1>3, <1>5, <1>7
<1>8. CASE f = "hv"
  <2>1. DOMAIN Prog[f] = {"low", "high", "ctl", "oem", "page", "debug", "wake", "emi", "lcd", "rars",
                          "arm", "lpi", "kmrn", "reset"}
    BY <1>1, <1>8
  <2>2. CASE s \in {"low", "high", "ctl", "oem", "page", "debug", "wake"}
    BY <1>1, <1>4, <1>8, <2>2
  <2>3. CASE s \in {"emi", "lcd", "rars", "arm", "lpi", "kmrn", "reset"}
    BY <1>1, <1>5, <1>8, <2>3, LongRuns
  <2> QED
    BY <2>1, <2>2, <2>3
<1> QED
  BY <1>6, <1>7, <1>8, BusAssumption

-----------------------------------------------------------------------------
(* Where the threads are in what their programs do.                          *)
(*                                                                         *)
(* Nobody overlaps with a program that assigns phy.addr before it holds the  *)
(* semaphore.                                                               *)
AddressedAlone ==
  \A f \in Families : \A s \in DOMAIN Prog[f] : Prog[f][s][1].k = "addr" => s \in Alone[f]

Clean == faults = 0

View(t) ==
  [addr |-> phyAddr, sel |-> sel, port |-> port, wuc |-> wuc, meant |-> meant,
   save |-> thread[t].save, clean |-> Clean,
   mail |-> IF mdic = None \/ thread[t].io THEN {} ELSE {mdic.reg}]

(* Between verifying SWFLAG and clearing it.                                 *)
Inside(t) == Busy(t) /\ thread[t].held /\ thread[t].at \in E(t) + 4 .. N(t) - 1

Placed(t) == \E c : Annotates(fam, Prg(t), c) /\ View(t) \in c[thread[t].at]

(* The command of an access under way is still in the register.              *)
Pending(t) ==
  thread[t].io =>
    mdic = [t |-> t, addr |-> phyAddr, reg |-> At(t).reg, v |-> At(t).v, act |-> At(t).act]

(* phy.addr is still what was assigned before the acquisition.               *)
Addressed(t) == Busy(t) /\ E(t) = 2 /\ thread[t].at \in 2 .. 5 => phyAddr = Prg(t)[1].v

AtRest == mdic = None /\ (Clean => wuc = meant)

Typed ==
  /\ phyAddr \in Addrs(fam)
  /\ sel \in [{1, 2} -> Int] /\ port \in [{2, BM_WUC_PAGE} -> Int]

IReach ==
  /\ Typed /\ stray = {}
  /\ \A t \in Thread : (Inside(t) => Placed(t)) /\ Pending(t) /\ Addressed(t)
  /\ (\A t \in Thread : ~Inside(t)) => AtRest

(* The fields of a view.                                                    *)
LEMMA ViewFields ==
  ASSUME NEW t
  PROVE  /\ View(t).addr = phyAddr /\ View(t).sel = sel /\ View(t).port = port
         /\ View(t).wuc = wuc /\ View(t).meant = meant /\ View(t).save = thread[t].save
         /\ View(t).clean = Clean
         /\ View(t).mail = IF mdic = None \/ thread[t].io THEN {} ELSE {mdic.reg}
BY DEF View

LEMMA ViewFieldsNext ==
  ASSUME NEW t
  PROVE  /\ View(t)'.addr = phyAddr' /\ View(t)'.sel = sel' /\ View(t)'.port = port'
         /\ View(t)'.wuc = wuc' /\ View(t)'.meant = meant' /\ View(t)'.save = thread'[t].save
         /\ View(t)'.clean = Clean'
         /\ View(t)'.mail = IF mdic' = None \/ thread'[t].io THEN {} ELSE {mdic'.reg}
BY DEF View

LEMMA ViewTyped ==
  ASSUME NEW t, NEW f, phyAddr \in Addrs(f), sel \in [{1, 2} -> Int],
         port \in [{2, BM_WUC_PAGE} -> Int], wuc \subseteq Bits, meant \subseteq Bits,
         thread[t].save \in SUBSET Bits,
         mdic = None \/ thread[t].io \/ mdic.reg \in Int
  PROVE  View(t) \in Views(f)
<1>1. Clean \in BOOLEAN
  BY DEF Clean
<1> DEFINE mail == IF mdic = None \/ thread[t].io THEN {} ELSE {mdic.reg}
<1>2. mail \in SUBSET Int
  OBVIOUS
<1> HIDE DEF mail
<1>3. View(t) = [addr |-> phyAddr, sel |-> sel, port |-> port, wuc |-> wuc, meant |-> meant,
                 save |-> thread[t].save, clean |-> Clean, mail |-> mail]
  BY Zenon DEF View, mail
<1> QED
  BY <1>1, <1>2, <1>3 DEF Views

LEMMA ViewTypedNext ==
  ASSUME NEW t, NEW f, phyAddr' \in Addrs(f), sel' \in [{1, 2} -> Int],
         port' \in [{2, BM_WUC_PAGE} -> Int], wuc' \subseteq Bits, meant' \subseteq Bits,
         thread'[t].save \in SUBSET Bits,
         mdic' = None \/ thread'[t].io \/ mdic'.reg \in Int
  PROVE  View(t)' \in Views(f)
<1>1. Clean' \in BOOLEAN
  BY DEF Clean
<1> DEFINE mail == IF mdic' = None \/ thread'[t].io THEN {} ELSE {mdic'.reg}
<1>2. mail \in SUBSET Int
  OBVIOUS
<1> HIDE DEF mail
<1>3. View(t)' = [addr |-> phyAddr', sel |-> sel', port |-> port', wuc |-> wuc', meant |-> meant',
                  save |-> thread'[t].save, clean |-> Clean', mail |-> mail]
  BY Zenon DEF View, mail
<1> QED
  BY <1>1, <1>2, <1>3 DEF Views

(* What the PHY finds is what the view says.                                *)
LEMMA ReachedFound ==
  ASSUME NEW t, NEW reg PROVE Reached(phyAddr, reg) = Found(fam, View(t), reg)
<1> DEFINE x == View(t)
<1>1. x.addr = phyAddr /\ x.sel = sel /\ x.port = port /\ x.wuc = wuc
  BY ViewFields
<1> HIDE DEF x
<1>2. Reached(phyAddr, reg) = Found(fam, x, reg)
  BY <1>1 DEF Reached, Found, SelectReg, Page
<1> QED
  BY <1>2 DEF x

(* Who is inside owns the bit; the firmware is kept out, and so are others.  *)
LEMMA InsideOwns ==
  ASSUME IBus, NEW t \in Thread, Inside(t)
  PROVE  /\ Owner(t) /\ extcnf = "sw"
         /\ \A u \in Thread \ {t} : ~Owner(u) /\ ~Inside(u) /\ ~thread[u].io
<1>1. Owner(t) /\ extcnf = "sw"
  <2>1. Busy(t) /\ thread[t].held /\ thread[t].at <= N(t) - 1 /\ thread[t].at >= E(t) + 4
    BY Facts, Places DEF Inside
  <2>2. E(t) \in {1, 2} /\ thread[t].at \in 1 .. N(t) /\ N(t) \in Nat
    BY <2>1, Facts, Places
  <2> QED
    BY <2>1, <2>2, Facts DEF ILock, Owner
<1>2. ASSUME NEW u \in Thread, Inside(u) PROVE Owner(u)
  <2>1. E(u) \in {1, 2} /\ thread[u].at \in E(u) + 4 .. N(u) - 1 /\ Busy(u) /\ N(u) \in Nat
    BY <1>2, Facts, Places DEF Inside
  <2> QED
    BY <2>1 DEF Owner
<1>3. ASSUME NEW u \in Thread, thread[u].io PROVE Owner(u)
  <2>1. Busy(u) /\ At(u).k = "mdic"
    BY <1>3, Facts DEF IThread
  <2>2. E(u) \in {1, 2} /\ N(u) \in Nat /\ thread[u].at \in E(u) + 4 .. N(u) - 2
    BY <2>1, Facts, Places
  <2> QED
    BY <2>1, <2>2 DEF Owner
<1> QED
  BY <1>1, <1>2, <1>3, OnlyOwner

(* Who assigns phy.addr before the acquisition is alone.                     *)
LEMMA AddressedIsAlone ==
  ASSUME IBus, AddressedAlone, NEW t \in Thread, Busy(t), E(t) = 2
  PROVE  /\ Prg(t)[1].v \in Addrs(fam)
         /\ \A u \in Thread \ {t} : ~Busy(u)
<1>1. fam \in Families /\ thread[t].ses \in DOMAIN Prog[fam]
  BY Facts, Places
<1>2. Session(Prg(t), IF thread[t].ses \in Heedless THEN "out" ELSE "return",
              IF thread[t].ses = "reset" THEN "rst" ELSE "rel")
  BY <1>1, Sessions DEF Prg
<1>3. Prg(t)[1].k = "addr" /\ Prg(t)[1].v \in {1, 2}
  BY <1>2 DEF Session, E
<1>4. thread[t].ses \in Alone[fam]
  BY <1>1, <1>3 DEF AddressedAlone, Prg
<1>5. fam # "igp"
  <2>1. Runs(fam, Prg(t))
    BY <1>1, AllRun DEF Prg
  <2> QED
    BY <2>1 DEF Runs, E
<1> QED
  BY <1>3, <1>4, <1>5, Facts DEF IAlone, Addrs

(* A step of one thread and what is known of another one.                    *)
LEMMA OtherThreads ==
  ASSUME IBus, AddressedAlone, IReach, NEW t \in Thread, NEW new, fam' = fam,
         thread' = [thread EXCEPT ![t] = new], phyAddr' = phyAddr \/ Busy(t),
         NEW u \in Thread \ {t}
  PROVE  /\ Addressed(u)' /\ (Inside(u)' <=> Inside(u)) /\ thread'[u] = thread[u]
         /\ Prg(u)' = Prg(u) /\ At(u)' = At(u)
<1>1. IThread
  BY Facts
<1>2. /\ thread'[u] = thread[u] /\ N(u)' = N(u) /\ E(u)' = E(u) /\ At(u)' = At(u)
      /\ Busy(u)' <=> Busy(u)
  BY <1>1, Others
<1>3. Prg(u)' = Prg(u)
  BY <1>2 DEF Prg
<1>4. Inside(u)' <=> Inside(u)
  BY <1>2 DEF Inside
<1>5. Addressed(u)'
  <2>1. ASSUME Busy(u), E(u) = 2 PROVE ~Busy(t)
    BY <2>1, AddressedIsAlone
  <2>2. Addressed(u)
    BY DEF IReach
  <2> QED
    BY <1>2, <1>3, <2>1, <2>2 DEF Addressed
<1> QED
  BY <1>2, <1>3, <1>4, <1>5

(* A step of a thread while nobody else is inside.                          *)
LEMMA ReachesAlone ==
  ASSUME IBus, AddressedAlone, IReach, NEW t \in Thread, NEW new, fam' = fam,
         thread' = [thread EXCEPT ![t] = new], phyAddr' = phyAddr \/ Busy(t),
         \A u \in Thread \ {t} : ~Inside(u) /\ ~thread[u].io,
         Typed', stray' = {}, Inside(t)' => Placed(t)', Pending(t)', Addressed(t)',
         Inside(t)' \/ AtRest'
  PROVE  IReach'
<1>1. ASSUME NEW u \in Thread \ {t} PROVE ~Inside(u)' /\ Pending(u)' /\ Addressed(u)'
  <2>1. Addressed(u)' /\ (Inside(u)' <=> Inside(u)) /\ thread'[u] = thread[u]
    BY OtherThreads
  <2> QED
    BY <2>1 DEF Pending
<1> QED
  BY <1>1 DEF IReach

(* A step that changes nothing a view shows, of a thread that is not inside. *)
LEMMA ReachesOutside ==
  ASSUME IBus, AddressedAlone, IReach, NEW t \in Thread, NEW new, fam' = fam,
         thread' = [thread EXCEPT ![t] = new], phyAddr' = phyAddr, mdic' = mdic,
         UNCHANGED device, stray' = stray, faults' = faults,
         ~Inside(t), ~new.held, ~new.io, Addressed(t)'
  PROVE  IReach'
<1>1. thread'[t] = new
  BY Facts
<1>2. ~Inside(t)' /\ Pending(t)'
  BY <1>1 DEF Inside, Pending
<1>3. Clean' = Clean /\ AtRest' = AtRest /\ (Typed' <=> Typed)
  BY DEF Clean, AtRest, Typed, device
<1>4. ASSUME NEW u \in Thread \ {t}
      PROVE  /\ Inside(u)' <=> Inside(u)
             /\ (Inside(u)' => Placed(u)') /\ Pending(u)' /\ Addressed(u)'
  <2>1. /\ Addressed(u)' /\ (Inside(u)' <=> Inside(u)) /\ thread'[u] = thread[u]
        /\ Prg(u)' = Prg(u) /\ At(u)' = At(u)
    BY OtherThreads
  <2>2. View(u)' = View(u)
    BY <1>3, <2>1 DEF View, device
  <2>3. Pending(u)'
    BY <2>1 DEF IReach, Pending
  <2>4. ASSUME Placed(u) PROVE Placed(u)'
    BY <2>1, <2>2, <2>4 DEF Placed
  <2> QED
    BY <2>1, <2>3, <2>4 DEF IReach
<1>5. (\A u \in Thread : ~Inside(u)') => AtRest'
  BY <1>2, <1>3, <1>4 DEF IReach
<1> QED
  BY <1>2, <1>3, <1>4, <1>5 DEF IReach

-----------------------------------------------------------------------------
(* Steps outside.                                                           *)
LEMMA AddressKept ==
  ASSUME IBus, IReach, NEW t \in Thread, NEW new, Busy(t), fam' = fam, phyAddr' = phyAddr,
         thread' = [thread EXCEPT ![t] = new],
         \/ new.ses = None
         \/ /\ new.ses = thread[t].ses
            /\ \/ thread[t].at \in E(t) .. E(t) + 2 /\ new.at = thread[t].at + 1
               \/ new.at >= E(t) + 4
  PROVE  Addressed(t)'
<1>1. thread'[t] = new /\ IThread /\ E(t) \in {1, 2} /\ thread[t].at \in Nat
  BY Facts, Places DEF ThreadState
<1>2. CASE new.ses = None
  BY <1>1, <1>2 DEF Addressed, Busy
<1>3. CASE new.ses = thread[t].ses /\ ~(new.ses = None)
  <2>1. E(t)' = E(t) /\ Prg(t)' = Prg(t) /\ thread'[t].at = new.at
    BY <1>1, <1>3, Others DEF Prg
  <2>2. Addressed(t)
    BY DEF IReach
  <2>3. E(t) = 2 /\ new.at \in 2 .. 5 => thread[t].at \in 2 .. 5
    BY <1>1, <1>3
  <2> QED
    BY <1>1, <2>1, <2>2, <2>3 DEF Addressed
<1> QED
  BY <1>2, <1>3

LEMMA ReachBegin ==
  ASSUME IBus, AddressedAlone, IReach, NEW t \in Thread, Begin(t) PROVE IReach'
<1>1. PICK s \in DOMAIN Prog[fam] : thread' = [thread EXCEPT ![t] = Goto(Idle, s, 1)]
  BY DEF Begin
<1>2. /\ ~Busy(t) /\ fam' = fam /\ phyAddr' = phyAddr /\ mdic' = mdic
      /\ UNCHANGED device /\ stray' = stray /\ faults' = faults
  BY DEF Begin
<1>3. Session(Prog[fam][s], IF s \in Heedless THEN "out" ELSE "return",
              IF s = "reset" THEN "rst" ELSE "rel")
  BY Facts, Sessions
<1>4. 1 \in 1 .. Len(Prog[fam][s])
  BY <1>3 DEF Session, Entry
<1> DEFINE new == [ses |-> s, at |-> 1, save |-> {}, held |-> FALSE, io |-> FALSE]
<1>5. Goto(Idle, s, 1) = new
  BY <1>4 DEF Goto, Idle
<1>6. new.at = 1 /\ ~new.held /\ ~new.io
  OBVIOUS
<1> HIDE DEF new
<1>7. thread' = [thread EXCEPT ![t] = new] /\ thread'[t] = new
  BY <1>1, <1>5, Facts
<1>8. ~Inside(t)
  BY <1>2 DEF Inside
<1>9. Addressed(t)'
  BY <1>6, <1>7 DEF Addressed
<1> QED
  BY <1>2, <1>6, <1>7, <1>8, <1>9, ReachesOutside

(* Each step before the last part of the acquisition, and a refusal.         *)
LEMMA ReachApproach ==
  ASSUME IBus, AddressedAlone, IReach, NEW t \in Thread,
         TestAndSet(t) \/ WaitFlag(t) \/ SetFlag(t) \/ (VerifyFlag(t) /\ extcnf # "sw")
  PROVE  IReach'
<1>1. /\ Busy(t) /\ At(t).k \in {"tas", "wait", "set", "verify"} /\ fam' = fam /\ phyAddr' = phyAddr
      /\ mdic' = mdic /\ UNCHANGED device /\ stray' = stray /\ faults' = faults
      /\ At(t).k = "verify" => Failed(t)
      /\ Advance(t) \/ Failed(t)
  <2>1. CASE TestAndSet(t)
    BY <2>1 DEF TestAndSet, IsAt
  <2>2. CASE WaitFlag(t)
    BY <2>2 DEF WaitFlag, IsAt
  <2>3. CASE SetFlag(t)
    BY <2>3 DEF SetFlag, IsAt
  <2>4. CASE VerifyFlag(t) /\ extcnf # "sw"
    BY <2>4 DEF VerifyFlag, IsAt
  <2> QED
    BY <2>1, <2>2, <2>3, <2>4
<1>2. /\ E(t) \in {1, 2} /\ N(t) \in Nat /\ E(t) + 5 <= N(t) /\ thread[t].at \in E(t) .. E(t) + 3
      /\ At(t).k # "verify" => thread[t].at \in E(t) .. E(t) + 2
  BY <1>1, Facts, Places
<1>3. ~thread[t].held /\ thread[t].at < N(t)
  BY <1>1, <1>2, Facts DEF IThread
<1>4. ~Inside(t)
  BY <1>3 DEF Inside
<1>5. CASE Advance(t) /\ At(t).k # "verify"
  <2> DEFINE new == [ses |-> thread[t].ses, at |-> thread[t].at + 1, save |-> thread[t].save,
                     held |-> thread[t].held, io |-> FALSE]
  <2>1. thread' = [thread EXCEPT ![t] = new]
    BY <1>1, <1>3, <1>5, AdvanceTo DEF Advance
  <2>2. new.ses = thread[t].ses /\ new.at = thread[t].at + 1 /\ ~new.held /\ ~new.io
    BY <1>3
  <2> HIDE DEF new
  <2>3. Addressed(t)'
    BY <1>1, <1>2, <1>5, <2>1, <2>2, AddressKept
  <2> QED
    BY <1>1, <1>4, <2>1, <2>2, <2>3, ReachesOutside
<1>6. CASE Failed(t)
  <2>1. thread' = [thread EXCEPT ![t] = Fail(t)]
    BY <1>6 DEF Failed
  <2>2. CASE thread[t].ses \notin Heedless
    <3>1. Fail(t) = Idle
      BY <1>1, <1>2, <2>2, Facts, Fails
    <3>2. Idle.ses = None /\ ~Idle.held /\ ~Idle.io
      BY DEF Idle
    <3>3. Addressed(t)'
      BY <1>1, <2>1, <3>1, <3>2, AddressKept
    <3> QED
      BY <1>1, <1>4, <2>1, <3>1, <3>2, <3>3, ReachesOutside
  <2>3. CASE thread[t].ses \in Heedless
    <3> DEFINE new == [ses |-> thread[t].ses, at |-> N(t) - 1, save |-> thread[t].save,
                       held |-> thread[t].held, io |-> FALSE]
    <3>1. Fail(t) = new
      BY <1>1, <1>2, <2>3, Facts, Fails
    <3>2. new.ses = thread[t].ses /\ new.at = N(t) - 1 /\ ~new.held /\ ~new.io
      BY <1>3
    <3> HIDE DEF new
    <3>3. new.at >= E(t) + 4
      BY <1>2, <3>2
    <3>4. Addressed(t)'
      BY <1>1, <2>1, <3>1, <3>2, <3>3, AddressKept
    <3> QED
      BY <1>1, <1>4, <2>1, <3>1, <3>2, <3>4, ReachesOutside
  <2> QED
    BY <2>2, <2>3
<1> QED
  BY <1>1, <1>5, <1>6

LEMMA ReachClear ==
  ASSUME IBus, AddressedAlone, IReach, NEW t \in Thread, ClearBit(t) \/ ClearIfHeld(t)
  PROVE  IReach'
<1>1. /\ Busy(t) /\ At(t).k \in {"clr", "clrheld"} /\ fam' = fam /\ phyAddr' = phyAddr
      /\ mdic' = mdic /\ UNCHANGED device /\ stray' = stray /\ faults' = faults
  BY DEF ClearBit, ClearIfHeld, IsAt
<1>2. /\ thread[t].at = N(t) /\ E(t) \in {1, 2} /\ N(t) \in Nat /\ E(t) + 5 <= N(t)
  BY <1>1, Facts, Places
<1>3. thread' = [thread EXCEPT ![t] = Idle]
  <2>1. Goto(thread[t], thread[t].ses, thread[t].at + 1) = Idle
    <3>1. N(t) + 1 \notin 1 .. N(t)
      BY <1>2
    <3> QED
      BY <1>1, <1>2, <3>1, Facts, GoesIdle
  <2> QED
    BY <2>1 DEF ClearBit, ClearIfHeld, Advance
<1>4. Idle.ses = None /\ ~Idle.held /\ ~Idle.io
  BY DEF Idle
<1>5. ~Inside(t)
  BY <1>2 DEF Inside
<1>6. Addressed(t)'
  BY <1>1, <1>3, <1>4, AddressKept
<1> QED
  BY <1>1, <1>3, <1>4, <1>5, <1>6, ReachesOutside

(* phy.addr is assigned before the acquisition while nobody else is there.   *)
LEMMA ReachAddrEarly ==
  ASSUME IBus, AddressedAlone, IReach, NEW t \in Thread, SetAddr(t), ~Inside(t) PROVE IReach'
<1>1. /\ Busy(t) /\ At(t).k = "addr" /\ phyAddr' = At(t).v /\ fam' = fam /\ Advance(t)
      /\ mdic' = mdic /\ UNCHANGED device /\ stray' = stray /\ faults' = faults
  BY DEF SetAddr, IsAt
<1>2. /\ E(t) \in {1, 2} /\ N(t) \in Nat /\ E(t) + 5 <= N(t) /\ thread[t].at \in 1 .. N(t)
      /\ thread[t].at < E(t) \/ thread[t].at \in E(t) + 4 .. N(t) - 2
  BY <1>1, Facts, Places
<1>3. thread[t].at = 1 /\ E(t) = 2
  <2>1. thread[t].at \in E(t) + 4 .. N(t) - 2 => thread[t].held /\ thread[t].at \in E(t) + 4 .. N(t) - 1
    BY <1>1, <1>2, Facts DEF IThread
  <2> QED
    BY <1>1, <1>2, <2>1 DEF Inside
<1>4. ~thread[t].held /\ thread[t].at < N(t)
  BY <1>1, <1>2, <1>3, Facts DEF IThread
<1> DEFINE new == [ses |-> thread[t].ses, at |-> thread[t].at + 1, save |-> thread[t].save,
                   held |-> thread[t].held, io |-> FALSE]
<1>5. thread' = [thread EXCEPT ![t] = new]
  BY <1>1, <1>4, AdvanceTo DEF Advance
<1>6. new.ses = thread[t].ses /\ ~new.held /\ ~new.io
  BY <1>4
<1> HIDE DEF new
<1>7. thread'[t] = new /\ Prg(t)' = Prg(t)
  BY <1>1, <1>5, <1>6, Facts DEF Prg
<1>8. /\ At(t) = Prg(t)[1]
      /\ At(t).v \in Addrs(fam) /\ \A u \in Thread \ {t} : ~Busy(u)
  BY <1>1, <1>3, AddressedIsAlone DEF At, Prg
<1>9. Typed' /\ AtRest' /\ stray' = {}
  <2>1. AtRest
    BY <1>8 DEF IReach, Inside
  <2> QED
    BY <1>1, <1>8, <2>1 DEF IReach, Typed, AtRest, Clean, device
<1>10. ~Inside(t)' /\ Pending(t)' /\ Addressed(t)'
  BY <1>1, <1>6, <1>7, <1>8 DEF Inside, Pending, Addressed
<1>11. \A u \in Thread \ {t} : ~Inside(u) /\ ~thread[u].io
  BY <1>8, Facts DEF Inside, IThread
<1> QED
  BY <1>1, <1>5, <1>9, <1>10, <1>11, ReachesAlone

-----------------------------------------------------------------------------
(* Steps inside.                                                            *)
LEMMA AtStep ==
  ASSUME IBus, IReach, NEW t \in Thread, Inside(t), thread[t].at <= N(t) - 2
  PROVE  \E c : /\ Annotates(fam, Prg(t), c) /\ View(t) \in c[thread[t].at]
                /\ Leads(fam, At(t), c[thread[t].at], c[thread[t].at + 1])
                /\ At(t).err = "skip" => Skips(fam, c[thread[t].at], c[thread[t].at + 2])
                /\ c[N(t) - 1] = Kept(fam)
                /\ View(t) \in Views(fam)
<1>1. PICK c : Annotates(fam, Prg(t), c) /\ View(t) \in c[thread[t].at]
  BY DEF IReach, Placed
<1>2. /\ Noted(fam, Prg(t), E(t) + 4, N(t) - 2, c) /\ c[N(t) - 1] = Kept(fam)
  BY <1>1 DEF Annotates, E, N
<1> DEFINE e == E(t) + 4
           l == N(t) - 2
           n == thread[t].at
<1>3. n \in e .. l /\ n \in e .. l + 1
  <2>1. /\ E(t) \in {1, 2} /\ N(t) \in Nat /\ thread[t].at \in E(t) + 4 .. N(t) - 1
    BY Facts, Places DEF Inside
  <2> QED
    BY <2>1
<1>4. Noted(fam, Prg(t), e, l, c)
  BY <1>2, Zenon
<1>5. At(t) = Prg(t)[n]
  BY DEF At, Prg
<1> HIDE DEF e, l
<1>6. /\ Leads(fam, At(t), c[n], c[n + 1]) /\ (At(t).err = "skip" => Skips(fam, c[n], c[n + 2]))
      /\ c[n] \in SUBSET Views(fam)
  BY <1>3, <1>4, <1>5 DEF Noted
<1> QED
  BY <1>1, <1>2, <1>6

LEMMA InsideMoves ==
  ASSUME IBus, AddressedAlone, IReach, NEW t \in Thread, Inside(t), NEW new, fam' = fam,
         thread' = [thread EXCEPT ![t] = new], new.ses = thread[t].ses, new.held,
         new.at \in thread[t].at .. N(t) - 1, Typed', stray' = {}, Pending(t)',
         NEW c, Annotates(fam, Prg(t), c), View(t)' \in c[new.at]
  PROVE  IReach'
<1>1. Busy(t) /\ E(t) \in {1, 2} /\ N(t) \in Nat /\ thread[t].at \in E(t) + 4 .. N(t) - 1
  BY Facts, Places DEF Inside
<1>2. /\ thread'[t] = new /\ N(t)' = N(t) /\ E(t)' = E(t) /\ (Busy(t)' <=> Busy(t))
  BY Facts, Others
<1>3. Prg(t)' = Prg(t)
  BY <1>2 DEF Prg
<1>4. Inside(t)'
  BY <1>1, <1>2 DEF Inside
<1>5. Placed(t)'
  BY <1>2, <1>3 DEF Placed
<1>6. Addressed(t)'
  BY <1>1, <1>2 DEF Addressed
<1>7. \A u \in Thread \ {t} : ~Inside(u) /\ ~thread[u].io
  BY InsideOwns
<1> QED
  BY <1>1, <1>4, <1>5, <1>6, <1>7, ReachesAlone

(* The next view of a thread is one of the views of its kind of accessors.   *)
LEMMA NextView ==
  ASSUME IBus, IBus', NEW t \in Thread, fam' = fam, Typed',
         mdic' = None \/ thread'[t].io \/ mdic'.reg \in Int
  PROVE  View(t)' \in Views(fam)
<1>1. thread' \in [Thread -> ThreadState'] /\ wuc' \subseteq Bits /\ meant' \subseteq Bits
  BY DEF IBus, IThread, BusTypeOK, Bits
<1>2. thread'[t].save \in SUBSET Bits
  BY <1>1 DEF ThreadState, Bits
<1> QED
  BY <1>1, <1>2, ViewTypedNext DEF Typed

LEMMA ReachAddrInside ==
  ASSUME IBus, IBus', AddressedAlone, IReach, NEW t \in Thread, SetAddr(t), Inside(t) PROVE IReach'
<1>1. /\ Busy(t) /\ ~thread[t].io /\ At(t).k = "addr" /\ phyAddr' = At(t).v /\ fam' = fam
      /\ Advance(t) /\ mdic' = mdic /\ UNCHANGED device /\ stray' = stray /\ faults' = faults
  BY DEF SetAddr, IsAt
<1>2. /\ E(t) \in {1, 2} /\ N(t) \in Nat /\ thread[t].at \in E(t) + 4 .. N(t) - 2 /\ thread[t].held
  <2>1. /\ E(t) \in {1, 2} /\ N(t) \in Nat
        /\ thread[t].at < E(t) \/ thread[t].at \in E(t) + 4 .. N(t) - 2
    BY <1>1, Facts, Places
  <2> QED
    BY <2>1 DEF Inside
<1> DEFINE new == [ses |-> thread[t].ses, at |-> thread[t].at + 1, save |-> thread[t].save,
                   held |-> thread[t].held, io |-> FALSE]
<1>3. thread[t].at < N(t) /\ thread[t].at <= N(t) - 2 /\ thread[t].at + 1 \in thread[t].at .. N(t) - 1
  BY <1>2
<1>4. thread' = [thread EXCEPT ![t] = new]
  BY <1>1, <1>3, AdvanceTo DEF Advance
<1>5. new.ses = thread[t].ses /\ new.held /\ ~new.io /\ new.at = thread[t].at + 1
      /\ new.save = thread[t].save
  BY <1>2
<1> HIDE DEF new
<1>6. thread'[t] = new
  BY <1>4, Facts
<1>7. PICK c : /\ Annotates(fam, Prg(t), c) /\ View(t) \in c[thread[t].at]
               /\ Leads(fam, At(t), c[thread[t].at], c[thread[t].at + 1])
               /\ View(t) \in Views(fam)
  BY <1>3, AtStep
<1>8. Right(fam, At(t), View(t))
  BY <1>7 DEF Leads
<1>9. Typed' /\ stray' = {} /\ Pending(t)'
  BY <1>1, <1>5, <1>6, <1>8 DEF Right, Typed, IReach, device, Pending
<1>10. View(t)' \in Views(fam)
  <2>1. mdic' = None \/ mdic'.reg \in Int
    <3>1. View(t).mail \in SUBSET Int
      BY <1>7 DEF Views
    <3>2. mdic # None => mdic.reg \in View(t).mail
      BY <1>1, ViewFields
    <3> QED
      BY <1>1, <3>1, <3>2
  <2> QED
    BY <1>1, <1>9, <2>1, NextView
<1>11. Leaving(At(t), View(t), View(t)')
  <2> DEFINE x == View(t)
             y == View(t)'
             s == At(t)
  <2>1. /\ x.addr = phyAddr /\ x.sel = sel /\ x.port = port /\ x.wuc = wuc /\ x.meant = meant
        /\ x.save = thread[t].save /\ x.clean = Clean
        /\ x.mail = IF mdic = None \/ thread[t].io THEN {} ELSE {mdic.reg}
    BY ViewFields
  <2>2. /\ y.addr = phyAddr' /\ y.sel = sel' /\ y.port = port' /\ y.wuc = wuc' /\ y.meant = meant'
        /\ y.save = thread'[t].save /\ y.clean = Clean'
        /\ y.mail = IF mdic' = None \/ thread'[t].io THEN {} ELSE {mdic'.reg}
    BY ViewFieldsNext
  <2>3. Clean' = Clean
    BY <1>1 DEF Clean
  <2> HIDE DEF x, y, s
  <2>4. y.clean = x.clean /\ y.mail = x.mail /\ y.sel = x.sel /\ y.port = x.port
        /\ y.wuc = x.wuc /\ y.meant = x.meant /\ y.save = x.save /\ y.addr = phyAddr'
    BY <1>1, <1>5, <1>6, <2>1, <2>2, <2>3 DEF device
  <2>5. phyAddr' = s.v /\ s.k = "addr"
    BY <1>1 DEF s
  <2>6. Leaving(s, x, y)
    BY <2>4, <2>5 DEF Leaving
  <2> QED
    BY <2>6 DEF x, y, s
<1>12. View(t)' \in c[thread[t].at + 1]
  BY <1>7, <1>10, <1>11 DEF Leads
<1> QED
  BY <1>1, <1>3, <1>4, <1>5, <1>7, <1>9, <1>12, InsideMoves

LEMMA ReachIssue ==
  ASSUME IBus, IBus', AddressedAlone, IReach, NEW t \in Thread, Issue(t) PROVE IReach'
<1>1. /\ Busy(t) /\ ~thread[t].io /\ At(t).k = "mdic" /\ phyAddr' = phyAddr /\ fam' = fam
      /\ UNCHANGED device /\ stray' = stray /\ faults' = faults
      /\ mdic' = [t |-> t, addr |-> phyAddr, reg |-> At(t).reg, v |-> At(t).v, act |-> At(t).act]
      /\ thread' = [thread EXCEPT ![t].io = TRUE]
  BY DEF Issue, IsAt
<1>2. /\ E(t) \in {1, 2} /\ N(t) \in Nat /\ thread[t].at \in E(t) + 4 .. N(t) - 2 /\ thread[t].held
      /\ thread[t] \in ThreadState
  BY <1>1, Facts, Places DEF IThread
<1>3. Inside(t) /\ thread[t].at <= N(t) - 2 /\ thread[t].at \in thread[t].at .. N(t) - 1
  BY <1>1, <1>2 DEF Inside
<1> DEFINE new == [thread[t] EXCEPT !.io = TRUE]
<1>4. thread' = [thread EXCEPT ![t] = new]
  BY <1>1, Zenon
<1>5. new.ses = thread[t].ses /\ new.held /\ new.io /\ new.at = thread[t].at
      /\ new.save = thread[t].save
  BY <1>2 DEF ThreadState
<1> HIDE DEF new
<1>6. thread'[t] = new /\ At(t)' = At(t)
  BY <1>1, <1>4, <1>5, Facts DEF At
<1>7. PICK c : /\ Annotates(fam, Prg(t), c) /\ View(t) \in c[thread[t].at]
               /\ Leads(fam, At(t), c[thread[t].at], c[thread[t].at + 1])
               /\ View(t) \in Views(fam)
  BY <1>3, AtStep
<1>8. Right(fam, At(t), View(t))
  BY <1>7 DEF Leads
<1>9. View(t).mail = {}
  BY <1>1, <1>8 DEF Right
<1>10. Typed' /\ stray' = {} /\ Pending(t)'
  BY <1>1, <1>6 DEF Typed, IReach, device, Pending
<1>11. View(t)' = View(t)
  <2> DEFINE mail == IF mdic = None \/ thread[t].io THEN {} ELSE {mdic.reg}
             next == IF mdic' = None \/ thread'[t].io THEN {} ELSE {mdic'.reg}
  <2>1. mail = {} /\ next = {}
    BY <1>5, <1>6, <1>9, ViewFields
  <2> HIDE DEF mail, next
  <2>2. /\ View(t) = [addr |-> phyAddr, sel |-> sel, port |-> port, wuc |-> wuc, meant |-> meant,
                      save |-> thread[t].save, clean |-> Clean, mail |-> mail]
        /\ View(t)' = [addr |-> phyAddr', sel |-> sel', port |-> port', wuc |-> wuc', meant |-> meant',
                       save |-> thread'[t].save, clean |-> Clean', mail |-> next]
    BY Zenon DEF View, mail, next
  <2>3. Clean' = Clean
    BY <1>1 DEF Clean
  <2> QED
    BY <1>1, <1>5, <1>6, <2>1, <2>2, <2>3 DEF device
<1>12. View(t)' \in c[new.at]
  BY <1>5, <1>7, <1>11
<1> QED
  BY <1>1, <1>3, <1>4, <1>5, <1>7, <1>10, <1>12, InsideMoves

(* The chip does what the step is meant to do.                              *)
LEMMA ReachComplete ==
  ASSUME IBus, IBus', AddressedAlone, IReach, NEW t \in Thread, Complete(t) PROVE IReach'
<1> DEFINE saved == IF At(t).act = "save" THEN wuc ELSE thread[t].save
           to == Goto(thread[t], thread[t].ses, thread[t].at + 1)
<1>1. /\ Busy(t) /\ thread[t].io /\ fam' = fam /\ phyAddr' = phyAddr /\ faults' = faults
      /\ mdic' = None /\ At(t).k = "mdic" /\ thread' = [thread EXCEPT ![t] = [to EXCEPT !.save = saved]]
      /\ mdic # None => Perform(mdic, thread[t].save)
  BY Facts DEF Complete, IThread
<1>2. /\ E(t) \in {1, 2} /\ N(t) \in Nat /\ thread[t].at \in E(t) + 4 .. N(t) - 2 /\ thread[t].held
      /\ thread[t] \in ThreadState
  BY <1>1, Facts, Places DEF IThread
<1>3. Inside(t) /\ thread[t].at < N(t) /\ thread[t].at <= N(t) - 2
      /\ thread[t].at + 1 \in thread[t].at .. N(t) - 1
  BY <1>1, <1>2 DEF Inside
<1> DEFINE new == [to EXCEPT !.save = saved]
<1>4. thread' = [thread EXCEPT ![t] = new]
  BY <1>1, Zenon
<1>5. new.ses = thread[t].ses /\ new.held /\ ~new.io /\ new.at = thread[t].at + 1
      /\ new.save = saved
  <2>1. to = [ses |-> thread[t].ses, at |-> thread[t].at + 1, save |-> thread[t].save,
              held |-> thread[t].held, io |-> FALSE]
    BY <1>1, <1>3, AdvanceTo
  <2> HIDE DEF to, saved
  <2> QED
    BY <1>2, <2>1
<1> HIDE DEF new, to
<1>6. thread'[t] = new
  BY <1>4, Facts
<1>7. PICK c : /\ Annotates(fam, Prg(t), c) /\ View(t) \in c[thread[t].at]
               /\ Leads(fam, At(t), c[thread[t].at], c[thread[t].at + 1])
               /\ View(t) \in Views(fam)
  BY <1>3, AtStep
<1>8. /\ At(t).reg \in Int /\ At(t).v \in Int /\ At(t).act \in Acts
      /\ Found(fam, View(t), At(t).reg) = At(t).goal
  <2>1. Right(fam, At(t), View(t))
    BY <1>7 DEF Leads
  <2> QED
    BY <1>1, <2>1 DEF Right
<1>9. /\ mdic = [t |-> t, addr |-> phyAddr, reg |-> At(t).reg, v |-> At(t).v, act |-> At(t).act]
      /\ mdic # None
  <2>1. mdic = [t |-> t, addr |-> phyAddr, reg |-> At(t).reg, v |-> At(t).v, act |-> At(t).act]
    BY <1>1 DEF IReach, Pending
  <2>2. phyAddr \in {0, 1, 2}
    BY DEF IReach, Typed, Addrs
  <2>3. mdic \in Command
    BY <1>8, <2>1, <2>2 DEF Command
  <2> QED
    BY <2>1, <2>3, NoCommand
<1>10. Reached(mdic.addr, mdic.reg) = At(t).goal
  BY <1>8, <1>9, ReachedFound
<1>11. /\ mdic.t = t /\ mdic.v = At(t).v /\ mdic.act = At(t).act
  BY <1>9
<1> DEFINE goal == At(t).goal
           act == At(t).act
           val == At(t).v
           after == WucAfter(act, thread[t].save)
<1>12. /\ sel' = IF goal[1] = "sel" THEN [sel EXCEPT ![goal[2]] = val] ELSE sel
       /\ port' = IF goal[1] = "addr" THEN [port EXCEPT ![goal[2]] = val] ELSE port
       /\ wuc' = IF goal = <<"wuc">> THEN after ELSE wuc
       /\ meant' = IF act = "activate" THEN meant \cup {"en", "host"} ELSE meant
       /\ stray' = Strays(goal, goal)
  <2>1. Perform(mdic, thread[t].save)
    BY <1>1, <1>9
  <2> HIDE DEF goal, act, val
  <2>2. Reached(mdic.addr, mdic.reg) = goal /\ At(mdic.t).goal = goal /\ mdic.act = act /\ mdic.v = val
    BY <1>10, <1>11 DEF goal, act, val
  <2> QED
    BY <2>1, <2>2 DEF Perform, after
<1> HIDE DEF goal, act, val, after
<1>13. stray' = {}
  BY <1>12 DEF Strays, IReach
<1>14. Typed'
  <2>1. val \in Int /\ sel \in [{1, 2} -> Int] /\ port \in [{2, BM_WUC_PAGE} -> Int]
    BY <1>8 DEF IReach, Typed, val
  <2>2. sel' \in [{1, 2} -> Int]
    BY <1>12, <2>1
  <2>3. port' \in [{2, BM_WUC_PAGE} -> Int]
    BY <1>12, <2>1
  <2> QED
    BY <1>1, <2>2, <2>3 DEF Typed, IReach
<1>15. Pending(t)'
  BY <1>5, <1>6 DEF Pending
<1>16. View(t)' \in Views(fam)
  BY <1>1, <1>14, NextView
<1>17. Leaving(At(t), View(t), View(t)')
  <2> DEFINE x == View(t)
             y == View(t)'
             s == At(t)
  <2>1. /\ x.addr = phyAddr /\ x.sel = sel /\ x.port = port /\ x.wuc = wuc /\ x.meant = meant
        /\ x.save = thread[t].save /\ x.clean = Clean
    BY ViewFields
  <2>2. /\ y.addr = phyAddr' /\ y.sel = sel' /\ y.port = port' /\ y.wuc = wuc' /\ y.meant = meant'
        /\ y.save = thread'[t].save /\ y.clean = Clean'
        /\ y.mail = IF mdic' = None \/ thread'[t].io THEN {} ELSE {mdic'.reg}
    BY ViewFieldsNext
  <2>3. Clean' = Clean
    BY <1>1 DEF Clean
  <2>4. s.k = "mdic" /\ s.goal = goal /\ s.act = act /\ s.v = val /\ saved = IF act = "save" THEN wuc ELSE x.save
    BY <1>1, <2>1 DEF goal, act, val
  <2> HIDE DEF x, y, s, saved
  <2>5. y.clean = x.clean /\ y.mail = {} /\ y.addr = x.addr
    BY <1>1, <2>1, <2>2, <2>3
  <2>6. /\ y.sel = IF s.goal[1] = "sel" THEN [x.sel EXCEPT ![s.goal[2]] = s.v] ELSE x.sel
        /\ y.port = IF s.goal[1] = "addr" THEN [x.port EXCEPT ![s.goal[2]] = s.v] ELSE x.port
        /\ y.meant = IF s.act = "activate" THEN x.meant \cup {"en", "host"} ELSE x.meant
    BY <1>12, <2>1, <2>2, <2>4
  <2>7. y.save = IF s.act = "save" THEN x.wuc ELSE x.save
    BY <1>5, <1>6, <2>1, <2>2, <2>4
  <2>8. y.wuc = IF s.goal # <<"wuc">> THEN x.wuc
                ELSE CASE s.act = "enable" -> (x.save \cup {"en"}) \ {"me", "host"}
                       [] s.act = "restore" -> x.save
                       [] s.act = "activate" -> x.save \cup {"en", "host"}
                       [] OTHER -> x.wuc
    <3>1. after = CASE s.act = "enable" -> (x.save \cup {"en"}) \ {"me", "host"}
                       [] s.act = "restore" -> x.save
                       [] s.act = "activate" -> x.save \cup {"en", "host"}
                       [] OTHER -> x.wuc
      BY <2>1, <2>4, Zenon DEF after, WucAfter
    <3> QED
      BY <1>12, <2>1, <2>2, <2>4, <3>1, Zenon
  <2>9. Leaving(s, x, y)
    BY <2>4, <2>5, <2>6, <2>7, <2>8 DEF Leaving
  <2> QED
    BY <2>9 DEF x, y, s
<1>18. View(t)' \in c[new.at]
  BY <1>5, <1>7, <1>16, <1>17 DEF Leads
<1> QED
  BY <1>1, <1>3, <1>4, <1>5, <1>7, <1>13, <1>14, <1>15, <1>18, InsideMoves

(* An access that fails has not reached the register.                       *)
LEMMA ReachError ==
  ASSUME IBus, IBus', AddressedAlone, IReach, NEW t \in Thread, Error(t) PROVE IReach'
<1>1. /\ Busy(t) /\ thread[t].io /\ fam' = fam /\ phyAddr' = phyAddr /\ faults' = faults + 1
      /\ mdic' = None /\ At(t).k = "mdic" /\ thread' = [thread EXCEPT ![t] = Fail(t)]
      /\ UNCHANGED device /\ stray' = stray
  BY Facts DEF Error, Failed, IThread
<1>2. /\ E(t) \in {1, 2} /\ N(t) \in Nat /\ thread[t].at \in E(t) + 4 .. N(t) - 2 /\ thread[t].held
      /\ thread[t] \in ThreadState
  BY <1>1, Facts, Places DEF IThread
<1>3. Inside(t) /\ thread[t].at <= N(t) - 2
  BY <1>1, <1>2 DEF Inside
<1>4. PICK m \in thread[t].at + 1 .. N(t) - 1 :
        /\ Fail(t) = [ses |-> thread[t].ses, at |-> m, save |-> thread[t].save,
                      held |-> thread[t].held, io |-> FALSE]
        /\ \/ m = N(t) - 1
           \/ At(t).err = "next" /\ m = thread[t].at + 1
           \/ At(t).err = "skip" /\ m = thread[t].at + 2
  BY <1>1, <1>2, Facts, Fails
<1> DEFINE new == Fail(t)
<1>5. new.ses = thread[t].ses /\ new.held /\ ~new.io /\ new.at = m /\ new.save = thread[t].save
  BY <1>2, <1>4
<1> HIDE DEF new
<1>6. thread' = [thread EXCEPT ![t] = new] /\ thread'[t] = new /\ m \in thread[t].at .. N(t) - 1
  BY <1>1, <1>2, Facts DEF new
<1>7. PICK c : /\ Annotates(fam, Prg(t), c) /\ View(t) \in c[thread[t].at]
               /\ Leads(fam, At(t), c[thread[t].at], c[thread[t].at + 1])
               /\ At(t).err = "skip" => Skips(fam, c[thread[t].at], c[thread[t].at + 2])
               /\ c[N(t) - 1] = Kept(fam)
               /\ View(t) \in Views(fam)
  BY <1>3, AtStep
<1>8. Typed' /\ stray' = {}
  BY <1>1 DEF Typed, IReach, device
<1>9. Pending(t)'
  BY <1>5, <1>6 DEF Pending
<1>10. View(t)' \in Views(fam)
  BY <1>1, <1>8, NextView
<1>11. Spoiled(View(t), View(t)')
  <2> DEFINE x == View(t)
             y == View(t)'
  <2>1. /\ x.addr = phyAddr /\ x.sel = sel /\ x.port = port /\ x.wuc = wuc /\ x.meant = meant
        /\ x.save = thread[t].save
    BY ViewFields
  <2>2. /\ y.addr = phyAddr' /\ y.sel = sel' /\ y.port = port' /\ y.wuc = wuc' /\ y.meant = meant'
        /\ y.save = thread'[t].save /\ y.clean = Clean'
        /\ y.mail = IF mdic' = None \/ thread'[t].io THEN {} ELSE {mdic'.reg}
    BY ViewFieldsNext
  <2>3. ~Clean'
    <3>1. faults \in Nat
      BY DEF IBus, BusTypeOK
    <3> QED
      BY <1>1, <3>1 DEF Clean
  <2> HIDE DEF x, y
  <2>4. ~y.clean /\ y.mail = {} /\ y.clean \in BOOLEAN
    <3>1. Clean' \in BOOLEAN
      BY DEF Clean
    <3> QED
      BY <1>1, <2>2, <2>3, <3>1
  <2>5. /\ y.addr = x.addr /\ y.sel = x.sel /\ y.port = x.port
        /\ y.wuc = x.wuc /\ y.meant = x.meant /\ y.save = x.save
    BY <1>1, <1>5, <1>6, <2>1, <2>2 DEF device
  <2>6. Spoiled(x, y)
    <3>1. y.clean = FALSE
      BY <2>4
    <3> QED
      BY <2>4, <2>5, <3>1 DEF Spoiled
  <2> QED
    BY <2>6 DEF x, y
<1>12. View(t)' \in c[m]
  <2>1. CASE m = N(t) - 1
    <3>1. View(t)' \in Kept(fam)
      BY <1>10, <1>11 DEF Kept, Calm, Spoiled
    <3> QED
      BY <1>7, <2>1, <3>1
  <2>2. CASE At(t).err = "next" /\ m = thread[t].at + 1
    BY <1>1, <1>7, <1>10, <1>11, <2>2 DEF Leads
  <2>3. CASE At(t).err = "skip" /\ m = thread[t].at + 2
    BY <1>7, <1>10, <1>11, <2>3 DEF Skips
  <2> QED
    BY <1>4, <2>1, <2>2, <2>3
<1> QED
  BY <1>1, <1>3, <1>5, <1>6, <1>7, <1>8, <1>9, <1>12, InsideMoves

(* Kumeran registers: the offset is the one just written.                   *)
LEMMA ReachKmrn ==
  ASSUME IBus, IBus', AddressedAlone, IReach, NEW t \in Thread, KmrnAddress(t) \/ KmrnData(t)
  PROVE  IReach'
<1>1. /\ Busy(t) /\ ~thread[t].io /\ At(t).k \in {"kaddr", "kdata"} /\ fam' = fam /\ phyAddr' = phyAddr
      /\ faults' = faults /\ UNCHANGED device /\ Advance(t)
      /\ At(t).k = "kaddr" =>
           /\ mdic' = [t |-> t, addr |-> 0, reg |-> At(t).reg, v |-> 0, act |-> "kmrn"]
           /\ stray' = stray
      /\ At(t).k = "kdata" =>
           /\ mdic' = None
           /\ stray' = IF mdic = None THEN stray \cup {At(t).goal}
                       ELSE Strays(At(t).goal, <<"kmrn", mdic.reg>>)
  BY DEF KmrnAddress, KmrnData, IsAt
<1>2. /\ E(t) \in {1, 2} /\ N(t) \in Nat /\ thread[t].at \in E(t) + 4 .. N(t) - 2 /\ thread[t].held
      /\ thread[t] \in ThreadState
  BY <1>1, Facts, Places DEF IThread
<1>3. Inside(t) /\ thread[t].at < N(t) /\ thread[t].at <= N(t) - 2
      /\ thread[t].at + 1 \in thread[t].at .. N(t) - 1
  BY <1>1, <1>2 DEF Inside
<1> DEFINE new == [ses |-> thread[t].ses, at |-> thread[t].at + 1, save |-> thread[t].save,
                   held |-> thread[t].held, io |-> FALSE]
<1>4. thread' = [thread EXCEPT ![t] = new]
  BY <1>1, <1>3, AdvanceTo DEF Advance
<1>5. new.ses = thread[t].ses /\ new.held /\ ~new.io /\ new.at = thread[t].at + 1
      /\ new.save = thread[t].save
  BY <1>2
<1> HIDE DEF new
<1>6. thread'[t] = new
  BY <1>4, Facts
<1>7. PICK c : /\ Annotates(fam, Prg(t), c) /\ View(t) \in c[thread[t].at]
               /\ Leads(fam, At(t), c[thread[t].at], c[thread[t].at + 1])
               /\ View(t) \in Views(fam)
  BY <1>3, AtStep
<1>8. Right(fam, At(t), View(t))
  BY <1>7 DEF Leads
<1>9. ASSUME At(t).k = "kaddr" PROVE mdic' # None /\ mdic'.reg = At(t).reg /\ At(t).reg \in Int
  <2>1. At(t).reg \in Int
    BY <1>8, <1>9 DEF Right
  <2>2. mdic' \in Command
    BY <1>1, <1>9, <2>1 DEF Command, Acts
  <2> QED
    BY <1>1, <1>9, <2>1, <2>2, NoCommand
<1>10. stray' = {}
  <2>1. CASE At(t).k = "kaddr"
    BY <1>1, <2>1 DEF IReach
  <2>2. CASE At(t).k = "kdata"
    <3>1. View(t).mail = {At(t).reg} /\ At(t).goal = <<"kmrn", At(t).reg>>
      BY <1>8, <2>2 DEF Right
    <3>2. mdic # None /\ mdic.reg = At(t).reg
      BY <1>1, <3>1, ViewFields
    <3> QED
      BY <1>1, <2>2, <3>1, <3>2 DEF Strays, IReach
  <2> QED
    BY <1>1, <2>1, <2>2
<1>11. Typed' /\ Pending(t)'
  BY <1>1, <1>5, <1>6 DEF Typed, IReach, device, Pending
<1>12. View(t)' \in Views(fam)
  BY <1>1, <1>9, <1>11, NextView
<1>13. Leaving(At(t), View(t), View(t)')
  <2> DEFINE x == View(t)
             y == View(t)'
             s == At(t)
  <2>1. /\ x.addr = phyAddr /\ x.sel = sel /\ x.port = port /\ x.wuc = wuc /\ x.meant = meant
        /\ x.save = thread[t].save /\ x.clean = Clean
    BY ViewFields
  <2>2. /\ y.addr = phyAddr' /\ y.sel = sel' /\ y.port = port' /\ y.wuc = wuc' /\ y.meant = meant'
        /\ y.save = thread'[t].save /\ y.clean = Clean'
        /\ y.mail = IF mdic' = None \/ thread'[t].io THEN {} ELSE {mdic'.reg}
    BY ViewFieldsNext
  <2>3. Clean' = Clean
    BY <1>1 DEF Clean
  <2>4. s.k \in {"kaddr", "kdata"}
    BY <1>1
  <2>5. y.mail = IF s.k = "kaddr" THEN {s.reg} ELSE {}
    BY <1>1, <1>5, <1>6, <1>9, <2>2
  <2> HIDE DEF x, y, s
  <2>6. y.clean = x.clean /\ y.addr = x.addr /\ y.sel = x.sel /\ y.port = x.port
        /\ y.wuc = x.wuc /\ y.meant = x.meant /\ y.save = x.save
    BY <1>1, <1>5, <1>6, <2>1, <2>2, <2>3 DEF device
  <2>7. Leaving(s, x, y)
    BY <2>4, <2>5, <2>6 DEF Leaving
  <2> QED
    BY <2>7 DEF x, y, s
<1>14. View(t)' \in c[new.at]
  BY <1>5, <1>7, <1>12, <1>13 DEF Leads
<1> QED
  BY <1>1, <1>3, <1>4, <1>5, <1>7, <1>10, <1>11, <1>14, InsideMoves

-----------------------------------------------------------------------------
(* Steps that go in and out.                                                *)
(* Nobody is inside while a thread that is not has set the bit.              *)
LEMMA OwnerAlone ==
  ASSUME IBus, NEW t \in Thread, Owner(t)
  PROVE  \A u \in Thread \ {t} : ~Inside(u) /\ ~thread[u].io
<1> SUFFICES ASSUME NEW u \in Thread \ {t}, Inside(u) \/ thread[u].io PROVE FALSE
  OBVIOUS
<1>1. ~Owner(u)
  BY OnlyOwner
<1>2. CASE Inside(u)
  BY <1>1, <1>2, InsideOwns
<1>3. CASE thread[u].io
  <2>1. Busy(u) /\ At(u).k = "mdic"
    BY <1>3, Facts DEF IThread
  <2>2. E(u) \in {1, 2} /\ N(u) \in Nat /\ thread[u].at \in E(u) + 4 .. N(u) - 2
    BY <2>1, Facts, Places
  <2> QED
    BY <1>1, <2>1, <2>2 DEF Owner
<1> QED
  BY <1>2, <1>3

LEMMA ReachEnter ==
  ASSUME IBus, IBus', AddressedAlone, IReach, NEW t \in Thread, VerifyFlag(t), extcnf = "sw"
  PROVE  IReach'
<1>1. /\ Busy(t) /\ ~thread[t].io /\ At(t).k = "verify" /\ fam' = fam /\ phyAddr' = phyAddr
      /\ mdic' = mdic /\ UNCHANGED device /\ stray' = stray /\ faults' = faults
      /\ thread' = [thread EXCEPT ![t] =
           [Goto(thread[t], thread[t].ses, thread[t].at + 1) EXCEPT !.held = TRUE]]
  BY DEF VerifyFlag, IsAt
<1>2. /\ E(t) \in {1, 2} /\ N(t) \in Nat /\ E(t) + 5 <= N(t) /\ thread[t].at = E(t) + 3
      /\ thread[t] \in ThreadState /\ thread[t].ses \in DOMAIN Prog[fam] /\ fam \in Families
  BY <1>1, Facts, Places
<1>3. Owner(t) /\ ~Inside(t) /\ thread[t].at < N(t)
  BY <1>1, <1>2 DEF Owner, Inside
<1>4. \A u \in Thread \ {t} : ~Inside(u) /\ ~thread[u].io
  BY <1>3, OwnerAlone
<1>5. AtRest
  BY <1>3, <1>4 DEF IReach
<1> DEFINE to == Goto(thread[t], thread[t].ses, thread[t].at + 1)
           new == [to EXCEPT !.held = TRUE]
<1>6. thread' = [thread EXCEPT ![t] = new]
  BY <1>1, Zenon
<1>7. new.ses = thread[t].ses /\ new.held /\ ~new.io /\ new.at = E(t) + 4
      /\ new.save = thread[t].save
  <2>1. to = [ses |-> thread[t].ses, at |-> thread[t].at + 1, save |-> thread[t].save,
              held |-> thread[t].held, io |-> FALSE]
    BY <1>1, <1>3, AdvanceTo
  <2>2. thread[t].at + 1 = E(t) + 4
    BY <1>2
  <2> HIDE DEF to
  <2> QED
    BY <2>1, <2>2
<1> HIDE DEF new, to
<1>8. /\ thread'[t] = new /\ N(t)' = N(t) /\ E(t)' = E(t) /\ (Busy(t)' <=> Busy(t))
  BY <1>1, <1>6, <1>7, Facts, Others
<1>9. Prg(t)' = Prg(t)
  BY <1>1, <1>7, <1>8 DEF Prg
<1>10. Typed' /\ stray' = {} /\ Pending(t)'
  BY <1>1, <1>7, <1>8 DEF Typed, IReach, device, Pending
<1>11. Inside(t)'
  <2>1. thread'[t].at \in E(t)' + 4 .. N(t)' - 1
    BY <1>2, <1>7, <1>8
  <2>2. Busy(t)' /\ thread'[t].held
    BY <1>1, <1>7, <1>8
  <2> QED
    BY <2>1, <2>2 DEF Inside
<1>12. Addressed(t)'
  BY <1>2, <1>7, <1>8 DEF Addressed
<1>13. E(t) = 2 => phyAddr' = Prg(t)[1].v
  <2>1. Addressed(t)
    BY DEF IReach
  <2> QED
    BY <1>1, <1>2, <2>1 DEF Addressed
<1>14. View(t)' \in Ready(fam, Prg(t))
  <2>1. mdic' = None /\ (Clean' => wuc' = meant')
    BY <1>1, <1>5 DEF AtRest, Clean, device
  <2>2. View(t)' \in Views(fam)
    BY <1>1, <1>10, <2>1, NextView
  <2>3. View(t)' \in Kept(fam)
    <3> DEFINE y == View(t)'
    <3>1. y.clean = Clean' /\ y.wuc = wuc' /\ y.meant = meant' /\ y.mail = {}
      BY <2>1, ViewFieldsNext
    <3>2. y \in Views(fam)
      BY <2>2
    <3> HIDE DEF y
    <3>3. y \in Kept(fam)
      BY <2>1, <3>1, <3>2 DEF Kept, Calm
    <3> QED
      BY <3>3 DEF y
  <2>4. View(t)'.addr = phyAddr'
    BY ViewFieldsNext
  <2> QED
    BY <1>13, <2>3, <2>4 DEF Ready, E
<1>15. PICK c : Annotates(fam, Prg(t), c)
  <2>1. Runs(fam, Prg(t))
    BY <1>2, AllRun DEF Prg
  <2> QED
    BY <2>1 DEF Runs
<1>16. View(t)' \in c[E(t) + 4]
  BY <1>14, <1>15 DEF Annotates, E
<1>17. Placed(t)'
  BY <1>1, <1>7, <1>8, <1>9, <1>15, <1>16 DEF Placed
<1> QED
  BY <1>1, <1>4, <1>6, <1>10, <1>11, <1>12, <1>17, ReachesAlone

(* At the end of a body 769.17 and the register are as nobody inside needs.  *)
LEMMA RestsAtEnd ==
  ASSUME IBus, IReach, NEW t \in Thread, Inside(t), thread[t].at = N(t) - 1, ~thread[t].io
  PROVE  AtRest
<1>1. PICK c : Annotates(fam, Prg(t), c) /\ View(t) \in c[thread[t].at]
  BY DEF IReach, Placed
<1>2. View(t) \in Kept(fam)
  BY <1>1 DEF Annotates, N
<1> DEFINE x == View(t)
<1>3. /\ x.wuc = wuc /\ x.meant = meant /\ x.clean = Clean
      /\ x.mail = IF mdic = None \/ thread[t].io THEN {} ELSE {mdic.reg}
  BY ViewFields
<1>4. x \in Kept(fam)
  BY <1>2
<1> HIDE DEF x
<1>5. x.mail = {} /\ (x.clean => x.wuc = x.meant)
  BY <1>4 DEF Kept, Calm
<1> QED
  BY <1>3, <1>5 DEF AtRest

LEMMA ReachRelease ==
  ASSUME IBus, IBus', AddressedAlone, IReach, NEW t \in Thread, ReleaseFlag(t) PROVE IReach'
<1>1. /\ Busy(t) /\ ~thread[t].io /\ At(t).k = "rel" /\ fam' = fam /\ phyAddr' = phyAddr
      /\ mdic' = mdic /\ UNCHANGED device /\ stray' = stray /\ faults' = faults
      /\ thread' = [thread EXCEPT ![t] =
           [Goto(thread[t], thread[t].ses, thread[t].at + 1) EXCEPT !.held = FALSE]]
  BY DEF ReleaseFlag, IsAt
<1>2. /\ E(t) \in {1, 2} /\ N(t) \in Nat /\ E(t) + 5 <= N(t) /\ thread[t].at = N(t) - 1
      /\ thread[t] \in ThreadState
  BY <1>1, Facts, Places
<1>3. Owner(t) /\ thread[t].at < N(t)
  BY <1>1, <1>2 DEF Owner
<1> DEFINE to == Goto(thread[t], thread[t].ses, thread[t].at + 1)
           new == [to EXCEPT !.held = FALSE]
<1>4. thread' = [thread EXCEPT ![t] = new]
  BY <1>1, Zenon
<1>5. new.ses = thread[t].ses /\ ~new.held /\ ~new.io /\ new.at = N(t)
  <2>1. to = [ses |-> thread[t].ses, at |-> thread[t].at + 1, save |-> thread[t].save,
              held |-> thread[t].held, io |-> FALSE]
    BY <1>1, <1>3, AdvanceTo
  <2>2. thread[t].at + 1 = N(t)
    BY <1>2
  <2> HIDE DEF to
  <2> QED
    BY <2>1, <2>2
<1> HIDE DEF new, to
<1>6. thread'[t] = new
  BY <1>4, Facts
<1>7. Addressed(t)'
  <2>1. new.at >= E(t) + 4
    BY <1>2, <1>5
  <2> QED
    BY <1>1, <1>4, <1>5, <2>1, AddressKept
<1>8. CASE Inside(t)
  <2>1. AtRest
    BY <1>1, <1>2, <1>8, RestsAtEnd
  <2>2. Typed' /\ stray' = {} /\ Pending(t)' /\ ~Inside(t)'
    BY <1>1, <1>5, <1>6 DEF Typed, IReach, device, Pending, Inside
  <2>3. AtRest'
    BY <1>1, <2>1 DEF AtRest, Clean, device
  <2>4. \A u \in Thread \ {t} : ~Inside(u) /\ ~thread[u].io
    BY <1>3, OwnerAlone
  <2> QED
    BY <1>1, <1>4, <1>7, <2>2, <2>3, <2>4, ReachesAlone
<1>9. CASE ~Inside(t)
  BY <1>1, <1>4, <1>5, <1>7, <1>9, ReachesOutside
<1> QED
  BY <1>8, <1>9

LEMMA ReachReset ==
  ASSUME IBus, IBus', AddressedAlone, IReach, NEW t \in Thread, ChipReset(t) PROVE IReach'
<1>1. /\ Busy(t) /\ ~thread[t].io /\ At(t).k = "rst" /\ fam' = fam /\ phyAddr' = phyAddr
      /\ mdic' = None /\ wuc' = wuc /\ meant' = meant /\ stray' = stray /\ faults' = faults
      /\ Advance(t)
  BY DEF ChipReset, IsAt
<1>2. /\ E(t) \in {1, 2} /\ N(t) \in Nat /\ E(t) + 5 <= N(t) /\ thread[t].at = N(t) - 1
  BY <1>1, Facts, Places
<1>3. Owner(t) /\ thread[t].at < N(t)
  BY <1>1, <1>2 DEF Owner
<1>4. \A u \in Thread \ {t} : ~Inside(u) /\ ~thread[u].io
  BY <1>3, OwnerAlone
<1> DEFINE new == [ses |-> thread[t].ses, at |-> thread[t].at + 1, save |-> thread[t].save,
                   held |-> thread[t].held, io |-> FALSE]
<1>5. thread' = [thread EXCEPT ![t] = new]
  BY <1>1, <1>3, AdvanceTo DEF Advance
<1>6. new.ses = thread[t].ses /\ ~new.io /\ new.at = N(t)
  BY <1>2
<1> HIDE DEF new
<1>7. thread'[t] = new /\ N(t)' = N(t)
  BY <1>1, <1>5, <1>6, Facts, Others
<1>8. ~Inside(t)' /\ Pending(t)'
  BY <1>2, <1>6, <1>7 DEF Inside, Pending
<1>9. Addressed(t)'
  <2>1. new.at >= E(t) + 4
    BY <1>2, <1>6
  <2> QED
    BY <1>1, <1>5, <1>6, <2>1, AddressKept
<1>10. AtRest'
  <2>1. AtRest
    BY <1>1, <1>2, <1>4, RestsAtEnd DEF IReach
  <2> QED
    BY <1>1, <2>1 DEF AtRest, Clean
<1>11. Typed' /\ stray' = {}
  <2>1. PICK inhibited \in BOOLEAN :
          /\ sel' = [a \in DOMAIN sel |-> IF inhibited THEN sel[a] ELSE 0]
          /\ port' = [q \in DOMAIN port |-> IF inhibited THEN port[q] ELSE 0]
    BY DEF ChipReset
  <2>2. Typed /\ stray = {}
    BY DEF IReach
  <2> QED
    BY <1>1, <2>1, <2>2 DEF Typed
<1> QED
  BY <1>1, <1>4, <1>5, <1>8, <1>9, <1>10, <1>11, ReachesAlone

(* The firmware uses the PHY only while it has the semaphore.                *)
LEMMA ReachFirmware ==
  ASSUME IBus, IReach, FwTakes \/ FwUses \/ FwGives \/ UNCHANGED busVars PROVE IReach'
<1>1. /\ fam' = fam /\ thread' = thread /\ phyAddr' = phyAddr /\ mdic' = mdic /\ wuc' = wuc
      /\ meant' = meant /\ stray' = stray /\ faults' = faults
  BY DEF FwTakes, FwUses, FwGives, busVars, device
<1>2. \A u \in Thread : /\ N(u)' = N(u) /\ E(u)' = E(u) /\ At(u)' = At(u) /\ Prg(u)' = Prg(u)
                        /\ (Busy(u)' <=> Busy(u))
  BY <1>1 DEF N, E, Prg, At, Busy
<1>3. \A u \in Thread : /\ Inside(u)' <=> Inside(u)
                        /\ Pending(u)' <=> Pending(u)
                        /\ Addressed(u)' <=> Addressed(u)
  BY <1>1, <1>2 DEF Inside, Pending, Addressed
<1>4. AtRest' <=> AtRest
  BY <1>1 DEF AtRest, Clean
<1>5. CASE FwUses
  <2>1. \A u \in Thread : ~Inside(u)
    <3>1. extcnf = "fw"
      BY <1>5 DEF FwUses
    <3> QED
      BY <3>1, InsideOwns
  <2>2. Typed'
    <3>1. sel' = [sel EXCEPT ![1] = 801] /\ port' = [q \in DOMAIN port |-> 801] /\ Typed
      BY <1>5 DEF FwUses, IReach
    <3> QED
      BY <1>1, <3>1 DEF Typed
  <2> QED
    BY <1>1, <1>3, <1>4, <2>1, <2>2 DEF IReach
<1>6. CASE ~FwUses
  <2>1. sel' = sel /\ port' = port
    BY <1>6 DEF FwTakes, FwGives, busVars, device
  <2>2. Typed' <=> Typed
    BY <1>1, <2>1 DEF Typed
  <2>3. \A u \in Thread : View(u)' = View(u)
    BY <1>1, <2>1 DEF View, Clean
  <2>4. \A u \in Thread : Placed(u)' <=> Placed(u)
    BY <1>1, <1>2, <2>3 DEF Placed
  <2> QED
    BY <1>1, <1>3, <1>4, <2>2, <2>4 DEF IReach
<1> QED
  BY <1>5, <1>6

LEMMA ReachInit == ASSUME BusInit PROVE IReach
<1>1. \A t \in Thread : thread[t] = Idle
  BY DEF BusInit
<1>2. \A t \in Thread : ~Busy(t) /\ ~thread[t].io
  BY <1>1 DEF Busy, Idle
<1>3. Typed
  <2>1. phyAddr = 1 /\ sel = [a \in {1, 2} |-> 0] /\ port = [p \in {2, BM_WUC_PAGE} |-> 0]
    BY DEF BusInit
  <2> QED
    BY <2>1 DEF Typed, Addrs
<1>4. AtRest /\ stray = {}
  BY DEF BusInit, AtRest
<1> QED
  BY <1>2, <1>3, <1>4 DEF IReach, Inside, Pending, Addressed

LEMMA ReachStep ==
  ASSUME IBus, IBus', AddressedAlone, IReach, [BusNext]_busVars PROVE IReach'
<1>1. ASSUME NEW t \in Thread, SetAddr(t) PROVE IReach'
  BY <1>1, ReachAddrEarly, ReachAddrInside
<1>2. ASSUME NEW t \in Thread, VerifyFlag(t) PROVE IReach'
  BY <1>2, ReachEnter, ReachApproach
<1>3. ASSUME NEW t \in Thread, Begin(t) \/ Error(t) PROVE IReach'
  BY <1>3, ReachBegin, ReachError
<1>4. ASSUME NEW t \in Thread, TestAndSet(t) \/ WaitFlag(t) \/ SetFlag(t) PROVE IReach'
  BY <1>4, ReachApproach
<1>5. ASSUME NEW t \in Thread, ReleaseFlag(t) \/ ClearBit(t) \/ ChipReset(t) \/ ClearIfHeld(t)
      PROVE  IReach'
  BY <1>5, ReachRelease, ReachClear, ReachReset
<1>6. ASSUME NEW t \in Thread, Issue(t) \/ Complete(t) \/ KmrnAddress(t) \/ KmrnData(t)
      PROVE  IReach'
  BY <1>6, ReachIssue, ReachComplete, ReachKmrn
<1> QED
  BY <1>1, <1>2, <1>3, <1>4, <1>5, <1>6, ReachFirmware DEF BusNext, Run

LEMMA ReachInvariant == HeedlessAlone /\ AddressedAlone /\ BusSpec => []IReach
<1>1. BusInit => IReach
  BY ReachInit
<1>2. IBus /\ IBus' /\ AddressedAlone /\ IReach /\ [BusNext]_busVars => IReach'
  BY ReachStep
<1>3. AddressedAlone => AddressedAlone'
  BY DEF AddressedAlone
<1> QED
  BY <1>1, <1>2, <1>3, BusInvariant, PTL DEF BusSpec

(* Every MDI access and every Kumeran access reaches the register that its   *)
(* caller meant: whatever pages, ports and phy.addr the accesses before it,   *)
(* their errors, other threads and the firmware have left, __e1000_*_phy_reg *)
(* of each family, the EMI and debug ports and the wake-up page find what     *)
(* they select. Two things must not overlap with another session: what goes  *)
(* on without the semaphore, and what assigns phy.addr before it has it.      *)
THEOREM AccessesReachMeant == HeedlessAlone /\ AddressedAlone /\ BusSpec => []ReachesMeant
<1>1. IReach => ReachesMeant
  BY DEF IReach, ReachesMeant
<1> QED
  BY <1>1, ReachInvariant, PTL

(* And 769.17 outlives the detours through the wake-up page: when nobody is  *)
(* in an accessor it holds what the last complete session left in it, as     *)
(* long as no access has failed; bit and SWFLAG are free.                    *)
THEOREM NothingIsLeft == HeedlessAlone /\ AddressedAlone /\ BusSpec => []NothingLeft
<1>1. IBus /\ IReach => NothingLeft
  <2> SUFFICES ASSUME IBus, IReach, \A t \in Thread : ~Busy(t)
               PROVE  ~bit /\ extcnf # "sw" /\ (faults = 0 => wuc = meant)
    BY DEF NothingLeft
  <2>1. \A t \in Thread : ~Owner(t) /\ ~Inside(t)
    BY DEF Owner, Inside
  <2>2. AtRest
    BY <2>1 DEF IReach
  <2> QED
    BY <2>1, <2>2, Facts DEF ILock, AtRest, Clean
<1> QED
  BY <1>1, BusInvariant, ReachInvariant, PTL
===============================================================================
