-------------------------------- MODULE Link --------------------------------
(***************************************************************************)
(* The link: the PHY negotiates with its partner on its own and raises LSC  *)
(* whenever the link comes or goes; the driver's work loop reads the PHY,   *)
(* configures the MAC and tells macOS.  The PHY may change its mind between *)
(* any two of the driver's accesses, and an access may fail (the management *)
(* engine holds the PHY), so each step below is one access or one write     *)
(* that depends on it.                                                       *)
(***************************************************************************)
EXTENDS PacketBuffer

CONSTANTS
  Peers, NoPeer,        (* Link partners: their modes, pause bits and EEE.   *)
  Choices,              (* The media that get selected, a part of Media. *)
  Frames,               (* The sizes setMaxPacketSize is called with.        *)
  MaxResets             (* Bound on the resets asked for from outside.       *)

(* A mode is a speed and whether it is full duplex.                          *)
Modes == {<<10, FALSE>>, <<10, TRUE>>, <<100, FALSE>>, <<100, TRUE>>,
          <<1000, TRUE>>}
HigherMode(m, n) == m[1] > n[1] \/ (m[1] = n[1] /\ m[2] /\ ~n[2])

ASSUME LinkConstants ==
  /\ \A p \in Peers : /\ p.modes \subseteq Modes /\ p.eee \subseteq {100, 1000}
                      /\ p.pause \in BOOLEAN /\ p.asym \in BOOLEAN
  /\ NoPeer \notin Peers
  /\ StandardFrame \in Frames /\ Frames \subseteq Nat
  /\ MaxResets \in Nat

VARIABLES
  chip, blocked,        (* Fixed: the MAC; the ME blocks resets of the PHY.  *)
  cable,                (* The partner at the other end of the cable.        *)
  peer,                 (* The partner the PHY has a link with.              *)
  lsc,                  (* ICR.LSC                                           *)
  adv,                  (* The PHY's advertisement.                          *)
  lpi,                  (* LPI_CTRL: speeds for which EEE is on.             *)
  ctrlFc, fcrth,        (* CTRL.RFCE and TFCE as a mode; FCRTH               *)
  ltr, busStall,        (* LTRV, or NoLtr; requireMaxBusStall                *)
  medium, frameSize,    (* What autoneg, autoneg_advertised and eee_disable  *)
                        (* were set for; max_frame_size                      *)
  requestedMode, currentMode,
  getLinkStatus, linkUp, eeeMode,
  reported,             (* The active medium reported to macOS.              *)
  wl,                   (* What the work loop does.                          *)
  phyErr,               (* An access failed since the last LSC was taken.    *)
  resets

confVars == <<chip, blocked>>
phyVars  == <<cable, peer, adv, lpi>>
macVars  == <<ctrlFc, fcrth, ltr>>
wishVars == <<medium, frameSize, requestedMode, resets>>
drvVars  == <<currentMode, getLinkStatus, linkUp, eeeMode, reported, busStall>>
vars == <<confVars, phyVars, lsc, macVars, wishVars, drvVars, wl, phyErr>>

FcModes == {"none", "rx_pause", "tx_pause", "full"}
NoLtr == -1

-----------------------------------------------------------------------------
(* The media of setupMediumDict and what intelSetupAdvForMedium makes of    *)
(* them.  Automatic negotiation has speed 0.                                *)
AutoMedium == [speed |-> 0, fd |-> TRUE, fc |-> TRUE, eee |-> TRUE]
NoMedium == [speed |-> 0, fd |-> FALSE, fc |-> FALSE, eee |-> FALSE]
Speeds     == {10, 100, 1000}
FixedMedia == {m \in [speed : Speeds, fd : BOOLEAN, fc : BOOLEAN, eee : BOOLEAN] :
                 /\ <<m.speed, m.fd>> \in Modes
                 /\ m.fc \/ m.eee => m.speed # 10 /\ m.fd}

HasEee == chip \in {"pch2", "lpt"}
Media  == {AutoMedium} \cup {m \in FixedMedia : m.eee => HasEee}

Forced(m)     == m.speed = 10
Advertised(m) == IF m = AutoMedium THEN Modes ELSE {<<m.speed, m.fd>>}

RequestedMode(m) ==
  IF m = AutoMedium THEN "default"
  ELSE IF Forced(m) THEN requestedMode
  ELSE IF m.fc THEN "full" ELSE "none"

(* e1000_setup_link_ich8lan: the default mode of the chip.                   *)
Fixup(mode) ==
  IF mode # "default" THEN mode
  ELSE IF chip = "pch" THEN "rx_pause" ELSE "full"

AdvPause(mode) == mode \in {"rx_pause", "full"}
AdvAsym(mode)  == mode # "none"

(* Mutant of Negotiated: duplex is forgotten.                                *)
NegotiatedAnyDuplex(l, p, requested, fd) ==
  IF l.pause /\ p.pause
    THEN IF requested = "full" THEN "full" ELSE "rx_pause"
  ELSE IF ~l.pause /\ l.asym /\ p.pause /\ p.asym THEN "tx_pause"
  ELSE IF l.pause /\ l.asym /\ ~p.pause /\ p.asym THEN "rx_pause"
  ELSE "none"

(* The cascade of e1000e_config_fc_after_link_up.                            *)
Negotiated(l, p, requested, fd) ==
  IF ~fd THEN "none"
  ELSE IF l.pause /\ p.pause
    THEN IF requested = "full" THEN "full" ELSE "rx_pause"
  ELSE IF ~l.pause /\ l.asym /\ p.pause /\ p.asym THEN "tx_pause"
  ELSE IF l.pause /\ l.asym /\ ~p.pause /\ p.asym THEN "rx_pause"
  ELSE "none"

(* The mode the PHY resolves with a partner: the highest common one.        *)
Common(p) == adv.modes \cap p.modes
LinkMode  == CHOOSE m \in Common(peer) :
               \A n \in Common(peer) : n # m => HigherMode(m, n)

(* Mutant of ReadModes: a mode from before is reused.                        *)
ReadModesStale == Modes

(* e1000e_get_speed_and_duplex_copper: what STATUS gives for the mode of the *)
(* link; nothing is known once it is lost.                                  *)
ReadModes == IF peer = NoPeer THEN Modes ELSE {LinkMode}

(* The negotiation the PHY reports as complete is that with its peer.        *)
AutonegComplete == peer # NoPeer

(* e1000e_force_mac_fc: TFCE and RFCE follow the mode, one of FcModes.       *)
ForceMacFc(mode) == mode \in FcModes /\ ctrlFc' = mode

(* e1000e_set_fc_watermarks: FCRTH is zero unless pauses may be sent.        *)
FcWatermarks(mode, f) ==
  IF mode \in {"tx_pause", "full"} THEN WaterMarks(chip, f).high ELSE 0

(* Speeds for which both ends have EEE.                                      *)
SupportedEee == IF HasEee /\ peer # NoPeer THEN adv.eee \cap peer.eee ELSE {}

-----------------------------------------------------------------------------
(* reset_hw and init_hw as called by intelReset: the link drops, LSC is     *)
(* cleared by the read of ICR, and the PHY starts anew with the wishes of   *)
(* the medium m, unless the ME keeps it.                                     *)

Advertisement(m, mode) ==
  [modes |-> Advertised(m), pause |-> AdvPause(mode), asym |-> AdvAsym(mode),
   eee |-> IF HasEee /\ m.eee THEN {100, 1000} ELSE {}]

(* Mutant of ResetPhy: the PHY keeps LPI_CTRL.                               *)
ResetPhyKeepLpi(m, mode) ==
  /\ peer' = NoPeer /\ lsc' = FALSE
  /\ adv' = IF blocked THEN [adv EXCEPT !.eee = Advertisement(m, mode).eee]
                       ELSE Advertisement(m, mode)
  /\ UNCHANGED <<cable, lpi>>

ResetPhy(m, mode) ==
  /\ peer' = NoPeer /\ lsc' = FALSE
  /\ adv' = IF blocked THEN [adv EXCEPT !.eee = Advertisement(m, mode).eee]
                       ELSE Advertisement(m, mode)
  /\ lpi' = {}
  /\ UNCHANGED cable

(* intelReset with the wishes m, f and req; without the PHY setup_link      *)
(* returns before it has resolved the default or set FCRTH.                 *)
Reset(m, f, req) ==
  LET mode == IF Forced(m) THEN "none" ELSE Fixup(req)
  IN  /\ ResetPhy(m, Fixup(req))
      /\ medium' = m /\ frameSize' = f
      /\ requestedMode' = IF blocked THEN req ELSE Fixup(req)
      /\ currentMode'   = IF blocked THEN req ELSE mode
      /\ fcrth' = IF blocked THEN 0 ELSE FcWatermarks(mode, f)
      /\ ctrlFc' = "none" /\ ltr' = NoLtr
      /\ getLinkStatus' = TRUE
      /\ linkUp' = FALSE /\ phyErr' = FALSE
      /\ reported' = NoMedium
      /\ UNCHANGED confVars

InitialAdv == [modes |-> Modes, pause |-> TRUE, asym |-> TRUE, eee |-> {}]

(* After enable: the PHY was just reset for automatic negotiation.           *)
Init ==
  /\ chip \in Chips /\ blocked \in BOOLEAN
  /\ cable = NoPeer /\ peer = NoPeer /\ lsc = FALSE
  /\ requestedMode = IF blocked THEN "default" ELSE Fixup("default")
  /\ currentMode = requestedMode
  /\ adv = [InitialAdv EXCEPT !.eee = IF HasEee THEN {100, 1000} ELSE {}]
  /\ lpi = {} /\ ctrlFc = "none" /\ ltr = NoLtr /\ busStall = 0
  /\ fcrth = FcWatermarks(currentMode, StandardFrame)
  /\ medium = AutoMedium /\ frameSize = StandardFrame
  /\ getLinkStatus = TRUE /\ linkUp = FALSE /\ eeeMode = {}
  /\ reported = NoMedium
  /\ wl = "idle" /\ phyErr = FALSE /\ resets = 0

-----------------------------------------------------------------------------
(* Cable and PHY (external).                                                 *)

Plug(p) ==
  /\ cable = NoPeer /\ cable' = p
  /\ UNCHANGED <<confVars, peer, adv, lpi, lsc, macVars, wishVars, drvVars, wl,
                 phyErr>>

Unplug ==
  /\ cable # NoPeer /\ cable' = NoPeer
  /\ UNCHANGED <<confVars, peer, adv, lpi, lsc, macVars, wishVars, drvVars, wl,
                 phyErr>>

PhyUp ==
  /\ peer = NoPeer /\ cable # NoPeer /\ Common(cable) # {}
  /\ peer' = cable /\ lsc' = TRUE
  /\ UNCHANGED <<confVars, cable, adv, lpi, macVars, wishVars, drvVars, wl,
                 phyErr>>

PhyDown ==
  /\ peer # NoPeer /\ cable # peer
  /\ peer' = NoPeer /\ lsc' = TRUE
  /\ UNCHANGED <<confVars, cable, adv, lpi, macVars, wishVars, drvVars, wl,
                 phyErr>>

-----------------------------------------------------------------------------
(* checkLinkStatus, called for LSC.                                          *)

(* Mutant of LscInterrupt: only a link that is up is watched.                *)
LscInterruptLinkUp ==
  /\ wl = "idle" /\ lsc /\ linkUp
  /\ lsc' = FALSE
  /\ getLinkStatus' = TRUE
  /\ phyErr' = FALSE
  /\ wl' = "check"
  /\ UNCHANGED <<confVars, phyVars, macVars, wishVars, currentMode, linkUp,
                 eeeMode, reported, busStall>>

LscInterrupt ==
  /\ wl = "idle" /\ lsc
  /\ lsc' = FALSE
  /\ getLinkStatus' = TRUE
  /\ phyErr' = FALSE
  /\ wl' = "check"
  /\ UNCHANGED <<confVars, phyVars, macVars, wishVars, currentMode, linkUp,
                 eeeMode, reported, busStall>>

(* An access fails before the link was recorded, or after it.               *)
PhyFails ==
  /\ wl \in {"check", "fc"}
  /\ phyErr' = TRUE
  /\ wl' = "decide"
  /\ UNCHANGED <<confVars, phyVars, lsc, macVars, wishVars, drvVars>>

(* e1000_check_for_copper_link_ich8lan up to get_link_status = false.        *)
CheckForLink ==
  /\ wl = "check"
  /\ getLinkStatus' = (peer = NoPeer)
  /\ ltr' = IF chip = "lpt" /\ peer # NoPeer
              THEN LtrEncoding(chip, frameSize, LinkMode[1]) ELSE NoLtr
  /\ wl' = IF peer = NoPeer THEN "decide" ELSE "fc"
  /\ UNCHANGED <<confVars, phyVars, lsc, ctrlFc, fcrth, wishVars, currentMode,
                 linkUp, eeeMode, reported, busStall, phyErr>>

(* The rest of it: EEE on i217 and later, then flow control.  The MAC is    *)
(* forced to the current mode first and to the negotiated one if the        *)
(* negotiation is complete; a mode that is not one of FcModes is an error.  *)
ConfigFc ==
  /\ wl = "fc"
  /\ lpi' = IF chip = "lpt" THEN SupportedEee ELSE lpi
  /\ IF Forced(medium) \/ currentMode \notin FcModes
       THEN UNCHANGED <<currentMode, ctrlFc>>
       ELSE /\ currentMode' =
                 IF AutonegComplete
                   THEN Negotiated(adv, peer, requestedMode, LinkMode[2])
                   ELSE currentMode
            /\ ForceMacFc(currentMode')
  /\ wl' = "decide"
  /\ UNCHANGED <<confVars, cable, peer, adv, lsc, fcrth, ltr, wishVars,
                 getLinkStatus, linkUp, eeeMode, reported, busStall, phyErr>>

(* The partner must have changed some setting: intelRestart.                *)
LinkChanged ==
  /\ wl = "decide" /\ linkUp /\ ~getLinkStatus
  /\ Reset(medium, frameSize, requestedMode)
  /\ eeeMode' = {}
  /\ wl' = "idle"
  /\ UNCHANGED <<busStall, resets>>

(* setLinkDown.                                                              *)
LinkLost ==
  /\ wl = "decide" /\ linkUp /\ getLinkStatus
  /\ Reset(medium, frameSize, requestedMode)
  /\ busStall' = IF chip = "lpt" THEN 0 ELSE busStall
  /\ wl' = "idle"
  /\ UNCHANGED <<eeeMode, resets>>

(* setLinkUp: the mode is read again; EEE is considered at 1000 and at full *)
(* duplex 100 Mbit/s, with whatever speeds the partner has it for.           *)
SetLinkUp ==
  /\ wl = "decide" /\ ~linkUp /\ ~getLinkStatus
  /\ \E mode \in ReadModes :
       /\ eeeMode' = IF mode \in {<<100, TRUE>>, <<1000, TRUE>>}
                       THEN SupportedEee ELSE {}
       /\ reported' = [speed |-> mode[1], fd |-> mode[2],
                       fc |-> ctrlFc # "none" /\ mode[1] # 10 /\ mode[2],
                       eee |-> eeeMode' # {}]
       /\ busStall' = IF chip = "lpt" THEN BusStall(chip, frameSize, mode[1])
                                      ELSE busStall
  /\ linkUp' = TRUE
  /\ wl' = "idle"
  /\ UNCHANGED <<confVars, phyVars, lsc, macVars, wishVars, currentMode,
                 getLinkStatus, phyErr>>

(* Mutant of StillDown: interrupts that came meanwhile are cleared.         *)
StillDownAck ==
  /\ wl = "decide" /\ ~linkUp /\ getLinkStatus
  /\ wl' = "idle" /\ lsc' = FALSE
  /\ UNCHANGED <<confVars, phyVars, macVars, wishVars, drvVars, phyErr>>

StillDown ==
  /\ wl = "decide" /\ ~linkUp /\ getLinkStatus
  /\ wl' = "idle"
  /\ UNCHANGED <<confVars, phyVars, lsc, macVars, wishVars, drvVars, phyErr>>

(* timerAction one second after setLinkUp.                                   *)
EnableEee ==
  /\ wl = "idle" /\ linkUp /\ eeeMode # {}
  /\ lpi' = eeeMode /\ eeeMode' = {}
  /\ UNCHANGED <<confVars, cable, peer, adv, lsc, macVars, wishVars,
                 currentMode, getLinkStatus, linkUp, reported, busStall, wl,
                 phyErr>>

(* selectMedium: also what an ECC error or a hung transmitter does, with    *)
(* the medium unchanged.                                                     *)
SelectMedium(m) ==
  /\ wl = "idle" /\ resets < MaxResets
  /\ Reset(m, frameSize, IF m = medium THEN requestedMode ELSE RequestedMode(m))
  /\ eeeMode' = {}
  /\ resets' = resets + 1
  /\ UNCHANGED <<wl, busStall>>

(* setMaxPacketSize: setLinkDown and intelRestart.                           *)
SetMaxPacketSize(f) ==
  /\ wl = "idle" /\ resets < MaxResets
  /\ Reset(medium, f, requestedMode)
  /\ eeeMode' = {}
  /\ busStall' = IF chip = "lpt" THEN 0 ELSE busStall
  /\ resets' = resets + 1
  /\ UNCHANGED wl

Environment == Unplug \/ PhyUp \/ PhyDown \/ \E p \in Peers : Plug(p)

CheckLinkStatus ==
  \/ LscInterrupt \/ PhyFails \/ CheckForLink \/ ConfigFc
  \/ LinkChanged \/ LinkLost \/ SetLinkUp \/ StillDown

Requests ==
  \/ \E m \in Choices \cap Media : SelectMedium(m)
  \/ \E f \in Frames : SetMaxPacketSize(f)

Next == Environment \/ CheckLinkStatus \/ EnableEee \/ Requests

Spec == Init /\ [][Next]_vars

(* A PHY that can have a link gets it, an interrupt is served, a handler    *)
(* runs to its end.  Where RxPoll leaves LSC masked (only while linkUp) it   *)
(* is the next interrupt of another cause, or the watchdog, that serves it.  *)
FairSpec ==
  Spec /\ WF_vars(PhyUp) /\ WF_vars(PhyDown) /\ WF_vars(CheckLinkStatus)
-----------------------------------------------------------------------------
(* Properties.                                                              *)

Report == [speed : {0, 10, 100, 1000}, fd : BOOLEAN, fc : BOOLEAN,
           eee : BOOLEAN]

(* Types; while the ME leaves the PHY alone, the mode of flow control is    *)
(* one e1000e_force_mac_fc knows ("No other values should be possible").     *)
TypeOK ==
  /\ chip \in Chips /\ blocked \in BOOLEAN
  /\ cable \in Peers \cup {NoPeer} /\ peer \in Peers \cup {NoPeer}
  /\ lsc \in BOOLEAN
  /\ adv \in [modes : SUBSET Modes, pause : BOOLEAN, asym : BOOLEAN,
              eee : SUBSET {100, 1000}]
  /\ lpi \subseteq {100, 1000} /\ eeeMode \subseteq {100, 1000}
  /\ ctrlFc \in FcModes /\ fcrth \in 0 .. 65535
  /\ ltr \in {NoLtr} \cup 0 .. 65535 /\ busStall \in Nat
  /\ medium \in Media /\ frameSize \in Frames
  /\ currentMode \in FcModes \cup (IF blocked THEN {"default"} ELSE {})
  /\ requestedMode \in FcModes \cup (IF blocked THEN {"default"} ELSE {})
  /\ getLinkStatus \in BOOLEAN /\ linkUp \in BOOLEAN
  /\ reported \in Report
  /\ wl \in {"idle", "check", "fc", "decide"} /\ phyErr \in BOOLEAN
  /\ resets \in 0 .. MaxResets

(* No link change is left to be noticed.                                     *)
Quiet == wl = "idle" /\ ~lsc /\ ~phyErr

(* Once every interrupt was served the driver agrees with the PHY about     *)
(* whether there is a link, wherever the PHY changed its mind meanwhile.     *)
Settled == Quiet => (linkUp <=> peer # NoPeer)

(* Flow control is what IEEE 802.3 annex 28B resolves for both ends, within *)
(* what was requested: pause frames are never obeyed nor sent otherwise, on *)
(* half duplex or forced links not at all, and never sent without a high    *)
(* water mark.                                                               *)
Obeys(p) == \/ adv.pause /\ p.pause
            \/ adv.pause /\ adv.asym /\ ~p.pause /\ p.asym
Sends(p) == \/ adv.pause /\ p.pause /\ requestedMode = "full"
            \/ ~adv.pause /\ adv.asym /\ p.pause /\ p.asym

PausesNegotiated ==
  ~blocked =>
    /\ ctrlFc \in {"tx_pause", "full"} => fcrth > 0
    /\ Quiet /\ linkUp =>
         LET on == LinkMode[2] /\ ~Forced(medium)
         IN  /\ ctrlFc \in {"rx_pause", "full"} <=> on /\ Obeys(peer)
             /\ ctrlFc \in {"tx_pause", "full"} <=> on /\ Sends(peer)

(* What macOS and the chipset were told is true of the link there is: the   *)
(* medium's speed, duplex and flow control (for which there is no medium at *)
(* 10 Mbit/s), and a latency the receive buffer lasts for at this speed; no  *)
(* latency is claimed without a link.                                        *)
ToldTrue ==
  /\ Quiet /\ linkUp =>
       /\ <<reported.speed, reported.fd>> = LinkMode
       /\ reported.speed # 10 => (reported.fc <=> ctrlFc # "none")
       /\ chip = "lpt" =>
            /\ ltr = LtrEncoding(chip, frameSize, LinkMode[1])
            /\ busStall <= Tolerated(chip, frameSize, LinkMode[1])
  /\ Quiet /\ ~linkUp => ltr = NoLtr

(* Low power idle is on only for speeds both ends of this link agreed on;   *)
(* a change of partner never inherits it.                                    *)
LpiNegotiated ==
  Quiet /\ lpi # {} => linkUp /\ lpi \subseteq SupportedEee

(* With a partner plugged in for good the link comes up and stays up, unless*)
(* an access to the PHY failed: nothing repeats the check before the next   *)
(* LSC.                                                                      *)
LinkFollows ==
  <>[](cable # NoPeer /\ Common(cable) # {}) => <>[](linkUp \/ phyErr)
=============================================================================
