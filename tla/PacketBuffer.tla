---------------------------- MODULE PacketBuffer ----------------------------
(***************************************************************************)
(* How intelReset divides the packet buffer and sets the water marks of     *)
(* flow control, and the latency the device tolerates, which follows from   *)
(* the receive part of the buffer and the link's speed.  Sizes are in bytes *)
(* unless a name says KB, times in nanoseconds.  Pure operators, no state.  *)
(***************************************************************************)
EXTENDS Integers

CONSTANTS
  TxSpaceKB,            (* External: what the chip gives to transmission.    *)
  MaxSnoop, MaxNoSnoop  (* The platform's limits, encoded, from PCI config.  *)

(* PCIe encodes a latency as value * 32^scale in 10 and 3 bits.              *)
Encodings == 0 .. 8191

ASSUME PacketBufferConstants ==
  TxSpaceKB \in Nat /\ MaxSnoop \in Encodings /\ MaxNoSnoop \in Encodings

(* ich9lan and ich10lan; pchlan; pch2lan; pch_lpt and later.                 *)
Chips == {"ich9", "pch", "pch2", "lpt"}
StandardFrame == 1518

Least(a, b)   == IF a <= b THEN a ELSE b
Largest(a, b) == IF a >= b THEN a ELSE b
CeilDiv(a, b) == (a + b - 1) \div b
KB(bytes)     == CeilDiv(bytes, 1024)

DefaultPba(chip) == IF chip = "ich9" THEN 18 ELSE 26

(* For jumbo frames two of them must fit the transmit part and one the      *)
(* receive part, which wins.                                                 *)
JumboPba(chip, frame) ==
  LET pba     == DefaultPba(chip)
      missing == KB(2 * (frame + 12)) - TxSpaceKB
  IN  IF missing > 0 /\ missing < pba
        THEN Largest(pba - missing, KB(frame)) ELSE pba

Pba(chip, frame) ==
  IF frame <= StandardFrame THEN DefaultPba(chip)
  ELSE IF chip = "pch" THEN JumboPba(chip, frame)
  ELSE 14

Mask8(n) == n - (n % 8)

(* fc->high_water and fc->low_water.                                         *)
WaterMarks(chip, frame) ==
  LET rx    == Pba(chip, frame) * 1024
      jumbo == frame > StandardFrame
      high  == CASE chip = "ich9" /\ jumbo  -> 10240
                 [] chip = "ich9" /\ ~jumbo ->
                      Mask8(Least((rx * 9) \div 10, rx - frame))
                 [] chip = "pch"            -> IF jumbo THEN 13568 ELSE 20480
                 [] OTHER -> IF jumbo THEN Mask8((rx * 9) \div 10) ELSE 23584
      low   == CASE chip = "ich9"           -> high - 8
                 [] chip = "pch"            -> high - 8192
                 [] OTHER -> IF jumbo THEN Mask8((rx * 8) \div 10) ELSE 20552
  IN  [high |-> high, low |-> low]

(* How long the receive part takes bus stalls before it overflows.          *)
Tolerated(chip, frame, speed) ==
  LET rx == Pba(chip, frame) * 512
  IN  IF rx > frame THEN (rx - frame) * (16000 \div speed) ELSE 0

Decode(enc) == (enc % 1024) * 32 ^ (enc \div 1024)

Encode(ns) ==
  LET fits(s) == CeilDiv(ns, 32 ^ s) < 1024
      scale   == CHOOSE s \in 0 .. 5 : fits(s) /\ \A t \in 0 .. s - 1 : ~fits(t)
  IN  scale * 1024 + CeilDiv(ns, 32 ^ scale)

(* e1000_platform_pm_pch_lpt limits the encodings, not what they stand for. *)
LtrEncoding(chip, frame, speed) ==
  Least(Encode(Tolerated(chip, frame, speed)), Largest(MaxSnoop, MaxNoSnoop))

(* maxLatency, capped by kMaxDmaLatency, and setMaxLatency; 0: no limit.     *)
MaxLatency ==
  Least(Largest(Decode(MaxSnoop), Decode(MaxNoSnoop)), 75000)

BusStall(chip, frame, speed) ==
  LET ns == Tolerated(chip, frame, speed)
  IN  IF MaxLatency > 0 THEN Least(ns, MaxLatency) ELSE ns
=============================================================================
