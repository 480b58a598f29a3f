------------------------------- MODULE MCAdapter -------------------------------
(* One adapter of each kind that the code treats differently.               *)
EXTENDS Adapter

Part(mac, phy, me, ulpCap, apm, phyWake) ==
  [mac |-> mac, phy |-> phy, me |-> me, ulpCap |-> ulpCap, apm |-> apm, phyWake |-> phyWake]

MCParts == {
  Part(ich8lan, "ife", FALSE, FALSE, TRUE, FALSE),
  Part(ich8lan, "igp_3", FALSE, FALSE, TRUE, FALSE),
  Part(ich9lan, "igp_3", TRUE, FALSE, TRUE, FALSE),
  Part(ich10lan, "bm", FALSE, FALSE, TRUE, FALSE),
  Part(pchlan, "82577", TRUE, FALSE, TRUE, TRUE),
  Part(pchlan, "82578", FALSE, FALSE, TRUE, TRUE),
  Part(pch2lan, "82579", FALSE, FALSE, TRUE, TRUE),
  Part(pch2lan, "82579", TRUE, FALSE, TRUE, FALSE),
  Part(pch_lpt, "i217", FALSE, FALSE, TRUE, TRUE),
  Part(pch_lpt, "i217", TRUE, TRUE, TRUE, FALSE),
  Part(pch_lpt, "i217", FALSE, TRUE, TRUE, TRUE),
  Part(pch_spt, "i217", FALSE, TRUE, TRUE, TRUE),
  Part(pch_spt, "i217", TRUE, TRUE, FALSE, FALSE)}
===============================================================================
