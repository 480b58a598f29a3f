------------------------------- MODULE MCLink -------------------------------
EXTENDS Link

(* Partners that differ in speed, duplex, pause bits and EEE.                *)
Gigabit == [modes |-> Modes, pause |-> TRUE, asym |-> TRUE, eee |-> {100, 1000}]
Sender  == [modes |-> Modes \ {<<1000, TRUE>>}, pause |-> FALSE, asym |-> TRUE,
            eee |-> {100}]
OldHub  == [modes |-> {<<10, TRUE>>, <<100, FALSE>>}, pause |-> TRUE,
            asym |-> FALSE, eee |-> {}]

MCPeers  == {Gigabit, Sender, OldHub}
MCNoPeer == [modes |-> {}, pause |-> FALSE, asym |-> FALSE, eee |-> {}]
MCFrames == {1518, 9018}

(* 10FD, 100FD and 1000FDFCEEE, and the automatic choice.                    *)
MCChoices ==
  {AutoMedium} \cup {m \in FixedMedia :
     /\ m.fd
     /\ m.speed = 1000 => m.fc /\ m.eee
     /\ m.speed = 100  => ~m.fc /\ ~m.eee}
=============================================================================
