-------------------------------- MODULE MCSue --------------------------------
(* Model-checking instance of Sue: make_sue.py builds four packets.        *)
EXTENDS Sue

MCMaxPackets == 4
=============================================================================
