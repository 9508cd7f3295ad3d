------------------------------ MODULE MCFalcon ------------------------------
(* Model-checking instance of Falcon: up to two packets.  *)
EXTENDS Falcon

MCMaxPackets == 2
=============================================================================
