------------------------------ MODULE MCUetSes ------------------------------
(* The SES constructors for TLC: every ordered pair of calls.              *)
EXTENDS UetSes

MCMaxPackets == 2
=============================================================================
