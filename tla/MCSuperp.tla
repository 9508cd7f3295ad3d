------------------------------ MODULE MCSuperp ------------------------------
(* Model-checking instance of Superp: two packets per behaviour.          *)
EXTENDS Superp

MCMaxPackets == 2
=============================================================================
