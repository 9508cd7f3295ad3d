------------------------------ MODULE MCUetPds ------------------------------
(* Model-checking instance of UetPds: up to two headers, the two-level    *)
(* variant lookup, and in-range arguments.                                 *)
EXTENDS UetPds

MCMaxPackets == 2
====
