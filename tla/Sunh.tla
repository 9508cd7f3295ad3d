-------------------------------- MODULE Sunh --------------------------------
(***************************************************************************)
(* The SUNH routing header (src/tools/packets/sunh/sunh.py): one           *)
(* ctypes.BigEndianStructure and its constructor.  make_superp.py puts one *)
(* in front of a SUPERp packet (MakeSUNHPacket8); make_sunh.py in front   *)
(* of a UDP header.  The family that builds it extends this module.      *)
(***************************************************************************)
EXTENDS CtypesLayout

(* hop_limit and flow_label share one big-endian c_uint16.                 *)
SUNH_Header ==
  << Plain("traffic_class", 1), Plain("next_hdr", 1),
     BF("hop_limit", 2, 4), BF("flow_label", 2, 12),
     Plain("src_addr", 2), Plain("dest_addr", 2) >>

(* MakeSUNH_Header: every field from the argument of the same name.        *)
MakeSUNH_HeaderBody(a) ==
  Sets(<<>>, a, << "traffic_class", "next_hdr", "hop_limit", "flow_label",
                   "src_addr", "dest_addr" >>)
=============================================================================
