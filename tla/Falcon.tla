------------------------------- MODULE Falcon -------------------------------
(***************************************************************************)
(* The Falcon transport-fabric headers (src/tools/packets/falcon/) and the *)
(* sample generator make_falcon.py that builds them.  The seven variants   *)
(* share a discriminator (packet_type / pkt_type) at the same bits of the  *)
(* second 32-bit word; the request variants embed FalconBaseHdr, the       *)
(* extended ACK embeds FalconBaseAck.                                      *)
(*                                                                         *)
(* State: the generator's packet list (the bytes of each header handed to  *)
(* Raw(load=...)), the ctypes layout rule of the interpreter, and, as a    *)
(* history variable, the constructor call behind each packet.  Every      *)
(* argument of a call is symbolic: Arg(p, w) stands for any value of the  *)
(* field's width, so one call covers all in-range values at once.          *)
(***************************************************************************)
EXTENDS Integers, Sequences, CtypesLayout

CONSTANT MaxPackets    (* bound on the length of the packet list          *)

VARIABLES
  flavour,      (* ctypes bitfield rule of the interpreter: "gcc" | "ms"   *)
  packets,      (* packets appended by MakePacket: wire bits of each header *)
  calls         (* history: the constructor and arguments behind packets[i] *)

vars == <<flavour, packets, calls>>

-----------------------------------------------------------------------------
(* falcon.py: protocol constants and the packet_type enumeration.          *)
FALCON_PROTO_VERSION == 1

FalconPktType == [PullReq |-> 0, PullData |-> 3, PushData |-> 5, Resync |-> 6,
                  Nack |-> 8, Ack |-> 9, Eack |-> 10]

Kinds == DOMAIN FalconPktType

(* The _fields_ of each ctypes structure.                                 *)
FalconBaseHdr ==
  << BF("version", 4, 4), Rsv("rsvd", 4, 4), BF("dest_cid", 4, 24),
     BF("dest_function", 4, 24), BF("protocol_type", 4, 3),
     BF("packet_type", 4, 4), BF("ack_req", 4, 1),
     Plain("recv_data_psn", 4), Plain("recv_req_psn", 4), Plain("psn", 4),
     Plain("req_seqno", 4) >>

FalconPullReq  == << Nest("base_hdr", FalconBaseHdr), RsvPlain("rsvd1", 2),
                     Plain("req_length", 2), RsvPlain("rsvd2", 4) >>

FalconPullData == << Nest("base_hdr", FalconBaseHdr) >>

FalconPushData == << Nest("base_hdr", FalconBaseHdr), RsvPlain("rsvd", 2),
                     Plain("req_length", 2) >>

FalconResync   == << Nest("base_hdr", FalconBaseHdr), BF("resync_code", 4, 8),
                     BF("resync_pkt_type", 4, 4), Rsv("rsvd", 4, 20),
                     Plain("vendor_defined", 4) >>

(* The first seven words of FalconBaseAck and FalconNack are the same.    *)
AckPrefix ==
  << BF("version", 4, 4), Rsv("rsvd1", 4, 4), BF("cnx_id", 4, 24),
     Rsv("rsvd2", 4, 27), BF("pkt_type", 4, 4), Rsv("rsvd3", 4, 1),
     Plain("recv_data_wind_seqno", 4), Plain("recv_req_wind_seqno", 4),
     Plain("timestamp_t1", 4), Plain("timestamp_t2", 4),
     BF("hop_count", 4, 4), BF("rx_buffer_occ", 4, 5),
     BF("ecn_rx_pkt_cnt", 4, 14), Rsv("rsvd4", 4, 9) >>

FalconBaseAck == AckPrefix \o << Rsv("rsvd5", 4, 9), BF("rue_info", 4, 21),
                                 BF("oo_wind_notify", 4, 2) >>

FalconEack == << Nest("base_ack", FalconBaseAck),
                 Plain("rcv_data_seqno_ack_bitmap_1", 8),
                 Plain("rcv_data_seqno_ack_bitmap_2", 8),
                 Plain("rcv_req_seqno_ack_bitmap_1", 8),
                 Plain("rcv_req_seqno_ack_bitmap_2", 8),
                 Plain("rcv_req_seqno_bitmap", 8) >>

(* Mutant: rue_info keeps the 21 bits it has in FalconBaseAck.            *)
FalconNackRue21 == AckPrefix \o
  << Rsv("rsvd5", 4, 9), BF("rue_info", 4, 21), Plain("nack_psn", 4),
     Plain("nack_code", 1), Rsv("rsvd6", 1, 3), BF("rnr_nack_timeout", 1, 5),
     BF("window", 1, 1), Rsv("rsvd7", 1, 7), Plain("ulp_nack_code", 1) >>

FalconNack == AckPrefix \o
  << Rsv("rsvd5", 4, 9), BF("rue_info", 4, 23), Plain("nack_psn", 4),
     Plain("nack_code", 1), Rsv("rsvd6", 1, 3), BF("rnr_nack_timeout", 1, 5),
     BF("window", 1, 1), Rsv("rsvd7", 1, 7), Plain("ulp_nack_code", 1) >>

Schema == [PullReq |-> FalconPullReq, PullData |-> FalconPullData,
           PushData |-> FalconPushData, Resync |-> FalconResync,
           Ack |-> FalconBaseAck, Eack |-> FalconEack, Nack |-> FalconNack]


-----------------------------------------------------------------------------
(* Constructor bodies: the field assignments of each Make* function, in   *)
(* the order the code performs them; a is the caller's argument record.   *)

(* Mutant: recv_data_psn is given the recv_req_psn argument.              *)
FillBaseHdrSwapPsn(pre, packet_type, a) ==
  << Set(pre, "version", Const(FALCON_PROTO_VERSION)), Set(pre, "rsvd", Const(0)) >>
  \o Sets(pre, a, << "dest_cid", "dest_function" >>)
  \o << Set(pre, "packet_type", Const(packet_type)) >>
  \o Sets(pre, a, << "protocol_type", "ack_req" >>)
  \o << Set(pre, "recv_data_psn", a.recv_req_psn) >>
  \o Sets(pre, a, << "recv_req_psn", "psn", "req_seqno" >>)

FillBaseHdr(pre, packet_type, a) ==
  << Set(pre, "version", Const(FALCON_PROTO_VERSION)), Set(pre, "rsvd", Const(0)) >>
  \o Sets(pre, a, << "dest_cid", "dest_function" >>)
  \o << Set(pre, "packet_type", Const(packet_type)) >>
  \o Sets(pre, a, << "protocol_type", "ack_req", "recv_data_psn", "recv_req_psn",
                     "psn", "req_seqno" >>)

MakePullReqBody(a) ==
  FillBaseHdr(<< "base_hdr" >>, FalconPktType.PullReq, a)
  \o << Set(<<>>, "rsvd1", Const(0)), Set(<<>>, "req_length", a.req_length),
        Set(<<>>, "rsvd2", Const(0)) >>

MakePullDataBody(a) == FillBaseHdr(<< "base_hdr" >>, FalconPktType.PullData, a)

(* Mutant: the reserved half-word is assigned req_length.                 *)
MakePushDataBodyRsvd(a) ==
  FillBaseHdr(<< "base_hdr" >>, FalconPktType.PushData, a)
  \o << Set(<<>>, "rsvd", a.req_length), Set(<<>>, "req_length", a.req_length) >>

MakePushDataBody(a) ==
  FillBaseHdr(<< "base_hdr" >>, FalconPktType.PushData, a)
  \o << Set(<<>>, "rsvd", Const(0)), Set(<<>>, "req_length", a.req_length) >>

MakeResyncBody(a) ==
  FillBaseHdr(<< "base_hdr" >>, FalconPktType.Resync, a)
  \o Sets(<<>>, a, << "resync_code", "resync_pkt_type" >>)
  \o << Set(<<>>, "rsvd", Const(0)), Set(<<>>, "vendor_defined", a.vendor_defined) >>

FillBaseAck(pre, pkt_type, a) ==
  << Set(pre, "version", Const(FALCON_PROTO_VERSION)), Set(pre, "rsvd1", Const(0)),
     Set(pre, "cnx_id", a.cnx_id), Set(pre, "rsvd2", Const(0)),
     Set(pre, "pkt_type", Const(pkt_type)), Set(pre, "rsvd3", Const(0)) >>
  \o Sets(pre, a, << "recv_data_wind_seqno", "recv_req_wind_seqno", "timestamp_t1",
                     "timestamp_t2", "hop_count", "rx_buffer_occ", "ecn_rx_pkt_cnt" >>)
  \o << Set(pre, "rsvd4", Const(0)), Set(pre, "rsvd5", Const(0)),
        Set(pre, "rue_info", a.rue_info), Set(pre, "oo_wind_notify", a.oo_wind_notify) >>

MakeAckBody(a) == FillBaseAck(<<>>, FalconPktType.Ack, a)

MakeEackBody(a) ==
  FillBaseAck(<< "base_ack" >>, FalconPktType.Eack, a)
  \o Sets(<<>>, a, << "rcv_data_seqno_ack_bitmap_1", "rcv_data_seqno_ack_bitmap_2",
                      "rcv_req_seqno_ack_bitmap_1", "rcv_req_seqno_ack_bitmap_2",
                      "rcv_req_seqno_bitmap" >>)

MakeNackBody(a) ==
  << Set(<<>>, "version", Const(FALCON_PROTO_VERSION)), Set(<<>>, "rsvd1", Const(0)),
     Set(<<>>, "cnx_id", a.cnx_id), Set(<<>>, "rsvd2", Const(0)),
     Set(<<>>, "pkt_type", Const(FalconPktType.Nack)), Set(<<>>, "rsvd3", Const(0)) >>
  \o Sets(<<>>, a, << "recv_data_wind_seqno", "recv_req_wind_seqno", "timestamp_t1",
                      "timestamp_t2", "hop_count", "rx_buffer_occ", "ecn_rx_pkt_cnt" >>)
  \o << Set(<<>>, "rsvd4", Const(0)), Set(<<>>, "rsvd5", Const(0)),
        Set(<<>>, "rue_info", a.rue_info), Set(<<>>, "nack_psn", a.nack_psn),
        Set(<<>>, "nack_code", a.nack_code), Set(<<>>, "rsvd6", Const(0)),
        Set(<<>>, "rnr_nack_timeout", a.rnr_nack_timeout), Set(<<>>, "window", a.window),
        Set(<<>>, "rsvd7", Const(0)), Set(<<>>, "ulp_nack_code", a.ulp_nack_code) >>

Body(k, a) ==
  CASE k = "PullReq"  -> MakePullReqBody(a)
    [] k = "PullData" -> MakePullDataBody(a)
    [] k = "PushData" -> MakePushDataBody(a)
    [] k = "Resync"   -> MakeResyncBody(a)
    [] k = "Ack"      -> MakeAckBody(a)
    [] k = "Eack"     -> MakeEackBody(a)
    [] k = "Nack"     -> MakeNackBody(a)

(* The parameters of each Make* function other than the header itself.    *)
BaseHdrParams == {"dest_cid", "dest_function", "protocol_type", "ack_req",
                  "recv_data_psn", "recv_req_psn", "psn", "req_seqno"}
BaseAckParams == {"cnx_id", "recv_data_wind_seqno", "recv_req_wind_seqno",
                  "timestamp_t1", "timestamp_t2", "hop_count", "rx_buffer_occ",
                  "ecn_rx_pkt_cnt", "rue_info"}
Params ==
  [PullReq  |-> BaseHdrParams \cup {"req_length"},
   PullData |-> BaseHdrParams,
   PushData |-> BaseHdrParams \cup {"req_length"},
   Resync   |-> BaseHdrParams \cup {"resync_code", "resync_pkt_type", "vendor_defined"},
   Ack      |-> BaseAckParams \cup {"oo_wind_notify"},
   Eack     |-> BaseAckParams \cup {"oo_wind_notify", "rcv_data_seqno_ack_bitmap_1",
                  "rcv_data_seqno_ack_bitmap_2", "rcv_req_seqno_ack_bitmap_1",
                  "rcv_req_seqno_ack_bitmap_2", "rcv_req_seqno_bitmap"},
   Nack     |-> BaseAckParams \cup {"nack_psn", "nack_code", "rnr_nack_timeout",
                  "window", "ulp_nack_code"}]

(* Constants each constructor writes besides reserved zeros.             *)
Fixed == [k \in Kinds |->
            IF k \in {"Ack", "Eack", "Nack"}
            THEN [version |-> FALCON_PROTO_VERSION, pkt_type |-> FalconPktType[k]]
            ELSE [version |-> FALCON_PROTO_VERSION, packet_type |-> FalconPktType[k]]]

(* Dispatch (spec.md 4.4): every variant has its discriminator where       *)
(* FalconBaseHdr places packet_type; its value selects the variant.       *)
Discriminator == FieldAt(SpecPlaceAll(FalconBaseHdr), << "packet_type" >>)

VariantTable == [t \in {Num(FalconPktType[k], Discriminator.width) : k \in Kinds} |->
                   CHOOSE k \in Kinds : Num(FalconPktType[k], Discriminator.width) = t]

Dispatch(buf) ==
  LET t == ReadField(buf, Discriminator, TRUE)
  IN IF t \in DOMAIN VariantTable THEN VariantTable[t] ELSE "UnknownVariant"

(* The ctypes layout of every variant under both rules, and the layout    *)
(* spec.md section 4.1 gives it (tables computed once).                    *)
Layout == [fl \in Flavours |-> [k \in Kinds |-> PlaceAll(Schema[k], fl, TRUE)]]
SpecLayout == [k \in Kinds |-> SpecPlaceAll(Schema[k])]

Fam == INSTANCE HeaderFamily WITH BigEndian <- [k \in Kinds |-> TRUE], OverArgs <- {}, Rules <- Flavours,
                                  Derived <- [k \in Kinds |-> <<>>],
                                  Dispatch <- LAMBDA buf, named : Dispatch(buf)

-----------------------------------------------------------------------------
Init == Fam!Init

(* req = falcon.MakeX(...); MakePacket(req) in make_falcon.py.            *)
MakePullReq  == Fam!Make("PullReq")
MakePullData == Fam!Make("PullData")
MakePushData == Fam!Make("PushData")
MakeResync   == Fam!Make("Resync")
MakeAck      == Fam!Make("Ack")
MakeEack     == Fam!Make("Eack")
MakeNack     == Fam!Make("Nack")

Next == \/ MakePullReq \/ MakePullData \/ MakePushData \/ MakeResync
        \/ MakeAck \/ MakeEack \/ MakeNack

Spec == Init /\ [][Next]_vars

-----------------------------------------------------------------------------
(* Type: each Falcon packet has the size of its variant, and its bits are  *)
(* constants or bits of the Make* call's arguments.                        *)
TypeOK == Fam!TypeOK

(* Round trip: every Falcon packet decodes, through the packet_type table, *)
(* to the variant built and to the arguments given to its Make* function; *)
(* ACK, EACK and NACK included, whose pkt_type must sit exactly where     *)
(* FalconBaseHdr has packet_type.                                          *)
RoundTrip == Fam!RoundTrip

(* Every storage unit of every Falcon structure is filled exactly.        *)
UnitsWellFormed == Fam!UnitsWellFormed

(* The Falcon generator implements the abstract header log, reserved      *)
(* fields zero included.                                                   *)
HLSpec == Fam!HLSpec
=============================================================================
