------------------------------- MODULE UetPds -------------------------------
(***************************************************************************)
(* The UET Packet Delivery Sublayer headers (src/tools/packets/uet/        *)
(* uet_pds.py) and the PDS half of make_uet_pds.py.  Nineteen Make*        *)
(* functions build eleven structures; the 5-bit type at the top of the     *)
(* first 16-bit unit is the discriminator, but several constructors share  *)
(* a type: RUD/ROD requests with and without SYN (told apart by the syn   *)
(* bit), control packets with and without SYN, and the two ACK_CC          *)
(* variants (told apart by cc_type).  The CC variants embed the request,  *)
(* ACK or NACK structure and overwrite its type.                           *)
(***************************************************************************)
EXTENDS Integers, Sequences, FiniteSets, CtypesLayout

CONSTANTS
  MaxPackets,     (* bound on the length of the packet list                *)
  SingleLookup,   (* TRUE: dispatch on type alone, as spec.md 4.4 states   *)
  SampleOverflow  (* TRUE: MakeNackCcx may get the script's 60-bit state2  *)

VARIABLES
  flavour,      (* ctypes bitfield rule of the interpreter: "gcc" | "ms"   *)
  packets,      (* the PDS header of each packet appended by MakePacket    *)
  calls         (* history: the constructor and arguments behind packets[i] *)

vars == << flavour, packets, calls >>

-----------------------------------------------------------------------------
(* uet_pds.py: UetPdsPktType, and the Make* function behind each kind.    *)
UetPdsPktType ==
  [RudRequest |-> 2, RodRequest |-> 3, RudRequestSyn |-> 2, RodRequestSyn |-> 3,
   RudRequestCc |-> 13, RodRequestCc |-> 14, RudRequestSynCc |-> 13,
   RodRequestSynCc |-> 14, RudiRequest |-> 4, RudiResponse |-> 5, UudReq |-> 6,
   Ack |-> 7, AckCcNscc |-> 8, AckCcCredit |-> 8, AckCcx |-> 9, Nack |-> 10,
   ControlPkt |-> 11, NackCcx |-> 12, ControlPktSyn |-> 11]

Kinds == DOMAIN UetPdsPktType

(* The types whose structures differ in the syn bit.                     *)
SynTypes == {2, 3, 11, 13, 14}

RudRodFirstUnit ==
  << BF("type", 2, 5), BF("next_hdr", 2, 4), Rsv("rsvd1", 2, 2), BF("retrans", 2, 1),
     BF("ackreq", 2, 1), BF("syn", 2, 1), Rsv("rsvd2", 2, 2),
     Plain("clear_psn_offset", 2), Plain("psn", 4), Plain("spdcid", 2) >>

SynTail == << BF("use_rsv_pdc", 2, 1), Rsv("rsvd3", 2, 3), BF("psn_offset", 2, 12) >>

UetPdsRudRodRequest    == RudRodFirstUnit \o << Plain("dpdcid", 2) >>
UetPdsRudRodRequestSyn == RudRodFirstUnit \o SynTail

CcTail == << BF("ccc_id", 4, 8), BF("credit_target", 4, 24) >>
UetPdsRudRodRequestCc    == << Nest("req", UetPdsRudRodRequest) >> \o CcTail
UetPdsRudRodRequestSynCc == << Nest("req", UetPdsRudRodRequestSyn) >> \o CcTail

UetPdsAck ==
  << BF("type", 2, 5), BF("next_hdr", 2, 4), Rsv("rsvd1", 2, 1), BF("ecn_marked", 2, 1),
     BF("retrans", 2, 1), BF("probe", 2, 1), BF("request", 2, 2), Rsv("rsvd2", 2, 1),
     Plain("ack_psn_offset_probe_opaque", 2), Plain("cack_psn", 4),
     Plain("spdcid", 2), Plain("dpdcid", 2) >>

(* The part the three ACK extensions share after the embedded ACK.         *)
AckExt(first) == << Nest("ack", UetPdsAck), BF(first, 1, 4), BF("cc_flags", 1, 4),
                   Plain("mpr", 1), Plain("sack_psn_offset", 2), Plain("sack_bitmap", 8) >>

UetPdsAckCcNscc == AckExt("cc_type") \o
  << BF("service_time", 8, 16), BF("restore_cwnd", 8, 1), BF("rcv_cwnd_pend", 8, 7),
     BF("rcvd_bytes", 8, 24), BF("ooo_count", 8, 16) >>

UetPdsAckCcCredit == AckExt("cc_type") \o
  << BF("credit", 4, 24), Rsv("rsvd1", 4, 8), RsvPlain("rsvd2", 2), Plain("ooo_count", 2) >>

UetPdsAckCcx == AckExt("ccx_type") \o << Plain("ack_cc_state", 8) >>

ControlFirstUnit ==
  << BF("type", 2, 5), BF("ctl_type", 2, 4), Rsv("rsvd1", 2, 1), BF("rsvd_isrod", 2, 1),
     BF("retrans", 2, 1), BF("ack_req", 2, 1), BF("syn", 2, 1), Rsv("rsvd2", 2, 2),
     Plain("probe_opaque", 2), Plain("psn", 4), Plain("spdcid", 2) >>

UetPdsControlPkt    == ControlFirstUnit \o << Plain("dpdcid", 2) >>
UetPdsControlPktSyn == ControlFirstUnit \o SynTail

UetPdsRudiReqResp ==
  << BF("type", 2, 5), BF("next_hdr", 2, 4), Rsv("rsvd1", 2, 1), BF("ecn_marked", 2, 1),
     BF("retrans", 2, 1), Rsv("rsvd2", 2, 4), RsvPlain("rsvd3", 2), Plain("pkt_id", 4) >>

UetPdsNack ==
  << BF("type", 2, 5), BF("next_hdr", 2, 4), Rsv("rsvd1", 2, 1), BF("ecn_marked", 2, 1),
     BF("retrans", 2, 1), BF("nak_type", 2, 1), Rsv("rsvd2", 2, 3),
     Plain("nak_code", 1), Plain("vendor_code", 1), Plain("nak_psn_pkt_id", 4),
     Plain("spdcid", 2), Plain("dpdcid", 2), Plain("payload", 4) >>

UetPdsNackCcx == << Nest("nack", UetPdsNack), BF("nccx_type", 8, 4),
                   BF("nccx_ccx_state1", 8, 4), BF("nccx_ccx_state2", 8, 56) >>

(* type, next_hdr and flags fill 13 bits of the u16; rsvd needs 4 more.   *)
UetPdsUudReq == << BF("type", 2, 5), BF("next_hdr", 2, 4), BF("flags", 2, 4),
                  Rsv("rsvd", 2, 4) >>

Schema ==
  [k \in Kinds |->
     CASE k \in {"RudRequest", "RodRequest"}           -> UetPdsRudRodRequest
       [] k \in {"RudRequestSyn", "RodRequestSyn"}     -> UetPdsRudRodRequestSyn
       [] k \in {"RudRequestCc", "RodRequestCc"}       -> UetPdsRudRodRequestCc
       [] k \in {"RudRequestSynCc", "RodRequestSynCc"} -> UetPdsRudRodRequestSynCc
       [] k \in {"RudiRequest", "RudiResponse"}        -> UetPdsRudiReqResp
       [] k = "Ack"           -> UetPdsAck
       [] k = "AckCcNscc"     -> UetPdsAckCcNscc
       [] k = "AckCcCredit"   -> UetPdsAckCcCredit
       [] k = "AckCcx"        -> UetPdsAckCcx
       [] k = "ControlPkt"    -> UetPdsControlPkt
       [] k = "ControlPktSyn" -> UetPdsControlPktSyn
       [] k = "Nack"          -> UetPdsNack
       [] k = "NackCcx"       -> UetPdsNackCcx
       [] k = "UudReq"        -> UetPdsUudReq]

-----------------------------------------------------------------------------
(* Constructor bodies: the assignments of each Make* function in the      *)
(* order the code performs them; a is the caller's argument record.  The  *)
(* fields the code never assigns keep ctypes' zero fill.                   *)

(* Mutant: rsvd2 is assigned the syn argument.                            *)
FillRudRodRequestRsvd2(pre, syn, a) ==
  << Set(pre, "next_hdr", a.next_hdr), Set(pre, "rsvd1", Const(0)) >>
  \o Sets(pre, a, << "retrans", "ackreq" >>)
  \o << Set(pre, "syn", Const(syn)), Set(pre, "rsvd2", Const(syn)) >>
  \o Sets(pre, a, << "clear_psn_offset", "psn", "spdcid" >>)

FillRudRodRequest(pre, syn, a) ==
  << Set(pre, "next_hdr", a.next_hdr), Set(pre, "rsvd1", Const(0)) >>
  \o Sets(pre, a, << "retrans", "ackreq" >>)
  \o << Set(pre, "syn", Const(syn)), Set(pre, "rsvd2", Const(0)) >>
  \o Sets(pre, a, << "clear_psn_offset", "psn", "spdcid" >>)

(* MakeRodRequest, MakeRudRequest.                                         *)
MakeRudRodRequestBody(k, a) ==
  << Set(<<>>, "type", Const(UetPdsPktType[k])), Set(<<>>, "dpdcid", a.dpdcid) >>
  \o FillRudRodRequest(<<>>, 0, a)

(* Mutant: the SYN constructor passes syn = 0 to the fill function.       *)
MakeRudRodRequestSynBodySyn0(k, a) ==
  << Set(<<>>, "type", Const(UetPdsPktType[k])) >>
  \o Sets(<<>>, a, << "use_rsv_pdc", "psn_offset" >>)
  \o FillRudRodRequest(<<>>, 0, a)

(* MakeRodRequestSyn, MakeRudRequestSyn.                                   *)
MakeRudRodRequestSynBody(k, a) ==
  << Set(<<>>, "type", Const(UetPdsPktType[k])) >>
  \o Sets(<<>>, a, << "use_rsv_pdc", "psn_offset" >>)
  \o FillRudRodRequest(<<>>, 1, a)

(* MakeRodRequestCc, MakeRudRequestCc.                                     *)
MakeRudRodRequestCcBody(k, a) ==
  << Set(<< "req" >>, "type", Const(UetPdsPktType[k])), Set(<< "req" >>, "dpdcid", a.dpdcid) >>
  \o Sets(<<>>, a, << "ccc_id", "credit_target" >>)
  \o FillRudRodRequest(<< "req" >>, 0, a)

(* MakeRodRequestSynCc, MakeRudRequestSynCc.                               *)
MakeRudRodRequestSynCcBody(k, a) ==
  << Set(<< "req" >>, "type", Const(UetPdsPktType[k])) >>
  \o Sets(<< "req" >>, a, << "use_rsv_pdc", "psn_offset" >>)
  \o Sets(<<>>, a, << "ccc_id", "credit_target" >>)
  \o FillRudRodRequest(<< "req" >>, 1, a)

FillAck(pre, a) ==
  Sets(pre, a, << "next_hdr", "ecn_marked", "retrans", "probe", "request", "cack_psn",
                  "spdcid", "dpdcid", "ack_psn_offset_probe_opaque" >>)

MakeAckBody(a) == << Set(<<>>, "type", Const(UetPdsPktType.Ack)) >> \o FillAck(<<>>, a)

(* MakeAckCcNscc, MakeAckCcCredit: type ACK_CC, then cc_type after the fill. *)
MakeAckCcBody(k, cc_type, a, rest) ==
  << Set(<< "ack" >>, "type", Const(UetPdsPktType[k])) >>
  \o FillAck(<< "ack" >>, a)
  \o << Set(<<>>, "cc_type", Const(cc_type)) >>
  \o Sets(<<>>, a, << "cc_flags", "mpr", "sack_psn_offset", "sack_bitmap" >> \o rest)

(* MakeAckCcx: cc_flags is not a parameter and is never assigned.         *)
MakeAckCcxBody(a) ==
  << Set(<< "ack" >>, "type", Const(UetPdsPktType.AckCcx)) >>
  \o FillAck(<< "ack" >>, a)
  \o Sets(<<>>, a, << "mpr", "sack_psn_offset", "sack_bitmap", "ccx_type", "ack_cc_state" >>)

MakeControlPktBody(a) ==
  << Set(<<>>, "type", Const(UetPdsPktType.ControlPkt)) >>
  \o Sets(<<>>, a, << "ctl_type", "rsvd_isrod", "retrans", "ack_req" >>)
  \o << Set(<<>>, "syn", Const(0)) >>
  \o Sets(<<>>, a, << "probe_opaque", "psn", "spdcid", "dpdcid" >>)

(* MakeControlPktSyn: ack_req is not a parameter and is never assigned.   *)
MakeControlPktSynBody(a) ==
  << Set(<<>>, "type", Const(UetPdsPktType.ControlPktSyn)) >>
  \o Sets(<<>>, a, << "ctl_type", "rsvd_isrod", "retrans" >>)
  \o << Set(<<>>, "syn", Const(1)) >>
  \o Sets(<<>>, a, << "probe_opaque", "psn", "spdcid", "use_rsv_pdc", "psn_offset" >>)

(* MakeRudiRequest, MakeRudiResponse, with FillRudiReqResp.               *)
MakeRudiReqRespBody(k, a) ==
  << Set(<<>>, "type", Const(UetPdsPktType[k])) >>
  \o Sets(<<>>, a, << "next_hdr", "ecn_marked", "retrans", "pkt_id" >>)

FillNack(pre, a) ==
  Sets(pre, a, << "next_hdr", "ecn_marked", "retrans", "nak_type", "nak_code",
                  "vendor_code", "nak_psn_pkt_id", "spdcid", "dpdcid", "payload" >>)

MakeNackBody(a) == << Set(<<>>, "type", Const(UetPdsPktType.Nack)) >> \o FillNack(<<>>, a)

MakeNackCcxBody(a) ==
  << Set(<< "nack" >>, "type", Const(UetPdsPktType.NackCcx)) >>
  \o FillNack(<< "nack" >>, a)
  \o Sets(<<>>, a, << "nccx_type", "nccx_ccx_state1", "nccx_ccx_state2" >>)

(* MakeUudReq: flags is not a parameter and is never assigned.            *)
MakeUudReqBody(a) ==
  << Set(<<>>, "type", Const(UetPdsPktType.UudReq)), Set(<<>>, "next_hdr", a.next_hdr) >>

Body(k, a) ==
  CASE k \in {"RudRequest", "RodRequest"}           -> MakeRudRodRequestBody(k, a)
    [] k \in {"RudRequestSyn", "RodRequestSyn"}     -> MakeRudRodRequestSynBody(k, a)
    [] k \in {"RudRequestCc", "RodRequestCc"}       -> MakeRudRodRequestCcBody(k, a)
    [] k \in {"RudRequestSynCc", "RodRequestSynCc"} -> MakeRudRodRequestSynCcBody(k, a)
    [] k \in {"RudiRequest", "RudiResponse"}        -> MakeRudiReqRespBody(k, a)
    [] k = "Ack"           -> MakeAckBody(a)
    [] k = "AckCcNscc"     -> MakeAckCcBody(k, 0, a, << "service_time", "restore_cwnd",
                                 "rcv_cwnd_pend", "rcvd_bytes", "ooo_count" >>)
    [] k = "AckCcCredit"   -> MakeAckCcBody(k, 1, a, << "credit", "ooo_count" >>)
    [] k = "AckCcx"        -> MakeAckCcxBody(a)
    [] k = "ControlPkt"    -> MakeControlPktBody(a)
    [] k = "ControlPktSyn" -> MakeControlPktSynBody(a)
    [] k = "Nack"          -> MakeNackBody(a)
    [] k = "NackCcx"       -> MakeNackCcxBody(a)
    [] k = "UudReq"        -> MakeUudReqBody(a)

(* The parameters of each Make* function.                                 *)
ReqParams  == {"next_hdr", "retrans", "ackreq", "clear_psn_offset", "psn", "spdcid"}
AckParams  == {"next_hdr", "ecn_marked", "retrans", "probe", "request", "cack_psn",
               "ack_psn_offset_probe_opaque", "spdcid", "dpdcid"}
AckExtParams == {"mpr", "sack_psn_offset", "sack_bitmap"}
NackParams == {"next_hdr", "ecn_marked", "retrans", "nak_type", "nak_code", "vendor_code",
               "nak_psn_pkt_id", "spdcid", "dpdcid", "payload"}
CtlParams  == {"ctl_type", "rsvd_isrod", "retrans", "probe_opaque", "psn", "spdcid"}
Params ==
  [k \in Kinds |->
     CASE k \in {"RudRequest", "RodRequest"}           -> ReqParams \cup {"dpdcid"}
       [] k \in {"RudRequestSyn", "RodRequestSyn"}     -> ReqParams \cup {"use_rsv_pdc", "psn_offset"}
       [] k \in {"RudRequestCc", "RodRequestCc"}       -> ReqParams \cup {"dpdcid", "ccc_id", "credit_target"}
       [] k \in {"RudRequestSynCc", "RodRequestSynCc"} ->
            ReqParams \cup {"use_rsv_pdc", "psn_offset", "ccc_id", "credit_target"}
       [] k \in {"RudiRequest", "RudiResponse"}        -> {"next_hdr", "ecn_marked", "retrans", "pkt_id"}
       [] k = "Ack"           -> AckParams
       [] k = "AckCcNscc"     -> AckParams \cup AckExtParams \cup {"cc_flags", "service_time",
                                   "restore_cwnd", "rcv_cwnd_pend", "rcvd_bytes", "ooo_count"}
       [] k = "AckCcCredit"   -> AckParams \cup AckExtParams \cup {"cc_flags", "credit", "ooo_count"}
       [] k = "AckCcx"        -> AckParams \cup AckExtParams \cup {"ccx_type", "ack_cc_state"}
       [] k = "ControlPkt"    -> CtlParams \cup {"ack_req", "dpdcid"}
       [] k = "ControlPktSyn" -> CtlParams \cup {"use_rsv_pdc", "psn_offset"}
       [] k = "Nack"          -> NackParams
       [] k = "NackCcx"       -> NackParams \cup {"nccx_type", "nccx_ccx_state1", "nccx_ccx_state2"}
       [] k = "UudReq"        -> {"next_hdr"}]

(* Constants each constructor writes, and the non-reserved fields it       *)
(* leaves at ctypes' zero (AckCcx cc_flags, ControlPktSyn ack_req, UudReq  *)
(* flags).                                                                 *)
SynOf(k) == IF k \in {"RudRequestSyn", "RodRequestSyn", "RudRequestSynCc",
                      "RodRequestSynCc", "ControlPktSyn"} THEN 1 ELSE 0
Fixed ==
  [k \in Kinds |->
     CASE UetPdsPktType[k] \in SynTypes ->
            IF k = "ControlPktSyn" THEN [type |-> UetPdsPktType[k], syn |-> 1, ack_req |-> 0]
            ELSE [type |-> UetPdsPktType[k], syn |-> SynOf(k)]
       [] k = "AckCcNscc"   -> [type |-> UetPdsPktType[k], cc_type |-> 0]
       [] k = "AckCcCredit" -> [type |-> UetPdsPktType[k], cc_type |-> 1]
       [] k = "AckCcx"      -> [type |-> UetPdsPktType[k], cc_flags |-> 0]
       [] k = "UudReq"      -> [type |-> UetPdsPktType[k], flags |-> 0]
       [] OTHER             -> [type |-> UetPdsPktType[k]]]

(* The ctypes layout of every variant under both rules, and the layout    *)
(* spec.md section 4.1 gives it (tables computed once).                    *)
Layout == [fl \in Flavours |-> [k \in Kinds |-> PlaceAll(Schema[k], fl, TRUE)]]
SpecLayout == [k \in Kinds |-> SpecPlaceAll(Schema[k])]

(* Dispatch.  spec.md 4.4 selects the variant by the type field alone; the *)
(* code gives several Make* functions one type, so the lookup here reads a *)
(* second field where the structures differ: syn for request and control   *)
(* types, cc_type for ACK_CC.  SingleLookup keeps the spec's one-level     *)
(* table, which can register one variant per type.                         *)
TypeField   == FieldAt(SpecLayout.Ack, << "type" >>)
SynField    == FieldAt(SpecLayout.RudRequest, << "syn" >>)
CcTypeField == FieldAt(SpecLayout.AckCcNscc, << "cc_type" >>)

Key(t, syn, cc_type) ==
  << Num(t, 5),
     CASE ~SingleLookup /\ t \in SynTypes -> Num(syn, 1)
       [] ~SingleLookup /\ t = UetPdsPktType.AckCcNscc -> Num(cc_type, 4)
       [] OTHER -> <<>> >>

VariantTable ==
  LET KeyOf(k) == Key(UetPdsPktType[k], SynOf(k), IF k = "AckCcCredit" THEN 1 ELSE 0)
  IN [key \in {KeyOf(k) : k \in Kinds} |-> CHOOSE k \in Kinds : KeyOf(k) = key]

Dispatch(buf) ==
  LET t   == ReadField(buf, TypeField, TRUE)
      Sub == CASE ~SingleLookup /\ t \in {Num(u, 5) : u \in SynTypes} -> ReadField(buf, SynField, TRUE)
               [] ~SingleLookup /\ t = Num(UetPdsPktType.AckCcNscc, 5) -> ReadField(buf, CcTypeField, TRUE)
               [] OTHER -> <<>>
      key == << t, Sub >>
  IN IF key \in DOMAIN VariantTable THEN VariantTable[key] ELSE "UnknownVariant"

(* make_uet_pds.py passes MakeNackCcx an nccx_ccx_state2 of 60 bits.      *)
OverArgs == IF SampleOverflow THEN {<< "NackCcx", "nccx_ccx_state2" >>} ELSE {}

Fam == INSTANCE HeaderFamily WITH BigEndian <- [k \in Kinds |-> TRUE], Rules <- Flavours,
                                  Derived <- [k \in Kinds |-> <<>>],
                                  Dispatch <- LAMBDA buf, named : Dispatch(buf)

-----------------------------------------------------------------------------
Init == Fam!Init

(* pds = uet_pds.MakeX(...); MakePacket(pds, ses) in make_uet_pds.py.      *)
MakeRodRequest      == Fam!Make("RodRequest")
MakeRudRequest      == Fam!Make("RudRequest")
MakeRodRequestSyn   == Fam!Make("RodRequestSyn")
MakeRudRequestSyn   == Fam!Make("RudRequestSyn")
MakeRodRequestCc    == Fam!Make("RodRequestCc")
MakeRudRequestCc    == Fam!Make("RudRequestCc")
MakeRodRequestSynCc == Fam!Make("RodRequestSynCc")
MakeRudRequestSynCc == Fam!Make("RudRequestSynCc")
MakeAck             == Fam!Make("Ack")
MakeAckCcNscc       == Fam!Make("AckCcNscc")
MakeAckCcCredit     == Fam!Make("AckCcCredit")
MakeAckCcx          == Fam!Make("AckCcx")
MakeControlPkt      == Fam!Make("ControlPkt")
MakeControlPktSyn   == Fam!Make("ControlPktSyn")
MakeRudiRequest     == Fam!Make("RudiRequest")
MakeRudiResponse    == Fam!Make("RudiResponse")
MakeNack            == Fam!Make("Nack")
MakeNackCcx         == Fam!Make("NackCcx")
MakeUudReq          == Fam!Make("UudReq")

Next ==
  \/ MakeRodRequest \/ MakeRudRequest \/ MakeRodRequestSyn \/ MakeRudRequestSyn
  \/ MakeRodRequestCc \/ MakeRudRequestCc \/ MakeRodRequestSynCc \/ MakeRudRequestSynCc
  \/ MakeAck \/ MakeAckCcNscc \/ MakeAckCcCredit \/ MakeAckCcx
  \/ MakeControlPkt \/ MakeControlPktSyn \/ MakeRudiRequest \/ MakeRudiResponse
  \/ MakeNack \/ MakeNackCcx \/ MakeUudReq

Spec == Init /\ [][Next]_vars

-----------------------------------------------------------------------------
(* Type: each PDS header has the size spec.md gives its variant, and its   *)
(* bits are constants or bits of the Make* call's arguments.               *)
TypeOK == Fam!TypeOK

(* Round trip: every PDS header decodes to the variant built, though four  *)
(* pairs of constructors share a type and tell themselves apart only by    *)
(* the syn or cc_type value the constructor writes, and every field reads  *)
(* back the caller's argument, or the constant or zero the constructor    *)
(* leaves there; a value wider than its field breaks it.                   *)
RoundTrip == Fam!RoundTrip

(* Every storage unit of every PDS structure is filled exactly.           *)
UnitsWellFormed == Fam!UnitsWellFormed

(* The PDS constructors implement the abstract header log: beyond the      *)
(* round trip, every reserved field (rsvd1..rsvd3 of every shape, most of  *)
(* them never assigned by the code) is zero.                               *)
HLSpec == Fam!HLSpec
=============================================================================
