------------------------------- MODULE UetSes -------------------------------
(***************************************************************************)
(* The UET Semantic Sublayer headers (src/tools/packets/uet/uet_ses.py)    *)
(* and the SES headers make_uet_ses.py builds.  Standard, medium and small *)
(* requests embed the 12-byte common header as cmn and differ in what     *)
(* follows it; extension headers (rendezvous, atomic) and three response  *)
(* shapes stand alone.  No SES header carries a field that names its own  *)
(* shape: the next_hdr of the PDS header in front of it, or the opcode of *)
(* the request in front of an extension header, does.  The spec's         *)
(* decoder is therefore given the schema (spec.md 4.3 decode(schema,      *)
(* bytes)).  The two data responses store the 24-bit job_id as an 8-bit   *)
(* job_id1 = job_id >> 16 and a 16-bit job_id2 = job_id & 0xffff.          *)
(***************************************************************************)
EXTENDS Integers, Sequences, FiniteSets, CtypesLayout

CONSTANTS
  MaxPackets,   (* bound on the length of the packet list                  *)
  Rules         (* the ctypes rules of the interpreters considered         *)

VARIABLES
  flavour,      (* ctypes bitfield rule of the interpreter: "gcc" | "ms"   *)
  packets,      (* the SES headers appended by MakePacket                  *)
  calls         (* history: the constructor and arguments behind packets[i] *)

vars == << flavour, packets, calls >>

-----------------------------------------------------------------------------
(* The Make* functions of uet_ses.py, one variant each.                   *)
Kinds == {"RequestSomHdrStd", "RequestNoSomHdrStd", "DeferSendHdrStd",
          "ReadyToRestartHdrStd", "RequestHdrMedium", "RequestHdrSmall",
          "RendezvousExtHdr", "AtomicOpExtHdr", "AtomicCmpAndSwapHdr",
          "HdrResponse", "WithDataHdrResponse", "WithDataHdrSmallResponse"}

(* _fields_ of each structure.                                            *)
UetSesCommonHdr ==
  << Rsv("rsvd1", 1, 2), BF("opcode", 1, 6),
     BF("version", 1, 2), BF("delivery_complete", 1, 1), BF("initiator_error", 1, 1),
     BF("relative_addressing", 1, 1), BF("hdr_data_present", 1, 1),
     BF("end_of_msg", 1, 1), BF("start_of_msg", 1, 1),
     Plain("message_id", 2), BF("ri_generation", 4, 8), BF("job_id", 4, 24),
     Rsv("rsvd2", 2, 4), BF("pid_on_fep", 2, 12),
     Rsv("rsvd3", 2, 4), BF("resource_index", 2, 12) >>

UetSesRequestSomHdrStd ==
  << Nest("cmn", UetSesCommonHdr), Plain("buffer_offset", 8), Plain("initiator", 4),
     Plain("memory_key_match_bits", 8), Plain("header_data", 8), Plain("request_length", 4) >>

UetSesRequestNoSomHdrStd ==
  << Nest("cmn", UetSesCommonHdr), Plain("buffer_offset", 8), Plain("initiator", 4),
     Plain("memory_key_match_bits", 8), RsvPlain("rsvd1", 2),
     Rsv("rsvd2", 2, 2), BF("payload_length", 2, 14),
     Plain("message_offset", 4), Plain("request_length", 4) >>

UetSesDeferSendHdrStd ==
  << Nest("cmn", UetSesCommonHdr), Plain("initiator_restart_token", 4),
     Plain("target_restart_token", 4), Plain("initiator", 4), Plain("match_bits", 8),
     Plain("header_data", 8), Plain("request_length", 4) >>

UetSesReadyToRestartHdrStd ==
  << Nest("cmn", UetSesCommonHdr), Plain("buffer_offset", 8), Plain("initiator", 4),
     Plain("initiator_restart_token", 4), Plain("target_restart_token", 4),
     Plain("header_data", 8), Plain("request_length", 4) >>

UetSesRequestHdrMedium ==
  << Nest("cmn", UetSesCommonHdr), Plain("header_data", 8), Plain("initiator", 4),
     Plain("memory_key", 8) >>

UetSesMessageHdrSmall == << Nest("cmn", UetSesCommonHdr), Plain("buffer_offset", 8) >>

UetSesRendezvousExtHdr ==
  << Plain("eager_length", 4), BF("ri_generation", 4, 8), BF("pid_on_fep", 4, 12),
     BF("resource_index", 4, 12) >>

UetSesAtomicOpExtHdr ==
  << Plain("atomic_code", 1), Plain("atomic_datatype", 1),
     BF("ctrl_cacheable", 1, 1), BF("cpu_coherent", 1, 1), Rsv("rsvd1", 1, 3),
     BF("vendor_defined", 1, 3), RsvPlain("rsvd2", 1) >>

UetSesAtomicCmpAndSwapHdr ==
  UetSesAtomicOpExtHdr \o
  << Plain("compare_value1", 8), Plain("compare_value2", 8),
     Plain("swap_value1", 8), Plain("swap_value2", 8) >>

(* The first two bytes of every response.                                 *)
ResponseFirstWord ==
  << BF("list", 1, 2), BF("opcode", 1, 6), BF("version", 1, 2), BF("return_code", 1, 6) >>

UetSesHdrResponse ==
  ResponseFirstWord \o
  << Plain("message_id", 2), BF("ri_generation", 4, 8), BF("job_id", 4, 24),
     Plain("modified_length", 4) >>

UetSesResponseWithDataHdr ==
  ResponseFirstWord \o
  << Plain("message_id", 2), RsvPlain("rsdv1", 1), Plain("job_id1", 1), Plain("job_id2", 2),
     Plain("read_request_message_id", 2), Rsv("rsvd2", 2, 4), BF("payload_length", 2, 12),
     Plain("modified_length", 4), Plain("message_offset", 4) >>

(* A c_uint8 : 2 followed by a c_uint16 : 14: the GCC rule expands the    *)
(* byte into a 16-bit unit, the MS rule starts a new one.                 *)
UetSesResponseWithDataSmallHdr ==
  ResponseFirstWord \o
  << Rsv("rsdv1", 1, 2), BF("payload_length", 2, 14),
     RsvPlain("rsdv2", 1), Plain("job_id1", 1), Plain("job_id2", 2),
     Plain("original_request_psn", 4) >>

Schema ==
  [k \in Kinds |->
     CASE k = "RequestSomHdrStd"         -> UetSesRequestSomHdrStd
       [] k = "RequestNoSomHdrStd"       -> UetSesRequestNoSomHdrStd
       [] k = "DeferSendHdrStd"          -> UetSesDeferSendHdrStd
       [] k = "ReadyToRestartHdrStd"     -> UetSesReadyToRestartHdrStd
       [] k = "RequestHdrMedium"         -> UetSesRequestHdrMedium
       [] k = "RequestHdrSmall"          -> UetSesMessageHdrSmall
       [] k = "RendezvousExtHdr"         -> UetSesRendezvousExtHdr
       [] k = "AtomicOpExtHdr"           -> UetSesAtomicOpExtHdr
       [] k = "AtomicCmpAndSwapHdr"      -> UetSesAtomicCmpAndSwapHdr
       [] k = "HdrResponse"              -> UetSesHdrResponse
       [] k = "WithDataHdrResponse"      -> UetSesResponseWithDataHdr
       [] k = "WithDataHdrSmallResponse" -> UetSesResponseWithDataSmallHdr]

-----------------------------------------------------------------------------
(* The constructors' bodies: the assignments of each Make*, in code order. *)

(* FillCommonHdr(hdr.cmn, ...): every common field but the reserved ones;  *)
(* version is 0 and start_of_msg is what the caller of Fill passes.       *)
FillCommonHdr(pre, som, a) ==
  << Set(pre, "opcode", a.opcode), Set(pre, "version", Const(0)) >>
  \o Sets(pre, a, << "delivery_complete", "initiator_error", "relative_addressing",
                     "hdr_data_present", "end_of_msg" >>)
  \o << Set(pre, "start_of_msg", som) >>
  \o Sets(pre, a, << "message_id", "ri_generation", "job_id", "pid_on_fep", "resource_index" >>)

MakeRequestSomHdrStdBody(a) ==
  FillCommonHdr(<< "cmn" >>, Const(1), a)
  \o Sets(<<>>, a, << "buffer_offset", "initiator", "memory_key_match_bits",
                      "header_data", "request_length" >>)

MakeRequestNoSomHdrStdBody(a) ==
  FillCommonHdr(<< "cmn" >>, Const(0), a)
  \o Sets(<<>>, a, << "buffer_offset", "initiator", "memory_key_match_bits",
                      "payload_length", "message_offset", "request_length" >>)

MakeDeferSendHdrStdBody(a) ==
  FillCommonHdr(<< "cmn" >>, a.start_of_msg, a)
  \o Sets(<<>>, a, << "initiator_restart_token", "target_restart_token", "initiator",
                      "match_bits", "header_data", "request_length" >>)

MakeReadyToRestartHdrStdBody(a) ==
  FillCommonHdr(<< "cmn" >>, a.start_of_msg, a)
  \o Sets(<<>>, a, << "buffer_offset", "initiator", "initiator_restart_token",
                      "target_restart_token", "header_data", "request_length" >>)

MakeRequestHdrMediumBody(a) ==
  FillCommonHdr(<< "cmn" >>, a.start_of_msg, a)
  \o Sets(<<>>, a, << "header_data", "initiator", "memory_key" >>)

MakeRequestHdrSmallBody(a) ==
  FillCommonHdr(<< "cmn" >>, a.start_of_msg, a) \o Sets(<<>>, a, << "buffer_offset" >>)

MakeRendezvousExtHdrBody(a) ==
  Sets(<<>>, a, << "eager_length", "ri_generation", "pid_on_fep", "resource_index" >>)

(* Mutant: vendor_defined also copied into the 3-bit rsvd1 beside it.     *)
MakeAtomicOpExtHdrBodyRsvd(a) ==
  Sets(<<>>, a, << "atomic_code", "atomic_datatype", "cpu_coherent", "ctrl_cacheable",
                   "vendor_defined" >>)
  \o << Set(<<>>, "rsvd1", a.vendor_defined) >>

MakeAtomicOpExtHdrBody(a) ==
  Sets(<<>>, a, << "atomic_code", "atomic_datatype", "cpu_coherent", "ctrl_cacheable",
                   "vendor_defined" >>)

MakeAtomicCmpAndSwapHdrBody(a) ==
  MakeAtomicOpExtHdrBody(a)
  \o Sets(<<>>, a, << "compare_value1", "compare_value2", "swap_value1", "swap_value2" >>)

(* hdr.list, opcode, version = 0, return_code: the first word of each      *)
(* response, assigned the same way by all three constructors.             *)
ResponseFirstWordBody(a) ==
  Sets(<<>>, a, << "list", "opcode" >>) \o << Set(<<>>, "version", Const(0)) >>
  \o Sets(<<>>, a, << "return_code" >>)

MakeHdrResponseBody(a) ==
  ResponseFirstWordBody(a)
  \o Sets(<<>>, a, << "message_id", "ri_generation", "job_id", "modified_length" >>)

(* hdr.job_id1 = job_id >> 16; hdr.job_id2 = job_id & 0xffff.             *)
JobIdSplit(a) ==
  << Set(<<>>, "job_id1", ShiftRight(a.job_id, 16)), Set(<<>>, "job_id2", LowBits(a.job_id, 16)) >>

(* Mutant: the high part taken with >> 8, as for a 16-bit job_id.          *)
MakeWithDataHdrResponseBodyShift8(a) ==
  ResponseFirstWordBody(a) \o Sets(<<>>, a, << "message_id" >>)
  \o << Set(<<>>, "job_id1", ShiftRight(a.job_id, 8)), Set(<<>>, "job_id2", LowBits(a.job_id, 16)) >>
  \o Sets(<<>>, a, << "read_request_message_id", "payload_length", "modified_length",
                      "message_offset" >>)

MakeWithDataHdrResponseBody(a) ==
  ResponseFirstWordBody(a) \o Sets(<<>>, a, << "message_id" >>) \o JobIdSplit(a)
  \o Sets(<<>>, a, << "read_request_message_id", "payload_length", "modified_length",
                      "message_offset" >>)

MakeWithDataHdrSmallResponseBody(a) ==
  ResponseFirstWordBody(a) \o Sets(<<>>, a, << "payload_length" >>) \o JobIdSplit(a)
  \o Sets(<<>>, a, << "original_request_psn" >>)

Body(k, a) ==
  CASE k = "RequestSomHdrStd"         -> MakeRequestSomHdrStdBody(a)
    [] k = "RequestNoSomHdrStd"       -> MakeRequestNoSomHdrStdBody(a)
    [] k = "DeferSendHdrStd"          -> MakeDeferSendHdrStdBody(a)
    [] k = "ReadyToRestartHdrStd"     -> MakeReadyToRestartHdrStdBody(a)
    [] k = "RequestHdrMedium"         -> MakeRequestHdrMediumBody(a)
    [] k = "RequestHdrSmall"          -> MakeRequestHdrSmallBody(a)
    [] k = "RendezvousExtHdr"         -> MakeRendezvousExtHdrBody(a)
    [] k = "AtomicOpExtHdr"           -> MakeAtomicOpExtHdrBody(a)
    [] k = "AtomicCmpAndSwapHdr"      -> MakeAtomicCmpAndSwapHdrBody(a)
    [] k = "HdrResponse"              -> MakeHdrResponseBody(a)
    [] k = "WithDataHdrResponse"      -> MakeWithDataHdrResponseBody(a)
    [] k = "WithDataHdrSmallResponse" -> MakeWithDataHdrSmallResponseBody(a)

(* The parameters of each Make* function.                                 *)
CmnParams == {"opcode", "delivery_complete", "initiator_error", "relative_addressing",
              "hdr_data_present", "end_of_msg", "message_id", "ri_generation", "job_id",
              "pid_on_fep", "resource_index"}
AtomicParams == {"atomic_code", "atomic_datatype", "ctrl_cacheable", "cpu_coherent",
                 "vendor_defined"}
Params ==
  [k \in Kinds |->
     CASE k = "RequestSomHdrStd"     -> CmnParams \cup {"buffer_offset", "initiator",
                                          "memory_key_match_bits", "header_data", "request_length"}
       [] k = "RequestNoSomHdrStd"   -> CmnParams \cup {"buffer_offset", "initiator",
                                          "memory_key_match_bits", "payload_length",
                                          "message_offset", "request_length"}
       [] k = "DeferSendHdrStd"      -> CmnParams \cup {"start_of_msg", "initiator_restart_token",
                                          "target_restart_token", "initiator", "match_bits",
                                          "header_data", "request_length"}
       [] k = "ReadyToRestartHdrStd" -> CmnParams \cup {"start_of_msg", "buffer_offset",
                                          "initiator", "initiator_restart_token",
                                          "target_restart_token", "header_data", "request_length"}
       [] k = "RequestHdrMedium"     -> CmnParams \cup {"start_of_msg", "header_data",
                                          "initiator", "memory_key"}
       [] k = "RequestHdrSmall"      -> CmnParams \cup {"start_of_msg", "buffer_offset"}
       [] k = "RendezvousExtHdr"     -> {"eager_length", "ri_generation", "pid_on_fep",
                                          "resource_index"}
       [] k = "AtomicOpExtHdr"       -> AtomicParams
       [] k = "AtomicCmpAndSwapHdr"  -> AtomicParams \cup {"compare_value1", "compare_value2",
                                          "swap_value1", "swap_value2"}
       [] k = "HdrResponse"          -> {"list", "opcode", "return_code", "message_id",
                                          "ri_generation", "job_id", "modified_length"}
       [] k = "WithDataHdrResponse"  -> {"list", "opcode", "return_code", "message_id",
                                          "job_id", "read_request_message_id", "payload_length",
                                          "modified_length", "message_offset"}
       [] k = "WithDataHdrSmallResponse" -> {"list", "opcode", "return_code", "payload_length",
                                              "job_id", "original_request_psn"}]

(* Constants each constructor writes: version 0 in every header with one, *)
(* and start_of_msg 1 or 0 in the two standard requests that fix it.      *)
Fixed ==
  [k \in Kinds |->
     CASE k = "RequestSomHdrStd"   -> [version |-> 0, start_of_msg |-> 1]
       [] k = "RequestNoSomHdrStd" -> [version |-> 0, start_of_msg |-> 0]
       [] k \in {"RendezvousExtHdr", "AtomicOpExtHdr", "AtomicCmpAndSwapHdr"} -> <<>>
       [] OTHER                    -> [version |-> 0]]

(* The fields that hold part of a parameter: job_id1 its bits 16..23,     *)
(* job_id2 its bits 0..15.                                                 *)
JobIdParts == [job_id1 |-> [from |-> "job_id", lo |-> 16], job_id2 |-> [from |-> "job_id", lo |-> 0]]
Derived ==
  [k \in Kinds |-> IF k \in {"WithDataHdrResponse", "WithDataHdrSmallResponse"}
                   THEN JobIdParts ELSE <<>>]

(* The ctypes layout of every variant under both rules, and the layout    *)
(* spec.md section 4.1 gives it (tables computed once).                    *)
Layout == [fl \in Flavours |-> [k \in Kinds |-> PlaceAll(Schema[k], fl, TRUE)]]
SpecLayout == [k \in Kinds |-> SpecPlaceAll(Schema[k])]

(* The decoder is handed the schema the context names.                     *)
NamedSchema(buf, named) == named

Fam == INSTANCE HeaderFamily WITH BigEndian <- [k \in Kinds |-> TRUE], OverArgs <- {}, Dispatch <- NamedSchema

-----------------------------------------------------------------------------
Init == Fam!Init

(* ses = uet_ses.MakeX(...); MakePacket(pds, ses) in make_uet_ses.py.      *)
MakeRequestSomHdrStd         == Fam!Make("RequestSomHdrStd")
MakeRequestNoSomHdrStd       == Fam!Make("RequestNoSomHdrStd")
MakeDeferSendHdrStd          == Fam!Make("DeferSendHdrStd")
MakeReadyToRestartHdrStd     == Fam!Make("ReadyToRestartHdrStd")
MakeRequestHdrMedium         == Fam!Make("RequestHdrMedium")
MakeRequestHdrSmall          == Fam!Make("RequestHdrSmall")
MakeRendezvousExtHdr         == Fam!Make("RendezvousExtHdr")
MakeAtomicOpExtHdr           == Fam!Make("AtomicOpExtHdr")
MakeAtomicCmpAndSwapHdr      == Fam!Make("AtomicCmpAndSwapHdr")
MakeHdrResponse              == Fam!Make("HdrResponse")
MakeWithDataHdrResponse      == Fam!Make("WithDataHdrResponse")
MakeWithDataHdrSmallResponse == Fam!Make("WithDataHdrSmallResponse")

Next ==
  \/ MakeRequestSomHdrStd \/ MakeRequestNoSomHdrStd \/ MakeDeferSendHdrStd
  \/ MakeReadyToRestartHdrStd \/ MakeRequestHdrMedium \/ MakeRequestHdrSmall
  \/ MakeRendezvousExtHdr \/ MakeAtomicOpExtHdr \/ MakeAtomicCmpAndSwapHdr
  \/ MakeHdrResponse \/ MakeWithDataHdrResponse \/ MakeWithDataHdrSmallResponse

Spec == Init /\ [][Next]_vars

-----------------------------------------------------------------------------
(* Type: each SES header has the size spec.md gives its structure, and    *)
(* its bits are constants or bits of the Make* call's arguments.           *)
TypeOK == Fam!TypeOK

(* Round trip: every field of every SES header reads back, at its spec.md  *)
(* 4.1 place, the caller's argument, version 0 or the fixed start_of_msg;  *)
(* in the data responses job_id1 and job_id2 together read back the whole  *)
(* 24-bit job_id.  It fails when ctypes places a field elsewhere than the  *)
(* spec (the interpreter's bitfield rule), or when the split drops or      *)
(* shifts bits of job_id.                                                  *)
RoundTrip == Fam!RoundTrip

(* The SES constructors implement the abstract header log: beyond the     *)
(* round trip, every reserved field (cmn rsvd1..rsvd3, rsdv1, rsdv2, the    *)
(* atomic rsvd1/rsvd2, none of them assigned by the code) is zero.         *)
HLSpec == Fam!HLSpec
=============================================================================
