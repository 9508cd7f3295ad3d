------------------------------ MODULE Scripts ------------------------------
(***************************************************************************)
(* The sample scripts that put several headers in one frame:              *)
(* make_uet_pds.py, make_uet_ses.py, make_superp.py and make_sunh.py.     *)
(* Each is a straight-line program over module-level globals: a statement *)
(* binds a global (pds, ses, atomic, pdl, tal, ...) to the header a Make* *)
(* constructor returns, a MakePacket* helper appends the frame built from *)
(* the headers its arguments name at that moment, and wrpcap writes the   *)
(* list.  A global keeps its header until it is bound again, so a frame   *)
(* may carry a header built for an earlier one.  A header is abstracted   *)
(* to its class and the in-band fields that name what follows it: the     *)
(* next_hdr of a PDS or SUNH header, the opcode of an SES or transaction  *)
(* header, and num_ops.  Field encoding is modelled by the family modules. *)
(***************************************************************************)
EXTENDS Integers, Sequences, FiniteSets, TLC
LOCAL INSTANCE SequencesExt

CONSTANTS
  ScriptNames,    (* the scripts a run may start                           *)
  SuperpIpproto   (* superp_ipproto: argv[2] of make_superp.py, else 253   *)

VARIABLES
  script,         (* the script being run                                  *)
  pc,             (* index of its next statement                           *)
  env,            (* module-level names: an imported module or a header    *)
  frames,         (* the global packets list: one header sequence a frame  *)
  raised,         (* "none", or the exception that ended the script        *)
  written         (* wrpcap has run                                        *)

vars == << script, pc, env, frames, raised, written >>

-----------------------------------------------------------------------------
(* A header: its ctypes class, the enum member it carries in its type-    *)
(* naming field (code), its one integer field a frame is read by (num:    *)
(* num_ops of a transaction header, next_hdr of a SUNH header), and a     *)
(* second enum member (aux: the return_code of an SES response, the       *)
(* atomic_datatype of an atomic extension header).                         *)
Hdr(cls, code, num) == [cls |-> cls, code |-> code, num |-> num, aux |-> "-"]
Coded(cls, code, aux) == [cls |-> cls, code |-> code, num |-> 0, aux |-> aux]
H(cls)          == Hdr(cls, "-", 0)
Pds(cls, nh)    == Hdr(cls, nh, 0)       (* nh: UetNextHeaderType member   *)
Ses(cls, op)    == Hdr(cls, op, 0)       (* op: UetSes*MsgType member      *)
Tal(n, op)      == Hdr("TransactionHeader", op, n)
Payload         == H("bytearray")        (* bytes = bytearray(5*128), filled *)
UdpLayer        == H("UDP")              (* make_sunh.py: udp_packet1       *)
(* A control PDS header has no next_hdr field.                             *)
Ctl(cls)        == Pds(cls, "absent")

Module(m)  == Hdr("module", m, 0)
Unbound    == Hdr("unbound", "-", 0)

(* The statements: name = module.MakeX(...); MakePacket*(names);          *)
(* make_sunh.py's MakeSUNHPacket, which puts udp_packet1 after the SUNH    *)
(* header; wrpcap(...).                                                    *)
Assign(v, m, h) == [op |-> "assign", var |-> v, mod |-> m, hdr |-> h]
Send(args)      == [op |-> "send", args |-> args, udp |-> FALSE]
SendUdp(args)   == [op |-> "send", args |-> args, udp |-> TRUE]
Wrpcap          == [op |-> "write"]

(* name1 .. name5 bound in turn to headers of one class.                   *)
Numbered(p) == [i \in 1..5 |-> p \o ToString(i)]
AssignOps(p, cls) == [i \in 1..5 |-> Assign(Numbered(p)[i], "superp", H(cls))]

-----------------------------------------------------------------------------
ReqStd(op)  == Ses("UetSesRequestSomHdrStd", op)
Resp(op, rc) == Coded("UetSesHdrResponse", op, rc)
AmoOp(amo, dt)  == Coded("UetSesAtomicOpExtHdr", amo, dt)
AmoCas(amo, dt) == Coded("UetSesAtomicCmpAndSwapHdr", amo, dt)
RudRod(nh)  == Pds("UetPdsRudRodRequest", nh)
Rudi(nh)    == Pds("UetPdsRudiReqResp", nh)
PS          == << "pds", "ses" >>
PSA         == << "pds", "ses", "atomic" >>

(* make_uet_pds.py: one SES header, bound before the PDS headers that     *)
(* share it.  Requests: the eight RUD/ROD request variants.                *)
UetPdsRequests ==
  << Assign("ses", "uet_ses", ReqStd("READ")),
     Assign("pds", "uet_pds", RudRod("REQUEST_STD")), Send(PS),
     Assign("pds", "uet_pds", Pds("UetPdsRudRodRequestSyn", "REQUEST_STD")), Send(PS),
     Assign("pds", "uet_pds", Pds("UetPdsRudRodRequestCc", "REQUEST_STD")), Send(PS),
     Assign("pds", "uet_pds", Pds("UetPdsRudRodRequestSynCc", "REQUEST_STD")), Send(PS),
     Assign("pds", "uet_pds", RudRod("REQUEST_STD")), Send(PS),
     Assign("pds", "uet_pds", Pds("UetPdsRudRodRequestSyn", "REQUEST_STD")), Send(PS),
     Assign("pds", "uet_pds", Pds("UetPdsRudRodRequestCc", "REQUEST_STD")), Send(PS),
     Assign("pds", "uet_pds", Pds("UetPdsRudRodRequestSynCc", "REQUEST_STD")), Send(PS) >>

(* Acknowledgements, NACKs and control packets, with the response ses;    *)
(* the two control packets are sent with that ses still bound.            *)
UetPdsAcks ==
  << Assign("ses", "uet_ses", Resp("RESPONSE", "AT_PERM")),
     Assign("pds", "uet_pds", Pds("UetPdsAck", "RESPONSE")), Send(PS),
     Assign("pds", "uet_pds", Pds("UetPdsAckCcNscc", "RESPONSE")), Send(PS),
     Assign("pds", "uet_pds", Pds("UetPdsAckCcCredit", "RESPONSE")), Send(PS),
     Assign("pds", "uet_pds", Pds("UetPdsAckCcx", "RESPONSE")), Send(PS),
     Assign("pds", "uet_pds", Pds("UetPdsNack", "RESPONSE")), Send(PS),
     Assign("pds", "uet_pds", Pds("UetPdsNackCcx", "RESPONSE")), Send(PS),
     Assign("pds", "uet_pds", Ctl("UetPdsControlPkt")), Send(PS),
     Assign("pds", "uet_pds", Ctl("UetPdsControlPktSyn")), Send(PS) >>

(* Mutant: the response ses is not rebound before the RUDI response.     *)
UetPdsUnreliableStaleSes ==
  << Assign("ses", "uet_ses", ReqStd("READ")),
     Assign("pds", "uet_pds", Pds("UetPdsUudReq", "REQUEST_STD")), Send(PS),
     Assign("pds", "uet_pds", Rudi("REQUEST_STD")), Send(PS),
     Assign("pds", "uet_pds", Rudi("RESPONSE")), Send(PS),
     Wrpcap >>

(* UUD and RUDI requests with a new request ses, the RUDI response with a *)
(* new response ses, then wrpcap.                                          *)
UetPdsUnreliable ==
  << Assign("ses", "uet_ses", ReqStd("READ")),
     Assign("pds", "uet_pds", Pds("UetPdsUudReq", "REQUEST_STD")), Send(PS),
     Assign("pds", "uet_pds", Rudi("REQUEST_STD")), Send(PS),
     Assign("ses", "uet_ses", Resp("RESPONSE", "AT_PERM")),
     Assign("pds", "uet_pds", Rudi("RESPONSE")), Send(PS),
     Wrpcap >>

UetPdsScript == UetPdsRequests \o UetPdsAcks \o UetPdsUnreliable

(* make_uet_ses.py: the PDS header is bound once per SES header shape.    *)
(* Standard headers, the atomic samples with their extension headers.     *)
UetSesStd ==
  << Assign("pds", "uet_pds", RudRod("REQUEST_STD")),
     Assign("ses", "uet_ses", ReqStd("READ")), Send(PS),
     Assign("ses", "uet_ses", Ses("UetSesRequestNoSomHdrStd", "WRITE")), Send(PS),
     Assign("ses", "uet_ses", Ses("UetSesDeferSendHdrStd", "DEFERRABLE_SEND")), Send(PS),
     Assign("ses", "uet_ses", Ses("UetSesReadyToRestartHdrStd", "READY_TO_RESTART")), Send(PS),
     Assign("ses", "uet_ses", Ses("UetSesRequestNoSomHdrStd", "ATOMIC")),
     Assign("atomic", "uet_ses", AmoOp("BXOR", "FLOAT_COMPLEX")), Send(PSA),
     Assign("ses", "uet_ses", Ses("UetSesRequestNoSomHdrStd", "ATOMIC")),
     Assign("atomic", "uet_ses", AmoCas("CSWAP_GE", "FLOAT_COMPLEX")), Send(PSA) >>

(* Mutant: the medium atomic sample sent without rebinding ses, so the    *)
(* medium WRITE header goes out with the atomic extension.                *)
UetSesMediumStaleSes ==
  << Assign("pds", "uet_pds", RudRod("REQUEST_MEDIUM")),
     Assign("ses", "uet_ses", Ses("UetSesRequestHdrMedium", "WRITE")), Send(PS),
     Assign("atomic", "uet_ses", AmoOp("BXOR", "FLOAT_COMPLEX")), Send(PSA),
     Assign("atomic", "uet_ses", AmoCas("CSWAP_GE", "FLOAT_COMPLEX")), Send(PSA) >>

(* Medium headers: the compare-and-swap sample reuses the atomic ses.     *)
UetSesMedium ==
  << Assign("pds", "uet_pds", RudRod("REQUEST_MEDIUM")),
     Assign("ses", "uet_ses", Ses("UetSesRequestHdrMedium", "WRITE")), Send(PS),
     Assign("ses", "uet_ses", Ses("UetSesRequestHdrMedium", "ATOMIC")),
     Assign("atomic", "uet_ses", AmoOp("BXOR", "FLOAT_COMPLEX")), Send(PSA),
     Assign("atomic", "uet_ses", AmoCas("CSWAP_GE", "FLOAT_COMPLEX")), Send(PSA) >>

(* Mutant: the small compare-and-swap sample keeps the atomic_code of the *)
(* atomic sample before it.                                                *)
UetSesSmallCasCode ==
  << Assign("pds", "uet_pds", RudRod("REQUEST_SMALL")),
     Assign("ses", "uet_ses", Ses("UetSesMessageHdrSmall", "READ")), Send(PS),
     Assign("ses", "uet_ses", Ses("UetSesMessageHdrSmall", "ATOMIC")),
     Assign("atomic", "uet_ses", AmoOp("BAND", "FLOAT")), Send(PSA),
     Assign("atomic", "uet_ses", AmoCas("BAND", "FLOAT_COMPLEX")), Send(PSA) >>

(* Small headers, the same pattern.                                        *)
UetSesSmall ==
  << Assign("pds", "uet_pds", RudRod("REQUEST_SMALL")),
     Assign("ses", "uet_ses", Ses("UetSesMessageHdrSmall", "READ")), Send(PS),
     Assign("ses", "uet_ses", Ses("UetSesMessageHdrSmall", "ATOMIC")),
     Assign("atomic", "uet_ses", AmoOp("BAND", "FLOAT")), Send(PSA),
     Assign("atomic", "uet_ses", AmoCas("CSWAP_GE", "FLOAT_COMPLEX")), Send(PSA) >>

(* Responses: "Response no data", "Response with data", "... small data". *)
UetSesResponses ==
  << Assign("pds", "uet_pds", Rudi("RESPONSE")),
     Assign("ses", "uet_ses", Resp("RESPONSE_WITH_DATA", "AT_PERM")), Send(PS),
     Assign("pds", "uet_pds", Rudi("RESPONSE_DATA")),
     Assign("ses", "uet_ses", Coded("UetSesResponseWithDataHdr", "RESPONSE_WITH_DATA", "AT_PERM")), Send(PS),
     Assign("pds", "uet_pds", Rudi("RESPONSE_DATA_SMALL")),
     Assign("ses", "uet_ses", Coded("UetSesResponseWithDataSmallHdr", "RESPONSE_WITH_DATA", "AT_PERM")),
     Send(PS) >>

(* "Standar rendezvous", "Medium no-op", then wrpcap.                      *)
UetSesTail ==
  << Assign("pds", "uet_pds", RudRod("REQUEST_STD")),
     Assign("ses", "uet_ses", ReqStd("RENDEZVOUS_TSEND")), Send(PS),
     Assign("pds", "uet_pds", RudRod("REQUEST_MEDIUM")),
     Assign("ses", "uet_ses", Ses("UetSesRequestHdrMedium", "NO_OP")), Send(PS),
     Wrpcap >>

UetSesScript == UetSesStd \o UetSesMedium \o UetSesSmall \o UetSesResponses \o UetSesTail

(* make_superp.py: pdl and tal are module globals reused across packets.  *)
(* The NOOP and LAST_NULL transactions carry no operation.                *)
SuperpNoop ==
  << Assign("pdl", "superp", H("PacketDeliveryHeader")),
     Assign("tal", "superp", Tal(0, "NOOP")), Send(<< "pdl", "tal" >>),
     Assign("pdl", "superp", H("PacketDeliveryHeader")),
     Assign("tal", "superp", Tal(0, "LAST_NULL")), Send(<< "pdl", "tal" >>) >>

SuperpTransactErr ==
  << Assign("tal", "superp", Tal(1, "TRANSACT_ERR")),
     Assign("transact_err", "superp", H("TransactErr")),
     Send(<< "pdl", "tal", "transact_err" >>) >>

(* Mutant: the READ_RESP packet sent with the TRANSACT_ERR tal.            *)
SuperpReadRespStaleTal ==
  AssignOps("resp", "ReadResp")
  \o << Assign("bytes", "bytearray", Payload),
        Send(<< "pdl", "tal" >> \o Numbered("resp") \o << "bytes" >>) >>

(* Five ReadResp headers and the payload bytes = bytearray(5*128).        *)
SuperpReadResp ==
  << Assign("tal", "superp", Tal(5, "READ_RESP")) >>
  \o AssignOps("resp", "ReadResp")
  \o << Assign("bytes", "bytearray", Payload),
        Send(<< "pdl", "tal" >> \o Numbered("resp") \o << "bytes" >>) >>

(* tal for an opcode, five operation headers bound to p1..p5, and the     *)
(* MakePacket8 of pdl, tal, the five and the payload.                      *)
OpPacket(opcode, p, ops) ==
  << Assign("tal", "superp", Tal(5, opcode)) >> \o ops
  \o << Send(<< "pdl", "tal" >> \o Numbered(p) \o << "bytes" >>) >>

SuperpWrite == OpPacket("WRITE", "write", AssignOps("write", "WriteOp"))

(* Mutant: the SendOp headers built with superp.MakeSendOp, whose body     *)
(* reads the unbound names key and offset and raises NameError.            *)
SuperpSendMakeSendOp ==
  OpPacket("SEND", "send", [i \in 1..5 |-> Assign(Numbered("send")[i], "superp", H("NameError"))])

(* The SendOp headers built with the class constructor SendOp(key, offset). *)
SuperpSend == OpPacket("SEND", "send", AssignOps("send", "SendOp"))

SuperpSendToQP == OpPacket("SEND_TO_QP", "send_to_qp", AssignOps("send_to_qp", "SendToQPOp"))

(* sunh = sunh.MakeSUNH_Header(0x23, superp_ipproto, ...) rebinds the     *)
(* module name; MakeSUNHPacket8 reuses pdl, tal and the send_to_qp ops.   *)
SuperpSunh ==
  << Assign("sunh", "sunh", Hdr("SUNH_Header", "-", SuperpIpproto)),
     Send(<< "sunh", "pdl", "tal" >> \o Numbered("send_to_qp") \o << "bytes" >>),
     Wrpcap >>

MakeSuperpScript ==
  SuperpNoop \o SuperpTransactErr \o SuperpReadResp \o SuperpWrite \o SuperpSend
  \o SuperpSendToQP \o SuperpSunh

(* Mutant: MakeSUNHPacket as make_superp.py defines it, with no UDP layer. *)
MakeSunhScriptNoUdp ==
  << Assign("sunh", "sunh", Hdr("SUNH_Header", "-", 17)),
     Assign("bytes", "bytearray", Payload),
     Send(<< "sunh", "bytes" >>),
     Wrpcap >>

(* Mutant: the packet made before sunh is rebound from module to header.   *)
MakeSunhScriptEarlySend ==
  << Assign("bytes", "bytearray", Payload),
     SendUdp(<< "sunh", "bytes" >>),
     Assign("sunh", "sunh", Hdr("SUNH_Header", "-", 17)),
     Wrpcap >>

(* make_sunh.py: one SUNH header with next_hdr 17, sent over UDP.         *)
MakeSunhScript ==
  << Assign("sunh", "sunh", Hdr("SUNH_Header", "-", 17)),
     Assign("bytes", "bytearray", Payload),
     SendUdp(<< "sunh", "bytes" >>),
     Wrpcap >>

Script == [s \in ScriptNames |->
             CASE s = "make_uet_pds" -> UetPdsScript
               [] s = "make_uet_ses" -> UetSesScript
               [] s = "make_superp"  -> MakeSuperpScript
               [] s = "make_sunh"    -> MakeSunhScript]

(* The names each script imports; bytearray is a builtin.                  *)
Imports == [s \in ScriptNames |->
              CASE s \in {"make_uet_pds", "make_uet_ses"} -> {"uet_pds", "uet_ses", "bytearray"}
                [] s = "make_superp" -> {"superp", "sunh", "bytearray"}
                [] s = "make_sunh"   -> {"sunh", "bytearray"}]

Globals ==
  {"pds", "ses", "atomic", "pdl", "tal", "transact_err", "bytes", "sunh",
   "uet_pds", "uet_ses", "superp", "bytearray"}
  \cup UNION {{Numbered(p)[i] : i \in 1..5} : p \in {"resp", "write", "send", "send_to_qp"}}

-----------------------------------------------------------------------------
Init ==
  /\ script \in ScriptNames
  /\ pc = 1
  /\ env = [n \in Globals |-> IF n \in Imports[script] THEN Module(n) ELSE Unbound]
  /\ frames = << >>
  /\ raised = "none"
  /\ written = FALSE

Stmt == Script[script][pc]

Running == raised = "none" /\ pc <= Len(Script[script])

(* The exception a call m.MakeX(...) raises: a name never bound is a      *)
(* NameError, a name rebound to a header has no attribute MakeX, and a    *)
(* constructor whose body reads unbound names raises NameError itself.    *)
CallRaises(s) ==
  CASE env[s.mod] = Unbound   -> "NameError"
    [] env[s.mod] # Module(s.mod) -> "AttributeError"
    [] s.hdr.cls = "NameError" -> "NameError"
    [] OTHER -> "none"

(* v = m.MakeX(...): bind v to the header the constructor returns.        *)
Construct ==
  /\ Running
  /\ Stmt.op = "assign"
  /\ raised' = CallRaises(Stmt)
  /\ env' = IF raised' = "none" THEN [env EXCEPT ![Stmt.var] = Stmt.hdr] ELSE env
  /\ pc' = IF raised' = "none" THEN pc + 1 ELSE pc
  /\ UNCHANGED << script, frames, written >>

(* MakePacket*(a1, ..., an): Raw(load=...) of the header each name is     *)
(* bound to now, stacked behind the framing, appended to packets.         *)
MakePacket ==
  /\ Running
  /\ Stmt.op = "send"
  /\ LET hs == [i \in DOMAIN Stmt.args |-> env[Stmt.args[i]]]
         frame == IF Stmt.udp THEN << hs[1], UdpLayer >> \o Tail(hs) ELSE hs
     IN /\ raised' = IF \E i \in DOMAIN hs : hs[i] = Unbound THEN "NameError" ELSE "none"
        /\ frames' = IF raised' = "none" THEN Append(frames, frame) ELSE frames
        /\ pc' = IF raised' = "none" THEN pc + 1 ELSE pc
  /\ UNCHANGED << script, env, written >>

(* wrpcap(file, packets): the last statement.                              *)
WritePcap ==
  /\ Running
  /\ Stmt.op = "write"
  /\ written' = TRUE
  /\ pc' = pc + 1
  /\ UNCHANGED << script, env, frames, raised >>

Next == Construct \/ MakePacket \/ WritePcap

(* The interpreter runs the next statement of a script that has not       *)
(* raised: the step is weakly fair.                                        *)
Spec == Init /\ [][Next]_vars /\ WF_vars(Next)

-----------------------------------------------------------------------------
(* The classes of the headers a frame carries, by family.                  *)
PdsClasses ==
  {"UetPdsRudRodRequest", "UetPdsRudRodRequestSyn", "UetPdsRudRodRequestCc",
   "UetPdsRudRodRequestSynCc", "UetPdsAck", "UetPdsAckCcNscc", "UetPdsAckCcCredit",
   "UetPdsAckCcx", "UetPdsNack", "UetPdsNackCcx", "UetPdsControlPkt",
   "UetPdsControlPktSyn", "UetPdsUudReq", "UetPdsRudiReqResp"}

(* Python Enum classes: the members in definition order, << name, value >>. *)
Consecutive(names, first) == [i \in DOMAIN names |-> << names[i], first + i - 1 >>]
VendorDefined(first, n) ==
  Consecutive([i \in 1..n |-> "VENDOR_DEFINED_" \o ToString(i - 1)], first)

UetNextHeaderType ==
  Consecutive(<< "NONE", "REQUEST_SMALL", "REQUEST_MEDIUM", "REQUEST_STD", "RESPONSE",
                 "RESPONSE_DATA", "RESPONSE_DATA_SMALL" >>, 0)

RequestMsgNames ==
  << "NO_OP", "WRITE", "READ", "ATOMIC", "FETCHING_ATOMIC", "SEND", "RENDEZVOUS_SEND",
     "DATAGRAM_SEND", "DEFERRABLE_SEND", "TAGGED_SEND", "RENDEZVOUS_TSEND",
     "DEFERRABLE_TSEND", "READY_TO_RESTART", "TSEND_ATOMIC", "TSEND_FETCH_ATOMIC",
     "MSG_ERROR" >>

(* Mutant: READY_TO_RESTART given DEFERRABLE_TSEND's value 0xb.           *)
UetSesRequestMsgTypeDup ==
  [Consecutive(RequestMsgNames, 0) EXCEPT ![13] = << "READY_TO_RESTART", 11 >>]
  \o VendorDefined(48, 15) \o << << "EXTENDED", 63 >> >>

UetSesRequestMsgType ==
  Consecutive(RequestMsgNames, 0) \o VendorDefined(48, 15) \o << << "EXTENDED", 63 >> >>

UetSesResponseMsgType ==
  Consecutive(<< "DEFAULT", "RESPONSE", "RESPONSE_WITH_DATA", "RESPONSE_NONE" >>, 0)
  \o VendorDefined(48, 16)

UetSesReturnCode ==
  Consecutive(<< "NULL", "OK", "BAD_GENERATION", "DISABLED", "DISABLED_GEN", "NO_MATCH",
                 "UNSUPPORTED_OP", "UNSUPPORTED_SIZE", "AT_INVALID", "AT_PERM",
                 "AT_ATS_ERROR", "AT_NO_TRANS", "AT_OUT_OF_RANGE", "HOST_POISONED",
                 "HOST_UNSUCCESS_CMPL", "AMO_UNSUPPORTED_OP", "AMO_UNSUPPORTED_DT",
                 "AMO_UNSUPPORTED_SIZE", "AMO_UNALIGNED", "AMO_FP_NAN", "AMO_FP_UNDERFLOW",
                 "AMO_FP_OVERFLOW", "AMO_FP_INEXACT", "PERM_VIOLATION", "OP_VIOLATION",
                 "BAD_INDEX", "BAD_PID", "BAD_JOB_ID", "BAD_MKEY", "BAD_ADDR", "CANCELLED",
                 "UNDELIVERABLE", "UNCOR", "UNCOR_TRNSNT", "TOO_LONG", "INITIATOR_ERROR",
                 "DROPPED" >>, 0)
  \o VendorDefined(48, 8) \o << << "EXTENDED", 62 >> >>

UetSesAtomicDatatype ==
  Consecutive(<< "INT8", "UINT8", "INT16", "UINT16", "INT32", "UINT32", "INT64", "UINT64",
                 "INT128", "UINT128", "FLOAT", "DOUBLE", "FLOAT_COMPLEX", "DOUBLE_COMPLEX",
                 "LONG_DOUBLE", "LONG_DOUBLE_COMPLEX", "BF16", "FP16" >>, 0)
  \o VendorDefined(224, 31)

UetSesAtomicOpcode ==
  Consecutive(<< "MIN", "MAX", "SUM", "DIFF", "PROD", "LOR", "LAND", "BOR", "BAND", "LXOR",
                 "BXOR", "READ", "WRITE", "CSWAP", "CSWAP_NE", "CSWAP_LE", "CSWAP_LT",
                 "CSWAP_GE", "CSWAP_GT", "MSWAP", "INVAL" >>, 0)
  \o VendorDefined(224, 31)

SUPERp_Op_Type ==
  << << "NOOP", 0 >>, << "LAST_NULL", 1 >>, << "TRANSACT_ERR", 2 >> >>
  \o Consecutive(<< "READ", "WRITE", "READ_RESP", "SEND", "SEND_TO_QP" >>, 8)

(* X.value: the value of the member the script names.                      *)
ValueOf(E, m) == E[SelectInSeq(E, LAMBDA e : e[1] = m)][2]

(* X(v), how a reader maps a field back to a member: the first member     *)
(* defined with value v (a later one with the same value is an alias),    *)
(* ValueError if there is none.                                            *)
EnumOf(E, v) ==
  LET i == SelectInSeq(E, LAMBDA e : e[2] = v)
  IN IF i = 0 THEN "ValueError" ELSE E[i][1]

(* UetNextHeaderType: the SES header shape each next_hdr value names.     *)
NextHeaderSes ==
  [NONE                |-> {},
   REQUEST_SMALL       |-> {"UetSesMessageHdrSmall"},
   REQUEST_MEDIUM      |-> {"UetSesRequestHdrMedium"},
   REQUEST_STD         |-> {"UetSesRequestSomHdrStd", "UetSesRequestNoSomHdrStd",
                            "UetSesDeferSendHdrStd", "UetSesReadyToRestartHdrStd"},
   RESPONSE            |-> {"UetSesHdrResponse"},
   RESPONSE_DATA       |-> {"UetSesResponseWithDataHdr"},
   RESPONSE_DATA_SMALL |-> {"UetSesResponseWithDataSmallHdr"}]

SesRequestClasses ==
  NextHeaderSes.REQUEST_SMALL \cup NextHeaderSes.REQUEST_MEDIUM \cup NextHeaderSes.REQUEST_STD

SesResponseClasses ==
  NextHeaderSes.RESPONSE \cup NextHeaderSes.RESPONSE_DATA \cup NextHeaderSes.RESPONSE_DATA_SMALL

(* UetSesRequestMsgType members whose request carries an extension header. *)
AtomicOpcodes == {"ATOMIC", "FETCHING_ATOMIC", "TSEND_ATOMIC", "TSEND_FETCH_ATOMIC"}
AtomicExtClasses == {"UetSesAtomicOpExtHdr", "UetSesAtomicCmpAndSwapHdr"}

(* The field a header's code, and its aux, is stored in: the enum and the *)
(* field's width in bits.  ctypes keeps the low bits of what is assigned. *)
CodeField(h) ==
  CASE h.cls \in PdsClasses /\ h.code # "absent" -> << UetNextHeaderType, 4 >>
    [] h.cls \in SesRequestClasses               -> << UetSesRequestMsgType, 6 >>
    [] h.cls \in SesResponseClasses              -> << UetSesResponseMsgType, 6 >>
    [] h.cls \in AtomicExtClasses                -> << UetSesAtomicOpcode, 8 >>
    [] h.cls = "TransactionHeader"               -> << SUPERp_Op_Type, 8 >>
    [] OTHER                                     -> << >>

AuxField(h) ==
  CASE h.cls \in SesResponseClasses -> << UetSesReturnCode, 6 >>
    [] h.cls \in AtomicExtClasses   -> << UetSesAtomicDatatype, 8 >>
    [] OTHER                        -> << >>

(* The member a reader of the header gets back from the field.            *)
Read(f, m) == EnumOf(f[1], ValueOf(f[1], m) % (2 ^ f[2]))
ReadCode(h) == Read(CodeField(h), h.code)


(* SUPERp_Op_Type: the operation header each opcode is followed by; NOOP   *)
(* and LAST_NULL carry none.                                               *)
SuperpOpClass ==
  [TRANSACT_ERR |-> "TransactErr", READ |-> "ReadOp", WRITE |-> "WriteOp",
   READ_RESP |-> "ReadResp", SEND |-> "SendOp", SEND_TO_QP |-> "SendToQPOp"]

(* The IP protocol number of the layer after a SUNH header.                *)
LayerProto == [UDP |-> 17, PacketDeliveryHeader |-> SuperpIpproto]

(* A frame of a UET script whose SES header is a request, and its         *)
(* extension header if it has one.                                         *)
UetRequestFrame(f) == Len(f) >= 2 /\ f[1].cls \in PdsClasses /\ f[2].cls \in SesRequestClasses
ExtHdr(f) == IF Len(f) >= 3 THEN f[3].cls ELSE "none"

Value == [cls : STRING, code : STRING, num : Nat, aux : STRING]
IsHeader(h) == h \in Value /\ h.cls \notin {"module", "unbound"}

-----------------------------------------------------------------------------
(* Type: the script runs its statements in order, every global is an      *)
(* imported module, unbound, or a header, and every frame carries only    *)
(* headers: a MakePacket* never receives a module object, as it would if  *)
(* a script sent a name before rebinding it from module to header.        *)
TypeOK ==
  /\ script \in ScriptNames
  /\ pc \in 1..(Len(Script[script]) + 1)
  /\ env \in [Globals -> Value]
  /\ \A i \in DOMAIN frames : \A j \in DOMAIN frames[i] : IsHeader(frames[i][j])
  /\ raised \in {"none", "NameError", "AttributeError"}
  /\ written \in BOOLEAN

(* Every transaction header a SUPERp frame carries is followed by exactly *)
(* the num_ops its 4-bit field holds of operation headers, each of the    *)
(* class the opcode read back from its field names (none for NOOP and     *)
(* LAST_NULL), before the payload.  make_superp.py rebinds tal before     *)
(* each operation kind and reuses pdl and the last ops for the SUNH       *)
(* packet; a tal left stale breaks this.                                  *)
OpsMatchTransaction ==
  \A i \in DOMAIN frames : \A j \in DOMAIN frames[i] :
    frames[i][j].cls = "TransactionHeader" =>
      LET t   == frames[i][j]
          ops == SelectSeq(SubSeq(frames[i], j + 1, Len(frames[i])),
                           LAMBDA h : h.cls # "bytearray")
      IN /\ Len(ops) = t.num % (2 ^ 4)
         /\ \A k \in DOMAIN ops :
              ReadCode(t) \in DOMAIN SuperpOpClass /\ ops[k].cls = SuperpOpClass[ReadCode(t)]

(* The 8-bit next_hdr of every SUNH header holds the IP protocol number   *)
(* of the layer after it: 17 before make_sunh.py's udp_packet1,           *)
(* superp_ipproto (argv[2], parsed with int(x, 0) and not range-checked)  *)
(* before make_superp.py's delivery header.                                *)
SunhNextHdrNamesPayload ==
  \A i \in DOMAIN frames :
    frames[i][1].cls = "SUNH_Header" =>
      /\ Len(frames[i]) >= 2
      /\ frames[i][2].cls \in DOMAIN LayerProto
      /\ frames[i][1].num % (2 ^ 8) = LayerProto[frames[i][2].cls]

(* An SES request is followed by an atomic extension header exactly when  *)
(* the opcode read back from it is an atomic one.  make_uet_ses.py sends  *)
(* the compare-and-swap samples with the ses bound for the atomic sample  *)
(* before them.                                                            *)
AtomicExtAnnounced ==
  \A i \in DOMAIN frames :
    UetRequestFrame(frames[i]) =>
      (ExtHdr(frames[i]) \in AtomicExtClasses <=> ReadCode(frames[i][2]) \in AtomicOpcodes)

(* The next_hdr of every PDS header that has one, read back as a          *)
(* UetNextHeaderType member, names the class of the SES header after it.  make_uet_pds.py rebinds the   *)
(* global ses only three times (lines 131, 230, 260) and reuses it for     *)
(* every PDS header in between; a rebinding left out sends a response      *)
(* PDS header with the request ses, or the reverse.                        *)
SesNamedByNextHdr ==
  \A i \in DOMAIN frames :
    frames[i][1].cls \in PdsClasses /\ frames[i][1].code # "absent" =>
      /\ ReadCode(frames[i][1]) \in DOMAIN NextHeaderSes
      /\ Len(frames[i]) >= 2
      /\ frames[i][2].cls \in NextHeaderSes[ReadCode(frames[i][1])]

(* A PDS header without a next_hdr field (UetPdsControlPkt and             *)
(* UetPdsControlPktSyn) announces no SES header, so none follows it.      *)
(* make_uet_pds.py sends its control packets with the response ses still  *)
(* bound.                                                                  *)
ControlPacketAlone ==
  \A i \in DOMAIN frames :
    frames[i][1].cls \in PdsClasses /\ frames[i][1].code = "absent" => Len(frames[i]) = 1

(* Every enum member a script assigns to a header field reads back as     *)
(* that member: its value fits the field (a 4-bit next_hdr, a 6-bit SES   *)
(* opcode or return_code, an 8-bit atomic code, datatype or SUPERp        *)
(* opcode), and no member defined before it has the value the field       *)
(* holds.  ctypes keeps the low bits of an over-wide value silently, and  *)
(* X(v) returns the first member of an enum with value v.                 *)
CodesReadBack ==
  \A i \in DOMAIN frames : \A j \in DOMAIN frames[i] :
    LET h == frames[i][j]
    IN /\ CodeField(h) # << >> => ReadCode(h) = h.code
       /\ AuxField(h) # << >> => Read(AuxField(h), h.aux) = h.aux

(* The compare-and-swap extension header carries a CSWAP atomic_code, the *)
(* one that uses its compare and swap values, and the plain atomic        *)
(* extension header does not.  make_uet_ses.py builds each atomic sample  *)
(* and its compare-and-swap sample from near-identical keyword calls.     *)
CompareAndSwapCodes == {"CSWAP", "CSWAP_NE", "CSWAP_LE", "CSWAP_LT", "CSWAP_GE", "CSWAP_GT"}

AtomicExtMatchesCode ==
  \A i \in DOMAIN frames : \A j \in DOMAIN frames[i] :
    frames[i][j].cls \in AtomicExtClasses =>
      (ReadCode(frames[i][j]) \in CompareAndSwapCodes
         <=> frames[i][j].cls = "UetSesAtomicCmpAndSwapHdr")

(* Every script eventually writes its pcap: no statement raises.  Under   *)
(* the fairness of Spec this fails exactly when some call raises.         *)
ScriptCompletes == <>written
=============================================================================
