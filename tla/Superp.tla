------------------------------- MODULE Superp -------------------------------
(***************************************************************************)
(* The SUPERp headers (src/tools/packets/superp/superp.py) and the headers *)
(* make_superp.py builds.  Every structure is a ctypes.LittleEndianStructure: *)
(* multi-byte units go least significant byte first and, on the platform   *)
(* ctypes targets, the first bitfield of a unit takes its least            *)
(* significant bits.  A packet is a delivery header, a transaction header  *)
(* whose opcode names the operation and num_ops the count, and that many   *)
(* operation headers; no header names its own shape, so the decoder is     *)
(* given the schema.  The script builds SendOp and SendToQPOp headers with *)
(* the class constructor (positional field values) rather than MakeSendOp, *)
(* whose body reads the undefined names key and offset.                    *)
(***************************************************************************)
EXTENDS Integers, Sequences, FiniteSets, CtypesLayout, Sunh

CONSTANTS
  MaxPackets,   (* bound on the length of the packet list                  *)
  SpecLsb       (* TRUE: read bitfields LSB first within a unit (native    *)
                (* layout); FALSE: MSB first, as spec.md 4.1 states        *)

VARIABLES
  flavour,      (* ctypes bitfield rule of the interpreter: "gcc" | "ms"   *)
  packets,      (* the SUPERp headers appended by MakePacket*              *)
  calls,        (* history: the constructor and arguments behind packets[i] *)
  raised        (* "none", or the exception that ended the script          *)

vars == << flavour, packets, calls, raised >>

-----------------------------------------------------------------------------
(* The structures of superp.py, each built by one constructor, and the    *)
(* SUNH header make_superp.py puts in front of its last packet.           *)
Kinds == {"PacketDeliveryHdr", "TransactionHdr", "ReadOp", "WriteOp", "ReadResp",
          "TransactErr", "SendOp", "SendToQPOp", "SUNH_Header"}

PacketDeliveryHeader ==
  << Plain("dcid", 2), Plain("rwin", 2), Plain("psn", 4), Plain("ack_psn", 4),
     Plain("sack_bitmap", 4) >>

TransactionHeader ==
  << BF("num_ops", 1, 4), Rsv("rsvd", 1, 3), BF("eom", 1, 1), Plain("opcode", 1),
     Plain("seqno", 2), Plain("xid", 2), Plain("ack_xid", 2) >>

ReadOp  == << Plain("addr", 8), Plain("length", 4) >>
WriteOp == << Plain("addr", 8) >>

ReadResp ==
  << Plain("seqno", 2), Plain("op_num", 1), RsvPlain("rsvd", 1), Plain("offset", 4) >>

TransactErr ==
  << Plain("seqno", 2), Plain("op_num", 1), RsvPlain("rsvd", 1),
     Plain("major_err_code", 2), Plain("minor_err_code", 2) >>

SendOp     == << Plain("key", 4), Plain("offset", 4) >>
SendToQPOp == << BF("queue_pair", 4, 24), Rsv("rsvd", 4, 8) >>

Schema ==
  [k \in Kinds |->
     CASE k = "PacketDeliveryHdr" -> PacketDeliveryHeader
       [] k = "TransactionHdr"    -> TransactionHeader
       [] k = "ReadOp"            -> ReadOp
       [] k = "WriteOp"           -> WriteOp
       [] k = "ReadResp"          -> ReadResp
       [] k = "TransactErr"       -> TransactErr
       [] k = "SendOp"            -> SendOp
       [] k = "SendToQPOp"        -> SendToQPOp
       [] k = "SUNH_Header"       -> SUNH_Header]

-----------------------------------------------------------------------------
(* The constructors' bodies: the assignments of each one, in code order.  *)
MakePacketDeliveryHdrBody(a) ==
  Sets(<<>>, a, << "dcid", "rwin", "psn", "ack_psn", "sack_bitmap" >>)

(* Mutant: xid and ack_xid assigned each other's argument.                *)
MakeTransactionHdrBodySwapXid(a) ==
  Sets(<<>>, a, << "eom", "num_ops", "opcode", "seqno" >>)
  \o << Set(<<>>, "xid", a.ack_xid), Set(<<>>, "ack_xid", a.xid) >>

MakeTransactionHdrBody(a) ==
  Sets(<<>>, a, << "eom", "num_ops", "opcode", "seqno", "xid", "ack_xid" >>)

MakeReadOpBody(a)  == Sets(<<>>, a, << "addr", "length" >>)
MakeWriteOpBody(a) == Sets(<<>>, a, << "addr" >>)
MakeReadRespBody(a) == Sets(<<>>, a, << "seqno", "op_num", "offset" >>)

(* Mutant: op_num also written to the reserved byte beside it.            *)
MakeTransactErrBodyRsvd(a) ==
  Sets(<<>>, a, << "seqno", "op_num" >>) \o << Set(<<>>, "rsvd", a.op_num) >>
  \o Sets(<<>>, a, << "major_err_code", "minor_err_code" >>)

MakeTransactErrBody(a) ==
  Sets(<<>>, a, << "seqno", "op_num", "major_err_code", "minor_err_code" >>)

(* SendOp(key, offset): the Structure constructor assigns positional      *)
(* arguments to the fields in _fields_ order.                              *)
SendOpInit(a) == Sets(<<>>, a, << "key", "offset" >>)

(* MakeSendToQPOp(queue_pair), and SendToQPOp(queue_pair) alike.           *)
MakeSendToQPOpBody(a) == Sets(<<>>, a, << "queue_pair" >>)

Body(k, a) ==
  CASE k = "PacketDeliveryHdr" -> MakePacketDeliveryHdrBody(a)
    [] k = "TransactionHdr"    -> MakeTransactionHdrBody(a)
    [] k = "ReadOp"            -> MakeReadOpBody(a)
    [] k = "WriteOp"           -> MakeWriteOpBody(a)
    [] k = "ReadResp"          -> MakeReadRespBody(a)
    [] k = "TransactErr"       -> MakeTransactErrBody(a)
    [] k = "SendOp"            -> SendOpInit(a)
    [] k = "SendToQPOp"        -> MakeSendToQPOpBody(a)
    [] k = "SUNH_Header"       -> MakeSUNH_HeaderBody(a)

(* The parameters of each constructor: every non-reserved field.          *)
Params ==
  [k \in Kinds |-> {Schema[k][i].name : i \in {j \in DOMAIN Schema[k] : ~Schema[k][j].rsv}}]

Fixed == [k \in Kinds |-> <<>>]

(* Every SUPERp structure is little-endian; the SUNH header big-endian.    *)
ByteOrder == [k \in Kinds |-> k = "SUNH_Header"]

(* The ctypes layout of every structure under both rules, and the layout  *)
(* spec.md section 4.1 gives it, with the bit order SpecLsb selects for   *)
(* the little-endian structures.                                          *)
Layout == [fl \in Flavours |-> [k \in Kinds |-> PlaceAll(Schema[k], fl, ByteOrder[k])]]
SpecLayout == [k \in Kinds |-> SpecPlaceAllOrder(Schema[k], SpecLsb /\ ~ByteOrder[k])]

(* The decoder is handed the schema the context names.                     *)
NamedSchema(buf, named) == named

Fam == INSTANCE HeaderFamily WITH BigEndian <- ByteOrder, OverArgs <- {}, Rules <- Flavours,
                                  Derived <- [k \in Kinds |-> <<>>], Dispatch <- NamedSchema

-----------------------------------------------------------------------------
Init == Fam!Init /\ raised = "none"

(* One constructor call of the script, hdr = superp.MakeX(...) followed by *)
(* its MakePacket*; nothing runs once an exception has ended the script.  *)
Call(k) == raised = "none" /\ Fam!Make(k) /\ UNCHANGED raised

MakePacketDeliveryHdr == Call("PacketDeliveryHdr")
MakeTransactionHdr    == Call("TransactionHdr")
MakeReadOp            == Call("ReadOp")
MakeWriteOp           == Call("WriteOp")
MakeReadResp          == Call("ReadResp")
MakeTransactErr       == Call("TransactErr")
SendOpCtor            == Call("SendOp")
MakeSendToQPOp        == Call("SendToQPOp")
MakeSUNH_Header       == Call("SUNH_Header")

(* MakeSendOp(addr, length): the body reads key and offset, names bound    *)
(* nowhere, so the call raises NameError before it returns a header and    *)
(* nothing is appended.                                                    *)
MakeSendOp ==
  /\ raised = "none"
  /\ Len(packets) < MaxPackets
  /\ raised' = "NameError"
  /\ UNCHANGED << flavour, packets, calls >>

Next ==
  \/ MakePacketDeliveryHdr \/ MakeTransactionHdr \/ MakeReadOp \/ MakeWriteOp
  \/ MakeReadResp \/ MakeTransactErr \/ SendOpCtor \/ MakeSendToQPOp
  \/ MakeSUNH_Header \/ MakeSendOp

Spec == Init /\ [][Next]_vars

-----------------------------------------------------------------------------
(* Type: each SUPERp header has the size spec.md gives its structure, its *)
(* bits are constants or argument bits, and raised names the exception.   *)
TypeOK == Fam!TypeOK /\ raised \in {"none", "NameError"}

(* Round trip: every field of every SUPERp header reads back, at the place *)
(* the spec layout gives it, the argument the constructor was passed.  It  *)
(* fails when a constructor stores an argument in the wrong field, or when *)
(* the little-endian bit order of the spec and of ctypes disagree (the     *)
(* 4-bit num_ops, 3-bit rsvd and 1-bit eom of TransactionHeader, the       *)
(* 24-bit queue_pair of SendToQPOp).                                       *)
RoundTrip == Fam!RoundTrip

(* The SUPERp constructors implement the abstract header log: beyond the  *)
(* round trip, every reserved field (rsvd of TransactionHeader, ReadResp, *)
(* TransactErr and SendToQPOp, none assigned by the code) is zero.        *)
HLSpec == Fam!HLSpec
=============================================================================
