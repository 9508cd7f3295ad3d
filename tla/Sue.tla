--------------------------------- MODULE Sue ---------------------------------
(***************************************************************************)
(* The SUE reliability header (src/tools/packets/sue/sue.py) and the       *)
(* packets make_sue.py builds.  There is one ctypes.BigEndianStructure,    *)
(* SueHdr, and one constructor, MakeSueRhdr; the script calls it once per  *)
(* SueOpcode (ACK, NACK, INVALID1, INVALID2) and appends each header with  *)
(* MakePacket.  The 2-bit opcode is the header's discriminator, so each    *)
(* opcode is a variant here and its value a constant of the call.          *)
(***************************************************************************)
EXTENDS Integers, Sequences, FiniteSets, CtypesLayout

CONSTANTS
  MaxPackets,   (* bound on the length of the packet list                  *)
  Rules         (* the ctypes bitfield rules the interpreter may follow    *)

VARIABLES
  flavour,      (* ctypes bitfield rule of the interpreter: "gcc" | "ms"   *)
  packets,      (* the SUE headers appended by MakePacket                  *)
  calls         (* history: the opcode and arguments behind packets[i]     *)

vars == << flavour, packets, calls >>

-----------------------------------------------------------------------------
SUE_PROTO_VERSION == 0

(* The four SueOpcode members the script passes to MakeSueRhdr.           *)
SueOpcode == [Ack |-> 0, Nack |-> 1, Invalid1 |-> 2, Invalid2 |-> 3]
Kinds == DOMAIN SueOpcode

(* Three big-endian c_uint16 units of bitfields and two plain c_uint16.   *)
SueHdr ==
  << BF("version", 2, 2), BF("opcode", 2, 2), Rsv("rsvd1", 2, 2), BF("xpuid", 2, 10),
     Plain("psn", 2),
     BF("vc", 2, 2), Rsv("rsvd2", 2, 4), BF("partition", 2, 10),
     Plain("apsn", 2) >>

Schema == [k \in Kinds |-> SueHdr]

(* Mutant: rsvd2 assigned vc instead of 0.                                 *)
MakeSueRhdrBodyRsvd(opcode, a) ==
  << Set(<<>>, "version", Const(SUE_PROTO_VERSION)), Set(<<>>, "opcode", Const(opcode)),
     Set(<<>>, "rsvd1", Const(0)) >>
  \o Sets(<<>>, a, << "xpuid", "psn", "vc" >>)
  \o << Set(<<>>, "rsvd2", a.vc) >>
  \o Sets(<<>>, a, << "partition", "apsn" >>)

(* Mutant: psn and apsn assigned each other's argument.                    *)
MakeSueRhdrBodySwapPsn(opcode, a) ==
  << Set(<<>>, "version", Const(SUE_PROTO_VERSION)), Set(<<>>, "opcode", Const(opcode)),
     Set(<<>>, "rsvd1", Const(0)), Set(<<>>, "xpuid", a.xpuid), Set(<<>>, "psn", a.apsn),
     Set(<<>>, "vc", a.vc), Set(<<>>, "rsvd2", Const(0)), Set(<<>>, "partition", a.partition),
     Set(<<>>, "apsn", a.psn) >>

(* MakeSueRhdr: version, the opcode argument, rsvd1 = 0, xpuid, psn, vc,  *)
(* rsvd2 = 0, partition, apsn, in that order.                              *)
MakeSueRhdrBody(opcode, a) ==
  << Set(<<>>, "version", Const(SUE_PROTO_VERSION)), Set(<<>>, "opcode", Const(opcode)),
     Set(<<>>, "rsvd1", Const(0)) >>
  \o Sets(<<>>, a, << "xpuid", "psn", "vc" >>)
  \o << Set(<<>>, "rsvd2", Const(0)) >>
  \o Sets(<<>>, a, << "partition", "apsn" >>)

Body(k, a) == MakeSueRhdrBody(SueOpcode[k], a)

Params == [k \in Kinds |-> {"xpuid", "psn", "vc", "partition", "apsn"}]

Fixed == [k \in Kinds |-> [version |-> SUE_PROTO_VERSION, opcode |-> SueOpcode[k]]]

(* Dispatch (spec.md 4.4): the opcode field, read where spec.md 4.1 puts  *)
(* it, selects the variant.                                                *)
Discriminator == FieldAt(SpecPlaceAll(SueHdr), << "opcode" >>)

VariantTable == [t \in {Num(SueOpcode[k], Discriminator.width) : k \in Kinds} |->
                   CHOOSE k \in Kinds : Num(SueOpcode[k], Discriminator.width) = t]

Dispatch(buf) ==
  LET t == ReadField(buf, Discriminator, TRUE)
  IN IF t \in DOMAIN VariantTable THEN VariantTable[t] ELSE "UnknownVariant"

(* The ctypes layout under both rules and the spec.md 4.1 layout.          *)
Layout == [fl \in Flavours |-> [k \in Kinds |-> PlaceAll(Schema[k], fl, TRUE)]]
SpecLayout == [k \in Kinds |-> SpecPlaceAll(Schema[k])]

ByteOrder == [k \in Kinds |-> TRUE]

Fam == INSTANCE HeaderFamily WITH BigEndian <- ByteOrder, OverArgs <- {},
                                  Derived <- [k \in Kinds |-> <<>>],
                                  Dispatch <- LAMBDA buf, named : Dispatch(buf)

-----------------------------------------------------------------------------
Init == Fam!Init

(* req = sue.MakeSueRhdr(opcode = SueOpcode.X.value, ...); MakePacket(req) *)
MakeSueRhdr(k) == Fam!Make(k)

Next == \E k \in Kinds : MakeSueRhdr(k)

Spec == Init /\ [][Next]_vars

-----------------------------------------------------------------------------
(* Type: every SUE header is the 8 bytes of SueHdr, and its bits are      *)
(* constants or bits of MakeSueRhdr's arguments.                           *)
TypeOK == Fam!TypeOK

(* Round trip: every SUE header decodes, through its opcode, to the       *)
(* opcode passed to MakeSueRhdr (INVALID1 and INVALID2 included) and to   *)
(* every argument, version 0 in place.  It fails when a field lands       *)
(* elsewhere than spec.md puts it or when an argument goes to the wrong   *)
(* field.                                                                  *)
RoundTrip == Fam!RoundTrip

(* MakeSueRhdr implements the abstract header log: rsvd1 and rsvd2, which *)
(* it sets to 0 explicitly, are zero on the wire.                          *)
HLSpec == Fam!HLSpec
=============================================================================
