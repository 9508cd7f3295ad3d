---------------------------- MODULE HeaderFamily ----------------------------
(***************************************************************************)
(* A family of header constructors and the sample script that calls them, *)
(* the shape every protocol directory under src/tools/packets/ has: a      *)
(* module of ctypes structures with one Make* function per variant, and a  *)
(* make_*.py script that calls them and appends each header's bytes to a   *)
(* global list handed to wrpcap.  A family module (Falcon, UetPds, ...)    *)
(* gives the schemas, the constructor bodies and the variant table; this   *)
(* module gives the state machine, the spec's decoder and the properties.  *)
(*                                                                         *)
(* State: the interpreter's ctypes bitfield rule, the packet list, and, as *)
(* a history variable, the constructor call behind each packet.            *)
(***************************************************************************)
EXTENDS Integers, Sequences, FiniteSets, TLC, CtypesLayout
LOCAL INSTANCE FiniteSetsExt

CONSTANTS
  Kinds,        (* the variants: one Make* function each                   *)
  Schema,       (* Schema[k]: the _fields_ of variant k                    *)
  BigEndian,    (* BigEndian[k]: TRUE for a ctypes.BigEndianStructure      *)
  Layout,       (* Layout[fl][k]: PlaceAll(Schema[k], fl, BigEndian[k])    *)
  SpecLayout,   (* SpecLayout[k]: SpecPlaceAll(Schema[k])                  *)
  Params,       (* Params[k]: the field-valued parameters of Make* k       *)
  Body(_, _),   (* Body(k, a): the assignments of Make* k, in code order   *)
  Fixed,        (* Fixed[k]: fields Make* k sets to a constant, and values *)
  Derived,      (* Derived[k][f]: field f holds bits lo.. of parameter from *)
  Dispatch(_, _), (* Dispatch(buf, k): the spec's variant lookup of buf     *)
                (* (spec.md 4.4); k is the schema the context names, for a *)
                (* family whose headers carry no discriminator (4.3)       *)
  MaxPackets,   (* bound on the length of the packet list                  *)
  OverArgs,     (* pairs <<k, p>>: callers pass p of Make* k too wide      *)
  Rules         (* the ctypes bitfield rules the interpreter may follow    *)

VARIABLES
  flavour,      (* ctypes bitfield rule of the interpreter: "gcc" | "ms"   *)
  packets,      (* the packet list: wire bits of each header appended      *)
  calls         (* history: the constructor and arguments behind packets[i] *)

vars == << flavour, packets, calls >>

-----------------------------------------------------------------------------
(***************************************************************************)
(* Decoding (spec.md 4.3, 4.4; no decoder exists under src/): select the  *)
(* variant, fail with BufferTooShort on a short buffer, and read every     *)
(* field at the place section 4.1 gives it.                                *)
(***************************************************************************)
SizeOf(buf) == Cardinality(DOMAIN buf) \div 8

DecodeAs(buf, k) ==
  IF SizeOf(buf) < SpecLayout[k].off
  THEN [kind |-> "BufferTooShort", val |-> <<>>]
  ELSE [kind |-> k,
        val  |-> [j \in 1..Len(SpecLayout[k].out) |->
                    ReadField(buf, SpecLayout[k].out[j], BigEndian[k])]]

Decode(buf, named) ==
  LET k == Dispatch(buf, named)
  IN IF k \in Kinds THEN DecodeAs(buf, k) ELSE [kind |-> k, val |-> <<>>]

(* The width of the field a parameter is written to or, for a parameter   *)
(* the constructor splits over several fields (Derived), the width the    *)
(* fields hold together.                                                   *)
LeafName(pl) == pl.path[Len(pl.path)]
FieldWidth(k, f) ==
  LET l == SpecLayout[k].out
  IN l[CHOOSE j \in 1..Len(l) : LeafName(l[j]) = f].width
ParamWidth(k, p) ==
  IF p \in {Derived[k][f].from : f \in DOMAIN Derived[k]}
  THEN Max({Derived[k][f].lo + FieldWidth(k, f) : f \in {g \in DOMAIN Derived[k] : Derived[k][g].from = p}})
  ELSE FieldWidth(k, p)

(* A caller's argument: any value of the field's width, or, where the      *)
(* sample script passes a wider value, one with a bit above the width.    *)
InRange(k) == [p \in Params[k] |-> Arg(p, ParamWidth(k, p))]
Over(k, p) == [InRange(k) EXCEPT ![p] = @ @@ (ParamWidth(k, p) :> Bit(1))]
ArgChoices(k) == {InRange(k)} \cup {Over(k, p) : p \in {q \in Params[k] : << k, q >> \in OverArgs}}

-----------------------------------------------------------------------------
Init ==
  /\ flavour \in Rules
  /\ packets = <<>>
  /\ calls = <<>>

(* hdr = MakeX(...); MakePacket(hdr): ctypes zero-fills a new instance,   *)
(* the constructor assigns its fields, and the header's bytes are appended *)
(* to the packet list.                                                     *)
Make(k) ==
  /\ Len(packets) < MaxPackets
  /\ \E a \in ArgChoices(k) :
       /\ packets' = Append(packets, Encode(Layout[flavour][k], Body(k, a), BigEndian[k]))
       /\ calls' = Append(calls, [kind |-> k, args |-> a])
  /\ UNCHANGED flavour

-----------------------------------------------------------------------------
(* The value spec.md expects in a field of a header built by call c: zero *)
(* in a reserved field, the variant's constant, the caller's argument, or *)
(* for a split parameter the bits of it the field holds.                  *)
Expected(c, pl) ==
  CASE pl.rsv -> Zeros(pl.width)
    [] LeafName(pl) \in DOMAIN Fixed[c.kind] -> Num(Fixed[c.kind][LeafName(pl)], pl.width)
    [] LeafName(pl) \in DOMAIN Derived[c.kind] ->
         LET d == Derived[c.kind][LeafName(pl)]
         IN [i \in 0..(pl.width - 1) |-> BitOf(c.args[d.from], d.lo + i)]
    [] OTHER -> c.args[LeafName(pl)]

(* The headers HeaderLog allows for variant k, field by field.             *)
Allowed(k) ==
  { [kind |-> k,
     val  |-> [j \in 1..Len(SpecLayout[k].out) |->
                 Expected([kind |-> k, args |-> a], SpecLayout[k].out[j])]]
    : a \in {InRange(k)} }

HL == INSTANCE HeaderLog WITH log <- [i \in 1..Len(packets) |-> Decode(packets[i], calls[i].kind)],
                              Headers <- Allowed, MaxLog <- MaxPackets

(* Type: every packet is a bit string of the size spec.md gives the variant *)
(* built, each bit 0, 1 or a bit of one of the call's arguments.          *)
TypeOK ==
  /\ flavour \in Flavours
  /\ Len(packets) = Len(calls) /\ Len(packets) <= MaxPackets
  /\ \A i \in 1..Len(calls) :
       /\ calls[i].kind \in Kinds
       /\ DOMAIN packets[i] = 0..(8 * SpecLayout[calls[i].kind].off - 1)
       /\ \A p \in DOMAIN packets[i] :
            packets[i][p] \in {Bit(0), Bit(1)} \cup (Params[calls[i].kind] \X Nat)

(* Round trip (spec.md 8): the spec's decoder selects, for every packet,  *)
(* the variant that was built, and every non-reserved field reads back the *)
(* caller's argument of the same name or the variant's constant.  It fails *)
(* when a constructor writes a wrong discriminator or an argument into the *)
(* wrong field, when ctypes places a field elsewhere than section 4.1, or  *)
(* when a value wider than its field is cut to the field.                  *)
RoundTrip ==
  \A i \in 1..Len(packets) :
    LET d == Decode(packets[i], calls[i].kind)
        l == SpecLayout[calls[i].kind].out
    IN /\ d.kind = calls[i].kind
       /\ \A j \in 1..Len(l) : ~l[j].rsv => d.val[j] = Expected(calls[i], l[j])

(* Storage units well formed (spec.md 3, SchemaWidthMismatch): every      *)
(* header the script builds has a structure whose bitfields fill each      *)
(* storage unit exactly, so the spec's encoder would accept its schema.    *)
UnitsWellFormed == \A i \in 1..Len(calls) : SpecLayout[calls[i].kind].ok

(* Refinement: the family implements HeaderLog; every packet decodes to    *)
(* the record the spec allows, reserved fields included.                  *)
HLSpec == HL!Spec
=============================================================================
