---------------------------- MODULE CtypesLayout ----------------------------
(***************************************************************************)
(* The bitfield codec engine of the packet helpers.  Every header of the   *)
(* repository is a ctypes.BigEndianStructure or LittleEndianStructure      *)
(* with _pack_ = 1 whose _fields_ list is a sequence of                    *)
(*   (name, c_uintN)        a plain field filling its own storage unit,    *)
(*   (name, c_uintN, bits)  a bitfield, packed by ctypes into a unit, or   *)
(*   (name, Structure)      a nested header (base_hdr, ack, req, cmn ...). *)
(* This module gives that list the layout ctypes gives it (PlaceAll), the  *)
(* layout spec.md section 4.1 prescribes (SpecPlaceAll), and the setter    *)
(* and getter ctypes generates for every field (Encode, ReadField).        *)
(*                                                                         *)
(* ctypes has two bitfield allocation rules.  CPython up to 3.13 on Linux  *)
(* follows the GCC rule of cfield.c (a bitfield may continue in, or        *)
(* expand, the open unit of a narrower type); CPython 3.14 selects the MS  *)
(* rule whenever _pack_ is set (a bitfield continues only in a unit of its *)
(* own type).  Which one runs is a property of the interpreter, so it is a *)
(* parameter "gcc" | "ms" of every operator here.                          *)
(*                                                                         *)
(* Wire positions: bit p of a buffer is bit 7 - (p % 8) of byte p \div 8,  *)
(* i.e. bytes in order and each byte MSB first.                           *)
(***************************************************************************)
EXTENDS Integers, Sequences

Flavours == {"gcc", "ms"}

(* A _fields_ entry.  size is sizeof the ctype in bytes, bits the bitfield *)
(* width (0 for a plain field), rsv marks the fields the code names rsvd.  *)
BF(name, size, bits)  == [name |-> name, size |-> size, bits |-> bits, rsv |-> FALSE, sub |-> <<>>]
Rsv(name, size, bits) == [name |-> name, size |-> size, bits |-> bits, rsv |-> TRUE, sub |-> <<>>]
Plain(name, size)     == BF(name, size, 0)
RsvPlain(name, size)  == Rsv(name, size, 0)
Nest(name, fields)    == [name |-> name, size |-> 0, bits |-> 0, rsv |-> FALSE, sub |-> fields]

(* A placed field: path from the outer header, byte offset and size of    *)
(* the storage unit ctypes reads and writes, and the position (shift,     *)
(* counted from the unit's least significant bit) and width of the field. *)
Placed(path, off, usize, shift, width, rsv) ==
    [path |-> path, off |-> off, usize |-> usize, shift |-> shift, width |-> width, rsv |-> rsv]

EmptyLayout == [off |-> 0, bitofs |-> 0, fsize |-> 0, out |-> <<>>]

(***************************************************************************)
(* One step of ctypes' PyCField_FromDesc: classify the field as           *)
(* CONT_BITFIELD, EXPAND_BITFIELD, NEW_BITFIELD or NO_BITFIELD from the    *)
(* open unit (fsize bits, bitofs of them used) and place it.  be is TRUE  *)
(* for BigEndianStructure, where the first bitfield gets the high bits.   *)
(***************************************************************************)
(* Mutant: the field must leave a free bit in the open unit (< for <=).   *)
ContinuesStrict(f, fl, st) ==
  /\ f.bits > 0 /\ st.fsize > 0
  /\ IF fl = "ms" THEN f.size * 8 = st.fsize ELSE f.size * 8 <= st.fsize
  /\ st.bitofs + f.bits < st.fsize

(* CONT_BITFIELD: the bitfield fits in the rest of the open unit, whose    *)
(* type is its own (MS rule) or at least as wide (GCC rule).              *)
Continues(f, fl, st) ==
  /\ f.bits > 0 /\ st.fsize > 0
  /\ IF fl = "ms" THEN f.size * 8 = st.fsize ELSE f.size * 8 <= st.fsize
  /\ st.bitofs + f.bits <= st.fsize

(* EXPAND_BITFIELD (GCC rule only): a wider bitfield type widens the open  *)
(* unit in place when the bits used so far and the new field fit in it.   *)
Expands(f, fl, st) ==
  /\ fl = "gcc" /\ f.bits > 0 /\ st.fsize > 0
  /\ f.size * 8 >= st.fsize /\ st.bitofs + f.bits <= f.size * 8

(* PlaceFrom and SpecPlaceFrom fold Place over a _fields_ list.  st.off is *)
(* never negative: testing it makes TLC evaluate each step's state before *)
(* the next step instead of building a chain of unevaluated arguments.    *)
RECURSIVE Place(_, _, _, _), PlaceFrom(_, _, _, _, _)

Place(f, fl, be, st) ==
  LET w     == f.size * 8
      inner == PlaceFrom(f.sub, fl, be, 1, EmptyLayout)
      Shift(fs) == IF be THEN fs - st.bitofs - f.bits ELSE st.bitofs
      Put(off, shift, width) ==
          st.out \o << Placed(<<f.name>>, off, f.size, shift, width, f.rsv) >>
  IN CASE f.sub # <<>> ->
            [off |-> st.off + inner.off, bitofs |-> 0, fsize |-> 0,
             out |-> st.out \o [k \in 1..Len(inner.out) |->
                       [inner.out[k] EXCEPT !.path = <<f.name>> \o @,
                                            !.off  = @ + st.off]]]
       [] Continues(f, fl, st) ->
            [st EXCEPT !.bitofs = @ + f.bits,
                       !.out = Put(st.off - f.size, Shift(st.fsize), f.bits)]
       [] Expands(f, fl, st) ->
            LET off2 == st.off + f.size - st.fsize \div 8
            IN [off |-> off2, bitofs |-> st.bitofs + f.bits, fsize |-> w,
                out |-> Put(off2 - f.size, Shift(w), f.bits)]
       [] f.bits > 0 ->
            [off |-> st.off + f.size, bitofs |-> f.bits, fsize |-> w,
             out |-> Put(st.off, IF be THEN w - f.bits ELSE 0, f.bits)]
       [] OTHER ->
            [off |-> st.off + f.size, bitofs |-> 0, fsize |-> 0,
             out |-> Put(st.off, 0, w)]

PlaceFrom(fs, fl, be, i, st) ==
  IF i > Len(fs) \/ st.off < 0 THEN st ELSE PlaceFrom(fs, fl, be, i + 1, Place(fs[i], fl, be, st))

(* The layout of a whole _fields_ list and sizeof the structure.          *)
PlaceAll(fs, fl, be) == PlaceFrom(fs, fl, be, 1, EmptyLayout)

(***************************************************************************)
(* The reference layout of spec.md section 4.1: consecutive bitfields of  *)
(* one ctype form a storage unit whose widths must sum exactly to W, the   *)
(* first declared field takes the most significant bits, a plain field is  *)
(* a unit of its own, units follow each other without gaps, and the byte   *)
(* order of a unit is the structure's.  ok becomes FALSE where the spec    *)
(* would raise SchemaWidthMismatch.  spec.md 4.1 packs bitfields MSB first *)
(* under both byte orders; section 9 leaves open whether the little-endian *)
(* family really does, so SpecPlaceAllOrder(fs, TRUE) packs them LSB first *)
(* instead, as the reference platform's native layout does.                *)
(***************************************************************************)
RECURSIVE SpecPlace(_, _), SpecPlaceFrom(_, _, _)

SpecPlace(f, st) ==
  LET w     == f.size * 8
      inner == SpecPlaceFrom(f.sub, 1, [off |-> 0, used |-> 0, usize |-> 0, ok |-> TRUE,
                                        lsb |-> st.lsb, out |-> <<>>])
      open  == st.used > 0
      fits  == open /\ f.bits > 0 /\ f.size = st.usize /\ st.used + f.bits <= w
      start == IF fits THEN st.used ELSE 0
      uoff  == IF fits THEN st.off - f.size ELSE st.off
      used2 == IF f.bits = 0 THEN 0 ELSE (start + f.bits) % w
  IN IF f.sub # <<>>
     THEN [off |-> st.off + inner.off, used |-> 0, usize |-> 0,
           ok |-> st.ok /\ ~open /\ inner.ok, lsb |-> st.lsb,
           out |-> st.out \o [k \in 1..Len(inner.out) |->
                     [inner.out[k] EXCEPT !.path = <<f.name>> \o @, !.off = @ + st.off]]]
     ELSE [off   |-> IF fits THEN st.off ELSE st.off + f.size,
           used  |-> used2,
           usize |-> f.size,
           ok    |-> st.ok /\ (open => fits),
           lsb   |-> st.lsb,
           out   |-> st.out \o << Placed(<<f.name>>, uoff, f.size,
                                   CASE f.bits = 0 -> 0 [] st.lsb -> start [] OTHER -> w - start - f.bits,
                                   IF f.bits = 0 THEN w ELSE f.bits, f.rsv) >>]

SpecPlaceFrom(fs, i, st) ==
  IF i > Len(fs) \/ st.off < 0 THEN st ELSE SpecPlaceFrom(fs, i + 1, SpecPlace(fs[i], st))

SpecPlaceAllOrder(fs, lsb) ==
  LET st == SpecPlaceFrom(fs, 1, [off |-> 0, used |-> 0, usize |-> 0, ok |-> TRUE,
                                  lsb |-> lsb, out |-> <<>>])
  IN [off |-> st.off, ok |-> st.ok /\ st.used = 0, out |-> st.out]

SpecPlaceAll(fs) == SpecPlaceAllOrder(fs, FALSE)

(***************************************************************************)
(* Bit i (0 = least significant) of a placed field lives at this wire     *)
(* position.  A big-endian unit stores its most significant byte first, a *)
(* little-endian unit its least significant byte first.                   *)
(***************************************************************************)
WirePos(pl, i, be) ==
  LET b    == pl.shift + i
      byte == IF be THEN pl.off + (pl.usize - 1 - b \div 8) ELSE pl.off + b \div 8
  IN 8 * byte + (7 - (b % 8))

(* The field bit stored at wire position p, or -1 when p is outside it.   *)
FieldBitAt(pl, p, be) ==
  LET byte == p \div 8
      k    == byte - pl.off
      b    == IF be THEN 8 * (pl.usize - 1 - k) + (7 - (p % 8)) ELSE 8 * k + (7 - (p % 8))
  IN IF k \in 0..(pl.usize - 1) /\ b - pl.shift \in 0..(pl.width - 1) THEN b - pl.shift ELSE -1

(* A caller's value: a function from bit index to bit.  A known bit is    *)
(* <<0>> or <<1>>, an unknown one <<arg, i>>: bit i of the caller's        *)
(* argument arg, so Arg(name, w) is an arbitrary value of w bits.  Num is   *)
(* the binary expansion of a constant n < 2^31 (the constructors write      *)
(* far smaller constants).                                                 *)
Bit(b)       == << b >>
Arg(name, w) == [i \in 0..(w - 1) |-> << name, i >>]
Num(n, w)    == [i \in 0..(w - 1) |-> Bit(IF i > 30 THEN 0 ELSE (n \div (2^i)) % 2)]
Zeros(w)     == Num(0, w)
BitOf(v, i)  == IF i \in DOMAIN v THEN v[i] ELSE Bit(0)

(* Python's v >> n and v & (2^n - 1) on a value's bits.                  *)
ShiftRight(v, n) == [i \in {j - n : j \in {d \in DOMAIN v : d >= n}} |-> v[i + n]]
LowBits(v, n)    == [i \in 0..(n - 1) |-> BitOf(v, i)]

(* ctypes zero-fills a new Structure instance: sizeof(struct) zero bytes. *)
ZeroBuffer(size) == [p \in 0..(8 * size - 1) |-> Bit(0)]

(* The getter: the field's bits read back from the buffer.                *)
ReadField(buf, pl, be) == [i \in 0..(pl.width - 1) |-> buf[WirePos(pl, i, be)]]

(* The placed field with a given path.                                    *)
FieldAt(layout, path) == layout.out[CHOOSE k \in 1..Len(layout.out) : layout.out[k].path = path]

(* A constructor body: field assignments <<path, value>> in code order.    *)
(* Set is one statement hdr.<pre>.name = v, Const a small literal, Sets   *)
(* the statements hdr.<pre>.p = p that copy parameters of the same name.  *)
Set(pre, name, v) == << pre \o << name >>, v >>
Const(n) == Num(n, 16)
Sets(pre, a, names) == [i \in 1..Len(names) |-> Set(pre, names[i], a[names[i]])]

(***************************************************************************)
(* Encode: ctypes zero-fills the instance, then the constructor's         *)
(* assignments run in order through the setter ctypes generates for each  *)
(* field: the low width bits of the value replace the field's bits of its *)
(* unit and every other bit is kept; bits above the width are dropped      *)
(* without an error, for bitfields (mask) and plain c_uintN fields alike.  *)
(* A setter touches its own field's bits only, so each bit of the result  *)
(* is the bit the last assignment covering it wrote (LastWriter), or the   *)
(* zero fill.                                                              *)
(***************************************************************************)
RECURSIVE LastWriter(_, _, _, _)
LastWriter(pls, p, i, be) ==
  IF i = 0 \/ FieldBitAt(pls[i], p, be) >= 0 THEN i ELSE LastWriter(pls, p, i - 1, be)

Encode(layout, as, be) ==
  LET pls == [i \in 1..Len(as) |-> FieldAt(layout, as[i][1])]
  IN [p \in DOMAIN ZeroBuffer(layout.off) |->
        LET i == LastWriter(pls, p, Len(as), be)
        IN IF i = 0 THEN Bit(0) ELSE BitOf(as[i][2], FieldBitAt(pls[i], p, be))]
=============================================================================
