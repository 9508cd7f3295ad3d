# TLA+ models of the xdp2 sample-packet generators

This directory holds TLA+ models of `src/tools/packets/`. That directory has
the Python helpers that build protocol headers with `ctypes`, plus the scripts
that write one sample packet of each header variant to a pcap file. The models
check the headers those helpers produce against `spec.md`. They check the byte
layout each header has on the wire (spec.md 4.1), that each header decodes to
the right variant (4.3, 4.4), and that decoding it recovers the caller's field
values (8). A second level, `Scripts`, models the four sample scripts that
put several headers in one frame. Each is modelled as the program it is:
- its global names;
- the frames it sends;
- the exceptions it can raise.

These models check what the headers of one frame say about each other.

## The system

Each protocol directory has two files:

* **A helper module** (`falcon.py`, `uet_pds.py`, `uet_ses.py`, `superp.py`,
  `sue.py`, `sunh.py`).
  - It has one `ctypes.BigEndianStructure` or `LittleEndianStructure` per
    header shape, always with `_pack_ = 1`.
  - The structures use bitfields inside 8/16/32/64-bit storage units, and
    larger shapes embed smaller ones (`("req", UetPdsRudRodRequest)`).
  - For each variant there is one `Make*` function. It creates a zero-filled
    instance and assigns its fields in a fixed order, often through a shared
    `Fill*` function. It writes the variant's type value, a `syn` or `cc_type`
    bit, reserved zeros, and the caller's arguments.
* **A sample script** (`make_*.py`).
  - It builds Ethernet/IP/UDP layers with scapy.
  - It calls each `Make*` once with literal arguments and passes the result to
    `MakePacket`, which appends `Raw(load=hdr)` to a global `packets` list.
  - It ends with `wrpcap`.

The parts interact in one direction. The script calls constructors, the
constructors write fields into ctypes storage, and ctypes decides where the
bits land. There is no concurrency, no I/O inside the constructors, and no
state shared between calls except the packet list and the script's globals
(`pds`, `ses`, `tal`, `sunh`...), which later statements reuse. The hard part is the data
path:
- where CPython's ctypes puts each bitfield, under two rules that depend on
  the interpreter version;
- whether the fields a constructor writes, and the ones it leaves at zero,
  give a header that the spec's decoder reads back as the same variant and
  the same values.

### Inventory

| Part | Source | Modelled |
|---|---|---|
| ctypes bitfield placement (gcc rule ≤ 3.13, ms rule 3.14 with `_pack_`), zero fill, masking setter, byte order | CPython behaviour used by every helper | `CtypesLayout` |
| spec.md 4.1 storage-unit layout and `SchemaWidthMismatch` | spec.md | `CtypesLayout` (`SpecPlace*`) |
| Falcon: 7 structures, 7 `Make*`, `FillBaseHdr`, `FillBaseAck` | `falcon/falcon.py` | `Falcon` |
| make_falcon.py: `MakePacket`, `packets`, 7 sample calls | `falcon/make_falcon.py` | `Falcon`, `HeaderFamily` |
| UET PDS: 11 structures, 19 `Make*`, `FillRudRodRequest`, `FillAck`, `FillRudiReqResp`, `FillNack` | `uet/uet_pds.py` | `UetPds` |
| make_uet_pds.py: PDS header of 19 sample calls | `uet/make_uet_pds.py` | `UetPds`, `HeaderFamily` |
| spec.md 4.3/4.4 decoder and variant dispatch (no code under src/) | spec.md | `HeaderFamily`, family `Dispatch` |
| UET SES: 13 structures, 12 `Make*`, `FillCommonHdr`, the `job_id` split | `uet/uet_ses.py` | `UetSes` |
| make_uet_ses.py: SES header of every `MakePacket`/`MakePacket3` call | `uet/make_uet_ses.py` | `UetSes`, `HeaderFamily` |
| SUPERp: 8 little-endian structures, 7 `Make*`, the `SendOp` class constructor, `MakeSendOp` (raises) | `superp/superp.py` | `Superp` |
| make_superp.py: every header passed to `MakePacket*`/`MakeSUNHPacket8` | `superp/make_superp.py` | `Superp`, `HeaderFamily` |
| SUNH: `SUNH_Header`, `MakeSUNH_Header` | `sunh/sunh.py` | `Sunh` (built in `Superp`) |
| make_sunh.py: `MakeSUNHPacket`, the `sunh` rebinding, the frame | `sunh/make_sunh.py` | `Scripts` (header bits in `Sunh`) |
| statement order, globals, frames and exceptions of make_uet_pds.py, make_uet_ses.py, make_superp.py, make_sunh.py | `make_*.py` | `Scripts` |
| SUE: `SueHdr`, `MakeSueRhdr`, the four opcode samples | `sue/*.py` | `Sue` |
| `UetPdsPrologue`, `FillPrologue` (never called) | `uet/uet_pds.py:33-44` | no: dead code |
| scapy layer bytes, `wrpcap` output, `sys.argv` parsing | `make_*.py` | no: I/O only |

## Modules

* **`CtypesLayout`** holds the layout engine. Each definition is commented
  with what it does.
  - A field is a record built by `BF`, `Rsv`, `Plain`, `RsvPlain` or `Nest`,
    mirroring a `_fields_` entry.
  - `Place`/`PlaceAll` translate CPython's rule for a new bitfield. It either
    continues the open unit (`Continues`), or, under gcc only, extends it to
    a wider type (`Expands`), or opens a new unit. They produce each field's
    byte offset, unit size and shift.
  - `SpecPlace`/`SpecPlaceAll` are spec.md 4.1's rule. They also record
    whether every unit is filled exactly.
  - Bits are symbolic. A bit is `<<0>>`, `<<1>>` or `<<param, i>>`, which
    stands for bit i of a caller's argument.
  - `Encode` gives each bit of a zero-filled buffer the value of the last
    assignment whose field covers it (`LastWriter`). This is the ctypes
    setter applied in code order: a later write to a field replaces an
    earlier one, and bits beyond a field's width are dropped. One TLC state
    therefore covers every argument value at once.
  - `SpecPlaceAllOrder(fs, lsb)` is spec.md 4.1's layout with the bit order
    inside a unit as a parameter. spec.md 4.1 says MSB first. spec.md
    section 9 leaves the little-endian case open. SUPERp uses it to check
    both readings.
  - The folds `PlaceFrom`/`SpecPlaceFrom` test `st.off < 0`, which is never
    true. The test makes TLC evaluate each intermediate state and keeps
    its evaluation stack shallow on the long SES schemas.
* **`HeaderFamily`** is the state machine every sample script shares. Each
  family instantiates it with its schemas and constructor bodies.
  - `flavour` is the ctypes rule of the interpreter running the script.
    `Init` chooses it from `Rules`.
  - `BigEndian[k]` is the byte order of variant k's structure. `Derived`
    names fields that hold part of a parameter (SES `job_id1`/`job_id2`).
    `Dispatch(buf, named)` is the variant selection. It reads a
    discriminator from the bytes, or it takes the schema the context names
    when a header has no discriminator of its own (SES, SUPERp).
  - `packets` is the header bytes appended by `MakePacket`.
  - `calls` is a history variable: the constructor and arguments behind each
    packet.
  - `Make(k)` is one `hdr = MakeK(...); MakePacket(hdr)`: zero fill, the
    constructor's whole body, and the append.
  - `Decode` is the spec's decoder: dispatch, `BufferTooShort`, and then every
    field at its spec.md 4.1 place.
* **`HeaderLog`** is the abstract specification of a constructor family. It
  has a log of field-value records and one action that appends a header the
  family allows: the variant's constants, zero in reserved fields, and the
  caller's arguments elsewhere. `HeaderFamily` implements it through
  `HL == INSTANCE HeaderLog WITH log <- decoded packets`.
* **`Falcon`** holds the Falcon schemas (`FalconBaseHdr` … `FalconNack`) and
  one body per `Make*` in code order. It also has the `packet_type` variant
  table and one action per sample call.
* **`UetPds`** holds the eleven PDS structures and one body per pair of
  `Make*` functions that differ only in the type constant. There is one
  action per `Make*`.
  - Several constructors share a type and differ only in `syn`
    (RUD/ROD request, control) or `cc_type` (ACK_CC). The model's `Dispatch`
    therefore reads type, then that second field.
  - `SingleLookup` switches it to spec.md 4.4's one-level lookup.
  - `SampleOverflow` lets `MakeNackCcx` receive the 60-bit value the script
    passes.
* **`UetSes`** holds the SES structures, with the common header nested in
  the six requests, and one body per `Make*` with `FillCommonHdr` in front.
  - `JobIdSplit` is `job_id1 = job_id >> 16; job_id2 = job_id & 0xffff`.
    The round trip reassembles `job_id` from the two fields.
  - No SES header names its own shape. The decoder is therefore handed the
    schema that the PDS `next_hdr` would name (`NamedSchema`).
* **`Superp`** holds the eight `LittleEndianStructure`s and their
  constructors, plus the big-endian SUNH header that `make_superp.py` puts
  in front of its last packet.
  - `SendOpCtor` is the `SendOp(key, offset)` class call the script makes.
  - `MakeSendOp` is the helper, whose body reads `key` and `offset`. These
    names are bound nowhere, so the action sets `raised` to `NameError`,
    and after that no action runs.
  - `SpecLsb` picks the spec's intra-unit bit order for the little-endian
    structures.
* **`Sunh`** holds `SUNH_Header` and `MakeSUNH_Header`'s body.
* **`Sue`** holds `SueHdr` and `MakeSueRhdr`. Each of the four `SueOpcode`
  values the script passes is a variant, selected by the 2-bit opcode.
* **`Scripts`** models the four multi-header scripts statement by statement.
  - A header is abstracted to `Hdr(cls, code, num)` or `Coded(cls, code,
    aux)`. These hold:
    - its class;
    - the enum member its type-naming field is assigned (`code`);
    - a count (`num`): `num_ops` for a SUPERp transaction, the IP protocol
      for SUNH;
    - a second enum member (`aux`): the return code of an SES response, the
      datatype of an atomic extension header.

    The other bits are `Sunh`'s and the families' concern.
  - The enums are kept as in the code: `UetNextHeaderType`, the five SES
    enums and `SUPERp_Op_Type`, each a sequence of (name, value) in
    definition order, vendor-defined ranges included.
    - `CodeField`/`AuxField` give the enum and the width of the field a code
      is stored in.
    - `ReadCode` is what a reader gets back: the stored low bits, mapped to
      the first member defined with that value, which is Python's `X(v)`.

    The frame properties use the code read back, not the name the script
    wrote.
  - `env` holds the globals. Each is the imported module, `Unbound`, or the
    header last assigned to it. `Construct` executes `x = mod.MakeY(...)`;
    `MakePacket` executes a `MakePacket*` call; `WritePcap` ends the script.
  - `CallRaises` gives Python's outcome for a call:
    - an unbound name raises `NameError`;
    - a name rebound from module to header, such as `sunh.MakeSUNH_Header`
      after make_sunh.py's line 38, raises `AttributeError`;
    - `MakeSendOp` raises `NameError`.

    After a raise, no statement runs.
  - `MakePacket` puts the UDP layer after the first header when the call is
    make_sunh.py's `MakeSUNHPacket`.
* **`MCFalcon`, `MCUetPds`, `MCUetSes`, `MCSuperp`, `MCSue`** set
  `MaxPackets` for TLC. **`MCScripts`** lists the four script names.

## Runs

| Run | Config | Expect | What it shows |
|---|---|---|---|
| falcon_roundtrip | `MCFalcon.cfg` | pass | Under both ctypes rules, every Falcon header has the spec's size and decodes through the `packet_type` table to the variant built and the arguments given. Every 32-bit unit is filled exactly. The generator refines `HeaderLog`, so reserved fields are zero. |
| uet_pds_roundtrip | `MCUetPds.cfg` | pass | The same for all nineteen PDS constructors, with the type-then-syn/cc_type lookup. This includes fields the code never assigns: `AckCcx.cc_flags`, `ControlPktSyn.ack_req`, `UudReq.flags`, and most reserved fields. |
| uet_pds_single_lookup | `MCUetPdsSingleLookup.cfg` | violation of `RoundTrip` | With the one-level lookup spec.md 4.4 describes, a SYN request decodes as the plain request (or the reverse). Each pair has the same length, so the misdecode is silent. The spec's dispatch cannot serve this family. |
| uet_pds_sample_overflow | `MCUetPdsSampleOverflow.cfg` | violation of `RoundTrip` | The sample `nccx_ccx_state2 = 0xedcba9876543210` is 60 bits. ctypes silently truncates it to 56, where the spec requires `FieldOverflow`. |
| uet_pds_uud_width | `MCUetPdsUnits.cfg` | violation of `UnitsWellFormed` | `UetPdsUudReq` declares 17 bits of `c_uint16`. ctypes spills into a second unit, and the spec calls this `SchemaWidthMismatch`. |
| uet_ses_roundtrip | `MCUetSes.cfg` | pass | Under the ms rule (CPython 3.14), every SES header has the spec's size and reads back every argument, with `job_id` recovered from its two parts. Every reserved field is zero. 157 states. |
| uet_ses_small_rules | `MCUetSesSmallRules.cfg` | violation of `RoundTrip` | Under the gcc rule (CPython ≤ 3.13), `UetSesResponseWithDataSmallHdr` is 12 bytes, not the spec's 13. Its `c_uint8 : 2` byte is widened into a 16-bit unit, and the spec's decoder reports `BufferTooShort`. |
| superp_roundtrip | `MCSuperp.cfg` | pass | Under either rule, every SUPERp header and the SUNH header have the spec's size and read back their arguments, with little-endian bitfields read least-significant first. Every reserved field is zero. 202 states. |
| superp_spec_bit_order | `MCSuperpSpecOrder.cfg` | violation of `RoundTrip` | Read with spec.md 4.1's most-significant-first rule, `TransactionHeader`'s `num_ops`/`rsvd`/`eom` byte decodes to other values: `eom=1, num_ops=5` is written as 0x85. |
| sue_roundtrip | `MCSue.cfg` | pass | Under either rule, any sequence of the script's four `MakeSueRhdr` calls gives headers whose opcode selects the variant built (`INVALID1`/`INVALID2` included) and whose fields read back the arguments. `rsvd1`/`rsvd2` are zero. 682 states. |
| scripts_frames | `MCScripts.cfg` | pass | All four scripts run to `wrpcap` without raising. In every frame, each header that names what follows is followed by it: `num_ops` operation headers of the opcode's class; the SUNH `next_hdr` (17 before UDP, `superp_ipproto` before the delivery header); the atomic extension header exactly for atomic opcodes; and the SES shape the PDS `next_hdr` names. Every enum member assigned to a field reads back from it as itself, and each atomic extension header's `atomic_code` is a compare-and-swap code exactly when it is `UetSesAtomicCmpAndSwapHdr`. 139 states. |
| uet_pds_control_stale_ses | `MCScriptsControlPacketAlone.cfg` | violation of `ControlPacketAlone` | make_uet_pds.py lines 219 and 228 send `UetPdsControlPkt`/`ControlPktSyn`, which have no `next_hdr`, followed by the response SES header still bound to `ses` since line 131. |

Properties:
- `TypeOK` checks sizes against spec.md and bit provenance.
- `RoundTrip` is spec.md 8's decode(encode(x)) = x, with variant selection.
- `UnitsWellFormed` says every header built has exactly filled units.
- `HLSpec` is the refinement, which adds reserved-field zeroes to `RoundTrip`.
- `OpsMatchTransaction`, `SunhNextHdrNamesPayload`, `AtomicExtAnnounced`,
  `SesNamedByNextHdr` and `ControlPacketAlone` relate the headers of one
  frame. Each can fail only through a global left stale, or bound in the
  wrong order, across several statements of a script.
- `CodesReadBack` says every enum member a script assigns to a narrow
  field reads back as the same member. It fails on a value too wide for its
  field (ctypes keeps the low bits silently) and on a value an earlier
  member already has.
- `AtomicExtMatchesCode` says a compare-and-swap extension header carries a
  `CSWAP*` code and a plain atomic one does not.
- `ScriptCompletes` (`<>written`) says every script reaches `wrpcap`.

Every property of a pass run has a mutant in `PROJECT.json`: a plausible code
bug that TLC then reports. The mutants are:
- a strict `<` in the ctypes continue rule;
- swapped PSN arguments;
- a 21-bit `rue_info` copied from `FalconBaseAck`;
- a reserved field assigned an argument;
- `syn = 0` passed by a SYN constructor;
- `rsvd2` assigned `syn`;
- the SES `job_id1` shifted by 8 instead of 16;
- the SES atomic `rsvd1` assigned `vendor_defined`;
- SUPERp `xid` and `ack_xid` swapped;
- the SUPERp `TransactErr` reserved byte assigned `op_num`;
- SUE `psn` and `apsn` swapped;
- SUE `rsvd2` assigned `vc`;
- make_sunh.py sending before `sunh` is rebound (breaks `TypeOK`);
- make_sunh.py framing with `MakePacket` instead of `MakeSUNHPacket`;
- the READ_RESP packet sent with the previous `tal`;
- the compare-and-swap samples sent with the atomic `ses`;
- the RUDI response sent with the request `ses`;
- the script calling `MakeSendOp` instead of `SendOp` (breaks `ScriptCompletes`);
- `READY_TO_RESTART` given `DEFERRABLE_TSEND`'s value 0xb (breaks `CodesReadBack`);
- the small compare-and-swap sample keeping the `BAND` code of the atomic
  sample above it.

## Bounds, fairness, deadlock

- **Packet count.** `MaxPackets = 2`: every ordered pair of constructors
  runs, under both ctypes rules. Falcon reaches 114 states, UET PDS 762,
  UET SES 157 (ms rule only) and SUPERp 202. SUE uses `MaxPackets = 4`,
  the number of packets `make_sue.py` writes, and reaches 682 states.
  Nothing carries over between calls except the list, so two packets already
  show that one header never disturbs another.
- **Argument values.** Arguments are symbolic and never enumerated. One
  state stands for every value of every argument of the right width, so the
  round trip is checked for all values, not a sample.
- **Fairness.** The family modules have none. Their properties are safety
  and refinement properties over any sequence of calls.
  `Scripts.Spec` has `WF_vars(Next)`. While a script has not raised and has
  statements left, exactly one action is enabled: the next statement. The
  interpreter always runs that statement, so it is never enabled forever
  without being taken. Under this fairness, `ScriptCompletes` fails exactly
  when some statement raises.
- **Scripts.** All four scripts in one model (`Init` chooses one). 139
  states, one per statement of a script. Frames and arguments are the
  scripts' literal ones, so this is the whole behaviour, not a bound.
  `SuperpIpproto = 253` is the `superp_ipproto` default. The script does
  not range-check `superp_ipproto`. Setting the constant to 256 or more in
  the cfg makes `SunhNextHdrNamesPayload` fail: the 8-bit field holds the
  value modulo 256. The run keeps the default, because spec.md 1 puts
  argument parsing out of scope.
- **Deadlock.** Checking is off (`CHECK_DEADLOCK FALSE`) in every run,
  because a script really does stop once its list is written.

## Not modelled, and why

- scapy framing, `wrpcap` and the port argument: they add bytes around the
  header that no property distinguishes.
- `FillPrologue`: it is never called.
- The byte concatenation of a frame. `Scripts` keeps which headers a frame
  holds and in what order. spec.md 4.5's `split(compose(hs, p), schemas)`
  takes the schema list from its caller, so it returns the headers exactly
  when each header is as long as its schema. That is `TypeOK`'s size clause
  in every family.
- make_falcon.py and make_sue.py put one header in each frame and have no
  globals other than `packets`. Their family modules already cover them.
- `sys.argv` parsing. The UET scripts use `int(x)`, the others
  `int(x, 0)`, so `0x...` port arguments fail in the UET scripts. spec.md 1
  puts argument parsing out of scope; this is listed as a hazard.
- Two points in make_uet_ses.py are left without a run. Each is one
  statement read against its own comment or against uet_ses.py, with no
  earlier state involved:
  - the "Response no data" sample (line 276) passes
    `UET_SES_RESPONSE_WITH_DATA` to the no-data `MakeHdrResponse`. This is
    listed as a hazard;
  - the rendezvous sample (line 324) sends a `RENDEZVOUS_TSEND` request
    with no extension header. uet_ses.py defines `UetSesRendezvousExtHdr`
    and `MakeRendezvousExtHdr`, but no script calls it, so whether that
    header belongs in the frame is not settled by the repository.
- Liveness beyond `ScriptCompletes`: nothing waits, retries or runs
  concurrently.

## Plan

- **Over-wide arguments in the other families.** `OverArgs` lets a family
  hand a constructor a value wider than its field, as UET PDS does for the
  sample's 60-bit value. Every argument the other scripts pass fits its
  field. The hazard applies to every caller, though, so a run per family
  with over-wide `job_id`, `queue_pair` or `xpuid` would show the silent
  masking there too.
- **SES argument values in the header model.** `Scripts` now uses the
  concrete enum members the scripts pass. `UetSes` still keeps opcode and
  return code symbolic, which covers every value of the field. Tying a
  `Make*` to the opcodes it is meant for needs a source beyond the
  repository.
- **Falcon enums.** `FalconProtocolType`, `FalconResyncCode` and
  `FalconNackCode` reach single-header frames only. In `Falcon`, arguments
  are symbolic over the field width, so whether a member fits its field
  (3-bit `protocol_type`, 8-bit codes) is a constant-level fact with no
  state behind it. Every member fits today.
