------------------------------ MODULE Protobuf ------------------------------
(***************************************************************************)
(* The protocol buffer codec, protobuf-c.c: sizes, packing, scanning,      *)
(* parsing and merging of messages, byte by byte, for the types and labels *)
(* that the library's descriptors use (optional and repeated fields; see   *)
(* ProtobufSchema).  A message is a value for each field of its descriptor *)
(* (None, or a list for a repeated field) and the list of unknown fields.  *)
(*                                                                         *)
(* The width of a byte and of a word are parameters, so that every length  *)
(* a number can be encoded in occurs for small numbers: a byte carries     *)
(* VARINT_BITS bits of a number (7 in the code) and a word takes at most   *)
(* VARINT_MAX bytes (5), which leaves a word VARINT_BITS * VARINT_MAX - 3  *)
(* bits (32) when the wire type takes 3 bits of a tag.                     *)
(***************************************************************************)
EXTENDS Integers, SequencesExt, FiniteSetsExt, Structures

CONSTANTS VARINT_BITS,     \* bits of a number in a byte of a varint (7)
          VARINT_MAX,      \* bytes a word takes at most (5)
          FIXED64_BYTES    \* bytes of a fixed64 (8)

ASSUME ProtobufAssumption ==
  VARINT_BITS \in Nat \ 0..3 /\ VARINT_MAX \in Nat \ {0} /\ FIXED64_BYTES \in Nat \ {0}

CONT == 2^VARINT_BITS        \* the continuation bit of a byte (0x80)

WORD_BITS == VARINT_BITS * VARINT_MAX - 3

\* The bytes of a varint of two words (10).
VARINT64_MAX == (2 * WORD_BITS + VARINT_BITS - 1) \div VARINT_BITS

\* ProtobufCWireType
VARINT == 0
FIXED64 == 1
LENGTH_PREFIXED == 2
FIXED32 == 5

\* The wire type required_field_pack uses for a type.
WireType(type) ==
  CASE type \in {"uint32", "int32", "bool"} -> VARINT
    [] type = "fixed64" -> FIXED64
    [] type \in {"bytes", "message"} -> LENGTH_PREFIXED

-----------------------------------------------------------------------------
(* Sizes *)

\* get_tag_size
GetTagSize(number) ==
  Min({n \in 1..(VARINT_MAX - 1) : number < 2^(n * VARINT_BITS - 3)} \union {VARINT_MAX})

\* uint32_size
Uint32Size(v) ==
  Min({n \in 1..(VARINT_MAX - 1) : v < 2^(n * VARINT_BITS)} \union {VARINT_MAX})

\* int32_size
Int32Size(v) == IF v < 0 THEN VARINT64_MAX ELSE Uint32Size(v)

RECURSIVE GetPackedSize(_, _)

PrefixedSize(len) == Uint32Size(len) + len

\* required_field_get_packed_size
RequiredSize(field, v) ==
  GetTagSize(field.id) +
  CASE field.type = "uint32" -> Uint32Size(v)
    [] field.type = "int32" -> Int32Size(v)
    [] field.type = "fixed64" -> FIXED64_BYTES
    [] field.type = "bool" -> 1
    [] field.type = "bytes" -> PrefixedSize(Len(v))
    [] field.type = "message" -> PrefixedSize(GetPackedSize(field.descriptor, v))

\* optional_field_get_packed_size
OptionalSize(field, v) == IF v = None THEN 0 ELSE RequiredSize(field, v)

\* repeated_field_get_packed_size; the repeated fields of the schema are messages.
RepeatedSize(field, list) ==
  GetTagSize(field.id) * Len(list) +
  FoldSeq(LAMBDA v, n : PrefixedSize(GetPackedSize(field.descriptor, v)) + n, 0, list)

\* Mutant: the tag of an unknown field is not counted.
UnknownSizeUntagged(field) == Len(field.data)

\* unknown_field_get_packed_size
UnknownSize(field) == GetTagSize(field.tag) + Len(field.data)

FieldSize(field, v) ==
  IF field.label = "repeated" THEN RepeatedSize(field, v) ELSE OptionalSize(field, v)

\* protobuf_c_message_get_packed_size
GetPackedSize(desc, m) ==
  FoldSeq(LAMBDA i, n : FieldSize(desc.fields[i], m.values[i]) + n, 0,
          [i \in DOMAIN desc.fields |-> i]) +
  FoldSeq(LAMBDA u, n : UnknownSize(u) + n, 0, m.unknown)

-----------------------------------------------------------------------------
(* Packing *)

\* uint32_pack, and uint64_pack for a tag of more than a word
RECURSIVE Uint32Pack(_)
Uint32Pack(v) ==
  IF v < CONT THEN <<v>> ELSE <<CONT + (v % CONT)>> \o Uint32Pack(v \div CONT)

\* int32_pack: a negative number is extended to two words.
Int32Pack(v) ==
  IF v >= 0 THEN Uint32Pack(v)
  ELSE [i \in 1..VARINT64_MAX |->
          CASE i <= VARINT_MAX -> CONT + ((v \div 2^(VARINT_BITS * (i - 1))) % CONT)
            [] i > VARINT_MAX /\ i < VARINT64_MAX -> 2 * CONT - 1
            [] OTHER -> 2^(2 * WORD_BITS - VARINT_BITS * (VARINT64_MAX - 1)) - 1]

\* fixed64_pack: least significant byte first
RECURSIVE LittleEndian(_, _)
LittleEndian(v, n) ==
  IF n = 0 THEN <<>> ELSE <<v % (2 * CONT)>> \o LittleEndian(v \div (2 * CONT), n - 1)

\* boolean_pack
BooleanPack(v) == IF v THEN <<1>> ELSE <<0>>

\* binary_data_pack and prefixed_message_pack
Prefixed(data) == Uint32Pack(Len(data)) \o data

\* tag_pack, with the wire type its callers add
TagPack(id, wire) == Uint32Pack(8 * id + wire)

RECURSIVE Pack(_, _)

\* required_field_pack
RequiredPack(field, v) ==
  TagPack(field.id, WireType(field.type)) \o
  CASE field.type = "uint32" -> Uint32Pack(v)
    [] field.type = "int32" -> Int32Pack(v)
    [] field.type = "fixed64" -> LittleEndian(v, FIXED64_BYTES)
    [] field.type = "bool" -> BooleanPack(v)
    [] field.type = "bytes" -> Prefixed(v)
    [] field.type = "message" -> Prefixed(Pack(field.descriptor, v))

\* optional_field_pack
OptionalPack(field, v) == IF v = None THEN <<>> ELSE RequiredPack(field, v)

\* repeated_field_pack, not in the packed form
RepeatedPack(field, list) == FlattenSeq([i \in DOMAIN list |-> RequiredPack(field, list[i])])

\* unknown_field_pack
UnknownPack(field) == TagPack(field.tag, field.wire) \o field.data

FieldPack(field, v) ==
  IF field.label = "repeated" THEN RepeatedPack(field, v) ELSE OptionalPack(field, v)

\* protobuf_c_message_pack
Pack(desc, m) ==
  FlattenSeq([i \in DOMAIN desc.fields |-> FieldPack(desc.fields[i], m.values[i])]) \o
  FlattenSeq([i \in DOMAIN m.unknown |-> UnknownPack(m.unknown[i])])

-----------------------------------------------------------------------------
(* Scanning: the data is cut into members before any of them is parsed. *)

From(data, i) == SubSeq(data, i, Len(data))

\* The number of bytes of the varint data starts with, which has max bytes at most;
\* 0 if it does not end.
VarintLength(data, max) ==
  SelectInSeq(SubSeq(data, 1, Min({Len(data), max})), LAMBDA b : b < CONT)

\* The number in a varint, of which a word remains.
VarintValue(data) ==
  FoldRight(LAMBDA b, v : (b % CONT) + CONT * v,
            SubSeq(data, 1, Min({Len(data), VARINT_MAX})), 0) % 2^WORD_BITS

\* parse_tag_and_wiretype, for a header of n bytes: the wire type is in the lowest
\* bits of the first one.
TagOf(data, n) ==
  FoldRight(LAMBDA b, v : (b % CONT) + CONT * v, SubSeq(data, 1, n), 0) \div 8

\* scan_length_prefixed_data: the length of the prefix and the data it announces, 0
\* if that is more than there is.  The sum is one of words.
ScanLengthPrefixed(data, n) ==
  LET len == (n + VarintValue(SubSeq(data, 1, n))) % 2^WORD_BITS
  IN IF n = 0 \/ len > Len(data) THEN 0 ELSE len

\* The length of the data of a member, 0 if there is an error; n is the length of
\* the length prefix.
MemberLength(wire, data, n) ==
  CASE wire = VARINT -> VarintLength(data, VARINT64_MAX)
    [] wire = FIXED64 -> IF Len(data) < FIXED64_BYTES THEN 0 ELSE FIXED64_BYTES
    [] wire = LENGTH_PREFIXED -> ScanLengthPrefixed(data, n)
    [] wire = FIXED32 -> IF Len(data) < FIXED64_BYTES \div 2 THEN 0 ELSE FIXED64_BYTES \div 2
    [] OTHER -> 0

RECURSIVE Scan(_)

\* A scanned member and what follows it: len bytes of data after a header.
ScanNext(tag, wire, data, prefix, len) ==
  IF len = 0 THEN <<None>>
  ELSE <<[tag |-> tag, wire |-> wire, data |-> SubSeq(data, 1, len), prefix |-> prefix]>>
       \o Scan(From(data, len + 1))

ScanMember(tag, wire, data, prefix) ==
  ScanNext(tag, wire, data, prefix, MemberLength(wire, data, prefix))

\* The header has n bytes.
ScanHeader(data, n) ==
  IF n = 0 THEN <<None>>
  ELSE ScanMember(TagOf(data, n), data[1] % 8, From(data, n + 1),
                  IF data[1] % 8 = LENGTH_PREFIXED
                  THEN VarintLength(From(data, n + 1), VARINT_MAX) ELSE 0)

\* The scanning loop of protobuf_c_message_unpack: the members, or a list that ends
\* in None.
Scan(data) == IF data = <<>> THEN <<>> ELSE ScanHeader(data, VarintLength(data, VARINT_MAX))

-----------------------------------------------------------------------------
(* Parsing *)

\* int_range_lookup: binary search among the n ranges from the one after start; the
\* position of the field, 0 if there is none.  A range ends where the next starts.
RECURSIVE IntRangeLookup(_, _, _, _)
IntRangeLookup(ranges, value, start, n) ==
  LET mid == start + n \div 2 + 1
      first == ranges[mid].start_value
      size == ranges[mid + 1].orig_index - ranges[mid].orig_index
  IN CASE n = 0 -> 0
       [] n > 0 /\ value \in first..(first + size - 1) ->
            value - first + ranges[mid].orig_index + 1
       [] n > 1 /\ value < first -> IntRangeLookup(ranges, value, start, mid - 1 - start)
       [] n > 1 /\ value >= first + size -> IntRangeLookup(ranges, value, mid, start + n - mid)
       [] OTHER -> 0

\* The field with a tag, 0 for an unknown one.
Lookup(desc, tag) == IntRangeLookup(desc.ranges, tag, 0, Len(desc.ranges) - 1)

\* message_init: no field is set.
MessageInit(desc) ==
  [values |-> [i \in DOMAIN desc.fields |->
                 IF desc.fields[i].label = "repeated" THEN <<>> ELSE None],
   unknown |-> <<>>]

\* The value of an optional field of type bytes after a merge: the latter one is
\* replaced if its data is missing or empty and the earlier one's is not.
MergeBytes(e, l) == IF e \notin {None, <<>>} /\ l \in {None, <<>>} THEN e ELSE l

\* merge_messages, into the latter message.  The unknown fields of the earlier one
\* are dropped.
RECURSIVE MergeMessages(_, _, _)
MergeMessages(desc, earlier, latter) ==
  [latter EXCEPT !.values =
     [i \in DOMAIN desc.fields |->
        LET e == earlier.values[i]
            l == latter.values[i]
        IN CASE desc.fields[i].label = "repeated" -> e \o l
             [] desc.fields[i].type = "bytes" -> MergeBytes(e, l)
             [] desc.fields[i].type = "message" /\ e # None /\ l # None ->
                  MergeMessages(desc.fields[i].descriptor, e, l)
             [] OTHER -> IF l = None THEN e ELSE l]]

\* The number in two's complement.
Signed(v) == IF v >= 2^(WORD_BITS - 1) THEN v - 2^WORD_BITS ELSE v

RECURSIVE Unpack(_, _)

\* parse_required_member for a message: old is the value the field has already.
ParseMessage(desc, old, m) ==
  CASE m = None -> <<>>
    [] m # None /\ old # None -> <<MergeMessages(desc, old, m)>>
    [] OTHER -> <<m>>

\* parse_required_member: a list of the value, empty if parsing fails.  A bool is
\* taken from any wire type.  A member is never shorter than its own length prefix:
\* if the sum in ScanLengthPrefixed overflows, what is left of the prefix is scanned
\* as the next tag, with a wire type there is not.
ParseRequired(field, s, old) ==
  CASE field.type = "bool" -> <<\E i \in DOMAIN s.data : s.data[i] % CONT # 0>>
    [] s.wire # WireType(field.type) -> <<>>
    [] field.type = "uint32" -> <<VarintValue(s.data)>>
    [] field.type = "int32" -> <<Signed(VarintValue(s.data))>>
    [] field.type = "fixed64" -> <<FoldRight(LAMBDA b, v : b + 2 * CONT * v, s.data, 0)>>
    [] field.type = "bytes" -> <<From(s.data, s.prefix + 1)>>
    [] field.type = "message" ->
         ParseMessage(field.descriptor, old, Unpack(field.descriptor, From(s.data, s.prefix + 1)))

\* parse_optional_member and parse_repeated_member: value is the list that
\* parse_required_member gives.
StoreMember(m, i, label, value) ==
  CASE value = <<>> -> None
    [] value # <<>> /\ label = "optional" -> [m EXCEPT !.values[i] = value[1]]
    [] OTHER -> [m EXCEPT !.values[i] = @ \o value]

\* parse_member, for the i-th field; an unknown field keeps its bytes.
ParseMember(desc, m, s, i) ==
  IF i = 0
  THEN [m EXCEPT !.unknown = Append(@, [tag |-> s.tag, wire |-> s.wire, data |-> s.data])]
  ELSE StoreMember(m, i, desc.fields[i].label,
         ParseRequired(desc.fields[i], s,
                       IF desc.fields[i].label = "optional" THEN m.values[i] ELSE None))

\* The parsing loop of protobuf_c_message_unpack
ParseMembers(desc, members) ==
  FoldLeft(LAMBDA m, s : IF m = None THEN None ELSE ParseMember(desc, m, s, Lookup(desc, s.tag)),
           MessageInit(desc), members)

UnpackMembers(desc, members) ==
  IF Contains(members, None) THEN None ELSE ParseMembers(desc, members)

\* protobuf_c_message_unpack: the message, or None
Unpack(desc, data) == UnpackMembers(desc, Scan(data))
=============================================================================
