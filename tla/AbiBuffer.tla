----------------------------- MODULE AbiBuffer -----------------------------
(***************************************************************************)
(* The binary form in which the host and compiled code exchange values     *)
(* (crate relon-abi): the layout of a record, the writer that marshals the *)
(* arguments, the relocation of pointers when one buffer is pasted into    *)
(* another, the verifier and the reader of what the compiled code returns. *)
(*                                                                         *)
(* A record has a fixed area of slots.  A slot holds a scalar or the       *)
(* offset of what lies in the tail area: [len][bytes] of a String,         *)
(* [len][padding][elements] of a list of scalars, [len][offsets] of any    *)
(* other list, a nested record, or [tag][padding][slot] of a variant.      *)
(*                                                                         *)
(* Names play no part: a record, also a tuple, is a sequence of fields.    *)
(* Option, Result and Enum are variants, whose payloads[tag + 1] is <<>>   *)
(* or <<type>>, and whose values are [tag, payload].  The payload of an    *)
(* Enum is a record; that of an Option or Result is its one value, which   *)
(* goes by the name labels[tag + 1].                                       *)
(***************************************************************************)
EXTENDS IrCode
LOCAL Seqs == INSTANCE SequencesExt
LOCAL Sets == INSTANCE FiniteSetsExt

UnitT == [k |-> "Unit"]
BoolT == [k |-> "Bool"]
IntT == [k |-> "Int"]
FloatT == [k |-> "Float"]
StringT == [k |-> "String"]
ListOf(element) == [k |-> "List", element |-> element]
SchemaOf(fields) == [k |-> "Schema", fields |-> fields]
VariantOf(name, labels, payloads) == [k |-> "Variant", name |-> name, labels |-> labels, payloads |-> payloads]
OptionOf(inner) == VariantOf("Option", <<"", "value">>, << <<>>, <<inner>> >>)
ResultOf(good, bad) == VariantOf("Result", <<"value", "error">>, << <<good>>, <<bad>> >>)
EnumOf(name, payloads) == VariantOf(name, <<>>, payloads)

Variant(tag, payload) == [tag |-> tag, payload |-> payload]

-----------------------------------------------------------------------------
(* Layout. *)
AlignUp(n, to) == ((n + to - 1) \div to) * to

(* A slot is as large as it is aligned. *)
SlotSize(t) ==
  CASE t.k \in {"Unit", "Bool"} -> 1
    [] t.k \in {"Int", "Float"} -> 8
    [] OTHER -> 4

IsInline(t) == t.k \in {"Unit", "Bool", "Int", "Float"}

RECURSIVE SlotsEnd(_)
SlotsEnd(fields) ==
  IF fields = <<>> THEN 0
  ELSE AlignUp(SlotsEnd(Seqs!Front(fields)), SlotSize(Seqs!Last(fields))) + SlotSize(Seqs!Last(fields))

field_offset(fields, i) == AlignUp(SlotsEnd(SubSeq(fields, 1, i - 1)), SlotSize(fields[i]))

root_align(fields) == Sets!Max({1} \cup {SlotSize(fields[i]) : i \in DOMAIN fields})

root_size(fields) == AlignUp(SlotsEnd(fields), root_align(fields))

variant_payload_types(t) == {t.payloads[i][1] : i \in {j \in DOMAIN t.payloads : t.payloads[j] # <<>>}}

(* The compiler's view: the alignment of a value and of all it points at.  *)
RECURSIVE type_graph_alignment(_), variant_record_alignment(_)
type_graph_alignment(t) ==
  CASE t.k \in {"Unit", "Bool", "String"} -> 1
    [] t.k \in {"Int", "Float"} -> 8
    [] t.k = "List" -> IF t.element.k = "Bool" THEN 1 ELSE type_graph_alignment(t.element)
    [] t.k = "Schema" ->
         Sets!Max({root_align(t.fields)} \cup {type_graph_alignment(t.fields[i]) : i \in DOMAIN t.fields})
    [] t.k = "Variant" -> variant_record_alignment(t)

variant_record_alignment(t) ==
  Sets!Max({4} \cup {SlotSize(p) : p \in variant_payload_types(t)}
               \cup {type_graph_alignment(p) : p \in variant_payload_types(t)})

(* The alignment that a field asks of its tail record, and a list of its   *)
(* payload.                                                                *)
list_layout_decision(element) == IF element.k \in {"Int", "Float"} THEN 8 ELSE 4

field_layout_decision_for(t) ==
  CASE t.k = "List" -> list_layout_decision(t.element)
    [] t.k = "Schema" -> root_align(t.fields)
    [] t.k = "Variant" -> variant_record_alignment(t)
    [] OTHER -> 1

(* No list has elements of Unit. *)
RECURSIVE ensure_type_layoutable(_)
ensure_type_layoutable(t) ==
  CASE t.k = "List" -> t.element.k # "Unit" /\ ensure_type_layoutable(t.element)
    [] t.k = "Schema" -> \A i \in DOMAIN t.fields : ensure_type_layoutable(t.fields[i])
    [] t.k = "Variant" -> \A p \in variant_payload_types(t) : ensure_type_layoutable(p)
    [] OTHER -> TRUE

(* The writer's view: the alignment that the tail of a value needs so that *)
(* its padding stays right when it is pasted elsewhere.                    *)
RECURSIVE type_graph_align(_), variant_record_align_runtime(_)
type_graph_align(t) ==
  CASE IsInline(t) \/ t.k = "String" -> 1
    [] t.k = "List" ->
         CASE t.element.k \in {"Int", "Float"} -> 8
           [] t.element.k \in {"Bool", "String"} -> 1
           [] OTHER -> type_graph_align(t.element)
    [] t.k = "Schema" -> Sets!Max({1} \cup {type_graph_align(t.fields[i]) : i \in DOMAIN t.fields})
    [] t.k = "Variant" -> variant_record_align_runtime(t)

variant_record_align_runtime(t) ==
  Sets!Max({4} \cup {SlotSize(p) : p \in variant_payload_types(t)}
               \cup {type_graph_align(p) : p \in variant_payload_types(t)})

schema_paste_align(fields) == Sets!Max({root_align(fields), type_graph_align(SchemaOf(fields))})

variant_payload_slot_offset(at, payload_ty) == AlignUp(at + 1, SlotSize(payload_ty))

(* What a tag stands for: <<>>, or the type of the payload. *)
variant_selected_payload(t, tag) == t.payloads[tag + 1]

list_payload_is_pointer_array(element) == ~IsInline(element)

-----------------------------------------------------------------------------
(* Relocation: every offset inside a graph grows by the place where the    *)
(* buffer is pasted.  at is the place of the target before that.           *)
Pointer(bytes, slot) == FromLe(SubSeq(bytes, slot + 1, slot + 4))

RECURSIVE relocate_target(_, _, _, _), relocate_slot(_, _, _, _), relocate_slots(_, _, _, _, _)
relocate_slot(bytes, t, slot, paste_base) ==
  IF IsInline(t) THEN bytes
  ELSE LET original == Pointer(bytes, slot)
       IN relocate_target(Patched(bytes, slot, Le32(original + paste_base)), t, original, paste_base)

relocate_slots(bytes, types, slots, i, paste_base) ==
  IF i > Len(slots) THEN bytes
  ELSE relocate_slots(relocate_slot(bytes, types[i], slots[i], paste_base), types, slots, i + 1, paste_base)

relocate_pointers(bytes, fields, record_base, paste_base) ==
  relocate_slots(bytes, fields, [i \in DOMAIN fields |-> record_base + field_offset(fields, i)], 1, paste_base)

relocate_list_pointer_array(bytes, element, at, paste_base) ==
  LET entries == 1 .. Pointer(bytes, at)
  IN relocate_slots(bytes, [i \in entries |-> element], [i \in entries |-> at + 4 * i], 1, paste_base)

relocate_variant_record(bytes, t, at, paste_base) ==
  LET payload == variant_selected_payload(t, bytes[at + 1])
  IN IF payload = <<>> THEN bytes
     ELSE relocate_slot(bytes, payload[1], variant_payload_slot_offset(at, payload[1]), paste_base)

relocate_target(bytes, t, at, paste_base) ==
  CASE t.k = "Schema" -> relocate_pointers(bytes, t.fields, at, paste_base)
    [] t.k = "Variant" -> relocate_variant_record(bytes, t, at, paste_base)
    [] t.k = "List" /\ list_payload_is_pointer_array(t.element) ->
         relocate_list_pointer_array(bytes, t.element, at, paste_base)
    [] OTHER -> bytes

-----------------------------------------------------------------------------
(* The writer.  What is appended is at `at' of the grown buffer. *)
pad_to(bytes, align) == bytes \o Blank(AlignUp(Len(bytes), align) - Len(bytes), 0)

Appended(bytes, at) == [bytes |-> bytes, at |-> at]

append_tail_record(bytes, n, payload) ==
  LET padded == pad_to(bytes, 4)
  IN Appended(padded \o Le32(n) \o payload, Len(padded))

append_tail_record_with_inner_alignment(bytes, inner_alignment, n, payload) ==
  LET padded == pad_to(bytes, 4)
  IN Appended(pad_to(padded \o Le32(n), inner_alignment) \o payload, Len(padded))

ScalarBytes(t, v) == IF t.k = "Unit" THEN <<0>> ELSE Le(SlotSize(t), v)

Scalars(element, vs) == Seqs!FlattenSeq([i \in DOMAIN vs |-> ScalarBytes(element, vs[i])])

write_pointer_slot(target, slot) == Patched(target.bytes, slot, Le32(target.at))

BufferBuilder(fields) == Blank(root_size(fields), 0) \o <<>>

variant_payload_for_value(t, v) == <<v.tag, variant_selected_payload(t, v.tag)>>

(* What lies inside a variant or a nested list is written by the buffer    *)
(* itself: the header of a list first, then what its entries point at.     *)
RECURSIVE write_value_slot(_, _, _, _), write_schema_record_into_builder(_, _, _, _), write_entries(_, _, _, _, _)

(* A record built on its own and pasted. *)
append_child_record_payload(bytes, fields, child) ==
  LET padded == pad_to(bytes, schema_paste_align(fields))
  IN Appended(padded \o relocate_pointers(child, fields, 0, Len(padded)), Len(padded))

append_schema_value_payload(bytes, fields, vs) ==
  append_child_record_payload(bytes, fields, write_schema_record_into_builder(BufferBuilder(fields), fields, vs, 1))

append_variant_record(bytes, t, v) ==
  LET padded == pad_to(bytes, variant_record_align_runtime(t))
      payload == variant_payload_for_value(t, v)[2]
      slot == variant_payload_slot_offset(Len(padded), payload[1])
      zeroed == padded \o <<v.tag>> \o Blank(slot + SlotSize(payload[1]) - Len(padded) - 1, 0)
  IN IF payload = <<>> THEN Appended(padded \o <<v.tag>>, Len(padded))
     ELSE Appended(write_value_slot(zeroed, slot, payload[1], v.payload[1]), Len(padded))

append_scalar_list(bytes, element, items) ==
  append_tail_record_with_inner_alignment(bytes, list_layout_decision(element), Len(items), Scalars(element, items))

append_pointer_array(bytes, element, items) ==
  LET padded == pad_to(bytes, 4)
  IN Appended(write_entries(padded \o Le32(Len(items)) \o Blank(4 * Len(items), 0), Len(padded), element, items, 1),
              Len(padded))

append_list_payload(bytes, element, items) ==
  IF list_payload_is_pointer_array(element) THEN append_pointer_array(bytes, element, items)
  ELSE append_scalar_list(bytes, element, items)

write_entries(bytes, header, element, items, i) ==
  IF i > Len(items) THEN bytes
  ELSE write_entries(write_value_slot(bytes, header + 4 * i, element, items[i]), header, element, items, i + 1)

write_schema_record_into_builder(bytes, fields, vs, i) ==
  IF i > Len(fields) THEN bytes
  ELSE write_schema_record_into_builder(
         write_value_slot(bytes, field_offset(fields, i), fields[i], vs[i]), fields, vs, i + 1)

write_value_slot(bytes, slot, t, v) ==
  CASE IsInline(t) -> Patched(bytes, slot, ScalarBytes(t, v))
    [] t.k = "String" -> write_pointer_slot(append_tail_record(bytes, Len(v), v), slot)
    [] t.k = "List" -> write_pointer_slot(append_list_payload(bytes, t.element, v), slot)
    [] t.k = "Schema" -> write_pointer_slot(append_schema_value_payload(bytes, t.fields, v), slot)
    [] t.k = "Variant" -> write_pointer_slot(append_variant_record(bytes, t, v), slot)

(* The writers of one field. *)
write_int(bytes, slot, v) == Patched(bytes, slot, ScalarBytes(IntT, v))

write_float(bytes, slot, v) == Patched(bytes, slot, ScalarBytes(FloatT, v))

write_bool(bytes, slot, v) == Patched(bytes, slot, ScalarBytes(BoolT, v))

write_unit(bytes, slot) == Patched(bytes, slot, <<0>>)

write_string(bytes, slot, v) == write_pointer_slot(append_tail_record(bytes, Len(v), v), slot)

write_list_int(bytes, slot, vs) ==
  write_pointer_slot(append_tail_record_with_inner_alignment(bytes, 8, Len(vs), Scalars(IntT, vs)), slot)

write_list_float(bytes, slot, vs) ==
  write_pointer_slot(append_tail_record_with_inner_alignment(bytes, 8, Len(vs), Scalars(FloatT, vs)), slot)

write_list_bool(bytes, slot, vs) == write_pointer_slot(append_tail_record(bytes, Len(vs), Scalars(BoolT, vs)), slot)

write_list_string(bytes, slot, vs) == write_pointer_slot(append_pointer_array(bytes, StringT, vs), slot)

write_nested_scalar_list(bytes, slot, inner, items) ==
  write_pointer_slot(append_pointer_array(bytes, ListOf(inner), items), slot)

write_nested_pointer_array_list(bytes, slot, inner, items) ==
  write_pointer_slot(append_pointer_array(bytes, ListOf(inner), items), slot)

finish_sub_record(bytes, slot, fields, child) ==
  write_pointer_slot(append_child_record_payload(bytes, fields, child), slot)

(* A list of records: the records as they come, then the header. *)
finish_list_record(bytes, slot, offsets) ==
  LET padded == pad_to(bytes, 4)
  IN write_pointer_slot(
       Appended(padded \o Le32(Len(offsets)) \o Seqs!FlattenSeq([j \in DOMAIN offsets |-> Le32(offsets[j])]), Len(padded)),
       slot)

(* The arguments are written by the evaluator of the backend. *)
RECURSIVE write_value_into_builder(_, _, _, _), write_schema_fields_into_builder(_, _, _, _), write_list_schema_arg(_, _, _, _, _, _)
write_schema_fields_into_builder(bytes, fields, vs, i) ==
  IF i > Len(fields) THEN bytes
  ELSE write_schema_fields_into_builder(
         write_value_into_builder(bytes, field_offset(fields, i), fields[i], vs[i]), fields, vs, i + 1)

write_schema_arg_into_builder(bytes, slot, fields, vs) ==
  finish_sub_record(bytes, slot, fields, write_schema_fields_into_builder(BufferBuilder(fields), fields, vs, 1))

write_list_schema_arg(bytes, slot, fields, items, i, offsets) ==
  IF i > Len(items) THEN finish_list_record(bytes, slot, offsets)
  ELSE LET child == write_schema_fields_into_builder(BufferBuilder(fields), fields, items[i], 1)
           entry == append_child_record_payload(bytes, fields, child)
       IN write_list_schema_arg(entry.bytes, slot, fields, items, i + 1, Append(offsets, entry.at))

write_list_arg_into_builder(bytes, slot, element, items) ==
  CASE element.k = "Int" -> write_list_int(bytes, slot, items)
    [] element.k = "Float" -> write_list_float(bytes, slot, items)
    [] element.k = "Bool" -> write_list_bool(bytes, slot, items)
    [] element.k = "String" -> write_list_string(bytes, slot, items)
    [] element.k = "Schema" -> write_list_schema_arg(bytes, slot, element.fields, items, 1, <<>>)
    [] element.k = "Variant" -> write_value_slot(bytes, slot, ListOf(element), items)
    [] element.k = "List" ->
         IF IsInline(element.element) THEN write_nested_scalar_list(bytes, slot, element.element, items)
         ELSE write_nested_pointer_array_list(bytes, slot, element.element, items)

write_value_into_builder(bytes, slot, t, v) ==
  CASE t.k = "Int" -> write_int(bytes, slot, v)
    [] t.k = "Float" -> write_float(bytes, slot, v)
    [] t.k = "Bool" -> write_bool(bytes, slot, v)
    [] t.k = "Unit" -> write_unit(bytes, slot)
    [] t.k = "String" -> write_string(bytes, slot, v)
    [] t.k = "List" -> write_list_arg_into_builder(bytes, slot, t.element, v)
    [] t.k = "Schema" -> write_schema_arg_into_builder(bytes, slot, t.fields, v)
    [] t.k = "Variant" -> write_value_slot(bytes, slot, t, v)

(* The input of a dispatch: offsets are those of the arena. *)
finish_arena_absolute(fields, vs, arena_base) ==
  relocate_pointers(write_schema_fields_into_builder(BufferBuilder(fields), fields, vs, 1), fields, 0, arena_base)

-----------------------------------------------------------------------------
(* The verifier: everything reachable lies in one of the regions, pairs of *)
(* a start and an end.  A word nobody wrote may be any number.             *)
Word(m, at) == IF IsWritten(m, at, 4) THEN FromLe(SubSeq(m, at + 1, at + 4)) ELSE Huge

classify_span(regions, at, n) == \E r \in regions : r[1] <= at /\ at + n <= r[2]

MAX_DEPTH == 64

RECURSIVE verify_record_inner(_, _, _, _, _), verify_pointer_target(_, _, _, _, _)
verify_slot(m, t, slot, regions, depth) ==
  /\ classify_span(regions, slot, SlotSize(t))
  /\ ~IsInline(t) => verify_pointer_target(m, t, Word(m, slot), regions, depth)

verify_record_inner(m, fields, at, regions, depth) ==
  /\ depth < MAX_DEPTH
  /\ classify_span(regions, at, root_size(fields))
  /\ \A i \in DOMAIN fields : verify_slot(m, fields[i], at + field_offset(fields, i), regions, depth)

verify_variant_target(m, t, at, regions, depth) ==
  /\ depth < MAX_DEPTH
  /\ classify_span(regions, at, 1)
  /\ Load(m, 1, at) + 1 \in DOMAIN t.payloads
  /\ LET payload == t.payloads[Load(m, 1, at) + 1]
     IN payload = <<>>
        \/ verify_slot(m, payload[1], variant_payload_slot_offset(at, payload[1]), regions, depth + 1)

verify_list_target(m, element, at, regions, depth) ==
  /\ classify_span(regions, at, 4)
  /\ IF IsInline(element)
     THEN classify_span(regions, AlignUp(at + 4, SlotSize(element)), SlotSize(element) * Word(m, at))
     ELSE \A i \in 1 .. Word(m, at) :
            verify_slot(m, element, at + 4 * i, regions, depth + 1)

verify_pointer_target(m, t, at, regions, depth) ==
  CASE t.k = "String" -> classify_span(regions, at, 4) /\ classify_span(regions, at + 4, Word(m, at))
    [] t.k = "Schema" -> verify_record_inner(m, t.fields, at, regions, depth + 1)
    [] t.k = "Variant" -> verify_variant_target(m, t, at, regions, depth)
    [] t.k = "List" -> verify_list_target(m, t.element, at, regions, depth)

-----------------------------------------------------------------------------
(* The reader, of what the verifier has accepted. *)
read_slot_pointer(m, slot) == Word(m, slot)

Header(m, at, inner_alignment) == [count |-> Word(m, at), start |-> AlignUp(at + 4, inner_alignment)]

decode_pointer_header(m, slot, inner_alignment) == Header(m, read_slot_pointer(m, slot), inner_alignment)

read_pointer_array_header(m, at) == Header(m, at, 1)

read_entry_pointer(m, start, i) == Word(m, start + 4 * (i - 1))

ScalarsAt(m, w, header) == [k \in 1 .. header.count |-> Load(m, w, header.start + w * (k - 1))] \o <<>>

read_int(m, slot) == Load(m, 8, slot)

read_float(m, slot) == Load(m, 8, slot)

read_bool(m, slot) == Load(m, 1, slot)

read_unit == 0

read_string_record_at(m, at) == ScalarsAt(m, 1, Header(m, at, 1))

read_string(m, slot) == ScalarsAt(m, 1, decode_pointer_header(m, slot, 1))

read_list_int(m, slot) == ScalarsAt(m, 8, decode_pointer_header(m, slot, 8))

read_list_float(m, slot) == ScalarsAt(m, 8, decode_pointer_header(m, slot, 8))

read_list_bool(m, slot) == ScalarsAt(m, 1, decode_pointer_header(m, slot, 1))

read_list_string_at(m, at) ==
  LET header == read_pointer_array_header(m, at)
  IN [i \in 1 .. header.count |-> read_string_record_at(m, read_entry_pointer(m, header.start, i))] \o <<>>

read_list_string(m, slot) == read_list_string_at(m, read_slot_pointer(m, slot))

read_inline_scalar_list_at(m, element, at) == ScalarsAt(m, SlotSize(element), Header(m, at, SlotSize(element)))

decode_list_list_rows(m, inner, header) ==
  [i \in 1 .. header.count |-> read_inline_scalar_list_at(m, inner, read_entry_pointer(m, header.start, i))] \o <<>>

read_list_list_at(m, inner, at) == decode_list_list_rows(m, inner, read_pointer_array_header(m, at))

read_list_list(m, inner, slot) == decode_list_list_rows(m, inner, decode_pointer_header(m, slot, 1))

(* Where the records of a list are. *)
read_list_record_at(m, at) ==
  LET header == read_pointer_array_header(m, at)
  IN [i \in 1 .. header.count |-> read_entry_pointer(m, header.start, i)] \o <<>>

read_list_record(m, slot) == read_list_record_at(m, read_slot_pointer(m, slot))

sub_record(m, slot) == read_slot_pointer(m, slot)

(* A value of any type. *)
RECURSIVE read_field_at(_, _, _), read_list_value_at(_, _, _)
read_record_at(m, fields, at) ==
  [i \in DOMAIN fields |-> read_field_at(m, fields[i], at + field_offset(fields, i))] \o <<>>

read_variant_record_at(m, t, at) ==
  LET tag == Load(m, 1, at)
      payload == variant_selected_payload(t, tag)
  IN Variant(tag, IF payload = <<>> THEN <<>>
                  ELSE <<read_field_at(m, payload[1], variant_payload_slot_offset(at, payload[1]))>>)

read_list_value_at(m, element, at) ==
  LET header == read_pointer_array_header(m, at)
      entry(i) == read_entry_pointer(m, header.start, i)
  IN CASE IsInline(element) -> read_inline_scalar_list_at(m, element, at)
       [] element.k = "String" -> read_list_string_at(m, at)
       [] element.k = "List" -> [i \in 1 .. header.count |-> read_list_value_at(m, element.element, entry(i))] \o <<>>
       [] element.k = "Schema" -> [i \in 1 .. header.count |-> read_record_at(m, element.fields, entry(i))] \o <<>>
       [] element.k = "Variant" -> [i \in 1 .. header.count |-> read_variant_record_at(m, element, entry(i))] \o <<>>

read_list_value(m, element, slot) == read_list_value_at(m, element, read_slot_pointer(m, slot))

read_field_at(m, t, slot) ==
  CASE t.k = "Unit" -> 0
    [] IsInline(t) /\ t.k # "Unit" -> Load(m, SlotSize(t), slot)
    [] t.k = "String" -> read_string_record_at(m, read_slot_pointer(m, slot))
    [] t.k = "List" -> read_list_value_at(m, t.element, read_slot_pointer(m, slot))
    [] t.k = "Schema" -> read_record_at(m, t.fields, read_slot_pointer(m, slot))
    [] t.k = "Variant" -> read_variant_record_at(m, t, read_slot_pointer(m, slot))

(* A field of a record that the code returned. *)
RECURSIVE read_object_field(_, _, _)
read_object_record(m, fields, at) ==
  [i \in DOMAIN fields |-> read_object_field(m, fields[i], at + field_offset(fields, i))] \o <<>>

read_object_list(m, element, slot) ==
  CASE element.k = "Int" -> read_list_int(m, slot)
    [] element.k = "Float" -> read_list_float(m, slot)
    [] element.k = "Bool" -> read_list_bool(m, slot)
    [] element.k = "String" -> read_list_string(m, slot)
    [] element.k = "Schema" ->
         LET subs == read_list_record(m, slot)
         IN [i \in DOMAIN subs |-> read_object_record(m, element.fields, subs[i])] \o <<>>
    [] element.k = "Variant" -> read_list_value(m, element, slot)
    [] element.k = "List" ->
         IF IsInline(element.element) THEN read_list_list(m, element.element, slot)
         ELSE read_list_value(m, element, slot)

read_object_field(m, t, slot) ==
  CASE t.k = "Int" -> read_int(m, slot)
    [] t.k = "Float" -> read_float(m, slot)
    [] t.k = "Bool" -> read_bool(m, slot)
    [] t.k = "Unit" -> read_unit
    [] t.k = "String" -> read_string(m, slot)
    [] t.k = "Schema" -> read_object_record(m, t.fields, sub_record(m, slot))
    [] t.k = "Variant" -> read_field_at(m, t, slot)
    [] t.k = "List" -> read_object_list(m, t.element, slot)

(* A list that lies where it is.  The records in it have no records as     *)
(* fields.                                                                 *)
read_record_field(m, t, slot) ==
  CASE t.k = "Int" -> read_int(m, slot)
    [] t.k = "Float" -> read_float(m, slot)
    [] t.k = "Bool" -> read_bool(m, slot)
    [] t.k = "Unit" -> read_unit
    [] t.k = "String" -> read_string(m, slot)
    [] t.k = "Variant" -> read_field_at(m, t, slot)
    [] t.k = "List" -> read_list_value(m, t.element, slot)

read_record_into_branded_map(m, fields, at) ==
  [i \in DOMAIN fields |-> read_record_field(m, fields[i], at + field_offset(fields, i))] \o <<>>

IsFlat(fields) == \A i \in DOMAIN fields : fields[i].k # "Schema"

read_inplace(m, element, at) ==
  CASE element.k = "List" /\ IsInline(element.element) -> read_list_list_at(m, element.element, at)
    [] element.k = "String" -> read_list_string_at(m, at)
    [] element.k = "Schema" ->
         LET subs == read_list_record_at(m, at)
         IN [i \in DOMAIN subs |-> read_record_into_branded_map(m, element.fields, subs[i])] \o <<>>
    [] OTHER -> read_list_value_at(m, element, at)

(* The strings of a value; the reader refuses what is no UTF-8. *)
RECURSIVE StringsOf(_, _)
StringsOf(t, v) ==
  CASE IsInline(t) -> {}
    [] t.k = "String" -> {v}
    [] t.k = "Schema" -> UNION {StringsOf(t.fields[i], v[i]) : i \in DOMAIN t.fields}
    [] t.k = "Variant" ->
         IF v.payload = <<>> THEN {} ELSE StringsOf(t.payloads[v.tag + 1][1], v.payload[1])
    [] t.k = "List" -> UNION {StringsOf(t.element, v[i]) : i \in DOMAIN v}
=============================================================================
