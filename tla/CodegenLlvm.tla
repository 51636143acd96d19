---------------------------- MODULE CodegenLlvm ----------------------------
(***************************************************************************)
(* What the LLVM generator (relon-codegen-llvm/src/codegen) emits for the  *)
(* same operations.  It differs from the other generator where it uses     *)
(* what it knows of an operand, its provenance: that a string is a literal *)
(* of a known length, and that a closure is the one made by a given        *)
(* MakeClosure, which is then called directly.                             *)
(***************************************************************************)
EXTENDS Codegen

(* The step budget is checked here. *)
StepBudgetCheck == [st |-> "tick", es |-> <<>>]

(* The end of the scratch handed out, and the move of that end behind a    *)
(* record that is there and becomes longer.                                *)
ScratchEnd(x) == [st |-> "scratch_end", x |-> x.x, es |-> <<>>]
GrowLast(record, by) == [st |-> "grow", es |-> <<record, by>>]

(* A record is copied as it is, its padding with it. *)
CopyRecord(dst, src, size, align) == [st |-> "copy", es |-> <<dst, src, size>>, align |-> align]

(* The helper of the host that searches a string. *)
ContainsExtern(x, haystack, needle) == [st |-> "contains", x |-> x.x, es |-> <<haystack, needle>>]

(* A call of a known function with its captures. *)
CallDirect(x, index, args) == [st |-> "direct", x |-> x.x, index |-> index, es |-> args]

-----------------------------------------------------------------------------
(* Strings (string.rs). *)
llvm_emit_str_concat_n(x, offs) == emit_str_concat_n(x, offs)

llvm_emit_int_to_str(x, v) == emit_int_to_str(x, v)

llvm_emit_float_to_str(x, v) == emit_float_to_str(x, v)

(* A record of its own for the two. *)
ConcatAnew(x, lhs, lhs_len, rhs, rhs_len) ==
  LET base == Tmp(4)
  IN << AllocScratchDyn(base, (lhs_len ++ rhs_len) ++ K(4)),
        St32(base, lhs_len ++ rhs_len),
        Memcpy(base ++ K(4), lhs ++ K(4), lhs_len),
        Memcpy((base ++ K(4)) ++ lhs_len, rhs ++ K(4), rhs_len),
        x := base >>

(* A left operand that is the last record of the scratch is extended where *)
(* it is, and is the result.  known is <<>> or the literal that the right  *)
(* operand is taken to be: its length is not read then, and the byte of a  *)
(* literal of one byte is not either.                                      *)
emit_str_add_inplace_or_concat(x, lhs, rhs, known) ==
  LET lhs_len == Tmp(1)
      rhs_len == Tmp(2)
      scratch_end == Tmp(3)
      lhs_end == (lhs ++ K(4)) ++ lhs_len
      appended == IF known # <<>> /\ Len(known[1]) = 1 THEN St8(lhs_end, K(known[1][1]))
                  ELSE Memcpy(lhs_end, rhs ++ K(4), rhs_len)
      fast == << GrowLast(lhs, rhs_len), St32(lhs, lhs_len ++ rhs_len), appended, x := lhs >>
  IN << lhs_len := Ld32(lhs),
        rhs_len := (IF known # <<>> THEN K(Len(known[1])) ELSE Ld32(rhs)),
        ScratchEnd(scratch_end),
        If(lhs_end \doteq scratch_end, fast, ConcatAnew(x, lhs, lhs_len, rhs, rhs_len)) >>

(* A byte is searched by memchr. *)
emit_str_contains_inline_byte(x, haystack, byte) ==
  LET len == Tmp(1)
      i == Tmp(2)
  IN << len := Ld32(haystack), i := K(0), x := K(0),
        Until(i \succeq len, << x := Cond(x, K(1), Ld8((haystack ++ K(4)) ++ i) \doteq K(byte)),
                                i := (i ++ K(1)) >>) >>

emit_str_contains_const_needle(x, haystack, needle) ==
  CASE needle.text = <<>> -> << x := K(1) >>
    [] Len(needle.text) = 1 -> emit_str_contains_inline_byte(x, haystack, needle.text[1])
    [] OTHER -> << ContainsExtern(x, haystack, needle) >>

-----------------------------------------------------------------------------
(* Records (mem.rs, collections.rs). *)
llvm_copy_list_string_block(x, header) == copy_list_string_block(x, header)

emit_store_field_list_string(offset, header) ==
  llvm_copy_list_string_block(Tmp(0), header) \o <<St32(OutPtr ++ K(offset), Tmp(0))>>

emit_store_field_pointer_indirect(offset, t, src) ==
  emit_pointer_indirect_record_copy(Tmp(0), src, t) \o <<St32(OutPtr ++ K(offset), Tmp(0))>>

llvm_emit_store_field(offset, t, v) ==
  CASE IsCopied(t) -> emit_store_field_pointer_indirect(offset, t, v)
    [] t.k = "List" /\ t.element.k = "String" -> emit_store_field_list_string(offset, v)
    [] OTHER -> <<Store(SlotSize(t), OutPtr ++ K(offset), v)>>

llvm_emit_tail_record_from_absolute(x, src, t) ==
  LET size == Tmp(1)
      dst == Tmp(2)
      len == Ld32(src)
  IN IF t.k = "List" /\ t.element.k = "String" THEN llvm_copy_list_string_block(x, src)
     ELSE << size := (IF IsWide(t) THEN (len ** K(8)) ++ K(8) ELSE len ++ K(4)),
             TailAlloc(dst, size, IF IsWide(t) THEN 8 ELSE 4, K(0)),
             dst := (OutPtr ++ dst),
             CopyRecord(dst, src, size, IF IsWide(t) THEN 8 ELSE 1),
             x := dst >>

llvm_emit_build_variant_record(x, tag, size, align, payload, t) ==
  emit_build_variant_record(x, tag, size, align, payload, t)

llvm_emit_build_variant_record_scratch(x, tag, size, align, payload, t) ==
  emit_build_variant_record_scratch(x, tag, size, align, payload, t)

llvm_emit_build_pointer_list(x, elems) == emit_build_pointer_list(x, elems)

llvm_emit_alloc_root_record(k) == emit_alloc_root_record(k)

llvm_emit_alloc_sub_record(k, fields) == emit_alloc_sub_record(k, fields)

llvm_emit_alloc_scratch_record(k, fields) == emit_alloc_scratch_record(k, fields)

llvm_emit_store_field_at_record(k, offset, t, v) == emit_store_field_at_record(k, offset, t, v)

llvm_emit_store_field_at_record_absolute(k, offset, t, v) == emit_store_field_at_record_absolute(k, offset, t, v)

llvm_emit_make_closure(x, index, captures, captures_size) == emit_make_closure(x, index, captures, captures_size)

llvm_emit_return(inplace, root) == emit_return(inplace, root)

-----------------------------------------------------------------------------
(* The arguments, written by the evaluator of this backend (evaluator.rs). *)
RECURSIVE marshal_value_in(_, _, _, _), write_schema_into_builder(_, _, _, _), marshal_entries(_, _, _, _)
write_schema_into_builder(bytes, fields, vs, i) ==
  IF i > Len(fields) THEN bytes
  ELSE write_schema_into_builder(marshal_value_in(bytes, field_offset(fields, i), fields[i], vs[i]), fields, vs, i + 1)

marshal_int_in(bytes, slot, v) == write_int(bytes, slot, v)
marshal_float_in(bytes, slot, v) == write_float(bytes, slot, v)
marshal_bool_in(bytes, slot, v) == write_bool(bytes, slot, v)
marshal_unit_in(bytes, slot) == write_unit(bytes, slot)
marshal_string_in(bytes, slot, v) == write_string(bytes, slot, v)

(* A child record is built on its own and pasted; a tuple is a record. *)
marshal_schema_in(bytes, slot, fields, vs) ==
  finish_sub_record(bytes, slot, fields, write_schema_into_builder(BufferBuilder(fields), fields, vs, 1))

(* The records one behind the other, and the offsets of them. *)
marshal_entries(at, fields, items, i) ==
  LET child == write_schema_into_builder(BufferBuilder(fields), fields, items[i], 1)
      entry == append_child_record_payload(at.bytes, fields, child)
  IN IF i > Len(items) THEN at
     ELSE marshal_entries([bytes |-> entry.bytes, offsets |-> Append(at.offsets, entry.at)], fields, items, i + 1)

marshal_list_schema_in(bytes, slot, fields, items) ==
  LET written == marshal_entries([bytes |-> bytes, offsets |-> <<>>], fields, items, 1)
  IN finish_list_record(written.bytes, slot, written.offsets)

marshal_list_list_in(bytes, slot, inner, items) ==
  IF inner.k \in {"Int", "Float", "Bool"} THEN write_nested_scalar_list(bytes, slot, inner, items)
  ELSE write_nested_pointer_array_list(bytes, slot, inner, items)

marshal_list_in(bytes, slot, element, items) ==
  CASE element.k = "Int" -> write_list_int(bytes, slot, items)
    [] element.k = "Float" -> write_list_float(bytes, slot, items)
    [] element.k = "Bool" -> write_list_bool(bytes, slot, items)
    [] element.k = "String" -> write_list_string(bytes, slot, items)
    [] element.k = "Schema" -> marshal_list_schema_in(bytes, slot, element.fields, items)
    [] element.k = "List" -> marshal_list_list_in(bytes, slot, element.element, items)
    [] element.k = "Variant" -> write_value_slot(bytes, slot, ListOf(element), items)

marshal_value_in(bytes, slot, t, v) ==
  CASE t.k = "Int" -> marshal_int_in(bytes, slot, v)
    [] t.k = "Float" -> marshal_float_in(bytes, slot, v)
    [] t.k = "Bool" -> marshal_bool_in(bytes, slot, v)
    [] t.k = "Unit" -> marshal_unit_in(bytes, slot)
    [] t.k = "String" -> marshal_string_in(bytes, slot, v)
    [] t.k = "Schema" -> marshal_schema_in(bytes, slot, t.fields, v)
    [] t.k = "List" -> marshal_list_in(bytes, slot, t.element, v)
    [] t.k = "Variant" -> write_value_slot(bytes, slot, t, v)

llvm_in_bytes(fields, vs, arena_base) ==
  relocate_pointers(write_schema_into_builder(BufferBuilder(fields), fields, vs, 1), fields, 0, arena_base)

-----------------------------------------------------------------------------
(* The captures that are known closures (mod.rs), from the places where    *)
(* closures are made: not those inside a branch or a loop.                 *)
MadeAt(units, index) ==
  UNION {{<<u, i>> : i \in {n \in DOMAIN units[u] : units[u][n].st = "MakeClosure" /\ units[u][n].index = index}} :
           u \in DOMAIN units}

CapturesAt(units, at) == LET made == units[at[1]][at[2]].captures IN {made[k] : k \in DOMAIN made}

(* MakeClosure, and right behind it the let that holds the closure. *)
IsBinding(code, i) ==
  i \in 2 .. Len(code) /\ code[i].st = "set" /\ code[i - 1].st = "MakeClosure" /\ code[i].es = <<code[i - 1].x>>

(* The places where a closure holds itself. *)
build_self_capture_table(units, index) ==
  UNION {{c.offset : c \in {c \in CapturesAt(units, at) :
                              IsBinding(units[at[1]], at[2] + 1) /\ c.from = Let(units[at[1]][at[2] + 1].x)}} :
           at \in MadeAt(units, index)}

(* The closure a let holds before the place i, if the last assignment to   *)
(* it binds one.                                                           *)
KnownSlot(code, i, x) ==
  LET sets == {j \in 1 .. i - 1 : code[j].st = "set" /\ code[j].x = x}
      last == CHOOSE j \in sets : \A k \in sets : k <= j
  IN IF sets # {} /\ IsBinding(code, last) THEN <<code[last - 1].index>> ELSE <<>>

(* The places where it holds another. *)
build_known_capture_table(units, index) ==
  UNION {{[at |-> c.offset, index |-> KnownSlot(units[at[1]], at[2], c.from.x)[1]] :
            c \in {c \in CapturesAt(units, at) : KnownSlot(units[at[1]], at[2], c.from.x) \notin {<<>>, <<index>>}}} :
           at \in MadeAt(units, index)}

-----------------------------------------------------------------------------
(* Provenance (mod.rs).  g is what is known where the generator is: texts, *)
(* the literals that lets hold; known, the closures that lets and operands *)
(* are, 0 for the running one; and own and held, the two tables of it.     *)
Without(f, k) == [x \in DOMAIN f \ {k} |-> f[x]]
Among(f, k) == IF k \in DOMAIN f THEN <<f[k]>> ELSE <<>>

LiteralOf(e, g) ==
  CASE "text" \in DOMAIN e -> <<e.text>>
    [] "text" \notin DOMAIN e /\ e.op = "let" -> Among(g.texts, e.x)
    [] OTHER -> <<>>

(* A load from the captures. *)
peek_self_capture_provenance(e, g) ==
  LET known == {h \in g.held : h.at = e.a.b.n}
  IN CASE ~(e.op = "ld" /\ e.a.op = "add" /\ e.a.a = Arg(0) /\ e.a.b.op = "K") -> <<>>
       [] e.a.b.n \in g.own -> <<0>>
       [] e.a.b.n \notin g.own /\ known # {} -> <<(CHOOSE h \in known : TRUE).index>>
       [] OTHER -> <<>>

ClosureOf(e, g) == IF e.op = "let" THEN Among(g.known, e.x) ELSE peek_self_capture_provenance(e, g)

(* A let takes the provenance of what it is set to, or loses its own.      *)
LetSetProvenance(s, g) ==
  LET kept(f, to) == IF to # <<>> /\ s.x >= 0 THEN (s.x :> to[1]) @@ f ELSE Without(f, s.x)
  IN [g EXCEPT !.texts = kept(@, LiteralOf(s.es[1], g)), !.known = kept(@, ClosureOf(s.es[1], g))]

(* The lets that some code assigns. *)
RECURSIVE collect_closure_letset_slots(_)
collect_closure_letset_slots(code) ==
  UNION {CASE code[i].st = "set" -> {code[i].x}
           [] HasArms(code[i]) -> UNION {collect_closure_letset_slots(code[i].arms[k]) : k \in DOMAIN code[i].arms}
           [] OTHER -> {} : i \in DOMAIN code}

Forgotten(g, slots) == [g EXCEPT !.known = [x \in DOMAIN @ \ slots |-> @[x]]]

Agreeing(f, h) == [x \in {y \in DOMAIN f \cap DOMAIN h : f[y] = h[y]} |-> f[x]]

(* A closure that is known is called directly, with its own captures if it *)
(* is the running one.                                                     *)
llvm_emit_call_closure(s, g) ==
  LET of == ClosureOf(s.es[1], g)
      args == Tail(s.es)
  IN CASE of = <<>> -> s
       [] of = <<0>> -> CallDirect(Let(s.x), g.index, <<Arg(0)>> \o args)
       [] OTHER -> CallDirect(Let(s.x), of[1], <<Ld32(s.es[1] ++ K(4))>> \o args)

(* A body of the library is generated in place, and sees the provenance of *)
(* its arguments.                                                          *)
llvm_emit_call_stdlib(s, g) ==
  LET of(i) == ClosureOf(s.es[i], g)
  IN [s EXCEPT !.known = [i \in {k \in DOMAIN s.es : of(k) # <<>>} |-> IF of(i) = <<0>> THEN g.index ELSE of(i)[1]]]

llvm_lower_call(s, g) ==
  LET needle == s.es[2]
  IN CASE s.f = "contains" /\ "text" \in DOMAIN needle -> emit_str_contains_const_needle(Let(s.x), s.es[1], needle)
       [] s.f = "contains" /\ "text" \notin DOMAIN needle -> <<ContainsExtern(Let(s.x), s.es[1], needle)>>
       [] OTHER -> <<llvm_emit_call_stdlib(s, g)>>

-----------------------------------------------------------------------------
(* The operations, one by one (lower_op).                                  *)
llvm_lower_text(s, g) ==
  CASE s.st = "IntToStr" -> llvm_emit_int_to_str(s.x, s.v)
    [] s.st = "FloatToStr" -> llvm_emit_float_to_str(s.x, s.v)
    [] s.st = "StrConcatN" -> llvm_emit_str_concat_n(s.x, s.offs)
    [] s.st = "Add" -> emit_str_add_inplace_or_concat(s.x, s.offs[1], s.offs[2], LiteralOf(s.offs[2], g))

llvm_lower_record(s) ==
  CASE s.st = "EmitTailRecord" -> llvm_emit_tail_record_from_absolute(s.x, s.src, s.t)
    [] s.st = "StoreField" -> llvm_emit_store_field(s.offset, s.t, s.v)
    [] s.st = "Return" -> llvm_emit_return(s.inplace, s.root)
    [] s.st = "BuildVariantRecord" -> llvm_emit_build_variant_record(s.x, s.tag, s.size, s.align, s.payload, s.t)
    [] s.st = "BuildVariantRecordScratch" ->
         llvm_emit_build_variant_record_scratch(s.x, s.tag, s.size, s.align, s.payload, s.t)
    [] s.st = "BuildPointerList" -> llvm_emit_build_pointer_list(s.x, s.elems)
    [] s.st = "AllocRootRecord" -> llvm_emit_alloc_root_record(s.k)
    [] s.st = "AllocSubRecord" -> llvm_emit_alloc_sub_record(s.k, s.fields)
    [] s.st = "AllocScratchRecord" -> llvm_emit_alloc_scratch_record(s.k, s.fields)
    [] s.st = "StoreFieldAtRecord" -> llvm_emit_store_field_at_record(s.k, s.offset, s.t, s.v)
    [] s.st = "StoreFieldAtRecordAbsolute" -> llvm_emit_store_field_at_record_absolute(s.k, s.offset, s.t, s.v)
    [] s.st = "MakeClosure" -> llvm_emit_make_closure(s.x, s.index, s.captures, s.size)

RECURSIVE lower_op(_, _), lower_ops(_, _)

(* Both arms begin with what is known before; what both end with remains.  *)
(* The literals that lets hold are not divided like this.                  *)
emit_if(s, g) ==
  LET then == lower_ops(s.arms[1], [g EXCEPT !.out = <<>>])
      else == lower_ops(s.arms[2], [then EXCEPT !.out = <<>>, !.known = g.known])
  IN [else EXCEPT !.out = Append(g.out, [s EXCEPT !.arms = <<then.out, else.out>>]),
                  !.known = Agreeing(then.known, else.known)]

(* What a body assigns is not known in it, nor behind it. *)
emit_block(s, g) ==
  LET slots == collect_closure_letset_slots(s.arms[1])
      body == lower_ops(s.arms[1], [Forgotten(g, slots) EXCEPT !.out = <<>>])
  IN Forgotten([body EXCEPT !.out = Append(g.out, [s EXCEPT !.arms = <<body.out>>])], slots)

emit_loop(s, g) ==
  LET slots == collect_closure_letset_slots(s.arms[1])
      body == lower_ops(s.arms[1], [Forgotten(g, slots) EXCEPT !.out = <<StepBudgetCheck>>])
  IN Forgotten([body EXCEPT !.out = Append(g.out, [s EXCEPT !.arms = <<body.out>>])], slots)

lower_op(s, g) ==
  LET emit(code) == [g EXCEPT !.out = @ \o code]
  IN CASE s.st \in TextOps -> emit(llvm_lower_text(s, g))
       [] s.st = "MakeClosure" -> [emit(llvm_lower_record(s)) EXCEPT !.known = (s.x.x :> s.index) @@ @]
       [] s.st # "MakeClosure" /\ s.st \in RecordOps -> emit(llvm_lower_record(s))
       [] s.st = "set" -> [LetSetProvenance(s, g) EXCEPT !.out = Append(@, s)]
       [] s.st = "call" -> emit(llvm_lower_call(s, g))
       [] s.st = "closure" -> emit(<<llvm_emit_call_closure(s, g)>>)
       [] s.st = "if" -> emit_if(s, g)
       [] s.st = "block" -> emit_block(s, g)
       [] s.st = "loop" -> emit_loop(s, g)
       [] OTHER -> emit(<<s>>)

(* In order; in halves, so that a long function does not nest deeply. *)
lower_ops(code, g) ==
  LET half == Len(code) \div 2
      first == lower_ops(SubSeq(code, 1, half), g)
      rest == SubSeq(code, half + 1, Len(code))
  IN CASE code = <<>> -> g
       [] Len(code) = 1 -> lower_op(code[1], g)
       [] OTHER -> CHOOSE r \in {lower_ops(rest, known) : known \in {first}} : TRUE

(* A body of the library has no literals and makes no closures: only its   *)
(* loops differ.                                                           *)
RECURSIVE LibraryBody(_)
LibraryBody(code) ==
  LET arms(s) == [k \in DOMAIN s.arms |-> LibraryBody(s.arms[k])] \o <<>>
      op(s) == CASE s.st = "loop" -> [s EXCEPT !.arms = << <<StepBudgetCheck>> \o LibraryBody(s.arms[1]) >>]
                 [] s.st # "loop" /\ HasArms(s) -> [s EXCEPT !.arms = arms(s)]
                 [] OTHER -> s
  IN [i \in DOMAIN code |-> op(code[i])] \o <<>>

(* A function of the program: the #main (index 0), or a closure. *)
LlvmCode(units, index) ==
  lower_ops(units[index + 1],
            [ out |-> <<>>, texts |-> <<>>, known |-> <<>>, index |-> index,
              own |-> IF index = 0 THEN {} ELSE build_self_capture_table(units, index),
              held |-> IF index = 0 THEN {} ELSE build_known_capture_table(units, index) ]).out

(* The entry takes a step of the budget, too. *)
emit_buffer_entry(units) == <<StepBudgetCheck>> \o LlvmCode(units, 0)

emit_module_funcs(units) ==
  [u \in DOMAIN units |-> IF u = 1 THEN emit_buffer_entry(units) ELSE LlvmCode(units, u - 1)] \o <<>>

-----------------------------------------------------------------------------
(* The fast entry: a #main from integers to one integer, as a function     *)
(* over registers.  It has no arena, no way to report a trap, and no step  *)
(* budget.                                                                 *)
RECURSIVE OpsIn(_), Subexpressions(_)
OpsIn(code) ==
  UNION {{code[i]} \cup (IF HasArms(code[i]) THEN UNION {OpsIn(code[i].arms[k]) : k \in DOMAIN code[i].arms} ELSE {}) :
           i \in DOMAIN code}

Subexpressions(e) ==
  {e} \cup CASE e.op \in {"K", "arg", "let"} -> {}
             [] e.op = "ld" -> Subexpressions(e.a)
             [] e.op = "cond" -> Subexpressions(e.c) \cup Subexpressions(e.a) \cup Subexpressions(e.b)
             [] OTHER -> Subexpressions(e.a) \cup Subexpressions(e.b)

FieldStores == {"StoreField", "StoreFieldAtRecord"}

OperandsOf(s) ==
  UNION {Subexpressions(e) : e \in CASE s.st \in FieldStores -> {s.v}
                                     [] s.st \in {"AllocRootRecord", "Return"} -> {}
                                     [] OTHER -> {s.es[k] : k \in DOMAIN s.es}}

(* What it can hold: no arena, no literals. *)
FastOps == {"set", "if", "block", "loop", "br", "brif", "call", "ret", "trap", "AllocRootRecord", "Return"} \cup FieldStores

build_fast_path_profile(params, fields, is_tuple) ==
  /\ \A k \in DOMAIN params : params[k].k = "Int"
  /\ Len(params) <= 8
  /\ ~is_tuple /\ Len(fields) = 1 /\ fields[1].k = "Int"

FastResult == Tmp(0)

(* A parameter is a register, and so is the field of the result. *)
RECURSIVE FastOperand(_, _), FastBody(_, _)
FastOperand(e, params) ==
  CASE e.op \in {"K", "arg", "let"} -> e
    [] e.op = "ld" -> Arg((CHOOSE i \in DOMAIN params : e.a = InPtr ++ K(field_offset(params, i))) - 1)
    [] e.op = "cond" -> Cond(FastOperand(e.c, params), FastOperand(e.a, params), FastOperand(e.b, params))
    [] OTHER -> Bin(e.op, FastOperand(e.a, params), FastOperand(e.b, params))

FastOp(s, params) ==
  LET operands(es) == [k \in DOMAIN es |-> FastOperand(es[k], params)] \o <<>>
  IN CASE s.st \in FieldStores -> FastResult := FastOperand(s.v, params)
       [] s.st = "Return" -> Return(FastResult)
       [] s.st = "AllocRootRecord" -> RecordLocal(s.k) := K(0)
       [] HasArms(s) -> [s EXCEPT !.es = operands(@), !.arms = [k \in DOMAIN @ |-> FastBody(@[k], params)] \o <<>>]
       [] OTHER -> [s EXCEPT !.es = operands(@)]

FastBody(code, params) == [i \in DOMAIN code |-> FastOp(code[i], params)] \o <<>>

emit_fast_entry(code, params) == <<FastResult := K(0)>> \o FastBody(code, params)
=============================================================================
