------------------------------ MODULE LowerCtx ------------------------------
(***************************************************************************)
(* What the lowering of an expression (relon-ir/src/lowering) works with:  *)
(* the types of the intermediate code, the table of library functions, the *)
(* context that is threaded through the lowering, and the constants.       *)
(*                                                                         *)
(* The code is a stack machine's; here an entry of the type stack carries  *)
(* the operand too: a number, a let, a load from the input, or the slot    *)
(* Stack(d) the result of an operation was assigned to.  Whatever fails    *)
(* leaves err: "cap" when the program is outside of what is compiled,      *)
(* "mismatch" for StdlibArgTypeMismatch, which some callers recover from,  *)
(* and "pass" when a rewriting does not apply.  A failed lowering pushes a *)
(* dummy, so that one entry is pushed in any case.                         *)
(***************************************************************************)
EXTENDS Ast, Codegen, FiniteSets

-----------------------------------------------------------------------------
(* Types. *)

type_repr_to_ir_type(t) ==
  CASE t.k = "Int" -> "I64"
    [] t.k = "Float" -> "F64"
    [] t.k \in {"Bool", "Unit", "String"} -> t.k
    [] t.k \in {"Schema", "Variant"} -> "I32"
    [] t.k = "List" ->
         CASE t.element.k \in {"Int", "Float", "Bool", "String", "Schema"} -> "List" \o t.element.k
           [] OTHER -> "ListList"

(* Pointers and small values share the slot of 32 bits. *)
wasm_slot(ty) == IF ty \in {"I64", "F64"} THEN ty ELSE "I32"

Width(ty) == CASE ty \in {"I64", "F64"} -> 8 [] ty \in {"Bool", "Unit"} -> 1 [] OTHER -> 4

LoadAs(ty, at) == [op |-> "ld", a |-> at, w |-> Width(ty)]

(* A captured value or a payload read directly; only a Bool is one byte. *)
direct_payload_load_op(ty, at) == [op |-> "ld", a |-> at, w |-> IF ty = "Unit" THEN 4 ELSE Width(ty)]

(* The alignment of a variant record, and what is behind it (record_value.rs). *)
RECURSIVE type_graph_alignment_for_lowering(_)
variant_record_alignment_for_lowering(t) ==
  LET aligns == {4} \cup UNION {{SlotSize(p), type_graph_alignment_for_lowering(p)} : p \in variant_payload_types(t)}
  IN CHOOSE a \in aligns : \A b \in aligns : b <= a

type_graph_alignment_for_lowering(t) ==
  CASE t.k \in {"Bool", "Unit"} -> 1
    [] t.k \in {"Int", "Float"} -> 8
    [] t.k = "Variant" -> variant_record_alignment_for_lowering(t)
    [] OTHER -> 4

variant_payload_offset_for_lowering(t) == AlignUp(1, SlotSize(t))

-----------------------------------------------------------------------------
(* The library: parameter types and result. *)
Fn(params, ret) == [params |-> params, ret |-> ret]

builtin_stdlib ==
  [ length |-> Fn(<<"String">>, "I64"), len |-> Fn(<<"String">>, "I64"),
    list_int_length |-> Fn(<<"ListInt">>, "I64"), list_float_length |-> Fn(<<"ListFloat">>, "I64"),
    list_bool_length |-> Fn(<<"ListBool">>, "I64"), list_string_length |-> Fn(<<"ListString">>, "I64"),
    list_schema_length |-> Fn(<<"ListSchema">>, "I64"), list_list_length |-> Fn(<<"ListList">>, "I64"),
    abs |-> Fn(<<"I64">>, "I64"), abs_float |-> Fn(<<"F64">>, "F64"), floor |-> Fn(<<"F64">>, "I64"),
    ceil |-> Fn(<<"F64">>, "I64"), round |-> Fn(<<"F64">>, "I64"), sqrt |-> Fn(<<"F64">>, "F64"),
    min |-> Fn(<<"I64", "I64">>, "I64"), max |-> Fn(<<"I64", "I64">>, "I64"),
    is_empty |-> Fn(<<"String">>, "Bool"), concat |-> Fn(<<"String", "String">>, "String"),
    substring |-> Fn(<<"String", "I64", "I64">>, "String"),
    starts_with |-> Fn(<<"String", "String">>, "Bool"), ends_with |-> Fn(<<"String", "String">>, "Bool"),
    contains |-> Fn(<<"String", "String">>, "Bool"), split |-> Fn(<<"String", "String">>, "ListString"),
    replace |-> Fn(<<"String", "String", "String">>, "String"),
    trim |-> Fn(<<"String">>, "String"), trim_start |-> Fn(<<"String">>, "String"),
    trim_end |-> Fn(<<"String">>, "String"), upper |-> Fn(<<"String">>, "String"),
    lower |-> Fn(<<"String">>, "String"), title |-> Fn(<<"String">>, "String"),
    upper_locale |-> Fn(<<"String", "String">>, "String"), lower_locale |-> Fn(<<"String", "String">>, "String"),
    title_locale |-> Fn(<<"String", "String">>, "String"),
    nfd |-> Fn(<<"String">>, "String"), nfkd |-> Fn(<<"String">>, "String"),
    nfc |-> Fn(<<"String">>, "String"), nfkc |-> Fn(<<"String">>, "String"),
    is_uuid |-> Fn(<<"String">>, "Bool"), is_email |-> Fn(<<"String">>, "Bool"),
    is_uri |-> Fn(<<"String">>, "Bool"), is_iso_date |-> Fn(<<"String">>, "Bool"),
    multiple_of |-> Fn(<<"I64", "I64">>, "Bool"), in_range |-> Fn(<<"F64", "F64", "F64">>, "Bool"),
    size_in_range |-> Fn(<<"ListInt", "I64", "I64">>, "Bool"),
    dict_size_in_range |-> Fn(<<"Dict", "I64", "I64">>, "Bool"),
    list_int_sum |-> Fn(<<"ListInt">>, "I64"), list_int_max |-> Fn(<<"ListInt">>, "I64"),
    list_int_min |-> Fn(<<"ListInt">>, "I64"),
    list_int_map |-> Fn(<<"ListInt", "Closure">>, "ListInt"),
    list_int_map_to_float |-> Fn(<<"ListInt", "Closure">>, "ListFloat"),
    list_int_map_to_string |-> Fn(<<"ListInt", "Closure">>, "ListString"),
    list_int_map_to_variant_list |-> Fn(<<"ListInt", "Closure">>, "ListList"),
    list_int_filter |-> Fn(<<"ListInt", "Closure">>, "ListInt"),
    list_int_fold |-> Fn(<<"ListInt", "I64", "Closure">>, "I64"),
    list_int_every |-> Fn(<<"ListInt", "Closure">>, "Bool"), list_int_some |-> Fn(<<"ListInt", "Closure">>, "Bool"),
    list_int_unique |-> Fn(<<"ListInt">>, "Bool"),
    list_float_map |-> Fn(<<"ListFloat", "Closure">>, "ListFloat"),
    list_float_map_to_int |-> Fn(<<"ListFloat", "Closure">>, "ListInt"),
    list_float_map_to_string |-> Fn(<<"ListFloat", "Closure">>, "ListString"),
    list_float_map_to_variant_list |-> Fn(<<"ListFloat", "Closure">>, "ListList"),
    list_float_filter |-> Fn(<<"ListFloat", "Closure">>, "ListFloat"),
    list_float_fold |-> Fn(<<"ListFloat", "F64", "Closure">>, "F64"),
    list_float_every |-> Fn(<<"ListFloat", "Closure">>, "Bool"), list_float_some |-> Fn(<<"ListFloat", "Closure">>, "Bool"),
    list_float_unique |-> Fn(<<"ListFloat">>, "Bool"),
    list_string_map |-> Fn(<<"ListString", "Closure">>, "ListString"),
    list_string_map_to_variant_list |-> Fn(<<"ListString", "Closure">>, "ListList"),
    list_list_filter |-> Fn(<<"ListList", "Closure">>, "ListList"),
    list_sort_by_ii_asc |-> Fn(<<"ListInt", "Closure">>, "ListInt"),
    list_sort_by_ii_desc |-> Fn(<<"ListInt", "Closure">>, "ListInt"),
    list_sort_by_if_asc |-> Fn(<<"ListInt", "Closure">>, "ListInt"),
    list_sort_by_if_desc |-> Fn(<<"ListInt", "Closure">>, "ListInt"),
    list_sort_by_fi_asc |-> Fn(<<"ListFloat", "Closure">>, "ListFloat"),
    list_sort_by_fi_desc |-> Fn(<<"ListFloat", "Closure">>, "ListFloat"),
    list_sort_by_ff_asc |-> Fn(<<"ListFloat", "Closure">>, "ListFloat"),
    list_sort_by_ff_desc |-> Fn(<<"ListFloat", "Closure">>, "ListFloat") ]

(* The function a method of a type stands for, or "". *)
stdlib_method_index(ty, name) ==
  CASE ty = "String" /\ name = "len" -> "length"
    [] ty = "String" /\ name # "len" ->
         IF name \in {"length", "is_empty", "concat", "upper", "lower", "title", "nfc", "nfd", "nfkc", "nfkd",
                      "upper_locale", "lower_locale", "title_locale", "substring", "starts_with", "ends_with",
                      "replace", "trim", "trim_start", "trim_end", "split", "contains"}
         THEN name ELSE ""
    [] ty \in {"ListInt", "ListFloat"} /\ name \in {"fold", "reduce"} ->
         IF ty = "ListInt" THEN "list_int_fold" ELSE "list_float_fold"
    [] ty = "ListInt" /\ name \in {"length", "sum", "max", "min", "map", "filter", "every", "some", "unique"} ->
         "list_int_" \o name
    [] ty = "ListFloat" /\ name \in {"length", "map", "filter", "every", "some", "unique"} -> "list_float_" \o name
    [] ty = "ListBool" /\ name = "length" -> "list_bool_length"
    [] ty = "ListString" /\ name \in {"length", "map"} -> "list_string_" \o name
    [] ty = "ListSchema" /\ name = "length" -> "list_schema_length"
    [] ty = "ListList" /\ name \in {"length", "filter"} -> "list_list_" \o name
    [] OTHER -> ""

(* The element type a function hands to its closure, and what it expects. *)
stdlib_closure_arg_signature(name) ==
  LET list == builtin_stdlib[name].params[1]
      element == CASE list = "ListInt" -> "I64" [] list = "ListFloat" -> "F64"
                   [] list = "ListString" -> "String" [] OTHER -> "I32"
  IN CASE name \in {"list_int_fold", "list_float_fold"} -> Fn(<<element, element>>, element)
       [] name \in {"list_int_map", "list_float_map", "list_string_map", "list_sort_by_ii_asc",
                    "list_sort_by_ii_desc", "list_sort_by_ff_asc", "list_sort_by_ff_desc"} -> Fn(<<element>>, element)
       [] name \in {"list_int_map_to_float", "list_sort_by_if_asc", "list_sort_by_if_desc"} -> Fn(<<element>>, "F64")
       [] name \in {"list_float_map_to_int", "list_sort_by_fi_asc", "list_sort_by_fi_desc"} -> Fn(<<element>>, "I64")
       [] name \in {"list_int_map_to_string", "list_float_map_to_string"} -> Fn(<<element>>, "String")
       [] name \in {"list_int_map_to_variant_list", "list_float_map_to_variant_list",
                    "list_string_map_to_variant_list"} -> Fn(<<element>>, "I32")
       [] OTHER -> Fn(<<element>>, "Bool")

-----------------------------------------------------------------------------
(* The context.  A let is known by its number; repr is the type of what it *)
(* points at, as far as that is known.  bound are the lets that the code   *)
(* of this function assigns so far, consts the literals that lets were     *)
(* bound to, sigs the signatures of closures; the numbers index the two    *)
(* tables.  doomed: the generator will refuse the code emitted so far.     *)
LetBinding(name, idx, ty, repr) == [name |-> name, idx |-> idx, ty |-> ty, repr |-> repr]

(* A closure that may be called; an argument that coercible marks is       *)
(* turned into a String when its type differs.                             *)
Sig(params, ret, coercible) == [params |-> params, ret |-> ret, coercible |-> coercible]

LocalBinding(name, t, offset) ==
  [name |-> name, ty |-> type_repr_to_ir_type(t), repr |-> t, e |-> LoadAs(type_repr_to_ir_type(t), InPtr ++ K(offset))]

LowerCtx(params) ==
  [ out |-> <<>>, stack |-> <<>>, lets |-> <<>>, next |-> 0, params |-> params, bound |-> {}, consts |-> <<>>,
    sigs |-> <<>>, bodies |-> <<>>, pool |-> <<>>, strings |-> {}, records |-> 0, in_scratch |-> FALSE,
    narrowed |-> {}, doomed |-> FALSE, err |-> "" ]

Stack(d) == Let(-1 - d)

Emit(c, code) == [c EXCEPT !.out = @ \o code]

PushAtom(c, e, ty) == [c EXCEPT !.stack = Append(@, [e |-> e, ty |-> ty])]

(* The result of an operation, in the slot of its place on the stack. *)
NextSlot(c) == Stack(Len(c.stack))

Push(c, e, ty) == PushAtom(Emit(c, <<NextSlot(c) := e>>), NextSlot(c), ty)

(* The same for an operation that is more than an expression. *)
PushMade(c, code, ty) == PushAtom(Emit(c, code), NextSlot(c), ty)

Pop(c, n) == [c EXCEPT !.stack = SubSeq(@, 1, Len(@) - n)]

(* The operand k places below the top. *)
Under(c, k) == c.stack[Len(c.stack) - k]
TopE(c) == Under(c, 0).e
TopTy(c) == Under(c, 0).ty

Fail(c, kind) == IF c.err = "" THEN [c EXCEPT !.err = kind] ELSE c

Failed(c, kind) == PushAtom(Fail(c, kind), K(0), "")

Declined(c) == Failed(c, "cap")

Check(c, ok) == IF ok THEN c ELSE Fail(c, "cap")

(* As if the lowering of something had not been tried.  The lets it pushed *)
(* and the literals and signatures it noted remain.                        *)
Rollback(c, tried) == [c EXCEPT !.lets = tried.lets, !.consts = tried.consts, !.sigs = tried.sigs]

Passed(c, tried) == Fail(Rollback(c, tried), "pass")

(* The lets of an inner scope go, unless an error ended it. *)
Truncated(c, n) == IF c.err = "" THEN [c EXCEPT !.lets = SubSeq(@, 1, n)] ELSE c

(* A new let that takes the operand on top. *)
SetNext(c, e) ==
  [Emit(c, <<Let(c.next) := e>>) EXCEPT !.next = @ + 1, !.bound = @ \cup {c.next}]

BindNext(c, name, e, ty, repr) ==
  [SetNext(c, e) EXCEPT !.lets = Append(@, LetBinding(name, c.next, ty, repr))]

With(f, k, v) == [x \in DOMAIN f \cup {k} |-> IF x = k THEN v ELSE f[x]]

(* Reading a let.  The generator refuses one the function never assigned.  *)
GetLet(c, b) == PushAtom([c EXCEPT !.doomed = @ \/ b.idx \notin c.bound], Let(b.idx), b.ty)

LetsNamed(c, name) == {k \in DOMAIN c.lets : c.lets[k].name = name}
ParamsNamed(c, name) == {k \in DOMAIN c.params : c.params[k].name = name}

Latest(ks) == CHOOSE k \in ks : \A j \in ks : j <= k

(* The code that was emitted behind a given context. *)
CodeSince(c, before) == SubSeq(c.out, Len(before.out) + 1, Len(c.out))

-----------------------------------------------------------------------------
(* Constants (codegen/const_pool.rs).  Strings are interned; a list is     *)
(* stored again for each literal.                                          *)
ConstAt(c, align, bytes) == [c EXCEPT !.pool = pad_to(@, align) \o bytes]

visit_const_string(c, text) ==
  LET known == {s \in c.strings : s.text = text}
      at == Len(pad_to(c.pool, 4))
      added == [ConstAt(c, 4, Le32(Len(text)) \o text) EXCEPT !.strings = @ \cup {[text |-> text, at |-> at]}]
  IN IF known # {} THEN PushAtom(c, KText((CHOOSE s \in known : TRUE).at, text), "String")
     ELSE PushAtom(added, KText(at, text), "String")

visit_const_list_int(c, items) ==
  PushAtom(ConstAt(c, 8, append_scalar_list(<<>>, IntT, items).bytes), K(Len(pad_to(c.pool, 8))), "ListInt")

visit_const_list_float(c, items) ==
  PushAtom(ConstAt(c, 8, append_scalar_list(<<>>, FloatT, items).bytes), K(Len(pad_to(c.pool, 8))), "ListFloat")

visit_const_list_bool(c, items) ==
  PushAtom(ConstAt(c, 4, append_scalar_list(<<>>, BoolT, items).bytes), K(Len(pad_to(c.pool, 4))), "ListBool")

(* The strings, one behind the other, then the header that points at them. *)
visit_const_list_string(c, texts) ==
  LET start == pad_to(c.pool, 4)
      placed[i \in 0 .. Len(texts)] ==
        IF i = 0 THEN [bytes |-> start, at |-> <<>>]
        ELSE LET before == placed[i - 1]
                 record == append_tail_record(before.bytes, Len(texts[i]), texts[i])
             IN [bytes |-> record.bytes, at |-> Append(before.at, record.at)]
      done == placed[Len(texts)]
      padded == pad_to(done.bytes, 4)
      entries[i \in 0 .. Len(texts)] == IF i = 0 THEN <<>> ELSE entries[i - 1] \o Le32(done.at[i])
  IN PushAtom([c EXCEPT !.pool = padded \o Le32(Len(texts)) \o entries[Len(texts)]], K(Len(padded)), "ListString")

(* A table of integers by their keys, which are in order.  The hash of the *)
(* keys, which nothing here reads, is left zero.                           *)
BytesBelow(a, b) ==
  \/ \E k \in DOMAIN a \cap DOMAIN b : a[k] < b[k] /\ SubSeq(a, 1, k - 1) = SubSeq(b, 1, k - 1)
  \/ Len(a) < Len(b) /\ SubSeq(b, 1, Len(a)) = a

visit_const_dict(c, entries) ==
  LET sorted == SortSeq(entries, LAMBDA x, y : BytesBelow(x.key, y.key))
      n == Len(sorted)
      table[i \in 0 .. n] ==
        IF i = 0 THEN [bytes |-> <<>>, keys |-> <<>>]
        ELSE LET before == table[i - 1]
                 key == sorted[i].key
             IN [bytes |-> before.bytes \o Le32(16 + 16 * n + Len(before.keys)) \o Le32(Len(key)) \o Le(8, sorted[i].value),
                 keys |-> before.keys \o key]
      bytes == Le32(n) \o [k \in 1 .. 12 |-> 0] \o table[n].bytes \o table[n].keys
  IN PushAtom(ConstAt(c, 8, bytes), K(Len(pad_to(c.pool, 8))), "Dict")

-----------------------------------------------------------------------------
(* The names a closure may capture (closure.rs), the first mention first.  *)
(* Only some forms are searched: what an f-string, a comprehension or a    *)
(* match mentions is not found, and the closure is then declined.  The     *)
(* parameters of a closure inside are taken for names of the outside.      *)
RECURSIVE collect_free_vars(_), FreeIn(_)
FreeIn(es) == IF es = <<>> THEN <<>> ELSE collect_free_vars(Head(es)) \o FreeIn(Tail(es))

collect_free_vars(e) ==
  CASE e.e = "Variable" -> <<e.head>>
    [] e.e = "Reference" -> <<e.name>>
    [] e.e = "VariantCall" -> FreeIn(e.args)
    [] e.e = "Binary" -> FreeIn(<<e.lhs, e.rhs>>)
    [] e.e = "Unary" -> collect_free_vars(e.inner)
    [] e.e = "Ternary" -> FreeIn(<<e.cond, e.then, e.els>>)
    [] e.e = "List" -> FreeIn(e.items)
    [] e.e = "Dict" -> FreeIn([k \in DOMAIN e.pairs |-> e.pairs[k].value])
    [] e.e = "Where" -> FreeIn([k \in DOMAIN e.bindings |-> e.bindings[k].value] \o <<e.body>>)
    [] e.e = "Call" -> <<e.name>> \o FreeIn(e.args)
    [] e.e = "Method" -> (IF e.receiver.e = "Variable" THEN <<e.receiver.head>> ELSE <<>>) \o FreeIn(e.args)
    [] e.e = "Closure" -> collect_free_vars(e.body)
    [] OTHER -> <<>>

RECURSIVE OnceEach(_)
OnceEach(names) ==
  IF names = <<>> THEN <<>>
  ELSE <<Head(names)>> \o OnceEach(SelectSeq(Tail(names), LAMBDA x : x # Head(names)))

(* The captures of 8 bytes come first; the whole is a multiple of 8. *)
layout_captures(tys) ==
  LET wide == {i \in DOMAIN tys : wasm_slot(tys[i]) # "I32"}
      before(s, i) == Cardinality({j \in s : j < i})
      narrow == DOMAIN tys \ wide
      offset(i) == IF i \in wide THEN 8 * before(wide, i) ELSE 8 * Cardinality(wide) + 4 * before(narrow, i)
  IN [offsets |-> [i \in DOMAIN tys |-> offset(i)],
      size |-> AlignUp(8 * Cardinality(wide) + 4 * Cardinality(narrow), 8)]
=============================================================================
