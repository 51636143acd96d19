----------------------------- MODULE LowerInfer -----------------------------
(***************************************************************************)
(* What the lowering concludes from the shape of an expression, before it  *)
(* lowers it (relon-ir/src/lowering: stdlib_call.rs, expr_ops.rs,          *)
(* return_shape.rs): the types of a closure's parameters and result where  *)
(* nothing is annotated, and the forms of a #main that return their result *)
(* where it lies.  "" stands for no conclusion.                            *)
(***************************************************************************)
EXTENDS LowerCtx

(* The parts of an expression that the searches below look into. *)
Operands(e) ==
  CASE e.e = "Binary" -> <<e.lhs, e.rhs>>
    [] e.e = "Unary" -> <<e.inner>>
    [] e.e = "Ternary" -> <<e.cond, e.then, e.els>>
    [] e.e = "List" -> e.items
    [] e.e \in {"Call", "Method", "VariantCall"} -> e.args
    [] OTHER -> <<>>

operator_yields_bool(op) == op \in {"Eq", "Ne", "Lt", "Gt", "Le", "Ge", "And", "Or"}

expr_is_bare_named(e, name) == e.e = "Variable" /\ e.head = name /\ e.path = <<>>

RECURSIVE expr_contains_float_literal(_)
expr_contains_float_literal(e) ==
  e.e = "Float" \/ \E k \in DOMAIN Operands(e) : expr_contains_float_literal(Operands(e)[k])

RECURSIVE param_is_bare_arith_operand(_, _)
param_is_bare_arith_operand(name, e) ==
  \/ /\ e.e = "Binary" /\ ~operator_yields_bool(e.op)
     /\ expr_is_bare_named(e.lhs, name) \/ expr_is_bare_named(e.rhs, name)
  \/ e.e = "Unary" /\ e.op # "Not" /\ expr_is_bare_named(e.inner, name)
  \/ \E k \in DOMAIN Operands(e) : param_is_bare_arith_operand(name, Operands(e)[k])

(* Indexed, measured or filtered, or the receiver of a method of lists. *)
RECURSIVE closure_param_used_as_list_int(_, _)
closure_param_used_as_list_int(name, e) ==
  \/ e.e = "Variable" /\ e.head = name /\ Len(e.path) = 1 /\ e.path[1].seg = "dynamic"
  \/ /\ e.e = "Call" /\ e.name \in {"_len", "len", "_list_filter"}
     /\ e.args # <<>> /\ expr_is_bare_named(e.args[1], name)
  \/ /\ e.e = "Method" /\ e.name \in {"reduce", "sum", "map", "fold", "filter", "length", "max"}
     /\ expr_is_bare_named(e.receiver, name)
  \/ e.e # "List" /\ \E k \in DOMAIN Operands(e) : closure_param_used_as_list_int(name, Operands(e)[k])

closure_param_used_as_list_float(name, e) ==
  closure_param_used_as_list_int(name, e) /\ expr_contains_float_literal(e)

closure_param_used_as_float(name, e) ==
  expr_contains_float_literal(e) /\ param_is_bare_arith_operand(name, e)

-----------------------------------------------------------------------------
(* The signature of the closure that a name is bound to, or <<>>. *)
SigOf(name, c) ==
  LET b == c.lets[Latest(LetsNamed(c, name))]
  IN IF LetsNamed(c, name) # {} /\ b.ty = "Closure" /\ b.idx \in DOMAIN c.sigs THEN <<c.sigs[b.idx]>> ELSE <<>>

FirstKnown(types) ==
  LET known == {k \in DOMAIN types : types[k] # ""}
  IN IF known = {} THEN "" ELSE types[CHOOSE k \in known : \A j \in known : k <= j]

(* The type that a parameter has where it is handed on to a closure. *)
RECURSIVE infer_param_from_sibling_call(_, _, _)
infer_param_from_sibling_call(name, e, c) ==
  LET sig == IF e.e = "Call" THEN SigOf(e.name, c) ELSE <<>>
      handed(k) == sig # <<>> /\ k \in DOMAIN sig[1].params /\ expr_is_bare_named(e.args[k], name)
      here == IF e.e = "Call" THEN [k \in DOMAIN e.args |-> IF handed(k) THEN sig[1].params[k] ELSE ""] ELSE <<>>
  IN FirstKnown(here \o [k \in DOMAIN Operands(e) |-> infer_param_from_sibling_call(name, Operands(e)[k], c)])

scalar_of(ty) == IF ty \in {"I64", "F64"} THEN ty ELSE ""

Joint(a, b) == CASE "F64" \in {a, b} -> "F64" [] a = "I64" /\ b = "I64" -> "I64" [] OTHER -> ""

(* A let of the surroundings comes before a parameter of the same name. *)
RECURSIVE infer_scalar_expr_ir_ty(_, _, _, _)
infer_scalar_expr_ir_ty(e, irts, params, c) ==
  LET named == IF e.e = "Variable" THEN {k \in DOMAIN params : params[k].name = e.head} ELSE {}
      irt == irts[CHOOSE k \in named : \A j \in named : k <= j]
      of(x) == infer_scalar_expr_ir_ty(x, irts, params, c)
  IN CASE e.e = "Float" -> "F64"
       [] e.e = "Int" -> "I64"
       [] e.e = "Variable" ->
            CASE e.path = <<>> /\ LetsNamed(c, e.head) # {} -> scalar_of(c.lets[Latest(LetsNamed(c, e.head))].ty)
              [] e.path = <<>> /\ LetsNamed(c, e.head) = {} -> IF named = {} THEN "" ELSE scalar_of(irt)
              [] Len(e.path) = 1 /\ e.path[1].seg = "dynamic" /\ named # {} ->
                   (CASE irt = "ListFloat" -> "F64" [] irt = "ListInt" -> "I64" [] OTHER -> "")
              [] OTHER -> ""
       [] e.e = "Call" -> IF SigOf(e.name, c) = <<>> THEN "" ELSE scalar_of(SigOf(e.name, c)[1].ret)
       [] e.e = "Binary" -> IF operator_yields_bool(e.op) THEN "Bool" ELSE Joint(of(e.lhs), of(e.rhs))
       [] e.e = "Ternary" -> Joint(of(e.then), of(e.els))
       [] OTHER -> ""

RECURSIVE infer_closure_body_ret_ty(_)
infer_closure_body_ret_ty(e) ==
  CASE e.e = "Bool" \/ (e.e = "Binary" /\ operator_yields_bool(e.op)) \/ (e.e = "Unary" /\ e.op = "Not") -> "Bool"
    [] e.e = "Ternary" ->
         IF "Bool" \in {infer_closure_body_ret_ty(e.then), infer_closure_body_ret_ty(e.els)} THEN "Bool" ELSE "I64"
    [] OTHER -> "I64"

infer_closure_body_ret_ty_ctx(e, irts, params, c) ==
  CASE e.e = "List" ->
         IF e.items # <<>> /\ infer_scalar_expr_ir_ty(e.items[1], irts, params, c) = "F64" THEN "ListFloat" ELSE "ListInt"
    [] e.e # "List" /\ infer_scalar_expr_ir_ty(e, irts, params, c) = "F64" -> "F64"
    [] OTHER -> infer_closure_body_ret_ty(e)

(* The parameters and the result of a closure that a `where' binds. *)
WhereParamType(p, e, c) ==
  CASE p.ty # "" -> p.ty
    [] p.ty = "" /\ infer_param_from_sibling_call(p.name, e.body, c) # "" ->
         infer_param_from_sibling_call(p.name, e.body, c)
    [] OTHER ->
         CASE closure_param_used_as_list_float(p.name, e.body) -> "ListFloat"
           [] ~closure_param_used_as_list_float(p.name, e.body) /\ closure_param_used_as_list_int(p.name, e.body) -> "ListInt"
           [] OTHER -> IF closure_param_used_as_float(p.name, e.body) THEN "F64" ELSE "I64"

WhereSig(e, c) ==
  LET irts == [k \in DOMAIN e.params |-> WhereParamType(e.params[k], e, c)]
  IN Sig(irts, IF e.ret # "" THEN e.ret ELSE infer_closure_body_ret_ty_ctx(e.body, irts, e.params, c), {})

-----------------------------------------------------------------------------
(* A field of an anonymous dictionary that is a closure: a concatenation   *)
(* of string literals and parameters makes its parameters strings.         *)
RECURSIVE ConcatLeaves(_)
ConcatLeaves(e) == IF e.e = "Binary" /\ e.op = "Add" THEN ConcatLeaves(e.lhs) \o ConcatLeaves(e.rhs) ELSE <<e>>

is_string_concat_body(e, params) ==
  LET leaves == ConcatLeaves(e)
      ok(x) == x.e = "String" \/ \E k \in DOMAIN params : expr_is_bare_named(x, params[k].name)
  IN (\A k \in DOMAIN leaves : ok(leaves[k])) /\ \E k \in DOMAIN leaves : leaves[k].e = "String"

string_concat_uses_param(e, name) ==
  \E k \in DOMAIN ConcatLeaves(e) : expr_is_bare_named(ConcatLeaves(e)[k], name)

plan_anon_dict_closure_sig(e) ==
  LET concat == is_string_concat_body(e.body, e.params)
      coerced(k) == concat /\ e.params[k].ty = "" /\ string_concat_uses_param(e.body, e.params[k].name)
      irt(k) == CASE coerced(k) -> "String" [] ~coerced(k) /\ e.params[k].ty # "" -> e.params[k].ty [] OTHER -> "I64"
      ret == CASE e.ret # "" -> e.ret [] e.ret = "" /\ concat -> "String" [] OTHER -> "I64"
  IN Sig([k \in DOMAIN e.params |-> irt(k)], ret, {k \in DOMAIN e.params : coerced(k)})

-----------------------------------------------------------------------------
(* Lists that are taken for lists of floats. *)
RECURSIVE expr_looks_float_valued(_)
expr_looks_float_valued(e) ==
  CASE e.e = "Float" -> TRUE
    [] e.e = "Binary" ->
         ~operator_yields_bool(e.op) /\ (expr_looks_float_valued(e.lhs) \/ expr_looks_float_valued(e.rhs))
    [] e.e = "Unary" -> expr_looks_float_valued(e.inner)
    [] e.e = "Ternary" -> expr_looks_float_valued(e.then) \/ expr_looks_float_valued(e.els)
    [] OTHER -> FALSE

list_is_float_shaped(items) ==
  (\E k \in DOMAIN items : items[k].e = "Float") \/ expr_looks_float_valued(items[1])

-----------------------------------------------------------------------------
(* Ranges that are consumed without becoming a list (peephole.rs). *)
IsCallTo(e, names, n) == e.e = "Call" /\ e.name \in names /\ Len(e.args) = n

IsClosureOf(e, n) == e.e = "Closure" /\ Len(e.params) = n

match_bare_range(e) == e.e = "Call" /\ e.name = "range" /\ Len(e.args) \in 1 .. 2

(* The range an expression starts from and the stages behind it, or <<>>. *)
RECURSIVE match_range_chain(_)
match_range_chain(e) ==
  LET staged == e.e = "Method" /\ e.name \in {"map", "filter"} /\ Len(e.args) = 1
      from == IF staged THEN match_range_chain(e.receiver) ELSE <<>>
      f == e.args[1]
  IN CASE match_bare_range(e) -> <<[args |-> e.args, stages |-> <<>>]>>
       [] staged /\ from # <<>> ->
            IF IsClosureOf(f, 1)
            THEN <<[from[1] EXCEPT !.stages = Append(@, [method |-> e.name, param |-> f.params[1].name, body |-> f.body])]>>
            ELSE <<>>
       [] OTHER -> <<>>

(* A range that one closure maps. *)
match_materializable_outer_map(e) ==
  LET chain == match_range_chain(e)
  IN chain # <<>> /\ Len(chain[1].stages) = 1 /\ chain[1].stages[1].method = "map"

match_nested_range_map(e) ==
  match_materializable_outer_map(e) /\ match_materializable_outer_map(match_range_chain(e)[1].stages[1].body)

match_row_fold(e, row) ==
  \/ IsCallTo(e, {"list.sum"}, 1) /\ expr_is_bare_named(e.args[1], row)
  \/ /\ e.e = "Method" /\ e.name = "reduce" /\ Len(e.args) = 2
     /\ expr_is_bare_named(e.receiver, row) /\ IsClosureOf(e.args[2], 2)

(* The accumulator, an operator and a fold of the row, in either order. *)
match_outer_combine(e, acc, row) ==
  /\ e.e = "Binary"
  /\ IF expr_is_bare_named(e.lhs, acc) THEN match_row_fold(e.rhs, row)
     ELSE expr_is_bare_named(e.rhs, acc) /\ match_row_fold(e.lhs, row)

-----------------------------------------------------------------------------
(* Results that are returned where they lie (return_shape.rs). *)
RECURSIVE cross_region_list_element_ok(_), list_schema_subrecord_in_s4_scope(_)
cross_region_list_element_ok(t) ==
  CASE t.k \in {"String", "Int", "Float", "Bool", "Variant"} -> TRUE
    [] t.k = "Schema" -> list_schema_subrecord_in_s4_scope(t)
    [] t.k = "List" -> cross_region_list_element_ok(t.element)
    [] OTHER -> FALSE

list_schema_subrecord_in_s4_scope(element) ==
  \A k \in DOMAIN element.fields :
    LET t == element.fields[k]
    IN t.k \in {"Int", "Float", "Bool", "Unit", "String"} \/ (t.k = "List" /\ cross_region_list_element_ok(t.element))

cross_region_list_envelope(t) == t.k = "List" /\ cross_region_list_element_ok(t.element)

(* The list at the end of a chain of fields, or Unit. *)
RECURSIVE cross_region_param_field_chain(_, _)
cross_region_param_field_chain(t, path) ==
  LET found == IF t.k = "Schema" /\ path[1].seg = "key" THEN {i \in DOMAIN t.names : t.names[i] = path[1].name} ELSE {}
      field == t.fields[CHOOSE i \in found : TRUE]
  IN CASE found = {} -> UnitT
       [] found # {} /\ Len(path) = 1 -> IF cross_region_list_envelope(field) THEN field ELSE UnitT
       [] OTHER -> cross_region_param_field_chain(field, Tail(path))

pointer_array_param_identity_walk(e) == e.e = "Variable" /\ e.path = <<>>

pointer_array_param_field_walk(e, params) ==
  /\ e.e = "Variable" /\ e.path # <<>>
  /\ \E k \in DOMAIN params :
       params[k].name = e.head /\ cross_region_param_field_chain(params[k].repr, e.path).k = "List"

string_result_list_hof_call(e) ==
  \/ e.e = "Comprehension"
  \/ e.e = "Call" /\ e.name \in {"_list_map", "_list_filter"}
  \/ e.e = "Method" /\ e.name \in {"map", "filter"}

string_split_call(e) == e.e \in {"Call", "Method"} /\ e.name = "split"

variant_record_list_inplace_expr_for_type(t, e) ==
  t.element.k = "Variant" /\ (e.e = "List" \/ string_result_list_hof_call(e))

IsReturnedInPlace(t, e, params) ==
  LET ty == type_repr_to_ir_type(t)
  IN \/ /\ pointer_array_param_identity_walk(e) \/ pointer_array_param_field_walk(e, params)
        /\ \/ ty \in {"ListList", "ListString"}
           \/ ty = "ListSchema" /\ list_schema_subrecord_in_s4_scope(t.element)
     \/ ty = "ListString" /\ (string_result_list_hof_call(e) \/ string_split_call(e))
     \/ ty = "ListList" /\ variant_record_list_inplace_expr_for_type(t, e)

pointer_array_list_source_is_const_pool(e) ==
  e.e = "List" /\ e.items # <<>> /\ \A k \in DOMAIN e.items : e.items[k].e = "String"

-----------------------------------------------------------------------------
(* Names that stand for records (dict_record.rs, stdlib_call.rs). *)

(* A let before a parameter.  A let knows the schema it points at only if  *)
(* that has a declaration; Unit stands for none.                           *)
HeadSchema(name, c) ==
  LET b == c.lets[Latest(LetsNamed(c, name))]
      p == c.params[CHOOSE k \in ParamsNamed(c, name) : TRUE]
  IN CASE LetsNamed(c, name) # {} -> IF b.repr.k = "Schema" /\ IsDeclared(b.repr) THEN b.repr ELSE UnitT
       [] LetsNamed(c, name) = {} /\ ParamsNamed(c, name) # {} -> IF p.repr.k = "Schema" THEN p.repr ELSE UnitT
       [] OTHER -> UnitT

RECURSIVE SchemaAlong(_, _)
SchemaAlong(t, path) ==
  LET found == IF t.k = "Schema" /\ Head(path).seg = "key" THEN {i \in DOMAIN t.fields : NamesOf(t)[i] = Head(path).name} ELSE {}
      field == t.fields[CHOOSE i \in found : TRUE]
  IN CASE path = <<>> -> t
       [] path # <<>> /\ found # {} -> SchemaAlong(IF field.k = "Schema" THEN field ELSE UnitT, Tail(path))
       [] OTHER -> UnitT

spread_source_schema(e, c) == IF e.e = "Variable" THEN SchemaAlong(HeadSchema(e.head, c), e.path) ELSE UnitT

resolve_receiver_schema_brand(e, c) ==
  LET t == SchemaAlong(HeadSchema(e.head, c), e.path)
  IN IF t.k = "Schema" THEN BrandOf(t) ELSE ""

(* The pairs of a literal, a spread replaced by a pair for each field that *)
(* the target has too.                                                     *)
synthesize_field_access(e, name) == VariableE(e.head, Append(e.path, Key(name)))

RECURSIVE SpreadPairs(_, _, _)
SpreadPairs(pairs, t, c) ==
  LET source == spread_source_schema(Head(pairs).value, c)
      shared == SelectSeq(source.names, LAMBDA name : \E i \in DOMAIN t.names : t.names[i] = name)
      accesses == [k \in DOMAIN shared |-> Pair(shared[k], synthesize_field_access(Head(pairs).value, shared[k]))]
  IN CASE pairs = <<>> -> <<>>
       [] pairs # <<>> /\ Head(pairs).key # "..." -> <<Head(pairs)>> \o SpreadPairs(Tail(pairs), t, c)
       [] OTHER -> IF source.k = "Schema" THEN accesses \o SpreadPairs(Tail(pairs), t, c) ELSE <<Pair("...", IntE(0))>>

(* Every pair is a field of the record, and none is given twice. *)
IsRecordOf(pairs, t) ==
  /\ \A k \in DOMAIN pairs : \E i \in DOMAIN t.names : t.names[i] = pairs[k].key
  /\ \A j, k \in DOMAIN pairs : pairs[j].key = pairs[k].key => j = k

GivenFor(pairs, name) == {k \in DOMAIN pairs : pairs[k].key = name}

-----------------------------------------------------------------------------
(* The order of the fields of a declared schema (canonical.rs): a field    *)
(* that is not given comes behind those its default mentions.              *)
RECURSIVE collect_field_refs(_)
collect_field_refs(e) ==
  LET all(es) == UNION {collect_field_refs(es[k]) : k \in DOMAIN es}
      values(pairs) == [k \in DOMAIN pairs |-> pairs[k].value]
  IN CASE e.e = "Variable" -> {e.head}
       [] e.e = "Reference" -> {e.name}
       [] e.e = "Dict" -> all(values(e.pairs))
       [] e.e = "Where" -> all(Append(values(e.bindings), e.body))
       [] e.e = "VariantCall" -> all(e.args)
       [] OTHER -> all(Operands(e))

check_field_default_refs_resolvable(t, i) == collect_field_refs(t.rules[i][1]) \subseteq {t.names[k] : k \in DOMAIN t.names}

RECURSIVE Kahn(_, _, _)
Kahn(ready, order, needs) ==
  LET i == Head(ready)
      freed == {j \in DOMAIN needs : i \in needs[j] /\ needs[j] \subseteq {order[k] : k \in DOMAIN order} \cup {i}}
      next == SelectSeq([k \in DOMAIN needs |-> k], LAMBDA j : j \in freed)
  IN IF ready = <<>> THEN order ELSE Kahn(Tail(ready) \o next, Append(order, i), needs)

(* <<>> if there is none: a field is missing, or its default fails. *)
topo_order_fields(t, given) ==
  LET defaulted == {i \in DOMAIN t.names : t.names[i] \notin given}
      needs == [i \in DOMAIN t.names |->
                  IF i \in defaulted THEN {k \in DOMAIN t.names : t.names[k] \in collect_field_refs(t.rules[i][1])} ELSE {}]
      first == SelectSeq([i \in DOMAIN t.names |-> i], LAMBDA i : needs[i] = {})
      order == Kahn(first, <<>>, needs)
  IN CASE \E i \in defaulted : t.rules[i] = <<>> -> <<>>
       [] \A i \in defaulted : t.rules[i] # <<>> /\ check_field_default_refs_resolvable(t, i) ->
            IF Len(order) = Len(t.names) THEN order ELSE <<>>
       [] OTHER -> <<>>

(* A list of the arguments that a field of the result points at. *)
branded_field_cross_region_param_list(t, e, c) ==
  LET params == ParamsNamed(c, e.head)
      p == c.params[CHOOSE k \in params : TRUE]
      ty == type_repr_to_ir_type(t)
  IN /\ cross_region_list_envelope(t) /\ e.e = "Variable" /\ params # {}
     /\ IF e.path = <<>> THEN p.ty = ty
        ELSE LET leaf == cross_region_param_field_chain(p.repr, e.path)
             IN leaf.k = "List" /\ type_repr_to_ir_type(leaf) = ty

-----------------------------------------------------------------------------
(* Patterns (enum_match.rs). *)
is_definite_scalar(ty) == ty \in {"I64", "F64", "Bool", "String", "Unit"}

is_builtin_type_name(name) ==
  name \in {"Int", "Float", "Number", "String", "Bool", "Any", "List", "Dict", "Closure", "Fn", "Tuple"}

static_type_pattern_decision(ty, brand, name) ==
  LET exact == [Int |-> "I64", Float |-> "F64", Bool |-> "Bool", String |-> "String"]
  IN CASE brand # "" -> (CASE name = brand -> "matches" [] name # brand /\ ~is_builtin_type_name(name) -> "never" [] OTHER -> "undecidable")
       [] brand = "" /\ name \in DOMAIN exact ->
            (CASE exact[name] = ty -> "matches" [] exact[name] # ty /\ is_definite_scalar(ty) -> "never" [] OTHER -> "undecidable")
       [] brand = "" /\ ~is_builtin_type_name(name) /\ is_definite_scalar(ty) -> "never"
       [] OTHER -> "undecidable"

static_arm_decision(ty, brand, pattern) ==
  CASE pattern.p = "any" -> "matches"
    [] pattern.p = "type" -> static_type_pattern_decision(ty, brand, pattern.name)
    [] pattern.p = "variant" -> "undecidable"

(* The type of a name that holds a variant, or Unit: here a parameter      *)
(* comes before a let.                                                     *)
enum_scrutinee_binding(e, c) ==
  LET p == c.params[CHOOSE k \in ParamsNamed(c, e.head) : TRUE]
      b == c.lets[Latest(LetsNamed(c, e.head))]
      of(t) == IF t.k = "Variant" THEN t ELSE UnitT
  IN CASE e.e # "Variable" -> UnitT
       [] e.e = "Variable" /\ (e.path # <<>> \/ (ParamsNamed(c, e.head) = {} /\ LetsNamed(c, e.head) = {})) -> UnitT
       [] OTHER -> IF ParamsNamed(c, e.head) # {} THEN of(p.repr) ELSE of(b.repr)

matched_enum_variant(t, pattern) == pattern.p = "variant" /\ pattern.of.name = t.name

enum_pattern_binding_field_name(of, tag, bindings, k) ==
  CASE bindings[k].field # "" -> bindings[k].field
    [] bindings[k].field = "" /\ of.labels # <<>> -> of.labels[tag + 1]
    [] OTHER -> ToString(k - 1)

(* The type of a field of a payload, or Unit. *)
enum_payload_field_type(of, tag, name) ==
  LET t == PayloadOf(of, tag)
      found == {i \in DOMAIN t.fields : NamesOf(t)[i] = name}
  IN IF found = {} THEN UnitT ELSE t.fields[CHOOSE i \in found : TRUE]

-----------------------------------------------------------------------------
(* A #main -> Dict whose body is a dictionary literal (anon_dict.rs): the  *)
(* record of its result has the fields that are not #internal.             *)
desugar_field_decorators(pair) ==
  LET n == Len(pair.decorators)
      called[k \in 0 .. n] ==
        IF k = 0 THEN pair.value
        ELSE LET d == pair.decorators[n + 1 - k] IN CallE(d.name, <<called[k - 1]>> \o d.args)
  IN [pair EXCEPT !.value = called[n], !.decorators = <<>>]

desugar_anon_dict_decorators(pairs) == [k \in DOMAIN pairs |-> desugar_field_decorators(pairs[k])] \o <<>>

RECURSIVE collect_anon_dict_ref_edges(_, _)
collect_anon_dict_ref_edges(e, pairs) ==
  LET named == {k \in DOMAIN pairs : pairs[k].key = e.name}
  IN IF e.e = "Reference" THEN {k \in named : \A j \in named : k <= j}
     ELSE UNION {collect_anon_dict_ref_edges(Operands(e)[k], pairs) : k \in DOMAIN Operands(e)}

RECURSIVE expr_reads_main_param(_, _)
expr_reads_main_param(e, c) ==
  IF e.e = "Variable" THEN ParamsNamed(c, e.head) # {}
  ELSE \E k \in DOMAIN Operands(e) : expr_reads_main_param(Operands(e)[k], c)

(* The fields that references connect, in either direction. *)
RECURSIVE anon_dict_ref_components(_, _)
anon_dict_ref_components(fields, refs) ==
  LET more == fields \cup UNION {refs[i] : i \in fields} \cup {i \in DOMAIN refs : refs[i] \cap fields # {}}
  IN IF more = fields THEN fields ELSE anon_dict_ref_components(more, refs)

(* The field that is written first comes first, as soon as those it refers *)
(* to are there.                                                           *)
RECURSIVE FirstReady(_, _)
FirstReady(order, refs) ==
  LET done == {order[k] : k \in DOMAIN order}
      ready == {i \in DOMAIN refs \ done : refs[i] \subseteq done}
  IN IF ready = {} THEN order ELSE FirstReady(Append(order, CHOOSE i \in ready : \A j \in ready : i <= j), refs)

(* <<>> if there is no order that the tree-walking evaluator agrees with.  *)
EmitOrder(pairs, refs, order, c) ==
  LET reads(i) == \E k \in anon_dict_ref_components({i}, refs) : expr_reads_main_param(pairs[k].value, c)
      ahead == \E i \in DOMAIN refs : \E j \in refs[i] : j > i /\ refs[j] # {} /\ reads(i)
  IN IF ahead \/ Len(order) # Len(pairs) THEN <<>> ELSE order

OrderFor(pairs, refs, c) == EmitOrder(pairs, refs, FirstReady(<<>>, refs), c)

anon_dict_emit_order(pairs, c) ==
  OrderFor(pairs, [i \in DOMAIN pairs |-> collect_anon_dict_ref_edges(pairs[i].value, pairs)], c)

(* The type of a field from the form of its value.  The fields already     *)
(* planned are known; "" stands for no conclusion.                         *)
RECURSIVE classify_anon_dict_scalar_field_irt(_, _, _)
classify_anon_dict_scalar_field_irt(e, plan, c) ==
  LET of(x) == classify_anon_dict_scalar_field_irt(x, plan, c)
      params == ParamsNamed(c, e.head)
      p == c.params[CHOOSE k \in params : TRUE]
      tys == {of(e.lhs), of(e.rhs)}
      literal == [Int |-> "I64", Float |-> "F64", Bool |-> "Bool", String |-> "String"]
  IN CASE e.e \in DOMAIN literal -> literal[e.e]
       [] e.e = "Reference" -> IF e.name \in DOMAIN plan.irts THEN plan.irts[e.name] ELSE ""
       [] e.e = "Variable" ->
            IF e.path = <<>> THEN IF params = {} THEN "" ELSE IF p.repr.k = "Schema" THEN "" ELSE p.ty
            ELSE IF Len(e.path) = 1 /\ e.path[1].seg = "dynamic" /\ e.head \in plan.dicts THEN "I64" ELSE ""
       [] e.e = "Call" ->
            IF e.name \in DOMAIN plan.rets THEN plan.rets[e.name] ELSE IF e.name = "list.sum" THEN "I64" ELSE ""
       [] e.e = "Binary" ->
            IF tys \in {{"I64"}, {"Bool"}, {"String"}} THEN of(e.lhs)
            ELSE IF tys \in {{"F64"}, {"I64", "F64"}} THEN "F64" ELSE ""
       [] OTHER -> ""

ir_type_to_type_repr(ty) ==
  LET reprs == [I64 |-> IntT, F64 |-> FloatT, Bool |-> BoolT, String |-> StringT, Unit |-> UnitT, ListInt |-> ListOf(IntT),
                ListFloat |-> ListOf(FloatT), ListBool |-> ListOf(BoolT), ListString |-> ListOf(StringT)]
  IN IF ty \in DOMAIN reprs THEN <<reprs[ty]>> ELSE <<>>

classify_anon_dict_str_int_field(pairs) == \A k \in DOMAIN pairs : pairs[k].value.e = "Int" /\ pairs[k].key # "..."

classify_anon_dict_list_string_field(items) == \A k \in DOMAIN items : items[k].e = "String"

(* The type of a payload that is a literal or a parameter. *)
variant_payload_scalar_ty(e, c) ==
  LET ty == classify_anon_dict_scalar_field_irt(e, [irts |-> <<>>, dicts |-> {}, rets |-> <<>>], c)
  IN IF e.e \in {"Int", "Float", "Bool", "String", "Variable"} /\ ty \in {"I64", "F64", "Bool", "String"}
     THEN ir_type_to_type_repr(ty) ELSE <<>>

(* A list of Options or Results: every payload that occurs has one type.   *)
classify_anon_dict_variant_list_field(items, c) ==
  LET name == items[1].of.name
      ctors == \A k \in DOMAIN items : items[k].e = "VariantCtor" /\ items[k].of.name = name
      types(tag) == {variant_payload_scalar_ty(items[k].pairs[1].value, c) : k \in {j \in DOMAIN items : items[j].tag = tag}}
      of(tag) == (CHOOSE t \in types(tag) : TRUE)[1]
      one(tag) == Cardinality(types(tag)) = 1 /\ <<>> \notin types(tag)
  IN CASE ~ctors -> <<>>
       [] ctors /\ name = "Option" -> IF one(1) THEN <<ListOf(OptionOf(of(1)))>> ELSE <<>>
       [] ctors /\ name = "Result" -> IF one(0) /\ one(1) THEN <<ListOf(ResultOf(of(0), of(1)))>> ELSE <<>>

classify_anon_dict_enum_list_field(items) ==
  LET t == items[1].of
  IN IF \A k \in DOMAIN items : items[k].e \in {"VariantCtor", "VariantCall", "VariantName"} /\ items[k].of.name = t.name
     THEN <<ListOf(t)>> ELSE <<>>

classify_anon_dict_list_field(items, c) ==
  LET element == [Int |-> IntT, Float |-> FloatT, Bool |-> BoolT, String |-> StringT]
      variants == items[1].e \in {"VariantCtor", "VariantCall", "VariantName"}
  IN CASE items = <<>> -> <<>>
       [] items # <<>> /\ variants ->
            IF items[1].of.name \in {"Option", "Result"} THEN classify_anon_dict_variant_list_field(items, c)
            ELSE classify_anon_dict_enum_list_field(items)
       [] OTHER ->
            IF items[1].e \in DOMAIN element /\ \A k \in DOMAIN items : items[k].e = items[1].e
            THEN <<ListOf(element[items[1].e])>> ELSE <<>>

(* A list of the arguments, which the field will point at. *)
anon_dict_cross_region_param_list(e, c) ==
  LET params == ParamsNamed(c, e.head)
      t == c.params[CHOOSE k \in params : TRUE].repr
      leaf == IF e.path = <<>> THEN t ELSE cross_region_param_field_chain(t, e.path)
  IN IF e.e = "Variable" /\ (\A k \in DOMAIN e.path : e.path[k].seg = "key") /\ params # {}
     THEN IF cross_region_list_envelope(leaf) THEN <<leaf>> ELSE <<>>
     ELSE <<>>

(* What becomes of a field: a closure, a table or a list of strings is a   *)
(* let only; "none" declines the program.                                  *)
AnonDictField(kind, pair, t) == [kind |-> kind, name |-> pair.key, value |-> pair.value, t |-> t]

classify_anon_dict_field(pair, plan, c) ==
  LET e == pair.value
      ty == classify_anon_dict_scalar_field_irt(e, plan, c)
      listed == classify_anon_dict_list_field(e.items, c)
      typed(ts) == IF ts = <<>> THEN AnonDictField("none", pair, UnitT) ELSE AnonDictField("scalar", pair, ts[1])
      only(kind, ok) == AnonDictField(IF pair.internal /\ ok THEN kind ELSE "none", pair, UnitT)
  IN CASE pair.key = "..." -> AnonDictField("none", pair, UnitT)
       [] pair.key # "..." /\ e.e = "Closure" -> only("closure", TRUE)
       [] pair.key # "..." /\ e.e = "Dict" -> only("dict", classify_anon_dict_str_int_field(e.pairs))
       [] pair.key # "..." /\ e.e = "List" ->
            IF pair.internal THEN only("strings", classify_anon_dict_list_string_field(e.items)) ELSE typed(listed)
       [] OTHER ->
            CASE pair.internal -> AnonDictField("skipped", pair, UnitT)
              [] ~pair.internal /\ anon_dict_cross_region_param_list(e, c) # <<>> ->
                   AnonDictField("cross", pair, anon_dict_cross_region_param_list(e, c)[1])
              [] OTHER -> typed(IF ty = "" THEN <<>> ELSE ir_type_to_type_repr(ty))

Planned(plan, i, f) ==
  [plan EXCEPT !.fields = With(@, i, f),
               !.rets = IF f.kind = "closure" THEN With(@, f.name, plan_anon_dict_closure_sig(f.value).ret) ELSE @,
               !.dicts = IF f.kind = "dict" THEN @ \cup {f.name} ELSE @,
               !.irts = IF f.kind = "scalar" THEN With(@, f.name, type_repr_to_ir_type(f.t)) ELSE @]

RECURSIVE PlanInOrder(_, _, _, _)
PlanInOrder(pairs, order, plan, c) ==
  IF order = <<>> THEN plan
  ELSE PlanInOrder(pairs, Tail(order), Planned(plan, Head(order), classify_anon_dict_field(pairs[Head(order)], plan, c)), c)

(* The fields in the order of their code, and the record of the result,    *)
(* whose fields are in the order they are written in.                      *)
ReturnPlan(pairs, order, fields) ==
  LET written == SelectSeq([i \in DOMAIN pairs |-> i], LAMBDA i : fields[i].kind \in {"scalar", "cross"})
      ok == Len(order) = Len(pairs) /\ \A i \in DOMAIN fields : fields[i].kind # "none"
  IN IF ok THEN [ok |-> TRUE, steps |-> [k \in DOMAIN order |-> fields[order[k]]] \o <<>>,
                 schema |-> Named([k \in DOMAIN written |-> fields[written[k]].name] \o <<>>,
                                  [k \in DOMAIN written |-> fields[written[k]].t] \o <<>>)]
     ELSE [ok |-> FALSE, steps |-> <<>>, schema |-> TupleT(<<>>)]

PlanFields(pairs, order, c) ==
  ReturnPlan(pairs, order, PlanInOrder(pairs, order, [fields |-> <<>>, rets |-> <<>>, dicts |-> {}, irts |-> <<>>], c).fields)

anon_dict_return_plan(pairs, c) == PlanFields(pairs, anon_dict_emit_order(pairs, c), c)
=============================================================================
