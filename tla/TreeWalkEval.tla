---------------------------- MODULE TreeWalkEval ----------------------------
(***************************************************************************)
(* The tree-walking evaluator on expressions (relon-evaluator/src/eval.rs, *)
(* arithmetic.rs, stdlib.rs), the reference that compiled code must agree  *)
(* with.  An evaluation ends with Ok(value) or with Err(kind); a kind is   *)
(* named for the trap a compiled body reports for the same failure.        *)
(*                                                                         *)
(* A value carries its kind.  A scope is a sequence of entries, the inner  *)
(* ones last.  An entry holds a value, or a thunk: an expression that is   *)
(* evaluated when its name is read, in the scope of the first `upto'       *)
(* entries, which holds the whole group of bindings the thunk is one of.   *)
(***************************************************************************)
EXTENDS Ast, TreeWalkText, IrCode, FiniteSets

Ok(v) == [ok |-> TRUE, v |-> v]
Err(kind) == [ok |-> FALSE, v |-> kind]

(* The operator `?': a failure is the answer of what it is a part of. *)
Then(r, F(_)) == IF r.ok THEN F(r.v) ELSE r

(* What a fault of an operation is called. *)
FaultKind(v) ==
  CASE v = Overflow -> "NumericOverflow"
    [] v = DivByZero -> "DivisionByZero"
    [] v = Wild -> "Wild"
    [] v = Aborted -> "Abort"

IntV(n) == [k |-> "Int", v |-> n]
FloatV(x) == [k |-> "Float", v |-> x]
BoolV(b) == [k |-> "Bool", v |-> Bool(b)]
StringV(s) == [k |-> "String", v |-> s]
ListV(items) == [k |-> "List", v |-> items]
TupleV(items) == [k |-> "Tuple", v |-> items]
Branded(map, brand) == [k |-> "Dict", v |-> map, brand |-> brand]
DictV(map) == Branded(map, "")
VariantV(of, tag, map) == [k |-> "Variant", v |-> [of |-> of, tag |-> tag, map |-> map]]
ClosureV(params, body, scope) == [k |-> "Closure", v |-> [params |-> params, body |-> body, scope |-> scope]]

MapOf(names, vs) ==
  [name \in {names[k] : k \in DOMAIN names} |-> vs[CHOOSE k \in DOMAIN names : names[k] = name]]

(* A value of the host, which knows its type from where it is. *)
RECURSIVE Tagged(_, _)
TaggedAll(ts, vs) == [k \in DOMAIN vs |-> Tagged(ts[k], vs[k])] \o <<>>

Tagged(t, v) ==
  CASE t.k = "List" -> ListV([k \in DOMAIN v |-> Tagged(t.element, v[k])] \o <<>>)
    [] t.k = "Schema" ->
         IF t.names = <<>> THEN TupleV(TaggedAll(t.fields, v)) ELSE Branded(MapOf(t.names, TaggedAll(t.fields, v)), BrandOf(t))
    [] t.k = "Variant" ->
         LET payload == PayloadOf(t, v.tag)
             vs == IF v.payload = <<>> \/ t.labels # <<>> THEN v.payload ELSE v.payload[1]
         IN VariantV(t.name, v.tag, MapOf(NamesOf(payload), TaggedAll(payload.fields, vs)))
    [] OTHER -> [k |-> t.k, v |-> v]

OkInt(n) == IF IsFault(n) THEN Err(FaultKind(n)) ELSE Ok(IntV(n))
OkFloat(x) == IF IsFault(x) THEN Err(FaultKind(x)) ELSE Ok(FloatV(x))
OkBool(b) == Ok(BoolV(b))

(* A scope is a sequence of frames (relon-eval-api/src/scope.rs).  A frame *)
(* has values by name, the fields of the dictionary it belongs to with     *)
(* those among them that are being evaluated, and the variable of the      *)
(* comprehension around it, which new frames inherit.                      *)
ScopeFrame(locals, iter) == [locals |-> locals, thunks |-> <<>>, forced |-> {}, iter |-> iter, is_dict |-> FALSE]

child(env, locals) == Append(env, ScopeFrame(locals, IF env = <<>> THEN <<>> ELSE env[Len(env)].iter))

LastOf(ks) == CHOOSE k \in ks : \A j \in ks : j <= k
FirstOf(ks) == CHOOSE k \in ks : \A j \in ks : k <= j

-----------------------------------------------------------------------------
(* Operators. *)
RECURSIVE DecimalDigits(_)
DecimalDigits(n) ==
  IF n < 10 THEN <<48 + n>> ELSE DecimalDigits(n \div 10) \o <<48 + (n % 10)>>

DisplayInt(n) == (IF n < 0 THEN <<45>> ELSE <<>>) \o DecimalDigits(Abs(n))

(* Display of a value; a float that is an integer has no fraction. *)
Display(v) ==
  CASE v.k = "String" -> v.v
    [] v.k = "Int" -> DisplayInt(v.v)
    [] v.k = "Float" ->
         (CASE v.v = NaN -> <<78, 97, 78>>
            [] v.v = NegZero -> <<45, 48>>
            [] OTHER -> DisplayInt(v.v))
    [] v.k = "Bool" -> IF v.v = 1 THEN <<116, 114, 117, 101>> ELSE <<102, 97, 108, 115, 101>>

RECURSIVE ValueEq(_, _)
ValueEq(a, b) ==
  CASE a.k # b.k -> FALSE
    [] a.k = "Float" -> Finite(a.v) = Finite(b.v)
    [] a.k \in {"List", "Tuple"} ->
         Len(a.v) = Len(b.v) /\ \A i \in DOMAIN a.v : ValueEq(a.v[i], b.v[i])
    [] OTHER -> a.v = b.v

IsNumber(v) == v.k \in {"Int", "Float"}

AsFloat(v) == IF v.k = "Int" THEN as_f64(v.v) ELSE v.v

ArithmeticOps == {"Add", "Sub", "Mul", "Div", "Mod"}
ComparisonOps == {"Lt", "Le", "Gt", "Ge"}

IntOp(op) ==
  CASE op = "Add" -> "add64" [] op = "Sub" -> "sub64" [] op = "Mul" -> "mul64"
    [] op = "Div" -> "div64" [] op = "Mod" -> "rem64"

FloatOpOf(op) ==
  CASE op = "Add" -> "addf" [] op = "Sub" -> "subf" [] op = "Mul" -> "mulf"
    [] op = "Div" -> "divf" [] op = "Mod" -> "remf"

(* Two integers stay integers, checked; otherwise both become floats.  The *)
(* divisor is compared with zero before that.                              *)
eval_numeric_arithmetic(op, a, b) ==
  CASE ~IsNumber(a) \/ ~IsNumber(b) -> Err("TypeMismatch")
    [] a.k = "Int" /\ b.k = "Int" -> OkInt(Binary(IntOp(op), a.v, b.v))
    [] OTHER -> OkFloat(Binary(FloatOpOf(op), AsFloat(a), AsFloat(b)))

(* Numbers are compared as floats, integers too. *)
LessThan(x, y) == NaN \notin {x, y} /\ Finite(x) < Finite(y)
SameFloat(x, y) == NaN \notin {x, y} /\ Finite(x) = Finite(y)

Compare(op, x, y) ==
  CASE op = "Lt" -> LessThan(x, y)
    [] op = "Le" -> LessThan(x, y) \/ SameFloat(x, y)
    [] op = "Gt" -> LessThan(y, x)
    [] op = "Ge" -> LessThan(y, x) \/ SameFloat(x, y)

eval_numeric_comparison(op, a, b) ==
  IF ~IsNumber(a) \/ ~IsNumber(b) THEN Err("TypeMismatch") ELSE OkBool(Compare(op, AsFloat(a), AsFloat(b)))

eval_comparison(op, a, b) ==
  CASE op = "Eq" -> OkBool(ValueEq(a, b))
    [] op = "Ne" -> OkBool(~ValueEq(a, b))
    [] OTHER -> eval_numeric_comparison(op, a, b)

eval_binary(op, a, b) ==
  CASE op = "Add" /\ "String" \in {a.k, b.k} -> Ok(StringV(Display(a) \o Display(b)))
    [] op \in {"Eq", "Ne"} \cup ComparisonOps -> eval_comparison(op, a, b)
    [] OTHER -> eval_numeric_arithmetic(op, a, b)

eval_unary(op, v) ==
  CASE op = "Not" -> OkBool(v.v = 0)
    [] op = "Sub" /\ v.k = "Int" -> OkInt(Checked(-v.v))
    [] op = "Sub" /\ v.k = "Float" -> OkFloat(Negated64(v.v))

-----------------------------------------------------------------------------
(* Sorting. *)

(* Keys in the order of compare_sort_keys: -0.0 equals 0.0, NaN is last.   *)
compare_sort_floats(x, y) ==
  CASE x = y \/ Finite(x) = Finite(y) -> 0
    [] x = NaN -> 1
    [] y = NaN -> -1
    [] OTHER -> IF Finite(x) < Finite(y) THEN -1 ELSE 1

(* The merge of two runs of indices; the left head wins a tie. *)
RECURSIVE merge_sort_runs(_, _, _, _)
merge_sort_runs(left, right, keys, desc) ==
  IF left = <<>> \/ right = <<>> THEN left \o right
  ELSE LET order == compare_sort_floats(keys[Head(left)], keys[Head(right)])
       IN IF (IF desc THEN order # -1 ELSE order # 1)
          THEN <<Head(left)>> \o merge_sort_runs(Tail(left), right, keys, desc)
          ELSE <<Head(right)>> \o merge_sort_runs(left, Tail(right), keys, desc)

(* One pass over the runs of a width. *)
RECURSIVE MergedFrom(_, _, _, _, _)
MergedFrom(idx, k, width, keys, desc) ==
  LET n == Len(idx)
  IN IF k >= n THEN <<>>
     ELSE merge_sort_runs(SubSeq(idx, k + 1, Smaller(k + width, n)),
                          SubSeq(idx, Smaller(k + width, n) + 1, Smaller(k + 2 * width, n)),
                          keys, desc)
          \o MergedFrom(idx, k + 2 * width, width, keys, desc)

RECURSIVE stable_merge_sort_indices(_, _, _, _)
stable_merge_sort_indices(idx, width, keys, desc) ==
  IF width >= Len(idx) THEN idx
  ELSE stable_merge_sort_indices(MergedFrom(idx, 0, width, keys, desc),
                                 2 * width, keys, desc)

-----------------------------------------------------------------------------
(* Library functions that call no closure; x are the values given. *)
Texts(strings) == [k \in DOMAIN strings |-> StringV(strings[k])]

IsIn(v, items) == \E k \in DOMAIN items : ValueEq(v, items[k])

AllDistinct(items) == \A j, k \in DOMAIN items : ValueEq(items[j], items[k]) => j = k

range_list(from, to) == Ok(ListV([k \in 1 .. Larger(to - from, 0) |-> IntV(from + k - 1)]))

(* The greatest or the least element; an empty list is a type mismatch. *)
extremum_list(items, greatest) ==
  IF items = <<>> THEN Err("EmptyList")
  ELSE Ok(CHOOSE x \in {items[k] : k \in DOMAIN items} :
            \A k \in DOMAIN items : IF greatest THEN items[k].v <= x.v ELSE x.v <= items[k].v)

RECURSIVE SumFrom(_, _)
SumFrom(acc, items) ==
  IF items = <<>> THEN Ok(acc)
  ELSE Then(eval_numeric_arithmetic("Add", acc, Head(items)), LAMBDA sum : SumFrom(sum, Tail(items)))

(* The std/math functions compare with the comparison of the language. *)
Picked(op, a, b) == IF eval_numeric_comparison(op, a, b).v.v = 1 THEN a ELSE b

InRange(x, low, high) == NaN \notin {x, low, high} /\ Finite(x) \in Finite(low) .. Finite(high)

NumberFn(f, x) ==
  CASE f = "abs" ->
         IF x[1].k = "Int" THEN OkInt(Checked(Abs(x[1].v)))
         ELSE OkFloat(abs_f64(x[1].v))
    [] f \in {"floor", "ceil", "round"} -> OkInt(IF x[1].k = "Int" THEN x[1].v ELSE as_i64(x[1].v))
    [] f = "sqrt" -> OkFloat(sqrt_f64(AsFloat(x[1])))
    [] f \in {"max", "min"} -> Ok(Picked(IF f = "max" THEN "Gt" ELSE "Lt", x[1], x[2]))
    [] f = "multiple_of" -> OkBool(x[2].v # 0 /\ Rem(x[1].v, x[2].v) = 0)
    [] f = "in_range" -> OkBool(InRange(AsFloat(x[1]), AsFloat(x[2]), AsFloat(x[3])))
    [] f = "range" -> IF Len(x) = 1 THEN range_list(0, x[1].v) ELSE range_list(x[1].v, x[2].v)

(* The ends a trim works on, the case and the normal form of a function. *)
TrimmedEnds == [trim |-> <<TRUE, TRUE>>, trim_start |-> <<TRUE, FALSE>>, trim_end |-> <<FALSE, TRUE>>]

FoldMode == [upper |-> "Upper", lower |-> "Lower", title |-> "Title",
             upper_locale |-> "Upper", lower_locale |-> "Lower", title_locale |-> "Title"]

NormalForm == [nfd |-> <<FALSE, FALSE>>, nfkd |-> <<TRUE, FALSE>>, nfc |-> <<FALSE, TRUE>>, nfkc |-> <<TRUE, TRUE>>]

TextFn(f, x) ==
  LET s == x[1].v
      t == x[2].v
  IN CASE f = "concat" -> Ok(StringV(s \o t))
       [] f = "substring" -> Ok(StringV(StringSubstring(s, t, x[3].v)))
       [] f = "starts_with" -> OkBool(StartsWith(s, t))
       [] f = "ends_with" -> OkBool(EndsWith(s, t))
       [] f = "contains" -> OkBool(StringContains(s, t))
       [] f = "replace" -> Ok(StringV(StringReplace(s, t, x[3].v)))
       [] f = "split" -> Ok(ListV(Texts(StringSplit(s, t))))
       [] f \in DOMAIN TrimmedEnds -> Ok(StringV(StringTrim(s, TrimmedEnds[f][1], TrimmedEnds[f][2])))
       [] f \in DOMAIN FoldMode ->
            Ok(StringV(fold_string_to_smol_with_hint(s, FoldMode[f], Len(x) = 2 /\ is_turkish_locale(t))))
       [] f \in DOMAIN NormalForm -> Ok(StringV(Normalized(s, NormalForm[f][1], NormalForm[f][2])))
       [] f = "is_uuid" -> OkBool(is_uuid_str(s))
       [] f = "is_email" -> OkBool(is_email_str(s))
       [] f = "is_uri" -> OkBool(is_uri_str(s))
       [] f = "is_iso_date" -> OkBool(is_iso_date_str(s))

ListFn(f, x) ==
  LET items == x[1].v
  IN CASE f \in {"len", "_len", "length", "count"} -> Ok(IntV(Len(items)))
       [] f = "is_empty" -> OkBool(items = <<>>)
       [] f = "sum" -> SumFrom(IntV(0), items)
       [] f = "max" -> extremum_list(items, TRUE)
       [] f = "min" -> extremum_list(items, FALSE)
       [] f = "unique" -> OkBool(AllDistinct(items))
       [] f \in {"contains", "_list_contains"} -> OkBool(IsIn(x[2], items))
       [] f = "size_in_range" ->
            OkBool((IF x[1].k = "Dict" THEN Cardinality(DOMAIN items) ELSE Len(items)) \in x[2].v .. x[3].v)

(* The name of the kind of a value (Value::type_name). *)
value_type_name(v) ==
  CASE v.k = "Bool" -> <<66, 111, 111, 108>>
    [] v.k = "Int" -> <<73, 110, 116>>
    [] v.k = "Float" -> <<70, 108, 111, 97, 116>>
    [] v.k = "String" -> <<83, 116, 114, 105, 110, 103>>
    [] v.k = "List" -> <<76, 105, 115, 116>>
    [] v.k = "Tuple" -> <<84, 117, 112, 108, 101>>
    [] v.k \in {"Dict", "Variant"} -> <<68, 105, 99, 116>>
    [] v.k = "Closure" -> <<67, 108, 111, 115, 117, 114, 101>>

SizeFns == {"len", "_len", "length", "count", "is_empty", "size_in_range"}

(* The free functions and the methods of a kind share their names here. *)
native_call(f, x) ==
  CASE f = "type" -> Ok(StringV(value_type_name(x[1])))
    [] f # "type" /\ (x[1].k \in {"Int", "Float"} \/ f = "range") -> NumberFn(f, x)
    [] x[1].k = "List" \/ f \in SizeFns -> ListFn(f, x)
    [] OTHER -> TextFn(f, x)

-----------------------------------------------------------------------------
(* Expressions. *)
RECURSIVE Eval(_, _), EvalAll(_, _, _), eval_closure(_, _), EvalPairs(_, _, _), EvalItems(_, _, _),
          Mapped(_, _, _), Reduced(_, _, _), Looped(_, _, _, _), resolve_path(_, _, _), Decided(_, _, _),
          check_type(_, _), CheckAll(_, _, _), apply_schema(_, _, _, _)

(* A function of the library on values, as an expression. *)
Native(name, args) == [e |-> "Native", name |-> name, args |-> args]

(* The values of some expressions, up to the first that fails. *)
EvalAll(es, env, done) ==
  IF es = <<>> THEN Ok(done)
  ELSE Then(Eval(Head(es), env), LAMBDA v : EvalAll(Tail(es), env, Append(done, v)))

(* The parameters of a closure are bound in the scope it was made in. *)
eval_closure(f, args) ==
  LET c == f.v
  IN IF Len(args) # Len(c.params) THEN Err("TypeMismatch")
     ELSE Eval(c.body, Append(c.scope, ScopeFrame(MapOf([i \in DOMAIN args |-> c.params[i].name], args), <<>>)))

-----------------------------------------------------------------------------
(* Library functions that call a closure, once per element and in order.   *)
Mapped(f, items, done) ==
  IF items = <<>> THEN Ok(done)
  ELSE Then(eval_closure(f, <<Head(items)>>), LAMBDA v : Mapped(f, Tail(items), Append(done, v)))

ListMap(items, f) == Then(Mapped(f, items, <<>>), LAMBDA ys : Ok(ListV(ys)))

Kept(items, keep) ==
  LET at == SelectSeq([k \in DOMAIN items |-> k], LAMBDA k : keep[k].v # 0)
  IN [k \in DOMAIN at |-> items[at[k]]]

ListFilter(items, f) == Then(Mapped(f, items, <<>>), LAMBDA keep : Ok(ListV(Kept(items, keep))))

Reduced(f, acc, items) ==
  IF items = <<>> THEN Ok(acc)
  ELSE Then(eval_closure(f, <<acc, Head(items)>>), LAMBDA v : Reduced(f, v, Tail(items)))

ListReduce(items, acc, f) == Reduced(f, acc, items)

(* every and some stop at the first element that decides, or that fails. *)
Decided(items, f, answer) ==
  IF items = <<>> THEN OkBool(answer = 0)
  ELSE Then(eval_closure(f, <<Head(items)>>),
            LAMBDA v : IF v.v = answer THEN OkBool(answer = 1) ELSE Decided(Tail(items), f, answer))

ListEvery(items, f) == Decided(items, f, 0)

ListSome(items, f) == Decided(items, f, 1)

SortedBy(items, keys, desc) ==
  LET perm == stable_merge_sort_indices([k \in DOMAIN items |-> k], 1, [k \in DOMAIN items |-> keys[k].v], desc)
  IN [k \in DOMAIN items |-> items[perm[k]]]

list_sort_by_impl(items, f, desc) ==
  Then(Mapped(f, items, <<>>), LAMBDA keys : Ok(ListV(SortedBy(items, keys, desc))))

SortFns == {"_list_sort_by", "sort_by", "_list_sort_by_desc", "sort_by_desc"}

CallsClosure(f) ==
  f \in SortFns \cup {"_list_map", "map", "_list_filter", "filter", "_list_reduce", "reduce", "fold", "every", "some"}

call_relon(f, x) ==
  CASE f \in {"_list_map", "map"} -> ListMap(x[1].v, x[2])
    [] f \in {"_list_filter", "filter"} -> ListFilter(x[1].v, x[2])
    [] f \in {"_list_reduce", "reduce", "fold"} -> ListReduce(x[1].v, x[2], x[3])
    [] f = "every" -> ListEvery(x[1].v, x[2])
    [] f = "some" -> ListSome(x[1].v, x[2])
    [] f \in SortFns -> list_sort_by_impl(x[1].v, x[2], f \in {"_list_sort_by_desc", "sort_by_desc"})

-----------------------------------------------------------------------------
(* Names. *)
IsIter(frame, name) == frame.iter # <<>> /\ frame.iter[1] = name

IsLogic(frame, name) == name \in DOMAIN frame.thunks /\ frame.thunks[name].e = "Closure"

(* A closure among the fields of a dictionary sees all of them. *)
force_thunk(env, k, name) ==
  LET scope == SubSeq(env, 1, k)
      e == env[k].thunks[name]
  IN CASE e.e = "Closure" -> Ok(ClosureV(e.params, e.body, scope))
       [] e.e # "Closure" /\ name \in env[k].forced -> Err("CircularReference")
       [] OTHER -> Eval(e, [scope EXCEPT ![k].forced = @ \cup {name}])

(* Every value of that name, however far out, comes before every field     *)
(* that is not evaluated yet; the variable of a comprehension before the   *)
(* values of the frames inside it.                                         *)
ValueIn(env, k, name) ==
  CASE IsIter(env[k], name) -> Ok(env[k].iter[2])
    [] ~IsIter(env[k], name) /\ name \in DOMAIN env[k].locals -> Ok(env[k].locals[name])
    [] OTHER -> force_thunk(env, k, name)

lookup(env, name) ==
  LET locals == {k \in DOMAIN env : IsIter(env[k], name) \/ name \in DOMAIN env[k].locals \/ IsLogic(env[k], name)}
      thunks == {k \in DOMAIN env : name \in DOMAIN env[k].thunks}
  IN CASE locals # {} -> ValueIn(env, LastOf(locals), name)
       [] locals = {} /\ thunks # {} -> force_thunk(env, LastOf(thunks), name)
       [] OTHER -> Err("VariableNotFound")

(* A field of the dictionary around the reference. *)
resolve_reference(env, name) ==
  LET dicts == {k \in DOMAIN env : env[k].is_dict}
  IN IF dicts # {} /\ name \in DOMAIN env[LastOf(dicts)].thunks THEN force_thunk(env, LastOf(dicts), name)
     ELSE Err("VariableNotFound")

(* The way on from a value along a path. *)
Stepped(v, segment) ==
  CASE v.k \in {"Dict", "Variant"} /\ segment.k = "key" ->
         LET map == IF v.k = "Dict" THEN v.v ELSE v.v.map
         IN IF segment.v \in DOMAIN map THEN Ok(map[segment.v]) ELSE Err("VariableNotFound")
    [] v.k \in {"List", "Tuple"} /\ segment.k = "Int" ->
         IF segment.v + 1 \in DOMAIN v.v THEN Ok(v.v[segment.v + 1]) ELSE Err("IndexOutOfBounds")
    [] v.k = "Dict" /\ segment.k = "String" ->
         LET named == {name \in DOMAIN v.v \cap DOMAIN Spelling : Spelling[name] = segment.v}
         IN IF named # {} THEN Ok(v.v[CHOOSE name \in named : TRUE]) ELSE Err("IndexOutOfBounds")
    [] OTHER -> Err("TypeMismatch")

Segment(s, env) ==
  CASE s.seg = "key" -> Ok([k |-> "key", v |-> s.name])
    [] s.seg = "index" -> Ok(IntV(s.i))
    [] s.seg = "dynamic" -> Eval(s.inner, env)

resolve_path(v, path, env) ==
  IF path = <<>> THEN Ok(v)
  ELSE Then(Segment(Head(path), env),
            LAMBDA segment : Then(Stepped(v, segment), LAMBDA next : resolve_path(next, Tail(path), env)))

resolve_variable(e, env) == Then(lookup(env, e.head), LAMBDA head : resolve_path(head, e.path, env))

-----------------------------------------------------------------------------
(* Every form of expression. *)
EvalItems(items, env, done) ==
  IF items = <<>> THEN Ok(done)
  ELSE LET spread == Head(items).e = "Spread"
       IN Then(Eval(IF spread THEN Head(items).inner ELSE Head(items), env),
               LAMBDA v : EvalItems(Tail(items), env, done \o (IF spread THEN v.v ELSE <<v>>)))

EvalList(e, env) ==
  Then(EvalItems(e.items, [child(env, <<>>) EXCEPT ![Len(env) + 1].iter = <<>>], <<>>), LAMBDA items : Ok(ListV(items)))

EvalTuple(e, env) == Then(EvalAll(e.items, env, <<>>), LAMBDA items : Ok(TupleV(items)))

(* All the fields of a dictionary are in scope of each; what a spread      *)
(* brings in is in scope of the fields behind it.                          *)
prepare_dict_scope(pairs, env) ==
  LET fields == SelectSeq(pairs, LAMBDA p : p.key # "...")
      node(p) == IF p.decorators = <<>> THEN p.value ELSE [e |-> "Decorated", inner |-> p.value, decorators |-> p.decorators]
      thunks == MapOf([k \in DOMAIN fields |-> fields[k].key], [k \in DOMAIN fields |-> node(fields[k])])
  IN [child(env, <<>>) EXCEPT ![Len(env) + 1].thunks = thunks, ![Len(env) + 1].is_dict = TRUE]

(* The fields that are closures, in the scope the dictionary ends with. *)
LogicOf(map, env) ==
  [name \in {x \in DOMAIN map : IsLogic(env[Len(env)], x)} |-> force_thunk(env, Len(env), name).v]

Known(env, found) == [env EXCEPT ![Len(env)].locals = found @@ @]

EvalPairs(pairs, env, map) ==
  LET p == Head(pairs)
      spread(v) ==
        IF v.k # "Dict" THEN Err("TypeMismatch") ELSE EvalPairs(Tail(pairs), Known(env, v.v), v.v @@ map)
      field(v) ==
        EvalPairs(Tail(pairs), Known(env, IF IsLogic(env[Len(env)], p.key) THEN <<>> ELSE p.key :> v),
                  IF p.internal THEN map ELSE (p.key :> v) @@ map)
  IN IF pairs = <<>> THEN Ok(DictV(LogicOf(map, env) @@ map))
     ELSE IF p.key = "..." THEN Then(Eval(p.value, env), spread)
     ELSE Then(force_thunk(env, Len(env), p.key), field)

EvalDict(pairs, env) == EvalPairs(pairs, prepare_dict_scope(pairs, env), <<>>)

Keeps(e, env) == IF e.condition = <<>> THEN OkBool(TRUE) ELSE Eval(e.condition[1], env)

LoopedIn(e, items, env, done, here) ==
  Then(Keeps(e, here),
       LAMBDA keep : IF keep.v = 1 THEN Then(Eval(e.element, here), LAMBDA v : Looped(e, items, env, Append(done, v)))
                     ELSE Looped(e, items, env, done))

Looped(e, items, env, done) ==
  IF items = <<>> THEN Ok(ListV(done))
  ELSE LoopedIn(e, Tail(items), env, done, [child(env, <<>>) EXCEPT ![Len(env) + 1].iter = <<e.id, Head(items)>>])

EvalComprehension(e, env) == Then(Eval(e.iterable, env), LAMBDA items : Looped(e, items.v, env, <<>>))

(* The functions of std/list, written with those of the library. *)
Unqualified(path) ==
  CASE path = "list.map" -> "map" [] path = "list.filter" -> "filter" [] path = "list.reduce" -> "reduce"
    [] path = "list.sum" -> "sum" [] path = "list.len" -> "len" [] path = "list.sort_by" -> "sort_by"
    [] path = "list.sort_by_desc" -> "sort_by_desc" [] path = "list.contains" -> "contains"
    [] OTHER -> path

(* A closure in scope by that name, or a function of the library. *)
IsFn(f) == f.ok /\ f.v.k = "Closure"

library_call(f, x) == IF CallsClosure(f) THEN call_relon(f, x) ELSE native_call(f, x)

CallFound(f, path, args) == IF IsFn(f) THEN eval_closure(f.v, args) ELSE Eval(Native(Unqualified(path), args), <<>>)

call_function(path, args, env) == CallFound(lookup(env, path), path, args)

EvalCall(e, env) == Then(EvalAll(e.args, env, <<>>), LAMBDA args : call_function(e.name, args, env))

(* The arguments of a method are evaluated before its receiver. *)
EvalMethod(e, env) ==
  Then(EvalAll(e.args, env, <<>>),
       LAMBDA args : Then(Eval(e.receiver, env), LAMBDA receiver : Eval(Native(e.name, <<receiver>> \o args), env)))

(* The decorators of a value, from the one next to it outwards: each is    *)
(* called with the value and its own arguments.                            *)
RECURSIVE fallback_decorator(_, _, _)
fallback_decorator(r, decorators, env) ==
  LET d == decorators[Len(decorators)]
      outer == SubSeq(decorators, 1, Len(decorators) - 1)
  IN IF decorators = <<>> THEN r
     ELSE Then(r, LAMBDA v : Then(EvalAll(d.args, env, <<>>),
                                  LAMBDA args : fallback_decorator(call_function(d.name, <<v>> \o args, env), outer, env)))

EvalPipe(e, env) ==
  LET call == e.rhs.e = "Call"
  IN Then(Eval(e.lhs, env),
          LAMBDA v : Then(EvalAll(IF call THEN e.rhs.args ELSE <<>>, env, <<>>),
                          LAMBDA rest : call_function(IF call THEN e.rhs.name ELSE e.rhs.head, <<v>> \o rest, env)))

(* And and Or evaluate their right side only when it decides. *)
EvalLogic(e, env) ==
  Then(Eval(e.lhs, env), LAMBDA v : IF v.v = Bool(e.op = "And") THEN Eval(e.rhs, env) ELSE Ok(v))

EvalBinary(e, env) ==
  CASE e.op = "Pipe" -> EvalPipe(e, env)
    [] e.op \in {"And", "Or"} -> EvalLogic(e, env)
    [] OTHER -> Then(EvalAll(<<e.lhs, e.rhs>>, env, <<>>), LAMBDA vs : eval_binary(e.op, vs[1], vs[2]))

EvalUnary(e, env) == Then(Eval(e.inner, env), LAMBDA v : eval_unary(e.op, v))

EvalTernary(e, env) == Then(Eval(e.cond, env), LAMBDA c : Eval(IF c.v = 1 THEN e.then ELSE e.els, env))

(* The bindings are a dictionary, and all of it is evaluated first. *)
EvalWhere(e, env) == Then(EvalDict(e.bindings, env), LAMBDA bound : Eval(e.body, child(env, bound.v)))

(* The name of a builtin type against a value.  Any other name is that of  *)
(* a schema, which a dictionary has by its brand; what is not a dictionary *)
(* is not looked at and passes.                                            *)
TypePatternHolds(v, name) ==
  CASE name = "Number" -> IsNumber(v)
    [] name \in {"Int", "Float", "Bool", "String", "List", "Tuple"} -> v.k = name
    [] name = "Dict" -> v.k \in {"Dict", "Variant"}
    [] OTHER -> v.k = "Dict" => v.brand = name

pattern_payload_field_name(v, binding, k) ==
  CASE binding.field # "" -> binding.field
    [] binding.field = "" /\ v.of \in {"Option", "Result"} -> CHOOSE name \in DOMAIN v.map : TRUE
    [] OTHER -> ToString(k - 1)

PatternHolds(v, pattern) ==
  CASE pattern.p = "any" -> TRUE
    [] pattern.p = "type" -> TypePatternHolds(v, pattern.name)
    [] pattern.p = "variant" -> v.k = "Variant" /\ v.v.of = pattern.of.name /\ v.v.tag = pattern.tag

(* The names a variant binds; "" binds nothing. *)
VariantScope(bindings, named, v, env) ==
  LET field(k) == pattern_payload_field_name(v, bindings[k], k)
      twice == \E j, k \in named : j # k /\ bindings[j].name = bindings[k].name
  IN IF twice \/ \E k \in named : field(k) \notin DOMAIN v.map THEN Err("TypeMismatch")
     ELSE Ok(child(env, [name \in {bindings[k].name : k \in named} |->
                           v.map[field(CHOOSE k \in named : bindings[k].name = name)]]))

match_variant_pattern_scope(pattern, v, env) ==
  IF pattern.p # "variant" THEN Ok(child(env, <<>>))
  ELSE VariantScope(pattern.bindings, {k \in DOMAIN pattern.bindings : pattern.bindings[k].name # ""}, v.v, env)

EvalArm(arm, v, env) == Then(match_variant_pattern_scope(arm.pattern, v, env), LAMBDA scope : Eval(arm.body, scope))

MatchOn(v, arms, env) ==
  LET fits == {k \in DOMAIN arms : PatternHolds(v, arms[k].pattern)}
  IN IF fits = {} THEN Err("TypeMismatch") ELSE EvalArm(arms[FirstOf(fits)], v, env)

EvalMatch(e, env) == Then(Eval(e.scrutinee, env), LAMBDA v : MatchOn(v, e.arms, env))

RECURSIVE Joined(_)
Joined(values) == IF values = <<>> THEN <<>> ELSE Display(Head(values)) \o Joined(Tail(values))

EvalFString(e, env) == Then(EvalAll(e.parts, env, <<>>), LAMBDA parts : Ok(StringV(Joined(parts))))

(* The fields of a constructed variant are checked like those of a schema; *)
(* the value of an Option or Result may be of any type.                    *)
check_payload(map, payload) == apply_schema(map, NamesOf(payload), payload.fields, <<>>)

VariantWith(of, tag, map) ==
  Then(IF of.labels # <<>> THEN Ok(map) ELSE check_payload(map, PayloadOf(of, tag)),
       LAMBDA checked : Ok(VariantV(of.name, tag, checked)))

eval_variant_ctor(e, env) == Then(EvalDict(e.pairs, env), LAMBDA body : VariantWith(e.of, e.tag, body.v))

(* A tuple variant, or Some, Ok and Err. *)
TupleVariant(e, names, args) ==
  IF Len(args) # Len(names) THEN Err("TypeMismatch") ELSE VariantWith(e.of, e.tag, MapOf(names, args))

try_call_enum_tuple_variant(e, env) ==
  Then(EvalAll(e.args, env, <<>>), LAMBDA args : TupleVariant(e, NamesOf(PayloadOf(e.of, e.tag)), args))

-----------------------------------------------------------------------------
(* Checking a value against a type (schema.rs), which may change it.       *)
CheckAll(vs, ts, done) ==
  IF vs = <<>> THEN Ok(done)
  ELSE Then(check_type(Head(vs), Head(ts)), LAMBDA v : CheckAll(Tail(vs), Tail(ts), Append(done, v)))

(* A value that is not an Option becomes Some of it. *)
check_option(v, t) ==
  LET is_option == v.k = "Variant" /\ v.v.of = "Option"
  IN IF is_option /\ v.v.tag = 0 THEN Ok(v)
     ELSE Then(check_type(IF is_option THEN v.v.map["value"] ELSE v, t.payloads[2][1]),
               LAMBDA inner : Ok(VariantV("Option", 1, [value |-> inner])))

check_enum(v, t) ==
  IF v.k # "Variant" THEN Err("TypeMismatch")
  ELSE Then(check_payload(v.v.map, PayloadOf(t, v.v.tag)), LAMBDA map : Ok(VariantV(v.v.of, v.v.tag, map)))

apply_tuple_schema(v, t) ==
  IF v.k # "Tuple" THEN Err("TypeMismatch")
  ELSE IF Len(v.v) # Len(t.fields) THEN Err("TypeMismatch")
  ELSE Then(CheckAll(v.v, t.fields, <<>>), LAMBDA items : Ok(TupleV(items)))

(* The closure that a schema has as the value of a field. *)
RuleHolds(rule, v) ==
  IF rule # <<>> /\ rule[1].e = "Closure"
  THEN Then(eval_closure(ClosureV(rule[1].params, rule[1].body, <<>>), <<v>>),
            LAMBDA held : IF held = BoolV(FALSE) THEN Err("TypeMismatch") ELSE Ok(v))
  ELSE Ok(v)

(* Of a field that is there the type and the rule; a field that is not     *)
(* there must be an Option.                                                *)
apply_schema(map, names, ts, rules) ==
  LET name == Head(names)
      optional == Head(ts).k = "Variant" /\ Head(ts).name = "Option"
      rule == IF rules = <<>> THEN <<>> ELSE Head(rules)
      after(m) == apply_schema(m, Tail(names), Tail(ts), IF rules = <<>> THEN <<>> ELSE Tail(rules))
  IN IF names = <<>> THEN Ok(map)
     ELSE IF name \notin DOMAIN map THEN (IF optional THEN after(map) ELSE Err("TypeMismatch"))
     ELSE Then(Then(check_type(map[name], Head(ts)), LAMBDA v : RuleHolds(rule, v)),
               LAMBDA v : after([map EXCEPT ![name] = v]))

(* A value that is not a dictionary passes as any schema. *)
check_schema(v, t) ==
  IF v.k # "Dict" THEN Ok(v)
  ELSE Then(apply_schema(v.v, t.names, t.fields, IF IsDeclared(t) THEN t.rules ELSE <<>>),
            LAMBDA map : Ok(Branded(map, IF v.brand = "" THEN BrandOf(t) ELSE v.brand)))

check_type(v, t) ==
  CASE t.k = "Variant" -> IF t.name = "Option" THEN check_option(v, t) ELSE check_enum(v, t)
    [] t.k = "Schema" -> IF t.names = <<>> THEN apply_tuple_schema(v, t) ELSE check_schema(v, t)
    [] t.k = "List" /\ v.k = "List" ->
         Then(CheckAll(v.v, [k \in DOMAIN v.v |-> t.element], <<>>), LAMBDA items : Ok(ListV(items)))
    [] OTHER -> IF v.k = t.k THEN Ok(v) ELSE Err("TypeMismatch")

(* A #main on arguments: both these and the result are checked. *)
Renamed(r, kind) == IF ~r.ok /\ r.v = "TypeMismatch" THEN Err(kind) ELSE r

CheckedArgs(ts, vs) == Renamed(CheckAll(TaggedAll(ts, vs), ts, <<>>), "MainArgTypeMismatch")

run_main(main, vs) ==
  LET scope(args) == child(<<>>, MapOf([k \in DOMAIN vs |-> main.params[k].name], args))
  IN Then(CheckedArgs([k \in DOMAIN main.params |-> main.params[k].t], vs),
          LAMBDA args : Then(Eval(main.body, scope(args)),
                             LAMBDA result : Renamed(check_type(result, main.returns), "MainReturnTypeMismatch")))

-----------------------------------------------------------------------------
Eval(e, env) ==
  CASE e.e = "Int" -> Ok(IntV(e.v))
    [] e.e = "Float" -> Ok(FloatV(e.v))
    [] e.e = "Bool" -> OkBool(e.v)
    [] e.e = "String" -> Ok(StringV(e.v))
    [] e.e = "List" -> EvalList(e, env)
    [] e.e = "Tuple" -> EvalTuple(e, env)
    [] e.e = "Dict" -> EvalDict(e.pairs, env)
    [] e.e = "Comprehension" -> EvalComprehension(e, env)
    [] e.e = "Variable" -> resolve_variable(e, env)
    [] e.e = "Closure" -> Ok(ClosureV(e.params, e.body, env))
    [] e.e = "Call" -> EvalCall(e, env)
    [] e.e = "Native" -> library_call(e.name, e.args)
    [] e.e = "Method" -> EvalMethod(e, env)
    [] e.e = "Binary" -> EvalBinary(e, env)
    [] e.e = "Unary" -> EvalUnary(e, env)
    [] e.e = "Ternary" -> EvalTernary(e, env)
    [] e.e = "Where" -> EvalWhere(e, env)
    [] e.e = "Match" -> EvalMatch(e, env)
    [] e.e = "FString" -> EvalFString(e, env)
    [] e.e = "VariantCtor" -> eval_variant_ctor(e, env)
    [] e.e = "VariantCall" -> try_call_enum_tuple_variant(e, env)
    [] e.e = "VariantName" -> Ok(VariantV(e.of.name, e.tag, <<>>))
    [] e.e = "Reference" -> resolve_reference(env, e.name)
    [] e.e = "Decorated" -> fallback_decorator(Eval(e.inner, env), e.decorators, env)
=============================================================================
