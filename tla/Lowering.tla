------------------------------ MODULE Lowering ------------------------------
(***************************************************************************)
(* The lowering of a #main to intermediate code (relon-ir/src/lowering),   *)
(* with what the generator makes of its operations (Codegen) already in    *)
(* place: Lower(e, c) is the context c after the code of the expression e  *)
(* has been emitted and its value pushed.                                  *)
(***************************************************************************)
EXTENDS LowerInfer

RECURSIVE Lower(_, _), LowerAll(_, _)

(* An expression whose value is wanted at a type, or for a field of it. *)
Wanted(t, e) == [e |-> "Wanted", t |-> t, inner |-> e]
InField(t, e) == [e |-> "InField", t |-> t, inner |-> e]

(* The other parts of the lowering that emit code.  They call each other   *)
(* through Lower, as Lower calls them.                                     *)
AsClosure(f, sig, reprs, expected) == [e |-> "AsClosure", f |-> f, sig |-> sig, reprs |-> reprs, expected |-> expected]
IntoRecord(t, pairs, k) == [e |-> "IntoRecord", t |-> t, pairs |-> pairs, k |-> k]
RecordBody(t, body) == [e |-> "RecordBody", t |-> t, body |-> body]
AnonDictBody(plan) == [e |-> "AnonDictBody", plan |-> plan]
AnonDictSteps(steps, schema) == [e |-> "AnonDictSteps", steps |-> steps, schema |-> schema]
Rewritten(k, e) == [e |-> "Rewritten", k |-> k, inner |-> e]
StdlibArg(f, k, e) == [e |-> "StdlibArg", f |-> f, k |-> k, inner |-> e]
Builtin(f) == [e |-> "Builtin", f |-> f]
ListOfRange(e) == [e |-> "ListOfRange", inner |-> e]
RangeLoop(chain, consumer) == [e |-> "RangeLoop", chain |-> chain, consumer |-> consumer]
IndexedBy(e) == [e |-> "IndexedBy", inner |-> e]
Bindings(pairs) == [e |-> "Bindings", pairs |-> pairs]
PatternBindings(x, of, tag, bindings, k) ==
  [e |-> "PatternBindings", x |-> x, of |-> of, tag |-> tag, bindings |-> bindings, k |-> k]

LowerAll(es, c) == IF es = <<>> THEN c ELSE LowerAll(Tail(es), Lower(Head(es), c))

(* A branch is lowered into code of its own, which leaves its value in the *)
(* slot of its place on the stack.                                         *)
lower_branch(e, c) == Lower(e, [c EXCEPT !.out = <<>>])

BranchCode(b) ==
  LET x == Stack(Len(b.stack) - 1) IN IF TopE(b) = x THEN b.out ELSE Append(b.out, x := TopE(b))

Resumed(b, c) == [b EXCEPT !.out = c.out, !.stack = c.stack]

-----------------------------------------------------------------------------
(* Operators (expr_ops.rs). *)
arithmetic_op_ctor(op, ty, a, b) ==
  LET name == [Add |-> "add", Sub |-> "sub", Mul |-> "mul", Div |-> "div", Mod |-> "rem"]
  IN Bin(name[op] \o (IF ty = "F64" THEN "f" ELSE "64"), a, b)

comparison_op_ctor(op, ty, a, b) ==
  LET name == [Eq |-> "eq", Ne |-> "ne", Lt |-> "lt", Le |-> "le", Gt |-> "lt", Ge |-> "le"]
      swapped == op \in {"Gt", "Ge"}
  IN Bin(name[op] \o (IF ty = "F64" THEN "f" ELSE ""), IF swapped THEN b ELSE a, IF swapped THEN a ELSE b)

(* The value on top as text. *)
lower_value_to_string(c) ==
  LET rest == Pop(c, 1)
      x == NextSlot(rest)
      yes == visit_const_string(rest, <<116, 114, 117, 101>>)
      no == visit_const_string(Pop(yes, 1), <<102, 97, 108, 115, 101>>)
  IN CASE c.err # "" \/ TopTy(c) = "String" -> c
       [] c.err = "" /\ TopTy(c) = "I64" -> PushMade(rest, <<IntToStr(x, TopE(c))>>, "String")
       [] c.err = "" /\ TopTy(c) = "F64" -> PushMade(rest, <<FloatToStr(x, TopE(c))>>, "String")
       [] c.err = "" /\ TopTy(c) = "Bool" ->
            PushMade(Pop(no, 1), <<If(TopE(c), <<x := TopE(yes)>>, <<x := TopE(no)>>)>>, "String")
       [] OTHER -> Declined(rest)

RECURSIVE LowerTexts(_, _)
LowerTexts(es, c) == IF es = <<>> THEN c ELSE LowerTexts(Tail(es), lower_value_to_string(Lower(Head(es), c)))

StrConcatN(c, n) ==
  LET offs == [i \in 1 .. n |-> Under(c, n - i).e] \o <<>>
      rest == Pop(c, n)
  IN PushMade(rest, <<StrConcat(NextSlot(rest), offs)>>, "String")

lower_fstring(e, c) ==
  LET parts == LowerTexts(e.parts, c)
  IN CASE e.parts = <<>> -> visit_const_string(c, <<>>)
       [] Len(e.parts) = 1 -> parts
       [] OTHER -> StrConcatN(parts, Len(e.parts))

(* The strings of a + b + c are joined at once, if all of them are. *)
RECURSIVE LeftLeaves(_)
LeftLeaves(e) == IF e.e = "Binary" /\ e.op = "Add" THEN Append(LeftLeaves(e.lhs), e.rhs) ELSE <<e>>

try_lower_concat_chain(e, c) ==
  LET leaves == LeftLeaves(e)
      n == Len(leaves)
      all == LowerAll(leaves, c)
  IN CASE ~(e.op = "Add" /\ e.lhs.e = "Binary" /\ e.lhs.op = "Add") -> Fail(c, "pass")
       [] all.err # "" -> [all EXCEPT !.stack = Append(c.stack, Under(all, 0))]
       [] \A k \in 0 .. n - 1 : Under(all, k).ty = "String" -> StrConcatN(all, n)
       [] OTHER -> Passed(c, all)

(* The operands of + when only one of them is a string. *)
lower_string_add(l, r) ==
  LET first == lower_value_to_string(Resumed(r, l))
      second == PushAtom(Emit(first, CodeSince(r, l)), TopE(r), TopTy(r))
  IN StrConcatN(lower_value_to_string(second), 2)

lower_arithmetic(e, c) ==
  LET l == Lower(e.lhs, c)
      r == Lower(e.rhs, l)
      tys == {TopTy(l), TopTy(r)}
      rest == Pop(r, 2)
      widened(x, ty) == IF ty = "I64" THEN ToF64(x) ELSE x
      a == Under(r, 1).e
      b == TopE(r)
  IN CASE r.err # "" -> Declined(rest)
       [] r.err = "" /\ tys = {"I64", "F64"} ->
            Push(rest, arithmetic_op_ctor(e.op, "F64", widened(a, TopTy(l)), widened(b, TopTy(r))), "F64")
       [] r.err = "" /\ e.op = "Add" /\ "String" \in tys /\ tys # {"String"} -> lower_string_add(l, r)
       [] r.err = "" /\ e.op = "Add" /\ tys = {"String"} ->
            PushMade(rest, <<AddString(NextSlot(rest), a, b)>>, "String")
       [] r.err = "" /\ tys \in {{"I64"}, {"F64"}} -> Push(rest, arithmetic_op_ctor(e.op, TopTy(r), a, b), TopTy(r))
       [] OTHER -> Declined(rest)

lower_comparison(e, c) ==
  LET r == Lower(e.rhs, Lower(e.lhs, c))
      ty == TopTy(r)
      rest == Pop(r, 2)
  IN IF r.err = "" /\ Under(r, 1).ty = ty
        /\ (ty \in {"I64", "F64"} \/ (ty \in {"Bool", "Unit"} /\ e.op \in {"Eq", "Ne"}))
     THEN Push(rest, comparison_op_ctor(e.op, ty, Under(r, 1).e, TopE(r)), "Bool")
     ELSE Declined(rest)

(* And and Or are a branch around their right side. *)
lower_logic(e, c) ==
  LET l == Lower(e.lhs, c)
      at == Check(Pop(l, 1), TopTy(l) = "Bool")
      r == lower_branch(e.rhs, at)
      constant(n) == <<NextSlot(at) := K(n)>>
      code == IF e.op = "And" THEN If(TopE(l), BranchCode(r), constant(0)) ELSE If(TopE(l), constant(1), BranchCode(r))
  IN PushMade(Check(Resumed(r, at), TopTy(r) = "Bool"), <<code>>, "Bool")

(* The left side is the first argument of the call on the right. *)
lower_pipe(e, c) ==
  CASE e.rhs.e = "Call" -> Lower(CallE(e.rhs.name, <<e.lhs>> \o e.rhs.args), c)
    [] e.rhs.e = "Method" -> Lower(MethodE(e.rhs.receiver, e.rhs.name, <<e.lhs>> \o e.rhs.args), c)
    [] e.rhs.e = "Variable" /\ e.rhs.path = <<>> -> Lower(CallE(e.rhs.head, <<e.lhs>>), c)
    [] OTHER -> Declined(c)

lower_binary(e, c) ==
  LET chain == try_lower_concat_chain(e, c)
      on == IF chain.err = "pass" THEN [chain EXCEPT !.err = ""] ELSE c
  IN CASE chain.err # "pass" -> chain
       [] e.op \in {"And", "Or"} -> lower_logic(e, on)
       [] e.op = "Pipe" -> lower_pipe(e, on)
       [] e.op \in {"Add", "Sub", "Mul", "Div", "Mod"} -> lower_arithmetic(e, on)
       [] OTHER -> lower_comparison(e, on)

lower_ternary(e, c) ==
  LET cond == Lower(e.cond, c)
      at == Check(Pop(cond, 1), TopTy(cond) = "Bool")
      then == lower_branch(e.then, at)
      els == lower_branch(e.els, Resumed(then, at))
  IN PushMade(Check(Resumed(els, at), TopTy(then) = TopTy(els)),
              <<If(TopE(cond), BranchCode(then), BranchCode(els))>>, TopTy(then))

-----------------------------------------------------------------------------
(* Names (reference.rs, index.rs). *)

(* The list on top and the index, each in a local of its own. *)
StashIndex(index, c) ==
  LET held == SetNext(Pop(c, 1), TopE(c))
      i == Lower(index, [held EXCEPT !.next = @ + 1])
      idx == Let(c.next + 1)
  IN [Emit(Check(Pop(i, 1), TopTy(i) = "I64"), <<idx := TopE(i)>>) EXCEPT !.bound = @ \cup {idx.x}]

(* An element of the list; the index is not compared with anything. *)
lower_list_string_index(index, c) ==
  Push(StashIndex(index, c), Ld32((Let(c.next) ++ K(4)) ++ (Let(c.next + 1) ** K(4))), "String")

lower_list_index_typed(index, c) ==
  LET wide == ((Let(c.next) ++ K(11)) && K(-8)) ++ (Let(c.next + 1) ** K(8))
  IN CASE TopTy(c) = "ListInt" -> Push(StashIndex(index, c), Ld64(wide), "I64")
       [] TopTy(c) = "ListFloat" -> Push(StashIndex(index, c), Ld64(wide), "F64")
       [] TopTy(c) = "ListString" -> lower_list_string_index(index, c)

(* An element of a list of integers that is indexed again is taken for the *)
(* address of a list.                                                      *)
RECURSIVE lower_indices(_, _)
lower_indices(path, c) ==
  LET at == Lower(IndexedBy(path[1].inner), c)
      handle == SetNext(Pop(at, 1), TopE(at))
  IN IF Len(path) = 1 THEN at ELSE lower_indices(Tail(path), PushAtom(handle, Let(at.next), "ListInt"))

(* A field of the record on top. *)
FieldOf(t, segment) ==
  CASE segment.seg = "key" -> {i \in DOMAIN t.fields : NamesOf(t)[i] = segment.name}
    [] segment.seg = "index" -> IF t.names = <<>> THEN DOMAIN t.fields \cap {segment.i + 1} ELSE {}
    [] OTHER -> {}

RECURSIVE lower_fields(_, _, _)
lower_fields(path, t, c) ==
  IF path = <<>> THEN c
  ELSE LET found == IF t.k = "Schema" THEN FieldOf(t, Head(path)) ELSE {}
           i == CHOOSE k \in found : TRUE
           ty == type_repr_to_ir_type(t.fields[i])
       IN IF found = {} THEN Declined(Pop(c, 1))
          ELSE lower_fields(Tail(path), t.fields[i],
                            Push(Pop(c, 1), LoadAs(ty, TopE(c) ++ K(field_offset(t.fields, i))), ty))

(* The payload of a value whose variant the surrounding match has settled: *)
(* the value itself, or a field of the record it points at.                *)
lower_enum_payload_path(path, narrowed, c) ==
  LET payload == narrowed.of.payloads[narrowed.tag + 1]
      direct == narrowed.of.labels # <<>>
      ty == type_repr_to_ir_type(payload[1])
      slot == TopE(c) ++ K(variant_payload_offset_for_lowering(payload[1]))
      rest == Pop(c, 1)
      name == IF path[1].seg = "index" THEN ToString(path[1].i) ELSE path[1].name
  IN CASE Len(path) # 1 \/ path[1].seg \notin {"key", "index"} \/ payload = <<>> -> Declined(rest)
       [] direct /\ payload # <<>> ->
            IF name = narrowed.of.labels[narrowed.tag + 1] THEN Push(rest, direct_payload_load_op(ty, slot), ty) ELSE Declined(rest)
       [] OTHER -> lower_fields(<<Key(name)>>, payload[1], Push(rest, Ld32(slot), "I32"))

(* The bytes of the two keys, up to the first that differs.                *)
CompareKeys(kh, ekey_addr, klen, j, mismatch) ==
  Until(j \succeq klen, << mismatch := (Ld8((kh ++ K(4)) ++ j) ## Ld8(ekey_addr ++ j)),
                           BrIf(mismatch ## K(0), 1),
                           j := (j ++ K(1)) >>)

(* The value of a key in the table on top, by comparing with every key. *)
FindKey(dict_base, kh, at) ==
  LET klen == Let(at.next)
      n == Let(at.next + 1)
      i == Let(at.next + 2)
      found == Let(at.next + 3)
      ekey_len == Let(at.next + 4)
      ekey_addr == Let(at.next + 5)
      eoff == Let(at.next + 6)
      j == Let(at.next + 7)
      mismatch == Let(at.next + 8)
      result == Let(at.next + 9)
      entry_body ==
        << BrIf(i \succeq n, 1),
           eoff := ((dict_base ++ K(16)) ++ (i ** K(16))),
           ekey_len := Ld32(eoff ++ K(4)),
           Block(<< BrIf(ekey_len ## klen, 0),
                    ekey_addr := (dict_base ++ Ld32(eoff)),
                    j := K(0), mismatch := K(0),
                    CompareKeys(kh, ekey_addr, klen, j, mismatch),
                    BrIf(mismatch ## K(0), 0),
                    result := Ld64(eoff ++ K(8)), found := K(1) >>),
           i := (i ++ K(1)) >>
      code == << klen := Ld32(kh), n := Ld32(dict_base), i := K(0), found := K(0), result := K(0),
                 Until(found ## K(0), entry_body),
                 Block(<< BrIf(found ## K(0), 0), Trap("IndexOutOfBounds") >>) >>
  IN PushAtom(Emit([at EXCEPT !.next = @ + 10], code), result, "I64")

lower_dict_string_index(index, c) ==
  LET key == Lower(index, SetNext(Pop(c, 1), TopE(c)))
  IN FindKey(Let(c.next), Let(key.next), SetNext(Check(Pop(key, 1), TopTy(key) = "String"), TopE(key)))

lower_path(path, t, c) ==
  LET indexed == \A k \in DOMAIN path : path[k].seg = "dynamic"
  IN CASE c.err # "" \/ path = <<>> -> c
       [] indexed /\ TopTy(c) = "Dict" /\ Len(path) = 1 -> lower_dict_string_index(path[1].inner, c)
       [] indexed /\ (TopTy(c) = "ListInt" \/ (TopTy(c) \in {"ListFloat", "ListString"} /\ Len(path) = 1)) ->
            lower_indices(path, c)
       [] OTHER -> lower_fields(path, t, c)

(* A let before a parameter; a let that was bound to a literal is it. *)
lower_variable(e, c) ==
  LET lets == LetsNamed(c, e.head)
      b == c.lets[Latest(lets)]
      params == ParamsNamed(c, e.head)
      p == c.params[CHOOSE k \in params : TRUE]
      narrowed == {n \in c.narrowed : n.head = e.head}
      base == CASE lets # {} -> GetLet(c, b)
                [] lets = {} /\ params # {} -> PushAtom(c, p.e, p.ty)
                [] OTHER -> Declined(c)
  IN CASE lets # {} /\ e.path = <<>> /\ b.idx \in DOMAIN c.consts -> Lower(c.consts[b.idx], c)
       [] base.err = "" /\ e.path # <<>> /\ narrowed # {} -> lower_enum_payload_path(e.path, CHOOSE n \in narrowed : TRUE, base)
       [] OTHER -> lower_path(e.path, HeadSchema(e.head, c), base)

(* &sibling.name and &root.name: a field that is bound already. *)
lower_reference(e, c) ==
  LET lets == LetsNamed(c, e.name)
      b == c.lets[Latest(lets)]
  IN CASE lets = {} -> Declined(c)
       [] lets # {} /\ b.idx \in DOMAIN c.consts -> Lower(c.consts[b.idx], c)
       [] OTHER -> GetLet(c, b)

-----------------------------------------------------------------------------
(* Closures (closure.rs). *)

(* A parameter of the #main that a closure mentions becomes a let of the   *)
(* surrounding function, where the closure is made.                        *)
RECURSIVE resolve_captures(_, _, _)
resolve_captures(names, c, found) ==
  IF names = <<>> THEN [ctx |-> c, found |-> found]
  ELSE LET lets == LetsNamed(c, Head(names))
           params == ParamsNamed(c, Head(names))
           p == c.params[CHOOSE k \in params : TRUE]
           lifted == BindNext(c, Head(names), p.e, p.ty, UnitT)
       IN CASE lets # {} -> resolve_captures(Tail(names), c, Append(found, c.lets[Latest(lets)]))
            [] lets = {} /\ params # {} /\ p.repr.k = "Schema" -> [ctx |-> Fail(c, "cap"), found |-> found]
            [] lets = {} /\ params # {} /\ p.repr.k # "Schema" ->
                 resolve_captures(Tail(names), lifted, Append(found, lifted.lets[Len(lifted.lets)]))
            [] OTHER -> resolve_captures(Tail(names), c, found)

(* The lets a closure starts with: what it captured, the literals it       *)
(* repeats, and its parameters.                                            *)
BindCapture(c, b, offset, sigs) ==
  LET bound == BindNext(c, b.name, direct_payload_load_op(b.ty, Arg(0) ++ K(offset)), b.ty, UnitT)
  IN IF b.ty = "Closure" /\ b.idx \in DOMAIN sigs THEN [bound EXCEPT !.sigs = With(@, c.next, sigs[b.idx])] ELSE bound

BindConst(c, b, literal) ==
  [c EXCEPT !.lets = Append(@, LetBinding(b.name, c.next, b.ty, UnitT)), !.next = @ + 1,
            !.consts = With(@, c.next, literal)]

lower_lambda_body(e, irts, reprs, held, offsets, inlined, c) ==
  LET start == [LowerCtx(<<>>) EXCEPT !.bodies = Append(c.bodies, <<>>), !.pool = c.pool, !.strings = c.strings,
                                      !.in_scratch = TRUE]
      withHeld[i \in 0 .. Len(held)] ==
        IF i = 0 THEN start ELSE BindCapture(withHeld[i - 1], held[i], offsets[i], c.sigs)
      withConsts[i \in 0 .. Len(inlined)] ==
        IF i = 0 THEN withHeld[Len(held)] ELSE BindConst(withConsts[i - 1], inlined[i], c.consts[inlined[i].idx])
      withParams[i \in 0 .. Len(irts)] ==
        IF i = 0 THEN withConsts[Len(inlined)] ELSE BindNext(withParams[i - 1], e.params[i].name, Arg(i), irts[i], reprs[i])
  IN withParams[Len(irts)]

(* What is captured, by its place in the captures or as a literal. *)
CapturesOf(e, c) ==
  LET own == {e.params[k].name : k \in DOMAIN e.params}
  IN resolve_captures(OnceEach(SelectSeq(collect_free_vars(e.body), LAMBDA x : x \notin own)), c, <<>>)

HeldOf(r) == SelectSeq(r.found, LAMBDA b : b.idx \notin DOMAIN r.ctx.consts)

InlinedOf(r) == SelectSeq(r.found, LAMBDA b : b.idx \in DOMAIN r.ctx.consts)

(* The closure, once its body is lowered, at a given place of the code. *)
Closed(e, sig, held, layout, at, body) ==
  LET index == Len(at.bodies) + 1
      unset(b) == b.idx \notin at.bound
      captures == [k \in DOMAIN held |->
                     [from |-> Let(held[k].idx), self |-> unset(held[k]) /\ held[k].ty = "Closure",
                      w |-> IF wasm_slot(held[k].ty) = "I32" THEN 4 ELSE 8, offset |-> layout.offsets[k]]]
      made == [at EXCEPT !.bodies = [body.bodies EXCEPT ![index] = Append(body.out, Return(TopE(body)))],
                         !.pool = body.pool, !.strings = body.strings,
                         !.doomed = @ \/ body.doomed \/ \E k \in DOMAIN held : unset(held[k]) /\ held[k].ty # "Closure"]
  IN CASE at.err # "" \/ Len(e.params) # Len(sig.params) -> Declined(at)
       [] at.err = "" /\ body.err # "" -> Failed(at, body.err)
       [] at.err = "" /\ body.err = "" /\ wasm_slot(TopTy(body)) # wasm_slot(sig.ret) -> Failed(at, "mismatch")
       [] OTHER -> PushMade(made, <<MakeClosure(NextSlot(made), index, captures, layout.size)>>, "Closure")

CloseOver(e, sig, reprs, body, held, layout, inlined, at) ==
  Closed(e, sig, held, layout, at, Lower(body, lower_lambda_body(e, sig.params, reprs, held, layout.offsets, inlined, at)))

Captured(e, sig, reprs, body, r, held) ==
  CloseOver(e, sig, reprs, body, held, layout_captures([k \in DOMAIN held |-> held[k].ty]), InlinedOf(r), r.ctx)

CaptureAll(e, sig, reprs, body, r) == Captured(e, sig, reprs, body, r, HeldOf(r))

(* expected is <<>> or the type its result is lowered as. *)
lower_closure_as_value(e, sig, reprs, expected, c) ==
  CaptureAll(e, sig, reprs, IF expected = <<>> THEN e.body ELSE Wanted(expected[1], e.body), CapturesOf(e, c))

Untyped(sig) == [k \in DOMAIN sig.params |-> UnitT]

lower_closure(e, sig, c) == Lower(AsClosure(e, sig, Untyped(sig), <<>>), c)

-----------------------------------------------------------------------------
(* Lists (lower_expr, peephole.rs). *)

(* The type of an expression: it is lowered, and all but the literals and  *)
(* signatures of its lets is forgotten.                                    *)
Probed(e, c) ==
  LET tried == Lower(e, c)
  IN [ty |-> TopTy(tried), err |-> tried.err, ctx |-> [c EXCEPT !.consts = tried.consts, !.sigs = tried.sigs]]

(* The memory of a list whose elements are computed one by one.  The       *)
(* payload is behind a padding that the size does not count.               *)
AllocList(c, count) ==
  LET base == Let(c.next)
      payload == Let(c.next + 1)
  IN [Emit(c, << AllocScratchDyn(base, K(8 + 8 * count)), St32(base, K(count)),
                 payload := ((base ++ K(11)) && K(-8)) >>)
        EXCEPT !.next = @ + 2, !.bound = @ \cup {base.x, payload.x}]

(* A number as the element of a list; only floats are converted. *)
ElementAs(ty, c) == IF ty = "F64" /\ TopTy(c) = "I64" THEN ToF64(TopE(c)) ELSE TopE(c)

IsElement(ty, c) == TopTy(c) = ty \/ (ty = "F64" /\ TopTy(c) = "I64")

StoreElement(c, at, ty) == Emit(Check(Pop(c, 1), IsElement(ty, c)), <<St64(at, ElementAs(ty, c))>>)

RECURSIVE StoreElements(_, _, _, _, _)
StoreElements(items, k, payload, ty, c) ==
  IF k > Len(items) THEN c
  ELSE StoreElements(items, k + 1, payload, ty,
                     StoreElement(Lower(items[k], c), payload ++ K(8 * (k - 1)), ty))

ListOfTy(ty) == IF ty = "F64" THEN "ListFloat" ELSE "ListInt"

emit_list_literal_materialize(items, ty, c) ==
  PushAtom(StoreElements(items, 1, Let(c.next + 1), ty, AllocList(c, Len(items))), Let(c.next), ListOfTy(ty))

(* The lists that are spread are evaluated first, in order. *)
RECURSIVE LowerSources(_, _, _)
LowerSources(es, c, lets) ==
  IF es = <<>> THEN [ctx |-> c, lets |-> lets]
  ELSE LET list == Lower(Head(es), c)
           at == SetNext(Pop(list, 1), TopE(list))
           ok == Check(at, TopTy(list) \in {"ListInt", "ListFloat"} /\ (lets = <<>> \/ lets[1].ty = TopTy(list)))
           counted == SetNext(ok, Ld32(Let(list.next)))
       IN LowerSources(Tail(es), counted, Append(lets, [base |-> Let(list.next), count |-> Let(at.next), ty |-> TopTy(list)]))

(* Every item at the cursor plus off, which a source starts anew. *)
RECURSIVE StoreSpread(_, _, _, _, _, _)
StoreSpread(items, sources, cursor, off, ty, c) ==
  CASE items = <<>> -> c
    [] items # <<>> /\ Head(items).e = "Spread" ->
         LET s == Head(sources)
             copy == Memcpy(cursor ++ K(off), (s.base ++ K(11)) && K(-8), s.count ** K(8))
         IN StoreSpread(Tail(items), Tail(sources), Let(c.next), 0, ty,
                        SetNext(Emit(c, <<copy>>), (cursor ++ K(off)) ++ (s.count ** K(8))))
    [] OTHER -> StoreSpread(Tail(items), sources, cursor, off + 8, ty,
                            StoreElement(Lower(Head(items), c), cursor ++ K(off), ty))

SpreadInto(items, made, at) ==
  LET sum == SumOf(<<K(Len(items) - Len(made.lets))>> \o [k \in DOMAIN made.lets |-> made.lets[k].count])
      total == Let(at.next)
      base == Let(at.next + 1)
      payload == Let(at.next + 2)
      alloc == [Emit(at, << total := sum, AllocScratchDyn(base, (total ** K(8)) ++ K(8)), St32(base, total),
                            payload := ((base ++ K(11)) && K(-8)) >>)
                  EXCEPT !.next = @ + 3, !.bound = @ \cup {total.x, base.x, payload.x}]
      ty == IF made.lets[1].ty = "ListFloat" THEN "F64" ELSE "I64"
  IN IF at.err # "" THEN Declined(at)
     ELSE PushAtom(StoreSpread(items, made.lets, payload, 0, ty, alloc), base, ListOfTy(ty))

SpreadFrom(items, made) == SpreadInto(items, made, made.ctx)

emit_list_spread_runtime_materialize(items, c) ==
  LET spread == SelectSeq(items, LAMBDA x : x.e = "Spread")
  IN SpreadFrom(items, LowerSources([k \in DOMAIN spread |-> spread[k].inner], c, <<>>))

(* Spreads of computed lists next to numbers only. *)
classify_runtime_spread(items) ==
  LET spreads == {k \in DOMAIN items : items[k].e = "Spread"}
  IN /\ spreads # {}
     /\ \A k \in spreads : items[k].inner.e # "List"
     /\ \A k \in DOMAIN items \ spreads : items[k].e \in {"Int", "Float"}

RECURSIVE flatten_list_spread(_)
flatten_list_spread(items) ==
  IF items = <<>> THEN <<>>
  ELSE (IF Head(items).e = "Spread" /\ Head(items).inner.e = "List" THEN flatten_list_spread(Head(items).inner.items)
        ELSE <<Head(items)>>)
       \o flatten_list_spread(Tail(items))

list_has_computed_element(items) == \E k \in DOMAIN items : items[k].e \notin {"Int", "Float", "String", "Bool"}

lower_computed_list(items, c) ==
  LET probe == Probed(items[1], c)
  IN CASE probe.err # "" -> Failed(c, probe.err)
       [] probe.err = "" /\ probe.ty \in {"I64", "F64"} -> emit_list_literal_materialize(items, probe.ty, probe.ctx)
       [] OTHER -> Declined(probe.ctx)

lower_const_list(items, c) ==
  LET kind == items[1].e
      of(kinds) == \A k \in DOMAIN items : items[k].e \in kinds
      values == [k \in DOMAIN items |-> items[k].v]
  IN CASE kind = "Int" /\ of({"Int"}) -> visit_const_list_int(c, values)
       [] kind = "Float" /\ of({"Int", "Float"}) ->
            visit_const_list_float(c, [k \in DOMAIN items |-> IF items[k].e = "Int" THEN as_f64(items[k].v) ELSE items[k].v])
       [] kind = "Bool" /\ of({"Bool"}) -> visit_const_list_bool(c, [k \in DOMAIN items |-> Bool(items[k].v)])
       [] kind = "String" /\ of({"String"}) -> visit_const_list_string(c, values)
       [] OTHER -> Declined(c)

lower_list(e, c) ==
  LET spread == \E k \in DOMAIN e.items : e.items[k].e = "Spread"
      flat == flatten_list_spread(e.items)
  IN CASE e.items = <<>> -> Declined(c)
       [] spread /\ classify_runtime_spread(e.items) -> emit_list_spread_runtime_materialize(e.items, c)
       [] spread /\ ~classify_runtime_spread(e.items) ->
            IF flat = <<>> \/ \E k \in DOMAIN flat : flat[k].e = "Spread" THEN Declined(c) ELSE lower_computed_list(flat, c)
       [] ~spread /\ e.items # <<>> /\ list_has_computed_element(e.items) -> lower_computed_list(e.items, c)
       [] OTHER -> lower_const_list(e.items, c)

-----------------------------------------------------------------------------
(* Ranges (peephole.rs).  The lets of a loop are numbered first. *)
Reserve(c, n) == [c EXCEPT !.next = @ + n]

Assign(c, x, e) == [Emit(c, <<x := e>>) EXCEPT !.bound = @ \cup {x.x}]

(* The value on top, of a given type. *)
AssignTop(c, x, ty) == Assign(Check(Pop(c, 1), TopTy(c) = ty), x, TopE(c))

(* The scope of a parameter ends: the newest let goes, whichever it is. *)
PopLet(c) == IF c.err = "" THEN [c EXCEPT !.lets = SubSeq(@, 1, Len(@) - 1)] ELSE c

emit_range_bound(args, k, x, c) == AssignTop(Lower(IF k > 0 THEN args[k] ELSE IntE(0), c), x, "I64")

emit_range_bounds(args, start, end, c) ==
  emit_range_bound(args, Len(args), end, emit_range_bound(args, Len(args) - 1, start, c))

(* The code of a loop is lowered apart. *)
LoopOf(c, body, exit, then) == Emit([body EXCEPT !.out = c.out], <<Until(exit, body.out \o then)>>)

(* A stage binds the value on top to its parameter and leaves what it      *)
(* makes of it; a filter leaves the Block around the iteration instead.    *)
lower_stage(s, c) ==
  LET v == PopLet(Lower(s.body, BindNext(Pop(c, 1), s.param, TopE(c), TopTy(c), UnitT)))
      rest == Pop(v, 1)
  IN IF s.method = "map" THEN PushAtom(SetNext(rest, TopE(v)), Let(v.next), TopTy(v))
     ELSE PushAtom(Emit(Check(rest, TopTy(v) = "Bool"), <<BrIf(Not(TopE(v)), 0)>>), TopE(c), TopTy(c))

RECURSIVE LowerStages(_, _)
LowerStages(stages, c) == IF stages = <<>> THEN c ELSE LowerStages(Tail(stages), lower_stage(Head(stages), c))

RangeConsumer(kind, init, f) == [kind |-> kind, init |-> init, f |-> f]
SumOrLen(kind) == RangeConsumer(kind, IntE(0), IntE(0))

(* The body of a reduction, of an accumulator and a value. *)
lower_reducer(f, acc, acc_ty, x, ty, c) ==
  LET bound == BindNext(BindNext(c, f.params[1].name, acc, acc_ty, UnitT), f.params[2].name, x, ty, UnitT)
      v == Lower(f.body, bound)
  IN IF v.err # "" THEN v
     ELSE Assign(PopLet(PopLet(Check(Pop(v, 1), wasm_slot(TopTy(v)) = wasm_slot(acc_ty)))), acc, TopE(v))

Consumed(consumer, acc, acc_ty, c) ==
  CASE consumer.kind = "Sum" -> Assign(Check(Pop(c, 1), TopTy(c) = "I64"), acc, TopE(c) \oplus acc)
    [] consumer.kind = "Len" -> Assign(Pop(c, 1), acc, acc \oplus K(1))
    [] consumer.kind = "Reduce" -> lower_reducer(consumer.f, acc, acc_ty, TopE(c), TopTy(c), Pop(c, 1))

LoopFrom(start, end, acc, stages, consumer, init) ==
  LET acc_ty == TopTy(init)
      entered == Assign(Pop(init, 1), acc, TopE(init))
      staged == LowerStages(stages, PushAtom([entered EXCEPT !.out = <<>>], start, "I64"))
      used == Consumed(consumer, acc, acc_ty, staged)
      iteration == [used EXCEPT !.out = <<Block(@)>>]
  IN IF used.err # "" THEN Failed(used, used.err)
     ELSE PushAtom(LoopOf(entered, iteration, start \succeq end, <<start := (start \oplus K(1))>>), acc, acc_ty)

emit_range_pipeline_loop(chain, consumer, c) ==
  LET start == Let(c.next)
      end == Let(c.next + 1)
      init == Lower(consumer.init, emit_range_bounds(chain.args, start, end, Reserve(c, 3)))
  IN IF init.err # "" THEN init ELSE LoopFrom(start, end, Let(c.next + 2), chain.stages, consumer, init)

try_lower_list_sum_range(e, c) ==
  LET chain == IF IsCallTo(e, {"list.sum"}, 1) THEN match_range_chain(e.args[1]) ELSE <<>>
  IN IF chain = <<>> THEN Fail(c, "pass") ELSE Lower(RangeLoop(chain[1], SumOrLen("Sum")), c)

(* The chain that a method ends, which a name does not start. *)
ChainBefore(e, method, n) ==
  IF e.e = "Method" /\ e.name = method /\ Len(e.args) = n THEN match_range_chain(e.receiver) ELSE <<>>

try_lower_range_chain_len(e, c) ==
  LET chain == ChainBefore(e, "len", 0)
  IN IF chain = <<>> THEN Fail(c, "pass") ELSE Lower(RangeLoop(chain[1], SumOrLen("Len")), c)

try_lower_range_chain_reduce(e, c) ==
  LET chain == ChainBefore(e, "reduce", 2)
  IN CASE chain = <<>> -> Fail(c, "pass")
       [] chain # <<>> /\ ~IsClosureOf(e.args[2], 2) -> Fail(c, "pass")
       [] OTHER -> Lower(RangeLoop(chain[1], RangeConsumer("Reduce", e.args[1], e.args[2])), c)

try_lower_len_filter_range(e, c) ==
  LET inner == e.args[1]
      f == inner.args[2]
      applies == IsCallTo(e, {"_len", "len"}, 1) /\ IsCallTo(inner, {"_list_filter"}, 2)
                 /\ match_bare_range(inner.args[1]) /\ IsClosureOf(f, 1)
      stage == [method |-> "filter", param |-> f.params[1].name, body |-> f.body]
  IN IF applies THEN Lower(RangeLoop([args |-> inner.args[1].args, stages |-> <<stage>>], SumOrLen("Len")), c)
     ELSE Fail(c, "pass")

-----------------------------------------------------------------------------
(* A list of integers that a let holds is reduced in place.  Its elements  *)
(* are lists when the closure uses them as such.                           *)
ReduceElements(f, acc, acc_ty, count, payload, i, entered) ==
  LET element == IF closure_param_used_as_list_int(f.params[2].name, f.body) THEN "ListInt" ELSE "I64"
      raw == Let(entered.next)
      read == Assign(Reserve([entered EXCEPT !.out = <<>>], 1), raw, Ld64(payload ++ (i ** K(8))))
      used == lower_reducer(f, acc, acc_ty, raw, element, read)
  IN IF used.err # "" THEN Failed(used, used.err)
     ELSE PushAtom(LoopOf(entered, used, i \succeq count, <<i := (i ++ K(1))>>), acc, acc_ty)

emit_materialized_list_reduce(list, init_e, f, c) ==
  LET base == Let(c.next)
      count == Let(c.next + 1)
      payload == Let(c.next + 2)
      i == Let(c.next + 3)
      acc == Let(c.next + 4)
      held == Assign(Pop(GetLet(Reserve(c, 5), list), 1), base, Let(list.idx))
      placed == Assign(Assign(held, count, Ld32(base)), payload, (base ++ K(11)) && K(-8))
      init == Lower(init_e, placed)
      entered == Assign(Assign(Pop(init, 1), acc, TopE(init)), i, K(0))
  IN IF init.err # "" THEN init ELSE ReduceElements(f, acc, TopTy(init), count, payload, i, entered)

try_lower_materialized_list_reduce(e, c) ==
  LET applies == e.e = "Method" /\ e.name = "reduce" /\ Len(e.args) = 2
                 /\ e.receiver.e = "Variable" /\ e.receiver.path = <<>> /\ IsClosureOf(e.args[2], 2)
      lets == LetsNamed(c, e.receiver.head)
  IN CASE ~applies -> Fail(c, "pass")
       [] applies /\ lets = {} -> Fail(c, "pass")
       [] OTHER -> IF c.lets[Latest(lets)].ty = "ListInt"
                   THEN emit_materialized_list_reduce(c.lets[Latest(lets)], e.args[1], e.args[2], c)
                   ELSE Fail(c, "pass")

-----------------------------------------------------------------------------
(* A range of mapped ranges, folded row by row: two loops and no list.     *)
(* The parameter of the outer map is in scope of all that the inner loop   *)
(* evaluates.                                                              *)
combine_operator_to_op(op, a, b) == arithmetic_op_ctor(op, "I64", a, b)

(* The row so far and the cell. *)
FoldCell(fold, row_acc, cell, c) ==
  LET f == fold.args[2]
      bound == BindNext(c, f.params[1].name, row_acc, "I64", UnitT)
      v == Lower(f.body, [bound EXCEPT !.lets = Append(@, LetBinding(f.params[2].name, cell.x, "I64", UnitT))])
  IN IF fold.e = "Call" THEN Assign(c, row_acc, row_acc \oplus cell)
     ELSE PopLet(PopLet(AssignTop(v, row_acc, "I64")))

InnerLoopFrom(start, end, stage, fold, row_acc, entered) ==
  LET v == Lower(stage.body, BindNext([entered EXCEPT !.out = <<>>], stage.param, start, "I64", UnitT))
      cell == PopLet(SetNext(Check(Pop(v, 1), TopTy(v) = "I64"), TopE(v)))
      folded == FoldCell(fold, row_acc, Let(v.next), cell)
  IN IF v.err # "" THEN v ELSE LoopOf(entered, folded, start \succeq end, <<start := (start \oplus K(1))>>)

emit_inner_loop(chain, fold, row_acc, c) ==
  LET start == Let(c.next)
      end == Let(c.next + 1)
      init == Lower(IF fold.e = "Call" THEN IntE(0) ELSE fold.args[1], emit_range_bounds(chain.args, start, end, Reserve(c, 2)))
  IN IF init.err # "" THEN init
     ELSE InnerLoopFrom(start, end, chain.stages[1], fold, row_acc, AssignTop(init, row_acc, "I64"))

(* The bounds and the sum so far, in locals. *)
EnterOuterLoop(chain, init_e, start, end, acc, c) ==
  AssignTop(Lower(init_e, emit_range_bounds(chain.args, start, end, Reserve(c, 4))), acc, "I64")

emit_nested_range_map_reduce(chain, init_e, f, c) ==
  LET start == Let(c.next)
      end == Let(c.next + 1)
      acc == Let(c.next + 2)
      row_acc == Let(c.next + 3)
      stage == chain.stages[1]
      acc_is_lhs == expr_is_bare_named(f.body.lhs, f.params[1].name)
      fold == IF acc_is_lhs THEN f.body.rhs ELSE f.body.lhs
      entered == EnterOuterLoop(chain, init_e, start, end, acc, c)
      row == BindNext([entered EXCEPT !.out = <<>>], stage.param, start, "I64", UnitT)
      folded == emit_inner_loop(match_range_chain(stage.body)[1], fold, row_acc, row)
      a == IF acc_is_lhs THEN acc ELSE row_acc
      b == IF acc_is_lhs THEN row_acc ELSE acc
  IN IF f.body.op \notin {"Add", "Sub", "Mul"} THEN Declined(c)
     ELSE IF entered.err # "" THEN Failed(entered, entered.err)
     ELSE PushAtom(LoopOf(entered, PopLet(Assign(folded, acc, combine_operator_to_op(f.body.op, a, b))),
                          start \succeq end, <<start := (start \oplus K(1))>>), acc, "I64")

try_lower_nested_range_map_reduce(e, c) ==
  LET f == e.args[2]
      applies == e.e = "Method" /\ e.name = "reduce" /\ Len(e.args) = 2 /\ IsClosureOf(f, 2)
                 /\ match_nested_range_map(e.receiver)
                 /\ match_outer_combine(f.body, f.params[1].name, f.params[2].name)
  IN IF applies THEN emit_nested_range_map_reduce(match_range_chain(e.receiver)[1], e.args[1], f, c) ELSE Fail(c, "pass")

-----------------------------------------------------------------------------
(* A range that becomes a list.  The count is what is left of 64 bits. *)
AllocRange(span, count, base, payload, c) ==
  LET counted == Assign(c, count, Cond(K(0) \prec span, span, K(0)))
      made == Emit(counted, <<AllocScratchDyn(base, K(8) ++ (count ** K(8))), St32(base, count)>>)
  IN Assign([made EXCEPT !.bound = @ \cup {base.x}], payload, (base ++ K(11)) && K(-8))

(* Every value of the range, in elem, is replaced by what value emits for  *)
(* it; a list is an element by its address.                                *)
FillLoop(value, types, count, base, payload, i, elem, entered) ==
  LET stored == Emit(Check(Pop(value, 1), TopTy(value) \in types), <<St64(payload ++ (i ** K(8)), TopE(value))>>)
  IN PushAtom(LoopOf(entered, stored, i \succeq count, <<i := (i ++ K(1)), elem := (elem \oplus K(1))>>), base, "ListInt")

FillWithRange(count, base, payload, i, elem, entered) ==
  FillLoop(PushAtom([entered EXCEPT !.out = <<>>], elem, "I64"), {"I64"}, count, base, payload, i, elem, entered)

FillWithStage(stage, count, base, payload, i, elem, entered) ==
  LET param == BindNext([entered EXCEPT !.out = <<>>], stage.param, elem, "I64", UnitT)
      is_list == match_bare_range(stage.body) \/ match_materializable_outer_map(stage.body)
      v == Lower(IF is_list THEN ListOfRange(stage.body) ELSE stage.body, param)
  IN IF v.err # "" THEN v
     ELSE FillLoop(PopLet(v), {"I64"} \cup (IF is_list THEN {"ListInt"} ELSE {}), count, base, payload, i, elem, entered)

MaterializeFrom(chain, c) ==
  LET start == Let(c.next)
      span == Let(c.next + 1)
      count == Let(c.next + 2)
      base == Let(c.next + 3)
      payload == Let(c.next + 4)
      i == Let(c.next + 5)
      elem == Let(c.next + 6)
      bounds == emit_range_bounds(chain.args, start, span, Reserve(c, 7))
      alloc == AllocRange(span, count, base, payload, Assign(bounds, span, span \ominus start))
      entered == Assign(Assign(alloc, i, K(0)), elem, start)
  IN IF bounds.err # "" THEN Failed(bounds, bounds.err)
     ELSE IF chain.stages = <<>>
     THEN FillWithRange(count, base, payload, i, elem, entered)
     ELSE FillWithStage(chain.stages[1], count, base, payload, i, elem, entered)

emit_list_value_materialize(e, c) == MaterializeFrom(match_range_chain(e)[1], c)

try_lower_range_value(e, c) ==
  IF match_bare_range(e) THEN Lower(ListOfRange(e), c) ELSE Fail(c, "pass")

-----------------------------------------------------------------------------
(* Bindings of a `where' (lower_where, expr_ops.rs).  A closure is bound   *)
(* before it is made, so that it can call itself.                          *)
lower_closure_binding(name, e, sig, c) ==
  LET known == [c EXCEPT !.next = @ + 1, !.lets = Append(@, LetBinding(name, c.next, "Closure", UnitT)),
                         !.sigs = With(@, c.next, sig)]
      made == lower_closure(e, sig, known)
  IN [Emit(Pop(made, 1), <<Let(c.next) := TopE(made)>>) EXCEPT !.bound = @ \cup {c.next}]

BindValue(pair, value) ==
  LET bound == BindNext(Pop(value, 1), pair.key, TopE(value), TopTy(value), UnitT)
  IN IF value.err # "" THEN value
     ELSE IF pair.value.e \in {"Int", "Float", "Bool"} THEN [bound EXCEPT !.consts = With(@, value.next, pair.value)] ELSE bound

lower_binding(pair, c) ==
  LET e == pair.value
  IN CASE e.e = "Closure" -> lower_closure_binding(pair.key, e, WhereSig(e, c), c)
       [] match_bare_range(e) \/ match_materializable_outer_map(e) -> BindValue(pair, Lower(ListOfRange(e), c))
       [] e.e = "List" /\ e.items # <<>> /\ list_is_float_shaped(e.items) ->
            BindValue(pair, emit_list_literal_materialize(e.items, "F64", c))
       [] OTHER -> BindValue(pair, Lower(e, c))

lower_bindings(pairs, c) == IF pairs = <<>> THEN c ELSE Lower(Bindings(Tail(pairs)), lower_binding(Head(pairs), c))

lower_where(e, c) ==
  LET bound == Lower(Bindings(e.bindings), c)
  IN IF bound.err # "" THEN Failed(bound, bound.err) ELSE Truncated(Lower(e.body, bound), Len(c.lets))

-----------------------------------------------------------------------------
(* Calls (call.rs, stdlib_call.rs). *)

(* The operands on top are the arguments. *)
call_builtin(c, f) ==
  LET n == Len(builtin_stdlib[f].params)
      rest == Pop(c, n)
  IN PushMade(rest, <<Call(NextSlot(rest), f, [i \in 1 .. n |-> Under(c, n - i).e] \o <<>>)>>, builtin_stdlib[f].ret)

(* A closure bound in the surroundings. *)
RECURSIVE lower_closure_args(_, _, _, _)
lower_closure_args(args, k, sig, c) ==
  IF k > Len(args) THEN c
  ELSE LET arg == Lower(args[k], c)
           fits == wasm_slot(TopTy(arg)) = wasm_slot(sig.params[k])
       IN lower_closure_args(args, k + 1, sig,
                             CASE fits \/ arg.err # "" -> arg
                               [] ~fits /\ arg.err = "" /\ k \in sig.coercible -> lower_value_to_string(arg)
                               [] OTHER -> Fail(arg, "mismatch"))

CallLocal(b, sig, n, args) ==
  LET rest == Pop(args, n + 1)
  IN PushMade(rest, <<CallClosure(NextSlot(rest), Let(b.idx), [i \in 1 .. n |-> Under(args, n - i).e])>>, sig.ret)

LocalClosureCall(e, b, c) ==
  LET sig == c.sigs[b.idx]
  IN IF b.idx \notin DOMAIN c.sigs THEN Declined(c)
     ELSE IF Len(sig.params) # Len(e.args) THEN Declined(c)
     ELSE CallLocal(b, sig, Len(sig.params), lower_closure_args(e.args, 1, sig, GetLet(c, b)))

try_lower_local_closure_call(e, c) ==
  LET lets == LetsNamed(c, e.name)
      b == c.lets[Latest(lets)]
  IN CASE e.e # "Call" \/ lets = {} -> Fail(c, "pass")
       [] e.e = "Call" /\ lets # {} /\ b.ty # "Closure" -> Fail(c, "pass")
       [] OTHER -> LocalClosureCall(e, b, c)

(* Arguments of a library function: only the width of a type counts. *)
check_stdlib_arg(f, k, c) ==
  IF wasm_slot(TopTy(c)) = wasm_slot(builtin_stdlib[f].params[k]) THEN c ELSE Fail(c, "mismatch")

lower_stdlib_arg(f, k, e, c) ==
  LET param == builtin_stdlib[f].params[k]
  IN check_stdlib_arg(f, k, CASE param # "Closure" -> Lower(e, c)
                              [] param = "Closure" /\ e.e = "Closure" -> lower_closure(e, stdlib_closure_arg_signature(f), c)
                              [] OTHER -> Declined(c))

RECURSIVE lower_stdlib_args(_, _, _, _)
lower_stdlib_args(f, k, args, c) ==
  IF args = <<>> THEN c ELSE lower_stdlib_args(f, k + 1, Tail(args), Lower(StdlibArg(f, k, Head(args)), c))

lower_free_call(e, c) ==
  IF e.name \in DOMAIN builtin_stdlib /\ Len(e.args) = Len(builtin_stdlib[e.name].params)
  THEN Lower(Builtin(e.name), lower_stdlib_args(e.name, 1, e.args, c))
  ELSE Declined(c)
-----------------------------------------------------------------------------
(* Rewritings of calls (peephole.rs).  One that does not apply leaves the  *)
(* call to the next; what its attempt has bound is not taken back.         *)
ListTypes == {"ListInt", "ListFloat", "ListBool", "ListString", "ListSchema", "ListList"}

HasTy(c, tys) == c.err = "" /\ TopTy(c) \in tys

(* The number of elements, which every list begins with. *)
ReadStringLen(c) == Push(Pop(c, 1), Ld32(TopE(c)), "I64")

try_lower_list_len(e, c) ==
  LET list == Lower(e.args[1], c)
  IN CASE ~IsCallTo(e, {"_len", "len"}, 1) -> Fail(c, "pass")
       [] IsCallTo(e, {"_len", "len"}, 1) /\ HasTy(list, {"ListInt"}) -> ReadStringLen(list)
       [] OTHER -> Passed(c, list)

try_lower_list_count(e, c) ==
  LET list == Lower(e.args[1], c)
  IN CASE ~IsCallTo(e, {"count"}, 1) -> Fail(c, "pass")
       [] IsCallTo(e, {"count"}, 1) /\ HasTy(list, ListTypes) -> ReadStringLen(list)
       [] OTHER -> Passed(c, list)

ElementTy(list) == CASE list = "ListInt" -> "I64" [] list = "ListFloat" -> "F64" [] OTHER -> "String"

(* The functions that map a list, by the result of the closure. *)
MapTargets(list) ==
  CASE list = "ListInt" -> << <<"I64", "list_int_map">>, <<"F64", "list_int_map_to_float">>, <<"String", "list_int_map_to_string">> >>
    [] list = "ListFloat" -> << <<"F64", "list_float_map">>, <<"I64", "list_float_map_to_int">>, <<"String", "list_float_map_to_string">> >>
    [] list = "ListString" -> << <<"String", "list_string_map">> >>

(* The closure is lowered for one result after the other until it fits. *)
RECURSIVE try_lower_closure_with_ret(_, _, _, _)
try_lower_closure_with_ret(f, element, targets, c) ==
  IF targets = <<>> THEN Fail(c, "pass")
  ELSE LET made == lower_closure(f, Fn(<<element>>, Head(targets)[1]), c)
       IN CASE made.err = "mismatch" -> try_lower_closure_with_ret(f, element, Tail(targets), Rollback(c, made))
            [] made.err = "" -> Lower(Builtin(Head(targets)[2]), made)
            [] OTHER -> made

(* On the list on top. *)
emit_list_hof(kind, f, c) ==
  LET element == ElementTy(TopTy(c))
      filter == IF TopTy(c) = "ListInt" THEN "list_int_filter" ELSE "list_float_filter"
  IN CASE kind = "Map" -> try_lower_closure_with_ret(f, element, MapTargets(TopTy(c)), c)
       [] kind = "Filter" /\ element # "String" -> Lower(Builtin(filter), lower_closure(f, Fn(<<element>>, "Bool"), c))
       [] OTHER -> Fail(c, "pass")

emit_list_hof_call(kind, args, c) ==
  LET list == Lower(args[1], c)
      made == emit_list_hof(kind, args[2], list)
  IN CASE ~HasTy(list, {"ListInt", "ListFloat", "ListString"}) -> Passed(c, list)
       [] HasTy(list, {"ListInt", "ListFloat", "ListString"}) /\ made.err = "pass" -> Passed(c, made)
       [] OTHER -> made

try_lower_list_filter(e, c) ==
  LET list == Lower(e.args[1], c)
  IN CASE ~IsCallTo(e, {"_list_filter"}, 2) -> Fail(c, "pass")
       [] IsCallTo(e, {"_list_filter"}, 2) /\ ~IsClosureOf(e.args[2], 1) -> Fail(c, "pass")
       [] OTHER ->
            CASE HasTy(list, {"ListFloat"}) -> emit_list_hof_call("Filter", e.args, Rollback(c, list))
              [] HasTy(list, {"ListInt"}) -> Lower(Builtin("list_int_filter"), Lower(StdlibArg("list_int_filter", 2, e.args[2]), list))
              [] OTHER -> Passed(c, list)

try_lower_list_map(e, c) ==
  CASE ~IsCallTo(e, {"_list_map"}, 2) -> Fail(c, "pass")
    [] IsCallTo(e, {"_list_map"}, 2) /\ ~IsClosureOf(e.args[2], 1) -> Fail(c, "pass")
    [] OTHER -> emit_list_hof_call("Map", e.args, c)

try_lower_list_pred(e, c) ==
  LET list == Lower(e.args[1], c)
      f == (IF TopTy(list) = "ListInt" THEN "list_int_" ELSE "list_float_") \o e.name
  IN CASE ~IsCallTo(e, {"every", "some"}, 2) -> Fail(c, "pass")
       [] IsCallTo(e, {"every", "some"}, 2) /\ ~IsClosureOf(e.args[2], 1) -> Fail(c, "pass")
       [] OTHER ->
            IF HasTy(list, {"ListInt", "ListFloat"}) THEN Lower(Builtin(f), Lower(StdlibArg(f, 2, e.args[2]), list))
            ELSE Passed(c, list)

try_lower_list_unique(e, c) ==
  LET list == Lower(e.args[1], c)
  IN CASE ~IsCallTo(e, {"unique"}, 1) -> Fail(c, "pass")
       [] IsCallTo(e, {"unique"}, 1) /\ HasTy(list, {"ListInt"}) -> Lower(Builtin("list_int_unique"), list)
       [] IsCallTo(e, {"unique"}, 1) /\ HasTy(list, {"ListFloat"}) -> Lower(Builtin("list_float_unique"), list)
       [] OTHER -> Passed(c, list)

sort_builtin_name(element, key, desc) ==
  LET letter(ty) == IF ty = "I64" THEN "i" ELSE "f"
  IN "list_sort_by_" \o letter(element) \o letter(key) \o (IF desc THEN "_desc" ELSE "_asc")

try_lower_list_sort_by(e, c) ==
  LET list == Lower(e.args[1], c)
      element == ElementTy(TopTy(list))
      target(key) == <<key, sort_builtin_name(element, key, e.name = "_list_sort_by_desc")>>
      sorted == try_lower_closure_with_ret(e.args[2], element, <<target("I64"), target("F64")>>, list)
      names == {"_list_sort_by", "_list_sort_by_desc"}
  IN CASE ~IsCallTo(e, names, 2) -> Fail(c, "pass")
       [] IsCallTo(e, names, 2) /\ ~IsClosureOf(e.args[2], 1) -> Fail(c, "pass")
       [] OTHER ->
            CASE ~HasTy(list, {"ListInt", "ListFloat"}) -> Passed(c, list)
              [] HasTy(list, {"ListInt", "ListFloat"}) /\ sorted.err = "pass" -> Passed(c, sorted)
              [] OTHER -> sorted
try_lower_list_sum_value(e, c) ==
  LET list == Lower(e.args[1], c)
  IN CASE ~IsCallTo(e, {"list.sum"}, 1) -> Fail(c, "pass")
       [] IsCallTo(e, {"list.sum"}, 1) /\ HasTy(list, {"ListInt"}) -> Lower(Builtin("list_int_sum"), list)
       [] OTHER -> Passed(c, list)

(* An integer on top becomes a float. *)
Widened(c) == IF HasTy(c, {"I64"}) THEN Push(Pop(c, 1), ToF64(TopE(c)), "F64") ELSE c

emit_list_float_fold_call(args, c) ==
  LET list == Lower(args[1], c)
      init == Widened(Lower(args[2], list))
  IN CASE ~HasTy(list, {"ListFloat"}) -> Passed(c, list)
       [] HasTy(list, {"ListFloat"}) /\ ~HasTy(init, {"F64"}) -> Declined(init)
       [] OTHER -> Lower(Builtin("list_float_fold"), Lower(StdlibArg("list_float_fold", 3, args[3]), init))

emit_list_int_fold_call(args, c) ==
  LET list == Lower(args[1], c)
      init == Lower(args[2], list)
  IN CASE HasTy(list, {"ListFloat"}) -> emit_list_float_fold_call(args, Rollback(c, list))
       [] HasTy(list, {"ListInt"}) ->
            IF HasTy(init, {"I64"}) THEN Lower(Builtin("list_int_fold"), Lower(StdlibArg("list_int_fold", 3, args[3]), init))
            ELSE Declined(init)
       [] OTHER -> Passed(c, list)

try_lower_list_reduce(e, c) ==
  CASE ~IsCallTo(e, {"_list_reduce"}, 3) -> Fail(c, "pass")
    [] IsCallTo(e, {"_list_reduce"}, 3) /\ ~IsClosureOf(e.args[3], 2) -> Fail(c, "pass")
    [] OTHER -> emit_list_int_fold_call(e.args, c)

(* The name of the static type, behind the effects of the argument. *)
type_name(ty) ==
  CASE ty = "I64" -> <<73, 110, 116>>
    [] ty = "F64" -> <<70, 108, 111, 97, 116>>
    [] ty = "Bool" -> <<66, 111, 111, 108>>
    [] ty = "Unit" -> <<85, 110, 105, 116>>
    [] ty = "String" -> <<83, 116, 114, 105, 110, 103>>
    [] ty \in ListTypes -> <<76, 105, 115, 116>>
    [] ty = "Dict" -> <<68, 105, 99, 116>>
    [] ty = "Closure" -> <<67, 108, 111, 115, 117, 114, 101>>
    [] OTHER -> <<>>

try_lower_type_const(e, c) ==
  LET arg == Lower(e.args[1], c)
  IN CASE ~IsCallTo(e, {"type"}, 1) -> Fail(c, "pass")
       [] IsCallTo(e, {"type"}, 1) /\ (arg.err # "" \/ type_name(TopTy(arg)) = <<>>) -> Passed(c, arg)
       [] OTHER -> visit_const_string(SetNext(Pop(arg, 1), TopE(arg)), type_name(TopTy(arg)))

try_lower_scalar_math(e, c) ==
  LET names == {"abs", "floor", "ceil", "round", "sqrt"}
      arg == Lower(e.args[1], c)
  IN CASE ~IsCallTo(e, names, 1) -> Fail(c, "pass")
       [] IsCallTo(e, names, 1) /\ ~HasTy(arg, {"I64", "F64"}) -> Passed(c, arg)
       [] OTHER ->
            CASE e.name = "abs" -> Lower(Builtin(IF TopTy(arg) = "I64" THEN "abs" ELSE "abs_float"), arg)
              [] e.name = "sqrt" -> Lower(Builtin("sqrt"), Widened(arg))
              [] OTHER -> IF TopTy(arg) = "I64" THEN arg ELSE Lower(Builtin(e.name), arg)

(* All the arguments are integers, or all become floats. *)
RECURSIVE LowerNumbers(_, _, _)
LowerNumbers(es, ty, c) ==
  IF es = <<>> THEN c
  ELSE LET arg == Lower(Head(es), c)
           number == IF ty = "F64" THEN Widened(arg) ELSE arg
       IN IF HasTy(number, {ty}) THEN LowerNumbers(Tail(es), ty, number) ELSE Passed(c, arg)

(* pow, a call of the C library, is left out. *)
try_lower_predicate_math(e, c) ==
  LET arity == [multiple_of |-> 2, in_range |-> 3]
      args == LowerNumbers(e.args, IF e.name = "multiple_of" THEN "I64" ELSE "F64", c)
  IN CASE ~(e.e = "Call" /\ e.name \in DOMAIN arity) -> Fail(c, "pass")
       [] e.e = "Call" /\ e.name \in DOMAIN arity /\ Len(e.args) # arity[e.name] -> Fail(c, "pass")
       [] OTHER -> IF args.err # "" THEN Passed(c, args) ELSE Lower(Builtin(e.name), args)

try_lower_size_in_range(e, c) ==
  LET of == Lower(e.args[1], c)
      args == LowerNumbers(<<e.args[2], e.args[3]>>, "I64", of)
      f == IF TopTy(of) = "Dict" THEN "dict_size_in_range" ELSE "size_in_range"
  IN CASE ~IsCallTo(e, {"size_in_range"}, 3) -> Fail(c, "pass")
       [] IsCallTo(e, {"size_in_range"}, 3) /\ HasTy(of, {"String"}) -> Declined(Rollback(c, of))
       [] OTHER ->
            CASE ~HasTy(of, ListTypes \cup {"Dict"}) -> Passed(c, of)
              [] HasTy(of, ListTypes \cup {"Dict"}) /\ args.err # "" -> Passed(c, args)
              [] OTHER -> Lower(Builtin(f), args)

(* A method: the receiver is a name, a path of names, or an expression. *)
lower_method_receiver(e, c) ==
  IF e.e # "Variable" \/ \A k \in DOMAIN e.path : e.path[k].seg = "key" THEN Lower(e, c) ELSE Declined(c)

lower_method_call(e, c) ==
  LET of == lower_method_receiver(e.receiver, c)
      hof == /\ e.name \in {"map", "filter"} /\ Len(e.args) = 1
             /\ HasTy(of, {"ListInt", "ListFloat", "ListString"}) /\ IsClosureOf(e.args[1], 1)
      rewritten == emit_list_hof(IF e.name = "map" THEN "Map" ELSE "Filter", e.args[1], of)
      at == IF hof THEN [rewritten EXCEPT !.err = ""] ELSE of
      f == stdlib_method_index(TopTy(of), e.name)
      separated == e.args[1].e = "String" /\ e.args[1].v # <<>>
  IN CASE of.err # "" -> Declined(of)
       [] of.err = "" /\ hof /\ rewritten.err # "pass" -> rewritten
       [] OTHER ->
            IF \/ f = "" \/ Len(builtin_stdlib[f].params) # 1 + Len(e.args)
               \/ e.name = "split" /\ TopTy(of) = "String" /\ ~separated
            THEN Declined(at)
            ELSE Lower(Builtin(f), lower_stdlib_args(f, 2, e.args, check_stdlib_arg(f, 1, at)))

lower_stdlib_call(e, c) == IF e.e = "Call" THEN lower_free_call(e, c) ELSE lower_method_call(e, c)

(* A comprehension (call.rs): a filter and a map with the closures that    *)
(* the condition and the element are the bodies of.  Any failure of one    *)
(* candidate for the result leads to the next.                             *)
RECURSIVE emit_map_with_ret(_, _, _, _)
emit_map_with_ret(f, element, targets, c) ==
  LET made == lower_closure(f, Fn(<<element>>, Head(targets)[1]), c)
  IN CASE made.err = "" -> Lower(Builtin(Head(targets)[2]), made)
       [] made.err # "" /\ Len(targets) > 1 -> emit_map_with_ret(f, element, Tail(targets), Rollback(c, made))
       [] OTHER -> made

lower_comprehension(e, c) ==
  LET list == Lower(e.iterable, c)
      over(body) == ClosureE(<<Param(e.id, "")>>, body)
      kept == CASE e.condition = <<>> -> list
                [] e.condition # <<>> /\ TopTy(list) = "ListString" -> Declined(Pop(list, 1))
                [] OTHER -> emit_list_hof("Filter", over(e.condition[1]), list)
  IN CASE ~HasTy(list, {"ListInt", "ListFloat", "ListString"}) -> Declined(Pop(list, 1))
       [] HasTy(list, {"ListInt", "ListFloat", "ListString"}) /\ kept.err # "" -> kept
       [] OTHER -> emit_map_with_ret(over(e.element), ElementTy(TopTy(kept)), MapTargets(TopTy(kept)), kept)

(* The rewritings in their order. *)
Attempt(k, e, c) ==
  CASE k = 1 -> try_lower_local_closure_call(e, c)
    [] k = 2 -> try_lower_len_filter_range(e, c)
    [] k = 3 -> try_lower_list_len(e, c)
    [] k = 4 -> try_lower_list_count(e, c)
    [] k = 5 -> try_lower_list_filter(e, c)
    [] k = 6 -> try_lower_list_pred(e, c)
    [] k = 7 -> try_lower_list_unique(e, c)
    [] k = 8 -> try_lower_list_map(e, c)
    [] k = 9 -> try_lower_list_sort_by(e, c)
    [] k = 10 -> try_lower_list_sum_range(e, c)
    [] k = 11 -> try_lower_list_sum_value(e, c)
    [] k = 12 -> try_lower_range_chain_len(e, c)
    [] k = 13 -> try_lower_nested_range_map_reduce(e, c)
    [] k = 14 -> try_lower_range_chain_reduce(e, c)
    [] k = 15 -> try_lower_materialized_list_reduce(e, c)
    [] k = 16 -> try_lower_list_reduce(e, c)
    [] k = 17 -> try_lower_range_value(e, c)
    [] k = 18 -> try_lower_type_const(e, c)
    [] k = 19 -> try_lower_scalar_math(e, c)
    [] k = 20 -> try_lower_predicate_math(e, c)
    [] k = 21 -> try_lower_size_in_range(e, c)
    [] k = 22 -> lower_stdlib_call(e, c)

(* The forms lo .. hi in order, by halves: the first that does not pass stands. *)
RECURSIVE FirstThatApplies(_, _, _, _)
FirstThatApplies(lo, hi, e, c) ==
  LET mid == (lo + hi) \div 2
      first == FirstThatApplies(lo, mid, e, c)
  IN IF lo = hi THEN Lower(Rewritten(lo, e), c)
     ELSE IF first.err = "pass" THEN FirstThatApplies(mid + 1, hi, e, [first EXCEPT !.err = ""])
     ELSE first

lower_fn_call(e, c) == FirstThatApplies(1, 22, e, c)
-----------------------------------------------------------------------------
(* A value where its type is known (record_value.rs). *)
lower_ternary_as_type(t, e, c) ==
  LET cond == Lower(e.cond, c)
      at == Check(Pop(cond, 1), TopTy(cond) = "Bool")
      then == Lower(Wanted(t, e.then), [at EXCEPT !.out = <<>>])
      els == Lower(Wanted(t, e.els), [Resumed(then, at) EXCEPT !.out = <<>>])
      ty == type_repr_to_ir_type(t)
  IN PushMade(Check(Resumed(els, at), TopTy(then) = TopTy(els) /\ TopTy(then) = ty),
              <<If(TopE(cond), BranchCode(then), BranchCode(els))>>, ty)

(* A variant: its tag, and its payload in one slot. *)
emit_variant_record_from_lowered_payload(t, tag, c) ==
  LET payload == t.payloads[tag + 1]
      unit == payload = <<>>
      align == variant_record_alignment_for_lowering(t)
      rest == IF unit THEN c ELSE Check(Pop(c, 1), wasm_slot(TopTy(c)) = wasm_slot(type_repr_to_ir_type(payload[1])))
      size == IF unit THEN 1 ELSE variant_payload_offset_for_lowering(payload[1]) + SlotSize(payload[1])
      value == IF unit THEN <<>> ELSE <<TopE(c)>>
      of == IF unit THEN UnitT ELSE payload[1]
      x == NextSlot(rest)
  IN PushMade(rest, IF c.in_scratch THEN <<BuildVariantRecordScratch(x, tag, size, align, value, of)>>
                    ELSE <<BuildVariantRecord(x, tag, size, align, value, of)>>, "I32")

(* payload is <<>> or the expression of the payload. *)
emit_standard_variant_record(t, tag, payload, c) ==
  CASE (payload = <<>>) # (t.payloads[tag + 1] = <<>>) -> Declined(c)
    [] payload = <<>> /\ t.payloads[tag + 1] = <<>> -> emit_variant_record_from_lowered_payload(t, tag, c)
    [] OTHER -> emit_variant_record_from_lowered_payload(t, tag, Lower(Wanted(t.payloads[tag + 1][1], payload[1]), c))

(* A record in the output or, in a closure, in the scratch. *)
alloc_record_op(fields, c) ==
  Emit([c EXCEPT !.records = @ + 1],
       IF c.in_scratch THEN <<AllocScratchRecord(c.records, fields)>> ELSE <<AllocSubRecord(c.records, fields)>>)

push_record_base_for_pointer(k, c) ==
  IF c.in_scratch THEN PushAtom(c, RecordLocal(k), "I32") ELSE Push(c, OutPtr ++ emit_push_record_base(k), "I32")

store_field_at_record_op(t, i, k, v, c) ==
  LET offset == field_offset(t.fields, i)
  IN IF c.in_scratch THEN <<StoreFieldAtRecordAbsolute(k, offset, t.fields[i], v)>>
     ELSE <<StoreFieldAtRecord(k, offset, t.fields[i], v)>>

(* The type that a field's value has on the stack. *)
StoreTy(t) == IF IsInline(t) THEN type_repr_to_ir_type(t) ELSE "I32"

StoreTop(t, i, k, c) ==
  Emit(Check(Pop(c, 1), TopTy(c) = StoreTy(t.fields[i])), store_field_at_record_op(t, i, k, TopE(c), c))

RECURSIVE LowerFields(_, _, _, _)
LowerFields(t, es, k, c) ==
  LET i == Len(es)
  IN IF es = <<>> THEN c
     ELSE LET before == LowerFields(t, SubSeq(es, 1, i - 1), k, c)
          IN StoreTop(t, i, k, Lower(InField(t.fields[i], es[i]), before))

lower_tuple_into_record(t, items, k, c) == LowerFields(t, items, k, c)

(* The record of an enum's variant, whose fields are all given. *)
lower_plain_dict_into_record(t, pairs, k, c) ==
  LET value(name) == pairs[CHOOSE j \in GivenFor(pairs, name) : TRUE].value
  IN IF IsRecordOf(pairs, t) /\ Len(pairs) = Len(t.names) /\ \A j \in DOMAIN pairs : pairs[j].key # "..."
     THEN LowerFields(t, [i \in DOMAIN t.names |-> value(t.names[i])] \o <<>>, k, c)
     ELSE Fail(c, "cap")

lower_schema_value_as_absolute_pointer(t, e, c) ==
  LET k == c.records
      made == alloc_record_op(t.fields, c)
  IN CASE e.e = "Dict" /\ t.names # <<>> ->
            push_record_base_for_pointer(k, IF IsDeclared(t) THEN Lower(IntoRecord(t, e.pairs, k), made)
                                            ELSE lower_plain_dict_into_record(t, e.pairs, k, made))
       [] e.e = "Tuple" /\ t.names = <<>> ->
            push_record_base_for_pointer(k, IF Len(e.items) = Len(t.fields) THEN lower_tuple_into_record(t, e.items, k, made)
                                            ELSE Fail(made, "cap"))
       [] OTHER -> Lower(e, c)

lower_variant_ctor_as_type(t, e, c) ==
  LET unit == t.payloads[e.tag + 1] = <<>>
      labelled == Len(e.pairs) = 1 /\ e.pairs[1].key = t.labels[e.tag + 1]
  IN CASE unit -> IF e.pairs = <<>> THEN emit_standard_variant_record(t, e.tag, <<>>, c) ELSE Declined(c)
       [] ~unit /\ t.labels # <<>> ->
            IF labelled THEN emit_standard_variant_record(t, e.tag, <<e.pairs[1].value>>, c) ELSE Declined(c)
       [] OTHER -> emit_standard_variant_record(t, e.tag, <<DictE(e.pairs)>>, c)

lower_variant_call_as_type(t, e, c) ==
  LET unit == t.payloads[e.tag + 1] = <<>>
      record == t.payloads[e.tag + 1][1]
      filled == LowerFields(record, e.args, c.records, alloc_record_op(record.fields, c))
  IN CASE unit -> IF e.args = <<>> THEN emit_standard_variant_record(t, e.tag, <<>>, c) ELSE Declined(c)
       [] ~unit /\ t.labels # <<>> ->
            IF Len(e.args) = 1 THEN emit_standard_variant_record(t, e.tag, e.args, c) ELSE Declined(c)
       [] OTHER ->
            IF record.names = <<>> /\ Len(e.args) = Len(record.fields)
            THEN emit_variant_record_from_lowered_payload(t, e.tag, push_record_base_for_pointer(c.records, filled))
            ELSE Declined(c)

RECURSIVE LowerAllAs(_, _, _)
LowerAllAs(t, es, c) ==
  IF es = <<>> THEN c
  ELSE LET v == Lower(Wanted(t, Head(es)), c)
       IN LowerAllAs(t, Tail(es), Check(v, wasm_slot(TopTy(v)) = "I32"))

lower_variant_record_list_literal(element, items, c) ==
  LET n == Len(items)
      all == LowerAllAs(element, items, c)
      rest == Pop(all, n)
  IN PushMade(rest, <<BuildPointerList(NextSlot(rest), [i \in 1 .. n |-> Under(all, n - i).e] \o <<>>)>>, "ListList")

-----------------------------------------------------------------------------
(* Lists of variants (peephole.rs, call.rs).  The method forms drop the    *)
(* code and the operands before them.                                      *)
variant_list_map_builtin(list) ==
  CASE list = "ListInt" -> "list_int_map_to_variant_list"
    [] list = "ListFloat" -> "list_float_map_to_variant_list"
    [] list = "ListString" -> "list_string_map_to_variant_list"

Fresh(c) == [c EXCEPT !.out = <<>>, !.stack = <<>>]

MapToVariants(element, f, c) ==
  Lower(Builtin(variant_list_map_builtin(TopTy(c))), Lower(AsClosure(f, Fn(<<ElementTy(TopTy(c))>>, "I32"), <<UnitT>>, <<element>>), c))

FilterVariants(element, f, c) ==
  Lower(Builtin("list_list_filter"), Lower(AsClosure(f, Fn(<<"I32">>, "Bool"), <<element>>, <<>>), c))

emit_variant_list_filter_call_as_type(element, e, c) ==
  LET list == Lower(e.args[1], c)
  IN CASE ~IsCallTo(e, {"_list_filter"}, 2) -> Fail(c, "pass")
       [] IsCallTo(e, {"_list_filter"}, 2) /\ (~IsClosureOf(e.args[2], 1) \/ ~HasTy(list, {"ListList"})) -> Passed(c, list)
       [] OTHER -> FilterVariants(element, e.args[2], list)

emit_variant_list_map_call_as_type(element, e, c) ==
  LET list == Lower(e.args[1], c)
  IN CASE ~IsCallTo(e, {"_list_map"}, 2) -> Fail(c, "pass")
       [] IsCallTo(e, {"_list_map"}, 2) /\ (~IsClosureOf(e.args[2], 1) \/ ~HasTy(list, {"ListInt", "ListFloat", "ListString"})) ->
            Passed(c, list)
       [] OTHER -> MapToVariants(element, e.args[2], list)

IsMethodOn(e, name) == e.e = "Method" /\ e.name = name /\ Len(e.args) = 1 /\ IsClosureOf(e.args[1], 1)

emit_variant_list_filter_method_as_type(element, e, c) ==
  LET list == lower_method_receiver(e.receiver, Fresh(c))
  IN CASE ~IsMethodOn(e, "filter") -> Fail(c, "pass")
       [] IsMethodOn(e, "filter") /\ ~HasTy(list, {"ListList"}) -> Passed(c, list)
       [] OTHER -> FilterVariants(element, e.args[1], list)

emit_variant_list_map_method_as_type(element, e, c) ==
  LET list == lower_method_receiver(e.receiver, Fresh(c))
  IN CASE ~IsMethodOn(e, "map") -> Fail(c, "pass")
       [] IsMethodOn(e, "map") /\ ~HasTy(list, {"ListInt", "ListFloat", "ListString"}) -> Passed(c, list)
       [] OTHER -> MapToVariants(element, e.args[1], list)

AttemptAsList(k, element, e, c) ==
  CASE k = 1 -> emit_variant_list_filter_call_as_type(element, e, c)
    [] k = 2 -> emit_variant_list_filter_method_as_type(element, e, c)
    [] k = 3 -> emit_variant_list_map_call_as_type(element, e, c)
    [] k = 4 -> emit_variant_list_map_method_as_type(element, e, c)
    [] k = 5 -> Lower(e, c)

RECURSIVE lower_variant_list_call(_, _, _, _)
lower_variant_list_call(k, element, e, c) ==
  LET tried == AttemptAsList(k, element, e, c)
  IN IF tried.err = "pass" THEN lower_variant_list_call(k + 1, element, e, [tried EXCEPT !.err = ""]) ELSE tried

lower_comprehension_as_type(element, e, c) ==
  LET list == Lower(e.iterable, c)
      over(body) == ClosureE(<<Param(e.id, "")>>, body)
      kept == CASE e.condition = <<>> -> list
                [] e.condition # <<>> /\ TopTy(list) = "ListString" -> Declined(Pop(list, 1))
                [] OTHER -> emit_list_hof("Filter", over(e.condition[1]), list)
  IN CASE ~HasTy(list, {"ListInt", "ListFloat", "ListString"}) -> Declined(Pop(list, 1))
       [] HasTy(list, {"ListInt", "ListFloat", "ListString"}) /\ kept.err # "" -> kept
       [] OTHER -> MapToVariants(element, over(e.element), kept)

lower_value_as_type(t, e, c) ==
  LET variants == t.k = "List" /\ t.element.k = "Variant"
      of == t.k = "Variant" /\ e.e \in {"VariantCtor", "VariantCall", "VariantName"} /\ e.of.name = t.name
  IN CASE c.err # "" -> Failed(c, c.err)
       [] c.err = "" /\ e.e = "Ternary" -> lower_ternary_as_type(t, e, c)
       [] c.err = "" /\ variants /\ e.e \in {"Call", "Method"} -> lower_variant_list_call(1, t.element, e, c)
       [] c.err = "" /\ variants /\ e.e = "Comprehension" -> lower_comprehension_as_type(t.element, e, c)
       [] c.err = "" /\ variants /\ e.e = "List" -> lower_variant_record_list_literal(t.element, e.items, c)
       [] c.err = "" /\ of /\ e.e = "VariantCtor" -> lower_variant_ctor_as_type(t, e, c)
       [] c.err = "" /\ of /\ e.e = "VariantCall" -> lower_variant_call_as_type(t, e, c)
       [] c.err = "" /\ of /\ e.e = "VariantName" -> emit_standard_variant_record(t, e.tag, <<>>, c)
       [] c.err = "" /\ t.k = "Schema" /\ e.e # "Ternary" -> lower_schema_value_as_absolute_pointer(t, e, c)
       [] OTHER -> Lower(e, c)

-----------------------------------------------------------------------------
(* Records from literals (dict_record.rs). *)
TailCopied(t, c) ==
  LET rest == Pop(c, 1)
      fits == Check(rest, TopTy(c) = type_repr_to_ir_type(t))
  IN IF c.in_scratch THEN PushAtom(fits, TopE(c), "I32")
     ELSE PushMade(fits, <<EmitTailRecordFromAbsoluteAddr(NextSlot(rest), TopE(c), t)>>, "I32")

AsPointer(ty, c) == PushAtom(Check(Pop(c, 1), TopTy(c) = ty), TopE(c), "I32")

(* The value of a field.  A list of strings is copied only when it is a    *)
(* literal; a list of the arguments stays where it is.                     *)
lower_dict_field_value(t, e, c) ==
  LET k == c.records
      made == alloc_record_op(t.fields, c)
      ty == type_repr_to_ir_type(t)
  IN CASE c.err # "" -> Failed(c, c.err)
       [] c.err = "" /\ t.k = "Schema" /\ e.e = "Dict" /\ t.names # <<>> ->
            push_record_base_for_pointer(k, IF IsDeclared(t) THEN Lower(IntoRecord(t, e.pairs, k), made) ELSE Fail(made, "cap"))
       [] c.err = "" /\ t.k = "Schema" /\ e.e = "Tuple" /\ t.names = <<>> ->
            push_record_base_for_pointer(k, IF Len(e.items) = Len(t.fields) THEN lower_tuple_into_record(t, e.items, k, made)
                                            ELSE Fail(made, "cap"))
       [] c.err = "" /\ t.k = "Variant" /\ e.e \in {"VariantCtor", "VariantCall", "VariantName", "Variable", "Call", "Method"} ->
            Lower(Wanted(t, e), c)
       [] c.err = "" /\ t.k \in {"String", "List"} ->
            CASE branded_field_cross_region_param_list(t, e, c) -> AsPointer(ty, Lower(e, c))
              [] t.k = "List" /\ t.element.k = "Variant" /\ e.e = "List" -> AsPointer("ListList", Lower(Wanted(t, e), c))
              [] ty \in {"ListString", "ListSchema", "ListList"} /\ e.e # "List" /\ ~branded_field_cross_region_param_list(t, e, c) ->
                   Declined(c)
              [] OTHER -> IF ty \in {"ListString", "ListSchema", "ListList"} /\ ~pointer_array_list_source_is_const_pool(e)
                          THEN Declined(c) ELSE TailCopied(t, Lower(e, c))
       [] OTHER -> Lower(e, c)

lower_dict_default(t, i, c) ==
  CASE t.rules[i] = <<>> -> Declined(c)
    [] t.rules[i] # <<>> /\ t.fields[i].k = "Variant" -> Lower(Wanted(t.fields[i], t.rules[i][1]), c)
    [] OTHER -> Lower(t.rules[i][1], c)

(* The fields in their order, each bound to its name for those behind it.  *)
StoreBound(t, i, k, c, v) ==
  Emit(BindNext(Check(Pop(v, 1), TopTy(v) = StoreTy(t.fields[i])), t.names[i], TopE(v), TopTy(v), UnitT),
       store_field_at_record_op(t, i, k, Let(v.next), c))

RECURSIVE LowerInOrder(_, _, _, _, _)
LowerInOrder(t, order, pairs, k, c) ==
  LET i == Head(order)
      given == GivenFor(pairs, t.names[i])
      v == IF given # {} THEN Lower(InField(t.fields[i], pairs[CHOOSE j \in given : TRUE].value), c)
           ELSE lower_dict_default(t, i, c)
  IN IF order = <<>> THEN c
     ELSE IF v.err # "" THEN v
     ELSE LowerInOrder(t, Tail(order), pairs, k, StoreBound(t, i, k, c, v))

IntoFields(t, all, order, c, stored) ==
  IF IsRecordOf(all, t) /\ Len(order) = Len(t.names) THEN Truncated(stored, Len(stored.lets) - Len(t.names))
  ELSE Fail(c, "cap")

IntoOrdered(t, all, order, k, c) == IntoFields(t, all, order, c, LowerInOrder(t, order, all, k, c))

IntoGiven(t, all, k, c) == IntoOrdered(t, all, topo_order_fields(t, {all[j].key : j \in DOMAIN all}), k, c)

lower_dict_into_record(t, pairs, k, c) == IntoGiven(t, SpreadPairs(pairs, t, c), k, c)

-----------------------------------------------------------------------------
(* Matches (enum_match.rs). *)
emit_enum_pattern_bindings(x, of, tag, bindings, k, c) ==
  LET name == bindings[k].name
      field == enum_pattern_binding_field_name(of, tag, bindings, k)
      t == enum_payload_field_type(of, tag, field)
      v == lower_enum_payload_path(<<Key(field)>>, [head |-> "", of |-> of, tag |-> tag], PushAtom(c, x, "I32"))
      twice == \E j \in 1 .. k - 1 : bindings[j].name = name
      bound == BindNext(Check(Pop(v, 1), ~twice), name, TopE(v), TopTy(v), t)
  IN CASE k > Len(bindings) \/ c.err # "" -> c
       [] k <= Len(bindings) /\ c.err = "" /\ name = "" -> Lower(PatternBindings(x, of, tag, bindings, k + 1), c)
       [] OTHER -> Lower(PatternBindings(x, of, tag, bindings, k + 1), bound)

(* In an arm the name of the value stands for the variant of the arm. *)
lower_branch_with_enum_narrowing(arm, name, x, c) ==
  LET p == arm.pattern
      known == {n \in c.narrowed : n.head # name} \cup {[head |-> name, of |-> p.of, tag |-> p.tag]}
      entered == Lower(PatternBindings(x, p.of, p.tag, p.bindings, 1), [c EXCEPT !.out = <<>>, !.narrowed = known])
  IN [Truncated(Lower(arm.body, entered), Len(c.lets)) EXCEPT !.narrowed = c.narrowed]

(* The arms up to the first that takes everything: their code, with the    *)
(* tag or -1, and their types.                                             *)
LoweredArm(arm, b) ==
  [tag |-> IF arm.pattern.p = "any" THEN -1 ELSE arm.pattern.tag, code |-> BranchCode(b), ty |-> TopTy(b)]

RECURSIVE LowerArms(_, _, _, _, _, _), ArmsBehind(_, _, _, _, _, _, _)
LowerArms(arms, t, name, x, c, done) ==
  LET arm == Head(arms)
      any == arm.pattern.p = "any"
      b == IF any THEN lower_branch(arm.body, c) ELSE lower_branch_with_enum_narrowing(arm, name, x, c)
  IN CASE arms = <<>> -> [ctx |-> c, arms |-> done]
       [] arms # <<>> /\ ~any /\ ~matched_enum_variant(t, arm.pattern) -> [ctx |-> Fail(c, "cap"), arms |-> done]
       [] OTHER -> ArmsBehind(arms, t, name, x, c, done, b)

ArmsBehind(arms, t, name, x, c, done, b) ==
  LowerArms(IF Head(arms).pattern.p = "any" THEN <<>> ELSE Tail(arms), t, name, x, Resumed(b, c),
            Append(done, LoweredArm(Head(arms), b)))

enum_tag_test_ops(x, tag) == Ld8(x) \doteq K(tag)

(* The last arm is not tested. *)
RECURSIVE runtime_enum_match_chain(_, _)
runtime_enum_match_chain(arms, x) ==
  CASE Len(arms) = 1 \/ Head(arms).tag = -1 -> Head(arms).code
    [] OTHER -> <<If(enum_tag_test_ops(x, Head(arms).tag), Head(arms).code, runtime_enum_match_chain(Tail(arms), x))>>

(* What runs when no arm applies: a trap, and a value for the types. *)
no_match_trap_body_ops(ty, x, c) ==
  LET empty == visit_const_string(c, <<>>)
      placeholder == IF ty = "String" THEN TopE(empty) ELSE K(0)
  IN [ctx |-> Check(IF ty = "String" THEN Pop(empty, 1) ELSE c, ty \in {"I64", "I32", "F64", "Bool", "String"}),
      code |-> <<Trap("TypeMismatch"), x := placeholder>>]

MatchArms(e, t, c, all, arms) ==
  LET x == Let(c.next)
      ty == arms[1].ty
      tags == {arms[k].tag : k \in DOMAIN arms}
      open == -1 \notin tags /\ ~(0 .. Len(t.payloads) - 1 \subseteq tags)
      trap == no_match_trap_body_ops(ty, NextSlot(c), all)
      chain == IF open THEN Append(arms, [tag |-> -1, code |-> trap.code, ty |-> ty]) ELSE arms
      agreed == Check(IF open THEN trap.ctx ELSE all, \A k \in DOMAIN arms : arms[k].ty = ty)
      value == Lower(e.scrutinee, agreed)
      held == Assign(Check(Pop(value, 1), TopTy(value) = "I32"), x, TopE(value))
  IN IF all.err # "" THEN Failed(all, "cap") ELSE PushMade(held, runtime_enum_match_chain(chain, x), ty)

MatchLowered(e, t, c, all) == MatchArms(e, t, c, all.ctx, all.arms)

try_lower_runtime_enum_match(e, t, c) ==
  LET start == [Reserve(c, 1) EXCEPT !.bound = @ \cup {c.next}]
  IN IF e.arms = <<>> THEN Declined(c)
     ELSE MatchLowered(e, t, c, LowerArms(e.arms, t, e.scrutinee.head, Let(c.next), start, <<>>))

(* The arm is known from the type: the value is computed and forgotten. *)
Settle(e, c, probe, decisions) ==
  LET settled == {k \in DOMAIN e.arms : decisions[k] # "never"}
      first == CHOOSE k \in settled : \A j \in settled : k <= j
      body == Probed(e.arms[1].body, probe.ctx)
      value == Lower(e.scrutinee, IF settled = {} THEN body.ctx ELSE probe.ctx)
      dropped == SetNext(Pop(value, 1), TopE(value))
  IN CASE probe.err # "" -> Failed(c, probe.err)
       [] probe.err = "" /\ settled = {} ->
            IF body.err # "" THEN Failed(c, body.err)
            ELSE Lower(e.arms[1].body, Emit(dropped, <<Trap("TypeMismatch")>>))
       [] OTHER -> IF decisions[first] = "matches" THEN Lower(e.arms[first].body, dropped) ELSE Declined(probe.ctx)

SettledBy(e, c, probe, brand) ==
  Settle(e, c, probe, [k \in DOMAIN e.arms |-> static_arm_decision(probe.ty, brand, e.arms[k].pattern)])

lower_static_match(e, c) ==
  SettledBy(e, c, Probed(e.scrutinee, c), IF e.scrutinee.e = "Variable" THEN resolve_receiver_schema_brand(e.scrutinee, c) ELSE "")

lower_match(e, c) ==
  LET t == enum_scrutinee_binding(e.scrutinee, c)
  IN IF t.k = "Variant" THEN try_lower_runtime_enum_match(e, t, c) ELSE lower_static_match(e, c)

(* A record of the output: its code, then the return. *)
lower_record_body(t, body, c) ==
  LET root == Emit([c EXCEPT !.records = 1], <<AllocRootRecord(0)>>)
      fits == CASE IsDeclared(t) -> body.e = "Dict" [] ~IsDeclared(t) /\ body.e = "Tuple" -> Len(body.items) = Len(t.fields) [] OTHER -> FALSE
  IN CASE ~fits -> Fail(root, "cap")
       [] fits /\ IsDeclared(t) -> Lower(IntoRecord(t, body.pairs, 0), root)
       [] OTHER -> lower_tuple_into_record(t, body.items, 0, root)

(* The fields of an anonymous dictionary, each bound to its name. *)
lower_anon_dict_closure(f, c) == lower_closure_binding(f.name, f.value, plan_anon_dict_closure_sig(f.value), c)

BindMade(f, made) == BindNext(Pop(made, 1), f.name, TopE(made), TopTy(made), UnitT)

lower_anon_dict_const(f, c) ==
  LET entries(pairs) == [k \in DOMAIN pairs |-> [key |-> Spelling[pairs[k].key], value |-> pairs[k].value.v]] \o <<>>
  IN BindMade(f, IF f.kind = "dict" THEN visit_const_dict(c, entries(f.value.pairs))
                 ELSE visit_const_list_string(c, [k \in DOMAIN f.value.items |-> f.value.items[k].v] \o <<>>))

lower_anon_dict_scalar(f, schema, c) ==
  LET ty == type_repr_to_ir_type(f.t)
      i == CHOOSE k \in DOMAIN schema.names : schema.names[k] = f.name
      literal == f.t.k = "List" /\ f.t.element.k = "Variant" /\ f.value.e = "List"
      pointers == ty \in {"ListString", "ListSchema", "ListList"}
      v == IF literal THEN Lower(Wanted(f.t, f.value), c) ELSE Lower(f.value, c)
      bound == BindNext(Check(Pop(v, 1), wasm_slot(TopTy(v)) = wasm_slot(ty)), f.name, TopE(v), ty, UnitT)
      copy == IF literal \/ IsInline(f.t) THEN <<Tmp(0) := Let(v.next)>> ELSE <<EmitTailRecordFromAbsoluteAddr(Tmp(0), Let(v.next), f.t)>>
  IN IF pointers /\ ~literal /\ ~pointer_array_list_source_is_const_pool(f.value) THEN Fail(c, "cap")
     ELSE IF v.err # "" THEN v
     ELSE Emit(bound, copy \o store_field_at_record_op(schema, i, 0, Tmp(0), bound))

(* No let: a name of this field still stands for the parameter. *)
lower_anon_dict_cross_region(f, schema, c) ==
  LET v == Lower(f.value, c)
      i == CHOOSE k \in DOMAIN schema.names : schema.names[k] = f.name
      fits == Check(Pop(v, 1), TopTy(v) = type_repr_to_ir_type(f.t))
  IN IF v.err # "" THEN v ELSE Emit(fits, store_field_at_record_op(schema, i, 0, TopE(v), fits))

lower_anon_dict_body(steps, schema, c) ==
  LET f == Head(steps)
  IN IF steps = <<>> \/ c.err # "" THEN c
     ELSE Lower(AnonDictSteps(Tail(steps), schema),
                               CASE f.kind = "closure" -> lower_anon_dict_closure(f, c)
                                 [] f.kind \in {"dict", "strings"} -> lower_anon_dict_const(f, c)
                                 [] f.kind = "scalar" -> lower_anon_dict_scalar(f, schema, c)
                                 [] f.kind = "cross" -> lower_anon_dict_cross_region(f, schema, c)
                                 [] f.kind = "skipped" -> c)

(* The record of an anonymous dictionary. *)
lower_anon_dict_record(plan, c) ==
  LET root == Emit([c EXCEPT !.records = 1], <<AllocRootRecord(0)>>)
  IN IF plan.ok THEN Lower(AnonDictSteps(plan.steps, plan.schema), root) ELSE Fail(root, "cap")

(* Expressions (mod.rs). *)
lower_expr(e, c) ==
  CASE c.err # "" -> Failed(c, c.err)
    [] e.e = "Int" -> PushAtom(c, K(e.v), "I64")
    [] e.e = "Float" -> PushAtom(c, K(e.v), "F64")
    [] e.e = "Bool" -> PushAtom(c, K(Bool(e.v)), "Bool")
    [] e.e = "String" -> visit_const_string(c, e.v)
    [] e.e = "List" -> lower_list(e, c)
    [] e.e = "Variable" -> lower_variable(e, c)
    [] e.e = "Binary" -> lower_binary(e, c)
    [] e.e = "Ternary" -> lower_ternary(e, c)
    [] e.e = "Where" -> lower_where(e, c)
    [] e.e = "FString" -> lower_fstring(e, c)
    [] e.e \in {"Call", "Method"} -> lower_fn_call(e, c)
    [] e.e = "Comprehension" -> lower_comprehension(e, c)
    [] e.e = "Match" -> lower_match(e, c)
    [] e.e = "Reference" -> lower_reference(e, c)
    [] e.e = "Wanted" -> lower_value_as_type(e.t, e.inner, c)
    [] e.e = "InField" -> lower_dict_field_value(e.t, e.inner, c)
    [] OTHER -> Declined(c)

Lower(e, c) ==
  CASE e.e = "AsClosure" -> lower_closure_as_value(e.f, e.sig, e.reprs, e.expected, c)
    [] e.e = "IntoRecord" -> lower_dict_into_record(e.t, e.pairs, e.k, c)
    [] e.e = "AnonDictSteps" -> lower_anon_dict_body(e.steps, e.schema, c)
    [] e.e = "AnonDictBody" -> lower_anon_dict_record(e.plan, c)
    [] e.e = "RecordBody" -> lower_record_body(e.t, e.body, c)
    [] e.e = "Rewritten" -> Attempt(e.k, e.inner, c)
    [] e.e = "StdlibArg" -> lower_stdlib_arg(e.f, e.k, e.inner, c)
    [] e.e = "Builtin" -> call_builtin(c, e.f)
    [] e.e = "ListOfRange" -> emit_list_value_materialize(e.inner, c)
    [] e.e = "RangeLoop" -> emit_range_pipeline_loop(e.chain, e.consumer, c)
    [] e.e = "IndexedBy" -> lower_list_index_typed(e.inner, c)
    [] e.e = "Bindings" -> lower_bindings(e.pairs, c)
    [] e.e = "PatternBindings" -> emit_enum_pattern_bindings(e.x, e.of, e.tag, e.bindings, e.k, c)
    [] OTHER -> lower_expr(e, c)

-----------------------------------------------------------------------------
(* The #main of a program: its parameters, the type of its result and its  *)
(* body.  It stores the result in the record of the output and returns.    *)
Main(params, returns, body) == [params |-> params, returns |-> returns, body |-> body]

build_local_index(params) ==
  LET fields == [k \in DOMAIN params |-> params[k].t]
  IN [k \in DOMAIN params |-> LocalBinding(params[k].name, fields[k], field_offset(fields, k))] \o <<>>

EntryPlan(main, c) ==
  anon_dict_return_plan(IF main.body.e = "Dict" THEN desugar_anon_dict_decorators(main.body.pairs) ELSE <<Spread(main.body)>>, c)

LoweredAs(t, is_record, ty, done, return) ==
  [ok |-> done.err = "" /\ ~done.doomed, ty |-> ty, units |-> <<done.out \o return>> \o done.bodies, pool |-> done.pool,
   params |-> done.params, returns |-> t, record |-> is_record]

RecordReturned(t, done) == LoweredAs(t, TRUE, "I32", done, <<ReturnOut(FALSE, K(0))>>)

ValueReturned(t, inplace, done) ==
  LoweredAs(TupleT(<<t>>), FALSE, TopTy(done), done,
            IF inplace THEN <<ReturnOut(TRUE, TopE(done))>> ELSE <<StoreField(0, t, TopE(done)), ReturnOut(FALSE, K(0))>>)

EntryStart(main, inplace, c) ==
  LET admitted == \/ inplace \/ type_repr_to_ir_type(main.returns) \notin {"ListString", "ListSchema", "ListList"}
                  \/ pointer_array_list_source_is_const_pool(main.body)
  IN IF main.returns.k \in {"Schema", "Dict"} \/ admitted THEN c ELSE Fail(c, "cap")

EntryBody(main, plan) ==
  CASE main.returns.k = "Schema" -> RecordBody(main.returns, main.body)
    [] main.returns.k = "Dict" -> AnonDictBody(plan)
    [] OTHER -> Wanted(main.returns, main.body)

EntryReturned(main, plan, inplace, done) ==
  CASE main.returns.k = "Schema" -> RecordReturned(main.returns, done)
    [] main.returns.k = "Dict" -> RecordReturned(plan.schema, done)
    [] OTHER -> ValueReturned(main.returns, inplace, done)

LoweredEntry(main, plan, inplace, c) ==
  EntryReturned(main, plan, inplace, Lower(EntryBody(main, plan), EntryStart(main, inplace, c)))

EntryFrom(main, c) == LoweredEntry(main, EntryPlan(main, c), IsReturnedInPlace(main.returns, main.body, c.params), c)

lower_entry(main) == EntryFrom(main, LowerCtx(build_local_index(main.params)))
=============================================================================
