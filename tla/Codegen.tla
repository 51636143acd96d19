------------------------------ MODULE Codegen ------------------------------
(***************************************************************************)
(* The operations that build strings, records and closures                 *)
(* (relon-ir/src/ir.rs), and what the Cranelift generator emits for them   *)
(* (relon-codegen-cranelift/src/codegen: memory.rs, field.rs, record.rs,   *)
(* closure.rs), as statements of IrCode.  Each operator leaves its result  *)
(* in x.  Operands are numbers, lets, or loads from the input, which       *)
(* nothing overwrites.                                                     *)
(***************************************************************************)
EXTENDS AbiBuffer

(* The parameters of the entry: in_ptr, in_len, out_ptr, out_cap. *)
InPtr == Arg(0)
OutPtr == Arg(2)

(* The registers of one operation, and the base of a record being built.   *)
Tmp(k) == Let(-100 - k)
RecordLocal(k) == Let(-1000 - k)

(* Reserves bytes of the output tail.  src is what will be copied there;   *)
(* the machine notes whether it is at a multiple of 4.                     *)
TailAlloc(x, size, align, src) == [st |-> "tail", x |-> x.x, align |-> align, es |-> <<size, src>>]

(* The host helper that writes the text of a float. *)
RelonF64ToStr(base, v) == [st |-> "f64str", es |-> <<base, v>>]

align_up_i32(e, align) ==
  CASE align = 4 -> Up4(e)
    [] align = 8 -> Up8(e)
    [] OTHER -> e

-----------------------------------------------------------------------------
(* The operations. *)
IntToStr(x, v) == [st |-> "IntToStr", x |-> x, v |-> v]
FloatToStr(x, v) == [st |-> "FloatToStr", x |-> x, v |-> v]
StrConcat(x, offs) == [st |-> "StrConcatN", x |-> x, offs |-> offs]
AddString(x, a, b) == [st |-> "Add", x |-> x, offs |-> <<a, b>>]
EmitTailRecordFromAbsoluteAddr(x, src, t) == [st |-> "EmitTailRecord", x |-> x, src |-> src, t |-> t]
StoreField(offset, t, v) == [st |-> "StoreField", offset |-> offset, t |-> t, v |-> v]
ReturnOut(inplace, root) == [st |-> "Return", inplace |-> inplace, root |-> root]
BuildVariantRecord(x, tag, size, align, payload, t) ==
  [st |-> "BuildVariantRecord", x |-> x, tag |-> tag, size |-> size, align |-> align, payload |-> payload, t |-> t]
BuildVariantRecordScratch(x, tag, size, align, payload, t) ==
  [BuildVariantRecord(x, tag, size, align, payload, t) EXCEPT !.st = "BuildVariantRecordScratch"]
BuildPointerList(x, elems) == [st |-> "BuildPointerList", x |-> x, elems |-> elems]
AllocRootRecord(k) == [st |-> "AllocRootRecord", k |-> k]
AllocSubRecord(k, fields) == [st |-> "AllocSubRecord", k |-> k, fields |-> fields]
AllocScratchRecord(k, fields) == [st |-> "AllocScratchRecord", k |-> k, fields |-> fields]
StoreFieldAtRecord(k, offset, t, v) == [st |-> "StoreFieldAtRecord", k |-> k, offset |-> offset, t |-> t, v |-> v]
StoreFieldAtRecordAbsolute(k, offset, t, v) ==
  [st |-> "StoreFieldAtRecordAbsolute", k |-> k, offset |-> offset, t |-> t, v |-> v]
MakeClosure(x, index, captures, captures_size) ==
  [st |-> "MakeClosure", x |-> x, index |-> index, captures |-> captures, size |-> captures_size]

-----------------------------------------------------------------------------
(* Strings. *)
RECURSIVE SumOf(_)
SumOf(es) == IF Len(es) = 1 THEN es[1] ELSE SumOf(SubSeq(es, 1, Len(es) - 1)) ++ es[Len(es)]

(* One record of exactly the length of the parts, not rounded up. *)
emit_str_concat_n(x, offs) ==
  LET n == Len(offs)
      lens == [i \in 1 .. n |-> Tmp(i)] \o <<>>
      base == Tmp(n + 1)
      cursor_off == Tmp(n + 2)
      copies[i \in 0 .. n] ==
        IF i = 0 THEN <<>>
        ELSE copies[i - 1] \o << Memcpy(cursor_off, offs[i] ++ K(4), lens[i]),
                                 cursor_off := (cursor_off ++ lens[i]) >>
  IN [i \in 1 .. n |-> lens[i] := Ld32(offs[i])]
     \o << AllocScratchDyn(base, SumOf(lens) ++ K(4)),
           St32(base, SumOf(lens)),
           cursor_off := (base ++ K(4)) >>
     \o copies[n]
     \o << x := base >>

(* The magnitude is unsigned, so that of i64::MIN is right.  The record is *)
(* rounded up to 4.                                                        *)
emit_int_to_str(x, v) ==
  LET is_neg == Tmp(1)
      mag == Tmp(2)
      t == Tmp(3)
      cnt == Tmp(4)
      base == Tmp(5)
      cur == Tmp(6)
  IN << is_neg := (v \prec K(0)),
        mag := Cond(is_neg, K(0) -- v, v),
        cnt := K(1),
        t := mag,
        Until(t \prec K(10), << t := (t // K(10)), cnt := (cnt ++ K(1)) >>),
        AllocScratchDyn(base, Up4((cnt ++ is_neg) ++ K(4))),
        St32(base, cnt ++ is_neg),
        cur := (((base ++ K(4)) ++ is_neg) ++ cnt),
        t := mag,
        Block(<<Loop(<< cur := (cur -- K(1)),
                        St8(cur, K(48) ++ (t %% K(10))),
                        t := (t // K(10)),
                        BrIf(t ## K(0), 0) >>)>>),
        When(is_neg, <<St8(base ++ K(4), K(45))>>),
        x := base >>

FLOAT_TO_STR_RECORD_SIZE == 768

emit_float_to_str(x, v) ==
  << AllocScratchDyn(Tmp(1), K(FLOAT_TO_STR_RECORD_SIZE)),
     RelonF64ToStr(Tmp(1), v),
     x := Tmp(1) >>

(* The decimal digits of a number, and Rust's Display of a float. *)
RECURSIVE DigitsOf(_)
DigitsOf(n) == IF n < 10 THEN <<48 + n>> ELSE DigitsOf(n \div 10) \o <<48 + (n % 10)>>

Decimal(n) == IF n < 0 THEN <<45>> \o DigitsOf(-n) ELSE DigitsOf(n)

format_f64_display(v) ==
  CASE v = NaN -> <<78, 97, 78>>
    [] v = NegZero -> <<45, 48>>
    [] OTHER -> Decimal(v)

-----------------------------------------------------------------------------
(* Records of the output. *)
IsCopied(t) == t.k = "String" \/ (t.k = "List" /\ t.element.k \in {"Int", "Float", "Bool"})

IsWide(t) == t.k = "List" /\ t.element.k \in {"Int", "Float"}

(* Both ends are rounded up: what is copied begins at a multiple of the    *)
(* alignment, wherever the source record is.                               *)
emit_pointer_indirect_record_copy(x, src, t) ==
  LET align == IF IsWide(t) THEN 8 ELSE 4
      len == Tmp(1)
      dst == Tmp(2)
      bytes == IF IsWide(t) THEN len ** K(8) ELSE len
      head == IF IsWide(t) THEN K(8) ELSE K(4)
  IN << len := Ld32(src),
        TailAlloc(dst, bytes ++ head, align, IF IsWide(t) THEN K(0) ELSE src),
        dst := (OutPtr ++ dst),
        St32(dst, len),
        Memcpy(align_up_i32(dst ++ K(4), align), align_up_i32(src ++ K(4), align), bytes),
        x := dst >>

(* The strings of a literal list are right before its header, and the      *)
(* whole block is copied; its entries move by the same distance.           *)
copy_list_string_block(x, header) ==
  LET len == Tmp(1)
      block == Tmp(2)
      dst == Tmp(3)
      delta == Tmp(4)
      i == Tmp(5)
      size == ((header ++ K(4)) ++ (len ** K(4))) -- block
      entry == ((header ++ delta) ++ K(4)) ++ (i ** K(4))
  IN << len := Ld32(header),
        block := Cond(len, Ld32(header ++ K(4)), header),
        TailAlloc(dst, size, 4, K(0)),
        Memcpy(OutPtr ++ dst, block, size),
        delta := (OutPtr ++ (dst -- block)),
        i := K(0),
        Until(i \succeq len, << St32(entry, Ld32(entry) ++ delta), i := (i ++ K(1)) >>),
        x := (header ++ delta) >>

emit_tail_record_from_absolute(x, src, t) ==
  IF t.k = "List" /\ t.element.k = "String" THEN copy_list_string_block(x, src)
  ELSE emit_pointer_indirect_record_copy(x, src, t)

(* A field of the root: copied to the tail, or stored as it is. *)
emit_store_field(offset, t, v) ==
  IF IsCopied(t) \/ (t.k = "List" /\ t.element.k = "String")
  THEN emit_tail_record_from_absolute(Tmp(0), v, t) \o <<St32(OutPtr ++ K(offset), Tmp(0))>>
  ELSE <<Store(SlotSize(t), OutPtr ++ K(offset), v)>>

(* In place: the negative of the address of the value, less one. *)
emit_return(inplace, root) == <<Return(IF inplace THEN K(-1) -- root ELSE K(0))>>

-----------------------------------------------------------------------------
(* Variants, lists of pointers and nested records.                         *)
VariantStores(base, tag, payload, t) ==
  <<St8(base, K(tag))>>
  \o IF payload = <<>> THEN <<>>
     ELSE <<Store(SlotSize(t), base ++ K(variant_payload_slot_offset(0, t)), payload[1])>>

emit_build_variant_record(x, tag, size, align, payload, t) ==
  << TailAlloc(Tmp(1), K(size), align, K(0)),
     Tmp(1) := (OutPtr ++ Tmp(1)) >>
  \o VariantStores(Tmp(1), tag, payload, t)
  \o << x := Tmp(1) >>

emit_build_variant_record_scratch(x, tag, size, align, payload, t) ==
  << AllocScratchDyn(Tmp(1), K(size + align - 1)),
     Tmp(1) := align_up_i32(Tmp(1), align) >>
  \o VariantStores(Tmp(1), tag, payload, t)
  \o << x := Tmp(1) >>

emit_build_pointer_list(x, elems) ==
  << TailAlloc(Tmp(1), K(4 + 4 * Len(elems)), 4, K(0)),
     Tmp(1) := (OutPtr ++ Tmp(1)),
     St32(Tmp(1), K(Len(elems))) >>
  \o [i \in DOMAIN elems |-> St32(Tmp(1) ++ K(4 * i), elems[i])]
  \o << x := Tmp(1) >>

emit_alloc_root_record(k) == <<RecordLocal(k) := K(0)>>

emit_alloc_sub_record(k, fields) ==
  <<TailAlloc(RecordLocal(k), K(root_size(fields)), root_align(fields), K(0))>>

(* A record of the output is named by its offset in it. *)
emit_store_field_at_record(k, offset, t, v) ==
  <<Store(SlotSize(t), OutPtr ++ (RecordLocal(k) ++ K(offset)), v)>>

emit_push_record_base(k) == RecordLocal(k)

emit_alloc_scratch_record(k, fields) ==
  LET align == root_align(fields)
  IN << AllocScratchDyn(RecordLocal(k), K(root_size(fields) + align - 1)),
        RecordLocal(k) := align_up_i32(RecordLocal(k), align) >>

emit_store_field_at_record_absolute(k, offset, t, v) ==
  <<Store(SlotSize(t), RecordLocal(k) ++ K(offset), v)>>

-----------------------------------------------------------------------------
(* A closure is a handle [index in the table][its captures].  A closure    *)
(* that captures itself is not bound yet and takes its own handle.         *)
emit_make_closure(x, index, captures, captures_size) ==
  LET handle == Tmp(1)
      held == Tmp(2)
      source(c) == IF c.self THEN handle ELSE c.from
  IN <<AllocScratchDyn(handle, K(8))>>
     \o (IF captures_size > 0 THEN <<AllocScratchDyn(held, K(captures_size))>> ELSE <<held := K(0)>>)
     \o << St32(handle, K(index)), St32(handle ++ K(4), held) >>
     \o [i \in DOMAIN captures |->
           Store(captures[i].w, held ++ K(captures[i].offset), source(captures[i]))]
     \o << x := handle >>

-----------------------------------------------------------------------------
(* What each operation becomes.  Two strings are added by the body of the  *)
(* library that joins them.                                                *)
VisitText(s) ==
  CASE s.st = "IntToStr" -> emit_int_to_str(s.x, s.v)
    [] s.st = "FloatToStr" -> emit_float_to_str(s.x, s.v)
    [] s.st = "StrConcatN" -> emit_str_concat_n(s.x, s.offs)
    [] s.st = "Add" -> <<Call(s.x, "concat", s.offs)>>

VisitRecord(s) ==
  CASE s.st = "EmitTailRecord" -> emit_tail_record_from_absolute(s.x, s.src, s.t)
    [] s.st = "StoreField" -> emit_store_field(s.offset, s.t, s.v)
    [] s.st = "Return" -> emit_return(s.inplace, s.root)
    [] s.st = "BuildVariantRecord" -> emit_build_variant_record(s.x, s.tag, s.size, s.align, s.payload, s.t)
    [] s.st = "BuildVariantRecordScratch" ->
         emit_build_variant_record_scratch(s.x, s.tag, s.size, s.align, s.payload, s.t)
    [] s.st = "BuildPointerList" -> emit_build_pointer_list(s.x, s.elems)
    [] s.st = "AllocRootRecord" -> emit_alloc_root_record(s.k)
    [] s.st = "AllocSubRecord" -> emit_alloc_sub_record(s.k, s.fields)
    [] s.st = "AllocScratchRecord" -> emit_alloc_scratch_record(s.k, s.fields)
    [] s.st = "StoreFieldAtRecord" -> emit_store_field_at_record(s.k, s.offset, s.t, s.v)
    [] s.st = "StoreFieldAtRecordAbsolute" -> emit_store_field_at_record_absolute(s.k, s.offset, s.t, s.v)
    [] s.st = "MakeClosure" -> emit_make_closure(s.x, s.index, s.captures, s.size)

TextOps == {"IntToStr", "FloatToStr", "StrConcatN", "Add"}

RecordOps ==
  { "EmitTailRecord", "StoreField", "Return", "BuildVariantRecord", "BuildVariantRecordScratch", "BuildPointerList",
    "AllocRootRecord", "AllocSubRecord", "AllocScratchRecord", "StoreFieldAtRecord", "StoreFieldAtRecordAbsolute",
    "MakeClosure" }

HasArms(s) == s.st \in {"if", "block", "loop"}

(* The code of a function, by the Cranelift generator. *)
RECURSIVE CraneliftCode(_)
CraneliftCode(code) ==
  LET of(s) == CASE s.st \in TextOps -> VisitText(s)
                 [] s.st \in RecordOps -> VisitRecord(s)
                 [] HasArms(s) -> <<[s EXCEPT !.arms = [k \in DOMAIN @ |-> CraneliftCode(@[k])] \o <<>>]>>
                 [] OTHER -> <<s>>
      upto[i \in 0 .. Len(code)] == IF i = 0 THEN <<>> ELSE upto[i - 1] \o of(code[i])
  IN upto[Len(code)]
=============================================================================
