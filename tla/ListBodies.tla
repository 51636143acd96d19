----------------------------- MODULE ListBodies -----------------------------
(***************************************************************************)
(* The bodies of the list functions of the bundled library                 *)
(* (relon-ir/src/stdlib/defs.rs).  A list of numbers is a record           *)
(* [len: u32] with its elements of 8 bytes from the next multiple of 8; a  *)
(* list of pointers is [len: u32] with 4 bytes per element right behind.   *)
(***************************************************************************)
EXTENDS IrSlots

(* arg0 + 4 rounded up to 8: where the elements of a list of numbers are.  *)
Payload(base) == (base ++ K(11)) && K(-8)

Elem(base, index) == base ++ (index ** K(8))
Slot(base, index) == base ++ (index ** K(4))

Inc(x) == x := (x ++ K(1))

list_length_body == <<Return(Ld32(Arg(0)))>>

-----------------------------------------------------------------------------
(* The checks before the addition, which itself traps. *)
OverflowCheck ==
  If(VAL \succeq K(0),
     <<When(ACC \succ (K(MaxInt) \ominus VAL), <<Trap("NumericOverflow")>>)>>,
     <<When(ACC \prec (K(MinInt) \ominus VAL), <<Trap("NumericOverflow")>>)>>)

list_int_sum_body ==
  << N := Ld32(Arg(0)),
     PAYLOAD := Payload(Arg(0)),
     ACC := K(0),
     I := K(0),
     Until(I \succeq N,
       << VAL := Ld64(Elem(PAYLOAD, I)),
          OverflowCheck,
          ACC := (ACC \oplus VAL),
          Inc(I) >>),
     Return(ACC) >>

(* max and min differ in the comparison alone. *)
Extremum(better) ==
  << N := Ld32(Arg(0)),
     When(N \doteq K(0), <<Trap("EmptyList")>>),
     PAYLOAD := Payload(Arg(0)),
     ACC := Ld64(PAYLOAD),
     I := K(1),
     Until(I \succeq N,
       << VAL := Ld64(Elem(PAYLOAD, I)),
          ACC := Cond(better, VAL, ACC),
          Inc(I) >>),
     Return(ACC) >>

list_int_max_body == Extremum(VAL \succ ACC)

list_int_min_body == Extremum(VAL \prec ACC)

-----------------------------------------------------------------------------
list_map_body_typed ==
  << N := Ld32(Arg(0)),
     AllocScratchDyn(NEW_BASE, K(16) ++ (N ** K(8))),
     St32(NEW_BASE, N),
     SRC_PAYLOAD := Payload(Arg(0)),
     DST_PAYLOAD := Payload(NEW_BASE),
     I := K(0),
     Until(I \succeq N,
       << CallClosure(VAL, Arg(1), <<Ld64(Elem(SRC_PAYLOAD, I))>>),
          St64(Elem(DST_PAYLOAD, I), VAL),
          Inc(I) >>),
     Return(NEW_BASE) >>

(* The header is written last, with the number of elements kept. *)
list_filter_body_typed ==
  << N := Ld32(Arg(0)),
     AllocScratchDyn(NEW_BASE, K(16) ++ (N ** K(8))),
     SRC_PAYLOAD := Payload(Arg(0)),
     DST_PAYLOAD := Payload(NEW_BASE),
     I := K(0),
     OUT_COUNT := K(0),
     Until(I \succeq N,
       << CUR_VAL := Ld64(Elem(SRC_PAYLOAD, I)),
          CallClosure(RESULT, Arg(1), <<CUR_VAL>>),
          When(RESULT,
            << St64(Elem(DST_PAYLOAD, OUT_COUNT), CUR_VAL),
               Inc(OUT_COUNT) >>),
          Inc(I) >>),
     St32(NEW_BASE, OUT_COUNT),
     Return(NEW_BASE) >>

list_pointer_filter_body ==
  << N := Ld32(Arg(0)),
     AllocScratchDyn(NEW_BASE, K(4) ++ (N ** K(4))),
     SRC_PAYLOAD := (Arg(0) ++ K(4)),
     DST_PAYLOAD := (NEW_BASE ++ K(4)),
     I := K(0),
     OUT_COUNT := K(0),
     Until(I \succeq N,
       << CUR_VAL := Ld32(Slot(SRC_PAYLOAD, I)),
          CallClosure(RESULT, Arg(1), <<CUR_VAL>>),
          When(RESULT,
            << St32(Slot(DST_PAYLOAD, OUT_COUNT), CUR_VAL),
               Inc(OUT_COUNT) >>),
          Inc(I) >>),
     St32(NEW_BASE, OUT_COUNT),
     Return(NEW_BASE) >>

list_fold_body_typed ==
  << N := Ld32(Arg(0)),
     SRC_PAYLOAD := Payload(Arg(0)),
     ACC := Arg(1),
     I := K(0),
     Until(I \succeq N,
       << CallClosure(ACC, Arg(2), <<ACC, Ld64(Elem(SRC_PAYLOAD, I))>>),
          Inc(I) >>),
     Return(ACC) >>

(* Elements of 8 bytes from a multiple of 8, or pointers behind the length. *)
SourcePayload(src_8aligned) == IF src_8aligned THEN Payload(Arg(0)) ELSE Arg(0) ++ K(4)

SourceElem(src_8aligned) ==
  IF src_8aligned THEN Ld64(Elem(SRC_PAYLOAD, I)) ELSE Ld32(Slot(SRC_PAYLOAD, I))

(* Mutated form of MapToPointers: no room for rounding the record up. *)
MapToPointersExactly(src_8aligned) ==
  << N := Ld32(Arg(0)),
     AllocScratchDyn(NEW_BASE, K(4) ++ (N ** K(4))),
     NEW_BASE := Up4(NEW_BASE),
     St32(NEW_BASE, N),
     SRC_PAYLOAD := SourcePayload(src_8aligned),
     DST_PAYLOAD := (NEW_BASE ++ K(4)),
     I := K(0),
     Until(I \succeq N,
       << CallClosure(VAL, Arg(1), <<SourceElem(src_8aligned)>>),
          St32(Slot(DST_PAYLOAD, I), VAL),
          Inc(I) >>),
     Return(NEW_BASE) >>

(* A list of pointers to what the closure made. *)
MapToPointers(src_8aligned) ==
  << N := Ld32(Arg(0)),
     AllocScratchDyn(NEW_BASE, K(8) ++ (N ** K(4))),
     NEW_BASE := Up4(NEW_BASE),
     St32(NEW_BASE, N),
     SRC_PAYLOAD := SourcePayload(src_8aligned),
     DST_PAYLOAD := (NEW_BASE ++ K(4)),
     I := K(0),
     Until(I \succeq N,
       << CallClosure(VAL, Arg(1), <<SourceElem(src_8aligned)>>),
          St32(Slot(DST_PAYLOAD, I), VAL),
          Inc(I) >>),
     Return(NEW_BASE) >>

(* The closure makes strings, or records of an enum. *)
list_map_to_string_body(src_8aligned) == MapToPointers(src_8aligned)

list_map_to_variant_list_body(src_8aligned) == MapToPointers(src_8aligned)

-----------------------------------------------------------------------------
(* every stops at the first element that fails, some at the first that     *)
(* holds; `stops' is the answer of the predicate that ends the loop.       *)
list_pred_body_typed(is_every) ==
  LET stops == IF is_every THEN Not(RESULT) ELSE RESULT
  IN << N := Ld32(Arg(0)),
        SRC_PAYLOAD := Payload(Arg(0)),
        I := K(0),
        ACC := K(Bool(is_every)),
        Until(I \succeq N,
          << CUR_VAL := Ld64(Elem(SRC_PAYLOAD, I)),
             CallClosure(RESULT, Arg(1), <<CUR_VAL>>),
             When(stops, <<ACC := K(Bool(~is_every))>>),
             BrIf(stops, 1),
             Inc(I) >>),
        Return(ACC ## K(0)) >>

(* A pair of equal elements leaves both loops. *)
list_unique_body_typed(equal) ==
  << N := Ld32(Arg(0)),
     SRC_PAYLOAD := Payload(Arg(0)),
     I := K(0),
     RESULT := K(1),
     Until(I \succeq N,
       << CUR_VAL := Ld64(Elem(SRC_PAYLOAD, I)),
          J := (I ++ K(1)),
          Until(J \succeq N,
            << VAL := Ld64(Elem(SRC_PAYLOAD, J)),
               When(equal, <<RESULT := K(0)>>),
               BrIf(equal, 3),
               Inc(J) >>),
          Inc(I) >>),
     Return(RESULT ## K(0)) >>

-----------------------------------------------------------------------------
(* The stable bottom-up merge sort over indices: decorate, merge runs of   *)
(* doubling width between two index buffers, gather.                       *)

(* dst := min(i + span, N), without a branch. *)
MinInto(dst, from, span) ==
  << T := (from ++ span),
     dst := (T ++ ((N -- T) ** (T \succeq N))) >>

(* Mutated form of TakeLeft: equal keys come from the right run. *)
TakeLeftUnlessEqual(float, desc) ==
  CASE float /\ desc -> (K(1) -- LeF(KL, KL)) ++ LeF(KR, KL)
    [] float -> (K(1) -- LeF(KR, KR)) ++ LeF(KL, KR)
    [] desc -> KL \succ KR
    [] OTHER -> KL \prec KR

(* Whether the head of the left run goes first; NaN is the greatest key.   *)
TakeLeft(float, desc) ==
  CASE float /\ desc -> (K(1) -- LeF(KL, KL)) ++ LeF(KR, KL)
    [] float -> (K(1) -- LeF(KR, KR)) ++ LeF(KL, KR)
    [] desc -> KL \succeq KR
    [] OTHER -> KL \preceq KR

SortBuffers ==
  << N := Ld32(Arg(0)),
     AllocScratchDyn(RESULT_BASE, K(16) ++ (N ** K(8))),
     St32(RESULT_BASE, N),
     SRC_PAYLOAD := Payload(Arg(0)),
     DST_PAYLOAD := Payload(RESULT_BASE),
     AllocScratchDyn(KEY_BUF, (N ** K(8)) ++ K(8)),
     KEY_BUF := Up8(KEY_BUF),
     AllocScratchDyn(IDX_A, (N ** K(4)) ++ K(4)),
     IDX_A := Up4(IDX_A),
     AllocScratchDyn(IDX_B, (N ** K(4)) ++ K(4)),
     IDX_B := Up4(IDX_B) >>

Decorate ==
  << I := K(0),
     Until(I \succeq N,
       << CallClosure(VAL, Arg(1), <<Ld64(Elem(SRC_PAYLOAD, I))>>),
          St64(Elem(KEY_BUF, I), VAL),
          St32(Slot(IDX_A, I), I),
          Inc(I) >>) >>

MergeHeads(float, desc) ==
  Until(A \succeq MID,
    << BrIf(B \succeq RIGHT, 1),
       IA := Ld32(Slot(CUR, A)),
       IB := Ld32(Slot(CUR, B)),
       KL := Ld64(Elem(KEY_BUF, IA)),
       KR := Ld64(Elem(KEY_BUF, IB)),
       TL := TakeLeft(float, desc),
       St32(Slot(TMP, KK), IB ++ (TL ** (IA -- IB))),
       A := (A ++ TL),
       B := (B ++ (K(1) -- TL)),
       Inc(KK) >>)

RestOfRun(head, bound) ==
  Until(head \succeq bound,
    << St32(Slot(TMP, KK), Ld32(Slot(CUR, head))),
       Inc(head),
       Inc(KK) >>)

MergePass(float, desc) ==
  << I := K(0),
     Until(I \succeq N,
       << LEFT := I >>
       \o MinInto(MID, I, WIDTH)
       \o MinInto(RIGHT, I, WIDTH ** K(2))
       \o << A := LEFT, B := MID, KK := LEFT,
             MergeHeads(float, desc),
             RestOfRun(A, MID),
             RestOfRun(B, RIGHT),
             I := (I ++ (WIDTH ** K(2))) >>) >>

Gather ==
  << I := K(0),
     Until(I \succeq N,
       << IA := Ld32(Slot(CUR, I)),
          St64(Elem(DST_PAYLOAD, I), Ld64(Elem(SRC_PAYLOAD, IA))),
          Inc(I) >>) >>

MergePasses(float, desc) ==
  << CUR := IDX_A, TMP := IDX_B, WIDTH := K(1),
     Until(WIDTH \succeq N,
       MergePass(float, desc)
       \o << T := CUR, CUR := TMP, TMP := T,
             WIDTH := (WIDTH ** K(2)) >>) >>

list_sort_body_typed(float, desc) ==
  SortBuffers
  \o Decorate
  \o MergePasses(float, desc)
  \o Gather
  \o <<Return(RESULT_BASE)>>
=============================================================================
