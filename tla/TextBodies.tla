----------------------------- MODULE TextBodies -----------------------------
(***************************************************************************)
(* The bodies of the string functions of the bundled library               *)
(* (relon-ir/src/stdlib/defs.rs, string_ops.rs).  A string is a record     *)
(* [len: u32] with its UTF-8 bytes right behind.                           *)
(***************************************************************************)
EXTENDS IrSlots
LOCAL Seqs == INSTANCE SequencesExt

PutStep(x, by) == x := (x ++ by)

BytesOf(base) == base ++ K(4)

ByteOf(base, index) == Ld8(BytesOf(base) ++ index)

(* SINK := If(test) ...: a trap in one arm, nothing in the other. *)
TrapIf(test, kind) == When(test, <<Trap(kind)>>)

(* A new string record of len bytes.  The size is not rounded up. *)
NewString(base, len) == <<AllocScratchDyn(base, len ++ K(4)), St32(base, len)>>

-----------------------------------------------------------------------------
abs_int_body == <<Return(Cond(Arg(0) \prec K(0), K(0) \ominus Arg(0), Arg(0)))>>

abs_float_body == <<Return(AbsF(Arg(0)))>>

(* Floats are whole here; floor, ceil and round only convert. *)
float_to_int_body == <<Return(ToI64Sat(Arg(0)))>>

sqrt_float_body == <<Return(SqrtF(Arg(0)))>>

min_int_body == <<Return(Cond(Arg(0) \prec Arg(1), Arg(0), Arg(1)))>>

max_int_body == <<Return(Cond(Arg(0) \succ Arg(1), Arg(0), Arg(1)))>>

is_empty_string_body == <<Return(Ld32(Arg(0)) \doteq K(0))>>

len_string_body == <<Return(Ld32(Arg(0)))>>

concat_string_string_body ==
  << LEN_A := Ld32(Arg(0)),
     LEN_B := Ld32(Arg(1)) >>
  \o NewString(BASE, LEN_A ++ LEN_B) \o
  << Memcpy(BytesOf(BASE), BytesOf(Arg(0)), LEN_A),
     Memcpy(BytesOf(BASE) ++ LEN_A, BytesOf(Arg(1)), LEN_B),
     Return(BASE) >>

SubstringChecks ==
  << TrapIf(Arg(1) \prec K(0), "IndexOutOfBounds"),
     TrapIf(Arg(2) \prec K(0), "IndexOutOfBounds"),
     TrapIf((Arg(1) \oplus Arg(2)) \succ Ld32(Arg(0)), "IndexOutOfBounds") >>

(* The two i64 indices become addresses through a scratch word. *)
NarrowIndices ==
  << AllocScratchDyn(BASE, K(8)),
     St64(BASE, Arg(1)),
     START_I32 := Ld32(BASE),
     St64(BASE, Arg(2)),
     LEN_I32 := Ld32(BASE) >>

substring_string_body ==
  <<S_LEN := Ld32(Arg(0))>>
  \o SubstringChecks
  \o NarrowIndices
  \o NewString(BASE, LEN_I32) \o
  << Memcpy(BytesOf(BASE), BytesOf(Arg(0)) ++ START_I32, LEN_I32),
     Return(BASE) >>

Lengths == <<S_LEN := Ld32(Arg(0)), P_LEN := Ld32(Arg(1))>>

starts_with_string_body ==
  Lengths \o
  << When(P_LEN \succ S_LEN, <<Return(K(0))>>),
     ACC := K(1),
     I := K(0),
     Until(I \succeq P_LEN,
       << When(ByteOf(Arg(0), I) ## ByteOf(Arg(1), I),
            <<ACC := K(0), Br(2)>>),
          PutStep(I, K(1)) >>),
     Return(ACC ## K(0)) >>

ends_with_string_body ==
  Lengths \o
  << When(P_LEN \succ S_LEN, <<Return(K(0))>>),
     BASE_OFF := (S_LEN -- P_LEN),
     ACC := K(1),
     I := K(0),
     Until(I \succeq P_LEN,
       << ACC := ((ByteOf(Arg(0), BASE_OFF ++ I) \doteq ByteOf(Arg(1), I)) && ACC),
          BrIf(Not(ACC), 1),
          PutStep(I, K(1)) >>),
     Return(ACC ## K(0)) >>

CompareWindow ==
  << J := K(0),
     MISMATCH := K(0),
     Until(J \succeq P_LEN,
       << MISMATCH := (ByteOf(Arg(0), I ++ J) ## ByteOf(Arg(1), J)),
          BrIf(MISMATCH, 1),
          PutStep(J, K(1)) >>) >>

contains_string_body ==
  Lengths \o
  << When(P_LEN \succ S_LEN, <<Return(K(0))>>),
     When(Not(P_LEN), <<Return(K(1))>>),
     LAST_START := (S_LEN -- P_LEN),
     I := K(0),
     FOUND := K(0),
     Until(FOUND,
       <<BrIf(I \succ LAST_START, 1)>>
       \o CompareWindow
       \o <<FOUND := Not(MISMATCH), PutStep(I, K(1))>>),
     Return(FOUND ## K(0)) >>

-----------------------------------------------------------------------------
(* replace and split: does the second argument occur at I? *)
match_from_at_i ==
  If((I ++ F_LEN) \succ S_LEN,
     <<MATCH := K(0)>>,
     << MATCH := K(1),
        J := K(0),
        Until(J \succeq F_LEN,
          << SB := ByteOf(Arg(0), I ++ J),
             BYTE := ByteOf(Arg(1), J),
             MATCH := ((SB \doteq BYTE) && MATCH),
             BrIf(Not(MATCH), 1),
             PutStep(J, K(1)) >>) >>)

IsCharStart(byte) == (byte && K(192)) ## K(128)

empty_from_size ==
  << OUT_LEN := S_LEN,
     I := K(0),
     Until(I \succeq S_LEN,
       << SB := ByteOf(Arg(0), I),
          When(IsCharStart(SB), <<PutStep(OUT_LEN, T_LEN)>>),
          PutStep(I, K(1)) >>),
     PutStep(OUT_LEN, T_LEN) >>

nonempty_scan_size ==
  << I := K(0),
     Until(I \succeq S_LEN,
       << match_from_at_i,
          If(MATCH,
             <<PutStep(OUT_LEN, T_LEN), PutStep(I, F_LEN)>>,
             <<PutStep(OUT_LEN, K(1)), PutStep(I, K(1))>>) >>) >>

emit_to ==
  << Memcpy(BytesOf(BASE) ++ W, BytesOf(Arg(2)), T_LEN),
     PutStep(W, T_LEN) >>

EmitByte == <<St8(BytesOf(BASE) ++ W, SB), PutStep(W, K(1))>>

empty_from_write ==
  << I := K(0),
     Until(I \succeq S_LEN,
       << SB := ByteOf(Arg(0), I),
          When(IsCharStart(SB), emit_to) >>
       \o EmitByte
       \o <<PutStep(I, K(1))>>) >>
  \o emit_to

nonempty_scan_write ==
  << I := K(0),
     Until(I \succeq S_LEN,
       << match_from_at_i,
          If(MATCH,
             emit_to \o <<PutStep(I, F_LEN)>>,
             <<SB := ByteOf(Arg(0), I)>> \o EmitByte \o <<PutStep(I, K(1))>>) >>) >>

(* Two passes: the first finds the length, the second writes. *)
replace_string_body ==
  << S_LEN := Ld32(Arg(0)),
     F_LEN := Ld32(Arg(1)),
     T_LEN := Ld32(Arg(2)),
     OUT_LEN := K(0),
     I := K(0),
     If(Not(F_LEN), empty_from_size, nonempty_scan_size) >>
  \o NewString(BASE, OUT_LEN) \o
  << I := K(0),
     W := K(0),
     If(Not(F_LEN), empty_from_write, nonempty_scan_write),
     Return(BASE) >>

(* SB holds the length of the segment and J its record. *)
emit_segment_record(segEnd) ==
  <<SB := (segEnd -- SEG_START)>>
  \o NewString(J, SB) \o
  << Memcpy(BytesOf(J), BytesOf(Arg(0)) ++ SEG_START, SB),
     St32(SLOT, J),
     PutStep(SLOT, K(4)) >>

CountSegments ==
  << N := K(1),
     I := K(0),
     Until(I \succeq S_LEN,
       << match_from_at_i,
          If(MATCH,
             <<PutStep(N, K(1)), PutStep(I, F_LEN)>>,
             <<PutStep(I, K(1))>>) >>) >>

CutSegments ==
  << SLOT := (NEW_BASE ++ K(4)),
     SEG_START := K(0),
     I := K(0),
     Until(I \succeq S_LEN,
       << match_from_at_i,
          If(MATCH,
             emit_segment_record(I) \o <<SEG_START := (I ++ F_LEN), PutStep(I, F_LEN)>>,
             <<PutStep(I, K(1))>>) >>) >>
  \o emit_segment_record(S_LEN)

split_string_body ==
  << S_LEN := Ld32(Arg(0)),
     F_LEN := Ld32(Arg(1)) >>
  \o CountSegments \o
  << AllocScratchDyn(NEW_BASE, K(8) ++ (N ** K(4))),
     NEW_BASE := Up4(NEW_BASE),
     St32(NEW_BASE, N) >>
  \o CutSegments
  \o <<Return(NEW_BASE)>>

-----------------------------------------------------------------------------
(* One code point of the first argument, from the byte at I on: CP and its *)
(* width.  The same operations are in trim, the case mappings and the      *)
(* normalisations.                                                         *)
Continuation(n) == ByteOf(Arg(0), I ++ K(n)) && K(63)

CutShort(n) == TrapIf((I ++ K(n)) \succeq S_LEN, "InvalidUtf8")

DecodeTwo ==
  << CutShort(1),
     CP := (((B0 && K(31)) ** K(64)) ++ Continuation(1)),
     CP_BYTES := K(2) >>

DecodeThree ==
  << CutShort(2),
     CP := (((B0 && K(15)) ** K(4096)) ++ ((Continuation(1) ** K(64)) ++ Continuation(2))),
     CP_BYTES := K(3) >>

DecodeFour ==
  << TrapIf(B0 \succeq K(248), "InvalidUtf8"),
     CutShort(3),
     CP := (((B0 && K(7)) ** K(262144)) ++
            ((Continuation(1) ** K(4096)) ++ ((Continuation(2) ** K(64)) ++ Continuation(3)))),
     CP_BYTES := K(4) >>

DecodeBy(two, long) ==
  << B0 := ByteOf(Arg(0), I),
     If(B0 \prec K(128),
       <<CP := B0, CP_BYTES := K(1)>>,
       << TrapIf(B0 \prec K(194), "InvalidUtf8"),
          If(B0 \prec K(224), two, long) >>) >>

DecodeLong == <<If(B0 \prec K(240), DecodeThree, DecodeFour)>>

decode_seq == DecodeBy(DecodeTwo, DecodeLong)

(* From the first to the last code point that is not white space. *)
OutRange(side) ==
  CASE side = "Both" -> <<OUT_START := START, OUT_LEN := Cond(FOUND, END -- START, K(0))>>
    [] side = "Start" -> <<OUT_START := START, OUT_LEN := (S_LEN -- START)>>
    [] side = "End" -> <<OUT_START := K(0), OUT_LEN := END>>

trim_body(side) ==
  << S_LEN := Ld32(Arg(0)),
     START := S_LEN,
     END := K(0),
     FOUND := K(0),
     I := K(0),
     Until(I \succeq S_LEN,
       decode_seq \o
       << Call(WS, "__is_whitespace", <<CP, K(WhitespaceRangesAddr)>>),
          When(Not(WS),
            << When(Not(FOUND), <<START := I, FOUND := K(1)>>),
               END := (I ++ CP_BYTES) >>),
          PutStep(I, CP_BYTES) >>) >>
  \o OutRange(side)
  \o NewString(BASE, OUT_LEN) \o
  << Memcpy(BytesOf(BASE), BytesOf(Arg(0)) ++ OUT_START, OUT_LEN),
     Return(BASE) >>

-----------------------------------------------------------------------------
(***************************************************************************)
(* The validators of the bundled library                                   *)
(* (relon-ir/src/stdlib/validators.rs).  A verdict is a product of 0s and  *)
(* 1s kept in ACC.                                                         *)
(***************************************************************************)

range_pred(b, lo, hi) == (b \succeq K(lo)) && (b \preceq K(hi))

push_is_alpha(b) == range_pred(b, 65, 90) ++ range_pred(b, 97, 122)

push_is_alnum(b) == range_pred(b, 48, 57) ++ push_is_alpha(b)

push_is_hexdigit(b) == range_pred(b, 48, 57) ++ (range_pred(b, 97, 102) ++ range_pred(b, 65, 70))

eq_byte(b, code) == b \doteq K(code)

OrAnyOf(pred, b, codes) == Seqs!FoldLeft(LAMBDA e, code : e ++ eq_byte(b, code), pred, codes)

Also(e) == ACC := (ACC && e)

Negated(e) == K(1) -- e

-----------------------------------------------------------------------------
is_uuid_string_body ==
  << S_LEN := Ld32(Arg(0)),
     When(S_LEN ## K(36), <<Return(K(0))>>),
     ACC := K(1),
     I := K(0),
     Until(I \succeq K(36),
       << BYTE := ByteOf(Arg(0), I),
          IS_DASH_POS := OrAnyOf(K(0), I, <<8, 13, 18, 23>>),
          ACC := (((IS_DASH_POS ** eq_byte(BYTE, 45))
                   ++ (Negated(IS_DASH_POS) ** push_is_hexdigit(BYTE))) && ACC),
          BrIf(Not(ACC), 1),
          PutStep(I, K(1)) >>),
     Return(ACC ## K(0)) >>

multiple_of_int_body ==
  <<Return(Cond(Not(Arg(1)), K(0), Mod64(Arg(0), Arg(1)) \doteq K(0)))>>

in_range_float_body == <<Return(LeF(Arg(1), Arg(0)) && LeF(Arg(0), Arg(2)))>>

size_in_range_record_header_body ==
  <<Return((Ld32(Arg(0)) \succeq Arg(1)) && (Ld32(Arg(0)) \preceq Arg(2)))>>

-----------------------------------------------------------------------------
(* Where a byte first is: the place and whether there is one. *)
FindLoop(place, has, code) ==
  << has := K(0),
     place := K(0),
     I := K(0),
     Until(I \succeq S_LEN,
       << BrIf(has, 1),
          BYTE := ByteOf(Arg(0), I),
          When(eq_byte(BYTE, code), <<place := I, has := K(1)>>),
          PutStep(I, K(1)) >>) >>

EMAIL_LOCAL_PUNCT ==
  <<46, 33, 35, 36, 37, 38, 39, 42, 43, 47, 61, 63, 94, 95, 96, 123, 124, 125, 126, 45>>

(* OK: the byte is a dot.  No dot first, last, or behind a dot. *)
LocalLoop ==
  << PREV_DOT := K(0),
     I := K(0),
     Until(I \succeq AT,
       << BYTE := ByteOf(Arg(0), I),
          Also(OrAnyOf(push_is_alnum(BYTE), BYTE, EMAIL_LOCAL_PUNCT)),
          OK := eq_byte(BYTE, 46),
          When(I \doteq K(0), <<Also(Negated(OK))>>),
          When(I \doteq (AT -- K(1)), <<Also(Negated(OK))>>),
          Also(Negated(PREV_DOT && OK)),
          PREV_DOT := OK,
          PutStep(I, K(1)) >>) >>

push_label_ok ==
  (((DLABEL_LEN \succeq K(1)) && (DLABEL_LEN \preceq K(63))) && Negated(DSTART_DASH))
  && Negated(DEND_DASH)

DomainByte ==
  << Also(push_is_alnum(BYTE) ++ eq_byte(BYTE, 45)),
     OK := eq_byte(BYTE, 45),
     When(Not(DLABEL_LEN), <<DSTART_DASH := OK>>),
     DEND_DASH := OK,
     PutStep(DLABEL_LEN, K(1)) >>

LabelEnds ==
  << LABEL_ACC := (LABEL_ACC && push_label_ok),
     PutStep(DOT_COUNT, K(1)),
     DLABEL_LEN := K(0),
     DSTART_DASH := K(0),
     DEND_DASH := K(0) >>

DomainLoop ==
  << DLABEL_LEN := K(0),
     DSTART_DASH := K(0),
     DEND_DASH := K(0),
     DOT_COUNT := K(0),
     LABEL_ACC := K(1),
     I := (AT ++ K(1)),
     Until(I \succeq S_LEN,
       << BYTE := ByteOf(Arg(0), I),
          IS_DOT := eq_byte(BYTE, 46),
          If(IS_DOT, LabelEnds, DomainByte),
          PutStep(I, K(1)) >>),
     LABEL_ACC := (LABEL_ACC && push_label_ok),
     ACC := ((ACC && LABEL_ACC) && (DOT_COUNT \succeq K(1))) >>

is_email_string_body ==
  <<S_LEN := Ld32(Arg(0))>>
  \o FindLoop(AT, HAS_AT, 64) \o
  << ACC := HAS_AT,
     LOCAL_LEN := AT,
     DOMAIN_LEN := ((S_LEN -- AT) -- K(1)),
     Also(range_pred(LOCAL_LEN, 1, 64)),
     Also(range_pred(DOMAIN_LEN, 1, 255)) >>
  \o LocalLoop
  \o DomainLoop
  \o <<Return(ACC ## K(0))>>

(* The first byte of the scheme is a letter. *)
SchemeLoop ==
  << I := K(0),
     Until(I \succeq COLON,
       << BYTE := ByteOf(Arg(0), I),
          If(Not(I),
             <<Also(push_is_alpha(BYTE))>>,
             <<Also(OrAnyOf(push_is_alnum(BYTE), BYTE, <<43, 45, 46>>))>>),
          PutStep(I, K(1)) >>) >>

(* A scheme, a colon, and something behind it. *)
is_uri_string_body ==
  <<S_LEN := Ld32(Arg(0))>>
  \o FindLoop(COLON, HAS_COLON, 58) \o
  << ACC := HAS_COLON,
     Also(COLON \succeq K(1)),
     Also(((S_LEN -- COLON) -- K(1)) \succeq K(1)) >>
  \o SchemeLoop
  \o <<Return(ACC ## K(0))>>

-----------------------------------------------------------------------------
ByteAt(n) == Ld8(Arg(0) ++ K(4 + n))

DigitAt(n) == ByteAt(n) -- K(48)

CheckCalendar ==
  << Also(range_pred(MONTH, 1, 12)),
     Also(DAY \succeq K(1)),
     LEAP := ((Not(YEAR %% K(4)) && ((YEAR %% K(100)) ## K(0))) ++ Not(YEAR %% K(400))),
     MAXDAY := (((OrAnyOf(K(0), MONTH, <<1, 3, 5, 7, 8, 10, 12>>) ** K(31))
                 ++ (OrAnyOf(K(0), MONTH, <<4, 6, 9, 11>>) ** K(30)))
                ++ ((MONTH \doteq K(2)) ** (K(28) ++ LEAP))),
     Also(DAY \preceq MAXDAY) >>

is_iso_date_string_body ==
  << S_LEN := Ld32(Arg(0)),
     When(S_LEN ## K(10), <<Return(K(0))>>),
     ACC := (eq_byte(ByteAt(4), 45) && eq_byte(ByteAt(7), 45)) >>
  \o [k \in 1 .. 8 |-> Also(range_pred(ByteAt(<<0, 1, 2, 3, 5, 6, 8, 9>>[k]), 48, 57))] \o
  << YEAR := ((((DigitAt(0) ** K(1000)) ++ (DigitAt(1) ** K(100))) ++ (DigitAt(2) ** K(10))) ++ DigitAt(3)),
     MONTH := ((DigitAt(5) ** K(10)) ++ DigitAt(6)),
     DAY := ((DigitAt(8) ** K(10)) ++ DigitAt(9)) >>
  \o CheckCalendar
  \o <<Return(ACC ## K(0))>>
=============================================================================
