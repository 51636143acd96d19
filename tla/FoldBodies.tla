----------------------------- MODULE FoldBodies -----------------------------
(***************************************************************************)
(* The case mappings of the bundled library and the searches they share    *)
(* (relon-ir/src/stdlib/case_fold.rs): upper, lower, title, with and       *)
(* without a locale.  Every code point is decoded, mapped through the      *)
(* tables of constant data and encoded into a buffer of four bytes for     *)
(* every byte of the argument.                                             *)
(***************************************************************************)
EXTENDS TextBodies

(* The binary search over entries of a given size behind a count.  Its     *)
(* last step is found, which leaves the search, or a half is dropped.      *)
Searched(size, step) ==
  << COUNT := Ld32(Arg(1)),
     LO := K(0),
     HI := COUNT,
     Until(LO \succeq HI,
       << MID := ((LO ++ HI) // K(2)),
          ENTRY := (Arg(1) ++ (K(4) ++ (MID ** K(size)))) >>
       \o step) >>

SearchedByKey(size, found) ==
  Searched(size,
    << KEY := Ld32(ENTRY),
       When(KEY \doteq Arg(0), found \o <<Br(2)>>),
       If(KEY \prec Arg(0), <<LO := (MID ++ K(1))>>, <<HI := MID>>) >>)

casefold_lookup_helper_body ==
  <<RESULT := Arg(0)>>
  \o SearchedByKey(8, <<RESULT := Ld32(ENTRY ++ K(4))>>)
  \o <<Return(RESULT)>>

full_casefold_lookup_helper_body ==
  <<RESULT := K(0)>>
  \o SearchedByKey(20, <<RESULT := ENTRY>>)
  \o <<Return(RESULT)>>

(* Mutated form of range_search_loop_body: the middle is searched again. *)
RangeSearchKeepsMiddle ==
  << START := Ld32(ENTRY),
     END := Ld32(ENTRY ++ K(4)),
     If(Arg(0) \prec START,
        <<HI := MID>>,
        << If(Arg(0) \succ END,
              <<LO := MID>>,
              <<RESULT := K(1), Br(3)>>) >>) >>

range_search_loop_body ==
  << START := Ld32(ENTRY),
     END := Ld32(ENTRY ++ K(4)),
     If(Arg(0) \prec START,
        <<HI := MID>>,
        << If(Arg(0) \succ END,
              <<LO := (MID ++ K(1))>>,
              <<RESULT := K(1), Br(3)>>) >>) >>

range_membership_helper_body ==
  <<RESULT := K(0)>> \o Searched(8, range_search_loop_body) \o <<Return(RESULT)>>

is_whitespace_helper_body ==
  << RESULT := K(0),
     Block(
       << When(Arg(0) \succeq K(9),
            <<When(Arg(0) \preceq K(13), <<RESULT := K(1), Br(2)>>)>>),
          When(Arg(0) \doteq K(32), <<RESULT := K(1), Br(1)>>) >>
       \o Searched(8, range_search_loop_body)),
     Return(RESULT) >>

-----------------------------------------------------------------------------
(* Is the capital sigma at byte Arg(1) of Arg(0) the end of a word? *)
PayloadByte(at, n) == ByteOf(Arg(0), at ++ K(n)) && K(63)

ForwardThree(at) ==
  << CP := (((B0 && K(15)) ** K(4096)) ++
            ((PayloadByte(at, 1) ** K(64)) ++ PayloadByte(at, 2))),
     WIDTH := K(3) >>

ForwardFour(at) ==
  << CP := (((B0 && K(7)) ** K(262144)) ++
            ((PayloadByte(at, 1) ** K(4096)) ++
             ((PayloadByte(at, 2) ** K(64)) ++ PayloadByte(at, 3)))),
     WIDTH := K(4) >>

forward_decode(at) ==
  << B0 := ByteOf(Arg(0), at),
     If(B0 \prec K(128),
       <<CP := B0, WIDTH := K(1)>>,
       << If(B0 \prec K(224),
            <<CP := (((B0 && K(31)) ** K(64)) ++ PayloadByte(at, 1)), WIDTH := K(2)>>,
            <<If(B0 \prec K(240), ForwardThree(at), ForwardFour(at))>>) >>) >>

(* The code point that ends before BACK; at most four bytes back. *)
reverse_decode ==
  << START := (BACK -- K(1)),
     Until(START \prec K(0),
       << B0 := ByteOf(Arg(0), START),
          If((B0 && K(192)) \doteq K(128),
             <<START := (START -- K(1))>>,
             <<Br(2)>>),
          BrIf((BACK -- START) \succeq K(4), 1) >>),
     When(START \prec K(0), <<START := K(0)>>) >>
  \o forward_decode(START)
  \o <<BACK := START>>

InTable(x, table) == Call(x, "__is_combining_mark", <<CP, table>>)

BackwardScan ==
  Until(BACK \prec K(1),
    reverse_decode \o
    << InTable(SINK, Arg(2)),
       When(SINK, <<SEEN_CASED_BEFORE := K(1), Br(2)>>),
       InTable(SINK, Arg(3)),
       If(SINK, <<>>, <<Br(2)>>) >>)

ForwardScan ==
  Until(FWD \succeq S_LEN,
    forward_decode(FWD) \o
    << InTable(SINK, Arg(2)),
       When(SINK, <<RESULT := K(0), Br(2)>>),
       InTable(SINK, Arg(3)),
       If(SINK, <<>>, <<Br(2)>>),
       PutStep(FWD, WIDTH) >>)

final_sigma_check_helper_body ==
  << S_LEN := Ld32(Arg(0)),
     RESULT := K(0),
     SEEN_CASED_BEFORE := K(0),
     BACK := Arg(1),
     BackwardScan,
     When(SEEN_CASED_BEFORE \doteq K(1),
       << FWD := (Arg(1) ++ K(2)),
          RESULT := K(1),
          ForwardScan >>),
     Return(RESULT) >>

-----------------------------------------------------------------------------
(* FOLDED as UTF-8 behind the J bytes written so far. *)
Shifted(cp, by) == K(128) ++ ((cp // K(by)) && K(63))

PutByte(base, at, n, byte) == St8(BytesOf(base) ++ (at ++ K(n)), byte)

(* Three bytes or four. *)
EncodedLong(cp, base, at) ==
  If(cp \prec K(65536),
     << PutByte(base, at, 0, K(224) ++ (cp // K(4096))),
        PutByte(base, at, 1, Shifted(cp, 64)),
        PutByte(base, at, 2, Shifted(cp, 1)),
        PutStep(at, K(3)) >>,
     << PutByte(base, at, 0, K(240) ++ (cp // K(262144))),
        PutByte(base, at, 1, Shifted(cp, 4096)),
        PutByte(base, at, 2, Shifted(cp, 64)),
        PutByte(base, at, 3, Shifted(cp, 1)),
        PutStep(at, K(4)) >>)

Encoded(cp, base, at) ==
  If(cp \prec K(128),
     <<PutByte(base, at, 0, cp), PutStep(at, K(1))>>,
     << If(cp \prec K(2048),
          << PutByte(base, at, 0, K(192) ++ (cp // K(64))),
             PutByte(base, at, 1, Shifted(cp, 1)),
             PutStep(at, K(2)) >>,
          <<EncodedLong(cp, base, at)>>) >>)

encode_seq == Encoded(FOLDED, BASE, J)

(* The table of the locale first, if there is one and it is Turkish. *)
DefaultLookup(upper) ==
  << Call(FOLDED, "__casefold_lookup", <<CP, K(CaseFoldTableAddr(upper))>>),
     FOLD_TABLE_FIRED := K(1),
     EFFECTIVE_UPPER := K(Bool(upper)) >>

lookup_through_table(upper, localeAware) ==
  IF ~localeAware THEN DefaultLookup(upper)
  ELSE << If(IS_TURKISH \doteq K(1),
            << Call(TURKISH_RESULT, "__casefold_lookup",
                    <<CP, K(TurkishCaseFoldTableAddr(upper))>>),
               If(TURKISH_RESULT \doteq CP,
                  DefaultLookup(upper),
                  << FOLDED := TURKISH_RESULT,
                     FOLD_TABLE_FIRED := K(1),
                     EFFECTIVE_UPPER := K(Bool(upper)) >>) >>,
            DefaultLookup(upper)) >>

(* In title case the table depends on where the word is. *)
ModeLookup(mode, localeAware) ==
  CASE mode = "Upper" -> lookup_through_table(TRUE, localeAware)
    [] mode = "Lower" -> lookup_through_table(FALSE, localeAware)
    [] mode = "Title" ->
         << Call(SINK, "__is_whitespace", <<CP, K(WhitespaceRangesAddr)>>),
            If(SINK,
               <<FOLDED := CP, AT_WORD_START := K(1)>>,
               << If(AT_WORD_START,
                     lookup_through_table(TRUE, localeAware),
                     lookup_through_table(FALSE, localeAware)),
                  AT_WORD_START := K(0) >>) >>

fold_seq(mode, localeAware) ==
  << FOLD_TABLE_FIRED := K(0),
     EFFECTIVE_UPPER := K(0),
     Call(IS_MARK, "__is_combining_mark", <<CP, K(CombiningMarkRangesAddr)>>),
     If(IS_MARK, <<FOLDED := CP>>, ModeLookup(mode, localeAware)) >>

-----------------------------------------------------------------------------
(* Mappings to several code points replace what the simple table gave. *)
full_lookup ==
  << If(EFFECTIVE_UPPER,
        <<Call(FULL_ENTRY, "__full_casefold_lookup", <<CP, K(FullCaseFoldTableAddr(TRUE))>>)>>,
        <<Call(FULL_ENTRY, "__full_casefold_lookup", <<CP, K(FullCaseFoldTableAddr(FALSE))>>)>>) >>

multi_emit_loop ==
  << FULL_OUT_LEN := Ld32(FULL_ENTRY ++ K(16)),
     FULL_SLOT_IDX := K(0),
     Until(FULL_SLOT_IDX \succeq FULL_OUT_LEN,
       << FOLDED := Ld32(FULL_ENTRY ++ (K(4) ++ (FULL_SLOT_IDX ** K(4)))),
          encode_seq,
          PutStep(FULL_SLOT_IDX, K(1)) >>) >>

final_sigma_override ==
  << Call(SINK, "__final_sigma_check",
          <<Arg(0), I, K(CasedRangesAddr), K(CaseIgnorableRangesAddr)>>),
     When(SINK \doteq K(1), <<FOLDED := K(962)>>) >>

is_sigma_lower == ((CP \doteq K(931)) ++ Not(EFFECTIVE_UPPER)) \doteq K(2)

overlay ==
  If(Not(FOLD_TABLE_FIRED),
     <<encode_seq>>,
     << If(is_sigma_lower,
          final_sigma_override \o <<encode_seq>>,
          full_lookup \o
          <<If(FULL_ENTRY ## K(0), multi_emit_loop, <<encode_seq>>)>>) >>)

(* Two letters, "tr" or "az" in any case, at the end or before - or _. *)
LocaleByte(n) == Ld8(Arg(1) ++ K(4 + n))

IsEither(byte, a, b) == (byte \doteq K(a)) ++ (byte \doteq K(b))

IsTurkishPair(first, second) ==
  (IsEither(first, 116, 84) && IsEither(second, 114, 82)) ++
  (IsEither(first, 97, 65) && IsEither(second, 122, 90))

LocaleDetect ==
  << IS_TURKISH := K(0),
     TURKISH_RESULT := Ld32(Arg(1)),
     When(TURKISH_RESULT \succeq K(2),
       << B_TMP := Cond(TURKISH_RESULT \doteq K(2), K(1), IsEither(LocaleByte(2), 45, 95)),
          B0 := LocaleByte(0),
          CP := LocaleByte(1),
          IS_TURKISH := (IsTurkishPair(B0, CP) && B_TMP) >>) >>

(* A copy of the operations in trim. *)
FoldDecodeLong == DecodeLong

FoldDecode == DecodeBy(DecodeTwo, FoldDecodeLong)

case_fold_body_inner_body(mode, localeAware) ==
  << S_LEN := Ld32(Arg(0)),
     AllocScratchDyn(BASE, K(4) ++ (S_LEN ** K(4))),
     I := K(0),
     J := K(0),
     AT_WORD_START := K(1) >>
  \o (IF localeAware THEN LocaleDetect ELSE <<>>) \o
  << Until(I \succeq S_LEN,
       FoldDecode \o fold_seq(mode, localeAware) \o
       <<overlay, PutStep(I, CP_BYTES)>>),
     St32(BASE, J),
     Return(BASE) >>

-----------------------------------------------------------------------------
(***************************************************************************)
(* The normalisation forms of the bundled library                          *)
(* (relon-ir/src/stdlib/normalization.rs): the argument is decomposed into *)
(* a buffer of code points, the marks are put in canonical order, nfc and  *)
(* nfkc compose in place, and the code points are encoded into a second    *)
(* buffer.                                                                 *)
(***************************************************************************)

S_BASE == 44032
L_BASE == 4352
V_BASE == 4449
T_BASE == 4519
L_COUNT == 19
V_COUNT == 21
T_COUNT == 28
N_COUNT == V_COUNT * T_COUNT
S_COUNT == L_COUNT * N_COUNT

decomp_lookup_helper_body ==
  <<RESULT := K(0)>>
  \o SearchedByKey(12, <<RESULT := ((Ld32(ENTRY ++ K(4)) ** K(256)) ++ Ld32(ENTRY ++ K(8)))>>)
  \o <<Return(RESULT)>>

ccc_lookup_helper_body ==
  <<RESULT := K(0)>>
  \o SearchedByKey(8, <<RESULT := Ld32(ENTRY ++ K(4))>>)
  \o <<Return(RESULT)>>

NarrowByPair ==
  If(Cond(KEY_A \prec Arg(0), K(1), Cond(KEY_A \doteq Arg(0), KEY_B \prec Arg(1), K(0))),
     <<LO := (MID ++ K(1))>>,
     <<HI := MID>>)

(* The key is a pair; the table is the third argument. *)
compose_lookup_helper_body ==
  << COUNT := Ld32(Arg(2)),
     LO := K(0),
     HI := COUNT,
     RESULT := K(-1),
     Until(LO \succeq HI,
       << MID := ((LO ++ HI) // K(2)),
          ENTRY := (Arg(2) ++ (K(4) ++ (MID ** K(12)))),
          KEY_A := Ld32(ENTRY),
          KEY_B := Ld32(ENTRY ++ K(4)),
          When(KEY_A \doteq Arg(0),
            <<When(KEY_B \doteq Arg(1), <<RESULT := Ld32(ENTRY ++ K(8)), Br(3)>>)>>),
          NarrowByPair >>),
     Return(RESULT) >>

-----------------------------------------------------------------------------
CpAt(index) == BytesOf(CP_BASE) ++ (index ** K(4))

append_cp(e) == <<St32(BytesOf(CP_BASE) ++ J, e), PutStep(J, K(4))>>

(* TMP is left 1 if CP is a Hangul syllable. *)
HangulDecompose ==
  << TMP2 := K(0),
     When(CP \succeq K(S_BASE),
       << TMP := (CP -- K(S_BASE)),
          When(TMP \prec K(S_COUNT),
            append_cp(K(L_BASE) ++ (TMP // K(N_COUNT)))
            \o append_cp(K(V_BASE) ++ ((TMP %% K(N_COUNT)) // K(T_COUNT))) \o
            << TMP2 := (TMP %% K(T_COUNT)),
               When(TMP2, append_cp(K(T_BASE) ++ TMP2)),
               TMP2 := K(1) >>) >>),
     TMP := TMP2 >>

(* The offset and the length of the mapping share one word; the pool is    *)
(* behind the entries.                                                     *)
AppendPool ==
  << KK := K(0),
     Until(KK \succeq TMP2,
       append_cp(Ld32(LOOKUP ++ ((TMP ++ KK) ** K(4)))) \o <<PutStep(KK, K(1))>>) >>

TableDecompose(compat) ==
  LET table == K(DecompTableAddr(compat))
  IN << Call(LOOKUP, "__decomp_lookup", <<CP, table>>),
        If(Not(LOOKUP),
           append_cp(CP),
           << TMP := (LOOKUP // K(256)),
              TMP2 := (LOOKUP && K(255)),
              LOOKUP := (((Ld32(table) ** K(12)) ++ K(8)) ++ table) >>
           \o AppendPool) >>

decompose_seq(compat) == HangulDecompose \o <<When(Not(TMP), TableDecompose(compat))>>

-----------------------------------------------------------------------------
(* Runs of marks are sorted by their class, by insertion, so that marks of *)
(* the same class keep their order.                                        *)
Ccc(x, cp) == Call(x, "__ccc_lookup", <<cp, K(CccTableAddr)>>)

SwapBack ==
  << B_TMP := CpAt(B0 -- K(1)),
     LOOKUP := CpAt(B0),
     TMP := Ld32(B_TMP),
     TMP2 := Ld32(LOOKUP),
     Ccc(A, TMP),
     Ccc(B, TMP2),
     If(A \succ B,
        << St32(B_TMP, TMP2),
           St32(LOOKUP, TMP),
           B0 := (B0 -- K(1)) >>,
        <<Br(2)>>) >>

SortRun ==
  << I := (KK ++ K(1)),
     Until(I \succeq RUN_END,
       << B0 := I,
          Until(B0 \preceq KK, SwapBack),
          PutStep(I, K(1)) >>) >>

FindRunEnd ==
  << RUN_END := KK,
     Until(RUN_END \succeq CP_LEN,
       << Ccc(A, Ld32(CpAt(RUN_END))),
          BrIf(Not(A), 1),
          PutStep(RUN_END, K(1)) >>) >>

reorder_seq ==
  << CP_LEN := (J // K(4)),
     KK := K(0),
     Until(KK \succeq CP_LEN,
       << CP := Ld32(CpAt(KK)),
          Ccc(TMP, CP),
          When(Not(TMP), <<PutStep(KK, K(1)), Br(1)>>) >>
       \o FindRunEnd
       \o SortRun
       \o <<KK := RUN_END>>) >>

-----------------------------------------------------------------------------
(* TMP is the code point, TMP2 its class, LOOKUP the last starter, B_TMP   *)
(* the class of the last mark behind it, FOLDED the composite or -1.       *)
Within(x, low, count) == Cond(x \succeq K(low), x \prec K(low + count), K(0))

ComposeLV ==
  << FOLDED := K(-1),
     When(Within(LOOKUP, L_BASE, L_COUNT),
       <<When(Within(TMP, V_BASE, V_COUNT),
           <<FOLDED := ((K(S_BASE) ++ ((LOOKUP -- K(L_BASE)) ** K(V_COUNT * T_COUNT)))
                        ++ ((TMP -- K(V_BASE)) ** K(T_COUNT)))>>)>>) >>

ComposeLVT ==
  << When(FOLDED \doteq K(-1),
       <<When(Within(LOOKUP, S_BASE, S_COUNT),
           <<When(Cond(Not((LOOKUP -- K(S_BASE)) %% K(T_COUNT)),
                       Within(TMP, T_BASE + 1, T_COUNT - 1), K(0)),
               <<FOLDED := (LOOKUP ++ (TMP -- K(T_BASE)))>>)>>)>>) >>

(* In the source the branch leaves two conditionals for the loop. *)
TryCompose ==
  <<LOOKUP := Ld32(CpAt(B0))>>
  \o ComposeLV
  \o ComposeLVT \o
  << When(FOLDED \doteq K(-1),
       <<Call(FOLDED, "__compose_lookup", <<LOOKUP, TMP, K(CompositionTableAddr)>>)>>),
     When(Cond(FOLDED ## K(-1), Cond(TMP2, B_TMP \prec TMP2, K(1)), K(0)),
       << St32(CpAt(B0), FOLDED),
          PutStep(I, K(1)),
          Br(2) >>) >>

EmitCurrent ==
  << St32(CpAt(J), TMP),
     If(Not(TMP2), <<B0 := J, B_TMP := K(0)>>, <<B_TMP := TMP2>>),
     PutStep(J, K(1)),
     PutStep(I, K(1)) >>

compose_seq ==
  << I := K(0),
     J := K(0),
     B0 := K(-1),
     B_TMP := K(0),
     Until(I \succeq CP_LEN,
       << TMP := Ld32(CpAt(I)),
          Ccc(TMP2, TMP),
          When(B0 ## K(-1), TryCompose) >>
       \o EmitCurrent),
     CP_LEN := J >>

EncodeOne == Encoded(FOLDED, OUT_BASE, OUT_J)

EncodeAll ==
  << OUT_J := K(0),
     KK := K(0),
     Until(KK \succeq CP_LEN,
       << FOLDED := Ld32(CpAt(KK)),
          EncodeOne,
          PutStep(KK, K(1)) >>) >>

(* A copy of the operations in trim. *)
NormDecodeLong == DecodeLong

NormDecode == DecodeBy(DecodeTwo, NormDecodeLong)

normalize_body_ops(compat, composes) ==
  << S_LEN := Ld32(Arg(0)),
     AllocScratchDyn(CP_BASE, K(4) ++ (S_LEN ** K(72))),
     AllocScratchDyn(OUT_BASE, K(4) ++ (S_LEN ** K(72))),
     I := K(0),
     J := K(0),
     Until(I \succeq S_LEN,
       NormDecode \o decompose_seq(compat) \o <<PutStep(I, CP_BYTES)>>) >>
  \o reorder_seq
  \o (IF composes THEN compose_seq ELSE <<>>)
  \o EncodeAll \o
  << St32(OUT_BASE, OUT_J),
     Return(OUT_BASE) >>
=============================================================================
