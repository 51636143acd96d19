---------------------------- MODULE TreeWalkText ----------------------------
(***************************************************************************)
(* The string library as the tree-walking evaluator computes it            *)
(* (relon-evaluator/src/stdlib.rs, relon-unicode).  A string is the        *)
(* sequence of its UTF-8 bytes; Chars gives its code points.               *)
(***************************************************************************)
EXTENDS UnicodeTables
LOCAL INSTANCE SequencesExt

Utf8Of(cp) ==
  LET more(by) == 128 + ((cp \div by) % 64)
  IN CASE cp < 128 -> <<cp>>
       [] cp \in 128 .. 2047 -> <<192 + cp \div 64, more(1)>>
       [] cp \in 2048 .. 65535 -> <<224 + cp \div 4096, more(64), more(1)>>
       [] OTHER -> <<240 + cp \div 262144, more(4096), more(64), more(1)>>

Utf8(cps) == FlattenSeq([k \in DOMAIN cps |-> Utf8Of(cps[k])])

WidthOf(byte) ==
  CASE byte < 128 -> 1 [] byte \in 128 .. 223 -> 2 [] byte \in 224 .. 239 -> 3 [] OTHER -> 4

RECURSIVE Chars(_)
Chars(s) ==
  IF s = <<>> THEN <<>>
  ELSE LET low(k) == s[k] % 64
           cp == CASE WidthOf(s[1]) = 1 -> s[1]
                   [] WidthOf(s[1]) = 2 -> (s[1] % 32) * 64 + low(2)
                   [] WidthOf(s[1]) = 3 -> (s[1] % 16) * 4096 + low(2) * 64 + low(3)
                   [] WidthOf(s[1]) = 4 -> (s[1] % 8) * 262144 + low(2) * 4096 + low(3) * 64 + low(4)
       IN <<cp>> \o Chars(SubSeq(s, WidthOf(s[1]) + 1, Len(s)))

Rest(s, n) == SubSeq(s, n + 1, Len(s))

-----------------------------------------------------------------------------
StartsWith(s, p) == IsPrefix(p, s)

EndsWith(s, p) == IsSuffix(p, s)

StringContains(s, p) == \E n \in 0 .. Len(s) : IsPrefix(p, Rest(s, n))

(* Occurrences from left to right that do not overlap; with nothing to     *)
(* look for, every place between two code points.                          *)
RECURSIVE Replaced(_, _, _)
Replaced(s, from, to) ==
  CASE s = <<>> -> <<>>
    [] s # <<>> /\ IsPrefix(from, s) -> to \o Replaced(Rest(s, Len(from)), from, to)
    [] OTHER -> <<s[1]>> \o Replaced(Tail(s), from, to)

StringReplace(s, from, to) ==
  IF from = <<>>
  THEN FlattenSeq([k \in DOMAIN Chars(s) |-> to \o Utf8Of(Chars(s)[k])]) \o to
  ELSE Replaced(s, from, to)

(* The parts; the first one starts with the bytes already passed. *)
RECURSIVE SplitBehind(_, _, _)
SplitBehind(passed, s, separator) ==
  CASE s = <<>> -> <<passed>>
    [] s # <<>> /\ IsPrefix(separator, s) ->
         <<passed>> \o SplitBehind(<<>>, Rest(s, Len(separator)), separator)
    [] OTHER -> SplitBehind(Append(passed, s[1]), Tail(s), separator)

StringSplit(s, separator) == SplitBehind(<<>>, s, separator)

(* Indices are clamped and moved up to the start of a code point. *)
Smaller(a, b) == IF a < b THEN a ELSE b
Larger(a, b) == IF a < b THEN b ELSE a

Boundaries(s) == {n \in 0 .. Len(s) : n = Len(s) \/ s[n + 1] \notin 128 .. 191}

BoundaryFrom(s, n) == CHOOSE b \in Boundaries(s) : b >= n /\ \A c \in Boundaries(s) : c >= n => b <= c

StringSubstring(s, start, length) ==
  LET first == Larger(0, Smaller(start, Len(s)))
      end == Smaller(first + Larger(0, length), Len(s))
  IN IF end <= first THEN <<>> ELSE SubSeq(s, BoundaryFrom(s, first) + 1, BoundaryFrom(s, end))

OutOfRange(s, start, length) == start < 0 \/ length < 0 \/ start + length > Len(s)

StringTrim(s, start, end) ==
  LET cps == Chars(s)
      solid == {k \in DOMAIN cps : ~is_unicode_whitespace(cps[k])}
      first == IF start THEN CHOOSE k \in solid : \A j \in solid : k <= j ELSE 1
      last == IF end THEN CHOOSE k \in solid : \A j \in solid : k >= j ELSE Len(cps)
  IN IF solid = {} THEN <<>> ELSE Utf8(SubSeq(cps, first, last))

-----------------------------------------------------------------------------
(* Case mappings. *)
is_final_sigma_context(cps, anchor) ==
  LET decides(k) == ~is_case_ignorable(cps[k]) \/ is_cased(cps[k])
      before == {k \in 1 .. anchor - 1 : decides(k)}
      after == {k \in anchor + 1 .. Len(cps) : decides(k)}
  IN /\ before # {}
     /\ is_cased(cps[CHOOSE k \in before : \A j \in before : k >= j])
     /\ after # {} => ~is_cased(cps[CHOOSE k \in after : \A j \in after : k <= j])

is_turkish_locale(locale) ==
  /\ Len(locale) >= 2
  /\ Len(locale) = 2 \/ locale[3] \in {45, 95}
  /\ \/ locale[1] \in {116, 84} /\ locale[2] \in {114, 82}
     \/ locale[1] \in {97, 65} /\ locale[2] \in {122, 90}

EntryOutputs(table, cp) == LET e == entry_for(table, cp) IN SubSeq(e, 2, e[5] + 1)

(* One code point in a mode that is Upper or Lower. *)
MappedCodePoint(cps, i, upper, turkish) ==
  LET cp == cps[i]
      turkishTable == IF upper THEN TURKISH_UPPER_FOLDING ELSE TURKISH_LOWER_FOLDING
      fullTable == IF upper THEN FULL_UPPER_FOLDING ELSE FULL_LOWER_FOLDING
      simpleTable == IF upper THEN SIMPLE_UPPER_FOLDING ELSE SIMPLE_LOWER_FOLDING
  IN CASE ~upper /\ cp = 931 -> <<IF is_final_sigma_context(cps, i) THEN 962 ELSE 963>>
       [] (upper \/ cp # 931) /\ turkish /\ HasEntry(turkishTable, cp) -> EntryOutputs(turkishTable, cp)
       [] (upper \/ cp # 931) /\ ~(turkish /\ HasEntry(turkishTable, cp)) ->
            CASE HasEntry(fullTable, cp) -> EntryOutputs(fullTable, cp)
              [] ~HasEntry(fullTable, cp) /\ HasEntry(simpleTable, cp) -> <<entry_for(simpleTable, cp)[2]>>
              [] OTHER -> <<cp>>

(* The code points from i on. *)
RECURSIVE FoldFrom(_, _, _, _, _)
FoldFrom(cps, i, mode, turkish, atWordStart) ==
  CASE i > Len(cps) -> <<>>
    [] i <= Len(cps) /\ is_combining_mark(cps[i]) ->
         <<cps[i]>> \o FoldFrom(cps, i + 1, mode, turkish, atWordStart)
    [] i <= Len(cps) /\ ~is_combining_mark(cps[i]) /\ mode = "Title" /\ is_unicode_whitespace(cps[i]) ->
         <<cps[i]>> \o FoldFrom(cps, i + 1, mode, turkish, TRUE)
    [] OTHER ->
         MappedCodePoint(cps, i, mode = "Upper" \/ (mode = "Title" /\ atWordStart), turkish)
         \o FoldFrom(cps, i + 1, mode, turkish, FALSE)

(* A string of ASCII alone is folded byte by byte, without the tables; one *)
(* that fits into the inline form of a string, by another loop.            *)
SMOL_STR_INLINE_CAP == 22

AsciiFolded(byte, upper) ==
  CASE upper /\ byte \in 97 .. 122 -> byte - 32
    [] ~upper /\ byte \in 65 .. 90 -> byte + 32
    [] OTHER -> byte

AsciiFold(s, mode, spaces) ==
  LET wordStart(k) == k = 1 \/ s[k - 1] \in spaces
  IN [k \in DOMAIN s |-> AsciiFolded(s[k], mode = "Upper" \/ (mode = "Title" /\ wordStart(k)))]

(* u8::is_ascii_whitespace has no vertical tab. *)
fold_string_to_smol_ascii_fast(s, mode) == AsciiFold(s, mode, {9, 10, 12, 13, 32})

case_fold_ascii_fast(s, mode) == AsciiFold(s, mode, {9, 10, 11, 12, 13, 32})

fold_string_to_smol_with_hint(s, mode, turkish) ==
  CASE turkish \/ \E k \in DOMAIN s : s[k] >= 128 ->
         Utf8(FoldFrom(Chars(s), 1, mode, turkish, TRUE))
    [] Len(s) <= SMOL_STR_INLINE_CAP -> fold_string_to_smol_ascii_fast(s, mode)
    [] OTHER -> case_fold_ascii_fast(s, mode)

-----------------------------------------------------------------------------
(* Normalisation (relon-unicode/src/normalization.rs). *)
HANGUL_S_BASE == 44032
HANGUL_L_BASE == 4352
HANGUL_V_BASE == 4449
HANGUL_T_BASE == 4519
HANGUL_V_COUNT == 21
HANGUL_T_COUNT == 28
HangulSyllables == HANGUL_S_BASE .. HANGUL_S_BASE + 11171

hangul_decompose_into(cp) ==
  LET s == cp - HANGUL_S_BASE
      n == HANGUL_V_COUNT * HANGUL_T_COUNT
      t == s % HANGUL_T_COUNT
  IN <<HANGUL_L_BASE + (s \div n), HANGUL_V_BASE + ((s % n) \div HANGUL_T_COUNT)>>
     \o (IF t = 0 THEN <<>> ELSE <<HANGUL_T_BASE + t>>)

(* The set holds the syllable, or nothing. *)
hangul_compose(a, b) ==
  CASE a \in HANGUL_L_BASE .. HANGUL_L_BASE + 18 /\ b \in HANGUL_V_BASE .. HANGUL_V_BASE + 20 ->
         {HANGUL_S_BASE + ((a - HANGUL_L_BASE) * HANGUL_V_COUNT + (b - HANGUL_V_BASE)) * HANGUL_T_COUNT}
    [] /\ a \in HangulSyllables /\ (a - HANGUL_S_BASE) % HANGUL_T_COUNT = 0
       /\ b \in HANGUL_T_BASE + 1 .. HANGUL_T_BASE + 27 -> {a + (b - HANGUL_T_BASE)}
    [] OTHER -> {}

decompose_to_buffer(cps, compat) ==
  FlattenSeq([k \in DOMAIN cps |->
    CASE cps[k] \in HangulSyllables -> hangul_decompose_into(cps[k])
      [] cps[k] \notin HangulSyllables /\ compat -> DecompositionOf(cps[k], NFKD_INDEX, NFKD_POOL)
      [] OTHER -> DecompositionOf(cps[k], NFD_INDEX, NFD_POOL)])

(* A code point goes behind the starters before it and the marks of its    *)
(* run that have a smaller class, or the same class and an earlier place.  *)
canonical_reorder(cps) ==
  LET sameRun(j, k) == \A i \in Smaller(j, k) .. Larger(j, k) : ccc(cps[i]) # 0
      precedes(j, k) == IF j # k /\ sameRun(j, k)
                        THEN ccc(cps[j]) < ccc(cps[k]) \/ (ccc(cps[j]) = ccc(cps[k]) /\ j < k)
                        ELSE j < k
  IN SortSeq([k \in DOMAIN cps |-> k], precedes)

Reordered(cps) == LET perm == canonical_reorder(cps) IN [k \in DOMAIN cps |-> cps[perm[k]]]

(* out is what has been emitted, starter the index of its last starter. *)
RECURSIVE ComposeOnto(_, _, _, _)
ComposeOnto(out, starter, lastCcc, cps) ==
  IF cps = <<>> THEN out
  ELSE LET cp == cps[1]
           hangul == IF starter = 0 THEN {} ELSE hangul_compose(out[starter], cp)
           composed == CASE starter = 0 -> {}
                         [] starter # 0 /\ hangul # {} -> hangul
                         [] OTHER -> compose_pair(out[starter], cp)
           blocked == ccc(cp) # 0 /\ lastCcc >= ccc(cp)
       IN CASE composed # {} /\ ~blocked ->
                 ComposeOnto([out EXCEPT ![starter] = CHOOSE c \in composed : TRUE],
                             starter, lastCcc, Tail(cps))
            [] (composed = {} \/ blocked) /\ ccc(cp) = 0 ->
                 ComposeOnto(Append(out, cp), Len(out) + 1, 0, Tail(cps))
            [] OTHER -> ComposeOnto(Append(out, cp), starter, ccc(cp), Tail(cps))

compose(cps) == ComposeOnto(<<>>, 0, 0, cps)

Normalized(s, compat, composes) ==
  LET decomposed == Reordered(decompose_to_buffer(Chars(s), compat))
  IN Utf8(IF composes THEN compose(decomposed) ELSE decomposed)

-----------------------------------------------------------------------------
(* Validators. *)
Digits == 48 .. 57
Alphabetic == 65 .. 90 \cup 97 .. 122
Alphanumeric == Digits \cup Alphabetic
HexDigits == Digits \cup 65 .. 70 \cup 97 .. 102
EmailLocalChars ==
  Alphanumeric \cup {46, 33} \cup 35 .. 39 \cup {42, 43, 45, 47, 61, 63} \cup 94 .. 96 \cup 123 .. 126

AllIn(s, set) == \A k \in DOMAIN s : s[k] \in set

(* Where a byte is first found, or 0. *)
FindByte(s, byte) ==
  IF \E k \in DOMAIN s : s[k] = byte
  THEN CHOOSE k \in DOMAIN s : s[k] = byte /\ \A j \in 1 .. k - 1 : s[j] # byte
  ELSE 0

IsDomainLabel(label) ==
  /\ Len(label) \in 1 .. 63
  /\ AllIn(label, Alphanumeric \cup {45})
  /\ label[1] # 45 /\ label[Len(label)] # 45

is_email_str(s) ==
  LET at == FindByte(s, 64)
      name == SubSeq(s, 1, at - 1)
      domain == Rest(s, at)
      labels == StringSplit(domain, <<46>>)
  IN /\ at # 0
     /\ Len(name) \in 1 .. 64
     /\ Len(domain) \in 1 .. 255
     /\ AllIn(name, EmailLocalChars)
     /\ ~StartsWith(name, <<46>>) /\ ~EndsWith(name, <<46>>) /\ ~StringContains(name, <<46, 46>>)
     /\ Len(labels) >= 2
     /\ \A k \in DOMAIN labels : IsDomainLabel(labels[k])

is_uri_str(s) ==
  LET colon == FindByte(s, 58)
  IN /\ colon > 1
     /\ colon < Len(s)
     /\ s[1] \in Alphabetic
     /\ AllIn(SubSeq(s, 2, colon - 1), Alphanumeric \cup {43, 45, 46})

is_uuid_str(s) ==
  /\ Len(s) = 36
  /\ \A k \in 1 .. 36 : IF k \in {9, 14, 19, 24} THEN s[k] = 45 ELSE s[k] \in HexDigits

(* str::parse::<u32>: digits, behind an optional plus sign. *)
ParsesAsU32(s) ==
  LET digits == IF s[1] = 43 THEN Tail(s) ELSE s IN digits # <<>> /\ AllIn(digits, Digits)

RECURSIVE Parsed(_)
Parsed(s) ==
  IF s = <<>> THEN 0
  ELSE 10 * Parsed(SubSeq(s, 1, Len(s) - 1)) + (IF s[Len(s)] = 43 THEN 0 ELSE s[Len(s)] - 48)

MaxDay(year, month) ==
  CASE month \in {1, 3, 5, 7, 8, 10, 12} -> 31
    [] month \in {4, 6, 9, 11} -> 30
    [] OTHER -> IF (year % 4 = 0 /\ year % 100 # 0) \/ year % 400 = 0 THEN 29 ELSE 28

is_iso_date_str(s) ==
  /\ Len(s) = 10
  /\ s[5] = 45 /\ s[8] = 45
  /\ ParsesAsU32(SubSeq(s, 1, 4)) /\ ParsesAsU32(SubSeq(s, 6, 7)) /\ ParsesAsU32(SubSeq(s, 9, 10))
  /\ Parsed(SubSeq(s, 6, 7)) \in 1 .. 12
  /\ Parsed(SubSeq(s, 9, 10)) \in 1 .. MaxDay(Parsed(SubSeq(s, 1, 4)), Parsed(SubSeq(s, 6, 7)))
=============================================================================
