--------------------------- MODULE UnicodeTables ---------------------------
(***************************************************************************)
(* The tables of relon-unicode: the code points the runs use, with the     *)
(* entries the crate gives them, their layout in the constant data of a    *)
(* compiled module, and the lookups of the tree-walking evaluator.         *)
(***************************************************************************)
EXTENDS Integers, Sequences, TLC
LOCAL INSTANCE SequencesExt

NON_ASCII_WHITESPACE_RANGES ==
  << <<133, 133>>, <<160, 160>>, <<5760, 5760>>, <<8192, 8202>>, <<8232, 8232>>,
     <<8233, 8233>>, <<8239, 8239>>, <<8287, 8287>>, <<12288, 12288>> >>

COMBINING_MARK_RANGES == << <<768, 879>>, <<1155, 1161>>, <<1425, 1469>> >>

(* a, i, s, the dotless i, the two small sigmas, Deseret long i. *)
SIMPLE_UPPER_FOLDING ==
  << <<97, 65>>, <<105, 73>>, <<115, 83>>, <<305, 73>>, <<962, 931>>, <<963, 931>>,
     <<66600, 66560>> >>

SIMPLE_LOWER_FOLDING ==
  << <<65, 97>>, <<73, 105>>, <<83, 115>>, <<931, 963>>, <<66560, 66600>> >>

(* Key, three outputs, how many of them count. *)
FULL_UPPER_FOLDING ==
  << <<223, 83, 83, 0, 2>>, <<912, 921, 776, 769, 3>>, <<64257, 70, 73, 0, 2>> >>

FULL_LOWER_FOLDING == << <<304, 105, 775, 0, 2>> >>

TURKISH_UPPER_FOLDING == << <<105, 304, 0, 0, 1>>, <<305, 73, 0, 0, 1>> >>

TURKISH_LOWER_FOLDING == << <<73, 305, 0, 0, 1>>, <<304, 105, 0, 0, 1>> >>

CASED_RANGES ==
  << <<65, 90>>, <<97, 122>>, <<192, 214>>, <<216, 246>>, <<248, 442>>, <<837, 837>>,
     <<910, 929>>, <<931, 1013>>, <<66560, 66639>> >>

CASE_IGNORABLE_RANGES == << <<39, 39>>, <<46, 46>>, <<58, 58>>, <<688, 879>> >>

(* Key, the first element in the pool, how many. *)
NFD_INDEX ==
  << <<197, 0, 2>>, <<233, 2, 2>>, <<2507, 4, 2>>, <<7777, 9, 2>>, <<7779, 6, 2>>,
     <<7785, 6, 3>>, <<8491, 0, 2>> >>

NFD_POOL == <<65, 778, 101, 769, 2503, 2494, 115, 803, 775, 115, 775>>

NFKD_INDEX == NFD_INDEX \o << <<64257, 11, 2>> >>

NFKD_POOL == NFD_POOL \o <<102, 105>>

CCC_TABLE == << <<769, 230>>, <<775, 230>>, <<778, 230>>, <<803, 220>>, <<820, 1>> >>

COMPOSITION_PAIRS ==
  << <<65, 778, 197>>, <<101, 769, 233>>, <<115, 775, 7777>>, <<115, 803, 7779>>,
     <<2503, 2494, 2507>>, <<7779, 775, 7785>> >>

-----------------------------------------------------------------------------
(* Tables in constant data: a count, then the entries, words of 32 bits. *)
WordsAt(at, words) ==
  [x \in {at + 4 * (k - 1) : k \in DOMAIN words} |-> words[(x - at) \div 4 + 1]]

encode_table(rows) == <<Len(rows)>> \o FlattenSeq(rows)

encode_simple_view(rows) == encode_table([k \in DOMAIN rows |-> SubSeq(rows[k], 1, 2)])

encode_decomp_table(index, pool) == encode_table(index) \o <<Len(pool)>> \o pool

WhitespaceRangesAddr == 100000
CombiningMarkRangesAddr == 101000
CaseFoldTableAddr(upper) == IF upper THEN 102000 ELSE 103000
FullCaseFoldTableAddr(upper) == IF upper THEN 104000 ELSE 105000
TurkishCaseFoldTableAddr(upper) == IF upper THEN 106000 ELSE 107000
CasedRangesAddr == 108000
CaseIgnorableRangesAddr == 109000
DecompTableAddr(compat) == IF compat THEN 110000 ELSE 111000
CccTableAddr == 112000
CompositionTableAddr == 113000

Rom ==
  WordsAt(WhitespaceRangesAddr, encode_table(NON_ASCII_WHITESPACE_RANGES))
  @@ WordsAt(CombiningMarkRangesAddr, encode_table(COMBINING_MARK_RANGES))
  @@ WordsAt(CaseFoldTableAddr(TRUE), encode_table(SIMPLE_UPPER_FOLDING))
  @@ WordsAt(CaseFoldTableAddr(FALSE), encode_table(SIMPLE_LOWER_FOLDING))
  @@ WordsAt(FullCaseFoldTableAddr(TRUE), encode_table(FULL_UPPER_FOLDING))
  @@ WordsAt(FullCaseFoldTableAddr(FALSE), encode_table(FULL_LOWER_FOLDING))
  @@ WordsAt(TurkishCaseFoldTableAddr(TRUE), encode_simple_view(TURKISH_UPPER_FOLDING))
  @@ WordsAt(TurkishCaseFoldTableAddr(FALSE), encode_simple_view(TURKISH_LOWER_FOLDING))
  @@ WordsAt(CasedRangesAddr, encode_table(CASED_RANGES))
  @@ WordsAt(CaseIgnorableRangesAddr, encode_table(CASE_IGNORABLE_RANGES))
  @@ WordsAt(DecompTableAddr(TRUE), encode_decomp_table(NFKD_INDEX, NFKD_POOL))
  @@ WordsAt(DecompTableAddr(FALSE), encode_decomp_table(NFD_INDEX, NFD_POOL))
  @@ WordsAt(CccTableAddr, encode_table(CCC_TABLE))
  @@ WordsAt(CompositionTableAddr, encode_table(COMPOSITION_PAIRS))

-----------------------------------------------------------------------------
(* Lookups; a key occurs once, so a search finds the entry if there is one. *)
cp_in_ranges(cp, ranges) == \E k \in DOMAIN ranges : ranges[k][1] <= cp /\ cp <= ranges[k][2]

HasEntry(table, cp) == \E k \in DOMAIN table : table[k][1] = cp

entry_for(table, cp) == table[CHOOSE k \in DOMAIN table : table[k][1] = cp]

is_unicode_whitespace(cp) ==
  cp \in 9 .. 13 \cup {32} \/ cp_in_ranges(cp, NON_ASCII_WHITESPACE_RANGES)

is_combining_mark(cp) == cp_in_ranges(cp, COMBINING_MARK_RANGES)

is_cased(cp) == cp_in_ranges(cp, CASED_RANGES)

is_case_ignorable(cp) == cp_in_ranges(cp, CASE_IGNORABLE_RANGES)

ccc(cp) == IF HasEntry(CCC_TABLE, cp) THEN entry_for(CCC_TABLE, cp)[2] ELSE 0

(* nfd_lookup and nfkd_lookup; the code point itself if it has no mapping. *)
DecompositionOf(cp, index, pool) ==
  IF HasEntry(index, cp)
  THEN LET e == entry_for(index, cp) IN SubSeq(pool, e[2] + 1, e[2] + e[3])
  ELSE <<cp>>

(* The composites of a pair: one or none. *)
compose_pair(a, b) ==
  {COMPOSITION_PAIRS[k][3] : k \in {j \in DOMAIN COMPOSITION_PAIRS :
     COMPOSITION_PAIRS[j][1] = a /\ COMPOSITION_PAIRS[j][2] = b}}
=============================================================================
