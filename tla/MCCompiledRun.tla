--------------------------- MODULE MCCompiledRun ---------------------------
(* Small programs and their inputs.  Lists are all short ones over three   *)
(* values and a few longer; texts bring the code points the tables treat   *)
(* differently next to each other.  A program that is padded first builds  *)
(* a string, so that the scratch cursor is at no multiple of 4 when the    *)
(* rest of it begins.                                                      *)
EXTENDS CompiledRun

Given1(name, t) == [name |-> name, t |-> t]

Prog(params, returns, body, ins) ==
  [main |-> Main(params, returns, body), inputs |-> ins, clamps |-> FALSE, backends |-> {"cranelift", "llvm"},
   budgets |-> {<<>>}]

Pad == Pair("pad", FStringE(<<StringE(<<97, 98>>), StringE(<<99>>)>>))

Padded(p) == [p EXCEPT !.main.body = WhereE(@, <<Pad>>)]

SeqsTo(set, n) == UNION {[1 .. k -> set] : k \in 0 .. n}

Ones(set) == {<<x>> : x \in set}

xs == Name("xs")
x == Name("x")
n == Name("n")
s == Name("s")
p == Name("p")
acc == Name("acc")

Plus(a, b) == BinaryE("Add", a, b)
Minus(a, b) == BinaryE("Sub", a, b)
Times(a, b) == BinaryE("Mul", a, b)
Over(a, b) == BinaryE("Div", a, b)
Below(a, b) == BinaryE("Lt", a, b)

Fun1(body) == ClosureE(<<Param("x", "")>>, body)
Fun2(body) == ClosureE(<<Param("acc", ""), Param("x", "")>>, body)

IntList == <<Given1("xs", ListOf(IntT))>>
FloatList == <<Given1("xs", ListOf(FloatT))>>
Text == <<Given1("s", StringT)>>
Texts2 == <<Given1("s", StringT), Given1("p", StringT)>>

-----------------------------------------------------------------------------
(* Lists.  x + 3 overflows at 10, x / 2 rounds, 12 / x fails at 0. *)
Lists == SeqsTo({-9, 0, 8}, 2) \cup {<<8, -1, 2>>, <<2, 2, -4, 3>>, <<-4, -1, 3, 1, 1>>, <<10, 3, 4>>}

Floats == {<<NaN, 2, NegZero, 0>>, <<0, NegZero>>, <<NaN, NaN, 1>>, <<3, NaN>>}

Maps == <<Plus(x, IntE(3)), Over(x, IntE(2)), Over(IntE(12), x)>>

Spelled == CallE("_list_map", <<xs, Fun1(FStringE(<<x, StringE(<<58>>)>>))>>)

ListPrograms ==
  << Prog(IntList, IntT, CallE("count", <<xs>>), Ones(Lists)),
     Prog(IntList, IntT, MethodE(xs, "sum", <<>>), Ones(Lists)),
     Prog(IntList, IntT, MethodE(xs, "max", <<>>), Ones(Lists)),
     Prog(IntList, IntT, MethodE(xs, "min", <<>>), Ones(Lists)),
     Prog(IntList, BoolT, CallE("unique", <<xs>>), Ones(Lists)),
     Prog(FloatList, BoolT, CallE("unique", <<xs>>), Ones(Floats)),
     Prog(IntList, ListOf(IntT), MethodE(xs, "filter", <<Fun1(Below(x, IntE(0)))>>), Ones(Lists)),
     Padded(Prog(IntList, BoolT, CallE("every", <<xs, Fun1(Below(x, IntE(0)))>>), Ones(Lists))),
     Prog(IntList, BoolT, CallE("some", <<xs, Fun1(Below(Over(IntE(12), x), IntE(0)))>>), Ones(Lists)),
     Prog(IntList, IntT, CallE("_list_reduce", <<xs, IntE(1), Fun2(Plus(acc, x))>>), Ones(Lists)),
     Prog(IntList, BoolT, CallE("size_in_range", <<xs, IntE(1), IntE(2)>>), Ones(Lists)),
     Prog(IntList, ListOf(StringT), Spelled, Ones(Lists)),
     Prog(IntList, ListOf(StringT), CallE("_list_map", <<Spelled, Fun1(Plus(x, x))>>), Ones(Lists)),
     Prog(FloatList, ListOf(FloatT), CallE("_list_sort_by", <<xs, Fun1(x)>>), Ones(Floats)),
     Padded(Prog(FloatList, ListOf(FloatT), CallE("_list_sort_by_desc", <<xs, Fun1(x)>>), Ones(Floats))) >>
  \o [k \in DOMAIN Maps |-> Prog(IntList, ListOf(IntT), MethodE(xs, "map", <<Fun1(Maps[k])>>), Ones(Lists))]
  \o [k \in DOMAIN Maps |-> Padded(Prog(IntList, ListOf(IntT), CallE("_list_sort_by", <<xs, Fun1(Maps[k])>>), Ones(Lists)))]
  \o [k \in DOMAIN Maps |-> Prog(IntList, ListOf(IntT), CallE("_list_sort_by_desc", <<xs, Fun1(Maps[k])>>), Ones(Lists))]

NumberPrograms ==
  << Prog(<<Given1("x", FloatT), Given1("n", FloatT)>>, BoolT, CallE("in_range", <<x, FloatE(0), n>>),
          {<<a, b>> : a \in {-1, 0, NaN, NegZero}, b \in {0, 2, NaN}}),
     Prog(<<Given1("x", IntT), Given1("n", IntT)>>, IntT, CallE("min", <<x, n>>), {-4, 6} \X {-2, 0, 6}),
     Prog(<<Given1("x", IntT), Given1("n", IntT)>>, IntT, CallE("max", <<x, n>>), {-4, 6} \X {-2, 0, 6}),
     Prog(<<Given1("x", IntT), Given1("n", IntT)>>, BoolT, CallE("multiple_of", <<x, n>>), {-4, 6} \X {-2, 0, 6}),
     Prog(<<Given1("x", IntT)>>, IntT, CallE("abs", <<x>>), Ones({MinInt, -3, 0, MaxInt})) >>

-----------------------------------------------------------------------------
(* a and the two bytes of e acute. *)
Hay == SeqsTo({97, 98}, 3) \cup {<<233, 97>>, <<97, 233, 97>>, <<97, 97, 97, 98>>}
Needles == {<<>>, <<97>>, <<97, 97>>, <<97, 98>>, <<233>>, <<98>>}

HayAndNeedle == {<<Utf8(h), Utf8(d)>> : h \in Hay, d \in Needles}

(* The result of a text function, in parts, so that its place shows. *)
InParts(e) == MethodE(e, "split", <<StringE(<<10>>)>>)

SearchPrograms ==
  << Prog(Texts2, BoolT, MethodE(s, "starts_with", <<p>>), HayAndNeedle),
     Prog(Texts2, BoolT, MethodE(s, "ends_with", <<p>>), HayAndNeedle),
     Prog(Texts2, BoolT, MethodE(s, "contains", <<p>>), HayAndNeedle),
     Prog(Texts2, StringT, Plus(s, p), HayAndNeedle),
     Prog(Text, ListOf(StringT), MethodE(s, "split", <<StringE(<<97>>)>>), {<<Utf8(h)>> : h \in Hay}),
     Prog(Text, ListOf(StringT), MethodE(s, "split", <<StringE(<<97, 97>>)>>), {<<Utf8(h)>> : h \in Hay}),
     Prog(Texts2, StringT, MethodE(s, "replace", <<p, StringE(<<98, 97>>)>>), HayAndNeedle),
     Prog(Texts2, ListOf(StringT), InParts(MethodE(Plus(s, p), "replace", <<p, StringE(<<>>)>>)), HayAndNeedle) >>

(* The indices are at the start of a code point or outside. *)
SubstringPrograms ==
  <<[Prog(<<Given1("n", IntT), Given1("x", IntT)>>, StringT,
          MethodE(StringE(Utf8(<<97, 233, 98>>)), "substring", <<n, x>>),
          {at \in {-1, 0, 1, 3, 4, 5} \X {-1, 0, 1, 2, 4} : at[1] + at[2] # 2})
       EXCEPT !.clamps = TRUE]>>

(* Space and no-break space, marks, letters whose mapping is longer, the   *)
(* sigma before and behind what is cased or ignored, four bytes.           *)
FoldTexts ==
  SeqsTo({97, 32, 931}, 2) \cup {<<97, c, 931>> : c \in {39, 769, 32, 931}}
  \cup {<<931, c, 97>> : c \in {39, 769, 32}}
  \cup {<<c, 73>> : c \in {160, 223, 304, 305, 769, 912, 64257, 66560}}

LocaleTexts == {<<73, 105>>, <<305, 931>>, <<105, 32, 105>>, <<97, 769, 931>>, <<223, 73>>}

Locales == {<<116, 114>>, <<65, 90, 45, 97>>, <<116, 114, 97>>, <<116>>, <<101, 110>>}

Trims == <<"trim", "trim_start", "trim_end">>
Cases == <<"upper", "lower", "title">>

FoldPrograms ==
  [k \in DOMAIN Cases |-> Prog(Text, StringT, MethodE(s, Cases[k], <<>>), {<<Utf8(t)>> : t \in FoldTexts})]
  \o [k \in DOMAIN Cases |->
        Prog(Texts2, ListOf(StringT), InParts(MethodE(Plus(s, StringE(<<97>>)), Cases[k] \o "_locale", <<p>>)),
             {<<Utf8(t), l>> : t \in LocaleTexts, l \in Locales})]
  \o [k \in DOMAIN Trims |->
        Prog(Text, StringT, MethodE(s, Trims[k], <<>>), {<<Utf8(t)>> : t \in SeqsTo({97, 32, 12288}, 2) \cup {<<133, 66560, 13>>}})]

(* Composites of two and three, marks out of order and of the same class,  *)
(* a mark that blocks, syllables, jamo, a ligature.                        *)
NormTexts ==
  { <<>>, <<233, 97>>, <<115, 775, 803>>, <<115, 803, 775>>, <<7785>>, <<7777, 803>>, <<8491, 820>>,
    <<101, 775, 769>>, <<101, 820, 769>>, <<2503, 2494>>, <<44033, 4520>>, <<44032, 4520>>,
    <<4352, 4449, 4520>>, <<4352, 4449, 4519>>, <<64257, 769>>, <<769, 101, 769>>, <<101, 769, 803, 769>> }

Forms == <<"nfd", "nfkd", "nfc", "nfkc">>

NormPrograms ==
  [k \in DOMAIN Forms |-> Prog(Text, StringT, MethodE(s, Forms[k], <<>>), {<<Utf8(t)>> : t \in NormTexts})]

-----------------------------------------------------------------------------
(* Local part and domain: dots and dashes first, last and doubled. *)
Emails ==
  {l \o <<64>> \o d : l \in {<<>>, <<97>>, <<46, 97>>, <<97, 46>>, <<97, 46, 46, 97>>, <<97, 46, 43>>, <<97, 32>>},
                      d \in {<<97, 46, 98>>, <<97, 45, 98, 46, 57>>}}
  \cup {<<97, 64>> \o d : d \in {<<>>, <<97>>, <<46>>, <<45, 97, 46, 98>>, <<97, 46, 98, 45>>, <<97, 46, 46, 98>>,
                                 <<97, 46>>, <<97, 64, 98, 46, 99>>, <<97, 95, 46, 98>>}}
  \cup {<<97, 46, 98>>}

Uris == {<<>>, <<58, 97>>, <<97, 58>>, <<97, 58, 98>>, <<97, 43, 57, 58, 47, 58>>, <<57, 97, 58, 98>>, <<97, 95, 58, 98>>, <<97>>}

Dates ==
  {<<50, 48>> \o y \o <<45, 48>> \o m \o <<45>> \o d :
     y \in {<<50, 52>>, <<50, 51>>, <<48, 48>>}, m \in {<<50>>, <<52>>}, d \in {<<50, 57>>, <<51, 48>>, <<51, 49>>, <<48, 48>>}}
  \cup { <<49, 57, 48, 48, 45, 48, 50, 45, 50, 57>>, <<50, 48, 50, 52, 45, 49, 51, 45, 48, 49>>,
         <<50, 48, 50, 52, 46, 49, 50, 45, 48, 49>>, <<50, 48, 120, 52, 45, 49, 50, 45, 48, 49>>, <<50, 48>> }

Uuid == [k \in 1 .. 36 |-> IF k \in {9, 14, 19, 24} THEN 45 ELSE IF k % 3 = 0 THEN 70 ELSE 97]

Uuids == {Uuid, Tail(Uuid), [Uuid EXCEPT ![9] = 97], [Uuid EXCEPT ![36] = 103], [Uuid EXCEPT ![20] = 57], [Uuid EXCEPT ![10] = 45]}

ValidatorPrograms ==
  << Prog(Text, BoolT, CallE("is_email", <<s>>), Ones(Emails)),
     Prog(Text, BoolT, CallE("is_uri", <<s>>), Ones(Uris)),
     Prog(Text, BoolT, CallE("is_iso_date", <<s>>), Ones(Dates)),
     Prog(Text, BoolT, CallE("is_uuid", <<s>>), Ones(Uuids)) >>

-----------------------------------------------------------------------------
(* Expressions, records and closures. *)
Given2(name, t, other, u) == <<Given1(name, t), Given1(other, u)>>

AnInt == <<Given1("n", IntT)>>
TwoInts == Given2("n", IntT, "x", IntT)

o == Name("o")
a == Name("a")
i == Name("i")

Lam(v, body) == ClosureE(<<Param(v, "")>>, body)
Lam2(v, w, body) == ClosureE(<<Param(v, ""), Param(w, "")>>, body)
FieldAt(name, key) == VariableE(name, <<Key(key)>>)

Rec == Named(<<"a", "b", "c">>, <<IntT, StringT, ListOf(IntT)>>)
Recs == {<<3, <<97>>, <<1, 2>>>>, <<-3, <<>>, <<>>>>}
Nested == Named(<<"r", "q">>, <<Rec, BoolT>>)
Mixed == EnumOf("E", << <<>>, <<TupleT(<<IntT>>)>>, <<Named(<<"t">>, <<StringT>>)>> >>)

LanguagePrograms ==
  << Prog(<<Given1("x", FloatT)>>, StringT, FStringE(<<x, StringE(<<98>>)>>), Ones({3, NegZero, NaN})),
     Prog(TwoInts, IntT,
          TernaryE(BinaryE("And", Below(n, x), BinaryE("Ge", Over(x, n), IntE(0))), Plus(n, x), Times(n, x)),
          {-2, 0, 9} \X {-3, 0, 8}),
     Prog(TwoInts, BoolT, BinaryE("Or", BinaryE("Eq", n, x), Below(IntE(0), Over(IntE(12), n))),
          {-2, 0, 9} \X {-3, 0, 8}),
     Prog(AnInt, StringT, Plus(Plus(StringE(<<97>>), n), BinaryE("Gt", n, IntE(0))), Ones({-9, 0, 12})),
     Prog(AnInt, IntT,
          WhereE(Plus(CallE("f", <<n>>), Name("k")),
                 <<Pair("k", IntE(3)),
                   Pair("f", Lam("x", TernaryE(Below(x, IntE(1)), IntE(0),
                                               Plus(Name("k"), CallE("f", <<Minus(x, IntE(1))>>)))))>>),
          Ones({-1, 0, 2, 4})),
     Prog(Given2("xs", ListOf(IntT), "n", IntT), ListOf(IntT), MethodE(xs, "map", <<Fun1(Plus(x, n))>>), Lists \X {0, 3}),
     Prog(Given2("xs", ListOf(IntT), "n", IntT), ListOf(IntT), ListE(<<IntE(4), SpreadE(xs), IntE(3)>>), Lists \X {0}),
     Prog(AnInt, ListOf(IntT), ListE(<<Plus(n, n), IntE(3), Minus(n, IntE(12))>>), Ones({0, 3})),
     Prog(<<Given1("r", Rec)>>, StringT, Plus(FieldAt("r", "b"), FieldAt("r", "a")), Ones(Recs)),
     Prog(<<Given1("r", Nested)>>, ListOf(IntT), VariableE("r", <<Key("r"), Key("c")>>), {<< <<q, 1>> >> : q \in Recs}),
     Prog(<<Given1("r", ListOf(Rec))>>, ListOf(Rec), Name("r"), {<<<<>>>>, <<<< <<3, <<97>>, <<1, 2>>>>, <<-3, <<>>, <<>>>> >>>>}),
     Prog(<<Given1("r", ListOf(ListOf(IntT)))>>, ListOf(ListOf(IntT)), Name("r"), {<<<<>>>>, <<<< <<3>>, <<>>, <<1, 2>> >>>>}),
     Prog(<<Given1("r", ListOf(ListOf(StringT)))>>, ListOf(ListOf(StringT)), Name("r"),
          {<<<<>>>>, <<<< <<<<97>>>>, <<>>, <<<<>>, <<97, 98, 99, 97, 98>>>> >>>>}),
     Prog(<<Given1("r", ListOf(Mixed))>>, ListOf(Mixed), Name("r"),
          {<<<<>>>>, <<<<Variant(1, << <<5>> >>), Variant(0, <<>>), Variant(2, <<<< <<97, 98, 99>> >>>>)>>>>}),
     Prog(IntList, IntT,
          WhereE(CallE("f", <<xs, IntE(1)>>), <<Pair("f", Lam2("l", "i", VariableE("l", <<Dynamic(i)>>)))>>),
          {<<<<5, 7>>>>, <<<<1, 2, 3>>>>}),
     Prog(<<>>, ListOf(StringT), ListE(<<StringE(<<97>>), StringE(<<>>), StringE(<<98, 99, 100, 101, 102>>)>>), {<<>>}),
     Prog(AnInt, ListOf(FloatT), WhereE(a, <<Pair("a", ListE(<<FloatE(2), Times(n, FloatE(3))>>))>>), Ones({0, -2})),
     Prog(AnInt, IntT, BinaryE("Pipe", n, CallE("max", <<IntE(4)>>)), Ones({0, 9})),
     Prog(Text, StringT, CallE("type", <<s>>), {<<<<97>>>>}) >>

-----------------------------------------------------------------------------
(* Ranges and comprehensions. *)
Range1(e) == CallE("range", <<e>>)
Range2(from, to) == CallE("range", <<from, to>>)
ListSum(e) == CallE("list.sum", <<e>>)
Spans == {-2, 0, 3} \X {-3, 0, 5}
Counts == Ones({-1, 0, 1, 4})

RangePrograms ==
  << Prog(AnInt, IntT,
          ListSum(MethodE(MethodE(Range1(n), "map", <<Lam("i", Times(i, i))>>), "filter", <<Lam("i", Below(IntE(0), i))>>)),
          Counts),
     Prog(TwoInts, IntT,
          MethodE(MethodE(Range2(n, x), "filter", <<Lam("i", BinaryE("Eq", BinaryE("Mod", i, IntE(2)), IntE(0)))>>), "len", <<>>),
          Spans),
     Prog(TwoInts, IntT, MethodE(Range2(n, x), "reduce", <<IntE(1), Lam2("a", "i", Minus(i, a))>>), Spans),
     Prog(AnInt, StringT, MethodE(Range1(n), "reduce", <<StringE(<<120>>), Lam2("a", "i", Plus(a, i))>>), Counts),
     Prog(TwoInts, IntT, CallE("len", <<CallE("_list_filter", <<Range2(n, x), Lam("i", Below(i, IntE(3)))>>)>>), Spans),
     Prog(AnInt, IntT,
          MethodE(MethodE(Range1(n), "map", <<Lam("i", MethodE(Range1(i), "map", <<Lam("j", Plus(i, Name("j")))>>))>>),
                  "reduce", <<IntE(0), Lam2("a", "r", Plus(a, ListSum(Name("r"))))>>),
          Ones(0 .. 3)),
     Prog(AnInt, IntT,
          MethodE(MethodE(Range1(n), "map", <<Lam("i", MethodE(Range2(i, IntE(3)), "map", <<Lam("j", Minus(i, Name("j")))>>))>>),
                  "reduce",
                  <<IntE(0),
                    Lam2("a", "r", Minus(MethodE(Name("r"), "reduce", <<IntE(2), Lam2("b", "c", Minus(Name("c"), Name("b")))>>), a))>>),
          Ones(0 .. 3)),
     Prog(TwoInts, ListOf(IntT), Range2(n, x), Spans),
     Prog(AnInt, IntT,
          WhereE(MethodE(Name("m"), "reduce", <<IntE(0), Lam2("a", "r", Plus(a, VariableE("r", <<Dynamic(IntE(0))>>)))>>),
                 <<Pair("m", MethodE(Range1(n), "map", <<Lam("i", Range2(i, IntE(5)))>>))>>),
          Ones(0 .. 3)),
     Prog(AnInt, ListOf(IntT), WhereE(Name("m"), <<Pair("m", MethodE(Range1(n), "map", <<Lam("i", Times(i, n))>>))>>), Ones(0 .. 4)),
     Prog(IntList, ListOf(IntT), ComprehensionE(Times(i, i), "i", xs, <<Below(IntE(0), i)>>), Ones(Lists)),
     Prog(IntList, ListOf(StringT), ComprehensionE(Plus(StringE(<<97>>), i), "i", xs, <<>>), Ones(Lists)),
     Prog(FloatList, ListOf(IntT), ComprehensionE(CallE("floor", <<i>>), "i", xs, <<>>), Ones(Lists)),
     Prog(<<Given1("xs", ListOf(StringT))>>, ListOf(StringT), ComprehensionE(Plus(i, StringE(<<97>>)), "i", xs, <<>>),
          {<<<<>>>>, <<<< <<97>>, <<97, 97, 97, 97>>>>>>}) >>

-----------------------------------------------------------------------------
(* Variants, matches, and returned records. *)
OptI == OptionOf(IntT)
Some(e) == VariantCallE(OptI, 1, <<e>>)
None == VariantNameE(OptI, 0)
SomeV(v) == Variant(1, <<v>>)
NoneV == Variant(0, <<>>)
Opts == Ones({SomeV(3), SomeV(12), NoneV})
AnOption == <<Given1("o", OptI)>>
Shape == EnumOf("Shape", << <<TupleT(<<IntT, StringT>>)>>, <<Named(<<"w", "h">>, <<IntT, IntT>>)>>, <<>> >>)
AShape == <<Given1("o", Shape)>>
Shapes == Ones({Variant(0, << <<3, <<97, 98>> >> >>), Variant(1, << <<2, 5>> >>), Variant(2, <<>>)})
RatOrText == ResultOf(FloatT, StringT)
Point == Declared("Point", <<"x", "y">>, <<IntT, IntT>>, <<<<>>, <<>>>>)
Line == Declared("Line", <<"a", "t", "b">>, <<Point, StringT, Point>>, <<<<>>, <<>>, <<>>>>)
Bag == Declared("Bag", <<"o", "xs", "ts">>, <<OptI, ListOf(IntT), ListOf(StringT)>>, <<<<>>, <<>>, <<>>>>)

VariantPrograms ==
  << Prog(AnInt, OptI, TernaryE(Below(n, IntE(1)), None, Some(Plus(n, IntE(3)))), Ones({0, 1, 12})),
     Prog(AnInt, Shape,
          TernaryE(Below(n, IntE(1)), VariantCtorE(Shape, 1, <<Pair("h", n), Pair("w", Plus(n, n))>>),
                   VariantCallE(Shape, 0, <<n, FStringE(<<n, StringE(<<97>>)>>)>>)),
          Ones({0, 1})),
     Prog(AnInt, RatOrText,
          TernaryE(Below(n, IntE(1)), VariantCallE(RatOrText, 0, <<FloatE(2)>>),
                   VariantCtorE(RatOrText, 1, <<Pair("error", StringE(<<97>>))>>)),
          Ones({0, 1})),
     Prog(AnOption, IntT,
          MatchE(o, <<Arm(VariantPat(OptI, 1, <<Binding("", "v")>>), Plus(Name("v"), IntE(2))), Arm(Wildcard, IntE(7))>>), Opts),
     Prog(AnOption, IntT,
          MatchE(o, <<Arm(VariantPat(OptI, 1, <<>>), FieldAt("o", "value")), Arm(VariantPat(OptI, 0, <<>>), IntE(7))>>), Opts),
     Prog(AnOption, StringT,
          MatchE(o, <<Arm(VariantPat(OptI, 1, <<Binding("value", "q")>>), FStringE(<<Name("q"), Name("q")>>))>>), Opts),
     Prog(AShape, IntT,
          MatchE(o, <<Arm(VariantPat(Shape, 1, <<Binding("h", "h"), Binding("w", "")>>), Name("h")),
                      Arm(VariantPat(Shape, 0, <<Binding("", "q"), Binding("", "r")>>), Plus(Name("q"), CallE("len", <<Name("r")>>))),
                      Arm(VariantPat(Shape, 2, <<>>), IntE(0))>>),
          Shapes),
     Prog(AShape, Shape, o, Shapes),
     Prog(AnOption, OptI, o, Opts),
     Prog(AnInt, IntT,
          MatchE(Plus(n, IntE(3)), <<Arm(TypePat("String"), IntE(1)), Arm(TypePat("Int"), IntE(2)), Arm(Wildcard, IntE(3))>>),
          Ones({0, 12})),
     Prog(AnInt, IntT, MatchE(n, <<Arm(TypePat("String"), IntE(1))>>), Ones({0, 12})),
     Prog(IntList, ListOf(OptI), MethodE(xs, "map", <<Lam("x", TernaryE(Below(x, IntE(0)), None, Some(Plus(x, IntE(3)))))>>), Ones(Lists)),
     Prog(IntList, ListOf(Shape), CallE("_list_map", <<xs, Lam("x", VariantCallE(Shape, 0, <<x, StringE(<<97>>)>>))>>), Ones(Lists)),
     Prog(IntList, ListOf(Shape),
          ComprehensionE(VariantCtorE(Shape, 1, <<Pair("w", x), Pair("h", IntE(1))>>), "x", xs, <<Below(x, IntE(3))>>), Ones(Lists)),
     Prog(AnInt, ListOf(OptI), ListE(<<Some(n), None, Some(IntE(3))>>), Ones({0, 12})),
     Prog(<<Given1("os", ListOf(OptI))>>, ListOf(OptI),
          MethodE(Name("os"), "filter",
                  <<Lam("q", MatchE(Name("q"), <<Arm(VariantPat(OptI, 1, <<Binding("", "v")>>), Below(Name("v"), IntE(5))),
                                                Arm(Wildcard, BoolE(FALSE))>>))>>),
          {<<<<>>>>, <<<<SomeV(3), NoneV, SomeV(7), SomeV(-2)>>>>}),
     Prog(AnInt, TupleT(<<IntT, StringT, ListOf(IntT)>>),
          TupleE(<<n, FStringE(<<n, StringE(<<97, 98>>)>>), ListE(<<IntE(4), IntE(5)>>)>>), Ones({0, 12})),
     Prog(AnInt, Point, DictE(<<Pair("y", n), Pair("x", Plus(n, IntE(3)))>>), Ones({0, 12})),
     Prog(<<Given1("p", Point)>>, Line,
          DictE(<<Pair("a", DictE(<<Pair("x", IntE(1)), Pair("y", FieldAt("p", "x"))>>)),
                  Pair("t", StringE(<<97, 98, 99>>)), Pair("b", DictE(<<Spread(p)>>))>>),
          {<<<<3, 4>>>>}),
     Prog(<<Given1("n", IntT), Given1("xs", ListOf(IntT)), Given1("ts", ListOf(StringT))>>, Bag,
          DictE(<<Pair("o", Some(n)), Pair("xs", xs), Pair("ts", Name("ts"))>>),
          {1} \X {<<>>, <<3, 4>>} \X {<<>>, <<<<97>>, <<>>>>}) >>

-----------------------------------------------------------------------------
(* Dictionaries without a schema. *)
Ab == <<97, 98>>
Table == DictE(<<Pair("b", IntE(2)), Pair("ab", IntE(3)), Pair("a", IntE(1))>>)

DictPrograms ==
  << Prog(AnInt, DictT,
          DictE(<<Pair("x", Plus(n, IntE(3))), Pair("t", StringE(Ab)), Pair("f", FloatE(2)), Pair("b", BoolE(TRUE))>>), Ones({0, 12})),
     Prog(Text, DictT, DictE(<<Internal("t", Table), Pair("v", VariableE("t", <<Dynamic(s)>>))>>),
          Ones({<<97>>, <<98>>, <<97, 98>>, <<>>, <<97, 97>>, <<97, 98, 97>>})),
     Prog(AnInt, DictT,
          DictE(<<Internal("f", Lam("x", Plus(x, n))), Pair("u", CallE("f", <<IntE(2)>>)), Pair("v", CallE("f", <<CallE("f", <<n>>)>>))>>),
          Ones({0, 3, 12})),
     Prog(AnInt, DictT,
          DictE(<<Pair("a", ReferenceE("b")), Pair("b", IntE(4)), Pair("c", Plus(ReferenceE("a"), ReferenceE("b")))>>), {<<0>>}),
     Prog(AnInt, DictT, DictE(<<Pair("a", Plus(n, IntE(1))), Pair("b", Plus(ReferenceE("a"), ReferenceE("a")))>>), Ones({0, 3, 12})),
     Prog(Given2("xs", ListOf(IntT), "ts", ListOf(StringT)), DictT,
          DictE(<<Pair("us", xs), Pair("vs", Name("ts")), Pair("s", ListSum(xs))>>), {<<>>, <<1, 2>>} \X {<<>>, <<Ab, <<97>>>>}),
     Prog(AnInt, DictT,
          DictE(<<Pair("is", ListE(<<IntE(1), IntE(2)>>)), Pair("fs", ListE(<<FloatE(1)>>)), Pair("bs", ListE(<<BoolE(TRUE)>>)),
                  Pair("ss", ListE(<<StringE(Ab), StringE(<<97>>)>>)),
                  Pair("os", ListE(<<VariantCtorE(OptI, 0, <<>>), VariantCtorE(OptI, 1, <<Pair("value", n)>>)>>))>>),
          Ones({0, 3})),
     Prog(AnInt, DictT,
          DictE(<<Internal("inc", Lam2("x", "k", Plus(x, Name("k")))), Internal("twice", Lam("x", Plus(x, x))),
                  Decorated(Pair("v", n), <<Decorator("twice", <<>>), Decorator("inc", <<IntE(1)>>)>>)>>),
          Ones({0, 3, 6})),
     Prog(Given2("s", StringT, "n", IntT), DictT,
          DictE(<<Pair("t", Plus(s, StringE(Ab))), Pair("u", Plus(ReferenceE("t"), s)), Pair("m", n)>>), {<<97>>, <<97, 105>>} \X {1}) >>

-----------------------------------------------------------------------------
(* With a step budget: no loop, one, and a loop in a loop. *)
BudgetPrograms ==
  LET programs ==
        << Prog(AnInt, IntT, Plus(n, IntE(1)), Ones({0})),
           Prog(AnInt, IntT, TernaryE(BinaryE("Gt", n, IntE(1)), n, IntE(2)), Ones(0 .. 2)),
           Prog(AnInt, DictT, DictE(<<Pair("a", n)>>), Ones(0 .. 2)),
           Prog(IntList, IntT, MethodE(xs, "sum", <<>>), Ones(SeqsTo({1}, 3))),
           Prog(AnInt, IntT,
                MethodE(MethodE(Range1(n), "map", <<Lam("i", Range1(i))>>), "reduce", <<IntE(0), Lam2("a", "r", Plus(a, ListSum(Name("r"))))>>),
                Ones(0 .. 3)) >>
  IN [k \in DOMAIN programs |-> [programs[k] EXCEPT !.backends = {"llvm"}, !.budgets = {<<b>> : b \in 0 .. 6}]]

AllPrograms ==
  ListPrograms \o NumberPrograms \o SearchPrograms \o SubstringPrograms \o FoldPrograms \o NormPrograms \o ValidatorPrograms
  \o LanguagePrograms \o RangePrograms \o VariantPrograms \o DictPrograms \o BudgetPrograms

-----------------------------------------------------------------------------
(* Programs that are compiled and end otherwise than the evaluator does.   *)
On(which, prog) == [prog EXCEPT !.backends = {which}]

User == Declared("User", <<"age">>, <<IntT>>, << <<Lam("a", BinaryE("Ge", a, IntE(0)))>> >>)
Pairs == Declared("Pairs", <<"p">>, <<TupleT(<<IntT, IntT>>)>>, << <<>> >>)
Kept2 == Declared("Kept2", <<"t", "c">>, <<StringT, ListOf(IntT)>>, << <<>>, <<>> >>)
Appended4 == Plus(a, StringE(<<97, 97, 97, 97>>))

DisagreeingPrograms ==
  << Prog(AnInt, DictT, DictE(<<Internal("n", Plus(n, IntE(1))), Pair("out", n)>>), {<<0>>}),
     Prog(AnInt, DictT, DictE(<<Internal("f", Lam("x", Plus(x, n))), Pair("n", Plus(n, IntE(1))), Pair("out", CallE("f", <<IntE(0)>>))>>), {<<0>>}),
     Prog(Given2("xs", ListOf(IntT), "ys", ListOf(IntT)), DictT, DictE(<<Pair("xs", Name("ys")), Pair("out", xs)>>), {<<<<1>>, <<2>>>>}),
     Prog(Given2("n", IntT, "xs", ListOf(IntT)), IntT,
          TernaryE(BinaryE("Gt", n, IntE(0)), CallE("_list_reduce", <<xs, IntE(0), Lam2("a", "x", Plus(a, n))>>), n), {<<-1, <<>>>>}),
     Prog(AnInt, ListOf(IntT), ListE(<<WhereE(a, <<Pair("a", n), Pair("b", n), Pair("c", IntE(5))>>), IntE(1)>>), {<<3>>}),
     Prog(Given2("xs", ListOf(IntT), "n", IntT), IntT, VariableE("xs", <<Dynamic(n)>>), {<<<<1>>, 2>>}),
     Prog(AnInt, Pairs, DictE(<<Pair("p", TupleE(<<n, IntE(2)>>))>>), {<<1>>}),
     Prog(AnInt, User, DictE(<<Pair("age", Minus(n, IntE(3)))>>), {<<1>>}),
     Prog(AnInt, IntT, MatchE(n, <<Arm(TypePat("User"), IntE(1)), Arm(TypePat("Int"), IntE(2))>>), {<<1>>}),
     Prog(Given2("o", OptI, "r", Declared("Rec", <<"value">>, <<IntT>>, << <<>> >>)), IntT,
          MatchE(o, <<Arm(VariantPat(OptI, 1, <<>>), WhereE(FieldAt("o", "value"), <<Pair("o", Name("r"))>>)), Arm(Wildcard, IntE(0))>>),
          {<<SomeV(1), <<2>>>>}),
     Prog(IntList, ListOf(IntT), ComprehensionE(WhereE(x, <<Pair("x", IntE(5))>>), "x", xs, <<>>), {<<<<1>>>>}),
     On("llvm", Prog(Text, StringT, WhereE(MethodE(Appended4, "concat", <<a>>), <<Pair("a", Plus(s, StringE(<<98>>)))>>), {<<<<97, 97, 97>>>>})),
     On("llvm", Prog(AnInt, StringT, MethodE(Range1(n), "reduce", <<StringE(<<97>>), Lam2("a", "i", Plus(StringE(<<98>>), a))>>), {<<3>>})),
     On("llvm", Prog(AnInt, StringT,
                     MethodE(Range1(n), "reduce",
                             <<StringE(<<>>), Lam2("a", "i", TernaryE(MethodE(a, "contains", <<StringE(<<97, 97>>)>>), a, Plus(a, StringE(<<97>>))))>>),
                     {<<4>>})),
     On("llvm", Prog(Given2("xs", ListOf(IntT), "s", StringT), Kept2,
                     DictE(<<Pair("t", Plus(s, StringE(<<98>>))), Pair("c", MethodE(xs, "map", <<Fun1(Plus(x, IntE(1)))>>))>>), {<<<<1, 2>>, <<97>>>>})),
     Padded(Prog(Text, StringT, Plus(s, StringE(<<98>>)), {<<<<97>>>>})),
     Prog(TwoInts, BoolT, Below(n, x), {<<9, 10>>, <<11, 12>>}),
     Prog(Texts2, StringT, MethodE(s, "lower_locale", <<p>>), {<<Utf8(<<304>>), <<116, 114>>>>}),
     Prog(Text, StringT, MethodE(s, "title", <<>>), {<<<<97, 11, 97>>>>}),
     Prog(Text, BoolT, CallE("is_iso_date", <<s>>), {<<<<43, 50, 48, 50, 45, 49, 50, 45, 48, 49>>>>}),
     Prog(Given2("x", IntT, "n", IntT), Point, DictE(<<Pair("y", x), Pair("x", IntE(5))>>), {<<1, 2>>}),
     Prog(Text, StringT, MethodE(s, "concat", <<s>>), {<<[k \in 1 .. 60 |-> 97]>>}) >>

(* Every program of this module is one that compiles. *)
ASSUME AllCompile == \A k \in DOMAIN Programs : Linked.programs[k].code # <<>>
=============================================================================
