------------------------ MODULE ReferenceEvalProofs ------------------------
(***************************************************************************)
(* Runs of the evaluator over any tree of dicts and any document report a  *)
(* cycle where there is one and only there, and keep #internal fields to   *)
(* the dict that has them.                                                 *)
(***************************************************************************)
EXTENDS ReferenceEval, SequenceTheorems, WellFoundedInduction, TLAPS

\* Documents as a parameter: what a node asks for, and cycles.
OpWants(p, op) == IF op.base = "var" THEN Lexical(p, op.path[1]) ELSE Target(p, op)

Wants(D, p) ==
    IF p \in Dicts THEN {Append(p, n) : n \in Fields(p)}
    ELSE {OpWants(p, op) : op \in {o \in ToSet(D.body[p]) : o.base # "native"}}

Circular(D) == \E ps \in (SUBSET Paths) \ {{}} : \A p \in ps : Wants(D, p) \cap ps # {}

Hidden(D, target, depth) ==
    \E i \in 1..Len(target) : SubSeq(target, 1, i) \in D.private /\ depth # i - 1

\* The paths whose evaluation can end: those in every set that has a path
\* whenever it has all that the path asks for.
Inductive(D, S) == \A q \in Paths : Wants(D, q) \cap Paths \subseteq S => q \in S
Grounded(D)     == {p \in Paths : \A S \in SUBSET Paths : Inductive(D, S) => p \in S}

-----------------------------------------------------------------------------
Frames == [kind : {"dict", "leaf", "walk"}, lvl : Nat \ {0}, path : Paths \cup {<<>>},
           depth : Int, site : Paths \cup {<<>>}, at : Nat \ {0}]
Rets   == {"none", "ok"} \cup Errors

Types ==
    /\ doc \in Docs
    /\ stack \in Seq(Frames)
    /\ ret \in Rets
    /\ thunks \in Seq(SUBSET Grounded(doc))

\* A frame waits for the path p.
Awaits(D, f, p) ==
    \/ /\ f.kind = "dict" /\ f.at \in 1..Len(Children[f.path])
       /\ p = Append(f.path, Children[f.path][f.at])
    \/ /\ f.kind = "leaf" /\ f.at \in 1..Len(D.body[f.path])
       /\ D.body[f.path][f.at].base # "native"
       /\ p = OpWants(f.path, D.body[f.path][f.at])
    \/ f.kind = "walk" /\ f.at = 2 /\ p = f.path

\* What a frame has been through can end.
FrameOK(D, f) ==
    /\ f.kind = "dict" =>
          /\ f.path \in Dicts
          /\ \A j \in 1..Len(Children[f.path]) :
                j < f.at => Append(f.path, Children[f.path][j]) \in Grounded(D)
    /\ f.kind = "leaf" =>
          /\ f.path \in Leaves
          /\ \A j \in 1..Len(D.body[f.path]) :
                j < f.at /\ D.body[f.path][j].base # "native"
                /\ OpWants(f.path, D.body[f.path][j]) \in Paths
                   => OpWants(f.path, D.body[f.path][j]) \in Grounded(D)
    /\ f.kind = "walk" => f.path \in Paths /\ (f.at # 1 => ~Hidden(D, f.path, f.depth))

\* The level of the thunks a frame has its paths forced at.
Lvl(f) == IF f.kind = "walk" /\ f.at = 2 THEN f.lvl + 1 ELSE f.lvl

\* The frame h is above f: it evaluates or walks to what f waits for.
Link(D, f, h) ==
    /\ Awaits(D, f, h.path) /\ h.path \in Paths
    /\ h.lvl = Lvl(f)
    /\ f.kind = "walk" => h.kind # "walk"
    /\ h.kind = "walk" =>
          /\ f.kind = "leaf" /\ D.body[f.path][f.at].base \in RefBases
          /\ h.site = f.path /\ h.depth = OwningDepth(f.path, D.body[f.path][f.at])

Root(f) == f.kind = "dict" /\ f.path = <<>> /\ f.lvl = 1

StackOK(D, st) ==
    \A i \in 1..Len(st) :
       /\ FrameOK(D, st[i])
       /\ i = 1 => Root(st[i])
       /\ \A j \in 1..Len(st) : j = i + 1 => Link(D, st[i], st[j])

\* What a frame gets as a value can end.
Got(D, f) ==
    \/ f.kind = "leaf" /\ f.at \in 1..Len(D.body[f.path]) /\ D.body[f.path][f.at].base = "native"
    \/ \E p : Awaits(D, f, p) /\ (p \in Paths => p \in Grounded(D))

\* evaluating_paths has the paths of the thunks being forced, each once.
Evaluating(st, ev) ==
    /\ \A p : p \in ev <=> \E i \in 1..Len(st) : ThunkFrame(st[i]) /\ st[i].path = p
    /\ \A i, j \in 1..Len(st) :
          ThunkFrame(st[i]) /\ ThunkFrame(st[j]) /\ st[i].path = st[j].path => i = j

Entry(D, e)  == e[2] \in Grounded(D) /\ ~Hidden(D, e[2], e[1])
Inside(D, a) ==
    \A i \in 1..Len(a[3]) :
        SubSeq(a[3], 1, i) \in D.private =>
            a[2] # "root" /\ IsPrefix(SubSeq(a[3], 1, i - 1), a[1])

Inv ==
    /\ Types
    /\ StackOK(doc, stack)
    /\ Len(stack) > 0 => Len(thunks) = Lvl(stack[Len(stack)])
    /\ Len(stack) > 0 /\ ret = "ok" => Got(doc, stack[Len(stack)])
    /\ \A e \in path_cache : Entry(doc, e)
    /\ leaked = {} => Evaluating(stack, evaluating_paths)
    /\ ret = "circular" \/ outcome = "circular" => Circular(doc) \/ leaked # {}
    /\ outcome = "value" => ~Circular(doc)
    /\ \A a \in answered : Inside(doc, a)

-----------------------------------------------------------------------------
(* Sequences and numbers. *)

\* Every set of naturals has a least one.
LEMMA LeastNat == ASSUME NEW T \in SUBSET Nat, T # {} PROVE \E x \in T : \A y \in T : x <= y
<1> DEFINE Less == {p \in Nat \X Nat : p[1] < p[2]}
<1>1. IsWellFoundedOn(Less, Nat)
    BY NatLessThanWellFounded DEF OpToRel
<1>2. \A x, y \in Nat : y < x => <<y, x>> \in Less
    OBVIOUS
<1> HIDE DEF Less
<1>3. PICK x \in T : \A y \in T : ~(<<y, x>> \in Less)
    BY Zenon, <1>1, WFMin
<1>4. \A y \in T : ~(y < x)
    BY Zenon, <1>2, <1>3
<1> QED
    BY <1>3, <1>4

\* Front drops the last element.
LEMMA FrontFacts ==
    ASSUME NEW S, NEW s \in Seq(S), Len(s) > 0
    PROVE  /\ Front(s) \in Seq(S) /\ Len(Front(s)) = Len(s) - 1
           /\ \A i \in 1..(Len(s) - 1) : Front(s)[i] = s[i]
<1> DEFINE m == Len(s) - 1
<1>1. m \in Nat /\ m \in Int /\ 1 \in Int
    BY LenProperties
<1>2. \A i \in 1..m : s[i] \in S
    BY ElementOfSeq, LenProperties
<1>3. Front(s) = SubSeq(s, 1, m)
    BY Zenon DEF Front
<1> HIDE DEF m
<1>4. /\ SubSeq(s, 1, m) \in Seq(S)
      /\ Len(SubSeq(s, 1, m)) = IF 1 <= m THEN m - 1 + 1 ELSE 0
      /\ \A i \in 1..(m - 1 + 1) : SubSeq(s, 1, m)[i] = s[1 + i - 1]
    BY <1>1, <1>2, SubSeqProperties
<1>5. m - 1 + 1 = m /\ (IF 1 <= m THEN m - 1 + 1 ELSE 0) = m /\ \A i \in 1..m : 1 + i - 1 = i
    BY <1>1
<1>6. Len(Front(s)) = m /\ \A i \in 1..m : Front(s)[i] = s[i]
    BY Zenon, <1>3, <1>4, <1>5
<1> QED
    BY Zenon, <1>3, <1>4, <1>6 DEF m

-----------------------------------------------------------------------------
(* Paths. *)

\* A field's path is its dict's with a name more.
LEMMA PathFacts ==
    /\ Paths \subseteq Seq(STRING) /\ <<>> \notin Paths
    /\ \A d \in Dicts : \A k \in 1..Len(Children[d]) : Append(d, Children[d][k]) \in Paths
    /\ \A d \in Dicts : \A n \in Fields(d) : Append(d, n) \in Paths
    /\ \A p \in Paths : \E d \in Dicts : Len(p) = Len(d) + 1 /\ \E n \in Fields(d) : p = Append(d, n)
<1>1. \A d \in Dicts : d \in Seq(STRING) /\ Children[d] \in Seq(STRING)
    BY Zenon, ConstantsAssumption
<1>2. \A d \in Dicts : Fields(d) = {Children[d][k] : k \in 1..Len(Children[d])}
  <2> SUFFICES ASSUME NEW d \in Dicts PROVE Fields(d) = {Children[d][k] : k \in 1..Len(Children[d])}
      OBVIOUS
  <2>1. DOMAIN Children[d] = 1..Len(Children[d])
      BY <1>1, LenProperties
  <2> QED
      BY Zenon, <2>1 DEF Fields, ToSet
<1>3. \A d \in Dicts : \A k \in 1..Len(Children[d]) :
         /\ Append(d, Children[d][k]) \in Seq(STRING) /\ Append(d, Children[d][k]) # <<>>
         /\ Len(Append(d, Children[d][k])) = Len(d) + 1
  <2> SUFFICES ASSUME NEW d \in Dicts, NEW k \in 1..Len(Children[d])
               PROVE  /\ Append(d, Children[d][k]) \in Seq(STRING) /\ Append(d, Children[d][k]) # <<>>
                      /\ Len(Append(d, Children[d][k])) = Len(d) + 1
      BY Zenon
  <2>1. Children[d][k] \in STRING
      BY <1>1, ElementOfSeq
  <2> QED
      BY <2>1, <1>1, AppendProperties
<1>4. \A d \in Dicts : \A k \in 1..Len(Children[d]) : Append(d, Children[d][k]) \in Paths
  <2> SUFFICES ASSUME NEW d \in Dicts, NEW k \in 1..Len(Children[d])
               PROVE  Append(d, Children[d][k]) \in Paths
      BY Zenon
  <2>1. Append(d, Children[d][k]) \in {Append(d, Children[d][i]) : i \in 1..Len(Children[d])}
      BY Zenon
  <2> QED
      BY Zenon, <2>1 DEF Paths
<1>5. \A p \in Paths : \E d \in Dicts : \E k \in 1..Len(Children[d]) : p = Append(d, Children[d][k])
    BY Zenon DEF Paths
<1>6. Paths \subseteq Seq(STRING) /\ <<>> \notin Paths
    BY Zenon, <1>3, <1>5
<1>7. \A d \in Dicts : \A n \in Fields(d) : Append(d, n) \in Paths
    BY ZenonT(40), <1>2, <1>4
<1>8. ASSUME NEW p \in Paths
      PROVE  \E d \in Dicts : Len(p) = Len(d) + 1 /\ \E n \in Fields(d) : p = Append(d, n)
  <2>1. PICK d \in Dicts : \E k \in 1..Len(Children[d]) : p = Append(d, Children[d][k])
      BY Zenon, <1>5
  <2>2. PICK k \in 1..Len(Children[d]) : p = Append(d, Children[d][k])
      BY Zenon, <2>1
  <2>3. Children[d][k] \in Fields(d) /\ Len(p) = Len(d) + 1
      BY Zenon, <2>2, <1>2, <1>3
  <2> QED
      BY Zenon, <2>2, <2>3
<1> QED
    BY Zenon, <1>4, <1>6, <1>7, <1>8

\* A name is a field of an enclosing dict or none: Lexical finds the innermost.
LEMMA LexicalTyped ==
    ASSUME NEW site \in Paths, NEW name PROVE Lexical(site, name) \in Paths \cup {<<>>}
<1> DEFINE owners == {d \in Dicts : IsStrictPrefix(d, site) /\ name \in Fields(d)}
<1>1. CASE owners = {}
    BY Zenon, <1>1 DEF Lexical
<1>2. CASE owners # {}
  <2>1. site \in Seq(STRING) /\ \A d \in owners : d \in Seq(STRING) /\ Len(d) <= Len(site)
      BY Zenon, PathFacts, ConstantsAssumption DEF IsStrictPrefix, IsPrefix
  <2> DEFINE T == {Len(site) - Len(d) : d \in owners}
  <2> HIDE DEF owners
  <2>2. T \in SUBSET Nat
      BY <2>1, LenProperties
  <2>3. T # {}
      BY Zenon, <1>2
  <2>4. PICK x \in T : \A y \in T : x <= y
      BY Zenon, <2>2, <2>3, LeastNat
  <2>5. PICK d \in owners : x = Len(site) - Len(d)
      BY Zenon, <2>4
  <2>6. \A e \in owners : Len(site) - Len(d) <= Len(site) - Len(e)
      BY Zenon, <2>4, <2>5
  <2>7. \A e \in owners : Len(e) <= Len(d)
      BY <2>1, <2>6, LenProperties
  <2> DEFINE c == CHOOSE e \in owners : \A o \in owners : Len(o) <= Len(e)
  <2>8. c \in owners
      BY Zenon, <2>7
  <2>9. Lexical(site, name) = Append(c, name)
      BY Zenon, <1>2 DEF Lexical, owners
  <2> HIDE DEF c
  <2>10. c \in Dicts /\ name \in Fields(c)
      BY Zenon, <2>8 DEF owners
  <2> QED
      BY Zenon, <2>9, <2>10, PathFacts
<1> QED
    BY Zenon, <1>1, <1>2

\* The operations of a leaf.
LEMMA OpTyped ==
    ASSUME NEW D \in Docs, NEW p \in Leaves, NEW k \in 1..Len(D.body[p])
    PROVE  /\ D.body[p] \in Seq(Ops(p)) /\ D.body[p][k] \in Ops(p)
           /\ D.body[p][k].base \in RefBases \cup {"var", "native"}
           /\ D.body[p][k].base \in RefBases => Target(p, D.body[p][k]) \in Paths
           /\ D.body[p][k].path \in Seq(STRING)
           /\ D.body[p][k].base # "native" => /\ OpWants(p, D.body[p][k]) \in Paths \cup {<<>>}
                                              /\ OpWants(p, D.body[p][k]) \in Wants(D, p)
<1> DEFINE op == D.body[p][k]
<1>1. D.body[p] \in Seq(Ops(p))
    BY Zenon, ConstantsAssumption
<1>2. op \in Ops(p) /\ DOMAIN D.body[p] = 1..Len(D.body[p])
    BY <1>1, ElementOfSeq, LenProperties
<1>3. /\ op.base \in RefBases \cup {"var", "native"} /\ op.path \in Seq(STRING)
      /\ op.base \in RefBases => Target(p, op) \in Paths
    BY Zenon, <1>2 DEF Ops
<1>4. op \in ToSet(D.body[p])
    BY Zenon, <1>2 DEF ToSet
<1> HIDE DEF op
<1>5. p \in Paths /\ p \notin Dicts
    BY Zenon DEF Leaves
<1>6. op.base # "native" => OpWants(p, op) \in Wants(D, p)
    BY Zenon, <1>4, <1>5 DEF Wants
<1>7. op.base # "native" => OpWants(p, op) \in Paths \cup {<<>>}
    BY Zenon, <1>3, <1>5, LexicalTyped DEF OpWants
<1> QED
    BY Zenon, <1>1, <1>2, <1>3, <1>6, <1>7 DEF op

\* A frame waits for something its node asks for.
LEMMA AwaitsWants ==
    ASSUME NEW D \in Docs, NEW f \in Frames, FrameOK(D, f), f.kind # "walk", NEW p, Awaits(D, f, p)
    PROVE  p \in Wants(D, f.path)
<1>1. CASE f.kind = "dict"
  <2>1. f.path \in Dicts /\ f.at \in 1..Len(Children[f.path]) /\ p = Append(f.path, Children[f.path][f.at])
      BY Zenon, <1>1 DEF FrameOK, Awaits
  <2>2. Children[f.path] \in Seq(STRING)
      BY Zenon, <2>1, ConstantsAssumption
  <2>3. DOMAIN Children[f.path] = 1..Len(Children[f.path])
      BY <2>2, LenProperties
  <2>4. Children[f.path][f.at] \in Fields(f.path)
      BY Zenon, <2>1, <2>3 DEF Fields, ToSet
  <2> QED
      BY Zenon, <2>1, <2>4 DEF Wants
<1>2. CASE f.kind = "leaf"
  <2>1. /\ f.path \in Leaves /\ f.at \in 1..Len(D.body[f.path])
        /\ D.body[f.path][f.at].base # "native" /\ p = OpWants(f.path, D.body[f.path][f.at])
      BY Zenon, <1>2 DEF FrameOK, Awaits
  <2> QED
      BY Zenon, <2>1, OpTyped
<1>3. f.kind \in {"dict", "leaf", "walk"}
    BY Zenon DEF Frames
<1> QED
    BY Zenon, <1>1, <1>2, <1>3

-----------------------------------------------------------------------------
(* Cycles. *)

\* A path is grounded exactly when all it asks for is.
LEMMA GroundedFacts ==
    ASSUME NEW D
    PROVE  /\ Grounded(D) \in SUBSET Paths
           /\ \A p \in Paths : Wants(D, p) \cap Paths \subseteq Grounded(D) => p \in Grounded(D)
           /\ \A p \in Grounded(D) : Wants(D, p) \cap Paths \subseteq Grounded(D)
           /\ \A S \in SUBSET Paths : Inductive(D, S) => Grounded(D) \subseteq S
<1>1. Grounded(D) \in SUBSET Paths /\ \A S \in SUBSET Paths : Inductive(D, S) => Grounded(D) \subseteq S
    BY Zenon DEF Grounded
<1>2. ASSUME NEW p \in Paths, Wants(D, p) \cap Paths \subseteq Grounded(D) PROVE p \in Grounded(D)
  <2> SUFFICES ASSUME NEW S \in SUBSET Paths, Inductive(D, S) PROVE p \in S
      BY Zenon DEF Grounded
  <2>1. Wants(D, p) \cap Paths \subseteq S
      BY Zenon, <1>1, <1>2
  <2> QED
      BY Zenon, <2>1 DEF Inductive
<1>3. ASSUME NEW p \in Grounded(D) PROVE Wants(D, p) \cap Paths \subseteq Grounded(D)
  <2> DEFINE S == {q \in Grounded(D) : Wants(D, q) \cap Paths \subseteq Grounded(D)}
  <2>1. S \in SUBSET Paths /\ S \subseteq Grounded(D)
      BY Zenon, <1>1
  <2>2. ASSUME NEW q \in Paths, Wants(D, q) \cap Paths \subseteq S PROVE q \in S
    <3>1. Wants(D, q) \cap Paths \subseteq Grounded(D)
        BY Zenon, <2>1, <2>2
    <3>2. q \in Grounded(D)
        BY Zenon, <3>1, <1>2
    <3> QED
        BY Zenon, <3>1, <3>2
  <2>3. Inductive(D, S)
      BY Zenon, <2>2 DEF Inductive
  <2>4. p \in S
      BY Zenon, <2>1, <2>3, <1>1
  <2> QED
      BY Zenon, <2>4
<1> QED
    BY Zenon, <1>1, <1>2, <1>3

\* When the fields of the root dict are grounded all paths are, and there is no
\* cycle.
LEMMA RootGrounded ==
    ASSUME NEW D, \A n \in Fields(<<>>) : Append(<<>>, n) \in Grounded(D)
    PROVE  ~Circular(D)
<1>1. Paths \subseteq Grounded(D)
  <2> SUFFICES ASSUME NEW p \in Paths, p \notin Grounded(D) PROVE FALSE
      BY Zenon
  <2> DEFINE U == {q \in Paths : q \notin Grounded(D)}
             T == {Len(q) : q \in U}
  <2>1. T \in SUBSET Nat /\ T # {}
    <3>1. \A q \in Paths : Len(q) \in Nat
        BY PathFacts, LenProperties
    <3> QED
        BY Zenon, <3>1
  <2>2. PICK x \in T : \A y \in T : x <= y
      BY Zenon, <2>1, LeastNat
  <2>3. PICK q \in U : x = Len(q)
      BY Zenon, <2>2
  <2>4. \A o \in U : Len(q) <= Len(o)
      BY Zenon, <2>2, <2>3
  <2>5. PICK d \in Dicts : Len(q) = Len(d) + 1 /\ \E n \in Fields(d) : q = Append(d, n)
      BY Zenon, PathFacts
  <2>6. PICK n \in Fields(d) : q = Append(d, n)
      BY Zenon, <2>5
  <2>7. d # <<>>
      BY Zenon, <2>6
  <2>8. d \in Paths /\ d \in Seq(STRING)
      BY Zenon, <2>7, ConstantsAssumption
  <2>9. ~(Len(q) <= Len(d))
      BY <2>5, <2>8, LenProperties
  <2>10. d \in Grounded(D)
      BY Zenon, <2>4, <2>8, <2>9
  <2>11. q \in Wants(D, d)
      BY Zenon, <2>6 DEF Wants
  <2>12. q \in Grounded(D)
      BY Zenon, <2>10, <2>11, GroundedFacts
  <2> QED
      BY Zenon, <2>12
<1>2. ASSUME NEW ps \in (SUBSET Paths) \ {{}}, \A p \in ps : Wants(D, p) \cap ps # {} PROVE FALSE
  <2> DEFINE S == {q \in Paths : q \notin ps}
  <2>1. S \in SUBSET Paths
      BY Zenon
  <2>2. ASSUME NEW q \in Paths, Wants(D, q) \cap Paths \subseteq S PROVE q \in S
      BY Zenon, <2>2, <1>2
  <2>3. Inductive(D, S)
      BY Zenon, <2>2 DEF Inductive
  <2>4. Grounded(D) \subseteq S
      BY Zenon, <2>1, <2>3, GroundedFacts
  <2> QED
      BY Zenon, <2>4, <1>1
<1> QED
    BY Zenon, <1>2 DEF Circular

\* A stack whose innermost frame waits for a path being forced is a cycle.
LEMMA CycleFound ==
    ASSUME NEW D \in Docs, NEW st \in Seq(Frames), StackOK(D, st),
           NEW i \in 1..Len(st), ThunkFrame(st[i]), st[i].path \in Paths,
           Awaits(D, st[Len(st)], st[i].path)
    PROVE  Circular(D)
<1> DEFINE n  == Len(st)
           I  == {j \in 1..n : i <= j}
           ps == {st[j].path : j \in I}
<1>1. n \in Nat /\ n \in I /\ i \in I /\ I \subseteq 1..n
    BY LenProperties
<1>2. \A j \in I : j = n \/ (j + 1 \in I /\ j + 1 \in 1..n)
    BY <1>1
<1>3. \A j \in I : j = i \/ (j - 1 \in I /\ j = (j - 1) + 1)
    BY <1>1
<1> HIDE DEF I
<1>4. \A j \in I : st[j] \in Frames /\ FrameOK(D, st[j])
  <2>1. \A j \in 1..n : st[j] \in Frames
      BY ElementOfSeq
  <2> QED
      BY Zenon, <2>1, <1>1 DEF StackOK
<1>5. ps \in SUBSET Paths /\ ps # {}
  <2>1. \A j \in I : st[j].path \in Paths
      BY Zenon, <1>1, <1>3 DEF StackOK, Link
  <2> QED
      BY Zenon, <2>1, <1>1
<1>6. ASSUME NEW j \in I, st[j].kind # "walk" PROVE Wants(D, st[j].path) \cap ps # {}
  <2>1. CASE j = n
    <3>1. Awaits(D, st[j], st[i].path) /\ st[i].path \in ps
        BY Zenon, <2>1, <1>1
    <3> QED
        BY Zenon, <3>1, <1>4, <1>6, AwaitsWants
  <2>2. CASE j + 1 \in I /\ j + 1 \in 1..n
    <3>1. Awaits(D, st[j], st[j + 1].path) /\ st[j + 1].path \in ps
        BY Zenon, <2>2, <1>1 DEF StackOK, Link
    <3> QED
        BY Zenon, <3>1, <1>4, <1>6, AwaitsWants
  <2> QED
      BY Zenon, <2>1, <2>2, <1>2
<1>7. ASSUME NEW j \in I PROVE Wants(D, st[j].path) \cap ps # {}
  <2>1. CASE st[j].kind # "walk"
      BY Zenon, <2>1, <1>6
  <2>2. CASE st[j].kind = "walk" /\ j = n
    <3>1. st[i].path = st[j].path /\ st[i].kind # "walk"
        BY Zenon, <2>2 DEF Awaits, ThunkFrame
    <3> QED
        BY Zenon, <3>1, <1>1, <1>6
  <2>3. CASE st[j].kind = "walk" /\ j + 1 \in I /\ j + 1 \in 1..n
    <3>1. Link(D, st[j], st[j + 1])
        BY Zenon, <2>3, <1>1 DEF StackOK
    <3>2. st[j + 1].path = st[j].path /\ st[j + 1].kind # "walk"
        BY Zenon, <3>1, <2>3 DEF Link, Awaits
    <3> QED
        BY Zenon, <3>2, <2>3, <1>6
  <2> QED
      BY Zenon, <2>1, <2>2, <2>3, <1>2
<1>8. \A p \in ps : Wants(D, p) \cap ps # {}
    BY Zenon, <1>7
<1> QED
    BY Zenon, <1>5, <1>8 DEF Circular

-----------------------------------------------------------------------------
(* #internal fields. *)

\* What IsPrefix says of the elements.
LEMMA PrefixElements ==
    ASSUME NEW s \in Seq(STRING), NEW t \in Seq(STRING)
    PROVE  IsPrefix(s, t) <=> Len(s) <= Len(t) /\ \A i \in 1..Len(s) : s[i] = t[i]
<1> DEFINE n == Len(s)
<1>1. n \in Nat /\ Len(t) \in Nat /\ n \in Int /\ 1 \in Int
    BY LenProperties
<1>2. SubSeq(s, 1, n) = s
    BY SubSeqFull
<1> SUFFICES ASSUME n <= Len(t) PROVE SubSeq(t, 1, n) = s <=> \A i \in 1..n : s[i] = t[i]
    BY Zenon, <1>2 DEF IsPrefix
<1>3. \A i \in 1..n : t[i] \in STRING
    BY <1>1, ElementOfSeq
<1> HIDE DEF n
<1>4. /\ SubSeq(t, 1, n) \in Seq(STRING)
      /\ Len(SubSeq(t, 1, n)) = IF 1 <= n THEN n - 1 + 1 ELSE 0
      /\ \A i \in 1..(n - 1 + 1) : SubSeq(t, 1, n)[i] = t[1 + i - 1]
    BY <1>1, <1>3, SubSeqProperties
<1>5. n - 1 + 1 = n /\ (IF 1 <= n THEN n - 1 + 1 ELSE 0) = n /\ \A i \in 1..n : 1 + i - 1 = i
    BY <1>1
<1> DEFINE u == SubSeq(t, 1, n)
<1>6. u \in Seq(STRING) /\ Len(u) = n /\ \A i \in 1..n : u[i] = t[i]
    BY Zenon, <1>4, <1>5
<1> HIDE DEF u
<1>7. (\A i \in 1..n : s[i] = t[i]) => u = s
  <2> SUFFICES ASSUME \A i \in 1..n : s[i] = t[i] PROVE u = s
      OBVIOUS
  <2>1. \A i \in 1..Len(u) : u[i] = s[i]
      BY Zenon, <1>6
  <2> QED
      BY <2>1, <1>6, SeqEqual DEF n
<1> QED
    BY Zenon, <1>6, <1>7 DEF u

\* Prefixes of a path.
LEMMA PrefixFacts ==
    /\ \A s \in Seq(STRING) : Up(s) \in Seq(STRING) /\ IsPrefix(Up(s), s)
    /\ \A s, t \in Seq(STRING) : SubSeq(s \o t, 1, Len(s)) = s
    /\ \A r, s, t \in Seq(STRING) : IsPrefix(r, s) /\ IsPrefix(s, t) => IsPrefix(r, t)
<1>1. ASSUME NEW s \in Seq(STRING) PROVE Up(s) \in Seq(STRING) /\ IsPrefix(Up(s), s)
  <2>1. CASE s = <<>>
    <3>1. Up(s) = s
        BY Zenon, <2>1 DEF Up
    <3>2. Len(s) <= Len(s)
        BY LenProperties
    <3> QED
        BY Zenon, <3>1, <3>2, PrefixElements
  <2>2. CASE s # <<>>
    <3>1. Len(s) \in Nat /\ Len(s) > 0 /\ Up(s) = Front(s)
        BY <2>2, LenProperties, EmptySeq DEF Up
    <3>2. /\ Up(s) \in Seq(STRING) /\ Len(Up(s)) = Len(s) - 1
          /\ \A i \in 1..(Len(s) - 1) : Up(s)[i] = s[i]
        BY Zenon, <3>1, FrontFacts
    <3>3. Len(Up(s)) <= Len(s)
        BY <3>1, <3>2
    <3> QED
        BY Zenon, <3>2, <3>3, PrefixElements
  <2> QED
      BY Zenon, <2>1, <2>2
<1>2. ASSUME NEW s \in Seq(STRING), NEW t \in Seq(STRING) PROVE SubSeq(s \o t, 1, Len(s)) = s
  <2>1. /\ s \o t \in Seq(STRING) /\ Len(s \o t) = Len(s) + Len(t)
        /\ \A i \in 1..(Len(s) + Len(t)) : (s \o t)[i] = IF i <= Len(s) THEN s[i] ELSE t[i - Len(s)]
      BY ConcatProperties
  <2>2. Len(s) \in Nat /\ Len(t) \in Nat
      BY LenProperties
  <2> DEFINE u == s \o t
  <2> HIDE DEF u
  <2>3. Len(s) <= Len(u) /\ \A i \in 1..Len(s) : s[i] = u[i]
      BY <2>1, <2>2 DEF u
  <2>4. IsPrefix(s, u)
      BY Zenon, <2>1, <2>3, PrefixElements DEF u
  <2>5. SubSeq(s, 1, Len(s)) = s
      BY SubSeqFull
  <2> QED
      BY Zenon, <2>4, <2>5 DEF IsPrefix, u
<1>3. ASSUME NEW r \in Seq(STRING), NEW s \in Seq(STRING), NEW t \in Seq(STRING),
             IsPrefix(r, s), IsPrefix(s, t)
      PROVE  IsPrefix(r, t)
  <2>1. /\ Len(r) <= Len(s) /\ \A i \in 1..Len(r) : r[i] = s[i]
        /\ Len(s) <= Len(t) /\ \A i \in 1..Len(s) : s[i] = t[i]
      BY Zenon, <1>3, PrefixElements
  <2>2. Len(r) \in Nat /\ Len(s) \in Nat /\ Len(t) \in Nat
      BY LenProperties
  <2>3. Len(r) <= Len(t) /\ \A i \in 1..Len(r) : i \in 1..Len(s)
      BY <2>1, <2>2
  <2> QED
      BY Zenon, <2>1, <2>3, PrefixElements
<1> QED
    BY Zenon, <1>1, <1>2, <1>3

\* A reference that is not hidden stays inside the dict whose fields it names.
LEMMA NotHidden ==
    ASSUME NEW D, NEW site \in Seq(STRING), NEW op, op.base \in RefBases, op.path \in Seq(STRING),
           ~Hidden(D, Target(site, op), OwningDepth(site, op)),
           NEW a, a[1] = site, a[2] = op.base, a[3] = Target(site, op)
    PROVE  Inside(D, a)
<1> SUFFICES ASSUME NEW i \in 1..Len(a[3]), SubSeq(a[3], 1, i) \in D.private
             PROVE  a[2] # "root" /\ IsPrefix(SubSeq(a[3], 1, i - 1), a[1])
    BY Zenon DEF Inside
<1>1. OwningDepth(site, op) = i - 1
    BY Zenon DEF Hidden
<1>2. i \in Int /\ i >= 1
    OBVIOUS
<1>3. /\ Up(site) \in Seq(STRING) /\ IsPrefix(Up(site), site)
      /\ Up(Up(site)) \in Seq(STRING) /\ IsPrefix(Up(Up(site)), Up(site))
    BY Zenon, PrefixFacts
<1>4. CASE op.base = "root"
  <2>1. OwningDepth(site, op) = CrossDict
      BY <1>4 DEF OwningDepth
  <2> QED
      BY <2>1, <1>1, <1>2 DEF CrossDict
<1>5. CASE op.base = "sibling"
  <2>1. OwningDepth(site, op) = Len(Up(site)) /\ Target(site, op) = Up(site) \o op.path
      BY SMTT(30), <1>5 DEF OwningDepth, Target
  <2>2. SubSeq(a[3], 1, i - 1) = Up(site)
    <3>1. SubSeq(Up(site) \o op.path, 1, Len(Up(site))) = Up(site)
        BY Zenon, <1>3, PrefixFacts
    <3>2. i - 1 = Len(Up(site)) /\ a[3] = Up(site) \o op.path
        BY Zenon, <2>1, <1>1
    <3> QED
        BY Zenon, <3>1, <3>2
  <2> QED
      BY Zenon, <2>2, <1>3, <1>5
<1>6. CASE op.base = "uncle"
  <2>1. OwningDepth(site, op) = Len(Up(Up(site))) /\ Target(site, op) = Up(Up(site)) \o op.path
      BY <1>6 DEF OwningDepth, Target
  <2>2. SubSeq(a[3], 1, i - 1) = Up(Up(site))
    <3>1. SubSeq(Up(Up(site)) \o op.path, 1, Len(Up(Up(site)))) = Up(Up(site))
        BY Zenon, <1>3, PrefixFacts
    <3>2. i - 1 = Len(Up(Up(site))) /\ a[3] = Up(Up(site)) \o op.path
        BY Zenon, <2>1, <1>1
    <3> QED
        BY Zenon, <3>1, <3>2
  <2>3. IsPrefix(Up(Up(site)), site)
      BY ZenonT(40), <1>3, PrefixFacts
  <2> QED
      BY Zenon, <2>2, <2>3, <1>6
<1> QED
    BY Zenon, <1>4, <1>5, <1>6 DEF RefBases

-----------------------------------------------------------------------------
(* Stacks. *)

\* The last frame h is new, the last frame is gone, h stands in its place.
Pushed(st, h, ss) ==
    /\ ss \in Seq(Frames) /\ Len(ss) = Len(st) + 1 /\ ss[Len(st) + 1] = h
    /\ \A i \in 1..Len(st) : ss[i] = st[i]
Popped(st, ss) ==
    /\ ss \in Seq(Frames) /\ Len(ss) = Len(st) - 1
    /\ \A i \in 1..Len(ss) : ss[i] = st[i]
Retopped(st, h, ss) ==
    /\ ss \in Seq(Frames) /\ Len(ss) = Len(st) /\ ss[Len(st)] = h
    /\ \A i \in 1..Len(st) : i # Len(st) => ss[i] = st[i]

\* h differs from f in the point it is at.
Moved(f, h) == /\ h.kind = f.kind /\ h.path = f.path /\ h.lvl = f.lvl
               /\ h.site = f.site /\ h.depth = f.depth

LEMMA PushFacts ==
    ASSUME NEW D, NEW st \in Seq(Frames), StackOK(D, st), Len(st) > 0,
           NEW h \in Frames, FrameOK(D, h), Link(D, st[Len(st)], h),
           NEW ss, ss = Append(st, h)
    PROVE  Pushed(st, h, ss) /\ StackOK(D, ss)
<1> DEFINE n == Len(st)
<1>1. Pushed(st, h, ss)
  <2>1. /\ Append(st, h) \in Seq(Frames) /\ Len(Append(st, h)) = n + 1
        /\ \A i \in 1..n : Append(st, h)[i] = st[i]
        /\ Append(st, h)[n + 1] = h
      BY AppendProperties
  <2> QED
      BY Zenon, <2>1 DEF Pushed
<1>2. /\ ss \in Seq(Frames) /\ Len(ss) = n + 1 /\ ss[n + 1] = h
      /\ \A i \in 1..n : ss[i] = st[i]
    BY Zenon, <1>1 DEF Pushed
<1>3. n \in Nat
    BY LenProperties
<1>4. \A i \in 1..(n + 1) : i = n + 1 \/ i \in 1..n
    BY <1>3
<1>5. \A i, j \in 1..(n + 1) : j = i + 1 => (j = n + 1 /\ i = n) \/ (i \in 1..n /\ j \in 1..n)
    BY <1>3
<1>6. n \in 1..n /\ n + 1 # 1
    BY <1>3
<1> HIDE DEF n
<1>7. ASSUME NEW i \in 1..(n + 1) PROVE FrameOK(D, ss[i]) /\ (i = 1 => Root(ss[i]))
  <2>1. CASE i = n + 1
      BY Zenon, <2>1, <1>2, <1>6
  <2>2. CASE i \in 1..n
      BY Zenon, <2>2, <1>2 DEF StackOK, n
  <2> QED
      BY Zenon, <2>1, <2>2, <1>4
<1>8. ASSUME NEW i \in 1..(n + 1), NEW j \in 1..(n + 1), j = i + 1 PROVE Link(D, ss[i], ss[j])
  <2>1. CASE j = n + 1 /\ i = n
      BY Zenon, <2>1, <1>2, <1>6 DEF n
  <2>2. CASE i \in 1..n /\ j \in 1..n
    <3>1. ss[i] = st[i] /\ ss[j] = st[j]
        BY Zenon, <2>2, <1>2
    <3> QED
        BY Zenon, <3>1, <2>2, <1>8 DEF StackOK, n
  <2> QED
      BY Zenon, <2>1, <2>2, <1>5, <1>8
<1> QED
    BY Zenon, <1>1, <1>2, <1>7, <1>8 DEF StackOK

LEMMA PopFacts ==
    ASSUME NEW D, NEW st \in Seq(Frames), StackOK(D, st), Len(st) > 0,
           NEW ss, ss = Front(st)
    PROVE  /\ Popped(st, ss) /\ StackOK(D, ss)
           /\ Len(ss) > 0 <=> Len(st) # 1
           /\ Len(ss) > 0 => /\ Link(D, ss[Len(ss)], st[Len(st)])
                             /\ ss[Len(ss)] \in Frames /\ FrameOK(D, ss[Len(ss)])
                             /\ ss[Len(ss)] = st[Len(st) - 1]
<1> DEFINE n == Len(st)
           m == Len(ss)
<1>1. ss \in Seq(Frames) /\ m = n - 1 /\ \A i \in 1..(n - 1) : ss[i] = st[i]
    BY Zenon, FrontFacts
<1>2. n \in Nat /\ m \in Nat
    BY <1>1, LenProperties
<1>3. /\ m > 0 <=> n # 1
      /\ m > 0 => m \in 1..m /\ n = m + 1 /\ n \in 1..n /\ m = n - 1
      /\ \A i \in 1..m : i \in 1..n
    BY <1>1, <1>2
<1>4. \A i \in 1..m : ss[i] = st[i]
    BY Zenon, <1>1
<1>5. Popped(st, ss)
    BY Zenon, <1>1, <1>4 DEF Popped
<1> HIDE DEF m, n
<1>6. StackOK(D, ss)
    BY Zenon, <1>3, <1>4 DEF StackOK, m, n
<1>7. ASSUME m > 0
      PROVE  Link(D, ss[m], st[n]) /\ ss[m] \in Frames /\ FrameOK(D, ss[m]) /\ ss[m] = st[n - 1]
  <2>1. m \in 1..m /\ n = m + 1 /\ n \in 1..n /\ m \in 1..n /\ ss[m] = st[m] /\ m = n - 1
      BY Zenon, <1>3, <1>4, <1>7
  <2>2. Link(D, st[m], st[n]) /\ FrameOK(D, st[m])
      BY Zenon, <2>1 DEF StackOK, n
  <2>3. ss[m] \in Frames
      BY <2>1, <1>1, ElementOfSeq DEF m
  <2> QED
      BY Zenon, <2>1, <2>2, <2>3
<1> QED
    BY Zenon, <1>3, <1>5, <1>6, <1>7 DEF m, n

LEMMA RetopFacts ==
    ASSUME NEW D, NEW st \in Seq(Frames), StackOK(D, st), Len(st) > 0,
           NEW h \in Frames, FrameOK(D, h), Moved(st[Len(st)], h),
           NEW ss, ss = [st EXCEPT ![Len(st)] = h]
    PROVE  Retopped(st, h, ss) /\ StackOK(D, ss)
<1> DEFINE n == Len(st)
<1>1. n \in Nat /\ n \in 1..n /\ DOMAIN st = 1..n
    BY LenProperties
<1>2. Retopped(st, h, ss)
  <2>1. /\ ss \in Seq(Frames) /\ Len(ss) = n
        /\ \A i \in 1..n : ss[i] = IF i = n THEN h ELSE st[i]
      BY <1>1, ExceptSeq
  <2>2. ss[n] = h /\ \A i \in 1..n : i # n => ss[i] = st[i]
      BY Zenon, <1>1, <2>1
  <2> QED
      BY Zenon, <2>1, <2>2 DEF Retopped
<1>3. ss \in Seq(Frames) /\ Len(ss) = n /\ ss[n] = h /\ \A i \in 1..n : i # n => ss[i] = st[i]
    BY Zenon, <1>2 DEF Retopped
<1>4. \A i, j \in 1..n : j = i + 1 => i # n
  <2>1. \A k \in Nat : \A i, j \in 1..k : j = i + 1 => i # k
      OBVIOUS
  <2> QED
      BY Zenon, <2>1, <1>1
<1> HIDE DEF n
<1>5. ASSUME NEW i \in 1..n PROVE FrameOK(D, ss[i]) /\ (i = 1 => Root(ss[i]))
  <2>1. CASE i = n
      BY Zenon, <2>1, <1>1, <1>3 DEF StackOK, Root, Moved, n
  <2>2. CASE i # n
      BY Zenon, <2>2, <1>3 DEF StackOK, n
  <2> QED
      BY Zenon, <2>1, <2>2
<1>6. ASSUME NEW i \in 1..n, NEW j \in 1..n, j = i + 1 PROVE Link(D, ss[i], ss[j])
  <2>1. ss[i] = st[i] /\ Link(D, st[i], st[j])
      BY Zenon, <1>3, <1>4, <1>6 DEF StackOK, n
  <2>2. CASE j = n
      BY Zenon, <2>1, <2>2, <1>3 DEF Link, Moved, n
  <2>3. CASE j # n
      BY Zenon, <2>1, <2>3, <1>3
  <2> QED
      BY Zenon, <2>2, <2>3
<1> QED
    BY Zenon, <1>2, <1>3, <1>5, <1>6 DEF StackOK

\* evaluating_paths follows the stack.
LEMMA EvaluatingPush ==
    ASSUME NEW st \in Seq(Frames), NEW ev, Evaluating(st, ev), NEW h, NEW ss, Pushed(st, h, ss)
    PROVE  /\ ThunkFrame(h) /\ h.path \notin ev => Evaluating(ss, ev \cup {h.path})
           /\ ~ThunkFrame(h) => Evaluating(ss, ev)
<1> DEFINE n == Len(st)
<1>1. n \in Nat
    BY LenProperties
<1>2. /\ \A i \in 1..(n + 1) : i = n + 1 \/ i \in 1..n
      /\ \A i \in 1..n : i \in 1..(n + 1)
      /\ n + 1 \in 1..(n + 1)
    BY <1>1
<1>3. Len(ss) = n + 1 /\ ss[n + 1] = h /\ \A i \in 1..n : ss[i] = st[i]
    BY Zenon DEF Pushed
<1> HIDE DEF n
<1>4. ASSUME ThunkFrame(h), h.path \notin ev PROVE Evaluating(ss, ev \cup {h.path})
  <2> DEFINE e2 == ev \cup {h.path}
  <2>1. ASSUME NEW p PROVE p \in e2 <=> \E i \in 1..(n + 1) : ThunkFrame(ss[i]) /\ ss[i].path = p
      BY Zenon, <1>2, <1>3, <1>4 DEF Evaluating, n
  <2>2. ASSUME NEW i \in 1..n, ThunkFrame(st[i]) PROVE st[i].path # h.path
      BY Zenon, <2>2, <1>4 DEF Evaluating, n
  <2>3. ASSUME NEW i \in 1..(n + 1), NEW j \in 1..(n + 1), ThunkFrame(ss[i]), ThunkFrame(ss[j]),
               ss[i].path = ss[j].path
        PROVE  i = j
    <3>1. CASE i \in 1..n /\ j \in 1..n
        BY Zenon, <3>1, <2>3, <1>3 DEF Evaluating, n
    <3>2. CASE i \in 1..n /\ j = n + 1
        BY Zenon, <3>2, <2>2, <2>3, <1>3
    <3>3. CASE j \in 1..n /\ i = n + 1
        BY Zenon, <3>3, <2>2, <2>3, <1>3
    <3>4. CASE i = n + 1 /\ j = n + 1
        BY Zenon, <3>4
    <3> QED
        BY Zenon, <3>1, <3>2, <3>3, <3>4, <1>2
  <2> HIDE DEF e2
  <2>4. Evaluating(ss, e2)
      BY Zenon, <2>1, <2>3, <1>3 DEF Evaluating
  <2> QED
      BY Zenon, <2>4 DEF e2
<1>5. ASSUME ~ThunkFrame(h) PROVE Evaluating(ss, ev)
  <2>1. ASSUME NEW p PROVE p \in ev <=> \E i \in 1..(n + 1) : ThunkFrame(ss[i]) /\ ss[i].path = p
      BY Zenon, <1>2, <1>3, <1>5 DEF Evaluating, n
  <2>2. ASSUME NEW i \in 1..(n + 1), NEW j \in 1..(n + 1), ThunkFrame(ss[i]), ThunkFrame(ss[j]),
               ss[i].path = ss[j].path
        PROVE  i = j
    <3>1. i \in 1..n /\ j \in 1..n
        BY Zenon, <2>2, <1>2, <1>3, <1>5
    <3> QED
        BY Zenon, <3>1, <2>2, <1>3 DEF Evaluating, n
  <2> QED
      BY Zenon, <2>1, <2>2, <1>3 DEF Evaluating
<1> QED
    BY Zenon, <1>4, <1>5

LEMMA EvaluatingPop ==
    ASSUME NEW st \in Seq(Frames), Len(st) > 0, NEW ev, Evaluating(st, ev), NEW ss, Popped(st, ss)
    PROVE  /\ ThunkFrame(st[Len(st)]) => Evaluating(ss, ev \ {st[Len(st)].path})
           /\ ~ThunkFrame(st[Len(st)]) => Evaluating(ss, ev)
           /\ <<>> \notin ev
<1> DEFINE n == Len(st)
           m == Len(ss)
<1>1. n \in Nat /\ m = n - 1
    BY LenProperties DEF Popped
<1>2. /\ \A i \in 1..n : i = n \/ i \in 1..m
      /\ \A i \in 1..m : i \in 1..n /\ i # n
      /\ n \in 1..n
    BY <1>1
<1>3. \A i \in 1..m : ss[i] = st[i]
    BY Zenon DEF Popped
<1> HIDE DEF n, m
<1>4. ASSUME NEW i \in 1..m, NEW j \in 1..m, ThunkFrame(ss[i]), ThunkFrame(ss[j]), ss[i].path = ss[j].path
      PROVE  i = j
    BY Zenon, <1>2, <1>3, <1>4 DEF Evaluating, n
<1>5. ASSUME ThunkFrame(st[n]), NEW p
      PROVE  p \in ev \ {st[n].path} <=> \E i \in 1..m : ThunkFrame(ss[i]) /\ ss[i].path = p
    BY Zenon, <1>2, <1>3, <1>5 DEF Evaluating, n
<1>6. ASSUME ~ThunkFrame(st[n]), NEW p
      PROVE  p \in ev <=> \E i \in 1..m : ThunkFrame(ss[i]) /\ ss[i].path = p
    BY Zenon, <1>2, <1>3, <1>6 DEF Evaluating, n
<1>7. <<>> \notin ev
    BY Zenon DEF Evaluating, ThunkFrame
<1> QED
    BY Zenon, <1>4, <1>5, <1>6, <1>7 DEF Evaluating, m, n

LEMMA EvaluatingRetop ==
    ASSUME NEW st \in Seq(Frames), NEW ev, Evaluating(st, ev), NEW h, NEW ss, Retopped(st, h, ss),
           Moved(st[Len(st)], h)
    PROVE  Evaluating(ss, ev)
<1> DEFINE n == Len(st)
<1>1. Len(ss) = n /\ ss[n] = h /\ \A i \in 1..n : i # n => ss[i] = st[i]
    BY Zenon DEF Retopped
<1> HIDE DEF n
<1>2. \A i \in 1..n : (ThunkFrame(ss[i]) <=> ThunkFrame(st[i])) /\ ss[i].path = st[i].path
    BY Zenon, <1>1 DEF ThunkFrame, Moved, n
<1> QED
    BY ZenonT(40), <1>1, <1>2 DEF Evaluating, n

-----------------------------------------------------------------------------
(* Steps. *)

\* What is known of the innermost frame.
LEMMA TopFacts ==
    ASSUME Inv, Running
    PROVE  /\ doc \in Docs /\ stack \in Seq(Frames) /\ Len(stack) > 0 /\ Len(stack) \in 1..Len(stack)
           /\ Top = stack[Len(stack)] /\ Top \in Frames /\ FrameOK(doc, Top)
           /\ StackOK(doc, stack)
           /\ thunks \in Seq(SUBSET Grounded(doc)) /\ Len(thunks) = Lvl(Top)
           /\ ret = "ok" => Got(doc, Top)
           /\ Lvl(Top) \in Nat \ {0}
<1>1. doc \in Docs /\ stack \in Seq(Frames) /\ StackOK(doc, stack) /\ thunks \in Seq(SUBSET Grounded(doc))
    BY Zenon DEF Inv, Types
<1>2. Len(stack) \in Nat /\ Len(stack) # 0
    BY Zenon, <1>1, EmptySeq, LenProperties DEF Running
<1>3. Len(stack) > 0 /\ Len(stack) \in 1..Len(stack)
    BY <1>2
<1>4. stack[Len(stack)] \in Frames
    BY <1>1, <1>3, ElementOfSeq
<1>5. Top = stack[Len(stack)]
    BY Zenon DEF Top
<1>6. FrameOK(doc, Top)
    BY Zenon, <1>1, <1>3, <1>5 DEF StackOK
<1>7. Len(thunks) = Lvl(Top) /\ (ret = "ok" => Got(doc, Top))
    BY Zenon, <1>3, <1>5 DEF Inv
<1>8. Lvl(Top) \in Nat \ {0}
  <2>1. Top.lvl \in Nat \ {0}
      BY Zenon, <1>4, <1>5 DEF Frames
  <2> QED
      BY <2>1 DEF Lvl
<1> QED
    BY Zenon, <1>1, <1>3, <1>4, <1>5, <1>6, <1>7, <1>8

\* The innermost frame gets an answer and the stack stays.
LEMMA RetInv ==
    ASSUME Inv, Running, UNCHANGED <<doc, stack, thunks, path_cache, evaluating_paths, leaked, outcome>>,
           ret' \in Rets, ret' # "circular", ret' = "ok" => Got(doc, Top),
           \A a \in answered' : Inside(doc, a)
    PROVE  Inv'
<1>1. Types'
    BY Zenon DEF Inv, Types
<1>2. Len(stack) > 0 /\ ret' = "ok" => Got(doc, stack[Len(stack)])
    BY Zenon, TopFacts
<1> QED
    BY Zenon, <1>1, <1>2 DEF Inv

\* The innermost frame of below waits for p, and force_thunk is called for it.
LEMMA ForceInv ==
    ASSUME Inv, NEW below \in Seq(Frames), StackOK(doc, below), Len(below) > 0,
           NEW f \in Frames, f = below[Len(below)], NEW p \in Paths, Awaits(doc, f, p),
           NEW lvl \in Nat \ {0}, lvl = Lvl(f), NEW valued \in SUBSET Grounded(doc),
           ForceThunk(lvl, p, valued, below),
           leaked = {} => Evaluating(below, evaluating_paths),
           ret = "none", thunks' \in Seq(SUBSET Grounded(doc)), Len(thunks') = lvl,
           UNCHANGED <<doc, leaked, path_cache, outcome, answered>>
    PROVE  Inv'
<1>1. CASE p \in valued /\ ret' = "ok" /\ stack' = below /\ UNCHANGED evaluating_paths
  <2>1. Got(doc, f)
      BY Zenon, <1>1 DEF Got
  <2>2. Types'
      BY Zenon, <1>1 DEF Inv, Types, Rets
  <2> QED
      BY Zenon, <2>1, <2>2, <1>1 DEF Inv
<1>2. CASE /\ p \in evaluating_paths
           /\ ret' = "circular" /\ stack' = below /\ UNCHANGED evaluating_paths
  <2>1. Circular(doc) \/ leaked # {}
    <3> SUFFICES ASSUME leaked = {} PROVE Circular(doc)
        BY Zenon
    <3>1. PICK i \in 1..Len(below) : ThunkFrame(below[i]) /\ below[i].path = p
        BY Zenon, <1>2 DEF Evaluating
    <3>2. doc \in Docs
        BY Zenon DEF Inv, Types
    <3> QED
        BY Zenon, <3>1, <3>2, CycleFound
  <2>2. Types'
      BY Zenon, <1>2 DEF Inv, Types, Rets, Errors
  <2> QED
      BY Zenon, <2>1, <2>2, <1>2 DEF Inv
<1>3. CASE /\ p \notin evaluating_paths
           /\ stack' = Append(below, Frame(IF p \in Dicts THEN "dict" ELSE "leaf", lvl, p, 0, p))
           /\ evaluating_paths' = evaluating_paths \cup {p} /\ UNCHANGED ret
  <2> DEFINE kind == IF p \in Dicts THEN "dict" ELSE "leaf"
             h    == Frame(kind, lvl, p, 0, p)
  <2>1. kind \in {"dict", "leaf", "walk"} /\ p \in Paths \cup {<<>>} /\ kind # "walk"
      BY Zenon
  <2>2. p # <<>> /\ 0 \in Int
      BY PathFacts
  <2>3. /\ h \in Frames /\ h.kind = kind /\ h.lvl = lvl /\ h.path = p /\ h.at = 1
    <3> HIDE DEF kind, h
    <3>1. h = Frame(kind, lvl, p, 0, p)
        BY Zenon DEF h
    <3>2. 1 \in Nat \ {0}
        OBVIOUS
    <3> QED
        BY Zenon, <3>1, <3>2, <2>1, <2>2 DEF Frame, Frames
  <2>4. stack' = Append(below, h)
      BY Zenon, <1>3
  <2>5. (h.kind = "dict" => p \in Dicts) /\ (h.kind = "leaf" => p \in Leaves) /\ h.kind # "walk"
    <3> HIDE DEF h
    <3> QED
        BY Zenon, <2>3 DEF Leaves
  <2> HIDE DEF h, kind
  <2>6. FrameOK(doc, h)
    <3>1. \A k \in Nat : \A j \in 1..k : ~(j < 1)
        OBVIOUS
    <3>2. \A x : \A j \in 1..Len(x) : ~(j < 1)
        OBVIOUS
    <3> QED
        BY Zenon, <3>2, <2>3, <2>5 DEF FrameOK
  <2>7. Link(doc, f, h)
      BY Zenon, <2>3, <2>5 DEF Link
  <2>8. Pushed(below, h, stack') /\ StackOK(doc, stack')
      BY Zenon, <2>3, <2>4, <2>6, <2>7, PushFacts
  <2>9. /\ stack' \in Seq(Frames) /\ Len(stack') = Len(below) + 1 /\ stack'[Len(stack')] = h
      BY Zenon, <2>8 DEF Pushed
  <2>10. Len(thunks') = Lvl(h)
      BY Zenon, <2>3, <2>5 DEF Lvl
  <2>11. leaked = {} => Evaluating(stack', evaluating_paths')
    <3>1. ThunkFrame(h) /\ h.path = p
        BY Zenon, <2>2, <2>3, <2>5 DEF ThunkFrame
    <3> QED
        BY Zenon, <3>1, <2>8, <1>3, EvaluatingPush
  <2>12. Types'
      BY Zenon, <2>9, <1>3 DEF Inv, Types
  <2> QED
      BY Zenon, <2>8, <2>9, <2>10, <2>11, <2>12, <1>3 DEF Inv
<1> QED
    BY Zenon, <1>1, <1>2, <1>3 DEF ForceThunk

\* The innermost frame is gone: its answer goes to the frame it was above.
LEMMA PopInv ==
    ASSUME Inv, Running, stack' = Front(stack), ret' \in Rets,
           UNCHANGED <<doc, leaked>>,
           leaked = {} => evaluating_paths' = IF ThunkFrame(Top) THEN evaluating_paths \ {Top.path}
                                              ELSE evaluating_paths,
           thunks' \in Seq(SUBSET Grounded(doc)),
           Len(stack) # 1 => Len(thunks') = Top.lvl,
           ret' = "ok" => Top.path \in Grounded(doc),
           \A e \in path_cache' : Entry(doc, e),
           ret' = "circular" \/ outcome' = "circular" => Circular(doc) \/ leaked # {},
           outcome' = "value" => ~Circular(doc),
           \A a \in answered' : Inside(doc, a)
    PROVE  Inv'
<1> DEFINE st == stack
           ss == stack'
           n  == Len(st)
           f  == ss[Len(ss)]
<1>1. /\ doc \in Docs /\ st \in Seq(Frames) /\ n > 0 /\ Top = st[n] /\ StackOK(doc, st)
    BY Zenon, TopFacts
<1>2. /\ Popped(st, ss) /\ StackOK(doc, ss)
      /\ Len(ss) > 0 <=> n # 1
      /\ Len(ss) > 0 => Link(doc, f, Top) /\ f \in Frames
    BY Zenon, <1>1, PopFacts
<1>3. ss \in Seq(Frames)
    BY Zenon, <1>2 DEF Popped
<1>4. Len(ss) > 0 => Len(thunks') = Lvl(f)
    BY Zenon, <1>2 DEF Link
<1>5. Len(ss) > 0 /\ ret' = "ok" => Got(doc, f)
    BY Zenon, <1>2 DEF Link, Got
<1>6. leaked = {} => Evaluating(ss, evaluating_paths')
  <2> SUFFICES ASSUME leaked = {} PROVE Evaluating(ss, evaluating_paths')
      BY Zenon
  <2>1. Evaluating(st, evaluating_paths)
      BY Zenon DEF Inv
  <2>2. CASE ThunkFrame(Top)
      BY ZenonT(40), <2>1, <2>2, <1>1, <1>2, EvaluatingPop
  <2>3. CASE ~ThunkFrame(Top)
      BY Zenon, <2>1, <2>3, <1>1, <1>2, EvaluatingPop
  <2> QED
      BY Zenon, <2>2, <2>3
<1>7. Types'
    BY Zenon, <1>1, <1>3 DEF Types
<1> QED
    BY Zenon, <1>2, <1>4, <1>5, <1>6, <1>7 DEF Inv

\* The outermost frame is the root dict's, and no other frame is.
LEMMA RootTop == ASSUME Inv, Running PROVE Top.path = <<>> <=> Len(stack) = 1
<1> DEFINE ss == Front(stack)
<1>1. /\ doc \in Docs /\ stack \in Seq(Frames) /\ Len(stack) > 0 /\ Len(stack) \in 1..Len(stack)
      /\ Top = stack[Len(stack)] /\ StackOK(doc, stack)
    BY Zenon, TopFacts
<1>2. Len(ss) > 0 <=> Len(stack) # 1
    BY Zenon, <1>1, PopFacts
<1>3. Len(ss) > 0 => Link(doc, ss[Len(ss)], stack[Len(stack)])
    BY Zenon, <1>1, PopFacts
<1>4. Len(stack) # 1 => Top.path \in Paths
    BY Zenon, <1>1, <1>2, <1>3 DEF Link
<1>5. Len(stack) = 1 => Top.path = <<>>
    BY Zenon, <1>1 DEF StackOK, Root
<1> QED
    BY Zenon, <1>4, <1>5, PathFacts

\* A node that is done has got all it asks for.
LEMMA DoneGrounded ==
    ASSUME NEW D \in Docs, NEW f \in Frames, FrameOK(D, f),
           \/ f.kind = "dict" /\ f.at > Len(Children[f.path])
           \/ f.kind = "leaf" /\ f.at > Len(D.body[f.path])
    PROVE  Wants(D, f.path) \cap Paths \subseteq Grounded(D)
<1>0. f.at \in Nat
    BY Zenon DEF Frames
<1> SUFFICES ASSUME NEW q \in Wants(D, f.path), q \in Paths PROVE q \in Grounded(D)
    BY Zenon
<1>1. CASE f.kind = "dict" /\ f.at > Len(Children[f.path])
  <2>1. f.path \in Dicts /\ Children[f.path] \in Seq(STRING)
      BY Zenon, <1>1, ConstantsAssumption DEF FrameOK
  <2>2. DOMAIN Children[f.path] = 1..Len(Children[f.path]) /\ Len(Children[f.path]) \in Nat
      BY <2>1, LenProperties
  <2>3. PICK n \in Fields(f.path) : q = Append(f.path, n)
      BY Zenon, <2>1 DEF Wants
  <2>4. PICK j \in 1..Len(Children[f.path]) : n = Children[f.path][j]
      BY Zenon, <2>2 DEF Fields, ToSet
  <2>5. j < f.at
    <3>1. \A m \in Nat : \A a \in Nat : a > m => \A k \in 1..m : k < a
        OBVIOUS
    <3> QED
        BY Zenon, <3>1, <1>0, <1>1, <2>2
  <2> QED
      BY Zenon, <2>3, <2>4, <2>5, <1>1 DEF FrameOK
<1>2. CASE f.kind = "leaf" /\ f.at > Len(D.body[f.path])
  <2>1. f.path \in Leaves /\ D.body[f.path] \in Seq(Ops(f.path)) /\ f.path \notin Dicts
      BY Zenon, <1>2, ConstantsAssumption DEF FrameOK, Leaves
  <2>2. DOMAIN D.body[f.path] = 1..Len(D.body[f.path]) /\ Len(D.body[f.path]) \in Nat
      BY <2>1, LenProperties
  <2>3. PICK o \in ToSet(D.body[f.path]) : o.base # "native" /\ q = OpWants(f.path, o)
      BY Zenon, <2>1 DEF Wants
  <2>4. PICK j \in 1..Len(D.body[f.path]) : o = D.body[f.path][j]
      BY Zenon, <2>2 DEF ToSet
  <2>5. j < f.at
    <3>1. \A m \in Nat : \A a \in Nat : a > m => \A k \in 1..m : k < a
        OBVIOUS
    <3> QED
        BY Zenon, <3>1, <1>0, <1>2, <2>2
  <2> QED
      BY Zenon, <2>3, <2>4, <2>5, <1>2 DEF FrameOK
<1> QED
    BY Zenon, <1>1, <1>2

-----------------------------------------------------------------------------
(* Actions. *)

LEMMA BeginRunInv == ASSUME Inv, BeginRun PROVE Inv'
<1> DEFINE h == Frame("dict", 1, <<>>, 0, <<>>)
<1>1. h \in Frames /\ h.kind = "dict" /\ h.lvl = 1 /\ h.path = <<>> /\ h.at = 1
  <2>1. 1 \in Nat \ {0} /\ 0 \in Int
      OBVIOUS
  <2> QED
      BY Zenon, <2>1 DEF Frame, Frames
<1>2. stack' = <<h>> /\ thunks' = <<{}>>
    BY Zenon DEF BeginRun
<1> HIDE DEF h
<1>3. /\ <<h>> \in Seq(Frames) /\ Len(<<h>>) = 1 /\ <<h>>[1] = h /\ \A i \in 1..1 : i = 1
      /\ 1 \in 1..1
    BY <1>1
<1>4. <<{}>> \in Seq(SUBSET Grounded(doc)) /\ Len(<<{}>>) = 1
    OBVIOUS
<1>5. FrameOK(doc, h)
  <2>1. \A x : \A j \in 1..Len(x) : ~(j < 1)
      OBVIOUS
  <2> QED
      BY Zenon, <2>1, <1>1, ConstantsAssumption DEF FrameOK
<1>6. StackOK(doc, <<h>>)
  <2>1. \A i, j \in 1..1 : j # i + 1
      OBVIOUS
  <2> QED
      BY Zenon, <2>1, <1>1, <1>3, <1>5 DEF StackOK, Root
<1>7. Lvl(h) = 1
    BY Zenon, <1>1 DEF Lvl
<1>8. leaked = {} => Evaluating(<<h>>, evaluating_paths)
  <2> SUFFICES ASSUME leaked = {} PROVE Evaluating(<<h>>, evaluating_paths)
      BY Zenon
  <2>1. \A i \in 1..Len(<<>>) : FALSE
      OBVIOUS
  <2>2. stack = <<>> /\ Evaluating(stack, evaluating_paths)
      BY Zenon DEF Inv, BeginRun, Running
  <2>3. \A p : p \notin evaluating_paths
      BY Zenon, <2>1, <2>2 DEF Evaluating
  <2>4. ~ThunkFrame(h)
      BY Zenon, <1>1 DEF ThunkFrame
  <2> QED
      BY Zenon, <2>3, <2>4, <1>3 DEF Evaluating
<1>9. UNCHANGED <<doc, evaluating_paths, leaked>> /\ ret' = "none" /\ outcome' = "none"
      /\ path_cache' = {} /\ answered' = {}
    BY Zenon DEF BeginRun
<1>10. Types'
    BY Zenon, <1>2, <1>3, <1>4, <1>9 DEF Inv, Types, Rets
<1> QED
    BY Zenon, <1>2, <1>3, <1>4, <1>6, <1>7, <1>8, <1>9, <1>10 DEF Inv

LEMMA EvalFieldInv == ASSUME Inv, EvalField PROVE Inv'
<1> DEFINE f == Top
           p == Append(f.path, Children[f.path][f.at])
<1>1. Running /\ ret = "none" /\ f.kind = "dict" /\ f.at <= Len(Children[f.path])
      /\ ForceThunk(f.lvl, p, thunks[f.lvl], stack)
      /\ UNCHANGED <<doc, leaked, thunks, path_cache, outcome, answered>>
    BY Zenon DEF EvalField
<1>2. /\ doc \in Docs /\ stack \in Seq(Frames) /\ Len(stack) > 0 /\ f = stack[Len(stack)]
      /\ f \in Frames /\ FrameOK(doc, f) /\ StackOK(doc, stack)
      /\ thunks \in Seq(SUBSET Grounded(doc)) /\ Len(thunks) = Lvl(f) /\ Lvl(f) \in Nat \ {0}
    BY Zenon, <1>1, TopFacts
<1> HIDE DEF f
<1>3. Lvl(f) = f.lvl
    BY Zenon, <1>1 DEF Lvl
<1>4. f.path \in Dicts /\ f.at \in Nat \ {0} /\ Children[f.path] \in Seq(STRING)
    BY Zenon, <1>1, <1>2, ConstantsAssumption DEF FrameOK, Frames
<1>5. f.at \in 1..Len(Children[f.path])
    BY <1>1, <1>4, LenProperties
<1>6. p \in Paths /\ Awaits(doc, f, p)
    BY Zenon, <1>1, <1>4, <1>5, PathFacts DEF Awaits
<1>7. thunks[f.lvl] \in SUBSET Grounded(doc)
  <2>1. f.lvl \in 1..Len(thunks)
      BY <1>2, <1>3
  <2> QED
      BY <2>1, <1>2, ElementOfSeq
<1>8. leaked = {} => Evaluating(stack, evaluating_paths)
    BY Zenon DEF Inv
<1> DEFINE valued == thunks[f.lvl]
<1> HIDE DEF p, valued
<1>9. ForceThunk(f.lvl, p, valued, stack) /\ valued \in SUBSET Grounded(doc)
    BY Zenon, <1>1, <1>7 DEF valued
<1> QED
    BY Zenon, <1>1, <1>2, <1>3, <1>6, <1>8, <1>9, ForceInv

\* The operation a leaf is at.
LEMMA OpFacts ==
    ASSUME Inv, NEW bases, AtOp(bases)
    PROVE  /\ Running /\ ret = "none" /\ Top.kind = "leaf"
           /\ Top.path \in Leaves /\ Top.path \in Paths /\ Top.at \in 1..Len(doc.body[Top.path])
           /\ Op = doc.body[Top.path][Top.at] /\ Op.base \in bases
           /\ Lvl(Top) = Top.lvl
           /\ Op.base \in RefBases => Target(Top.path, Op) \in Paths
           /\ Op.path \in Seq(STRING)
           /\ Op.base # "native" => Awaits(doc, Top, OpWants(Top.path, Op))
<1> DEFINE f == Top
<1>1. /\ Running /\ ret = "none" /\ f.kind = "leaf" /\ f.at <= Len(doc.body[f.path])
      /\ Op.base \in bases /\ Op = doc.body[f.path][f.at]
    BY Zenon DEF AtOp, Op
<1>2. doc \in Docs /\ f \in Frames /\ FrameOK(doc, f)
    BY Zenon, <1>1, TopFacts
<1> HIDE DEF f
<1>3. f.path \in Leaves /\ f.at \in Nat \ {0} /\ f.path \in Paths
    BY Zenon, <1>1, <1>2 DEF FrameOK, Frames, Leaves
<1>4. doc.body[f.path] \in Seq(Ops(f.path))
    BY Zenon, <1>2, <1>3, ConstantsAssumption
<1>5. f.at \in 1..Len(doc.body[f.path])
    BY <1>1, <1>3, <1>4, LenProperties
<1>6. /\ Op.base \in RefBases => Target(f.path, Op) \in Paths
      /\ Op.path \in Seq(STRING)
  <2> DEFINE op == doc.body[f.path][f.at]
  <2>1. /\ op.base \in RefBases => Target(f.path, op) \in Paths
        /\ op.path \in Seq(STRING)
      BY Zenon, <1>2, <1>3, <1>5, OpTyped
  <2>2. Op = op
      BY Zenon, <1>1
  <2> HIDE DEF op
  <2> QED
      BY Zenon, <2>1, <2>2
<1>7. Op.base # "native" => Awaits(doc, f, OpWants(f.path, Op))
    BY Zenon, <1>1, <1>5 DEF Awaits
<1>8. Lvl(f) = f.lvl
    BY Zenon, <1>1 DEF Lvl
<1> QED
    BY Zenon, <1>1, <1>3, <1>5, <1>6, <1>7, <1>8 DEF f

LEMMA EvalVariableInv == ASSUME Inv, EvalVariable PROVE Inv'
<1> DEFINE f == Top
           p == Lexical(f.path, Op.path[1])
<1>1. AtOp({"var"})
    BY Zenon DEF EvalVariable
<1>2. /\ Running /\ ret = "none" /\ f.kind = "leaf" /\ f.path \in Paths /\ Op.base = "var"
      /\ Lvl(f) = f.lvl /\ Awaits(doc, f, OpWants(f.path, Op))
  <2>1. /\ Running /\ ret = "none" /\ f.kind = "leaf" /\ f.path \in Paths /\ Op.base \in {"var"}
        /\ Lvl(f) = f.lvl /\ (Op.base # "native" => Awaits(doc, f, OpWants(f.path, Op)))
      BY Zenon, <1>1, OpFacts
  <2> QED
      BY Zenon, <2>1
<1>3. p \in Paths \cup {<<>>} /\ Awaits(doc, f, p)
    BY Zenon, <1>2, LexicalTyped DEF OpWants
<1>4. UNCHANGED <<doc, leaked, thunks, path_cache, outcome, answered>>
    BY Zenon DEF EvalVariable
<1>5. /\ doc \in Docs /\ stack \in Seq(Frames) /\ Len(stack) > 0 /\ f = stack[Len(stack)]
      /\ f \in Frames /\ FrameOK(doc, f) /\ StackOK(doc, stack)
      /\ thunks \in Seq(SUBSET Grounded(doc)) /\ Len(thunks) = Lvl(f) /\ Lvl(f) \in Nat \ {0}
    BY Zenon, <1>2, TopFacts
<1>6. CASE p # <<>> /\ ForceThunk(f.lvl, p, thunks[f.lvl], stack)
  <2>1. p \in Paths /\ (leaked = {} => Evaluating(stack, evaluating_paths))
      BY Zenon, <1>3, <1>6 DEF Inv
  <2> DEFINE valued == thunks[f.lvl]
  <2> HIDE DEF f, p
  <2>2. valued \in SUBSET Grounded(doc)
    <3>1. f.lvl \in 1..Len(thunks)
        BY <1>2, <1>5
    <3> QED
        BY <3>1, <1>5, ElementOfSeq
  <2>3. ForceThunk(f.lvl, p, valued, stack)
      BY Zenon, <1>6
  <2> HIDE DEF valued
  <2> QED
      BY Zenon, <2>1, <2>2, <2>3, <1>2, <1>3, <1>4, <1>5, ForceInv
<1>7. CASE /\ p = <<>> /\ ret' = (IF ParamVisible(f.lvl) THEN "ok" ELSE "unbound")
           /\ UNCHANGED <<stack, evaluating_paths>>
  <2>1. Got(doc, Top)
      BY Zenon, <1>3, <1>7, PathFacts DEF Got
  <2>2. ret' \in Rets /\ ret' # "circular"
      BY Zenon, <1>7 DEF Rets, Errors
  <2>3. \A a \in answered' : Inside(doc, a)
      BY Zenon, <1>4 DEF Inv
  <2> QED
      BY Zenon, <2>1, <2>2, <2>3, <1>2, <1>4, <1>7, RetInv
<1> QED
    BY Zenon, <1>6, <1>7 DEF EvalVariable

LEMMA CallNativeInv == ASSUME Inv, CallNative PROVE Inv'
<1>1. AtOp({"native"})
    BY Zenon DEF CallNative
<1>2. /\ Running /\ Top.kind = "leaf" /\ Top.at \in 1..Len(doc.body[Top.path])
      /\ Op = doc.body[Top.path][Top.at] /\ Op.base \in {"native"}
    BY Zenon, <1>1, OpFacts
<1>9. doc.body[Top.path][Top.at].base = "native"
    BY Zenon, <1>2
<1>3. Got(doc, Top)
    BY Zenon, <1>2, <1>9 DEF Got
<1>4. ret' \in Rets /\ ret' # "circular"
    BY Zenon DEF CallNative, Rets, Errors
<1>5. \A a \in answered' : Inside(doc, a)
    BY Zenon DEF Inv, CallNative
<1>6. UNCHANGED <<doc, stack, thunks, path_cache, evaluating_paths, leaked, outcome>>
    BY Zenon DEF CallNative
<1> QED
    BY Zenon, <1>2, <1>3, <1>4, <1>5, <1>6, RetInv

LEMMA NativePanicsInv == ASSUME Inv, NativePanics PROVE Inv'
<1>1. /\ stack' = <<>> /\ ret' = "none" /\ thunks' = <<>> /\ outcome' = "panicked"
      /\ leaked' = evaluating_paths
      /\ UNCHANGED <<doc, path_cache, evaluating_paths, answered>>
    BY Zenon DEF NativePanics
<1>2. /\ <<>> \in Seq(Frames) /\ <<>> \in Seq(SUBSET Grounded(doc)) /\ ~(Len(<<>>) > 0)
      /\ \A i \in 1..Len(<<>>) : FALSE
    OBVIOUS
<1>3. Types'
    BY Zenon, <1>1, <1>2 DEF Inv, Types, Rets
<1>4. StackOK(doc, <<>>)
    BY Zenon, <1>2 DEF StackOK
<1>5. evaluating_paths = {} => Evaluating(<<>>, evaluating_paths)
    BY Zenon, <1>2 DEF Evaluating
<1> QED
    BY Zenon, <1>1, <1>2, <1>3, <1>4, <1>5 DEF Inv

\* The owning depth of a reference is a number.
LEMMA DepthTyped ==
    ASSUME NEW site \in Seq(STRING), NEW op, op.base \in RefBases PROVE OwningDepth(site, op) \in Int
<1>1. Up(site) \in Seq(STRING) /\ Up(Up(site)) \in Seq(STRING)
    BY Zenon, PrefixFacts
<1>2. Len(Up(site)) \in Int /\ Len(Up(Up(site))) \in Int /\ CrossDict \in Int
    BY <1>1, LenProperties DEF CrossDict
<1> QED
    BY Zenon, <1>2 DEF OwningDepth, RefBases

LEMMA ResolveReferenceInv == ASSUME Inv, ResolveReference PROVE Inv'
<1> DEFINE f      == Top
           op     == Op
           target == Target(f.path, op)
           depth  == OwningDepth(f.path, op)
           a      == <<f.path, op.base, target>>
<1>1. AtOp(RefBases)
    BY Zenon DEF ResolveReference
<1>2. /\ Running /\ ret = "none" /\ f.kind = "leaf" /\ f.path \in Paths
      /\ op = doc.body[f.path][f.at] /\ op.base \in RefBases /\ op.path \in Seq(STRING)
      /\ Lvl(f) = f.lvl /\ (op.base \in RefBases => target \in Paths)
      /\ (op.base # "native" => Awaits(doc, f, OpWants(f.path, op)))
    BY Zenon, <1>1, OpFacts
<1>3. /\ doc \in Docs /\ stack \in Seq(Frames) /\ Len(stack) > 0 /\ f = stack[Len(stack)]
      /\ f \in Frames /\ StackOK(doc, stack)
      /\ thunks \in Seq(SUBSET Grounded(doc)) /\ Len(thunks) = Lvl(f)
    BY Zenon, <1>2, TopFacts
<1>4. UNCHANGED <<doc, leaked, thunks, path_cache, evaluating_paths, outcome>>
    BY Zenon DEF ResolveReference
<1>5. \/ /\ <<depth, target>> \in path_cache /\ ret' = "ok"
         /\ answered' = answered \cup {a} /\ UNCHANGED stack
      \/ /\ stack' = Append(stack, Frame("walk", f.lvl, target, depth, f.path))
         /\ UNCHANGED <<ret, answered>>
    BY Zenon DEF ResolveReference
<1>6. f.path \in Seq(STRING)
    BY Zenon, <1>2, PathFacts
<1>7. depth \in Int
    BY Zenon, <1>2, <1>6, DepthTyped
<1>8. a[1] = f.path /\ a[2] = op.base /\ a[3] = target
    OBVIOUS
<1> HIDE DEF f, op
<1>9. target \in Paths /\ Awaits(doc, f, target)
  <2>1. op.base # "native" /\ op.base # "var"
      BY Zenon, <1>2 DEF RefBases
  <2> QED
      BY Zenon, <2>1, <1>2 DEF OpWants
<1>10. CASE /\ <<depth, target>> \in path_cache /\ ret' = "ok"
            /\ answered' = answered \cup {a} /\ UNCHANGED stack
  <2> DEFINE e == <<depth, target>>
  <2>1. e[1] = depth /\ e[2] = target
      OBVIOUS
  <2>2. Entry(doc, e)
      BY Zenon, <1>10 DEF Inv
  <2> HIDE DEF e
  <2>3. target \in Grounded(doc) /\ ~Hidden(doc, target, depth)
      BY Zenon, <2>1, <2>2 DEF Entry
  <2> HIDE DEF a
  <2>4. Inside(doc, a)
      BY Zenon, <2>3, <1>2, <1>6, <1>8, NotHidden
  <2>5. \A x \in answered' : Inside(doc, x)
      BY Zenon, <2>4, <1>10 DEF Inv
  <2>6. Got(doc, Top)
      BY Zenon, <2>3, <1>9 DEF Got, f
  <2>7. ret' \in Rets /\ ret' # "circular"
      BY Zenon, <1>10 DEF Rets
  <2> QED
      BY Zenon, <2>5, <2>6, <2>7, <1>2, <1>4, <1>10, RetInv
<1>11. CASE /\ stack' = Append(stack, Frame("walk", f.lvl, target, depth, f.path))
            /\ UNCHANGED <<ret, answered>>
  <2> DEFINE h == Frame("walk", f.lvl, target, depth, f.path)
  <2> HIDE DEF target, depth
  <2>1. /\ h \in Frames /\ h.kind = "walk" /\ h.lvl = f.lvl /\ h.path = target /\ h.depth = depth
        /\ h.site = f.path /\ h.at = 1
    <3>1. 1 \in Nat \ {0}
        OBVIOUS
    <3>2. f.lvl \in Nat \ {0}
        BY Zenon, <1>3 DEF Frames
    <3> QED
        BY Zenon, <3>1, <3>2, <1>2, <1>7, <1>9 DEF Frame, Frames
  <2>2. stack' = Append(stack, h)
      BY Zenon, <1>11
  <2> HIDE DEF h
  <2>3. FrameOK(doc, h)
      BY Zenon, <2>1, <1>9 DEF FrameOK
  <2>4. Link(doc, f, h)
    <3>1. depth = OwningDepth(f.path, doc.body[f.path][f.at]) /\ doc.body[f.path][f.at].base \in RefBases
        BY Zenon, <1>2 DEF depth
    <3> QED
        BY Zenon, <3>1, <2>1, <1>2, <1>9 DEF Link
  <2>5. Pushed(stack, h, stack') /\ StackOK(doc, stack')
      BY Zenon, <2>1, <2>2, <2>3, <2>4, <1>3, PushFacts
  <2>6. stack' \in Seq(Frames) /\ Len(stack') = Len(stack) + 1 /\ stack'[Len(stack')] = h
      BY Zenon, <2>5 DEF Pushed
  <2>7. Lvl(h) = f.lvl
    <3>1. 1 # 2
        OBVIOUS
    <3> QED
        BY Zenon, <3>1, <2>1 DEF Lvl
  <2>8. leaked = {} => Evaluating(stack', evaluating_paths)
    <3>1. ~ThunkFrame(h)
        BY Zenon, <2>1 DEF ThunkFrame
    <3> QED
        BY Zenon, <3>1, <2>5, <1>3, EvaluatingPush DEF Inv
  <2>9. Types'
      BY Zenon, <2>6, <1>4, <1>11 DEF Inv, Types
  <2> QED
      BY Zenon, <2>5, <2>6, <2>7, <2>8, <2>9, <1>2, <1>3, <1>4, <1>11 DEF Inv
<1> QED
    BY Zenon, <1>5, <1>10, <1>11

LEMMA WalkInv == ASSUME Inv, Walk PROVE Inv'
<1> DEFINE f == Top
           h == [f EXCEPT !.at = 2]
           below == [stack EXCEPT ![Len(stack)] = h]
<1>1. /\ Running /\ ret = "none" /\ f.kind = "walk" /\ f.at = 1
      /\ UNCHANGED <<doc, leaked, path_cache, outcome, answered>>
    BY Zenon DEF Walk
<1>2. /\ doc \in Docs /\ stack \in Seq(Frames) /\ Len(stack) > 0 /\ f = stack[Len(stack)]
      /\ Len(stack) \in 1..Len(stack)
      /\ f \in Frames /\ FrameOK(doc, f) /\ StackOK(doc, stack)
      /\ thunks \in Seq(SUBSET Grounded(doc)) /\ Len(thunks) = Lvl(f) /\ Lvl(f) \in Nat \ {0}
    BY Zenon, <1>1, TopFacts
<1>3. CASE Blocked(f.path, f.depth) /\ ret' = "hidden" /\ UNCHANGED <<stack, thunks, evaluating_paths>>
  <2>1. ret' \in Rets /\ ret' # "circular" /\ ret' # "ok"
      BY Zenon, <1>3 DEF Rets, Errors
  <2>2. \A a \in answered' : Inside(doc, a)
      BY Zenon, <1>1 DEF Inv
  <2> QED
      BY Zenon, <2>1, <2>2, <1>1, <1>3, RetInv
<1>4. CASE /\ ~Blocked(f.path, f.depth) /\ thunks' = Append(thunks, {})
           /\ ForceThunk(f.lvl + 1, f.path, {}, [stack EXCEPT ![Len(stack)].at = 2])
  <2>1. ~Hidden(doc, f.path, f.depth)
      BY Zenon, <1>4 DEF Hidden, Blocked
  <2>2. ForceThunk(f.lvl + 1, f.path, {}, below)
    <3>1. [stack EXCEPT ![Len(stack)].at = 2] = below
        BY Zenon, <1>2
    <3> QED
        BY Zenon, <3>1, <1>4
  <2> HIDE DEF f
  <2>3. /\ Moved(f, h) /\ h \in Frames /\ h.kind = "walk" /\ h.at = 2 /\ h.path = f.path
        /\ h.lvl = f.lvl /\ h.depth = f.depth
    <3>1. 2 \in Nat \ {0}
        OBVIOUS
    <3> QED
        BY Zenon, <3>1, <1>1, <1>2 DEF Frames, Moved
  <2>4. below = [stack EXCEPT ![Len(stack)] = h]
      OBVIOUS
  <2> HIDE DEF h, below
  <2>5. f.path \in Paths
      BY Zenon, <1>1, <1>2 DEF FrameOK
  <2>6. FrameOK(doc, h)
      BY Zenon, <2>1, <2>3, <2>5 DEF FrameOK
  <2>7. Retopped(stack, h, below) /\ StackOK(doc, below)
      BY Zenon, <2>3, <2>4, <2>6, <1>2, RetopFacts
  <2>8. below \in Seq(Frames) /\ Len(below) > 0 /\ below[Len(below)] = h
      BY Zenon, <2>7, <1>2 DEF Retopped
  <2>9. Awaits(doc, h, f.path)
      BY Zenon, <2>3 DEF Awaits
  <2>10. f.lvl \in Nat \ {0} /\ Lvl(f) = f.lvl
    <3>1. 1 # 2
        OBVIOUS
    <3> QED
        BY Zenon, <3>1, <1>1, <1>2 DEF Lvl, Frames
  <2> DEFINE lvl == f.lvl + 1
             none == {}
  <2>11. lvl \in Nat \ {0} /\ none \in SUBSET Grounded(doc)
      BY <2>10
  <2>12. lvl = Lvl(h)
      BY Zenon, <2>3 DEF Lvl
  <2>13. thunks' \in Seq(SUBSET Grounded(doc)) /\ Len(thunks') = lvl
    <3>1. /\ Append(thunks, none) \in Seq(SUBSET Grounded(doc))
          /\ Len(Append(thunks, none)) = Len(thunks) + 1
        BY <2>11, <1>2, AppendProperties
    <3> QED
        BY Zenon, <3>1, <2>10, <1>2, <1>4
  <2>14. leaked = {} => Evaluating(below, evaluating_paths)
      BY Zenon, <2>3, <2>7, <1>2, EvaluatingRetop DEF Inv
  <2>15. ForceThunk(lvl, f.path, none, below)
      BY Zenon, <2>2
  <2> HIDE DEF lvl, none
  <2> QED
      BY Zenon, <2>3, <2>5, <2>7, <2>8, <2>9, <2>11, <2>12, <2>13, <2>14, <2>15, <1>1, ForceInv
<1> QED
    BY Zenon, <1>3, <1>4 DEF Walk

LEMMA FinishInv == ASSUME Inv, Finish PROVE Inv'
<1> DEFINE f == Top
<1>1. /\ Running /\ ret = "none" /\ stack' = Front(stack)
      /\ \/ f.kind = "dict" /\ f.at > Len(Children[f.path])
         \/ f.kind = "leaf" /\ f.at > Len(doc.body[f.path])
      /\ evaluating_paths' = evaluating_paths \ {f.path}
      /\ UNCHANGED <<doc, leaked, path_cache, answered>>
    BY Zenon DEF Finish, Done
<1>2. /\ doc \in Docs /\ stack \in Seq(Frames) /\ Len(stack) > 0 /\ f = stack[Len(stack)]
      /\ f \in Frames /\ FrameOK(doc, f) /\ StackOK(doc, stack)
      /\ thunks \in Seq(SUBSET Grounded(doc)) /\ Len(thunks) = Lvl(f) /\ Lvl(f) \in Nat \ {0}
    BY Zenon, <1>1, TopFacts
<1>3. Wants(doc, f.path) \cap Paths \subseteq Grounded(doc)
    BY Zenon, <1>1, <1>2, DoneGrounded
<1>4. f.path = <<>> <=> Len(stack) = 1
    BY Zenon, <1>1, RootTop
<1>5. leaked = {} => evaluating_paths' = IF ThunkFrame(f) THEN evaluating_paths \ {f.path}
                                         ELSE evaluating_paths
  <2> SUFFICES ASSUME leaked = {}, ~ThunkFrame(f) PROVE evaluating_paths' = evaluating_paths
      BY Zenon, <1>1
  <2>1. f.path = <<>>
      BY Zenon, <1>1 DEF ThunkFrame
  <2>2. <<>> \notin evaluating_paths
    <3>1. Evaluating(stack, evaluating_paths)
        BY Zenon DEF Inv
    <3>2. Popped(stack, stack')
        BY Zenon, <1>1, <1>2, PopFacts
    <3> QED
        BY Zenon, <3>1, <3>2, <1>2, EvaluatingPop
  <2> QED
      BY Zenon, <2>1, <2>2, <1>1
<1>6. /\ \A e \in path_cache' : Entry(doc, e)
      /\ \A a \in answered' : Inside(doc, a)
    BY Zenon, <1>1 DEF Inv
<1>7. CASE f.path = <<>> /\ outcome' = "value" /\ ret' = "none" /\ thunks' = <<>>
  <2>1. \A n \in Fields(<<>>) : Append(<<>>, n) \in Grounded(doc)
    <3>1. <<>> \in Dicts
        BY Zenon, ConstantsAssumption
    <3>2. \A n \in Fields(<<>>) : Append(<<>>, n) \in Wants(doc, <<>>) /\ Append(<<>>, n) \in Paths
        BY Zenon, <3>1, PathFacts DEF Wants
    <3> QED
        BY Zenon, <3>2, <1>3, <1>7
  <2>2. ~Circular(doc)
      BY Zenon, <2>1, RootGrounded
  <2>3. thunks' \in Seq(SUBSET Grounded(doc))
    <3>1. <<>> \in Seq(SUBSET Grounded(doc))
        OBVIOUS
    <3> QED
        BY Zenon, <3>1, <1>7
  <2>4. ret' \in Rets /\ ret' # "ok" /\ ret' # "circular" /\ outcome' # "circular"
      BY Zenon, <1>7 DEF Rets
  <2> QED
      BY Zenon, <2>2, <2>3, <2>4, <1>1, <1>4, <1>5, <1>6, <1>7, PopInv DEF f
<1>8. CASE /\ f.path # <<>> /\ thunks' = [thunks EXCEPT ![f.lvl] = @ \cup {f.path}]
           /\ ret' = "ok" /\ UNCHANGED outcome
  <2>1. f.path \in Paths /\ Lvl(f) = f.lvl
      BY Zenon, <1>1, <1>2, <1>8 DEF Frames, Lvl
  <2>2. f.path \in Grounded(doc)
      BY Zenon, <2>1, <1>3, GroundedFacts
  <2>3. thunks' \in Seq(SUBSET Grounded(doc)) /\ Len(thunks') = f.lvl
    <3> DEFINE v == thunks[f.lvl] \cup {f.path}
    <3> HIDE DEF f
    <3>1. f.lvl \in 1..Len(thunks)
        BY <2>1, <1>2
    <3>2. thunks[f.lvl] \in SUBSET Grounded(doc)
        BY <3>1, <1>2, ElementOfSeq
    <3>3. v \in SUBSET Grounded(doc)
        BY Zenon, <3>2, <2>2
    <3>4. thunks' = [thunks EXCEPT ![f.lvl] = v]
        BY Zenon, <1>8
    <3> HIDE DEF v
    <3>5. /\ [thunks EXCEPT ![f.lvl] = v] \in Seq(SUBSET Grounded(doc))
          /\ Len([thunks EXCEPT ![f.lvl] = v]) = Len(thunks)
        BY <3>1, <3>3, <1>2, ExceptSeq
    <3> QED
        BY Zenon, <3>4, <3>5, <2>1, <1>2
  <2>4. /\ outcome' = "value" => ~Circular(doc)
        /\ outcome' = "circular" => Circular(doc) \/ leaked # {}
        /\ ret' \in Rets /\ ret' # "circular"
      BY Zenon, <1>8 DEF Inv, Rets
  <2> QED
      BY Zenon, <2>2, <2>3, <2>4, <1>1, <1>5, <1>6, <1>8, PopInv DEF f
<1> QED
    BY Zenon, <1>7, <1>8 DEF Finish

LEMMA ContinueInv == ASSUME Inv, Continue PROVE Inv'
<1> DEFINE f == Top
           h == [f EXCEPT !.at = f.at + 1]
<1>1. /\ Running /\ ret = "ok" /\ f.kind # "walk" /\ ret' = "none"
      /\ stack' = [stack EXCEPT ![Len(stack)].at = @ + 1]
      /\ UNCHANGED <<doc, leaked, thunks, path_cache, evaluating_paths, outcome, answered>>
    BY Zenon DEF Continue
<1>2. /\ doc \in Docs /\ stack \in Seq(Frames) /\ Len(stack) > 0 /\ f = stack[Len(stack)]
      /\ f \in Frames /\ FrameOK(doc, f) /\ StackOK(doc, stack) /\ Got(doc, f)
      /\ Len(thunks) = Lvl(f)
    BY Zenon, <1>1, TopFacts
<1>3. stack' = [stack EXCEPT ![Len(stack)] = h]
    BY Zenon, <1>1, <1>2
<1> HIDE DEF f
<1>4. f.at \in Nat \ {0} /\ f.kind \in {"dict", "leaf", "walk"}
    BY Zenon, <1>2 DEF Frames
<1> DEFINE at == f.at + 1
<1>5. at \in Nat \ {0} /\ \A j \in Nat : j < at => j < f.at \/ j = f.at
    BY <1>4
<1>6. Moved(f, h) /\ h \in Frames /\ h.kind = f.kind /\ h.at = at /\ h.path = f.path /\ h.lvl = f.lvl
  <2> HIDE DEF at
  <2>1. h = [f EXCEPT !.at = at]
      BY Zenon DEF at
  <2> HIDE DEF h
  <2> QED
      BY Zenon, <2>1, <1>2, <1>5 DEF Frames, Moved
<1> HIDE DEF h, at
<1>7. \A x : \A j \in 1..Len(x) : j < at => j < f.at \/ j = f.at
  <2>1. \A x : \A j \in 1..Len(x) : j \in Nat
      OBVIOUS
  <2> QED
      BY Zenon, <2>1, <1>5
<1>8. FrameOK(doc, h)
  <2>1. CASE f.kind = "dict"
    <3>1. f.path \in Dicts
        BY Zenon, <2>1, <1>2 DEF FrameOK
    <3>2. /\ f.at \in 1..Len(Children[f.path])
          /\ Append(f.path, Children[f.path][f.at]) \in Grounded(doc)
        BY Zenon, <3>1, <2>1, <1>2, PathFacts DEF Got, Awaits
    <3>3. ASSUME NEW j \in 1..Len(Children[f.path]), j < at
          PROVE  Append(f.path, Children[f.path][j]) \in Grounded(doc)
      <4>1. CASE j < f.at
          BY Zenon, <4>1, <2>1, <1>2 DEF FrameOK
      <4>2. CASE j = f.at
          BY Zenon, <4>2, <3>2
      <4> QED
          BY Zenon, <3>3, <4>1, <4>2, <1>7
    <3> QED
        BY Zenon, <3>1, <3>3, <2>1, <1>6 DEF FrameOK
  <2>2. CASE f.kind = "leaf"
    <3>1. f.path \in Leaves
        BY Zenon, <2>2, <1>2 DEF FrameOK
    <3>2. \/ doc.body[f.path][f.at].base = "native"
          \/ OpWants(f.path, doc.body[f.path][f.at]) \in Paths
             => OpWants(f.path, doc.body[f.path][f.at]) \in Grounded(doc)
        BY Zenon, <2>2, <1>2 DEF Got, Awaits
    <3>3. ASSUME NEW j \in 1..Len(doc.body[f.path]), j < at, doc.body[f.path][j].base # "native",
                 OpWants(f.path, doc.body[f.path][j]) \in Paths
          PROVE  OpWants(f.path, doc.body[f.path][j]) \in Grounded(doc)
      <4>1. CASE j < f.at
          BY Zenon, <4>1, <3>3, <2>2, <1>2 DEF FrameOK
      <4>2. CASE j = f.at
          BY Zenon, <4>2, <3>2, <3>3
      <4> QED
          BY Zenon, <3>3, <4>1, <4>2, <1>7
    <3> QED
        BY Zenon, <3>1, <3>3, <2>2, <1>6 DEF FrameOK
  <2> QED
      BY Zenon, <2>1, <2>2, <1>1, <1>4
<1>9. Retopped(stack, h, stack') /\ StackOK(doc, stack')
    BY Zenon, <1>2, <1>3, <1>6, <1>8, RetopFacts
<1>10. stack' \in Seq(Frames) /\ Len(stack') = Len(stack) /\ stack'[Len(stack')] = h
    BY Zenon, <1>9 DEF Retopped
<1>11. Lvl(h) = Lvl(f)
    BY Zenon, <1>1, <1>6 DEF Lvl
<1>12. leaked = {} => Evaluating(stack', evaluating_paths)
    BY Zenon, <1>2, <1>6, <1>9, EvaluatingRetop DEF Inv
<1>13. Types'
    BY Zenon, <1>1, <1>10 DEF Inv, Types, Rets
<1> QED
    BY Zenon, <1>1, <1>2, <1>9, <1>10, <1>11, <1>12, <1>13 DEF Inv

LEMMA AnswerInv == ASSUME Inv, Answer PROVE Inv'
<1> DEFINE f == Top
           g == stack[Len(stack) - 1]
           e == <<f.depth, f.path>>
           a == <<f.site, doc.body[f.site][g.at].base, f.path>>
<1>1. /\ Running /\ ret = "ok" /\ f.kind = "walk" /\ stack' = Front(stack) /\ thunks' = Front(thunks)
      /\ path_cache' = path_cache \cup {e} /\ answered' = answered \cup {a}
      /\ UNCHANGED <<doc, leaked, ret, evaluating_paths, outcome>>
    BY Zenon DEF Answer
<1>2. /\ doc \in Docs /\ stack \in Seq(Frames) /\ Len(stack) > 0 /\ f = stack[Len(stack)]
      /\ f \in Frames /\ FrameOK(doc, f) /\ StackOK(doc, stack) /\ Got(doc, f)
      /\ thunks \in Seq(SUBSET Grounded(doc)) /\ Len(thunks) = Lvl(f) /\ Lvl(f) \in Nat \ {0}
    BY Zenon, <1>1, TopFacts
<1>3. f.path = <<>> <=> Len(stack) = 1
    BY Zenon, <1>1, RootTop
<1>4. e[1] = f.depth /\ e[2] = f.path
    OBVIOUS
<1>5. a[1] = f.site /\ a[2] = doc.body[f.site][g.at].base /\ a[3] = f.path
    OBVIOUS
<1>6. f.path \in Paths /\ f.at = 2 /\ f.path \in Grounded(doc) /\ ~Hidden(doc, f.path, f.depth)
  <2> HIDE DEF f
  <2>1. f.path \in Paths
      BY Zenon, <1>1, <1>2 DEF FrameOK
  <2>2. f.at = 2 /\ f.path \in Grounded(doc)
      BY Zenon, <2>1, <1>1, <1>2 DEF Got, Awaits
  <2>3. f.at # 1
      BY <2>2
  <2> QED
      BY Zenon, <2>1, <2>2, <2>3, <1>1, <1>2 DEF FrameOK
<1>7. Len(stack) # 1
    BY Zenon, <1>3, <1>6, PathFacts
<1>8. Link(doc, g, f) /\ g \in Frames /\ FrameOK(doc, g)
    BY Zenon, <1>1, <1>2, <1>7, PopFacts
<1>9. Entry(doc, e)
    BY Zenon, <1>4, <1>6 DEF Entry
<1>10. Inside(doc, a)
  <2> DEFINE op == doc.body[g.path][g.at]
  <2> HIDE DEF f, g
  <2>1. g.kind = "leaf" /\ op.base \in RefBases /\ f.site = g.path /\ f.depth = OwningDepth(g.path, op)
      BY Zenon, <1>1, <1>8 DEF Link
  <2>2. g.path \in Leaves /\ g.at \in 1..Len(doc.body[g.path]) /\ f.path = OpWants(g.path, op)
      BY Zenon, <2>1, <1>8 DEF Link, Awaits, FrameOK
  <2>3. op.path \in Seq(STRING)
      BY Zenon, <2>2, <1>2, OpTyped
  <2>4. g.path \in Seq(STRING)
      BY Zenon, <2>2, PathFacts DEF Leaves
  <2>5. f.path = Target(g.path, op)
    <3>1. op.base # "var"
        BY Zenon, <2>1 DEF RefBases
    <3> QED
        BY Zenon, <3>1, <2>2 DEF OpWants
  <2>6. a[1] = g.path /\ a[2] = op.base /\ a[3] = Target(g.path, op)
      BY Zenon, <2>1, <2>5, <1>5
  <2>7. ~Hidden(doc, Target(g.path, op), OwningDepth(g.path, op))
      BY Zenon, <2>1, <2>5, <1>6
  <2> HIDE DEF a, op
  <2> QED
      BY Zenon, <2>1, <2>3, <2>4, <2>6, <2>7, NotHidden
<1> HIDE DEF a, e, g
<1>11. /\ \A x \in path_cache' : Entry(doc, x)
       /\ \A x \in answered' : Inside(doc, x)
    BY Zenon, <1>1, <1>9, <1>10 DEF Inv
<1>12. thunks' \in Seq(SUBSET Grounded(doc)) /\ Len(thunks') = f.lvl
  <2> HIDE DEF f
  <2>1. f.lvl \in Nat /\ Lvl(f) = f.lvl + 1
      BY Zenon, <1>1, <1>2, <1>6 DEF Lvl, Frames
  <2>2. Len(thunks) > 0 /\ Len(thunks) - 1 = f.lvl
      BY <2>1, <1>2
  <2>3. Front(thunks) \in Seq(SUBSET Grounded(doc)) /\ Len(Front(thunks)) = Len(thunks) - 1
      BY Zenon, <2>2, <1>2, FrontFacts
  <2> QED
      BY Zenon, <2>2, <2>3, <1>1
<1>13. leaked = {} => evaluating_paths' = IF ThunkFrame(f) THEN evaluating_paths \ {f.path}
                                          ELSE evaluating_paths
    BY Zenon, <1>1 DEF ThunkFrame
<1>14. /\ outcome' = "value" => ~Circular(doc)
       /\ outcome' = "circular" => Circular(doc) \/ leaked # {}
       /\ ret' \in Rets /\ ret' # "circular"
    BY Zenon, <1>1 DEF Inv, Rets
<1> QED
    BY Zenon, <1>1, <1>6, <1>11, <1>12, <1>13, <1>14, PopInv DEF f

LEMMA PropagateInv == ASSUME Inv, Propagate PROVE Inv'
<1> DEFINE f == Top
<1>1. /\ Running /\ ret \in Errors /\ stack' = Front(stack)
      /\ evaluating_paths' = IF ThunkFrame(f) THEN evaluating_paths \ {f.path} ELSE evaluating_paths
      /\ thunks' = IF f.kind = "walk" /\ f.at = 2 THEN Front(thunks) ELSE thunks
      /\ UNCHANGED <<doc, leaked, path_cache, answered>>
      /\ IF Len(stack) = 1 THEN outcome' = ret /\ ret' = "none" ELSE UNCHANGED <<outcome, ret>>
    BY Zenon DEF Propagate
<1>2. /\ f \in Frames /\ thunks \in Seq(SUBSET Grounded(doc))
      /\ Len(thunks) = Lvl(f) /\ Lvl(f) \in Nat \ {0}
    BY Zenon, <1>1, TopFacts
<1>3. /\ \A e \in path_cache' : Entry(doc, e)
      /\ \A a \in answered' : Inside(doc, a)
    BY Zenon, <1>1 DEF Inv
<1>4. thunks' \in Seq(SUBSET Grounded(doc)) /\ Len(thunks') = f.lvl
  <2> HIDE DEF f
  <2>1. CASE f.kind = "walk" /\ f.at = 2
    <3>1. f.lvl \in Nat /\ Lvl(f) = f.lvl + 1
        BY Zenon, <2>1, <1>2 DEF Lvl, Frames
    <3>2. Len(thunks) > 0 /\ Len(thunks) - 1 = f.lvl
        BY <3>1, <1>2
    <3>3. Front(thunks) \in Seq(SUBSET Grounded(doc)) /\ Len(Front(thunks)) = Len(thunks) - 1
        BY Zenon, <3>2, <1>2, FrontFacts
    <3> QED
        BY Zenon, <3>2, <3>3, <2>1, <1>1
  <2>2. CASE ~(f.kind = "walk" /\ f.at = 2)
      BY Zenon, <2>2, <1>1, <1>2 DEF Lvl
  <2> QED
      BY Zenon, <2>1, <2>2
<1>5. /\ ret' \in Rets /\ ret' # "ok"
      /\ ret' = "circular" \/ outcome' = "circular" => Circular(doc) \/ leaked # {}
      /\ outcome' = "value" => ~Circular(doc)
  <2>1. ret # "ok" /\ ret # "value" /\ ret \in Rets
      BY Zenon, <1>1 DEF Errors, Rets
  <2>2. CASE Len(stack) = 1 /\ outcome' = ret /\ ret' = "none"
      BY Zenon, <2>1, <2>2 DEF Inv, Rets
  <2>3. CASE UNCHANGED <<outcome, ret>>
      BY Zenon, <2>1, <2>3 DEF Inv
  <2> QED
      BY Zenon, <2>2, <2>3, <1>1
<1> QED
    BY Zenon, <1>1, <1>3, <1>4, <1>5, PopInv DEF f

-----------------------------------------------------------------------------
LEMMA InitInv == Init => Inv
<1> SUFFICES ASSUME Init PROVE Inv
    OBVIOUS
<1>1. /\ <<>> \in Seq(Frames) /\ <<>> \in Seq(SUBSET Grounded(doc)) /\ ~(Len(<<>>) > 0)
      /\ \A i \in 1..Len(<<>>) : FALSE
    OBVIOUS
<1>2. Types
    BY Zenon, <1>1 DEF Init, Types, Rets
<1>3. StackOK(doc, <<>>) /\ Evaluating(<<>>, {})
    BY Zenon, <1>1 DEF StackOK, Evaluating
<1> QED
    BY Zenon, <1>1, <1>2, <1>3 DEF Init, Inv

LEMMA StepInv == Inv /\ [Next]_vars => Inv'
<1> SUFFICES ASSUME Inv, [Next]_vars PROVE Inv'
    OBVIOUS
<1>1. CASE UNCHANGED vars
    BY Zenon, <1>1 DEF vars, Inv, Types
<1>2. CASE Step
    BY Zenon, <1>2, EvalFieldInv, EvalVariableInv, CallNativeInv, ResolveReferenceInv, WalkInv,
       FinishInv, ContinueInv, AnswerInv, PropagateInv DEF Step
<1> QED
    BY Zenon, <1>1, <1>2, BeginRunInv, NativePanicsInv DEF Next

LEMMA AlwaysInv == Spec => []Inv
BY InitInv, StepInv, PTL DEF Spec

\* Circular is what the properties call Cyclic.
LEMMA SameCycles == Cyclic <=> Circular(doc)
<1>1. \A p : Demands(p) = Wants(doc, p)
    BY Zenon DEF Demands, Wants, OpWants
<1> QED
    BY Zenon, <1>1 DEF Cyclic, Circular

\* A run that returns a value has evaluated a document without a cycle, whatever
\* thunks, levels and cached references it went by (force_thunk,
\* resolve_reference and eval_reference_path in reference.rs).
THEOREM NoCycleHasAValue == Spec => []NoMissedCycle
<1>1. Inv => NoMissedCycle
    BY Zenon, SameCycles DEF Inv, NoMissedCycle
<1> QED
    BY <1>1, AlwaysInv, PTL

\* force_thunk reports a cycle only where the document has one, as long as no
\* panic of a native function left paths in evaluating_paths.
THEOREM CyclesAreReal == Spec => []NoFalseCycle
<1>1. Inv => NoFalseCycle
    BY Zenon, SameCycles DEF Inv, NoFalseCycle
<1> QED
    BY <1>1, AlwaysInv, PTL

\* No reference gets past the #internal fields of a dict it is not in, neither
\* by the walk of eval_reference_path nor by a hit in path_cache.
THEOREM InternalFieldsStay == Spec => []InternalStaysInside
<1>1. Inv => InternalStaysInside
    BY Zenon DEF Inv, Inside, InternalStaysInside
<1> QED
    BY <1>1, AlwaysInv, PTL
=============================================================================
