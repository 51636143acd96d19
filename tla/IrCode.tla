------------------------------- MODULE IrCode -------------------------------
(***************************************************************************)
(* The intermediate representation the bundled library bodies are written  *)
(* in (relon-ir/src/ir.rs).  A body is a list of operations on an operand  *)
(* stack; here it is a sequence of statements over expressions, the form   *)
(* the operand stack has between two writes, so `LetGet a; LetGet b; Add;  *)
(* LetSet c' is c := (a ++ b).  Control is structured as in the source:    *)
(* Block, Loop, If, and Br and BrIf that name a label by its depth.        *)
(*                                                                         *)
(* Integers of 32 bits (lengths, bytes, addresses, code points) stay far   *)
(* from their width.  Integers of 64 bits are those of MinInt .. MaxInt    *)
(* and trap on overflow.  A float is an integer, NaN or NegZero; beyond    *)
(* ExactInt only every other integer is a float.                           *)
(***************************************************************************)
EXTENDS UnicodeTables

CONSTANTS MaxInt,    \* i64::MAX
          ExactInt   \* 2^53

ASSUME IntAssumption == MaxInt \in Nat /\ ExactInt \in 1 .. MaxInt /\ MaxInt <= 2 * ExactInt

MinInt == -MaxInt - 1

NaN == 900001
NegZero == 900002
Inexact == 900003   \* a quotient that is no integer

(* What an operation leaves instead of a value when it traps, or when it   *)
(* reads memory nobody wrote.                                              *)
Wild == 1000000001
Overflow == 1000000002
DivByZero == 1000000003
Aborted == 1000000004   \* llvm.trap: the process ends
IsFault(v) == v > 1000000000

-----------------------------------------------------------------------------
(* Expressions. *)
K(n) == [op |-> "K", n |-> n]
KText(n, text) == [op |-> "K", n |-> n, text |-> text]   \* the address of a literal
Arg(n) == [op |-> "arg", n |-> n]
Let(x) == [op |-> "let", x |-> x]
Bin(o, a, b) == [op |-> o, a |-> a, b |-> b]

a ++ b == Bin("add", a, b)          \* 32 bits: addresses, counts, bytes
a -- b == Bin("sub", a, b)
a ** b == Bin("mul", a, b)
a // b == Bin("div", a, b)
a %% b == Bin("rem", a, b)
a && b == Bin("and", a, b)
a \oplus b == Bin("add64", a, b)    \* 64 bits, trapping
a \ominus b == Bin("sub64", a, b)
a \prec b == Bin("lt", a, b)
a \preceq b == Bin("le", a, b)
a \succ b == Bin("lt", b, a)
a \succeq b == Bin("le", b, a)
a \doteq b == Bin("eq", a, b)
a ## b == Bin("ne", a, b)
Mul64(a, b) == Bin("mul64", a, b)
Div64(a, b) == Bin("div64", a, b)
Mod64(a, b) == Bin("rem64", a, b)
LeF(a, b) == Bin("lef", a, b)
EqF(a, b) == Bin("eqf", a, b)
ToF64(a) == Bin("tof64", a, a)
ToI64Sat(a) == Bin("toi64", a, a)
AbsF(a) == Bin("absf", a, a)
SqrtF(a) == Bin("sqrtf", a, a)
Ld8(a) == [op |-> "ld", a |-> a, w |-> 1]
Ld32(a) == [op |-> "ld", a |-> a, w |-> 4]
Ld64(a) == [op |-> "ld", a |-> a, w |-> 8]
Cond(c, a, b) == [op |-> "cond", c |-> c, a |-> a, b |-> b]

Not(a) == a \doteq K(0)
Up4(a) == (a ++ K(3)) && K(-4)
Up8(a) == (a ++ K(7)) && K(-8)

-----------------------------------------------------------------------------
(* Statements; es are the operands. *)
x := e == [st |-> "set", x |-> x.x, es |-> <<e>>]
Store(w, a, e) == [st |-> "store", w |-> w, es |-> <<a, e>>]
St8(a, e) == Store(1, a, e)
St32(a, e) == Store(4, a, e)
St64(a, e) == Store(8, a, e)
Memcpy(dst, src, n) == [st |-> "memcpy", es |-> <<dst, src, n>>]
AllocScratchDyn(x, size) == [st |-> "alloc", x |-> x.x, es |-> <<size>>]
Trap(kind) == [st |-> "trap", kind |-> kind, es |-> <<>>]
Return(e) == [st |-> "ret", es |-> <<e>>]
Call(x, f, args) == [st |-> "call", x |-> x.x, f |-> f, es |-> args, known |-> <<>>]
CallClosure(x, c, args) == [st |-> "closure", x |-> x.x, es |-> <<c>> \o args]
Block(body) == [st |-> "block", es |-> <<>>, arms |-> <<body>>]
Loop(body) == [st |-> "loop", es |-> <<>>, arms |-> <<body>>]
If(c, then, else) == [st |-> "if", es |-> <<c>>, arms |-> <<then, else>>]
Br(d) == [st |-> "br", es |-> <<>>, d |-> d]
BrIf(c, d) == [st |-> "brif", es |-> <<c>>, d |-> d]

When(c, then) == If(c, then, <<>>)

(* Block { Loop { BrIf(exit, 1); body; Br(0) } }, the shape of every loop. *)
Until(exit, body) == Block(<<Loop(<<BrIf(exit, 1)>> \o body \o <<Br(0)>>)>>)

-----------------------------------------------------------------------------
(* Places in a body.  A place is a path: the index of a statement, and,   *)
(* inside that statement, the arm and the index of a statement there.      *)
RECURSIVE At(_, _)
At(body, pc) ==
  IF Len(pc) = 1 THEN body[pc[1]]
  ELSE At(body[pc[1]].arms[pc[2]], SubSeq(pc, 3, Len(pc)))

Behind(pc) == [pc EXCEPT ![Len(pc)] = @ + 1]

Around(pc) == SubSeq(pc, 1, Len(pc) - 2)

IsEnd(body, pc) ==
  Len(pc) > 1 /\ pc[Len(pc)] > Len(At(body, Around(pc)).arms[pc[Len(pc) - 1]])

(* The statement that runs next at a place: a Block and a Loop are entered *)
(* and what ends falls out of its Block, Loop or If.                       *)
RECURSIVE Settled(_, _)
Settled(body, pc) ==
  CASE IsEnd(body, pc) -> Settled(body, Behind(Around(pc)))
    [] ~IsEnd(body, pc) /\ At(body, pc).st \in {"block", "loop"} -> Settled(body, pc \o <<1, 1>>)
    [] OTHER -> pc

(* Where a branch goes.  A Block, a Loop and an If each are a label; the   *)
(* label of a Loop is its start, that of a Block or an If is its end.      *)
Label(pc, d) == SubSeq(pc, 1, Len(pc) - 2 * (d + 1))

IsLoopLabel(body, pc, d) == At(body, Label(pc, d)).st = "loop"

LabelOf(body, pc, d) ==
  IF IsLoopLabel(body, pc, d) THEN Label(pc, d) \o <<1, 1>> ELSE Behind(Label(pc, d))

-----------------------------------------------------------------------------
(* Memory: the bytes of the arena from offset 0.  A byte is Stale while    *)
(* nobody has written it since the dispatch began.                         *)
Stale == -1

Blank(n, byte) == IF n <= 0 THEN <<>> ELSE [k \in 1 .. n |-> byte]

(* The little-endian bytes of a number. *)
Le32(n) == <<n % 256, (n \div 256) % 256, (n \div 65536) % 256, (n \div 16777216) % 256>>

Le(w, n) ==
  CASE w = 1 -> <<n % 256>>
    [] w = 4 -> Le32(n)
    [] w = 8 -> Le32(n) \o Blank(4, IF n < 0 THEN 255 ELSE 0)

(* The number of some bytes.  Every number that the models write is small; *)
(* bytes that are no such number are a number too large for all of them.   *)
Huge == 101000000

FromLe(b) ==
  LET low == b[1] + 256 * b[2] + 65536 * b[3]
      high == {b[k] : k \in 4 .. Len(b)}
  IN CASE Len(b) = 1 -> b[1]
       [] Len(b) > 1 /\ high = {0} -> low
       [] Len(b) = 4 /\ b[4] \in 1 .. 5 -> low + 16777216 * b[4]
       [] Len(b) = 8 /\ high = {255} -> low - 16777216
       [] OTHER -> Huge

(* The bytes with some of them replaced from an offset on. *)
Patched(m, at, bytes) ==
  LET base == m \o Blank(at - Len(m), Stale)
  IN SubSeq(base, 1, at) \o bytes \o SubSeq(base, at + Len(bytes) + 1, Len(base))

Write(m, w, at, v) == Patched(m, at, Le(w, v))

InBytes(m, at, n) == 0 <= at /\ at + n <= Len(m)

IsWritten(m, at, n) == InBytes(m, at, n) /\ \A k \in at + 1 .. at + n : m[k] # Stale

(* What is not in the arena may be constant data of the module. *)
Load(m, w, at) ==
  CASE IsWritten(m, at, w) -> FromLe(SubSeq(m, at + 1, at + w))
    [] at \in DOMAIN Rom /\ w = 4 -> Rom[at]
    [] OTHER -> Wild

-----------------------------------------------------------------------------
(* Arithmetic (relon-codegen-cranelift/src/codegen/arith.rs). *)
Checked(n) == IF n \in MinInt .. MaxInt THEN n ELSE Overflow

Bool(b) == IF b THEN 1 ELSE 0

(* The masks in use: a power of two less one, its negation, and 0xC0. *)
BitAnd(a, b) ==
  CASE b < 0 -> a - (a % (-b))
    [] b = 192 -> (a % 256) - (a % 64)
    [] OTHER -> a % (b + 1)

Abs(n) == IF n < 0 THEN -n ELSE n
Sign(n) == IF n < 0 THEN -1 ELSE 1

(* The remainder has the sign of the dividend. *)
Rem(a, b) == Sign(a) * (Abs(a) % Abs(b))

Finite(v) == IF v = NegZero THEN 0 ELSE v

(* The float nearest to an integer, the even one of two. *)
as_f64(n) ==
  CASE Abs(n) <= ExactInt \/ n % 2 = 0 -> n
    [] OTHER -> IF (n - 1) % 4 = 0 THEN n - 1 ELSE n + 1

IsNegative(v) == v = NegZero \/ v < 0

(* A float computed exactly; what is zero keeps a sign. *)
Rounded(n, negative) == CASE n # 0 -> as_f64(n) [] negative -> NegZero [] OTHER -> 0

Negated64(v) == CASE v = NaN -> NaN [] v = 0 -> NegZero [] v = NegZero -> 0 [] OTHER -> -v

(* The conversion back saturates; NaN becomes 0. *)
as_i64(v) ==
  CASE v = NaN -> 0
    [] v # NaN /\ Finite(v) > MaxInt -> MaxInt
    [] v # NaN /\ Finite(v) < MinInt -> MinInt
    [] OTHER -> Finite(v)

abs_f64(v) == IF IsNegative(v) THEN Negated64(v) ELSE v

sqrt_f64(v) ==
  CASE v = NaN \/ v < 0 -> NaN
    [] v = NegZero -> NegZero
    [] OTHER -> IF \E r \in 0 .. v : r * r = v THEN CHOOSE r \in 0 .. v : r * r = v ELSE Inexact

FloatOp(op, a, b) ==
  LET x == Finite(a)
      y == Finite(b)
  IN CASE NaN \in {a, b} -> NaN
       [] op = "addf" -> Rounded(x + y, a = NegZero /\ b = NegZero)
       [] op = "subf" -> Rounded(x - y, a = NegZero /\ b = 0)
       [] op = "mulf" -> Rounded(x * y, IsNegative(a) # IsNegative(b))
       [] op = "divf" ->
            IF Rem(x, y) # 0 THEN Inexact
            ELSE Rounded(Sign(y) * (x \div Abs(y)), IsNegative(a) # IsNegative(b))
       [] op = "remf" -> Rounded(Rem(x, y), IsNegative(a))

Binary(op, a, b) ==
  CASE IsFault(a) -> a
    [] IsFault(b) -> b
    [] op = "add" -> a + b
    [] op = "sub" -> a - b
    [] op = "mul" -> a * b
    [] op = "and" -> BitAnd(a, b)
    [] op = "lt" -> Bool(a < b)
    [] op = "le" -> Bool(a <= b)
    [] op = "eq" -> Bool(a = b)
    [] op = "ne" -> Bool(a # b)
    [] op = "add64" -> Checked(a + b)
    [] op = "sub64" -> Checked(a - b)
    [] op = "mul64" -> Checked(a * b)
    [] op \in {"div", "rem", "div64", "rem64", "divf", "remf"} /\ Finite(b) = 0 -> DivByZero
    [] op \in {"div64", "rem64"} /\ a = MinInt /\ b = -1 -> Overflow
    [] op = "div" -> a \div b
    [] op = "div64" -> Sign(a) * Sign(b) * (Abs(a) \div Abs(b))
    [] op \in {"addf", "subf", "mulf", "divf", "remf"} -> FloatOp(op, a, b)
    [] op = "tof64" -> as_f64(a)
    [] op = "toi64" -> as_i64(a)
    [] op = "absf" -> abs_f64(a)
    [] op = "sqrtf" -> sqrt_f64(a)
    [] op \in {"rem", "rem64"} -> Rem(a, b)
    [] op = "lef" -> Bool(NaN \notin {a, b} /\ Finite(a) <= Finite(b))
    [] op = "ltf" -> Bool(NaN \notin {a, b} /\ Finite(a) < Finite(b))
    [] op = "eqf" -> Bool(Finite(a) = Finite(b))
    [] op = "nef" -> Bool(Finite(a) # Finite(b))

-----------------------------------------------------------------------------
(* The arithmetic and the loads of the other generator                     *)
(* (relon-codegen-llvm/src/codegen: arith.rs, mem.rs).                     *)
emit_checked_i64_arith(op, a, b) ==
  LET r == CASE op = "add64" -> a + b [] op = "sub64" -> a - b [] op = "mul64" -> a * b
  IN IF MinInt <= r /\ r <= MaxInt THEN r ELSE Overflow

emit_binop(op, a, b) ==
  CASE op \in {"add64", "sub64", "mul64"} -> emit_checked_i64_arith(op, a, b)
    [] op \in {"div", "rem", "div64", "rem64"} /\ b = 0 -> DivByZero
    [] op \in {"div64", "rem64"} /\ a = MinInt /\ b = -1 -> Overflow
    [] OTHER -> Binary(op, a, b)

(* A division by zero is no trap that the host could report. *)
emit_binop_f64(op, a, b) ==
  IF op \in {"divf", "remf"} /\ Finite(b) = 0 /\ b # NaN THEN Aborted ELSE FloatOp(op, a, b)

emit_f64_unary(op, a) == IF op = "absf" THEN abs_f64(a) ELSE sqrt_f64(a)

emit_convert_i64_to_f64(a) == as_f64(a)

emit_f64_to_i64_sat(a) == as_i64(a)

(* The ordered comparisons are false of NaN; equality holds of two of them. *)
emit_cmp(op, a, b) ==
  LET ordered == NaN \notin {a, b}
      eq == (ordered /\ Finite(a) = Finite(b)) \/ (a = NaN /\ b = NaN)
  IN CASE op = "eqf" -> Bool(eq)
       [] op = "nef" -> Bool(~eq)
       [] op = "ltf" -> Bool(ordered /\ Finite(a) < Finite(b))
       [] op = "lef" -> Bool(ordered /\ Finite(a) <= Finite(b))
       [] OTHER -> Binary(op, a, b)

emit_load_at_absolute(m, w, at) == Load(m, w, at)

LlvmBinary(op, a, b) ==
  CASE IsFault(a) -> a
    [] IsFault(b) -> b
    [] op \in {"addf", "subf", "mulf", "divf", "remf"} -> emit_binop_f64(op, a, b)
    [] op \in {"absf", "sqrtf"} -> emit_f64_unary(op, a)
    [] op = "tof64" -> emit_convert_i64_to_f64(a)
    [] op = "toi64" -> emit_f64_to_i64_sat(a)
    [] op \in {"lt", "le", "eq", "ne", "ltf", "lef", "eqf", "nef"} -> emit_cmp(op, a, b)
    [] OTHER -> emit_binop(op, a, b)

-----------------------------------------------------------------------------
(* The value of an expression in an activation.  A let that was never set  *)
(* is zero, or, on the other generator, undefined.                         *)
RECURSIVE Value(_, _, _)
Value(e, frame, m) ==
  CASE e.op = "K" -> e.n
    [] e.op = "arg" -> frame.args[e.n + 1]
    [] e.op = "let" -> IF e.x \in DOMAIN frame.lets THEN frame.lets[e.x] ELSE IF frame.llvm THEN Wild ELSE 0
    [] e.op = "ld" ->
         LET at == Value(e.a, frame, m)
         IN IF IsFault(at) THEN at ELSE IF frame.llvm THEN emit_load_at_absolute(m, e.w, at) ELSE Load(m, e.w, at)
    [] e.op = "cond" ->
         LET c == Value(e.c, frame, m)
         IN IF IsFault(c) THEN c ELSE IF c = 0 THEN Value(e.b, frame, m) ELSE Value(e.a, frame, m)
    [] OTHER ->
         LET a == Value(e.a, frame, m)
             b == Value(e.b, frame, m)
         IN IF frame.llvm THEN LlvmBinary(e.op, a, b) ELSE Binary(e.op, a, b)

RECURSIVE Values(_, _, _)
Values(es, frame, m) ==
  IF es = <<>> THEN <<>>
  ELSE <<Value(Head(es), frame, m)>> \o Values(Tail(es), frame, m)
=============================================================================
