-------------------------------- MODULE Ast --------------------------------
(***************************************************************************)
(* The expressions of a program (relon-parser/src/token.rs, enum Expr).    *)
(* Names are TLA+ strings and string literals are the sequences of their   *)
(* bytes.  A path through a value is a sequence of Key and Index segments. *)
(***************************************************************************)
EXTENDS Integers, Sequences, TLC

IntE(n) == [e |-> "Int", v |-> n]
FloatE(x) == [e |-> "Float", v |-> x]
BoolE(b) == [e |-> "Bool", v |-> b]
StringE(bytes) == [e |-> "String", v |-> bytes]
ListE(items) == [e |-> "List", items |-> items]
TupleE(items) == [e |-> "Tuple", items |-> items]
SpreadE(inner) == [e |-> "Spread", inner |-> inner]

(* A dictionary is a sequence of pairs; the key "..." spreads its value.   *)
(* A pair that is #internal is in scope of the others but not in the value.*)
(* Its decorators are written before it, the one applied last first.       *)
Pair(key, value) == [key |-> key, value |-> value, internal |-> FALSE, decorators |-> <<>>]
Internal(key, value) == [Pair(key, value) EXCEPT !.internal = TRUE]
Spread(value) == Pair("...", value)
Decorated(pair, decorators) == [pair EXCEPT !.decorators = decorators]
Decorator(name, args) == [name |-> name, args |-> args]
DictE(pairs) == [e |-> "Dict", pairs |-> pairs]

(* The bytes of the keys that a program looks up by a string. *)
Spelling == [a |-> <<97>>, b |-> <<98>>, ab |-> <<97, 98>>]

Key(name) == [seg |-> "key", name |-> name]
Index(i) == [seg |-> "index", i |-> i]
Dynamic(inner) == [seg |-> "dynamic", inner |-> inner]
VariableE(head, path) == [e |-> "Variable", head |-> head, path |-> path]
Name(head) == VariableE(head, <<>>)

BinaryE(op, lhs, rhs) == [e |-> "Binary", op |-> op, lhs |-> lhs, rhs |-> rhs]
UnaryE(op, inner) == [e |-> "Unary", op |-> op, inner |-> inner]
TernaryE(cond, then, els) == [e |-> "Ternary", cond |-> cond, then |-> then, els |-> els]
WhereE(body, bindings) == [e |-> "Where", body |-> body, bindings |-> bindings]

(* The parts of an f-string are literals and interpolations alike. *)
FStringE(parts) == [e |-> "FString", parts |-> parts]

(* A call by name, and a call whose path ends in a method's name. *)
CallE(name, args) == [e |-> "Call", name |-> name, args |-> args]
MethodE(receiver, name, args) == [e |-> "Method", receiver |-> receiver, name |-> name, args |-> args]

(* The type of a parameter or of the result is that of its annotation, as  *)
(* the intermediate code has it, or "".                                    *)
ClosureE(params, body) == [e |-> "Closure", params |-> params, ret |-> "", body |-> body]
TypedClosureE(params, ret, body) == [e |-> "Closure", params |-> params, ret |-> ret, body |-> body]
Param(name, ty) == [name |-> name, ty |-> ty]

ComprehensionE(element, id, iterable, condition) ==
  [e |-> "Comprehension", element |-> element, id |-> id, iterable |-> iterable, condition |-> condition]

(* A pattern names a variant or a type; a variant binds fields of its      *)
(* payload, given by name or (with the field "") by position.              *)
MatchE(scrutinee, arms) == [e |-> "Match", scrutinee |-> scrutinee, arms |-> arms]
Arm(pattern, body) == [pattern |-> pattern, body |-> body]
Wildcard == [p |-> "any"]
TypePat(name) == [p |-> "type", name |-> name]
VariantPat(of, tag, bindings) == [p |-> "variant", of |-> of, tag |-> tag, bindings |-> bindings]
Binding(field, name) == [field |-> field, name |-> name]

(* A variant as Enum.Variant {...}, as Variant(...), or by its name alone; *)
(* of is the type of values that the name was found in.                    *)
VariantCtorE(of, tag, pairs) == [e |-> "VariantCtor", of |-> of, tag |-> tag, pairs |-> pairs]
VariantCallE(of, tag, args) == [e |-> "VariantCall", of |-> of, tag |-> tag, args |-> args]
VariantNameE(of, tag) == [e |-> "VariantName", of |-> of, tag |-> tag]

(* &sibling.name and &root.name. *)
ReferenceE(name) == [e |-> "Reference", name |-> name]

(* A record type with the names of its fields; a tuple has no names, and   *)
(* its fields go by their places.  A declared schema has a name of its own *)
(* and, for each field, <<>> or what the declaration has as its value.     *)
Named(names, fields) == [k |-> "Schema", fields |-> fields, names |-> names]
TupleT(fields) == Named(<<>>, fields)
Declared(brand, names, fields, rules) ==
  [k |-> "Schema", fields |-> fields, names |-> names, brand |-> brand, rules |-> rules]

IsDeclared(t) == "brand" \in DOMAIN t
BrandOf(t) == IF IsDeclared(t) THEN t.brand ELSE ""
NamesOf(t) == IF t.names = <<>> THEN [k \in DOMAIN t.fields |-> ToString(k - 1)] ELSE t.names

(* The record of anything, `Dict'. *)
DictT == [k |-> "Dict"]

(* The payload of a variant is a record too: the value of an Option or     *)
(* Result is its only field.                                               *)
PayloadOf(t, tag) ==
  LET payload == t.payloads[tag + 1]
  IN CASE payload = <<>> -> TupleT(<<>>)
       [] payload # <<>> /\ t.labels # <<>> -> Named(<<t.labels[tag + 1]>>, payload)
       [] OTHER -> payload[1]
=============================================================================
