--------------------------- MODULE MCReferenceEval ---------------------------
(***************************************************************************)
(* An instance of ReferenceEval: every document over a small tree whose    *)
(* leaves hold at most one operation, or two in one leaf.                  *)
(***************************************************************************)
EXTENDS ReferenceEval, TLC

\* A root dict with a leaf and a dict of two leaves.
NestedTree == <<>> :> <<"a", "d">> @@ <<"d">> :> <<"g", "h">>

Ref(base, path) == [base |-> base, path |-> path]
Native == Ref("native", <<>>)
Param  == Ref("var", <<"n">>)

\* The references from a leaf that name a field that exists.
RefsFrom(p) ==
    {op \in {Ref(b, SubSeq(q, i, Len(q))) : b \in {"root", "sibling", "uncle"},
                                            q \in Paths, i \in 1..2} :
        op.path # <<>> /\ Target(p, op) \in Paths}
VarsFrom(p) ==
    {Ref("var", <<n>>) : n \in UNION {Fields(d) : d \in {e \in Dicts : IsStrictPrefix(e, p)}}}

\* The root's leaf calls a native function, alone or before a reference, uses
\* a parameter or does nothing; the others refer to something or do nothing.
One(p)    == {<<op>> : op \in RefsFrom(p) \cup VarsFrom(p)}
Bodies(p) ==
    IF p = <<"a">>
    THEN {<<>>, <<Param>>} \cup {<<Native>> \o b : b \in One(p)}
    ELSE {<<>>} \cup One(p)

\* Every document of such leaves, with d or d.h possibly #internal.
NestedDocs ==
    [private : {{}, {<<"d">>}, {<<"d", "h">>}},
     body : {b \in [Leaves -> UNION {Bodies(p) : p \in Leaves}] :
                \A p \in Leaves : b[p] \in Bodies(p)}]
=============================================================================
