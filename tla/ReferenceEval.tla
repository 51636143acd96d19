---------------------------- MODULE ReferenceEval ----------------------------
(***************************************************************************)
(* Lazy evaluation of a document's dicts: thunks, references and the       *)
(* detection of cycles (relon-evaluator/src/reference.rs and the Dict arm  *)
(* of eval_internal in eval.rs).                                           *)
(*                                                                         *)
(* The evaluator recurses on the machine stack; here the stack is a        *)
(* variable, one frame per dict being materialised, thunk being forced or  *)
(* reference being resolved.  A document is a tree of dicts whose leaves   *)
(* are sequences of operations.  Values are not represented: what matters  *)
(* is whether an evaluation yields one and which error it yields if not.   *)
(*                                                                         *)
(* Each reference is resolved in a root scope of its own.  A field of the  *)
(* root dict being materialised (level 1) resolves references in the scope *)
(* pinned in RootRef::scope (level 2); that scope carries no pin, so every *)
(* reference met below it gets a synthesized scope (level 3, 4, ...).      *)
(* Each level has thunks of its own, but evaluating_paths and path_cache   *)
(* are shared by all of them.                                              *)
(***************************************************************************)
EXTENDS Integers, Sequences, FiniteSets

CONSTANTS Children,     \* path of a dict -> names of its fields, in order
          Docs,         \* documents: [private, body]
          Outcomes,     \* what a native function may do: "ok", "fails", "panics"
          MaxRuns       \* bound: top-level runs on one Context

Dicts  == DOMAIN Children
Paths  == UNION {{Append(d, Children[d][i]) : i \in 1..Len(Children[d])} : d \in Dicts}
Leaves == Paths \ Dicts

\* An owning depth: how many dict steps lead to the dict the reference site
\* lives in, or CrossDict for &root, which always crosses a dict boundary.
CrossDict == 0 - 1

VARIABLES
    doc,            \* the document, fixed per behaviour
    stack,          \* frames, innermost last
    ret,            \* outcome handed to the innermost frame, "none" if running
    thunks,         \* per level, the paths whose thunk holds a value
    path_cache,     \* keys of resolved references: owning depth and path
    evaluating_paths,
    runs,
    outcome,        \* of the last finished run
    \* History.
    leaked,         \* paths that panics left in evaluating_paths
    answered,       \* references answered in this run: site, target
    evals           \* how often each leaf's body was started in this run

vars == <<doc, stack, ret, thunks, path_cache, evaluating_paths, runs, outcome,
          leaked, answered, evals>>

Errors == {"circular", "hidden", "unbound", "failed"}

Front(s) == SubSeq(s, 1, Len(s) - 1)
ToSet(s) == {s[i] : i \in DOMAIN s}
IsPrefix(s, t) == Len(s) <= Len(t) /\ SubSeq(s, 1, Len(s)) = SubSeq(t, 1, Len(s))
IsStrictPrefix(s, t) == IsPrefix(s, t) /\ s # t

Frame(kind, lvl, path, depth, site) ==
    [kind |-> kind, lvl |-> lvl, path |-> path, depth |-> depth, site |-> site, at |-> 1]

Top     == stack[Len(stack)]
Running == stack # <<>>
ThunkFrame(f) == f.kind # "walk" /\ f.path # <<>>

Init ==
    /\ doc \in Docs
    /\ stack = <<>>
    /\ ret = "none"
    /\ thunks = <<>>
    /\ path_cache = {}
    /\ evaluating_paths = {}
    /\ runs = 0
    /\ outcome = "none"
    /\ leaked = {}
    /\ answered = {}
    /\ evals = [p \in Leaves |-> 0]

-----------------------------------------------------------------------------
(***************************************************************************)
(* Names.                                                                  *)
(***************************************************************************)

Parent(p) == Front(p)
Up(p)     == IF p = <<>> THEN p ELSE Front(p)      \* Vec::pop
Fields(d) == ToSet(Children[d])

\* The dict whose thunk table has the name, walking out from the site; <<>>
\* stands in when there is none, the name is then a parameter of #main.
Lexical(site, name) ==
    LET owners == {d \in Dicts : IsStrictPrefix(d, site) /\ name \in Fields(d)}
    IN  IF owners = {} THEN <<>>
        ELSE Append(CHOOSE d \in owners : \A e \in owners : Len(e) <= Len(d), name)

\* The absolute path of a reference, from the base and the site's full_path.
Target(site, op) ==
    CASE op.base = "root"    -> op.path
      [] op.base = "sibling" -> Up(site) \o op.path
      [] op.base = "uncle"   -> Up(Up(site)) \o op.path

OwningDepth(site, op) ==
    CASE op.base = "root"    -> CrossDict
      [] op.base = "sibling" -> Len(Up(site))
      [] op.base = "uncle"   -> Len(Up(Up(site)))

\* The dicts form a tree under the root dict, and references name fields that
\* exist.
RefBases == {"root", "sibling", "uncle"}
Ops(site) == {op \in [base : RefBases \cup {"var", "native"}, path : Seq(STRING)] :
                 op.base \in RefBases => Target(site, op) \in Paths}

ASSUME ConstantsAssumption ==
    /\ Dicts \subseteq Seq(STRING)
    /\ <<>> \in Dicts /\ Dicts \subseteq Paths \cup {<<>>}
    /\ \A d \in Dicts : Children[d] \in Seq(STRING)
    /\ \A d \in Docs : \A p \in Leaves : d.body[p] \in Seq(Ops(p))

\* A step of the path lands on an #internal field, and the step is not the
\* one into the dict that owns the reference site.
Blocked(target, depth) ==
    \E i \in 1..Len(target) : SubSeq(target, 1, i) \in doc.private /\ depth # i - 1

\* #main parameters are locals of the scope the root dict is evaluated in.
\* A synthesized root scope has no parent (RootRef::parent_fallback is None).
ParamVisible(lvl) == lvl <= 2

-----------------------------------------------------------------------------
(***************************************************************************)
(* Thunks.                                                                 *)
(***************************************************************************)

\* Mutant: a leaf that was evaluated before, rather than being evaluated now,
\* counts as a cycle.
ForceVisited(lvl, p, valued, below) ==
    \/ /\ p \in valued
       /\ ret' = "ok" /\ stack' = below
       /\ UNCHANGED <<evaluating_paths, evals>>
    \/ /\ p \notin valued /\ (p \in evaluating_paths \/ p \in {q \in Leaves : evals[q] > 0})
       /\ ret' = "circular" /\ stack' = below
       /\ UNCHANGED <<evaluating_paths, evals>>
    \/ /\ p \notin valued /\ p \notin evaluating_paths /\ p \notin {q \in Leaves : evals[q] > 0}
       /\ stack' = Append(below, Frame(IF p \in Dicts THEN "dict" ELSE "leaf", lvl, p, 0, p))
       /\ evaluating_paths' = evaluating_paths \cup {p}
       /\ evals' = [q \in Leaves |-> IF q = p THEN evals[q] + 1 ELSE evals[q]]
       /\ UNCHANGED ret

\* force_thunk on the thunk of p, whose level has the valued thunks: its value,
\* a cycle if p is being evaluated at any level, else its node is evaluated.
ForceThunk(lvl, p, valued, below) ==
    \/ /\ p \in valued
       /\ ret' = "ok" /\ stack' = below
       /\ UNCHANGED <<evaluating_paths, evals>>
    \/ /\ p \notin valued /\ p \in evaluating_paths
       /\ ret' = "circular" /\ stack' = below
       /\ UNCHANGED <<evaluating_paths, evals>>
    \/ /\ p \notin valued /\ p \notin evaluating_paths
       /\ stack' = Append(below, Frame(IF p \in Dicts THEN "dict" ELSE "leaf", lvl, p, 0, p))
       /\ evaluating_paths' = evaluating_paths \cup {p}
       /\ evals' = [q \in Leaves |-> IF q = p THEN evals[q] + 1 ELSE evals[q]]
       /\ UNCHANGED ret

-----------------------------------------------------------------------------
(***************************************************************************)
(* Steps of a run.                                                         *)
(***************************************************************************)

\* eval_root / run_main: the guard, the resets, and the root dict's frame.
\* evaluating_paths is left as it is.
BeginRun ==
    /\ ~Running /\ runs < MaxRuns
    /\ runs' = runs + 1
    /\ stack' = <<Frame("dict", 1, <<>>, 0, <<>>)>>
    /\ ret' = "none"
    /\ thunks' = <<{}>>
    /\ path_cache' = {}
    /\ outcome' = "none"
    /\ answered' = {}
    /\ evals' = [p \in Leaves |-> 0]
    /\ UNCHANGED <<doc, evaluating_paths, leaked>>

\* The Dict arm: the fields in order, each through its thunk.
EvalField ==
    /\ Running /\ ret = "none" /\ Top.kind = "dict"
    /\ Top.at <= Len(Children[Top.path])
    /\ ForceThunk(Top.lvl, Append(Top.path, Children[Top.path][Top.at]), thunks[Top.lvl], stack)
    /\ UNCHANGED <<doc, leaked, thunks, path_cache, runs, outcome, answered>>

Op == doc.body[Top.path][Top.at]
AtOp(bases) == /\ Running /\ ret = "none" /\ Top.kind = "leaf"
               /\ Top.at <= Len(doc.body[Top.path]) /\ Op.base \in bases

\* resolve_variable: a local, a thunk of an enclosing dict, or nothing.
EvalVariable ==
    /\ AtOp({"var"})
    /\ LET p == Lexical(Top.path, Op.path[1])
       IN  IF p # <<>> THEN ForceThunk(Top.lvl, p, thunks[Top.lvl], stack)
           ELSE /\ ret' = IF ParamVisible(Top.lvl) THEN "ok" ELSE "unbound"
                /\ UNCHANGED <<stack, evaluating_paths, evals>>
    /\ UNCHANGED <<doc, leaked, thunks, path_cache, runs, outcome, answered>>

\* A native function returns a value or an error of its own.
CallNative ==
    /\ AtOp({"native"})
    /\ \/ "ok" \in Outcomes /\ ret' = "ok"
       \/ "fails" \in Outcomes /\ ret' = "failed"
    /\ UNCHANGED <<doc, leaked, stack, thunks, path_cache, evaluating_paths, runs,
                   outcome, answered, evals>>

\* A native function panics: the stack unwinds to the host, the run guard is
\* dropped on the way.  Nothing on the way is a guard for evaluating_paths.
NativePanics ==
    /\ AtOp({"native"}) /\ "panics" \in Outcomes
    /\ stack' = <<>>
    /\ ret' = "none"
    /\ thunks' = <<>>
    /\ outcome' = "panicked"
    /\ leaked' = evaluating_paths
    /\ UNCHANGED <<doc, path_cache, evaluating_paths, runs, answered, evals>>

\* Mutant: references to one path share a cache slot whatever their base.
ResolveUntagged ==
    /\ AtOp(RefBases)
    /\ LET target == Target(Top.path, Op)
           depth  == OwningDepth(Top.path, Op)
       IN  IF \E d \in -1..3 : <<d, target>> \in path_cache
           THEN /\ ret' = "ok"
                /\ answered' = answered \cup {<<Top.path, Op.base, target>>}
                /\ UNCHANGED stack
           ELSE /\ stack' = Append(stack, Frame("walk", Top.lvl, target, depth, Top.path))
                /\ UNCHANGED <<ret, answered>>
    /\ UNCHANGED <<doc, leaked, thunks, path_cache, evaluating_paths, runs, outcome, evals>>

\* Mutant: the cache slot is filled before the reference has its value.
ResolveCachingEarly ==
    /\ AtOp(RefBases)
    /\ LET target == Target(Top.path, Op)
           depth  == OwningDepth(Top.path, Op)
       IN  IF <<depth, target>> \in path_cache
           THEN /\ ret' = "ok"
                /\ answered' = answered \cup {<<Top.path, Op.base, target>>}
                /\ UNCHANGED <<stack, path_cache>>
           ELSE /\ stack' = Append(stack, Frame("walk", Top.lvl, target, depth, Top.path))
                /\ path_cache' = path_cache \cup {<<depth, target>>}
                /\ UNCHANGED <<ret, answered>>
    /\ UNCHANGED <<doc, leaked, thunks, evaluating_paths, runs, outcome, evals>>

\* resolve_reference: the cache, keyed by owning depth and path, or a walk.
ResolveReference ==
    /\ AtOp(RefBases)
    /\ LET target == Target(Top.path, Op)
           depth  == OwningDepth(Top.path, Op)
       IN  IF <<depth, target>> \in path_cache
           THEN /\ ret' = "ok"
                /\ answered' = answered \cup {<<Top.path, Op.base, target>>}
                /\ UNCHANGED stack
           ELSE /\ stack' = Append(stack, Frame("walk", Top.lvl, target, depth, Top.path))
                /\ UNCHANGED <<ret, answered>>
    /\ UNCHANGED <<doc, leaked, thunks, path_cache, evaluating_paths, runs, outcome, evals>>

\* eval_reference_path: a root scope with new thunks, then down the path.
\* Only the last step forces a thunk, a dict on the way is stepped into.
Walk ==
    /\ Running /\ ret = "none" /\ Top.kind = "walk" /\ Top.at = 1
    /\ \/ /\ Blocked(Top.path, Top.depth)
          /\ ret' = "hidden"
          /\ UNCHANGED <<stack, thunks, evaluating_paths, evals>>
       \/ /\ ~Blocked(Top.path, Top.depth)
          /\ thunks' = Append(thunks, {})
          /\ ForceThunk(Top.lvl + 1, Top.path, {}, [stack EXCEPT ![Len(stack)].at = 2])
    /\ UNCHANGED <<doc, leaked, path_cache, runs, outcome, answered>>

-----------------------------------------------------------------------------
(***************************************************************************)
(* Returning from a frame.                                                 *)
(***************************************************************************)

Done == /\ Running /\ ret = "none"
        /\ \/ Top.kind = "dict" /\ Top.at > Len(Children[Top.path])
           \/ Top.kind = "leaf" /\ Top.at > Len(doc.body[Top.path])

\* The node has a value: the path is no longer being evaluated and its thunk
\* keeps the value.  The root dict has no thunk, its value ends the run.
Finish ==
    /\ Done
    /\ stack' = Front(stack)
    /\ evaluating_paths' = evaluating_paths \ {Top.path}
    /\ IF Top.path = <<>>
       THEN outcome' = "value" /\ ret' = "none" /\ thunks' = <<>>
       ELSE /\ thunks' = [thunks EXCEPT ![Top.lvl] = @ \cup {Top.path}]
            /\ ret' = "ok"
            /\ UNCHANGED outcome
    /\ UNCHANGED <<doc, leaked, path_cache, runs, answered, evals>>

\* Mutant: the frame stays on the operation it has the value of.
ContinueInPlace ==
    /\ Running /\ ret = "ok" /\ Top.kind # "walk"
    /\ ret' = "none"
    /\ UNCHANGED <<doc, leaked, stack, thunks, path_cache, evaluating_paths, runs,
                   outcome, answered, evals>>

\* The innermost frame receives a value and goes on to its next operation.
Continue ==
    /\ Running /\ ret = "ok" /\ Top.kind # "walk"
    /\ stack' = [stack EXCEPT ![Len(stack)].at = @ + 1]
    /\ ret' = "none"
    /\ UNCHANGED <<doc, leaked, thunks, path_cache, evaluating_paths, runs, outcome,
                   answered, evals>>

\* A reference receives its value, caches it and hands it to its site.
Answer ==
    /\ Running /\ ret = "ok" /\ Top.kind = "walk"
    /\ path_cache' = path_cache \cup {<<Top.depth, Top.path>>}
    /\ answered' = answered \cup
         {<<Top.site, doc.body[Top.site][stack[Len(stack) - 1].at].base, Top.path>>}
    /\ stack' = Front(stack)
    /\ thunks' = Front(thunks)
    /\ UNCHANGED <<doc, leaked, ret, evaluating_paths, runs, outcome, evals>>

\* An error leaves the frame: the path is no longer being evaluated, nothing
\* is kept of it, and the frame above gets the same error.
Propagate ==
    /\ Running /\ ret \in Errors
    /\ stack' = Front(stack)
    /\ evaluating_paths' = IF ThunkFrame(Top) THEN evaluating_paths \ {Top.path}
                           ELSE evaluating_paths
    /\ thunks' = IF Top.kind = "walk" /\ Top.at = 2 THEN Front(thunks) ELSE thunks
    /\ IF Len(stack) = 1 THEN outcome' = ret /\ ret' = "none" ELSE UNCHANGED <<outcome, ret>>
    /\ UNCHANGED <<doc, leaked, path_cache, runs, answered, evals>>

Step == EvalField \/ EvalVariable \/ CallNative \/ ResolveReference \/ Walk
        \/ Finish \/ Continue \/ Answer \/ Propagate

Next == BeginRun \/ Step \/ NativePanics

Spec     == Init /\ [][Next]_vars
FairSpec == Spec /\ WF_vars(Step)

-----------------------------------------------------------------------------
(***************************************************************************)
(* Properties.                                                             *)
(***************************************************************************)

\* Types.  There is one root scope per reference being walked, besides the
\* one being materialised, and every frame works in one of them.
TypeOK ==
    /\ ret \in {"none", "ok"} \cup Errors
    /\ \A i \in DOMAIN stack :
        /\ stack[i].kind \in {"dict", "leaf", "walk"}
        /\ stack[i].lvl \in DOMAIN thunks
        /\ stack[i].path \in Paths \cup {<<>>}
    /\ \A i \in DOMAIN thunks : thunks[i] \subseteq Paths
    /\ Running => Len(thunks) = 1 + Cardinality({i \in DOMAIN stack : stack[i].kind = "walk"
                                                                      /\ stack[i].at = 2})
    /\ path_cache \subseteq (-1..2) \X Paths
    /\ leaked \subseteq evaluating_paths /\ evaluating_paths \subseteq Paths
    /\ outcome \in {"none", "value", "panicked"} \cup Errors
    /\ runs \in 0..MaxRuns

\* What the node at a path asks for: the fields of a dict, the targets of a
\* leaf's variables and references.
Demands(p) ==
    IF p \in Dicts THEN {Append(p, n) : n \in Fields(p)}
    ELSE {IF op.base = "var" THEN Lexical(p, op.path[1]) ELSE Target(p, op) :
             op \in {o \in ToSet(doc.body[p]) : o.base # "native"}}

\* Some paths all demand one another.
Cyclic == \E ps \in (SUBSET Paths) \ {{}} : \A p \in ps : Demands(p) \cap ps # {}

\* CircularReference: "Reference evaluation forms a cycle".  No run returns a
\* value for a document whose demands form a cycle, whichever order, bases,
\* levels and cache hits the evaluation goes by.
NoMissedCycle == outcome = "value" => ~Cyclic

\* The converse: a run reports a cycle only where the document has one,
\* however the runs before it ended, unless one of them panicked and left paths
\* behind.  Evaluating an entry again at another level is no cycle.
NoFalseCycle == outcome = "circular" => Cyclic \/ leaked # {}

\* "Cross-dict &root / &sibling references can't see" an #internal field: a
\* reference is answered only if every #internal field on its path belongs to
\* a dict around the reference site.  The cache cannot be used to get past it.
InternalStaysInside ==
    \A a \in answered : \A i \in 1..Len(a[3]) :
        SubSeq(a[3], 1, i) \in doc.private =>
            a[2] # "root" /\ IsPrefix(SubSeq(a[3], 1, i - 1), a[1])

\* Every run ends: the recursion always reaches a value or an error.
RunsTerminate == Running ~> ~Running

\* reference.rs: "the lazy-thunk machinery that keeps the dict-evaluation
\* order independent of declaration order".  A parameter of #main is in scope
\* in every field, so no run ends with a parameter not found.
\* Does not hold: a reference met inside a reference is walked below a scope
\* that has no parent (eval_reference_path).
ParametersAlwaysBound == outcome # "unbound"

\* modules.md: "&sibling: same-level scope".  A field of a dict can always
\* refer to the other fields of that dict that are not themselves #internal.
\* Does not hold inside a dict that is itself #internal.
SiblingsAreVisible ==
    \A i \in DOMAIN stack :
        stack[i].kind = "walk" /\ ret = "hidden" /\ i = Len(stack) =>
            ~(Up(stack[i].path) = Up(stack[i].site) /\ stack[i].path \notin doc.private)

\* scope.rs on Thunk: "A lazily-evaluated dict entry.  The first access [...]
\* caches the result in value; later accesses return the cached value."
\* Does not hold: every walk registers new thunks.
EntriesEvaluatedOnce == \A p \in Leaves : evals[p] <= 1
=============================================================================
