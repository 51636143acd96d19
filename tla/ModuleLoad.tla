----------------------------- MODULE ModuleLoad -----------------------------
(***************************************************************************)
(* Loading of #import-ed modules by the tree-walking evaluator (load_module *)
(* and evaluate_module_source in relon-evaluator/src/eval.rs).             *)
(*                                                                         *)
(* A Context keeps the evaluated modules in module_cache for its lifetime  *)
(* and the modules being evaluated in loading_modules.  Each is behind a   *)
(* lock that is taken and released around every access, so loads by two    *)
(* threads interleave between the cache lookup, the cycle check, the entry *)
(* into loading_modules, the insertion and the guard's drop.               *)
(*                                                                         *)
(* A module's text is a version; the text a file holds may be replaced     *)
(* while the Context lives.  The value of a module is represented by the   *)
(* version it was evaluated from.                                          *)
(***************************************************************************)
EXTENDS Integers, Sequences, FiniteSets

CONSTANTS Threads, Modules, Names, Versions,
          Graphs,        \* module -> names it imports, in order: possible ones
          CanonicalId,   \* name -> module, what the resolvers make of a path
          Bad,           \* the version that does not parse or evaluate
          NoVersion,     \* no file, no entry, no pin
          Workspaces,    \* possible results of the workspace pass: module ->
                         \* version it analysed, or NoVersion
          MaxLoads,      \* bound: imports the threads start
          MaxEdits       \* bound: files replaced while the Context lives

ASSUME ConstantsAssumption ==
    /\ IsFiniteSet(Threads)
    /\ Graphs \subseteq [Modules -> Seq(Names)]
    /\ CanonicalId \in [Names -> Modules]
    /\ NoVersion \notin Versions
    /\ Workspaces \subseteq [Modules -> Versions \cup {NoVersion}]

VARIABLES
    graph,
    workspace,       \* Context.workspace, set up before the Context is shared
    disk,            \* what the resolver reads
    module_cache,
    loading_modules, \* guards per module
    stack,           \* per thread, the loads under way, innermost last
    ret,             \* per thread, what the innermost load gets back
    loads,           \* imports started
    \* History.
    edited,          \* modules whose file was replaced
    overlap,         \* two threads have been loading at a time
    results          \* of imports by a thread: module, pin, outcome, version

vars == <<graph, workspace, disk, module_cache, loading_modules, stack, ret, loads,
          edited, overlap, results>>

\* Changed only by Import and EditFile.
seldom == <<graph, workspace, disk, loads, edited, overlap>>

Errors  == {"not_found", "mismatch", "circular", "invalid"}
NoRet   == [outcome |-> "none", ver |-> NoVersion]
Got(v)  == [outcome |-> "ok", ver |-> v]
Err(e)  == [outcome |-> e, ver |-> NoVersion]

Front(s) == SubSeq(s, 1, Len(s) - 1)

Frame(id, pin, ver) == [id |-> id, pin |-> pin, ver |-> ver, pc |-> "cache", at |-> 1]

Top(t)     == stack[t][Len(stack[t])]
Busy(t)    == stack[t] # <<>>
At(t, pc)  == Busy(t) /\ ret[t] = NoRet /\ Top(t).pc = pc
Guarded(f) == f.pc \in {"body", "stored"}

Init ==
    /\ graph \in Graphs
    /\ workspace \in Workspaces
    /\ disk \in [Modules -> Versions \cup {NoVersion}]
    /\ module_cache = [m \in Modules |-> NoVersion]
    /\ loading_modules = [m \in Modules |-> 0]
    /\ stack = [t \in Threads |-> <<>>]
    /\ ret = [t \in Threads |-> NoRet]
    /\ loads = 0
    /\ edited = {}
    /\ overlap = FALSE
    /\ results = {}

SetTop(t, f)  == stack' = [stack EXCEPT ![t] = Append(Front(@), f)]
Pop(t)        == stack' = [stack EXCEPT ![t] = Front(@)]
Return(t, r)  == ret' = [ret EXCEPT ![t] = r]
Record(t, f, r) == results' = IF Len(stack[t]) = 1
                              THEN results \cup {<<f.id, f.pin, r.outcome, r.ver>>}
                              ELSE results

-----------------------------------------------------------------------------
\* Mutant: the pin is not compared.
LoadUnverified(t, name, pin) ==
    LET id  == CanonicalId[name]
        ver == disk[id]
    IN  \/ /\ ver = NoVersion
           /\ Return(t, Err("not_found"))
           /\ UNCHANGED stack
        \/ /\ ver # NoVersion
           /\ stack' = [stack EXCEPT ![t] = Append(@, Frame(id, pin, ver))]
           /\ UNCHANGED ret

\* load_module: the resolver reads the text, the pin is compared with it, and
\* evaluate_module_source is entered with the text.
Load(t, name, pin) ==
    LET id  == CanonicalId[name]
        ver == disk[id]
    IN  \/ /\ ver = NoVersion
           /\ Return(t, Err("not_found"))
           /\ UNCHANGED stack
        \/ /\ ver # NoVersion /\ pin \notin {NoVersion, ver}
           /\ Return(t, Err("mismatch"))
           /\ UNCHANGED stack
        \/ /\ ver # NoVersion /\ pin \in {NoVersion, ver}
           /\ stack' = [stack EXCEPT ![t] = Append(@, Frame(id, pin, ver))]
           /\ UNCHANGED ret

\* A document's #import directive, evaluated by some thread.
Import(t) ==
    /\ ~Busy(t) /\ ret[t] = NoRet /\ loads < MaxLoads
    /\ \E name \in Names, pin \in Versions \cup {NoVersion} : Load(t, name, pin)
    /\ loads' = loads + 1
    /\ overlap' = (overlap \/ \E u \in Threads : Busy(u))
    /\ UNCHANGED <<graph, workspace, disk, module_cache, loading_modules, edited, results>>

\* Mutant: a cached value is thrown away when the file holds another text.
CacheInvalidating(t) ==
    /\ At(t, "cache")
    /\ LET f == Top(t)
           v == module_cache[f.id]
       IN  \/ /\ v = f.ver
              /\ Pop(t) /\ Return(t, Got(v)) /\ Record(t, f, Got(v))
              /\ UNCHANGED module_cache
           \/ /\ v # f.ver
              /\ module_cache' = [module_cache EXCEPT ![f.id] = NoVersion]
              /\ SetTop(t, [f EXCEPT !.pc = "check"])
              /\ UNCHANGED <<ret, results>>
    /\ UNCHANGED <<seldom, loading_modules>>

\* The module's value may be there already.
CacheLookup(t) ==
    /\ At(t, "cache")
    /\ LET f == Top(t)
           v == module_cache[f.id]
       IN  \/ /\ v # NoVersion
              /\ Pop(t) /\ Return(t, Got(v)) /\ Record(t, f, Got(v))
           \/ /\ v = NoVersion
              /\ SetTop(t, [f EXCEPT !.pc = "check"])
              /\ UNCHANGED <<ret, results>>
    /\ UNCHANGED <<seldom, module_cache, loading_modules>>

\* Mutant: nothing can be imported while anything is being loaded.
CheckAnyLoading(t) ==
    /\ At(t, "check")
    /\ LET f == Top(t)
       IN  \/ /\ \E m \in Modules : loading_modules[m] > 0
              /\ Pop(t) /\ Return(t, Err("circular")) /\ Record(t, f, Err("circular"))
           \/ /\ \A m \in Modules : loading_modules[m] = 0
              /\ SetTop(t, [f EXCEPT !.pc = "enter"])
              /\ UNCHANGED <<ret, results>>
    /\ UNCHANGED <<seldom, module_cache, loading_modules>>

\* A module that is being loaded cannot be imported: CircularImport.
CheckLoading(t) ==
    /\ At(t, "check")
    /\ LET f == Top(t)
       IN  \/ /\ loading_modules[f.id] > 0
              /\ Pop(t) /\ Return(t, Err("circular")) /\ Record(t, f, Err("circular"))
           \/ /\ loading_modules[f.id] = 0
              /\ SetTop(t, [f EXCEPT !.pc = "enter"])
              /\ UNCHANGED <<ret, results>>
    /\ UNCHANGED <<seldom, module_cache, loading_modules>>

\* Mutant: the cache gets the module when its evaluation starts.
EnterCaching(t) ==
    /\ At(t, "enter")
    /\ LET f == Top(t)
           v == IF workspace[f.id] # NoVersion THEN workspace[f.id] ELSE f.ver
       IN  /\ loading_modules' = [loading_modules EXCEPT ![f.id] = @ + 1]
           /\ SetTop(t, [f EXCEPT !.pc = "body", !.ver = v])
           /\ IF v = Bad THEN Return(t, Err("invalid")) /\ UNCHANGED module_cache
              ELSE module_cache' = [module_cache EXCEPT ![f.id] = v] /\ UNCHANGED ret
    /\ UNCHANGED <<seldom, results>>

\* enter_loading_module, then the module's root node: the one the workspace
\* pass kept, if it has one for this module, else the text is parsed now.
EnterLoading(t) ==
    /\ At(t, "enter")
    /\ LET f == Top(t)
           v == IF workspace[f.id] # NoVersion THEN workspace[f.id] ELSE f.ver
       IN  /\ loading_modules' = [loading_modules EXCEPT ![f.id] = @ + 1]
           /\ SetTop(t, [f EXCEPT !.pc = "body", !.ver = v])
           /\ IF v = Bad THEN Return(t, Err("invalid")) ELSE UNCHANGED ret
    /\ UNCHANGED <<seldom, module_cache, results>>

\* Evaluation of the module's root reaches its next #import.
ImportNested(t) ==
    /\ At(t, "body") /\ Top(t).at <= Len(graph[Top(t).id])
    /\ Load(t, graph[Top(t).id][Top(t).at], NoVersion)
    /\ UNCHANGED <<seldom, module_cache, loading_modules, results>>

\* apply_directive_import binds the nested module and evaluation goes on.
Bind(t) ==
    /\ Busy(t) /\ ret[t].outcome = "ok"
    /\ SetTop(t, [Top(t) EXCEPT !.at = @ + 1])
    /\ Return(t, NoRet)
    /\ UNCHANGED <<seldom, module_cache, loading_modules, results>>

\* The module has a value and the cache gets it.
StoreModule(t) ==
    /\ At(t, "body") /\ Top(t).at > Len(graph[Top(t).id])
    /\ module_cache' = [module_cache EXCEPT ![Top(t).id] = Top(t).ver]
    /\ SetTop(t, [Top(t) EXCEPT !.pc = "stored"])
    /\ UNCHANGED <<seldom, loading_modules, ret, results>>

\* LoadingModuleGuard::drop on the way out with a value.
DropGuard(t) ==
    /\ At(t, "stored")
    /\ loading_modules' = [loading_modules EXCEPT ![Top(t).id] = @ - 1]
    /\ Pop(t) /\ Return(t, Got(Top(t).ver)) /\ Record(t, Top(t), Got(Top(t).ver))
    /\ UNCHANGED <<seldom, module_cache>>

\* LoadingModuleGuard::drop on the way out with an error, or in an unwind.
Unwind(t) ==
    /\ Busy(t) /\ ret[t].outcome \in Errors
    /\ loading_modules' = [loading_modules EXCEPT ![Top(t).id] = @ - 1]
    /\ Pop(t) /\ Record(t, Top(t), ret[t])
    /\ UNCHANGED <<seldom, module_cache, ret>>

\* The thread's import is over, its bindings or its error are with the host.
EndImport(t) ==
    /\ ~Busy(t) /\ ret[t] # NoRet
    /\ Return(t, NoRet)
    /\ UNCHANGED <<seldom, module_cache, loading_modules, stack, results>>

\* Somebody replaces or removes a file.
EditFile ==
    /\ \E m \in Modules, v \in Versions \cup {NoVersion} :
        /\ Cardinality(edited) < MaxEdits /\ m \notin edited /\ v # disk[m]
        /\ disk' = [disk EXCEPT ![m] = v]
        /\ edited' = edited \cup {m}
    /\ UNCHANGED <<graph, workspace, module_cache, loading_modules, stack, ret, loads, overlap,
                   results>>

Progress(t) == CacheLookup(t) \/ CheckLoading(t) \/ EnterLoading(t) \/ ImportNested(t)
               \/ Bind(t) \/ StoreModule(t) \/ DropGuard(t) \/ Unwind(t) \/ EndImport(t)

Next == (\E t \in Threads : Import(t) \/ Progress(t)) \/ EditFile

Spec == Init /\ [][Next]_vars

-----------------------------------------------------------------------------
(***************************************************************************)
(* Properties.                                                             *)
(***************************************************************************)

\* Types; a load that holds a value's version is past the resolver.
TypeOK ==
    /\ disk \in [Modules -> Versions \cup {NoVersion}]
    /\ module_cache \in [Modules -> (Versions \ {Bad}) \cup {NoVersion}]
    /\ loading_modules \in [Modules -> 0..Cardinality(Threads)]
    /\ \A t \in Threads : \A i \in DOMAIN stack[t] :
        /\ stack[t][i].id \in Modules /\ stack[t][i].ver \in Versions
        /\ stack[t][i].pc \in {"cache", "check", "enter", "body", "stored"}
    /\ loads \in 0..MaxLoads /\ edited \subseteq Modules /\ overlap \in BOOLEAN

\* The modules that m imports under g, and the least set of modules that has m
\* and is closed under imports.
Direct(g, m) == {CanonicalId[g[m][i]] : i \in 1..Len(g[m])}
Closed(g, s) == \A n \in s : Direct(g, n) \subseteq s
Reachable(g, m) == {n \in Modules : \A s \in SUBSET Modules : m \in s /\ Closed(g, s) => n \in s}
OnCycle(g, m) == \E n \in Direct(g, m) : m \in Reachable(g, n)

\* An import that reaches an import cycle never yields a value, for any
\* interleaving with other loads and for cached modules too; nor does it recurse
\* for ever: no thread evaluates a module inside its own evaluation, by whatever
\* names.
NoValueFromCycle ==
    /\ \A r \in results : r[3] = "ok" => \A m \in Reachable(graph, r[1]) : ~OnCycle(graph, m)
    /\ \A t \in Threads : \A i, j \in DOMAIN stack[t] :
        Guarded(stack[t][i]) /\ Guarded(stack[t][j]) /\ stack[t][i].id = stack[t][j].id => i = j

\* spec.md: "CircularImport: #import cycle".  Unless threads load at the same
\* time, it is reported only where the module imported reaches a cycle of
\* imports, whatever an earlier import failed with.  (loading_modules does not
\* tell threads apart: a module another thread is loading is reported too.)
NoFalseCircularImport ==
    ~overlap => \A r \in results :
        r[3] = "circular" => \E m \in Reachable(graph, r[1]) : OnCycle(graph, m)

\* load_module "verifies the loaded module body against [the pin] before
\* exposing any bindings": what a pinned import yields was evaluated from the
\* text the pin names, if that is the text the Context first met.  (The body is
\* verified, but the value may come from the cache or the workspace pass.)
PinnedBindingsMatch ==
    \A r \in results :
        r[2] # NoVersion /\ r[3] = "ok" /\ r[1] \notin edited /\ workspace[r[1]] = NoVersion
            => r[4] = r[2]

\* Once cached, a module keeps its value for the life of the Context, whatever
\* happens to its file, unless two threads evaluated it at the same time.
CacheIsStable ==
    [][~overlap => \A m \in Modules : module_cache[m] # NoVersion =>
                                          module_cache'[m] = module_cache[m]]_vars
=============================================================================
