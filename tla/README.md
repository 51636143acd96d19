# Relon in TLA+

This directory holds TLA+ specifications of Relon, the configurations with which TLC checks them on
small instances, and proofs that TLAPS checks for instances of any size. Each definition that models
code is listed in `PROJECT.json` ("map") with the lines it stands for; this page says what is modelled,
how state and actions correspond to the code, what the checks and proofs show, and what is left out.

To run one check: `tlc -config ContextRun.cfg ContextRun`. To check proofs:
`tlapm ContextRunProofs.tla`.

## The system

Relon is an expression language for configuration and rules, embedded in Rust programs, with several
ways to execute a program.

| Part | Crates | In this directory |
| --- | --- | --- |
| Parser, formatter | relon-parser, relon-fmt | not modelled (pure functions of a text) |
| Analyzer: one file | relon-analyzer | not modelled (pure, sequential passes) |
| Analyzer: workspace | relon-analyzer/workspace_build.rs | `WorkspaceBuild`, `ImportCycles` |
| Host seam: Context, scopes, values | relon-eval-api | `ContextRun` and `SerialRuns` (runs), `ReferenceEval` (scopes, thunks) |
| Tree-walk evaluator | relon-evaluator | `ReferenceEval`, `ModuleLoad`, `RemoteImportCache`, `TreeWalkEval`, `TreeWalkText` |
| IR and lowering | relon-ir | `Ast`, `LowerCtx`, `LowerInfer`, `Lowering`, `IrCode`, `IrSlots`, `ListBodies`, `TextBodies`, `FoldBodies` |
| Cranelift backend | relon-codegen-cranelift | `Codegen`, `CompiledRun` (code), `NativeDispatch` (run time), `ObjectCache` (cold start) |
| LLVM backend | relon-codegen-llvm | `CodegenLlvm`, `CompiledRun` (code), `StepBudget` (its step counter), `StrContains` |
| Binary ABI | relon-abi | `AbiBuffer` |
| Unicode | relon-unicode | `UnicodeTables`, `TreeWalkText` |
| Capabilities, utilities | relon-cap, relon-util | not modelled |
| Compiled-object cache | relon-object-cache, relon-object-link | `ObjectCache` |
| Facade | relon | `AutoEvaluator` |
| Language server | relon-lsp | `LspServer` |
| CLI, WASM bindings, Rust bridge, harness, benches | relon-cli, relon-wasm-bindings, relon-rs-*, relon-test-harness, relon-*bench | not modelled |

How they interact: a host builds a `Context`, loads modules into it and starts top-level runs, from any
number of threads (`ContextRun`). A run evaluates dict entries lazily, following references
(`ReferenceEval`), and loads imported modules (`ModuleLoad`), remote ones through a cache on disk
(`RemoteImportCache`). The facade may instead compile the program on its first run (`AutoEvaluator`),
taking it from or leaving it in a cache of objects that processes share (`ObjectCache`), and dispatches
compiled code on pooled per-thread state (`NativeDispatch`, `StrContains`). What compiled code computes is
to be what the tree-walker computes (`CompiledRun`). Before any of that the
analyzer loads the workspace (`WorkspaceBuild`) and searches it for import cycles (`ImportCycles`); the
language server does so on every edit (`LspServer`).

Almost everything that is hard to test in Relon is in these seams: what two threads, two processes, a
crash, a stale cache, a nested call or a second run can do to state that outlives a call. `PROJECT.json`
("hazards") lists them, line by line, with the properties that would catch each.

## Modules

A `...Proofs` module holds the theorems of the component it is named for (`BackendProofs`: of `ObjectCache`
and `AutoEvaluator`). An `MC...` module gives a specification's constants their values, a `.cfg` selects the
bounds and the properties. Names are the code's wherever TLA+ allows it. A definition above another that is
the same but for one flaw (`ClaimUnchecked` above `Claim`) is a mutant: `PROJECT.json` pairs each property
with one that must violate it, which shows that the property can fail.

### ContextRun, SerialRuns, ContextRunProofs

`relon-eval-api/src/context.rs`, `relon-evaluator/src/eval.rs`. State: `slot` is `top_level_run_slot`,
`step_counter`, `cache` (`path_cache` by namespace), `closure_calls`, `cursors` and `iter_ids`
are the counters and maps of the same names; `pc` says where a thread is between two critical sections. Each
action is one critical section or one atomic operation: `Claim`, `Wait`, `Reenter` are the branches of
`begin_top_level_run`, `DropClear` and `DropNotify` the two steps of the guard's drop, `ResetSteps`,
`ResetPathCache`, `ResetIterCursors` the head of `eval_root` and `run_main`, then what a body may do.
`SerialRuns` is the abstract view: one run at a time, with a budget each. `ContextRun` implements it
(`RefinesSerialRuns`).

Left out: of the entries that do not reset, only `invoke_closure` is modelled; a run started from within
a closure the host has called is not; thunks captured by a closure are taken to be forced before it
leaves its run.

Fairness: weak fairness of each thread's own steps inside a run. Hosts need not call, bodies need not
return and wake-ups may be spurious, so `RunsEnd` is the budget's doing. That waiters get the slot
(`WaiterRuns`) relies on runs being finite in number: a Mutex and Condvar are not fair, and an endless
supply of competitors could starve a thread. CHECK_DEADLOCK is FALSE since hosts may stop calling.

### ReferenceEval, ReferenceEvalProofs

`relon-evaluator/src/reference.rs` and the Dict arm of `eval_internal`. The machine stack is a variable: a
frame for each dict materialised, thunk forced and reference walked. `thunks` holds values per level (the
scope a dict is materialised in, the pinned root scope, and a new synthesized scope for each reference met
below it), `evaluating_paths` and `path_cache` are shared by all levels as in the code. `Docs` ranges over
every document of a small tree. Verdicts are compared with the cycles of the document itself
(`NoMissedCycle`, `NoFalseCycle`). A host function may panic; `leaked` is a history of the paths a panic has
left in `evaluating_paths`, and the properties say that those paths are all that differs afterwards. Left
out: lists with `&next` and `&prev`, bare `&root`, optional segments, dynamic keys, spreads, the step limit.

Fairness: weak fairness of the evaluator's next step. A run stops when it is over, so deadlock is not
checked.

### ModuleLoad, ModuleLoadProofs

`load_module`, `evaluate_module_source` and the loading guard. A module's value is the version of the text
it was evaluated from. Locks are taken around single accesses, so every access is a step and threads
interleave between them; files may be replaced at any time (`EditFile`, external). Two names may lead to
one module. `overlap` and `edited` are histories (two threads were inside loads at once, a file was
replaced): `NoFalseCircularImport` and `CacheIsStable` are promised to loads that do not
overlap, `PinnedBindingsMatch` to files that stay as they are; the rest holds without conditions.
Safety only: with a state space of this size liveness is out of TLC's reach.

### RemoteImportCache, RemoteImportCacheProofs

The two files of an entry, written in place: a write is a truncation and a fill, and each is a step of its
own. A text is a version, whole or cut off. `Publish`, `Expire`, `Crash` are the environment. With two
processes a schedule in which each entry expires exactly between the other's steps keeps a cut-off body
alive, so `CutOffBodiesGo` is about behaviours in which one process is left in the end
(`OneProcessLeft`). Fairness: weak of a load's own steps and of some process loading again, strong of
`Expire`: time passes.

### AutoEvaluator

The two `OnceLock` slots and the unlocked build between reading and setting them. `settled` is a history of
what a call could see at its start. A host error is remembered for the life of the evaluator, like a
declined shape; the difference is only what is done with it (`OneEvaluator`).

### ObjectCache, BackendProofs

A cold start as the system calls it makes on the key file and the three files of an entry, by several
processes, with at most `MaxFaults` faults of any kind at any place. A tag is the key and the body it was
computed from. Left out: temporary names are taken to be distinct (process id and nanoseconds), orphaned
temporary files, a failing lowering, and the handles of the memfd loader. File names hash source and
generator version, so metadata mismatches cannot come from the same entry.

`cleaned` is a history of the key file having been removed or damaged, the one case in which there is
a second key (`OneKey`).

Fairness: weak fairness of a process's own steps. `BusySpec` adds that processes start again and again;
it is there for two claims below ("Where code and words disagree") that are about a cache in use.

### StrContains

The slot's three atomics, each load and store a step, two threads, arenas that are laid out anew by every
dispatch. Only sequentially consistent interleavings are explored; Relaxed atomics allow more, so what is
found here is found there too, and the passing property is about calls that do not overlap. Texts are
taken to be valid UTF-8. The copy in `relon-rs-shims` is the same code.

### NativeDispatch, NativeDispatchProofs

A dispatch takes a box from the thread's pool or makes one, refreshes it from its evaluator's template,
borrows the arena, runs, and gives both back; a host function may dispatch again. What machine code does
between its guards is free choice. One thread is enough: boxes, arenas and stacks are thread-local, and
`set_deadline` and `install_capabilities`, the only way threads meet, are environment actions that happen
at any time. Left out: a panic of a host function (it aborts at the `extern "C"` boundary), the raw-pointer
`CallNative` path, sandbox configurations other than the default one.

Fairness: the clock ticks, dispatches take their own steps, and a loop that goes on passes its check
again and again (strong fairness of `LoopCheck`, since other steps may disable it in between).

### ImportCycles

`detect_cycles`. The calls of `dfs` on the machine stack are `stack` and `edge` (which edge a call is at). The
outer loop runs over a hash map, so `Start` takes any white vertex. `rank` and `clock` are history: when a
vertex turned black. Reports are a set, as the code keeps them from repeating.

### WorkspaceBuild, WorkspaceBuildProofs

`build()` up to cycle detection, which is `ImportCycles` by INSTANCE over the graph built. An import has a
target and a fate (`ok`, `refused` before the load, `mismatch` after it). The queue of the code is in the
order of module ids and, within a module, of its imports; it is kept as a set here and `First` is its head.
A level's jobs finish in any order
and are merged in the order of ids. Left out: the passes over the finished tree, two paths that lead to the
same module (the dedup they exercise is the one equal paths exercise), imports without a static path, and
`LoadError::Other`, which takes the way of `NotFound` under another name.

### LspServer, LspServerProofs

A message is a step, as the server is single-threaded and a client applies what it is sent in order. Files
change on disk between messages (`ChangeDisk`, external). What a workspace pass finds is defined from what
`WorkspaceBuild` establishes: the modules reached, a missing import reported once, a broken module blamed
on one import of it (any), cycles reported when there are some (any non-empty part). Spans are `At[f]`
and the import's number, so a configuration decides whether two files' spans can be equal. The model has
no bound on the number of messages. Left out: URIs that differ for one file, imports recovered from a text
that does not parse, requests that only read.

### Compiled programs

`CompiledRun` takes a `#main` through the compiler and runs the result. Its parts, from the source down:

- `Ast` has the expressions of `relon-parser/src/token.rs`.
- `LowerCtx`, `LowerInfer` and `Lowering` are `relon-ir/src/lowering`: the context threaded through, what is
  concluded of types before anything is lowered, and the lowering of each form, with the attempts it makes and
  takes back, what it refuses and what it rewrites.
- `IrCode` is the code it lowers to: structured control and statements over lets, the operand stack between
  two writes. `Codegen` and `CodegenLlvm` say what either generator makes of an operation that touches memory;
  the second only where it differs (inlined bodies, appends in place, known lengths, closures called directly,
  the fast entry).
- `ListBodies`, `TextBodies` and `FoldBodies` are the bodies of the library, statement by statement, over
  the slots of `IrSlots` and the tables of `UnicodeTables`, an excerpt of the generated ones in their layout.
- `AbiBuffer` lays out records, writes arguments, relocates and reads results, in bytes.
- `CompiledCode` puts the functions together, `CompiledRun` executes them: one statement of the running
  activation is a step. `mem` is the arena; a byte nobody wrote is absent from it and reading it is an error,
  so uninitialised memory never has a convenient value.
- `TreeWalkEval` and `TreeWalkText` are the other evaluator, as operators: the oracle.

A run chooses a program, its arguments, a backend, a size of the scratch region and a step budget; everything
after that is determined. Numbers of 64 bits are scaled down to `MinInt .. MaxInt` and trap at the ends as the
code does; floats are exact up to `ExactInt`, so that both edges are met by small numbers.

Where compiled code and tree-walker are known to part (22 programs, below), `CompiledAgrees` keeps to the
programs that avoid it, or to answers given before it: `unaligned` (a record was copied from an address its
type is not aligned at), `Outgrown` (the tail went past the output), `clamps` (a substring whose bounds the
compiled library refuses and the tree-walker clamps). A step budget is counted where generated code counts it
(`StepBudget`, whose steps `CompiledRun` takes and whose specification it implements: `KeepsTheBudget`);
the fast entry, a `#main` from integers to one integer, has no such place and passes no step.

## Runs

Every run is an instance chosen so that the cases it is about happen: at least two of whatever can get in
each other's way, one more event than a single round takes, and both outcomes of everything that may fail.
Bounds have names (`Max...`) and are in guards. `TypeOK` of each module gives the shape of its state; it
holds in every instance below, and is proved for `ContextRun`, `ImportCycles`, `RemoteImportCache` and
`NativeDispatch`, but no run spends itself on it. The runs marked *violation* show disagreements between the
code and a sentence in its comments or docs, which "findings" in `PROJECT.json` quotes.

| Run | Configuration | Properties | What it shows |
| --- | --- | --- | --- |
| context_runs | `ContextRun.cfg` | RunsExcludeEachOther, BudgetCannotBeEscaped, CacheHitsAreOwn, IteratorsDeliverOnce, WaiterRuns, RunsEnd, RefinesSerialRuns | Three threads share one Context: top-level runs queue for the one slot and host-held closures run beside them. Whatever the order, runs do not overlap, no run charges more than its budget, cached values stay inside their run, a spent iterator stays spent, a waiting thread gets the slot, every run ends, and the protocol implements one run at a time. |
| references | `MCReferenceEval.cfg` | NoMissedCycle, NoFalseCycle, InternalStaysInside, RunsTerminate | Two runs of every document over a tree of dicts, with native functions that may fail or panic: cycles are reported exactly where the document has them (unless an earlier run panicked), #internal fields stay inside, and every run ends. |
| modules | `MCModuleLoad.cfg` | NoValueFromCycle, NoFalseCircularImport, PinnedBindingsMatch, CacheIsStable | Two imports, by one thread or two at a time, with absent and invalid files, pins, a file that is replaced and a workspace that holds another text: no thread evaluates a module inside itself, cyclic modules get no value, an unedited file gives what its pin names, and imports that do not overlap report circles only where there are some and keep what is cached. |
| auto_dispatch | `AutoEvaluator.cfg` | BuiltIsForGood, OneEvaluator | Three threads race their first run_main calls on one AutoEvaluator, with builds that succeed, decline the shape or fail in any combination: one evaluator wins, later calls stay on the compiled backend, and only a declined shape is run by the tree-walker. |
| object_cache | `MCObjectCache.cfg` | CachedProgramIsWhole, OneKey, CacheHeals | Two processes with different linkers start cold on one cache entry while a crash, a power loss, a removal of the key or an I/O failure happens anywhere: a process only runs a cached object with the sidecar made for it, racing creators agree on one key, and when one process is left the entry becomes whole and stays so. |
| remote_imports | `RemoteImportCache.cfg` | ConfirmedTextIsCurrent, ValidatorNamesTheBody, CutOffBodiesGo | Two processes use the files of one remote import while the origin publishes a new version, entries expire and a process may crash: a text the origin confirmed is the current one, a validator never stands beside another text, and with one process left a cut-off body is replaced. |
| torn_cache_slot *(violation)* | `MCStrContains.cfg` | TornSnapshotsOnlyMiss | Two threads whose updates of the slot interleave leave the addresses of one with the result of the other, and the next hit returns it. |
| native_dispatch | `MCNativeDispatch.cfg` | DispatchesDoNotShare, DispatchSeesItsEvaluator, OutcomeIsOwn, DeadlinesCutPrograms | Dispatches of two evaluators on the pooled state of a thread, nested through host functions, with lambdas, traps, deadlines and grants that change between and during them: every dispatch works on its own evaluator's settings and reports its own outcome, and a program that would never end is cut off. |
| workspace | `MCWorkspaceBuild.cfg` | EveryModuleIsLoaded, ImportsAreAccountedFor, CircularImportsAreReported | Workspaces of three files with broken texts, paths that lead nowhere and pins that are refused or do not match: the pass loads what is reachable and nothing else, accounts for every import, keeps edges and imports aligned (unless a failed pin precedes a good import of its path) and reports circles exactly when there are some, each as a chain of imports that ends where it began. |
| language_server | `MCLspServer.cfg` | NoLeftovers, MissingImportsAreShown, GotoAfterOwnPass | Two files, opened, edited, closed and changed on disk without end in any order: the client never shows a leftover of an earlier pass, missing imports show at the import that misses, and go-to-definition is right after a pass of the document's own. |
| compiled | `MCCompiledRun.cfg` | NoWildAccess, LoopsEnd, BudgetIsExact, CompiledAgrees, KeepsTheBudget | Programs over every form the lowering accepts are lowered, generated for both backends and run statement by statement, on all their inputs, with little and with ample scratch memory and under step budgets: code touches only memory it owns and only reads what was written, every loop ends, a budget is spent to the last step and no further, the code keeps to the protocol of the step budget, and what a dispatch answers is what the tree walker answers. |
| disagreements *(violation)* | `MCDisagreements.cfg` | MatchesTheOracle | Twenty-two programs for each of which the compiled code and the tree walker part: TLC stops at the first one it meets; give Programs a single element of DisagreeingPrograms to see another. |

Bounds, and why they are enough:

| Run | Instance | States | Why it is enough |
| --- | --- | --- | --- |
| context_runs | 3 threads, budget 1, ticks of 1 and 2, 3 runs or closure calls in all | 201,004 | a holder, a waiter and a host-held closure at once; a tick that lands on the budget and one that jumps over it |
| references | a nested tree of dicts, every document over it, 2 runs | 387,576 | references within a dict, into and out of a nested one; a second run to meet what the first left |
| modules | 2 threads (interchangeable, hence SYMMETRY), 2 modules under 3 names, 2 imports, 1 edit | 2,080,804 | self-imports, mutual imports, aliases, and one load that overlaps or follows another |
| auto_dispatch | 3 threads, 4 calls | 247,991 | three racing builds with three different outcomes, and a call after them |
| object_cache | 2 processes with different linkers, 1 fault | 85,471 | every point of one cold start against every point of another, and the fault at any of them |
| remote_imports | 2 processes, 2 versions at the origin, 1 fault | 207,798 | a writer, a reader, and a text newer than the one either has |
| torn_cache_slot | 2 threads, 2 addresses, 4 texts | (stops) | two calls that overlap are all it takes |
| native_dispatch | 1 thread, 2 evaluators, depth 2, 3 calls, clock to 3 | 216,450 | a box and an arena that go from one evaluator to the other, nested and one after the other |
| workspace | 3 files, up to 2 imports | 423,460 | diamonds, cycles, an import repeated with another fate, two files that never meet; the proofs cover any size |
| compiled | 122 programs, each on all its inputs, both backends, 20 or 2000 bytes of scratch, budgets 0 to 6, the last beyond the counter | 518,841 | every form the lowering takes and every body of the library; scratch that runs out at any allocation; the values at which 64-bit integers and floats change their ways |
| language_server | 2 files, 1 import each, any number of messages | 63,241 | one document's pass against the other's; the state space is closed without a bound on events |

Deadlock is checked where the system never stops by itself (`ObjectCache`, `RemoteImportCache`); elsewhere hosts may
stop calling, a search is over, or the bound on calls is reached, and the configuration says so.

## Where code and words disagree

Modelling met several places where the code does not do what a comment or a page of the docs says.
The sentence is in each case a definition of the module named.

Shown by a run of its own:

- `StrContains!TornSnapshotsOnlyMiss`, `src/crates/relon-codegen-llvm/src/str_helpers.rs:276`. str_contains_arena_slow stores haystack, needle and result one by one, so the stores of two threads interleave to a slot that pairs the operands of one with the result of the other, and ic_hit_slot then returns that result for those operands. src/crates/relon-codegen-llvm/src/str_helpers.rs:142-144 says "Relaxed atomics are sufficient — a torn (haystack, needle, result) snapshot across threads only triggers extra misses, never a wrong answer" (and src/crates/relon-rs-shims/src/shims.rs:70-72 the same of its copy).

Stated in a passing run with the condition under which it does hold:

- `ReferenceEval!NoFalseCycle`, `src/crates/relon-evaluator/src/reference.rs:908`. force_thunk inserts into evaluating_paths and removes after eval returns, without a guard (src/crates/relon-evaluator/src/reference.rs:903-915), so a panic in a native function leaves the key behind and the next run on the Context reports CircularReference for an acyclic document. src/crates/relon-evaluator/src/eval.rs:234-235 says "`evaluating_paths` is per single eval cycle and is already managed by the resolver; don't touch it here", and src/crates/relon-eval-api/src/context.rs:526-527 says recovering after a panic "keeps the Context usable instead of bricking every later run". The property excludes this case with `leaked`.
- `ModuleLoad!NoFalseCircularImport`, `src/crates/relon-evaluator/src/eval.rs:1458`. evaluate_module_source refuses a module that any thread is loading, so of two threads that import the same module on one Context through the non-resetting entry points one may get CircularImport although no module imports itself. src/docs/en/guide/spec.md:283 says of `CircularImport`: "`#import` cycle". The property excludes this case with `overlap`.
- `ModuleLoad!PinnedBindingsMatch`, `src/crates/relon-evaluator/src/eval.rs:1422`. load_module compares the pin with the text just read, then evaluate_module_source returns the value module_cache kept of an earlier text of the same file, which the pin does not name. src/crates/relon-evaluator/src/eval.rs:1294-1295 says "The evaluator verifies the loaded module body against it before exposing any bindings". The property excludes this case with `edited`.
- `WorkspaceBuild!ImportsAreAccountedFor`, `src/crates/relon-analyzer/src/workspace_build.rs:532`. prelude_import rewrites the first edge that still equals the raw path. When an import with a refused or mismatched pin comes before a good import of the same path, its slot gets the id and the good import's slot keeps the raw path. build_import_index says (src/crates/relon-analyzer/src/workspace_build.rs:921) "`tree.imports` and `edges` are walked in lockstep — the workspace build pass rewrote each `import_graph[importer]` entry to the canonical id of the resolved module, in source order, so the i-th import's resolved target is `edges[i]`. Imports that failed to resolve still occupy the slot (with the raw path), but their module won't be in `ws.modules`." The property excludes this case with `PathAfterFailedPin`.

In no run; put in the configuration of its module, TLC refutes it:

- `ReferenceEval!ParametersAlwaysBound`, `src/crates/relon-evaluator/src/reference.rs:574`. For `#main(Int n) { a: &sibling.b, b: &sibling.c, c: n }` the run fails with VariableNotFound: the second reference is walked in a synthesized root scope whose parent is parent_fallback, None for an entry document, while `{ c: n, b: &sibling.c, a: &sibling.b }` evaluates, because there each reference finds the previous one in path_cache. src/crates/relon-evaluator/src/reference.rs:2-3 says of the module "the lazy-thunk machinery that keeps the dict-evaluation order independent of declaration order".
- `ReferenceEval!SiblingsAreVisible`, `src/crates/relon-evaluator/src/reference.rs:632`. For `#internal d: { y: 1, z: &sibling.y }` the walk to d.y starts with owning_depth Some(1), so the step into d itself is blocked as private and the reference fails with VariableNotFound, although y is an ordinary field beside z. src/docs/en/guide/modules.md:190 says "`&sibling`: same-level scope".
- `ReferenceEval!EntriesEvaluatedOnce`, `src/crates/relon-evaluator/src/reference.rs:605`. Every walk of a reference prepares the dict scope again and registers new thunks, so an entry is evaluated once for the reference and once for the materialised dict, native calls in it included. src/crates/relon-eval-api/src/scope.rs:420-423 says of Thunk "A lazily-evaluated dict entry. The first access [...] caches the result in `value`; later accesses return the cached value".
- `AutoEvaluator!PipelineRunsOnce`, `src/crates/relon/src/auto_evaluator.rs:236`. aot() reads both slots, runs build_aot and sets a slot without a lock around the three, so each of several concurrent first callers runs the whole pipeline and all but one result is dropped. src/crates/relon/src/auto_evaluator.rs:17-19 says "Both the success and failure paths are cached in `OnceLock`s, so concurrent `run_main` callers only ever drive the AOT pipeline once."
- `ObjectCache!CacheSettles`, `src/crates/relon-codegen-cranelift/src/evaluator.rs:448`. from_cache_dir removes all three files when the sidecar is absent, also while another process is between storing the object and storing the sidecar; two processes that keep starting in step remove each other's files for ever. src/crates/relon-codegen-cranelift/src/evaluator.rs:575-577 says the files are dropped "so the next cold start re-emits a consistent triple". (With `SPECIFICATION BusySpec`, `LinkerOutput <- SameLinker` and `MaxFaults = 0`.)
- `ObjectCache!SkippingEnds`, `src/crates/relon-object-cache/src/hmac.rs:99`. ensure_key creates the key file and then writes it; a crash in between leaves a short file, which load_key refuses (BadSize) on this and every later call and which no caller removes. src/crates/relon-codegen-cranelift/src/object_cache_integration.rs:256-257 says "The cold-start cost of skipping the cache is bounded by the first call only." (With `SPECIFICATION BusySpec` and `Faults = {"crash"}`.)
- `ObjectCache!DeletesOnlyOffending`, `src/crates/relon-codegen-cranelift/src/object_cache_integration.rs:525`. try_load_from_cache removes the file by name some time after it read and rejected it, by which time another process may have renamed a valid object there. src/crates/relon-codegen-cranelift/src/object_cache_integration.rs:463-464 says "the offending file is deleted so the next call rebuilds from scratch".
- `RemoteImportCache!ServedTextsAreWhole`, `src/crates/relon-evaluator/src/module.rs:405`. write_body truncates and fills the body file in place and the meta file comes after it, so a load that finds the body file before the meta file is there (another process is writing, or died while writing) makes a meta file for whatever it read and serves it as fresh. src/crates/relon-evaluator/src/module.rs:291-293 says "writes are best-effort — a cache miss after a successful fetch is non-fatal, the next run simply re-fetches".
- `StrContains!SamePointersSameAnswer`, `src/crates/relon-codegen-llvm/src/str_helpers.rs:238`. The slot outlives a dispatch while the arena of the thread is pooled and laid out afresh by each dispatch (src/crates/relon-codegen-llvm/src/evaluator.rs:1387-1391), so equal addresses may hold other records and a hit answers for the earlier ones. src/crates/relon-codegen-llvm/src/str_helpers.rs:139-142 says "if `(haystack_ptr, needle_ptr)` match the slot's stored pointers, the cached `i32` is correct regardless of which thread last wrote it (same pointers → same arena records → same `contains` answer)". (With `MaxDispatches = 2`.)
- `NativeDispatch!DeadlineIsPerCall`, `src/crates/relon-codegen-cranelift/src/sandbox.rs:899`. now_helper measures from the epoch of the template, taken when the evaluator was built, so a deadline of d is over for every call that begins d after construction. src/crates/relon-codegen-cranelift/src/evaluator.rs:1142 says "Configure the per-call wall-clock deadline."
- `NativeDispatch!NoArenaIsNone`, `src/crates/relon-codegen-cranelift/src/sandbox.rs:702`. refresh_from_template leaves arena_base, arena_len and the cursors of the parked box, and invoke_legacy_entry (evaluator.rs:1332) installs no arena after it. src/crates/relon-codegen-cranelift/src/sandbox.rs:694-696 says "The `UnsafeCell` arena / scratch fields are zeroed by `install_arena` immediately afterwards, so we don't touch them here."
- `NativeDispatch!TrapClassIsReported`, `src/crates/relon-codegen-cranelift/src/codegen/closure.rs:214`. The trap block of a lambda stores the code and returns a zero (codegen/mod.rs:828-848), emit_call_closure pushes what the lambda returned without loading the trap code, and a guard the caller then fails overwrites the code. src/docs/en/guide/diagnostics.md:57-58 says "Compiled backends may only know that a guard trapped. In that case the diagnostic should still identify the trap class".
- `LspServer!SyntaxErrorsAreShown`, `src/crates/relon-lsp/src/workspace.rs:302`. The error of an entry that does not parse carries the span (0, 0); no import owns it and attach_workspace_diag returns, so the document with the syntax error is published with an empty list. The comment on attach_workspace_diag (src/crates/relon-lsp/src/workspace.rs:243) says of ModuleParseError: "annotate the importer whose `#import` directive owns the diagnostic's range. Falls back to the entry if no match is found".
- `LspServer!MissingImportsAreShown`, `src/crates/relon-lsp/src/workspace.rs:383`. find_owning_module takes the first module, in the order of a hash map, that has an import with the byte span of the diagnostic; another module's import may have the same span. The comment (src/crates/relon-lsp/src/workspace.rs:243) says: "annotate the importer whose `#import` directive owns the diagnostic's range". (With `At <- SamePlace`.)
- `LspServer!GotoLeadsToTheImport`, `src/crates/relon-analyzer/src/goto_def.rs:621`. import_path_target looks the number of an import of the buffer up in the graph of whatever workspace was built last; after a pass over another document that graph comes from the file on disk. GotoTarget::ImportPath (src/crates/relon-analyzer/src/goto_def.rs:40) says of canonical_id: "Canonical id if the workspace resolved this import".
- `LspServer!FailedImportsHaveNoId`, `src/crates/relon-analyzer/src/goto_def.rs:624`. The graph keeps the raw path of an import that did not resolve, and import_path_target returns it as the canonical id. GotoTarget::ImportPath (src/crates/relon-analyzer/src/goto_def.rs:40) says: "`None` when no workspace was supplied or the resolution failed."

## Proofs

TLAPS proves the following for every value of the constants that satisfies the assumptions of the module that
declares them: numbers are naturals (`ContextRunAssumption` adds positive ticks and a cap above the budget),
sets of documents, graphs and workspaces have the shape of documents, graphs and workspaces, threads are
finitely many where they are counted (`ModuleLoad`). Nothing is assumed of how many there are of anything.

| Module | Theorem | Establishes |
| --- | --- | --- |
| ContextRunProofs | TypeCorrect | The shared state of a Context keeps its type for any number of threads and any bounds. |
| ContextRunProofs | MutualExclusion | Top-level runs on one Context never overlap, for any set of threads. |
| ContextRunProofs | BudgetHolds | No interleaving of runs and closure calls lets a run charge more than max_steps. |
| ContextRunProofs | CacheIsolation | A path_cache hit is always a value of the same run or the same closure call. |
| ContextRunProofs | IteratorsOnce | An iterator whose cursor a run start removed never yields again. |
| ContextRunProofs | Refinement | The slot protocol with its resets implements serial runs with a budget each. |
| WorkspaceBuildProofs | TypeCorrect | The state of the cycle search stays well formed for every import graph. |
| WorkspaceBuildProofs | Soundness | For every import graph, each chain detect_cycles reports is a closed walk along import edges. |
| WorkspaceBuildProofs | Completeness | For every import graph and every order of starting vertices, detect_cycles ends with a report exactly if the graph has a cycle. |
| ReferenceEvalProofs | NoCycleHasAValue | For every tree of dicts and every document, a run ends with a value only if no entries demand one another in a circle, whatever thunks, levels of root scopes and cached references it went by. |
| ReferenceEvalProofs | CyclesAreReal | For every tree of dicts and every document, CircularReference is reported only where entries demand one another in a circle, unless a panic left paths in evaluating_paths. |
| ReferenceEvalProofs | InternalFieldsStay | For every document no reference is answered past an #internal field of a dict around which it does not stand, neither by a walk nor from path_cache. |
| ModuleLoadProofs | CyclesHaveNoValue | For any modules, texts and threads, an import that reaches an import cycle never yields a value, and no thread evaluates a module inside its own evaluation. |
| ModuleLoadProofs | CircularImportIsReal | For any modules and texts, CircularImport is reported only for an import that reaches a cycle, as long as loads of different threads do not overlap. |
| ModuleLoadProofs | PinsAreKept | For any modules, texts and threads, what a pinned import yields was evaluated from the text the pin names, for a file that was not edited and that the workspace pass did not read. |
| ModuleLoadProofs | CachedForGood | No step changes the value of a cached module, as long as loads of different threads do not overlap. |
| BackendProofs | BuiltForGood | For any number of threads and calls, a call that begins once a build has succeeded runs on the compiled backend. |
| BackendProofs | SharedEvaluator | For any number of threads and racing builds, all calls on the compiled backend share one evaluator, and only trivial or declined programs are on the tree-walker. |
| BackendProofs | CachedProgramsAreWhole | For any number of processes and faults, a program run from the cache has an object and a sidecar sealed under the key the process read, the sidecar for that very object. |
| BackendProofs | KeysAgree | For any number of processes that race to create the key file, all that hold a key hold the one in the file, as long as nobody removes it. |
| BackendProofs | BudgetIsSpentExactly | For every limit and every program that keeps to the protocol of the step budget, exactly that many checks pass (i64::MAX at most) and the next one stops the dispatch. |
| RemoteImportCacheProofs | TypesHold | The files, the origin and the processes keep their types for any bounds. |
| RemoteImportCacheProofs | ConfirmedIsCurrent | For any number of processes, versions and faults, a text the origin sent or confirmed with a 304 is the text it had when it answered. |
| RemoteImportCacheProofs | ValidatorsStayWithBodies | No interleaving of store, refresh, synth_meta and removal leaves a validator beside the digest of another text. |
| NativeDispatchProofs | TypesHold | Dispatches, boxes and pools keep their types for any number of threads and evaluators. |
| NativeDispatchProofs | NothingIsShared | For any number of threads and any depth, two dispatches under way on a thread have different boxes and arenas, and the box of neither is parked. |
| NativeDispatchProofs | OwnTemplate | From its entry to its return a dispatch sees the deadline, epoch, closures, arena and grants of its own evaluator. |
| NativeDispatchProofs | OwnOutcome | dispatch_post reports an error exactly for a dispatch in which a trap was raised. |
| WorkspaceBuildProofs | LoadsWhatImportsReach | For any files, imports, pins and order of workers, build() loads exactly the modules that imports reach from the entry. |
| WorkspaceBuildProofs | AccountsForImports | For any workspace, every import of a loaded module leads to a module or has its one diagnostic, a module that does not parse is blamed on one import, and the edges line up with the imports. |
| WorkspaceBuildProofs | ReportsCircularImports | For any workspace, every reported chain is a circle of imports between the files, and a finished build has reported one exactly if the loaded modules import each other in a circle. |
| LspServerProofs | NothingIsLeftOver | For any files, texts and order of edits, closes and changes on disk, the client shows only what the latest pass found, at URIs the server knows it has to clear. |
| LspServerProofs | ShowsMissingImports | For any workspace in which no two files have imports at the same place, after a pass every loaded module shows exactly those of its own imports that lead nowhere. |
| LspServerProofs | GoesToTheImport | For any workspace, go-to-definition on an import of the document analysed last gives the imported file, as long as the files are as they were. |

None of these properties is inductive. Each `...Proofs` module defines the stronger invariant `Inv` (`IInv` in
`ContextRunProofs`), shows that the initial states satisfy it and that every action preserves it, one lemma
per action, and derives the properties. What the invariants add:

*ContextRun.* The slot names exactly the thread whose `pc` is inside the guarded region (`SlotOwned`), what a
run has been charged is in the counter it has reset (`SpentCounted`), closure namespaces are drawn one by one
and belong to one call each (`FreshEmpty`, `CallsDistinct`, `CallsOwn`, `RootOwn`), and a live cursor counts
what its iterator has handed out (`LiveCursors`, `UndrawnIds`, `MintedIds`). The refinement maps the slot to
the abstract holder; the steps of the protocol that only prepare are stutters.

*ReferenceEval.* A path is *grounded* if it is in every set that has a path whenever it has all the path asks
for: its evaluation can end. Thunks and `path_cache` only ever hold grounded paths, and what a frame has been
through is grounded (`FrameOK`), so a value of the root means that everything is grounded, and then nothing is
circular: a circle has no grounded member. For the other direction the stack is a chain in which each frame
evaluates or walks to what the one below waits for (`StackOK`), and without leaks `evaluating_paths` has
the paths of the thunk frames, each once (`Evaluating`); so a path met again closes a circle of the document.
Levels of thunks follow the walks on the stack (`Lvl`).

*ModuleLoad.* Cached modules are closed under imports, and each set of them has one that imports none of the
set (`Settled`): they can be evaluated in some order, hence none meets a cycle, whatever threads cached them.
`loading_modules` counts the threads that have a module under way (`Counted`). Without overlap one thread at
most is busy, what it is loading is not cached, and what it reports as circular it has below itself
(`NoOverlap`). Of a file that is not edited, every frame, result and cache entry has the one version
(`Unedited`).

*StepBudget.* Of a budget of n, what the counter holds is n less the steps taken, or the mark once that is 0
(`BudgetInv`). The theorem is about `BudgetSpec`, which lets everything but the check do anything that leaves
counter and limit alone; that compiled programs keep to it (`KeepsTheBudget`) is checked by TLC.

*AutoEvaluator.* Calls on the compiled backend have the build in the success slot (`SlotIsShared`); a call
that saw the slot filled never leaves the branch that finds it (`SettledCalls`).

*ObjectCache.* What a cold start has read so far is sealed under the key it holds, and the sidecar it accepted
is for the object it holds (`Coherent`); until somebody removes the key file, it has the key of all who hold
one and belongs to whoever is about to write it (`KeyIsShared`).

*RemoteImportCache.* Every meta file that exists, is held by a process or is about to be written has a
validator of the text whose digest it has (`SoundMetas`, `SoundWrites`), and the text a process has is the
one its meta file has the digest of (`Coherent`).

*NativeDispatch.* Dispatches of a thread have boxes and arenas that differ pairwise, the parked box is no
one's, all but the innermost dispatch wait for a host function, and the box of a dispatch in machine code is
filled for it (`ThreadOK`, `Serves`). That a free box exists is the pigeonhole principle.

*ImportCycles.* (In `WorkspaceBuildProofs`, for its own specification and for its use in the build.) Soundness
needs that the stack is a path along the edges the calls are at (`StackIsPath`). Completeness is the argument
from finishing times: gray is on the stack and no other vertex is (`GrayIsStacked`), edges a call has passed
lead to black vertices or were reported (`PassedIsBlack`), and with nothing reported an edge of a black vertex
leads to one that turned black earlier (`BlackIsRanked`). If a search ended with nothing reported on a graph
with a cycle, the vertex of least rank on the cycle would have an edge to one of lower rank.

*WorkspaceBuild.* The imports of loaded modules are in the queue, in the level or dealt with. Of those
dealt with: what they lead to is loaded or has a job, and every set closed under imports has it (`Reached`);
those that lead nowhere have their diagnostic and there are no others (`DiagsOK`); an edge is still the path or
is the id of a module an import of that path led to, and is exactly where its import leads unless a failed
pin precedes (`EdgesOK`). When queue, level and jobs are empty these become the three properties; the third
also needs that the files import each other in a circle exactly if the graph of ids has one, and the theorems
of `ImportCycles`.

*LspServer.* Until a file changes or a document is closed, what the latest pass sent is the outcome of a pass
over the files as they are (`ShowsThePass`), and the graph that is kept is its graph as long as the document
is open (`KeepsTheGraph`); an answer is dropped with the next step (`AnswersFromTheGraph`). That
`MissingImportsAreShown` needs files whose imports are at different places is a hypothesis of its theorem:
`map_workspace_to_lsp` has nothing but the span to find the file of a diagnostic.

Two remarks on form. The provers cannot instantiate a theorem over an operator, so induction over numbers is
done with sets: every nonempty set of naturals has a least element (`LeastNat`, `NatMinimum`). And modules with
proofs extend few library modules (one-line helpers such as `Front` are defined where they are used), since
every definition in scope is carried through every obligation.

Model-checked only:

- liveness (`WaiterRuns`, `RunsEnd`, `RunsTerminate`, `CacheHeals`, `CutOffBodiesGo`, `DeadlinesCutPrograms`):
  fairness and ENABLED are outside of what TLAPS does;
- what the code of a program computes and touches (`CompiledAgrees`, `NoWildAccess`, `LoopsEnd`): lowering and
  evaluation are recursive operators, and what such an operator computes for every program is beyond the provers;
- that `CompiledRun` takes no step on the counter but those of `StepBudget` (`KeepsTheBudget`), for the same reason.
  `BudgetIsExact` is proved of every behaviour of `StepBudget`, and the run shows that the code's behaviours are
  such.

## Next

1. Lists with `&next` and `&prev` (a module beside `ReferenceEval`): elements are forced without the
   `evaluating_paths` check.
2. The remaining passes of the workspace build: schema-method propagation to a fixed point, cross-module
   collisions, capability reachability against the run-time gate (relon-cap).
3. The loader's handles (memfd, dlopen) along its early returns.
4. Compositions: `AutoEvaluator` over `ObjectCache`; `ContextRun` with `ModuleLoad`.

## Not modelled

`PROJECT.json` ("components") gives the reason for each part. In short: parser, formatter and the single-file
passes of the analyzer are pure functions of one text or tree; glue (CLI, bindings, build scripts) has no
state; tables are generated.
