----------------------------- MODULE ContextRun -----------------------------
(***************************************************************************)
(* The state of a Context that its top-level runs share, and the protocol  *)
(* that serialises those runs: begin_top_level_run and TopLevelRunGuard    *)
(* (relon-eval-api/src/context.rs), the resets at the head of eval_root    *)
(* and run_main, and the operations of a running body that touch the       *)
(* shared state: step charges, closure calls with their cache namespace,   *)
(* and iterator cursors (relon-evaluator/src/eval.rs).                     *)
(*                                                                         *)
(* Every action is one critical section or one atomic operation of the     *)
(* code, so any interleaving of host threads between two of them is a      *)
(* behaviour of the specification.                                         *)
(***************************************************************************)
EXTENDS Naturals, FiniteSets

CONSTANTS Threads,      \* host threads that share the Context
          NoThread,     \* top_level_run_slot = None
          MaxSteps,     \* Capabilities::max_steps
          TickSizes,    \* amounts a native function charges at once
          IterLen,      \* length of the lists that iterators walk
          MaxActs,      \* bound: runs plus closure calls of a behaviour
          MaxIters,     \* bound: iterators minted in a behaviour
          CounterCap    \* bound: step_counter saturates here, above MaxSteps

ASSUME ContextRunAssumption ==
    /\ NoThread \notin Threads
    /\ MaxSteps \in Nat
    /\ TickSizes \subseteq Nat \ {0}
    /\ IterLen \in Nat
    /\ MaxActs \in Nat
    /\ MaxIters \in Nat
    /\ CounterCap \in Nat /\ CounterCap > MaxSteps

VARIABLES
    slot,           \* top_level_run_slot
    pc,             \* where each thread is
    step_counter,
    cache,          \* path_cache: namespace -> activation that wrote it
    closure_calls,  \* closure_call_counter
    cursors,        \* iter_cursors: iterator id -> cursor, NoCursor if absent
    iter_ids,       \* iter_id_counter
    minting,        \* id a thread has drawn but not yet registered
    \* History: what the activations did, not state of the program.
    acts,           \* runs and closure calls begun so far
    run,            \* activation number of a thread's run, 0 if none
    call,           \* closure call of a thread: its namespace and number
    spent,          \* steps charged to a thread's run
    yields,         \* elements each iterator has handed out
    cleared         \* iterators whose cursor a run start removed

iters    == <<cursors, iter_ids, minting, yields, cleared>>
calls    == <<closure_calls, call>>
vars     == <<slot, pc, step_counter, cache, closure_calls, cursors, iter_ids,
              minting, acts, run, call, spent, yields, cleared>>

Root      == 0                      \* cache namespace of the document root
Keys      == 0..MaxActs             \* Root and one namespace per closure call
NoCursor  == IterLen + 1
NoIter    == MaxIters
IterIds   == 0..(MaxIters - 1)
NoCall    == [ns |-> Root, act |-> 0]
Places    == {"idle", "claim", "wait", "reset_steps", "reset_cache",
              "reset_iters", "body", "drop", "notify"}

\* A thread holds the guard from the claim of the slot to the guard's Drop.
Holding   == {"reset_steps", "reset_cache", "reset_iters", "body", "drop"}

Goto(t, p) == pc' = [pc EXCEPT ![t] = p]

Init ==
    /\ slot = NoThread
    /\ pc = [t \in Threads |-> "idle"]
    /\ step_counter = 0
    /\ cache = [k \in Keys |-> 0]
    /\ closure_calls = 0
    /\ cursors = [i \in IterIds |-> NoCursor]
    /\ iter_ids = 0
    /\ minting = [t \in Threads |-> NoIter]
    /\ acts = 0
    /\ run = [t \in Threads |-> 0]
    /\ call = [t \in Threads |-> NoCall]
    /\ spent = [t \in Threads |-> 0]
    /\ yields = [i \in IterIds |-> 0]
    /\ cleared = {}

-----------------------------------------------------------------------------
(***************************************************************************)
(* The run slot.                                                           *)
(***************************************************************************)

\* A host thread outside any activation enters eval_root or run_main.
EnterTopLevel(t) ==
    /\ pc[t] = "idle" /\ call[t] = NoCall
    /\ acts < MaxActs
    /\ Goto(t, "claim")
    /\ acts' = acts + 1
    /\ run' = [run EXCEPT ![t] = acts + 1]
    /\ UNCHANGED <<slot, step_counter, cache, calls, iters, spent>>

\* Mutant: the slot is taken without looking at its owner.
ClaimUnchecked(t) ==
    /\ pc[t] = "claim"
    /\ slot' = t
    /\ Goto(t, "reset_steps")
    /\ spent' = [spent EXCEPT ![t] = 0]
    /\ UNCHANGED <<step_counter, cache, calls, iters, acts, run>>

\* The loop of begin_top_level_run finds the slot empty and takes it.
Claim(t) ==
    /\ pc[t] = "claim" /\ slot = NoThread
    /\ slot' = t
    /\ Goto(t, "reset_steps")
    /\ spent' = [spent EXCEPT ![t] = 0]
    /\ UNCHANGED <<step_counter, cache, calls, iters, acts, run>>

\* It finds another owner: Condvar::wait releases the lock and parks.
Wait(t) ==
    /\ pc[t] = "claim" /\ slot \notin {NoThread, t}
    /\ Goto(t, "wait")
    /\ UNCHANGED <<slot, step_counter, cache, calls, iters, acts, run, spent>>

\* A condition variable may wake a thread without a notification.
SpuriousWake(t) ==
    /\ pc[t] = "wait"
    /\ Goto(t, "claim")
    /\ UNCHANGED <<slot, step_counter, cache, calls, iters, acts, run, spent>>

\* A callback of the body calls eval_root or run_main on the same Context:
\* the owner is this thread, so the call panics and the run unwinds.
Reenter(t) ==
    /\ pc[t] = "body" /\ slot = t /\ minting[t] = NoIter
    /\ Goto(t, "drop")
    /\ call' = [call EXCEPT ![t] = NoCall]
    /\ UNCHANGED <<slot, step_counter, cache, closure_calls, iters, acts, run, spent>>

\* The run returns, with a value or an error of its own.
Return(t) ==
    /\ pc[t] = "body" /\ call[t] = NoCall /\ minting[t] = NoIter
    /\ Goto(t, "drop")
    /\ UNCHANGED <<slot, step_counter, cache, calls, iters, acts, run, spent>>

\* Mutant: the guard's Drop hands the slot to a parked thread.
DropHandsOver(t) ==
    /\ pc[t] = "drop"
    /\ \/ \E u \in Threads : pc[u] = "wait" /\ slot' = u
       \/ (\A u \in Threads : pc[u] # "wait") /\ slot' = NoThread
    /\ Goto(t, "notify")
    /\ run' = [run EXCEPT ![t] = 0]
    /\ spent' = [spent EXCEPT ![t] = 0]
    /\ UNCHANGED <<step_counter, cache, calls, iters, acts>>

\* TopLevelRunGuard::drop clears the slot under its lock ...
DropClear(t) ==
    /\ pc[t] = "drop"
    /\ slot' = NoThread
    /\ Goto(t, "notify")
    /\ run' = [run EXCEPT ![t] = 0]
    /\ spent' = [spent EXCEPT ![t] = 0]
    /\ UNCHANGED <<step_counter, cache, calls, iters, acts>>

\* Mutant: the guard's Drop wakes nobody.
DropSilently(t) ==
    /\ pc[t] = "notify"
    /\ Goto(t, "idle")
    /\ UNCHANGED <<slot, step_counter, cache, calls, iters, acts, run, spent>>

\* ... and then, with the lock released, wakes every parked thread.
DropNotify(t) ==
    /\ pc[t] = "notify"
    /\ pc' = [u \in Threads |-> IF u = t THEN "idle"
                                ELSE IF pc[u] = "wait" THEN "claim" ELSE pc[u]]
    /\ UNCHANGED <<slot, step_counter, cache, calls, iters, acts, run, spent>>

-----------------------------------------------------------------------------
(***************************************************************************)
(* The resets, three separate operations after the claim.                  *)
(***************************************************************************)

ResetSteps(t) ==
    /\ pc[t] = "reset_steps"
    /\ step_counter' = 0
    /\ Goto(t, "reset_cache")
    /\ UNCHANGED <<slot, cache, calls, iters, acts, run, spent>>

\* Mutant: path_cache survives the start of a run.
KeepPathCache(t) ==
    /\ pc[t] = "reset_cache"
    /\ Goto(t, "reset_iters")
    /\ UNCHANGED <<slot, step_counter, cache, calls, iters, acts, run, spent>>

ResetPathCache(t) ==
    /\ pc[t] = "reset_cache"
    /\ cache' = [k \in Keys |-> 0]
    /\ Goto(t, "reset_iters")
    /\ UNCHANGED <<slot, step_counter, calls, iters, acts, run, spent>>

\* Mutant: iter_id_counter is reset together with iter_cursors.
ResetIterIds(t) ==
    /\ pc[t] = "reset_iters"
    /\ cleared' = cleared \cup {i \in IterIds : cursors[i] # NoCursor}
    /\ cursors' = [i \in IterIds |-> NoCursor]
    /\ iter_ids' = 0
    /\ Goto(t, "body")
    /\ UNCHANGED <<slot, step_counter, cache, calls, minting, yields, acts, run, spent>>

ResetIterCursors(t) ==
    /\ pc[t] = "reset_iters"
    /\ cleared' = cleared \cup {i \in IterIds : cursors[i] # NoCursor}
    /\ cursors' = [i \in IterIds |-> NoCursor]
    /\ Goto(t, "body")
    /\ UNCHANGED <<slot, step_counter, cache, calls, iter_ids, minting, yields,
                   acts, run, spent>>

-----------------------------------------------------------------------------
(***************************************************************************)
(* Evaluation.  A thread evaluates inside its run, or outside any run in a *)
(* closure the host calls back through invoke_closure.                     *)
(***************************************************************************)

Evaluating(t) == minting[t] = NoIter /\ (pc[t] = "body" \/ call[t] # NoCall)

Charged(n) == IF step_counter + n < CounterCap THEN step_counter + n ELSE CounterCap

\* StepLimitExceeded propagates to the outermost frame of the thread.
Abort(t) ==
    /\ call' = [call EXCEPT ![t] = NoCall]
    /\ pc' = IF pc[t] = "body" THEN [pc EXCEPT ![t] = "drop"] ELSE pc
    /\ UNCHANGED spent

\* Mutant: the budget check of eval_internal is gone.
EvalNodeUnlimited(t) ==
    /\ Evaluating(t)
    /\ step_counter' = Charged(1)
    /\ UNCHANGED <<slot, pc, cache, calls, iters, acts, run, spent>>

\* eval_internal: one step per AST node, refused once the counter has
\* reached the limit.  The counter has moved in both cases.
EvalNode(t) ==
    /\ Evaluating(t)
    /\ step_counter' = Charged(1)
    /\ \/ /\ step_counter >= MaxSteps
          /\ Abort(t)
       \/ /\ step_counter < MaxSteps
          /\ spent' = IF pc[t] = "body" THEN [spent EXCEPT ![t] = @ + 1] ELSE spent
          /\ UNCHANGED <<pc, call>>
    /\ UNCHANGED <<slot, cache, closure_calls, iters, acts, run>>

\* Mutant: tick checks the count before the charge, not after it.
TickPreCheck(t, n) ==
    /\ Evaluating(t)
    /\ step_counter' = Charged(n)
    /\ \/ step_counter >= MaxSteps /\ Abort(t)
       \/ /\ step_counter < MaxSteps
          /\ spent' = IF pc[t] = "body" THEN [spent EXCEPT ![t] = @ + n] ELSE spent
          /\ UNCHANGED <<pc, call>>
    /\ UNCHANGED <<slot, cache, closure_calls, iters, acts, run>>

\* NativeFnCaps::tick: a native function charges n iterations at once.
Tick(t, n) ==
    /\ Evaluating(t)
    /\ step_counter' = Charged(n)
    /\ \/ /\ step_counter + n > MaxSteps
          /\ Abort(t)
       \/ /\ step_counter + n <= MaxSteps
          /\ spent' = IF pc[t] = "body" THEN [spent EXCEPT ![t] = @ + n] ELSE spent
          /\ UNCHANGED <<pc, call>>
    /\ UNCHANGED <<slot, cache, closure_calls, iters, acts, run>>

\* eval_closure: the call draws a number and with it a cache namespace.
EnterClosure(t) ==
    /\ pc[t] \in {"idle", "body"} /\ call[t] = NoCall /\ minting[t] = NoIter
    /\ acts < MaxActs
    /\ acts' = acts + 1
    /\ closure_calls' = closure_calls + 1
    /\ call' = [call EXCEPT ![t] = [ns |-> closure_calls + 1, act |-> acts + 1]]
    /\ UNCHANGED <<slot, pc, step_counter, cache, iters, run, spent>>

LeaveClosure(t) ==
    /\ call[t] # NoCall /\ minting[t] = NoIter
    /\ call' = [call EXCEPT ![t] = NoCall]
    /\ UNCHANGED <<slot, pc, step_counter, cache, closure_calls, iters, acts, run, spent>>

\* A reference evaluated in the frame's namespace misses the cache, is
\* evaluated, and leaves its value there.
CacheReference(t) ==
    /\ Evaluating(t)
    /\ LET frame == IF call[t] # NoCall THEN call[t] ELSE [ns |-> Root, act |-> run[t]]
       IN  /\ cache[frame.ns] = 0
           /\ cache' = [cache EXCEPT ![frame.ns] = frame.act]
    /\ UNCHANGED <<slot, pc, step_counter, calls, iters, acts, run, spent>>

-----------------------------------------------------------------------------
(***************************************************************************)
(* Iterators: next_iter_id draws an id, then registers its cursor.         *)
(***************************************************************************)

DrawIterId(t) ==
    /\ Evaluating(t) /\ iter_ids < MaxIters
    /\ minting' = [minting EXCEPT ![t] = iter_ids]
    /\ iter_ids' = iter_ids + 1
    /\ UNCHANGED <<slot, pc, step_counter, cache, calls, cursors, yields, cleared,
                   acts, run, spent>>

RegisterCursor(t) ==
    /\ minting[t] # NoIter
    /\ cursors' = [cursors EXCEPT ![minting[t]] = 0]
    /\ minting' = [minting EXCEPT ![t] = NoIter]
    /\ UNCHANGED <<slot, pc, step_counter, cache, calls, iter_ids, yields, cleared,
                   acts, run, spent>>

\* iter_cursor_fetch_and_inc, when it yields: one lock around the lookup,
\* the bound check and the increment.  An absent cursor yields nothing.
IterNext(t, i) ==
    /\ Evaluating(t)
    /\ cursors[i] < IterLen
    /\ cursors' = [cursors EXCEPT ![i] = @ + 1]
    /\ yields' = [yields EXCEPT ![i] = @ + 1]
    /\ UNCHANGED <<slot, pc, step_counter, cache, calls, iter_ids, minting, cleared,
                   acts, run, spent>>

-----------------------------------------------------------------------------
\* The steps of a thread that depend on nothing but its own progress.
RunStep(t) ==
    \/ Claim(t) \/ Wait(t)
    \/ ResetSteps(t) \/ ResetPathCache(t) \/ ResetIterCursors(t)
    \/ EvalNode(t) \/ RegisterCursor(t)
    \/ DropClear(t) \/ DropNotify(t)

Next == \E t \in Threads :
    \/ RunStep(t)
    \/ EnterTopLevel(t) \/ SpuriousWake(t) \/ Reenter(t) \/ Return(t)
    \/ (\E n \in TickSizes : Tick(t, n))
    \/ EnterClosure(t) \/ LeaveClosure(t) \/ CacheReference(t)
    \/ DrawIterId(t) \/ (\E i \in IterIds : IterNext(t, i))

Spec == Init /\ [][Next]_vars

\* A thread that can move does move.  No fairness on Return, LeaveClosure or
\* SpuriousWake: a body may loop for ever and no stray wake-up may come.
FairSpec == Spec /\ \A t \in Threads : WF_vars(RunStep(t))

-----------------------------------------------------------------------------
(***************************************************************************)
(* Properties.                                                             *)
(***************************************************************************)

\* Every variable keeps its type; in particular a cursor never passes the end
\* of its list and an iterator never hands out more elements than it has.
TypeOK ==
    /\ slot \in Threads \cup {NoThread}
    /\ pc \in [Threads -> Places]
    /\ step_counter \in 0..CounterCap
    /\ cache \in [Keys -> 0..MaxActs]
    /\ closure_calls \in 0..MaxActs
    /\ cursors \in [IterIds -> 0..NoCursor]
    /\ iter_ids \in 0..MaxIters
    /\ minting \in [Threads -> IterIds \cup {NoIter}]
    /\ acts \in 0..MaxActs
    /\ run \in [Threads -> 0..MaxActs]
    /\ call \in [Threads -> [ns : Keys, act : 0..MaxActs]]
    /\ spent \in [Threads -> 0..MaxSteps]
    /\ yields \in [IterIds -> 0..IterLen]
    /\ cleared \subseteq IterIds

\* begin_top_level_run: "Top-level runs on one Context are serialized, never
\* interleaved" - from the first reset to the end of the body at most one
\* thread is inside, and the slot names it.
RunsExcludeEachOther ==
    \A t, u \in Threads :
        pc[t] \in Holding => slot = t /\ (pc[u] \in Holding => u = t)

\* No start of another run re-arms a budget: what the active run has charged
\* is still in step_counter, so a run never gets past max_steps, however many
\* threads start runs or call closures meanwhile.
BudgetCannotBeEscaped ==
    \A t \in Threads :
        pc[t] \in {"reset_cache", "reset_iters", "body", "drop"} =>
            spent[t] <= step_counter /\ spent[t] <= MaxSteps

\* path_cache keys carry neither the #main arguments nor the closure's: a hit
\* in a run is an entry of that run, and a hit in a closure call an entry of
\* that call, never of an earlier or a concurrent one.
CacheHitsAreOwn ==
    \A t \in Threads :
        /\ pc[t] = "body" => cache[Root] \in {0, run[t]}
        /\ call[t] # NoCall => cache[call[t].ns] \in {0, call[t].act}

\* iter_id_counter is deliberately not reset with iter_cursors: an Iter value
\* that outlives its run reads as exhausted for ever, it never picks up the
\* cursor of a new iterator; and a live cursor counts what was handed out.
IteratorsDeliverOnce ==
    \A i \in IterIds :
        /\ i \in cleared => cursors[i] = NoCursor
        /\ cursors[i] # NoCursor => cursors[i] = yields[i]

\* The wake-up of the guard's Drop is never lost: a parked thread runs its
\* body once the runs ahead of it are over.
WaiterRuns == \A t \in Threads : pc[t] = "wait" ~> pc[t] = "body"

\* max_steps ends every run: a body that never returns is stopped by the
\* step budget and its guard is dropped.
RunsEnd == \A t \in Threads : pc[t] = "body" ~> pc[t] = "idle"

\* The run protocol implements serial runs with a budget each.
Serial == INSTANCE SerialRuns WITH
    active <- slot,
    used   <- IF slot = NoThread THEN 0 ELSE spent[slot]
RefinesSerialRuns == Serial!Spec
=============================================================================
