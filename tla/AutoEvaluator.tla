--------------------------- MODULE AutoEvaluator ---------------------------
(***************************************************************************)
(* Dispatch of run_main by an AutoEvaluator that several threads share     *)
(* (relon/src/auto_evaluator.rs).                                          *)
(*                                                                         *)
(* The compiled backend is built on the first run_main and kept in the     *)
(* OnceLock aot; a failed build is kept in the OnceLock aot_init_err.  The *)
(* slots are read, the pipeline run and a slot set without a lock around   *)
(* the three, so calls interleave between them.  A set of a OnceLock that  *)
(* is already set changes nothing, and the slot is read again afterwards;  *)
(* a slot never changes once set, so the two are one step here.            *)
(*                                                                         *)
(* A build is named by the order in which the pipeline was started.  What  *)
(* it returns is one of Outcomes: the pipeline is a function of the source *)
(* except for faults of the host.  Names that every specification has      *)
(* (AutoInit, AutoSpec) are this module's own, so that it can be extended  *)
(* beside ObjectCache.                                                     *)
(***************************************************************************)
EXTENDS Integers, FiniteSets

CONSTANTS Threads,
          Outcomes,  \* what a build may return: ok, unsupported, error
          MaxCalls   \* bound: run_main calls of a behaviour

ASSUME OutcomesAssumption == Outcomes \subseteq {"ok", "unsupported", "error"}

VARIABLES
    is_trivial_main, \* of the source, and RELON_AUTO_FALLBACK_PANIC=1 in the
    fallback_panics, \* environment: neither changes
    aot,          \* build in the success slot, 0 when unset
    aot_init_err, \* class of the error in the failure slot, or "unset"
    last_route,
    pc,
    got,          \* per thread: what its build returned
    on,           \* per thread: the backend its call runs on
    builds,       \* pipelines started
    calls,
    \* History.
    settled       \* per thread: the slots as they were when its call began

autoVars == <<is_trivial_main, fallback_panics, aot, aot_init_err, last_route, pc, got, on,
              builds, calls, settled>>

Unset     == "unset"
NotBuilt  == [outcome |-> "none", build |-> 0]
Nowhere   == [backend |-> "none", build |-> 0]
TreeWalk  == [backend |-> "tree_walk", build |-> 0]
Aot(b)    == [backend |-> "aot", build |-> b]
Routes    == {"None", "TrivialMain", "Aot", "UnsupportedFallback", "HostError"}

AutoInit ==
    /\ is_trivial_main \in BOOLEAN
    /\ fallback_panics \in BOOLEAN
    /\ aot = 0
    /\ aot_init_err = Unset
    /\ last_route = "None"
    /\ pc = [t \in Threads |-> "idle"]
    /\ got = [t \in Threads |-> NotBuilt]
    /\ on = [t \in Threads |-> Nowhere]
    /\ builds = 0
    /\ calls = 0
    /\ settled = [t \in Threads |-> "no"]

Enter(t, label) == pc' = [pc EXCEPT ![t] = label]

-----------------------------------------------------------------------------
RunMain(t) ==
    /\ pc[t] = "idle"
    /\ calls < MaxCalls
    /\ calls' = calls + 1
    /\ settled' = [settled EXCEPT ![t] = IF aot # 0 THEN "built"
                                         ELSE IF aot_init_err # Unset THEN "failed"
                                         ELSE "no"]
    /\ got' = [got EXCEPT ![t] = NotBuilt]
    /\ \/ /\ is_trivial_main
          /\ last_route' = "TrivialMain"
          /\ on' = [on EXCEPT ![t] = TreeWalk]
          /\ Enter(t, "running")
       \/ /\ ~is_trivial_main
          /\ Enter(t, "get_aot")
          /\ UNCHANGED <<last_route, on>>
    /\ UNCHANGED <<aot, aot_init_err, builds>>

\* Mutant: the failure slot is looked at first.
GetAotAfterErr(t) ==
    /\ pc[t] = "get_aot"
    /\ \/ aot_init_err # Unset /\ Enter(t, "failed") /\ UNCHANGED on
       \/ /\ aot_init_err = Unset /\ aot # 0
          /\ on' = [on EXCEPT ![t] = Aot(aot)]
          /\ Enter(t, "built")
       \/ aot_init_err = Unset /\ aot = 0 /\ Enter(t, "get_err") /\ UNCHANGED on
    /\ UNCHANGED <<aot, aot_init_err, last_route, got, builds, calls, settled>>

GetAot(t) ==
    /\ pc[t] = "get_aot"
    /\ \/ aot # 0 /\ on' = [on EXCEPT ![t] = Aot(aot)] /\ Enter(t, "built")
       \/ aot = 0 /\ Enter(t, "get_err") /\ UNCHANGED on
    /\ UNCHANGED <<aot, aot_init_err, last_route, got, builds, calls, settled>>

GetErr(t) ==
    /\ pc[t] = "get_err"
    /\ Enter(t, IF aot_init_err # Unset THEN "failed" ELSE "build")
    /\ UNCHANGED <<aot, aot_init_err, last_route, got, on, builds, calls, settled>>

\* build_aot: the cache, then the full pipeline (module ObjectCache has the
\* steps of both); only the outcome matters here.
BuildAot(t) ==
    /\ pc[t] = "build"
    /\ builds' = builds + 1
    /\ \E o \in Outcomes : got' = [got EXCEPT ![t] = [outcome |-> o, build |-> builds + 1]]
    /\ Enter(t, "set")
    /\ UNCHANGED <<aot, aot_init_err, last_route, on, calls, settled>>

\* Mutant: the loser of the race keeps its own evaluator.
SetSlotOwn(t) ==
    /\ pc[t] = "set"
    /\ \/ /\ got[t].outcome = "ok"
          /\ aot' = IF aot = 0 THEN got[t].build ELSE aot
          /\ on' = [on EXCEPT ![t] = Aot(got[t].build)]
          /\ Enter(t, "built")
          /\ UNCHANGED aot_init_err
       \/ /\ got[t].outcome # "ok"
          /\ aot_init_err' = IF aot_init_err = Unset THEN got[t].outcome ELSE aot_init_err
          /\ Enter(t, "failed")
          /\ UNCHANGED <<aot, on>>
    /\ UNCHANGED <<last_route, got, builds, calls, settled>>

SetSlot(t) ==
    /\ pc[t] = "set"
    /\ \/ /\ got[t].outcome = "ok"
          /\ aot' = IF aot = 0 THEN got[t].build ELSE aot
          /\ on' = [on EXCEPT ![t] = Aot(aot')]
          /\ Enter(t, "built")
          /\ UNCHANGED aot_init_err
       \/ /\ got[t].outcome # "ok"
          /\ aot_init_err' = IF aot_init_err = Unset THEN got[t].outcome ELSE aot_init_err
          /\ Enter(t, "failed")
          /\ UNCHANGED <<aot, on>>
    /\ UNCHANGED <<last_route, got, builds, calls, settled>>

\* The call returns without running a program: an error, or a panic.
Give(t) == on' = [on EXCEPT ![t] = Nowhere] /\ Enter(t, "idle")

DispatchAot(t) ==
    /\ pc[t] = "built"
    /\ last_route' = "Aot"
    /\ Enter(t, "running")
    /\ UNCHANGED <<aot, aot_init_err, got, on, builds, calls, settled>>

DispatchFailure(t) ==
    /\ pc[t] = "failed"
    /\ \/ /\ aot_init_err = "unsupported"
          /\ last_route' = "UnsupportedFallback"
          /\ \/ fallback_panics /\ Give(t)
             \/ /\ ~fallback_panics
                /\ on' = [on EXCEPT ![t] = TreeWalk]
                /\ Enter(t, "running")
       \/ /\ aot_init_err = "error"
          /\ last_route' = "HostError"
          /\ Give(t)
    /\ UNCHANGED <<aot, aot_init_err, got, builds, calls, settled>>

Return(t) ==
    /\ pc[t] = "running"
    /\ Give(t)
    /\ UNCHANGED <<aot, aot_init_err, last_route, got, builds, calls, settled>>

CallStep(t) ==
    /\ \/ GetAot(t) \/ GetErr(t) \/ BuildAot(t) \/ SetSlot(t)
       \/ DispatchAot(t) \/ DispatchFailure(t) \/ Return(t)
    /\ UNCHANGED <<is_trivial_main, fallback_panics>>

Call(t) == RunMain(t) /\ UNCHANGED <<is_trivial_main, fallback_panics>>

AutoNext == \E t \in Threads : Call(t) \/ CallStep(t)

AutoSpec == AutoInit /\ [][AutoNext]_autoVars

-----------------------------------------------------------------------------
AutoTypeOK ==
    /\ is_trivial_main \in BOOLEAN
    /\ fallback_panics \in BOOLEAN
    /\ aot \in 0..MaxCalls
    /\ aot_init_err \in {Unset, "unsupported", "error"}
    /\ last_route \in Routes
    /\ pc \in [Threads -> {"idle", "get_aot", "get_err", "build", "set", "built", "failed",
                           "running"}]
    /\ got \in [Threads -> [outcome : {"none", "ok", "unsupported", "error"},
                            build : 0..MaxCalls]]
    /\ on \in [Threads -> [backend : {"none", "tree_walk", "aot"}, build : 0..MaxCalls]]
    /\ builds \in 0..MaxCalls
    /\ calls \in 0..MaxCalls
    /\ settled \in [Threads -> {"no", "failed", "built"}]

\* "Once the first run_main runs the codegen pipeline successfully, every
\* subsequent call reuses this slot": a call that begins after the success
\* slot was filled runs on the compiled backend, also when a build that raced
\* the winner failed and filled the failure slot as well.
BuiltIsForGood ==
    \A t \in Threads : settled[t] = "built" /\ pc[t] \in {"built", "failed", "running"}
                       => pc[t] # "failed" /\ on[t].backend = "aot"

\* However many builds race, all calls on the compiled backend use one
\* evaluator, the winner's.  A trivial #main never starts the pipeline, whoever
\* calls it, and any other #main runs on the tree-walker only when the backend
\* declined its shape.
OneEvaluator ==
    /\ \A t \in Threads : on[t].backend = "aot" => on[t].build = aot
    /\ is_trivial_main => builds = 0 /\ \A t \in Threads : on[t].backend # "aot"
    /\ \A t \in Threads : ~is_trivial_main /\ on[t].backend = "tree_walk"
                          => aot_init_err = "unsupported" /\ ~fallback_panics

\* Concurrent run_main callers "only ever drive the AOT pipeline once"
\* (auto_evaluator.rs:18-19).
\* Does not hold: nothing is locked between GetAot and SetSlot.
PipelineRunsOnce == builds =< 1

=============================================================================
