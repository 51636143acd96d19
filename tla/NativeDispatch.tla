--------------------------- MODULE NativeDispatch --------------------------
(***************************************************************************)
(* Dispatch of compiled programs by the Cranelift backend                  *)
(* (relon-codegen-cranelift: evaluator.rs, sandbox.rs and the guards that  *)
(* codegen/ emits).                                                        *)
(*                                                                         *)
(* Threads share evaluators.  A dispatch takes the boxed SandboxState      *)
(* parked on its thread, or makes one, fills it from the template of its   *)
(* evaluator, and hands it to machine code; a buffer evaluator also        *)
(* borrows the pooled arena of the thread.  A host function may call       *)
(* run_main again, on any evaluator, while the outer dispatch waits, so a  *)
(* thread has a stack of dispatches.                                       *)
(*                                                                         *)
(* Machine code is what its guards and calls are: which path a program     *)
(* takes is a free choice.  A trap leaves the function it is raised in; in *)
(* a lambda that is a return to the caller with a zero.                    *)
(***************************************************************************)
EXTENDS Integers, Sequences, FiniteSets

CONSTANTS Threads,
          Evaluators,
          Buffered,    \* the evaluators with a buffer entry; the others have a legacy one
          Epoch,       \* per evaluator: when it was built
          Deadlines,   \* what set_deadline may be given
          MaxDepth,    \* bound: dispatches on a thread at once
          MaxLambda,   \* bound: lambda calls under way in a dispatch
          MaxCalls,    \* bound: run_main and host-function calls of a behaviour
          MaxClock     \* bound: ticks of the clock

ASSUME ConstantsAssumption ==
    /\ Buffered \subseteq Evaluators
    /\ Epoch \in [Evaluators -> Nat]
    /\ \A e \in Evaluators, d \in Deadlines : d \in Nat /\ Epoch[e] + d <= MaxClock
    /\ MaxDepth \in Nat \ {0} /\ MaxLambda \in Nat /\ MaxCalls \in Nat /\ MaxClock \in Nat

VARIABLES
    deadline_ns,  \* per evaluator, of its template
    granted,      \* per evaluator: its capability table grants the host function
    pool,         \* per thread: the parked box, 0 if none
    boxes,        \* per thread and number: a SandboxState
    stack,        \* per thread: the dispatches under way, the innermost last
    clock,
    calls

vars == <<deadline_ns, granted, pool, boxes, stack, clock, calls>>

Never  == -1           \* i64::MAX: no deadline
NoTrap == "none"
Traps  == {"guard", "resource_exhausted", "capability_denied", "unreachable"}

\* Arena 0 is "not installed"; 1 is the pooled arena of the thread; a
\* dispatch that finds it borrowed has one of its own.
NoArena == 0
Pooled  == 1
Own(depth) == 1 + depth

Blank == [deadline |-> Never, epoch |-> 0, granted |-> FALSE, closures |-> "none",
          trap |-> NoTrap, arena |-> NoArena]

Front(s)  == SubSeq(s, 1, Len(s) - 1)
Depth(t)  == Len(stack[t])
Top(t)    == stack[t][Depth(t)]
TopBox(t) == boxes[t][Top(t).box]
At(t, label)   == Depth(t) > 0 /\ Top(t).pc = label
SetTop(t, f)   == stack' = [stack EXCEPT ![t][Depth(t)] = f]
SetTopBox(t, b) == boxes' = [boxes EXCEPT ![t][Top(t).box] = b]

Init ==
    /\ deadline_ns = [e \in Evaluators |-> Never]
    /\ granted \in [Evaluators -> BOOLEAN]
    /\ pool = [t \in Threads |-> 0]
    /\ boxes = [t \in Threads |-> [i \in 1..MaxDepth |-> Blank]]
    /\ stack = [t \in Threads |-> <<>>]
    /\ clock \in 0..MaxClock /\ \A e \in Evaluators : Epoch[e] <= clock
    /\ calls = 0

-----------------------------------------------------------------------------
(* The host. *)

SetDeadline(e) ==
    /\ \E d \in Deadlines \cup {Never} : deadline_ns' = [deadline_ns EXCEPT ![e] = d]
    /\ UNCHANGED <<granted, pool, boxes, stack, clock, calls>>

\* install_capabilities_mut: it borrows the evaluator exclusively.
InstallCapabilities(e) ==
    /\ \A t \in Threads : \A i \in 1..Depth(t) : stack[t][i].e # e
    /\ granted' = [granted EXCEPT ![e] = ~@]
    /\ UNCHANGED <<deadline_ns, pool, boxes, stack, clock, calls>>

Tick ==
    /\ clock < MaxClock
    /\ clock' = clock + 1
    /\ UNCHANGED <<deadline_ns, granted, pool, boxes, stack, calls>>

-----------------------------------------------------------------------------
(* run_main up to the entry. *)

\* Mutant: a dispatch inside a dispatch takes the pooled arena too.
ArenaShared(t, e) == IF e \in Buffered THEN Pooled ELSE NoArena

\* try_borrow_mut of ARENA_POOL, which stays borrowed until the return value
\* is decoded.
Arena(t, e) ==
    IF e \notin Buffered THEN NoArena
    ELSE IF \E i \in 1..Depth(t) : stack[t][i].arena = Pooled THEN Own(Depth(t) + 1)
    ELSE Pooled

\* A thread calls run_main, at the outside or from a host function.
RunMain(t, e) ==
    /\ Depth(t) < MaxDepth
    /\ Depth(t) = 0 \/ At(t, "host")
    /\ calls < MaxCalls
    /\ calls' = calls + 1
    /\ stack' = [stack EXCEPT ![t] =
                    Append(@, [e |-> e, arena |-> Arena(t, e), box |-> 0, pc |-> "acquire",
                               lambda |-> 0, started |-> clock, deadline |-> Never,
                               trapped |-> NoTrap])]
    /\ UNCHANGED <<deadline_ns, granted, pool, boxes, clock>>

\* from_template
Fresh(e) ==
    [deadline |-> deadline_ns[e], epoch |-> Epoch[e], granted |-> granted[e], closures |-> e,
     trap |-> NoTrap, arena |-> NoArena]

\* Mutant: a parked box keeps its epoch.
RefreshKeepingEpoch(b, e) ==
    [b EXCEPT !.deadline = deadline_ns[e], !.granted = granted[e], !.closures = e,
              !.trap = NoTrap]

\* refresh_from_template: all but the arena.
Refresh(b, e) ==
    [b EXCEPT !.deadline = deadline_ns[e], !.epoch = Epoch[e], !.granted = granted[e],
              !.closures = e, !.trap = NoTrap]

\* install_arena, on the buffer path only.
InstallArena(b, arena) == IF arena = NoArena THEN b ELSE [b EXCEPT !.arena = arena]

BoxesInUse(t) == {stack[t][i].box : i \in 1..Depth(t)}

\* PooledSandboxState::acquire and the installs that follow it.
Acquire(t) ==
    /\ At(t, "acquire")
    /\ LET f   == Top(t)
           box == IF pool[t] # 0 THEN pool[t] ELSE CHOOSE i \in 1..MaxDepth : i \notin BoxesInUse(t)
           b   == IF pool[t] # 0 THEN Refresh(boxes[t][box], f.e) ELSE Fresh(f.e)
       IN  /\ boxes' = [boxes EXCEPT ![t][box] = InstallArena(b, f.arena)]
           /\ SetTop(t, [f EXCEPT !.box = box, !.pc = "prologue", !.deadline = deadline_ns[f.e]])
    /\ pool' = [pool EXCEPT ![t] = 0]
    /\ UNCHANGED <<deadline_ns, granted, clock, calls>>

-----------------------------------------------------------------------------
(* Machine code. *)

\* now_helper and the comparison of emit_resource_check.
Expired(b) == b.deadline # Never /\ clock - b.epoch >= b.deadline

\* Where a trap leaves the function it is raised in for: a lambda returns to
\* its caller, the entry returns to the host.
Leave(f) == IF f.lambda > 0 THEN [f EXCEPT !.lambda = @ - 1, !.pc = "body"]
            ELSE [f EXCEPT !.pc = "post"]

FirstTrap(f, kind) == IF f.trapped = NoTrap THEN kind ELSE f.trapped

\* Mutant: the trap block of a lambda returns without raise_trap.
RaiseInEntryOnly(t, kind) ==
    /\ IF Top(t).lambda = 0 THEN SetTopBox(t, [TopBox(t) EXCEPT !.trap = kind]) ELSE UNCHANGED boxes
    /\ SetTop(t, Leave([Top(t) EXCEPT !.trapped = FirstTrap(Top(t), kind)]))

\* cond_trap into the trap block: raise_trap, then return a zero.
Raise(t, kind) ==
    /\ SetTopBox(t, [TopBox(t) EXCEPT !.trap = kind])
    /\ SetTop(t, Leave([Top(t) EXCEPT !.trapped = FirstTrap(Top(t), kind)]))

Prologue(t) ==
    /\ At(t, "prologue")
    /\ \/ Expired(TopBox(t)) /\ Raise(t, "resource_exhausted")
       \/ ~Expired(TopBox(t)) /\ SetTop(t, [Top(t) EXCEPT !.pc = "body"]) /\ UNCHANGED boxes
    /\ UNCHANGED <<deadline_ns, granted, pool, clock, calls>>

\* Mutant: the counter of the loop never reaches the interval.
LoopCheckNever(t) == FALSE /\ UNCHANGED vars

\* The back edge of a loop, at the RESOURCE_CHECK_INTERVAL-th iteration; a
\* check that passes changes nothing.
LoopCheck(t) ==
    /\ At(t, "body")
    /\ Expired(TopBox(t))
    /\ Raise(t, "resource_exhausted")
    /\ UNCHANGED <<deadline_ns, granted, pool, clock, calls>>

\* Any other guard: division by zero, overflow, bounds.
Guard(t) ==
    /\ At(t, "body")
    /\ Raise(t, "guard")
    /\ UNCHANGED <<deadline_ns, granted, pool, clock, calls>>

\* A call through the closure table.  The lambda begins with a prologue of its
\* own; what a lambda that trapped returns is used like any other value.
CallClosure(t) ==
    /\ At(t, "body")
    /\ Top(t).arena # NoArena
    /\ Top(t).lambda < MaxLambda
    /\ SetTop(t, [Top(t) EXCEPT !.lambda = @ + 1, !.pc = "prologue"])
    /\ UNCHANGED <<deadline_ns, granted, pool, boxes, clock, calls>>

\* CheckCap, then CallNative.
CallNative(t) ==
    /\ At(t, "body")
    /\ calls < MaxCalls
    /\ calls' = calls + 1
    /\ \/ ~TopBox(t).granted /\ Raise(t, "capability_denied")
       \/ TopBox(t).granted /\ SetTop(t, [Top(t) EXCEPT !.pc = "host"]) /\ UNCHANGED boxes
    /\ UNCHANGED <<deadline_ns, granted, pool, clock>>

\* call_native returns: an error of the host function sets the trap code, and
\* a code that is set, by this call or before it, is raised again.
HostReturns(t) ==
    /\ At(t, "host")
    /\ \/ Raise(t, "unreachable")
       \/ TopBox(t).trap # NoTrap /\ Raise(t, TopBox(t).trap)
       \/ /\ TopBox(t).trap = NoTrap
          /\ SetTop(t, [Top(t) EXCEPT !.pc = "body"])
          /\ UNCHANGED boxes
    /\ UNCHANGED <<deadline_ns, granted, pool, clock, calls>>

\* The function at the top returns a value.
Finish(t) ==
    /\ At(t, "body")
    /\ SetTop(t, Leave(Top(t)))
    /\ UNCHANGED <<deadline_ns, granted, pool, boxes, clock, calls>>

-----------------------------------------------------------------------------
\* dispatch_post, the decoding of the return value and the drop of the box:
\* it is parked unless a dispatch inside this one has parked its own.
Return(t) ==
    /\ At(t, "post")
    /\ LET box == Top(t).box
       IN  \/ /\ pool[t] = 0
              /\ pool' = [pool EXCEPT ![t] = box]
              /\ boxes' = [boxes EXCEPT ![t][box].trap = NoTrap]
           \/ /\ pool[t] # 0
              /\ boxes' = [boxes EXCEPT ![t][box] = Blank]
              /\ UNCHANGED pool
    /\ stack' = [stack EXCEPT ![t] = Front(@)]
    /\ UNCHANGED <<deadline_ns, granted, clock, calls>>

Host == Tick \/ \E e \in Evaluators : SetDeadline(e) \/ InstallCapabilities(e)

Next ==
    \/ Host
    \/ \E t \in Threads :
          \/ \E e \in Evaluators : RunMain(t, e)
          \/ Acquire(t) \/ Prologue(t) \/ LoopCheck(t) \/ Guard(t) \/ CallClosure(t)
          \/ CallNative(t) \/ HostReturns(t) \/ Finish(t) \/ Return(t)

Spec == Init /\ [][Next]_vars

\* The clock runs, machine code runs until its next guard, and host functions
\* return.  Nothing makes a program leave its loop (Finish) or fail (Guard).
\* A program that runs for ever passes back edges for ever, whatever lambdas
\* it calls in between: hence the strong fairness of LoopCheck.
FairSpec ==
    /\ Spec
    /\ WF_vars(Tick)
    /\ \A t \in Threads :
          /\ WF_vars(Acquire(t)) /\ WF_vars(Prologue(t)) /\ SF_vars(LoopCheck(t))
          /\ WF_vars(HostReturns(t)) /\ WF_vars(Return(t))

-----------------------------------------------------------------------------
\* Types of the templates, the pooled boxes and the dispatches on each stack.
TypeOK ==
    /\ deadline_ns \in [Evaluators -> Deadlines \cup {Never}]
    /\ granted \in [Evaluators -> BOOLEAN]
    /\ pool \in [Threads -> 0..MaxDepth]
    /\ boxes \in [Threads -> [1..MaxDepth ->
          [deadline : Deadlines \cup {Never}, epoch : Nat, granted : BOOLEAN,
           closures : Evaluators \cup {"none"}, trap : Traps \cup {NoTrap},
           arena : 0..(MaxDepth + 1)]]]
    /\ \A t \in Threads :
          /\ stack[t] \in Seq([e : Evaluators, arena : 0..(MaxDepth + 1), box : 0..MaxDepth,
                              pc : {"acquire", "prologue", "body", "host", "post"},
                              lambda : 0..MaxLambda, started : Nat,
                              deadline : Deadlines \cup {Never}, trapped : Traps \cup {NoTrap}])
          /\ Len(stack[t]) <= MaxDepth
    /\ clock \in 0..MaxClock
    /\ calls \in 0..MaxCalls

InMachineCode(f) == f.pc \in {"prologue", "body", "host", "post"}

\* "Concurrent invocations never share the UnsafeCell arena / cursor fields",
\* and reentrant ones neither: two dispatches under way on a thread have
\* different boxes and arenas, and the box of neither is parked.
DispatchesDoNotShare ==
    \A t \in Threads : \A i \in 1..Depth(t) :
       /\ InMachineCode(stack[t][i]) => stack[t][i].box # 0 /\ stack[t][i].box # pool[t]
       /\ \A j \in 1..Depth(t) \ {i} :
             /\ stack[t][i].box # 0 => stack[t][i].box # stack[t][j].box
             /\ stack[t][i].arena # NoArena => stack[t][i].arena # stack[t][j].arena

\* From its entry to its return, through dispatches inside it and through
\* set_deadline calls of other threads, the machine code of a dispatch sees
\* the deadline in force when it began, and the epoch, the closure table and
\* the arena that go with its own evaluator, whoever used the box before.  A
\* host function runs only if that evaluator grants it: the pooled box never
\* carries the grant of another evaluator, nor one that was withdrawn.
DispatchSeesItsEvaluator ==
    \A t \in Threads : \A i \in 1..Depth(t) :
       LET f == stack[t][i]
       IN  /\ InMachineCode(f) =>
              /\ boxes[t][f.box].deadline = f.deadline
              /\ boxes[t][f.box].epoch = Epoch[f.e]
              /\ boxes[t][f.box].closures = f.e
              /\ f.arena # NoArena => boxes[t][f.box].arena = f.arena
           /\ f.pc = "host" => granted[f.e]

\* dispatch_post reports an error exactly for a dispatch in which a trap was
\* raised, in whichever function of the program and whatever dispatches it
\* contained: no trap is lost on the way out of a lambda, none leaks from
\* another dispatch.
OutcomeIsOwn ==
    \A t \in Threads :
       At(t, "post") => (TopBox(t).trap # NoTrap <=> Top(t).trapped # NoTrap)

\* If from some point on every dispatch under way has a deadline, then every
\* thread keeps getting out of its dispatches, even when no program ever ends
\* by itself: the checks of prologues and back edges cut it off.
DeadlinesCutPrograms ==
    (<>[](\A t \in Threads : \A i \in 1..Depth(t) :
             InMachineCode(stack[t][i]) => stack[t][i].deadline # Never))
       => \A t \in Threads : []<>(Depth(t) = 0)

-----------------------------------------------------------------------------
\* "Configure the per-call wall-clock deadline": a dispatch is cut off only
\* when it has run for the deadline it was given.
\* Does not hold: the clock counts from the evaluator's epoch.
DeadlineIsPerCall ==
    \A t \in Threads :
       At(t, "post") /\ TopBox(t).trap = "resource_exhausted" =>
          clock - Top(t).started >= Top(t).deadline

\* "The UnsafeCell arena / scratch fields are zeroed by install_arena
\* immediately afterwards": a dispatch without an arena sees none.
\* Does not hold: invoke_legacy_entry installs none.
NoArenaIsNone ==
    \A t \in Threads : \A i \in 1..Depth(t) :
       InMachineCode(stack[t][i]) /\ stack[t][i].arena = NoArena =>
          boxes[t][stack[t][i].box].arena = NoArena

\* "The diagnostic should still identify the trap class": the class reported
\* is that of the guard that stopped the evaluation.
\* Does not hold: a later trap of the caller replaces a lambda's.
TrapClassIsReported ==
    \A t \in Threads : At(t, "post") => TopBox(t).trap = Top(t).trapped
=============================================================================
