----------------------------- MODULE SerialRuns -----------------------------
(***************************************************************************)
(* What a Context promises about top-level runs (the concurrency contract  *)
(* on the Evaluator trait): runs never interleave, every run starts with   *)
(* an unspent budget, and a run never spends more than MaxSteps.           *)
(***************************************************************************)
EXTENDS Naturals

CONSTANTS Threads,      \* host threads that share the Context
          NoThread,     \* "no run is active"
          MaxSteps      \* Capabilities::max_steps

VARIABLES active,       \* the thread whose run is active
          used          \* budget the active run has spent

vars == <<active, used>>

Init == active = NoThread /\ used = 0

Start(t) == active = NoThread /\ active' = t /\ used' = 0

Spend(n) ==
    /\ active # NoThread
    /\ used + n <= MaxSteps
    /\ used' = used + n
    /\ UNCHANGED active

End == active # NoThread /\ active' = NoThread /\ used' = 0

Next == End \/ (\E t \in Threads : Start(t)) \/ (\E n \in 1..MaxSteps : Spend(n))

Spec == Init /\ [][Next]_vars
=============================================================================
