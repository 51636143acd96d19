----------------------------- MODULE StepBudget -----------------------------
(***************************************************************************)
(* The step budget of the LLVM generator.  The host stores a limit         *)
(* (set_step_budget in relon-codegen-llvm/src/evaluator.rs); the generated *)
(* code counts it down at the entry and at every round of a loop           *)
(* (emit_step_budget_check in codegen/control.rs).  One signed counter     *)
(* says three things: 0 is no budget, a negative value a spent one.        *)
(*                                                                         *)
(* CompiledRun takes its steps from here; BudgetSpec is all it says about  *)
(* the budget, whatever the program is.                                    *)
(***************************************************************************)
EXTENDS Integers, Sequences

CONSTANT MaxBudget   \* i64::MAX

ASSUME BudgetAssumption == MaxBudget \in Nat \ {0}

VARIABLES budget,      \* the step budget of the host: <<>>, or <<n>>
          step_budget, \* what is left of the budget, as the generated code keeps it
          ticks,       \* history: the steps the budget has let pass
          status       \* "run", "done", or the kind of the failure

budgetVars == <<budget, step_budget, ticks, status>>

(* The counter is signed: a limit beyond it is cut off. *)
Limit(n) == IF n <= MaxBudget THEN n ELSE MaxBudget

(* No budget is 0 in the generated code, and none left is negative.        *)
step_budget_to_i64(b) ==
  CASE b = <<>> -> 0
    [] b = <<0>> -> -1
    [] OTHER -> Limit(b[1])

BudgetInit ==
  /\ budget \in Seq(Nat) /\ Len(budget) <= 1
  /\ step_budget = step_budget_to_i64(budget)
  /\ ticks = 0
  /\ status = "run"

(* A mutant: the last step leaves 0, which is no budget at all. *)
StepBudgetCheckWithoutMark ==
  \/ /\ step_budget = 0
     /\ ticks' = IF budget = <<>> THEN ticks ELSE ticks + 1
     /\ UNCHANGED <<budget, step_budget, status>>
  \/ /\ step_budget < 0
     /\ status' = "ResourceExhausted"
     /\ UNCHANGED <<budget, step_budget, ticks>>
  \/ /\ step_budget > 0
     /\ step_budget' = step_budget - 1
     /\ ticks' = ticks + 1
     /\ UNCHANGED <<budget, status>>

(* The last step leaves the mark of an empty budget, not 0. *)
emit_step_budget_check ==
  \/ /\ step_budget = 0
     /\ ticks' = IF budget = <<>> THEN ticks ELSE ticks + 1
     /\ UNCHANGED <<budget, step_budget, status>>
  \/ /\ step_budget < 0
     /\ status' = "ResourceExhausted"
     /\ UNCHANGED <<budget, step_budget, ticks>>
  \/ /\ step_budget > 0
     /\ step_budget' = IF step_budget = 1 THEN -1 ELSE step_budget - 1
     /\ ticks' = ticks + 1
     /\ UNCHANGED <<budget, status>>

(* Everything else the program does; it may end, but not for its budget.   *)
OtherStep ==
  /\ status' # "ResourceExhausted"
  /\ UNCHANGED <<budget, step_budget, ticks>>

BudgetNext ==
  /\ status = "run"
  /\ emit_step_budget_check \/ OtherStep

BudgetSpec == BudgetInit /\ [][BudgetNext]_budgetVars

-----------------------------------------------------------------------------
(* A step budget of n lets n steps pass, no more, and the dispatch is      *)
(* stopped only when it asks for another.                                  *)
BudgetIsExact ==
  /\ budget # <<>> => ticks <= Limit(budget[1])
  /\ status = "ResourceExhausted" => budget # <<>> /\ ticks = Limit(budget[1])
=============================================================================
