------------------------------ MODULE Process ------------------------------
(***************************************************************************)
(* What every task of one indexer process shares: the cancellation token   *)
(* and, for the model, a budget of the faults that may happen to them.     *)
(***************************************************************************)
EXTENDS Integers

CONSTANT FaultBudget   \* bound: [crash, cancel, db, rpc, handler : Nat]

BudgetOf == [crash : Nat, cancel : Nat, db : Nat, rpc : Nat, handler : Nat]

ASSUME ProcessAssumption == FaultBudget \in BudgetOf

VARIABLES
  cancelled,  \* SolanaIndexer.cancellation_token
  faults      \* what is left of the fault budget

processVars == <<cancelled, faults>>

ProcessTypeOK == cancelled \in BOOLEAN /\ faults \in BudgetOf

ProcessInit == cancelled = FALSE /\ faults = FaultBudget

\* A budgeted fault of the given kind happens in this step.
Fault(kind) ==
  /\ faults[kind] > 0
  /\ faults' = [faults EXCEPT ![kind] = @ - 1]

Used(kind) == FaultBudget[kind] - faults[kind]

\* Ctrl-C or shutdown().
CancelToken ==
  /\ ~cancelled /\ Fault("cancel")
  /\ cancelled' = TRUE

\* The process dies and is started again, with a new token.
NewProcess ==
  /\ Fault("crash")
  /\ cancelled' = FALSE
=============================================================================
