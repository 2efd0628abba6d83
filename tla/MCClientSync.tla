---------------------------- MODULE MCClientSync ----------------------------
(***************************************************************************)
(* Instances of ClientSync for TLC: the budgets of failures.               *)
(***************************************************************************)
EXTENDS ClientSync

Budget(losses, faults, signals, kills) ==
    [lose |-> losses, fault |-> faults, term |-> signals, kill |-> kills]

(* A run that fell back to copies (the fault) may be terminated, and its   *)
(* rollback be killed.                                                     *)
FailureBudget == Budget(1, 1, 1, 1)
ReloadBudget  == Budget(0, 1, 0, 0)

=============================================================================
