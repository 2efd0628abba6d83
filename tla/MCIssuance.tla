----------------------------- MODULE MCIssuance -----------------------------
(***************************************************************************)
(* Instances of Issuance for TLC: the configurations the operator may      *)
(* write and the budget of environment events of each run.                 *)
(***************************************************************************)
EXTENDS Issuance

Definition(mode, want) == [mode |-> mode, want |-> want]

Budget(edits, commands, requests, ticks, ageings, stops, kills, faults) ==
    [edit |-> edits, cli |-> commands, request |-> requests, tick |-> ticks,
     age |-> ageings, stop |-> stops, crash |-> kills, fault |-> faults]

(* One certificate issues automatically, the others on request.            *)
OneAuto == {[c \in Names |-> Definition(IF c = 1 THEN "auto" ELSE "manual", "s1")]}

(* One file per way a definition can change: what is wanted, switched off, *)
(* removed.                                                                *)
Edited ==
    {[c \in Names |-> IF c = 1 THEN d ELSE Definition("auto", "s1")] :
        d \in {Definition("auto", "s1"), Definition("auto", "s2"),
               Definition("disabled", "s1"), Definition("absent", "s1")}}

RestartBudget     == Budget(0, 0, 2, 1, 0, 1, 1, 0)
FailureBudget     == Budget(1, 1, 1, 0, 1, 1, 1, 1)
CommandLineBudget == Budget(1, 1, 0, 1, 0, 0, 0, 0)
QueueBudget       == Budget(0, 0, 1, 0, 0, 1, 1, 1)

=============================================================================
