--------------------------- MODULE MCClientUpdate ---------------------------
(***************************************************************************)
(* Instances of ClientUpdate for TLC: the budgets of environment events.   *)
(***************************************************************************)
EXTENDS ClientUpdate

Budget(launches, releases, requests, faults, signals, kills) ==
    [launch |-> launches, release |-> releases, request |-> requests,
     fault |-> faults, term |-> signals, kill |-> kills]

(* A kill beside a requested check, a kill beside a fault, a signal beside *)
(* a fault in two launches.                                                *)
Loads == {Budget(3, 1, 1, 0, 0, 1), Budget(3, 1, 0, 1, 0, 1), Budget(2, 1, 0, 1, 1, 0)}

OneSignal == {Budget(1, 0, 0, 0, 1, 0)}

=============================================================================
