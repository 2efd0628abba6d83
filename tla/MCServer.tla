------------------------------ MODULE MCServer ------------------------------
(***************************************************************************)
(* An instance of Server for TLC: two processes, with three kinds of load. *)
(***************************************************************************)
EXTENDS Server, TLC

MCConfigs == {[master |-> "k1", retention |-> 1], [master |-> "k1", retention |-> 0],
              [master |-> "k2", retention |-> 0]}

MCKinds == {"start", "stop", "login", "change", "read", "update", "fault"}

Load(start, stop, login, change, read, update, fault) ==
    [k \in MCKinds |-> CASE k = "start" -> start [] k = "stop" -> stop [] k = "login" -> login
        [] k = "change" -> change [] k = "read" -> read [] k = "update" -> update [] k = "fault" -> fault]

Symmetry == Permutations(Procs)

(* The loads: client updates from two processes with a restart; changes by *)
(* an administrator with a restart and an error; by the command alone, and *)
(* beside a cleanup with an error; cleanups that fail; a reader of a log   *)
(* that grows and ages.                                                    *)
MCBudgets ==
    {Load(3, 1, 0, 0, 0, 3, 1),
     Load(2, 1, 1, 1, 0, 0, 1), Load(1, 0, 0, 3, 0, 0, 0), Load(2, 0, 0, 2, 0, 0, 1),
     Load(2, 0, 1, 0, 0, 0, 2),
     Load(1, 0, 3, 0, 1, 0, 0)}

=============================================================================
