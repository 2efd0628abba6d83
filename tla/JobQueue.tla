------------------------------ MODULE JobQueue ------------------------------
(***************************************************************************)
(* What the issuance queue promises its users (docs/client-access.md): a   *)
(* ledger of jobs that are queued, running, succeeded or failed.  A        *)
(* certificate has at most one unfinished job, jobs are taken in admission *)
(* order, an interrupted job becomes failed and is never taken again, and  *)
(* a finished job keeps its outcome.  Module Issuance implements this      *)
(* specification.                                                          *)
(***************************************************************************)
EXTENDS Naturals, Sequences

CONSTANT Names

VARIABLE ledger

Unfinished == {i \in DOMAIN ledger : ledger[i].status \in {"queued", "running"}}

Init == ledger = <<>>

Submit(c) ==
    /\ \A i \in Unfinished : ledger[i].cert # c
    /\ ledger' = Append(ledger, [cert |-> c, status |-> "queued"])

Take(i) ==
    /\ ledger[i].status = "queued"
    /\ \A k \in DOMAIN ledger : ledger[k].status = "queued" => i <= k
    /\ ledger' = [ledger EXCEPT ![i].status = "running"]

Settle(i, outcome) ==
    /\ ledger[i].status = "running"
    /\ ledger' = [ledger EXCEPT ![i].status = outcome]

(* After a restart every job that was running has failed.                  *)
Sweep ==
    ledger' = [i \in DOMAIN ledger |->
                 IF ledger[i].status = "running" THEN [ledger[i] EXCEPT !.status = "failed"]
                 ELSE ledger[i]]

Next ==
    \/ \E c \in Names : Submit(c)
    \/ \E i \in DOMAIN ledger : Take(i) \/ (\E o \in {"succeeded", "failed"} : Settle(i, o))
    \/ Sweep

vars == ledger

Spec == Init /\ [][Next]_vars

=============================================================================
