---------------------------- MODULE MCDownloads -----------------------------
(***************************************************************************)
(* An instance of Downloads for TLC: a key for everything, one that reads  *)
(* the certificate "a" until it expires and one for another certificate;   *)
(* and bundle lengths with which one insertion evicts several entries and  *)
(* one bundle is too long.                                                 *)
(***************************************************************************)
EXTENDS Downloads, TLC

TwoScopes == [f \in {"fullchain.crt", "private.key"} |->
                IF f = "private.key" THEN "private_keys:read" ELSE "certificates:read"]

ThreeShapes ==
    {[scopes |-> {"*"}, all |-> TRUE, certificates |-> {}, expires |-> Never],
     [scopes |-> {"certificates:read"}, all |-> FALSE, certificates |-> {"a"}, expires |-> 0],
     [scopes |-> {"*"}, all |-> FALSE, certificates |-> {"b"}, expires |-> Never]}

Lengths == [fs \in FileSets |->
              CASE fs = {"fullchain.crt"} -> 1 [] fs = {"private.key"} -> 2 [] OTHER -> 3]

Symmetry == Permutations(Requests)

=============================================================================
