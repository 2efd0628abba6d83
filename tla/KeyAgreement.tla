---------------------------- MODULE KeyAgreement ----------------------------
(***************************************************************************)
(* What the server processes promise the clients that pin their signing    *)
(* key (docs/client-access.md): one key is chosen, for good, and only that *)
(* key is ever served.  Module SigningKey, in Server, implements this      *)
(* specification.                                                          *)
(***************************************************************************)

VARIABLES
    chosen,   \* no key, or the one that was chosen
    served    \* the keys clients were given

vars == <<chosen, served>>

Init == chosen = {} /\ served = {}

Choose ==
    /\ chosen = {}
    /\ \E key \in chosen' : chosen' = {key}
    /\ UNCHANGED served

Serve ==
    /\ chosen # {}
    /\ served' = chosen
    /\ UNCHANGED chosen

Next == Choose \/ Serve

Spec == Init /\ [][Next]_vars

=============================================================================
