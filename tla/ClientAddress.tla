--------------------------- MODULE ClientAddress ----------------------------
(***************************************************************************)
(* The address a request is charged to (backend/network/client_ip.go): the *)
(* direct peer, or what trusted proxies say of it in X-Forwarded-For, from *)
(* right to left, or in X-Real-IP.                                         *)
(*                                                                         *)
(* A request is [remote, forwarded, real]: the peer, the entries of the    *)
(* first header and the value of the second.  A text that is no address,   *)
(* or is missing, is Malformed.  Prefixes are the addresses they contain.  *)
(***************************************************************************)
EXTENDS Naturals, Sequences, FiniteSetsExt

CONSTANTS
    TrustedProxies,   \* the addresses within server.trusted_proxies
    Malformed

Trusted(address) == address \in TrustedProxies

(* The entries the loop gets to: those right of them are trusted proxies.  *)
Reached(forwarded) ==
    {i \in DOMAIN forwarded : \A j \in i + 1..Len(forwarded) : Trusted(forwarded[j])}

(* The last entry that was reached and parsed, or the peer.                *)
Forwarded(request) ==
    LET parsed == {i \in Reached(request.forwarded) : request.forwarded[i] # Malformed} IN
    IF parsed = {} THEN request.remote ELSE request.forwarded[Min(parsed)]

(* A plausible bug: the first entry of the header is the client.           *)
MutClientIP(request) ==
    LET first == IF request.forwarded = <<>> THEN Malformed ELSE request.forwarded[1] IN
    IF ~Trusted(request.remote) \/ first = Malformed THEN request.remote ELSE first

ClientIP(request) ==
    CASE ~Trusted(request.remote) -> request.remote
      [] Trusted(request.remote) /\ request.forwarded # <<>> -> Forwarded(request)
      [] Trusted(request.remote) /\ request.forwarded = <<>> ->
            IF request.real = Malformed THEN request.remote ELSE request.real

(* How a request of a client comes in (external): directly, whatever the   *)
(* headers say; through trusted proxies, the first of which puts the       *)
(* client behind what that wrote into X-Forwarded-For, the others a        *)
(* trusted proxy, or sets X-Real-IP instead; or a proxy asks for itself.   *)
RoutedFrom(origin, request) ==
    \/ ~Trusted(origin) /\ request.remote = origin
    \/ /\ ~Trusted(origin) /\ origin # Malformed /\ Trusted(request.remote)
       /\ \/ \E i \in Reached(request.forwarded) : request.forwarded[i] = origin
          \/ request.forwarded = <<>> /\ request.real = origin
    \/ /\ Trusted(origin) /\ request.remote = origin
       /\ IF request.forwarded = <<>> THEN request.real = Malformed
          ELSE request.forwarded[Len(request.forwarded)] = Malformed

=============================================================================
