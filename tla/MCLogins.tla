------------------------------ MODULE MCLogins ------------------------------
(***************************************************************************)
(* An instance of Logins for TLC: clients that reach the server directly,  *)
(* through one proxy or through two, and write what they like into the     *)
(* headers; and a proxy that does not know its client.  The clients are    *)
(* interchangeable.                                                        *)
(***************************************************************************)
EXTENDS Logins, TLC

CONSTANTS Clients, Near, Far   \* two proxies, Near in front of the server

Request(origin, remote, forwarded, real) ==
    [origin |-> origin, remote |-> remote, forwarded |-> forwarded, real |-> real]

(* What a client writes into X-Forwarded-For itself.                       *)
Claims == {<<>>, <<Malformed>>, <<Near>>} \cup {<<c>> : c \in Clients}

MCArrivals ==
    UNION {{Request(c, c, claim, Near),
            Request(c, Near, Append(claim, c), Malformed),
            Request(c, Near, claim \o <<c, Far>>, Malformed),
            Request(c, Near, <<>>, c)} : c \in Clients, claim \in Claims}
    \cup {Request(Near, Near, <<Malformed>>, Malformed), Request(Near, Near, <<>>, Malformed)}

MCPeers == Clients \cup {Near, Far}

Symmetry == Permutations(Clients)

=============================================================================
