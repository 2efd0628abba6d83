---------------------------- MODULE MCAcmeClient ----------------------------
(***************************************************************************)
(* An instance of AcmeClient for TLC.  The deployments vary one part of a  *)
(* base deployment at a time: the directory and master key, the durations, *)
(* the sources of the OIDC secret, or the zones and the domains; the       *)
(* server goes on to obtain certificates with the ones that load.          *)
(***************************************************************************)
EXTENDS AcmeClient, TLC

URL(stem, slash) == [stem |-> stem, slash |-> slash, parses |-> TRUE]
Production == URL("prod", FALSE)

label(text) == [text |-> text, upper |-> FALSE]
Label(text) == [text |-> text, upper |-> TRUE]
Com == <<label("com")>>
Example == <<label("example"), label("com")>>
Sub == <<label("sub")>> \o Example
Www == <<label("www")>> \o Sub

Literal(v, text) == [name |-> v, target |-> v, file |-> FALSE, value |-> <<text>>]
FromFile(v, path) == [name |-> v \o "_FILE", target |-> v, file |-> TRUE, value |-> <<path>>]
FromEnvironment(v) == [name |-> v, target |-> v, file |-> FALSE, value |-> <<>>]

(* Two credentials that use the same variable.                             *)
Credentials ==
    [c1 |-> [provider |-> "p", environment |-> <<Literal("A", "literal"), FromFile("A", "token")>>],
     c2 |-> [provider |-> "p", environment |-> <<FromEnvironment("A"), FromFile("B", "other")>>]]

Zone(name, credential) == [name |-> name, credential |-> credential]
Cert(domains, credential) ==
    [name |-> "w", domains |-> domains, keyType |-> "", credential |-> credential]

None == [s \in Settings |-> <<>>]

Base ==
    [env |-> None, envFile |-> None,
     yaml |-> [None EXCEPT !["email"] = <<"admin">>, !["directory"] = <<Production>>],
     disk |-> [f \in {"master.key", "token", "other", "secret", "mounted"} |->
                 IF f = "master.key" THEN <<"k1">> ELSE <<f>>],
     oidc |-> FALSE, retention |-> 0, terms |-> TRUE, proxies |-> TRUE,
     credentials |-> Credentials,
     zones |-> <<Zone(Example, "c1"), Zone(Sub, "c2")>>,
     certificates |-> <<Cert(<<Www, <<label("*")>> \o Example>>, <<>>)>>,
     hooks |-> {{"w"}}]

(* Directory and master key, from YAML, variable or default.               *)
Servers ==
    {[Base EXCEPT !.env["directory"] = e, !.yaml["directory"] = y] :
        e \in {<<>>, <<URL("prod", TRUE)>>}, y \in {<<>>, <<Production>>, <<URL("staging", FALSE)>>}}
    \cup {[Base EXCEPT !.env["master"] = <<"k2">>], [Base EXCEPT !.disk["other"] = <<>>],
          [Base EXCEPT !.disk["master.key"] = <<"malformed">>],
          [Base EXCEPT !.credentials.c2.environment = <<Literal("A", "literal"), FromEnvironment("B")>>]}

Texts == {<<>>} \cup {<<n>> : n \in {0, 1, MaxInt \div Day, 1 + MaxInt \div Day}}

(* Durations, at both ends of the range.                                   *)
Clocks ==
    {[Base EXCEPT !.certificates = <<>>, !.hooks = {}, !.env["session"] = e, !.yaml["session"] = y,
                  !.retention = n] :
        e \in Texts, y \in Texts, n \in {0, 1}}
    \cup {[Base EXCEPT !.certificates = <<>>, !.hooks = {}, !.retention = n] : n \in -MaxInt - 1..MaxInt}

(* OIDC by YAML or by variables, and the sources of its secret.            *)
Portals ==
    {[Base EXCEPT !.certificates = <<>>, !.hooks = {}, !.oidc = o, !.env["secret"] = e,
                  !.envFile["secret"] = f, !.yaml["secret"] = IF o THEN y ELSE <<>>,
                  !.env["issuer"] = <<"idp">>, !.yaml["client"] = IF o THEN <<"certvault">> ELSE <<>>,
                  !.env["client"] = IF o THEN <<>> ELSE <<"certvault">>,
                  !.env["scopes"] = s, !.env["public"] = <<"absolute">>, !.disk["mounted"] = m] :
        o \in BOOLEAN, e \in {<<>>, <<"direct">>}, f \in {<<>>, <<"secret">>, <<"mounted">>},
        y \in {<<>>, <<"mounted">>}, s \in {<<>>, <<{"openid"}>>, <<{"email"}>>}, m \in {<<>>, <<"sealed">>}}

(* Zones and domains in upper and lower case, with dots and wildcards.     *)
Names == {Example, Sub, <<Label("sub")>> \o Example, Example \o <<label("")>>, Com}
Domains == {Example, Sub, <<Label("sub")>> \o Example, <<label("*")>> \o Sub, <<label("*")>> \o Example}
Estates ==
    {[Base EXCEPT !.zones = <<Zone(a, "c1"), Zone(b, "c2")>>, !.certificates = <<Cert(<<d, Sub>>, <<>>)>>] :
        a \in Names, b \in Names, d \in Domains}
    \cup {[Base EXCEPT !.zones = <<>>, !.certificates = <<Cert(<<d>>, <<c>>)>>] : d \in Domains, c \in {"c1", "c3"}}

MCDeployments == Servers \cup Clocks \cup Portals \cup Estates
MCRedeployments ==
    {Base, [Base EXCEPT !.env["directory"] = <<URL("prod", TRUE)>>],
     [Base EXCEPT !.yaml["directory"] = <<URL("staging", FALSE)>>], [Base EXCEPT !.env["master"] = <<"k2">>]}

(* A variable of each kind: inherited, and not.                            *)
MCInherited == [v \in {"A", "B"} |-> IF v = "A" THEN <<"container">> ELSE <<>>]

(* A registered account written by a version that did not record its URL,  *)
(* and the single file of an older one.                                    *)
Older == [key |-> -1, registered |-> TRUE, url |-> "", master |-> <<"k1">>]
MCFirstAccounts == {<<>>, [account |-> Older], [prod |-> Older]}

MCKinds == {"stop", "redeploy", "obtain", "fault", "delete"}
MCBudget == [k \in MCKinds |-> CASE k = "stop" -> 2 [] k = "redeploy" -> 2 [] k = "obtain" -> 2
                                 [] k = "fault" -> 1 [] k = "delete" -> 2]
MCDefaultDirectory == Production

Symmetry == Permutations(Handlers)
=============================================================================
