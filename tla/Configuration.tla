---------------------------- MODULE Configuration ----------------------------
(***************************************************************************)
(* Configuration loading (backend/config): how a YAML file, environment    *)
(* variables, mounted secret files and built-in defaults become one        *)
(* configuration, what Validate accepts, and how a domain finds the DNS    *)
(* credential of its zone.  Everything here is a constant operator of a    *)
(* deployment, the raw inputs of one process start.                        *)
(*                                                                         *)
(* A text that may be missing or empty is a sequence of at most one        *)
(* element.  A duration's text is its number of days; a duration is in     *)
(* units of which a day has Day, in machine integers up to MaxInt.  A      *)
(* domain is the sequence of its labels, a label a record of its letters   *)
(* and whether they are in upper case; the name with a trailing dot ends   *)
(* in an empty label.  A directory URL is its stem and trailing slashes.   *)
(***************************************************************************)
EXTENDS Integers, Sequences, SequencesExt

CONSTANTS
    MaxInt,             \* math.MaxInt64
    Day,                \* 24 * time.Hour
    DefaultDirectory    \* the default tag of ACME.DirectoryURL

(* Nanoseconds in a day have an odd factor: no count of days is exactly    *)
(* the least integer.                                                      *)
ASSUME DurationAssumption ==
    /\ {MaxInt, Day} \subseteq Nat \ {0}
    /\ (MaxInt + 1) % Day # 0

----------------------------------------------------------------------------
(* Duration.UnmarshalText *)

(* A plausible bug: the lower end is rounded away from zero.               *)
MutDaysInRange(n) == n >= -(MaxInt \div Day) - 1 /\ n <= MaxInt \div Day

(* Go's division truncates: -MaxInt / Day is -(MaxInt / Day).              *)
DaysInRange(n) == n >= -(MaxInt \div Day) /\ n <= MaxInt \div Day

(* The product as a machine integer.                                       *)
Wrap(n) == ((n + MaxInt + 1) % (2 * MaxInt + 2)) - (MaxInt + 1)
Days(n) == Wrap(n * Day)

----------------------------------------------------------------------------
(* The environment schema *)

OIDCSettings == {"issuer", "client", "secret", "scopes"}
Settings == {"email", "directory", "session", "public", "master", "bootstrap"} \cup OIDCSettings

(* Fields tagged file:"true", and the ones with a companion File field.    *)
FileSettings == {"master", "bootstrap", "secret"}

Default(s) == IF s = "directory" THEN <<DefaultDirectory>> ELSE <<>>

(* An environment variable, else the YAML value, else the default.         *)
Plain(d, s) ==
    IF d.env[s] # <<>> THEN d.env[s] ELSE IF d.yaml[s] = <<>> THEN Default(s) ELSE d.yaml[s]

(* applyFileEnvironment: d.yaml[s] is the companion's path.                *)
FilePath(d, s) == IF d.envFile[s] # <<>> THEN d.envFile[s] ELSE d.yaml[s]
Secret(d, s) ==
    IF d.env[s] # <<>> THEN d.env[s]
    ELSE IF FilePath(d, s) # <<>> THEN d.disk[FilePath(d, s)[1]] ELSE <<>>

SecretFails(d, s) ==
    IF d.env[s] # <<>> THEN d.envFile[s] # <<>>
    ELSE FilePath(d, s) # <<>> /\ d.disk[FilePath(d, s)[1]] = <<>>

Value(d, s) == IF s \in FileSettings THEN Secret(d, s) ELSE Plain(d, s)

(* The shape of a deployment.  A domain has at most one wildcard, its      *)
(* first label; a YAML file without an OIDC section has no OIDC settings,  *)
(* and none names a file for the master key.                               *)
Labels == [text : STRING, upper : BOOLEAN]
OneWildcard(domain) == \A i \in 2..Len(domain) : domain[i].text # "*"

IsDeployment(d) ==
    /\ d.oidc \/ \A s \in OIDCSettings : d.yaml[s] = <<>>
    /\ d.yaml["master"] = <<>>
    /\ d.retention \in Int /\ d.env["session"] \in Seq(Int) /\ d.yaml["session"] \in Seq(Int)
    /\ d.zones \in Seq([name : Seq(Labels), credential : STRING])
    /\ d.certificates \in Seq([name : STRING, domains : Seq(Seq(Labels)), keyType : STRING,
                               credential : Seq(STRING)])
    /\ \A i \in DOMAIN d.certificates : \A j \in DOMAIN d.certificates[i].domains :
         OneWildcard(d.certificates[i].domains[j])
    /\ \A name \in DOMAIN d.credentials : d.credentials[name].environment \in
         Seq([name : STRING, target : STRING, file : BOOLEAN, value : Seq(STRING)])

(* hasEnvironmentOverride                                                  *)
HasOIDC(d) ==
    \/ d.oidc
    \/ \E s \in OIDCSettings : d.env[s] # <<>> \/ (s \in FileSettings /\ d.envFile[s] # <<>>)

InEffect(d) == IF HasOIDC(d) THEN Settings ELSE Settings \ OIDCSettings

(* decodeConfigField: the texts that a field's UnmarshalText refuses.      *)
Undecodable(s, text) ==
    \/ s = "session" /\ ~DaysInRange(text)
    \/ s = "master" /\ text = "malformed"

ApplyFails(d) == \E s \in InEffect(d) :
    \/ s \in FileSettings /\ SecretFails(d, s)
    \/ Value(d, s) # <<>> /\ Undecodable(s, Value(d, s)[1])

(* The master key of a deployment that names none is in the data directory.*)
MasterKey(d) == IF Value(d, "master") # <<>> THEN Value(d, "master") ELSE d.disk["master.key"]

----------------------------------------------------------------------------
(* Zones *)

LowerCase(domain) == [i \in DOMAIN domain |-> [domain[i] EXCEPT !.upper = FALSE]]

(* strings.TrimSuffix(name, "."), strings.TrimPrefix(domain, "*.")         *)
TrimDot(name) == IF name # <<>> /\ Last(name).text = "" THEN Front(name) ELSE name
TrimWildcard(domain) == IF domain # <<>> /\ Head(domain).text = "*" THEN Tail(domain) ELSE domain

(* The map from zone names to credentials: a later zone replaces an equal  *)
(* earlier one.                                                            *)
ZoneMap(zones) ==
    LET name(i) == TrimDot(LowerCase(zones[i].name)) IN
    [z \in {name(i) : i \in DOMAIN zones} |->
        zones[CHOOSE i \in DOMAIN zones : name(i) = z /\ \A j \in DOMAIN zones : name(j) = z => j <= i].credential]

Covers(zone, domain) == zone # <<>> /\ IsSuffix(zone, domain)

(* findZone: the credential of the longest zone that covers the domain.    *)
FindZone(domain, zones) ==
    LET covering == {z \in DOMAIN zones : Covers(z, domain)} IN
    IF covering = {} THEN <<>>
    ELSE <<zones[CHOOSE z \in covering : \A y \in covering : Len(y) <= Len(z)]>>

(* A plausible bug: the zones are compared as they are written.            *)
MutCredentialForDomain(c, cert, domain) ==
    IF cert.credential # <<>> THEN cert.credential
    ELSE FindZone(TrimWildcard(LowerCase(domain)), [z \in {c.zones[i].name : i \in DOMAIN c.zones} |->
             c.zones[CHOOSE i \in DOMAIN c.zones : c.zones[i].name = z].credential])

(* The name of the credential; its configuration is c.credentials[name].   *)
CredentialForDomain(c, cert, domain) ==
    IF cert.credential # <<>> THEN cert.credential
    ELSE FindZone(TrimWildcard(LowerCase(domain)), ZoneMap(c.zones))

----------------------------------------------------------------------------
(* Load and Validate *)

KeyTypes == {"ec256", "ec384", "rsa2048", "rsa3072", "rsa4096"}

ValidOIDC(c) ==
    /\ c.issuer # <<>> /\ c.client # <<>> /\ c.secret # <<>>
    /\ c.scopes # <<>> => "openid" \in c.scopes[1]
    /\ c.public # <<>> /\ c.public[1] = "absolute"

ValidCertificate(c, cert) ==
    /\ cert.name # "" /\ cert.domains # <<>>
    /\ cert.keyType \in KeyTypes \cup {""}
    /\ IF cert.credential # <<>> THEN cert.credential[1] \in DOMAIN c.credentials
       ELSE \A i \in DOMAIN cert.domains : FindZone(TrimWildcard(cert.domains[i]), ZoneMap(c.zones)) # <<>>

(* Trusted proxies and the directory URL either parse or do not.           *)
Validate(c) ==
    /\ c.session >= 0 /\ c.retention >= 0
    /\ c.email # <<>> /\ c.terms /\ c.directory[1].parses /\ c.proxies
    /\ c.oidc => ValidOIDC(c)
    /\ \A name \in DOMAIN c.credentials : name # "" /\ c.credentials[name].provider # ""
    /\ \A i \in DOMAIN c.zones :
         /\ TrimDot(c.zones[i].name) # <<>>
         /\ c.zones[i].credential \in DOMAIN c.credentials
    /\ \A i, j \in DOMAIN c.certificates : c.certificates[i].name = c.certificates[j].name => i = j
    /\ \A i \in DOMAIN c.certificates : ValidCertificate(c, c.certificates[i])
    /\ \A h \in c.hooks : \A name \in h : \E i \in DOMAIN c.certificates : c.certificates[i].name = name

(* What applyEnv makes of a deployment; without OIDC its settings are nil. *)
Applied(d) ==
    LET Portal(s) == IF HasOIDC(d) THEN Value(d, s) ELSE <<>> IN
    [email |-> Value(d, "email"), directory |-> Value(d, "directory"), public |-> Value(d, "public"),
     bootstrap |-> Value(d, "bootstrap"), master |-> MasterKey(d),
     session |-> IF Value(d, "session") = <<>> THEN 0 ELSE Days(Value(d, "session")[1]),
     retention |-> Days(d.retention), oidc |-> HasOIDC(d), issuer |-> Portal("issuer"),
     client |-> Portal("client"), secret |-> Portal("secret"), scopes |-> Portal("scopes"),
     terms |-> d.terms, proxies |-> d.proxies, credentials |-> d.credentials,
     zones |-> d.zones, certificates |-> d.certificates, hooks |-> d.hooks]

(* yaml.Unmarshal decodes the durations before the environment is applied. *)
Unmarshals(d) ==
    DaysInRange(d.retention) /\ \A i \in DOMAIN d.yaml["session"] : DaysInRange(d.yaml["session"][i])

LoadSucceeds(d) ==
    /\ Unmarshals(d)
    /\ ~ApplyFails(d)
    /\ MasterKey(d) # <<>> /\ MasterKey(d)[1] # "malformed"
    /\ Validate(Applied(d))

(* normalizedDirectoryURL                                                  *)
NormalDirectory(c) == c.directory[1].stem

=============================================================================
