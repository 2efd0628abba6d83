----------------------------- MODULE AcmeClient -----------------------------
(***************************************************************************)
(* How the server talks to a certificate authority (backend/service):      *)
(* obtain loads or registers the ACME account of the configured directory, *)
(* builds a DNS provider for every domain with the credential's variables  *)
(* in the process environment, and places the order; the account handlers  *)
(* list and delete account files meanwhile.  The account files outlive the *)
(* process, which may be killed at any point and come back with another    *)
(* deployment.  issueMu allows one obtain at a time.                       *)
(*                                                                         *)
(* An account key is a number, in the order of creation.  The CA of a      *)
(* directory is named by the URL's stem.  Account files are named by the   *)
(* stem too, the digest of the URL being injective; "account" is the name  *)
(* that older versions used.                                               *)
(***************************************************************************)
EXTENDS Configuration, FiniteSets

CONSTANTS
    Deployments,     \* the inputs the process may be started with ...
    Redeployments,   \* ... and those the operator may change to
    Handlers,        \* concurrent requests of the administrator
    Inherited,       \* the environment the container gives the process
    FirstAccounts,   \* the account files an older version may have left
    Kinds,           \* kinds of event that the model bounds ...
    Budget           \* ... and how many of each there may be

ASSUME BudgetAssumption == Budget \in [Kinds -> Nat]

ASSUME DeploymentAssumption ==
    /\ Redeployments \subseteq Deployments /\ \A d \in Deployments : IsDeployment(d)
    /\ Inherited = [v \in DOMAIN Inherited |-> Inherited[v]]

VARIABLES
    deployment,  \* what the operator has put in place
    up,          \* the server process runs
    cfg,         \* Manager.cfg while it does
    accounts,    \* DataDir/accounts: file name -> contents
    ca,          \* CA -> account keys registered there (external)
    keys,        \* account keys generated so far
    env,         \* the process environment: variable -> optional value
    worker,      \* the obtain under way
    request,     \* handler -> the account it is about to delete, if any
    spent,       \* events so far, by kind
    waived       \* history: CA -> registrations the server could not keep

state == <<accounts, ca, keys>>
vars == <<deployment, up, cfg, state, env, worker, request, spent, waived>>

NoWorker == [pc |-> "idle"]
NoRequest == [h \in Handlers |-> <<>>]
CAs == {d.env["directory"][1].stem : d \in {e \in Deployments : e.env["directory"] # <<>>}}
       \cup {d.yaml["directory"][1].stem : d \in {e \in Deployments : e.yaml["directory"] # <<>>}}
       \cup {DefaultDirectory.stem}

(* Account files are written once the account is registered; a version     *)
(* that does not record the URL may have written them.                     *)
IsAccount(a, file) ==
    /\ file = [key |-> file.key, registered |-> TRUE, url |-> file.url, master |-> file.master]
    /\ file.url \in {"", a}

ASSUME AccountAssumption ==
    \A files \in FirstAccounts : \A a \in CAs \cap DOMAIN files :
        IsAccount(a, files[a]) /\ files[a].key \in Int /\ files[a].key <= 0

Spend(k) == spent[k] < Budget[k] /\ spent' = [spent EXCEPT ![k] = @ + 1]

Init ==
    /\ deployment \in Deployments
    /\ up = FALSE /\ cfg = <<>>
    /\ accounts \in FirstAccounts
    /\ ca = [a \in CAs |-> {accounts[n].key : n \in {m \in {a} \cap DOMAIN accounts : accounts[m].registered}}]
    /\ keys = 0
    /\ env = Inherited
    /\ worker = NoWorker /\ request = NoRequest
    /\ spent = [k \in Kinds |-> 0]
    /\ waived = [a \in CAs |-> 0]

----------------------------------------------------------------------------
(* The process *)

Start ==
    /\ ~up /\ LoadSucceeds(deployment)
    /\ up' = TRUE
    /\ cfg' = Applied(deployment)
    /\ UNCHANGED <<deployment, state, env, worker, request, spent, waived>>

(* The process is gone: what it held in memory with it.  A registration    *)
(* not yet saved is lost.                                                  *)
Stop ==
    /\ up /\ Spend("stop")
    /\ up' = FALSE /\ cfg' = <<>> /\ env' = Inherited
    /\ worker' = NoWorker /\ request' = NoRequest
    /\ waived' = IF worker.pc = "save" THEN [waived EXCEPT ![NormalDirectory(cfg)] = @ + 1] ELSE waived
    /\ UNCHANGED <<deployment, state>>

(* The operator changes YAML, variables or files while the server is down. *)
Redeploy ==
    /\ ~up /\ Spend("redeploy")
    /\ deployment' \in Redeployments \ {deployment}
    /\ UNCHANGED <<up, cfg, state, env, worker, request, waived>>

----------------------------------------------------------------------------
(* loadUser, saveUser, client *)

(* A plausible bug: the file is named after the URL as it is written.      *)
MutAccountPath(c) == IF c.directory[1].slash THEN c.directory[1].stem \o "/" ELSE c.directory[1].stem

AccountPath(c) == NormalDirectory(c)

Saved(key, registered) ==
    [key |-> key, registered |-> registered, url |-> NormalDirectory(cfg), master |-> cfg.master]

Go(pc) == worker' = [worker EXCEPT !.pc = pc]

(* An entry of a map is set.                                               *)
With(map, key, value) == [k \in DOMAIN map \cup {key} |-> IF k = key THEN value ELSE map[k]]

(* saveUser writes the file atomically.                                    *)
Write(account) == accounts' = With(accounts, AccountPath(cfg), account)

Obtain(cert) ==
    /\ up /\ worker = NoWorker /\ Spend("obtain")
    /\ worker' = [pc |-> "load", cert |-> cert, key |-> 0, registered |-> FALSE, domain |-> 1,
                  entry |-> 0, restore |-> <<>>, providers |-> <<>>]
    /\ UNCHANGED <<deployment, up, cfg, state, env, request, waived>>

(* obtain returns an error; the deferred restoration has run.              *)
ObtainFails == worker' = NoWorker

(* No account file: a new key, kept in memory only.                        *)
LoadNone ==
    /\ worker.pc = "load" /\ AccountPath(cfg) \notin DOMAIN accounts
    /\ keys' = keys + 1
    /\ worker' = [worker EXCEPT !.pc = "register", !.key = keys']
    /\ UNCHANGED <<deployment, up, cfg, accounts, ca, env, request, spent, waived>>

(* The file decrypts under this master key or obtain fails.  One without a *)
(* directory URL is rewritten with it.                                     *)
LoadUser ==
    /\ worker.pc = "load" /\ AccountPath(cfg) \in DOMAIN accounts
    /\ LET file == accounts[AccountPath(cfg)] IN
       IF file.master # cfg.master THEN ObtainFails /\ UNCHANGED accounts
       ELSE /\ worker' = [worker EXCEPT !.pc = IF file.registered THEN "provide" ELSE "register",
                                        !.key = file.key, !.registered = file.registered]
            /\ IF file.url = "" THEN Write(Saved(file.key, file.registered)) ELSE UNCHANGED accounts
    /\ UNCHANGED <<deployment, up, cfg, ca, keys, env, request, spent, waived>>

(* The directory cannot be made, or the file read or rewritten.            *)
LoadFails ==
    /\ worker.pc = "load" /\ Spend("fault")
    /\ ObtainFails
    /\ UNCHANGED <<deployment, up, cfg, state, env, request, waived>>

Register ==
    /\ worker.pc = "register"
    /\ ca' = [ca EXCEPT ![NormalDirectory(cfg)] = @ \cup {worker.key}]
    /\ worker' = [worker EXCEPT !.pc = "save", !.registered = TRUE]
    /\ UNCHANGED <<deployment, up, cfg, accounts, keys, env, request, spent, waived>>

(* The CA refuses, or it registers the key and its answer is lost.         *)
RegisterFails ==
    /\ worker.pc = "register" /\ Spend("fault")
    /\ \/ UNCHANGED <<ca, waived>>
       \/ /\ ca' = [ca EXCEPT ![NormalDirectory(cfg)] = @ \cup {worker.key}]
          /\ waived' = [waived EXCEPT ![NormalDirectory(cfg)] = @ + 1]
    /\ ObtainFails
    /\ UNCHANGED <<deployment, up, cfg, accounts, keys, env, request>>

SaveUser ==
    /\ worker.pc = "save"
    /\ Write(Saved(worker.key, TRUE))
    /\ Go("provide")
    /\ UNCHANGED <<deployment, up, cfg, ca, keys, env, request, spent, waived>>

(* A plausible bug: the error of saveUser is ignored.                      *)
MutSaveFails ==
    /\ worker.pc = "save" /\ Spend("fault")
    /\ waived' = [waived EXCEPT ![NormalDirectory(cfg)] = @ + 1]
    /\ Go("provide")
    /\ UNCHANGED <<deployment, up, cfg, state, env, request>>

SaveFails ==
    /\ worker.pc = "save" /\ Spend("fault")
    /\ waived' = [waived EXCEPT ![NormalDirectory(cfg)] = @ + 1]
    /\ ObtainFails
    /\ UNCHANGED <<deployment, up, cfg, state, env, request>>

----------------------------------------------------------------------------
(* provider, muxProvider.forDomain and withCredentialEnvironment *)

Domain == worker.cert.domains[worker.domain]
Credential == CredentialForDomain(cfg, worker.cert, TrimWildcard(Domain))
Entries == cfg.credentials[Credential[1]].environment

(* forDomain: no credential is an error, the provider of an earlier domain *)
(* may serve this one too, a new one is built in the guarded section.      *)
ForDomain ==
    /\ worker.pc = "provide" /\ worker.domain <= Len(worker.cert.domains)
    /\ worker' =
         IF Credential = <<>> THEN NoWorker
         ELSE IF Credential[1] \in DOMAIN worker.providers THEN [worker EXCEPT !.domain = @ + 1]
         ELSE [worker EXCEPT !.pc = "set", !.entry = 1, !.restore = <<>>]
    /\ UNCHANGED <<deployment, up, cfg, state, env, request, spent, waived>>

Entry == Entries[worker.entry]
NextEntry == [worker EXCEPT !.entry = @ + 1]

(* The text an entry stands for: a KEY_FILE entry is the file's contents.  *)
TextOf(entry) == IF entry.file THEN deployment.disk[entry.value[1]] ELSE entry.value

(* A plausible bug: the variable is saved again when KEY and KEY_FILE both *)
(* set it.                                                                 *)
MutSnapshot(restore, v) == With(restore, v, env[v])

(* Each target is saved once.                                              *)
Snapshot(restore, v) == IF v \in DOMAIN restore THEN restore ELSE With(restore, v, env[v])

(* An entry without a value must be inherited; KEY_FILE stands for itself. *)
SetInherited ==
    /\ worker.pc = "set" /\ worker.entry <= Len(Entries)
    /\ Entry.value = <<>> /\ env[Entry.name] # <<>>
    /\ worker' = NextEntry
    /\ UNCHANGED <<deployment, up, cfg, state, env, request, spent, waived>>

SetVariable ==
    /\ worker.pc = "set" /\ worker.entry <= Len(Entries)
    /\ Entry.value # <<>> /\ TextOf(Entry) # <<>>
    /\ worker' = [NextEntry EXCEPT !.restore = Snapshot(worker.restore, Entry.target)]
    /\ env' = [env EXCEPT ![Entry.target] = TextOf(Entry)]
    /\ UNCHANGED <<deployment, up, cfg, state, request, spent, waived>>

Restored == [v \in DOMAIN env |-> IF v \in DOMAIN worker.restore THEN worker.restore[v] ELSE env[v]]

(* The variable is not inherited, or the file cannot be read: an error,    *)
(* and the variables set so far are restored.                              *)
SetFails ==
    /\ worker.pc = "set" /\ worker.entry <= Len(Entries)
    /\ IF Entry.value = <<>> THEN env[Entry.name] = <<>> ELSE TextOf(Entry) = <<>>
    /\ env' = Restored
    /\ ObtainFails
    /\ UNCHANGED <<deployment, up, cfg, state, request, spent, waived>>

(* The constructor reads the environment; a provider keeps what it read.   *)
Create ==
    /\ worker.pc = "set" /\ worker.entry > Len(Entries)
    /\ worker' = [worker EXCEPT !.pc = "provide", !.providers = With(@, Credential[1], env),
                                !.domain = @ + 1, !.restore = <<>>]
    /\ env' = Restored
    /\ UNCHANGED <<deployment, up, cfg, state, request, spent, waived>>

CreateFails ==
    /\ worker.pc = "set" /\ worker.entry > Len(Entries) /\ Spend("fault")
    /\ env' = Restored
    /\ ObtainFails
    /\ UNCHANGED <<deployment, up, cfg, state, request, waived>>

----------------------------------------------------------------------------
(* Certificate.Obtain (external): the order, and for each of its domains   *)
(* Present and CleanUp, which look the provider up again.                  *)

PlaceOrder ==
    /\ worker.pc = "provide" /\ worker.domain > Len(worker.cert.domains)
    /\ worker' = [worker EXCEPT !.pc = "order", !.domain = 1]
    /\ UNCHANGED <<deployment, up, cfg, state, env, request, spent, waived>>

Challenge ==
    /\ worker.pc = "order" /\ worker.domain <= Len(worker.cert.domains)
    /\ Credential # <<>> /\ Credential[1] \in DOMAIN worker.providers
    /\ worker' = [worker EXCEPT !.domain = @ + 1]
    /\ UNCHANGED <<deployment, up, cfg, state, env, request, spent, waived>>

(* The order ends, with a certificate or an error.                         *)
OrderEnds ==
    /\ worker.pc = "order"
    /\ worker' = NoWorker
    /\ UNCHANGED <<deployment, up, cfg, state, env, request, spent, waived>>

----------------------------------------------------------------------------
(* DeleteAccount *)

(* The identifier is not the current account's and the file decrypts; any  *)
(* other request is refused and changes nothing.                           *)
DeleteBegin(h, name) ==
    /\ up /\ request[h] = <<>> /\ Spend("delete")
    /\ name # AccountPath(cfg)
    /\ name \in DOMAIN accounts /\ accounts[name].master = cfg.master
    /\ request' = [request EXCEPT ![h] = <<name>>]
    /\ UNCHANGED <<deployment, up, cfg, state, env, worker, waived>>

(* os.Remove: 404 when another handler was first.                          *)
DeleteAccount(h) ==
    /\ request[h] # <<>>
    /\ LET name == request[h][1] IN
       /\ accounts' = [n \in DOMAIN accounts \ {name} |-> accounts[n]]
       /\ waived' = IF name \in CAs \cap DOMAIN accounts /\ accounts[name].registered
                    THEN [waived EXCEPT ![name] = @ + 1] ELSE waived
    /\ request' = [request EXCEPT ![h] = <<>>]
    /\ UNCHANGED <<deployment, up, cfg, ca, keys, env, worker, spent>>

----------------------------------------------------------------------------

Next ==
    \/ Start \/ Stop \/ Redeploy
    \/ up /\ \E i \in DOMAIN cfg.certificates : Obtain(cfg.certificates[i])
    \/ LoadNone \/ LoadUser \/ LoadFails
    \/ Register \/ RegisterFails \/ SaveUser \/ SaveFails
    \/ ForDomain
    \/ SetInherited \/ SetVariable \/ SetFails \/ Create \/ CreateFails
    \/ PlaceOrder \/ Challenge \/ OrderEnds
    \/ \E h \in Handlers : DeleteAccount(h) \/ \E name \in CAs \cup {"account"} : DeleteBegin(h, name)

Spec == Init /\ [][Next]_vars
----------------------------------------------------------------------------
(* Properties *)

Contents(path) == IF path = <<>> THEN <<>> ELSE deployment.disk[path[1]]

(* What the running server decides by is what the operator wrote: for each *)
(* setting the first source named among variable, secret file, YAML and    *)
(* default, never two of them, with the exact number of days.              *)
LoadFollowsPrecedence == up =>
    /\ \A s \in Settings \ {"session"} :
         LET sources ==
               IF s \in FileSettings
               THEN << <<deployment.env[s], deployment.env[s]>>,
                       <<deployment.envFile[s], Contents(deployment.envFile[s])>>,
                       <<deployment.yaml[s], Contents(deployment.yaml[s])>>,
                       <<<<"default">>, IF s = "master" THEN deployment.disk["master.key"] ELSE <<>>>> >>
               ELSE << <<deployment.env[s], deployment.env[s]>>, <<deployment.yaml[s], deployment.yaml[s]>>,
                       <<<<"default">>, Default(s)>> >>
             named == {i \in DOMAIN sources : sources[i][1] # <<>>}
         IN  /\ cfg[s] = sources[Min(named)][2]
             /\ s \in FileSettings => deployment.env[s] = <<>> \/ deployment.envFile[s] = <<>>
    /\ cfg.retention = deployment.retention * Day
    /\ cfg.session = LET given == deployment.env["session"] \o deployment.yaml["session"] IN
                     IF given = <<>> THEN 0 ELSE given[1] * Day

(* Validate promises that issuance will find a DNS credential: every       *)
(* domain of a loaded configuration has one, by the same rules that        *)
(* forDomain applies, and the challenges of an order find the provider     *)
(* built for it before the order was placed.                               *)
ValidatedDomainsHaveCredential == up =>
    \A i \in DOMAIN cfg.certificates : \A j \in DOMAIN cfg.certificates[i].domains :
        LET found == CredentialForDomain(cfg, cfg.certificates[i], TrimWildcard(cfg.certificates[i].domains[j])) IN
        /\ found # <<>> /\ found[1] \in DOMAIN cfg.credentials
        /\ worker.pc = "order" /\ worker.cert = cfg.certificates[i] => found[1] \in DOMAIN worker.providers

(* An order is placed with the account that the data directory keeps under *)
(* the current master key: a crash, a failed save or an administrator who  *)
(* deletes accounts never leave the CA with an account nobody has a key to.*)
OrderUsesSavedAccount ==
    worker.pc \in {"provide", "set", "order"} =>
        /\ AccountPath(cfg) \in DOMAIN accounts
        /\ accounts[AccountPath(cfg)] = Saved(worker.key, TRUE)
        /\ worker.key \in ca[NormalDirectory(cfg)]

(* Each directory has one account: whatever the URL's trailing slashes, the*)
(* restarts and the changes of directory and master key, a CA has only the *)
(* registration in the account file, the one about to be saved, and those  *)
(* that were deleted or lost before they could be saved.                   *)
RegistersOnce ==
    \A a \in CAs :
        Cardinality(ca[a]) = waived[a]
            + (IF a \in DOMAIN accounts /\ accounts[a].registered THEN 1 ELSE 0)
            + (IF worker.pc = "save" /\ NormalDirectory(cfg) = a THEN 1 ELSE 0)

(* The variables of a DNS credential are in the process environment only   *)
(* while its provider is built, and the provider sees its own credential   *)
(* over the inherited environment, nothing of another credential's.        *)
CredentialsAreScoped ==
    /\ worker.pc # "set" => env = Inherited
    /\ worker # NoWorker => \A name \in DOMAIN worker.providers :
         LET entries == cfg.credentials[name].environment
             sets(v) == {i \in DOMAIN entries : entries[i].target = v /\ entries[i].value # <<>>}
         IN  \A v \in DOMAIN Inherited :
               worker.providers[name][v] = IF sets(v) = {} THEN Inherited[v] ELSE TextOf(entries[Max(sets(v))])

=============================================================================
