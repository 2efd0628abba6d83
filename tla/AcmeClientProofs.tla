-------------------------- MODULE AcmeClientProofs --------------------------
(***************************************************************************)
(* Theorems about configuration loading and the ACME client, for any set   *)
(* of deployments, restarts, faults and concurrent deletions of accounts.  *)
(***************************************************************************)
EXTENDS AcmeClient, TLAPS, FiniteSetTheorems, SequenceTheorems, WellFoundedInduction

Path == AccountPath(cfg)

(* The process runs with what the operator has put in place.               *)
ConfigInv ==
    /\ deployment \in Deployments
    /\ up => cfg = Applied(deployment) /\ LoadSucceeds(deployment)
    /\ worker # NoWorker => up

PCs == {"load", "register", "save", "provide", "set", "order"}

WorkerIs(w) ==
    /\ w = [pc |-> w.pc, cert |-> w.cert, key |-> w.key, registered |-> w.registered, domain |-> w.domain,
            entry |-> w.entry, restore |-> w.restore, providers |-> w.providers]
    /\ w.pc \in PCs /\ w.key \in Int /\ w.domain \in Nat \ {0} /\ w.entry \in Nat
    /\ \E i \in DOMAIN cfg.certificates : w.cert = cfg.certificates[i]

WorkerInv == worker = NoWorker \/ WorkerIs(worker)

(* Account files hold registered accounts of their directory.              *)
AccountsInv ==
    \A a \in CAs \cap DOMAIN accounts :
        accounts[a].key \in ca[a] /\ IsAccount(a, accounts[a])

(* A key that is about to be registered is new, and has no file.           *)
KeysInv ==
    /\ keys \in Nat
    /\ ca = [a \in CAs |-> ca[a]] /\ waived \in [CAs -> Nat]
    /\ \A a \in CAs : IsFiniteSet(ca[a]) /\ \A k \in ca[a] : k \in Int /\ k <= keys
    /\ worker.pc \in {"register", "save"} => Path \notin DOMAIN accounts
    /\ worker.pc = "register" => worker.key = keys /\ \A a \in CAs : keys \notin ca[a]
    /\ worker.pc = "save" => worker.key \in ca[Path]

(* Only accounts of other directories are being deleted.                   *)
RequestsInv ==
    /\ DOMAIN request = Handlers
    /\ \A h \in Handlers : request[h] # <<>> => up /\ request[h][1] # Path

AccountInv == ConfigInv /\ WorkerInv /\ AccountsInv /\ KeysInv /\ RequestsInv /\ OrderUsesSavedAccount /\ RegistersOnce

----------------------------------------------------------------------------

CredentialOf(j) == CredentialForDomain(cfg, worker.cert, TrimWildcard(worker.cert.domains[j]))

(* The entries of a credential's environment up to the n-th that set v.    *)
Given(entries, v, n) == {i \in DOMAIN entries : i <= n /\ entries[i].target = v /\ entries[i].value # <<>>}

Text(entry, disk) == IF entry.file THEN disk[entry.value[1]] ELSE entry.value

Sees(entries, disk, v, n) ==
    IF Given(entries, v, n) = {} THEN Inherited[v] ELSE Text(entries[Max(Given(entries, v, n))], disk)

(* What the guarded section has put into the environment, and what it will *)
(* restore.                                                                *)
Guarded ==
    worker.pc = "set" =>
        /\ worker.domain \in DOMAIN worker.cert.domains /\ worker.entry \in 1..Len(Entries) + 1
        /\ \A v \in DOMAIN Inherited :
             /\ env[v] = Sees(Entries, deployment.disk, v, worker.entry - 1)
             /\ v \in DOMAIN worker.restore => worker.restore[v] = Inherited[v]
             /\ v \notin DOMAIN worker.restore => env[v] = Inherited[v]

(* The domains dealt with have a provider.                                 *)
Provided ==
    worker # NoWorker => \A j \in DOMAIN worker.cert.domains :
        j < worker.domain \/ worker.pc = "order" => CredentialOf(j)[1] \in DOMAIN worker.providers

EnvironmentInv ==
    /\ env = [v \in DOMAIN Inherited |-> env[v]]
    /\ Guarded /\ Provided /\ CredentialsAreScoped

----------------------------------------------------------------------------
(* The directory *)

LEMMA DirectoryIsKnown ==
    ASSUME NEW d \in Deployments
    PROVE  NormalDirectory(Applied(d)) \in CAs
<1>1. Applied(d).directory = Plain(d, "directory")
    BY DEF Applied, Value, FileSettings
<1>2. CASE d.env["directory"] # <<>>
    BY <1>1, <1>2 DEF NormalDirectory, Plain, CAs
<1>3. CASE d.env["directory"] = <<>> /\ d.yaml["directory"] # <<>>
    BY <1>1, <1>3 DEF NormalDirectory, Plain, CAs
<1>4. CASE d.env["directory"] = <<>> /\ d.yaml["directory"] = <<>>
    BY <1>1, <1>4 DEF NormalDirectory, Plain, CAs, Default
<1> QED
    BY <1>2, <1>3, <1>4

LEMMA PathIsKnown ==
    ASSUME ConfigInv, up
    PROVE  Path \in CAs /\ Path = NormalDirectory(cfg)
BY DirectoryIsKnown DEF ConfigInv, Path, AccountPath

LEMMA BusyIsUp ==
    ASSUME AccountInv, worker.pc # "idle"
    PROVE  up /\ worker # NoWorker /\ WorkerIs(worker) /\ Path \in CAs /\ Path = NormalDirectory(cfg)
<1>1. worker # NoWorker
    BY DEF NoWorker
<1> QED
    BY <1>1, PathIsKnown DEF AccountInv, ConfigInv, WorkerInv

----------------------------------------------------------------------------
(* Accounts *)

(* The account files and registrations stay as they are.                   *)
LEMMA AccountsStay ==
    ASSUME AccountInv, UNCHANGED <<accounts, ca, keys, waived>>, ConfigInv', WorkerInv', RequestsInv',
           worker'.pc \in {"register", "save"} => worker'.pc = worker.pc /\ worker'.key = worker.key /\ UNCHANGED cfg,
           worker.pc = "save" => worker'.pc = "save",
           worker'.pc \in {"provide", "set", "order"} =>
               /\ UNCHANGED cfg /\ worker'.key = worker.key /\ worker.pc \in {"provide", "set", "order"}
    PROVE  AccountInv'
<1>1. AccountsInv'
    BY DEF AccountInv, AccountsInv
<1>2. KeysInv'
    BY DEF AccountInv, KeysInv, Path, AccountPath, NormalDirectory
<1>3. OrderUsesSavedAccount'
    BY DEF AccountInv, OrderUsesSavedAccount, AccountPath, NormalDirectory, Saved
<1>4. RegistersOnce'
  <2>1. ASSUME NEW a \in CAs
        PROVE  (worker'.pc = "save" /\ NormalDirectory(cfg)' = a) <=> (worker.pc = "save" /\ NormalDirectory(cfg) = a)
    BY DEF NormalDirectory
  <2> QED
    BY <2>1 DEF AccountInv, RegistersOnce
<1> QED
    BY <1>1, <1>2, <1>3, <1>4 DEF AccountInv

(* A step of an order in preparation: nothing but the worker's progress    *)
(* and the environment changes.                                            *)
LEMMA OrderingStays ==
    ASSUME AccountInv, worker.pc \in {"provide", "set", "order"},
           UNCHANGED <<deployment, up, cfg, accounts, ca, keys, request, waived>>,
           \/ worker' = NoWorker
           \/ /\ WorkerIs(worker)'
              /\ worker'.pc \in {"provide", "set", "order"} /\ worker'.key = worker.key
    PROVE  AccountInv'
<1>1. worker # NoWorker /\ up
    BY BusyIsUp
<1>2. ConfigInv'
    BY <1>1 DEF AccountInv, ConfigInv
<1>3. WorkerInv' /\ RequestsInv'
    BY DEF AccountInv, RequestsInv, WorkerInv, Path, AccountPath, NormalDirectory
<1>4. CASE worker' = NoWorker
    BY <1>2, <1>3, <1>4, AccountsStay DEF NoWorker
<1>5. CASE worker' # NoWorker
    BY <1>2, <1>3, <1>5, AccountsStay
<1> QED
    BY <1>4, <1>5

(* The fields of the worker that the steps of an order change.             *)
Moved(w, pc, domain, entry, restore, providers) ==
    [w EXCEPT !.pc = pc, !.domain = domain, !.entry = entry, !.restore = restore, !.providers = providers]

LEMMA WorkerFields ==
    ASSUME NEW w, WorkerIs(w), NEW pc \in PCs, NEW domain \in Nat \ {0}, NEW entry \in Nat, NEW restore, NEW providers
    PROVE  LET v == Moved(w, pc, domain, entry, restore, providers) IN
           /\ WorkerIs(v) /\ v.pc = pc /\ v.key = w.key /\ v.cert = w.cert /\ v.domain = domain /\ v.entry = entry
           /\ v.restore = restore /\ v.providers = providers /\ v # NoWorker
<1>1. w = [pc |-> w.pc, cert |-> w.cert, key |-> w.key, registered |-> w.registered, domain |-> w.domain,
           entry |-> w.entry, restore |-> w.restore, providers |-> w.providers]
    BY DEF WorkerIs
<1>2. PICK v : v = Moved(w, pc, domain, entry, restore, providers)
    OBVIOUS
<1>3. v = [pc |-> pc, cert |-> w.cert, key |-> w.key, registered |-> w.registered, domain |-> domain,
           entry |-> entry, restore |-> restore, providers |-> providers]
    BY <1>1, <1>2 DEF Moved
<1>4. /\ v.pc = pc /\ v.key = w.key /\ v.cert = w.cert /\ v.domain = domain /\ v.entry = entry
      /\ v.restore = restore /\ v.providers = providers /\ v.registered = w.registered
    BY <1>3
<1>5. WorkerIs(v)
    BY <1>3, <1>4 DEF WorkerIs
<1>6. v # NoWorker
    BY <1>4 DEF NoWorker, PCs
<1> QED
    BY <1>2, <1>4, <1>5, <1>6

LEMMA StartAccounts ==
    ASSUME AccountInv, Start
    PROVE  AccountInv'
<1> USE DEF Start, state
<1>1. worker = NoWorker /\ worker.pc = "idle"
    BY DEF AccountInv, ConfigInv, NoWorker
<1>2. ConfigInv' /\ WorkerInv' /\ RequestsInv'
    BY <1>1 DEF AccountInv, ConfigInv, WorkerInv, RequestsInv
<1> QED
    BY <1>1, <1>2, AccountsStay

LEMMA RedeployAccounts ==
    ASSUME AccountInv, Redeploy
    PROVE  AccountInv'
<1> USE DEF Redeploy, state
<1>1. worker = NoWorker /\ worker.pc = "idle"
    BY DEF AccountInv, ConfigInv, NoWorker
<1>2. ConfigInv' /\ WorkerInv' /\ RequestsInv'
    BY <1>1, DeploymentAssumption DEF AccountInv, ConfigInv, WorkerInv, RequestsInv
<1> QED
    BY <1>1, <1>2, AccountsStay

LEMMA ObtainAccounts ==
    ASSUME AccountInv, NEW i \in DOMAIN cfg.certificates, Obtain(cfg.certificates[i])
    PROVE  AccountInv'
<1> USE DEF Obtain, state
<1>1. worker'.pc = "load" /\ worker.pc = "idle"
    BY DEF NoWorker
<1>2. WorkerIs(worker)'
    BY DEF WorkerIs, PCs
<1>3. ConfigInv' /\ WorkerInv' /\ RequestsInv'
    BY <1>2 DEF AccountInv, ConfigInv, WorkerInv, RequestsInv, Path, AccountPath, NormalDirectory
<1> QED
    BY <1>1, <1>3, AccountsStay

LEMMA LoadFailsAccounts ==
    ASSUME AccountInv, LoadFails
    PROVE  AccountInv'
<1> USE DEF LoadFails, ObtainFails, state
<1>1. worker'.pc = "idle" /\ worker # NoWorker
    BY DEF NoWorker
<1>2. ConfigInv' /\ WorkerInv' /\ RequestsInv'
    BY DEF AccountInv, ConfigInv, WorkerInv, RequestsInv, Path, AccountPath, NormalDirectory
<1> QED
    BY <1>1, <1>2, AccountsStay

LEMMA DeleteBeginAccounts ==
    ASSUME AccountInv, NEW h \in Handlers, NEW name, DeleteBegin(h, name)
    PROVE  AccountInv'
<1> USE DEF DeleteBegin, state
<1>1. ConfigInv' /\ WorkerInv'
    BY DEF AccountInv, ConfigInv, WorkerInv, WorkerIs
<1>2. RequestsInv'
    BY DEF AccountInv, RequestsInv, Path, AccountPath, NormalDirectory
<1> QED
    BY <1>1, <1>2, AccountsStay

LEMMA OrderingMoves ==
    ASSUME AccountInv, worker.pc \in {"provide", "set", "order"},
           UNCHANGED <<deployment, up, cfg, accounts, ca, keys, request, waived>>,
           NEW pc \in {"provide", "set", "order"}, NEW domain \in Nat \ {0}, NEW entry \in Nat, NEW restore,
           NEW providers, worker' = Moved(worker, pc, domain, entry, restore, providers)
    PROVE  AccountInv'
<1>1. WorkerIs(worker) /\ pc \in PCs
    BY BusyIsUp DEF PCs
<1>2. WorkerIs(worker') /\ worker'.pc = pc /\ worker'.key = worker.key
    BY <1>1, WorkerFields
<1>3. WorkerIs(worker)'
    BY <1>2 DEF WorkerIs
<1> QED
    BY <1>2, <1>3, OrderingStays

(* The steps of an order as moves of the worker.                           *)
LEMMA OrderingActions ==
    ASSUME AccountInv,
           ForDomain \/ SetInherited \/ SetVariable \/ SetFails \/ Create \/ CreateFails \/ PlaceOrder \/ Challenge
               \/ OrderEnds
    PROVE  /\ UNCHANGED <<deployment, up, cfg, accounts, ca, keys, request, waived>>
           /\ worker.pc \in {"provide", "set", "order"}
           /\ \/ worker' = NoWorker
              \/ \E pc \in {"provide", "set", "order"}, domain \in Nat \ {0}, entry \in Nat :
                   \E restore, providers : worker' = Moved(worker, pc, domain, entry, restore, providers)
<1>1. worker.pc \in {"provide", "set", "order"} /\ UNCHANGED <<deployment, up, cfg, accounts, ca, keys, request, waived>>
    BY DEF ForDomain, SetInherited, SetVariable, SetFails, Create, CreateFails, PlaceOrder, Challenge, OrderEnds,
           state
<1>2. WorkerIs(worker) /\ worker.domain \in Nat \ {0} /\ worker.entry \in Nat
    BY <1>1, BusyIsUp DEF WorkerIs
<1>3. worker = [pc |-> worker.pc, cert |-> worker.cert, key |-> worker.key, registered |-> worker.registered,
                domain |-> worker.domain, entry |-> worker.entry, restore |-> worker.restore,
                providers |-> worker.providers]
    BY <1>2 DEF WorkerIs
<1>4. CASE ForDomain
  <2>1. worker.pc = "provide"
    BY <1>4 DEF ForDomain
  <2>2. CASE worker' = [worker EXCEPT !.domain = @ + 1]
    <3>1. worker' = Moved(worker, "provide", worker.domain + 1, worker.entry, worker.restore, worker.providers)
        BY <1>3, <2>1, <2>2 DEF Moved
    <3> QED
        BY <1>1, <1>2, <3>1
  <2>3. CASE worker' = [worker EXCEPT !.pc = "set", !.entry = 1, !.restore = <<>>]
    <3>1. worker' = Moved(worker, "set", worker.domain, 1, <<>>, worker.providers)
        BY <1>3, <2>3 DEF Moved
    <3> QED
        BY <1>1, <1>2, <3>1
  <2> QED
    BY <1>1, <1>4, <2>2, <2>3 DEF ForDomain
<1>5. CASE SetInherited
  <2>1. worker' = Moved(worker, "set", worker.domain, worker.entry + 1, worker.restore, worker.providers)
    BY <1>3, <1>5 DEF Moved, SetInherited, NextEntry
  <2> QED
    BY <1>1, <1>2, <2>1
<1>6. CASE SetVariable
  <2>1. PICK r : r = Snapshot(worker.restore, Entry.target)
    OBVIOUS
  <2>2. worker' = Moved(worker, "set", worker.domain, worker.entry + 1, r, worker.providers)
    BY <1>3, <1>6, <2>1 DEF Moved, SetVariable, NextEntry
  <2> QED
    BY <1>1, <1>2, <2>2
<1>7. CASE Create
  <2>1. PICK p : p = With(worker.providers, Credential[1], env)
    OBVIOUS
  <2>2. worker' = Moved(worker, "provide", worker.domain + 1, worker.entry, <<>>, p)
    BY <1>3, <1>7, <2>1 DEF Moved, Create
  <2> QED
    BY <1>1, <1>2, <2>2
<1>8. CASE PlaceOrder
  <2>1. worker' = Moved(worker, "order", 1, worker.entry, worker.restore, worker.providers)
    BY <1>3, <1>8 DEF Moved, PlaceOrder
  <2> QED
    BY <1>1, <1>2, <2>1
<1>9. CASE Challenge
  <2>1. worker' = Moved(worker, "order", worker.domain + 1, worker.entry, worker.restore, worker.providers)
    BY <1>3, <1>9 DEF Moved, Challenge
  <2> QED
    BY <1>1, <1>2, <2>1
<1>10. CASE SetFails \/ CreateFails \/ OrderEnds
    BY <1>1, <1>10 DEF SetFails, CreateFails, OrderEnds, ObtainFails
<1> QED
    BY <1>4, <1>5, <1>6, <1>7, <1>8, <1>9, <1>10

LEMMA OrderingAccounts ==
    ASSUME AccountInv,
           ForDomain \/ SetInherited \/ SetVariable \/ SetFails \/ Create \/ CreateFails \/ PlaceOrder \/ Challenge
               \/ OrderEnds
    PROVE  AccountInv'
BY OrderingActions, OrderingMoves, OrderingStays

LEMMA StopAccounts ==
    ASSUME AccountInv, Stop
    PROVE  AccountInv'
<1> USE DEF Stop, state
<1>1. worker'.pc = "idle"
    BY DEF NoWorker
<1>2. ConfigInv' /\ WorkerInv'
    BY DEF AccountInv, ConfigInv, WorkerInv
<1>3. RequestsInv'
    BY DEF RequestsInv, NoRequest
<1>4. AccountsInv' /\ OrderUsesSavedAccount'
    BY <1>1 DEF AccountInv, AccountsInv, OrderUsesSavedAccount
<1>5. Path \in CAs /\ Path = NormalDirectory(cfg)
    BY PathIsKnown DEF AccountInv
<1>6. KeysInv'
    BY <1>1, <1>5 DEF AccountInv, KeysInv
<1>7. RegistersOnce'
  <2> SUFFICES ASSUME NEW a \in CAs
               PROVE  Cardinality(ca[a]) = waived'[a]
                        + (IF a \in DOMAIN accounts /\ accounts[a].registered THEN 1 ELSE 0) + 0
    BY <1>1 DEF RegistersOnce
  <2>1. waived \in [CAs -> Nat]
    BY DEF AccountInv, KeysInv
  <2>2. waived'[a] = waived[a] + (IF worker.pc = "save" /\ NormalDirectory(cfg) = a THEN 1 ELSE 0)
    BY <2>1, <1>5
  <2> QED
    BY <2>1, <2>2 DEF AccountInv, RegistersOnce
<1> QED
    BY <1>2, <1>3, <1>4, <1>6, <1>7 DEF AccountInv

(* The account of an obtain is found or registered.                        *)
LEMMA AccountFields ==
    ASSUME WorkerIs(worker), UNCHANGED cfg, NEW pc \in PCs, NEW key \in Int, NEW registered,
           worker' = [pc |-> pc, cert |-> worker.cert, key |-> key, registered |-> registered,
                      domain |-> worker.domain, entry |-> worker.entry, restore |-> worker.restore,
                      providers |-> worker.providers]
    PROVE  WorkerInv' /\ worker'.pc = pc /\ worker'.key = key /\ worker' # NoWorker
<1>1. /\ worker'.pc = pc /\ worker'.key = key /\ worker'.cert = worker.cert
      /\ worker'.registered = registered /\ worker'.domain = worker.domain /\ worker'.entry = worker.entry
      /\ worker'.restore = worker.restore /\ worker'.providers = worker.providers
    OBVIOUS
<1>2. WorkerIs(worker)'
    BY <1>1 DEF WorkerIs
<1>3. worker' # NoWorker
    BY <1>1 DEF NoWorker, PCs
<1> QED
    BY <1>1, <1>2, <1>3 DEF WorkerInv

LEMMA LoadNoneAccounts ==
    ASSUME AccountInv, LoadNone
    PROVE  AccountInv'
<1> USE DEF LoadNone
<1>0. worker # NoWorker /\ up /\ WorkerIs(worker) /\ keys \in Nat
    BY BusyIsUp DEF AccountInv, KeysInv
<1>k. PICK new \in Int : new = keys + 1
    BY <1>0
<1>1. worker' = [pc |-> "register", cert |-> worker.cert, key |-> new, registered |-> worker.registered,
                 domain |-> worker.domain, entry |-> worker.entry, restore |-> worker.restore,
                 providers |-> worker.providers]
    BY <1>0, <1>k DEF WorkerIs
<1>2. worker'.pc = "register" /\ worker'.key = keys + 1
    BY <1>1, <1>k
<1>3. ConfigInv'
    BY <1>0 DEF AccountInv, ConfigInv
<1>4. WorkerInv'
    BY <1>0, <1>1, AccountFields DEF PCs
<1>5. RequestsInv' /\ AccountsInv' /\ OrderUsesSavedAccount'
    BY <1>2 DEF AccountInv, RequestsInv, AccountsInv, OrderUsesSavedAccount, Path, AccountPath, NormalDirectory
<1>6. KeysInv'
  <2>1. \A a \in CAs : IsFiniteSet(ca[a]) /\ keys + 1 \notin ca[a] /\ \A k \in ca[a] : k \in Int /\ k <= keys + 1
    BY <1>0 DEF AccountInv, KeysInv
  <2> QED
    BY <1>0, <1>2, <2>1 DEF AccountInv, KeysInv, Path, AccountPath, NormalDirectory
<1>7. RegistersOnce'
    BY <1>2 DEF AccountInv, RegistersOnce, NormalDirectory
<1> QED
    BY <1>3, <1>4, <1>5, <1>6, <1>7 DEF AccountInv

(* A file of the directory is written; no other changes.                   *)
LEMMA WriteSets ==
    ASSUME NEW file, Write(file)
    PROVE  /\ DOMAIN accounts' = DOMAIN accounts \cup {Path} /\ accounts'[Path] = file
           /\ \A n \in DOMAIN accounts : n # Path => accounts'[n] = accounts[n]
BY DEF Write, With, Path

LEMMA AccountIsRegistered ==
    ASSUME NEW a, NEW file, IsAccount(a, file)
    PROVE  file.registered = TRUE
<1>1. PICK f : f = [key |-> file.key, registered |-> TRUE, url |-> file.url, master |-> file.master]
    OBVIOUS
<1>2. f.registered = TRUE
    BY <1>1
<1> QED
    BY <1>1, <1>2 DEF IsAccount

LEMMA SavedIsAccount ==
    ASSUME NEW key
    PROVE  IsAccount(Path, Saved(key, TRUE)) /\ Saved(key, TRUE).key = key /\ Saved(key, TRUE).registered = TRUE
BY DEF IsAccount, Saved, Path, AccountPath

LEMMA LoadUserAccounts ==
    ASSUME AccountInv, LoadUser
    PROVE  AccountInv'
<1> USE DEF LoadUser
<1>0. worker # NoWorker /\ up /\ WorkerIs(worker) /\ Path \in CAs \cap DOMAIN accounts /\ Path = NormalDirectory(cfg)
    BY BusyIsUp DEF Path
<1>1. PICK file : file = accounts[Path]
    OBVIOUS
<1>2. IsAccount(Path, file) /\ file.key \in ca[Path] /\ file.key \in Int /\ file.registered = TRUE
  <2>1. IsAccount(Path, file) /\ file.key \in ca[Path]
    BY <1>0, <1>1 DEF AccountInv, AccountsInv
  <2> QED
    BY <1>0, <2>1, AccountIsRegistered DEF AccountInv, KeysInv
<1>3. ConfigInv'
    BY <1>0 DEF AccountInv, ConfigInv
<1>4. RequestsInv'
    BY DEF AccountInv, RequestsInv, Path, AccountPath, NormalDirectory
<1>5. CASE file.master # cfg.master
  <2>1. worker' = NoWorker /\ worker'.pc = "idle" /\ UNCHANGED accounts
    BY <1>1, <1>5 DEF ObtainFails, NoWorker, Path
  <2> QED
    BY <1>3, <1>4, <2>1, AccountsStay DEF WorkerInv
<1>6. CASE file.master = cfg.master
  <2>1. worker' = [pc |-> "provide", cert |-> worker.cert, key |-> file.key, registered |-> TRUE,
                   domain |-> worker.domain, entry |-> worker.entry, restore |-> worker.restore,
                   providers |-> worker.providers]
    BY <1>0, <1>1, <1>2, <1>6 DEF WorkerIs, Path
  <2>2. worker'.pc = "provide" /\ worker'.key = file.key
    BY <2>1
  <2>3. WorkerInv'
    BY <1>0, <1>2, <2>1, AccountFields DEF PCs
  <2>4. /\ DOMAIN accounts' = DOMAIN accounts /\ accounts'[Path] = Saved(file.key, TRUE)
        /\ \A n \in DOMAIN accounts : n # Path => accounts'[n] = accounts[n]
    <3>1. CASE file.url = ""
      <4>1. Write(Saved(file.key, TRUE))
        BY <1>1, <1>2, <1>6, <3>1 DEF Path
      <4> QED
        BY <1>0, <4>1, WriteSets
    <3>2. CASE file.url # ""
      <4>1. file.url = NormalDirectory(cfg) /\ UNCHANGED accounts
        BY <1>0, <1>1, <1>2, <1>6, <3>2 DEF IsAccount, Path
      <4>2. file = Saved(file.key, TRUE)
        BY <1>2, <1>6, <4>1 DEF IsAccount, Saved
      <4> QED
        BY <1>1, <4>1, <4>2
    <3> QED
        BY <3>1, <3>2
  <2>5. UNCHANGED Path /\ NormalDirectory(cfg)' = NormalDirectory(cfg) /\ Saved(file.key, TRUE)' = Saved(file.key, TRUE)
    BY DEF Path, AccountPath, NormalDirectory, Saved
  <2>6. AccountsInv'
    <3>1. SUFFICES ASSUME NEW a \in CAs \cap DOMAIN accounts'
                   PROVE  accounts'[a].key \in ca'[a] /\ IsAccount(a, accounts'[a])
        BY DEF AccountsInv, IsAccount
    <3>2. a \in CAs \cap DOMAIN accounts /\ ca' = ca
        BY <2>4
    <3>3. CASE a = Path
        BY <1>2, <2>4, <3>2, <3>3, SavedIsAccount
    <3>4. CASE a # Path
        BY <2>4, <3>2, <3>4 DEF AccountInv, AccountsInv
    <3> QED
        BY <3>3, <3>4
  <2>7. KeysInv'
    BY <2>2 DEF AccountInv, KeysInv
  <2>8. OrderUsesSavedAccount'
    BY <1>0, <1>2, <2>2, <2>4, <2>5 DEF OrderUsesSavedAccount, Path
  <2>9. RegistersOnce'
    <3>1. \A a \in CAs \cap DOMAIN accounts : accounts[a].registered = TRUE
        BY AccountIsRegistered DEF AccountInv, AccountsInv
    <3>2. \A a \in CAs \cap DOMAIN accounts : accounts'[a].registered = TRUE
        BY <2>4, <2>6, AccountIsRegistered DEF AccountsInv
    <3> QED
        BY <2>2, <2>4, <3>1, <3>2 DEF AccountInv, RegistersOnce
  <2> QED
    BY <1>3, <1>4, <2>3, <2>6, <2>7, <2>8, <2>9 DEF AccountInv
<1> QED
    BY <1>5, <1>6

LEMMA RegisterAccounts ==
    ASSUME AccountInv, Register
    PROVE  AccountInv'
<1> USE DEF Register
<1>0. worker # NoWorker /\ up /\ WorkerIs(worker) /\ worker.key \in Int /\ Path \in CAs /\ Path = NormalDirectory(cfg)
    BY BusyIsUp DEF WorkerIs
<1>1. worker' = [pc |-> "save", cert |-> worker.cert, key |-> worker.key, registered |-> TRUE,
                 domain |-> worker.domain, entry |-> worker.entry, restore |-> worker.restore,
                 providers |-> worker.providers]
    BY <1>0 DEF WorkerIs
<1>2. WorkerInv' /\ worker'.pc = "save" /\ worker'.key = worker.key
    BY <1>0, <1>1, AccountFields DEF PCs
<1>3. ConfigInv' /\ RequestsInv'
    BY <1>0 DEF AccountInv, ConfigInv, RequestsInv, Path, AccountPath, NormalDirectory
<1>4. /\ worker.key = keys /\ keys \in Nat /\ worker.key \notin ca[Path] /\ Path \notin DOMAIN accounts
      /\ IsFiniteSet(ca[Path])
    BY <1>0 DEF AccountInv, KeysInv
<1>5. /\ ca' = [a \in CAs |-> ca'[a]] /\ ca'[Path] = ca[Path] \cup {worker.key}
      /\ \A a \in CAs : a # Path => ca'[a] = ca[a]
    BY <1>0 DEF AccountInv, KeysInv
<1>6. IsFiniteSet(ca'[Path]) /\ Cardinality(ca'[Path]) = Cardinality(ca[Path]) + 1
    BY <1>4, <1>5, FS_AddElement
<1>7. UNCHANGED Path /\ NormalDirectory(cfg)' = NormalDirectory(cfg)
    BY DEF Path, AccountPath, NormalDirectory
<1>8. AccountsInv'
    BY <1>5 DEF AccountInv, AccountsInv
<1>9. KeysInv'
  <2>1. \A a \in CAs : IsFiniteSet(ca'[a]) /\ \A k \in ca'[a] : k \in Int /\ k <= keys
    BY <1>0, <1>4, <1>5, <1>6 DEF AccountInv, KeysInv
  <2> QED
    BY <1>2, <1>4, <1>5, <1>7, <2>1 DEF AccountInv, KeysInv
<1>10. OrderUsesSavedAccount'
    BY <1>2 DEF OrderUsesSavedAccount
<1>11. RegistersOnce'
  <2> SUFFICES ASSUME NEW a \in CAs
               PROVE  Cardinality(ca'[a]) = waived[a]
                        + (IF a \in DOMAIN accounts /\ accounts[a].registered THEN 1 ELSE 0)
                        + (IF Path = a THEN 1 ELSE 0)
    BY <1>0, <1>2, <1>7 DEF RegistersOnce
  <2>1. Cardinality(ca[a]) = waived[a] + (IF a \in DOMAIN accounts /\ accounts[a].registered THEN 1 ELSE 0) + 0
    BY DEF AccountInv, RegistersOnce
  <2>2. waived[a] \in Nat
    BY DEF AccountInv, KeysInv
  <2> QED
    BY <1>4, <1>5, <1>6, <2>1, <2>2
<1> QED
    BY <1>2, <1>3, <1>8, <1>9, <1>10, <1>11 DEF AccountInv

LEMMA RegisterFailsAccounts ==
    ASSUME AccountInv, RegisterFails
    PROVE  AccountInv'
<1> USE DEF RegisterFails, ObtainFails
<1>0. up /\ worker.key \in Int /\ Path \in CAs /\ Path = NormalDirectory(cfg) /\ worker'.pc = "idle"
    BY BusyIsUp DEF WorkerIs, NoWorker
<1>1. ConfigInv' /\ WorkerInv' /\ RequestsInv'
    BY DEF AccountInv, ConfigInv, WorkerInv, RequestsInv, Path, AccountPath, NormalDirectory
<1>2. CASE UNCHANGED <<ca, waived>>
    BY <1>0, <1>1, <1>2, AccountsStay
<1>3. CASE /\ ca' = [ca EXCEPT ![NormalDirectory(cfg)] = @ \cup {worker.key}]
           /\ waived' = [waived EXCEPT ![NormalDirectory(cfg)] = @ + 1]
  <2>1. /\ worker.key = keys /\ keys \in Nat /\ worker.key \notin ca[Path] /\ Path \notin DOMAIN accounts
        /\ IsFiniteSet(ca[Path])
    BY <1>0 DEF AccountInv, KeysInv
  <2>2. /\ ca' = [a \in CAs |-> ca'[a]] /\ ca'[Path] = ca[Path] \cup {worker.key}
        /\ \A a \in CAs : a # Path => ca'[a] = ca[a]
    BY <1>0, <1>3 DEF AccountInv, KeysInv
  <2>3. IsFiniteSet(ca'[Path]) /\ Cardinality(ca'[Path]) = Cardinality(ca[Path]) + 1
    BY <2>1, <2>2, FS_AddElement
  <2>4. AccountsInv' /\ OrderUsesSavedAccount'
    BY <1>0, <2>2 DEF AccountInv, AccountsInv, OrderUsesSavedAccount
  <2>5. waived \in [CAs -> Nat] /\ waived' \in [CAs -> Nat]
    BY <1>0, <1>3 DEF AccountInv, KeysInv
  <2>6. KeysInv'
    <3>1. \A a \in CAs : IsFiniteSet(ca'[a]) /\ \A k \in ca'[a] : k \in Int /\ k <= keys
      <4> SUFFICES ASSUME NEW a \in CAs
                   PROVE  IsFiniteSet(ca'[a]) /\ \A k \in ca'[a] : k \in Int /\ k <= keys
        OBVIOUS
      <4>1. IsFiniteSet(ca[a]) /\ \A k \in ca[a] : k \in Int /\ k <= keys
        BY DEF AccountInv, KeysInv
      <4>2. CASE a = Path
        BY <2>1, <2>2, <2>3, <4>1, <4>2
      <4>3. CASE a # Path
        BY <2>2, <4>1, <4>3
      <4> QED
        BY <4>2, <4>3
    <3> QED
        BY <1>0, <2>1, <2>2, <2>5, <3>1 DEF AccountInv, KeysInv
  <2>7. RegistersOnce'
    <3> SUFFICES ASSUME NEW a \in CAs
                 PROVE  Cardinality(ca'[a]) = waived'[a]
                          + (IF a \in DOMAIN accounts /\ accounts[a].registered THEN 1 ELSE 0) + 0
        BY <1>0 DEF RegistersOnce
    <3>1. Cardinality(ca[a]) = waived[a] + (IF a \in DOMAIN accounts /\ accounts[a].registered THEN 1 ELSE 0) + 0
        BY DEF AccountInv, RegistersOnce
    <3>2. waived'[a] = waived[a] + (IF a = Path THEN 1 ELSE 0)
        BY <1>0, <1>3, <2>5
    <3>3. CASE a = Path
      <4>1. Cardinality(ca[a]) = waived[a] + 0 + 0 /\ waived[a] \in Nat
        BY <2>1, <2>5, <3>1, <3>3
      <4> QED
        BY <2>1, <2>3, <3>2, <3>3, <4>1
    <3>4. CASE a # Path
        BY <2>2, <2>5, <3>1, <3>2, <3>4
    <3> QED
        BY <3>3, <3>4
  <2> QED
    BY <1>1, <2>4, <2>6, <2>7 DEF AccountInv
<1> QED
    BY <1>2, <1>3

LEMMA SaveUserAccounts ==
    ASSUME AccountInv, SaveUser
    PROVE  AccountInv'
<1> USE DEF SaveUser, Go
<1>0. worker # NoWorker /\ up /\ WorkerIs(worker) /\ worker.key \in Int /\ Path \in CAs /\ Path = NormalDirectory(cfg)
    BY BusyIsUp DEF WorkerIs
<1>1. worker' = [pc |-> "provide", cert |-> worker.cert, key |-> worker.key, registered |-> worker.registered,
                 domain |-> worker.domain, entry |-> worker.entry, restore |-> worker.restore,
                 providers |-> worker.providers]
    BY <1>0 DEF WorkerIs
<1>2. WorkerInv' /\ worker'.pc = "provide" /\ worker'.key = worker.key
    BY <1>0, <1>1, AccountFields DEF PCs
<1>3. ConfigInv' /\ RequestsInv'
    BY <1>0 DEF AccountInv, ConfigInv, RequestsInv, Path, AccountPath, NormalDirectory
<1>4. Path \notin DOMAIN accounts /\ worker.key \in ca[Path]
    BY DEF AccountInv, KeysInv
<1>5. /\ DOMAIN accounts' = DOMAIN accounts \cup {Path} /\ accounts'[Path] = Saved(worker.key, TRUE)
      /\ \A n \in DOMAIN accounts : n # Path => accounts'[n] = accounts[n]
    BY WriteSets
<1>6. UNCHANGED Path /\ NormalDirectory(cfg)' = NormalDirectory(cfg) /\ Saved(worker.key, TRUE)' = Saved(worker.key, TRUE)
    BY <1>2 DEF Path, AccountPath, NormalDirectory, Saved
<1>7. AccountsInv'
    BY <1>0, <1>4, <1>5, SavedIsAccount DEF AccountInv, AccountsInv
<1>8. KeysInv'
    BY <1>2 DEF AccountInv, KeysInv
<1>9. OrderUsesSavedAccount'
    BY <1>0, <1>2, <1>4, <1>5, <1>6 DEF OrderUsesSavedAccount, Path
<1>10. RegistersOnce'
  <2> SUFFICES ASSUME NEW a \in CAs
               PROVE  Cardinality(ca[a]) = waived[a]
                        + (IF a \in DOMAIN accounts' /\ accounts'[a].registered THEN 1 ELSE 0) + 0
    BY <1>2 DEF RegistersOnce
  <2>1. Cardinality(ca[a]) = waived[a] + (IF a \in DOMAIN accounts /\ accounts[a].registered THEN 1 ELSE 0)
                                      + (IF Path = a THEN 1 ELSE 0)
    BY <1>0 DEF AccountInv, RegistersOnce
  <2>2. waived[a] \in Nat
    BY DEF AccountInv, KeysInv
  <2>3. CASE a = Path
    <3>1. accounts'[a].registered = TRUE
        BY <1>5, <2>3, SavedIsAccount
    <3>2. a \in DOMAIN accounts'
        BY <1>5, <2>3
    <3>3. (IF a \in DOMAIN accounts' /\ accounts'[a].registered THEN 1 ELSE 0) = 1
        BY <3>1, <3>2, Zenon
    <3>4. Cardinality(ca[a]) = waived[a] + 0 + 1
        BY <1>4, <2>1, <2>3
    <3> QED
        BY <2>2, <3>3, <3>4
  <2>4. CASE a # Path
    BY <1>5, <2>1, <2>2, <2>4
  <2> QED
    BY <2>3, <2>4
<1> QED
    BY <1>2, <1>3, <1>7, <1>8, <1>9, <1>10 DEF AccountInv

LEMMA SaveFailsAccounts ==
    ASSUME AccountInv, SaveFails
    PROVE  AccountInv'
<1> USE DEF SaveFails, ObtainFails, state
<1>0. up /\ Path \in CAs /\ Path = NormalDirectory(cfg) /\ worker'.pc = "idle"
    BY BusyIsUp DEF NoWorker
<1>1. ConfigInv' /\ WorkerInv' /\ RequestsInv'
    BY DEF AccountInv, ConfigInv, WorkerInv, RequestsInv, Path, AccountPath, NormalDirectory
<1>2. AccountsInv' /\ OrderUsesSavedAccount'
    BY <1>0 DEF AccountInv, AccountsInv, OrderUsesSavedAccount
<1>3. waived \in [CAs -> Nat] /\ waived' \in [CAs -> Nat]
    BY <1>0 DEF AccountInv, KeysInv
<1>4. KeysInv'
    BY <1>0, <1>3 DEF AccountInv, KeysInv
<1>5. RegistersOnce'
  <2> SUFFICES ASSUME NEW a \in CAs
               PROVE  Cardinality(ca[a]) = waived'[a]
                        + (IF a \in DOMAIN accounts /\ accounts[a].registered THEN 1 ELSE 0) + 0
    BY <1>0 DEF RegistersOnce
  <2>1. Cardinality(ca[a]) = waived[a] + (IF a \in DOMAIN accounts /\ accounts[a].registered THEN 1 ELSE 0)
                                      + (IF Path = a THEN 1 ELSE 0)
    BY <1>0 DEF AccountInv, RegistersOnce
  <2>2. waived'[a] = waived[a] + (IF a = Path THEN 1 ELSE 0)
    BY <1>0, <1>3
  <2> QED
    BY <1>3, <2>1, <2>2
<1> QED
    BY <1>1, <1>2, <1>4, <1>5 DEF AccountInv

LEMMA DeleteAccounts ==
    ASSUME AccountInv, NEW h \in Handlers, DeleteAccount(h)
    PROVE  AccountInv'
<1> USE DEF DeleteAccount
<1>1. PICK name : name = request[h][1]
    OBVIOUS
<1>2. up /\ name # Path /\ Path \in CAs /\ Path = NormalDirectory(cfg)
    BY <1>1, PathIsKnown DEF AccountInv, RequestsInv
<1>3. DOMAIN accounts' = DOMAIN accounts \ {name} /\ \A n \in DOMAIN accounts' : accounts'[n] = accounts[n]
    BY <1>1
<1>4. waived' = IF name \in CAs \cap DOMAIN accounts /\ accounts[name].registered
                THEN [waived EXCEPT ![name] = @ + 1] ELSE waived
    BY <1>1
<1>5. waived \in [CAs -> Nat] /\ waived' \in [CAs -> Nat]
  <2>1. waived \in [CAs -> Nat]
    BY DEF AccountInv, KeysInv
  <2> QED
    BY <1>4, <2>1
<1>6. UNCHANGED Path /\ NormalDirectory(cfg)' = NormalDirectory(cfg) /\ Saved(worker.key, TRUE)' = Saved(worker.key, TRUE)
    BY DEF Path, AccountPath, NormalDirectory, Saved
<1>7. ConfigInv' /\ WorkerInv'
    BY DEF AccountInv, ConfigInv, WorkerInv, WorkerIs
<1>8. RequestsInv'
    BY <1>6 DEF AccountInv, RequestsInv
<1>9. AccountsInv'
    BY <1>3 DEF AccountInv, AccountsInv
<1>10. KeysInv'
    BY <1>3, <1>5, <1>6 DEF AccountInv, KeysInv
<1>11. OrderUsesSavedAccount'
    BY <1>2, <1>3, <1>6 DEF AccountInv, OrderUsesSavedAccount, Path
<1>12. RegistersOnce'
  <2> SUFFICES ASSUME NEW a \in CAs
               PROVE  Cardinality(ca[a]) = waived'[a]
                        + (IF a \in DOMAIN accounts' /\ accounts'[a].registered THEN 1 ELSE 0)
                        + (IF worker.pc = "save" /\ Path = a THEN 1 ELSE 0)
    BY <1>2, <1>6 DEF RegistersOnce
  <2>1. Cardinality(ca[a]) = waived[a] + (IF a \in DOMAIN accounts /\ accounts[a].registered THEN 1 ELSE 0)
                                      + (IF worker.pc = "save" /\ Path = a THEN 1 ELSE 0)
    BY <1>2 DEF AccountInv, RegistersOnce
  <2>2. CASE a # name
    BY <1>3, <1>4, <1>5, <2>1, <2>2
  <2>3. CASE a = name /\ a \in DOMAIN accounts /\ accounts[a].registered
    <3>1. waived'[a] = waived[a] + 1 /\ a \notin DOMAIN accounts'
        BY <1>3, <1>4, <1>5, <2>3
    <3> QED
        BY <1>5, <2>1, <2>3, <3>1
  <2>4. CASE a = name /\ ~(a \in DOMAIN accounts /\ accounts[a].registered)
    BY <1>3, <1>4, <1>5, <2>1, <2>4
  <2> QED
    BY <2>2, <2>3, <2>4
<1> QED
    BY <1>7, <1>8, <1>9, <1>10, <1>11, <1>12 DEF AccountInv

LEMMA InitAccounts ==
    ASSUME Init
    PROVE  AccountInv
<1> USE DEF Init
<1>1. worker.pc = "idle"
    BY DEF NoWorker
<1>2. ConfigInv /\ WorkerInv /\ OrderUsesSavedAccount
    BY <1>1 DEF ConfigInv, WorkerInv, OrderUsesSavedAccount
<1>3. RequestsInv
    BY DEF RequestsInv, NoRequest
<1>4. \A a \in CAs \cap DOMAIN accounts :
          IsAccount(a, accounts[a]) /\ accounts[a].key \in Int /\ accounts[a].key <= 0 /\ accounts[a].registered = TRUE
    BY AccountAssumption, AccountIsRegistered
<1>5. \A a \in CAs : a \in DOMAIN accounts => ca[a] = {accounts[a].key}
    BY <1>4
<1>6. \A a \in CAs : a \notin DOMAIN accounts => ca[a] = {}
    OBVIOUS
<1> HIDE DEF Init
<1>7. \A k : IsFiniteSet({k}) /\ Cardinality({k}) = 1
    BY FS_Singleton
<1>8. IsFiniteSet({}) /\ Cardinality({}) = 0
    BY FS_EmptySet
<1>9. AccountsInv
    BY <1>4, <1>5 DEF AccountsInv
<1>10. keys = 0 /\ waived = [a \in CAs |-> 0] /\ ca = [a \in CAs |-> ca[a]]
    BY DEF Init
<1>11. KeysInv
  <2>1. ASSUME NEW a \in CAs
        PROVE  IsFiniteSet(ca[a]) /\ \A k \in ca[a] : k \in Int /\ k <= keys
    <3>1. CASE a \in DOMAIN accounts
      <4>1. PICK k : k = accounts[a].key
        OBVIOUS
      <4>2. ca[a] = {k} /\ k \in Int /\ k <= 0
        BY <1>4, <1>5, <3>1, <4>1
      <4> QED
        BY <1>7, <1>10, <4>2
    <3>2. CASE a \notin DOMAIN accounts
        BY <1>6, <1>8, <3>2
    <3> QED
        BY <3>1, <3>2
  <2> QED
    BY <1>1, <1>10, <2>1 DEF KeysInv
<1>12. RegistersOnce
  <2> SUFFICES ASSUME NEW a \in CAs
               PROVE  Cardinality(ca[a]) = 0 + (IF a \in DOMAIN accounts /\ accounts[a].registered THEN 1 ELSE 0) + 0
    BY <1>1, <1>10 DEF RegistersOnce
  <2>1. CASE a \in DOMAIN accounts
    <3>1. Cardinality(ca[a]) = 1 /\ accounts[a].registered = TRUE
        BY <1>4, <1>5, <1>7, <2>1
    <3> QED
        BY <2>1, <3>1
  <2>2. CASE a \notin DOMAIN accounts
    <3>1. Cardinality(ca[a]) = 0
        BY <1>6, <1>8, <2>2
    <3> QED
        BY <2>2, <3>1
  <2> QED
    BY <2>1, <2>2
<1> QED
    BY <1>2, <1>3, <1>9, <1>11, <1>12 DEF AccountInv

LEMMA StutterAccounts ==
    ASSUME AccountInv, UNCHANGED vars
    PROVE  AccountInv'
BY DEF AccountInv, vars, state, ConfigInv, WorkerInv, WorkerIs, AccountsInv, KeysInv, RequestsInv, OrderUsesSavedAccount,
       RegistersOnce, Path, AccountPath, NormalDirectory, Saved

LEMMA NextAccounts ==
    ASSUME AccountInv, [Next]_vars
    PROVE  AccountInv'
BY StartAccounts, StopAccounts, RedeployAccounts, ObtainAccounts, LoadNoneAccounts, LoadUserAccounts, LoadFailsAccounts,
   RegisterAccounts, RegisterFailsAccounts, SaveUserAccounts, SaveFailsAccounts, OrderingAccounts, DeleteAccounts,
   DeleteBeginAccounts, StutterAccounts DEF Next

(* For any deployments, faults, restarts and deletions of accounts.        *)
LEMMA AccountsHold == Spec => []AccountInv
BY InitAccounts, NextAccounts, PTL DEF Spec

(* An order is placed with the account that the data directory keeps:      *)
(* client saves a registration before it is used, a restart reads it back, *)
(* and DeleteAccount refuses the account of the current directory.         *)
THEOREM OrdersUseSavedAccounts == Spec => []OrderUsesSavedAccount
<1>1. AccountInv => OrderUsesSavedAccount
    BY DEF AccountInv
<1> QED
    BY <1>1, AccountsHold, PTL

(* One registration per directory, apart from those that were deleted or   *)
(* lost before saveUser could keep them.                                   *)
THEOREM AccountsRegisterOnce == Spec => []RegistersOnce
<1>1. AccountInv => RegistersOnce
    BY DEF AccountInv
<1> QED
    BY <1>1, AccountsHold, PTL

----------------------------------------------------------------------------
(* Zones *)

(* A set of numbers with an upper bound has a greatest one.                *)
LEMMA GreatestElement ==
    ASSUME NEW S, S \subseteq Nat, S # {}, NEW n \in Nat, \A m \in S : m <= n
    PROVE  \E greatest \in S : \A m \in S : m <= greatest
<1>1. PICK T : T = {n - m : m \in S}
    OBVIOUS
<1>2. T \subseteq Nat /\ T # {}
  <2>1. \A m \in S : n - m \in Nat
    OBVIOUS
  <2> QED
    BY <1>1, <2>1
<1>3. PICK less : less = {pair \in Nat \X Nat : pair[1] < pair[2]}
    OBVIOUS
<1>4. IsWellFoundedOn(less, Nat)
    BY <1>3, NatLessThanWellFounded DEF OpToRel
<1>5. PICK least \in T : \A k \in T : <<k, least>> \notin less
    BY <1>2, <1>4, WFMin
<1>6. \A k \in T : ~(k < least)
    BY <1>2, <1>3, <1>5
<1>7. PICK greatest \in S : least = n - greatest
    BY <1>1, <1>5
<1>8. ASSUME NEW m \in S
      PROVE  m <= greatest
  <2>1. n - m \in T
    BY <1>1
  <2>2. ~(n - m < n - greatest)
    BY <1>6, <1>7, <2>1
  <2>3. m \in Nat /\ greatest \in Nat
    OBVIOUS
  <2> QED
    BY <2>2, <2>3
<1> QED
    BY <1>8

LEMMA LoweredLabels ==
    ASSUME NEW l \in Labels
    PROVE  /\ [l EXCEPT !.upper = FALSE] = [text |-> l.text, upper |-> FALSE]
           /\ [text |-> l.text, upper |-> FALSE] \in Labels
<1>0. \A f : [l EXCEPT !.upper = f] = [text |-> l.text, upper |-> f]
    BY DEF Labels
<1>1. [l EXCEPT !.upper = FALSE] = [text |-> l.text, upper |-> FALSE]
    BY <1>0
<1>2. l.text \in STRING
    BY DEF Labels
<1>3. [text |-> l.text, upper |-> FALSE] \in Labels
    BY <1>2 DEF Labels
<1> QED
    BY <1>1, <1>3

LEMMA LoweredNames ==
    ASSUME NEW name \in Seq(Labels)
    PROVE  /\ LowerCase(name) \in Seq(Labels) /\ Len(LowerCase(name)) = Len(name)
           /\ \A i \in 1..Len(name) : LowerCase(name)[i] = [text |-> name[i].text, upper |-> FALSE]
<1>1. Len(name) \in Nat /\ DOMAIN name = 1..Len(name) /\ \A i \in 1..Len(name) : name[i] \in Labels
    BY LenProperties, ElementOfSeq
<1>2. LowerCase(name) = [i \in 1..Len(name) |-> [text |-> name[i].text, upper |-> FALSE]]
    BY <1>1, LoweredLabels DEF LowerCase
<1>3. \A i \in 1..Len(name) : [text |-> name[i].text, upper |-> FALSE] \in Labels
    BY <1>1, LoweredLabels
<1> QED
    BY <1>1, <1>2, <1>3

(* A zone's name in the map is in lower case.                              *)
Lowered(z) == z \in Seq(Labels) /\ \A i \in 1..Len(z) : z[i].upper = FALSE

LEMMA ZoneNames ==
    ASSUME NEW name \in Seq(Labels)
    PROVE  Lowered(TrimDot(LowerCase(name)))
<1>1. PICK z : z = LowerCase(name)
    OBVIOUS
<1>2. z \in Seq(Labels) /\ \A i \in 1..Len(z) : z[i].upper = FALSE
  <2>1. Len(z) = Len(name) /\ \A i \in 1..Len(z) : z[i] = [text |-> name[i].text, upper |-> FALSE]
    BY <1>1, LoweredNames
  <2>2. \A i \in 1..Len(z) : z[i].upper = FALSE
    <3> SUFFICES ASSUME NEW i \in 1..Len(z) PROVE z[i].upper = FALSE
        OBVIOUS
    <3>1. PICK l : l = [text |-> name[i].text, upper |-> FALSE]
        OBVIOUS
    <3>2. l.upper = FALSE
        BY <3>1
    <3> QED
        BY <2>1, <3>1, <3>2
  <2> QED
    BY <1>1, <2>2, LoweredNames
<1>3. CASE z # <<>> /\ Last(z).text = ""
  <2>1. Len(z) \in Nat \ {0}
    BY <1>2, <1>3, EmptySeq
  <2>2. Front(z) \in Seq(Labels) /\ Len(Front(z)) = Len(z) - 1 /\ \A i \in 1..Len(z) - 1 : Front(z)[i] = z[i]
    <3>0. PICK l \in Nat \ {0} : l = Len(z)
        BY <2>1
    <3>1. PICK n \in Nat : n = l - 1
        OBVIOUS
    <3>2. \A i \in 1..n : z[i] \in Labels
        BY <1>2, <3>0, <3>1, ElementOfSeq
    <3> QED
        BY <3>0, <3>1, <3>2, SubSeqProperties DEF Front
  <2>3. \A i \in 1..Len(Front(z)) : i \in 1..Len(z) /\ Front(z)[i] = z[i]
    BY <2>1, <2>2
  <2>4. \A i \in 1..Len(Front(z)) : Front(z)[i].upper = FALSE
    BY <1>2, <2>3
  <2>5. TrimDot(z) = Front(z)
    BY <1>3 DEF TrimDot
  <2> QED
    BY <1>1, <2>2, <2>4, <2>5 DEF Lowered
<1>4. CASE ~(z # <<>> /\ Last(z).text = "")
    BY <1>1, <1>2, <1>4 DEF TrimDot, Lowered
<1> QED
    BY <1>3, <1>4

LEMMA SuffixIs ==
    ASSUME NEW s \in Seq(Labels), NEW t \in Seq(Labels)
    PROVE  IsSuffix(s, t) <=>
               Len(s) <= Len(t) /\ \A i \in 1..Len(s) : s[(Len(s) - i) + 1] = t[(Len(t) - i) + 1]
<1>1. PICK r, u : r = Reverse(s) /\ u = Reverse(t)
    OBVIOUS
<1>2. Len(s) \in Nat /\ Len(t) \in Nat
    OBVIOUS
<1>3. r \in Seq(Labels) /\ Len(r) = Len(s) /\ \A i \in 1..Len(s) : r[i] = s[(Len(s) - i) + 1]
    BY <1>1, <1>2 DEF Reverse
<1>4. u \in Seq(Labels) /\ Len(u) = Len(t) /\ \A i \in 1..Len(t) : u[i] = t[(Len(t) - i) + 1]
    BY <1>1, <1>2 DEF Reverse
<1>5. IsSuffix(s, t) <=> Len(s) <= Len(t) /\ SubSeq(r, 1, Len(s)) = SubSeq(u, 1, Len(s))
    BY <1>1, <1>3, <1>4 DEF IsSuffix, IsPrefix
<1>6. ASSUME Len(s) <= Len(t)
      PROVE  SubSeq(r, 1, Len(s)) = SubSeq(u, 1, Len(s)) <=> \A i \in 1..Len(s) : r[i] = u[i]
  <2>1. SubSeq(r, 1, Len(s)) = [i \in 1..Len(s) |-> r[i]]
    BY <1>2, <1>3
  <2>2. SubSeq(u, 1, Len(s)) = [i \in 1..Len(s) |-> u[i]]
    BY <1>2, <1>4, <1>6
  <2> QED
    BY <2>1, <2>2
<1>7. ASSUME Len(s) <= Len(t), NEW i \in 1..Len(s)
      PROVE  r[i] = s[(Len(s) - i) + 1] /\ u[i] = t[(Len(t) - i) + 1]
  <2>1. i \in 1..Len(t)
    BY <1>2, <1>7
  <2> QED
    BY <1>3, <1>4, <2>1
<1> QED
    BY <1>5, <1>6, <1>7

ZoneName(zones, i) == TrimDot(LowerCase(zones[i].name))
Zones == [name : Seq(Labels), credential : STRING]

LEMMA ZoneMapIs ==
    ASSUME NEW zones \in Seq(Zones)
    PROVE  /\ DOMAIN ZoneMap(zones) = {ZoneName(zones, i) : i \in DOMAIN zones}
           /\ \A z \in DOMAIN ZoneMap(zones) :
                Lowered(z) /\ \E i \in DOMAIN zones : ZoneMap(zones)[z] = zones[i].credential
<1>1. DOMAIN ZoneMap(zones) = {ZoneName(zones, i) : i \in DOMAIN zones}
    BY DEF ZoneMap, ZoneName
<1> SUFFICES ASSUME NEW z \in DOMAIN ZoneMap(zones)
             PROVE  Lowered(z) /\ \E i \in DOMAIN zones : ZoneMap(zones)[z] = zones[i].credential
    BY <1>1
<1>2. Len(zones) \in Nat /\ DOMAIN zones = 1..Len(zones) /\ \A i \in DOMAIN zones : zones[i] \in Zones
    BY LenProperties, ElementOfSeq
<1>3. PICK k \in DOMAIN zones : ZoneName(zones, k) = z
    BY <1>1
<1>4. Lowered(z)
  <2>1. zones[k].name \in Seq(Labels)
    BY <1>2 DEF Zones
  <2> QED
    BY <1>3, <2>1, ZoneNames DEF ZoneName
<1>5. PICK equal : equal = {i \in DOMAIN zones : ZoneName(zones, i) = z}
    OBVIOUS
<1>6. equal \subseteq Nat /\ equal # {} /\ \A m \in equal : m <= Len(zones)
    BY <1>2, <1>3, <1>5
<1>7. PICK last \in equal : \A m \in equal : m <= last
    BY <1>2, <1>6, GreatestElement
<1>8. PICK i : i = CHOOSE n \in DOMAIN zones : ZoneName(zones, n) = z /\ \A j \in DOMAIN zones : ZoneName(zones, j) = z => j <= n
    OBVIOUS
<1>9. i \in DOMAIN zones
    BY <1>5, <1>7, <1>8
<1>10. ZoneMap(zones)[z] = zones[i].credential
    BY <1>1, <1>8 DEF ZoneMap, ZoneName
<1> QED
    BY <1>4, <1>9, <1>10

LEMMA FindZoneIs ==
    ASSUME NEW domain \in Seq(Labels), NEW map, \A z \in DOMAIN map : z \in Seq(Labels)
    PROVE  /\ (\E z \in DOMAIN map : Covers(z, domain)) => FindZone(domain, map) # <<>>
           /\ FindZone(domain, map) # <<>> =>
                /\ \E z \in DOMAIN map : Covers(z, domain)
                /\ \E z \in DOMAIN map : FindZone(domain, map) = <<map[z]>>
<1>1. PICK covering : covering = {z \in DOMAIN map : Covers(z, domain)}
    OBVIOUS
<1>2. FindZone(domain, map) = IF covering = {} THEN <<>>
                              ELSE <<map[CHOOSE z \in covering : \A y \in covering : Len(y) <= Len(z)]>>
    BY <1>1 DEF FindZone
<1>3. CASE covering = {}
    BY <1>1, <1>2, <1>3
<1>4. CASE covering # {}
  <2>1. \A z \in covering : Len(z) \in Nat /\ Len(z) <= Len(domain)
    <3>1. \A z \in covering : z \in Seq(Labels) /\ IsSuffix(z, domain)
        BY <1>1 DEF Covers
    <3> QED
        BY <3>1, SuffixIs, LenProperties
  <2>2. PICK lengths : lengths = {Len(z) : z \in covering}
    OBVIOUS
  <2>3. PICK greatest \in lengths : \A n \in lengths : n <= greatest
    <3>1. lengths \subseteq Nat /\ lengths # {} /\ (\A n \in lengths : n <= Len(domain)) /\ Len(domain) \in Nat
        BY <1>4, <2>1, <2>2, LenProperties
    <3> QED
        BY <3>1, GreatestElement
  <2>4. PICK longest \in covering : \A y \in covering : Len(y) <= Len(longest)
    BY <2>2, <2>3
  <2>5. PICK z : z = CHOOSE x \in covering : \A y \in covering : Len(y) <= Len(x)
    OBVIOUS
  <2>6. z \in covering
    BY <2>4, <2>5
  <2>7. FindZone(domain, map) = <<map[z]>>
    BY <1>2, <1>4, <2>5
  <2>8. <<map[z]>> # <<>>
    OBVIOUS
  <2> QED
    BY <1>1, <2>6, <2>7, <2>8
<1> QED
    BY <1>3, <1>4

LEMMA TrimWildcardIs ==
    ASSUME NEW domain \in Seq(Labels)
    PROVE  TrimWildcard(domain) \in Seq(Labels)
BY HeadTailProperties DEF TrimWildcard

(* muxProvider.forDomain and CredentialForDomain both trim the wildcard:   *)
(* the second time there is none.                                          *)
LEMMA TrimmedOnce ==
    ASSUME NEW domain \in Seq(Labels), OneWildcard(domain)
    PROVE  LET x == TrimWildcard(domain) IN TrimWildcard(LowerCase(x)) = LowerCase(x)
<1>1. PICK x : x = TrimWildcard(domain)
    OBVIOUS
<1>2. x \in Seq(Labels) /\ LowerCase(x) \in Seq(Labels) /\ Len(LowerCase(x)) = Len(x) /\ Len(x) \in Nat
    BY <1>1, TrimWildcardIs, LoweredNames, LenProperties
<1>3. CASE x = <<>>
  <2>1. LowerCase(x) = <<>>
    BY <1>2, <1>3, EmptySeq
  <2> QED
    BY <1>1, <2>1 DEF TrimWildcard
<1>4. CASE x # <<>>
  <2>1. 1 \in 1..Len(x)
    BY <1>2, <1>4, EmptySeq
  <2>2. x[1].text # "*"
    <3>1. CASE domain # <<>> /\ Head(domain).text = "*"
      <4>1. x = Tail(domain) /\ Len(x) = Len(domain) - 1 /\ x[1] = domain[2] /\ Len(domain) \in Nat
        BY <1>1, <2>1, <3>1, HeadTailProperties, LenProperties DEF TrimWildcard
      <4>2. 2 \in 2..Len(domain)
        BY <1>2, <2>1, <4>1
      <4> QED
        BY <4>1, <4>2 DEF OneWildcard
    <3>2. CASE ~(domain # <<>> /\ Head(domain).text = "*")
        BY <1>1, <1>4, <3>2 DEF TrimWildcard
    <3> QED
        BY <3>1, <3>2
  <2>3. LowerCase(x)[1].text = x[1].text
    <3>1. LowerCase(x)[1] = [text |-> x[1].text, upper |-> FALSE]
        BY <1>2, <2>1, LoweredNames
    <3>2. \A f : [text |-> x[1].text, upper |-> f].text = x[1].text
        OBVIOUS
    <3> QED
        BY <3>1, <3>2, Zenon
  <2>4. Head(LowerCase(x)) = LowerCase(x)[1]
    BY <1>2
  <2> QED
    BY <1>1, <2>2, <2>3, <2>4 DEF TrimWildcard
<1> QED
    BY <1>3, <1>4

(* A zone in lower case that covers a name covers it in lower case.        *)
LEMMA CoversLowered ==
    ASSUME NEW domain \in Seq(Labels), NEW z, Lowered(z), Covers(z, domain)
    PROVE  Covers(z, LowerCase(domain))
<1>1. z \in Seq(Labels) /\ z # <<>> /\ Len(z) \in Nat /\ Len(domain) \in Nat
    BY LenProperties DEF Lowered, Covers
<1>2. Len(z) <= Len(domain) /\ \A i \in 1..Len(z) : z[(Len(z) - i) + 1] = domain[(Len(domain) - i) + 1]
    BY <1>1, SuffixIs DEF Covers
<1>3. ASSUME NEW i \in 1..Len(z)
      PROVE  z[(Len(z) - i) + 1] = LowerCase(domain)[(Len(domain) - i) + 1]
  <2>1. PICK m, n \in Nat : m = (Len(z) - i) + 1 /\ n = (Len(domain) - i) + 1 /\ m \in 1..Len(z) /\ n \in 1..Len(domain)
    BY <1>1, <1>2
  <2>2. z[m] = domain[n] /\ z[m] \in Labels /\ z[m].upper = FALSE
    BY <1>1, <1>2, <2>1, ElementOfSeq DEF Lowered
  <2>3. LowerCase(domain)[n] = [text |-> domain[n].text, upper |-> FALSE]
    BY <2>1, LoweredNames
  <2>4. z[m] = [text |-> z[m].text, upper |-> z[m].upper]
    BY <2>2 DEF Labels
  <2> QED
    BY <2>1, <2>2, <2>3, <2>4
<1>4. LowerCase(domain) \in Seq(Labels) /\ Len(LowerCase(domain)) = Len(domain)
    BY LoweredNames
<1> QED
    BY <1>1, <1>2, <1>3, <1>4, SuffixIs DEF Covers

LEMMA AppliedFields ==
    ASSUME NEW d
    PROVE  /\ Applied(d).zones = d.zones /\ Applied(d).credentials = d.credentials
           /\ Applied(d).certificates = d.certificates
BY DEF Applied

(* Validate keeps its promise: the credential found is a configured one.   *)
LEMMA CredentialIsFound ==
    ASSUME NEW d \in Deployments, LoadSucceeds(d), NEW i \in DOMAIN d.certificates,
           NEW j \in DOMAIN d.certificates[i].domains
    PROVE  LET found == CredentialForDomain(Applied(d), d.certificates[i], TrimWildcard(d.certificates[i].domains[j])) IN
           found # <<>> /\ found[1] \in DOMAIN d.credentials
<1>1. PICK cert : cert = d.certificates[i]
    OBVIOUS
<1>2. PICK c : c = Applied(d) /\ c.zones = d.zones /\ c.credentials = d.credentials /\ c.certificates = d.certificates
    BY AppliedFields
<1>3. Validate(c)
    BY <1>2 DEF LoadSucceeds
<1>4. ValidCertificate(c, cert) /\ \A k \in DOMAIN d.zones : d.zones[k].credential \in DOMAIN d.credentials
    BY <1>1, <1>2, <1>3 DEF Validate
<1>5. CASE cert.credential # <<>>
    BY <1>1, <1>2, <1>4, <1>5 DEF ValidCertificate, CredentialForDomain
<1>6. CASE cert.credential = <<>>
  <2>1. d.zones \in Seq(Zones) /\ d.certificates \in
            Seq([name : STRING, domains : Seq(Seq(Labels)), keyType : STRING, credential : Seq(STRING)])
    BY DeploymentAssumption DEF IsDeployment, Zones
  <2>2. cert.domains \in Seq(Seq(Labels))
    <3>1. \A k \in DOMAIN d.certificates : d.certificates[k] \in
            [name : STRING, domains : Seq(Seq(Labels)), keyType : STRING, credential : Seq(STRING)]
        BY <2>1, LenProperties, ElementOfSeq
    <3> QED
        BY <1>1, <3>1
  <2>3. PICK domain \in Seq(Labels) : domain = cert.domains[j]
    BY <1>1, <2>2, LenProperties, ElementOfSeq
  <2>4. OneWildcard(domain)
    BY <1>1, <2>3, DeploymentAssumption DEF IsDeployment
  <2>5. PICK x \in Seq(Labels) : x = TrimWildcard(domain) /\ TrimWildcard(LowerCase(x)) = LowerCase(x)
    BY <2>4, TrimWildcardIs, TrimmedOnce
  <2>6. PICK map : map = ZoneMap(d.zones)
    OBVIOUS
  <2>7. \A z \in DOMAIN map : Lowered(z) /\ \E k \in DOMAIN d.zones : map[z] = d.zones[k].credential
    BY <2>1, <2>6, ZoneMapIs
  <2>8. \A z \in DOMAIN map : z \in Seq(Labels)
    BY <2>7 DEF Lowered
  <2>9. FindZone(x, map) # <<>>
    BY <1>1, <1>2, <1>4, <1>6, <2>3, <2>5, <2>6 DEF ValidCertificate
  <2>10. PICK z \in DOMAIN map : Covers(z, x)
    BY <2>8, <2>9, FindZoneIs
  <2>11. Covers(z, LowerCase(x)) /\ LowerCase(x) \in Seq(Labels)
    BY <2>7, <2>10, CoversLowered, LoweredNames
  <2>12. FindZone(LowerCase(x), map) # <<>>
    BY <2>8, <2>10, <2>11, FindZoneIs
  <2>13. PICK y \in DOMAIN map : FindZone(LowerCase(x), map) = <<map[y]>>
    BY <2>8, <2>11, <2>12, FindZoneIs
  <2>14. map[y] \in DOMAIN d.credentials
    BY <1>4, <2>7
  <2>15. CredentialForDomain(c, cert, x) = <<map[y]>>
    BY <1>2, <1>6, <2>5, <2>6, <2>13 DEF CredentialForDomain
  <2> QED
    BY <1>1, <1>2, <2>3, <2>5, <2>14, <2>15
<1> QED
    BY <1>5, <1>6

----------------------------------------------------------------------------
(* The environment *)

(* A provider saw the variables of its credential over the inherited ones. *)
Built(entries, disk, seen) ==
    LET sets(v) == {i \in DOMAIN entries : entries[i].target = v /\ entries[i].value # <<>>} IN
    \A v \in DOMAIN Inherited :
        seen[v] = IF sets(v) = {} THEN Inherited[v] ELSE Text(entries[Max(sets(v))], disk)

AllBuilt ==
    worker # NoWorker => \A name \in DOMAIN worker.providers :
        Built(cfg.credentials[name].environment, deployment.disk, worker.providers[name])

LEMMA ScopedIs == CredentialsAreScoped <=> (worker.pc # "set" => env = Inherited) /\ AllBuilt
BY DEF CredentialsAreScoped, AllBuilt, Built, TextOf, Text

LEMMA ScopedNext == (CredentialsAreScoped <=> (worker.pc # "set" => env = Inherited) /\ AllBuilt)'
BY ScopedIs, PTL

LEMMA DomainsAreKnown ==
    ASSUME AccountInv, worker # NoWorker
    PROVE  /\ Len(worker.cert.domains) \in Nat /\ DOMAIN worker.cert.domains = 1..Len(worker.cert.domains)
           /\ \A j \in DOMAIN worker.cert.domains :
                CredentialOf(j) # <<>> /\ CredentialOf(j)[1] \in DOMAIN cfg.credentials
<1>1. up /\ WorkerIs(worker)
    BY DEF AccountInv, ConfigInv, WorkerInv
<1>2. /\ deployment \in Deployments /\ cfg = Applied(deployment) /\ LoadSucceeds(deployment)
      /\ cfg.certificates = deployment.certificates /\ cfg.credentials = deployment.credentials
    BY <1>1, AppliedFields DEF AccountInv, ConfigInv
<1>3. PICK i \in DOMAIN deployment.certificates : worker.cert = deployment.certificates[i]
    BY <1>1, <1>2 DEF WorkerIs
<1>4. worker.cert.domains \in Seq(Seq(Labels))
  <2>1. deployment.certificates \in
            Seq([name : STRING, domains : Seq(Seq(Labels)), keyType : STRING, credential : Seq(STRING)])
    BY <1>2, DeploymentAssumption DEF IsDeployment
  <2>2. worker.cert \in [name : STRING, domains : Seq(Seq(Labels)), keyType : STRING, credential : Seq(STRING)]
    BY <1>3, <2>1, LenProperties, ElementOfSeq
  <2> QED
    BY <2>2
<1>5. Len(worker.cert.domains) \in Nat /\ DOMAIN worker.cert.domains = 1..Len(worker.cert.domains)
    BY <1>4, LenProperties
<1>6. \A j \in DOMAIN worker.cert.domains :
          CredentialOf(j) # <<>> /\ CredentialOf(j)[1] \in DOMAIN cfg.credentials
    BY <1>2, <1>3, CredentialIsFound DEF CredentialOf
<1> QED
    BY <1>5, <1>6

LEMMA EntriesAreKnown ==
    ASSUME AccountInv, worker # NoWorker, worker.domain \in DOMAIN worker.cert.domains
    PROVE  /\ Credential = CredentialOf(worker.domain) /\ Credential # <<>>
           /\ Entries = cfg.credentials[Credential[1]].environment
           /\ Len(Entries) \in Nat /\ DOMAIN Entries = 1..Len(Entries)
<1>1. up
    BY DEF AccountInv, ConfigInv
<1>2. deployment \in Deployments /\ cfg.credentials = deployment.credentials
    BY <1>1, AppliedFields DEF AccountInv, ConfigInv
<1>3. Credential = CredentialOf(worker.domain) /\ Credential # <<>> /\ Credential[1] \in DOMAIN cfg.credentials
    BY DomainsAreKnown DEF Credential, CredentialOf, Domain
<1>4. PICK S : S = [name : STRING, target : STRING, file : BOOLEAN, value : Seq(STRING)]
    OBVIOUS
<1>5. \A name \in DOMAIN deployment.credentials : deployment.credentials[name].environment \in Seq(S)
    BY <1>2, <1>4, DeploymentAssumption DEF IsDeployment
<1>6. Entries = cfg.credentials[Credential[1]].environment
    BY DEF Entries
<1>7. Entries \in Seq(S)
    BY <1>2, <1>3, <1>5, <1>6
<1> QED
    BY <1>3, <1>6, <1>7, LenProperties
LEMMA SeesNothing ==
    ASSUME NEW entries, DOMAIN entries = 1..Len(entries), Len(entries) \in Nat, NEW disk, NEW v
    PROVE  Sees(entries, disk, v, 0) = Inherited[v]
<1>1. Given(entries, v, 0) = {}
    BY DEF Given
<1> QED
    BY <1>1 DEF Sees

LEMMA SeesNext ==
    ASSUME NEW entries, DOMAIN entries = 1..Len(entries), Len(entries) \in Nat, NEW disk, NEW v, NEW n \in Nat, NEW m \in Nat,
           n = m + 1, n \in DOMAIN entries
    PROVE  Sees(entries, disk, v, n) = IF entries[n].target = v /\ entries[n].value # <<>> THEN Text(entries[n], disk)
                                 ELSE Sees(entries, disk, v, m)
<1>1. CASE entries[n].target = v /\ entries[n].value # <<>>
  <2>1. PICK S : S = Given(entries, v, n)
    OBVIOUS
  <2>2. n \in S /\ S \subseteq Nat /\ \A i \in S : i <= n
    BY <1>1, <2>1 DEF Given
  <2>3. PICK x : x = Max(S)
    OBVIOUS
  <2>4. x \in S /\ \A y \in S : x >= y
    BY <2>2, <2>3 DEF Max
  <2>5. Max(S) = n
    BY <2>2, <2>3, <2>4
  <2> QED
    BY <1>1, <2>1, <2>2, <2>5 DEF Sees
<1>2. CASE ~(entries[n].target = v /\ entries[n].value # <<>>)
  <2>1. ASSUME NEW i \in DOMAIN entries
        PROVE  (i <= n /\ entries[i].target = v /\ entries[i].value # <<>>)
                   <=> (i <= m /\ entries[i].target = v /\ entries[i].value # <<>>)
    <3>1. i \in Nat /\ (i = n \/ i <= m \/ i > n)
        OBVIOUS
    <3> QED
        BY <1>2, <3>1
  <2>2. Given(entries, v, n) = Given(entries, v, m)
    BY <2>1 DEF Given
  <2> QED
    BY <1>2, <2>2 DEF Sees
<1> QED
    BY <1>1, <1>2

LEMMA SeesAll ==
    ASSUME NEW entries, DOMAIN entries = 1..Len(entries), Len(entries) \in Nat, NEW disk, NEW seen,
           \A v \in DOMAIN Inherited : seen[v] = Sees(entries, disk, v, Len(entries))
    PROVE  Built(entries, disk, seen)
<1>1. \A v : Given(entries, v, Len(entries)) = {i \in DOMAIN entries : entries[i].target = v /\ entries[i].value # <<>>}
    BY DEF Given
<1> QED
    BY <1>1 DEF Built, Sees

(* The environment of the process between two providers.                   *)
LEMMA RestoredIsInherited ==
    ASSUME EnvironmentInv, worker.pc = "set"
    PROVE  Restored = Inherited
<1>1. DOMAIN env = DOMAIN Inherited
    BY DEF EnvironmentInv
<1>2. \A v \in DOMAIN Inherited :
          (IF v \in DOMAIN worker.restore THEN worker.restore[v] ELSE env[v]) = Inherited[v]
    BY DEF EnvironmentInv, Guarded
<1>3. Restored = [v \in DOMAIN Inherited |-> Inherited[v]]
    BY <1>1, <1>2 DEF Restored
<1> QED
    BY <1>3, DeploymentAssumption

LEMMA IdleEnvironment ==
    ASSUME worker' = NoWorker, env' = Inherited
    PROVE  EnvironmentInv'
<1>1. worker'.pc = "idle"
    BY DEF NoWorker
<1>2. Guarded' /\ Provided'
    BY <1>1 DEF Guarded, Provided
<1>3. CredentialsAreScoped'
    BY <1>1 DEF CredentialsAreScoped
<1> QED
    BY <1>2, <1>3, DeploymentAssumption DEF EnvironmentInv

(* A step outside the guarded section that builds no provider.             *)
LEMMA EnvironmentStays ==
    ASSUME EnvironmentInv, worker # NoWorker, worker.pc # "set", UNCHANGED <<deployment, cfg, env>>,
           worker'.pc # "set", worker'.cert = worker.cert, worker'.providers = worker.providers,
           \A j \in DOMAIN worker.cert.domains : j < worker'.domain \/ worker'.pc = "order" =>
               CredentialOf(j)[1] \in DOMAIN worker.providers
    PROVE  EnvironmentInv'
<1>1. Guarded'
    BY DEF Guarded
<1>2. Provided'
    BY DEF Provided, CredentialOf
<1>3. CredentialsAreScoped'
    BY ScopedIs, ScopedNext DEF EnvironmentInv, AllBuilt
<1> QED
    BY <1>1, <1>2, <1>3 DEF EnvironmentInv

LEMMA WorkerEnvironment ==
    ASSUME AccountInv, EnvironmentInv,
           LoadNone \/ LoadUser \/ LoadFails \/ Register \/ RegisterFails \/ SaveUser \/ SaveFails
    PROVE  EnvironmentInv'
<1>1. worker.pc \in {"load", "register", "save"} /\ UNCHANGED <<deployment, cfg, env>>
    BY DEF LoadNone, LoadUser, LoadFails, Register, RegisterFails, SaveUser, SaveFails, state
<1>2. worker # NoWorker /\ WorkerIs(worker) /\ env = Inherited
  <2>1. worker.pc # "idle" /\ worker.pc # "set"
    BY <1>1
  <2> QED
    BY <2>1, BusyIsUp DEF EnvironmentInv, CredentialsAreScoped
<1>3. \/ worker' = NoWorker
      \/ \E pc \in {"register", "save", "provide"} : \E key, registered :
           worker' = [worker EXCEPT !.pc = pc, !.key = key, !.registered = registered]
  <2> USE DEF ObtainFails, Go
  <2>1. CASE LoadFails \/ RegisterFails \/ SaveFails
    BY <2>1 DEF LoadFails, RegisterFails, SaveFails
  <2>2. CASE LoadNone
    <3>1. PICK key : key = keys'
        OBVIOUS
    <3>2. worker' = [worker EXCEPT !.pc = "register", !.key = key, !.registered = worker.registered]
        BY <1>2, <2>2, <3>1 DEF LoadNone, WorkerIs
    <3> QED
        BY <3>2
  <2>3. CASE LoadUser
    <3>1. PICK file : file = accounts[AccountPath(cfg)]
        OBVIOUS
    <3>2. CASE file.master = cfg.master
      <4>1. PICK pc, key, registered : /\ pc = (IF file.registered THEN "provide" ELSE "register")
                                       /\ key = file.key /\ registered = file.registered
        OBVIOUS
      <4>2. worker' = [worker EXCEPT !.pc = pc, !.key = key, !.registered = registered]
        BY <2>3, <3>1, <3>2, <4>1 DEF LoadUser
      <4>3. pc \in {"register", "save", "provide"}
        BY <4>1
      <4> QED
        BY <4>2, <4>3
    <3>3. CASE file.master # cfg.master
        BY <2>3, <3>1, <3>3 DEF LoadUser
    <3> QED
        BY <3>2, <3>3
  <2>4. CASE Register
    <3>1. worker' = [worker EXCEPT !.pc = "save", !.key = worker.key, !.registered = TRUE]
        BY <1>2, <2>4 DEF Register, WorkerIs
    <3> QED
        BY <3>1
  <2>5. CASE SaveUser
    <3>1. worker' = [worker EXCEPT !.pc = "provide", !.key = worker.key, !.registered = worker.registered]
        BY <1>2, <2>5 DEF SaveUser, WorkerIs
    <3> QED
        BY <3>1
  <2> QED
    BY <2>1, <2>2, <2>3, <2>4, <2>5
<1>4. CASE worker' = NoWorker
    BY <1>1, <1>2, <1>4, IdleEnvironment
<1>5. ASSUME NEW pc \in {"register", "save", "provide"}, NEW key, NEW registered,
             worker' = [worker EXCEPT !.pc = pc, !.key = key, !.registered = registered]
      PROVE  EnvironmentInv'
  <2>1. worker'.pc = pc /\ worker'.cert = worker.cert /\ worker'.providers = worker.providers /\ worker'.domain = worker.domain
    BY <1>2, <1>5 DEF WorkerIs
  <2>2. \A j \in DOMAIN worker.cert.domains : j < worker.domain => CredentialOf(j)[1] \in DOMAIN worker.providers
    BY <1>2 DEF EnvironmentInv, Provided
  <2> QED
    BY <1>1, <1>2, <2>1, <2>2, EnvironmentStays
<1> QED
    BY <1>3, <1>4, <1>5
LEMMA DomainsCount ==
    AccountInv /\ worker # NoWorker => DOMAIN worker.cert.domains = 1..Len(worker.cert.domains)
BY DomainsAreKnown

LEMMA DomainsNext ==
    (AccountInv /\ worker # NoWorker => DOMAIN worker.cert.domains = 1..Len(worker.cert.domains))'
BY DomainsCount, PTL

LEMMA ObtainEnvironment ==
    ASSUME AccountInv', EnvironmentInv, NEW cert, Obtain(cert)
    PROVE  EnvironmentInv'
<1> USE DEF Obtain, state
<1>1. worker.pc = "idle" /\ worker'.pc = "load" /\ worker'.providers = <<>> /\ worker'.domain = 1
    BY DEF NoWorker
<1>2. env' = Inherited
    BY <1>1, ScopedIs DEF EnvironmentInv
<1>3. Guarded'
    BY <1>1 DEF Guarded
<1>4. Provided'
  <2>1. DOMAIN (worker.cert.domains)' = 1..Len(worker.cert.domains)'
    BY <1>1, DomainsNext DEF NoWorker
  <2> QED
    BY <1>1, <2>1 DEF Provided
<1>5. AllBuilt'
    BY <1>1 DEF AllBuilt
<1> QED
    BY <1>2, <1>3, <1>4, <1>5, ScopedNext, DeploymentAssumption DEF EnvironmentInv

LEMMA ForDomainEnvironment ==
    ASSUME AccountInv, EnvironmentInv, ForDomain
    PROVE  EnvironmentInv'
<1>0. worker.pc = "provide" /\ worker.domain <= Len(worker.cert.domains) /\ UNCHANGED <<deployment, cfg, env>>
    BY DEF ForDomain
<1>1. worker # NoWorker /\ WorkerIs(worker) /\ env = Inherited /\ worker.domain \in Nat \ {0}
    BY <1>0, BusyIsUp DEF EnvironmentInv, CredentialsAreScoped, WorkerIs
<1>2. worker.domain \in DOMAIN worker.cert.domains
    BY <1>0, <1>1, DomainsAreKnown
<1>3. CASE Credential = <<>>
  <2>1. worker' = NoWorker
    BY <1>3 DEF ForDomain
  <2> QED
    BY <1>0, <1>1, <2>1, IdleEnvironment
<1>4. CASE Credential # <<>> /\ Credential[1] \in DOMAIN worker.providers
  <2>1. worker' = [worker EXCEPT !.domain = @ + 1]
    BY <1>4 DEF ForDomain
  <2>2. /\ worker'.pc = "provide" /\ worker'.cert = worker.cert /\ worker'.providers = worker.providers
        /\ worker'.domain = worker.domain + 1
    BY <1>0, <1>1, <2>1 DEF WorkerIs
  <2>3. ASSUME NEW j \in DOMAIN worker.cert.domains, j < worker.domain + 1
        PROVE  CredentialOf(j)[1] \in DOMAIN worker.providers
    <3>1. j \in Nat /\ (j < worker.domain \/ j = worker.domain)
        BY <1>1, <2>3, DomainsAreKnown
    <3> QED
        BY <1>1, <1>2, <1>4, <3>1, EntriesAreKnown DEF EnvironmentInv, Provided
  <2> QED
    BY <1>0, <1>1, <2>2, <2>3, EnvironmentStays
<1>5. CASE Credential # <<>> /\ Credential[1] \notin DOMAIN worker.providers
  <2>1. worker' = [worker EXCEPT !.pc = "set", !.entry = 1, !.restore = <<>>]
    BY <1>5 DEF ForDomain
  <2>2. /\ worker'.pc = "set" /\ worker'.cert = worker.cert /\ worker'.providers = worker.providers
        /\ worker'.domain = worker.domain /\ worker'.entry = 1 /\ worker'.restore = <<>>
    BY <1>1, <2>1 DEF WorkerIs
  <2>3. UNCHANGED Entries
    BY <1>0, <2>2 DEF Entries, Credential, Domain
  <2>4. Len(Entries) \in Nat /\ DOMAIN Entries = 1..Len(Entries)
    BY <1>1, <1>2, EntriesAreKnown
  <2>5. Guarded'
    <3>1. \A v \in DOMAIN Inherited : Sees(Entries, deployment.disk, v, 0) = Inherited[v]
        BY <2>4, SeesNothing
    <3>2. worker'.entry \in 1..Len(Entries) + 1 /\ worker'.entry - 1 = 0
        BY <2>2, <2>4
    <3> QED
        BY <1>0, <1>1, <1>2, <2>2, <2>3, <3>1, <3>2 DEF Guarded
  <2>6. Provided'
    BY <1>0, <1>1, <2>2 DEF EnvironmentInv, Provided, CredentialOf
  <2>7. AllBuilt'
    BY <1>0, <1>1, <2>2, ScopedIs DEF EnvironmentInv, AllBuilt
  <2> QED
    BY <1>0, <2>2, <2>5, <2>6, <2>7, ScopedNext DEF EnvironmentInv
<1> QED
    BY <1>3, <1>4, <1>5

(* The guarded section goes on to the next entry.                          *)
LEMMA GuardedNext ==
    ASSUME AccountInv, EnvironmentInv, worker.pc = "set", worker.entry <= Len(Entries), NEW restore,
           UNCHANGED <<deployment, cfg>>, env' = [v \in DOMAIN Inherited |-> env'[v]],
           worker' = [worker EXCEPT !.entry = @ + 1, !.restore = restore],
           \A v \in DOMAIN Inherited :
               /\ env'[v] = (IF Entry.target = v /\ Entry.value # <<>> THEN TextOf(Entry) ELSE env[v])
               /\ v \in DOMAIN restore => restore[v] = Inherited[v]
               /\ v \notin DOMAIN restore => env'[v] = Inherited[v]
    PROVE  EnvironmentInv'
<1>1. worker # NoWorker /\ WorkerIs(worker) /\ worker.entry \in Nat
    BY BusyIsUp DEF WorkerIs
<1>2. worker.domain \in DOMAIN worker.cert.domains /\ worker.entry \in 1..Len(Entries) + 1
    BY DEF EnvironmentInv, Guarded
<1>3. Len(Entries) \in Nat /\ DOMAIN Entries = 1..Len(Entries)
    BY <1>1, <1>2, EntriesAreKnown
<1>4. /\ worker'.pc = "set" /\ worker'.cert = worker.cert /\ worker'.providers = worker.providers
      /\ worker'.domain = worker.domain /\ worker'.entry = worker.entry + 1 /\ worker'.restore = restore
    BY <1>1 DEF WorkerIs
<1>5. UNCHANGED Entries
    BY <1>4 DEF Entries, Credential, Domain
<1>6. PICK m \in Nat : m = worker.entry - 1 /\ worker.entry = m + 1
    BY <1>1, <1>2, <1>3
<1>7. worker.entry \in DOMAIN Entries /\ worker'.entry - 1 = worker.entry /\ worker'.entry \in 1..Len(Entries) + 1
    BY <1>1, <1>2, <1>3, <1>4
<1>8. ASSUME NEW v \in DOMAIN Inherited
      PROVE  env'[v] = Sees(Entries, deployment.disk, v, worker.entry)
  <2>1. env[v] = Sees(Entries, deployment.disk, v, m)
    BY <1>6 DEF EnvironmentInv, Guarded
  <2>2. TextOf(Entry) = Text(Entries[worker.entry], deployment.disk)
    BY DEF TextOf, Text, Entry
  <2>3. PICK disk : disk = deployment.disk
    OBVIOUS
  <2>4. Sees(Entries, disk, v, worker.entry) =
            IF Entries[worker.entry].target = v /\ Entries[worker.entry].value # <<>>
            THEN Text(Entries[worker.entry], disk) ELSE Sees(Entries, disk, v, m)
    BY <1>1, <1>3, <1>6, <1>7, SeesNext
  <2> QED
    BY <2>1, <2>2, <2>3, <2>4 DEF Entry
<1>9. Guarded'
    BY <1>2, <1>4, <1>5, <1>7, <1>8 DEF Guarded
<1>10. Provided'
    BY <1>1, <1>4 DEF EnvironmentInv, Provided, CredentialOf
<1>11. AllBuilt'
    BY <1>1, <1>4, ScopedIs DEF EnvironmentInv, AllBuilt
<1> QED
    BY <1>4, <1>9, <1>10, <1>11, ScopedNext DEF EnvironmentInv
LEMMA SetInheritedEnvironment ==
    ASSUME AccountInv, EnvironmentInv, SetInherited
    PROVE  EnvironmentInv'
<1>1. worker.pc = "set" /\ worker.entry <= Len(Entries) /\ UNCHANGED <<deployment, cfg, env>> /\ Entry.value = <<>>
    BY DEF SetInherited
<1>2. WorkerIs(worker)
    BY <1>1, BusyIsUp
<1>3. PICK restore : restore = worker.restore
    OBVIOUS
<1>4. worker' = [worker EXCEPT !.entry = @ + 1, !.restore = restore]
    BY <1>2, <1>3 DEF SetInherited, NextEntry, WorkerIs
<1>5. \A v \in DOMAIN Inherited :
          /\ env'[v] = (IF Entry.target = v /\ Entry.value # <<>> THEN TextOf(Entry) ELSE env[v])
          /\ v \in DOMAIN restore => restore[v] = Inherited[v]
          /\ v \notin DOMAIN restore => env'[v] = Inherited[v]
    BY <1>1, <1>3 DEF EnvironmentInv, Guarded
<1>6. env' = [v \in DOMAIN Inherited |-> env'[v]]
    BY <1>1 DEF EnvironmentInv
<1> QED
    BY <1>1, <1>4, <1>5, <1>6, GuardedNext

LEMMA SetVariableEnvironment ==
    ASSUME AccountInv, EnvironmentInv, SetVariable
    PROVE  EnvironmentInv'
<1>1. /\ worker.pc = "set" /\ worker.entry <= Len(Entries) /\ UNCHANGED <<deployment, cfg>> /\ Entry.value # <<>>
      /\ env' = [env EXCEPT ![Entry.target] = TextOf(Entry)]
    BY DEF SetVariable
<1>2. WorkerIs(worker)
    BY <1>1, BusyIsUp
<1>3. PICK target, text : target = Entry.target /\ text = TextOf(Entry)
    OBVIOUS
<1>4. PICK restore : restore = Snapshot(worker.restore, target)
    OBVIOUS
<1>5. worker' = [worker EXCEPT !.entry = @ + 1, !.restore = restore]
    BY <1>2, <1>3, <1>4 DEF SetVariable, NextEntry, WorkerIs
<1>6. env = [v \in DOMAIN Inherited |-> env[v]]
    BY DEF EnvironmentInv
<1>7. /\ env' = [v \in DOMAIN Inherited |-> env'[v]]
      /\ \A v \in DOMAIN Inherited : env'[v] = IF target = v THEN text ELSE env[v]
    BY <1>1, <1>3, <1>6
<1>8. DOMAIN restore = DOMAIN worker.restore \cup {target}
    BY <1>4 DEF Snapshot, With
<1>9. \A v \in DOMAIN worker.restore : restore[v] = worker.restore[v]
    BY <1>4 DEF Snapshot, With
<1>10. target \notin DOMAIN worker.restore => restore[target] = env[target]
    BY <1>4 DEF Snapshot, With
<1>11. ASSUME NEW v \in DOMAIN Inherited
       PROVE  /\ v \in DOMAIN restore => restore[v] = Inherited[v]
              /\ v \notin DOMAIN restore => env'[v] = Inherited[v]
  <2>1. /\ v \in DOMAIN worker.restore => worker.restore[v] = Inherited[v]
        /\ v \notin DOMAIN worker.restore => env[v] = Inherited[v]
    BY <1>1 DEF EnvironmentInv, Guarded
  <2> QED
    BY <1>7, <1>8, <1>9, <1>10, <2>1
<1>12. \A v \in DOMAIN Inherited :
          /\ env'[v] = (IF Entry.target = v /\ Entry.value # <<>> THEN TextOf(Entry) ELSE env[v])
          /\ v \in DOMAIN restore => restore[v] = Inherited[v]
          /\ v \notin DOMAIN restore => env'[v] = Inherited[v]
    BY <1>1, <1>3, <1>7, <1>11
<1> QED
    BY <1>1, <1>5, <1>7, <1>12, GuardedNext

LEMMA CreateEnvironment ==
    ASSUME AccountInv, EnvironmentInv, Create
    PROVE  EnvironmentInv'
<1>1. worker.pc = "set" /\ worker.entry > Len(Entries) /\ UNCHANGED <<deployment, cfg>> /\ env' = Restored
    BY DEF Create
<1>2. worker # NoWorker /\ WorkerIs(worker) /\ worker.domain \in Nat \ {0} /\ worker.entry \in Nat
    BY <1>1, BusyIsUp DEF WorkerIs
<1>3. env' = Inherited
    BY <1>1, RestoredIsInherited
<1>4. worker.domain \in DOMAIN worker.cert.domains /\ worker.entry \in 1..Len(Entries) + 1
    BY <1>1 DEF EnvironmentInv, Guarded
<1>5. /\ Credential = CredentialOf(worker.domain) /\ Entries = cfg.credentials[Credential[1]].environment
      /\ Len(Entries) \in Nat /\ DOMAIN Entries = 1..Len(Entries)
    BY <1>2, <1>4, EntriesAreKnown
<1>6. PICK name, providers : name = Credential[1] /\ providers = With(worker.providers, name, env)
    OBVIOUS
<1>7. worker' = [worker EXCEPT !.pc = "provide", !.providers = providers, !.domain = @ + 1, !.restore = <<>>]
    BY <1>6 DEF Create
<1>8. /\ worker'.pc = "provide" /\ worker'.cert = worker.cert /\ worker'.providers = providers
      /\ worker'.domain = worker.domain + 1 /\ worker' # NoWorker
  <2>1. worker'.pc = "provide" /\ worker'.cert = worker.cert /\ worker'.providers = providers
        /\ worker'.domain = worker.domain + 1
    BY <1>2, <1>7 DEF WorkerIs
  <2> QED
    BY <2>1 DEF NoWorker
<1>9. /\ DOMAIN providers = DOMAIN worker.providers \cup {name} /\ providers[name] = env
      /\ \A n \in DOMAIN worker.providers : n # name => providers[n] = worker.providers[n]
    BY <1>6 DEF With
<1>10. Built(cfg.credentials[name].environment, deployment.disk, env)
  <2>1. worker.entry - 1 = Len(Entries)
    BY <1>1, <1>2, <1>4, <1>5
  <2>2. \A v \in DOMAIN Inherited : env[v] = Sees(Entries, deployment.disk, v, Len(Entries))
    BY <1>1, <2>1 DEF EnvironmentInv, Guarded
  <2>3. Built(Entries, deployment.disk, env)
    BY <1>5, <2>2, SeesAll
  <2> QED
    BY <1>5, <1>6, <2>3
<1>11. AllBuilt'
    BY <1>1, <1>2, <1>8, <1>9, <1>10, ScopedIs DEF EnvironmentInv, AllBuilt
<1>12. Guarded'
    BY <1>8 DEF Guarded
<1>13. Provided'
  <2>1. ASSUME NEW j \in DOMAIN worker.cert.domains, j < worker.domain + 1
        PROVE  CredentialOf(j)[1] \in DOMAIN providers
    <3>1. j \in Nat /\ (j < worker.domain \/ j = worker.domain)
        BY <1>2, <2>1, DomainsAreKnown
    <3> QED
        BY <1>2, <1>5, <1>6, <1>9, <3>1 DEF EnvironmentInv, Provided
  <2>2. \A j : CredentialOf(j)' = CredentialOf(j)
    BY <1>1, <1>8 DEF CredentialOf
  <2> QED
    BY <1>8, <2>1, <2>2 DEF Provided
<1> QED
    BY <1>3, <1>11, <1>12, <1>13, ScopedNext, DeploymentAssumption DEF EnvironmentInv

LEMMA OrderEnvironment ==
    ASSUME AccountInv, EnvironmentInv, PlaceOrder \/ Challenge
    PROVE  EnvironmentInv'
<1>1. worker.pc \in {"provide", "order"} /\ UNCHANGED <<deployment, cfg, env>>
    BY DEF PlaceOrder, Challenge
<1>2. worker # NoWorker /\ WorkerIs(worker) /\ worker.domain \in Nat \ {0}
    BY <1>1, BusyIsUp DEF WorkerIs
<1>3. worker'.pc = "order" /\ worker'.cert = worker.cert /\ worker'.providers = worker.providers
    BY <1>2 DEF PlaceOrder, Challenge, WorkerIs
<1>4. \A j \in DOMAIN worker.cert.domains : CredentialOf(j)[1] \in DOMAIN worker.providers
  <2>1. CASE PlaceOrder
    <3>1. ASSUME NEW j \in DOMAIN worker.cert.domains
          PROVE  j < worker.domain
      <4>1. j \in Nat /\ j <= Len(worker.cert.domains) /\ Len(worker.cert.domains) \in Nat
        BY <1>2, DomainsAreKnown
      <4> QED
        BY <1>2, <2>1, <4>1 DEF PlaceOrder
    <3> QED
        BY <1>2, <3>1 DEF EnvironmentInv, Provided
  <2>2. CASE Challenge
    BY <1>2, <2>2 DEF Challenge, EnvironmentInv, Provided
  <2> QED
    BY <2>1, <2>2
<1> QED
    BY <1>1, <1>2, <1>3, <1>4, EnvironmentStays

LEMMA EndEnvironment ==
    ASSUME EnvironmentInv, SetFails \/ CreateFails \/ OrderEnds \/ Stop
    PROVE  EnvironmentInv'
<1>1. worker' = NoWorker
    BY DEF SetFails, CreateFails, OrderEnds, Stop, ObtainFails
<1>2. env' = Inherited
  <2>1. CASE SetFails \/ CreateFails
    BY <2>1, RestoredIsInherited DEF SetFails, CreateFails
  <2>2. CASE OrderEnds
    BY <2>2 DEF OrderEnds, EnvironmentInv, CredentialsAreScoped
  <2>3. CASE Stop
    BY <2>3 DEF Stop
  <2> QED
    BY <2>1, <2>2, <2>3
<1> QED
    BY <1>1, <1>2, IdleEnvironment

LEMMA RestEnvironment ==
    ASSUME AccountInv, EnvironmentInv,
           \/ Start \/ Redeploy \/ UNCHANGED vars
           \/ \E h \in Handlers : DeleteAccount(h) \/ \E name \in CAs \cup {"account"} : DeleteBegin(h, name)
    PROVE  EnvironmentInv'
<1>1. CASE Start \/ Redeploy
  <2>1. worker = NoWorker /\ UNCHANGED <<worker, env>>
    BY <1>1 DEF AccountInv, ConfigInv, Start, Redeploy
  <2>2. env' = Inherited
    BY <2>1 DEF EnvironmentInv, CredentialsAreScoped, NoWorker
  <2> QED
    BY <2>1, <2>2, IdleEnvironment
<1>2. CASE \/ UNCHANGED vars
           \/ \E h \in Handlers : DeleteAccount(h) \/ \E name \in CAs \cup {"account"} : DeleteBegin(h, name)
  <2>1. UNCHANGED <<deployment, cfg, env, worker>>
    BY <1>2 DEF vars, DeleteAccount, DeleteBegin
  <2>2. UNCHANGED Entries /\ \A j : CredentialOf(j)' = CredentialOf(j)
    BY <2>1 DEF Entries, Credential, Domain, CredentialOf
  <2>3. Guarded' /\ Provided'
    BY <2>1, <2>2 DEF EnvironmentInv, Guarded, Provided
  <2>4. AllBuilt'
    BY <2>1, ScopedIs DEF EnvironmentInv, AllBuilt
  <2> QED
    BY <2>1, <2>3, <2>4, ScopedIs, ScopedNext DEF EnvironmentInv
<1> QED
    BY <1>1, <1>2

LEMMA NextEnvironment ==
    ASSUME AccountInv, AccountInv', EnvironmentInv, [Next]_vars
    PROVE  EnvironmentInv'
BY WorkerEnvironment, ObtainEnvironment, ForDomainEnvironment, SetInheritedEnvironment, SetVariableEnvironment,
   CreateEnvironment, OrderEnvironment, EndEnvironment, RestEnvironment DEF Next

LEMMA InitEnvironment ==
    ASSUME Init
    PROVE  EnvironmentInv
<1>1. worker = NoWorker /\ worker.pc = "idle" /\ env = Inherited
    BY DEF Init, NoWorker
<1> QED
    BY <1>1, DeploymentAssumption DEF EnvironmentInv, Guarded, Provided, CredentialsAreScoped

LEMMA EnvironmentHolds == Spec => []EnvironmentInv
BY InitEnvironment, NextEnvironment, AccountsHold, PTL DEF Spec

(* withCredentialEnvironment: the variables of a DNS credential are in the *)
(* environment only while its provider is built, and each provider saw the *)
(* last of its own entries for a variable, or the inherited value.         *)
THEOREM CredentialsStayScoped == Spec => []CredentialsAreScoped
<1>1. EnvironmentInv => CredentialsAreScoped
    BY DEF EnvironmentInv
<1> QED
    BY <1>1, EnvironmentHolds, PTL

(* Every domain that Validate accepts has a configured DNS credential when *)
(* it is looked up again, in any spelling of zones and domains, and the    *)
(* challenges of an order find their provider.                             *)
THEOREM ValidatedDomainsAreServed == Spec => []ValidatedDomainsHaveCredential
<1>1. AccountInv /\ EnvironmentInv => ValidatedDomainsHaveCredential
  <2> SUFFICES ASSUME AccountInv, EnvironmentInv, up, NEW i \in DOMAIN cfg.certificates,
                      NEW j \in DOMAIN cfg.certificates[i].domains
               PROVE  LET found == CredentialForDomain(cfg, cfg.certificates[i], TrimWildcard(cfg.certificates[i].domains[j]))
                      IN  /\ found # <<>> /\ found[1] \in DOMAIN cfg.credentials
                          /\ worker.pc = "order" /\ worker.cert = cfg.certificates[i] => found[1] \in DOMAIN worker.providers
    BY DEF ValidatedDomainsHaveCredential
  <2>1. PICK found : found = CredentialForDomain(cfg, cfg.certificates[i], TrimWildcard(cfg.certificates[i].domains[j]))
    OBVIOUS
  <2>2. found # <<>> /\ found[1] \in DOMAIN cfg.credentials
    BY <2>1, CredentialIsFound, AppliedFields DEF AccountInv, ConfigInv
  <2>3. ASSUME worker.pc = "order", worker.cert = cfg.certificates[i]
        PROVE  found[1] \in DOMAIN worker.providers
    <3>1. worker # NoWorker /\ CredentialOf(j) = found
        BY <2>1, <2>3 DEF NoWorker, CredentialOf
    <3> QED
        BY <2>3, <3>1 DEF EnvironmentInv, Provided
  <2> QED
    BY <2>1, <2>2, <2>3
<1> QED
    BY <1>1, AccountsHold, EnvironmentHolds, PTL
----------------------------------------------------------------------------
(* Configuration loading *)

(* Duration.UnmarshalText refuses the texts whose product would wrap.      *)
LEMMA DaysAreExact ==
    ASSUME NEW n \in Int, DaysInRange(n)
    PROVE  Days(n) = n * Day
<1>1. PICK m \in Nat \ {0}, d \in Nat \ {0} : m = MaxInt /\ d = Day
    BY DurationAssumption
<1>2. PICK q \in Nat : q = m \div d /\ q * d <= m
    OBVIOUS
<1>3. n <= q /\ -q <= n
    BY <1>1, <1>2 DEF DaysInRange
<1>4. PICK p \in Int : p = n * d
    OBVIOUS
<1>5. p <= q * d /\ -(q * d) <= p
  <2>1. (q - n) * d >= 0 /\ (q + n) * d >= 0
    BY <1>3
  <2>2. (q - n) * d = q * d - n * d /\ (q + n) * d = q * d + n * d
    OBVIOUS
  <2> QED
    BY <1>4, <2>1, <2>2
<1>6. PICK x \in Nat, y \in Nat \ {0} : x = p + m + 1 /\ y = 2 * m + 2 /\ x < y
    BY <1>2, <1>5
<1>7. x % y = x
    BY <1>6
<1>8. Days(n) = (x % y) - (m + 1)
    BY <1>1, <1>4, <1>6 DEF Days, Wrap
<1> QED
    BY <1>1, <1>4, <1>6, <1>7, <1>8

(* The least of the indices 1 to 4 in a set.                               *)
LEMMA FirstNamed ==
    ASSUME NEW S, S \subseteq Nat
    PROVE  \A n \in S : (\A m \in S : n <= m) => Min(S) = n
<1> SUFFICES ASSUME NEW n \in S, \A m \in S : n <= m PROVE Min(S) = n
    OBVIOUS
<1>1. PICK x : x = Min(S)
    OBVIOUS
<1>2. x \in S /\ \A y \in S : x <= y
    BY <1>1 DEF Min
<1> QED
    BY <1>1, <1>2

FileSources(d, s) ==
    << <<d.env[s], d.env[s]>>,
       <<d.envFile[s], IF d.envFile[s] = <<>> THEN <<>> ELSE d.disk[d.envFile[s][1]]>>,
       <<d.yaml[s], IF d.yaml[s] = <<>> THEN <<>> ELSE d.disk[d.yaml[s][1]]>>,
       <<<<"default">>, IF s = "master" THEN d.disk["master.key"] ELSE <<>>>> >>

PlainSources(d, s) ==
    << <<d.env[s], d.env[s]>>, <<d.yaml[s], d.yaml[s]>>, <<<<"default">>, Default(s)>> >>

Named(sources) == {i \in DOMAIN sources : sources[i][1] # <<>>}

LEMMA FirstOfThree ==
    ASSUME NEW d, NEW s
    PROVE  PlainSources(d, s)[Min(Named(PlainSources(d, s)))][2] = Plain(d, s)
<1>1. PICK sources, a, b, e : /\ sources = PlainSources(d, s) /\ a = d.env[s] /\ b = d.yaml[s] /\ e = Default(s)
                              /\ sources = << <<a, a>>, <<b, b>>, <<<<"default">>, e>> >>
    BY DEF PlainSources
<1>2. /\ DOMAIN sources = {1, 2, 3} /\ sources[1][1] = a /\ sources[1][2] = a /\ sources[2][1] = b /\ sources[2][2] = b
      /\ sources[3][1] # <<>> /\ sources[3][2] = e
    BY <1>1
<1>3. Named(sources) \subseteq {1, 2, 3} /\ 3 \in Named(sources)
    BY <1>2 DEF Named
<1>4. (1 \in Named(sources) <=> a # <<>>) /\ (2 \in Named(sources) <=> b # <<>>)
    BY <1>2 DEF Named
<1>5. CASE a # <<>>
  <2>1. Min(Named(sources)) = 1
    BY <1>3, <1>4, <1>5, FirstNamed
  <2> QED
    BY <1>1, <1>2, <1>5, <2>1 DEF Plain
<1>6. CASE a = <<>> /\ b # <<>>
  <2>1. Min(Named(sources)) = 2
    BY <1>3, <1>4, <1>6, FirstNamed
  <2> QED
    BY <1>1, <1>2, <1>6, <2>1 DEF Plain
<1>7. CASE a = <<>> /\ b = <<>>
  <2>1. Min(Named(sources)) = 3
    BY <1>3, <1>4, <1>7, FirstNamed
  <2> QED
    BY <1>1, <1>2, <1>7, <2>1 DEF Plain
<1> QED
    BY <1>5, <1>6, <1>7

LEMMA FirstOfFour ==
    ASSUME NEW d, NEW s
    PROVE  FileSources(d, s)[Min(Named(FileSources(d, s)))][2] =
               IF d.env[s] # <<>> THEN d.env[s]
               ELSE IF FilePath(d, s) # <<>> THEN d.disk[FilePath(d, s)[1]]
               ELSE IF s = "master" THEN d.disk["master.key"] ELSE <<>>
<1>0. PICK a, b, c, bb, cc, e :
          /\ a = d.env[s] /\ b = d.envFile[s] /\ c = d.yaml[s]
          /\ bb = (IF d.envFile[s] = <<>> THEN <<>> ELSE d.disk[d.envFile[s][1]])
          /\ cc = (IF d.yaml[s] = <<>> THEN <<>> ELSE d.disk[d.yaml[s][1]])
          /\ e = (IF s = "master" THEN d.disk["master.key"] ELSE <<>>)
    OBVIOUS
<1>1. PICK sources : sources = FileSources(d, s) /\ sources = << <<a, a>>, <<b, bb>>, <<c, cc>>, <<<<"default">>, e>> >>
    BY <1>0 DEF FileSources
<1>2. /\ DOMAIN sources = {1, 2, 3, 4} /\ sources[1][1] = a /\ sources[1][2] = a /\ sources[2][1] = b /\ sources[2][2] = bb
      /\ sources[3][1] = c /\ sources[3][2] = cc /\ sources[4][1] # <<>> /\ sources[4][2] = e
    BY <1>1
<1>3. Named(sources) \subseteq {1, 2, 3, 4} /\ 4 \in Named(sources)
    BY <1>2 DEF Named
<1>4. /\ 1 \in Named(sources) <=> a # <<>>
      /\ 2 \in Named(sources) <=> b # <<>>
      /\ 3 \in Named(sources) <=> c # <<>>
    BY <1>2 DEF Named
<1>5. CASE a # <<>>
  <2>1. Min(Named(sources)) = 1
    BY <1>3, <1>4, <1>5, FirstNamed
  <2> QED
    BY <1>0, <1>1, <1>2, <1>5, <2>1
<1>6. CASE a = <<>> /\ b # <<>>
  <2>1. Min(Named(sources)) = 2
    BY <1>3, <1>4, <1>6, FirstNamed
  <2> QED
    BY <1>0, <1>1, <1>2, <1>6, <2>1 DEF FilePath
<1>7. CASE a = <<>> /\ b = <<>> /\ c # <<>>
  <2>1. Min(Named(sources)) = 3
    BY <1>3, <1>4, <1>7, FirstNamed
  <2> QED
    BY <1>0, <1>1, <1>2, <1>7, <2>1 DEF FilePath
<1>8. CASE a = <<>> /\ b = <<>> /\ c = <<>>
  <2>1. Min(Named(sources)) = 4
    BY <1>3, <1>4, <1>8, FirstNamed
  <2> QED
    BY <1>0, <1>1, <1>2, <1>8, <2>1 DEF FilePath
<1> QED
    BY <1>5, <1>6, <1>7, <1>8
FilesFirst(d, s) ==
    /\ Applied(d)[s] = FileSources(d, s)[Min(Named(FileSources(d, s)))][2]
    /\ d.env[s] = <<>> \/ d.envFile[s] = <<>>

PlainFirst(d, s) == Applied(d)[s] = PlainSources(d, s)[Min(Named(PlainSources(d, s)))][2]

LEMMA FilesAreFirst ==
    ASSUME NEW d \in Deployments, LoadSucceeds(d), NEW s \in FileSettings
    PROVE  FilesFirst(d, s)
<1>1. CASE HasOIDC(d) \/ s # "secret"
  <2>1. s \in InEffect(d)
    BY <1>1 DEF InEffect, FileSettings, Settings, OIDCSettings
  <2>2. ~SecretFails(d, s)
    BY <2>1 DEF LoadSucceeds, ApplyFails
  <2>3. Value(d, s) = Secret(d, s)
    BY DEF Value
  <2>4. d.env[s] = <<>> \/ d.envFile[s] = <<>>
    BY <2>2 DEF SecretFails
  <2>5. CASE s = "master"
    <3>1. Applied(d)["master"] = MasterKey(d)
        BY DEF Applied
    <3>2. MasterKey(d) = IF Secret(d, s) # <<>> THEN Secret(d, s) ELSE d.disk["master.key"]
        BY <2>3, <2>5 DEF MasterKey
    <3> QED
        BY <2>2, <2>4, <2>5, <3>1, <3>2, FirstOfFour DEF FilesFirst, Secret, SecretFails
  <2>6. CASE s # "master"
    <3>1. Applied(d)["bootstrap"] = Value(d, "bootstrap")
        BY DEF Applied
    <3>2. HasOIDC(d) => Applied(d)["secret"] = Value(d, "secret")
        BY DEF Applied
    <3>3. Applied(d)[s] = Secret(d, s)
        BY <1>1, <2>3, <2>6, <3>1, <3>2 DEF FileSettings
    <3> QED
        BY <2>4, <2>6, <3>3, FirstOfFour DEF FilesFirst, Secret
  <2> QED
    BY <2>5, <2>6
<1>2. CASE ~HasOIDC(d) /\ s = "secret"
  <2>1. d.env[s] = <<>> /\ d.envFile[s] = <<>> /\ d.yaml[s] = <<>>
    BY <1>2, DeploymentAssumption DEF HasOIDC, IsDeployment, OIDCSettings
  <2>2. Applied(d)["secret"] = <<>>
    BY <1>2 DEF Applied
  <2> QED
    BY <1>2, <2>1, <2>2, FirstOfFour DEF FilesFirst, FilePath
<1> QED
    BY <1>1, <1>2

LEMMA PlainIsFirst ==
    ASSUME NEW d \in Deployments, LoadSucceeds(d), NEW s \in Settings \ ({"session"} \cup FileSettings)
    PROVE  PlainFirst(d, s)
<1>0. s \in {"email", "directory", "public", "issuer", "client", "scopes"} /\ Value(d, s) = Plain(d, s)
    BY DEF Settings, OIDCSettings, FileSettings, Value
<1>1. CASE s \in {"email", "directory", "public"}
  <2>1. /\ Applied(d)["email"] = Value(d, "email") /\ Applied(d)["directory"] = Value(d, "directory")
        /\ Applied(d)["public"] = Value(d, "public")
    BY DEF Applied
  <2> QED
    BY <1>0, <1>1, <2>1, FirstOfThree DEF PlainFirst
<1>2. CASE HasOIDC(d) /\ s \in {"issuer", "client", "scopes"}
  <2>1. /\ Applied(d)["issuer"] = Value(d, "issuer") /\ Applied(d)["client"] = Value(d, "client")
        /\ Applied(d)["scopes"] = Value(d, "scopes")
    BY <1>2 DEF Applied
  <2> QED
    BY <1>0, <1>2, <2>1, FirstOfThree DEF PlainFirst
<1>3. CASE ~HasOIDC(d) /\ s \in {"issuer", "client", "scopes"}
  <2>1. Applied(d)["issuer"] = <<>> /\ Applied(d)["client"] = <<>> /\ Applied(d)["scopes"] = <<>>
    BY <1>3 DEF Applied
  <2>2. d.env[s] = <<>> /\ d.yaml[s] = <<>>
    BY <1>3, DeploymentAssumption DEF HasOIDC, IsDeployment, OIDCSettings
  <2>3. Plain(d, s) = <<>>
    BY <1>3, <2>2 DEF Plain, Default
  <2> QED
    BY <1>3, <2>1, <2>3, FirstOfThree DEF PlainFirst
<1> QED
    BY <1>0, <1>1, <1>2, <1>3

LEMMA DurationsAreExact ==
    ASSUME NEW d \in Deployments, LoadSucceeds(d)
    PROVE  /\ Applied(d).retention = d.retention * Day
           /\ Applied(d).session = LET given == d.env["session"] \o d.yaml["session"] IN
                                   IF given = <<>> THEN 0 ELSE given[1] * Day
<1>1. d.retention \in Int /\ d.env["session"] \in Seq(Int) /\ d.yaml["session"] \in Seq(Int)
    BY DeploymentAssumption DEF IsDeployment
<1>2. Applied(d).retention = d.retention * Day
  <2>1. Applied(d).retention = Days(d.retention)
    BY DEF Applied
  <2> QED
    BY <1>1, <2>1, DaysAreExact DEF LoadSucceeds, Unmarshals
<1>3. PICK a, b \in Seq(Int) : a = d.env["session"] /\ b = d.yaml["session"]
    BY <1>1
<1>4. Value(d, "session") = IF a # <<>> THEN a ELSE b
    BY <1>3 DEF Value, FileSettings, Plain, Default
<1>5. Applied(d).session = IF Value(d, "session") = <<>> THEN 0 ELSE Days(Value(d, "session")[1])
    BY DEF Applied
<1>6. Value(d, "session") # <<>> => DaysInRange(Value(d, "session")[1])
  <2>1. "session" \in InEffect(d)
    BY DEF InEffect, Settings, OIDCSettings
  <2> QED
    BY <2>1 DEF LoadSucceeds, ApplyFails, Undecodable
<1>7. CASE a # <<>>
  <2>1. Len(a) \in Nat \ {0} /\ a[1] \in Int
    BY <1>7, EmptySeq, ElementOfSeq
  <2>2. a \o b # <<>> /\ (a \o b)[1] = a[1]
    BY <1>7, <2>1, ConcatProperties
  <2>3. Days(a[1]) = a[1] * Day
    BY <1>4, <1>6, <1>7, <2>1, DaysAreExact
  <2> QED
    BY <1>2, <1>3, <1>4, <1>5, <1>7, <2>2, <2>3
<1>8. CASE a = <<>>
  <2>1. a \o b = b
    BY <1>8, ConcatEmptySeq
  <2>2. CASE b = <<>>
    BY <1>2, <1>3, <1>4, <1>5, <1>8, <2>1, <2>2
  <2>3. CASE b # <<>>
    <3>1. b[1] \in Int
        BY <2>3, EmptySeq, ElementOfSeq
    <3>2. Days(b[1]) = b[1] * Day
        BY <1>4, <1>6, <1>8, <2>3, <3>1, DaysAreExact
    <3> QED
        BY <1>2, <1>3, <1>4, <1>5, <1>8, <2>1, <2>3, <3>2
  <2> QED
    BY <2>2, <2>3
<1> QED
    BY <1>7, <1>8

(* The running server decides by the first source that the operator named  *)
(* for a setting, never by two of them, and by the exact number of days:   *)
(* for every YAML file, environment and set of mounted files that Load     *)
(* accepts.                                                                *)
THEOREM ConfigurationFollowsPrecedence == Spec => []LoadFollowsPrecedence
<1>1. AccountInv => LoadFollowsPrecedence
  <2> SUFFICES ASSUME AccountInv, up
               PROVE  LoadFollowsPrecedence
    BY DEF LoadFollowsPrecedence
  <2>1. deployment \in Deployments /\ cfg = Applied(deployment) /\ LoadSucceeds(deployment)
    BY DEF AccountInv, ConfigInv
  <2>2. \A s \in FileSettings : FilesFirst(deployment, s)
    BY <2>1, FilesAreFirst
  <2>3. \A s \in Settings \ ({"session"} \cup FileSettings) : PlainFirst(deployment, s)
    BY <2>1, PlainIsFirst
  <2>4. /\ cfg.retention = deployment.retention * Day
        /\ cfg.session = LET given == deployment.env["session"] \o deployment.yaml["session"] IN
                         IF given = <<>> THEN 0 ELSE given[1] * Day
    BY <2>1, DurationsAreExact
  <2>5. \A s \in Settings \ {"session"} :
          LET sources == IF s \in FileSettings THEN FileSources(deployment, s) ELSE PlainSources(deployment, s)
              named == {i \in DOMAIN sources : sources[i][1] # <<>>}
          IN  /\ cfg[s] = sources[Min(named)][2]
              /\ s \in FileSettings => deployment.env[s] = <<>> \/ deployment.envFile[s] = <<>>
    BY <2>1, <2>2, <2>3 DEF FilesFirst, PlainFirst, Named
  <2> QED
    BY <2>4, <2>5 DEF LoadFollowsPrecedence, FileSources, PlainSources, Contents
<1> QED
    BY <1>1, AccountsHold, PTL

=============================================================================
