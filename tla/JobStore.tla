------------------------------ MODULE JobStore ------------------------------
(***************************************************************************)
(* The three tables of certvault.db that issuance works on, and one        *)
(* operator per transaction of CertificateRepository and JobRepository     *)
(* (backend/database/repository).  SQLite is opened with one connection,   *)
(* so a transaction is one atomic step; whether it runs at all (cancelled  *)
(* context, write error) is decided by the caller, in module Issuance.     *)
(*                                                                         *)
(* A certificate that was never configured has no row in the code; here it *)
(* is a disabled row, which no query tells apart (every query of the       *)
(* issuance path selects on enabled = true).                               *)
(***************************************************************************)
EXTENDS Naturals, Sequences, FiniteSets

CONSTANTS
    Names,                  \* certificate names, as ranks in ORDER BY name
    Specs,                  \* what a certificate is to cover: SAN set and key type
    ArtifactFiles,          \* the files of one version directory
    MaxPendingIssuanceJobs  \* admission limit; 64 in the code

ASSUME NamesAssumption == Names \subseteq Nat /\ IsFiniteSet(Names)
ASSUME SpecsAssumption == Specs # {}
ASSUME LimitAssumption == MaxPendingIssuanceJobs \in Nat \ {0}

VARIABLES
    cert,      \* table certificates, by name
    jobs,      \* table jobs; the row id is the position
    versions   \* table certificate_versions; the row id is the position

storeVars == <<cert, jobs, versions>>

(* A definition of config.yaml.  "manual" and "auto" are enabled           *)
(* definitions without and with automatic issuance.                        *)
Modes == {"absent", "disabled", "manual", "auto"}
Definitions == [mode : Modes, want : Specs]

IssueKinds == {"manual", "scheduled"}
PendingStatuses == {"queued", "running"}

Rows == [enabled : BOOLEAN, want : Specs, status : {"pending", "valid", "error"}]

(* error: "none", "plain" or "interrupted" (the message starts with        *)
(* InterruptedIssuanceError).                                              *)
Jobs == [cert : Names, kind : IssueKinds,
         status : {"queued", "running", "succeeded", "failed"},
         error : {"none", "plain", "interrupted"}]

(* due is the comparison of not_after with the clock; job is a history     *)
(* field: the job whose issuance published the version.                    *)
Versions == [cert : Names, spec : Specs, files : SUBSET ArtifactFiles,
             due : BOOLEAN, job : Nat]

StoreTypeOK ==
    /\ cert \in [Names -> Rows]
    /\ jobs \in Seq(Jobs)
    /\ versions \in Seq(Versions)

StoreInit ==
    /\ cert = [c \in Names |-> [enabled |-> FALSE, want |-> CHOOSE s \in Specs : TRUE,
                                status |-> "pending"]]
    /\ jobs = <<>>
    /\ versions = <<>>

----------------------------------------------------------------------------
(* Queries *)

Pending(i) == jobs[i].status \in PendingStatuses

PendingJobs == {i \in DOMAIN jobs : Pending(i)}

HasPending(c) == \E i \in DOMAIN jobs : jobs[i].cert = c /\ Pending(i)

(* latestJobs selects MAX(id) per certificate; the scheduler only asks     *)
(* whether that job's error starts with InterruptedIssuanceError.          *)
LatestJobInterrupted(c) ==
    \E i \in DOMAIN jobs :
        /\ jobs[i].cert = c
        /\ jobs[i].error = "interrupted"
        /\ \A k \in DOMAIN jobs : jobs[k].cert = c => k <= i

(* ORDER BY created_at DESC, id DESC LIMIT 1, for a wall clock that does   *)
(* not step back between two issuances.                                    *)
IsCurrentVersion(v, c) ==
    /\ v \in DOMAIN versions
    /\ versions[v].cert = c
    /\ \A w \in DOMAIN versions : versions[w].cert = c => w <= v

HasVersion(c) == \E v \in DOMAIN versions : versions[v].cert = c

----------------------------------------------------------------------------
(* CertificateRepository *)

(* A plausible bug: the ON CONFLICT clause forgets domains and key_type.   *)
MutReconcileKeepsWant(cfg) ==
    /\ cert' = [c \in Names |->
                  [cert[c] EXCEPT !.enabled = cfg[c].mode \in {"manual", "auto"}]]
    /\ UNCHANGED <<jobs, versions>>

(* Upsert every definition, then disable the rows no definition names.     *)
Reconcile(cfg) ==
    /\ cert' = [c \in Names |->
                  IF cfg[c].mode = "absent"
                  THEN [cert[c] EXCEPT !.enabled = FALSE]
                  ELSE [cert[c] EXCEPT !.enabled = cfg[c].mode # "disabled",
                                       !.want = cfg[c].want]]
    /\ UNCHANGED <<jobs, versions>>

(* A plausible bug: a new version leaves the old failure on the row.       *)
MutAddVersionKeepsStatus(c, spec, files, job) ==
    /\ cert[c].enabled
    /\ versions' = Append(versions, [cert |-> c, spec |-> spec, files |-> files,
                                     due |-> FALSE, job |-> job])
    /\ UNCHANGED <<cert, jobs>>

AddVersion(c, spec, files, job) ==
    /\ cert[c].enabled
    /\ versions' = Append(versions, [cert |-> c, spec |-> spec, files |-> files,
                                     due |-> FALSE, job |-> job])
    /\ cert' = [cert EXCEPT ![c].status = "valid"]
    /\ UNCHANGED jobs

----------------------------------------------------------------------------
(* JobRepository *)

(* A plausible bug: the limit is tested with > instead of >=.              *)
MutAdmissibleOffByOne(c) ==
    /\ cert[c].enabled
    /\ HasPending(c) \/ Cardinality(PendingJobs) <= MaxPendingIssuanceJobs

(* The transaction of admit commits: the certificate is enabled and either *)
(* already has a pending job, or the queue is below its limit.             *)
Admissible(c) ==
    /\ cert[c].enabled
    /\ HasPending(c) \/ Cardinality(PendingJobs) < MaxPendingIssuanceJobs

NewJob(c, kind) == [cert |-> c, kind |-> kind, status |-> "queued", error |-> "none"]

Admit(c, kind) ==
    /\ Admissible(c)
    /\ jobs' = IF HasPending(c) THEN jobs ELSE Append(jobs, NewJob(c, kind))
    /\ UNCHANGED <<cert, versions>>

(* A plausible bug: the claim query orders by id descending.               *)
MutNextQueuedNewest(i) ==
    /\ i \in DOMAIN jobs
    /\ jobs[i].status = "queued"
    /\ \A k \in DOMAIN jobs : jobs[k].status = "queued" => k <= i

(* WHERE status = 'queued' ORDER BY id LIMIT 1.                            *)
NextQueued(i) ==
    /\ i \in DOMAIN jobs
    /\ jobs[i].status = "queued"
    /\ \A k \in DOMAIN jobs : jobs[k].status = "queued" => i <= k

Claim(i) ==
    /\ NextQueued(i)
    /\ jobs' = [jobs EXCEPT ![i].status = "running"]
    /\ UNCHANGED <<cert, versions>>

(* A plausible bug: recovery puts interrupted jobs back into the queue.    *)
MutRecoverRequeues ==
    /\ jobs' = [i \in DOMAIN jobs |->
                  IF jobs[i].status = "running"
                  THEN [jobs[i] EXCEPT !.status = "queued"]
                  ELSE jobs[i]]
    /\ UNCHANGED <<cert, versions>>

(* A plausible bug: recovery writes a status the job API does not know.    *)
MutRecoverNewStatus ==
    /\ jobs' = [i \in DOMAIN jobs |->
                  IF jobs[i].status = "running"
                  THEN [jobs[i] EXCEPT !.status = "interrupted"]
                  ELSE jobs[i]]
    /\ UNCHANGED <<cert, versions>>

(* The certificate rows keep their status.                                 *)
RecoverInterrupted ==
    /\ jobs' = [i \in DOMAIN jobs |->
                  IF jobs[i].status = "running"
                  THEN [jobs[i] EXCEPT !.status = "failed", !.error = "interrupted"]
                  ELSE jobs[i]]
    /\ UNCHANGED <<cert, versions>>

Finish(i, error) ==
    /\ jobs' = [jobs EXCEPT
                  ![i] = [@ EXCEPT !.status = IF error = "none" THEN "succeeded" ELSE "failed",
                                   !.error = error]]
    /\ cert' = IF error = "none" THEN cert
               ELSE [cert EXCEPT ![jobs[i].cert].status = "error"]
    /\ UNCHANGED versions

=============================================================================
