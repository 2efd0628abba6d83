------------------------------ MODULE Issuance ------------------------------
(***************************************************************************)
(* The issuance service: one server process whose Manager.Run goroutine    *)
(* (backend/service/manager.go) works through the job table, while HTTP    *)
(* handlers admit renewals, the operator edits config.yaml, restarts the   *)
(* server or runs the api-key command line, and the process may be killed  *)
(* between any two steps.                                                  *)
(*                                                                         *)
(* The worker is a program counter pc with the locals of Run, reconcile    *)
(* and issue; one action is one database transaction, one file written,    *)
(* one exchange with the ACME server or one select.  Operations that take  *)
(* the worker's context fail once it is cancelled.                         *)
(***************************************************************************)
EXTENDS JobStore

CONSTANTS
    Files,   \* the configurations config.yaml may hold
    Bound    \* how often each event of the environment may happen

(* edits of config.yaml, api-key commands, renewal requests, ticks of the  *)
(* six-hour ticker, versions that enter their renewal window, SIGTERMs,    *)
(* kills, and failing database or file operations.                         *)
BoundedEvents == {"edit", "cli", "request", "tick", "age", "stop", "crash", "fault"}

ASSUME FilesAssumption == Files \subseteq [Names -> Definitions]
ASSUME BoundAssumption == Bound \in [BoundedEvents -> Nat]

VARIABLES
    file,       \* config.yaml on disk
    cfg,        \* the Config the running server loaded
    up,         \* the server process exists
    cancelled,  \* its signal context is cancelled
    wake,       \* Manager.wake holds a token
    tick,       \* the channel of the six-hour ticker holds a tick
    pc, ret,    \* where the worker is, and where reconcile returns to
    todo,       \* reconcile: the listed certificates not yet looked at
    cur,        \* issue: the claimed job, 0 when there is none
    err,        \* issue: result
    saved,      \* save: the files of the new version directory
    orders,     \* history: the jobs an ACME order was placed for, in order
    cut,        \* history: jobs whose order may have been lost to a stop or a kill
    lost,       \* history: jobs whose Finish transaction failed
    events,     \* history: the hooks and notifications started
    spent       \* how often each bounded event happened

workerVars == <<pc, ret, todo, cur, err, saved>>
processVars == <<cfg, up, cancelled, wake, tick>>
historyVars == <<orders, cut, lost, events>>
vars == <<storeVars, file, processVars, workerVars, historyVars, spent>>

WorkerPCs == {"off", "recover", "list", "scan", "top", "claim", "idle", "begin",
              "obtain", "ordered", "save", "publish", "finish", "announce", "done"}

(* From Claim to the deferred function of issue.                           *)
IssuePCs == {"begin", "obtain", "ordered", "save", "publish", "finish"}

JobIds == 1..Len(jobs)

TypeOK ==
    /\ StoreTypeOK
    /\ file \in [Names -> Definitions]
    /\ cfg \in [Names -> Definitions]
    /\ up \in BOOLEAN /\ cancelled \in BOOLEAN
    /\ wake \in BOOLEAN /\ tick \in BOOLEAN
    /\ pc \in WorkerPCs
    /\ ret \in {"top", "claim"}
    /\ todo \subseteq [cert : Names, held : BOOLEAN, drift : BOOLEAN]
    /\ cur \in Nat
    /\ err \in {"none", "plain", "interrupted"}
    /\ saved \subseteq ArtifactFiles
    /\ orders \in Seq(Nat)
    /\ cut \subseteq Nat
    /\ lost \subseteq Nat
    /\ events \subseteq [job : Nat, event : {"issued", "failed"}]
    /\ spent \in [BoundedEvents -> Nat]

Spend(e) ==
    /\ spent[e] < Bound[e]
    /\ spent' = [spent EXCEPT ![e] = @ + 1]

Init ==
    /\ StoreInit
    /\ file \in Files
    /\ cfg = file
    /\ up = FALSE /\ cancelled = FALSE /\ wake = FALSE /\ tick = FALSE
    /\ pc = "off" /\ ret = "top" /\ todo = {} /\ cur = 0 /\ err = "none" /\ saved = {}
    /\ orders = <<>> /\ cut = {} /\ lost = {} /\ events = {}
    /\ spent = [e \in BoundedEvents |-> 0]

----------------------------------------------------------------------------
(* The process and its environment *)

(* Config.Certificate and validateIssuance: defined and enabled in the     *)
(* configuration this process loaded.                                      *)
Configured(c) == cfg[c].mode \in {"manual", "auto"}

ShouldAutomaticallyIssue(c) == cfg[c].mode = "auto"

(* Everything the process holds in memory goes with it.                    *)
ProcessGone ==
    /\ up' = FALSE /\ cancelled' = FALSE /\ wake' = FALSE /\ tick' = FALSE
    /\ pc' = "off" /\ ret' = "top" /\ todo' = {} /\ cur' = 0 /\ err' = "none" /\ saved' = {}

EditConfig ==
    /\ Spend("edit")
    /\ file' \in Files \ {file}
    /\ UNCHANGED <<storeVars, processVars, workerVars, historyVars>>

(* Any api-key command loads config.yaml and reconciles it into the        *)
(* database of the server that may be running.                             *)
CommandLine ==
    /\ Spend("cli")
    /\ Reconcile(file)
    /\ UNCHANGED <<file, processVars, workerVars, historyVars>>

(* runServer: load, reconcile, start the worker and the HTTP listener.     *)
Start ==
    /\ ~up
    /\ cfg' = file
    /\ Reconcile(file)
    /\ up' = TRUE
    /\ pc' = "recover"
    /\ UNCHANGED <<file, cancelled, wake, tick, ret, todo, cur, err, saved, historyVars, spent>>

(* SIGINT, SIGTERM, or a listener error that makes runServer return.       *)
Cancel ==
    /\ up /\ ~cancelled
    /\ Spend("stop")
    /\ cancelled' = TRUE
    /\ UNCHANGED <<storeVars, file, cfg, up, wake, tick, workerVars, historyVars>>

(* A plausible bug: runServer returns without waiting for managerDone.     *)
MutExitWithoutWaiting ==
    /\ up /\ cancelled
    /\ ProcessGone
    /\ UNCHANGED <<storeVars, file, cfg, historyVars, spent>>

(* runServer returns only after the worker did.                            *)
Exit ==
    /\ up /\ cancelled
    /\ pc = "done"
    /\ ProcessGone
    /\ UNCHANGED <<storeVars, file, cfg, historyVars, spent>>

Crash ==
    /\ up
    /\ Spend("crash")
    /\ cut' = cut \cup {i \in JobIds : i = cur /\ jobs[i].status = "running"}
    /\ ProcessGone
    /\ UNCHANGED <<storeVars, file, cfg, orders, lost, events>>

(* Enqueue: validate against the loaded configuration, admit, and leave a  *)
(* token for the worker unless one is there.                               *)
Enqueue(c, kind) ==
    /\ Configured(c)
    /\ Admit(c, kind)
    /\ wake' = TRUE

(* POST /certificates/{name}/renew; also while the worker is recovering or *)
(* the server is shutting down.  A refused request changes nothing.        *)
Renew(c) ==
    /\ up
    /\ Spend("request")
    /\ Enqueue(c, "manual")
    /\ UNCHANGED <<file, cfg, up, cancelled, tick, workerVars, historyVars>>

(* The current version of c enters its renewal window.                     *)
BecomeDue(c) ==
    /\ Spend("age")
    /\ \E v \in DOMAIN versions :
         /\ IsCurrentVersion(v, c)
         /\ ~versions[v].due
         /\ versions' = [versions EXCEPT ![v].due = TRUE]
    /\ UNCHANGED <<cert, jobs, file, processVars, workerVars, historyVars>>

(* The ticker is created after the first reconcile.                        *)
Tick ==
    /\ up
    /\ pc \notin {"recover", "done"}
    /\ ~tick
    /\ Spend("tick")
    /\ tick' = TRUE
    /\ UNCHANGED <<storeVars, file, cfg, up, cancelled, wake, workerVars, historyVars>>

----------------------------------------------------------------------------
(* Manager.Run *)

Goto(from, to) == pc = from /\ pc' = to

(* reconcile returns to its call in Run.                                   *)
Return(from) == pc = from /\ pc' = ret /\ ret' = "top"

(* An operation that takes the worker's context returns an error.          *)
ContextOperationFails ==
    \/ cancelled /\ UNCHANGED spent
    \/ Spend("fault")

(* A plausible bug: an error of the recovery is logged and Run goes on.    *)
MutRecoverSkipped ==
    /\ Goto("recover", "list")
    /\ UNCHANGED <<storeVars, file, processVars, ret, todo, cur, err, saved, historyVars, spent>>

Recover ==
    /\ Goto("recover", "list")
    /\ ~cancelled
    /\ RecoverInterrupted
    /\ UNCHANGED <<file, processVars, ret, todo, cur, err, saved, historyVars, spent>>

(* A failed recovery is retried at the next poll; a cancelled one ends Run.*)
RecoverStops ==
    /\ Goto("recover", "done")
    /\ cancelled
    /\ UNCHANGED <<storeVars, file, processVars, ret, todo, cur, err, saved, historyVars, spent>>

(* A plausible bug: the loop does not look at the context before it claims.*)
MutTopIgnoresContext ==
    /\ pc = "top"
    /\ pc' = IF tick THEN "list" ELSE "claim"
    /\ tick' = FALSE
    /\ ret' = IF tick THEN "claim" ELSE ret
    /\ UNCHANGED <<storeVars, file, cfg, up, cancelled, wake, todo, cur, err, saved,
                   historyVars, spent>>

Top ==
    /\ pc = "top"
    /\ pc' = CASE cancelled -> "done"
               [] ~cancelled /\ tick -> "list"
               [] ~cancelled /\ ~tick -> "claim"
    /\ tick' = (tick /\ cancelled)
    /\ ret' = IF pc' = "list" THEN "claim" ELSE ret
    /\ UNCHANGED <<storeVars, file, cfg, up, cancelled, wake, todo, cur, err, saved,
                   historyVars, spent>>

ClaimJob ==
    /\ Goto("claim", "begin")
    /\ ~cancelled
    /\ \E i \in JobIds : Claim(i) /\ cur' = i
    /\ UNCHANGED <<file, processVars, ret, todo, err, saved, historyVars, spent>>

ClaimNothing ==
    /\ Goto("claim", "idle")
    /\ \/ (\A i \in JobIds : jobs[i].status # "queued") /\ UNCHANGED spent
       \/ ContextOperationFails
    /\ UNCHANGED <<storeVars, file, processVars, ret, todo, cur, err, saved, historyVars>>

(* The select of an idle worker: ctx.Done, tick.C, poll.C or wake.         *)
Idle ==
    /\ pc = "idle"
    /\ \/ cancelled /\ pc' = "done" /\ UNCHANGED <<tick, wake>>
       \/ tick /\ tick' = FALSE /\ pc' = "list" /\ UNCHANGED wake
       \/ pc' = "top" /\ UNCHANGED <<tick, wake>>
       \/ wake /\ wake' = FALSE /\ pc' = "top" /\ UNCHANGED tick
    /\ UNCHANGED <<storeVars, file, cfg, up, cancelled, ret, todo, cur, err, saved, historyVars, spent>>

----------------------------------------------------------------------------
(* Manager.reconcile *)

(* configurationDrift: the current version does not cover what the row     *)
(* asks for.                                                               *)
ConfigurationDrift(c) ==
    \E v \in DOMAIN versions : IsCurrentVersion(v, c) /\ versions[v].spec # cert[c].want

(* One atomic snapshot: between the three queries of List only Admit and   *)
(* Reconcile can intervene, and each then falls before or after all three  *)
(* as far as the values used are concerned.                                *)
List ==
    /\ Goto("list", "scan")
    /\ ~cancelled
    /\ todo' = {[cert |-> c, held |-> LatestJobInterrupted(c), drift |-> ConfigurationDrift(c)] :
                   c \in {n \in Names : cert[n].enabled}}
    /\ UNCHANGED <<storeVars, file, processVars, ret, cur, err, saved, historyVars, spent>>

ListFails ==
    /\ Return("list")
    /\ ContextOperationFails
    /\ UNCHANGED <<storeVars, file, processVars, todo, cur, err, saved, historyVars>>

Due(c) ==
    \/ ~HasVersion(c)
    \/ \E v \in DOMAIN versions : IsCurrentVersion(v, c) /\ versions[v].due

(* A plausible bug: a certificate without any version is not due.          *)
MutWantsIssuanceNotFirst(r) ==
    /\ ShouldAutomaticallyIssue(r.cert)
    /\ ~r.held
    /\ HasVersion(r.cert)
    /\ Due(r.cert) \/ r.drift

WantsIssuance(r) ==
    /\ ShouldAutomaticallyIssue(r.cert)
    /\ ~r.held
    /\ Due(r.cert) \/ r.drift

(* The loop body for the next certificate in name order.  An admission     *)
(* that is refused or fails is logged and the loop goes on.                *)
Scan ==
    /\ pc = "scan"
    /\ \E r \in todo :
         /\ \A q \in todo : r.cert <= q.cert
         /\ todo' = todo \ {r}
         /\ IF WantsIssuance(r)
            THEN \/ ~cancelled /\ Enqueue(r.cert, "scheduled") /\ UNCHANGED spent
                 \/ ~Admissible(r.cert) /\ UNCHANGED <<storeVars, wake, spent>>
                 \/ ContextOperationFails /\ UNCHANGED <<storeVars, wake>>
            ELSE UNCHANGED <<storeVars, wake, spent>>
    /\ UNCHANGED <<file, cfg, up, cancelled, tick, pc, ret, cur, err, saved, historyVars>>

ScanDone ==
    /\ Return("scan")
    /\ todo = {}
    /\ UNCHANGED <<storeVars, file, processVars, todo, cur, err, saved, historyVars, spent>>

----------------------------------------------------------------------------
(* Manager.issue for the claimed job cur *)

CurCert == jobs[cur].cert

(* Every early return of issue runs the deferred function with an error.   *)
Fail(from) == Goto(from, "finish") /\ err' = "plain"

(* A plausible bug: a claimed job is trusted, as it was valid on admission.*)
MutBeginUnchecked ==
    /\ Goto("begin", "obtain")
    /\ ~cancelled
    /\ UNCHANGED <<storeVars, file, processVars, ret, todo, cur, err, saved, historyVars, spent>>

(* validateIssuance and Certificates.Get.                                  *)
Begin ==
    /\ Goto("begin", "obtain")
    /\ Configured(CurCert)
    /\ cert[CurCert].enabled
    /\ ~cancelled
    /\ UNCHANGED <<storeVars, file, processVars, ret, todo, cur, err, saved, historyVars, spent>>

BeginFails ==
    /\ Fail("begin")
    /\ \/ ~(Configured(CurCert) /\ cert[CurCert].enabled) /\ UNCHANGED spent
       \/ ContextOperationFails
    /\ UNCHANGED <<storeVars, file, processVars, ret, todo, cur, saved, historyVars>>

(* obtain fails before the order: account, client or DNS provider.         *)
ObtainFails ==
    /\ Fail("obtain")
    /\ UNCHANGED <<storeVars, file, processVars, ret, todo, cur, saved, historyVars, spent>>

(* From here on the CA may have issued, whatever obtain returns.           *)
PlaceOrder ==
    /\ Goto("obtain", "ordered")
    /\ orders' = Append(orders, cur)
    /\ UNCHANGED <<storeVars, file, processVars, ret, todo, cur, err, saved, cut, lost, events, spent>>

CutIfCancelled == cut' = IF cancelled THEN cut \cup {cur} ELSE cut

OrderFails ==
    /\ Fail("ordered")
    /\ CutIfCancelled
    /\ UNCHANGED <<storeVars, file, processVars, ret, todo, cur, saved, orders, lost, events, spent>>

OrderSucceeds ==
    /\ Goto("ordered", "save")
    /\ saved' = {}
    /\ UNCHANGED <<storeVars, file, processVars, ret, todo, cur, err, historyVars, spent>>

(* save ranges over a map: the order of the files is arbitrary.  Each is   *)
(* written to a temporary file, synced and renamed.                        *)
SaveFile(f) ==
    /\ pc = "save"
    /\ f \notin saved
    /\ saved' = saved \cup {f}
    /\ UNCHANGED <<storeVars, file, processVars, pc, ret, todo, cur, err, historyVars, spent>>

(* A plausible bug: the version row is added before the last file.         *)
MutSaveDoneEarly ==
    /\ Goto("save", "publish")
    /\ saved # {}
    /\ UNCHANGED <<storeVars, file, processVars, ret, todo, cur, err, saved, historyVars, spent>>

(* metadata.json is written last; nothing reads it back.                   *)
SaveDone ==
    /\ Goto("save", "publish")
    /\ saved = ArtifactFiles
    /\ UNCHANGED <<storeVars, file, processVars, ret, todo, cur, err, saved, historyVars, spent>>

(* save does not take the context; only a file or encoding error stops it. *)
SaveFails ==
    /\ Fail("save")
    /\ Spend("fault")
    /\ UNCHANGED <<storeVars, file, processVars, ret, todo, cur, saved, historyVars>>

(* AddVersion, for the definition of the loaded configuration; the audit   *)
(* record that follows is best effort and touches only the audit table.    *)
Publish ==
    /\ Goto("publish", "finish")
    /\ ~cancelled
    /\ AddVersion(CurCert, cfg[CurCert].want, saved, cur)
    /\ UNCHANGED <<file, processVars, ret, todo, cur, err, saved, historyVars, spent>>

PublishFails ==
    /\ Fail("publish")
    /\ \/ ~cert[CurCert].enabled /\ UNCHANGED spent
       \/ ContextOperationFails
    /\ CutIfCancelled
    /\ UNCHANGED <<storeVars, file, processVars, ret, todo, cur, saved, orders, lost, events>>

(* A plausible bug: an issuance cut short by the shutdown is an ordinary   *)
(* failure.                                                                *)
MutFinalError == err

(* ctx.Err() is read when issue returns, not when the error arose.         *)
FinalError == IF cancelled /\ err # "none" THEN "interrupted" ELSE err

(* Finish uses a background context: only a database error stops it.       *)
FinishJob ==
    /\ Goto("finish", "announce")
    /\ Finish(cur, FinalError)
    /\ err' = FinalError
    /\ UNCHANGED <<file, processVars, ret, todo, cur, saved, historyVars, spent>>

(* A plausible bug: the error of Finish is logged and not joined to result.*)
MutFinishFails ==
    /\ Goto("finish", "announce")
    /\ Spend("fault")
    /\ lost' = lost \cup {cur}
    /\ UNCHANGED <<storeVars, file, processVars, ret, todo, cur, err, saved, orders, cut, events>>

(* The error of Finish is joined to result; the row stays "running".       *)
FinishFails ==
    /\ Goto("finish", "announce")
    /\ Spend("fault")
    /\ lost' = lost \cup {cur}
    /\ err' = IF FinalError = "none" THEN "plain" ELSE FinalError
    /\ UNCHANGED <<storeVars, file, processVars, ret, todo, cur, saved, orders, cut, events>>

(* fireHooks and notifyIssuance start goroutines nobody waits for.         *)
Announce ==
    /\ Goto("announce", "top")
    /\ events' = events \cup {[job |-> cur, event |-> IF err = "none" THEN "issued" ELSE "failed"]}
    /\ cur' = 0 /\ err' = "none" /\ saved' = {}
    /\ UNCHANGED <<storeVars, file, processVars, ret, todo, orders, cut, lost, spent>>

----------------------------------------------------------------------------

Worker ==
    \/ Recover \/ RecoverStops
    \/ Top \/ ClaimJob \/ ClaimNothing \/ Idle
    \/ List \/ ListFails \/ Scan \/ ScanDone
    \/ Begin \/ BeginFails
    \/ ObtainFails \/ PlaceOrder \/ OrderFails \/ OrderSucceeds
    \/ (\E f \in ArtifactFiles : SaveFile(f)) \/ SaveDone \/ SaveFails
    \/ Publish \/ PublishFails
    \/ FinishJob \/ FinishFails \/ Announce

Environment ==
    \/ EditConfig \/ CommandLine
    \/ Start \/ Cancel \/ Exit \/ Crash
    \/ \E c \in Names : Renew(c) \/ BecomeDue(c)
    \/ Tick

Next == Worker \/ Environment

Spec == Init /\ [][Next]_vars

(* The worker goroutine is scheduled, every call it makes returns (ACME    *)
(* and DNS calls have timeouts), a stopped or killed server is started     *)
(* again (restart: unless-stopped), and a cancelled one returns once its   *)
(* worker did.  Nothing is assumed of requests, ticks, edits or faults.    *)
Fairness == WF_vars(Worker) /\ WF_vars(Start) /\ WF_vars(Exit)

FairSpec == Spec /\ Fairness

----------------------------------------------------------------------------
(* Properties *)

(* The worker issues only for a job it has claimed: from Claim to Finish   *)
(* the row of cur says "running", whatever the handlers do meanwhile.      *)
WorkerHoldsJob ==
    /\ pc \in IssuePCs => cur \in JobIds /\ jobs[cur].status = "running"
    /\ pc = "announce" => cur \in JobIds /\ (jobs[cur].status = "running" => cur \in lost)
    /\ pc \notin IssuePCs \cup {"announce"} => cur = 0
    /\ up <=> pc # "off"

(* Admission returns the pending job of a certificate instead of a second  *)
(* one, whoever asks: handlers, scheduler, and both while recovering.      *)
OnePendingPerCertificate ==
    \A i, k \in JobIds : Pending(i) /\ Pending(k) /\ jobs[i].cert = jobs[k].cert => i = k

(* The shared queue never holds more than MaxPendingIssuanceJobs queued or *)
(* running jobs.                                                           *)
QueueBounded == Cardinality(PendingJobs) <= MaxPendingIssuanceJobs

(* Both rules of Admit hold of the table whatever is admitted, recovered   *)
(* and claimed around it, by this process and by those before.             *)
AdmissionIsGuarded == OnePendingPerCertificate /\ QueueBounded

(* Jobs leave the queue in admission order: when one has been claimed, no  *)
(* earlier one is still queued, across kills and restarts.                 *)
NoOvertaking ==
    \A i, k \in JobIds : i < k /\ jobs[k].status # "queued" => jobs[i].status # "queued"

(* ACME orders are placed in admission order and at most once per job: a   *)
(* kill or a restart never makes the server repeat one.                    *)
OrdersFollowAdmission ==
    \A x, y \in DOMAIN orders : x < y => orders[x] < orders[y]

(* Once a started server has recovered, a row says "running" only for the  *)
(* job the worker holds, or for one whose Finish transaction failed.       *)
RunningJobIsHeld ==
    pc \notin {"off", "recover", "done"} =>
        \A i \in JobIds : jobs[i].status = "running" => i = cur \/ i \in lost

(* runServer waits for the worker before it returns, so a graceful stop    *)
(* leaves no job "running" behind for the next start to fail: only one     *)
(* whose Finish failed, or whose order a stop or a kill cut off.           *)
GracefulStopLeavesNothingRunning ==
    [][up /\ ~up' /\ spent' = spent =>
         \A i \in JobIds : jobs[i].status = "running" => i \in lost \cup cut]_vars

(* A job reported as succeeded has put a version of its own certificate    *)
(* into the table, and no version row, and so no download, ever refers to  *)
(* a directory with a missing file, whatever was interrupted before.       *)
SucceededJobIsPublished ==
    /\ \A i \in JobIds : jobs[i].status = "succeeded" =>
         \E v \in DOMAIN versions : versions[v].job = i /\ versions[v].cert = jobs[i].cert
    /\ \A v \in DOMAIN versions : versions[v].files = ArtifactFiles

(* status on the certificate row tells the last outcome the worker         *)
(* recorded: "valid" is never shown after a recorded failure newer than    *)
(* the current version, nor "error" once a newer version is published.     *)
StatusTellsLastOutcome ==
    \A c \in Names :
        /\ cert[c].status = "valid" =>
             \E v \in DOMAIN versions :
                /\ IsCurrentVersion(v, c)
                /\ \A i \in JobIds : jobs[i].cert = c /\ i > versions[v].job =>
                      jobs[i].error # "plain"
        /\ cert[c].status = "error" =>
             \E i \in JobIds :
                /\ jobs[i].cert = c /\ jobs[i].status = "failed"
                /\ \A v \in DOMAIN versions : versions[v].cert = c => versions[v].job < i

(* Hooks and notifications agree with the job row: "issued" is announced   *)
(* only for a job recorded as succeeded, "failed" never for one.           *)
EventsMatchRecord ==
    \A e \in events :
        IF e.event = "issued" THEN jobs[e.job].status = "succeeded"
        ELSE jobs[e.job].status = "failed" \/ e.job \in lost

(* An order that a stop or a kill cut off may have been issued by the CA:  *)
(* the scheduler never queues that certificate again by itself.            *)
NoAutomaticRetry ==
    [][\A i \in JobIds' \ JobIds : jobs'[i].kind = "scheduled" =>
         \A k \in cut : jobs[k].cert = jobs'[i].cert =>
            \E m \in JobIds : k < m /\ jobs[m].cert = jobs[k].cert]_vars

(* A job that was admitted before its certificate was disabled or removed  *)
(* and the server restarted places no order: issuance of every kind is     *)
(* blocked by then.  Only a command that reconciles a newer config.yaml    *)
(* under the running server can come after the worker's check.             *)
DisabledCertificateIsNotIssued ==
    [][\A x \in DOMAIN orders' \ DOMAIN orders :
         LET c == jobs[orders'[x]].cert
         IN  Configured(c) /\ (cert[c].enabled \/ spent["cli"] > 0)]_vars

(* A replacement that the scheduler queued for drift alone, for a version  *)
(* that is not due, covers what the database row asks for, so that the     *)
(* drift is gone once it is published.                                     *)
ReplacementMatchesConfiguration ==
    [][\A c \in Names, i \in JobIds :
         /\ jobs[i].cert = c /\ jobs[i].kind = "scheduled"
         /\ ~Due(c) /\ ConfigurationDrift(c)
         /\ \E v \in DOMAIN versions' \ DOMAIN versions : versions'[v].job = i
         => ~ConfigurationDrift(c)']_vars

(* A server under which no command reconciled another file publishes only  *)
(* what the row asks for: edits and restarts in any order never publish an *)
(* outdated version, so that drift is repaired.                            *)
RestartedServerRepairsDrift ==
    [][\A v \in DOMAIN versions' \ DOMAIN versions :
         spent["cli"] = 0 => versions'[v].spec = cert'[versions'[v].cert].want]_vars

(* The jobs that can ever be admitted: one per request, and one per        *)
(* certificate and pass of the scheduler.                                  *)
JobLimit ==
    Bound["request"] +
        Cardinality(Names) * (1 + Bound["tick"] + Bound["stop"] + Bound["crash"])

(* Every admitted job is eventually finished, through stops, kills and     *)
(* restarts, unless its Finish transaction failed.                         *)
EveryJobFinishes ==
    \A i \in 1..JobLimit : (i \in PendingJobs) ~> (i \notin PendingJobs \/ i \in lost)

(* SIGTERM leads to an orderly exit, whatever the worker is doing.         *)
StopCompletes == cancelled ~> ~up

(* A certificate with automatic issuance that never had a job gets one     *)
(* without any request, as long as the server is left running, no database *)
(* operation fails and the queue has room for every certificate.           *)
FirstIssuanceStarts ==
    \A c \in Names :
        (up /\ ShouldAutomaticallyIssue(c) /\ (\A i \in JobIds : jobs[i].cert # c))
            ~> ((\E i \in JobIds : jobs[i].cert = c) \/ ~up \/ spent["fault"] > 0)

(* The job table as its users see it.                                      *)
Queue == INSTANCE JobQueue WITH
            ledger <- [i \in DOMAIN jobs |->
                         [cert |-> jobs[i].cert, status |-> jobs[i].status]]

(* Every step of the service is a step of the promised queue or none: no   *)
(* job is dropped, repeated, taken out of order or changed once finished.  *)
ImplementsJobQueue == Queue!Spec

=============================================================================
