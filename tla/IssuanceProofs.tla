--------------------------- MODULE IssuanceProofs ---------------------------
(***************************************************************************)
(* Theorems about module Issuance, for every set of names, every limit and *)
(* every budget of environment events.                                     *)
(***************************************************************************)
EXTENDS Issuance, FiniteSetTheorems, TLAPS

(* Reconcile keeps the types of the tables.                                *)
LEMMA ReconcileType ==
    ASSUME StoreTypeOK, NEW f \in [Names -> Definitions], Reconcile(f)
    PROVE  StoreTypeOK'
<1>1. cert' \in [Names -> Rows]
    BY DEF StoreTypeOK, Reconcile, Definitions, Modes, Rows
<1> QED
    BY <1>1 DEF StoreTypeOK, Reconcile

(* AddVersion keeps the types of the tables.                               *)
LEMMA AddVersionType ==
    ASSUME StoreTypeOK, NEW c \in Names, NEW s \in Specs, NEW fs \in SUBSET ArtifactFiles,
           NEW i \in Nat, AddVersion(c, s, fs, i)
    PROVE  StoreTypeOK'
<1>1. [cert |-> c, spec |-> s, files |-> fs, due |-> FALSE, job |-> i] \in Versions
    BY DEF Versions
<1>2. versions' \in Seq(Versions)
    BY <1>1 DEF StoreTypeOK, AddVersion
<1>3. cert' \in [Names -> Rows]
    BY DEF StoreTypeOK, AddVersion, Rows
<1> QED
    BY <1>2, <1>3 DEF StoreTypeOK, AddVersion

(* Admission keeps the types of the tables.                                *)
LEMMA AdmitType ==
    ASSUME StoreTypeOK, NEW c \in Names, NEW k \in IssueKinds, Admit(c, k)
    PROVE  StoreTypeOK'
<1>1. NewJob(c, k) \in Jobs
    BY DEF NewJob, Jobs
<1>2. jobs' \in Seq(Jobs)
    BY <1>1 DEF StoreTypeOK, Admit
<1> QED
    BY <1>2 DEF StoreTypeOK, Admit

(* Claim keeps the types of the tables.                                    *)
LEMMA ClaimType ==
    ASSUME StoreTypeOK, NEW i \in JobIds, Claim(i)
    PROVE  StoreTypeOK' /\ Len(jobs') = Len(jobs)
<1>0. jobs[i] \in Jobs
    BY DEF StoreTypeOK, JobIds
<1>1. [jobs[i] EXCEPT !.status = "running"] \in Jobs
    BY <1>0 DEF Jobs
<1>2. jobs' = [jobs EXCEPT ![i] = [jobs[i] EXCEPT !.status = "running"]]
    BY DEF Claim
<1>3. jobs' \in Seq(Jobs) /\ Len(jobs') = Len(jobs)
    BY <1>1, <1>2 DEF StoreTypeOK, JobIds
<1> QED
    BY <1>3 DEF StoreTypeOK, Claim

(* RecoverInterrupted keeps the types of the tables.                       *)
LEMMA RecoverType ==
    ASSUME StoreTypeOK, RecoverInterrupted
    PROVE  StoreTypeOK' /\ Len(jobs') = Len(jobs)
<1>1. DOMAIN jobs = 1..Len(jobs) /\ Len(jobs) \in Nat
    BY DEF StoreTypeOK
<1>2. \A i \in DOMAIN jobs : jobs[i] \in Jobs
    BY DEF StoreTypeOK
<1>3. \A i \in DOMAIN jobs' : jobs'[i] \in Jobs
    BY <1>2 DEF RecoverInterrupted, Jobs
<1>4. jobs' \in [1..Len(jobs) -> Jobs]
    BY <1>1, <1>3 DEF RecoverInterrupted
<1>5. jobs' \in Seq(Jobs) /\ Len(jobs') = Len(jobs)
    BY <1>1, <1>4
<1> QED
    BY <1>5 DEF StoreTypeOK, RecoverInterrupted

(* Finish keeps the types of the tables.                                   *)
LEMMA FinishType ==
    ASSUME StoreTypeOK, NEW i \in JobIds, NEW e \in {"none", "plain", "interrupted"}, Finish(i, e)
    PROVE  StoreTypeOK' /\ Len(jobs') = Len(jobs)
<1> DEFINE row == [jobs[i] EXCEPT !.status = IF e = "none" THEN "succeeded" ELSE "failed",
                                  !.error = e]
<1>0. jobs[i] \in Jobs
    BY DEF StoreTypeOK, JobIds
<1>1. row \in Jobs
    BY <1>0 DEF Jobs
<1>2. jobs' = [jobs EXCEPT ![i] = row]
    BY DEF Finish
<1>3. jobs' \in Seq(Jobs) /\ Len(jobs') = Len(jobs)
    BY <1>1, <1>2 DEF StoreTypeOK, JobIds
<1>4. cert' \in [Names -> Rows]
  <2>1. jobs[i].cert \in Names
    BY <1>0 DEF Jobs
  <2>2. [cert[jobs[i].cert] EXCEPT !.status = "error"] \in Rows
    BY <2>1 DEF StoreTypeOK, Rows
  <2>3. cert' = cert \/ cert' = [cert EXCEPT ![jobs[i].cert] =
                                    [cert[jobs[i].cert] EXCEPT !.status = "error"]]
    BY DEF Finish
  <2> QED
    BY <2>1, <2>2, <2>3 DEF StoreTypeOK
<1> QED
    BY <1>3, <1>4 DEF StoreTypeOK, Finish

----------------------------------------------------------------------------
(* Every step is one transaction of the store, the passing of time, or     *)
(* leaves the store alone.                                                 *)

StoreStep ==
    \/ UNCHANGED storeVars
    \/ Reconcile(file)
    \/ \E c \in Names, k \in IssueKinds : Admit(c, k)
    \/ \E i \in JobIds : Claim(i) /\ pc' = "begin" /\ cur' = i
    \/ RecoverInterrupted /\ pc = "recover"
    \/ pc = "publish" /\ AddVersion(CurCert, cfg[CurCert].want, saved, cur)
    \/ pc = "finish" /\ Finish(cur, FinalError) /\ pc' = "announce"
    \/ \E v \in DOMAIN versions :
          versions' = [versions EXCEPT ![v].due = TRUE] /\ UNCHANGED <<cert, jobs>>

(* Each action of the service runs at most one transaction of the store.   *)
LEMMA EveryStepIsAStoreStep ==
    ASSUME TypeOK, [Next]_vars
    PROVE  StoreStep
<1> USE DEF StoreStep
<1>1. CASE UNCHANGED vars
    BY <1>1 DEF vars, storeVars
<1>2. CASE CommandLine
    BY <1>2 DEF CommandLine
<1>3. CASE Start
    BY <1>3 DEF Start
<1>4. ASSUME NEW c \in Names, Renew(c) PROVE StoreStep
    BY <1>4 DEF Renew, Enqueue, IssueKinds
<1>5. ASSUME NEW c \in Names, BecomeDue(c) PROVE StoreStep
    BY <1>5 DEF BecomeDue
<1>6. CASE Recover
    BY <1>6 DEF Recover, Goto
<1>7. CASE ClaimJob
    BY <1>7 DEF ClaimJob, Goto
<1>8. CASE Scan
    BY <1>8 DEF Scan, Enqueue, IssueKinds, TypeOK
<1>9. CASE Publish
    BY <1>9 DEF Publish, Goto
<1>10. CASE FinishJob
    BY <1>10 DEF FinishJob, Goto
<1>11. CASE EditConfig \/ Cancel \/ Exit \/ Crash \/ Tick
    BY <1>11 DEF EditConfig, Cancel, Exit, Crash, Tick, storeVars
<1>12. CASE RecoverStops \/ Top \/ ClaimNothing \/ Idle \/ List \/ ListFails \/ ScanDone
    BY <1>12 DEF RecoverStops, Top, ClaimNothing, Idle, List, ListFails, ScanDone, storeVars
<1>13. CASE Begin \/ BeginFails \/ ObtainFails \/ PlaceOrder \/ OrderFails \/ OrderSucceeds
    BY <1>13 DEF Begin, BeginFails, ObtainFails, PlaceOrder, OrderFails, OrderSucceeds, storeVars
<1>14. CASE (\E f \in ArtifactFiles : SaveFile(f)) \/ SaveDone \/ SaveFails \/ PublishFails
    BY <1>14 DEF SaveFile, SaveDone, SaveFails, PublishFails, storeVars
<1>15. CASE FinishFails \/ Announce
    BY <1>15 DEF FinishFails, Announce, storeVars
<1> QED
    BY <1>1, <1>2, <1>3, <1>4, <1>5, <1>6, <1>7, <1>8, <1>9, <1>10, <1>11, <1>12, <1>13,
       <1>14, <1>15 DEF Next, Worker, Environment

----------------------------------------------------------------------------
(* Types *)

(* Every transaction of the store keeps the types of its tables.           *)
LEMMA StoreStepType ==
    ASSUME TypeOK, WorkerHoldsJob, StoreStep
    PROVE  StoreTypeOK'
<1> USE DEF TypeOK
<1>1. CASE UNCHANGED storeVars
    BY <1>1 DEF storeVars, StoreTypeOK
<1>2. CASE Reconcile(file)
    BY <1>2, ReconcileType
<1>3. ASSUME NEW c \in Names, NEW k \in IssueKinds, Admit(c, k) PROVE StoreTypeOK'
    BY <1>3, AdmitType
<1>4. ASSUME NEW i \in JobIds, Claim(i) PROVE StoreTypeOK'
    BY <1>4, ClaimType
<1>5. CASE RecoverInterrupted
    BY <1>5, RecoverType
<1>6. CASE pc = "publish" /\ AddVersion(CurCert, cfg[CurCert].want, saved, cur)
  <2>1. jobs[cur] \in Jobs
    BY <1>6 DEF WorkerHoldsJob, StoreTypeOK, JobIds, IssuePCs
  <2>2. CurCert \in Names
    BY <2>1 DEF CurCert, Jobs
  <2>3. cfg[CurCert].want \in Specs
    BY <2>2 DEF Definitions
  <2> QED
    BY <1>6, <2>2, <2>3, AddVersionType
<1>7. CASE pc = "finish" /\ Finish(cur, FinalError)
  <2>1. cur \in JobIds /\ FinalError \in {"none", "plain", "interrupted"}
    BY <1>7 DEF WorkerHoldsJob, FinalError, IssuePCs
  <2> QED
    BY <1>7, <2>1, FinishType
<1>8. ASSUME NEW v \in DOMAIN versions, versions' = [versions EXCEPT ![v].due = TRUE],
             UNCHANGED <<cert, jobs>>
      PROVE  StoreTypeOK'
  <2>1. versions[v] \in Versions
    BY DEF StoreTypeOK
  <2>2. [versions[v] EXCEPT !.due = TRUE] \in Versions
    BY <2>1 DEF Versions
  <2>3. versions' = [versions EXCEPT ![v] = [versions[v] EXCEPT !.due = TRUE]]
    BY <1>8
  <2>4. versions' \in Seq(Versions)
    BY <2>2, <2>3 DEF StoreTypeOK
  <2> QED
    BY <1>8, <2>4 DEF StoreTypeOK
<1> QED
    BY <1>1, <1>2, <1>3, <1>4, <1>5, <1>6, <1>7, <1>8 DEF StoreStep

(* A bounded event keeps the type of the event counters.                   *)
LEMMA SpendType ==
    ASSUME TypeOK, NEW e \in BoundedEvents, Spend(e)
    PROVE  spent' \in [BoundedEvents -> Nat]
BY DEF TypeOK, Spend

(* Every step of the service keeps TypeOK.                                 *)
LEMMA TypeStep ==
    ASSUME TypeOK, WorkerHoldsJob, [Next]_vars
    PROVE  TypeOK'
<1>1. StoreTypeOK'
    BY EveryStepIsAStoreStep, StoreStepType
<1> USE DEF Next, Worker, Environment, EditConfig, CommandLine, Start, Cancel, Exit, Crash,
            Renew, BecomeDue, Tick, Recover, RecoverStops, Top, ClaimJob, ClaimNothing, Idle,
            List, ListFails, Scan, ScanDone, Begin, BeginFails, ObtainFails, PlaceOrder,
            OrderFails, OrderSucceeds, SaveFile, SaveDone, SaveFails, Publish, PublishFails,
            FinishJob, FinishFails, Announce, vars, processVars, workerVars, historyVars
<1>2. spent' \in [BoundedEvents -> Nat]
  <2>1. spent' = spent \/ \E e \in BoundedEvents : Spend(e)
    BY DEF BoundedEvents, ContextOperationFails
  <2> QED
    BY <2>1, SpendType DEF TypeOK
<1>3. file' \in [Names -> Definitions] /\ cfg' \in [Names -> Definitions]
    BY FilesAssumption DEF TypeOK
<1>4. up' \in BOOLEAN /\ cancelled' \in BOOLEAN
    BY DEF TypeOK, ProcessGone
<1>5. wake' \in BOOLEAN /\ tick' \in BOOLEAN
    BY DEF TypeOK, ProcessGone, Enqueue
<1>6. pc' \in WorkerPCs /\ ret' \in {"top", "claim"}
    BY DEF TypeOK, WorkerPCs, ProcessGone, Goto, Return, Fail
<1>7. todo' \subseteq [cert : Names, held : BOOLEAN, drift : BOOLEAN]
  <2>1. CASE List
    <3>1. \A c : LatestJobInterrupted(c) \in BOOLEAN /\ ConfigurationDrift(c) \in BOOLEAN
      BY DEF LatestJobInterrupted, ConfigurationDrift
    <3> QED
      BY <2>1, <3>1
  <2>2. CASE ~List
    <3>1. todo' \subseteq todo
      BY <2>2 DEF ProcessGone
    <3> QED
      BY <3>1 DEF TypeOK
  <2> QED
    BY <2>1, <2>2
<1>8. cur' \in Nat /\ err' \in {"none", "plain", "interrupted"}
    BY DEF TypeOK, ProcessGone, Fail, FinalError, JobIds, StoreTypeOK
<1>9. saved' \subseteq ArtifactFiles
    BY DEF TypeOK, ProcessGone
<1>10. orders' \in Seq(Nat)
  <2>1. orders' = orders \/ orders' = Append(orders, cur)
    OBVIOUS
  <2>2. orders \in Seq(Nat) /\ cur \in Nat
    BY DEF TypeOK
  <2> QED
    BY ONLY <2>1, <2>2
<1>11. cut' \subseteq Nat /\ lost' \subseteq Nat
    BY DEF TypeOK, CutIfCancelled, JobIds, StoreTypeOK
<1>12. events' \subseteq [job : Nat, event : {"issued", "failed"}]
    BY DEF TypeOK
<1> QED
    BY <1>1, <1>2, <1>3, <1>4, <1>5, <1>6, <1>7, <1>8, <1>9, <1>10, <1>11, <1>12 DEF TypeOK

----------------------------------------------------------------------------
(* Rows of the job table *)

(* A position of the job table holds a well-typed row.                     *)
LEMMA RowType ==
    ASSUME TypeOK, NEW i \in JobIds
    PROVE  /\ jobs[i] \in Jobs
           /\ jobs[i].status \in {"queued", "running", "succeeded", "failed"}
<1>1. jobs[i] \in Jobs
    BY DEF TypeOK, StoreTypeOK, JobIds
<1> QED
    BY <1>1 DEF Jobs

(* What one step may do to a row: it keeps its certificate; it leaves      *)
(* "queued" only when the worker claims it, and "running" only by recovery *)
(* or by the worker's own Finish; a finished row stays as it is.           *)
RowStep(i) ==
    /\ i \in JobIds'
    /\ jobs'[i].cert = jobs[i].cert
    /\ jobs[i].status = "queued" =>
         \/ jobs'[i] = jobs[i]
         \/ jobs'[i].status = "running" /\ NextQueued(i) /\ pc' = "begin" /\ cur' = i
    /\ jobs[i].status = "running" =>
         \/ jobs'[i] = jobs[i]
         \/ jobs'[i].status = "failed" /\ pc = "recover"
         \/ jobs'[i].status \in {"succeeded", "failed"} /\ pc = "finish" /\ i = cur
            /\ pc' = "announce"
    /\ jobs[i].status \in {"succeeded", "failed"} => jobs'[i] = jobs[i]

(* No step removes a row, and each changes a row only along its life cycle. *)
LEMMA EveryStepIsARowStep ==
    ASSUME TypeOK, WorkerHoldsJob, StoreStep, NEW i \in JobIds
    PROVE  RowStep(i)
<1>0. i \in DOMAIN jobs /\ Len(jobs) \in Nat /\ jobs[i] \in Jobs /\ jobs \in Seq(Jobs)
    BY DEF TypeOK, StoreTypeOK, JobIds
<1>1. CASE jobs' = jobs
    BY <1>1 DEF RowStep, JobIds
<1>2. ASSUME NEW c \in Names, NEW k \in IssueKinds, Admit(c, k), jobs' # jobs PROVE RowStep(i)
  <2>1. jobs' = Append(jobs, NewJob(c, k))
    BY <1>2 DEF Admit
  <2>2. Len(jobs') = Len(jobs) + 1 /\ jobs'[i] = jobs[i]
    BY <1>0, <2>1 DEF JobIds
  <2> QED
    BY <1>0, <2>2 DEF RowStep, JobIds
<1>3. ASSUME NEW j \in JobIds, Claim(j), pc' = "begin", cur' = j PROVE RowStep(i)
  <2>1. Len(jobs') = Len(jobs)
    BY <1>3, ClaimType DEF TypeOK
  <2>2. CASE i = j
    <3>1. jobs'[i] = [jobs[i] EXCEPT !.status = "running"]
      BY <1>0, <1>3, <2>2 DEF Claim
    <3>2. jobs'[i].cert = jobs[i].cert /\ jobs'[i].status = "running"
      BY <1>0, <3>1 DEF Jobs
    <3>3. NextQueued(i) /\ jobs[i].status = "queued"
      BY <1>3, <2>2 DEF Claim, NextQueued
    <3> QED
      BY <1>3, <2>1, <2>2, <3>2, <3>3 DEF RowStep, JobIds
  <2>3. CASE i # j
    <3>1. jobs'[i] = jobs[i]
      BY <1>0, <1>3, <2>3 DEF Claim
    <3> QED
      BY <2>1, <3>1 DEF RowStep, JobIds
  <2> QED
    BY <2>2, <2>3
<1>4. CASE RecoverInterrupted /\ pc = "recover"
  <2>1. Len(jobs') = Len(jobs)
    BY <1>4, RecoverType DEF TypeOK
  <2>2. jobs'[i] = IF jobs[i].status = "running"
                   THEN [jobs[i] EXCEPT !.status = "failed", !.error = "interrupted"]
                   ELSE jobs[i]
    BY <1>0, <1>4 DEF RecoverInterrupted
  <2>3. jobs'[i].cert = jobs[i].cert
        /\ (jobs[i].status = "running" => jobs'[i].status = "failed")
        /\ (jobs[i].status # "running" => jobs'[i] = jobs[i])
    BY <1>0, <2>2 DEF Jobs
  <2> QED
    BY <1>4, <2>1, <2>3 DEF RowStep, JobIds
<1>5. CASE pc = "finish" /\ Finish(cur, FinalError) /\ pc' = "announce"
  <2>0. cur \in JobIds /\ jobs[cur].status = "running"
        /\ FinalError \in {"none", "plain", "interrupted"}
    BY <1>5 DEF WorkerHoldsJob, FinalError, TypeOK, IssuePCs
  <2>1. Len(jobs') = Len(jobs)
    BY <1>5, <2>0, FinishType DEF TypeOK
  <2>2. CASE i = cur
    <3>1. jobs'[i] = [jobs[i] EXCEPT !.status = IF FinalError = "none" THEN "succeeded"
                                                ELSE "failed",
                                     !.error = FinalError]
      BY <1>0, <1>5, <2>2 DEF Finish
    <3>2. jobs'[i].cert = jobs[i].cert /\ jobs'[i].status \in {"succeeded", "failed"}
      BY <1>0, <3>1 DEF Jobs
    <3> QED
      BY <1>5, <2>0, <2>1, <2>2, <3>2 DEF RowStep, JobIds
  <2>3. CASE i # cur
    <3>1. jobs'[i] = jobs[i]
      BY <1>0, <1>5, <2>3 DEF Finish
    <3> QED
      BY <2>1, <3>1 DEF RowStep, JobIds
  <2> QED
    BY <2>2, <2>3
<1> QED
    BY <1>1, <1>2, <1>3, <1>4, <1>5 DEF StoreStep, storeVars, Reconcile, AddVersion

(* A row that appears is queued, is the last one, and its certificate had  *)
(* no pending row.                                                         *)
LEMMA NewRow ==
    ASSUME TypeOK, WorkerHoldsJob, StoreStep, NEW i \in JobIds', i \notin JobIds
    PROVE  /\ jobs'[i].status = "queued"
           /\ \A k \in JobIds : k < i /\ jobs'[k] = jobs[k]
           /\ \A k \in JobIds : jobs[k].cert = jobs'[i].cert => ~Pending(k)
           /\ i = Len(jobs) + 1 /\ Len(jobs') = i
           /\ Cardinality(PendingJobs) < MaxPendingIssuanceJobs
<1>0. jobs \in Seq(Jobs) /\ Len(jobs) \in Nat /\ DOMAIN jobs = JobIds
    BY DEF TypeOK, StoreTypeOK, JobIds
<1>1. PICK c \in Names, k \in IssueKinds : Admit(c, k)
  <2>1. Len(jobs') # Len(jobs)
    BY DEF JobIds
  <2>2. jobs' # jobs
    BY <2>1
  <2>3. ASSUME NEW j \in JobIds, Claim(j) PROVE FALSE
    BY <2>1, <2>3, ClaimType DEF TypeOK
  <2>4. ~RecoverInterrupted
    BY <2>1, RecoverType DEF TypeOK
  <2>5. ~(pc = "finish" /\ Finish(cur, FinalError))
    <3>1. SUFFICES ASSUME pc = "finish", Finish(cur, FinalError) PROVE FALSE
      OBVIOUS
    <3>2. cur \in JobIds /\ FinalError \in {"none", "plain", "interrupted"}
      BY <3>1 DEF WorkerHoldsJob, FinalError, TypeOK, IssuePCs
    <3> QED
      BY <3>1, <3>2, <2>1, FinishType DEF TypeOK
  <2> QED
    BY <2>2, <2>3, <2>4, <2>5 DEF StoreStep, storeVars, Reconcile, AddVersion
<1>2. jobs' = Append(jobs, NewJob(c, k)) /\ ~HasPending(c)
      /\ Cardinality(PendingJobs) < MaxPendingIssuanceJobs
    BY <1>1 DEF Admit, Admissible, JobIds
<1>3. Len(jobs') = Len(jobs) + 1 /\ i = Len(jobs) + 1
    BY <1>0, <1>2 DEF JobIds
<1>4. jobs'[i] = NewJob(c, k)
    BY <1>0, <1>2, <1>3
<1>5. jobs'[i].status = "queued" /\ jobs'[i].cert = c
    BY <1>4 DEF NewJob
<1>6. \A m \in JobIds : m < i /\ jobs'[m] = jobs[m]
    BY <1>0, <1>2, <1>3 DEF JobIds
<1> QED
    BY <1>0, <1>2, <1>3, <1>5, <1>6 DEF HasPending

(* From Claim to Finish the worker keeps holding a running job.            *)
LEMMA HoldStep ==
    ASSUME TypeOK, WorkerHoldsJob, [Next]_vars
    PROVE  WorkerHoldsJob'
<1>0. up' <=> pc' # "off"
    BY DEF Next, Worker, Environment, EditConfig, CommandLine, Start, Cancel, Exit, Crash,
           Renew, BecomeDue, Tick, Recover, RecoverStops, Top, ClaimJob, ClaimNothing, Idle,
           List, ListFails, Scan, ScanDone, Begin, BeginFails, ObtainFails, PlaceOrder,
           OrderFails, OrderSucceeds, SaveFile, SaveDone, SaveFails, Publish, PublishFails,
           FinishJob, FinishFails, Announce, vars, processVars, workerVars, ProcessGone, Goto,
           Return, Fail, TypeOK, WorkerHoldsJob
<1>1. StoreStep
    BY EveryStepIsAStoreStep
<1>2. \/ pc' \in IssuePCs /\ pc \in IssuePCs /\ cur' = cur
      \/ pc' = "begin" /\ \E i \in JobIds : Claim(i) /\ cur' = i
      \/ FinishJob
      \/ FinishFails
      \/ pc' = "announce" /\ pc = "announce" /\ cur' = cur /\ lost' = lost
      \/ pc' \notin IssuePCs \cup {"announce"}
         /\ (cur' = 0 \/ (cur' = cur /\ pc \notin IssuePCs \cup {"announce"}))
    BY DEF Next, Worker, Environment, EditConfig, CommandLine, Start, Cancel, Exit, Crash,
           Renew, BecomeDue, Tick, Recover, RecoverStops, Top, ClaimJob, ClaimNothing, Idle,
           List, ListFails, Scan, ScanDone, Begin, BeginFails, ObtainFails, PlaceOrder,
           OrderFails, OrderSucceeds, SaveFile, SaveDone, SaveFails, Publish, PublishFails,
           Announce, vars, workerVars, historyVars, ProcessGone, Goto, Return, Fail, TypeOK,
           IssuePCs, WorkerHoldsJob
<1>3. CASE pc' \in IssuePCs /\ pc \in IssuePCs /\ cur' = cur
  <2>1. cur \in JobIds /\ jobs[cur].status = "running"
    BY <1>3 DEF WorkerHoldsJob
  <2>2. RowStep(cur)
    BY <1>1, <2>1, EveryStepIsARowStep
  <2>3. pc # "recover" /\ pc' # "announce"
    BY <1>3 DEF IssuePCs
  <2>4. cur \in JobIds' /\ jobs'[cur].status = "running"
    BY <2>1, <2>2, <2>3 DEF RowStep
  <2> QED
    BY <1>0, <1>3, <2>3, <2>4 DEF WorkerHoldsJob, JobIds
<1>4. ASSUME NEW i \in JobIds, Claim(i), cur' = i, pc' = "begin" PROVE WorkerHoldsJob'
  <2>1. Len(jobs') = Len(jobs) /\ jobs'[i].status = "running"
    <3>1. jobs[i] \in Jobs /\ i \in DOMAIN jobs
      BY RowType DEF TypeOK, StoreTypeOK, JobIds
    <3>2. jobs'[i] = [jobs[i] EXCEPT !.status = "running"]
      BY <1>4, <3>1 DEF Claim
    <3> QED
      BY <1>4, <3>1, <3>2, ClaimType DEF TypeOK, Jobs
  <2> QED
    BY <1>0, <1>4, <2>1 DEF WorkerHoldsJob, JobIds, IssuePCs
<1>5. CASE FinishJob
  <2>1. cur \in JobIds /\ FinalError \in {"none", "plain", "interrupted"}
    BY <1>5 DEF FinishJob, Goto, WorkerHoldsJob, IssuePCs, FinalError, TypeOK
  <2>2. jobs[cur] \in Jobs /\ cur \in DOMAIN jobs
    BY <2>1, RowType DEF TypeOK, StoreTypeOK, JobIds
  <2>3. jobs'[cur] = [jobs[cur] EXCEPT !.status = IF FinalError = "none" THEN "succeeded"
                                                  ELSE "failed",
                                       !.error = FinalError]
    BY <1>5, <2>2 DEF FinishJob, Finish
  <2>4. jobs'[cur].status # "running"
    BY <2>2, <2>3 DEF Jobs
  <2>5. Len(jobs') = Len(jobs)
    BY <1>5, <2>1, FinishType DEF FinishJob, TypeOK
  <2> QED
    BY <1>0, <1>5, <2>1, <2>4, <2>5 DEF FinishJob, Goto, WorkerHoldsJob, IssuePCs, JobIds
<1>6. CASE FinishFails
  <2>1. cur \in JobIds
    BY <1>6 DEF FinishFails, Goto, WorkerHoldsJob, IssuePCs
  <2> QED
    BY <1>0, <1>6, <2>1 DEF FinishFails, Goto, WorkerHoldsJob, IssuePCs, JobIds, storeVars
<1>7. CASE pc' = "announce" /\ pc = "announce" /\ cur' = cur /\ lost' = lost
  <2>1. cur \in JobIds /\ (jobs[cur].status = "running" => cur \in lost)
    BY <1>7 DEF WorkerHoldsJob
  <2>2. RowStep(cur) /\ jobs[cur].status \in {"queued", "running", "succeeded", "failed"}
    BY <1>1, <2>1, EveryStepIsARowStep, RowType
  <2>3. cur \in JobIds' /\ (jobs'[cur].status = "running" => cur \in lost)
    BY <1>7, <2>1, <2>2 DEF RowStep
  <2> QED
    BY <1>0, <1>7, <2>3 DEF WorkerHoldsJob, JobIds, IssuePCs
<1>8. CASE /\ pc' \notin IssuePCs \cup {"announce"}
           /\ cur' = 0 \/ (cur' = cur /\ pc \notin IssuePCs \cup {"announce"})
    BY <1>0, <1>8 DEF WorkerHoldsJob
<1> QED
    BY <1>2, <1>3, <1>4, <1>5, <1>6, <1>7, <1>8

----------------------------------------------------------------------------
(* The inductive invariant *)

(* A placed order belongs to a job that has left the queue; while the      *)
(* worker has not placed one for cur, every order is for an earlier job.   *)
OrdersAreBehind ==
    \A x \in DOMAIN orders :
        /\ orders[x] \in JobIds
        /\ jobs[orders[x]].status # "queued"
        /\ pc \in {"begin", "obtain"} => orders[x] < cur

IndInv ==
    /\ TypeOK
    /\ WorkerHoldsJob
    /\ OnePendingPerCertificate
    /\ NoOvertaking
    /\ RunningJobIsHeld
    /\ OrdersAreBehind
    /\ OrdersFollowAdmission

(* No step gives a certificate a second pending job.                       *)
LEMMA OnePendingStep ==
    ASSUME TypeOK, WorkerHoldsJob, OnePendingPerCertificate, StoreStep
    PROVE  OnePendingPerCertificate'
<1> SUFFICES ASSUME NEW i \in JobIds', NEW k \in JobIds', Pending(i)', Pending(k)',
                    jobs'[i].cert = jobs'[k].cert
             PROVE  i = k
    BY DEF OnePendingPerCertificate
<1>1. ASSUME NEW j \in JobIds, Pending(j)' PROVE Pending(j) /\ jobs'[j].cert = jobs[j].cert
  <2>1. RowStep(j)
    BY EveryStepIsARowStep
  <2>2. jobs[j].status \in {"queued", "running", "succeeded", "failed"}
    BY RowType
  <2> QED
    BY <1>1, <2>1, <2>2 DEF RowStep, Pending, PendingStatuses
<1>2. CASE i \in JobIds /\ k \in JobIds
    BY <1>1, <1>2 DEF OnePendingPerCertificate
<1>3. CASE i \notin JobIds /\ k \in JobIds
    BY <1>1, <1>3, NewRow
<1>4. CASE i \in JobIds /\ k \notin JobIds
    BY <1>1, <1>4, NewRow
<1>5. CASE i \notin JobIds /\ k \notin JobIds
    BY <1>5, NewRow
<1> QED
    BY <1>2, <1>3, <1>4, <1>5

(* No step claims a job while an earlier one is queued.                    *)
LEMMA NoOvertakingStep ==
    ASSUME TypeOK, WorkerHoldsJob, NoOvertaking, StoreStep
    PROVE  NoOvertaking'
<1> SUFFICES ASSUME NEW i \in JobIds', NEW k \in JobIds', i < k, jobs'[k].status # "queued",
                    jobs'[i].status = "queued"
             PROVE  FALSE
    BY DEF NoOvertaking
<1>1. k \in JobIds
    BY NewRow
<1>2. i \in JobIds
    BY <1>1 DEF JobIds, TypeOK, StoreTypeOK
<1>3. jobs[i].status = "queued"
  <2>1. RowStep(i)
    BY <1>2, EveryStepIsARowStep
  <2>2. jobs[i].status \in {"queued", "running", "succeeded", "failed"}
    BY <1>2, RowType
  <2> QED
    BY <2>1, <2>2 DEF RowStep
<1>4. jobs[k].status = "queued"
    BY <1>1, <1>2, <1>3 DEF NoOvertaking
<1>5. NextQueued(k)
    BY <1>1, <1>4, EveryStepIsARowStep DEF RowStep
<1>6. k <= i
    BY <1>2, <1>3, <1>5 DEF NextQueued, JobIds, TypeOK, StoreTypeOK
<1> QED
    BY <1>1, <1>2, <1>6 DEF JobIds

(* No step leaves a running row that the worker neither holds nor lost.    *)
LEMMA RunningStep ==
    ASSUME TypeOK, WorkerHoldsJob, RunningJobIsHeld, [Next]_vars
    PROVE  RunningJobIsHeld'
<1>0. StoreStep
    BY EveryStepIsAStoreStep
<1> SUFFICES ASSUME pc' \notin {"off", "recover", "done"}, NEW i \in JobIds',
                    jobs'[i].status = "running"
             PROVE  i = cur' \/ i \in lost'
    BY DEF RunningJobIsHeld
<1>1. i \in JobIds
    BY <1>0, NewRow
<1>2. RowStep(i)
    BY <1>0, <1>1, EveryStepIsARowStep
<1>3. CASE jobs[i].status # "running"
    BY <1>1, <1>2, <1>3, RowType DEF RowStep
<1>4. CASE jobs[i].status = "running"
  <2>1. CASE Recover
    <3>1. i \in DOMAIN jobs /\ jobs[i] \in Jobs
      BY <1>1, RowType DEF JobIds, TypeOK, StoreTypeOK
    <3>2. jobs'[i] = [jobs[i] EXCEPT !.status = "failed", !.error = "interrupted"]
      BY <1>4, <2>1, <3>1 DEF Recover, RecoverInterrupted
    <3> QED
      BY <3>1, <3>2 DEF Jobs
  <2>2. CASE ~Recover
    <3>1. pc \notin {"off", "recover", "done"}
      BY <2>2 DEF Next, Worker, Environment, EditConfig, CommandLine, Start, Cancel, Exit,
           Crash, Renew, BecomeDue, Tick, RecoverStops, Top, ClaimJob, ClaimNothing, Idle,
           List, ListFails, Scan, ScanDone, Begin, BeginFails, ObtainFails, PlaceOrder,
           OrderFails, OrderSucceeds, SaveFile, SaveDone, SaveFails, Publish, PublishFails,
           FinishJob, FinishFails, Announce, vars, workerVars, ProcessGone, Goto, Return, Fail
    <3>2. i = cur \/ i \in lost
      BY <1>1, <1>4, <3>1 DEF RunningJobIsHeld
    <3>3. lost \subseteq lost'
      BY DEF Next, Worker, Environment, EditConfig, CommandLine, Start, Cancel, Exit,
           Crash, Renew, BecomeDue, Tick, Recover, RecoverStops, Top, ClaimJob, ClaimNothing,
           Idle, List, ListFails, Scan, ScanDone, Begin, BeginFails, ObtainFails, PlaceOrder,
           OrderFails, OrderSucceeds, SaveFile, SaveDone, SaveFails, Publish, PublishFails,
           FinishJob, FinishFails, Announce, vars, historyVars
    <3>4. cur' = cur \/ cur = 0 \/ (pc = "announce")
      BY <2>2 DEF Next, Worker, Environment, EditConfig, CommandLine, Start, Cancel, Exit,
           Crash, Renew, BecomeDue, Tick, RecoverStops, Top, ClaimJob, ClaimNothing, Idle,
           List, ListFails, Scan, ScanDone, Begin, BeginFails, ObtainFails, PlaceOrder,
           OrderFails, OrderSucceeds, SaveFile, SaveDone, SaveFails, Publish, PublishFails,
           FinishJob, FinishFails, Announce, vars, workerVars, ProcessGone, Goto,
           WorkerHoldsJob, IssuePCs
    <3>5. i # 0
      BY <1>1 DEF JobIds
    <3>6. pc = "announce" /\ i = cur => i \in lost
      BY <1>4 DEF WorkerHoldsJob
    <3> QED
      BY <3>2, <3>3, <3>4, <3>5, <3>6
  <2> QED
    BY <2>1, <2>2
<1> QED
    BY <1>3, <1>4

(* An order is placed for a later job than all orders before it.           *)
LEMMA OrdersStep ==
    ASSUME TypeOK, WorkerHoldsJob, NoOvertaking, OrdersAreBehind, OrdersFollowAdmission,
           [Next]_vars
    PROVE  OrdersAreBehind' /\ OrdersFollowAdmission'
<1>0. StoreStep
    BY EveryStepIsAStoreStep
<1>1. \/ orders' = orders
      \/ orders' = Append(orders, cur) /\ pc = "obtain" /\ pc' = "ordered"
    BY DEF Next, Worker, Environment, EditConfig, CommandLine, Start, Cancel, Exit, Crash,
           Renew, BecomeDue, Tick, Recover, RecoverStops, Top, ClaimJob, ClaimNothing, Idle,
           List, ListFails, Scan, ScanDone, Begin, BeginFails, ObtainFails, PlaceOrder,
           OrderFails, OrderSucceeds, SaveFile, SaveDone, SaveFails, Publish, PublishFails,
           FinishJob, FinishFails, Announce, vars, historyVars, Goto
<1>2. pc' \in {"begin", "obtain"} =>
         \/ pc \in {"begin", "obtain"} /\ cur' = cur
         \/ \E i \in JobIds : NextQueued(i) /\ cur' = i
    BY DEF Next, Worker, Environment, EditConfig, CommandLine, Start, Cancel, Exit, Crash,
           Renew, BecomeDue, Tick, Recover, RecoverStops, Top, ClaimJob, ClaimNothing, Idle,
           List, ListFails, Scan, ScanDone, Begin, BeginFails, ObtainFails, PlaceOrder,
           OrderFails, OrderSucceeds, SaveFile, SaveDone, SaveFails, Publish, PublishFails,
           FinishJob, FinishFails, Announce, vars, workerVars, ProcessGone, Goto, Return, Fail,
           Claim, TypeOK
<1>3. ASSUME NEW k \in JobIds, jobs[k].status # "queued"
      PROVE  k \in JobIds' /\ jobs'[k].status # "queued"
    BY <1>0, <1>3, EveryStepIsARowStep, RowType DEF RowStep
<1>4. ASSUME NEW x \in DOMAIN orders
      PROVE  /\ orders[x] \in JobIds' /\ jobs'[orders[x]].status # "queued"
             /\ pc' \in {"begin", "obtain"} => orders[x] < cur'
  <2>1. orders[x] \in JobIds /\ jobs[orders[x]].status # "queued"
    BY <1>4 DEF OrdersAreBehind
  <2>2. ASSUME NEW i \in JobIds, NextQueued(i) PROVE orders[x] < i
    <3>1. jobs[i].status = "queued" /\ i # orders[x]
      BY <2>1, <2>2 DEF NextQueued
    <3>2. ~(i < orders[x])
      BY <2>1, <3>1 DEF NoOvertaking
    <3> QED
      BY <2>1, <3>1, <3>2 DEF JobIds
  <2> QED
    BY <1>2, <1>3, <1>4, <2>1, <2>2 DEF OrdersAreBehind
<1>5. orders \in Seq(Nat) /\ cur \in Nat /\ Len(orders) \in Nat /\ DOMAIN orders = 1..Len(orders)
    BY DEF TypeOK
<1>6. CASE orders' = orders
    BY <1>4, <1>6 DEF OrdersAreBehind, OrdersFollowAdmission
<1>7. CASE orders' = Append(orders, cur) /\ pc = "obtain" /\ pc' = "ordered"
  <2>1. cur \in JobIds /\ jobs[cur].status # "queued"
    BY <1>7 DEF WorkerHoldsJob, IssuePCs
  <2>2. DOMAIN orders' = 1..(Len(orders) + 1)
    BY <1>5, <1>7
  <2>3. \A x \in DOMAIN orders' :
          \/ x \in DOMAIN orders /\ orders'[x] = orders[x]
          \/ x = Len(orders) + 1 /\ orders'[x] = cur
    BY <1>5, <1>7, <2>2
  <2>4. \A x \in DOMAIN orders : orders[x] < cur
    BY <1>7 DEF OrdersAreBehind
  <2>5. OrdersAreBehind'
    BY <1>3, <1>4, <1>7, <2>1, <2>3 DEF OrdersAreBehind
  <2>6. OrdersFollowAdmission'
    BY <1>5, <2>2, <2>3, <2>4 DEF OrdersFollowAdmission
  <2> QED
    BY <2>5, <2>6
<1> QED
    BY <1>1, <1>6, <1>7

----------------------------------------------------------------------------
(* Theorems *)

(* The inductive invariant holds when the server is first started.         *)
LEMMA InitIndInv == Init => IndInv
<1> SUFFICES ASSUME Init PROVE IndInv
    OBVIOUS
<1>1. Len(jobs) = 0 /\ JobIds = {} /\ DOMAIN orders = {}
    BY DEF Init, StoreInit, JobIds
<1>2. StoreTypeOK
  <2>1. (CHOOSE s \in Specs : TRUE) \in Specs
    BY SpecsAssumption
  <2>2. cert \in [Names -> Rows]
    BY <2>1 DEF Init, StoreInit, Rows
  <2> QED
    BY <2>2 DEF Init, StoreInit, StoreTypeOK
<1>3. TypeOK
  <2>1. file \in [Names -> Definitions] /\ cfg \in [Names -> Definitions]
    BY FilesAssumption DEF Init
  <2>2. spent \in [BoundedEvents -> Nat] /\ orders \in Seq(Nat)
    BY DEF Init
  <2>3. /\ up \in BOOLEAN /\ cancelled \in BOOLEAN /\ wake \in BOOLEAN /\ tick \in BOOLEAN
        /\ pc \in WorkerPCs /\ ret \in {"top", "claim"}
        /\ err \in {"none", "plain", "interrupted"} /\ cur \in Nat
    BY DEF Init, WorkerPCs
  <2>4. todo = {} /\ saved = {} /\ cut = {} /\ lost = {} /\ events = {}
    BY DEF Init
  <2> QED
    BY <1>2, <2>1, <2>2, <2>3, <2>4 DEF TypeOK
<1> QED
    BY <1>1, <1>3 DEF Init, IndInv, WorkerHoldsJob, OnePendingPerCertificate, NoOvertaking,
       RunningJobIsHeld, OrdersAreBehind, OrdersFollowAdmission, IssuePCs

(* Every step of the service keeps the inductive invariant.                *)
LEMMA NextIndInv == IndInv /\ [Next]_vars => IndInv'
<1> SUFFICES ASSUME IndInv, [Next]_vars PROVE IndInv'
    OBVIOUS
<1>1. TypeOK /\ WorkerHoldsJob /\ OnePendingPerCertificate /\ NoOvertaking
      /\ RunningJobIsHeld /\ OrdersAreBehind /\ OrdersFollowAdmission
    BY DEF IndInv
<1>2. StoreStep
    BY <1>1, EveryStepIsAStoreStep
<1>3. TypeOK' /\ WorkerHoldsJob'
    BY <1>1, TypeStep, HoldStep
<1>4. OnePendingPerCertificate' /\ NoOvertaking'
    BY <1>1, <1>2, OnePendingStep, NoOvertakingStep
<1>5. RunningJobIsHeld' /\ OrdersAreBehind' /\ OrdersFollowAdmission'
    BY <1>1, RunningStep, OrdersStep
<1> QED
    BY <1>3, <1>4, <1>5 DEF IndInv

(* The inductive invariant holds in every reachable state.                 *)
LEMMA Invariance == Spec => []IndInv
BY InitIndInv, NextIndInv, PTL DEF Spec

(* The tables, the worker's locals and the history variables keep their    *)
(* types in every behaviour of the service.                                *)
THEOREM TypeCorrect == Spec => []TypeOK
<1>1. IndInv => TypeOK
    BY DEF IndInv
<1> QED
    BY <1>1, Invariance, PTL

(* Renewal requests and the scheduler never give a certificate a second    *)
(* pending job, for any number of certificates and any limit.              *)
THEOREM PendingJobIsUnique == Spec => []OnePendingPerCertificate
<1>1. IndInv => OnePendingPerCertificate
    BY DEF IndInv
<1> QED
    BY <1>1, Invariance, PTL

(* ACME orders are placed in admission order and at most once per job,     *)
(* through any number of stops, kills and restarts.                        *)
THEOREM OrdersInAdmissionOrder == Spec => []OrdersFollowAdmission
<1>1. IndInv => OrdersFollowAdmission
    BY DEF IndInv
<1> QED
    BY <1>1, Invariance, PTL

(* After recovery a row says "running" only for the worker's job or for    *)
(* one whose Finish transaction failed.                                    *)
THEOREM RunningRowIsHeld == Spec => []RunningJobIsHeld
<1>1. IndInv => RunningJobIsHeld
    BY DEF IndInv
<1> QED
    BY <1>1, Invariance, PTL

----------------------------------------------------------------------------
(* The queue limit *)

(* The pending jobs are finitely many, so that they can be counted.        *)
LEMMA PendingJobsFinite ==
    ASSUME TypeOK
    PROVE  IsFiniteSet(PendingJobs)
<1>1. PendingJobs \in SUBSET (1..Len(jobs)) /\ Len(jobs) \in Int /\ 1 \in Int
    BY DEF PendingJobs, TypeOK, StoreTypeOK
<1>2. IsFiniteSet(1..Len(jobs))
    BY <1>1, FS_Interval
<1> QED
    BY <1>1, <1>2, FS_Subset

(* No step takes the number of pending jobs above the limit.               *)
LEMMA QueueBoundedStep ==
    ASSUME TypeOK, WorkerHoldsJob, QueueBounded, StoreStep, TypeOK'
    PROVE  QueueBounded'
<1>0. DOMAIN jobs = JobIds /\ DOMAIN jobs' = JobIds'
    BY DEF TypeOK, StoreTypeOK, JobIds
<1>1. ASSUME NEW j \in JobIds, Pending(j)' PROVE Pending(j)
    BY <1>1, EveryStepIsARowStep, RowType DEF RowStep, Pending, PendingStatuses
<1>2. IsFiniteSet(PendingJobs) /\ Cardinality(PendingJobs) \in Nat
    BY PendingJobsFinite, FS_CardinalityType
<1>3. CASE JobIds' \subseteq JobIds
  <2>1. PendingJobs' \subseteq PendingJobs
    BY <1>0, <1>1, <1>3 DEF PendingJobs
  <2>2. Cardinality(PendingJobs') <= Cardinality(PendingJobs) /\ Cardinality(PendingJobs') \in Nat
    BY <1>2, <2>1, FS_Subset, FS_CardinalityType
  <2> QED
    BY <1>2, <2>2, LimitAssumption DEF QueueBounded
<1>4. ASSUME NEW i \in JobIds', i \notin JobIds PROVE QueueBounded'
  <2>1. /\ \A k \in JobIds' : k \in JobIds \/ k = i
        /\ Cardinality(PendingJobs) < MaxPendingIssuanceJobs
    BY <1>4, NewRow
  <2>2. PendingJobs' \subseteq PendingJobs \cup {i}
    BY <1>0, <1>1, <2>1 DEF PendingJobs
  <2>3. i \notin PendingJobs
    BY <1>0, <1>4 DEF PendingJobs
  <2>4. IsFiniteSet(PendingJobs \cup {i})
        /\ Cardinality(PendingJobs \cup {i}) = Cardinality(PendingJobs) + 1
    BY <1>2, <2>3, FS_AddElement
  <2>5. Cardinality(PendingJobs') <= Cardinality(PendingJobs) + 1
        /\ Cardinality(PendingJobs') \in Nat
    BY <2>2, <2>4, FS_Subset, FS_CardinalityType
  <2> QED
    BY <1>2, <2>1, <2>5, LimitAssumption DEF QueueBounded
<1> QED
    BY <1>3, <1>4

(* Whatever requests, passes of the scheduler and restarts there are, at   *)
(* most MaxPendingIssuanceJobs jobs are queued or running.                 *)
THEOREM QueueNeverExceedsLimit == Spec => []QueueBounded
<1>1. Init => QueueBounded
  <2> SUFFICES ASSUME Init PROVE QueueBounded
    OBVIOUS
  <2>1. PendingJobs = {}
    BY DEF Init, StoreInit, PendingJobs
  <2> QED
    BY <2>1, FS_EmptySet, LimitAssumption DEF QueueBounded
<1>2. IndInv /\ QueueBounded /\ [Next]_vars => QueueBounded'
    BY EveryStepIsAStoreStep, TypeStep, QueueBoundedStep DEF IndInv
<1> QED
    BY <1>1, <1>2, Invariance, PTL DEF Spec

(* Both rules of Admit together: one pending job for a certificate, and at *)
(* most MaxPendingIssuanceJobs in all, through any number of restarts.     *)
THEOREM AdmissionStaysGuarded == Spec => []AdmissionIsGuarded
BY PendingJobIsUnique, QueueNeverExceedsLimit, PTL DEF AdmissionIsGuarded

----------------------------------------------------------------------------
(* The refinement *)

(* What Append does to the domain and the entries of a sequence.           *)
LEMMA AppendIs ==
    ASSUME NEW S, NEW q \in Seq(S), NEW e \in S, NEW f \in Seq(S), Len(f) = Len(q) + 1,
           \A i \in 1..Len(q) : f[i] = q[i], f[Len(q) + 1] = e
    PROVE  f = Append(q, e)
<1>1. Append(q, e) \in Seq(S) /\ Len(Append(q, e)) = Len(q) + 1
    OBVIOUS
<1>2. \A i \in 1..Len(f) : f[i] = Append(q, e)[i]
    OBVIOUS
<1> QED
    BY <1>1, <1>2

Entries == [cert : Names, status : {"queued", "running", "succeeded", "failed"}]

(* The ledger seen by users is a sequence of well-typed entries.           *)
LEMMA EntriesOfJobs ==
    ASSUME NEW q \in Seq(Jobs),
           NEW l, l = [i \in DOMAIN q |-> [cert |-> q[i].cert, status |-> q[i].status]]
    PROVE  l \in Seq(Entries) /\ Len(l) = Len(q) /\ DOMAIN l = 1..Len(q)
<1>1. \A i \in 1..Len(q) : q[i] \in Jobs
    OBVIOUS
<1>2. \A i \in 1..Len(q) : [cert |-> q[i].cert, status |-> q[i].status] \in Entries
    BY <1>1 DEF Jobs, Entries
<1>3. l \in [1..Len(q) -> Entries] /\ Len(q) \in Nat
    BY <1>2
<1> QED
    BY <1>3

(* Every step of the service is a step of the promised queue, or none.     *)
LEMMA LedgerStep ==
    ASSUME TypeOK, WorkerHoldsJob, StoreStep, TypeOK'
    PROVE  [Queue!Next]_(Queue!vars)
<1> DEFINE old == [i \in DOMAIN jobs |-> [cert |-> jobs[i].cert, status |-> jobs[i].status]]
           new == [i \in DOMAIN jobs' |-> [cert |-> jobs'[i].cert, status |-> jobs'[i].status]]
<1>0. /\ jobs \in Seq(Jobs) /\ Len(jobs) \in Nat /\ DOMAIN jobs = JobIds
      /\ jobs' \in Seq(Jobs) /\ Len(jobs') \in Nat /\ DOMAIN jobs' = JobIds'
      /\ JobIds = 1..Len(jobs) /\ JobIds' = 1..Len(jobs')
    BY DEF TypeOK, StoreTypeOK, JobIds
<1>e. /\ old \in Seq(Entries) /\ Len(old) = Len(jobs) /\ DOMAIN old = JobIds
      /\ new \in Seq(Entries) /\ Len(new) = Len(jobs') /\ DOMAIN new = JobIds'
    BY <1>0, EntriesOfJobs
<1>1. CASE jobs' = jobs
    BY <1>1 DEF Queue!vars
<1>2. ASSUME NEW c \in Names, NEW k \in IssueKinds, Admit(c, k), jobs' # jobs
      PROVE  Queue!Submit(c)
  <2>1. jobs' = Append(jobs, NewJob(c, k)) /\ ~HasPending(c)
    BY <1>2 DEF Admit
  <2>2. \A i \in Queue!Unfinished : old[i].cert # c
    BY <2>1 DEF HasPending, Pending, PendingStatuses, Queue!Unfinished
  <2>3. /\ Len(jobs') = Len(jobs) + 1
        /\ \A i \in JobIds : jobs'[i] = jobs[i]
        /\ jobs'[Len(jobs) + 1] = NewJob(c, k)
    BY <1>0, <2>1
  <2>4. new = Append(old, [cert |-> c, status |-> "queued"])
    <3>1. new[Len(jobs) + 1] = [cert |-> c, status |-> "queued"]
      BY <1>0, <2>3 DEF NewJob
    <3>2. [cert |-> c, status |-> "queued"] \in Entries
      BY DEF Entries
    <3>3. \A i \in 1..Len(old) : new[i] = old[i]
      <4>1. JobIds \subseteq JobIds'
        BY <1>0, <2>3
      <4>2. \A i \in JobIds : new[i] = old[i]
        BY <1>0, <2>3, <4>1
      <4>3. 1..Len(old) = JobIds
        BY <1>0, <1>e
      <4> HIDE DEF old, new
      <4> QED
        BY <4>2, <4>3
    <3> HIDE DEF old, new
    <3> QED
      BY <1>e, <2>3, <3>1, <3>2, <3>3, AppendIs
  <2> QED
    BY <2>2, <2>4 DEF Queue!Submit
<1>3. ASSUME NEW i \in JobIds, Claim(i) PROVE Queue!Take(i)
  <2>1. /\ jobs[i].status = "queued"
        /\ \A k \in DOMAIN jobs : jobs[k].status = "queued" => i <= k
    BY <1>3 DEF Claim, NextQueued
  <2>2. jobs[i] \in Jobs /\ JobIds' = JobIds
    BY <1>3, RowType, ClaimType DEF TypeOK, JobIds
  <2>3. /\ jobs'[i].cert = jobs[i].cert /\ jobs'[i].status = "running"
        /\ \A k \in JobIds : k # i => jobs'[k] = jobs[k]
    BY <1>0, <1>3, <2>2 DEF Claim, Jobs
  <2>4. new = [old EXCEPT ![i].status = "running"]
    BY <1>0, <2>2, <2>3
  <2> QED
    BY <1>0, <2>1, <2>4 DEF Queue!Take
<1>4. ASSUME RecoverInterrupted PROVE Queue!Sweep
  <2>1. JobIds' = JobIds
    BY <1>4, RecoverType DEF TypeOK, JobIds
  <2>2. ASSUME NEW i \in JobIds
        PROVE  /\ jobs[i].status = "running" =>
                    jobs'[i].cert = jobs[i].cert /\ jobs'[i].status = "failed"
               /\ jobs[i].status # "running" => jobs'[i] = jobs[i]
    <3>1. jobs[i] \in Jobs
      BY RowType
    <3>2. jobs'[i] = IF jobs[i].status = "running"
                     THEN [jobs[i] EXCEPT !.status = "failed", !.error = "interrupted"]
                     ELSE jobs[i]
      BY <1>0, <1>4 DEF RecoverInterrupted
    <3> QED
      BY <3>1, <3>2 DEF Jobs
  <2>3. new = [i \in DOMAIN old |->
                 IF old[i].status = "running" THEN [old[i] EXCEPT !.status = "failed"]
                 ELSE old[i]]
    BY <1>0, <2>1, <2>2
  <2> QED
    BY <2>3 DEF Queue!Sweep
<1>5. ASSUME pc = "finish", Finish(cur, FinalError)
      PROVE  \E o \in {"succeeded", "failed"} : Queue!Settle(cur, o)
  <2>0. cur \in JobIds /\ jobs[cur].status = "running"
        /\ FinalError \in {"none", "plain", "interrupted"}
    BY <1>5 DEF WorkerHoldsJob, FinalError, TypeOK, IssuePCs
  <2> DEFINE o == IF FinalError = "none" THEN "succeeded" ELSE "failed"
  <2>1. jobs[cur] \in Jobs /\ JobIds' = JobIds
    BY <1>5, <2>0, RowType, FinishType DEF TypeOK, JobIds
  <2>2. jobs'[cur] = [jobs[cur] EXCEPT !.status = o, !.error = FinalError]
        /\ \A k \in JobIds : k # cur => jobs'[k] = jobs[k]
    BY <1>0, <1>5, <2>0 DEF Finish
  <2>3. jobs'[cur].cert = jobs[cur].cert /\ jobs'[cur].status = o
    BY <2>1, <2>2 DEF Jobs
  <2>4. new = [old EXCEPT ![cur].status = o]
    BY <1>0, <2>0, <2>1, <2>2, <2>3
  <2> QED
    BY <1>0, <2>0, <2>4 DEF Queue!Settle
<1>6. cur \in JobIds \/ pc # "finish"
    BY DEF WorkerHoldsJob, IssuePCs
<1>7. DOMAIN old = JobIds
    BY <1>e
<1> QED
    BY <1>1, <1>2, <1>3, <1>4, <1>5, <1>6, <1>7
    DEF StoreStep, storeVars, Reconcile, AddVersion, Queue!Next

(* The service implements the queue its documentation promises, for every  *)
(* set of certificates and every schedule of requests, stops and kills.    *)
THEOREM ServiceImplementsQueue == Spec => ImplementsJobQueue
<1>1. Init => Queue!Init
  <2> SUFFICES ASSUME Init PROVE Queue!Init
    OBVIOUS
  <2>1. jobs = <<>>
    BY DEF Init, StoreInit
  <2> QED
    BY <2>1 DEF Queue!Init
<1>2. IndInv /\ [Next]_vars => [Queue!Next]_(Queue!vars)
    BY EveryStepIsAStoreStep, TypeStep, LedgerStep DEF IndInv
<1> QED
    BY <1>1, <1>2, Invariance, PTL DEF Spec, ImplementsJobQueue, Queue!Spec

=============================================================================
