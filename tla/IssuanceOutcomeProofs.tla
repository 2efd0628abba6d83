----------------------- MODULE IssuanceOutcomeProofs -----------------------
(***************************************************************************)
(* Theorems about what the issuance service records, announces and refuses *)
(* to do: published versions, job outcomes, the status of a certificate,   *)
(* hooks and notifications, orders cut off by a stop or a kill, disabled   *)
(* certificates and configuration drift.  They rest on the inductive       *)
(* invariant of IssuanceProofs and on OutcomeInv below.                    *)
(***************************************************************************)
EXTENDS IssuanceProofs

(* The worker's result is fresh until issue returns, its list of           *)
(* certificates exists only inside reconcile, and it publishes only a      *)
(* directory that holds every file.                                        *)
WorkerLocals ==
    /\ pc \notin {"finish", "announce"} => err = "none"
    /\ pc # "scan" => todo = {}
    /\ pc = "publish" => saved = ArtifactFiles

(* A version was published by a job that had left the queue, for that      *)
(* job's certificate; until the worker publishes, every version is older   *)
(* than its job.                                                           *)
VersionsAreBacked ==
    \A v \in DOMAIN versions :
        /\ versions[v].files = ArtifactFiles
        /\ versions[v].job \in JobIds
        /\ versions[v].cert = jobs[versions[v].job].cert
        /\ jobs[versions[v].job].status # "queued"
        /\ pc \in IssuePCs \ {"finish"} \/ (pc = "finish" /\ err # "none") =>
             versions[v].job < cur

(* A job that succeeded, or is about to, has published a version.          *)
SuccessHasVersion ==
    \A i \in JobIds :
        jobs[i].status = "succeeded" \/ (i = cur /\ pc = "finish" /\ err = "none") =>
            \E v \in DOMAIN versions : versions[v].job = i

(* What is about to be announced is what the row says.                     *)
AnnounceMatchesRecord ==
    pc = "announce" => IF err = "none" THEN jobs[cur].status = "succeeded"
                       ELSE jobs[cur].status = "failed" \/ cur \in lost

(* Announced jobs are rows of the table.                                   *)
EventsAreOfJobs == \A e \in events : e.job \in JobIds

(* A queued row carries no error, and while the worker holds a job every   *)
(* later one is queued.                                                    *)
LaterJobsAreQueued ==
    \A i \in JobIds :
        /\ jobs[i].status = "queued" => jobs[i].error = "none"
        /\ pc \in IssuePCs /\ i > cur => jobs[i].status = "queued"

(* A row says "running" only for the worker's job, for one whose Finish    *)
(* failed, or for one a kill cut off.                                      *)
RunningIsAccounted ==
    \A i \in JobIds : jobs[i].status = "running" => i = cur \/ i \in lost \/ i \in cut

(* A job that was cut off is recorded as interrupted, or still will be: by *)
(* the Finish of a stopping worker, or by the next recovery.               *)
CutIsInterrupted ==
    /\ \A k \in cut :
         /\ k \in JobIds
         /\ \/ jobs[k].status = "failed" /\ jobs[k].error = "interrupted"
            \/ jobs[k].status = "running" /\ (cancelled \/ pc \in {"off", "recover"})
    /\ pc \in IssuePCs /\ cur \in cut => pc = "finish" /\ err # "none" /\ cancelled

(* The worker's list is a snapshot: a certificate it does not hold back    *)
(* has a later job for each one that was cut off.                          *)
SnapshotKnowsCut ==
    \A r \in todo : ~r.held =>
        \A k \in cut : jobs[k].cert = r.cert =>
            \E m \in JobIds : k < m /\ jobs[m].cert = r.cert

(* Between the worker's check and its order only a command can disable     *)
(* the certificate.                                                        *)
ObtainIsAllowed ==
    pc = "obtain" => Configured(CurCert) /\ (cert[CurCert].enabled \/ spent["cli"] > 0)

(* As long as no command reconciled another file, the rows are what the    *)
(* running server loaded.                                                  *)
RowsFollowConfiguration ==
    up /\ spent["cli"] = 0 =>
        \A c \in Names :
            /\ cert[c].enabled = Configured(c)
            /\ Configured(c) => cert[c].want = cfg[c].want

OutcomeInv ==
    /\ WorkerLocals
    /\ VersionsAreBacked
    /\ SuccessHasVersion
    /\ AnnounceMatchesRecord
    /\ EventsAreOfJobs
    /\ EventsMatchRecord
    /\ LaterJobsAreQueued
    /\ StatusTellsLastOutcome
    /\ RunningIsAccounted
    /\ CutIsInterrupted
    /\ SnapshotKnowsCut
    /\ ObtainIsAllowed
    /\ RowsFollowConfiguration

----------------------------------------------------------------------------
(* What one step does *)

(* What one step may do to the version table: rows keep their certificate, *)
(* their files and their job, and only Publish adds one, at the end.       *)
VersionStep ==
    /\ \A v \in DOMAIN versions :
         /\ v \in DOMAIN versions'
         /\ versions'[v].cert = versions[v].cert /\ versions'[v].files = versions[v].files
         /\ versions'[v].job = versions[v].job /\ versions'[v].spec = versions[v].spec
    /\ \A v \in DOMAIN versions' : v \notin DOMAIN versions =>
         /\ Publish
         /\ v = Len(versions) + 1
         /\ versions'[v].cert = CurCert /\ versions'[v].files = saved
         /\ versions'[v].job = cur /\ versions'[v].spec = cfg[CurCert].want

(* No step removes or rewrites a version.                                  *)
LEMMA EveryStepIsAVersionStep ==
    ASSUME TypeOK, [Next]_vars
    PROVE  VersionStep
<1>0. versions \in Seq(Versions) /\ Len(versions) \in Nat /\ DOMAIN versions = 1..Len(versions)
    BY DEF TypeOK, StoreTypeOK
<1>1. \/ versions' = versions
      \/ Publish
      \/ \E v \in DOMAIN versions : versions' = [versions EXCEPT ![v].due = TRUE]
    BY DEF Next, Worker, Environment, EditConfig, CommandLine, Start, Cancel, Exit, Crash,
           Renew, BecomeDue, Tick, Recover, RecoverStops, Top, ClaimJob, ClaimNothing, Idle,
           List, ListFails, Scan, ScanDone, Begin, BeginFails, ObtainFails, PlaceOrder,
           OrderFails, OrderSucceeds, SaveFile, SaveDone, SaveFails, PublishFails,
           FinishJob, FinishFails, Announce, vars, storeVars, Reconcile, Enqueue, Admit, Claim,
           RecoverInterrupted, Finish
<1>2. CASE versions' = versions
    BY <1>2 DEF VersionStep
<1>3. CASE Publish
  <2> DEFINE row == [cert |-> CurCert, spec |-> cfg[CurCert].want, files |-> saved,
                     due |-> FALSE, job |-> cur]
  <2>1. versions' = Append(versions, row)
    BY <1>3 DEF Publish, AddVersion
  <2>2. /\ DOMAIN versions' = 1..(Len(versions) + 1)
        /\ \A v \in DOMAIN versions : versions'[v] = versions[v]
        /\ versions'[Len(versions) + 1] = row
    BY <1>0, <2>1
  <2> QED
    BY <1>0, <1>3, <2>2 DEF VersionStep
<1>4. ASSUME NEW v \in DOMAIN versions, versions' = [versions EXCEPT ![v].due = TRUE]
      PROVE  VersionStep
  <2>1. DOMAIN versions' = DOMAIN versions /\ versions[v] \in Versions
    BY <1>0, <1>4
  <2>2. versions'[v] = [versions[v] EXCEPT !.due = TRUE]
        /\ \A w \in DOMAIN versions : w # v => versions'[w] = versions[w]
    BY <1>0, <1>4
  <2>3. /\ versions'[v].cert = versions[v].cert /\ versions'[v].files = versions[v].files
        /\ versions'[v].job = versions[v].job /\ versions'[v].spec = versions[v].spec
    BY <2>1, <2>2 DEF Versions
  <2> QED
    BY <2>1, <2>2, <2>3 DEF VersionStep
<1> QED
    BY <1>1, <1>2, <1>3, <1>4

(* Publish adds exactly one row, at the end.                               *)
LEMMA PublishedRow ==
    ASSUME TypeOK, Publish
    PROVE  /\ Len(versions) + 1 \in DOMAIN versions' /\ Len(versions) + 1 \notin DOMAIN versions
           /\ \A w \in DOMAIN versions' : w <= Len(versions) + 1
<1>0. versions \in Seq(Versions) /\ Len(versions) \in Nat /\ DOMAIN versions = 1..Len(versions)
    BY DEF TypeOK, StoreTypeOK
<1>1. DOMAIN versions' = 1..(Len(versions) + 1)
    BY <1>0 DEF Publish, AddVersion
<1> QED
    BY <1>0, <1>1

(* The result, the list and the files of the worker stay as its place in   *)
(* the code says.                                                          *)
LEMMA WorkerLocalsStep ==
    ASSUME TypeOK, WorkerHoldsJob, WorkerLocals, [Next]_vars
    PROVE  WorkerLocals'
BY DEF Next, Worker, Environment, EditConfig, CommandLine, Start, Cancel, Exit, Crash,
       Renew, BecomeDue, Tick, Recover, RecoverStops, Top, ClaimJob, ClaimNothing, Idle,
       List, ListFails, Scan, ScanDone, Begin, BeginFails, ObtainFails, PlaceOrder,
       OrderFails, OrderSucceeds, SaveFile, SaveDone, SaveFails, Publish, PublishFails,
       FinishJob, FinishFails, Announce, vars, workerVars, ProcessGone, Goto, Return, Fail,
       TypeOK, WorkerLocals, WorkerHoldsJob

(* The worker gets a new job only by claiming the oldest queued one, and   *)
(* keeps it until the process is gone or the outcome is announced.         *)
LEMMA WorkerMoves ==
    ASSUME TypeOK, WorkerHoldsJob, WorkerLocals, [Next]_vars
    PROVE  /\ pc' \in IssuePCs =>
                \/ pc \in IssuePCs /\ cur' = cur
                \/ ClaimJob
           /\ pc' = "finish" =>
                \/ pc = "finish" /\ err' = err
                \/ pc \in IssuePCs \ {"finish"} /\ err' = "plain"
                \/ Publish
           /\ pc' = "announce" =>
                \/ pc = "announce" /\ err' = err /\ cur' = cur
                \/ FinishJob
                \/ FinishFails
           /\ pc' \in IssuePCs \ {"finish"} => pc # "finish"
<1> USE DEF Next, Worker, Environment, EditConfig, CommandLine, Start, Cancel, Exit, Crash,
       Renew, BecomeDue, Tick, Recover, RecoverStops, Top, ClaimNothing, Idle,
       List, ListFails, Scan, ScanDone, Begin, BeginFails, ObtainFails, PlaceOrder,
       OrderFails, OrderSucceeds, SaveFile, SaveDone, SaveFails, PublishFails,
       Announce, vars, workerVars, ProcessGone, Goto, Return, Fail,
       TypeOK, IssuePCs
<1>1. pc' \in IssuePCs => (pc \in IssuePCs /\ cur' = cur) \/ ClaimJob
    BY DEF Publish, FinishJob, FinishFails
<1>2. pc' = "finish" =>
                \/ pc = "finish" /\ err' = err
                \/ pc \in IssuePCs \ {"finish"} /\ err' = "plain"
                \/ Publish
    BY DEF ClaimJob, FinishJob, FinishFails
<1>3. pc' = "announce" =>
                \/ pc = "announce" /\ err' = err /\ cur' = cur
                \/ FinishJob
                \/ FinishFails
    BY DEF ClaimJob, Publish
<1>4. pc' \in IssuePCs \ {"finish"} => pc # "finish"
    BY DEF ClaimJob, Publish, FinishJob, FinishFails
<1> QED
    BY <1>1, <1>2, <1>3, <1>4

(* What one step may record on a row: nothing, the claim, an interruption  *)
(* found by the recovery, or the worker's own result.                      *)
OutcomeStep(i) ==
    \/ jobs'[i] = jobs[i]
    \/ /\ ClaimJob /\ cur' = i /\ NextQueued(i)
       /\ jobs'[i].status = "running" /\ jobs'[i].error = jobs[i].error
    \/ /\ Recover /\ jobs[i].status = "running"
       /\ jobs'[i].status = "failed" /\ jobs'[i].error = "interrupted"
    \/ /\ FinishJob /\ i = cur
       /\ jobs'[i].error = FinalError
       /\ jobs'[i].status = IF FinalError = "none" THEN "succeeded" ELSE "failed"

(* Each step records at most one outcome on a row.                         *)
LEMMA EveryStepIsAnOutcomeStep ==
    ASSUME TypeOK, WorkerHoldsJob, [Next]_vars, NEW i \in JobIds
    PROVE  OutcomeStep(i)
<1>0. i \in DOMAIN jobs /\ Len(jobs) \in Nat /\ jobs[i] \in Jobs /\ jobs \in Seq(Jobs)
    BY DEF TypeOK, StoreTypeOK, JobIds
<1>1. \/ jobs' = jobs
      \/ \E c \in Names, k \in IssueKinds : Admit(c, k)
      \/ ClaimJob \/ Recover \/ FinishJob
    BY DEF Next, Worker, Environment, EditConfig, CommandLine, Start, Cancel, Exit, Crash,
           Renew, BecomeDue, Tick, RecoverStops, Top, ClaimNothing, Idle,
           List, ListFails, Scan, ScanDone, Begin, BeginFails, ObtainFails, PlaceOrder,
           OrderFails, OrderSucceeds, SaveFile, SaveDone, SaveFails, Publish, PublishFails,
           FinishFails, Announce, vars, storeVars, Reconcile, Enqueue, AddVersion, IssueKinds,
           TypeOK
<1>2. CASE jobs' = jobs
    BY <1>2 DEF OutcomeStep
<1>3. ASSUME NEW c \in Names, NEW k \in IssueKinds, Admit(c, k) PROVE jobs'[i] = jobs[i]
  <2>1. jobs' = jobs \/ jobs' = Append(jobs, NewJob(c, k))
    BY <1>3 DEF Admit
  <2> QED
    BY <1>0, <2>1 DEF JobIds
<1>4. CASE ClaimJob
  <2>1. PICK j \in JobIds : Claim(j) /\ cur' = j
    BY <1>4 DEF ClaimJob
  <2>2. CASE i # j
    <3>1. jobs'[i] = jobs[i]
      BY <1>0, <2>1, <2>2 DEF Claim
    <3> QED
      BY <3>1 DEF OutcomeStep
  <2>3. CASE i = j
    <3>1. jobs'[i] = [jobs[i] EXCEPT !.status = "running"] /\ NextQueued(i)
      BY <1>0, <2>1, <2>3 DEF Claim
    <3>2. jobs'[i].status = "running" /\ jobs'[i].error = jobs[i].error
      BY <1>0, <3>1 DEF Jobs
    <3> QED
      BY <1>4, <2>1, <2>3, <3>1, <3>2 DEF OutcomeStep
  <2> QED
    BY <2>2, <2>3
<1>5. CASE Recover
  <2>1. jobs'[i] = IF jobs[i].status = "running"
                   THEN [jobs[i] EXCEPT !.status = "failed", !.error = "interrupted"]
                   ELSE jobs[i]
    BY <1>0, <1>5 DEF Recover, RecoverInterrupted
  <2>2. CASE jobs[i].status = "running"
    <3>1. jobs'[i].status = "failed" /\ jobs'[i].error = "interrupted"
      BY <1>0, <2>1, <2>2 DEF Jobs
    <3> QED
      BY <1>5, <2>2, <3>1 DEF OutcomeStep
  <2> QED
    BY <2>1, <2>2 DEF OutcomeStep
<1>6. CASE FinishJob
  <2>1. CASE i # cur
    <3>1. jobs'[i] = jobs[i]
      BY <1>0, <1>6, <2>1 DEF FinishJob, Finish
    <3> QED
      BY <3>1 DEF OutcomeStep
  <2>2. CASE i = cur
    <3>1. jobs'[i] = [jobs[i] EXCEPT !.status = IF FinalError = "none" THEN "succeeded"
                                                ELSE "failed",
                                     !.error = FinalError]
      BY <1>0, <1>6, <2>2 DEF FinishJob, Finish
    <3>2. /\ jobs'[i].error = FinalError
          /\ jobs'[i].status = IF FinalError = "none" THEN "succeeded" ELSE "failed"
      BY <1>0, <3>1 DEF Jobs
    <3> QED
      BY <1>6, <2>2, <3>2 DEF OutcomeStep
  <2> QED
    BY <2>1, <2>2
<1>7. (\E c \in Names, k \in IssueKinds : Admit(c, k)) => OutcomeStep(i)
    BY <1>3 DEF OutcomeStep
<1> QED
    BY <1>1, <1>2, <1>4, <1>5, <1>6, <1>7

(* A row that appears is clean: queued, without an error.                  *)
LEMMA NewRowIsClean ==
    ASSUME TypeOK, WorkerHoldsJob, [Next]_vars, NEW i \in JobIds', i \notin JobIds
    PROVE  jobs'[i].status = "queued" /\ jobs'[i].error = "none"
<1>0. jobs \in Seq(Jobs) /\ Len(jobs) \in Nat /\ jobs' \in Seq(Jobs) /\ Len(jobs') \in Nat
    BY TypeStep DEF TypeOK, StoreTypeOK
<1>1. i = Len(jobs) + 1 /\ Len(jobs') = i /\ jobs'[i].status = "queued"
    BY EveryStepIsAStoreStep, NewRow
<1>2. Len(jobs') # Len(jobs) /\ jobs' # jobs
    BY <1>0, <1>1
<1>3. ~ClaimJob
    BY <1>2, ClaimType DEF ClaimJob, TypeOK
<1>4. ~Recover
    BY <1>2, RecoverType DEF Recover, TypeOK
<1>5. ~FinishJob
  <2>1. SUFFICES ASSUME FinishJob PROVE FALSE
    OBVIOUS
  <2>2. cur \in JobIds /\ FinalError \in {"none", "plain", "interrupted"}
    BY <2>1 DEF FinishJob, Goto, WorkerHoldsJob, FinalError, TypeOK, IssuePCs
  <2> QED
    BY <1>2, <2>1, <2>2, FinishType DEF FinishJob, TypeOK
<1>6. \E c \in Names, k \in IssueKinds : Admit(c, k)
    BY <1>2, <1>3, <1>4, <1>5
       DEF Next, Worker, Environment, EditConfig, CommandLine, Start, Cancel, Exit, Crash,
           Renew, BecomeDue, Tick, RecoverStops, Top, ClaimNothing, Idle,
           List, ListFails, Scan, ScanDone, Begin, BeginFails, ObtainFails, PlaceOrder,
           OrderFails, OrderSucceeds, SaveFile, SaveDone, SaveFails, Publish, PublishFails,
           FinishFails, Announce, vars, storeVars, Reconcile, Enqueue, AddVersion, IssueKinds,
           TypeOK
<1>7. PICK c \in Names, k \in IssueKinds : jobs' = Append(jobs, NewJob(c, k))
    BY <1>2, <1>6 DEF Admit
<1>8. jobs'[i] = NewJob(c, k)
    BY <1>0, <1>1, <1>7
<1> QED
    BY <1>8 DEF NewJob

(* A step leaves every row in the table with its certificate, and a row    *)
(* that has left the queue does not return to it.                          *)
LEMMA RowsStay ==
    ASSUME TypeOK, WorkerHoldsJob, [Next]_vars, NEW i \in JobIds
    PROVE  /\ i \in JobIds' /\ jobs'[i].cert = jobs[i].cert
           /\ jobs[i].status # "queued" => jobs'[i].status # "queued"
           /\ jobs[i].status \in {"succeeded", "failed"} => jobs'[i] = jobs[i]
BY EveryStepIsAStoreStep, EveryStepIsARowStep, RowType DEF RowStep

----------------------------------------------------------------------------
(* Each part of the invariant is kept *)

(* Versions stay backed by jobs that had left the queue.                   *)
LEMMA VersionsAreBackedStep ==
    ASSUME TypeOK, WorkerHoldsJob, NoOvertaking, WorkerLocals, VersionsAreBacked, [Next]_vars
    PROVE  VersionsAreBacked'
<1>0. VersionStep
    BY EveryStepIsAVersionStep
<1> SUFFICES ASSUME NEW v \in DOMAIN versions'
             PROVE  /\ versions'[v].files = ArtifactFiles
                    /\ versions'[v].job \in JobIds'
                    /\ versions'[v].cert = jobs'[versions'[v].job].cert
                    /\ jobs'[versions'[v].job].status # "queued"
                    /\ pc' \in IssuePCs \ {"finish"} \/ (pc' = "finish" /\ err' # "none") =>
                         versions'[v].job < cur'
    BY DEF VersionsAreBacked
<1>1. CASE v \in DOMAIN versions
  <2> DEFINE j == versions[v].job
  <2>1. versions'[v].job = j /\ versions'[v].cert = versions[v].cert
        /\ versions'[v].files = versions[v].files
    BY <1>0, <1>1 DEF VersionStep
  <2>2. j \in JobIds /\ versions[v].cert = jobs[j].cert /\ jobs[j].status # "queued"
        /\ versions[v].files = ArtifactFiles
    BY <1>1 DEF VersionsAreBacked
  <2>3. j \in JobIds' /\ jobs'[j].cert = jobs[j].cert /\ jobs'[j].status # "queued"
    BY <2>2, RowsStay
  <2>4. ASSUME pc' \in IssuePCs \ {"finish"} \/ (pc' = "finish" /\ err' # "none")
        PROVE  j < cur'
    <3>1. CASE ClaimJob
      <4>1. PICK i \in JobIds : NextQueued(i) /\ cur' = i
        BY <3>1 DEF ClaimJob, Claim
      <4>2. jobs[i].status = "queued" /\ i # j
        BY <2>2, <4>1 DEF NextQueued
      <4>3. ~(i < j)
        BY <2>2, <4>1, <4>2 DEF NoOvertaking
      <4> QED
        BY <2>2, <4>1, <4>2, <4>3 DEF JobIds
    <3>2. CASE ~ClaimJob
      <4>1. pc \in IssuePCs /\ cur' = cur
        BY <2>4, <3>2, WorkerMoves DEF IssuePCs
      <4>2. Publish => err' = "none" /\ pc' = "finish"
        BY DEF Publish, Goto, WorkerLocals
      <4>3. pc \in IssuePCs \ {"finish"} \/ (pc = "finish" /\ err # "none")
        BY <2>4, <4>1, <4>2, WorkerMoves DEF IssuePCs
      <4> QED
        BY <1>1, <4>1, <4>3 DEF VersionsAreBacked
    <3> QED
      BY <3>1, <3>2
  <2> QED
    BY <2>1, <2>2, <2>3, <2>4
<1>2. CASE v \notin DOMAIN versions
  <2>1. Publish /\ versions'[v].cert = CurCert /\ versions'[v].files = saved
        /\ versions'[v].job = cur
    BY <1>0, <1>2 DEF VersionStep
  <2>2. pc = "publish" /\ pc' = "finish" /\ err' = err /\ err = "none" /\ saved = ArtifactFiles
    BY <2>1 DEF Publish, Goto, WorkerLocals
  <2>3. cur \in JobIds /\ jobs[cur].status = "running"
    BY <2>2 DEF WorkerHoldsJob, IssuePCs
  <2>4. cur \in JobIds' /\ jobs'[cur].cert = CurCert /\ jobs'[cur].status # "queued"
    BY <2>3, RowsStay DEF CurCert
  <2> QED
    BY <2>1, <2>2, <2>4
<1> QED
    BY <1>1, <1>2

(* A job is recorded as succeeded only after it published.                 *)
LEMMA SuccessHasVersionStep ==
    ASSUME TypeOK, WorkerHoldsJob, WorkerLocals, SuccessHasVersion, [Next]_vars
    PROVE  SuccessHasVersion'
<1>0. VersionStep
    BY EveryStepIsAVersionStep
<1> SUFFICES ASSUME NEW i \in JobIds',
                    jobs'[i].status = "succeeded"
                      \/ (i = cur' /\ pc' = "finish" /\ err' = "none")
             PROVE  \E v \in DOMAIN versions' : versions'[v].job = i
    BY DEF SuccessHasVersion
<1>1. ASSUME \E v \in DOMAIN versions : versions[v].job = i
      PROVE  \E v \in DOMAIN versions' : versions'[v].job = i
    BY <1>0, <1>1 DEF VersionStep
<1>2. CASE jobs'[i].status = "succeeded"
  <2>1. i \in JobIds
    BY <1>2, NewRowIsClean
  <2>2. OutcomeStep(i)
    BY <2>1, EveryStepIsAnOutcomeStep
  <2>3. jobs[i].status = "succeeded" \/ (i = cur /\ pc = "finish" /\ err = "none")
    BY <1>2, <2>2 DEF OutcomeStep, FinishJob, Goto, FinalError
  <2> QED
    BY <1>1, <2>1, <2>3 DEF SuccessHasVersion
<1>3. CASE i = cur' /\ pc' = "finish" /\ err' = "none"
  <2>1. CASE Publish
    <3>1. Len(versions) + 1 \in DOMAIN versions' /\ Len(versions) + 1 \notin DOMAIN versions
      BY <2>1, PublishedRow
    <3>2. versions'[Len(versions) + 1].job = cur /\ cur' = cur
      BY <1>0, <2>1, <3>1 DEF VersionStep, Publish
    <3> QED
      BY <1>3, <3>1, <3>2
  <2>2. CASE ~Publish
    <3>1. pc = "finish" /\ err = "none"
      BY <1>3, <2>2, WorkerMoves
    <3>2. cur' = cur
      BY <1>3, <3>1, WorkerMoves DEF IssuePCs, ClaimJob, Goto
    <3>3. cur \in JobIds
      BY <3>1 DEF WorkerHoldsJob, IssuePCs
    <3> QED
      BY <1>1, <1>3, <3>1, <3>2, <3>3 DEF SuccessHasVersion
  <2> QED
    BY <2>1, <2>2
<1> QED
    BY <1>2, <1>3

(* The set of jobs with a lost Finish only grows.                          *)
LEMMA LostGrows ==
    ASSUME [Next]_vars
    PROVE  lost \subseteq lost'
BY DEF Next, Worker, Environment, EditConfig, CommandLine, Start, Cancel, Exit,
       Crash, Renew, BecomeDue, Tick, Recover, RecoverStops, Top, ClaimJob, ClaimNothing,
       Idle, List, ListFails, Scan, ScanDone, Begin, BeginFails, ObtainFails, PlaceOrder,
       OrderFails, OrderSucceeds, SaveFile, SaveDone, SaveFails, Publish, PublishFails,
       FinishJob, FinishFails, Announce, vars, historyVars

(* The result the worker announces is the one its Finish recorded.         *)
LEMMA AnnounceStep ==
    ASSUME TypeOK, WorkerHoldsJob, WorkerLocals, AnnounceMatchesRecord, [Next]_vars
    PROVE  AnnounceMatchesRecord'
<1> SUFFICES ASSUME pc' = "announce"
             PROVE  IF err' = "none" THEN jobs'[cur'].status = "succeeded"
                    ELSE jobs'[cur'].status = "failed" \/ cur' \in lost'
    BY DEF AnnounceMatchesRecord
<1>1. CASE pc = "announce" /\ err' = err /\ cur' = cur
  <2>1. cur \in JobIds
    BY <1>1 DEF WorkerHoldsJob
  <2> QED
    BY <1>1, <2>1, RowsStay, LostGrows DEF AnnounceMatchesRecord
<1>2. CASE FinishJob
  <2>1. cur \in JobIds /\ jobs[cur].status = "running" /\ cur' = cur /\ err' = FinalError
    BY <1>2 DEF FinishJob, Goto, WorkerHoldsJob, IssuePCs
  <2>2. jobs[cur] \in Jobs /\ cur \in DOMAIN jobs
    BY <2>1, RowType DEF TypeOK, StoreTypeOK, JobIds
  <2>3. jobs'[cur] = [jobs[cur] EXCEPT !.status = IF FinalError = "none" THEN "succeeded"
                                                  ELSE "failed",
                                       !.error = FinalError]
    BY <1>2, <2>2 DEF FinishJob, Finish
  <2>4. jobs'[cur].status = IF FinalError = "none" THEN "succeeded" ELSE "failed"
    BY <2>2, <2>3 DEF Jobs
  <2> QED
    BY <2>1, <2>4
<1>3. CASE FinishFails
  <2>1. err' # "none" /\ cur' = cur /\ cur \in lost'
    BY <1>3 DEF FinishFails
  <2> QED
    BY <2>1
<1> QED
    BY <1>1, <1>2, <1>3, WorkerMoves

(* What was announced stays true, because a finished row never changes.    *)
LEMMA EventsStep ==
    ASSUME TypeOK, WorkerHoldsJob, AnnounceMatchesRecord, EventsAreOfJobs, EventsMatchRecord,
           [Next]_vars
    PROVE  EventsAreOfJobs' /\ EventsMatchRecord'
<1>1. ASSUME NEW e \in events
      PROVE  /\ e.job \in JobIds'
             /\ IF e.event = "issued" THEN jobs'[e.job].status = "succeeded"
                ELSE jobs'[e.job].status = "failed" \/ e.job \in lost'
    BY <1>1, RowsStay, LostGrows DEF EventsAreOfJobs, EventsMatchRecord
<1>2. \/ events' = events
      \/ Announce
    BY DEF Next, Worker, Environment, EditConfig, CommandLine, Start, Cancel, Exit,
       Crash, Renew, BecomeDue, Tick, Recover, RecoverStops, Top, ClaimJob, ClaimNothing,
       Idle, List, ListFails, Scan, ScanDone, Begin, BeginFails, ObtainFails, PlaceOrder,
       OrderFails, OrderSucceeds, SaveFile, SaveDone, SaveFails, Publish, PublishFails,
       FinishJob, FinishFails, vars, historyVars
<1>3. CASE events' = events
    BY <1>1, <1>3 DEF EventsAreOfJobs, EventsMatchRecord
<1>4. CASE Announce
  <2> DEFINE new == [job |-> cur, event |-> IF err = "none" THEN "issued" ELSE "failed"]
  <2>1. pc = "announce" /\ events' = events \cup {new}
    BY <1>4 DEF Announce, Goto
  <2>2. cur \in JobIds
    BY <2>1 DEF WorkerHoldsJob
  <2>3. /\ new.job \in JobIds'
        /\ IF new.event = "issued" THEN jobs'[new.job].status = "succeeded"
           ELSE jobs'[new.job].status = "failed" \/ new.job \in lost'
    BY <2>1, <2>2, RowsStay, LostGrows DEF AnnounceMatchesRecord
  <2> HIDE DEF new
  <2> QED
    BY <1>1, <2>1, <2>3 DEF EventsAreOfJobs, EventsMatchRecord
<1> QED
    BY <1>2, <1>3, <1>4

(* While the worker holds a job, only it may leave the queue.              *)
LEMMA LaterJobsStep ==
    ASSUME TypeOK, WorkerHoldsJob, WorkerLocals, NoOvertaking, LaterJobsAreQueued, [Next]_vars
    PROVE  LaterJobsAreQueued'
<1> SUFFICES ASSUME NEW i \in JobIds'
             PROVE  /\ jobs'[i].status = "queued" => jobs'[i].error = "none"
                    /\ pc' \in IssuePCs /\ i > cur' => jobs'[i].status = "queued"
    BY DEF LaterJobsAreQueued
<1>1. CASE i \notin JobIds
    BY <1>1, NewRowIsClean
<1>2. CASE i \in JobIds
  <2>1. OutcomeStep(i)
    BY <1>2, EveryStepIsAnOutcomeStep
  <2>2. jobs'[i].status = "queued" => jobs'[i].error = "none"
    BY <1>2, <2>1 DEF OutcomeStep, LaterJobsAreQueued
  <2>3. ASSUME pc' \in IssuePCs, i > cur' PROVE jobs'[i].status = "queued"
    <3>1. CASE ClaimJob
      <4>1. PICK k \in JobIds : NextQueued(k) /\ cur' = k
        BY <3>1 DEF ClaimJob, Claim
      <4>2. jobs[i].status = "queued"
        BY <1>2, <2>3, <4>1 DEF NoOvertaking, NextQueued, JobIds
      <4>3. ~Recover /\ ~FinishJob /\ i # cur'
        BY <2>3, <3>1, <4>1 DEF ClaimJob, Recover, FinishJob, Goto, JobIds
      <4> QED
        BY <2>1, <4>2, <4>3 DEF OutcomeStep
    <3>2. CASE ~ClaimJob
      <4>1. pc \in IssuePCs /\ cur' = cur
        BY <2>3, <3>2, WorkerMoves
      <4>2. jobs[i].status = "queued" /\ i # cur
        BY <1>2, <2>3, <4>1 DEF LaterJobsAreQueued, TypeOK
      <4> QED
        BY <2>1, <3>2, <4>2 DEF OutcomeStep
    <3> QED
      BY <3>1, <3>2
  <2> QED
    BY <2>2, <2>3
<1> QED
    BY <1>1, <1>2

(* The status of a certificate changes only when a version of it is        *)
(* published or a failure of its job is recorded.                          *)
StatusStep(c) ==
    \/ cert'[c].status = cert[c].status /\ (Publish => c # CurCert)
    \/ Publish /\ c = CurCert /\ cert'[c].status = "valid"
    \/ FinishJob /\ FinalError # "none" /\ c = CurCert /\ cert'[c].status = "error"

(* Every step changes the status of a certificate in one of these ways.    *)
LEMMA EveryStepIsAStatusStep ==
    ASSUME TypeOK, WorkerHoldsJob, [Next]_vars, NEW c \in Names
    PROVE  StatusStep(c)
<1>0. cert \in [Names -> Rows] /\ cert[c] \in Rows
    BY DEF TypeOK, StoreTypeOK
<1>1. \/ cert' = cert /\ ~Publish
      \/ \E f : Reconcile(f) /\ ~Publish
      \/ Publish \/ FinishJob
    BY DEF Next, Worker, Environment, EditConfig, CommandLine, Start, Cancel, Exit, Crash,
           Renew, BecomeDue, Tick, Recover, RecoverStops, Top, ClaimJob, ClaimNothing, Idle,
           List, ListFails, Scan, ScanDone, Begin, BeginFails, ObtainFails, PlaceOrder,
           OrderFails, OrderSucceeds, SaveFile, SaveDone, SaveFails, PublishFails,
           FinishFails, Announce, vars, storeVars, Enqueue, Admit, Claim, RecoverInterrupted
<1>2. CASE cert' = cert /\ ~Publish
    BY <1>2 DEF StatusStep
<1>3. ASSUME NEW f, Reconcile(f), ~Publish PROVE StatusStep(c)
  <2>1. cert'[c] = IF f[c].mode = "absent"
                   THEN [cert[c] EXCEPT !.enabled = FALSE]
                   ELSE [cert[c] EXCEPT !.enabled = f[c].mode # "disabled", !.want = f[c].want]
    BY <1>3 DEF Reconcile
  <2>2. cert'[c].status = cert[c].status
    BY <1>0, <2>1 DEF Rows
  <2> QED
    BY <1>3, <2>2 DEF StatusStep
<1>4. CASE Publish
  <2>1. cert' = [cert EXCEPT ![CurCert].status = "valid"]
    BY <1>4 DEF Publish, AddVersion
  <2>2. CASE c = CurCert
    <3>1. cert'[c] = [cert[c] EXCEPT !.status = "valid"]
      BY <1>0, <2>1, <2>2
    <3>2. cert'[c].status = "valid"
      BY <1>0, <3>1 DEF Rows
    <3> QED
      BY <1>4, <2>2, <3>2 DEF StatusStep
  <2>3. CASE c # CurCert
    <3>1. cert'[c] = cert[c]
      BY <1>0, <2>1, <2>3
    <3> QED
      BY <2>3, <3>1 DEF StatusStep
  <2> QED
    BY <2>2, <2>3
<1>5. CASE FinishJob
  <2>0. ~Publish
    BY <1>5 DEF FinishJob, Publish, Goto
  <2>1. cert' = IF FinalError = "none" THEN cert ELSE [cert EXCEPT ![CurCert].status = "error"]
    BY <1>5 DEF FinishJob, Finish, CurCert
  <2>2. CASE c = CurCert /\ FinalError # "none"
    <3>1. cert'[c] = [cert[c] EXCEPT !.status = "error"]
      BY <1>0, <2>1, <2>2
    <3>2. cert'[c].status = "error"
      BY <1>0, <3>1 DEF Rows
    <3> QED
      BY <1>5, <2>2, <3>2 DEF StatusStep
  <2>3. CASE ~(c = CurCert /\ FinalError # "none")
    <3>1. cert'[c] = cert[c]
      BY <1>0, <2>1, <2>3
    <3> QED
      BY <2>0, <3>1 DEF StatusStep
  <2> QED
    BY <2>2, <2>3
<1> QED
    BY <1>1, <1>2, <1>3, <1>4, <1>5

(* "valid" stays backed by a current version without a newer failure.      *)
LEMMA ValidStep ==
    ASSUME TypeOK, WorkerHoldsJob, WorkerLocals, VersionsAreBacked, LaterJobsAreQueued,
           StatusTellsLastOutcome, [Next]_vars, NEW c \in Names, cert'[c].status = "valid"
    PROVE  \E v \in DOMAIN versions' :
              /\ IsCurrentVersion(v, c)'
              /\ \A i \in JobIds' : jobs'[i].cert = c /\ i > versions'[v].job =>
                    jobs'[i].error # "plain"
<1>0. VersionStep /\ StatusStep(c)
    BY EveryStepIsAVersionStep, EveryStepIsAStatusStep
<1>1. CASE Publish /\ c = CurCert
  <2>0. PICK n : n = Len(versions) + 1
    OBVIOUS
  <2>1. n \in DOMAIN versions' /\ n \notin DOMAIN versions
        /\ \A w \in DOMAIN versions' : w <= n
    BY <1>1, <2>0, PublishedRow
  <2>2. versions'[n].cert = c /\ versions'[n].job = cur
    BY <1>0, <1>1, <2>1 DEF VersionStep
  <2>3. IsCurrentVersion(n, c)'
    BY <2>1, <2>2 DEF IsCurrentVersion
  <2>4. pc = "publish" /\ jobs' = jobs /\ JobIds' = JobIds
    BY <1>1 DEF Publish, Goto, AddVersion, JobIds
  <2>5. \A i \in JobIds : i > cur => jobs[i].error = "none"
    BY <2>4 DEF LaterJobsAreQueued, IssuePCs
  <2> QED
    BY <2>1, <2>2, <2>3, <2>4, <2>5
<1>2. CASE ~(Publish /\ c = CurCert)
  <2>1. cert[c].status = "valid"
    BY <1>0, <1>2 DEF StatusStep
  <2>2. PICK v \in DOMAIN versions :
               /\ IsCurrentVersion(v, c)
               /\ \A i \in JobIds : jobs[i].cert = c /\ i > versions[v].job =>
                     jobs[i].error # "plain"
    BY <2>1 DEF StatusTellsLastOutcome
  <2>3. v \in DOMAIN versions' /\ versions'[v].cert = c /\ versions'[v].job = versions[v].job
    BY <1>0, <2>2 DEF VersionStep, IsCurrentVersion
  <2>4. ASSUME NEW w \in DOMAIN versions', versions'[w].cert = c PROVE w <= v
    BY <1>0, <1>2, <2>2, <2>4 DEF VersionStep, IsCurrentVersion
  <2>5. IsCurrentVersion(v, c)'
    BY <2>3, <2>4 DEF IsCurrentVersion
  <2>6. ASSUME NEW i \in JobIds', jobs'[i].cert = c, i > versions'[v].job
        PROVE  jobs'[i].error # "plain"
    <3>1. CASE i \notin JobIds
      BY <3>1, NewRowIsClean
    <3>2. CASE i \in JobIds
      <4>1. jobs[i].cert = c /\ jobs[i].error # "plain"
        BY <2>2, <2>3, <2>6, <3>2, RowsStay
      <4>2. OutcomeStep(i)
        BY <3>2, EveryStepIsAnOutcomeStep
      <4>3. ~(FinishJob /\ i = cur /\ FinalError = "plain")
        <5>1. SUFFICES ASSUME FinishJob, i = cur, FinalError = "plain" PROVE FALSE
          OBVIOUS
        <5>2. CurCert = c
          BY <4>1, <5>1 DEF CurCert
        <5>3. cert' = [cert EXCEPT ![c].status = "error"]
          BY <5>1, <5>2 DEF FinishJob, Finish, CurCert
        <5>4. cert \in [Names -> Rows] /\ cert[c] \in Rows
          BY DEF TypeOK, StoreTypeOK
        <5>5. cert'[c] = [cert[c] EXCEPT !.status = "error"]
          BY <5>3, <5>4
        <5>6. cert'[c].status = "error"
          BY <5>4, <5>5 DEF Rows
        <5> QED
          BY <5>6
      <4> QED
        BY <4>1, <4>2, <4>3 DEF OutcomeStep
    <3> QED
      BY <3>1, <3>2
  <2> QED
    BY <2>3, <2>5, <2>6
<1> QED
    BY <1>1, <1>2

(* "error" stays backed by a failure newer than every version.             *)
LEMMA ErrorStep ==
    ASSUME TypeOK, WorkerHoldsJob, WorkerLocals, VersionsAreBacked,
           StatusTellsLastOutcome, [Next]_vars, NEW c \in Names, cert'[c].status = "error"
    PROVE  \E i \in JobIds' :
              /\ jobs'[i].cert = c /\ jobs'[i].status = "failed"
              /\ \A v \in DOMAIN versions' : versions'[v].cert = c => versions'[v].job < i
<1>0. VersionStep /\ StatusStep(c)
    BY EveryStepIsAVersionStep, EveryStepIsAStatusStep
<1>1. CASE FinishJob /\ FinalError # "none" /\ c = CurCert
  <2>1. pc = "finish" /\ err # "none" /\ versions' = versions /\ cur' = cur
    BY <1>1 DEF FinishJob, Goto, FinalError, Finish
  <2>2. cur \in JobIds /\ jobs[cur].status = "running"
    BY <2>1 DEF WorkerHoldsJob, IssuePCs
  <2>3. cur \in JobIds' /\ jobs'[cur].cert = c
    BY <1>1, <2>2, RowsStay DEF CurCert
  <2>4. jobs[cur] \in Jobs /\ cur \in DOMAIN jobs
    BY <2>2, RowType DEF TypeOK, StoreTypeOK, JobIds
  <2>5. jobs'[cur] = [jobs[cur] EXCEPT !.status = IF FinalError = "none" THEN "succeeded"
                                                  ELSE "failed",
                                       !.error = FinalError]
    BY <1>1, <2>4 DEF FinishJob, Finish
  <2>6. jobs'[cur].status = "failed"
    BY <1>1, <2>4, <2>5 DEF Jobs
  <2>7. \A v \in DOMAIN versions : versions[v].job < cur
    BY <2>1 DEF VersionsAreBacked
  <2> QED
    BY <2>1, <2>3, <2>6, <2>7
<1>2. CASE ~(FinishJob /\ FinalError # "none" /\ c = CurCert)
  <2>1. cert[c].status = "error" /\ (Publish => c # CurCert)
    BY <1>0, <1>2 DEF StatusStep
  <2>2. PICK i \in JobIds :
               /\ jobs[i].cert = c /\ jobs[i].status = "failed"
               /\ \A v \in DOMAIN versions : versions[v].cert = c => versions[v].job < i
    BY <2>1 DEF StatusTellsLastOutcome
  <2>3. i \in JobIds' /\ jobs'[i] = jobs[i]
    BY <2>2, RowsStay
  <2>4. ASSUME NEW v \in DOMAIN versions', versions'[v].cert = c PROVE versions'[v].job < i
    BY <1>0, <2>1, <2>2, <2>4 DEF VersionStep
  <2> QED
    BY <2>2, <2>3, <2>4
<1> QED
    BY <1>1, <1>2

(* The status of every certificate stays that of its last outcome.         *)
LEMMA StatusTellsStep ==
    ASSUME TypeOK, WorkerHoldsJob, WorkerLocals, VersionsAreBacked, LaterJobsAreQueued,
           StatusTellsLastOutcome, [Next]_vars
    PROVE  StatusTellsLastOutcome'
BY ValidStep, ErrorStep DEF StatusTellsLastOutcome

(* The set of jobs cut off only grows: by a kill, or by a failure while    *)
(* the worker is being stopped.                                            *)
LEMMA CutGrows ==
    ASSUME TypeOK, WorkerHoldsJob, WorkerLocals, [Next]_vars
    PROVE  /\ cut \subseteq cut'
           /\ \A k \in cut' : k \notin cut =>
                \/ Crash /\ k \in JobIds /\ jobs[k].status = "running" /\ pc' = "off"
                \/ /\ k = cur /\ cancelled /\ cancelled' = cancelled /\ pc' = "finish"
                   /\ err' = "plain" /\ cur' = cur /\ pc \in IssuePCs
                   /\ UNCHANGED <<jobs, todo>>
<1>1. cut' = cut \/ Crash \/ OrderFails \/ PublishFails
    BY DEF Next, Worker, Environment, EditConfig, CommandLine, Start, Cancel, Exit,
       Renew, BecomeDue, Tick, Recover, RecoverStops, Top, ClaimJob, ClaimNothing,
       Idle, List, ListFails, Scan, ScanDone, Begin, BeginFails, ObtainFails, PlaceOrder,
       OrderSucceeds, SaveFile, SaveDone, SaveFails, Publish,
       FinishJob, FinishFails, Announce, vars, historyVars
<1>2. CASE Crash
    BY <1>2 DEF Crash, ProcessGone
<1>3. CASE OrderFails
    BY <1>3 DEF OrderFails, CutIfCancelled, Fail, Goto, IssuePCs, processVars, storeVars
<1>4. CASE PublishFails
    BY <1>4 DEF PublishFails, CutIfCancelled, Fail, Goto, IssuePCs, processVars, storeVars
<1> QED
    BY <1>1, <1>2, <1>3, <1>4

(* Every running row stays accounted for.                                  *)
LEMMA RunningIsAccountedStep ==
    ASSUME TypeOK, WorkerHoldsJob, WorkerLocals, RunningIsAccounted, [Next]_vars
    PROVE  RunningIsAccounted'
<1> SUFFICES ASSUME NEW i \in JobIds', jobs'[i].status = "running"
             PROVE  i = cur' \/ i \in lost' \/ i \in cut'
    BY DEF RunningIsAccounted
<1>1. i \in JobIds
    BY NewRowIsClean
<1>2. OutcomeStep(i)
    BY <1>1, EveryStepIsAnOutcomeStep
<1>3. CASE jobs'[i] # jobs[i]
    BY <1>2, <1>3 DEF OutcomeStep
<1>4. CASE jobs'[i] = jobs[i]
  <2>1. i = cur \/ i \in lost \/ i \in cut
    BY <1>1, <1>4 DEF RunningIsAccounted
  <2>2. cut \subseteq cut' /\ lost \subseteq lost'
    BY CutGrows, LostGrows
  <2>3. CASE i = cur
    <3>1. i # 0
      BY <1>1 DEF JobIds
    <3>2. pc \in IssuePCs \cup {"announce"}
      BY <2>3, <3>1 DEF WorkerHoldsJob
    <3>3. cur' = cur \/ Crash \/ pc = "announce"
      BY <3>2 DEF Next, Worker, Environment, EditConfig, CommandLine, Start, Cancel, Exit,
         Renew, BecomeDue, Tick, Recover, RecoverStops, Top, ClaimJob, ClaimNothing,
         Idle, List, ListFails, Scan, ScanDone, Begin, BeginFails, ObtainFails, PlaceOrder,
         OrderFails, OrderSucceeds, SaveFile, SaveDone, SaveFails, Publish, PublishFails,
         FinishJob, FinishFails, Announce, vars, workerVars, Goto, IssuePCs
    <3>4. Crash => i \in cut'
      BY <1>1, <1>4, <2>3 DEF Crash
    <3>5. pc = "announce" => i \in lost
      BY <1>1, <1>4, <2>3 DEF WorkerHoldsJob
    <3> QED
      BY <2>2, <2>3, <3>3, <3>4, <3>5
  <2> QED
    BY <2>1, <2>2, <2>3
<1> QED
    BY <1>3, <1>4

(* A job that was cut off is never recorded as anything but interrupted.   *)
LEMMA CutStep ==
    ASSUME TypeOK, WorkerHoldsJob, WorkerLocals, CutIsInterrupted, [Next]_vars
    PROVE  CutIsInterrupted'
<1>1. /\ cancelled /\ ~cancelled' => pc' = "off"
      /\ pc \in {"off", "recover"} => pc' \in {"off", "recover"} \/ Recover \/ cancelled'
      /\ ClaimJob \/ Begin \/ PlaceOrder => ~Crash
    BY DEF Next, Worker, Environment, EditConfig, CommandLine, Start, Cancel, Exit, Crash,
       Renew, BecomeDue, Tick, Recover, RecoverStops, Top, ClaimJob, ClaimNothing,
       Idle, List, ListFails, Scan, ScanDone, Begin, BeginFails, ObtainFails, PlaceOrder,
       OrderFails, OrderSucceeds, SaveFile, SaveDone, SaveFails, Publish, PublishFails,
       FinishJob, FinishFails, Announce, vars, workerVars, processVars, ProcessGone, Goto,
       Return, Fail, TypeOK
<1>2. ASSUME NEW k \in cut'
      PROVE  /\ k \in JobIds'
             /\ \/ jobs'[k].status = "failed" /\ jobs'[k].error = "interrupted"
                \/ jobs'[k].status = "running" /\ (cancelled' \/ pc' \in {"off", "recover"})
  <2>1. CASE k \in cut
    <3>1. k \in JobIds
      BY <2>1 DEF CutIsInterrupted
    <3>2. k \in JobIds' /\ OutcomeStep(k)
      BY <3>1, RowsStay, EveryStepIsAnOutcomeStep
    <3>3. CASE jobs[k].status = "failed" /\ jobs[k].error = "interrupted"
      BY <3>1, <3>2, <3>3, RowsStay
    <3>4. CASE jobs[k].status = "running" /\ (cancelled \/ pc \in {"off", "recover"})
      <4>1. CASE jobs'[k] = jobs[k]
        <5>1. ~Recover
          <6>1. SUFFICES ASSUME Recover PROVE FALSE
            OBVIOUS
          <6>2. k \in DOMAIN jobs /\ jobs[k] \in Jobs
            BY <3>1, RowType DEF TypeOK, StoreTypeOK, JobIds
          <6>3. jobs'[k] = [jobs[k] EXCEPT !.status = "failed", !.error = "interrupted"]
            BY <3>4, <6>1, <6>2 DEF Recover, RecoverInterrupted
          <6> QED
            BY <3>4, <4>1, <6>2, <6>3 DEF Jobs
        <5> QED
          BY <1>1, <3>2, <3>4, <4>1, <5>1 DEF TypeOK
      <4>2. CASE jobs'[k] # jobs[k] /\ FinishJob /\ k = cur
        <5>1. err # "none" /\ cancelled
          BY <2>1, <4>2 DEF CutIsInterrupted, FinishJob, Goto, IssuePCs
        <5>2. FinalError = "interrupted"
          BY <5>1 DEF FinalError
        <5>3. jobs'[k].error = "interrupted" /\ jobs'[k].status = "failed"
          BY <3>2, <3>4, <4>2, <5>2 DEF OutcomeStep, NextQueued, ClaimJob, FinishJob,
             Recover, Goto
        <5> QED
          BY <3>2, <5>3
      <4>3. CASE jobs'[k] # jobs[k] /\ ~(FinishJob /\ k = cur)
        BY <3>2, <3>4, <4>3 DEF OutcomeStep, NextQueued
      <4> QED
        BY <4>1, <4>2, <4>3
    <3> QED
      BY <2>1, <3>3, <3>4 DEF CutIsInterrupted
  <2>2. CASE k \notin cut
    <3>1. CASE Crash /\ k \in JobIds /\ jobs[k].status = "running" /\ pc' = "off"
      BY <3>1 DEF Crash, storeVars, JobIds
    <3>2. CASE /\ k = cur /\ cancelled /\ cancelled' = cancelled
               /\ cur' = cur /\ pc \in IssuePCs /\ UNCHANGED jobs
      BY <3>2 DEF WorkerHoldsJob, JobIds
    <3> QED
      BY <2>2, <3>1, <3>2, CutGrows
  <2> QED
    BY <2>1, <2>2
<1>3. ASSUME pc' \in IssuePCs, cur' \in cut'
      PROVE  pc' = "finish" /\ err' # "none" /\ cancelled'
  <2>1. CASE cur' \notin cut
    BY <1>3, <2>1, CutGrows DEF IssuePCs, TypeOK
  <2>2. CASE cur' \in cut
    <3>1. ~ClaimJob
      <4>1. SUFFICES ASSUME ClaimJob PROVE FALSE
        OBVIOUS
      <4>2. cur' \in JobIds /\ jobs[cur'].status = "queued"
        BY <4>1 DEF ClaimJob, Claim, NextQueued
      <4> QED
        BY <2>2, <4>2 DEF CutIsInterrupted
    <3>2. pc \in IssuePCs /\ cur' = cur
      BY <1>3, <3>1, WorkerMoves
    <3>3. pc = "finish" /\ err # "none" /\ cancelled
      BY <2>2, <3>2 DEF CutIsInterrupted
    <3>4. pc' = "finish" /\ err' = err
      BY <1>3, <3>3, WorkerMoves DEF IssuePCs, Publish, Goto
    <3> QED
      BY <1>1, <3>3, <3>4 DEF TypeOK
  <2> QED
    BY <2>1, <2>2
<1> QED
    BY <1>2, <1>3 DEF CutIsInterrupted

(* What the worker's snapshot does not hold back stays safe to queue.      *)
LEMMA SnapshotStep ==
    ASSUME TypeOK, WorkerHoldsJob, WorkerLocals, CutIsInterrupted, SnapshotKnowsCut, [Next]_vars
    PROVE  SnapshotKnowsCut'
<1> SUFFICES ASSUME NEW r \in todo', ~r.held, NEW k \in cut', jobs'[k].cert = r.cert
             PROVE  \E m \in JobIds' : k < m /\ jobs'[m].cert = r.cert
    BY DEF SnapshotKnowsCut
<1>1. todo' \subseteq todo \/ List
    BY DEF Next, Worker, Environment, EditConfig, CommandLine, Start, Cancel, Exit, Crash,
       Renew, BecomeDue, Tick, Recover, RecoverStops, Top, ClaimJob, ClaimNothing,
       Idle, ListFails, Scan, ScanDone, Begin, BeginFails, ObtainFails, PlaceOrder,
       OrderFails, OrderSucceeds, SaveFile, SaveDone, SaveFails, Publish, PublishFails,
       FinishJob, FinishFails, Announce, vars, workerVars, ProcessGone
<1>2. k \in cut
  <2>1. Crash => todo' = {}
    BY DEF Crash, ProcessGone
  <2>2. pc \in IssuePCs => todo = {}
    BY DEF WorkerLocals, IssuePCs
  <2>3. pc' = "finish" => ~List
    BY DEF List, Goto
  <2> QED
    BY <1>1, <2>1, <2>2, <2>3, CutGrows
<1>3. k \in JobIds /\ jobs'[k].cert = jobs[k].cert
    BY <1>2, RowsStay DEF CutIsInterrupted
<1>4. CASE r \in todo
  <2>1. PICK m \in JobIds : k < m /\ jobs[m].cert = r.cert
    BY <1>2, <1>3, <1>4 DEF SnapshotKnowsCut
  <2> QED
    BY <2>1, RowsStay
<1>5. CASE List
  <2>0. PICK c \in Names : r = [cert |-> c, held |-> LatestJobInterrupted(c),
                                drift |-> ConfigurationDrift(c)]
    BY <1>5 DEF List
  <2>1. ~LatestJobInterrupted(r.cert) /\ jobs' = jobs /\ JobIds' = JobIds
    BY <1>5, <2>0 DEF List, storeVars, JobIds
  <2>2. jobs[k].error = "interrupted"
    BY <1>2, <1>5 DEF CutIsInterrupted, List, Goto, TypeOK
  <2>3. PICK m \in DOMAIN jobs : jobs[m].cert = r.cert /\ ~(m <= k)
    BY <1>3, <2>1, <2>2 DEF LatestJobInterrupted, JobIds, TypeOK, StoreTypeOK
  <2>4. DOMAIN jobs = JobIds /\ JobIds \subseteq Nat
    BY DEF TypeOK, StoreTypeOK, JobIds
  <2>5. m \in JobIds /\ m \in Nat /\ k \in Nat
    BY <1>3, <2>3, <2>4
  <2>6. k < m
    BY <2>3, <2>5
  <2> QED
    BY <2>1, <2>3, <2>5, <2>6
<1> QED
    BY <1>1, <1>4, <1>5

(* What Reconcile leaves in a row.                                         *)
LEMMA ReconciledRow ==
    ASSUME StoreTypeOK, NEW f \in [Names -> Definitions], Reconcile(f), NEW c \in Names
    PROVE  /\ cert'[c].enabled = (f[c].mode \in {"manual", "auto"})
           /\ f[c].mode \in {"manual", "auto"} => cert'[c].want = f[c].want
<1>0. cert[c] \in Rows /\ f[c] \in Definitions /\ f[c].mode \in Modes
    BY DEF StoreTypeOK, Definitions
<1>1. cert'[c] = IF f[c].mode = "absent"
                 THEN [cert[c] EXCEPT !.enabled = FALSE]
                 ELSE [cert[c] EXCEPT !.enabled = f[c].mode # "disabled", !.want = f[c].want]
    BY DEF Reconcile
<1>2. CASE f[c].mode = "absent"
  <2>1. cert'[c].enabled = FALSE
    BY <1>0, <1>1, <1>2 DEF Rows
  <2>2. (f[c].mode \in {"manual", "auto"}) = FALSE
    BY <1>2
  <2> QED
    BY <2>1, <2>2
<1>3. CASE f[c].mode # "absent"
  <2>1. cert'[c].enabled = (f[c].mode # "disabled") /\ cert'[c].want = f[c].want
    BY <1>0, <1>1, <1>3 DEF Rows
  <2> QED
    BY <1>0, <1>3, <2>1 DEF Modes
<1> QED
    BY <1>2, <1>3

(* Only a start, or a command that is counted, changes what the rows ask   *)
(* for; the loaded configuration changes only with a start.                *)
LEMMA ConfigurationStep ==
    ASSUME TypeOK, WorkerHoldsJob, [Next]_vars
    PROVE  \/ Start
           \/ spent'["cli"] > 0 /\ cfg' = cfg /\ CommandLine
           \/ /\ cfg' = cfg /\ (up' => up) /\ spent'["cli"] = spent["cli"]
              /\ \A c \in Names : cert'[c].enabled = cert[c].enabled
                                  /\ cert'[c].want = cert[c].want
<1>1. CASE Start
    BY <1>1
<1>2. CASE CommandLine
    BY <1>2 DEF CommandLine, Spend, TypeOK, BoundedEvents, processVars
<1>3. CASE ~Start /\ ~CommandLine
  <2>1. cfg' = cfg /\ (up' => up)
    BY <1>3 DEF Next, Worker, Environment, EditConfig, Cancel, Exit, Crash,
       Renew, BecomeDue, Tick, Recover, RecoverStops, Top, ClaimJob, ClaimNothing,
       Idle, List, ListFails, Scan, ScanDone, Begin, BeginFails, ObtainFails, PlaceOrder,
       OrderFails, OrderSucceeds, SaveFile, SaveDone, SaveFails, Publish, PublishFails,
       FinishJob, FinishFails, Announce, vars, processVars, ProcessGone
  <2>2. spent' = spent \/ \E e \in BoundedEvents \ {"cli"} : Spend(e)
    BY <1>3 DEF Next, Worker, Environment, EditConfig, Cancel, Exit, Crash,
       Renew, BecomeDue, Tick, Recover, RecoverStops, Top, ClaimJob, ClaimNothing,
       Idle, List, ListFails, Scan, ScanDone, Begin, BeginFails, ObtainFails, PlaceOrder,
       OrderFails, OrderSucceeds, SaveFile, SaveDone, SaveFails, Publish, PublishFails,
       FinishJob, FinishFails, Announce, vars, ContextOperationFails, BoundedEvents
  <2>3. spent'["cli"] = spent["cli"]
    BY <2>2 DEF Spend, TypeOK, BoundedEvents
  <2>4. cert' = cert \/ Publish \/ FinishJob
    BY <1>3 DEF Next, Worker, Environment, EditConfig, Cancel, Exit, Crash,
       Renew, BecomeDue, Tick, Recover, RecoverStops, Top, ClaimJob, ClaimNothing,
       Idle, List, ListFails, Scan, ScanDone, Begin, BeginFails, ObtainFails, PlaceOrder,
       OrderFails, OrderSucceeds, SaveFile, SaveDone, SaveFails, PublishFails,
       FinishFails, Announce, vars, storeVars, Enqueue, Admit, Claim, RecoverInterrupted
  <2>5. ASSUME NEW c \in Names, Publish \/ FinishJob
        PROVE  cert'[c].enabled = cert[c].enabled /\ cert'[c].want = cert[c].want
    <3>1. cert \in [Names -> Rows] /\ cert[c] \in Rows
      BY DEF TypeOK, StoreTypeOK
    <3>2. \E s : cert' = cert \/ cert' = [cert EXCEPT ![CurCert].status = s]
      BY <2>5 DEF Publish, AddVersion, FinishJob, Finish, CurCert
    <3>3. \E s : cert'[c] = cert[c] \/ cert'[c] = [cert[c] EXCEPT !.status = s]
      BY <3>1, <3>2
    <3> QED
      BY <3>1, <3>3 DEF Rows
  <2> QED
    BY <2>1, <2>3, <2>4, <2>5
<1> QED
    BY <1>1, <1>2, <1>3

(* Rows and configuration stay in agreement, and so does the worker's      *)
(* check, until a command interferes.                                      *)
LEMMA ConfigurationInvStep ==
    ASSUME TypeOK, WorkerHoldsJob, WorkerLocals, ObtainIsAllowed, RowsFollowConfiguration,
           [Next]_vars
    PROVE  ObtainIsAllowed' /\ RowsFollowConfiguration'
<1>0. spent["cli"] \in Nat /\ spent'["cli"] \in Nat
    BY TypeStep DEF TypeOK, BoundedEvents
<1>1. CASE Start
  <2>1. pc' # "obtain" /\ cfg' = file /\ Reconcile(file)
    BY <1>1 DEF Start
  <2>2. \A c \in Names : /\ cert'[c].enabled = Configured(c)'
                         /\ Configured(c)' => cert'[c].want = cfg'[c].want
    BY <2>1, ReconciledRow DEF Configured, TypeOK
  <2> QED
    BY <2>1, <2>2 DEF ObtainIsAllowed, RowsFollowConfiguration
<1>2. CASE ~Start
  <2>1. cfg' = cfg /\ (up' /\ spent'["cli"] = 0 => up /\ spent["cli"] = 0)
    BY <1>0, <1>2, ConfigurationStep DEF CommandLine, processVars
  <2>2. spent'["cli"] = 0 =>
           \A c \in Names : cert'[c].enabled = cert[c].enabled /\ cert'[c].want = cert[c].want
    BY <1>0, <1>2, ConfigurationStep
  <2>3. RowsFollowConfiguration'
    BY <2>1, <2>2 DEF RowsFollowConfiguration, Configured
  <2>4. ASSUME pc' = "obtain"
        PROVE  Configured(CurCert)' /\ (cert'[CurCert'].enabled \/ spent'["cli"] > 0)
    <3>1. \/ pc = "obtain" /\ cur' = cur
          \/ Begin
      BY <2>4 DEF Next, Worker, Environment, EditConfig, CommandLine, Start, Cancel, Exit,
         Crash, Renew, BecomeDue, Tick, Recover, RecoverStops, Top, ClaimJob, ClaimNothing,
         Idle, List, ListFails, Scan, ScanDone, BeginFails, ObtainFails, PlaceOrder,
         OrderFails, OrderSucceeds, SaveFile, SaveDone, SaveFails, Publish, PublishFails,
         FinishJob, FinishFails, Announce, vars, workerVars, ProcessGone, Goto, Return, Fail,
         TypeOK
    <3>2. cur \in JobIds /\ cur' = cur /\ Configured(CurCert)
          /\ (cert[CurCert].enabled \/ spent["cli"] > 0)
      BY <3>1 DEF ObtainIsAllowed, WorkerHoldsJob, IssuePCs, Begin, Goto
    <3>3. CurCert' = CurCert /\ CurCert \in Names
      BY <3>2, RowsStay, RowType DEF CurCert, Jobs
    <3>4. Configured(CurCert)'
      BY <2>1, <3>2, <3>3 DEF Configured
    <3>5. cert'[CurCert].enabled \/ spent'["cli"] > 0
      BY <1>0, <1>2, <3>2, <3>3, ConfigurationStep
    <3> QED
      BY <3>3, <3>4, <3>5
  <2> QED
    BY <2>3, <2>4 DEF ObtainIsAllowed
<1> QED
    BY <1>1, <1>2

----------------------------------------------------------------------------
(* Theorems *)

(* The invariant holds when the server is first started.                   *)
LEMMA InitOutcomeInv == Init => OutcomeInv
<1> SUFFICES ASSUME Init PROVE OutcomeInv
    OBVIOUS
<1>1. JobIds = {} /\ DOMAIN versions = {}
    BY DEF Init, StoreInit, JobIds
<1>2. /\ pc = "off" /\ err = "none" /\ todo = {} /\ cut = {} /\ events = {} /\ ~up
      /\ \A c \in Names : cert[c].status = "pending"
    BY DEF Init, StoreInit
<1> QED
    BY <1>1, <1>2 DEF OutcomeInv, WorkerLocals, VersionsAreBacked, SuccessHasVersion,
       AnnounceMatchesRecord, EventsAreOfJobs, EventsMatchRecord, LaterJobsAreQueued,
       StatusTellsLastOutcome, RunningIsAccounted, CutIsInterrupted, SnapshotKnowsCut,
       ObtainIsAllowed, RowsFollowConfiguration, IssuePCs

(* Every step of the service keeps the invariant.                          *)
LEMMA NextOutcomeInv == IndInv /\ OutcomeInv /\ [Next]_vars => OutcomeInv'
<1> SUFFICES ASSUME IndInv, OutcomeInv, [Next]_vars PROVE OutcomeInv'
    OBVIOUS
<1>1. TypeOK /\ WorkerHoldsJob /\ NoOvertaking
    BY DEF IndInv
<1>2. /\ WorkerLocals /\ VersionsAreBacked /\ SuccessHasVersion /\ AnnounceMatchesRecord
      /\ EventsAreOfJobs /\ EventsMatchRecord /\ LaterJobsAreQueued /\ StatusTellsLastOutcome
      /\ RunningIsAccounted /\ CutIsInterrupted /\ SnapshotKnowsCut /\ ObtainIsAllowed
      /\ RowsFollowConfiguration
    BY DEF OutcomeInv
<1>3. WorkerLocals' /\ VersionsAreBacked' /\ SuccessHasVersion'
    BY <1>1, <1>2, WorkerLocalsStep, VersionsAreBackedStep, SuccessHasVersionStep
<1>4. AnnounceMatchesRecord' /\ EventsAreOfJobs' /\ EventsMatchRecord'
    BY <1>1, <1>2, AnnounceStep, EventsStep
<1>5. LaterJobsAreQueued' /\ StatusTellsLastOutcome'
    BY <1>1, <1>2, LaterJobsStep, StatusTellsStep
<1>6. RunningIsAccounted' /\ CutIsInterrupted' /\ SnapshotKnowsCut'
    BY <1>1, <1>2, RunningIsAccountedStep, CutStep, SnapshotStep
<1>7. ObtainIsAllowed' /\ RowsFollowConfiguration'
    BY <1>1, <1>2, ConfigurationInvStep
<1> QED
    BY <1>3, <1>4, <1>5, <1>6, <1>7 DEF OutcomeInv

(* Both invariants hold in every reachable state.                          *)
LEMMA OutcomeInvariance == Spec => [](IndInv /\ OutcomeInv)
BY Invariance, InitOutcomeInv, NextOutcomeInv, PTL DEF Spec

(* A job reported as succeeded has published a version of its certificate, *)
(* and every version row refers to a complete directory, whatever stops,   *)
(* kills and failed writes there were.                                     *)
THEOREM SuccessIsPublished == Spec => []SucceededJobIsPublished
<1>1. IndInv /\ OutcomeInv => SucceededJobIsPublished
    BY DEF OutcomeInv, SuccessHasVersion, VersionsAreBacked, SucceededJobIsPublished
<1> QED
    BY <1>1, OutcomeInvariance, PTL

(* "valid" and "error" on a certificate tell its last recorded outcome.    *)
THEOREM StatusIsTruthful == Spec => []StatusTellsLastOutcome
<1>1. IndInv /\ OutcomeInv => StatusTellsLastOutcome
    BY DEF OutcomeInv
<1> QED
    BY <1>1, OutcomeInvariance, PTL

(* Hooks and notifications never contradict the job table.                 *)
THEOREM EventsAreTruthful == Spec => []EventsMatchRecord
<1>1. IndInv /\ OutcomeInv => EventsMatchRecord
    BY DEF OutcomeInv
<1> QED
    BY <1>1, OutcomeInvariance, PTL

(* A graceful stop leaves no job "running" behind, except one whose Finish *)
(* failed or whose order a stop or a kill, this stop included, cut off.    *)
THEOREM GracefulStop == Spec => GracefulStopLeavesNothingRunning
<1>1. ASSUME IndInv, OutcomeInv, [Next]_vars, up, ~up', spent' = spent,
             NEW i \in JobIds, jobs[i].status = "running"
      PROVE  i \in lost \cup cut
  <2>1. ~Crash
    <3>1. SUFFICES ASSUME Crash PROVE FALSE
      OBVIOUS
    <3>2. spent["crash"] \in Nat /\ spent'["crash"] = spent["crash"] + 1
      BY <1>1, <3>1 DEF Crash, Spend, IndInv, TypeOK, BoundedEvents
    <3> QED
      BY <1>1, <3>2
  <2>2. Exit
    BY <1>1, <2>1 DEF Next, Worker, Environment, EditConfig, CommandLine, Start, Cancel,
       Renew, BecomeDue, Tick, Recover, RecoverStops, Top, ClaimJob, ClaimNothing,
       Idle, List, ListFails, Scan, ScanDone, Begin, BeginFails, ObtainFails, PlaceOrder,
       OrderFails, OrderSucceeds, SaveFile, SaveDone, SaveFails, Publish, PublishFails,
       FinishJob, FinishFails, Announce, vars, processVars
  <2>3. cur = 0 /\ i # 0
    BY <1>1, <2>2 DEF Exit, IndInv, WorkerHoldsJob, IssuePCs, JobIds
  <2> QED
    BY <1>1, <2>3 DEF OutcomeInv, RunningIsAccounted
<1>2. IndInv /\ OutcomeInv /\ [Next]_vars =>
        [up /\ ~up' /\ spent' = spent =>
           \A i \in JobIds : jobs[i].status = "running" => i \in lost \cup cut]_vars
    BY <1>1
<1> QED
    BY <1>2, OutcomeInvariance, PTL DEF Spec, GracefulStopLeavesNothingRunning

(* The scheduler never queues a certificate again by itself when its       *)
(* latest job was cut off, although it decides from an older snapshot.     *)
THEOREM CutOrderIsNotRetried == Spec => NoAutomaticRetry
<1>1. ASSUME IndInv, OutcomeInv, [Next]_vars, NEW i \in JobIds', i \notin JobIds,
             jobs'[i].kind = "scheduled", NEW k \in cut, jobs[k].cert = jobs'[i].cert
      PROVE  \E m \in JobIds : k < m /\ jobs[m].cert = jobs[k].cert
  <2>0. TypeOK /\ WorkerHoldsJob /\ jobs \in Seq(Jobs) /\ Len(jobs) \in Nat
    BY <1>1 DEF IndInv, TypeOK, StoreTypeOK
  <2>1. i = Len(jobs) + 1 /\ Len(jobs') = i
    BY <1>1, <2>0, EveryStepIsAStoreStep, NewRow
  <2>2. Len(jobs') # Len(jobs) /\ jobs' # jobs
    BY <2>0, <2>1
  <2>3. ~ClaimJob /\ ~Recover
    BY <2>0, <2>2, ClaimType, RecoverType DEF ClaimJob, Recover, TypeOK
  <2>4. ~FinishJob
    <3>1. SUFFICES ASSUME FinishJob PROVE FALSE
      OBVIOUS
    <3>2. cur \in JobIds /\ FinalError \in {"none", "plain", "interrupted"}
      BY <2>0, <3>1 DEF FinishJob, Goto, WorkerHoldsJob, FinalError, TypeOK, IssuePCs
    <3> QED
      BY <2>0, <2>2, <3>1, <3>2, FinishType DEF FinishJob, TypeOK
  <2>5. Scan \/ \E c \in Names : Renew(c)
    BY <1>1, <2>2, <2>3, <2>4
       DEF Next, Worker, Environment, EditConfig, CommandLine, Start, Cancel, Exit, Crash,
           BecomeDue, Tick, RecoverStops, Top, ClaimNothing, Idle,
           List, ListFails, ScanDone, Begin, BeginFails, ObtainFails, PlaceOrder,
           OrderFails, OrderSucceeds, SaveFile, SaveDone, SaveFails, Publish, PublishFails,
           FinishFails, Announce, vars, storeVars, Reconcile, AddVersion
  <2>6. ASSUME NEW c \in Names, Renew(c) PROVE FALSE
    <3>1. jobs' = Append(jobs, NewJob(c, "manual"))
      BY <2>2, <2>6 DEF Renew, Enqueue, Admit
    <3>2. jobs'[i] = NewJob(c, "manual")
      BY <2>0, <2>1, <3>1
    <3> QED
      BY <1>1, <3>2 DEF NewJob
  <2>7. PICK r \in todo : WantsIssuance(r) /\ Enqueue(r.cert, "scheduled")
    BY <2>2, <2>5, <2>6 DEF Scan, storeVars
  <2>8. jobs' = Append(jobs, NewJob(r.cert, "scheduled"))
    BY <2>2, <2>7 DEF Enqueue, Admit
  <2>9. jobs'[i] = NewJob(r.cert, "scheduled")
    BY <2>0, <2>1, <2>8
  <2>10. jobs'[i].cert = r.cert /\ ~r.held
    BY <2>7, <2>9 DEF NewJob, WantsIssuance
  <2> QED
    BY <1>1, <2>10 DEF OutcomeInv, SnapshotKnowsCut
<1>2. IndInv /\ OutcomeInv /\ [Next]_vars =>
        [\A i \in JobIds' \ JobIds : jobs'[i].kind = "scheduled" =>
           \A k \in cut : jobs[k].cert = jobs'[i].cert =>
              \E m \in JobIds : k < m /\ jobs[m].cert = jobs[k].cert]_vars
    BY <1>1
<1> QED
    BY <1>2, OutcomeInvariance, PTL DEF Spec, NoAutomaticRetry

(* No order is placed for a certificate that is disabled or removed,       *)
(* unless a command disabled it after the worker's check.                  *)
THEOREM DisabledIsNotOrdered == Spec => DisabledCertificateIsNotIssued
<1>1. ASSUME IndInv, OutcomeInv, [Next]_vars,
             NEW x \in DOMAIN orders', x \notin DOMAIN orders
      PROVE  LET c == jobs[orders'[x]].cert
             IN  Configured(c) /\ (cert[c].enabled \/ spent["cli"] > 0)
  <2>0. orders \in Seq(Nat) /\ cur \in Nat /\ Len(orders) \in Nat
    BY <1>1 DEF IndInv, TypeOK
  <2>1. orders' # orders
    BY <1>1
  <2>2. PlaceOrder
    BY <1>1, <2>1 DEF Next, Worker, Environment, EditConfig, CommandLine, Start, Cancel, Exit,
       Crash, Renew, BecomeDue, Tick, Recover, RecoverStops, Top, ClaimJob, ClaimNothing,
       Idle, List, ListFails, Scan, ScanDone, Begin, BeginFails, ObtainFails,
       OrderFails, OrderSucceeds, SaveFile, SaveDone, SaveFails, Publish, PublishFails,
       FinishJob, FinishFails, Announce, vars, historyVars
  <2>3. orders' = Append(orders, cur) /\ pc = "obtain"
    BY <2>2 DEF PlaceOrder, Goto
  <2>4. orders'[x] = cur
    BY <1>1, <2>0, <2>3
  <2> QED
    BY <1>1, <2>3, <2>4 DEF OutcomeInv, ObtainIsAllowed, CurCert
<1>2. IndInv /\ OutcomeInv /\ [Next]_vars =>
        [\A x \in DOMAIN orders' \ DOMAIN orders :
           LET c == jobs[orders'[x]].cert
           IN  Configured(c) /\ (cert[c].enabled \/ spent["cli"] > 0)]_vars
    BY <1>1
<1> QED
    BY <1>2, OutcomeInvariance, PTL DEF Spec, DisabledCertificateIsNotIssued

(* As long as no command reconciles another file under the server, every   *)
(* version it publishes covers what its certificate's row asks for.        *)
THEOREM ReplacementCoversRow == Spec => RestartedServerRepairsDrift
<1>1. ASSUME IndInv, OutcomeInv, [Next]_vars,
             NEW v \in DOMAIN versions', v \notin DOMAIN versions, spent["cli"] = 0
      PROVE  versions'[v].spec = cert'[versions'[v].cert].want
  <2>0. TypeOK /\ WorkerHoldsJob
    BY <1>1 DEF IndInv
  <2>1. Publish /\ versions'[v].cert = CurCert /\ versions'[v].spec = cfg[CurCert].want
    BY <1>1, <2>0, EveryStepIsAVersionStep DEF VersionStep
  <2>2. up /\ cur \in JobIds /\ cert[CurCert].enabled
        /\ cert' = [cert EXCEPT ![CurCert].status = "valid"]
    BY <2>0, <2>1 DEF Publish, Goto, AddVersion, WorkerHoldsJob, IssuePCs
  <2>3. CurCert \in Names /\ cert \in [Names -> Rows]
    BY <2>0, <2>2, RowType DEF CurCert, Jobs, TypeOK, StoreTypeOK
  <2>4. cert[CurCert].want = cfg[CurCert].want
    BY <1>1, <2>2, <2>3 DEF OutcomeInv, RowsFollowConfiguration
  <2>5. cert'[CurCert] = [cert[CurCert] EXCEPT !.status = "valid"] /\ cert[CurCert] \in Rows
    BY <2>2, <2>3
  <2>6. cert'[CurCert].want = cert[CurCert].want
    BY <2>5 DEF Rows
  <2> QED
    BY <2>1, <2>4, <2>6
<1>2. IndInv /\ OutcomeInv /\ [Next]_vars =>
        [\A v \in DOMAIN versions' \ DOMAIN versions :
           spent["cli"] = 0 => versions'[v].spec = cert'[versions'[v].cert].want]_vars
    BY <1>1
<1> QED
    BY <1>2, OutcomeInvariance, PTL DEF Spec, RestartedServerRepairsDrift

=============================================================================
