----------------------------- MODULE ClientSync -----------------------------
(***************************************************************************)
(* One certificate job of a client host (web/client/sync.sh): it asks the  *)
(* server for the bundle of the current version, deploys it to a           *)
(* destination directory, reloads a service and remembers the ETag.  Cron  *)
(* may start a run while an earlier one is active; flock 9 serializes the  *)
(* whole of sync.sh for the destination.  It is released with the process, *)
(* or with a child of the reload command that keeps descriptor 9 open.     *)
(*                                                                         *)
(* A run whose destination takes a private directory and a symlink         *)
(* ("atomic") moves a snapshot directory into place, renames one symlink   *)
(* to it and makes the outputs symlinks through that one; any other run    *)
(* ("copy") copies the files one by one over the outputs, with a backup.   *)
(* Every run finds out anew, so that a passing failure makes a run copy    *)
(* through the symlinks of an earlier one.                                 *)
(*                                                                         *)
(* A version of the certificate is a number, the ETag is its version (the  *)
(* set of artifacts of a job is fixed), and 0 stands for none.             *)
(***************************************************************************)
EXTENDS Naturals, Sequences, FiniteSets

CONSTANTS
    Runs,        \* runs of the job that cron may have active at once
    Outputs,     \* output file names
    Deployments, \* the kinds of destination considered
    MaxVersion,  \* bound of the versions the server publishes
    Bound        \* how often each event of the environment may happen

BoundedEvents == {"lose", "fault", "term", "kill"}

ASSUME SyncAssumption == IsFiniteSet(Runs) /\ IsFiniteSet(Outputs) /\ Outputs # {}
ASSUME DeploymentAssumption == Deployments \subseteq {"atomic", "copy"}
ASSUME VersionAssumption == MaxVersion \in Nat \ {0}
ASSUME SyncBoundAssumption == Bound \in [BoundedEvents -> Nat]

VARIABLES
    published,  \* server: the current version of the certificate
    supports,   \* the deployment the file system of the destination allows
    out,        \* the output files: absent, a regular file or a symlink
    snaps,      \* the snapshot directories ever created
    current,    \* target of the shared symlink, 0 when there is none
    previous,   \* target of the symlink .previous
    etag,       \* the saved validator
    loaded,     \* what the service read at its last reload
    inherited,  \* a process the reload command left behind holds the lock
    pc,         \* where each run is
    deployment, \* sync.sh: atomic or copy, none before the run has decided
    sent, got,  \* sync.sh: the validator sent, the version received
    snapshot, old_snapshot,
    backup,     \* sync.sh: contents of $temporary/backup
    done,       \* sync.sh: the outputs the loop has dealt with
    halfway,    \* history: how runs ended between two outputs since the
                \* last complete reload
    spent       \* how often each bounded event happened

disk == <<out, snaps, current, previous, etag>>
service == <<loaded, inherited>>
bundle == <<deployment, sent, got>>
progress == <<snapshot, old_snapshot, backup, done>>
locals == <<bundle, progress>>
vars == <<published, supports, disk, service, pc, locals, halfway, spent>>

Version == 0..MaxVersion
Torn == MaxVersion + 1     \* a file that was only partly copied

PCs == {"idle", "request", "unmodified", "unpack", "snapshot", "switch", "link",
        "backup", "copy", "reload", "retain", "relink", "save", "rollback"}

TypeOK ==
    /\ published \in Version \ {0}
    /\ supports \in {"atomic", "copy"}
    /\ out \in [Outputs -> [kind : {"none", "file", "link"}, version : Version \cup {Torn}]]
    /\ snaps \in Seq([files : [Outputs -> Version \cup {Torn}], there : BOOLEAN,
                      succeeded : BOOLEAN])
    /\ current \in 0..Len(snaps) /\ previous \in 0..Len(snaps)
    /\ etag \in Version /\ loaded \in Version \cup {Torn} /\ inherited \in BOOLEAN
    /\ pc \in [Runs -> PCs]
    /\ deployment \in [Runs -> {"none", "atomic", "copy"}]
    /\ sent \in [Runs -> Version] /\ got \in [Runs -> Version]
    /\ snapshot \in [Runs -> 0..Len(snaps)] /\ old_snapshot \in [Runs -> 0..Len(snaps)]
    /\ backup \in [Runs -> [Outputs -> Version \cup {Torn}]]
    /\ done \in [Runs -> SUBSET Outputs]
    /\ halfway \in SUBSET {"linking", "copying"}
    /\ spent \in [BoundedEvents -> Nat]

Spend(e) ==
    /\ spent[e] < Bound[e]
    /\ spent' = [spent EXCEPT ![e] = @ + 1]

Absent == [kind |-> "none", version |-> 0]
File(v) == IF v = 0 THEN Absent ELSE [kind |-> "file", version |-> v]
Link == [kind |-> "link", version |-> 0]

(* A fresh destination; prepare_job of the installer removes the validator.*)
Init ==
    /\ published = 1
    /\ supports \in Deployments
    /\ out = [o \in Outputs |-> Absent]
    /\ snaps = <<>> /\ current = 0 /\ previous = 0
    /\ etag = 0 /\ loaded = 0 /\ inherited = FALSE
    /\ pc = [r \in Runs |-> "idle"]
    /\ deployment = [r \in Runs |-> "none"]
    /\ sent = [r \in Runs |-> 0] /\ got = [r \in Runs |-> 0]
    /\ snapshot = [r \in Runs |-> 0] /\ old_snapshot = [r \in Runs |-> 0]
    /\ backup = [r \in Runs |-> [o \in Outputs |-> 0]]
    /\ done = [r \in Runs |-> {}]
    /\ halfway = {}
    /\ spent = [e \in BoundedEvents |-> 0]

----------------------------------------------------------------------------
(* What a reader of the destination finds: the version of an output, 0 if  *)
(* there is none or the symlink dangles.                                   *)
Content(o) ==
    CASE out[o].kind = "none" -> 0
      [] out[o].kind = "file" -> out[o].version
      [] out[o].kind = "link" ->
            IF current # 0 /\ snaps[current].there THEN snaps[current].files[o] ELSE 0

Shown(v) == \A o \in Outputs : Content(o) = v

(* cp -f to an output: a symlink is followed, into the current snapshot.   *)
Write(o, v) ==
    IF out[o].kind = "link"
    THEN snaps' = [snaps EXCEPT ![current].files[o] = v] /\ UNCHANGED out
    ELSE out' = [out EXCEPT ![o] = File(v)] /\ UNCHANGED snaps

Goto(r, from, to) == pc[r] = from /\ pc' = [pc EXCEPT ![r] = to]

(* The variables of the shell go with the process.                         *)
End(r) ==
    /\ pc' = [pc EXCEPT ![r] = "idle"]
    /\ deployment' = [deployment EXCEPT ![r] = "none"]
    /\ sent' = [sent EXCEPT ![r] = 0] /\ got' = [got EXCEPT ![r] = 0]
    /\ snapshot' = [snapshot EXCEPT ![r] = 0] /\ old_snapshot' = [old_snapshot EXCEPT ![r] = 0]
    /\ backup' = [backup EXCEPT ![r] = [o \in Outputs |-> 0]]
    /\ done' = [done EXCEPT ![r] = {}]

----------------------------------------------------------------------------
(* The server publishes a new version; versions are never withdrawn.       *)
Publish ==
    /\ published < MaxVersion
    /\ published' = published + 1
    /\ UNCHANGED <<supports, disk, service, pc, locals, halfway, spent>>

(* Somebody removes an output between two runs.                            *)
LoseOutput(o) ==
    /\ Spend("lose")
    /\ \A r \in Runs : pc[r] = "idle"
    /\ out' = [out EXCEPT ![o] = Absent]
    /\ UNCHANGED <<published, supports, snaps, current, previous, etag, service, pc, locals,
                   halfway>>

(* The last process that the reload command left behind ends.              *)
DaemonEnds ==
    /\ inherited
    /\ inherited' = FALSE
    /\ UNCHANGED <<published, supports, disk, loaded, pc, locals, halfway, spent>>

(* The deployment a run decides on: what the file system allows, or copy   *)
(* when making the private directory, its test file, its modes or the test *)
(* symlink fails this time.                                                *)
Decide(r) ==
    \/ deployment' = [deployment EXCEPT ![r] = supports] /\ UNCHANGED spent
    \/ supports = "atomic" /\ deployment' = [deployment EXCEPT ![r] = "copy"] /\ Spend("fault")

(* The saved validator, only used when every output exists.                *)
ChooseValidator(r) ==
    sent' = [sent EXCEPT ![r] = IF \A o \in Outputs : Content(o) # 0 THEN etag ELSE 0]

(* A plausible bug: runs of one job are not serialized.                    *)
MutBeginUnlocked(r) ==
    /\ Goto(r, "idle", "request")
    /\ Decide(r)
    /\ ChooseValidator(r)
    /\ UNCHANGED <<published, supports, disk, service, got, progress, halfway>>

(* Cron starts a run and it gets the lock.                                 *)
Begin(r) ==
    /\ Goto(r, "idle", "request")
    /\ ~inherited /\ \A q \in Runs : pc[q] = "idle"
    /\ Decide(r)
    /\ ChooseValidator(r)
    /\ UNCHANGED <<published, supports, disk, service, got, progress, halfway>>

(* downloadBundle: 304 for the validator of the current version.           *)
NotModified(r) ==
    /\ Goto(r, "request", "unmodified")
    /\ sent[r] = published
    /\ UNCHANGED <<published, supports, disk, service, locals, halfway, spent>>

Leave(r) ==
    /\ pc[r] = "unmodified"
    /\ End(r)
    /\ UNCHANGED <<published, supports, disk, service, halfway, spent>>

(* 200: every entry of the bundle is of one version.                       *)
Receive(r) ==
    /\ Goto(r, "request", "unpack")
    /\ sent[r] # published
    /\ got' = [got EXCEPT ![r] = published]
    /\ UNCHANGED <<published, supports, disk, service, deployment, sent, progress, halfway, spent>>

(* Every file is extracted and the key matches the certificate.            *)
Unpack(r) ==
    /\ Goto(r, "unpack", IF deployment[r] = "atomic" THEN "snapshot" ELSE "backup")
    /\ UNCHANGED <<published, supports, disk, service, locals, halfway, spent>>

----------------------------------------------------------------------------
(* Atomic deployment *)

MoveSnapshot(r) ==
    /\ Goto(r, "snapshot", "switch")
    /\ snaps' = Append(snaps, [files |-> [o \in Outputs |-> got[r]], there |-> TRUE,
                               succeeded |-> FALSE])
    /\ snapshot' = [snapshot EXCEPT ![r] = Len(snaps')]
    /\ old_snapshot' = [old_snapshot EXCEPT ![r] = current]
    /\ UNCHANGED <<published, supports, out, current, previous, etag, service, bundle, backup,
                   done, halfway, spent>>

Switch(r) ==
    /\ Goto(r, "switch", "link")
    /\ current' = snapshot[r]
    /\ UNCHANGED <<published, supports, out, snaps, previous, etag, service, locals, halfway,
                   spent>>

LinkOutput(r, o) ==
    /\ pc[r] = "link"
    /\ o \notin done[r]
    /\ out' = [out EXCEPT ![o] = Link]
    /\ done' = [done EXCEPT ![r] = @ \cup {o}]
    /\ UNCHANGED <<published, supports, snaps, current, previous, etag, service, pc, bundle,
                   snapshot, old_snapshot, backup, halfway, spent>>

----------------------------------------------------------------------------
(* Copy deployment *)

Backup(r) ==
    /\ Goto(r, "backup", "copy")
    /\ backup' = [backup EXCEPT ![r] = [o \in Outputs |-> Content(o)]]
    /\ UNCHANGED <<published, supports, disk, service, bundle, snapshot, old_snapshot, done,
                   halfway, spent>>

CopyOutput(r, o) ==
    /\ pc[r] = "copy"
    /\ o \notin done[r]
    /\ Write(o, got[r])
    /\ done' = [done EXCEPT ![r] = @ \cup {o}]
    /\ UNCHANGED <<published, supports, current, previous, etag, service, pc, bundle, snapshot,
                   old_snapshot, backup, halfway, spent>>

OutputsDone(r) ==
    /\ \E from \in {"link", "copy"} : Goto(r, from, "reload")
    /\ done[r] = Outputs
    /\ UNCHANGED <<published, supports, disk, service, locals, halfway, spent>>

----------------------------------------------------------------------------
(* Reload, retention and validator *)

(* The reload command exits with 0; a process it leaves behind inherits    *)
(* the descriptor of the lock.                                             *)
Reload(r) ==
    /\ Goto(r, "reload", IF deployment[r] = "atomic" /\ old_snapshot[r] # 0 THEN "retain"
                                                                          ELSE "save")
    /\ loaded' = Content(CHOOSE o \in Outputs : TRUE)
    /\ inherited' \in BOOLEAN
    /\ snaps' = [s \in DOMAIN snaps |->
                   IF s = current /\ \E o \in Outputs : out[o].kind = "link"
                   THEN [snaps[s] EXCEPT !.succeeded = TRUE] ELSE snaps[s]]
    /\ halfway' = {}
    /\ UNCHANGED <<published, supports, out, current, previous, etag, locals, spent>>

(* rm -rf of what .previous points to, unless it is still in use.          *)
RemoveOlder(r) ==
    /\ Goto(r, "retain", "relink")
    /\ snaps' = [s \in DOMAIN snaps |->
                   IF s \in {previous} \ {old_snapshot[r], snapshot[r]}
                   THEN [snaps[s] EXCEPT !.there = FALSE] ELSE snaps[s]]
    /\ UNCHANGED <<published, supports, out, current, previous, etag, service, locals, halfway,
                   spent>>

RelinkPrevious(r) ==
    /\ Goto(r, "relink", "save")
    /\ previous' = old_snapshot[r]
    /\ UNCHANGED <<published, supports, out, snaps, current, etag, service, locals, halfway, spent>>

(* Only after deployment and reload have succeeded.                        *)
SaveEtag(r) ==
    /\ pc[r] = "save"
    /\ etag' = got[r]
    /\ End(r)
    /\ UNCHANGED <<published, supports, out, snaps, current, previous, service, halfway, spent>>

----------------------------------------------------------------------------
(* Failures *)

(* A plausible bug: rollback is armed only after the copies are complete.  *)
MutRollbackArmed(r) == pc[r] = "reload" /\ deployment[r] = "copy"

(* The variable rollback.                                                  *)
RollbackArmed(r) == pc[r] \in {"copy", "reload"} /\ deployment[r] = "copy"

(* A cp that fails or is stopped may leave the output partly written.      *)
TearOutput(r) ==
    \/ UNCHANGED <<out, snaps>>
    \/ /\ pc[r] \in {"copy", "rollback"}
       /\ \E o \in Outputs \ done[r] :
            (pc[r] = "rollback" => backup[r][o] # 0) /\ Write(o, Torn)

(* A reload command that fails or is stopped may have had its effect and   *)
(* may leave a process behind.                                             *)
ReloadCut(r) ==
    IF pc[r] = "reload"
    THEN loaded' \in {loaded, Content(CHOOSE o \in Outputs : TRUE)} /\ inherited' \in BOOLEAN
    ELSE UNCHANGED service

(* What a run leaves that ends here without a rollback.                    *)
Left(r, copying) ==
    {how \in {"linking", "copying"} :
        IF how = "copying" THEN pc[r] \in copying
        ELSE pc[r] = "link" /\ \E o \in Outputs : out[o].kind # "link"}

(* The script exits early: the EXIT trap rolls back if that is armed, and  *)
(* a trap that is itself interrupted is not run again.  A snapshot that    *)
(* was moved into place stays.                                             *)
Abort(r) ==
    /\ TearOutput(r)
    /\ ReloadCut(r)
    /\ IF RollbackArmed(r)
       THEN /\ pc' = [pc EXCEPT ![r] = "rollback"]
            /\ done' = [done EXCEPT ![r] = {}]
            /\ UNCHANGED <<bundle, snapshot, old_snapshot, backup>>
       ELSE End(r)
    /\ halfway' = halfway \cup Left(r, {"rollback"})
    /\ UNCHANGED <<published, supports, current, previous, etag>>

(* A plausible bug: the validator is saved as soon as the files are out.   *)
MutFailsSavesEtag(r) ==
    /\ Spend("fault")
    /\ pc[r] = "reload"
    /\ ReloadCut(r)
    /\ IF RollbackArmed(r)
       THEN /\ pc' = [pc EXCEPT ![r] = "rollback"]
            /\ done' = [done EXCEPT ![r] = {}]
            /\ UNCHANGED <<bundle, snapshot, old_snapshot, backup>>
       ELSE End(r)
    /\ etag' = got[r]
    /\ UNCHANGED <<published, supports, out, snaps, current, previous, halfway>>

(* A command fails under set -e: download, extraction, a file operation or *)
(* the reload command.                                                     *)
Fails(r) ==
    /\ Spend("fault")
    /\ pc[r] \notin {"idle", "unmodified", "rollback"}
    /\ Abort(r)

(* TERM, INT or HUP; the traps stay armed during the rollback.             *)
Terminate(r) ==
    /\ Spend("term")
    /\ pc[r] # "idle"
    /\ Abort(r)

(* The rollback: an output gets its backup back, one that had none is      *)
(* removed.                                                                *)
Restore(r, o) ==
    /\ pc[r] = "rollback"
    /\ o \notin done[r]
    /\ IF backup[r][o] # 0 THEN Write(o, backup[r][o])
                           ELSE out' = [out EXCEPT ![o] = Absent] /\ UNCHANGED snaps
    /\ done' = [done EXCEPT ![r] = @ \cup {o}]
    /\ UNCHANGED <<published, supports, current, previous, etag, service, pc, bundle, snapshot,
                   old_snapshot, backup, halfway, spent>>

(* A copy that fails is passed over (|| true); rm ends the trap.           *)
RestoreFails(r, o) ==
    /\ Spend("fault")
    /\ pc[r] = "rollback"
    /\ o \notin done[r]
    /\ IF backup[r][o] # 0
       THEN /\ Write(o, Torn) \/ UNCHANGED <<out, snaps>>
            /\ done' = [done EXCEPT ![r] = @ \cup {o}]
            /\ UNCHANGED <<pc, bundle, snapshot, old_snapshot, backup>>
       ELSE End(r) /\ UNCHANGED <<out, snaps>>
    /\ halfway' = halfway \cup {"copying"}
    /\ UNCHANGED <<published, supports, current, previous, etag, service>>

Restored(r) ==
    /\ pc[r] = "rollback"
    /\ done[r] = Outputs
    /\ End(r)
    /\ UNCHANGED <<published, supports, disk, service, halfway, spent>>

(* SIGKILL or a power loss.                                                *)
Kill(r) ==
    /\ Spend("kill")
    /\ pc[r] # "idle"
    /\ TearOutput(r)
    /\ ReloadCut(r)
    /\ End(r)
    /\ halfway' = halfway \cup Left(r, {"copy", "rollback"})
    /\ UNCHANGED <<published, supports, current, previous, etag>>

----------------------------------------------------------------------------

(* The steps of a run but for the reload command.                          *)
Proceed(r) ==
    \/ NotModified(r) \/ Leave(r) \/ Receive(r) \/ Unpack(r)
    \/ MoveSnapshot(r) \/ Switch(r) \/ Backup(r)
    \/ (\E o \in Outputs : LinkOutput(r, o) \/ CopyOutput(r, o) \/ Restore(r, o))
    \/ OutputsDone(r) \/ Restored(r)
    \/ RemoveOlder(r) \/ RelinkPrevious(r) \/ SaveEtag(r)

Interrupt(r) ==
    \/ Fails(r) \/ Terminate(r) \/ Kill(r)
    \/ \E o \in Outputs : RestoreFails(r, o)

Next ==
    \/ Publish \/ DaemonEnds
    \/ \E o \in Outputs : LoseOutput(o)
    \/ \E r \in Runs : Begin(r) \/ Proceed(r) \/ Reload(r) \/ Interrupt(r)

Spec == Init /\ [][Next]_vars

(* Cron starts the job again and again, and a run that nothing stops goes  *)
(* on: curl is limited to 120 seconds and the other commands are local.    *)
(* The reload command has no timeout and what it leaves behind need not    *)
(* end, so neither is fair, and nothing is assumed of the server's         *)
(* releases.                                                               *)
FairSpec ==
    /\ Spec
    /\ WF_vars(\E r \in Runs : Begin(r))
    /\ \A r \in Runs : WF_vars(Proceed(r))

----------------------------------------------------------------------------
(* Properties *)

(* Not recovered from: a run that replaces a removed output by copies and  *)
(* is killed, or whose rollback fails or is interrupted, leaves torn or    *)
(* mixed files beside a validator that is already the current one.         *)
DamagedInRepair == "copying" \in halfway /\ spent["lose"] > 0

(* "Not modified" is the truth: when the server answers 304, every output  *)
(* of the destination is of the server's current version, whatever runs    *)
(* were terminated, failed or were killed before, whichever deployment     *)
(* they chose (but for DamagedInRepair).                                   *)
NotModifiedIsTrue ==
    [][\A r \in Runs : pc[r] = "request" /\ pc'[r] = "unmodified" =>
          Shown(published) \/ DamagedInRepair]_vars

(* Once every output is a symlink, a reader finds a complete set of one    *)
(* version unless a run is copying through the symlinks or rolling back,   *)
(* or one of these was cut short and no reload has completed since: no     *)
(* other step, failure or retention leaves a mixed or dangling set.        *)
LinkedSetIsWhole ==
    /\ \A o \in Outputs : out[o].kind = "link"
    /\ "copying" \notin halfway
    /\ \A r \in Runs : pc[r] \notin {"copy", "rollback"}
    => \E v \in Version \ {0} : Shown(v)

(* Between runs the outputs are of one version, unless a run ended between *)
(* two of them: a kill of a run that was copying or rolling back, a failed *)
(* or interrupted rollback, or the end of a run that was turning the       *)
(* outputs into symlinks.  Every other failure and signal is rolled back.  *)
(* Only an output that was removed may be missing beside the others.       *)
SetIsWhole ==
    halfway = {} /\ (\A r \in Runs : pc[r] = "idle") =>
        \E v \in Version : \A o \in Outputs :
            Content(o) = v \/ (spent["lose"] > 0 /\ Content(o) = 0)

(* With either deployment readers find whole sets.                         *)
DeployedSetIsWhole == TypeOK /\ LinkedSetIsWhole /\ SetIsWhole

(* The service never goes back to an older version and never loads a mixed *)
(* or torn set, and only a rollback takes a reader back, to what the       *)
(* output was before the run: neither runs that overlap, nor failures,     *)
(* signals, kills and the cleanup after them can undo what a later run     *)
(* deployed.  Only a file that somebody removes is missed.                 *)
NothingGoesBack ==
    [][/\ loaded' # loaded => loaded < loaded' /\ Shown(loaded')
       /\ spent'["lose"] = spent["lose"] =>
              \A o \in Outputs :
                  \/ Content(o) <= Content(o)' \/ Content(o) = Torn
                  \/ \E r \in Runs : pc[r] = "rollback" /\ Content(o)' = backup[r][o]]_vars

(* The current and previous successful snapshots are retained: .previous   *)
(* names a snapshot whose deployment succeeded.                            *)
PreviousSnapshotSucceeded == previous # 0 => snaps[previous].succeeded

(* No reload command hangs for ever and what they leave behind lets go of  *)
(* the lock: the code ensures neither.                                     *)
LockIsReturned == (\A r \in Runs : []<>(pc[r] # "reload")) /\ []<>~inherited

(* As long as the lock is returned, every published version, or a newer    *)
(* one, is eventually deployed and loaded by the service, whatever failed  *)
(* meanwhile.                                                              *)
EventuallyDeployed ==
    LockIsReturned =>
        \A v \in 1..MaxVersion :
            (published = v) ~> \/ loaded \in v..MaxVersion /\ \E w \in v..MaxVersion : Shown(w)
                               \/ DamagedInRepair

=============================================================================
