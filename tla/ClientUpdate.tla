---------------------------- MODULE ClientUpdate ----------------------------
(***************************************************************************)
(* The auto-updating client of one host (web/client): cron jobs that share *)
(* a client directory run launcher.sh, which calls update.sh and then      *)
(* executes sync.sh of the installed version.  update.lock serializes the  *)
(* updaters; run.lock is held shared by every running sync and exclusively *)
(* while versions are switched and pruned.                                 *)
(*                                                                         *)
(* flock releases a lock with the process that holds it, so the locks are  *)
(* derived from the program counters.  A version directory is a position   *)
(* of dirs.  The signature, hash, size and syntax checks are a step that   *)
(* may fail; what they reject is not modelled.                             *)
(***************************************************************************)
EXTENDS Naturals, Sequences, FiniteSets

CONSTANTS
    Launchers,  \* cron jobs that share the client directory
    Revisions,  \* client revisions the server may offer
    FailDelay,  \* back-off after a failed check: one hour
    OkDelay,    \* pause after a successful check: one day
    MaxTime,    \* bound of the clock
    Budgets     \* how often each event of the environment may happen, one choice per load

BoundedEvents == {"launch", "release", "request", "fault", "term", "kill"}

ASSUME LaunchersAssumption == IsFiniteSet(Launchers)
ASSUME DelayAssumption == FailDelay \in Nat \ {0} /\ OkDelay \in Nat /\ FailDelay <= OkDelay /\ MaxTime \in Nat
ASSUME BudgetsAssumption == Budgets \subseteq [BoundedEvents -> Nat]

VARIABLES
    offered,    \* the revision the server serves
    dirs,       \* the version-* directories ever created
    current,    \* target of the symlink current
    previous,   \* target of the symlink previous, 0 when there is none
    nextCheck,  \* the file next-check
    now,        \* date +%s
    pc,         \* where each launcher is
    rev,        \* update.sh: $revision
    start,      \* update.sh: $now
    cand,       \* update.sh: $candidate, 0 when empty
    prev,       \* update.sh: $previous
    exe,        \* the version whose sync.sh runs
    checks,     \* history: when checks were started since the last request
    passed,     \* history: the checks among them that succeeded
    left        \* how often each bounded event may still happen

files == <<dirs, current, previous, nextCheck>>
locals == <<rev, start, cand, prev, exe>>
history == <<checks, passed>>
vars == <<offered, files, now, pc, locals, history, left>>

(* update.sh from flock -x 8 to its end, and its part under the run lock.  *)
UpdatePCs == {"check", "manifest", "download", "staging", "runlock", "locked", "switched",
              "link", "prune", "record", "unchanged"}
ExclusivePCs == {"locked", "switched", "link", "prune", "record"}

Dirs == [rev : Revisions \cup {"bootstrap"}, state : {"partial", "complete", "gone"}]

TypeOK ==
    /\ offered \in Revisions
    /\ dirs \in Seq(Dirs)
    /\ current \in 1..Len(dirs)
    /\ previous \in 0..Len(dirs)
    /\ nextCheck \in Nat /\ now \in Nat
    /\ pc \in [Launchers -> {"idle", "lock", "run", "sync"} \cup UpdatePCs]
    /\ rev \in [Launchers -> Revisions]
    /\ start \in [Launchers -> Nat]
    /\ cand \in [Launchers -> Nat] /\ prev \in [Launchers -> Nat] /\ exe \in [Launchers -> Nat]
    /\ checks \in Seq(Nat)
    /\ passed \subseteq Nat
    /\ left \in [BoundedEvents -> Nat]

Spend(e) ==
    /\ left[e] > 0
    /\ left' = [left EXCEPT ![e] = @ - 1]

(* prepare_auto_update of the installer: bootstrap version, check at once. *)
Init ==
    /\ offered \in Revisions
    /\ dirs = <<[rev |-> "bootstrap", state |-> "complete"]>>
    /\ current = 1 /\ previous = 0
    /\ nextCheck = 0 /\ now = 0
    /\ pc = [p \in Launchers |-> "idle"]
    /\ rev = [p \in Launchers |-> offered]
    /\ start = [p \in Launchers |-> 0]
    /\ cand = [p \in Launchers |-> 0] /\ prev = [p \in Launchers |-> 0]
    /\ exe = [p \in Launchers |-> 0]
    /\ checks = <<>> /\ passed = {}
    /\ left \in Budgets

----------------------------------------------------------------------------
(* Locks and paths *)

UpdateLockFree == \A q \in Launchers : pc[q] \notin UpdatePCs

SyncRuns == \E q \in Launchers : pc[q] = "sync"

Runnable(d) == dirs[d].state = "complete"

Goto(p, from, to) == pc[p] = from /\ pc' = [pc EXCEPT ![p] = to]

(* cleanup: remove the candidate unless the variable was cleared.          *)
Cleanup(p) ==
    /\ dirs' = [d \in DOMAIN dirs |->
                  IF d = cand[p] THEN [dirs[d] EXCEPT !.state = "gone"] ELSE dirs[d]]
    /\ cand' = [cand EXCEPT ![p] = 0]

----------------------------------------------------------------------------
(* Environment *)

Tick ==
    /\ now < MaxTime
    /\ now' = now + 1
    /\ UNCHANGED <<offered, files, pc, locals, history, left>>

(* A new server release serves another archive, and only that one.         *)
Release ==
    /\ Spend("release")
    /\ offered' \in Revisions \ {offered}
    /\ UNCHANGED <<files, now, pc, locals, history>>

(* install.sh --update-client-only: next-check is reset under update.lock. *)
RequestCheck ==
    /\ Spend("request")
    /\ UpdateLockFree
    /\ nextCheck' = 0
    /\ checks' = <<>> /\ passed' = {}
    /\ UNCHANGED <<offered, dirs, current, previous, now, pc, locals>>

(* The job's wrapper executes current/launcher.sh, which calls             *)
(* current/update.sh.                                                      *)
Launch(p) ==
    /\ Spend("launch")
    /\ Goto(p, "idle", "lock")
    /\ Runnable(current)
    /\ UNCHANGED <<offered, files, now, locals, history>>

(* TERM, INT or HUP: the trap exits and cleans up, after the command that  *)
(* is running; before the traps are set there is no candidate.  The signal *)
(* may reach the updater alone, or the launcher as well.                   *)
Terminate(p) ==
    /\ Spend("term")
    /\ pc[p] \in {"lock"} \cup UpdatePCs
    /\ \E to \in {"run", "idle"} : pc' = [pc EXCEPT ![p] = to]
    /\ Cleanup(p)
    /\ UNCHANGED <<offered, current, previous, nextCheck, now, rev, start, prev, exe, history>>

(* SIGKILL or a power loss: nothing is cleaned up.                         *)
Kill(p) ==
    /\ Spend("kill")
    /\ pc[p] # "idle"
    /\ pc' = [pc EXCEPT ![p] = "idle"]
    /\ cand' = [cand EXCEPT ![p] = 0]
    /\ exe' = [exe EXCEPT ![p] = 0]
    /\ UNCHANGED <<offered, files, now, rev, start, prev, history>>

----------------------------------------------------------------------------
(* update.sh *)

AcquireUpdateLock(p) ==
    /\ Goto(p, "lock", "check")
    /\ UpdateLockFree
    /\ UNCHANGED <<offered, files, now, locals, history, left>>

Throttled(p) ==
    /\ Goto(p, "check", "run")
    /\ now < nextCheck
    /\ UNCHANGED <<offered, files, now, locals, history, left>>

(* A plausible bug: the back-off is only written once the check has failed *)
(* in an orderly way.                                                      *)
MutBackOffLate(p) ==
    /\ Goto(p, "check", "manifest")
    /\ now >= nextCheck
    /\ start' = [start EXCEPT ![p] = now]
    /\ checks' = Append(checks, now)
    /\ UNCHANGED <<offered, files, now, rev, cand, prev, exe, passed, left>>

(* The failure back-off is persisted before any network work.              *)
BackOff(p) ==
    /\ Goto(p, "check", "manifest")
    /\ now >= nextCheck
    /\ nextCheck' = now + FailDelay
    /\ start' = [start EXCEPT ![p] = now]
    /\ checks' = Append(checks, now)
    /\ UNCHANGED <<offered, dirs, current, previous, now, rev, cand, prev, exe, passed, left>>

(* The manifest verifies; an unchanged revision downloads no archive, a    *)
(* missing revision file does.                                             *)
Manifest(p) ==
    /\ pc[p] = "manifest"
    /\ rev' = [rev EXCEPT ![p] = offered]
    /\ pc' = [pc EXCEPT ![p] = IF Runnable(current) /\ dirs[current].rev = offered
                               THEN "unchanged" ELSE "download"]
    /\ UNCHANGED <<offered, files, now, start, cand, prev, exe, history, left>>

(* The archive of the manifest's revision is still served and verifies.    *)
Download(p) ==
    /\ Goto(p, "download", "staging")
    /\ rev[p] = offered
    /\ dirs' = Append(dirs, [rev |-> rev[p], state |-> "partial"])
    /\ cand' = [cand EXCEPT ![p] = Len(dirs')]
    /\ UNCHANGED <<offered, current, previous, nextCheck, now, rev, start, prev, exe, history, left>>

(* Every script and the revision file are in the candidate.                *)
Stage(p) ==
    /\ Goto(p, "staging", "runlock")
    /\ dirs' = [dirs EXCEPT ![cand[p]].state = "complete"]
    /\ UNCHANGED <<offered, current, previous, nextCheck, now, locals, history, left>>

(* A plausible bug: the run lock is requested as a shared one.             *)
MutAcquireRunLockShared(p) ==
    /\ Goto(p, "runlock", "locked")
    /\ UNCHANGED <<offered, files, now, locals, history, left>>

AcquireRunLock(p) ==
    /\ Goto(p, "runlock", "locked")
    /\ ~SyncRuns
    /\ UNCHANGED <<offered, files, now, locals, history, left>>

(* A plausible bug: flock -x without -w waits for the sync to end.         *)
MutRunLockWaits(p) ==
    /\ FALSE
    /\ UNCHANGED vars

(* flock -x -w 5: a busy sync postpones the update.                        *)
RunLockTimeout(p) ==
    /\ Goto(p, "runlock", "run")
    /\ SyncRuns
    /\ Cleanup(p)
    /\ UNCHANGED <<offered, current, previous, nextCheck, now, rev, start, prev, exe, history, left>>

(* readlink current, then the atomic rename over current.                  *)
Switch(p) ==
    /\ Goto(p, "locked", "switched")
    /\ prev' = [prev EXCEPT ![p] = current]
    /\ current' = cand[p]
    /\ UNCHANGED <<offered, dirs, previous, nextCheck, now, rev, start, cand, exe, history, left>>

ClearCandidate(p) ==
    /\ Goto(p, "switched", "link")
    /\ cand' = [cand EXCEPT ![p] = 0]
    /\ UNCHANGED <<offered, files, now, rev, start, prev, exe, history, left>>

LinkPrevious(p) ==
    /\ Goto(p, "link", "prune")
    /\ previous' = prev[p]
    /\ UNCHANGED <<offered, dirs, current, nextCheck, now, locals, history, left>>

(* A plausible bug: only the active version is spared.                     *)
MutRetainedCurrentOnly(p) == {current}

(* The versions the loop over version-* skips.                             *)
Retained(p) == {current, prev[p]}

Prune(p, d) ==
    /\ pc[p] = "prune"
    /\ d \notin Retained(p)
    /\ dirs[d].state # "gone"
    /\ dirs' = [dirs EXCEPT ![d].state = "gone"]
    /\ UNCHANGED <<offered, current, previous, nextCheck, now, pc, locals, history, left>>

PruneDone(p) ==
    /\ Goto(p, "prune", "record")
    /\ \A d \in DOMAIN dirs \ Retained(p) : dirs[d].state = "gone"
    /\ UNCHANGED <<offered, files, now, locals, history, left>>

(* A successful check; the script ends and releases both locks.            *)
Record(p) ==
    /\ \E from \in {"record", "unchanged"} : Goto(p, from, "run")
    /\ nextCheck' = start[p] + OkDelay
    /\ passed' = passed \cup {start[p]}
    /\ UNCHANGED <<offered, dirs, current, previous, now, locals, checks, left>>

(* A network, verification, staging or file error ends the script through  *)
(* its EXIT trap; clearing the candidate cannot fail.                      *)
CheckFails(p) ==
    /\ pc[p] \in UpdatePCs \ {"check", "runlock", "switched"}
    /\ \/ pc[p] = "download" /\ rev[p] # offered /\ UNCHANGED left
       \/ Spend("fault")
    /\ pc' = [pc EXCEPT ![p] = "run"]
    /\ Cleanup(p)
    /\ UNCHANGED <<offered, current, previous, nextCheck, now, rev, start, prev, exe, history>>

----------------------------------------------------------------------------
(* launcher.sh goes on whatever update.sh returned *)

(* flock -s 7, then exec current/sync.sh.                                  *)
RunSync(p) ==
    /\ Goto(p, "run", "sync")
    /\ \A q \in Launchers : pc[q] \notin ExclusivePCs
    /\ Runnable(current)
    /\ exe' = [exe EXCEPT ![p] = current]
    /\ UNCHANGED <<offered, files, now, rev, start, cand, prev, history, left>>

ExecFails(p) ==
    /\ Goto(p, "run", "idle")
    /\ \A q \in Launchers : pc[q] \notin ExclusivePCs
    /\ ~Runnable(current)
    /\ UNCHANGED <<offered, files, now, locals, history, left>>

(* A reload command may keep a sync running for any time.                  *)
SyncEnds(p) ==
    /\ Goto(p, "sync", "idle")
    /\ exe' = [exe EXCEPT ![p] = 0]
    /\ UNCHANGED <<offered, files, now, rev, start, cand, prev, history, left>>

----------------------------------------------------------------------------

Update(p) ==
    \/ AcquireUpdateLock(p) \/ Throttled(p) \/ BackOff(p)
    \/ Manifest(p) \/ Download(p) \/ Stage(p)
    \/ AcquireRunLock(p) \/ RunLockTimeout(p)
    \/ Switch(p) \/ ClearCandidate(p) \/ LinkPrevious(p)
    \/ (\E d \in DOMAIN dirs : Prune(p, d)) \/ PruneDone(p) \/ Record(p)
    \/ CheckFails(p)

Step(p) == Update(p) \/ RunSync(p) \/ ExecFails(p)

Next ==
    \/ \E p \in Launchers : Step(p) \/ SyncEnds(p) \/ Launch(p) \/ Terminate(p) \/ Kill(p)
    \/ Tick \/ Release \/ RequestCheck

Spec == Init /\ [][Next]_vars

(* The scripts run and their network calls have timeouts.  Nothing is      *)
(* assumed of the end of a sync: its reload command has no timeout.        *)
FairSpec == Spec /\ \A p \in Launchers : WF_vars(Step(p))

----------------------------------------------------------------------------
(* Properties *)

(* A failed or interrupted update does not prevent sync: current leads to  *)
(* a complete version, whenever an updater is stopped.                     *)
InstalledClientRuns == Runnable(current)

(* An active sync holds the run lock, so that no update switches or prunes *)
(* the version it executes.                                                *)
SyncKeepsItsVersion ==
    /\ TypeOK
    /\ \A p \in Launchers : pc[p] = "sync" => exe[p] = current /\ Runnable(exe[p])

(* The previous version can be rolled back to: the link does not dangle.   *)
RollbackTargetExists == previous # 0 => Runnable(previous)

(* A signal handled between the switch and the clearing of the candidate.  *)
SignalAfterSwitch ==
    \E p \in Launchers : pc[p] = "switched" /\ left'["term"] # left["term"]

(* Both links lead to complete versions and stay so through kills, faults  *)
(* and signals at every command of every job: only a signal handled right  *)
(* after the switch breaks current, and previous only follows what such a  *)
(* signal had already removed.                                             *)
LinksStaySound ==
    [][/\ InstalledClientRuns => InstalledClientRuns' \/ SignalAfterSwitch
       /\ RollbackTargetExists =>
            \/ RollbackTargetExists' \/ SignalAfterSwitch
            \/ \E p \in Launchers : pc[p] = "link" /\ ~Runnable(prev[p])]_vars

(* Checks are throttled across all jobs of the host: one hour after one    *)
(* that failed or was interrupted, one day after one that succeeded.       *)
ChecksAreThrottled ==
    \A i, j \in DOMAIN checks : i < j =>
        /\ checks[j] >= checks[i] + FailDelay
        /\ checks[i] \in passed => checks[j] >= checks[i] + OkDelay

(* A job whose update waits behind another updater or a hanging sync still *)
(* gets to its own sync, unless it is itself stopped or the script of its  *)
(* version cannot be executed (ExecFails).                                 *)
EveryJobSyncs ==
    \A p \in Launchers : (pc[p] = "lock") ~> (pc[p] \in {"sync", "idle"})

=============================================================================
