------------------------- MODULE ClientUpdateProofs -------------------------
(***************************************************************************)
(* Theorems about the auto-updating client, for any number of jobs on a    *)
(* host: the version a sync runs from stays, the links are only broken by  *)
(* the one signal that the model-checked counterexample shows, and checks  *)
(* are throttled.                                                          *)
(***************************************************************************)
EXTENDS ClientUpdate, TLAPS

PCs == {"idle", "lock", "run", "sync"} \cup UpdatePCs

(* update.lock is held by one updater, and run.lock exclusively or shared. *)
OneUpdater == \A p, q \in Launchers : pc[p] \in UpdatePCs /\ pc[q] \in UpdatePCs => p = q

RunLockIsExclusive == (\E p \in Launchers : pc[p] \in ExclusivePCs) => ~SyncRuns

(* Until it is switched to, a candidate is no version that a link leads    *)
(* to; the previous version is then remembered and linked.                 *)
CandidateIsApart(p) ==
    /\ pc[p] \notin {"staging", "runlock", "locked", "switched"} => cand[p] = 0
    /\ pc[p] \in {"staging", "runlock", "locked"} =>
         cand[p] \in DOMAIN dirs /\ cand[p] \notin {current, previous}
    /\ pc[p] \in {"runlock", "locked"} => Runnable(cand[p])
    /\ pc[p] = "switched" => cand[p] = current
    /\ pc[p] \in {"switched", "link", "prune", "record"} => prev[p] \in DOMAIN dirs
    /\ pc[p] = "prune" => previous = prev[p]

SyncIsOfCurrent(p) == pc[p] = "sync" => exe[p] = current /\ Runnable(current)

(* next-check is late enough for every check so far, and the check under   *)
(* way is the last of them.                                                *)
NextCheckIsLate ==
    /\ \A i \in DOMAIN checks :
         /\ checks[i] + FailDelay <= nextCheck
         /\ checks[i] \in passed => checks[i] + OkDelay <= nextCheck
    /\ \A t \in passed : \E i \in DOMAIN checks : checks[i] = t
    /\ \A p \in Launchers : pc[p] \in UpdatePCs \ {"check"} =>
         checks # <<>> /\ start[p] = checks[Len(checks)]

ClientInv ==
    /\ TypeOK
    /\ OneUpdater /\ RunLockIsExclusive
    /\ \A p \in Launchers : CandidateIsApart(p) /\ SyncIsOfCurrent(p)
    /\ NextCheckIsLate /\ ChecksAreThrottled

----------------------------------------------------------------------------
(* Version directories *)

LEMMA UpdateAtKeepsSeq ==
    ASSUME NEW S, NEW s \in Seq(S), NEW t, DOMAIN t = DOMAIN s, t = [d \in DOMAIN s |-> t[d]],
           \A d \in DOMAIN s : t[d] \in S
    PROVE  t \in Seq(S) /\ Len(t) = Len(s)
<1>1. Len(s) \in Nat /\ DOMAIN s = 1..Len(s)
    OBVIOUS
<1>2. t \in [1..Len(s) -> S]
    BY <1>1
<1>3. t \in Seq(S)
    BY <1>1, <1>2
<1> QED
    BY <1>1, <1>3

(* A directory is a record; changing its state leaves it one.              *)
LEMMA DirWithState ==
    ASSUME NEW d \in Dirs, NEW s \in {"partial", "complete", "gone"}
    PROVE  [d EXCEPT !.state = s] \in Dirs /\ [d EXCEPT !.state = s].state = s
BY DEF Dirs

LEMMA CleanupIs ==
    ASSUME TypeOK, NEW p \in Launchers, Cleanup(p)
    PROVE  /\ dirs' \in Seq(Dirs) /\ Len(dirs') = Len(dirs) /\ DOMAIN dirs' = DOMAIN dirs
           /\ \A d \in DOMAIN dirs : d # cand[p] => dirs'[d] = dirs[d]
           /\ cand' = [cand EXCEPT ![p] = 0] /\ cand' \in [Launchers -> Nat]
<1>1. dirs \in Seq(Dirs) /\ cand \in [Launchers -> Nat] /\ \A d \in DOMAIN dirs : dirs[d] \in Dirs
    BY DEF TypeOK
<1>2. dirs' = [d \in DOMAIN dirs |->
                  IF d = cand[p] THEN [dirs[d] EXCEPT !.state = "gone"] ELSE dirs[d]]
      /\ cand' = [cand EXCEPT ![p] = 0]
    BY DEF Cleanup
<1>3. DOMAIN dirs' = DOMAIN dirs /\ (\A d \in DOMAIN dirs : d # cand[p] => dirs'[d] = dirs[d])
      /\ dirs' = [d \in DOMAIN dirs |-> dirs'[d]]
    BY <1>2
<1>4. \A d \in DOMAIN dirs : dirs'[d] \in Dirs
    BY <1>1, <1>2, DirWithState
<1>5. dirs' \in Seq(Dirs) /\ Len(dirs') = Len(dirs)
    BY <1>1, <1>3, <1>4, UpdateAtKeepsSeq
<1> QED
    BY <1>1, <1>2, <1>3, <1>5

(* Changing the state of one directory leaves the others alone.            *)
Marked(d, s) == dirs' = [dirs EXCEPT ![d].state = s]

LEMMA ChangeOfStateIs ==
    ASSUME TypeOK, NEW d, NEW s \in {"partial", "complete", "gone"}, Marked(d, s)
    PROVE  /\ dirs' \in Seq(Dirs) /\ Len(dirs') = Len(dirs) /\ DOMAIN dirs' = DOMAIN dirs
           /\ \A e \in DOMAIN dirs : e # d => dirs'[e] = dirs[e]
           /\ d \in DOMAIN dirs => dirs'[d].state = s
<1>1. dirs \in Seq(Dirs) /\ \A e \in DOMAIN dirs : dirs[e] \in Dirs
    BY DEF TypeOK
<1>2. DOMAIN dirs' = DOMAIN dirs /\ (\A e \in DOMAIN dirs : e # d => dirs'[e] = dirs[e])
      /\ (d \in DOMAIN dirs => dirs'[d] = [dirs[d] EXCEPT !.state = s])
      /\ dirs' = [e \in DOMAIN dirs |-> dirs'[e]]
    BY <1>1 DEF Marked
<1>3. \A e \in DOMAIN dirs : dirs'[e] \in Dirs
    BY <1>1, <1>2, DirWithState DEF Marked
<1>4. dirs' \in Seq(Dirs) /\ Len(dirs') = Len(dirs)
    BY <1>1, <1>2, <1>3, UpdateAtKeepsSeq
<1>5. d \in DOMAIN dirs => dirs'[d].state = s
    BY <1>1, <1>2, DirWithState DEF Marked
<1> QED
    BY <1>2, <1>4, <1>5

----------------------------------------------------------------------------
(* Locks *)

(* A launcher that moves takes update.lock when nobody has it, run.lock    *)
(* exclusively when no sync runs, and shared when nobody has it so.        *)
LEMMA LocksKeep ==
    ASSUME ClientInv, NEW p \in Launchers, NEW to \in PCs, pc' = [pc EXCEPT ![p] = to],
           to \in UpdatePCs => pc[p] \in UpdatePCs \/ UpdateLockFree,
           to \in ExclusivePCs => pc[p] \in ExclusivePCs \/ ~SyncRuns,
           to = "sync" => \A q \in Launchers : pc[q] \notin ExclusivePCs
    PROVE  /\ pc' \in [Launchers -> PCs] /\ pc'[p] = to
           /\ \A q \in Launchers : q # p => pc'[q] = pc[q]
           /\ OneUpdater' /\ RunLockIsExclusive'
<1>1. pc \in [Launchers -> PCs]
    BY DEF ClientInv, TypeOK, PCs
<1>2. pc' \in [Launchers -> PCs] /\ pc'[p] = to /\ \A q \in Launchers : q # p => pc'[q] = pc[q]
    BY <1>1
<1>3. OneUpdater'
    BY <1>2 DEF ClientInv, OneUpdater, UpdateLockFree
<1>4. RunLockIsExclusive'
  <2>1. ExclusivePCs \subseteq UpdatePCs /\ "sync" \notin ExclusivePCs
    BY DEF ExclusivePCs, UpdatePCs
  <2> QED
    BY <1>2, <2>1 DEF ClientInv, RunLockIsExclusive, SyncRuns
<1> QED
    BY <1>2, <1>3, <1>4

(* A launcher's move does not disturb the others: an updater has the       *)
(* version directories to itself, anybody else leaves them alone.          *)
LEMMA OthersKeep ==
    ASSUME ClientInv, NEW p \in Launchers, \A q \in Launchers : q # p => pc'[q] = pc[q],
           \A q \in Launchers : q # p => cand'[q] = cand[q] /\ prev'[q] = prev[q] /\ exe'[q] = exe[q],
           pc[p] \in UpdatePCs \/ UNCHANGED <<dirs, current, previous>>,
           pc[p] \in ExclusivePCs \/ (current' = current /\ dirs'[current] = dirs[current])
    PROVE  \A q \in Launchers : q # p => CandidateIsApart(q)' /\ SyncIsOfCurrent(q)'
<1> SUFFICES ASSUME NEW q \in Launchers, q # p
             PROVE  CandidateIsApart(q)' /\ SyncIsOfCurrent(q)'
    OBVIOUS
<1>1. CandidateIsApart(q) /\ SyncIsOfCurrent(q) /\ OneUpdater /\ RunLockIsExclusive
    BY DEF ClientInv
<1>2. CandidateIsApart(q)'
  <2>1. CASE UNCHANGED <<dirs, current, previous>>
    BY <1>1, <2>1 DEF CandidateIsApart, Runnable
  <2>2. CASE pc[p] \in UpdatePCs
    <3>1. pc[q] \notin UpdatePCs
      BY <1>1, <2>2 DEF OneUpdater
    <3>2. pc[q] \notin {"staging", "runlock", "locked", "switched", "link", "prune", "record"}
      BY <3>1 DEF UpdatePCs
    <3> QED
      BY <1>1, <3>2 DEF CandidateIsApart
  <2> QED
    BY <2>1, <2>2
<1>3. SyncIsOfCurrent(q)'
  <2>1. CASE pc[p] \in ExclusivePCs
    BY <1>1, <2>1 DEF RunLockIsExclusive, SyncRuns, SyncIsOfCurrent
  <2>2. CASE current' = current /\ dirs'[current] = dirs[current]
    BY <1>1, <2>2 DEF SyncIsOfCurrent, Runnable
  <2> QED
    BY <2>1, <2>2
<1> QED
    BY <1>2, <1>3

(* Moves that leave the checks alone, by a launcher that is not past its   *)
(* own check unless it was before.                                         *)
LEMMA ThrottleKeeps ==
    ASSUME ClientInv, UNCHANGED <<nextCheck, checks, passed, start>>,
           \A q \in Launchers : pc'[q] \in UpdatePCs \ {"check"} => pc[q] \in UpdatePCs \ {"check"}
    PROVE  NextCheckIsLate' /\ ChecksAreThrottled'
BY DEF ClientInv, NextCheckIsLate, ChecksAreThrottled

(* A launcher that is not updating leaves files and variables alone but    *)
(* for the version it runs.                                                *)
LEMMA PlainMoveKeeps ==
    ASSUME ClientInv, NEW p \in Launchers, NEW to \in PCs, pc' = [pc EXCEPT ![p] = to],
           UNCHANGED <<files, history, start, prev>>, offered' \in Revisions, now' \in Nat,
           rev' \in [Launchers -> Revisions], left' \in [BoundedEvents -> Nat],
           to \in UpdatePCs => pc[p] \in UpdatePCs \/ UpdateLockFree,
           to \in ExclusivePCs => pc[p] \in ExclusivePCs \/ ~SyncRuns,
           to = "sync" => /\ \A q \in Launchers : pc[q] \notin ExclusivePCs
                          /\ exe'[p] = current /\ Runnable(current),
           to \in UpdatePCs \ {"check"} => pc[p] \in UpdatePCs \ {"check"},
           NEW c \in Nat, cand' = [cand EXCEPT ![p] = c],
           NEW e \in Nat, exe' = [exe EXCEPT ![p] = e],
           CandidateIsApart(p)'
    PROVE  ClientInv'
<1>0. TypeOK
    BY DEF ClientInv
<1>1. pc' \in [Launchers -> PCs] /\ pc'[p] = to /\ (\A q \in Launchers : q # p => pc'[q] = pc[q])
      /\ OneUpdater' /\ RunLockIsExclusive'
    BY LocksKeep
<1>2. cand' \in [Launchers -> Nat] /\ exe' \in [Launchers -> Nat]
      /\ \A q \in Launchers : q # p => cand'[q] = cand[q] /\ exe'[q] = exe[q]
    BY <1>0 DEF TypeOK
<1>3. TypeOK'
    BY <1>0, <1>1, <1>2 DEF TypeOK, files, history, PCs
<1>4. \A q \in Launchers : q # p => CandidateIsApart(q)' /\ SyncIsOfCurrent(q)'
    BY <1>1, <1>2, OthersKeep DEF files
<1>5. SyncIsOfCurrent(p)'
    BY <1>1 DEF SyncIsOfCurrent, Runnable, files
<1>6. NextCheckIsLate' /\ ChecksAreThrottled'
    BY <1>1, ThrottleKeeps DEF files, history
<1> QED
    BY <1>1, <1>3, <1>4, <1>5, <1>6 DEF ClientInv

LEMMA SpendIs ==
    ASSUME TypeOK, NEW e \in BoundedEvents, Spend(e)
    PROVE  left' \in [BoundedEvents -> Nat] /\ left'[e] # left[e]
<1>1. left[e] \in Nat /\ left[e] > 0 /\ left' = [left EXCEPT ![e] = left[e] - 1]
    BY DEF TypeOK, Spend
<1>2. left[e] - 1 \in Nat
    BY <1>1
<1> QED
    BY <1>1, <1>2 DEF TypeOK

(* The steps that only move a launcher and its variables.                  *)
LEMMA PlainStepKeeps ==
    ASSUME ClientInv, NEW p \in Launchers,
           \/ Launch(p) \/ Kill(p) \/ SyncEnds(p) \/ RunSync(p) \/ ExecFails(p)
           \/ AcquireUpdateLock(p) \/ Throttled(p) \/ Manifest(p) \/ AcquireRunLock(p)
           \/ ClearCandidate(p) \/ PruneDone(p)
    PROVE  ClientInv'
<1> USE DEF UpdatePCs, ExclusivePCs, PCs
<1>0. /\ TypeOK /\ CandidateIsApart(p)
      /\ pc \in [Launchers -> PCs] /\ cand \in [Launchers -> Nat] /\ exe \in [Launchers -> Nat]
      /\ rev \in [Launchers -> Revisions] /\ offered \in Revisions /\ now \in Nat
      /\ left \in [BoundedEvents -> Nat] /\ current \in Nat
    BY DEF ClientInv, TypeOK
<1>1. cand = [cand EXCEPT ![p] = cand[p]] /\ exe = [exe EXCEPT ![p] = exe[p]]
      /\ cand[p] \in Nat /\ exe[p] \in Nat
    BY <1>0
<1>2. CASE Launch(p)
  <2>1. left' \in [BoundedEvents -> Nat]
    BY <1>0, <1>2, SpendIs DEF Launch, BoundedEvents
  <2>2. CandidateIsApart(p)'
    BY <1>0, <1>2 DEF Launch, Goto, CandidateIsApart, files, locals
  <2> QED
    BY <1>0, <1>1, <1>2, <2>1, <2>2, PlainMoveKeeps DEF Launch, Goto, locals
<1>3. CASE Kill(p)
  <2>1. left' \in [BoundedEvents -> Nat]
    BY <1>0, <1>3, SpendIs DEF Kill, BoundedEvents
  <2>2. CandidateIsApart(p)'
    BY <1>0, <1>3 DEF Kill, CandidateIsApart
  <2> QED
    BY <1>0, <1>1, <1>3, <2>1, <2>2, PlainMoveKeeps DEF Kill
<1>4. CASE SyncEnds(p)
  <2>1. CandidateIsApart(p)'
    BY <1>0, <1>4 DEF SyncEnds, Goto, CandidateIsApart
  <2> QED
    BY <1>0, <1>1, <1>4, <2>1, PlainMoveKeeps DEF SyncEnds, Goto
<1>5. CASE RunSync(p)
  <2>1. CandidateIsApart(p)'
    BY <1>0, <1>5 DEF RunSync, Goto, CandidateIsApart
  <2>2. exe'[p] = current
    BY <1>0, <1>5 DEF RunSync
  <2> QED
    BY <1>0, <1>1, <1>5, <2>1, <2>2, PlainMoveKeeps DEF RunSync, Goto
<1>6. CASE ExecFails(p)
  <2>1. CandidateIsApart(p)'
    BY <1>0, <1>6 DEF ExecFails, Goto, CandidateIsApart, locals
  <2> QED
    BY <1>0, <1>1, <1>6, <2>1, PlainMoveKeeps DEF ExecFails, Goto, locals
<1>7. CASE AcquireUpdateLock(p)
  <2>1. CandidateIsApart(p)'
    BY <1>0, <1>7 DEF AcquireUpdateLock, Goto, CandidateIsApart, locals
  <2> QED
    BY <1>0, <1>1, <1>7, <2>1, PlainMoveKeeps DEF AcquireUpdateLock, Goto, locals
<1>8. CASE Throttled(p)
  <2>1. CandidateIsApart(p)'
    BY <1>0, <1>8 DEF Throttled, Goto, CandidateIsApart, locals
  <2> QED
    BY <1>0, <1>1, <1>8, <2>1, PlainMoveKeeps DEF Throttled, Goto, locals
<1>9. CASE Manifest(p)
  <2>1. PICK to \in {"unchanged", "download"} : pc' = [pc EXCEPT ![p] = to]
    BY <1>9 DEF Manifest
  <2>2. CandidateIsApart(p)'
    BY <1>0, <1>9, <2>1 DEF Manifest, CandidateIsApart
  <2>3. rev' \in [Launchers -> Revisions]
    BY <1>0, <1>9 DEF Manifest
  <2> QED
    BY <1>0, <1>1, <1>9, <2>1, <2>2, <2>3, PlainMoveKeeps DEF Manifest
<1>10. CASE AcquireRunLock(p)
  <2>1. CandidateIsApart(p)'
    BY <1>0, <1>10 DEF AcquireRunLock, Goto, CandidateIsApart, Runnable, locals, files
  <2> QED
    BY <1>0, <1>1, <1>10, <2>1, PlainMoveKeeps DEF AcquireRunLock, Goto, locals
<1>11. CASE ClearCandidate(p)
  <2>1. CandidateIsApart(p)'
    BY <1>0, <1>11 DEF ClearCandidate, Goto, CandidateIsApart, files
  <2> QED
    BY <1>0, <1>1, <1>11, <2>1, PlainMoveKeeps DEF ClearCandidate, Goto
<1>12. CASE PruneDone(p)
  <2>1. CandidateIsApart(p)'
    BY <1>0, <1>12 DEF PruneDone, Goto, CandidateIsApart, locals, files
  <2> QED
    BY <1>0, <1>1, <1>12, <2>1, PlainMoveKeeps DEF PruneDone, Goto, locals
<1> QED
    BY <1>2, <1>3, <1>4, <1>5, <1>6, <1>7, <1>8, <1>9, <1>10, <1>11, <1>12

----------------------------------------------------------------------------
(* Steps of an updater that change the version directories or the links *)

(* What is left to show of such a step, by a launcher that has update.lock.*)
LEMMA UpdaterMoveKeeps ==
    ASSUME ClientInv, NEW p \in Launchers, NEW to \in PCs \ {"sync"}, pc' = [pc EXCEPT ![p] = to],
           pc[p] \in UpdatePCs \/ UNCHANGED <<dirs, current, previous>>,
           to \in UpdatePCs => pc[p] \in UpdatePCs,
           to \in ExclusivePCs => pc[p] \in ExclusivePCs,
           to \in UpdatePCs \ {"check"} => pc[p] \in UpdatePCs \ {"check"},
           UNCHANGED <<offered, now, rev, start, exe, nextCheck, checks, passed>>,
           left' \in [BoundedEvents -> Nat],
           dirs' \in Seq(Dirs), Len(dirs') >= Len(dirs),
           current' \in 1..Len(dirs'), previous' \in 0..Len(dirs'),
           NEW c \in Nat, cand' = [cand EXCEPT ![p] = c],
           NEW v \in Nat, prev' = [prev EXCEPT ![p] = v],
           pc[p] \in ExclusivePCs \/ (current' = current /\ dirs'[current] = dirs[current]),
           CandidateIsApart(p)'
    PROVE  ClientInv'
<1>0. TypeOK
    BY DEF ClientInv
<1>1. pc' \in [Launchers -> PCs] /\ pc'[p] = to /\ (\A q \in Launchers : q # p => pc'[q] = pc[q])
      /\ OneUpdater' /\ RunLockIsExclusive'
    BY LocksKeep
<1>2. /\ cand' \in [Launchers -> Nat] /\ prev' \in [Launchers -> Nat]
      /\ \A q \in Launchers : q # p => cand'[q] = cand[q] /\ prev'[q] = prev[q] /\ exe'[q] = exe[q]
    BY <1>0 DEF TypeOK
<1>3. TypeOK'
    BY <1>0, <1>1, <1>2 DEF TypeOK, PCs
<1>4. \A q \in Launchers : q # p => CandidateIsApart(q)' /\ SyncIsOfCurrent(q)'
    BY <1>1, <1>2, OthersKeep
<1>5. SyncIsOfCurrent(p)'
    BY <1>1 DEF SyncIsOfCurrent
<1>6. NextCheckIsLate' /\ ChecksAreThrottled'
    BY <1>1, ThrottleKeeps
<1> QED
    BY <1>1, <1>3, <1>4, <1>5, <1>6 DEF ClientInv

(* What cleanup removes is the candidate, never a version in use, but for  *)
(* the moment after the switch, when no sync runs.                         *)
LEMMA CleanupKeeps ==
    ASSUME ClientInv, NEW p \in Launchers, Terminate(p) \/ RunLockTimeout(p) \/ CheckFails(p)
    PROVE  ClientInv'
<1> USE DEF UpdatePCs, ExclusivePCs, PCs
<1>0. TypeOK /\ CandidateIsApart(p) /\ current \in 1..Len(dirs) /\ previous \in 0..Len(dirs)
      /\ Len(dirs) \in Nat /\ pc \in [Launchers -> PCs] /\ prev \in [Launchers -> Nat]
      /\ DOMAIN dirs = 1..Len(dirs)
    BY DEF ClientInv, TypeOK
<1>1. pc[p] \in {"lock"} \cup UpdatePCs /\ Cleanup(p)
      /\ UNCHANGED <<offered, current, previous, nextCheck, now, rev, start, prev, exe, history>>
    BY <1>0 DEF Terminate, RunLockTimeout, CheckFails, Goto
<1>2. PICK to \in {"run", "idle"} : pc' = [pc EXCEPT ![p] = to]
    BY DEF Terminate, RunLockTimeout, CheckFails, Goto
<1>3. left' \in [BoundedEvents -> Nat]
    BY <1>0, SpendIs DEF Terminate, RunLockTimeout, CheckFails, BoundedEvents, TypeOK
<1>4. /\ dirs' \in Seq(Dirs) /\ Len(dirs') = Len(dirs) /\ DOMAIN dirs' = DOMAIN dirs
      /\ \A d \in DOMAIN dirs : d # cand[p] => dirs'[d] = dirs[d]
      /\ cand' = [cand EXCEPT ![p] = 0]
    BY <1>0, <1>1, CleanupIs
<1>5. pc'[p] = to /\ cand'[p] = 0
    BY <1>0, <1>2, <1>4 DEF TypeOK
<1>6. CandidateIsApart(p)'
    BY <1>5 DEF CandidateIsApart
<1>7. pc[p] \in ExclusivePCs \/ dirs'[current] = dirs[current]
  <2>1. pc[p] = "switched" \/ cand[p] # current
    BY <1>0, <1>1 DEF CandidateIsApart
  <2> QED
    BY <1>0, <1>4, <2>1
<1>8. pc[p] \in UpdatePCs \/ UNCHANGED dirs
  <2>1. CASE pc[p] = "lock"
    <3>1. cand[p] = 0
      BY <1>0, <2>1 DEF CandidateIsApart
    <3>2. dirs' = [d \in DOMAIN dirs |-> dirs[d]]
      BY <1>0, <1>1, <3>1 DEF Cleanup
    <3>3. dirs = [d \in DOMAIN dirs |-> dirs[d]]
      BY <1>0 DEF TypeOK
    <3> QED
      BY <3>2, <3>3
  <2> QED
    BY <1>1, <2>1
<1>9. prev' = [prev EXCEPT ![p] = prev[p]] /\ prev[p] \in Nat /\ Len(dirs') >= Len(dirs)
      /\ current' \in 1..Len(dirs') /\ previous' \in 0..Len(dirs')
    BY <1>0, <1>1, <1>4
<1> HIDE DEF UpdatePCs, ExclusivePCs, PCs
<1>10. to \in PCs \ {"sync"} /\ to \notin UpdatePCs /\ to \notin ExclusivePCs
    BY <1>2 DEF UpdatePCs, ExclusivePCs, PCs
<1> QED
    BY <1>1, <1>2, <1>3, <1>4, <1>6, <1>7, <1>8, <1>9, <1>10, UpdaterMoveKeeps DEF history

LEMMA DirectoryStepKeeps ==
    ASSUME ClientInv, NEW p \in Launchers,
           Download(p) \/ Stage(p) \/ Switch(p) \/ LinkPrevious(p) \/ \E d \in DOMAIN dirs : Prune(p, d)
    PROVE  ClientInv'
<1>0. TypeOK /\ CandidateIsApart(p) /\ current \in 1..Len(dirs) /\ previous \in 0..Len(dirs)
      /\ Len(dirs) \in Nat /\ pc \in [Launchers -> PCs] /\ prev \in [Launchers -> Nat]
      /\ cand \in [Launchers -> Nat] /\ DOMAIN dirs = 1..Len(dirs) /\ dirs \in Seq(Dirs)
      /\ left \in [BoundedEvents -> Nat]
    BY DEF ClientInv, TypeOK, PCs
<1>1. cand = [cand EXCEPT ![p] = cand[p]] /\ prev = [prev EXCEPT ![p] = prev[p]]
      /\ cand[p] \in Nat /\ prev[p] \in Nat
    BY <1>0
<1>2. {"staging", "runlock", "locked", "switched", "link", "prune"} \subseteq PCs \ {"sync"}
      /\ {"download", "staging", "runlock", "locked", "switched", "link", "prune"} \subseteq UpdatePCs \ {"check"}
      /\ {"staging", "runlock"} \cap ExclusivePCs = {}
      /\ {"locked", "switched", "link", "prune"} \subseteq ExclusivePCs
    BY DEF PCs, UpdatePCs, ExclusivePCs
<1>3. CASE Download(p)
  <2>1. PICK n : n = Len(dirs) + 1
    OBVIOUS
  <2>2. PICK new : new = [rev |-> rev[p], state |-> "partial"]
    OBVIOUS
  <2>3. new \in Dirs
    BY <1>0, <2>2 DEF TypeOK, Dirs
  <2>4. dirs' = Append(dirs, new)
    BY <1>3, <2>2 DEF Download
  <2>5. dirs' \in Seq(Dirs) /\ Len(dirs') = n /\ (\A d \in DOMAIN dirs : dirs'[d] = dirs[d])
        /\ DOMAIN dirs' = 1..n
    BY <1>0, <2>1, <2>3, <2>4
  <2>6. /\ pc[p] = "download" /\ pc' = [pc EXCEPT ![p] = "staging"]
        /\ cand' = [cand EXCEPT ![p] = n]
        /\ UNCHANGED <<offered, current, previous, nextCheck, now, rev, start, prev, exe, history, left>>
    BY <1>3, <2>5 DEF Download, Goto
  <2>7. pc'[p] = "staging" /\ cand'[p] = n /\ n \in Nat /\ n \notin {current, previous}
    BY <1>0, <2>1, <2>6
  <2>8. CandidateIsApart(p)'
    BY <1>0, <2>1, <2>5, <2>6, <2>7 DEF CandidateIsApart
  <2>9. Len(dirs') >= Len(dirs) /\ current' \in 1..Len(dirs') /\ previous' \in 0..Len(dirs')
        /\ dirs'[current] = dirs[current]
    BY <1>0, <2>1, <2>5, <2>6
  <2> QED
    BY <1>0, <1>1, <1>2, <2>5, <2>6, <2>7, <2>8, <2>9, UpdaterMoveKeeps DEF history
<1>4. CASE Stage(p)
  <2>1. /\ pc[p] = "staging" /\ pc' = [pc EXCEPT ![p] = "runlock"] /\ Marked(cand[p], "complete")
        /\ UNCHANGED <<offered, current, previous, nextCheck, now, locals, history, left>>
    BY <1>4 DEF Stage, Goto, Marked
  <2>2. /\ dirs' \in Seq(Dirs) /\ Len(dirs') = Len(dirs) /\ DOMAIN dirs' = DOMAIN dirs
        /\ \A e \in DOMAIN dirs : e # cand[p] => dirs'[e] = dirs[e]
        /\ cand[p] \in DOMAIN dirs => dirs'[cand[p]].state = "complete"
    BY <1>0, <2>1, ChangeOfStateIs
  <2>3. cand[p] \in DOMAIN dirs /\ cand[p] \notin {current, previous} /\ pc'[p] = "runlock"
    BY <1>0, <2>1 DEF CandidateIsApart
  <2>4. CandidateIsApart(p)'
    BY <2>1, <2>2, <2>3 DEF CandidateIsApart, Runnable, locals
  <2>5. Len(dirs') >= Len(dirs) /\ current' \in 1..Len(dirs') /\ previous' \in 0..Len(dirs')
        /\ dirs'[current] = dirs[current]
    <3>1. current \in DOMAIN dirs /\ current # cand[p]
      BY <1>0, <2>3
    <3>2. dirs'[current] = dirs[current]
      BY <2>2, <3>1
    <3>3. Len(dirs') >= Len(dirs) /\ current' \in 1..Len(dirs') /\ previous' \in 0..Len(dirs')
      BY <1>0, <2>1, <2>2
    <3> QED
      BY <3>2, <3>3
  <2> QED
    BY <1>0, <1>1, <1>2, <2>1, <2>2, <2>4, <2>5, UpdaterMoveKeeps DEF history, locals
<1>5. CASE Switch(p)
  <2>1. /\ pc[p] = "locked" /\ pc' = [pc EXCEPT ![p] = "switched"]
        /\ prev' = [prev EXCEPT ![p] = current] /\ current' = cand[p]
        /\ UNCHANGED <<offered, dirs, previous, nextCheck, now, rev, start, cand, exe, history, left>>
    BY <1>5 DEF Switch, Goto
  <2>2. pc'[p] = "switched" /\ prev'[p] = current /\ cand[p] \in DOMAIN dirs /\ current \in Nat
    BY <1>0, <2>1 DEF CandidateIsApart
  <2>3. CandidateIsApart(p)'
    BY <1>0, <2>1, <2>2 DEF CandidateIsApart
  <2>4. Len(dirs') >= Len(dirs) /\ current' \in 1..Len(dirs') /\ previous' \in 0..Len(dirs')
    BY <1>0, <2>1, <2>2
  <2> QED
    BY <1>0, <1>1, <1>2, <2>1, <2>2, <2>3, <2>4, UpdaterMoveKeeps DEF history
<1>6. CASE LinkPrevious(p)
  <2>1. /\ pc[p] = "link" /\ pc' = [pc EXCEPT ![p] = "prune"] /\ previous' = prev[p]
        /\ UNCHANGED <<offered, dirs, current, nextCheck, now, locals, history, left>>
    BY <1>6 DEF LinkPrevious, Goto
  <2>2. pc'[p] = "prune" /\ prev[p] \in DOMAIN dirs
    BY <1>0, <2>1 DEF CandidateIsApart
  <2>3. CandidateIsApart(p)'
    BY <1>0, <2>1, <2>2 DEF CandidateIsApart, locals
  <2>4. Len(dirs') >= Len(dirs) /\ current' \in 1..Len(dirs') /\ previous' \in 0..Len(dirs')
    BY <1>0, <2>1, <2>2
  <2> QED
    BY <1>0, <1>1, <1>2, <2>1, <2>3, <2>4, UpdaterMoveKeeps DEF history, locals
<1>7. ASSUME NEW d \in DOMAIN dirs, Prune(p, d) PROVE ClientInv'
  <2>1. /\ pc[p] = "prune" /\ pc' = [pc EXCEPT ![p] = "prune"] /\ Marked(d, "gone")
        /\ UNCHANGED <<offered, current, previous, nextCheck, now, pc, locals, history, left>>
    BY <1>0, <1>7 DEF Prune, Marked
  <2>2. /\ dirs' \in Seq(Dirs) /\ Len(dirs') = Len(dirs) /\ DOMAIN dirs' = DOMAIN dirs
    BY <1>0, <2>1, ChangeOfStateIs
  <2>3. CandidateIsApart(p)'
    BY <1>0, <2>1, <2>2 DEF CandidateIsApart, locals
  <2>4. Len(dirs') >= Len(dirs) /\ current' \in 1..Len(dirs') /\ previous' \in 0..Len(dirs')
    BY <1>0, <2>1, <2>2
  <2> QED
    BY <1>0, <1>1, <1>2, <2>1, <2>2, <2>3, <2>4, UpdaterMoveKeeps DEF history, locals
<1> QED
    BY <1>3, <1>4, <1>5, <1>6, <1>7

----------------------------------------------------------------------------
(* Throttling *)

(* A check begins when next-check has passed; the new next-check is late   *)
(* enough for it and for those before.                                     *)
LEMMA BackOffKeeps ==
    ASSUME ClientInv, NEW p \in Launchers, BackOff(p)
    PROVE  ClientInv'
<1>0. TypeOK /\ now \in Nat /\ nextCheck \in Nat /\ now >= nextCheck /\ checks \in Seq(Nat)
      /\ Len(checks) \in Nat /\ DOMAIN checks = 1..Len(checks) /\ passed \subseteq Nat
      /\ pc \in [Launchers -> PCs] /\ start \in [Launchers -> Nat]
      /\ (\A i \in DOMAIN checks : checks[i] \in Nat)
      /\ FailDelay \in Nat /\ FailDelay > 0 /\ OkDelay \in Nat /\ FailDelay <= OkDelay
    BY DelayAssumption DEF ClientInv, TypeOK, BackOff, PCs
<1>1. /\ pc[p] = "check" /\ pc' = [pc EXCEPT ![p] = "manifest"]
      /\ nextCheck' = now + FailDelay /\ start' = [start EXCEPT ![p] = now]
      /\ checks' = Append(checks, now)
      /\ UNCHANGED <<offered, dirs, current, previous, now, rev, cand, prev, exe, passed, left>>
    BY DEF BackOff, Goto
<1>2. "check" \in UpdatePCs /\ "manifest" \in UpdatePCs /\ "manifest" \notin ExclusivePCs
      /\ "manifest" \in PCs /\ "manifest" \notin {"sync", "check"}
    BY DEF UpdatePCs, ExclusivePCs, PCs
<1>3. pc' \in [Launchers -> PCs] /\ pc'[p] = "manifest" /\ (\A q \in Launchers : q # p => pc'[q] = pc[q])
      /\ OneUpdater' /\ RunLockIsExclusive'
    BY <1>1, <1>2, LocksKeep
<1>4. PICK n \in Nat : n = Len(checks) + 1
    BY <1>0
<1>5. /\ checks' \in Seq(Nat) /\ Len(checks') = n /\ DOMAIN checks' = 1..n
      /\ checks'[n] = now /\ \A i \in DOMAIN checks : checks'[i] = checks[i]
    BY <1>0, <1>1, <1>4
<1>6. start' \in [Launchers -> Nat] /\ start'[p] = now
    BY <1>0, <1>1
<1>7. TypeOK'
  <2>1. nextCheck' \in Nat
    BY <1>0, <1>1
  <2> QED
    BY <1>0, <1>1, <1>3, <1>5, <1>6, <2>1 DEF TypeOK, PCs
<1>8. \A q \in Launchers : q # p => CandidateIsApart(q)' /\ SyncIsOfCurrent(q)'
    BY <1>1, <1>3, OthersKeep
<1>9. CandidateIsApart(p)' /\ SyncIsOfCurrent(p)'
    BY <1>1, <1>3 DEF ClientInv, CandidateIsApart, SyncIsOfCurrent
<1>10. \A i \in DOMAIN checks : /\ checks[i] + FailDelay <= now
                                /\ checks[i] \in passed => checks[i] + OkDelay <= now
    BY <1>0 DEF ClientInv, NextCheckIsLate
<1>11. now \notin passed
    BY <1>0, <1>10 DEF ClientInv, NextCheckIsLate
<1>12. NextCheckIsLate'
  <2>1. ASSUME NEW i \in DOMAIN checks'
        PROVE  /\ checks'[i] + FailDelay <= nextCheck'
               /\ checks'[i] \in passed' => checks'[i] + OkDelay <= nextCheck'
    <3>1. CASE i = n
      BY <1>0, <1>1, <1>5, <1>11, <3>1
    <3>2. CASE i # n
      <4>1. i \in DOMAIN checks /\ checks'[i] = checks[i]
        BY <1>0, <1>4, <1>5, <2>1, <3>2
      <4> QED
        BY <1>0, <1>1, <1>10, <4>1
    <3> QED
      BY <3>1, <3>2
  <2>2. \A t \in passed' : \E i \in DOMAIN checks' : checks'[i] = t
    BY <1>0, <1>1, <1>4, <1>5 DEF ClientInv, NextCheckIsLate
  <2>3. ASSUME NEW q \in Launchers, pc'[q] \in UpdatePCs \ {"check"}
        PROVE  checks' # <<>> /\ start'[q] = checks'[Len(checks')]
    <3>1. q = p
      BY <1>2, <1>3, <2>3 DEF OneUpdater
    <3>2. n \in DOMAIN checks'
      BY <1>0, <1>4, <1>5
    <3> QED
      BY <1>5, <1>6, <3>1, <3>2
  <2> QED
    BY <2>1, <2>2, <2>3 DEF NextCheckIsLate
<1>13. ChecksAreThrottled'
  <2> SUFFICES ASSUME NEW i \in DOMAIN checks', NEW j \in DOMAIN checks', i < j
               PROVE  /\ checks'[j] >= checks'[i] + FailDelay
                      /\ checks'[i] \in passed' => checks'[j] >= checks'[i] + OkDelay
    BY DEF ChecksAreThrottled
  <2>1. i \in DOMAIN checks /\ checks'[i] = checks[i]
    BY <1>0, <1>4, <1>5
  <2>2. CASE j = n
    BY <1>0, <1>1, <1>5, <1>10, <2>1, <2>2
  <2>3. CASE j # n
    <3>1. j \in DOMAIN checks /\ checks'[j] = checks[j]
      BY <1>0, <1>4, <1>5, <2>3
    <3> QED
      BY <1>1, <2>1, <3>1 DEF ClientInv, ChecksAreThrottled
  <2> QED
    BY <2>2, <2>3
<1> QED
    BY <1>3, <1>7, <1>8, <1>9, <1>12, <1>13 DEF ClientInv

(* A check that succeeded is the last one: none before it moves next-check *)
(* further.                                                                *)
LEMMA RecordKeeps ==
    ASSUME ClientInv, NEW p \in Launchers, Record(p)
    PROVE  ClientInv'
<1>0. TypeOK /\ now \in Nat /\ nextCheck \in Nat /\ checks \in Seq(Nat)
      /\ Len(checks) \in Nat /\ DOMAIN checks = 1..Len(checks) /\ passed \subseteq Nat
      /\ pc \in [Launchers -> PCs] /\ start \in [Launchers -> Nat]
      /\ (\A i \in DOMAIN checks : checks[i] \in Nat)
      /\ FailDelay \in Nat /\ FailDelay > 0 /\ OkDelay \in Nat /\ FailDelay <= OkDelay
    BY DelayAssumption DEF ClientInv, TypeOK, PCs
<1>1. /\ pc[p] \in {"record", "unchanged"} /\ pc' = [pc EXCEPT ![p] = "run"]
      /\ nextCheck' = start[p] + OkDelay /\ passed' = passed \cup {start[p]}
      /\ UNCHANGED <<offered, dirs, current, previous, now, locals, checks, left>>
    BY DEF Record, Goto
<1>2. {"record", "unchanged"} \subseteq UpdatePCs \ {"check"} /\ "run" \notin UpdatePCs
      /\ "run" \in PCs /\ "run" # "sync" /\ "run" \notin ExclusivePCs
    BY DEF UpdatePCs, ExclusivePCs, PCs
<1>3. pc' \in [Launchers -> PCs] /\ pc'[p] = "run" /\ (\A q \in Launchers : q # p => pc'[q] = pc[q])
      /\ OneUpdater' /\ RunLockIsExclusive'
    BY <1>1, <1>2, LocksKeep
<1>4. checks # <<>> /\ start[p] = checks[Len(checks)] /\ Len(checks) \in DOMAIN checks /\ start[p] \in Nat
    BY <1>0, <1>1, <1>2 DEF ClientInv, NextCheckIsLate
<1>5. \A i \in DOMAIN checks : i # Len(checks) => checks[i] + FailDelay <= start[p]
    BY <1>0, <1>4 DEF ClientInv, ChecksAreThrottled
<1>6. TypeOK'
  <2>1. nextCheck' \in Nat /\ passed' \subseteq Nat
    <3>1. start[p] + OkDelay \in Nat
      BY <1>0, <1>4
    <3> QED
      BY <1>0, <1>1, <1>4, <3>1
  <2> QED
    BY <1>0, <1>1, <1>3, <2>1 DEF TypeOK, PCs, locals
<1>7. \A q \in Launchers : q # p => CandidateIsApart(q)' /\ SyncIsOfCurrent(q)'
    BY <1>1, <1>3, OthersKeep DEF locals
<1>8. CandidateIsApart(p)' /\ SyncIsOfCurrent(p)'
    BY <1>1, <1>3 DEF ClientInv, CandidateIsApart, SyncIsOfCurrent, locals
<1>9. NextCheckIsLate'
  <2>1. ASSUME NEW i \in DOMAIN checks
        PROVE  checks[i] + FailDelay <= nextCheck' /\ checks[i] + OkDelay <= nextCheck'
    BY <1>0, <1>1, <1>4, <1>5
  <2>2. \A t \in passed' : \E i \in DOMAIN checks : checks[i] = t
    BY <1>1, <1>4 DEF ClientInv, NextCheckIsLate
  <2>3. \A q \in Launchers : pc'[q] \notin UpdatePCs \ {"check"}
    BY <1>1, <1>2, <1>3 DEF ClientInv, OneUpdater
  <2> QED
    BY <1>1, <2>1, <2>2, <2>3 DEF NextCheckIsLate
<1>10. ChecksAreThrottled'
  <2> SUFFICES ASSUME NEW i \in DOMAIN checks, NEW j \in DOMAIN checks, i < j
               PROVE  /\ checks[j] >= checks[i] + FailDelay
                      /\ checks[i] \in passed' => checks[j] >= checks[i] + OkDelay
    BY <1>1 DEF ChecksAreThrottled
  <2>1. /\ checks[j] >= checks[i] + FailDelay
        /\ checks[i] \in passed => checks[j] >= checks[i] + OkDelay
    BY DEF ClientInv, ChecksAreThrottled
  <2>2. checks[i] # start[p]
    BY <1>0, <1>5
  <2> QED
    BY <1>1, <2>1, <2>2
<1> QED
    BY <1>3, <1>6, <1>7, <1>8, <1>9, <1>10 DEF ClientInv

(* The environment; a requested check starts the count of checks anew.     *)
LEMMA EnvironmentKeeps ==
    ASSUME ClientInv, Tick \/ Release \/ RequestCheck \/ UNCHANGED vars
    PROVE  ClientInv'
<1>0. TypeOK
    BY DEF ClientInv
<1>1. CASE Tick
  <2>1. TypeOK'
    BY <1>0, <1>1 DEF TypeOK, Tick, files, locals, history
  <2> QED
    BY <1>1, <2>1 DEF Tick, files, locals, history, ClientInv, OneUpdater, RunLockIsExclusive, SyncRuns,
        CandidateIsApart, SyncIsOfCurrent, Runnable, NextCheckIsLate, ChecksAreThrottled
<1>2. CASE Release
  <2>1. left' \in [BoundedEvents -> Nat]
    BY <1>0, <1>2, SpendIs DEF Release, BoundedEvents
  <2>2. TypeOK'
    BY <1>0, <1>2, <2>1 DEF TypeOK, Release, files, locals, history
  <2> QED
    BY <1>2, <2>2 DEF Release, files, locals, history, ClientInv, OneUpdater, RunLockIsExclusive, SyncRuns,
        CandidateIsApart, SyncIsOfCurrent, Runnable, NextCheckIsLate, ChecksAreThrottled
<1>3. CASE RequestCheck
  <2>1. left' \in [BoundedEvents -> Nat]
    BY <1>0, <1>3, SpendIs DEF RequestCheck, BoundedEvents
  <2>2. TypeOK'
    BY <1>0, <1>3, <2>1 DEF TypeOK, RequestCheck, locals
  <2>3. NextCheckIsLate' /\ ChecksAreThrottled'
    BY <1>3 DEF RequestCheck, UpdateLockFree, NextCheckIsLate, ChecksAreThrottled
  <2> QED
    BY <1>3, <2>2, <2>3 DEF RequestCheck, locals, ClientInv, OneUpdater, RunLockIsExclusive, SyncRuns,
        CandidateIsApart, SyncIsOfCurrent, Runnable
<1>4. CASE UNCHANGED vars
  <2>1. TypeOK'
    BY <1>0, <1>4 DEF TypeOK, vars, files, locals, history
  <2> QED
    BY <1>4, <2>1 DEF vars, files, locals, history, ClientInv, OneUpdater, RunLockIsExclusive, SyncRuns,
        CandidateIsApart, SyncIsOfCurrent, Runnable, NextCheckIsLate, ChecksAreThrottled
<1> QED
    BY <1>1, <1>2, <1>3, <1>4

LEMMA ClientInitially == Init => ClientInv
<1> SUFFICES ASSUME Init PROVE ClientInv
    OBVIOUS
<1>1. dirs \in Seq(Dirs) /\ Len(dirs) = 1
    BY DEF Init, Dirs
<1>2. checks = <<>> /\ checks \in Seq(Nat) /\ DOMAIN checks = {}
    BY DEF Init
<1>3. pc = [p \in Launchers |-> "idle"] /\ pc \in [Launchers -> {"idle", "lock", "run", "sync"} \cup UpdatePCs]
      /\ "idle" \notin UpdatePCs /\ "idle" \notin ExclusivePCs
    BY DEF Init, UpdatePCs, ExclusivePCs
<1>4. left \in [BoundedEvents -> Nat]
    BY BudgetsAssumption DEF Init
<1>5. TypeOK
    BY <1>1, <1>2, <1>3, <1>4 DEF Init, TypeOK
<1>6. OneUpdater /\ RunLockIsExclusive
    BY <1>3 DEF OneUpdater, RunLockIsExclusive
<1>7. \A p \in Launchers : CandidateIsApart(p) /\ SyncIsOfCurrent(p)
    BY <1>3 DEF Init, CandidateIsApart, SyncIsOfCurrent
<1>8. NextCheckIsLate /\ ChecksAreThrottled
    BY <1>2, <1>3 DEF Init, NextCheckIsLate, ChecksAreThrottled
<1> QED
    BY <1>5, <1>6, <1>7, <1>8 DEF ClientInv

LEMMA ClientStepKeeps == ClientInv /\ [Next]_vars => ClientInv'
BY PlainStepKeeps, CleanupKeeps, DirectoryStepKeeps, BackOffKeeps, RecordKeeps, EnvironmentKeeps
   DEF Next, Step, Update

LEMMA ClientInvariant == Spec => []ClientInv
BY ClientInitially, ClientStepKeeps, PTL DEF Spec

----------------------------------------------------------------------------
(* Theorems *)

(* However many jobs share the client directory and wherever they are      *)
(* stopped, the version whose sync.sh runs is the current one and is never *)
(* removed under it: run.lock is shared by syncs and exclusive to updates. *)
THEOREM SyncVersionIsKept == Spec => []SyncKeepsItsVersion
<1>1. ClientInv => SyncKeepsItsVersion
    BY DEF ClientInv, SyncKeepsItsVersion, SyncIsOfCurrent
<1> QED
    BY <1>1, ClientInvariant, PTL

(* The back-off that update.sh persists before it uses the network keeps   *)
(* all jobs of a host from checking more often than once an hour, and once *)
(* a day after a success, whichever of them is killed or fails.            *)
THEOREM ThrottleHolds == Spec => []ChecksAreThrottled
<1>1. ClientInv => ChecksAreThrottled
    BY DEF ClientInv
<1> QED
    BY <1>1, ClientInvariant, PTL

(* What one step does to the links and the versions they lead to.          *)
LEMMA LinksStep ==
    ASSUME ClientInv, [Next]_vars
    PROVE  \/ SignalAfterSwitch
           \/ /\ Runnable(current) => Runnable(current)'
              /\ \/ previous' = previous /\ (previous # 0 /\ Runnable(previous) => Runnable(previous)')
                 \/ \E p \in Launchers : pc[p] = "link" /\ previous' = prev[p] /\ UNCHANGED dirs
<1>0. TypeOK /\ current \in DOMAIN dirs /\ previous \in Nat /\ (previous # 0 => previous \in DOMAIN dirs)
    BY DEF ClientInv, TypeOK
<1>1. CASE UNCHANGED <<dirs, current, previous>>
    BY <1>1 DEF Runnable
<1>2. ASSUME NEW p \in Launchers, LinkPrevious(p)
      PROVE  pc[p] = "link" /\ previous' = prev[p] /\ UNCHANGED <<dirs, current>>
    BY <1>2 DEF LinkPrevious, Goto
<1>3. ASSUME UNCHANGED previous, dirs'[current'].state = "complete",
             previous # 0 => dirs'[previous] = dirs[previous]
      PROVE  (Runnable(current) => Runnable(current)')
             /\ previous' = previous /\ (previous # 0 /\ Runnable(previous) => Runnable(previous)')
    BY <1>3 DEF Runnable
<1>4. ASSUME UNCHANGED <<current, previous>>, dirs'[current] = dirs[current],
             previous # 0 => dirs'[previous] = dirs[previous]
      PROVE  (Runnable(current) => Runnable(current)')
             /\ previous' = previous /\ (previous # 0 /\ Runnable(previous) => Runnable(previous)')
    BY <1>4 DEF Runnable
<1>5. ASSUME NEW p \in Launchers, Terminate(p) \/ RunLockTimeout(p) \/ CheckFails(p), ~SignalAfterSwitch
      PROVE  UNCHANGED <<current, previous>> /\ dirs'[current] = dirs[current]
             /\ (previous # 0 => dirs'[previous] = dirs[previous])
  <2>1. Cleanup(p) /\ UNCHANGED <<current, previous>>
    BY <1>5 DEF Terminate, RunLockTimeout, CheckFails
  <2>2. pc[p] # "switched"
    <3>1. CASE Terminate(p)
      BY <1>0, <1>5, <3>1, SpendIs DEF Terminate, SignalAfterSwitch, BoundedEvents
    <3>2. CASE RunLockTimeout(p) \/ CheckFails(p)
      BY <3>2 DEF RunLockTimeout, CheckFails, Goto
    <3> QED
      BY <1>5, <3>1, <3>2
  <2>3. cand[p] = 0 \/ cand[p] \notin {current, previous}
    BY <2>2 DEF ClientInv, CandidateIsApart
  <2>4. \A d \in DOMAIN dirs : d # cand[p] => dirs'[d] = dirs[d]
    BY <1>0, <2>1, CleanupIs
  <2>5. current # 0
    BY DEF ClientInv, TypeOK
  <2>6. current # cand[p] /\ (previous # 0 => previous # cand[p])
    BY <2>3, <2>5
  <2> QED
    BY <1>0, <2>1, <2>4, <2>6
<1>6. ASSUME NEW p \in Launchers, Download(p)
      PROVE  UNCHANGED <<current, previous>> /\ dirs'[current] = dirs[current]
             /\ (previous # 0 => dirs'[previous] = dirs[previous])
  <2>1. PICK new : dirs' = Append(dirs, new)
    BY <1>6 DEF Download
  <2>2. \A d \in DOMAIN dirs : dirs'[d] = dirs[d]
    BY <1>0, <2>1 DEF TypeOK
  <2> QED
    BY <1>0, <1>6, <2>2 DEF Download
<1>7. ASSUME NEW p \in Launchers, Stage(p)
      PROVE  UNCHANGED <<current, previous>> /\ dirs'[current] = dirs[current]
             /\ (previous # 0 => dirs'[previous] = dirs[previous])
  <2>1. pc[p] = "staging" /\ Marked(cand[p], "complete") /\ UNCHANGED <<current, previous>>
    BY <1>7 DEF Stage, Goto, Marked
  <2>2. cand[p] \notin {current, previous}
    BY <2>1 DEF ClientInv, CandidateIsApart
  <2>3. \A d \in DOMAIN dirs : d # cand[p] => dirs'[d] = dirs[d]
    BY <1>0, <2>1, ChangeOfStateIs
  <2> QED
    BY <1>0, <2>1, <2>2, <2>3
<1>8. ASSUME NEW p \in Launchers, Switch(p)
      PROVE  UNCHANGED previous /\ dirs'[current'].state = "complete"
             /\ (previous # 0 => dirs'[previous] = dirs[previous])
  <2>1. pc[p] = "locked" /\ current' = cand[p] /\ UNCHANGED <<dirs, previous>>
    BY <1>8 DEF Switch, Goto
  <2> QED
    BY <2>1 DEF ClientInv, CandidateIsApart, Runnable
<1>9. ASSUME NEW p \in Launchers, NEW d \in DOMAIN dirs, Prune(p, d)
      PROVE  UNCHANGED <<current, previous>> /\ dirs'[current] = dirs[current]
             /\ (previous # 0 => dirs'[previous] = dirs[previous])
  <2>1. pc[p] = "prune" /\ Marked(d, "gone") /\ UNCHANGED <<current, previous>> /\ d \notin {current, prev[p]}
    BY <1>9 DEF Prune, Marked, Retained
  <2>2. d \notin {current, previous}
    BY <2>1 DEF ClientInv, CandidateIsApart
  <2>3. \A e \in DOMAIN dirs : e # d => dirs'[e] = dirs[e]
    BY <1>0, <2>1, ChangeOfStateIs
  <2> QED
    BY <1>0, <2>1, <2>2, <2>3
<1>10. \/ UNCHANGED <<dirs, current, previous>>
       \/ \E p \in Launchers :
            \/ Terminate(p) \/ RunLockTimeout(p) \/ CheckFails(p)
            \/ LinkPrevious(p) \/ Download(p) \/ Stage(p) \/ Switch(p) \/ \E d \in DOMAIN dirs : Prune(p, d)
    BY DEF Next, Step, Update, vars, files, Tick, Release, RequestCheck, Launch, Kill, SyncEnds, RunSync,
           ExecFails, AcquireUpdateLock, Throttled, BackOff, Manifest, AcquireRunLock, ClearCandidate,
           PruneDone, Record
<1>11. ASSUME NEW p \in Launchers, LinkPrevious(p) PROVE Runnable(current) => Runnable(current)'
    BY <1>2, <1>11 DEF Runnable
<1> QED
    BY <1>1, <1>2, <1>3, <1>4, <1>5, <1>6, <1>7, <1>8, <1>9, <1>10, <1>11

(* No failure, kill or signal at any command of any job breaks the links,  *)
(* except a signal handled between the switch of current and the clearing  *)
(* of the candidate variable: the finding of the run client_update_signal  *)
(* is the only way in which update.sh loses an installed client.           *)
THEOREM OnlyOneSignalBreaksLinks == Spec => LinksStaySound
<1> DEFINE Sound ==
        /\ InstalledClientRuns => InstalledClientRuns' \/ SignalAfterSwitch
        /\ RollbackTargetExists =>
             \/ RollbackTargetExists' \/ SignalAfterSwitch
             \/ \E p \in Launchers : pc[p] = "link" /\ ~Runnable(prev[p])
<1>1. ASSUME ClientInv, [Next]_vars PROVE Sound
  <2>1. CASE SignalAfterSwitch
    BY <2>1
  <2>2. CASE ~SignalAfterSwitch
    <3>1. InstalledClientRuns => InstalledClientRuns'
      BY <1>1, <2>2, LinksStep DEF InstalledClientRuns
    <3>2. CASE previous' = previous /\ (previous # 0 /\ Runnable(previous) => Runnable(previous)')
      BY <3>1, <3>2 DEF RollbackTargetExists
    <3>3. ASSUME NEW p \in Launchers, pc[p] = "link", previous' = prev[p], UNCHANGED dirs
          PROVE  RollbackTargetExists' \/ ~Runnable(prev[p])
      BY <3>3 DEF RollbackTargetExists, Runnable
    <3> QED
      BY <1>1, <2>2, <3>1, <3>2, <3>3, LinksStep
  <2> QED
    BY <2>1, <2>2
<1>2. ClientInv /\ [Next]_vars => [Sound]_vars
    BY <1>1
<1> HIDE DEF Sound
<1>3. Spec => [][Sound]_vars
    BY <1>2, ClientInvariant, PTL DEF Spec
<1> QED
    BY <1>3 DEF Sound, LinksStaySound

=============================================================================
